------------------------ MODULE DocumentReading_proofs ------------------------
(***************************************************************************)
(* Proofs about DocumentReading, for files of any number of pages with any *)
(* lines on them, whatever renders, fails or is answered, and any limits.  *)
(***************************************************************************)
EXTENDS DocumentReading, FiniteSetTheorems, WellFoundedInduction, TLAPS

-----------------------------------------------------------------------------
(* Numbers: least and greatest ones, and recursion up to one.              *)

LEMMA Least ==
  ASSUME NEW T, T \subseteq Nat, T # {}
  PROVE  \E m \in T : \A k \in T : m <= k
  <1> DEFINE R == OpToRel(<, Nat)
  <1>1. IsWellFoundedOn(R, Nat) BY NatLessThanWellFounded
  <1>2. \A x, y \in Nat : <<y, x>> \in R <=> y < x BY DEF OpToRel
  <1> HIDE DEF R
  <1>3. PICK m \in T : \A k \in T : ~(<<k, m>> \in R) BY <1>1, WFMin
  <1>4. \A k \in T : ~(k < m) BY <1>2, <1>3
  <1>5. \A k \in T : m <= k BY <1>4
  <1> QED BY <1>5

LEMMA Greatest ==
  ASSUME NEW n \in Nat, NEW T, T \subseteq 0..n, T # {}
  PROVE  \E m \in T : \A k \in T : k <= m
  <1> DEFINE U == {n - k : k \in T}
  <1>1. U \subseteq Nat /\ U # {}
    <2>1. \A k \in T : n - k \in Nat OBVIOUS
    <2>2. PICK k \in T : TRUE OBVIOUS
    <2> QED BY <2>1, <2>2
  <1>2. PICK u \in U : \A k \in U : u <= k BY <1>1, Least
  <1>3. PICK m \in T : u = n - m BY <1>2
  <1>4. \A k \in T : n - m <= n - k BY <1>2, <1>3
  <1>5. \A k \in T : k <= m BY <1>4
  <1> QED BY <1>5

\* What holds at 0 and passes from each number to the next holds up to n.
LEMMA UpTo ==
  ASSUME NEW n \in Nat, NEW T, 0 \in T, \A i \in 1..n : i - 1 \in T => i \in T
  PROVE  \A i \in 0..n : i \in T
  <1> DEFINE U == {i \in 0..n : i \notin T}
  <1>1. CASE U = {} BY <1>1
  <1>2. CASE U # {}
    <2>1. U \subseteq Nat OBVIOUS
    <2>2. PICK m \in U : \A k \in U : m <= k BY <1>2, <2>1, Least
    <2>3. m \in 1..n /\ m - 1 \in 0..n /\ m \notin T BY <2>2
    <2>4. m - 1 \notin U BY <2>2, <2>3
    <2>5. m - 1 \in T BY <2>3, <2>4
    <2> QED BY <2>3, <2>5
  <1> QED BY <1>1, <1>2

\* h is what the recursion from base by the functions of G computes.
Solves(h, n, base, G) == h[0] = base /\ \A i \in 1..n : h[i] = G[i][h[i - 1]]

\* A recursion whose step is a function has a solution.  Proofs about a fold give it
\* the step restricted to the type S of the accumulator (G): the function the fold
\* chooses then solves its equation (E), and Reaches has its value in S.
LEMMA Recursion ==
  ASSUME NEW n \in Nat, NEW S, NEW base \in S, NEW G \in [1..n -> [S -> S]]
  PROVE  \E h \in [0..n -> S] : Solves(h, n, base, G)
  <1> DEFINE T == {m \in 0..n : \E h \in [0..m -> S] : Solves(h, m, base, G)}
  <1>1. 0 \in T
    <2> DEFINE h == [i \in 0..0 |-> base]
    <2>1. h \in [0..0 -> S] /\ Solves(h, 0, base, G) BY DEF Solves
    <2>2. \E g \in [0..0 -> S] : Solves(g, 0, base, G)
      <3> HIDE DEF h
      <3> QED BY <2>1
    <2>3. 0 \in 0..n OBVIOUS
    <2> QED BY <2>2, <2>3
  <1>2. ASSUME NEW m \in 1..n, m - 1 \in T PROVE m \in T
    <2>1. PICK h \in [0..(m - 1) -> S] : Solves(h, m - 1, base, G) BY <1>2
    <2> DEFINE g == [i \in 0..m |-> IF i = m THEN G[m][h[m - 1]] ELSE h[i]]
    <2>2. m - 1 \in 0..(m - 1) /\ m # 0 /\ h[m - 1] \in S BY <2>1
    <2>3. G[m][h[m - 1]] \in S BY <2>2
    <2>4. \A i \in 0..m : i = m \/ i \in 0..(m - 1) OBVIOUS
    <2>5. g \in [0..m -> S] BY <2>3, <2>4
    <2>6. g[0] = base BY <2>1, <2>2 DEF Solves
    <2>7. ASSUME NEW i \in 1..m PROVE g[i] = G[i][g[i - 1]]
      <3>1. i - 1 \in 0..m /\ i - 1 # m /\ g[i - 1] = h[i - 1] OBVIOUS
      <3>2. CASE i = m BY <3>1, <3>2
      <3>3. CASE i # m
        <4>1. i \in 1..(m - 1) /\ g[i] = h[i] BY <3>3
        <4> QED BY <2>1, <3>1, <4>1 DEF Solves
      <3> QED BY <3>2, <3>3
    <2>8. Solves(g, m, base, G) BY <2>6, <2>7 DEF Solves
    <2>9. \E k \in [0..m -> S] : Solves(k, m, base, G)
      <3> HIDE DEF g
      <3> QED BY <2>5, <2>8
    <2>10. m \in 0..n OBVIOUS
    <2> QED BY <2>9, <2>10
  <1> HIDE DEF T
  <1>3. \A i \in 0..n : i \in T BY <1>1, <1>2, UpTo
  <1>4. n \in T BY <1>3
  <1> QED BY <1>4 DEF T

\* What each step of a recursion keeps holds at its end.
LEMMA Reaches ==
  ASSUME NEW n \in Nat, NEW S, NEW f, f[0] \in S, \A i \in 1..n : f[i - 1] \in S => f[i] \in S
  PROVE  f[n] \in S
  <1> DEFINE T == {i \in 0..n : f[i] \in S}
  <1>1. 0 \in T OBVIOUS
  <1>2. \A i \in 1..n : i - 1 \in T => i \in T OBVIOUS
  <1> HIDE DEF T
  <1>3. n \in T BY <1>1, <1>2, UpTo
  <1> QED BY <1>3 DEF T

-----------------------------------------------------------------------------
(* Sequences, and the lines of pages.                                      *)

LEMMA SeqOfItsOwn ==
  ASSUME NEW S, NEW s \in Seq(S)
  PROVE  s \in Seq(ToSet(s)) /\ ToSet(s) \subseteq S
  <1>1. Len(s) \in Nat /\ DOMAIN s = 1..Len(s) /\ s = [i \in 1..Len(s) |-> s[i]]
        /\ \A i \in 1..Len(s) : s[i] \in S
    OBVIOUS
  <1>2. ToSet(s) = {s[i] : i \in 1..Len(s)} BY <1>1, Zenon DEF ToSet
  <1>3. \A i \in 1..Len(s) : s[i] \in ToSet(s) BY <1>2
  <1>4. s \in [1..Len(s) -> ToSet(s)] BY <1>1, <1>3, Zenon
  <1>5. s \in Seq(ToSet(s)) BY <1>1, <1>4
  <1> QED BY <1>1, <1>2, <1>5

\* What is kept of a sequence.
LEMMA KeepOf ==
  ASSUME NEW X, NEW s \in Seq(X), NEW I
  PROVE  Keep(s, I) \in Seq(X)
  <1> DEFINE all == [i \in 1..Len(s) |-> i]
             n == Len(all)
             S == Seq(X)
             base == <<>>
             op(out, i) == IF i \in I THEN Append(out, s[i]) ELSE out
             G == [i \in 1..n |-> [a \in S |-> op(a, all[i])]]
             E(g) == [i \in 0..n |->
                        IF i = 0 THEN base ELSE At(g[i - 1], LAMBDA a : op(a, all[i]))]
             f == CHOOSE g : g = E(g)
  <1>1. n \in Nat /\ n = Len(s) OBVIOUS
  <1>2. base \in S OBVIOUS
  <1>3. \A a \in S, i \in 1..n : op(a, all[i]) \in S
    <2>1. \A i \in 1..n : s[i] \in X /\ all[i] = i BY <1>1
    <2> HIDE DEF n, all
    <2> QED BY <2>1
  <1>4. Keep(s, I) = f[n]
    BY DEF Keep, Fold
  <1> HIDE DEF all
  <1> HIDE DEF op, S, n, base
  <1>5. PICK h \in [0..n -> S] : Solves(h, n, base, G)
    <2>1. G \in [1..n -> [S -> S]] BY <1>3
    <2> HIDE DEF G
    <2> QED BY <1>1, <1>2, <2>1, Recursion
  <1>6. \A g, i : At(g[i - 1], LAMBDA a : op(a, all[i])) = op(g[i - 1], all[i])
    BY Zenon DEF At
  <1>7. h = E(h)
    <2> SUFFICES ASSUME NEW i \in 0..n, i # 0 PROVE h[i] = op(h[i - 1], all[i])
      BY <1>5, <1>6 DEF Solves
    <2>1. i \in 1..n /\ h[i - 1] \in S BY <1>1
    <2> QED BY <1>5, <2>1 DEF Solves
  <1> HIDE DEF E
  <1>8. f = E(f) BY <1>7, Zenon
  <1> HIDE DEF f
  <1>9. \A i \in 0..n : f[i] = IF i = 0 THEN base ELSE op(f[i - 1], all[i]) BY <1>6, <1>8 DEF E
  <1>10. f[n] \in S
    <2>1. 0 \in 0..n /\ \A i \in 1..n : i \in 0..n /\ i # 0 BY <1>1
    <2>2. f[0] \in S /\ \A i \in 1..n : f[i - 1] \in S => f[i] \in S BY <1>2, <1>3, <1>9, <2>1
    <2> QED BY <1>1, <2>2, Reaches
  <1> QED BY <1>4, <1>10 DEF S

LEMMA SeqElements ==
  ASSUME NEW S, NEW s \in Seq(S)
  PROVE  /\ Len(s) \in Nat /\ DOMAIN s = 1..Len(s)
         /\ \A i \in DOMAIN s : s[i] \in S
  OBVIOUS

LEMMA MorePages ==
  ASSUME NEW P, NEW Q, P \subseteq Q
  PROVE  Seq(LinesOn(P)) \subseteq Seq(LinesOn(Q))
  <1>1. LinesOn(P) \subseteq LinesOn(Q) BY DEF LinesOn
  <1> HIDE DEF LinesOn
  <1> QED BY <1>1

-----------------------------------------------------------------------------
(* Rendering: an image is of the page it stands for.                       *)

\* Each page that is wanted is in one of the runs.
LEMMA InARun ==
  ASSUME NEW n \in Nat, NEW wanted, wanted \subseteq 1..n, NEW p \in wanted
  PROVE  \E run \in Runs(wanted) : p \in run[1]..run[2]
  <1> DEFINE low  == {i \in 1..p : i..p \subseteq wanted}
             high == {i \in p..n : p..i \subseteq wanted}
  <1>1. p \in 1..n /\ p..p = {p} OBVIOUS
  <1>2. p \in low /\ p \in high BY <1>1
  <1>3. PICK first \in low : \A k \in low : first <= k
    <2>1. low \subseteq Nat OBVIOUS
    <2> QED BY <1>2, <2>1, Least
  <1>4. PICK last \in high : \A k \in high : k <= last
    <2>1. high \subseteq 0..n OBVIOUS
    <2> QED BY <1>2, <2>1, Greatest
  <1>5. /\ first \in 1..p /\ last \in p..n
        /\ first..p \subseteq wanted /\ p..last \subseteq wanted
    BY <1>3, <1>4
  <1>6. first..last \subseteq wanted
    <2> SUFFICES ASSUME NEW i \in first..last PROVE i \in wanted OBVIOUS
    <2>1. i \in first..p \/ i \in p..last BY <1>1, <1>5
    <2> QED BY <1>5, <2>1
  <1>7. first - 1 \notin wanted
    <2> SUFFICES ASSUME first - 1 \in wanted PROVE FALSE OBVIOUS
    <2>1. first - 1 \in 1..p BY <1>1, <1>5
    <2>2. \A i \in (first - 1)..p : i = first - 1 \/ i \in first..p BY <1>1, <1>5
    <2>3. first - 1 \in low BY <1>5, <2>1, <2>2
    <2>4. first <= first - 1 BY <1>3, <2>3
    <2> QED BY <1>5, <2>4
  <1>8. last + 1 \notin wanted
    <2> SUFFICES ASSUME last + 1 \in wanted PROVE FALSE OBVIOUS
    <2>1. last + 1 \in p..n BY <1>1, <1>5
    <2>2. \A i \in p..(last + 1) : i = last + 1 \/ i \in p..last BY <1>1, <1>5
    <2>3. last + 1 \in high BY <1>5, <2>1, <2>2
    <2>4. last + 1 <= last BY <1>4, <2>3
    <2> QED BY <1>5, <2>4
  <1>9. first \in wanted /\ last \in wanted /\ first <= last /\ p \in first..last
    BY <1>1, <1>5, <1>6
  <1> DEFINE run == <<first, last>>
  <1>10. run \in wanted \X wanted /\ run[1] = first /\ run[2] = last BY <1>9
  <1> HIDE DEF run
  <1>11. run \in Runs(wanted) BY <1>6, <1>7, <1>8, <1>9, <1>10 DEF Runs
  <1> QED BY <1>9, <1>10, <1>11

\* The images of a run.
LEMMA RunImagesOf ==
  ASSUME NEW file, NEW first \in Nat, NEW last \in Nat,
         NEW p \in DOMAIN RunImages(file, first, last), p \in first..last
  PROVE  RunImages(file, first, last)[p] = p
  <1>1. CASE Converts(file, first, last)
    <2>1. RunImages(file, first, last)[p] = Convert(first, last)[p - first + 1]
      BY <1>1 DEF RunImages
    <2>2. p - first + 1 \in 1..(last - first + 1) /\ first + (p - first + 1) - 1 = p OBVIOUS
    <2> QED BY <2>1, <2>2 DEF Convert
  <1>2. CASE ~Converts(file, first, last)
    <2>1. RunImages(file, first, last)[p] = Convert(p, p)[1] BY <1>2 DEF RunImages
    <2>2. Convert(p, p)[1] = p BY DEF Convert
    <2> QED BY <2>1, <2>2
  <1> QED BY <1>1, <1>2

\* Whether a page is rendered with its neighbours, alone or by the second
\* renderer, its image is of that page.
LEMMA ImageIsOfItsPage ==
  ASSUME NEW n \in Nat, NEW wanted, wanted \subseteq 1..n, NEW file
  PROVE  LET im == RenderPages(file, wanted)
         IN  DOMAIN im \subseteq wanted /\ \A p \in DOMAIN im : im[p] = p
  <1> DEFINE run(p)  == CHOOSE r \in Runs(wanted) : p \in r[1]..r[2]
             image(p) == RunImages(file, run(p)[1], run(p)[2])
             poppler == {p \in wanted : p \in DOMAIN image(p)}
             pdfium  == {p \in wanted \ poppler : RenderedBy(file, p, {"poppler", "pdfium"})}
  <1>1. RenderPages(file, wanted)
          = [p \in poppler \cup pdfium |-> IF p \in poppler THEN image(p)[p] ELSE p]
    BY DEF RenderPages
  <1>2. ASSUME NEW p \in poppler PROVE image(p)[p] = p
    <2>1. run(p) \in Runs(wanted) /\ p \in run(p)[1]..run(p)[2] BY InARun
    <2>2. run(p)[1] \in Nat /\ run(p)[2] \in Nat
      <3> HIDE DEF run
      <3>1. run(p) \in wanted \X wanted BY <2>1 DEF Runs
      <3>2. run(p)[1] \in wanted /\ run(p)[2] \in wanted BY <3>1
      <3>3. \A i \in wanted : i \in Nat OBVIOUS
      <3> QED BY <3>2, <3>3
    <2>3. p \in DOMAIN image(p) OBVIOUS
    <2> HIDE DEF run
    <2> QED BY <2>1, <2>2, <2>3, RunImagesOf
  <1> HIDE DEF image
  <1>3. poppler \cup pdfium \subseteq wanted OBVIOUS
  <1> QED BY <1>1, <1>2, <1>3

-----------------------------------------------------------------------------
(* The clean-up of a transcription takes lines away, or shortens them.     *)

LEMMA RunStartIs ==
  ASSUME NEW S, NEW text \in Seq(S), NEW last \in 0..Len(text), NEW kind
  PROVE  RunStart(text, last, kind) \in 1..(last + 1)
  <1> DEFINE Begins(i) == \A j \in i..last : text[j].kind = kind
             T == {i \in 1..(last + 1) : Begins(i)}
  <1>1. last \in Nat /\ last + 1 \in T OBVIOUS
  <1>2. PICK m \in T : \A k \in T : m <= k
    <2>1. T \subseteq Nat BY <1>1
    <2> QED BY <1>1, <2>1, Least
  <1>3. m > 1 => text[m - 1].kind # kind
    <2> SUFFICES ASSUME m > 1, text[m - 1].kind = kind PROVE FALSE OBVIOUS
    <2>1. m \in 1..(last + 1) /\ Begins(m) BY <1>2
    <2>2. \A j \in (m - 1)..last : j = m - 1 \/ j \in m..last BY <1>1, <2>1
    <2>3. Begins(m - 1) BY <2>1, <2>2
    <2>4. m - 1 \in 1..(last + 1) BY <1>1, <2>1
    <2>5. m <= m - 1 BY <1>2, <2>3, <2>4
    <2> QED BY <2>1, <2>5
  <1>4. \E i \in 1..(last + 1) : /\ \A j \in i..last : text[j].kind = kind
                                 /\ i > 1 => text[i - 1].kind # kind
    BY <1>2, <1>3
  <1> QED BY <1>4 DEF RunStart

LEMMA CleanedOf ==
  ASSUME NEW P, NEW text \in Seq(LinesOn(P))
  PROVE  Cleaned(text) \in Seq(LinesOn(P))
  <1>1. TrimPeriods(text) \in Seq(LinesOn(P))
    <2>1. CASE text # <<>> /\ Last(text).kind = "periods"
      <3> DEFINE l == Last(text)
                 m == [l EXCEPT !.kind = "stub", !.to = @ - 1]
      <3>1. l \in LinesOn(P) BY <2>1 DEF Last
      <3>2. m \in LinesOn(P)
        <4>1. "stub" \in Kinds BY DEF Kinds
        <4>2. l.to - 1 \in Int BY <3>1 DEF LinesOn
        <4> HIDE DEF l
        <4> QED BY <3>1, <4>1, <4>2 DEF LinesOn
      <3>3. TrimPeriods(text) = ReplaceAt(text, Len(text), m) BY <2>1 DEF TrimPeriods
      <3> HIDE DEF m
      <3>4. ReplaceAt(text, Len(text), m) \in Seq(LinesOn(P)) BY <2>1, <3>2 DEF ReplaceAt
      <3> QED BY <3>3, <3>4
    <2>2. CASE ~(text # <<>> /\ Last(text).kind = "periods") BY <2>2 DEF TrimPeriods
    <2> QED BY <2>1, <2>2
  <1>2. ASSUME NEW t \in Seq(LinesOn(P)) PROVE TrimNumbered(t) \in Seq(LinesOn(P))
    <2> DEFINE last == RunStart(t, Len(t), "stub") - 1
               list == RunStart(t, last, "numbered")
               end  == RunStart(t, list - 1, "lead") - 1
    <2>1. TrimNumbered(t) = IF list > last THEN t ELSE SubSeq(t, 1, end)
      BY DEF TrimNumbered
    <2>2. last \in 0..Len(t)
      <3>1. Len(t) \in 0..Len(t) OBVIOUS
      <3>2. RunStart(t, Len(t), "stub") \in 1..(Len(t) + 1) BY <3>1, RunStartIs
      <3> QED BY <3>2
    <2> HIDE DEF last
    <2>3. list \in 1..(last + 1) BY <2>2, RunStartIs
    <2> HIDE DEF list
    <2>4. CASE list > last BY <2>1, <2>4
    <2>5. CASE ~(list > last)
      <3>1. list - 1 \in 0..Len(t) BY <2>2, <2>3, <2>5
      <3>2. RunStart(t, list - 1, "lead") \in 1..(list - 1 + 1) BY <3>1, RunStartIs
      <3>3. end \in 0..Len(t) BY <2>2, <2>3, <3>1, <3>2
      <3> HIDE DEF end
      <3>4. SubSeq(t, 1, end) \in Seq(LinesOn(P)) BY <3>3
      <3> QED BY <2>1, <2>5, <3>4
    <2> QED BY <2>4, <2>5
  <1> QED BY <1>1, <1>2 DEF Cleaned

\* What the model answers is of the page it is shown.
LEMMA AnswersOf ==
  ASSUME NEW P, 0 \in P, NEW ink \in Seq(LinesOn(P)), NEW text \in Seq(LinesOn(P)),
         NEW a \in Answers(ink, text)
  PROVE  a.text \in Seq(LinesOn(P))
  <1> DEFINE n == Given(text)
  <1>1. n \in Nat
    <2>1. IsFiniteSet(1..Len(text)) BY FS_Interval
    <2>2. {i \in DOMAIN text : text[i].page # 0} \subseteq 1..Len(text) OBVIOUS
    <2> QED BY <2>1, <2>2, FS_Subset, FS_CardinalityType DEF Given
  <1> DEFINE answer(part, m, f) == [text |-> part, finish |-> f,
                                    honest |-> f = "length" \/ m = Len(ink)]
             part(m, junk) == SubSeq(ink, n + 1, m) \o junk
             new == {answer(part(m, junk), m, f) :
                        m \in n..Len(ink), junk \in Junk, f \in {"stop", "length"}}
             old == {answer(SubSeq(text, k, Len(text)), n, f) :
                        k \in DOMAIN text, f \in {"stop", "length"}}
  <1>2. Answers(ink, text) = new \cup old BY DEF Answers
  <1> HIDE DEF n
  <1>3. ASSUME NEW m \in n..Len(ink), NEW junk \in Junk
        PROVE  SubSeq(ink, n + 1, m) \o junk \in Seq(LinesOn(P))
    <2>1. junk \in Seq(LinesOn(P))
      <3>1. \A kind \in Kinds, len \in Nat : Added(kind, len) \in LinesOn(P)
        BY DEF Added, Line, LinesOn
      <3>2. {"periods", "lead", "numbered"} \subseteq Kinds BY DEF Kinds
      <3>3. /\ <<Added("periods", 3)>> \in Seq(LinesOn(P))
            /\ <<Added("lead", 1), Added("numbered", 2)>> \in Seq(LinesOn(P))
            /\ <<>> \in Seq(LinesOn(P))
        <4>1. /\ Added("periods", 3) \in LinesOn(P)
              /\ Added("lead", 1) \in LinesOn(P)
              /\ Added("numbered", 2) \in LinesOn(P)
          BY <3>1, <3>2
        <4> QED BY <4>1
      <3> QED BY <3>3, Zenon DEF Junk
    <2>2. SubSeq(ink, n + 1, m) \in Seq(LinesOn(P)) BY <1>1
    <2> QED BY <2>1, <2>2
  <1>4. ASSUME NEW k \in DOMAIN text PROVE SubSeq(text, k, Len(text)) \in Seq(LinesOn(P))
    OBVIOUS
  <1>5. CASE a \in new
    <2>1. PICK m \in n..Len(ink), junk \in Junk, f \in {"stop", "length"} :
             a = answer(part(m, junk), m, f)
      <3> HIDE DEF answer, part
      <3> QED BY <1>5
    <2>2. a.text = SubSeq(ink, n + 1, m) \o junk BY <2>1
    <2> QED BY <1>3, <2>2
  <1>6. CASE a \in old
    <2>1. PICK k \in DOMAIN text, f \in {"stop", "length"} :
             a = answer(SubSeq(text, k, Len(text)), n, f)
      BY <1>6
    <2>2. a.text = SubSeq(text, k, Len(text)) BY <2>1
    <2> QED BY <1>4, <2>2
  <1> HIDE DEF new, old
  <1> QED BY <1>2, <1>5, <1>6

-----------------------------------------------------------------------------
(* Splitting a text: every piece holds lines of the pages of the text.     *)

LEMMA LengthType ==
  ASSUME NEW P, NEW text \in Seq(LinesOn(P))
  PROVE  Length(text) \in Int
  <1> DEFINE n == Len(text)
             S == Int
             base == 0
             op(a, l) == a + LineLen(l) + 1
             G == [i \in 1..n |-> [a \in S |-> op(a, text[i])]]
             E(g) == [i \in 0..n |->
                        IF i = 0 THEN base ELSE At(g[i - 1], LAMBDA a : op(a, text[i]))]
             f == CHOOSE g : g = E(g)
  <1>1. n \in Nat OBVIOUS
  <1>2. base \in S OBVIOUS
  <1>3. \A a \in S, i \in 1..n : op(a, text[i]) \in S
    <2>1. \A i \in 1..n : text[i] \in LinesOn(P) OBVIOUS
    <2>2. \A l \in LinesOn(P) : LineLen(l) \in Int BY DEF LinesOn, LineLen
    <2> QED BY <2>1, <2>2
  <1>4. Length(text) = IF text = <<>> THEN 0 ELSE f[n] - 1
    BY DEF Length, Fold
  <1> HIDE DEF op, S, n, base
  <1>5. PICK h \in [0..n -> S] : Solves(h, n, base, G)
    <2>1. G \in [1..n -> [S -> S]] BY <1>3
    <2> HIDE DEF G
    <2> QED BY <1>1, <1>2, <2>1, Recursion
  <1>6. \A g, i : At(g[i - 1], LAMBDA a : op(a, text[i])) = op(g[i - 1], text[i])
    BY Zenon DEF At
  <1>7. h = E(h)
    <2> SUFFICES ASSUME NEW i \in 0..n, i # 0 PROVE h[i] = op(h[i - 1], text[i])
      BY <1>5, <1>6 DEF Solves
    <2>1. i \in 1..n /\ h[i - 1] \in S BY <1>1
    <2> QED BY <1>5, <2>1 DEF Solves
  <1> HIDE DEF E
  <1>8. f = E(f) BY <1>7, Zenon
  <1> HIDE DEF f
  <1>9. \A i \in 0..n : f[i] = IF i = 0 THEN base ELSE op(f[i - 1], text[i]) BY <1>6, <1>8 DEF E
  <1>10. f[n] \in S
    <2>1. 0 \in 0..n /\ \A i \in 1..n : i \in 0..n /\ i # 0 BY <1>1
    <2>2. f[0] \in S /\ \A i \in 1..n : f[i - 1] \in S => f[i] \in S BY <1>2, <1>3, <1>9, <2>1
    <2> QED BY <1>1, <2>2, Reaches
  <1>11. f[n] - 1 \in Int BY <1>10 DEF S
  <1> QED BY <1>4, <1>11

\* Texts of at least one line, and what is gathered of them: the chunks finished
\* so far and the lines collected for the next one.
Full(P) == Seq(LinesOn(P)) \ {<<>>}
Gathered(P) == [chunks : Seq(Full(P)), cur : Seq(LinesOn(P)), size : Int]

LEMMA FlushOf ==
  ASSUME NEW P, NEW a \in Gathered(P)
  PROVE  Flush(a) \in Gathered(P) /\ Flush(a).chunks \in Seq(Full(P))
  <1>1. a.chunks \in Seq(Full(P)) /\ a.cur \in Seq(LinesOn(P)) BY DEF Gathered
  <1>2. CASE a.cur = <<>> BY <1>1, <1>2 DEF Flush
  <1>3. CASE a.cur # <<>>
    <2>1. a.cur \in Full(P) BY <1>1, <1>3 DEF Full
    <2>2. Append(a.chunks, a.cur) \in Seq(Full(P)) BY <1>1, <2>1
    <2>3. <<>> \in Seq(LinesOn(P)) OBVIOUS
    <2>4. Flush(a) = [chunks |-> Append(a.chunks, a.cur), cur |-> <<>>, size |-> 0]
      BY <1>3 DEF Flush
    <2>5. 0 \in Int OBVIOUS
    <2>6. Flush(a) \in Gathered(P)
      <3> DEFINE cs == Append(a.chunks, a.cur)
                 none == <<>>
      <3>1. cs \in Seq(Full(P)) /\ none \in Seq(LinesOn(P)) BY <2>2, <2>3
      <3>2. Flush(a) = [chunks |-> cs, cur |-> none, size |-> 0] BY <2>4
      <3> HIDE DEF cs, none
      <3> QED BY <3>1, <3>2 DEF Gathered
    <2> QED BY <2>2, <2>4, <2>6
  <1> QED BY <1>2, <1>3

LEMMA CollectOf ==
  ASSUME NEW P, NEW a \in Gathered(P), NEW lines \in Seq(LinesOn(P)), NEW n \in Int
  PROVE  Collect(a, lines, n) \in Gathered(P)
  <1>1. a.cur \o lines \in Seq(LinesOn(P)) BY DEF Gathered
  <1>2. a.size + n \in Int BY DEF Gathered
  <1> QED BY <1>1, <1>2 DEF Collect, Gathered

LEMMA MakeRoomOf ==
  ASSUME NEW P, NEW a \in Gathered(P), NEW n, NEW max
  PROVE  MakeRoom(a, n, max) \in Gathered(P)
  BY FlushOf DEF MakeRoom

LEMMA EmptyOf ==
  ASSUME NEW P
  PROVE  Empty \in Gathered(P)
  <1>1. <<>> \in Seq(Full(P)) /\ <<>> \in Seq(LinesOn(P)) /\ 0 \in Int OBVIOUS
  <1> QED BY <1>1, Zenon DEF Empty, Gathered

LEMMA PiecesOf ==
  ASSUME NEW P, NEW l \in LinesOn(P), NEW max \in Nat \ {0}
  PROVE  Pieces(l, max) \in Seq(LinesOn(P))
  <1> DEFINE k == (LineLen(l) + max - 1) \div max
  <1>1. l.from \in Int /\ l.to \in Int /\ LineLen(l) \in Int BY DEF LinesOn, LineLen
  <1>2. k \in Int BY <1>1
  <1>3. ASSUME NEW i \in 1..k
        PROVE  [l EXCEPT !.kind = "plain",
                         !.from = l.from + (i - 1) * max,
                         !.to   = IF l.from + i * max < l.to THEN l.from + i * max ELSE l.to]
                 \in LinesOn(P)
    <2> DEFINE from == l.from + (i - 1) * max
               to == IF l.from + i * max < l.to THEN l.from + i * max ELSE l.to
    <2>1. from \in Int /\ to \in Int BY <1>1, <1>2
    <2>2. "plain" \in Kinds BY DEF Kinds
    <2> HIDE DEF from, to
    <2>3. [l EXCEPT !.kind = "plain", !.from = from, !.to = to] \in LinesOn(P)
      BY <2>1, <2>2 DEF LinesOn
    <2> QED BY <2>3 DEF from, to
  <1> DEFINE piece(i) == [l EXCEPT !.kind = "plain",
                         !.from = l.from + (i - 1) * max,
                         !.to   = IF l.from + i * max < l.to THEN l.from + i * max ELSE l.to]
  <1>4. Pieces(l, max) = [i \in 1..k |-> piece(i)] BY DEF Pieces
  <1>5. \A i \in 1..k : piece(i) \in LinesOn(P) BY <1>3
  <1> HIDE DEF k, piece
  <1>6. PICK m \in Nat : 1..k = 1..m
    <2>1. CASE k \in Nat BY <2>1
    <2>2. CASE k \notin Nat
      <3>1. 1..k = 1..0 BY <1>2, <2>2
      <3> QED BY <3>1
    <2> QED BY <2>1, <2>2
  <1>7. Pieces(l, max) = [i \in 1..m |-> piece(i)] BY <1>4, <1>6, Zenon
  <1>8. \A i \in 1..m : piece(i) \in LinesOn(P) BY <1>5, <1>6, Zenon
  <1> QED BY <1>7, <1>8

LEMMA OverlappingOf ==
  ASSUME NEW P, NEW chunk \in Full(P), NEW n \in Int
  PROVE  Overlapping(chunk, n) \in Seq(LinesOn(P))
  <1> DEFINE fits(i) == i > 1 /\ Length(SubSeq(chunk, i, Len(chunk))) < n
             whole == {i \in DOMAIN chunk : fits(i)}
             last == chunk[Len(chunk)]
             first == CHOOSE i \in whole : \A j \in whole : i <= j
             from == IF last.to - n > last.from THEN last.to - n ELSE last.from
             part == [last EXCEPT !.kind = "plain", !.from = from]
  <1>1. chunk \in Seq(LinesOn(P)) /\ chunk # <<>> BY DEF Full
  <1>2. Overlapping(chunk, n) = IF n = 0 THEN <<>>
                                ELSE IF whole # {} THEN SubSeq(chunk, first, Len(chunk))
                                ELSE <<part>>
    BY DEF Overlapping
  <1>3. ASSUME whole # {} PROVE SubSeq(chunk, first, Len(chunk)) \in Seq(LinesOn(P))
    <2>1. whole \subseteq 1..Len(chunk) BY <1>1
    <2>2. \E i \in whole : \A j \in whole : i <= j
      <3>1. whole \subseteq Nat BY <2>1, <1>1
      <3> HIDE DEF whole
      <3> QED BY <1>3, <3>1, Least
    <2> HIDE DEF whole
    <2>3. first \in whole BY <2>2, Zenon
    <2>4. first \in 1..Len(chunk) BY <2>1, <2>3
    <2> HIDE DEF first
    <2> QED BY <1>1, <2>4
  <1>4. part \in LinesOn(P)
    <2>1. last \in LinesOn(P) BY <1>1
    <2> HIDE DEF last
    <2>2. from \in Int BY <2>1 DEF LinesOn
    <2>3. "plain" \in Kinds BY DEF Kinds
    <2> HIDE DEF from
    <2> QED BY <2>1, <2>2, <2>3 DEF LinesOn
  <1> HIDE DEF whole, first, part
  <1>5. <<part>> \in Seq(LinesOn(P)) /\ <<>> \in Seq(LinesOn(P)) BY <1>4
  <1> QED BY <1>2, <1>3, <1>5

LEMMA OnLineBoundariesOf ==
  ASSUME NEW P, NEW text \in Seq(LinesOn(P)), NEW max \in Nat \ {0}, NEW overlap \in Int
  PROVE  OnLineBoundaries(text, max, overlap) \in Seq(Seq(LinesOn(P)))
  <1> DEFINE n == Len(text)
             S == Gathered(P)
             base == Empty
             op(a, l) == IF LineLen(l) + 1 > max
                         THEN LET b == Flush(a)
                              IN  At(Pieces(l, max), LAMBDA ps :
                                     [b EXCEPT !.chunks = @ \o [i \in DOMAIN ps |-> <<ps[i]>>]])
                         ELSE Collect(MakeRoom(a, LineLen(l) + 1, max), <<l>>, LineLen(l) + 1)
             overlapped(cs) ==
               [i \in DOMAIN cs |-> IF i = 1 THEN cs[1] ELSE Overlapping(cs[i - 1], overlap) \o cs[i]]
             G == [i \in 1..n |-> [a \in S |-> op(a, text[i])]]
             E(g) == [i \in 0..n |->
                        IF i = 0 THEN base ELSE At(g[i - 1], LAMBDA a : op(a, text[i]))]
             f == CHOOSE g : g = E(g)
  <1>1. n \in Nat OBVIOUS
  <1>2. base \in S BY EmptyOf
  <1>3. \A a \in S, i \in 1..n : op(a, text[i]) \in S
    <2> SUFFICES ASSUME NEW a \in S, NEW l \in LinesOn(P) PROVE op(a, l) \in S
      <3>1. \A i \in 1..n : text[i] \in LinesOn(P) OBVIOUS
      <3> HIDE DEF op, S, n
      <3> QED BY <3>1
    <2>1. LineLen(l) + 1 \in Int BY DEF LineLen, LinesOn
    <2>2. CASE LineLen(l) + 1 > max
      <3> DEFINE ps == Pieces(l, max)
                 b == Flush(a)
                 new == [i \in DOMAIN ps |-> <<ps[i]>>]
      <3>1. op(a, l) = [b EXCEPT !.chunks = @ \o new] BY <2>2, Zenon DEF At
      <3>2. ps \in Seq(LinesOn(P)) BY PiecesOf
      <3>3. new \in Seq(Full(P))
        <4> HIDE DEF ps
        <4>1. \A i \in DOMAIN ps : <<ps[i]>> \in Full(P) BY <3>2 DEF Full
        <4> QED BY <3>2, <4>1
      <3>4. b \in Gathered(P) BY FlushOf
      <3> HIDE DEF b, new, op
      <3>5. b.chunks \o new \in Seq(Full(P)) BY <3>3, <3>4 DEF Gathered
      <3> QED BY <3>1, <3>4, <3>5 DEF Gathered
    <2>3. CASE ~(LineLen(l) + 1 > max)
      <3>1. <<l>> \in Seq(LinesOn(P)) OBVIOUS
      <3>2. MakeRoom(a, LineLen(l) + 1, max) \in Gathered(P) BY MakeRoomOf
      <3> QED BY <2>1, <2>3, <3>1, <3>2, CollectOf
    <2> QED BY <2>2, <2>3
  <1>4. OnLineBoundaries(text, max, overlap) = overlapped(Flush(f[n]).chunks)
    BY Zenon DEF OnLineBoundaries, Fold, At
  <1> HIDE DEF op, S, n, base
  <1>5. PICK h \in [0..n -> S] : Solves(h, n, base, G)
    <2>1. G \in [1..n -> [S -> S]] BY <1>3
    <2> HIDE DEF G
    <2> QED BY <1>1, <1>2, <2>1, Recursion
  <1>6. \A g, i : At(g[i - 1], LAMBDA a : op(a, text[i])) = op(g[i - 1], text[i])
    BY Zenon DEF At
  <1>7. h = E(h)
    <2> SUFFICES ASSUME NEW i \in 0..n, i # 0 PROVE h[i] = op(h[i - 1], text[i])
      BY <1>5, <1>6 DEF Solves
    <2>1. i \in 1..n /\ h[i - 1] \in S BY <1>1
    <2> QED BY <1>5, <2>1 DEF Solves
  <1> HIDE DEF E
  <1>8. f = E(f) BY <1>7, Zenon
  <1> HIDE DEF f
  <1>9. \A i \in 0..n : f[i] = IF i = 0 THEN base ELSE op(f[i - 1], text[i]) BY <1>6, <1>8 DEF E
  <1>10. f[n] \in S
    <2>1. 0 \in 0..n /\ \A i \in 1..n : i \in 0..n /\ i # 0 BY <1>1
    <2>2. f[0] \in S /\ \A i \in 1..n : f[i - 1] \in S => f[i] \in S BY <1>2, <1>3, <1>9, <2>1
    <2> QED BY <1>1, <2>2, Reaches
  <1>11. PICK cs \in Seq(Full(P)) : cs = Flush(f[n]).chunks BY <1>10, FlushOf DEF S
  <1>12. \A i \in 1..Len(cs) : cs[i] \in Full(P) /\ cs[i] \in Seq(LinesOn(P)) BY DEF Full
  <1> DEFINE piece(i) == IF i = 1 THEN cs[1] ELSE Overlapping(cs[i - 1], overlap) \o cs[i]
  <1>13. ASSUME NEW i \in 1..Len(cs) PROVE piece(i) \in Seq(LinesOn(P))
    <2>1. CASE i = 1 BY <1>12, <2>1
    <2>2. CASE i # 1
      <3>1. i - 1 \in 1..Len(cs) BY <2>2
      <3>2. cs[i - 1] \in Full(P) /\ cs[i] \in Seq(LinesOn(P)) BY <1>12, <3>1
      <3>3. Overlapping(cs[i - 1], overlap) \in Seq(LinesOn(P)) BY <3>2, OverlappingOf
      <3> QED BY <2>2, <3>2, <3>3
    <2> QED BY <2>1, <2>2
  <1>14. OnLineBoundaries(text, max, overlap) = [i \in DOMAIN cs |-> piece(i)] BY <1>4, <1>11
  <1>15. DOMAIN cs = 1..Len(cs) /\ Len(cs) \in Nat OBVIOUS
  <1> HIDE DEF piece
  <1> QED BY <1>13, <1>14, <1>15

LEMMA BlocksOf ==
  ASSUME NEW P, NEW text \in Seq(LinesOn(P))
  PROVE  Blocks(text) \in Seq(Full(P))
  <1> DEFINE n == Len(text)
             S == Seq(Full(P))
             base == <<>>
             op(bs, l) == IF InTable(l) /\ bs # <<>> /\ InTable(Last(Last(bs)))
                            THEN ReplaceAt(bs, Len(bs), Append(Last(bs), l))
                            ELSE Append(bs, <<l>>)
             G == [i \in 1..n |-> [a \in S |-> op(a, text[i])]]
             E(g) == [i \in 0..n |->
                        IF i = 0 THEN base ELSE At(g[i - 1], LAMBDA a : op(a, text[i]))]
             f == CHOOSE g : g = E(g)
  <1>1. n \in Nat OBVIOUS
  <1>2. base \in S OBVIOUS
  <1>3. \A a \in S, i \in 1..n : op(a, text[i]) \in S
    <2> SUFFICES ASSUME NEW bs \in S, NEW l \in LinesOn(P) PROVE op(bs, l) \in S
      <3>1. \A i \in 1..n : text[i] \in LinesOn(P) OBVIOUS
      <3> HIDE DEF op, S, n
      <3> QED BY <3>1
    <2>1. <<l>> \in Full(P) BY DEF Full
    <2>2. Append(bs, <<l>>) \in S BY <2>1
    <2>3. ASSUME bs # <<>> PROVE ReplaceAt(bs, Len(bs), Append(Last(bs), l)) \in S
      <3> DEFINE t == Last(bs)
                 b == Append(t, l)
      <3>1. t \in Full(P) BY <2>3 DEF Last
      <3> HIDE DEF t
      <3>2. t \in Seq(LinesOn(P)) BY <3>1 DEF Full
      <3>3. b \in Seq(LinesOn(P)) /\ Len(b) = Len(t) + 1 /\ Len(t) \in Nat BY <3>2
      <3>4. b \in Full(P)
        <4>1. Len(b) # 0 BY <3>3
        <4> HIDE DEF b
        <4> QED BY <3>3, <4>1 DEF Full
      <3> HIDE DEF b
      <3>5. ReplaceAt(bs, Len(bs), b) \in S BY <2>3, <3>4 DEF ReplaceAt
      <3> QED BY <3>5 DEF b, t
    <2> QED BY <2>2, <2>3
  <1>4. Blocks(text) = f[n] BY DEF Blocks, Fold
  <1> HIDE DEF op, S, n, base
  <1>5. PICK h \in [0..n -> S] : Solves(h, n, base, G)
    <2>1. G \in [1..n -> [S -> S]] BY <1>3
    <2> HIDE DEF G
    <2> QED BY <1>1, <1>2, <2>1, Recursion
  <1>6. \A g, i : At(g[i - 1], LAMBDA a : op(a, text[i])) = op(g[i - 1], text[i])
    BY Zenon DEF At
  <1>7. h = E(h)
    <2> SUFFICES ASSUME NEW i \in 0..n, i # 0 PROVE h[i] = op(h[i - 1], text[i])
      BY <1>5, <1>6 DEF Solves
    <2>1. i \in 1..n /\ h[i - 1] \in S BY <1>1
    <2> QED BY <1>5, <2>1 DEF Solves
  <1> HIDE DEF E
  <1>8. f = E(f) BY <1>7, Zenon
  <1> HIDE DEF f
  <1>9. \A i \in 0..n : f[i] = IF i = 0 THEN base ELSE op(f[i - 1], text[i]) BY <1>6, <1>8 DEF E
  <1>10. f[n] \in S
    <2>1. 0 \in 0..n /\ \A i \in 1..n : i \in 0..n /\ i # 0 BY <1>1
    <2>2. f[0] \in S /\ \A i \in 1..n : f[i - 1] \in S => f[i] \in S BY <1>2, <1>3, <1>9, <2>1
    <2> QED BY <1>1, <2>2, Reaches
  <1> QED BY <1>4, <1>10 DEF S

LEMMA HeaderLenOf ==
  ASSUME NEW P, NEW table \in Full(P)
  PROVE  HeaderLen(table) \in 1..Len(table)
  <1> DEFINE seps == {i \in DOMAIN table : table[i].kind = "separator"}
             first == CHOOSE i \in seps : \A j \in seps : i <= j
  <1>1. table \in Seq(LinesOn(P)) /\ Len(table) \in Nat \ {0} BY DEF Full
  <1>2. CASE seps = {} BY <1>1, <1>2 DEF HeaderLen
  <1>3. CASE seps # {}
    <2>1. seps \subseteq 1..Len(table) BY <1>1
    <2>2. \E i \in seps : \A j \in seps : i <= j
      <3>1. seps \subseteq Nat BY <1>1, <2>1
      <3> HIDE DEF seps
      <3> QED BY <1>3, <3>1, Least
    <2>3. HeaderLen(table) = first BY <1>3 DEF HeaderLen
    <2> HIDE DEF seps
    <2>4. first \in seps BY <2>2, Zenon
    <2> QED BY <2>1, <2>3, <2>4
  <1> QED BY <1>2, <1>3

LEMMA SubTablesOf ==
  ASSUME NEW P, NEW table \in Full(P), NEW max
  PROVE  SubTables(table, max) \in Seq(Full(P))
  <1> DEFINE header == SubSeq(table, 1, HeaderLen(table))
             data   == SubSeq(table, HeaderLen(table) + 1, Len(table))
             start  == [chunks |-> <<>>, cur |-> <<>>, size |-> Length(header) + 1]
             flush(a) == [start EXCEPT !.chunks = Append(a.chunks, header \o a.cur)]
             n == Len(data)
             S == Gathered(P)
             base == start
             op(a, l) ==
               Collect(IF a.size + LineLen(l) + 1 > max /\ a.cur # <<>> THEN flush(a) ELSE a,
                       <<l>>, LineLen(l) + 1)
             G == [i \in 1..n |-> [a \in S |-> op(a, data[i])]]
             E(g) == [i \in 0..n |->
                        IF i = 0 THEN base ELSE At(g[i - 1], LAMBDA a : op(a, data[i]))]
             f == CHOOSE g : g = E(g)
  <1>0. header \in Full(P) /\ header \in Seq(LinesOn(P)) /\ data \in Seq(LinesOn(P))
    <2>1. HeaderLen(table) \in 1..Len(table) BY HeaderLenOf
    <2>2. table \in Seq(LinesOn(P)) /\ Len(table) \in Nat BY DEF Full
    <2>3. header \in Seq(LinesOn(P)) /\ Len(header) = HeaderLen(table) BY <2>1, <2>2
    <2> QED BY <2>1, <2>2, <2>3 DEF Full
  <1>1. n \in Nat BY <1>0
  <1>2. base \in S
    <2>1. Length(header) \in Int BY <1>0, LengthType
    <2> DEFINE none == <<>>
               size == Length(header) + 1
    <2>2. none \in Seq(Full(P)) /\ none \in Seq(LinesOn(P)) /\ size \in Int BY <2>1
    <2>3. base = [chunks |-> none, cur |-> none, size |-> size] OBVIOUS
    <2> HIDE DEF none, size, base
    <2> QED BY <2>2, <2>3 DEF Gathered
  <1>11. ASSUME NEW a \in S PROVE flush(a) \in S /\ flush(a).chunks \in Seq(Full(P))
    <2>1. header \o a.cur \in Full(P)
      <3>1. a.cur \in Seq(LinesOn(P)) BY DEF Gathered
      <3>2. header # <<>> BY <1>0 DEF Full
      <3> HIDE DEF header
      <3>3. header \o a.cur \in Seq(LinesOn(P)) /\ Len(header \o a.cur) = Len(header) + Len(a.cur)
        BY <1>0, <3>1
      <3>4. Len(header) # 0 /\ Len(header) \in Nat /\ Len(a.cur) \in Nat BY <1>0, <3>1, <3>2
      <3>5. Len(header \o a.cur) # 0 BY <3>3, <3>4
      <3> QED BY <3>3, <3>5 DEF Full
    <2>2. a.chunks \in Seq(Full(P)) BY DEF Gathered
    <2> DEFINE cs == Append(a.chunks, header \o a.cur)
    <2>3. cs \in Seq(Full(P)) BY <2>1, <2>2
    <2>4. flush(a) = [base EXCEPT !.chunks = cs] OBVIOUS
    <2> HIDE DEF cs, base, flush
    <2> QED BY <1>2, <2>3, <2>4 DEF Gathered
  <1>3. \A a \in S, i \in 1..n : op(a, data[i]) \in S
    <2> SUFFICES ASSUME NEW a \in S, NEW l \in LinesOn(P) PROVE op(a, l) \in S
      <3> HIDE DEF data, op, S
      <3>1. \A i \in 1..n : data[i] \in LinesOn(P) BY <1>0
      <3> HIDE DEF n
      <3> QED BY <3>1
    <2> DEFINE b == IF a.size + LineLen(l) + 1 > max /\ a.cur # <<>> THEN flush(a) ELSE a
    <2>1. b \in Gathered(P)
      <3> HIDE DEF flush
      <3> QED BY <1>11
    <2>2. <<l>> \in Seq(LinesOn(P)) /\ LineLen(l) + 1 \in Int BY DEF LineLen, LinesOn
    <2>3. op(a, l) = Collect(b, <<l>>, LineLen(l) + 1) OBVIOUS
    <2> HIDE DEF b, op
    <2> QED BY <2>1, <2>2, <2>3, CollectOf
  <1>4. SubTables(table, max) = IF f[n].cur = <<>> THEN f[n].chunks ELSE flush(f[n]).chunks
    <2>1. SubTables(table, max)
            = At(f[n], LAMBDA a : IF a.cur = <<>> THEN a.chunks ELSE flush(a).chunks)
      BY DEF SubTables, Fold
    <2> HIDE DEF f, n, flush
    <2> QED BY <2>1, Zenon DEF At
  <1> HIDE DEF data, flush
  <1> HIDE DEF op, S, n, base
  <1>5. PICK h \in [0..n -> S] : Solves(h, n, base, G)
    <2>1. G \in [1..n -> [S -> S]] BY <1>3
    <2> HIDE DEF G
    <2> QED BY <1>1, <1>2, <2>1, Recursion
  <1>6. \A g, i : At(g[i - 1], LAMBDA a : op(a, data[i])) = op(g[i - 1], data[i])
    BY Zenon DEF At
  <1>7. h = E(h)
    <2> SUFFICES ASSUME NEW i \in 0..n, i # 0 PROVE h[i] = op(h[i - 1], data[i])
      BY <1>5, <1>6 DEF Solves
    <2>1. i \in 1..n /\ h[i - 1] \in S BY <1>1
    <2> QED BY <1>5, <2>1 DEF Solves
  <1> HIDE DEF E
  <1>8. f = E(f) BY <1>7, Zenon
  <1> HIDE DEF f
  <1>9. \A i \in 0..n : f[i] = IF i = 0 THEN base ELSE op(f[i - 1], data[i]) BY <1>6, <1>8 DEF E
  <1>10. f[n] \in S
    <2>1. 0 \in 0..n /\ \A i \in 1..n : i \in 0..n /\ i # 0 BY <1>1
    <2>2. f[0] \in S /\ \A i \in 1..n : f[i - 1] \in S => f[i] \in S BY <1>2, <1>3, <1>9, <2>1
    <2> QED BY <1>1, <2>2, Reaches
  <1>12. f[n].chunks \in Seq(Full(P)) BY <1>10 DEF S, Gathered
  <1>13. flush(f[n]).chunks \in Seq(Full(P)) BY <1>10, <1>11
  <1> QED BY <1>4, <1>12, <1>13

LEMMA SpreadOf ==
  ASSUME NEW P, NEW a0 \in Gathered(P), NEW pieces \in Seq(LinesOn(P)), NEW max
  PROVE  Spread(a0, pieces, max) \in Gathered(P)
  <1> DEFINE n == Len(pieces)
             S == Gathered(P)
             base == a0
             op(c, p) == Collect(MakeRoom(c, LineLen(p), max), <<p>>, LineLen(p) + 1)
             G == [i \in 1..n |-> [a \in S |-> op(a, pieces[i])]]
             E(g) == [i \in 0..n |->
                        IF i = 0 THEN base ELSE At(g[i - 1], LAMBDA a : op(a, pieces[i]))]
             f == CHOOSE g : g = E(g)
  <1>1. n \in Nat OBVIOUS
  <1>2. base \in S OBVIOUS
  <1>3. \A a \in S, i \in 1..n : op(a, pieces[i]) \in S
    <2> SUFFICES ASSUME NEW a \in S, NEW l \in LinesOn(P) PROVE op(a, l) \in S
      <3>1. \A i \in 1..n : pieces[i] \in LinesOn(P) OBVIOUS
      <3> HIDE DEF op, S, n
      <3> QED BY <3>1
    <2>1. <<l>> \in Seq(LinesOn(P)) /\ LineLen(l) + 1 \in Int BY DEF LineLen, LinesOn
    <2>2. MakeRoom(a, LineLen(l), max) \in Gathered(P) BY MakeRoomOf
    <2> QED BY <2>1, <2>2, CollectOf
  <1>4. Spread(a0, pieces, max) = f[n] BY DEF Spread, Fold
  <1> HIDE DEF op, S, n, base
  <1>5. PICK h \in [0..n -> S] : Solves(h, n, base, G)
    <2>1. G \in [1..n -> [S -> S]] BY <1>3
    <2> HIDE DEF G
    <2> QED BY <1>1, <1>2, <2>1, Recursion
  <1>6. \A g, i : At(g[i - 1], LAMBDA a : op(a, pieces[i])) = op(g[i - 1], pieces[i])
    BY Zenon DEF At
  <1>7. h = E(h)
    <2> SUFFICES ASSUME NEW i \in 0..n, i # 0 PROVE h[i] = op(h[i - 1], pieces[i])
      BY <1>5, <1>6 DEF Solves
    <2>1. i \in 1..n /\ h[i - 1] \in S BY <1>1
    <2> QED BY <1>5, <2>1 DEF Solves
  <1> HIDE DEF E
  <1>8. f = E(f) BY <1>7, Zenon
  <1> HIDE DEF f
  <1>9. \A i \in 0..n : f[i] = IF i = 0 THEN base ELSE op(f[i - 1], pieces[i]) BY <1>6, <1>8 DEF E
  <1>10. f[n] \in S
    <2>1. 0 \in 0..n /\ \A i \in 1..n : i \in 0..n /\ i # 0 BY <1>1
    <2>2. f[0] \in S /\ \A i \in 1..n : f[i - 1] \in S => f[i] \in S BY <1>2, <1>3, <1>9, <2>1
    <2> QED BY <1>1, <2>2, Reaches
  <1> QED BY <1>4, <1>10 DEF S

LEMMA ByStructureOf ==
  ASSUME NEW P, NEW text \in Seq(LinesOn(P)), NEW max \in Nat \ {0}
  PROVE  ByStructure(text, max) \in Seq(Seq(LinesOn(P)))
  <1> DEFINE blocks == Blocks(text)
             n == Len(blocks)
             S == Gathered(P)
             base == Empty
             op(a, b) ==
          CASE b[1].kind = "heading" /\ a.cur # <<>> ->
                 Collect(Flush(a), b, LineLen(b[1]) + 1)
            [] LargeTable(b, max) ->
                 [Flush(a) EXCEPT !.chunks = @ \o SubTables(b, max)]
            [] InTable(b[1]) /\ ~LargeTable(b, max) ->
                 Collect(MakeRoom(a, Length(b), max), b, Length(b))
            [] b[1].kind = "plain" /\ LineLen(b[1]) + 1 > max ->
                 Spread(MakeRoom(a, LineLen(b[1]) + 1, max), Pieces(b[1], max), max)
            [] OTHER -> Collect(MakeRoom(a, LineLen(b[1]) + 1, max), b, LineLen(b[1]) + 1)
             G == [i \in 1..n |-> [a \in S |-> op(a, blocks[i])]]
             E(g) == [i \in 0..n |->
                        IF i = 0 THEN base ELSE At(g[i - 1], LAMBDA a : op(a, blocks[i]))]
             f == CHOOSE g : g = E(g)
  <1>0. blocks \in Seq(Full(P)) BY BlocksOf
  <1>1. n \in Nat BY <1>0
  <1>2. base \in S BY EmptyOf
  <1>3. \A a \in S, i \in 1..n : op(a, blocks[i]) \in S
    <2> SUFFICES ASSUME NEW a \in S, NEW b \in Full(P) PROVE op(a, b) \in S
      <3> HIDE DEF blocks, op, S
      <3>1. \A i \in 1..n : blocks[i] \in Full(P) BY <1>0
      <3> HIDE DEF n
      <3> QED BY <3>1
    <2>1. b \in Seq(LinesOn(P)) /\ b[1] \in LinesOn(P) BY DEF Full
    <2>2. LineLen(b[1]) + 1 \in Int
      <3>1. \A l \in LinesOn(P) : LineLen(l) + 1 \in Int BY DEF LineLen, LinesOn
      <3> QED BY <2>1, <3>1
    <2>3. Length(b) \in Int BY <2>1, LengthType
    <2>4. Flush(a) \in S BY FlushOf
    <2>5. \A k : MakeRoom(a, k, max) \in S BY MakeRoomOf
    <2>6. Collect(Flush(a), b, LineLen(b[1]) + 1) \in S BY <2>1, <2>2, <2>4, CollectOf
    <2>7. [Flush(a) EXCEPT !.chunks = @ \o SubTables(b, max)] \in S
      <3> DEFINE c == Flush(a)
                 t == SubTables(b, max)
      <3>1. c \in Gathered(P) /\ t \in Seq(Full(P)) BY <2>4, SubTablesOf
      <3> HIDE DEF c, t
      <3>2. c.chunks \o t \in Seq(Full(P)) BY <3>1 DEF Gathered
      <3>3. [c EXCEPT !.chunks = @ \o t] \in Gathered(P) BY <3>1, <3>2 DEF Gathered
      <3> QED BY <3>3 DEF c, t
    <2>8. Collect(MakeRoom(a, Length(b), max), b, Length(b)) \in S BY <2>1, <2>3, <2>5, CollectOf
    <2>9. Spread(MakeRoom(a, LineLen(b[1]) + 1, max), Pieces(b[1], max), max) \in S
      <3>1. Pieces(b[1], max) \in Seq(LinesOn(P)) BY <2>1, PiecesOf
      <3> QED BY <2>5, <3>1, SpreadOf
    <2>10. Collect(MakeRoom(a, LineLen(b[1]) + 1, max), b, LineLen(b[1]) + 1) \in S
      BY <2>1, <2>2, <2>5, CollectOf
    <2> HIDE DEF S
    <2> QED BY <2>6, <2>7, <2>8, <2>9, <2>10 DEF LargeTable, InTable
  <1>4. ByStructure(text, max)
          = At(Flush(f[n]).chunks, LAMBDA cs : IF cs = <<>> THEN <<text>> ELSE cs)
    BY DEF ByStructure, Fold
  <1> HIDE DEF blocks
  <1> HIDE DEF op, S, n, base
  <1>5. PICK h \in [0..n -> S] : Solves(h, n, base, G)
    <2>1. G \in [1..n -> [S -> S]] BY <1>3
    <2> HIDE DEF G
    <2> QED BY <1>1, <1>2, <2>1, Recursion
  <1>6. \A g, i : At(g[i - 1], LAMBDA a : op(a, blocks[i])) = op(g[i - 1], blocks[i])
    BY Zenon DEF At
  <1>7. h = E(h)
    <2> SUFFICES ASSUME NEW i \in 0..n, i # 0 PROVE h[i] = op(h[i - 1], blocks[i])
      BY <1>5, <1>6 DEF Solves
    <2>1. i \in 1..n /\ h[i - 1] \in S BY <1>1
    <2> QED BY <1>5, <2>1 DEF Solves
  <1> HIDE DEF E
  <1>8. f = E(f) BY <1>7, Zenon
  <1> HIDE DEF f
  <1>9. \A i \in 0..n : f[i] = IF i = 0 THEN base ELSE op(f[i - 1], blocks[i]) BY <1>6, <1>8 DEF E
  <1>10. f[n] \in S
    <2>1. 0 \in 0..n /\ \A i \in 1..n : i \in 0..n /\ i # 0 BY <1>1
    <2>2. f[0] \in S /\ \A i \in 1..n : f[i - 1] \in S => f[i] \in S BY <1>2, <1>3, <1>9, <2>1
    <2> QED BY <1>1, <2>2, Reaches
  <1>11. Flush(f[n]).chunks \in Seq(Full(P)) BY <1>10, FlushOf DEF S
  <1>12. Flush(f[n]).chunks \in Seq(Seq(LinesOn(P)))
    <2>1. Full(P) \subseteq Seq(LinesOn(P)) BY DEF Full
    <2> QED BY <1>11, <2>1
  <1>13. <<text>> \in Seq(Seq(LinesOn(P))) OBVIOUS
  <1>14. ByStructure(text, max) \in {Flush(f[n]).chunks, <<text>>} BY <1>4, Zenon DEF At
  <1> QED BY <1>12, <1>13, <1>14

LEMMA SimpleOf ==
  ASSUME NEW P, NEW text \in Seq(LinesOn(P)), NEW max \in Nat \ {0}, NEW overlap \in Int
  PROVE  Simple(text, max, overlap) \in Seq(Seq(LinesOn(P)))
  <1>1. Simple(text, max, overlap) \in {<<text>>, ByStructure(text, max),
                                        OnLineBoundaries(text, max, overlap)}
    BY Zenon DEF Simple, At
  <1>2. <<text>> \in Seq(Seq(LinesOn(P))) OBVIOUS
  <1> QED BY <1>1, <1>2, ByStructureOf, OnLineBoundariesOf

-----------------------------------------------------------------------------
(* The chunks of a section.                                                *)

\* Texts that are stored under one of the pages with these ids.
ChunkOf(P, Ids) == [text : Seq(LinesOn(P)), page : Ids]
PageOf(P, Ids) == [id : Ids, text : Seq(LinesOn(P))]

LEMMA TaggedOf ==
  ASSUME NEW P, NEW Ids, NEW chunks \in Seq(Seq(LinesOn(P))), NEW page \in Ids
  PROVE  Tagged(chunks, page) \in Seq(ChunkOf(P, Ids))
  <1> DEFINE tag(i) == [text |-> chunks[i], page |-> page]
             all == [i \in DOMAIN chunks |-> tag(i)]
             I == {i \in DOMAIN chunks : Length(chunks[i]) >= MinPiece}
  <1>1. Tagged(chunks, page) = Keep(all, I) BY Zenon DEF Tagged, At
  <1>2. DOMAIN chunks = 1..Len(chunks) /\ Len(chunks) \in Nat
        /\ \A i \in DOMAIN chunks : chunks[i] \in Seq(LinesOn(P))
    OBVIOUS
  <1>3. \A i \in DOMAIN chunks : tag(i) \in ChunkOf(P, Ids) BY <1>2, Zenon DEF ChunkOf
  <1> HIDE DEF tag, I
  <1>4. all \in Seq(ChunkOf(P, Ids)) BY <1>2, <1>3
  <1> HIDE DEF all
  <1> QED BY <1>1, <1>4, KeepOf

LEMMA MaxSizeType == MaxSize \in Nat \ {0} /\ Overlap \in Int
  BY ChunkerAssumption DEF MaxSize

LEMMA MergePagesOf ==
  ASSUME NEW P, NEW Ids, NEW pages_ \in Seq(PageOf(P, Ids))
  PROVE  MergePages(pages_) \in Seq(ChunkOf(P, Ids))
  <1> DEFINE close(a) == IF a.text = <<>> THEN a.out
                         ELSE Append(a.out, [text |-> a.text, page |-> a.page])
             n == Len(pages_)
             R == [out : Seq(ChunkOf(P, Ids)), text : Seq(LinesOn(P)), page : Ids \cup {0}]
             S == {a \in R : a.text # <<>> => a.page \in Ids}
             base == [out |-> <<>>, text |-> <<>>, page |-> 0]
             op(a, p) ==
            IF Length(p.text) > MaxSize
            THEN [out |-> close(a) \o Tagged(Simple(p.text, MaxSize, Overlap), p.id),
                  text |-> <<>>, page |-> p.id]
            ELSE IF a.text # <<>> /\ Length(a.text) + Length(p.text) + 1 <= MaxSize
            THEN [a EXCEPT !.text = @ \o p.text]
            ELSE [out |-> close(a), text |-> p.text, page |-> p.id]
             G == [i \in 1..n |-> [a \in S |-> op(a, pages_[i])]]
             E(g) == [i \in 0..n |->
                        IF i = 0 THEN base ELSE At(g[i - 1], LAMBDA a : op(a, pages_[i]))]
             f == CHOOSE g : g = E(g)
  <1>0. ASSUME NEW out \in Seq(ChunkOf(P, Ids)), NEW text \in Seq(LinesOn(P)),
               NEW page \in Ids \cup {0}, text # <<>> => page \in Ids
        PROVE  [out |-> out, text |-> text, page |-> page] \in S
    BY <1>0
  <1>1. n \in Nat OBVIOUS
  <1>2. base \in S
    <2>1. <<>> \in Seq(ChunkOf(P, Ids)) /\ <<>> \in Seq(LinesOn(P)) OBVIOUS
    <2> HIDE DEF S
    <2> QED BY <1>0, <2>1
  <1>11. ASSUME NEW a \in S PROVE close(a) \in Seq(ChunkOf(P, Ids))
    <2>1. a.out \in Seq(ChunkOf(P, Ids)) /\ a.text \in Seq(LinesOn(P)) OBVIOUS
    <2>2. CASE a.text = <<>> BY <2>1, <2>2
    <2>3. CASE a.text # <<>>
      <3> DEFINE c == [text |-> a.text, page |-> a.page]
      <3>1. a.page \in Ids BY <2>3
      <3>2. c \in ChunkOf(P, Ids) BY <2>1, <3>1, Zenon DEF ChunkOf
      <3> HIDE DEF c
      <3>3. Append(a.out, c) \in Seq(ChunkOf(P, Ids)) BY <2>1, <3>2
      <3> QED BY <2>3, <3>3 DEF c
    <2> QED BY <2>2, <2>3
  <1>3. \A a \in S, i \in 1..n : op(a, pages_[i]) \in S
    <2> SUFFICES ASSUME NEW a \in S, NEW p \in PageOf(P, Ids) PROVE op(a, p) \in S
      <3>1. \A i \in 1..n : pages_[i] \in PageOf(P, Ids) OBVIOUS
      <3> HIDE DEF op, S, n
      <3> QED BY <3>1
    <2>1. p.text \in Seq(LinesOn(P)) /\ p.id \in Ids BY DEF PageOf
    <2>2. close(a) \in Seq(ChunkOf(P, Ids)) BY <1>11
    <2> HIDE DEF close
    <2>3. [out |-> close(a) \o Tagged(Simple(p.text, MaxSize, Overlap), p.id),
           text |-> <<>>, page |-> p.id] \in S
      <3>1. Simple(p.text, MaxSize, Overlap) \in Seq(Seq(LinesOn(P))) BY <2>1, MaxSizeType, SimpleOf
      <3>2. Tagged(Simple(p.text, MaxSize, Overlap), p.id) \in Seq(ChunkOf(P, Ids))
        BY <2>1, <3>1, TaggedOf
      <3>3. close(a) \o Tagged(Simple(p.text, MaxSize, Overlap), p.id) \in Seq(ChunkOf(P, Ids))
        BY <2>2, <3>2
      <3>4. <<>> \in Seq(LinesOn(P)) OBVIOUS
      <3> HIDE DEF S
      <3> QED BY <1>0, <2>1, <3>3, <3>4
    <2>4. ASSUME a.text # <<>> PROVE [a EXCEPT !.text = @ \o p.text] \in S
      <3>1. a.text \o p.text \in Seq(LinesOn(P)) /\ a.page \in Ids BY <2>1, <2>4
      <3> QED BY <3>1
    <2>5. [out |-> close(a), text |-> p.text, page |-> p.id] \in S
      <3> HIDE DEF S
      <3> QED BY <1>0, <2>1, <2>2
    <2> HIDE DEF S
    <2> QED BY <2>3, <2>4, <2>5
  <1>4. MergePages(pages_) = close(f[n])
    <2>1. MergePages(pages_) = At(f[n], close) BY DEF MergePages, Fold
    <2> HIDE DEF f, n, close
    <2> QED BY <2>1, Zenon DEF At
  <1> HIDE DEF close
  <1> HIDE DEF op, S, n, base
  <1>5. PICK h \in [0..n -> S] : Solves(h, n, base, G)
    <2>1. G \in [1..n -> [S -> S]] BY <1>3
    <2> HIDE DEF G
    <2> QED BY <1>1, <1>2, <2>1, Recursion
  <1>6. \A g, i : At(g[i - 1], LAMBDA a : op(a, pages_[i])) = op(g[i - 1], pages_[i])
    BY Zenon DEF At
  <1>7. h = E(h)
    <2> SUFFICES ASSUME NEW i \in 0..n, i # 0 PROVE h[i] = op(h[i - 1], pages_[i])
      BY <1>5, <1>6 DEF Solves
    <2>1. i \in 1..n /\ h[i - 1] \in S BY <1>1
    <2> QED BY <1>5, <2>1 DEF Solves
  <1> HIDE DEF E
  <1>8. f = E(f) BY <1>7, Zenon
  <1> HIDE DEF f
  <1>9. \A i \in 0..n : f[i] = IF i = 0 THEN base ELSE op(f[i - 1], pages_[i]) BY <1>6, <1>8 DEF E
  <1>10. f[n] \in S
    <2>1. 0 \in 0..n /\ \A i \in 1..n : i \in 0..n /\ i # 0 BY <1>1
    <2>2. f[0] \in S /\ \A i \in 1..n : f[i - 1] \in S => f[i] \in S BY <1>2, <1>3, <1>9, <2>1
    <2> QED BY <1>1, <2>2, Reaches
  <1> QED BY <1>4, <1>10, <1>11

LEMMA SplitOversizedOf ==
  ASSUME NEW P, NEW Ids, NEW c \in ChunkOf(P, Ids)
  PROVE  SplitOversized(c) \in Seq(ChunkOf(P, Ids))
  <1> DEFINE parts == At(ByStructure(c.text, MaxSize),
                         LAMBDA cs : IF Len(cs) > 1 THEN cs ELSE Simple(c.text, MaxSize, Overlap))
  <1>1. c.text \in Seq(LinesOn(P)) /\ c.page \in Ids BY DEF ChunkOf
  <1>2. parts \in {ByStructure(c.text, MaxSize), Simple(c.text, MaxSize, Overlap)} BY Zenon DEF At
  <1>3. parts \in Seq(Seq(LinesOn(P)))
    <2>1. ByStructure(c.text, MaxSize) \in Seq(Seq(LinesOn(P))) BY <1>1, MaxSizeType, ByStructureOf
    <2>2. Simple(c.text, MaxSize, Overlap) \in Seq(Seq(LinesOn(P))) BY <1>1, MaxSizeType, SimpleOf
    <2> HIDE DEF parts
    <2> QED BY <1>2, <2>1, <2>2
  <1>4. SplitOversized(c) \in {Tagged(parts, c.page), <<c>>} BY DEF SplitOversized
  <1> HIDE DEF parts
  <1>5. Tagged(parts, c.page) \in Seq(ChunkOf(P, Ids)) BY <1>1, <1>3, TaggedOf
  <1>6. <<c>> \in Seq(ChunkOf(P, Ids)) OBVIOUS
  <1> QED BY <1>4, <1>5, <1>6

LEMMA SplitAllOf ==
  ASSUME NEW P, NEW Ids, NEW chunks \in Seq(ChunkOf(P, Ids))
  PROVE  SplitAll(chunks) \in Seq(ChunkOf(P, Ids))
  <1> DEFINE n == Len(chunks)
             S == Seq(ChunkOf(P, Ids))
             base == <<>>
             op(out, c) == out \o SplitOversized(c)
             G == [i \in 1..n |-> [a \in S |-> op(a, chunks[i])]]
             E(g) == [i \in 0..n |->
                        IF i = 0 THEN base ELSE At(g[i - 1], LAMBDA a : op(a, chunks[i]))]
             f == CHOOSE g : g = E(g)
  <1>1. n \in Nat OBVIOUS
  <1>2. base \in S OBVIOUS
  <1>3. \A a \in S, i \in 1..n : op(a, chunks[i]) \in S
    <2> SUFFICES ASSUME NEW a \in S, NEW c \in ChunkOf(P, Ids) PROVE op(a, c) \in S
      <3>1. \A i \in 1..n : chunks[i] \in ChunkOf(P, Ids) OBVIOUS
      <3> HIDE DEF op, S, n
      <3> QED BY <3>1
    <2>1. SplitOversized(c) \in S BY SplitOversizedOf
    <2> QED BY <2>1
  <1>4. SplitAll(chunks) = f[n] BY DEF SplitAll, Fold
  <1> HIDE DEF op, S, n, base
  <1>5. PICK h \in [0..n -> S] : Solves(h, n, base, G)
    <2>1. G \in [1..n -> [S -> S]] BY <1>3
    <2> HIDE DEF G
    <2> QED BY <1>1, <1>2, <2>1, Recursion
  <1>6. \A g, i : At(g[i - 1], LAMBDA a : op(a, chunks[i])) = op(g[i - 1], chunks[i])
    BY Zenon DEF At
  <1>7. h = E(h)
    <2> SUFFICES ASSUME NEW i \in 0..n, i # 0 PROVE h[i] = op(h[i - 1], chunks[i])
      BY <1>5, <1>6 DEF Solves
    <2>1. i \in 1..n /\ h[i - 1] \in S BY <1>1
    <2> QED BY <1>5, <2>1 DEF Solves
  <1> HIDE DEF E
  <1>8. f = E(f) BY <1>7, Zenon
  <1> HIDE DEF f
  <1>9. \A i \in 0..n : f[i] = IF i = 0 THEN base ELSE op(f[i - 1], chunks[i]) BY <1>6, <1>8 DEF E
  <1>10. f[n] \in S
    <2>1. 0 \in 0..n /\ \A i \in 1..n : i \in 0..n /\ i # 0 BY <1>1
    <2>2. f[0] \in S /\ \A i \in 1..n : f[i - 1] \in S => f[i] \in S BY <1>2, <1>3, <1>9, <2>1
    <2> QED BY <1>1, <2>2, Reaches
  <1> QED BY <1>4, <1>10 DEF S

LEMMA MergeSmallOf ==
  ASSUME NEW P, NEW Ids, NEW chunks \in Seq(ChunkOf(P, Ids))
  PROVE  MergeSmall(chunks) \in Seq(ChunkOf(P, Ids))
  <1> DEFINE n == Len(chunks)
             S == Seq(ChunkOf(P, Ids))
             base == <<>>
             op(out, c) ==
                IF out # <<>> /\ Length(Last(out).text) + Length(c.text) + 1 <= MaxSize
                THEN ReplaceAt(out, Len(out), [Last(out) EXCEPT !.text = @ \o c.text])
                ELSE Append(out, c)
             G == [i \in 1..n |-> [a \in S |-> op(a, chunks[i])]]
             E(g) == [i \in 0..n |->
                        IF i = 0 THEN base ELSE At(g[i - 1], LAMBDA a : op(a, chunks[i]))]
             f == CHOOSE g : g = E(g)
  <1>1. n \in Nat OBVIOUS
  <1>2. base \in S OBVIOUS
  <1>3. \A a \in S, i \in 1..n : op(a, chunks[i]) \in S
    <2> SUFFICES ASSUME NEW a \in S, NEW c \in ChunkOf(P, Ids) PROVE op(a, c) \in S
      <3>1. \A i \in 1..n : chunks[i] \in ChunkOf(P, Ids) OBVIOUS
      <3> HIDE DEF op, S, n
      <3> QED BY <3>1
    <2>1. Append(a, c) \in S OBVIOUS
    <2>2. ASSUME a # <<>> PROVE ReplaceAt(a, Len(a), [Last(a) EXCEPT !.text = @ \o c.text]) \in S
      <3> DEFINE l == Last(a)
                 d == [l EXCEPT !.text = @ \o c.text]
      <3>1. l \in ChunkOf(P, Ids) BY <2>2 DEF Last
      <3> HIDE DEF l
      <3>2. l.text \o c.text \in Seq(LinesOn(P)) BY <3>1 DEF ChunkOf
      <3>3. d \in ChunkOf(P, Ids) BY <3>1, <3>2 DEF ChunkOf
      <3> HIDE DEF d
      <3>4. ReplaceAt(a, Len(a), d) \in S BY <2>2, <3>3 DEF ReplaceAt
      <3> QED BY <3>4 DEF d, l
    <2> HIDE DEF S
    <2> QED BY <2>1, <2>2
  <1>4. MergeSmall(chunks) = f[n] BY DEF MergeSmall, Fold
  <1> HIDE DEF op, S, n, base
  <1>5. PICK h \in [0..n -> S] : Solves(h, n, base, G)
    <2>1. G \in [1..n -> [S -> S]] BY <1>3
    <2> HIDE DEF G
    <2> QED BY <1>1, <1>2, <2>1, Recursion
  <1>6. \A g, i : At(g[i - 1], LAMBDA a : op(a, chunks[i])) = op(g[i - 1], chunks[i])
    BY Zenon DEF At
  <1>7. h = E(h)
    <2> SUFFICES ASSUME NEW i \in 0..n, i # 0 PROVE h[i] = op(h[i - 1], chunks[i])
      BY <1>5, <1>6 DEF Solves
    <2>1. i \in 1..n /\ h[i - 1] \in S BY <1>1
    <2> QED BY <1>5, <2>1 DEF Solves
  <1> HIDE DEF E
  <1>8. f = E(f) BY <1>7, Zenon
  <1> HIDE DEF f
  <1>9. \A i \in 0..n : f[i] = IF i = 0 THEN base ELSE op(f[i - 1], chunks[i]) BY <1>6, <1>8 DEF E
  <1>10. f[n] \in S
    <2>1. 0 \in 0..n /\ \A i \in 1..n : i \in 0..n /\ i # 0 BY <1>1
    <2>2. f[0] \in S /\ \A i \in 1..n : f[i - 1] \in S => f[i] \in S BY <1>2, <1>3, <1>9, <2>1
    <2> QED BY <1>1, <2>2, Reaches
  <1> QED BY <1>4, <1>10 DEF S

\* The chunks of a section, numbered from 0.
Items(P, Ids, path) == [page : Ids, idx : Nat, section : {path}, text : Seq(LinesOn(P))]
NumberedFrom0(s) == \A i \in 1..Len(s) : s[i].idx = i - 1

LEMMA ProcessSectionOf ==
  ASSUME NEW P, NEW Ids, NEW pages_ \in Seq(PageOf(P, Ids)), NEW path
  PROVE  /\ ProcessSection(pages_, path) \in Seq(Items(P, Ids, path))
         /\ NumberedFrom0(ProcessSection(pages_, path))
  <1> DEFINE cs == MergeSmall(SplitAll(MergePages(pages_)))
             item(i) == [page |-> cs[i].page, idx |-> i - 1, section |-> path, text |-> cs[i].text]
  <1>1. ProcessSection(pages_, path) = [i \in DOMAIN cs |-> item(i)]
    <2>1. At(MergePages(pages_), SplitAll) = SplitAll(MergePages(pages_)) BY Zenon DEF At
    <2>2. ProcessSection(pages_, path)
            = At(cs, LAMBDA c : [i \in DOMAIN c |-> [page |-> c[i].page, idx |-> i - 1,
                                                     section |-> path, text |-> c[i].text]])
      BY <2>1 DEF ProcessSection
    <2> HIDE DEF cs
    <2> QED BY <2>2, Zenon DEF At
  <1>2. cs \in Seq(ChunkOf(P, Ids)) BY MergePagesOf, SplitAllOf, MergeSmallOf
  <1> HIDE DEF cs
  <1>3. DOMAIN cs = 1..Len(cs) /\ Len(cs) \in Nat /\ \A i \in 1..Len(cs) : cs[i] \in ChunkOf(P, Ids)
    BY <1>2
  <1>4. ASSUME NEW i \in 1..Len(cs)
        PROVE  item(i) \in Items(P, Ids, path) /\ item(i).idx = i - 1
    <2>1. cs[i].page \in Ids /\ cs[i].text \in Seq(LinesOn(P)) BY <1>3 DEF ChunkOf
    <2>2. i - 1 \in Nat BY <1>3
    <2> QED BY <2>1, <2>2 DEF Items
  <1> HIDE DEF item
  <1>5. ProcessSection(pages_, path) \in Seq(Items(P, Ids, path)) BY <1>1, <1>3, <1>4
  <1>6. Len(ProcessSection(pages_, path)) = Len(cs)
        /\ \A i \in 1..Len(cs) : ProcessSection(pages_, path)[i] = item(i)
    BY <1>1, <1>3
  <1> QED BY <1>4, <1>5, <1>6 DEF NumberedFrom0

-----------------------------------------------------------------------------
(* The invariant of the parser.                                            *)

\* An image is of the page it stands for.
ImageInv ==
    /\ job \in Jobs
    /\ candidates \subseteq 1..Count
    /\ \A p \in DOMAIN images : p \in 1..Count /\ images[p] = p

\* What is transcribed is of the page the extraction is at.
OcrInv ==
    /\ at \in Nat \ {0}
    /\ stage = "ocr" => /\ at \in 1..Count /\ at \in DOMAIN images
                        /\ ocr.text \in Seq(LinesOn({0, at}))

\* The lines of a page are of the page of the file it is read from, whose number
\* and image are its own unless MuPDF has numbered the pages.
Home(p) == {0} \cup ({p} \cap 1..Count)
OwnText(page) ==
    /\ page.text \in Seq(LinesOn(Home(page.of)))
    /\ page.image => page.num = page.of /\ page.num \in DOMAIN images
    /\ page.num = page.of \/ <<0, "recovered">> \in warnings
TextInv ==
    /\ pages \in Seq(ToSet(pages))
    /\ \A x \in ToSet(pages) : OwnText(x)
    /\ stage \in {"open", "scan", "classify"} => pages = <<>>

PlaceInv == ImageInv /\ OcrInv /\ TextInv

-----------------------------------------------------------------------------
(* The pages of a job, and sequences of pages.                             *)

LEMMA JobPages ==
  ASSUME job \in Jobs
  PROVE  /\ Count \in Nat
         /\ \A p \in 1..Count : /\ job.pages[p].lines \in Seq(LinesOn({p}))
                                /\ job.pages[p].ink \in Seq(LinesOn({p}))
                                /\ job.pages[p].ink \in Seq(LinesOn({0, p}))
                                /\ Extracted(p) \in Seq(LinesOn({0, p}))
  <1>1. job.pages \in Seq(ToSet(job.pages)) BY PdfAssumption
  <1>2. Count \in Nat /\ DOMAIN job.pages = 1..Count BY <1>1 DEF Count
  <1>3. \A p \in DOMAIN job.pages :
           {job.pages[p].lines, job.pages[p].ink} \subseteq Seq(LinesOn({p}))
    BY PdfAssumption
  <1>4. ASSUME NEW p \in 1..Count
        PROVE  /\ job.pages[p].lines \in Seq(LinesOn({p}))
               /\ job.pages[p].ink \in Seq(LinesOn({p}))
               /\ job.pages[p].ink \in Seq(LinesOn({0, p}))
               /\ Extracted(p) \in Seq(LinesOn({0, p}))
    <2>1. job.pages[p].ink \in Seq(LinesOn({p})) /\ job.pages[p].lines \in Seq(LinesOn({p}))
      BY <1>2, <1>3
    <2>2. Seq(LinesOn({p})) \subseteq Seq(LinesOn({0, p}))
      <3>1. {p} \subseteq {0, p} OBVIOUS
      <3> QED BY <3>1, MorePages
    <2>3. <<>> \in Seq(LinesOn({0, p})) OBVIOUS
    <2> QED BY <2>1, <2>2, <2>3, Zenon DEF Extracted
  <1> QED BY <1>2, <1>4

\* A page that is added keeps every text on its own page.
LEMMA OnePageMore ==
  ASSUME NEW text, NEW class, NEW fate, AddPage(text, class, fate),
         ImageInv, OcrInv, TextInv, stage' \notin {"open", "scan", "classify"},
         at \in 1..Count, text \in Seq(LinesOn({0, at})),
         UNCHANGED <<job, images>>, warnings \subseteq warnings'
  PROVE  at' \in Nat \ {0} /\ TextInv'
  <1> DEFINE page == Page(at, text, class, at, fate)
             all == ToSet(pages) \cup {page}
  <1>1. pages \in Seq(ToSet(pages)) /\ \A x \in ToSet(pages) : OwnText(x) BY DEF TextInv
  <1>2. pages' = Append(pages, page) /\ at' = at + 1 BY DEF AddPage
  <1>3. /\ page.text = text /\ page.num = at /\ page.of = at
        /\ page.image = (at \in DOMAIN images)
    BY DEF Page
  <1>4. Home(at) = {0, at} BY DEF Home
  <1>5. OwnText(page) BY <1>3, <1>4 DEF OwnText
  <1> HIDE DEF page
  <1>6. \A x \in all : OwnText(x)' BY <1>1, <1>5 DEF OwnText, Home, Count
  <1>7. pages' \in Seq(all)
    <2>1. pages \in Seq(all)
      <3>1. ToSet(pages) \subseteq all OBVIOUS
      <3> HIDE DEF all
      <3> QED BY <1>1, <3>1
    <2>2. page \in all OBVIOUS
    <2> HIDE DEF all
    <2> QED BY <1>2, <2>1, <2>2
  <1> HIDE DEF all
  <1>8. pages' \in Seq(ToSet(pages')) /\ ToSet(pages') \subseteq all BY <1>7, SeqOfItsOwn
  <1>9. TextInv' BY <1>6, <1>8 DEF TextInv
  <1>10. at + 1 \in Nat \ {0} BY DEF OcrInv
  <1> QED BY <1>2, <1>9, <1>10

-----------------------------------------------------------------------------
(* The steps of the parser.                                                *)

\* Steps that leave the pages, the images and the transcription alone.
LEMMA PagesUntouched ==
  ASSUME PlaceInv, UNCHANGED <<job, candidates, images, at, ocr, pages>>,
         warnings \subseteq warnings', stage' # "ocr",
         stage' \in {"open", "scan", "classify"} => stage \in {"open", "scan", "classify"}
  PROVE  PlaceInv'
  <1>1. \A x : OwnText(x) => OwnText(x)' BY DEF OwnText, Home, Count
  <1>2. ImageInv' BY DEF PlaceInv, ImageInv, Count
  <1>3. OcrInv' BY DEF PlaceInv, OcrInv
  <1>4. TextInv' BY <1>1 DEF PlaceInv, TextInv
  <1> QED BY <1>2, <1>3, <1>4 DEF PlaceInv

\* The pre-filter and the steps that only open, fail or close.
LEMMA FilterSteps ==
  ASSUME PlaceInv, Open \/ Scan \/ Classify \/ Reopen \/ PageFails \/ CloseFile
  PROVE  PlaceInv'
  <1>1. CASE Open \/ Reopen \/ PageFails \/ CloseFile
    <2>1. /\ UNCHANGED <<job, candidates, images, at, ocr, pages, warnings>>
          /\ stage' # "ocr"
          /\ stage' \in {"open", "scan", "classify"} => stage \in {"open", "scan", "classify"}
      BY <1>1 DEF Open, Reopen, PageFails, CloseFile
    <2> QED BY <2>1, PagesUntouched
  <1>2. ASSUME UNCHANGED <<job, at, ocr, pages, warnings>>,
               stage \in {"scan", "classify"}, stage' # "ocr",
               candidates' \subseteq 1..Count,
               \A p \in DOMAIN images' : p \in 1..Count /\ images'[p] = p
        PROVE  PlaceInv'
    <2>1. pages = <<>> /\ pages' = <<>> BY <1>2 DEF PlaceInv, TextInv
    <2>2. ToSet(pages') = {} /\ pages' \in Seq(ToSet(pages'))
      <3>1. DOMAIN pages' = {} BY <2>1
      <3>2. ToSet(pages') = {} BY <3>1, Zenon DEF ToSet
      <3>3. pages' \in Seq({}) BY <2>1
      <3> QED BY <3>2, <3>3
    <2> QED BY <1>2, <2>1, <2>2 DEF PlaceInv, ImageInv, OcrInv, TextInv, Count
  <1>3. CASE Scan
    <2>1. /\ UNCHANGED <<job, images, at, ocr, pages, warnings>>
          /\ stage' # "ocr" /\ stage = "scan"
          /\ candidates' \subseteq 1..Count
      BY <1>3 DEF Scan
    <2> QED BY <1>2, <2>1 DEF PlaceInv, ImageInv
  <1>4. CASE Classify
    <2>1. /\ UNCHANGED <<job, candidates, at, ocr, pages, warnings>>
          /\ stage' # "ocr" /\ stage = "classify"
          /\ images' = IF job.ocr \/ job.vision THEN RenderPages(job.pages, candidates) ELSE <<>>
      BY <1>4 DEF Classify
    <2>2. Count \in Nat /\ candidates \subseteq 1..Count BY JobPages DEF PlaceInv, ImageInv
    <2>3. \A p \in DOMAIN images' : p \in 1..Count /\ images'[p] = p
      <3>1. CASE job.ocr \/ job.vision
        <4> DEFINE im == RenderPages(job.pages, candidates)
        <4>1. DOMAIN im \subseteq candidates /\ \A p \in DOMAIN im : im[p] = p
          BY <2>2, ImageIsOfItsPage
        <4>2. images' = im BY <2>1, <3>1
        <4> HIDE DEF im
        <4> QED BY <2>2, <4>1, <4>2
      <3>2. CASE ~(job.ocr \/ job.vision)
        <4>1. images' = <<>> BY <2>1, <3>2
        <4>2. DOMAIN images' = {} BY <4>1
        <4> QED BY <4>2
      <3> QED BY <3>1, <3>2
    <2> QED BY <1>2, <2>1, <2>2, <2>3
  <1> QED BY <1>1, <1>3, <1>4

LEMMA ReadPageStep ==
  ASSUME PlaceInv, ReadPage \/ SkipBlankImage
  PROVE  PlaceInv'
  <1>1. /\ AtPage /\ UNCHANGED <<job, stage, candidates, images, ocr, warnings>>
        /\ stage = "read"
    BY DEF ReadPage, SkipBlankImage, AtPage
  <1>2. Count \in Nat /\ at \in 1..Count /\ ImageInv /\ OcrInv /\ TextInv
    <2>1. Count \in Nat BY JobPages DEF PlaceInv, ImageInv
    <2> QED BY <1>1, <2>1 DEF AtPage, OcrInv, PlaceInv
  <1>3. /\ Extracted(at) \in Seq(LinesOn({0, at}))
        /\ job.pages[at].ink \in Seq(LinesOn({0, at}))
    BY <1>2, JobPages DEF ImageInv
  <1>4. <<>> \in Seq(LinesOn({0, at})) OBVIOUS
  <1>5. ASSUME NEW text \in Seq(LinesOn({0, at})), NEW class, NEW fate,
               AddPage(text, class, fate)
        PROVE  PlaceInv'
    <2>1. at' \in Nat \ {0} /\ TextInv' BY <1>1, <1>2, <1>5, OnePageMore
    <2> QED BY <1>1, <1>2, <2>1 DEF PlaceInv, ImageInv, OcrInv, Count
  <1>6. CASE SkipBlankImage BY <1>4, <1>5, <1>6 DEF SkipBlankImage
  <1>7. CASE ReadPage
    <2> DEFINE class == classes[at]
               seen  == IF class = "CHART" /\ job.vision /\ RendersAlone(job.pages, at) THEN {at}
                        ELSE IF class = "IMAGE" /\ at \in DOMAIN images THEN {images[at]}
                        ELSE {}
    <2>1. PICK said \in {<<>>} \cup UNION {Descriptions(i) : i \in seen} :
             AddPage(IF class = "BLANK" THEN <<>> ELSE Extracted(at) \o said, class, "whole")
      BY <1>7 DEF ReadPage
    <2>2. seen \subseteq {at} BY <1>2 DEF ImageInv
    <2>3. said \in Seq(LinesOn({0, at}))
      <3> HIDE DEF seen
      <3>1. said \in {<<>>} \cup Descriptions(at) BY <2>2
      <3>2. <<Added("heading", 2)>> \o job.pages[at].ink \in Seq(LinesOn({0, at}))
        <4>1. Added("heading", 2) \in LinesOn({0, at}) BY DEF Added, Line, LinesOn, Kinds
        <4> QED BY <1>3, <4>1
      <3> QED BY <1>4, <3>1, <3>2 DEF Descriptions
    <2> DEFINE text == IF class = "BLANK" THEN <<>> ELSE Extracted(at) \o said
    <2>4. text \in Seq(LinesOn({0, at}))
      <3>1. Extracted(at) \o said \in Seq(LinesOn({0, at})) BY <1>3, <2>3
      <3> QED BY <1>4, <3>1
    <2>5. AddPage(text, class, "whole") BY <2>1
    <2> HIDE DEF text, class
    <2> QED BY <1>5, <2>4, <2>5
  <1> QED BY <1>6, <1>7

\* A call that fails answers nothing.
LEMMA CallsOf ==
  ASSUME NEW P, 0 \in P, NEW ink \in Seq(LinesOn(P)), NEW text \in Seq(LinesOn(P)),
         NEW a \in Calls(ink, text)
  PROVE  a.text \in Seq(LinesOn(P))
  <1>1. Failed.text = <<>> BY DEF Failed
  <1>2. <<>> \in Seq(LinesOn(P)) OBVIOUS
  <1>3. CASE a = Failed BY <1>1, <1>2, <1>3
  <1>4. CASE a \in Answers(ink, text) BY <1>4, AnswersOf
  <1> QED BY <1>3, <1>4 DEF Calls

LEMMA OcrSteps ==
  ASSUME PlaceInv, StartOcr \/ ContinueOcr \/ OcrFails \/ EndOcr
  PROVE  PlaceInv'
  <1>1. Count \in Nat /\ ImageInv /\ OcrInv /\ TextInv BY JobPages DEF PlaceInv, ImageInv
  <1>2. at \in 1..Count /\ at \in DOMAIN images /\ images[at] = at
    <2>1. CASE AtPage /\ Transcribed(at)
      BY <1>1, <2>1 DEF AtPage, Transcribed, OcrInv, ImageInv
    <2>2. CASE stage = "ocr" BY <1>1, <2>2 DEF OcrInv, ImageInv
    <2> QED BY <2>1, <2>2 DEF StartOcr, ContinueOcr, OcrFails, EndOcr
  <1>3. Extracted(at) \in Seq(LinesOn({0, at})) /\ Ink \in Seq(LinesOn({0, at}))
    BY <1>1, <1>2, JobPages DEF ImageInv, Ink
  <1>4. <<>> \in Seq(LinesOn({0, at})) OBVIOUS
  <1>5. ASSUME UNCHANGED <<job, candidates, images, at, pages, warnings>>, stage' = "ocr",
               ocr'.text \in Seq(LinesOn({0, at}))
        PROVE  PlaceInv'
    <2>1. \A x : OwnText(x) => OwnText(x)' BY <1>5 DEF OwnText, Home, Count
    <2>2. TextInv' BY <1>1, <1>5, <2>1 DEF TextInv
    <2> QED BY <1>1, <1>2, <1>5, <2>2 DEF PlaceInv, ImageInv, OcrInv, Count
  <1>6. CASE StartOcr
    <2>1. PICK a \in Calls(Ink, <<>>) :
             ocr' = [text |-> a.text, finish |-> a.finish, rounds |-> 0, honest |-> a.honest]
      BY <1>6 DEF StartOcr
    <2>2. a.text \in Seq(LinesOn({0, at})) BY <1>3, <1>4, CallsOf
    <2>3. ocr'.text = a.text BY <2>1
    <2> QED BY <1>5, <1>6, <2>2, <2>3 DEF StartOcr
  <1>7. CASE ContinueOcr
    <2>1. PICK a \in Calls(Ink, ocr.text) :
             LET ends == a.text = <<>> \/ Repeats(ocr.text, a.text)
             IN  ocr' = [text   |-> IF ends THEN ocr.text ELSE ocr.text \o a.text,
                         finish |-> NextFinish(a),
                         rounds |-> IF ends THEN MaxRounds ELSE ocr.rounds + 1,
                         honest |-> ocr.honest /\ a.honest]
      BY <1>7 DEF ContinueOcr
    <2>2. ocr.text \in Seq(LinesOn({0, at})) BY <1>1, <1>7 DEF ContinueOcr, OcrInv
    <2>3. a.text \in Seq(LinesOn({0, at})) BY <1>3, <2>2, CallsOf
    <2>4. ocr'.text \in {ocr.text, ocr.text \o a.text} BY <2>1
    <2>5. ocr.text \o a.text \in Seq(LinesOn({0, at})) BY <2>2, <2>3
    <2>6. stage' = "ocr" BY <1>7 DEF ContinueOcr
    <2> QED BY <1>5, <1>7, <2>2, <2>4, <2>5, <2>6 DEF ContinueOcr
  <1>8. CASE OcrFails
    <2>1. ocr'.text = <<>> BY <1>8 DEF OcrFails, NoOcr
    <2> QED BY <1>4, <1>5, <1>8, <2>1 DEF OcrFails
  <1>9. CASE EndOcr
    <2> DEFINE text == Cleaned(ocr.text)
               whole == IF text = <<>> THEN Extracted(at)
                        ELSE Extracted(at) \o <<Added("heading", 2)>> \o text
    <2>1. /\ UNCHANGED <<job, candidates, images>> /\ stage' = "read"
          /\ warnings \subseteq warnings'
          /\ AddPage(whole, "IMAGE", Fate)
      BY <1>9 DEF EndOcr
    <2>2. text \in Seq(LinesOn({0, at})) BY <1>1, <1>9, CleanedOf DEF EndOcr, OcrInv
    <2>3. whole \in Seq(LinesOn({0, at}))
      <3> HIDE DEF text
      <3>1. Added("heading", 2) \in LinesOn({0, at}) BY DEF Added, Line, LinesOn, Kinds
      <3>2. Extracted(at) \o <<Added("heading", 2)>> \o text \in Seq(LinesOn({0, at}))
        BY <1>3, <2>2, <3>1
      <3> QED BY <1>3, <3>2
    <2> HIDE DEF whole
    <2>4. at' \in Nat \ {0} /\ TextInv' BY <1>1, <1>2, <2>1, <2>3, OnePageMore
    <2> QED BY <1>1, <2>1, <2>4 DEF PlaceInv, ImageInv, OcrInv, Count
  <1> QED BY <1>6, <1>7, <1>8, <1>9

LEMMA RecoverStep ==
  ASSUME PlaceInv, Recover
  PROVE  PlaceInv'
  <1>1. UNCHANGED <<job, candidates, images, at, ocr>> /\ stage' = "parsed" /\ stage = "failed"
    BY DEF Recover
  <1>2. Count \in Nat /\ ImageInv /\ OcrInv /\ TextInv BY JobPages DEF PlaceInv, ImageInv
  <1>3. TextInv'
    <2>1. CASE UNCHANGED pages /\ warnings' = warnings \cup {<<0, "aborted">>}
      <3>1. PlaceInv' BY <1>1, <2>1, PagesUntouched
      <3> QED BY <3>1 DEF PlaceInv
    <2>2. CASE pages' = Numbered(Recovered) /\ warnings' = warnings \cup {<<0, "recovered">>}
      <3> DEFINE row(i) ==
                   NoImage(Page(i, <<Added("plain", 2)>> \o job.pages[Recovered[i]].lines, "TEXT",
                                Recovered[i], "whole"))
      <3>1. pages' = [i \in DOMAIN Recovered |-> row(i)] BY <2>2 DEF Numbered
      <3>2. Recovered \in Seq(1..Count)
        <4> DEFINE all == [p \in 1..Count |-> p]
        <4>1. all \in Seq(1..Count) BY <1>2
        <4> HIDE DEF all
        <4>2. Keep(all, {p \in 1..Count : job.pages[p].lines # <<>>}) \in Seq(1..Count)
          BY <4>1, KeepOf
        <4>3. <<>> \in Seq(1..Count) OBVIOUS
        <4> QED BY <4>2, <4>3 DEF Recovered, all
      <3>3. /\ Len(Recovered) \in Nat /\ DOMAIN Recovered = 1..Len(Recovered)
            /\ \A i \in DOMAIN Recovered : Recovered[i] \in 1..Count
        BY <3>2, SeqElements
      <3>4. ASSUME NEW i \in DOMAIN Recovered, NEW x, x = row(i) PROVE OwnText(x)'
        <4> DEFINE p == Recovered[i]
                   text == <<Added("plain", 2)>> \o job.pages[p].lines
        <4>1. x.text = text /\ x.of = p /\ x.image = FALSE
          BY <3>4 DEF NoImage, Page
        <4>2. p \in 1..Count BY <3>3
        <4> HIDE DEF p
        <4>3. text \in Seq(LinesOn(Home(p)))
          <5>1. {p} \subseteq Home(p) BY <4>2 DEF Home
          <5>2. Seq(LinesOn({p})) \subseteq Seq(LinesOn(Home(p))) BY <5>1, MorePages
          <5>3. job.pages[p].lines \in Seq(LinesOn({p})) BY <1>2, <4>2, JobPages DEF ImageInv
          <5>4. Added("plain", 2) \in LinesOn(Home(p)) BY DEF Added, Line, LinesOn, Kinds, Home
          <5> QED BY <5>2, <5>3, <5>4
        <4> HIDE DEF text, row
        <4> QED BY <1>1, <2>2, <4>1, <4>3 DEF OwnText, Home, Count
      <3> DEFINE rows == {row(i) : i \in DOMAIN Recovered}
      <3> HIDE DEF row
      <3>5. pages' \in Seq(rows)
        <4>1. \A i \in DOMAIN Recovered : row(i) \in rows OBVIOUS
        <4> HIDE DEF rows
        <4> QED BY <3>1, <3>3, <4>1
      <3>6. ASSUME NEW x \in rows PROVE OwnText(x)'
        <4>1. PICK i \in DOMAIN Recovered : x = row(i) OBVIOUS
        <4> QED BY <3>4, <4>1
      <3> HIDE DEF rows
      <3>7. pages' \in Seq(ToSet(pages')) /\ ToSet(pages') \subseteq rows BY <3>5, SeqOfItsOwn
      <3> QED BY <1>1, <3>6, <3>7 DEF TextInv
    <2>3. CASE pages' = <<NoImage(Page(1, <<Added("plain", 2)>>, "TEXT", 1, "whole"))>>
      <3> DEFINE page == NoImage(Page(1, <<Added("plain", 2)>>, "TEXT", 1, "whole"))
      <3>1. /\ page.text = <<Added("plain", 2)>> /\ page.num = 1 /\ page.of = 1
            /\ page.image = FALSE
        BY DEF NoImage, Page
      <3>2. Added("plain", 2) \in LinesOn(Home(1)) BY DEF Added, Line, LinesOn, Kinds, Home
      <3>3. <<Added("plain", 2)>> \in Seq(LinesOn(Home(1))) BY <3>2
      <3> HIDE DEF page
      <3>4. \A x \in {page} : OwnText(x)' BY <1>1, <3>1, <3>3 DEF OwnText, Home, Count
      <3>5. pages' \in Seq({page}) BY <2>3 DEF page
      <3>6. pages' \in Seq(ToSet(pages')) /\ ToSet(pages') \subseteq {page} BY <3>5, SeqOfItsOwn
      <3> QED BY <1>1, <3>4, <3>6 DEF TextInv
    <2> QED BY <2>1, <2>2, <2>3 DEF Recover
  <1> QED BY <1>1, <1>2, <1>3 DEF PlaceInv, ImageInv, OcrInv, Count

-----------------------------------------------------------------------------
(* The invariant of the chunker.                                           *)

\* The pages of a section and those before the first section, by their lines.
PathPages(file, path) == {0} \cup {p \in 1..Len(file) : file[p].section \in {path, NoSection}}

DocInv ==
    /\ doc \in Seq(ToSet(doc))
    /\ \A x \in ToSet(doc) : x.text \in Seq(LinesOn(PathPages(job.pages, x.section)))

\* The pages collected: of the section the loop is in, and before the next page.
Ids(s) == {s[i].id : i \in 1..Len(s)}
BufferInv ==
    /\ next \in Nat \ {0}
    /\ buffer \in Seq(PageOf(PathPages(job.pages, section), Ids(buffer)))
    /\ Ids(buffer) \subseteq 1..(next - 1)

\* Chunks that are stored under the pages in I, each once, with lines of their
\* own section.
Apart(file, s, I) ==
    /\ s \in Seq(ToSet(s))
    /\ \A x \in ToSet(s) : x.page \in I /\ x.text \in Seq(LinesOn(PathPages(file, x.section)))
    /\ \A i, j \in DOMAIN s : (s[i].page = s[j].page /\ s[i].idx = s[j].idx) => i = j

\* No page that has a chunk is collected again.
ItemInv == Apart(job.pages, items, 1..(next - 1) \ Ids(buffer))

ChunkInv == DocInv /\ BufferInv /\ ItemInv

-----------------------------------------------------------------------------
(* Chunks that keep apart.                                                 *)

LEMMA MoreOfPath ==
  ASSUME NEW file, NEW path, NEW other \in {path, NoSection}
  PROVE  Seq(LinesOn(PathPages(file, other))) \subseteq Seq(LinesOn(PathPages(file, path)))
  <1>1. PathPages(file, other) \subseteq PathPages(file, path) BY DEF PathPages
  <1> QED BY <1>1, MorePages

LEMMA NoChunks ==
  ASSUME NEW file, NEW I
  PROVE  Apart(file, <<>>, I)
  <1>1. DOMAIN <<>> = {} OBVIOUS
  <1>2. ToSet(<<>>) = {} BY <1>1, Zenon DEF ToSet
  <1>3. <<>> \in Seq(ToSet(<<>>)) OBVIOUS
  <1> QED BY <1>1, <1>2, <1>3 DEF Apart

LEMMA ApartAmong ==
  ASSUME NEW file, NEW s, NEW I, NEW J, Apart(file, s, I), I \subseteq J
  PROVE  Apart(file, s, J)
  BY DEF Apart

\* A section is processed once; the index tells its chunks apart.
LEMMA SectionApart ==
  ASSUME NEW file, NEW path, NEW I, NEW pages_ \in Seq(PageOf(PathPages(file, path), I))
  PROVE  Apart(file, ProcessSection(pages_, path), I)
  <1> DEFINE s == ProcessSection(pages_, path)
             All == Items(PathPages(file, path), I, path)
  <1>1. s \in Seq(All) /\ NumberedFrom0(s) BY ProcessSectionOf
  <1> HIDE DEF s
  <1>2. s \in Seq(ToSet(s)) /\ ToSet(s) \subseteq All BY <1>1, SeqOfItsOwn
  <1>3. \A x \in ToSet(s) : x.page \in I /\ x.text \in Seq(LinesOn(PathPages(file, x.section)))
    BY <1>2 DEF Items
  <1>4. Len(s) \in Nat /\ DOMAIN s = 1..Len(s) BY <1>1, SeqElements
  <1>5. \A i, j \in DOMAIN s : s[i].idx = s[j].idx => i = j
    BY <1>1, <1>4 DEF NumberedFrom0
  <1>6. Apart(file, s, I) BY <1>2, <1>3, <1>5 DEF Apart
  <1> QED BY <1>6 DEF s

\* Chunks of pages that are not the same ones.
LEMMA Joined ==
  ASSUME NEW file, NEW I, NEW J, NEW s, NEW t, Apart(file, s, I), Apart(file, t, J), I \cap J = {}
  PROVE  Apart(file, s \o t, I \cup J)
  <1> DEFINE u == s \o t
             All == ToSet(s) \cup ToSet(t)
             n == Len(s)
  <1>1. s \in Seq(ToSet(s)) /\ t \in Seq(ToSet(t)) BY DEF Apart
  <1>2. s \in Seq(All) /\ t \in Seq(All)
    <2>1. ToSet(s) \subseteq All /\ ToSet(t) \subseteq All OBVIOUS
    <2> HIDE DEF All
    <2> QED BY <1>1, <2>1
  <1>3. /\ n \in Nat /\ Len(t) \in Nat /\ DOMAIN s = 1..n /\ DOMAIN t = 1..Len(t)
        /\ \A i \in DOMAIN s : s[i] \in ToSet(s)
        /\ \A i \in DOMAIN t : t[i] \in ToSet(t)
    BY <1>1, SeqElements
  <1> HIDE DEF All
  <1>4. /\ u \in Seq(All) /\ DOMAIN u = 1..(n + Len(t))
        /\ \A i \in 1..n : u[i] = s[i]
        /\ \A i \in (n + 1)..(n + Len(t)) : u[i] = t[i - n]
    BY <1>2
  <1> HIDE DEF u, n
  <1>5. u \in Seq(ToSet(u)) /\ ToSet(u) \subseteq All BY <1>4, SeqOfItsOwn
  <1>6. \A x \in All : x.page \in I \cup J /\ x.text \in Seq(LinesOn(PathPages(file, x.section)))
    BY DEF Apart, All
  <1>7. ASSUME NEW i \in DOMAIN u
        PROVE  \/ i \in DOMAIN s /\ u[i] = s[i] /\ u[i].page \in I
               \/ i - n \in DOMAIN t /\ u[i] = t[i - n] /\ u[i].page \in J
    <2>1. CASE i \in 1..n
      <3>1. i \in DOMAIN s /\ u[i] = s[i] /\ s[i] \in ToSet(s) BY <1>3, <1>4, <2>1
      <3> QED BY <3>1 DEF Apart
    <2>2. CASE i \notin 1..n
      <3>1. i \in (n + 1)..(n + Len(t)) /\ i - n \in 1..Len(t) BY <1>3, <1>4, <2>2
      <3>2. i - n \in DOMAIN t /\ u[i] = t[i - n] /\ t[i - n] \in ToSet(t) BY <1>3, <1>4, <3>1
      <3> QED BY <3>2 DEF Apart
    <2> QED BY <2>1, <2>2
  <1>8. ASSUME NEW i \in DOMAIN u, NEW j \in DOMAIN u,
               u[i].page = u[j].page, u[i].idx = u[j].idx
        PROVE  i = j
    <2>1. CASE i \in DOMAIN s /\ u[i] = s[i] /\ u[i].page \in I
      <3>1. j \in DOMAIN s /\ u[j] = s[j] BY <1>7, <1>8, <2>1
      <3> QED BY <1>8, <2>1, <3>1 DEF Apart
    <2>2. CASE i - n \in DOMAIN t /\ u[i] = t[i - n] /\ u[i].page \in J
      <3>1. j - n \in DOMAIN t /\ u[j] = t[j - n] BY <1>7, <1>8, <2>2
      <3>2. i - n = j - n BY <1>8, <2>2, <3>1 DEF Apart
      <3>3. i \in Int /\ j \in Int BY <1>4
      <3> QED BY <1>3, <3>2, <3>3
    <2> QED BY <1>7, <2>1, <2>2
  <1>9. Apart(file, u, I \cup J) BY <1>5, <1>6, <1>8 DEF Apart
  <1> QED BY <1>9 DEF u

-----------------------------------------------------------------------------
(* The steps that store the pages and chunk them.                          *)

\* The text that is stored of a page has lines of the page's section only.
LEMMA TextOfItsSection ==
  ASSUME PlaceInv, NEW i \in DOMAIN pages, NEW text, NEW outcome,
         text = Sanitized(IF ReadsImage(i) THEN Preprocessed(i, outcome) ELSE pages[i].text)
  PROVE  /\ <<>> \in Seq(LinesOn(PathPages(job.pages, Source(i).section)))
         /\ text \in Seq(LinesOn(PathPages(job.pages, Source(i).section)))
         /\ Stripped(text) \in Seq(LinesOn(PathPages(job.pages, Source(i).section)))
  <1> DEFINE L == LinesOn(PathPages(job.pages, Source(i).section))
             page == pages[i]
  <1>1. OwnText(page) /\ job \in Jobs
    <2>1. pages[i] \in ToSet(pages) BY Zenon DEF ToSet
    <2> QED BY <2>1 DEF PlaceInv, TextInv, ImageInv
  <1>2. Seq(LinesOn(Home(page.of))) \subseteq Seq(L)
    <2>1. Home(page.of) \subseteq PathPages(job.pages, Source(i).section)
      BY DEF Home, PathPages, Source, Count
    <2> QED BY <2>1, MorePages
  <1>3. page.text \in Seq(L) BY <1>1, <1>2 DEF OwnText
  <1>4. <<>> \in Seq(L) OBVIOUS
  <1>5. Rendition(i) \in Seq(L)
    <2>1. CASE page.image
      <3>1. page.num = page.of /\ page.num \in 1..Count /\ images[page.num] = page.num
        BY <1>1, <2>1 DEF OwnText, PlaceInv, ImageInv
      <3>2. job.pages[page.num].ink \in Seq(LinesOn({page.num})) BY <1>1, <3>1, JobPages
      <3>3. {page.num} \subseteq Home(page.of) BY <3>1 DEF Home
      <3>4. Seq(LinesOn({page.num})) \subseteq Seq(LinesOn(Home(page.of))) BY <3>3, MorePages
      <3>5. Rendition(i) = job.pages[page.num].ink BY <2>1, <3>1 DEF Rendition
      <3> QED BY <1>2, <3>2, <3>4, <3>5
    <2>2. CASE ~page.image BY <1>4, <2>2 DEF Rendition
    <2> QED BY <2>1, <2>2
  <1> HIDE DEF L
  <1> DEFINE before == IF ReadsImage(i) THEN Preprocessed(i, outcome) ELSE pages[i].text
  <1>6. before \in Seq(L)
    <2>1. before \in {<<>>, Rendition(i), pages[i].text} BY Zenon DEF Preprocessed
    <2> HIDE DEF before
    <2> QED BY <1>3, <1>4, <1>5, <2>1
  <1>7. text = Sanitized(before) OBVIOUS
  <1> HIDE DEF before
  <1>8. text \in Seq(L)
    <2> DEFINE echoes == {k \in DOMAIN before : before[k].kind = "echo"}
    <2>1. text \in {before, Keep(before, DOMAIN before \ echoes)} BY <1>7, Zenon DEF Sanitized
    <2> HIDE DEF echoes
    <2>2. Keep(before, DOMAIN before \ echoes) \in Seq(L) BY <1>6, KeepOf
    <2> QED BY <1>6, <2>1, <2>2
  <1>9. Stripped(text) \in Seq(L) BY <1>8, KeepOf DEF Stripped
  <1> QED BY <1>4, <1>8, <1>9 DEF L

LEMMA StoreStep ==
  ASSUME PlaceInv, StorePages
  PROVE  PlaceInv' /\ DocInv'
  <1>1. /\ UNCHANGED <<job, candidates, images, at, ocr, pages>> /\ stage' = "stored"
        /\ warnings \subseteq warnings'
    BY DEF StorePages
  <1>2. PlaceInv' BY <1>1, PagesUntouched
  <1>3. DocInv'
    <2> DEFINE Fits(x) == x.text \in Seq(LinesOn(PathPages(job.pages, x.section)))
    <2>1. PICK outcome \in [{i \in DOMAIN pages : ReadsImage(i)} -> Outcomes] :
             LET text(i) == Sanitized(IF ReadsImage(i) THEN Preprocessed(i, outcome[i])
                                      ELSE pages[i].text)
                 lost == {i \in DOMAIN pages : ~Source(i).analyses}
                 unreadable == {i \in DOMAIN pages \ lost : Unreadable(text(i))}
                 stored(i) == IF pages[i].class = "BLANK" \/ i \in unreadable THEN <<>>
                              ELSE IF text(i) # <<>> /\ Coded(text(i)) THEN Stripped(text(i))
                              ELSE text(i)
                 row(i) == [num |-> pages[i].num, text |-> stored(i),
                            section |-> Source(i).section]
                 kept == Keep([i \in DOMAIN pages |-> i], DOMAIN pages \ lost)
             IN  doc' = [k \in DOMAIN kept |-> row(kept[k])]
      BY DEF StorePages
    <2> DEFINE text(i) == Sanitized(IF ReadsImage(i) THEN Preprocessed(i, outcome[i])
                                    ELSE pages[i].text)
               lost == {i \in DOMAIN pages : ~Source(i).analyses}
               unreadable == {i \in DOMAIN pages \ lost : Unreadable(text(i))}
               stored(i) == IF pages[i].class = "BLANK" \/ i \in unreadable THEN <<>>
                            ELSE IF text(i) # <<>> /\ Coded(text(i)) THEN Stripped(text(i))
                            ELSE text(i)
               row(i) == [num |-> pages[i].num, text |-> stored(i),
                          section |-> Source(i).section]
               kept == Keep([i \in DOMAIN pages |-> i], DOMAIN pages \ lost)
               rows == {row(i) : i \in DOMAIN pages}
    <2>2. doc' = [k \in DOMAIN kept |-> row(kept[k])] BY <2>1
    <2>3. ASSUME NEW i \in DOMAIN pages, NEW x, x = row(i) PROVE Fits(x)
      <3> DEFINE now == text(i)
      <3>1. stored(i) \in {<<>>, now, Stripped(now)} BY Zenon
      <3>2. now = Sanitized(IF ReadsImage(i) THEN Preprocessed(i, outcome[i]) ELSE pages[i].text)
        OBVIOUS
      <3>3. x.text = stored(i) /\ x.section = Source(i).section BY <2>3
      <3> HIDE DEF stored, now
      <3> QED BY <3>1, <3>2, <3>3, TextOfItsSection
    <2>4. kept \in Seq(DOMAIN pages)
      <3> DEFINE all == [i \in DOMAIN pages |-> i]
                 D == DOMAIN pages
      <3>1. Len(pages) \in Nat /\ D = 1..Len(pages) BY SeqElements DEF PlaceInv, TextInv
      <3>2. all \in Seq(D) BY <3>1
      <3> HIDE DEF all, lost, D
      <3> QED BY <3>2, KeepOf DEF all, D
    <2> HIDE DEF kept, row
    <2>5. doc' \in Seq(rows)
      <3>1. /\ Len(kept) \in Nat /\ DOMAIN kept = 1..Len(kept)
            /\ \A k \in DOMAIN kept : kept[k] \in DOMAIN pages
        BY <2>4, SeqElements
      <3>2. \A k \in DOMAIN kept : row(kept[k]) \in rows BY <3>1
      <3> HIDE DEF rows
      <3> QED BY <2>2, <3>1, <3>2
    <2>6. ASSUME NEW x \in rows PROVE Fits(x)
      <3>1. PICK i \in DOMAIN pages : x = row(i) OBVIOUS
      <3> QED BY <2>3, <3>1
    <2> HIDE DEF rows
    <2>7. doc' \in Seq(ToSet(doc')) /\ ToSet(doc') \subseteq rows BY <2>5, SeqOfItsOwn
    <2> QED BY <1>1, <2>6, <2>7 DEF DocInv, PathPages
  <1> QED BY <1>2, <1>3

LEMMA BufferOf ==
  ASSUME BufferInv
  PROVE  Apart(job.pages, ProcessSection(buffer, section), Ids(buffer))
  BY SectionApart DEF BufferInv

LEMMA SkipPageStep ==
  ASSUME ChunkInv, SkipPage, UNCHANGED pdfVars
  PROVE  ChunkInv'
  <1>1. next' = next + 1 /\ UNCHANGED <<doc, section, buffer, items, job>>
    BY DEF SkipPage, pdfVars
  <1>2. next \in Nat \ {0} /\ Ids(buffer) \subseteq 1..(next - 1) BY DEF ChunkInv, BufferInv
  <1>3. next + 1 \in Nat \ {0} /\ Ids(buffer) \subseteq 1..(next + 1 - 1) BY <1>2
  <1>4. 1..(next - 1) \ Ids(buffer) \subseteq 1..(next' - 1) \ Ids(buffer) BY <1>1, <1>2
  <1>5. DocInv' BY <1>1 DEF ChunkInv, DocInv, PathPages
  <1>6. BufferInv' BY <1>1, <1>3 DEF ChunkInv, BufferInv, PathPages, Ids
  <1>7. Apart(job.pages, items, 1..(next' - 1) \ Ids(buffer))
    BY <1>4, ApartAmong DEF ChunkInv, ItemInv
  <1>8. ItemInv' BY <1>1, <1>7 DEF ItemInv, Ids
  <1> QED BY <1>5, <1>6, <1>8 DEF ChunkInv

\* The page that is collected joins the pages of the section before it, unless it
\* ends that section: then those are processed.
LEMMA CollectedOf ==
  ASSUME ChunkInv, NEW row, NEW path, row = doc[next], path = row.section, next <= Len(doc)
  PROVE  LET kept == Collected(path, [id |-> next, text |-> row.text])
         IN  /\ kept \in Seq(PageOf(PathPages(job.pages, path), Ids(kept)))
             /\ Ids(kept) \subseteq 1..next
             /\ Apart(job.pages, items \o Ended(path), 1..next \ Ids(kept))
  <1> DEFINE page == [id |-> next, text |-> row.text]
             kept == Collected(path, page)
             P == PathPages(job.pages, path)
  <1>1. next \in Nat \ {0} /\ Ids(buffer) \subseteq 1..(next - 1) BY DEF ChunkInv, BufferInv
  <1>2. row.text \in Seq(LinesOn(P))
    <2>1. next \in DOMAIN doc BY <1>1, SeqElements DEF ChunkInv, DocInv
    <2>2. row \in ToSet(doc) BY <2>1, Zenon DEF ToSet
    <2> QED BY <2>2 DEF ChunkInv, DocInv
  <1>3. \A I : next \in I => page \in PageOf(P, I) BY <1>2 DEF PageOf
  <1>4. Apart(job.pages, items, 1..(next - 1) \ Ids(buffer)) BY DEF ChunkInv, ItemInv
  <1>5. page.id = next OBVIOUS
  <1> HIDE DEF page
  <1>6. CASE Turns(path)
    <2>1. kept = <<page>> /\ Ended(path) = ProcessSection(buffer, section)
      BY <1>6 DEF Collected, Ended
    <2>2. Ids(kept) = {next} BY <1>5, <2>1 DEF Ids
    <2>3. kept \in Seq(PageOf(P, {next}))
      <3>1. page \in PageOf(P, {next}) BY <1>3
      <3> QED BY <2>1, <3>1
    <2>4. Apart(job.pages, Ended(path), Ids(buffer))
      BY <2>1, BufferOf DEF ChunkInv
    <2>5. (1..(next - 1) \ Ids(buffer)) \cap Ids(buffer) = {} OBVIOUS
    <2>6. Apart(job.pages, items \o Ended(path), (1..(next - 1) \ Ids(buffer)) \cup Ids(buffer))
      BY <1>4, <2>4, <2>5, Joined
    <2>7. (1..(next - 1) \ Ids(buffer)) \cup Ids(buffer) \subseteq 1..next \ {next} BY <1>1
    <2>8. Apart(job.pages, items \o Ended(path), 1..next \ {next}) BY <2>6, <2>7, ApartAmong
    <2>9. {next} \subseteq 1..next BY <1>1
    <2> QED BY <2>2, <2>3, <2>8, <2>9 DEF page
  <1>7. CASE ~Turns(path)
    <2>1. kept = Append(buffer, page) /\ Ended(path) = <<>> BY <1>7 DEF Collected, Ended
    <2> DEFINE I == Ids(buffer) \cup {next}
    <2>2. buffer \in Seq(PageOf(P, I))
      <3>1. buffer \in Seq(PageOf(PathPages(job.pages, section), Ids(buffer)))
        BY DEF ChunkInv, BufferInv
      <3>2. Seq(LinesOn(PathPages(job.pages, section))) \subseteq Seq(LinesOn(P))
        <4>1. section \in {path, NoSection} BY <1>7 DEF Turns
        <4> HIDE DEF P
        <4> QED BY <4>1, MoreOfPath DEF P
      <3>3. PageOf(PathPages(job.pages, section), Ids(buffer)) \subseteq PageOf(P, I)
        BY <3>2 DEF PageOf
      <3> HIDE DEF P, I
      <3> QED BY <3>1, <3>3
    <2>3. Ids(kept) = I
      <3>1. /\ Len(buffer) \in Nat /\ Len(kept) = Len(buffer) + 1
            /\ \A i \in 1..Len(buffer) : kept[i] = buffer[i]
            /\ kept[Len(buffer) + 1] = page
        BY <2>1, <2>2
      <3>2. 1..Len(kept) = 1..Len(buffer) \cup {Len(buffer) + 1} BY <3>1
      <3> HIDE DEF kept
      <3>3. {kept[i].id : i \in 1..Len(kept)} = {buffer[i].id : i \in 1..Len(buffer)} \cup {page.id}
        BY <3>1, <3>2
      <3> QED BY <1>5, <3>3 DEF Ids
    <2>4. kept \in Seq(PageOf(P, I))
      <3>1. page \in PageOf(P, I) BY <1>3
      <3> HIDE DEF P, I
      <3> QED BY <2>1, <2>2, <3>1
    <2>5. I \subseteq 1..next BY <1>1
    <2>6. items \o Ended(path) = items
      <3>1. items \in Seq(ToSet(items)) BY <1>4 DEF Apart
      <3> QED BY <2>1, <3>1
    <2>7. 1..(next - 1) \ Ids(buffer) \subseteq 1..next \ I BY <1>1
    <2>8. Apart(job.pages, items \o Ended(path), 1..next \ I) BY <1>4, <2>6, <2>7, ApartAmong
    <2> QED BY <2>3, <2>4, <2>5, <2>8 DEF page
  <1> QED BY <1>6, <1>7 DEF page

LEMMA TakePageStep ==
  ASSUME ChunkInv, TakePage, UNCHANGED pdfVars
  PROVE  ChunkInv'
  <1> DEFINE row == doc[next]
             path == row.section
             kept == Collected(path, [id |-> next, text |-> row.text])
             stored == items \o Ended(path)
  <1>1. next <= Len(doc) /\ next' = next + 1 /\ section' = path /\ UNCHANGED <<doc, job>>
    BY DEF TakePage, pdfVars
  <1>2. /\ kept \in Seq(PageOf(PathPages(job.pages, path), Ids(kept)))
        /\ Ids(kept) \subseteq 1..next
        /\ Apart(job.pages, stored, 1..next \ Ids(kept))
    BY <1>1, CollectedOf
  <1>3. \/ buffer' = <<>> /\ items' = stored \o ProcessSection(kept, path)
        \/ buffer' = kept /\ items' = stored
    BY DEF TakePage
  <1>4. next \in Nat \ {0} /\ next + 1 \in Nat \ {0} /\ next + 1 - 1 = next
    BY DEF ChunkInv, BufferInv
  <1>5. DocInv' BY <1>1 DEF ChunkInv, DocInv
  <1> HIDE DEF kept, stored
  <1>6. CASE buffer' = <<>> /\ items' = stored \o ProcessSection(kept, path)
    <2>1. Apart(job.pages, ProcessSection(kept, path), Ids(kept)) BY <1>2, SectionApart
    <2>2. (1..next \ Ids(kept)) \cap Ids(kept) = {} OBVIOUS
    <2>3. Apart(job.pages, stored \o ProcessSection(kept, path),
                (1..next \ Ids(kept)) \cup Ids(kept))
      BY <1>2, <2>1, <2>2, Joined
    <2>4. Ids(buffer') = {} /\ \A I : buffer' \in Seq(I)
      <3>1. Len(buffer') = 0 BY <1>6
      <3>2. 1..Len(buffer') = {} BY <3>1
      <3> QED BY <1>6, <3>2 DEF Ids
    <2>5. (1..next \ Ids(kept)) \cup Ids(kept) = 1..(next' - 1) \ Ids(buffer')
      BY <1>1, <1>2, <1>4, <2>4
    <2>6. ItemInv' BY <1>1, <1>6, <2>3, <2>5 DEF ItemInv, Ids
    <2>7. BufferInv' BY <1>1, <1>4, <2>4 DEF BufferInv, Ids
    <2> QED BY <1>5, <2>6, <2>7 DEF ChunkInv
  <1>7. CASE buffer' = kept /\ items' = stored
    <2>1. ItemInv' BY <1>1, <1>2, <1>4, <1>7 DEF ItemInv, Ids
    <2>2. BufferInv' BY <1>1, <1>2, <1>4, <1>7 DEF BufferInv, Ids
    <2> QED BY <1>5, <2>1, <2>2 DEF ChunkInv
  <1> QED BY <1>3, <1>6, <1>7

LEMMA LastSectionStep ==
  ASSUME ChunkInv, LastSection, UNCHANGED pdfVars
  PROVE  ChunkInv'
  <1> DEFINE last == ProcessSection(buffer, section)
             old == 1..(next - 1) \ Ids(buffer)
  <1>1. /\ next' = next + 1 /\ buffer' = <<>> /\ items' = items \o last
        /\ UNCHANGED <<doc, section, job>>
    BY DEF LastSection, pdfVars
  <1>2. next \in Nat \ {0} /\ Ids(buffer) \subseteq 1..(next - 1) BY DEF ChunkInv, BufferInv
  <1>3. Apart(job.pages, items, old) /\ Apart(job.pages, last, Ids(buffer))
    BY BufferOf DEF ChunkInv, ItemInv
  <1> HIDE DEF last
  <1>4. old \cap Ids(buffer) = {} OBVIOUS
  <1>5. Apart(job.pages, items \o last, old \cup Ids(buffer)) BY <1>3, <1>4, Joined
  <1>6. Ids(buffer') = {} /\ \A I : buffer' \in Seq(I)
    <2>1. Len(buffer') = 0 BY <1>1
    <2>2. 1..Len(buffer') = {} BY <2>1
    <2> QED BY <1>1, <2>2 DEF Ids
  <1>7. next' \in Nat \ {0} /\ old \cup Ids(buffer) \subseteq 1..(next' - 1) \ Ids(buffer')
    BY <1>1, <1>2, <1>6
  <1>8. Apart(job.pages, items \o last, 1..(next' - 1) \ Ids(buffer')) BY <1>5, <1>7, ApartAmong
  <1>9. ItemInv' BY <1>1, <1>8 DEF ItemInv, Ids
  <1>10. BufferInv' BY <1>1, <1>6, <1>7 DEF BufferInv, Ids
  <1>11. DocInv' BY <1>1 DEF ChunkInv, DocInv
  <1> QED BY <1>9, <1>10, <1>11 DEF ChunkInv

-----------------------------------------------------------------------------
(* The theorems.                                                           *)

ReadingInv == PlaceInv /\ ChunkInv

LEMMA ReadingInvHolds == Spec => []ReadingInv
  <1>1. Init => ReadingInv
    <2> SUFFICES ASSUME PdfInit, ChunkInit PROVE ReadingInv BY DEF Init
    <2>1. DOMAIN images = {} /\ pages \in Seq(ToSet(pages)) /\ ToSet(pages) = {}
          /\ doc \in Seq(ToSet(doc)) /\ ToSet(doc) = {}
      <3>1. images = <<>> /\ pages = <<>> /\ doc = <<>> BY DEF PdfInit, ChunkInit
      <3>2. DOMAIN pages = {} /\ DOMAIN images = {} /\ DOMAIN doc = {} BY <3>1
      <3>3. ToSet(pages) = {} /\ ToSet(doc) = {} BY <3>2, Zenon DEF ToSet
      <3>4. pages \in Seq({}) /\ doc \in Seq({}) BY <3>1
      <3> QED BY <3>2, <3>3, <3>4
    <2>2. PlaceInv BY <2>1 DEF PdfInit, PlaceInv, ImageInv, OcrInv, TextInv
    <2>3. next = 1 /\ buffer = <<>> /\ items = <<>> BY DEF ChunkInit
    <2>4. Ids(buffer) = {} /\ buffer \in Seq(PageOf(PathPages(job.pages, section), Ids(buffer)))
      <3>1. Len(buffer) = 0 BY <2>3
      <3>2. 1..Len(buffer) = {} BY <3>1
      <3> QED BY <2>3, <3>2 DEF Ids
    <2>5. ItemInv BY <2>3, NoChunks DEF ItemInv
    <2>6. ChunkInv BY <2>1, <2>3, <2>4, <2>5 DEF ChunkInv, DocInv, BufferInv
    <2> QED BY <2>2, <2>6 DEF ReadingInv
  <1>2. ReadingInv /\ [Next]_vars => ReadingInv'
    <2> SUFFICES ASSUME PlaceInv, ChunkInv, [Next]_vars PROVE PlaceInv' /\ ChunkInv'
      BY DEF ReadingInv
    <2>1. ASSUME UNCHANGED <<next, section, buffer, items, job>>, DocInv' PROVE ChunkInv'
      BY <2>1 DEF ChunkInv, BufferInv, ItemInv, Ids
    <2>2. CASE PdfNext /\ UNCHANGED chunkVars
      <3>1. PlaceInv' BY <2>2, FilterSteps, ReadPageStep, OcrSteps, RecoverStep DEF PdfNext
      <3>2. UNCHANGED job
        BY <2>2 DEF PdfNext, Open, Scan, Classify, Reopen, ReadPage, SkipBlankImage, StartOcr,
                    ContinueOcr, OcrFails, EndOcr, PageFails, CloseFile, Recover
      <3>3. UNCHANGED <<doc, next, section, buffer, items>> BY <2>2 DEF chunkVars
      <3>4. DocInv' BY <3>2, <3>3 DEF ChunkInv, DocInv
      <3> QED BY <2>1, <3>1, <3>2, <3>3, <3>4
    <2>3. CASE StorePages
      <3>1. PlaceInv' /\ DocInv' BY <2>3, StoreStep
      <3>2. UNCHANGED <<next, section, buffer, items, job>> BY <2>3 DEF StorePages
      <3> QED BY <2>1, <3>1, <3>2
    <2>4. ASSUME UNCHANGED pdfVars PROVE PlaceInv'
      BY <2>4 DEF pdfVars, PlaceInv, ImageInv, OcrInv, TextInv, OwnText, Home, Count
    <2>5. CASE ChunkNext /\ UNCHANGED pdfVars
      BY <2>4, <2>5, SkipPageStep, TakePageStep, LastSectionStep DEF ChunkNext
    <2>6. CASE UNCHANGED vars
      <3>1. UNCHANGED pdfVars /\ UNCHANGED <<doc, next, section, buffer, items, job>>
        BY <2>6 DEF vars, pdfVars, chunkVars
      <3>2. DocInv' BY <3>1 DEF ChunkInv, DocInv
      <3> QED BY <2>1, <2>4, <3>1, <3>2
    <2> QED BY <2>2, <2>3, <2>5, <2>6 DEF Next
  <1> QED BY <1>1, <1>2, PTL DEF Spec

\* What stands on a page, its image's description and its transcription
\* included, is of the page of that number, or a warning tells of the fallback:
\* the renderers, the batches they work in and the clean-up of a transcription
\* never put text on another page.
THEOREM PagesStayInPlace == Spec => []PagesInPlace
  <1>1. ReadingInv => PagesInPlace
    <2> SUFFICES ASSUME TextInv, NEW i \in DOMAIN pages, NEW l \in ToSet(pages[i].text)
                 PROVE  l.page \in {0, pages[i].num} \/ <<0, "recovered">> \in warnings
      BY DEF ReadingInv, PlaceInv, PagesInPlace
    <2>1. OwnText(pages[i])
      <3>1. pages[i] \in ToSet(pages) BY Zenon DEF ToSet
      <3> QED BY <3>1 DEF TextInv
    <2>2. l \in LinesOn(Home(pages[i].of)) BY <2>1, SeqOfItsOwn DEF OwnText
    <2> QED BY <2>1, <2>2 DEF LinesOn, Home, OwnText
  <1> QED BY <1>1, ReadingInvHolds, PTL

\* Two chunks of a document never share the pair (page_id, chunk_idx) they are
\* stored under, although the index starts again with every group of pages: no
\* page is processed with two groups, whatever sections the pages have, and
\* whichever pages are split, merged or left out.
THEOREM KeysStayUnique == Spec => []KeysUnique
  <1>1. ReadingInv => KeysUnique BY DEF ReadingInv, ChunkInv, ItemInv, Apart, KeysUnique
  <1> QED BY <1>1, ReadingInvHolds, PTL

\* The lines of a chunk are of pages of its own section, or of pages before the
\* first one: a section that ends is processed under its own path, and no pass
\* over its chunks takes in lines of another.
THEOREM SectionsStayApart == Spec => []SectionsKept
  <1>1. ReadingInv => SectionsKept
    <2> SUFFICES ASSUME ItemInv, NEW i \in DOMAIN items, NEW l \in ToSet(items[i].text), l.page # 0
                 PROVE  job.pages[l.page].section \in {items[i].section, NoSection}
      BY DEF ReadingInv, ChunkInv, SectionsKept
    <2>1. items[i] \in ToSet(items) BY Zenon DEF ToSet
    <2>2. items[i].text \in Seq(LinesOn(PathPages(job.pages, items[i].section)))
      BY <2>1 DEF ItemInv, Apart
    <2>3. l \in LinesOn(PathPages(job.pages, items[i].section)) BY <2>2, SeqOfItsOwn
    <2> QED BY <2>3 DEF LinesOn, PathPages
  <1> QED BY <1>1, ReadingInvHolds, PTL

-----------------------------------------------------------------------------
(* The length of a text.                                                   *)

\* f sums the lines of a text up, with one newline each.
Sums(f, text) ==
    f[0] = 0 /\ \A i \in 1..Len(text) : f[i - 1] \in Int /\ f[i] = f[i - 1] + LineLen(text[i]) + 1

LEMMA LengthIs ==
  ASSUME NEW P, NEW text \in Seq(LinesOn(P))
  PROVE  \E f : /\ Sums(f, text)
                /\ Length(text) = IF text = <<>> THEN 0 ELSE f[Len(text)] - 1
  <1> DEFINE n == Len(text)
             S == Int
             base == 0
             op(a, l) == a + LineLen(l) + 1
             G == [i \in 1..n |-> [a \in S |-> op(a, text[i])]]
             E(g) == [i \in 0..n |->
                        IF i = 0 THEN base ELSE At(g[i - 1], LAMBDA a : op(a, text[i]))]
             f == CHOOSE g : g = E(g)
  <1>1. n \in Nat OBVIOUS
  <1>2. base \in S OBVIOUS
  <1>3. \A a \in S, i \in 1..n : op(a, text[i]) \in S
    <2>1. \A i \in 1..n : text[i] \in LinesOn(P) OBVIOUS
    <2>2. \A l \in LinesOn(P) : LineLen(l) \in Int BY DEF LinesOn, LineLen
    <2> QED BY <2>1, <2>2
  <1>4. Length(text) = IF text = <<>> THEN 0 ELSE f[n] - 1
    BY DEF Length, Fold
  <1> HIDE DEF op, S, n, base
  <1>5. PICK h \in [0..n -> S] : Solves(h, n, base, G)
    <2>1. G \in [1..n -> [S -> S]] BY <1>3
    <2> HIDE DEF G
    <2> QED BY <1>1, <1>2, <2>1, Recursion
  <1>6. \A g, i : At(g[i - 1], LAMBDA a : op(a, text[i])) = op(g[i - 1], text[i])
    BY Zenon DEF At
  <1>7. h = E(h)
    <2> SUFFICES ASSUME NEW i \in 0..n, i # 0 PROVE h[i] = op(h[i - 1], text[i])
      BY <1>5, <1>6 DEF Solves
    <2>1. i \in 1..n /\ h[i - 1] \in S BY <1>1
    <2> QED BY <1>5, <2>1 DEF Solves
  <1> HIDE DEF E
  <1>8. f = E(f) BY <1>7, Zenon
  <1> HIDE DEF f
  <1>9. \A i \in 0..n : f[i] = IF i = 0 THEN base ELSE op(f[i - 1], text[i]) BY <1>6, <1>8 DEF E
  <1>10. f[n] \in S
    <2>1. 0 \in 0..n /\ \A i \in 1..n : i \in 0..n /\ i # 0 BY <1>1
    <2>2. f[0] \in S /\ \A i \in 1..n : f[i - 1] \in S => f[i] \in S BY <1>2, <1>3, <1>9, <2>1
    <2> QED BY <1>1, <2>2, Reaches
  <1>11. \A i \in 0..n : f[i] \in S
    <2> DEFINE T == {i \in 0..n : f[i] \in S}
    <2>1. 0 \in T BY <1>1, <1>2, <1>9
    <2>2. \A i \in 1..n : i - 1 \in T => i \in T
      <3>1. \A i \in 1..n : i \in 0..n /\ i # 0 BY <1>1
      <3> QED BY <1>3, <1>9, <3>1
    <2> HIDE DEF T
    <2>3. \A i \in 0..n : i \in T BY <1>1, <2>1, <2>2, UpTo
    <2> QED BY <2>3 DEF T
  <1>12. Sums(f, text)
    <2>1. \A i \in 1..n : i \in 0..n /\ i # 0 /\ i - 1 \in 0..n BY <1>1
    <2>2. 0 \in 0..n BY <1>1
    <2>3. f[0] = 0 BY <1>9, <2>2 DEF base
    <2>4. \A i \in 1..n : f[i] = f[i - 1] + LineLen(text[i]) + 1 BY <1>9, <2>1 DEF op
    <2> QED BY <1>11, <2>1, <2>3, <2>4 DEF Sums, S, n
  <1>13. Sums(f, text) /\ Length(text) = IF text = <<>> THEN 0 ELSE f[Len(text)] - 1
    BY <1>4, <1>12 DEF n
  <1> QED BY <1>13

\* Texts that begin alike sum up alike.
LEMMA SumsAlike ==
  ASSUME NEW P, NEW s \in Seq(LinesOn(P)), NEW t \in Seq(LinesOn(P)),
         NEW f, NEW g, Sums(f, s), Sums(g, t),
         NEW e \in Nat, e <= Len(s), e <= Len(t), \A i \in 1..e : s[i] = t[i]
  PROVE  f[e] = g[e]
  <1> DEFINE T == {i \in 0..e : f[i] = g[i]}
  <1>1. 0 \in T BY DEF Sums
  <1>2. ASSUME NEW i \in 1..e, i - 1 \in T PROVE i \in T
    <2>1. i \in 1..Len(s) /\ i \in 1..Len(t) OBVIOUS
    <2>2. f[i] = f[i - 1] + LineLen(s[i]) + 1 /\ g[i] = g[i - 1] + LineLen(t[i]) + 1
      BY <2>1 DEF Sums
    <2> QED BY <1>2, <2>2
  <1> HIDE DEF T
  <1>3. \A i \in 1..e : i - 1 \in T => i \in T BY <1>2
  <1>4. \A i \in 0..e : i \in T BY <1>1, <1>3, UpTo
  <1>5. e \in 0..e OBVIOUS
  <1> QED BY <1>4, <1>5 DEF T

\* With no line shorter than a newline is long, the sums grow.
LEMMA SumsGrow ==
  ASSUME NEW P, NEW t \in Seq(LinesOn(P)), NEW f, Sums(f, t),
         \A i \in 1..Len(t) : LineLen(t[i]) >= -1,
         NEW e \in Nat, NEW n \in Nat, e <= n, n <= Len(t)
  PROVE  f[e] <= f[n]
  <1> DEFINE T == {i \in 0..n : f[i] \in Int /\ (e <= i => f[e] <= f[i])}
  <1>0. \A i \in 1..Len(t) : LineLen(t[i]) \in Int
    <2>1. \A l \in LinesOn(P) : LineLen(l) \in Int BY DEF LinesOn, LineLen
    <2> QED BY <2>1
  <1>1. 0 \in T BY DEF Sums
  <1>2. ASSUME NEW i \in 1..n, i - 1 \in T PROVE i \in T
    <2>1. i \in 1..Len(t) OBVIOUS
    <2>2. f[i - 1] \in Int /\ f[i] = f[i - 1] + LineLen(t[i]) + 1 BY <2>1 DEF Sums
    <2>3. f[i] \in Int /\ f[i - 1] <= f[i] BY <1>0, <2>1, <2>2
    <2>4. CASE e = i BY <2>3, <2>4
    <2>5. CASE e < i
      <3>1. e <= i - 1 /\ f[e] <= f[i - 1] BY <1>2, <2>5
      <3>2. f[e] \in Int
        <4>1. e + 1 \in 1..Len(t) /\ e + 1 - 1 = e BY <2>1, <2>5
        <4> QED BY <4>1 DEF Sums
      <3> QED BY <2>2, <2>3, <3>1, <3>2
    <2> QED BY <2>3, <2>4, <2>5
  <1> HIDE DEF T
  <1>3. \A i \in 1..n : i - 1 \in T => i \in T BY <1>2
  <1>4. \A i \in 0..n : i \in T BY <1>1, <1>3, UpTo
  <1>5. n \in 0..n OBVIOUS
  <1> QED BY <1>4, <1>5 DEF T

\* A text that is cut off is no longer; it is shorter if the last line was one.
LEMMA CutOff ==
  ASSUME NEW P, NEW t \in Seq(LinesOn(P)), NEW e \in 1..(Len(t) - 1),
         \A i \in 1..Len(t) : LineLen(t[i]) >= -1
  PROVE  /\ Length(SubSeq(t, 1, e)) <= Length(t)
         /\ LineLen(t[Len(t)]) >= 0 => Length(SubSeq(t, 1, e)) < Length(t)
  <1> DEFINE s == SubSeq(t, 1, e)
             n == Len(t)
  <1>1. n \in Nat /\ e <= n - 1 /\ t # <<>> OBVIOUS
  <1>2. s \in Seq(LinesOn(P)) /\ Len(s) = e /\ s # <<>> /\ \A i \in 1..e : s[i] = t[i] OBVIOUS
  <1> HIDE DEF s
  <1>3. PICK f : Sums(f, s) /\ Length(s) = f[e] - 1 BY <1>2, LengthIs
  <1>4. PICK g : Sums(g, t) /\ Length(t) = g[n] - 1 BY <1>1, LengthIs
  <1>5. f[e] = g[e] BY <1>1, <1>2, <1>3, <1>4, SumsAlike
  <1>6. g[e] <= g[n - 1] BY <1>1, <1>4, SumsGrow
  <1>7. n \in 1..Len(t) /\ LineLen(t[n]) \in Int
    <2>1. \A l \in LinesOn(P) : LineLen(l) \in Int BY DEF LinesOn, LineLen
    <2> QED BY <1>1, <2>1
  <1>8. g[n - 1] \in Int /\ g[n] = g[n - 1] + LineLen(t[n]) + 1 BY <1>4, <1>7 DEF Sums
  <1>9. g[e] \in Int
    <2>1. e + 1 \in 1..Len(t) /\ e + 1 - 1 = e BY <1>1
    <2> QED BY <1>4, <2>1 DEF Sums
  <1>10. LineLen(t[n]) >= -1 BY <1>7
  <1> HIDE DEF n
  <1> QED BY <1>3, <1>4, <1>5, <1>6, <1>7, <1>8, <1>9, <1>10 DEF s, n

\* A clean-up that takes nothing off the length of a text leaves it as it is.
LEMMA CleanedOrShorter ==
  ASSUME NEW P, NEW text \in Seq(LinesOn(P)), \A i \in 1..Len(text) : LineLen(text[i]) >= 0,
         Cleaned(text) # <<>>, ~Degenerate(text)
  PROVE  Cleaned(text) = text
  <1> DEFINE t == TrimPeriods(text)
  <1>1. Length(text) \in Int /\ Length(Cleaned(text)) \in Int BY CleanedOf, LengthType
  <1>2. Length(Cleaned(text)) >= Length(text) BY <1>1 DEF Degenerate
  <1>3. /\ t \in Seq(LinesOn(P)) /\ Len(t) = Len(text)
        /\ \A i \in 1..Len(t) : LineLen(t[i]) >= -1
        /\ t = text \/ Length(t) = Length(text) - 1
    <2>1. CASE ~(text # <<>> /\ Last(text).kind = "periods")
      <3>1. t = text BY <2>1 DEF TrimPeriods
      <3>2. \A l \in LinesOn(P) : LineLen(l) \in Int BY DEF LinesOn, LineLen
      <3>3. \A i \in 1..Len(text) : text[i] \in LinesOn(P) OBVIOUS
      <3> HIDE DEF t
      <3> QED BY <3>1, <3>2, <3>3
    <2>2. CASE text # <<>> /\ Last(text).kind = "periods"
      <3> DEFINE n == Len(text)
                 l == text[n]
                 m == [l EXCEPT !.kind = "stub", !.to = @ - 1]
      <3>1. n \in Nat \ {0} /\ n \in 1..n /\ n - 1 \in Nat BY <2>2
      <3>2. l \in LinesOn(P) BY <3>1
      <3>3. Last(text) = l BY DEF Last
      <3>4. m \in LinesOn(P) /\ LineLen(m) = LineLen(l) - 1 /\ LineLen(l) \in Int
        <4>1. "stub" \in Kinds BY DEF Kinds
        <4> HIDE DEF l
        <4>2. l.to - 1 \in Int /\ l.from \in Int /\ l.to \in Int BY <3>2 DEF LinesOn
        <4>3. m \in LinesOn(P) BY <3>2, <4>1, <4>2 DEF LinesOn
        <4>4. m.to = l.to - 1 /\ m.from = l.from BY <3>2 DEF LinesOn
        <4> HIDE DEF m
        <4> QED BY <4>2, <4>3, <4>4 DEF LineLen
      <3>5. t = ReplaceAt(text, n, m) BY <2>2, <3>3 DEF TrimPeriods
      <3>6. LineLen(l) >= 0 BY <3>1
      <3> HIDE DEF m, l
      <3>7. t = [i \in 1..n |-> IF i = n THEN m ELSE text[i]]
        <4>1. DOMAIN text = 1..n OBVIOUS
        <4>2. t = [text EXCEPT ![n] = m] BY <3>5, Zenon DEF ReplaceAt
        <4> HIDE DEF n, t
        <4> QED BY <4>1, <4>2
      <3> HIDE DEF t
      <3>8. /\ t \in Seq(LinesOn(P)) /\ Len(t) = n /\ t[n] = m /\ t # <<>>
            /\ \A i \in 1..(n - 1) : t[i] = text[i]
        BY <3>1, <3>4, <3>7
      <3>9. \A i \in 1..n : LineLen(t[i]) >= -1
        <4>1. \A i \in 1..n : i = n \/ i \in 1..(n - 1) BY <3>1
        <4>2. \A i \in 1..(n - 1) : LineLen(text[i]) >= 0 /\ LineLen(text[i]) \in Int
          <5>1. \A x \in LinesOn(P) : LineLen(x) \in Int BY DEF LinesOn, LineLen
          <5> QED BY <3>1, <5>1
        <4> QED BY <3>4, <3>6, <3>8, <4>1, <4>2
      <3>10. PICK f : Sums(f, text) /\ Length(text) = f[n] - 1 BY <2>2, LengthIs
      <3>11. PICK g : Sums(g, t) /\ Length(t) = g[n] - 1 BY <3>8, LengthIs
      <3>12. f[n - 1] = g[n - 1] BY <3>1, <3>8, <3>10, <3>11, SumsAlike
      <3>13. f[n - 1] \in Int /\ f[n] = f[n - 1] + LineLen(l) + 1 BY <3>1, <3>10 DEF Sums, l
      <3>14. g[n] = g[n - 1] + LineLen(m) + 1 BY <3>1, <3>8, <3>11 DEF Sums
      <3> QED BY <3>4, <3>8, <3>9, <3>10, <3>11, <3>12, <3>13, <3>14 DEF n
    <2> QED BY <2>1, <2>2
  <1> HIDE DEF t
  <1>4. Cleaned(text) = TrimNumbered(t) BY DEF Cleaned, t
  <1> DEFINE last == RunStart(t, Len(t), "stub") - 1
             list == RunStart(t, last, "numbered")
             end  == RunStart(t, list - 1, "lead") - 1
  <1>5. TrimNumbered(t) = IF list > last THEN t ELSE SubSeq(t, 1, end) BY DEF TrimNumbered
  <1>6. Len(t) \in Nat /\ last \in 0..Len(t)
    <2>1. Len(t) \in 0..Len(t) /\ Len(t) \in Nat BY <1>3
    <2>2. RunStart(t, Len(t), "stub") \in 1..(Len(t) + 1) BY <1>3, <2>1, RunStartIs
    <2> QED BY <2>1, <2>2
  <1> HIDE DEF last
  <1>7. list \in 1..(last + 1) BY <1>3, <1>6, RunStartIs
  <1> HIDE DEF list
  <1>8. CASE list > last
    <2>1. Cleaned(text) = t BY <1>4, <1>5, <1>8
    <2> QED BY <1>1, <1>2, <1>3, <2>1
  <1>9. CASE ~(list > last)
    <2>1. list - 1 \in 0..Len(t) BY <1>6, <1>7, <1>9
    <2>2. RunStart(t, list - 1, "lead") \in 1..(list - 1 + 1) BY <1>3, <2>1, RunStartIs
    <2>3. end \in 0..(Len(t) - 1) BY <1>6, <1>7, <1>9, <2>1, <2>2
    <2> HIDE DEF end
    <2>4. Cleaned(text) = SubSeq(t, 1, end) BY <1>4, <1>5, <1>9
    <2>5. end # 0
      <3>1. end = 0 => SubSeq(t, 1, end) = <<>> BY <1>3
      <3> QED BY <2>4, <3>1
    <2>6. end \in 1..(Len(t) - 1) BY <2>3, <2>5
    <2>7. Length(SubSeq(t, 1, end)) <= Length(t) BY <1>3, <2>6, CutOff
    <2>8. t = text => Length(SubSeq(t, 1, end)) < Length(t)
      <3>1. t = text => LineLen(t[Len(t)]) >= 0
        <4>1. Len(t) \in 1..Len(t) BY <1>6, <2>6
        <4> QED BY <4>1
      <3> QED BY <1>3, <2>6, <3>1, CutOff
    <2>9. Length(t) \in Int BY <1>3, LengthType
    <2> QED BY <1>1, <1>2, <1>3, <2>4, <2>7, <2>8, <2>9
  <1> QED BY <1>8, <1>9

-----------------------------------------------------------------------------
(* What is transcribed of a page.                                          *)

\* No line ends before it begins.
Whole(text) == \A i \in 1..Len(text) : LineLen(text[i]) >= 0

\* The first lines of the page are in the text, as many as the text has of it.
Hears(ink, text) ==
    /\ Given(text) \in 0..Len(ink)
    /\ \A k \in 1..Given(text) : ink[k] \in ToSet(text)

LEMMA Concat ==
  ASSUME NEW S, NEW s \in Seq(S), NEW t \in Seq(S)
  PROVE  /\ s \o t \in Seq(S) /\ Len(s \o t) = Len(s) + Len(t) /\ DOMAIN (s \o t) = 1..(Len(s) + Len(t))
         /\ \A i \in 1..Len(s) : (s \o t)[i] = s[i]
         /\ \A i \in 1..Len(t) : (s \o t)[Len(s) + i] = t[i]
  OBVIOUS

LEMMA Stretch ==
  ASSUME NEW S, NEW s \in Seq(S), NEW n \in Nat, NEW m \in n..Len(s)
  PROVE  /\ SubSeq(s, n + 1, m) \in Seq(S) /\ Len(SubSeq(s, n + 1, m)) = m - n
         /\ \A i \in 1..(m - n) : SubSeq(s, n + 1, m)[i] = s[n + i]
  OBVIOUS

LEMMA ToSetOfBoth ==
  ASSUME NEW S, NEW s \in Seq(S), NEW t \in Seq(S)
  PROVE  ToSet(s \o t) = ToSet(s) \cup ToSet(t)
  <1>1. ASSUME NEW x \in ToSet(s) PROVE x \in ToSet(s \o t)
    <2>1. PICK i \in DOMAIN s : x = s[i] BY Zenon DEF ToSet
    <2>2. i \in DOMAIN (s \o t) /\ (s \o t)[i] = x BY <2>1
    <2> QED BY <2>2, Zenon DEF ToSet
  <1>2. ASSUME NEW x \in ToSet(t) PROVE x \in ToSet(s \o t)
    <2>1. PICK i \in DOMAIN t : x = t[i] BY Zenon DEF ToSet
    <2>2. Len(s) + i \in DOMAIN (s \o t) /\ (s \o t)[Len(s) + i] = x BY <2>1
    <2> QED BY <2>2, Zenon DEF ToSet
  <1>3. ASSUME NEW x \in ToSet(s \o t) PROVE x \in ToSet(s) \cup ToSet(t)
    <2>1. PICK i \in DOMAIN (s \o t) : x = (s \o t)[i] BY Zenon DEF ToSet
    <2>2. CASE i \in DOMAIN s
      <3>1. x = s[i] BY <2>1, <2>2
      <3> QED BY <2>2, <3>1, Zenon DEF ToSet
    <2>3. CASE i \notin DOMAIN s
      <3>1. i - Len(s) \in DOMAIN t /\ x = t[i - Len(s)] BY <2>1, <2>3
      <3> QED BY <3>1, Zenon DEF ToSet
    <2> QED BY <2>2, <2>3
  <1> QED BY <1>1, <1>2, <1>3

\* The end of a text is in it; what a text repeats, it has.
LEMMA TailRepeats ==
  ASSUME NEW S, NEW text \in Seq(S), NEW k \in DOMAIN text
  PROVE  Repeats(text, SubSeq(text, k, Len(text)))
  <1> DEFINE part == SubSeq(text, k, Len(text))
  <1>1. Len(text) \in Nat /\ k \in 1..Len(text) OBVIOUS
  <1>2. Len(part) = Len(text) - k + 1 OBVIOUS
  <1>3. k \in 1..(Len(text) + 1 - Len(part)) /\ k + Len(part) - 1 = Len(text)
    <2> DEFINE L == Len(text)
               M == Len(part)
    <2>1. L \in Nat /\ k \in 1..L /\ M = L - k + 1 BY <1>1, <1>2
    <2> HIDE DEF L, M
    <2>2. k \in 1..(L + 1 - M) /\ k + M - 1 = L BY <2>1
    <2> QED BY <2>2 DEF L, M
  <1>4. SubSeq(text, k, k + Len(part) - 1) = part BY <1>3
  <1> HIDE DEF part
  <1>5. Repeats(text, part) BY <1>3, <1>4 DEF Repeats
  <1> QED BY <1>5 DEF part

LEMMA RepeatsIts ==
  ASSUME NEW S, NEW text \in Seq(S), NEW part \in Seq(S), part = <<>> \/ Repeats(text, part)
  PROVE  ToSet(part) \subseteq ToSet(text)
  <1>1. CASE part = <<>>
    <2>1. DOMAIN part = {} BY <1>1
    <2> QED BY <2>1, Zenon DEF ToSet
  <1>2. CASE Repeats(text, part)
    <2>1. PICK i \in 1..(Len(text) + 1 - Len(part)) : SubSeq(text, i, i + Len(part) - 1) = part
      BY <1>2 DEF Repeats
    <2>2. ASSUME NEW j \in DOMAIN part PROVE part[j] \in ToSet(text)
      <3>1. /\ Len(text) \in Nat /\ Len(part) \in Nat /\ j \in 1..Len(part)
            /\ DOMAIN text = 1..Len(text)
        OBVIOUS
      <3>2. i + j - 1 \in 1..Len(text) /\ j \in 1..(i + Len(part) - 1 - i + 1) BY <2>1, <3>1
      <3>3. SubSeq(text, i, i + Len(part) - 1)[j] = text[i + j - 1] BY <2>1, <3>1, <3>2
      <3> QED BY <2>1, <3>1, <3>2, <3>3, Zenon DEF ToSet
    <2> QED BY <2>2, Zenon DEF ToSet
  <1> QED BY <1>1, <1>2

LEMMA JunkIs ==
  ASSUME NEW junk \in Junk
  PROVE  junk \in Seq(LinesOn({0})) /\ Whole(junk)
  <1>1. {"periods", "lead", "numbered"} \subseteq Kinds BY DEF Kinds
  <1>2. \A kind \in Kinds, len \in Nat : Added(kind, len) \in LinesOn({0}) /\ LineLen(Added(kind, len)) >= 0
    BY DEF Added, Line, LinesOn, LineLen
  <1>3. CASE junk = <<>> BY <1>3 DEF Whole
  <1>4. CASE junk = <<Added("periods", 3)>>
    <2>1. Added("periods", 3) \in LinesOn({0}) /\ LineLen(Added("periods", 3)) >= 0 BY <1>1, <1>2
    <2> QED BY <1>4, <2>1 DEF Whole
  <1>5. CASE junk = <<Added("lead", 1), Added("numbered", 2)>>
    <2>1. /\ Added("lead", 1) \in LinesOn({0}) /\ LineLen(Added("lead", 1)) >= 0
          /\ Added("numbered", 2) \in LinesOn({0}) /\ LineLen(Added("numbered", 2)) >= 0
      BY <1>1, <1>2
    <2> QED BY <1>5, <2>1 DEF Whole
  <1> QED BY <1>3, <1>4, <1>5 DEF Junk

\* An answer holds further lines of the page, all of them if it is honest and
\* not cut off, or is the end of what there is.
LEMMA AnswerIs ==
  ASSUME NEW ink, NEW text, NEW a \in Answers(ink, text)
  PROVE  \/ \E m \in Given(text)..Len(ink), junk \in Junk :
               /\ a.text = SubSeq(ink, Given(text) + 1, m) \o junk
               /\ a.honest /\ a.finish # "length" => m = Len(ink)
         \/ /\ \E k \in DOMAIN text : a.text = SubSeq(text, k, Len(text))
            /\ a.honest /\ a.finish # "length" => Given(text) = Len(ink)
  <1> DEFINE n == Given(text)
             answer(part, m, f) == [text |-> part, finish |-> f,
                                    honest |-> f = "length" \/ m = Len(ink)]
             part(m, junk) == SubSeq(ink, n + 1, m) \o junk
             new == {answer(part(m, junk), m, f) :
                        m \in n..Len(ink), junk \in Junk, f \in {"stop", "length"}}
             tail(k) == SubSeq(text, k, Len(text))
             old == {answer(tail(k), n, f) : k \in DOMAIN text, f \in {"stop", "length"}}
  <1>1. Answers(ink, text) = new \cup old BY DEF Answers
  <1>2. \A x, m, f : /\ answer(x, m, f).text = x /\ answer(x, m, f).finish = f
                     /\ answer(x, m, f).honest /\ f # "length" => m = Len(ink)
    OBVIOUS
  <1> HIDE DEF answer, n
  <1>3. CASE a \in new
    <2>1. PICK m \in n..Len(ink), junk \in Junk, f \in {"stop", "length"} :
             a = answer(part(m, junk), m, f)
      <3> HIDE DEF part
      <3> QED BY <1>3
    <2>2. a.text = part(m, junk) /\ (a.honest /\ a.finish # "length" => m = Len(ink))
      <3> HIDE DEF part
      <3> QED BY <1>2, <2>1
    <2> QED BY <2>2 DEF n
  <1>4. CASE a \in old
    <2> HIDE DEF tail
    <2>1. PICK k \in DOMAIN text, f \in {"stop", "length"} : a = answer(tail(k), n, f) BY <1>4
    <2>2. a.text = tail(k) /\ a.finish = f /\ (a.honest /\ f # "length" => n = Len(ink))
      BY <1>2, <2>1
    <2> QED BY <2>1, <2>2 DEF n, tail
  <1> HIDE DEF new, old
  <1> QED BY <1>1, <1>3, <1>4

\* What a text takes in of an answer.
LEMMA HearsMore ==
  ASSUME NEW p \in Nat \ {0}, NEW ink \in Seq(LinesOn({p})), NEW text \in Seq(LinesOn({0, p})),
         Whole(ink), Whole(text), Hears(ink, text),
         NEW m \in Given(text)..Len(ink), NEW junk \in Junk,
         NEW more, more = SubSeq(ink, Given(text) + 1, m) \o junk
  PROVE  /\ Hears(ink, text \o more) /\ Whole(text \o more)
         /\ m = Len(ink) => ToSet(ink) \subseteq ToSet(text \o more)
  <1> DEFINE n    == Given(text)
             part == SubSeq(ink, n + 1, m)
             new  == text \o (part \o junk)
             L    == Len(text)
  <1>1. /\ n \in Nat /\ m \in Nat /\ n <= m /\ m <= Len(ink) /\ L \in Nat
        /\ \A k \in 1..n : ink[k] \in ToSet(text)
    BY DEF Hears
  <1>2. DOMAIN text = 1..L OBVIOUS
  <1> DEFINE S == {i \in 1..L : text[i].page # 0}
  <1>3. Cardinality(S) = n BY <1>2 DEF Given
  <1> HIDE DEF n, L
  <1>4. junk \in Seq(LinesOn({0})) /\ Whole(junk) BY JunkIs
  <1>5. /\ part \in Seq(LinesOn({p})) /\ Len(part) = m - n
        /\ \A i \in 1..(m - n) : part[i] = ink[n + i] /\ part[i] \in LinesOn({p}) /\ n + i \in 1..Len(ink)
    <2>1. m \in n..Len(ink) BY <1>1
    <2>2. /\ part \in Seq(LinesOn({p})) /\ Len(part) = m - n
          /\ \A i \in 1..(m - n) : part[i] = ink[n + i]
      BY <1>1, <2>1, Stretch
    <2> HIDE DEF part
    <2>3. \A i \in 1..(m - n) : part[i] \in LinesOn({p}) BY <2>2
    <2>4. \A i \in 1..(m - n) : n + i \in 1..Len(ink) BY <1>1
    <2> QED BY <2>2, <2>3, <2>4
  <1>6. \A i \in 1..Len(junk) : junk[i] \in LinesOn({0}) BY <1>4
  <1>7. Seq(LinesOn({p})) \subseteq Seq(LinesOn({0, p})) /\ Seq(LinesOn({0})) \subseteq Seq(LinesOn({0, p}))
    <2>1. {p} \subseteq {0, p} /\ {0} \subseteq {0, p} OBVIOUS
    <2> QED BY <2>1, MorePages
  <1> HIDE DEF part
  <1>8. /\ new \in Seq(LinesOn({0, p})) /\ DOMAIN new = 1..Len(new)
        /\ Len(new) = L + (m - n) + Len(junk) /\ Len(junk) \in Nat
        /\ \A i \in 1..L : new[i] = text[i]
        /\ \A i \in 1..(m - n) : new[L + i] = part[i]
        /\ \A i \in 1..Len(junk) : new[L + (m - n) + i] = junk[i]
    <2>1. part \in Seq(LinesOn({0, p})) /\ junk \in Seq(LinesOn({0, p})) BY <1>4, <1>5, <1>7
    <2> DEFINE rest == part \o junk
    <2>a. /\ rest \in Seq(LinesOn({0, p})) /\ Len(rest) = Len(part) + Len(junk)
          /\ \A i \in 1..Len(part) : rest[i] = part[i]
          /\ \A i \in 1..Len(junk) : rest[Len(part) + i] = junk[i]
      <3> DEFINE W == LinesOn({0, p})
      <3>1. part \in Seq(W) /\ junk \in Seq(W) BY <2>1
      <3> HIDE DEF W
      <3>2. /\ rest \in Seq(W) /\ Len(rest) = Len(part) + Len(junk)
            /\ \A i \in 1..Len(part) : rest[i] = part[i]
            /\ \A i \in 1..Len(junk) : rest[Len(part) + i] = junk[i]
        BY <3>1, Concat
      <3> QED BY <3>2 DEF W
    <2> HIDE DEF rest
    <2>2. /\ rest \in Seq(LinesOn({0, p})) /\ Len(rest) = (m - n) + Len(junk)
          /\ \A i \in 1..(m - n) : rest[i] = part[i]
          /\ \A i \in 1..Len(junk) : rest[(m - n) + i] = junk[i]
      BY <1>5, <2>a
    <2>3. /\ text \o rest \in Seq(LinesOn({0, p})) /\ Len(text \o rest) = L + Len(rest)
          /\ DOMAIN (text \o rest) = 1..(L + Len(rest))
          /\ \A i \in 1..L : (text \o rest)[i] = text[i]
          /\ \A i \in 1..Len(rest) : (text \o rest)[L + i] = rest[i]
      <3> DEFINE W == LinesOn({0, p})
      <3>1. text \in Seq(W) /\ rest \in Seq(W) BY <2>2
      <3> HIDE DEF W
      <3>2. /\ text \o rest \in Seq(W) /\ Len(text \o rest) = Len(text) + Len(rest)
            /\ DOMAIN (text \o rest) = 1..(Len(text) + Len(rest))
            /\ \A i \in 1..Len(text) : (text \o rest)[i] = text[i]
            /\ \A i \in 1..Len(rest) : (text \o rest)[Len(text) + i] = rest[i]
        BY <3>1, Concat
      <3> QED BY <3>2 DEF W, L
    <2>4. new = text \o rest BY DEF rest
    <2> HIDE DEF new
    <2>5. Len(junk) \in Nat BY <2>1
    <2>6. \A i \in 1..(m - n) : i \in 1..Len(rest) BY <1>1, <2>2, <2>5
    <2>7. ASSUME NEW i \in 1..Len(junk) PROVE new[L + (m - n) + i] = junk[i]
      <3>1. (m - n) + i \in 1..Len(rest) BY <1>1, <2>2, <2>5
      <3>2. L + ((m - n) + i) = L + (m - n) + i BY <1>1, <2>5
      <3> QED BY <2>2, <2>3, <2>4, <3>1, <3>2
    <2>8. L + Len(rest) = L + (m - n) + Len(junk) BY <1>1, <2>2, <2>5
    <2> QED BY <2>2, <2>3, <2>4, <2>5, <2>6, <2>7, <2>8
  <1> HIDE DEF new
  <1>9. \A i \in 1..Len(new) :
           \/ i \in 1..L
           \/ i - L \in 1..(m - n) /\ i = L + (i - L)
           \/ i - L - (m - n) \in 1..Len(junk) /\ i = L + (m - n) + (i - L - (m - n))
    BY <1>1, <1>8
  <1>10. Given(new) = m
    <2> DEFINE U == (L + 1)..(L + (m - n))
    <2>1. {i \in 1..Len(new) : new[i].page # 0} = S \cup U
      <3>1. ASSUME NEW i \in 1..Len(new) PROVE new[i].page # 0 <=> i \in S \cup U
        <4>1. CASE i \in 1..L
          <5>1. new[i] = text[i] /\ i \notin U BY <1>1, <1>8, <4>1
          <5> QED BY <4>1, <5>1
        <4>2. CASE i - L \in 1..(m - n) /\ i = L + (i - L)
          <5>1. new[i] \in LinesOn({p}) BY <1>5, <1>8, <4>2
          <5>2. i \in U BY <1>1, <4>2
          <5> QED BY <5>1, <5>2 DEF LinesOn
        <4>3. CASE i - L - (m - n) \in 1..Len(junk) /\ i = L + (m - n) + (i - L - (m - n))
          <5>1. new[i] \in LinesOn({0}) BY <1>6, <1>8, <4>3
          <5>2. i \notin U /\ i \notin 1..L BY <1>1, <4>3
          <5> QED BY <5>1, <5>2 DEF LinesOn
        <4> QED BY <1>9, <4>1, <4>2, <4>3
      <3>2. S \cup U \subseteq 1..Len(new) BY <1>1, <1>8
      <3> HIDE DEF S, U
      <3> QED BY <3>1, <3>2
    <2>2. IsFiniteSet(U) /\ Cardinality(U) = m - n
      <3>1. L + 1 \in Int /\ L + (m - n) \in Int /\ (L + 1 > L + (m - n) <=> m - n = 0)
            /\ (L + (m - n)) - (L + 1) + 1 = m - n
        BY <1>1
      <3> QED BY <3>1, FS_Interval
    <2>3. IsFiniteSet(S)
      <3>1. IsFiniteSet(1..L) BY <1>1, FS_Interval
      <3>2. S \subseteq 1..L OBVIOUS
      <3> QED BY <3>1, <3>2, FS_Subset
    <2>4. S \cap U = {} BY <1>1
    <2> HIDE DEF S, U
    <2>5. Cardinality(S \cup U) = Cardinality(S) + Cardinality(U) - Cardinality(S \cap U)
      BY <2>2, <2>3, FS_Union
    <2>6. Cardinality(S \cap U) = 0 BY <2>4, FS_EmptySet
    <2>7. Cardinality(S \cup U) = m BY <1>1, <1>3, <2>2, <2>5, <2>6
    <2> QED BY <1>8, <2>1, <2>7 DEF Given
  <1>11. ASSUME NEW k \in 1..m PROVE ink[k] \in ToSet(new)
    <2>1. CASE k \in 1..n
      <3>1. PICK i \in 1..L : ink[k] = text[i]
        <4>1. ink[k] \in ToSet(text) BY <1>1, <2>1
        <4> QED BY <1>2, <4>1, Zenon DEF ToSet
      <3>2. i \in DOMAIN new /\ new[i] = ink[k] BY <1>1, <1>8, <3>1
      <3> QED BY <3>2, Zenon DEF ToSet
    <2>2. CASE k - n \in 1..(m - n) /\ k = n + (k - n)
      <3>1. new[L + (k - n)] = part[k - n] /\ part[k - n] = ink[n + (k - n)] BY <1>5, <1>8, <2>2
      <3>2. L + (k - n) \in DOMAIN new
        <4>1. Len(new) \in Nat /\ k - n \in Nat \ {0} /\ L + (k - n) <= Len(new) BY <1>1, <1>8, <2>2
        <4>2. L + (k - n) \in 1..Len(new) BY <1>1, <4>1
        <4> QED BY <1>8, <4>2
      <3>3. new[L + (k - n)] = ink[k] BY <2>2, <3>1
      <3> QED BY <3>2, <3>3, Zenon DEF ToSet
    <2> QED BY <1>1, <2>1, <2>2
  <1>12. Whole(new)
    <2>1. ASSUME NEW i \in 1..Len(new) PROVE LineLen(new[i]) >= 0
      <3>1. CASE i \in 1..L BY <1>8, <3>1 DEF Whole, L
      <3>2. CASE i - L \in 1..(m - n) /\ i = L + (i - L)
        <4>1. new[L + (i - L)] = part[i - L] BY <1>8, <3>2
        <4>2. n + (i - L) \in 1..Len(ink) /\ new[i] = ink[n + (i - L)] BY <1>5, <3>2, <4>1
        <4> QED BY <4>2 DEF Whole
      <3>3. CASE i - L - (m - n) \in 1..Len(junk) /\ i = L + (m - n) + (i - L - (m - n))
        BY <1>4, <1>8, <3>3 DEF Whole
      <3> QED BY <1>9, <3>1, <3>2, <3>3
    <2> QED BY <2>1 DEF Whole
  <1>13. m = Len(ink) => ToSet(ink) \subseteq ToSet(new)
    <2> SUFFICES ASSUME m = Len(ink), NEW x \in ToSet(ink) PROVE x \in ToSet(new) OBVIOUS
    <2>1. PICK k \in DOMAIN ink : x = ink[k] BY Zenon DEF ToSet
    <2>2. k \in 1..m BY <2>1
    <2> QED BY <1>11, <2>1, <2>2
  <1>14. Hears(ink, new) BY <1>1, <1>10, <1>11 DEF Hears
  <1>15. Hears(ink, new) /\ Whole(new) /\ (m = Len(ink) => ToSet(ink) \subseteq ToSet(new))
    BY <1>12, <1>13, <1>14
  <1> QED BY <1>15 DEF new, part, n

-----------------------------------------------------------------------------
(* The invariant of the transcriptions.                                    *)

\* Without a model's classes no page is an IMAGE; every page has a class.
ClassInv ==
    /\ job.ocr => \A p \in DOMAIN classes : classes[p] # "IMAGE"
    /\ stage \notin {"open", "scan", "classify"} => 1..Count \subseteq DOMAIN classes

\* A transcription by an honest model that has begun has all lines of the page,
\* unless it is cut off or the call to continue it failed.
OcrHeard ==
    stage = "ocr" =>
        /\ Hears(Ink, ocr.text) /\ Whole(ocr.text)
        /\ \/ ocr.text = <<>> \/ ~ocr.honest \/ ocr.finish \in {"length", "none"}
           \/ ToSet(Ink) \subseteq ToSet(ocr.text)

Heard(page) ==
    page.class = "IMAGE" /\ job.ocr /\ page.fate = "whole" =>
        \/ ToSet(job.pages[page.num].ink) \subseteq ToSet(page.text)
        \/ \E w \in warnings : w[1] = page.num
KeptInv == \A x \in ToSet(pages) : Heard(x)

HeardInv == ClassInv /\ OcrHeard /\ KeptInv

\* Steps that leave the pages and the classes alone and transcribe nothing.
LEMMA HeardUntouched ==
  ASSUME HeardInv, UNCHANGED <<job, classes, pages>>, warnings \subseteq warnings',
         stage' # "ocr",
         stage \in {"open", "scan", "classify"} => stage' \in {"open", "scan", "classify", "failed", "parsed"},
         stage' \notin {"open", "scan", "classify"} => 1..Count \subseteq DOMAIN classes
  PROVE  HeardInv'
  <1>1. ClassInv' BY DEF HeardInv, ClassInv, Count
  <1>2. KeptInv'
    <2>1. \A x : Heard(x) => Heard(x)' BY DEF Heard
    <2> QED BY <2>1 DEF HeardInv, KeptInv
  <1> QED BY <1>1, <1>2 DEF HeardInv, OcrHeard

\* A page that is added has what its image shows, or a warning.
LEMMA OneHeardMore ==
  ASSUME NEW text, NEW class, NEW fate, AddPage(text, class, fate),
         TextInv, HeardInv, UNCHANGED <<job, classes>>, warnings \subseteq warnings',
         stage' = "read", stage \in {"read", "ocr"},
         class = "IMAGE" /\ job.ocr /\ fate = "whole" =>
             \/ ToSet(job.pages[at].ink) \subseteq ToSet(text)
             \/ \E w \in warnings' : w[1] = at
  PROVE  HeardInv'
  <1> DEFINE page == Page(at, text, class, at, fate)
             all == ToSet(pages) \cup {page}
  <1>1. pages \in Seq(ToSet(pages)) /\ \A x \in ToSet(pages) : Heard(x)
    BY DEF TextInv, HeardInv, KeptInv
  <1>2. pages' = Append(pages, page) BY DEF AddPage
  <1>3. page.text = text /\ page.num = at /\ page.class = class /\ page.fate = fate
    BY DEF Page
  <1> HIDE DEF page
  <1>4. \A x \in ToSet(pages) : Heard(x)' BY <1>1 DEF Heard
  <1>5. ASSUME NEW x, x = page PROVE Heard(x)' BY <1>3, <1>5 DEF Heard
  <1>6. pages' \in Seq(all)
    <2>1. pages \in Seq(all)
      <3>1. ToSet(pages) \subseteq all OBVIOUS
      <3> HIDE DEF all
      <3> QED BY <1>1, <3>1
    <2>2. page \in all OBVIOUS
    <2> HIDE DEF all
    <2> QED BY <1>2, <2>1, <2>2
  <1>7. ToSet(pages') \subseteq all
    <2> HIDE DEF all
    <2> QED BY <1>6, SeqOfItsOwn
  <1>8. KeptInv' BY <1>4, <1>5, <1>7 DEF KeptInv
  <1>9. ClassInv' BY DEF HeardInv, ClassInv, Count
  <1> QED BY <1>8, <1>9 DEF HeardInv, OcrHeard

-----------------------------------------------------------------------------
(* The steps of the parser, again.                                         *)

LEMMA FilterHeard ==
  ASSUME PlaceInv, HeardInv, Open \/ Scan \/ Classify \/ Reopen \/ PageFails \/ CloseFile
  PROVE  HeardInv'
  <1>1. CASE Open \/ Reopen \/ PageFails \/ CloseFile
    <2>1. /\ UNCHANGED <<job, classes, pages, warnings>> /\ stage' # "ocr"
          /\ stage' \notin {"open", "scan", "classify"} => stage \notin {"open", "scan", "classify"}
      BY <1>1 DEF Open, Reopen, PageFails, CloseFile
    <2> QED BY <2>1, HeardUntouched DEF HeardInv, ClassInv
  <1>2. ASSUME UNCHANGED <<job, pages, warnings>>, stage' # "ocr", ClassInv' PROVE HeardInv'
    <2>1. \A x : Heard(x) => Heard(x)' BY <1>2 DEF Heard
    <2> QED BY <1>2, <2>1 DEF HeardInv, KeptInv, OcrHeard
  <1>3. CASE Scan
    <2>1. /\ UNCHANGED <<job, pages, warnings>> /\ stage' = "classify"
          /\ classes' = IF job.scan = "ok"
                        THEN [p \in 1..Count \ candidates' |-> ClassOf(p)]
                        ELSE [p \in 1..Count |-> "TEXT"]
      BY <1>3 DEF Scan
    <2>2. \A p \in DOMAIN classes' : classes'[p] # "IMAGE" BY <2>1 DEF ClassOf
    <2> QED BY <1>2, <2>1, <2>2 DEF ClassInv
  <1>4. CASE Classify
    <2>1. PICK labels \in [DOMAIN images' -> Classes] :
             classes' = [p \in 1..Count |->
                           IF ~job.ocr /\ p \in DOMAIN images' THEN labels[p]
                           ELSE IF p \in DOMAIN classes THEN classes[p] ELSE "TEXT"]
      BY <1>4 DEF Classify
    <2>2. UNCHANGED <<job, pages, warnings>> /\ stage' = "reopen" BY <1>4 DEF Classify
    <2>3. job.ocr => \A p \in DOMAIN classes : classes[p] # "IMAGE" BY DEF HeardInv, ClassInv
    <2>4. 1..Count \subseteq DOMAIN classes' BY <2>1
    <2>5. job.ocr => \A p \in DOMAIN classes' : classes'[p] # "IMAGE" BY <2>1, <2>3
    <2>6. ClassInv' BY <2>2, <2>4, <2>5 DEF ClassInv, Count
    <2> QED BY <1>2, <2>2, <2>6
  <1> QED BY <1>1, <1>3, <1>4

LEMMA ReadPageHeard ==
  ASSUME PlaceInv, HeardInv, ReadPage \/ SkipBlankImage
  PROVE  HeardInv'
  <1>1. /\ AtPage /\ UNCHANGED <<job, classes, warnings>>
        /\ stage = "read" /\ stage' = "read"
    BY DEF ReadPage, SkipBlankImage, AtPage
  <1>2. at \in 1..Count /\ TextInv
    <2>1. Count \in Nat BY JobPages DEF PlaceInv, ImageInv
    <2> QED BY <1>1, <2>1 DEF AtPage, OcrInv, PlaceInv
  <1>3. CASE SkipBlankImage
    <2>1. AddPage(<<>>, "BLANK", "whole") BY <1>3 DEF SkipBlankImage
    <2> QED BY <1>1, <1>2, <2>1, OneHeardMore
  <1>4. CASE ReadPage
    <2>1. PICK text : AddPage(text, classes[at], "whole") BY <1>4 DEF ReadPage
    <2>2. ~(classes[at] = "IMAGE" /\ job.ocr) BY <1>1, <1>2 DEF HeardInv, ClassInv
    <2> QED BY <1>1, <1>2, <2>1, <2>2, OneHeardMore
  <1> QED BY <1>3, <1>4

LEMMA OcrHeardSteps ==
  ASSUME PlaceInv, HeardInv, StartOcr \/ ContinueOcr \/ OcrFails \/ EndOcr
  PROVE  HeardInv'
  <1>1. Count \in Nat /\ ImageInv /\ OcrInv /\ TextInv BY JobPages DEF PlaceInv, ImageInv
  <1>2. at \in 1..Count /\ images[at] = at /\ stage \in {"read", "ocr"}
    <2>1. CASE AtPage /\ Transcribed(at)
      BY <1>1, <2>1 DEF AtPage, Transcribed, OcrInv, ImageInv
    <2>2. CASE stage = "ocr" BY <1>1, <2>2 DEF OcrInv, ImageInv
    <2> QED BY <2>1, <2>2 DEF StartOcr, ContinueOcr, OcrFails, EndOcr
  <1>3. Ink = job.pages[at].ink /\ Ink \in Seq(LinesOn({at})) /\ Len(Ink) \in Nat
    <2>1. Ink = job.pages[at].ink BY <1>2 DEF Ink
    <2>2. Ink \in Seq(LinesOn({at})) BY <1>1, <1>2, <2>1, JobPages DEF ImageInv
    <2> QED BY <2>1, <2>2
  <1>4. Whole(Ink)
    <2> DEFINE page == job.pages[at]
    <2>1. at \in DOMAIN job.pages
      <3>1. job.pages \in Seq(ToSet(job.pages)) BY <1>1, PdfAssumption DEF ImageInv
      <3> QED BY <1>2, <3>1 DEF Count
    <2>2. /\ \A l \in ToSet(page.lines \o page.ink) : l.from <= l.to
          /\ {page.lines, page.ink} \subseteq Seq(LinesOn({at}))
      BY <1>1, <2>1, PdfAssumption DEF ImageInv
    <2>3. ToSet(page.ink) \subseteq ToSet(page.lines \o page.ink) BY <2>2, ToSetOfBoth
    <2>4. ASSUME NEW i \in 1..Len(Ink) PROVE LineLen(Ink[i]) >= 0
      <3>1. Ink[i] \in LinesOn({at}) BY <1>3
      <3>2. Ink[i] \in ToSet(Ink)
        <4>1. i \in DOMAIN Ink BY <1>3
        <4> QED BY <4>1, Zenon DEF ToSet
      <3>3. Ink[i].from <= Ink[i].to BY <1>3, <2>2, <2>3, <3>2
      <3> QED BY <3>1, <3>3 DEF LinesOn, LineLen
    <2> QED BY <2>4 DEF Whole
  <1>5. ASSUME UNCHANGED <<job, images, classes, at, pages, warnings>>, stage' = "ocr",
               Hears(Ink, ocr'.text), Whole(ocr'.text),
               \/ ocr'.text = <<>> \/ ~ocr'.honest \/ ocr'.finish \in {"length", "none"}
               \/ ToSet(Ink) \subseteq ToSet(ocr'.text)
        PROVE  HeardInv'
    <2>1. \A x : Heard(x) => Heard(x)' BY <1>5 DEF Heard
    <2>2. KeptInv' BY <1>5, <2>1 DEF HeardInv, KeptInv
    <2>3. ClassInv' BY <1>2, <1>5 DEF HeardInv, ClassInv, Count
    <2>4. Ink' = Ink BY <1>5 DEF Ink
    <2>5. OcrHeard'
      <3>1. Hears(Ink, ocr.text)' BY <1>5, <2>4 DEF Hears, Given
      <3>2. Whole(ocr.text)' BY <1>5 DEF Whole, LineLen
      <3>3. (\/ ocr.text = <<>> \/ ~ocr.honest \/ ocr.finish \in {"length", "none"}
             \/ ToSet(Ink) \subseteq ToSet(ocr.text))' BY <1>5, <2>4
      <3> QED BY <3>1, <3>2, <3>3 DEF OcrHeard
    <2> QED BY <2>2, <2>3, <2>5 DEF HeardInv
  <1>6. Hears(Ink, <<>>) /\ Whole(<<>>) /\ Given(<<>>) = 0
    <2>1. Given(<<>>) = 0
      <3>1. {i \in DOMAIN <<>> : <<>>[i].page # 0} = {} OBVIOUS
      <3> QED BY <3>1, FS_EmptySet DEF Given
    <2>2. Whole(<<>>) BY DEF Whole
    <2> QED BY <1>3, <2>1, <2>2 DEF Hears
  <1>7. CASE StartOcr
    <2>1. PICK a \in Calls(Ink, <<>>) :
             ocr' = [text |-> a.text, finish |-> a.finish, rounds |-> 0, honest |-> a.honest]
      BY <1>7 DEF StartOcr
    <2>2. CASE a = Failed
      <3>1. a.text = <<>> /\ a.finish = "none" BY <2>2 DEF Failed
      <3>2. ocr'.text = <<>> BY <2>1, <3>1
      <3> QED BY <1>5, <1>6, <1>7, <3>2 DEF StartOcr
    <2>3. CASE a \in Answers(Ink, <<>>)
      <3>1. PICK m \in 0..Len(Ink), junk \in Junk :
               /\ a.text = SubSeq(Ink, 0 + 1, m) \o junk
               /\ a.honest /\ a.finish # "length" => m = Len(Ink)
        <4>1. ~\E k \in DOMAIN <<>> : a.text = SubSeq(<<>>, k, Len(<<>>)) OBVIOUS
        <4> QED BY <1>6, <2>3, <4>1, AnswerIs
      <3>2. /\ Hears(Ink, a.text) /\ Whole(a.text)
            /\ m = Len(Ink) => ToSet(Ink) \subseteq ToSet(a.text)
        <4>1. Seq(LinesOn({at})) \subseteq Seq(LinesOn({0, at}))
          <5>1. {at} \subseteq {0, at} OBVIOUS
          <5> QED BY <5>1, MorePages
        <4>2. <<>> \in Seq(LinesOn({0, at})) OBVIOUS
        <4>3. a.text \in Seq(LinesOn({0, at})) BY <1>3, <2>1, <4>1, <4>2, CallsOf
        <4>4. <<>> \o a.text = a.text BY <4>3
        <4>5. at \in Nat \ {0} BY <1>1, <1>2
        <4> DEFINE none == <<>>
        <4>6. /\ none \in Seq(LinesOn({0, at})) /\ Whole(none) /\ Hears(Ink, none)
              /\ m \in Given(none)..Len(Ink) /\ a.text = SubSeq(Ink, Given(none) + 1, m) \o junk
          BY <1>6, <3>1, <4>2
        <4> HIDE DEF none
        <4>7. /\ Hears(Ink, none \o a.text) /\ Whole(none \o a.text)
              /\ m = Len(Ink) => ToSet(Ink) \subseteq ToSet(none \o a.text)
          BY <1>3, <1>4, <4>5, <4>6, HearsMore
        <4>8. none \o a.text = a.text BY <4>4 DEF none
        <4> QED BY <4>7, <4>8
      <3>3. ocr'.text = a.text /\ ocr'.finish = a.finish /\ ocr'.honest = a.honest BY <2>1
      <3> QED BY <1>5, <1>7, <3>1, <3>2, <3>3 DEF StartOcr
    <2> QED BY <2>1, <2>2, <2>3 DEF Calls
  <1>8. CASE ContinueOcr
    <2> DEFINE ends(a) == a.text = <<>> \/ Repeats(ocr.text, a.text)
               n == Given(ocr.text)
    <2>1. PICK a \in Calls(Ink, ocr.text) :
             ocr' = [text   |-> IF ends(a) THEN ocr.text ELSE ocr.text \o a.text,
                     finish |-> NextFinish(a),
                     rounds |-> IF ends(a) THEN MaxRounds ELSE ocr.rounds + 1,
                     honest |-> ocr.honest /\ a.honest]
      BY <1>8 DEF ContinueOcr
    <2>2. /\ stage = "ocr" /\ stage' = "ocr" /\ ocr.text \in Seq(LinesOn({0, at}))
          /\ Hears(Ink, ocr.text) /\ Whole(ocr.text) /\ n \in 0..Len(Ink)
      BY <1>1, <1>8 DEF ContinueOcr, OcrInv, HeardInv, OcrHeard, Hears
    <2>3. /\ ocr'.text = IF ends(a) THEN ocr.text ELSE ocr.text \o a.text
          /\ ocr'.finish = a.finish /\ (ocr'.honest => a.honest)
      <3> HIDE DEF ends
      <3> QED BY <2>1 DEF NextFinish
    <2>4. CASE /\ \E k \in DOMAIN ocr.text : a.text = SubSeq(ocr.text, k, Len(ocr.text))
               /\ a.honest /\ a.finish # "length" => n = Len(Ink)
      <3>1. PICK k \in DOMAIN ocr.text : a.text = SubSeq(ocr.text, k, Len(ocr.text)) BY <2>4
      <3>3. ends(a) BY <2>2, <3>1, TailRepeats
      <3>4. a.honest /\ a.finish # "length" => ToSet(Ink) \subseteq ToSet(ocr.text)
        <4> SUFFICES ASSUME n = Len(Ink), NEW x \in ToSet(Ink) PROVE x \in ToSet(ocr.text) BY <2>4
        <4>1. PICK j \in DOMAIN Ink : x = Ink[j] BY Zenon DEF ToSet
        <4>2. j \in 1..n BY <1>3, <4>1
        <4> QED BY <2>2, <4>1, <4>2 DEF Hears
      <3>5. ocr'.text = ocr.text BY <2>3, <3>3
      <3> HIDE DEF ends, n
      <3> QED BY <1>5, <1>8, <2>2, <2>3, <3>4, <3>5 DEF ContinueOcr
    <2>5. ASSUME NEW m \in n..Len(Ink), NEW junk \in Junk,
                 a.text = SubSeq(Ink, n + 1, m) \o junk,
                 a.honest /\ a.finish # "length" => m = Len(Ink)
          PROVE  HeardInv'
      <3>1. /\ Hears(Ink, ocr.text \o a.text) /\ Whole(ocr.text \o a.text)
            /\ m = Len(Ink) => ToSet(Ink) \subseteq ToSet(ocr.text \o a.text)
        <4>1. at \in Nat \ {0} BY <1>1, <1>2
        <4> QED BY <1>3, <1>4, <2>2, <2>5, <4>1, HearsMore
      <3>2. CASE ~ends(a)
        <4>1. ocr'.text = ocr.text \o a.text BY <2>3, <3>2
        <4> HIDE DEF ends, n
        <4> QED BY <1>5, <1>8, <2>2, <2>3, <2>5, <3>1, <4>1 DEF ContinueOcr
      <3>3. CASE ends(a)
        <4>1. ocr'.text = ocr.text BY <2>3, <3>3
        <4>2. a.text \in Seq(LinesOn({0, at}))
          <5>1. Seq(LinesOn({at})) \subseteq Seq(LinesOn({0, at}))
            <6>1. {at} \subseteq {0, at} OBVIOUS
            <6> QED BY <6>1, MorePages
          <5> QED BY <1>3, <2>1, <2>2, <5>1, CallsOf
        <4>3. ToSet(a.text) \subseteq ToSet(ocr.text) BY <2>2, <3>3, <4>2, RepeatsIts
        <4>4. m = Len(Ink) => ToSet(Ink) \subseteq ToSet(ocr.text)
          <5>1. ToSet(ocr.text \o a.text) = ToSet(ocr.text) \cup ToSet(a.text)
            BY <2>2, <4>2, ToSetOfBoth
          <5> QED BY <3>1, <4>3, <5>1
        <4> HIDE DEF ends, n
        <4> QED BY <1>5, <1>8, <2>2, <2>3, <2>5, <4>1, <4>4 DEF ContinueOcr
      <3> QED BY <3>2, <3>3
    <2>6. CASE a = Failed
      <3>1. a.text = <<>> /\ a.finish = "none" BY <2>6 DEF Failed
      <3>2. ocr'.text = ocr.text /\ ocr'.finish = "none" BY <2>3, <3>1
      <3> HIDE DEF ends, n
      <3> QED BY <1>5, <1>8, <2>2, <3>2 DEF ContinueOcr
    <2>7. CASE a \in Answers(Ink, ocr.text)
      <3>1. \/ \E m \in n..Len(Ink), junk \in Junk :
                  /\ a.text = SubSeq(Ink, n + 1, m) \o junk
                  /\ a.honest /\ a.finish # "length" => m = Len(Ink)
            \/ /\ \E k \in DOMAIN ocr.text : a.text = SubSeq(ocr.text, k, Len(ocr.text))
               /\ a.honest /\ a.finish # "length" => n = Len(Ink)
        BY <2>7, AnswerIs
      <3> HIDE DEF ends, n
      <3> QED BY <2>4, <2>5, <3>1
    <2> QED BY <2>1, <2>6, <2>7 DEF Calls
  <1>9. CASE OcrFails
    <2>1. ocr'.text = <<>> BY <1>9 DEF OcrFails, NoOcr
    <2> QED BY <1>5, <1>6, <1>9, <2>1 DEF OcrFails
  <1>10. CASE EndOcr
    <2> DEFINE text == Cleaned(ocr.text)
               whole == IF text = <<>> THEN Extracted(at)
                        ELSE Extracted(at) \o <<Added("heading", 2)>> \o text
    <2>1. /\ UNCHANGED <<job, classes>> /\ stage = "ocr" /\ stage' = "read"
          /\ warnings' = warnings \cup ({at} \X OcrWarnings(text))
          /\ AddPage(whole, "IMAGE", Fate)
      BY <1>10 DEF EndOcr
    <2>2. ocr.text \in Seq(LinesOn({0, at})) /\ Whole(ocr.text)
          /\ \/ ocr.text = <<>> \/ ~ocr.honest \/ ocr.finish \in {"length", "none"}
             \/ ToSet(Ink) \subseteq ToSet(ocr.text)
      BY <1>1, <2>1 DEF OcrInv, HeardInv, OcrHeard
    <2>3. ASSUME OcrWarnings(text) # {} PROVE \E w \in warnings' : w[1] = at
      <3>1. PICK s \in OcrWarnings(text) : TRUE BY <2>3
      <3>2. <<at, s>> \in warnings' /\ <<at, s>>[1] = at BY <2>1, <3>1
      <3> QED BY <3>2
    <2>4. ASSUME OcrWarnings(text) = {}, Fate = "whole"
          PROVE  ToSet(job.pages[at].ink) \subseteq ToSet(whole)
      <3>1. text # <<>> /\ ocr.finish # "length" /\ ~Degenerate(ocr.text)
        <4> HIDE DEF text
        <4> QED BY <2>4 DEF OcrWarnings
      <3>2. text = ocr.text BY <2>2, <3>1, CleanedOrShorter DEF Whole
      <3>3. ToSet(Ink) \subseteq ToSet(text)
        <4>1. ocr.honest /\ (ocr.text = <<>> \/ ocr.finish # "none") BY <2>4 DEF Fate
        <4> HIDE DEF text
        <4> QED BY <2>2, <3>1, <3>2, <4>1
      <3>4. ToSet(text) \subseteq ToSet(whole)
        <4> DEFINE above == Extracted(at) \o <<Added("heading", 2)>>
        <4> HIDE DEF text
        <4>1. whole = above \o text BY <3>1
        <4>2. above \in Seq(LinesOn({0, at}))
          <5>1. Added("heading", 2) \in LinesOn({0, at}) BY DEF Added, Line, LinesOn, Kinds
          <5>2. Extracted(at) \in Seq(LinesOn({0, at})) BY <1>1, <1>2, JobPages DEF ImageInv
          <5> QED BY <5>1, <5>2
        <4> HIDE DEF above, whole
        <4> QED BY <2>2, <3>2, <4>1, <4>2, ToSetOfBoth
      <3> HIDE DEF text, whole
      <3> QED BY <1>3, <3>3, <3>4
    <2> HIDE DEF text, whole
    <2> QED BY <1>1, <1>2, <2>1, <2>3, <2>4, OneHeardMore
  <1> QED BY <1>7, <1>8, <1>9, <1>10

LEMMA RecoverHeard ==
  ASSUME PlaceInv, HeardInv, Recover
  PROVE  HeardInv'
  <1>1. /\ UNCHANGED <<job, classes>> /\ stage' = "parsed" /\ stage = "failed"
        /\ warnings \subseteq warnings'
    BY DEF Recover
  <1>2. CASE UNCHANGED pages BY <1>1, <1>2, HeardUntouched DEF HeardInv, ClassInv
  <1>3. ASSUME \A i \in DOMAIN pages' : pages'[i].class = "TEXT" PROVE HeardInv'
    <2>1. ASSUME NEW x \in ToSet(pages') PROVE Heard(x)'
      <3>1. PICK i \in DOMAIN pages' : x = pages'[i] BY Zenon DEF ToSet
      <3> QED BY <1>3, <3>1 DEF Heard
    <2>2. KeptInv' BY <2>1 DEF KeptInv
    <2>3. ClassInv' BY <1>1 DEF HeardInv, ClassInv, Count
    <2> QED BY <1>1, <2>2, <2>3 DEF HeardInv, OcrHeard
  <1>4. \A num, text, of, fate : NoImage(Page(num, text, "TEXT", of, fate)).class = "TEXT"
    BY DEF NoImage, Page
  <1>5. CASE pages' = Numbered(Recovered) BY <1>3, <1>4, <1>5 DEF Numbered
  <1>6. CASE pages' = <<NoImage(Page(1, <<Added("plain", 2)>>, "TEXT", 1, "whole"))>>
    <2> DEFINE page == NoImage(Page(1, <<Added("plain", 2)>>, "TEXT", 1, "whole"))
    <2>1. page.class = "TEXT" BY <1>4
    <2> HIDE DEF page
    <2>2. \A i \in DOMAIN pages' : pages'[i] = page
      <3>1. pages' = <<page>> BY <1>6 DEF page
      <3> QED BY <3>1
    <2> QED BY <1>3, <2>1, <2>2
  <1> QED BY <1>2, <1>5, <1>6 DEF Recover

LEMMA HeardInvHolds == Spec => []HeardInv
  <1>1. Init => HeardInv
    <2> SUFFICES ASSUME PdfInit PROVE HeardInv BY DEF Init
    <2>1. DOMAIN classes = {} /\ ToSet(pages) = {} /\ stage = "open"
      <3>1. classes = <<>> /\ pages = <<>> BY DEF PdfInit
      <3>2. DOMAIN classes = {} /\ DOMAIN pages = {} BY <3>1
      <3> QED BY <3>2, Zenon DEF PdfInit, ToSet
    <2> QED BY <2>1 DEF HeardInv, ClassInv, OcrHeard, KeptInv
  <1>2. ReadingInv /\ HeardInv /\ [Next]_vars => HeardInv'
    <2> SUFFICES ASSUME PlaceInv, HeardInv, [Next]_vars PROVE HeardInv' BY DEF ReadingInv
    <2>1. ASSUME UNCHANGED <<job, stage, classes, images, at, ocr, pages, warnings>> PROVE HeardInv'
      BY <2>1 DEF HeardInv, ClassInv, OcrHeard, KeptInv, Heard, Hears, Whole, Given, Ink, Count
    <2>2. CASE PdfNext
      BY <2>2, FilterHeard, ReadPageHeard, OcrHeardSteps, RecoverHeard DEF PdfNext
    <2>3. CASE StorePages
      <3>1. /\ UNCHANGED <<job, classes, pages>> /\ stage = "parsed" /\ stage' = "stored"
            /\ warnings \subseteq warnings'
        BY <2>3 DEF StorePages
      <3> QED BY <3>1, HeardUntouched DEF HeardInv, ClassInv
    <2> QED BY <2>1, <2>2, <2>3 DEF Next, vars, pdfVars
  <1> QED BY <1>1, <1>2, ReadingInvHolds, PTL DEF Spec

\* A line of a page that the OCR endpoint was shown is in the page's text, or a
\* warning names the page, however often the transcription is cut off and
\* continued, when its first call or anything around a call fails, and whatever
\* the clean-up takes away, as long as the model does not call an incomplete
\* answer complete and no call to continue fails (NoHollowPage is violated then).
THEOREM TranscriptionsKept == Spec => []TranscriptionKept
  <1>1. HeardInv => TranscriptionKept
    <2> SUFFICES ASSUME HeardInv, NEW i \in DOMAIN pages, pages[i].class = "IMAGE", job.ocr,
                        pages[i].fate = "whole"
                 PROVE  \/ ToSet(job.pages[pages[i].num].ink) \subseteq ToSet(pages[i].text)
                        \/ \E w \in warnings : w[1] = pages[i].num
      BY DEF TranscriptionKept
    <2>1. pages[i] \in ToSet(pages) BY Zenon DEF ToSet
    <2> QED BY <2>1 DEF HeardInv, KeptInv, Heard
  <1> QED BY <1>1, HeardInvHolds, PTL

-----------------------------------------------------------------------------
(* Folds that go on: what is computed of a sequence and of one line more.  *)

\* The value that the steps of G lead to from base, over all of s.
Trace(G, base, s, h) == h[0] = base /\ \A i \in 1..Len(s) : h[i] = G[s[i]][h[i - 1]]
RunOf(S, G, base, s) == (CHOOSE h \in [0..Len(s) -> S] : Trace(G, base, s, h))[Len(s)]

\* The steps of G can be taken.
LEMMA RunIs ==
  ASSUME NEW X, NEW S, NEW base \in S, NEW G \in [X -> [S -> S]], NEW s \in Seq(X)
  PROVE  \E h \in [0..Len(s) -> S] : Trace(G, base, s, h) /\ RunOf(S, G, base, s) = h[Len(s)]
  <1> DEFINE n == Len(s)
             F == [i \in 1..n |-> G[s[i]]]
             h == CHOOSE k \in [0..Len(s) -> S] : Trace(G, base, s, k)
  <1>1. n \in Nat /\ \A i \in 1..n : s[i] \in X OBVIOUS
  <1>2. F \in [1..n -> [S -> S]] BY <1>1
  <1>3. \A i \in 1..n : F[i] = G[s[i]] OBVIOUS
  <1> HIDE DEF F
  <1>4. PICK k \in [0..n -> S] : Solves(k, n, base, F) BY <1>1, <1>2, Recursion
  <1>5. Trace(G, base, s, k) BY <1>3, <1>4 DEF Solves, Trace
  <1>6. h \in [0..Len(s) -> S] /\ Trace(G, base, s, h) BY <1>4, <1>5, Zenon DEF n
  <1>7. RunOf(S, G, base, s) = h[Len(s)] BY DEF RunOf
  <1> HIDE DEF h
  <1> QED BY <1>6, <1>7

\* Whatever takes the same steps gets there.
LEMMA RunIsOne ==
  ASSUME NEW X, NEW S, NEW base \in S, NEW G \in [X -> [S -> S]], NEW s \in Seq(X),
         NEW f, f[0] = base, \A i \in 1..Len(s) : f[i - 1] \in S => f[i] = G[s[i]][f[i - 1]]
  PROVE  f[Len(s)] = RunOf(S, G, base, s) /\ RunOf(S, G, base, s) \in S
  <1>1. PICK h \in [0..Len(s) -> S] : Trace(G, base, s, h) /\ RunOf(S, G, base, s) = h[Len(s)]
    BY RunIs
  <1> DEFINE n == Len(s)
             T == {i \in 0..n : f[i] = h[i]}
  <1>2. n \in Nat OBVIOUS
  <1>3. 0 \in T BY <1>1, <1>2 DEF Trace
  <1>4. ASSUME NEW i \in 1..n, i - 1 \in T PROVE i \in T
    <2>1. i - 1 \in 0..n /\ f[i - 1] = h[i - 1] /\ h[i - 1] \in S BY <1>4
    <2>2. f[i] = G[s[i]][f[i - 1]] /\ h[i] = G[s[i]][h[i - 1]] BY <1>1, <2>1 DEF Trace
    <2> QED BY <2>1, <2>2
  <1> HIDE DEF T
  <1>5. \A i \in 1..n : i - 1 \in T => i \in T BY <1>4
  <1>6. \A i \in 0..n : i \in T BY <1>2, <1>3, <1>5, UpTo
  <1>7. n \in 0..n /\ f[n] = h[n] BY <1>2, <1>6 DEF T
  <1> QED BY <1>1, <1>7

\* One element more is one step more.
LEMMA RunMore ==
  ASSUME NEW X, NEW S, NEW base \in S, NEW G \in [X -> [S -> S]]
  PROVE  /\ \A s \in Seq(X) : s = <<>> => RunOf(S, G, base, s) = base
         /\ \A s \in Seq(X), x \in X :
               /\ RunOf(S, G, base, s) \in S
               /\ RunOf(S, G, base, Append(s, x)) = G[x][RunOf(S, G, base, s)]
  <1>0. ASSUME NEW s \in Seq(X)
        PROVE  \E h \in [0..Len(s) -> S] : Trace(G, base, s, h) /\ RunOf(S, G, base, s) = h[Len(s)]
    BY RunIs
  <1>1. ASSUME NEW s \in Seq(X), s = <<>> PROVE RunOf(S, G, base, s) = base
    <2>1. Len(s) = 0 BY <1>1
    <2>2. PICK h \in [0..Len(s) -> S] : Trace(G, base, s, h) /\ RunOf(S, G, base, s) = h[Len(s)]
      BY <1>0
    <2> QED BY <2>1, <2>2 DEF Trace
  <1>2. ASSUME NEW s \in Seq(X), NEW x \in X
        PROVE  /\ RunOf(S, G, base, s) \in S
               /\ RunOf(S, G, base, Append(s, x)) = G[x][RunOf(S, G, base, s)]
    <2> DEFINE t == Append(s, x)
               n == Len(s)
    <2>1. /\ t \in Seq(X) /\ Len(t) = n + 1 /\ n \in Nat /\ t[n + 1] = x
          /\ \A i \in 1..n : t[i] = s[i]
      OBVIOUS
    <2> HIDE DEF t
    <2>2. PICK h \in [0..Len(t) -> S] : Trace(G, base, t, h) /\ RunOf(S, G, base, t) = h[Len(t)]
      BY <1>0, <2>1
    <2>3. h[0] = base /\ \A i \in 1..n : h[i] = G[s[i]][h[i - 1]]
      <3>1. \A i \in 1..n : i \in 1..Len(t) BY <2>1
      <3> QED BY <2>1, <2>2, <3>1 DEF Trace
    <2>4. h[n] = RunOf(S, G, base, s) /\ RunOf(S, G, base, s) \in S BY <2>3, RunIsOne DEF n
    <2>5. h[n + 1] = G[x][h[n]]
      <3>1. n + 1 \in 1..Len(t) /\ n + 1 - 1 = n BY <2>1
      <3>2. h[n + 1] = G[t[n + 1]][h[n + 1 - 1]] BY <2>2, <3>1 DEF Trace
      <3> QED BY <2>1, <3>1, <3>2
    <2> QED BY <2>1, <2>2, <2>4, <2>5 DEF t
  <1> QED BY <1>1, <1>2

\* A sequence, prefix by prefix.
LEMMA ByPrefixes ==
  ASSUME NEW X, NEW s \in Seq(X)
  PROVE  /\ Len(s) \in Nat /\ SubSeq(s, 1, 0) = <<>> /\ SubSeq(s, 1, Len(s)) = s
         /\ \A k \in 0..Len(s) : SubSeq(s, 1, k) \in Seq(X) /\ Len(SubSeq(s, 1, k)) = k
         /\ \A k \in 1..Len(s) : /\ s[k] \in X /\ k - 1 \in 0..Len(s)
                                 /\ SubSeq(s, 1, k) = Append(SubSeq(s, 1, k - 1), s[k])
  <1>1. /\ Len(s) \in Nat /\ SubSeq(s, 1, 0) = <<>> /\ SubSeq(s, 1, Len(s)) = s
        /\ \A k \in 0..Len(s) : SubSeq(s, 1, k) \in Seq(X) /\ Len(SubSeq(s, 1, k)) = k
    OBVIOUS
  <1>2. ASSUME NEW k \in 1..Len(s)
        PROVE  /\ s[k] \in X /\ k - 1 \in 0..Len(s)
               /\ SubSeq(s, 1, k) = Append(SubSeq(s, 1, k - 1), s[k])
    OBVIOUS
  <1> QED BY <1>1, <1>2

-----------------------------------------------------------------------------
(* Texts of lines that do not end before they begin.                       *)

\* The clean-up of a transcription may leave a stub of a line, never of a row.
Stout(P) == {l \in LinesOn(P) : LineLen(l) >= IF InTable(l) THEN 0 ELSE -1}
Texts(P) == Seq(Stout(P))
Blocked(P) == Texts(P) \ {<<>>}

\* The lines of stout texts.
LEMMA StoutIs ==
  ASSUME NEW P
  PROVE  /\ \A l \in Stout(P) : /\ l \in LinesOn(P) /\ LineLen(l) \in Int /\ LineLen(l) >= -1
                                /\ InTable(l) => LineLen(l) >= 0
         /\ Texts(P) \subseteq Seq(LinesOn(P))
  <1>1. \A l \in LinesOn(P) : LineLen(l) \in Int BY DEF LinesOn, LineLen
  <1>2. ASSUME NEW l \in Stout(P)
        PROVE  /\ l \in LinesOn(P) /\ LineLen(l) \in Int /\ LineLen(l) >= -1
               /\ InTable(l) => LineLen(l) >= 0
    <2>1. l \in LinesOn(P) /\ LineLen(l) \in Int /\ LineLen(l) >= IF InTable(l) THEN 0 ELSE -1
      BY <1>1 DEF Stout
    <2>2. CASE InTable(l) BY <2>1, <2>2
    <2>3. CASE ~InTable(l) BY <2>1, <2>3
    <2> QED BY <2>2, <2>3
  <1>3. Stout(P) \subseteq LinesOn(P) BY DEF Stout
  <1>4. Seq(Stout(P)) \subseteq Seq(LinesOn(P)) BY <1>3
  <1> QED BY <1>2, <1>4 DEF Texts

\* The length of a text, the newline that would end it included.
Weight(text) == IF text = <<>> THEN 0 ELSE Length(text) + 1

\* A line adds its length and a newline.
LEMMA WeightMore ==
  ASSUME NEW P
  PROVE  /\ Weight(<<>>) = 0
         /\ \A s \in Seq(LinesOn(P)), l \in LinesOn(P) :
               /\ Weight(s) \in Int /\ LineLen(l) \in Int
               /\ Weight(Append(s, l)) = Weight(s) + LineLen(l) + 1
  <1>1. Weight(<<>>) = 0 BY DEF Weight
  <1>2. ASSUME NEW s \in Seq(LinesOn(P)), NEW l \in LinesOn(P)
        PROVE  /\ Weight(s) \in Int /\ LineLen(l) \in Int
               /\ Weight(Append(s, l)) = Weight(s) + LineLen(l) + 1
    <2> DEFINE t == Append(s, l)
               n == Len(s)
    <2>1. /\ t \in Seq(LinesOn(P)) /\ Len(t) = n + 1 /\ n \in Nat /\ t[n + 1] = l /\ t # <<>>
          /\ \A i \in 1..n : t[i] = s[i]
      OBVIOUS
    <2>2. LineLen(l) \in Int BY DEF LinesOn, LineLen
    <2>3. Length(s) \in Int BY LengthType
    <2> HIDE DEF t
    <2>4. PICK f : Sums(f, s) /\ Length(s) = IF s = <<>> THEN 0 ELSE f[n] - 1 BY LengthIs
    <2>5. PICK g : Sums(g, t) /\ Length(t) = g[n + 1] - 1 BY <2>1, LengthIs
    <2>6. n <= Len(s) /\ n <= Len(t) BY <2>1
    <2>7. f[n] = g[n] BY <2>1, <2>4, <2>5, <2>6, SumsAlike
    <2>8. g[n] \in Int /\ g[n + 1] = g[n] + LineLen(l) + 1
      <3>1. n + 1 \in 1..Len(t) /\ n + 1 - 1 = n BY <2>1
      <3>2. g[n + 1 - 1] \in Int /\ g[n + 1] = g[n + 1 - 1] + LineLen(t[n + 1]) + 1
        BY <2>5, <3>1 DEF Sums
      <3> QED BY <2>1, <3>1, <3>2
    <2>9. Weight(s) = f[n]
      <3>1. CASE s = <<>> BY <2>4, <3>1 DEF Weight, Sums
      <3>2. CASE s # <<>>
        <4>1. Weight(s) = f[n] - 1 + 1 BY <2>4, <3>2 DEF Weight
        <4> QED BY <2>7, <2>8, <4>1
      <3> QED BY <3>1, <3>2
    <2>10. Weight(t) = g[n + 1] - 1 + 1 BY <2>1, <2>5 DEF Weight
    <2> QED BY <2>2, <2>7, <2>8, <2>9, <2>10 DEF t
  <1> QED BY <1>1, <1>2

\* Texts that are joined weigh what both weigh.
LEMMA WeightBoth ==
  ASSUME NEW P, NEW s \in Seq(LinesOn(P)), NEW t \in Seq(LinesOn(P))
  PROVE  /\ Weight(s) \in Int /\ Weight(t) \in Int /\ Weight(s \o t) = Weight(s) + Weight(t)
         /\ s \o t \in Seq(LinesOn(P))
  <1> DEFINE n == Len(t)
             pre(k) == SubSeq(t, 1, k)
             T == {k \in 0..n : Weight(s \o pre(k)) = Weight(s) + Weight(pre(k))}
  <1>0. /\ n \in Nat /\ pre(0) = <<>> /\ pre(n) = t
        /\ \A k \in 1..n : /\ pre(k - 1) \in Seq(LinesOn(P)) /\ t[k] \in LinesOn(P)
                           /\ pre(k) = Append(pre(k - 1), t[k])
    BY ByPrefixes
  <1> HIDE DEF n, pre
  <1>1. \A r \in Seq(LinesOn(P)) : Weight(r) \in Int
    <2>1. \A r \in Seq(LinesOn(P)) : Length(r) \in Int BY LengthType
    <2> QED BY <2>1 DEF Weight
  <1>2. 0 \in T
    <2> DEFINE none == <<>>
    <2>1. s \o none = s BY DEF none
    <2>2. Weight(none) = 0 BY WeightMore
    <2>3. Weight(s) \in Int BY <1>1
    <2>4. pre(0) = none BY <1>0
    <2> HIDE DEF none
    <2>5. Weight(s \o pre(0)) = Weight(s) /\ Weight(pre(0)) = 0 BY <2>1, <2>2, <2>4, Zenon
    <2>6. Weight(s \o pre(0)) = Weight(s) + Weight(pre(0)) BY <2>3, <2>5
    <2>7. 0 \in 0..n BY <1>0
    <2> QED BY <2>6, <2>7, Zenon
  <1>3. ASSUME NEW k \in 1..n, k - 1 \in T PROVE k \in T
    <2> DEFINE r == pre(k - 1)
               l == t[k]
    <2>1. r \in Seq(LinesOn(P)) /\ l \in LinesOn(P) /\ pre(k) = Append(r, l) BY <1>0
    <2>2. Weight(s \o r) = Weight(s) + Weight(r) BY <1>3
    <2> HIDE DEF r, l
    <2>3. s \o Append(r, l) = Append(s \o r, l) /\ s \o r \in Seq(LinesOn(P)) BY <2>1
    <2>4. Weight(Append(r, l)) = Weight(r) + LineLen(l) + 1 /\ LineLen(l) \in Int
      BY <2>1, WeightMore
    <2>5. Weight(Append(s \o r, l)) = Weight(s \o r) + LineLen(l) + 1 BY <2>1, <2>3, WeightMore
    <2>6. Weight(s) \in Int /\ Weight(r) \in Int BY <1>1, <2>1
    <2>7. Weight(Append(s \o r, l)) = Weight(s) + Weight(Append(r, l)) BY <2>2, <2>4, <2>5, <2>6
    <2>8. Weight(s \o pre(k)) = Weight(s) + Weight(pre(k)) BY <2>1, <2>3, <2>7, Zenon
    <2> QED BY <1>0, <2>8
  <1> HIDE DEF T
  <1>4. \A k \in 1..n : k - 1 \in T => k \in T BY <1>3
  <1>5. \A k \in 0..n : k \in T BY <1>0, <1>2, <1>4, UpTo
  <1>6. n \in T BY <1>0, <1>5
  <1>7. Weight(s \o t) = Weight(s) + Weight(t) BY <1>0, <1>6 DEF T
  <1>8. s \o t \in Seq(LinesOn(P)) OBVIOUS
  <1> QED BY <1>1, <1>7, <1>8

\* A stout text weighs at least nothing.
LEMMA WeightOf ==
  ASSUME NEW P, NEW t \in Texts(P)
  PROVE  /\ Weight(t) \in Nat /\ Length(t) \in Int /\ Length(t) <= Weight(t)
         /\ t # <<>> => Length(t) = Weight(t) - 1
         /\ t = <<>> => Length(t) = 0 /\ Weight(t) = 0
  <1> DEFINE n == Len(t)
             pre(k) == SubSeq(t, 1, k)
             T == {k \in 0..n : Weight(pre(k)) \in Nat}
  <1>0. /\ n \in Nat /\ pre(0) = <<>> /\ pre(n) = t
        /\ \A k \in 1..n : /\ pre(k - 1) \in Texts(P) /\ t[k] \in Stout(P)
                           /\ pre(k) = Append(pre(k - 1), t[k])
    BY ByPrefixes DEF Texts
  <1> HIDE DEF n, pre
  <1>1. 0 \in T BY <1>0, WeightMore
  <1>2. ASSUME NEW k \in 1..n, k - 1 \in T PROVE k \in T
    <2> DEFINE r == pre(k - 1)
               l == t[k]
    <2>1. r \in Texts(P) /\ l \in Stout(P) /\ pre(k) = Append(r, l) BY <1>0
    <2>2. Weight(r) \in Nat BY <1>2
    <2> HIDE DEF r, l
    <2>3. r \in Seq(LinesOn(P)) /\ l \in LinesOn(P) /\ LineLen(l) \in Int /\ LineLen(l) >= -1
      BY <2>1, StoutIs
    <2>4. Weight(Append(r, l)) = Weight(r) + LineLen(l) + 1 BY <2>3, WeightMore
    <2>5. Weight(Append(r, l)) \in Nat BY <2>2, <2>3, <2>4
    <2>6. k \in 0..n BY <1>0
    <2> QED BY <2>1, <2>5, <2>6, Zenon
  <1> HIDE DEF T
  <1>4. \A k \in 1..n : k - 1 \in T => k \in T BY <1>2
  <1>5. \A k \in 0..n : k \in T BY <1>0, <1>1, <1>4, UpTo
  <1>6. n \in T BY <1>0, <1>5
  <1>8. Weight(t) \in Nat BY <1>0, <1>6 DEF T
  <1>9. Length(t) \in Int BY StoutIs, LengthType
  <1>10. CASE t # <<>>
    <2>1. Weight(t) = Length(t) + 1 BY <1>10 DEF Weight
    <2> QED BY <1>8, <1>9, <1>10, <2>1
  <1>11. CASE t = <<>>
    <2>1. Weight(t) = 0 /\ Length(t) = 0 BY <1>11 DEF Weight, Length
    <2> QED BY <1>11, <2>1
  <1> QED BY <1>10, <1>11

\* A text of one line.
LEMMA OneLine ==
  ASSUME NEW P, NEW l \in LinesOn(P)
  PROVE  Weight(<<l>>) = LineLen(l) + 1 /\ Length(<<l>>) = LineLen(l) /\ LineLen(l) \in Int
  <1>1. <<>> \in Seq(LinesOn(P)) /\ Append(<<>>, l) = <<l>> OBVIOUS
  <1>2. Weight(<<>>) = 0 /\ Weight(Append(<<>>, l)) = Weight(<<>>) + LineLen(l) + 1 /\ LineLen(l) \in Int
    BY <1>1, WeightMore
  <1>3. Weight(<<l>>) = LineLen(l) + 1 BY <1>1, <1>2
  <1>4. <<l>> \in Seq(LinesOn(P)) OBVIOUS
  <1>5. Length(<<l>>) \in Int BY <1>4, LengthType
  <1>6. Weight(<<l>>) = Length(<<l>>) + 1 BY DEF Weight
  <1> QED BY <1>2, <1>3, <1>5, <1>6

-----------------------------------------------------------------------------
(* The passes over a text, line by line.                                   *)

\* The passes of Chunker as operators: lines into blocks.
BlockStep(bs, l) ==
    IF InTable(l) /\ bs # <<>> /\ InTable(Last(Last(bs)))
    THEN ReplaceAt(bs, Len(bs), Append(Last(bs), l))
    ELSE Append(bs, <<l>>)

\* Blocks, line by line.
LEMMA BlocksMore ==
  ASSUME NEW P
  PROVE  /\ Blocks(<<>>) = <<>>
         /\ \A s \in Seq(Stout(P)), l \in Stout(P) :
               /\ Blocks(s) \in Seq(Blocked(P))
               /\ Blocks(Append(s, l)) = BlockStep(Blocks(s), l)
  <1> DEFINE S == Seq(Blocked(P))
             X == Stout(P)
             base == <<>>
             op(a, l) == BlockStep(a, l)
             G == [l \in X |-> [a \in S |-> op(a, l)]]
  <1>1. base \in S OBVIOUS
  <1>2. \A a \in S, l \in X : op(a, l) \in S 
    <2> SUFFICES ASSUME NEW bs \in Seq(Blocked(P)), NEW l \in Stout(P)
                 PROVE  BlockStep(bs, l) \in Seq(Blocked(P))
      OBVIOUS
    <2> HIDE DEF S, X, op, G
    <2>1. <<l>> \in Blocked(P) BY DEF Blocked, Texts
    <2>2. Append(bs, <<l>>) \in Seq(Blocked(P)) BY <2>1
    <2>3. ASSUME bs # <<>> PROVE ReplaceAt(bs, Len(bs), Append(Last(bs), l)) \in Seq(Blocked(P))
      <3> DEFINE t == Last(bs)
                 b == Append(t, l)
      <3>1. t \in Blocked(P) BY <2>3 DEF Last
      <3> HIDE DEF t
      <3>2. b \in Texts(P) /\ Len(b) = Len(t) + 1 /\ Len(t) \in Nat BY <3>1 DEF Blocked, Texts
      <3>3. b \in Blocked(P)
        <4>1. Len(b) # 0 BY <3>2
        <4> HIDE DEF b
        <4> QED BY <3>2, <4>1 DEF Blocked
      <3> HIDE DEF b
      <3>4. ReplaceAt(bs, Len(bs), b) \in Seq(Blocked(P)) BY <2>3, <3>3 DEF ReplaceAt
      <3> QED BY <3>4 DEF b, t
    <2> QED BY <2>2, <2>3 DEF BlockStep
  <1>3. ASSUME NEW s \in Seq(X) PROVE Blocks(s) = RunOf(S, G, base, s)
    <2> DEFINE n == Len(s)
               H == [i \in 1..n |-> [a \in S |-> op(a, s[i])]]
               E(g) == [i \in 0..n |->
                          IF i = 0 THEN base ELSE At(g[i - 1], LAMBDA a : op(a, s[i]))]
               f == CHOOSE g : g = E(g)
    <2>1. n \in Nat /\ \A i \in 1..n : s[i] \in X
      <3> HIDE DEF X
      <3> QED OBVIOUS
    <2>2. Blocks(s) = f[n] BY DEF Blocks, Fold, BlockStep
    <2> HIDE DEF op, S, X, n, base
    <2>3. PICK h \in [0..n -> S] : Solves(h, n, base, H)
      <3>1. H \in [1..n -> [S -> S]] BY <1>2, <2>1
      <3> HIDE DEF H
      <3> QED BY <1>1, <2>1, <3>1, Recursion
    <2>4. \A g, i : At(g[i - 1], LAMBDA a : op(a, s[i])) = op(g[i - 1], s[i])
      BY Zenon DEF At
    <2>5. h = E(h)
      <3> SUFFICES ASSUME NEW i \in 0..n, i # 0 PROVE h[i] = op(h[i - 1], s[i])
        BY <2>3, <2>4 DEF Solves
      <3>1. i \in 1..n /\ h[i - 1] \in S BY <2>1
      <3> QED BY <2>3, <3>1 DEF Solves
    <2> HIDE DEF E
    <2>6. f = E(f) BY <2>5, Zenon
    <2> HIDE DEF f
    <2>7. \A i \in 0..n : f[i] = IF i = 0 THEN base ELSE op(f[i - 1], s[i]) BY <2>4, <2>6 DEF E
    <2>8. f[0] = base /\ \A i \in 1..n : f[i - 1] \in S => f[i] = G[s[i]][f[i - 1]]
      <3>1. 0 \in 0..n /\ \A i \in 1..n : i \in 0..n /\ i # 0 /\ s[i] \in X BY <2>1
      <3> QED BY <2>7, <3>1
    <2>9. G \in [X -> [S -> S]] BY <1>2
    <2> HIDE DEF G
    <2> QED BY <1>1, <2>2, <2>8, <2>9, RunIsOne DEF n
  <1> HIDE DEF op, S, X, base
  <1>4. G \in [X -> [S -> S]] BY <1>2
  <1>5. \A a \in S, l \in X : G[l][a] = op(a, l) OBVIOUS
  <1> HIDE DEF G
  <1>6. /\ \A s \in Seq(X) : s = <<>> => RunOf(S, G, base, s) = base
        /\ \A s \in Seq(X), l \in X :
              /\ RunOf(S, G, base, s) \in S
              /\ RunOf(S, G, base, Append(s, l)) = G[l][RunOf(S, G, base, s)]
    BY <1>1, <1>4, RunMore
  <1>7. Blocks(<<>>) = base
    <2>1. <<>> \in Seq(X) OBVIOUS
    <2> QED BY <1>3, <1>6, <2>1, Zenon
  <1>8. ASSUME NEW s \in Seq(X), NEW l \in X
        PROVE  Blocks(s) \in S /\ Blocks(Append(s, l)) = op(Blocks(s), l)
    <2>1. Append(s, l) \in Seq(X) OBVIOUS
    <2>2. /\ Blocks(s) = RunOf(S, G, base, s)
          /\ Blocks(Append(s, l)) = RunOf(S, G, base, Append(s, l))
      BY <1>3, <2>1, Zenon
    <2>3. Blocks(s) \in S /\ Blocks(Append(s, l)) = G[l][Blocks(s)]
      BY <1>6, <2>2, Zenon
    <2> QED BY <1>5, <2>3, Zenon
  <1> QED BY <1>7, <1>8, Zenon DEF op, S, X, base

-----------------------------------------------------------------------------
(* What is gathered of such lines, and the pieces of a long one.           *)

\* What the passes collect of stout texts.
Gath(P) == [chunks : Seq(Blocked(P)), cur : Texts(P), size : Int]

LEMMA GathIs ==
  ASSUME NEW P, NEW chunks \in Seq(Blocked(P)), NEW cur \in Texts(P), NEW size \in Int
  PROVE  [chunks |-> chunks, cur |-> cur, size |-> size] \in Gath(P)
  BY DEF Gath

\* Flushing moves what is collected to the chunks.
LEMMA FlushIs ==
  ASSUME NEW P, NEW a \in Gath(P)
  PROVE  /\ Flush(a) \in Gath(P) /\ Flush(a).cur = <<>>
         /\ a.cur = <<>> => Flush(a) = a
         /\ a.cur # <<>> => /\ Flush(a).chunks = Append(a.chunks, a.cur)
                            /\ Flush(a).size = 0
                            /\ a.cur \in Blocked(P)
  <1>1. a.chunks \in Seq(Blocked(P)) /\ a.cur \in Texts(P) BY DEF Gath
  <1>2. CASE a.cur = <<>> BY <1>1, <1>2 DEF Flush
  <1>3. CASE a.cur # <<>>
    <2>1. a.cur \in Blocked(P) BY <1>1, <1>3 DEF Blocked
    <2> DEFINE cs == Append(a.chunks, a.cur)
               none == <<>>
    <2>2. cs \in Seq(Blocked(P)) BY <1>1, <2>1
    <2>3. none \in Texts(P) BY DEF Texts
    <2>4. Flush(a) = [chunks |-> cs, cur |-> none, size |-> 0] BY <1>3 DEF Flush
    <2>5. Flush(a).chunks = cs /\ Flush(a).size = 0 /\ Flush(a).cur = none BY <2>4
    <2> HIDE DEF cs, none
    <2>6. Flush(a) \in Gath(P) BY <2>2, <2>3, <2>4, GathIs
    <2> QED BY <1>3, <2>1, <2>5, <2>6 DEF cs, none
  <1> QED BY <1>2, <1>3

\* Collecting joins a text to what is collected.
LEMMA CollectIs ==
  ASSUME NEW P, NEW a \in Gath(P), NEW lines \in Texts(P), NEW n \in Int
  PROVE  /\ Collect(a, lines, n) \in Gath(P)
         /\ Collect(a, lines, n).chunks = a.chunks
         /\ Collect(a, lines, n).cur = a.cur \o lines
         /\ Collect(a, lines, n).size = a.size + n
  <1>1. a.cur \o lines \in Texts(P) /\ a.size + n \in Int BY DEF Gath, Texts
  <1> QED BY <1>1 DEF Collect, Gath

\* Room is made by flushing, or there is room.
LEMMA MakeRoomIs ==
  ASSUME NEW P, NEW a \in Gath(P), NEW n \in Int, NEW max \in Int
  PROVE  /\ MakeRoom(a, n, max) \in Gath(P)
         /\ MakeRoom(a, n, max) = IF a.size + n > max THEN Flush(a) ELSE a
  BY FlushIs DEF MakeRoom

LEMMA EmptyIs ==
  ASSUME NEW P
  PROVE  /\ Empty \in Gath(P) /\ Empty.chunks = <<>> /\ Empty.cur = <<>> /\ Empty.size = 0
         /\ Flush(Empty) = Empty
  <1>1. <<>> \in Seq(Blocked(P)) /\ <<>> \in Texts(P) /\ 0 \in Int BY DEF Texts
  <1>2. Empty \in Gath(P) BY <1>1, Zenon DEF Empty, Gath
  <1>3. Empty.chunks = <<>> /\ Empty.cur = <<>> /\ Empty.size = 0 BY DEF Empty
  <1> QED BY <1>2, <1>3, FlushIs

LEMMA GathSame ==
  ASSUME NEW P, NEW a \in Gath(P), NEW b \in Gath(P),
         a.chunks = b.chunks, a.cur = b.cur, a.size = b.size
  PROVE  a = b
  BY DEF Gath

\* Division.
LEMMA Shares ==
  ASSUME NEW a \in Nat, NEW b \in Nat \ {0}
  PROVE  /\ a \div b \in Nat /\ b * (a \div b) \in Int
         /\ b * (a \div b) <= a /\ a < b * (a \div b) + b
  OBVIOUS

LEMMA Multiples ==
  ASSUME NEW i \in Nat, NEW k \in Nat, NEW b \in Nat, i <= k
  PROVE  b * i \in Nat /\ b * k \in Nat /\ b * i <= b * k
  OBVIOUS

LEMMA OneMore ==
  ASSUME NEW i \in Nat \ {0}, NEW b \in Nat
  PROVE  /\ i - 1 \in Nat /\ b * i = b * (i - 1) + b
         /\ i * b = b * i /\ (i - 1) * b = b * (i - 1)
  <1>1. PICK j \in Nat : j = i - 1 OBVIOUS
  <1>2. i = j + 1 BY <1>1
  <1>3. b * (j + 1) = b * j + b OBVIOUS
  <1>4. (j + 1) * b = b * (j + 1) /\ j * b = b * j OBVIOUS
  <1> QED BY <1>1, <1>2, <1>3, <1>4

\* Every piece but the last is as long as it may be, and the last is not empty.
LEMMA PiecesIs ==
  ASSUME NEW P, NEW l \in Stout(P), NEW max \in Nat \ {0}, LineLen(l) > 0
  PROVE  /\ Pieces(l, max) \in Texts(P) /\ Len(Pieces(l, max)) > 0
         /\ \A i \in 1..Len(Pieces(l, max)) :
               LET p == Pieces(l, max)[i]
               IN  /\ p \in Stout(P) /\ p.kind = "plain"
                   /\ LineLen(p) \in 1..max /\ LineLen(p) <= LineLen(l)
                   /\ i < Len(Pieces(l, max)) => LineLen(p) = max
         /\ l.kind = "plain" /\ LineLen(l) <= max => Pieces(l, max) = <<l>>
  <1> DEFINE L == LineLen(l)
             k == (L + max - 1) \div max
             from(i) == l.from + (i - 1) * max
             to(i) == IF l.from + i * max < l.to THEN l.from + i * max ELSE l.to
             piece(i) == [l EXCEPT !.kind = "plain", !.from = from(i), !.to = to(i)]
  <1>1. l \in LinesOn(P) /\ L \in Nat \ {0} /\ l.from \in Int /\ l.to \in Int /\ L = l.to - l.from
    <2>1. l \in LinesOn(P) /\ LineLen(l) \in Int BY StoutIs
    <2> QED BY <2>1 DEF LinesOn, LineLen
  <1>2. Pieces(l, max) = [i \in 1..k |-> piece(i)] BY DEF Pieces
  <1>3. k \in Nat /\ max * k \in Int /\ max * k <= L + max - 1 /\ L + max - 1 < max * k + max
    <2>1. L + max - 1 \in Nat BY <1>1
    <2> HIDE DEF L
    <2> QED BY <2>1, Shares
  <1> HIDE DEF k, L
  <1>4. k > 0
    <2>1. k = 0 => max * k = 0 BY <1>1
    <2> QED BY <1>1, <1>3, <2>1
  <1>5. ASSUME NEW i \in 1..k
        PROVE  /\ from(i) \in Int /\ to(i) \in Int /\ to(i) - from(i) \in 1..max /\ to(i) - from(i) <= L
               /\ i < k => to(i) - from(i) = max
    <2> DEFINE x == max * (i - 1)
               y == max * i
               z == max * (k - 1)
               w == max * k
    <2>1. i - 1 \in Nat /\ i \in Nat /\ k - 1 \in Nat /\ i - 1 <= k - 1 /\ i <= k BY <1>3
    <2>2. x \in Nat /\ z \in Nat /\ x <= z BY <2>1, Multiples
    <2>3. y = x + max /\ w = z + max /\ i * max = y /\ (i - 1) * max = x
      <3>1. i \in Nat \ {0} /\ k \in Nat \ {0} BY <1>3
      <3> QED BY <3>1, OneMore
    <2>5. w <= L + max - 1 /\ L + max - 1 < w + max BY <1>3
    <2>6. i < k => y <= z
      <3> SUFFICES ASSUME i < k PROVE y <= z OBVIOUS
      <3>1. i <= k - 1
        <4> HIDE DEF x, y, z, w, from, to
        <4> QED BY <1>3, <2>1
      <3> QED BY <2>1, <3>1, Multiples
    <2>7. i = k => x = z OBVIOUS
    <2>8. from(i) = l.from + x /\ to(i) = IF l.from + y < l.to THEN l.from + y ELSE l.to BY <2>3
    <2> HIDE DEF x, y, z, w, from, to
    <2>9. CASE i < k
      <3>1. y <= z /\ y < L /\ y \in Int BY <1>1, <2>2, <2>3, <2>5, <2>6, <2>9
      <3>2. l.from + y < l.to BY <1>1, <3>1
      <3>3. to(i) = l.from + y BY <2>8, <3>2
      <3> QED BY <1>1, <2>2, <2>3, <2>8, <3>1, <3>3
    <2>10. CASE i = k
      <3>1. x = z /\ y = w /\ x < L /\ L <= y /\ y \in Int
        BY <1>1, <2>2, <2>3, <2>5, <2>7, <2>10
      <3>2. to(i) = l.to BY <1>1, <2>8, <3>1
      <3> QED BY <1>1, <2>2, <2>3, <2>8, <2>10, <3>1, <3>2
    <2> QED BY <1>3, <2>9, <2>10
  <1> HIDE DEF from, to
  <1>6. ASSUME NEW i \in 1..k
        PROVE  /\ piece(i) \in Stout(P) /\ piece(i).kind = "plain"
               /\ LineLen(piece(i)) = to(i) - from(i)
    <2>1. from(i) \in Int /\ to(i) \in Int /\ to(i) - from(i) >= 1 BY <1>5
    <2>2. "plain" \in Kinds BY DEF Kinds
    <2>3. piece(i) \in LinesOn(P) BY <1>1, <2>1, <2>2 DEF LinesOn
    <2>4. piece(i).kind = "plain" /\ piece(i).from = from(i) /\ piece(i).to = to(i)
      BY <1>1 DEF LinesOn
    <2>5. ~InTable(piece(i)) BY <2>4 DEF InTable
    <2>6. LineLen(piece(i)) = to(i) - from(i) BY <2>4 DEF LineLen
    <2> HIDE DEF piece
    <2> QED BY <2>1, <2>3, <2>4, <2>5, <2>6 DEF Stout
  <1>7. ASSUME l.kind = "plain", L <= max PROVE k = 1 /\ piece(1) = l
    <2>1. k = 1
      <3>1. k >= 2 => max * 2 <= max * k BY <1>3, Multiples
      <3>2. ~(k >= 2) BY <1>1, <1>3, <1>7, <3>1
      <3> QED BY <1>3, <1>4, <3>2
    <2>2. from(1) = l.from BY <1>1 DEF from
    <2>3. to(1) = l.to BY <1>1, <1>7 DEF to
    <2>4. piece(1) = [l EXCEPT !.kind = l.kind, !.from = l.from, !.to = l.to] BY <1>7, <2>2, <2>3
    <2> QED BY <1>1, <2>1, <2>4 DEF LinesOn
  <1> HIDE DEF piece
  <1>8. Len(Pieces(l, max)) = k /\ Pieces(l, max) \in Texts(P) BY <1>2, <1>3, <1>6 DEF Texts
  <1>9. \A i \in 1..k : Pieces(l, max)[i] = piece(i) BY <1>2
  <1>10. ASSUME l.kind = "plain", L <= max PROVE Pieces(l, max) = <<l>>
    <2>1. k = 1 /\ piece(1) = l BY <1>7, <1>10
    <2>2. Pieces(l, max) = [i \in 1..1 |-> piece(i)] BY <1>2, <2>1
    <2> QED BY <2>1, <2>2
  <1>11. ASSUME NEW i \in 1..k
         PROVE  LET p == Pieces(l, max)[i]
                IN  /\ p \in Stout(P) /\ p.kind = "plain"
                    /\ LineLen(p) \in 1..max /\ LineLen(p) <= L
                    /\ i < k => LineLen(p) = max
    BY <1>5, <1>6, <1>9
  <1> QED BY <1>4, <1>8, <1>10, <1>11 DEF L

\* What holds of no element, and of one more when it holds, holds of a sequence.
LEMMA OneByOne ==
  ASSUME NEW X, NEW T, <<>> \in T, \A r \in Seq(X), x \in X : r \in T => Append(r, x) \in T
  PROVE  \A s \in Seq(X) : s \in T
  <1> SUFFICES ASSUME NEW s \in Seq(X) PROVE s \in T OBVIOUS
  <1> DEFINE n == Len(s)
             pre(k) == SubSeq(s, 1, k)
             K == {k \in 0..n : pre(k) \in T}
  <1>1. /\ n \in Nat /\ pre(0) = <<>> /\ pre(n) = s
        /\ \A k \in 1..n : /\ pre(k - 1) \in Seq(X) /\ s[k] \in X /\ k - 1 \in 0..n
                           /\ pre(k) = Append(pre(k - 1), s[k])
    BY ByPrefixes
  <1> HIDE DEF n, pre
  <1>2. 0 \in K BY <1>1
  <1>3. ASSUME NEW k \in 1..n, k - 1 \in K PROVE k \in K
    <2>1. pre(k - 1) \in T BY <1>3
    <2>2. pre(k) \in T
      <3>1. pre(k - 1) \in Seq(X) /\ s[k] \in X BY <1>1
      <3>2. Append(pre(k - 1), s[k]) \in T BY <2>1, <3>1
      <3> QED BY <1>1, <3>2, Zenon
    <2>3. k \in 0..n BY <1>1
    <2> QED BY <2>2, <2>3
  <1> HIDE DEF K
  <1>4. \A k \in 1..n : k - 1 \in K => k \in K BY <1>3
  <1>5. \A k \in 0..n : k \in K BY <1>1, <1>2, <1>4, UpTo
  <1>6. n \in K BY <1>1, <1>5
  <1> QED BY <1>1, <1>6 DEF K

\* A sequence, its last element apart.
EndsWith(X, s, f, x) ==
    /\ s = Append(f, x) /\ x = s[Len(s)] /\ x = Last(s)
    /\ Len(s) \in Nat \ {0} /\ Len(f) = Len(s) - 1
    /\ \A y \in X : ReplaceAt(s, Len(s), y) = Append(f, y)

\* A sequence that is not empty ends with something.
LEMMA FrontAndLast ==
  ASSUME NEW X, NEW s \in Seq(X), s # <<>>
  PROVE  \E f \in Seq(X), x \in X : EndsWith(X, s, f, x)
  <1> DEFINE n == Len(s)
             f == SubSeq(s, 1, n - 1)
  <1>1. n \in Nat \ {0} OBVIOUS
  <1>2. n \in 1..Len(s) /\ n - 1 \in 0..Len(s) BY <1>1
  <1>3. /\ SubSeq(s, 1, n) = Append(f, s[n]) /\ s[n] \in X /\ f \in Seq(X) /\ Len(f) = n - 1
        /\ SubSeq(s, 1, n) = s
    BY <1>2, ByPrefixes
  <1>4. s = Append(f, s[n]) BY <1>3, Zenon
  <1> HIDE DEF f
  <1>5. ASSUME NEW y \in X PROVE ReplaceAt(s, n, y) = Append(f, y)
    <2> DEFINE t == Append(f, y)
               r == [s EXCEPT ![n] = y]
    <2>1. t \in Seq(X) /\ Len(t) = n BY <1>1, <1>3
    <2>2. r \in Seq(X) /\ Len(r) = n BY <1>1
    <2>3. \A i \in 1..n : t[i] = r[i]
      <3> SUFFICES ASSUME NEW i \in 1..n PROVE t[i] = r[i] OBVIOUS
      <3>1. t[i] = IF i = n THEN y ELSE f[i] BY <1>1, <1>3
      <3>2. r[i] = IF i = n THEN y ELSE s[i] OBVIOUS
      <3>3. i # n => Append(f, s[n])[i] = f[i] BY <1>1, <1>3
      <3> HIDE DEF t, r
      <3>4. i # n => s[i] = f[i] BY <1>4, <3>3, Zenon
      <3> QED BY <3>1, <3>2, <3>4
    <2> HIDE DEF t, r, n
    <2>4. t = r BY <2>1, <2>2, <2>3
    <2> QED BY <2>4 DEF t, r, ReplaceAt
  <1>6. s[n] = Last(s) BY DEF Last
  <1>7. EndsWith(X, s, f, s[n]) BY <1>1, <1>3, <1>4, <1>5, <1>6 DEF EndsWith
  <1> QED BY <1>3, <1>7

-----------------------------------------------------------------------------
(* Blocks: a line outside the tables, or the lines of one.                 *)

\* A line that is in no table, or the lines of a table.
IsBlock(b) == \/ Len(b) = 1 /\ ~InTable(b[1])
              \/ Len(b) > 0 /\ \A i \in 1..Len(b) : InTable(b[i])
AreBlocks(bs) ==
    /\ \A k \in 1..Len(bs) : IsBlock(bs[k])
    /\ \A k \in 1..Len(bs) : k > 1 => ~(InTable(bs[k][1]) /\ InTable(bs[k - 1][1]))
\* Whether the text ends with a line of a table.
EndsInTable(text) == text # <<>> /\ InTable(text[Len(text)])

\* A block ends in a table if it begins in one.
LEMMA BlockEnds ==
  ASSUME NEW P, NEW b \in Blocked(P), IsBlock(b)
  PROVE  /\ Len(b) \in Nat \ {0} /\ b[1] \in Stout(P) /\ b \in Texts(P) /\ b # <<>>
         /\ InTable(b[Len(b)]) <=> InTable(b[1])
         /\ EndsInTable(b) <=> InTable(b[1])
         /\ ~InTable(b[1]) => b = <<b[1]>>
  <1>1. b \in Seq(Stout(P)) /\ b # <<>> BY DEF Blocked, Texts
  <1>2. Len(b) \in Nat \ {0} /\ b[1] \in Stout(P) BY <1>1
  <1>3. InTable(b[Len(b)]) <=> InTable(b[1])
    <2>1. CASE Len(b) = 1 BY <2>1
    <2>2. CASE \A i \in 1..Len(b) : InTable(b[i]) BY <1>2, <2>2
    <2> QED BY <2>1, <2>2 DEF IsBlock
  <1>4. ~InTable(b[1]) => b = <<b[1]>>
    <2> SUFFICES ASSUME ~InTable(b[1]) PROVE b = <<b[1]>> OBVIOUS
    <2>1. Len(b) = 1 BY <1>2 DEF IsBlock
    <2> QED BY <1>1, <2>1
  <1> QED BY <1>1, <1>2, <1>3, <1>4 DEF EndsInTable, Texts

\* A block may follow unless two tables would meet.
LEMMA MoreBlocks ==
  ASSUME NEW P, NEW bs \in Seq(Blocked(P)), NEW b \in Blocked(P)
  PROVE  AreBlocks(Append(bs, b)) <=>
           /\ AreBlocks(bs) /\ IsBlock(b)
           /\ bs # <<>> => ~(InTable(b[1]) /\ InTable(bs[Len(bs)][1]))
  <1> DEFINE cs == Append(bs, b)
             n == Len(bs)
  <1>1. /\ Len(cs) = n + 1 /\ n \in Nat /\ cs[n + 1] = b /\ \A k \in 1..n : cs[k] = bs[k]
        /\ bs # <<>> <=> n > 0
    OBVIOUS
  <1> HIDE DEF cs, n
  <1>2. ASSUME AreBlocks(cs) PROVE AreBlocks(bs) /\ IsBlock(b)
    <2>1. \A k \in 1..n : k \in 1..Len(cs) BY <1>1
    <2>2. \A k \in 1..n : IsBlock(bs[k]) BY <1>1, <1>2, <2>1 DEF AreBlocks
    <2>3. \A k \in 1..n : k > 1 => ~(InTable(bs[k][1]) /\ InTable(bs[k - 1][1]))
      <3> SUFFICES ASSUME NEW k \in 1..n, k > 1
                   PROVE  ~(InTable(bs[k][1]) /\ InTable(bs[k - 1][1]))
        OBVIOUS
      <3>1. k - 1 \in 1..n /\ cs[k] = bs[k] /\ cs[k - 1] = bs[k - 1] BY <1>1
      <3> QED BY <1>2, <2>1, <3>1 DEF AreBlocks
    <2>4. n + 1 \in 1..Len(cs) BY <1>1
    <2> QED BY <1>1, <1>2, <2>2, <2>3, <2>4 DEF AreBlocks, n
  <1>3. ASSUME AreBlocks(cs), n > 0 PROVE ~(InTable(b[1]) /\ InTable(bs[n][1]))
    <2>1. n + 1 \in 1..Len(cs) /\ n + 1 > 1 /\ (n + 1) - 1 = n /\ cs[n] = bs[n] BY <1>1, <1>3
    <2>2. ~(InTable(cs[n + 1][1]) /\ InTable(cs[(n + 1) - 1][1])) BY <1>3, <2>1 DEF AreBlocks
    <2> QED BY <1>1, <2>1, <2>2
  <1>4. ASSUME AreBlocks(bs), IsBlock(b), n > 0 => ~(InTable(b[1]) /\ InTable(bs[n][1]))
        PROVE  AreBlocks(cs)
    <2> SUFFICES ASSUME NEW k \in 1..Len(cs)
                 PROVE  IsBlock(cs[k]) /\ (k > 1 => ~(InTable(cs[k][1]) /\ InTable(cs[k - 1][1])))
      BY DEF AreBlocks
    <2>1. CASE k = n + 1
      <3>1. cs[k] = b /\ (k > 1 => n > 0 /\ cs[k - 1] = bs[n]) BY <1>1, <2>1
      <3> QED BY <1>4, <3>1
    <2>2. CASE k \in 1..n
      <3>1. cs[k] = bs[k] /\ (k > 1 => cs[k - 1] = bs[k - 1]) BY <1>1, <2>2
      <3> QED BY <1>4, <2>2, <3>1 DEF AreBlocks, n
    <2> QED BY <1>1, <2>1, <2>2
  <1> QED BY <1>1, <1>2, <1>3, <1>4 DEF cs, n

\* The last line of the blocks is that of the text.
LEMMA BlocksEnd ==
  ASSUME NEW P
  PROVE  \A s \in Texts(P) :
            /\ Blocks(s) \in Seq(Blocked(P))
            /\ Blocks(s) = <<>> <=> s = <<>>
            /\ AreBlocks(Blocks(s))
            /\ s # <<>> => (EndsInTable(Last(Blocks(s))) <=> EndsInTable(s))
  <1> DEFINE Good(s) == /\ Blocks(s) = <<>> <=> s = <<>>
                        /\ AreBlocks(Blocks(s))
                        /\ s # <<>> => (EndsInTable(Last(Blocks(s))) <=> EndsInTable(s))
             T == {s \in Seq(Stout(P)) : Good(s)}
  <1>1. <<>> \in T
    <2>1. Good(<<>>) BY BlocksMore DEF AreBlocks
    <2> HIDE DEF Good
    <2> QED BY <2>1
  <1>2. ASSUME NEW r \in Seq(Stout(P)), NEW l \in Stout(P), r \in T PROVE Append(r, l) \in T
    <2> DEFINE s == Append(r, l)
               bs == Blocks(r)
    <2>1. s \in Seq(Stout(P)) /\ s # <<>> /\ s[Len(s)] = l /\ (r = <<>> <=> Len(r) = 0) OBVIOUS
    <2>2. bs \in Seq(Blocked(P)) /\ Blocks(s) = BlockStep(bs, l) BY BlocksMore
    <2>3. Good(r) BY <1>2
    <2>4. EndsInTable(s) <=> InTable(l) BY <2>1 DEF EndsInTable
    <2> HIDE DEF s
    <2>5. CASE ~(InTable(l) /\ bs # <<>> /\ InTable(Last(Last(bs))))
      <3> DEFINE b == <<l>>
      <3>1. Blocks(s) = Append(bs, b) BY <2>2, <2>5 DEF BlockStep
      <3>2. b \in Blocked(P) /\ b[1] = l /\ IsBlock(b) /\ (EndsInTable(b) <=> InTable(l))
        <4>1. b \in Seq(Stout(P)) /\ b # <<>> /\ b[1] = l /\ Len(b) = 1 OBVIOUS
        <4> HIDE DEF b
        <4>2. \A i \in 1..Len(b) : b[i] = l BY <4>1
        <4>3. b \in Blocked(P) BY <4>1 DEF Blocked, Texts
        <4>4. EndsInTable(b) <=> InTable(l) BY <4>1 DEF EndsInTable
        <4>5. IsBlock(b) BY <4>1, <4>2 DEF IsBlock
        <4> QED BY <4>1, <4>3, <4>4, <4>5
      <3> HIDE DEF b, bs
      <3>3. Last(Append(bs, b)) = b /\ Append(bs, b) # <<>> BY <2>2, <3>2 DEF Last
      <3>4. bs # <<>> => ~(InTable(b[1]) /\ InTable(bs[Len(bs)][1]))
        <4> SUFFICES ASSUME bs # <<>>, InTable(l) PROVE ~InTable(bs[Len(bs)][1]) BY <3>2
        <4>1. Len(bs) \in 1..Len(bs) /\ bs[Len(bs)] \in Blocked(P) BY <2>2
        <4>2. IsBlock(bs[Len(bs)]) BY <2>3, <4>1 DEF AreBlocks, bs
        <4>3. ~InTable(Last(Last(bs))) BY <2>5
        <4> QED BY <4>1, <4>2, <4>3, BlockEnds DEF Last
      <3>5. AreBlocks(Append(bs, b)) BY <2>2, <2>3, <3>2, <3>4, MoreBlocks DEF bs
      <3>6. Good(s) BY <2>1, <2>4, <3>1, <3>2, <3>3, <3>5
      <3> HIDE DEF Good
      <3> QED BY <2>1, <3>6 DEF s
    <2>6. CASE InTable(l) /\ bs # <<>> /\ InTable(Last(Last(bs)))
      <3>a. PICK f \in Seq(Blocked(P)), o \in Blocked(P) : EndsWith(Blocked(P), bs, f, o)
        <4>1. bs \in Seq(Blocked(P)) /\ bs # <<>> BY <2>2, <2>6
        <4> HIDE DEF bs
        <4> QED BY <4>1, FrontAndLast
      <3>0. /\ bs = Append(f, o) /\ o = bs[Len(bs)] /\ o = Last(bs)
            /\ Len(bs) \in Nat \ {0} /\ Len(f) = Len(bs) - 1
            /\ \A y \in Blocked(P) : ReplaceAt(bs, Len(bs), y) = Append(f, y)
        BY <3>a DEF EndsWith
      <3> DEFINE n == Len(bs)
                 b == Append(o, l)
      <3>1. n \in Nat \ {0} /\ Last(bs) = o /\ bs[n] = o BY <3>0
      <3>2. Blocks(s) = ReplaceAt(bs, n, b) BY <2>2, <2>6, <3>1 DEF BlockStep
      <3>3. IsBlock(o) /\ AreBlocks(bs) BY <2>3, <3>1 DEF AreBlocks
      <3> HIDE DEF n
      <3>4. InTable(o[Len(o)]) BY <2>6, <3>1 DEF Last
      <3>5. o \in Seq(Stout(P)) /\ Len(o) \in Nat \ {0} /\ InTable(o[1]) /\ (\A i \in 1..Len(o) : InTable(o[i]))
        <4>1. o \in Texts(P) /\ Len(o) \in Nat \ {0} /\ InTable(o[1]) BY <3>3, <3>4, BlockEnds
        <4> QED BY <3>3, <4>1 DEF IsBlock, Texts
      <3>6. /\ b \in Seq(Stout(P)) /\ b # <<>> /\ Len(b) = Len(o) + 1 /\ b[1] = o[1]
            /\ b[Len(b)] = l /\ \A i \in 1..Len(b) : b[i] = IF i <= Len(o) THEN o[i] ELSE l
        <4>1. b \in Seq(Stout(P)) /\ b # <<>> /\ Len(b) = Len(o) + 1 BY <3>5
        <4>2. \A i \in 1..Len(b) : b[i] = IF i <= Len(o) THEN o[i] ELSE l BY <3>5, <4>1
        <4> HIDE DEF b
        <4> QED BY <3>5, <4>1, <4>2
      <3> HIDE DEF b
      <3>7. b \in Blocked(P) /\ IsBlock(b) /\ EndsInTable(b) /\ InTable(b[1])
        <4>1. \A i \in 1..Len(b) : InTable(b[i]) BY <2>6, <3>5, <3>6
        <4> QED BY <2>6, <3>5, <3>6, <4>1 DEF Blocked, Texts, IsBlock, EndsInTable
      <3>8. ReplaceAt(bs, n, b) = Append(f, b) BY <3>0, <3>7 DEF n
      <3>9. AreBlocks(Append(f, o)) BY <3>0, <3>3
      <3>10. AreBlocks(Append(f, b))
        <4>1. AreBlocks(f) /\ (f # <<>> => ~(InTable(o[1]) /\ InTable(f[Len(f)][1])))
          BY <3>1, <3>9, MoreBlocks
        <4> QED BY <3>1, <3>5, <3>7, <4>1, MoreBlocks
      <3>11. Last(Append(f, b)) = b /\ Append(f, b) # <<>> BY <3>7 DEF Last
      <3>12. Good(s) BY <2>1, <2>4, <2>6, <3>2, <3>7, <3>8, <3>10, <3>11, Zenon
      <3> HIDE DEF Good
      <3> QED BY <2>1, <3>12 DEF s
    <2> QED BY <2>5, <2>6
  <1> HIDE DEF T
  <1>3. \A r \in Seq(Stout(P)), l \in Stout(P) : r \in T => Append(r, l) \in T BY <1>2
  <1>4. \A s \in Seq(Stout(P)) : s \in T BY <1>1, <1>3, OneByOne
  <1>5. \A s \in Texts(P) : Good(s) BY <1>4 DEF T, Texts
  <1>6. \A s \in Texts(P) : Blocks(s) \in Seq(Blocked(P)) BY BlocksMore DEF Texts
  <1> QED BY <1>5, <1>6

\* How blocks go on: a line opens one, or goes on with the table before it.
GoesOn(f, o, l) ==
    /\ InTable(l) /\ EndsInTable(o) => BlockStep(Append(f, o), l) = Append(f, Append(o, l))
    /\ ~(InTable(l) /\ EndsInTable(o)) => BlockStep(Append(f, o), l) = Append(Append(f, o), <<l>>)

LEMMA BlockStepIs ==
  ASSUME NEW P, NEW f \in Seq(Blocked(P)), NEW o \in Blocked(P), NEW l \in Stout(P)
  PROVE  GoesOn(f, o, l) /\ Append(o, l) \in Blocked(P) /\ <<l>> \in Blocked(P)
  <1> DEFINE bs == Append(f, o)
  <1>1. o \in Seq(Stout(P)) /\ o # <<>> BY DEF Blocked, Texts
  <1>2. bs \in Seq(Blocked(P)) /\ bs # <<>> /\ Last(bs) = o BY DEF Last
  <1>3. InTable(Last(Last(bs))) <=> EndsInTable(o) BY <1>1, <1>2 DEF EndsInTable, Last
  <1>4. Append(o, l) \in Blocked(P) /\ <<l>> \in Blocked(P)
    <2> DEFINE b == Append(o, l)
    <2>1. b \in Seq(Stout(P)) /\ Len(b) = Len(o) + 1 /\ Len(o) \in Nat BY <1>1
    <2> HIDE DEF b
    <2>2. b # <<>> BY <2>1
    <2>3. <<l>> \in Seq(Stout(P)) /\ <<l>> # <<>> OBVIOUS
    <2> QED BY <2>1, <2>2, <2>3 DEF Blocked, Texts, b
  <1>5. ReplaceAt(bs, Len(bs), Append(o, l)) = Append(f, Append(o, l))
    <2>0. PICK g \in Seq(Blocked(P)), q \in Blocked(P) : EndsWith(Blocked(P), bs, g, q)
      <3> HIDE DEF bs
      <3> QED BY <1>2, FrontAndLast
    <2>1. /\ bs = Append(g, q) /\ Len(g) = Len(bs) - 1
          /\ \A y \in Blocked(P) : ReplaceAt(bs, Len(bs), y) = Append(g, y)
      BY <2>0 DEF EndsWith
    <2>2. g = f
      <3>1. Len(g) = Len(f) /\ Len(f) \in Nat BY <2>1
      <3>2. \A i \in 1..Len(f) : Append(g, q)[i] = g[i] /\ Append(f, o)[i] = f[i] BY <3>1
      <3>3. \A i \in 1..Len(f) : g[i] = f[i] BY <2>1, <3>2, Zenon
      <3> QED BY <3>1, <3>3
    <2> HIDE DEF bs
    <2> QED BY <1>4, <2>1, <2>2, Zenon
  <1> HIDE DEF bs
  <1>7. ASSUME InTable(l), EndsInTable(o) PROVE BlockStep(bs, l) = Append(f, Append(o, l))
    BY <1>2, <1>3, <1>5, <1>7, Zenon DEF BlockStep
  <1>8. ASSUME ~(InTable(l) /\ EndsInTable(o)) PROVE BlockStep(bs, l) = Append(bs, <<l>>)
    BY <1>2, <1>3, <1>8, Zenon DEF BlockStep
  <1>9. GoesOn(f, o, l) BY <1>7, <1>8, Zenon DEF bs, GoesOn
  <1> QED BY <1>4, <1>9

\* A block after a text that is not the same table is its next block.
LEMMA BlocksOfBoth ==
  ASSUME NEW P, NEW t \in Texts(P), NEW b \in Blocked(P), IsBlock(b),
         ~(InTable(b[1]) /\ EndsInTable(t))
  PROVE  Blocks(t \o b) = Append(Blocks(t), b) /\ t \o b \in Texts(P)
  <1> DEFINE bs == Blocks(t)
  <1>1. bs \in Seq(Blocked(P)) /\ t \in Seq(Stout(P)) BY BlocksEnd DEF Texts
  <1>2. Len(b) \in Nat \ {0} /\ b \in Seq(Stout(P)) /\ b # <<>> /\ b[1] \in Stout(P)
        /\ (~InTable(b[1]) => b = <<b[1]>>)
    BY BlockEnds DEF Texts
  <1>3. ASSUME NEW l \in Stout(P), ~(InTable(l) /\ EndsInTable(t))
        PROVE  Blocks(Append(t, l)) = Append(bs, <<l>>)
    <2>1. Blocks(Append(t, l)) = BlockStep(bs, l) BY <1>1, BlocksMore
    <2>2. CASE bs = <<>>
      <3>1. Append(bs, <<l>>) = <<<<l>>>> BY <2>2
      <3> HIDE DEF bs
      <3> QED BY <2>1, <2>2, <3>1 DEF BlockStep
    <2>3. CASE bs # <<>>
      <3>1. t # <<>> /\ (EndsInTable(Last(bs)) <=> EndsInTable(t)) BY <2>3, BlocksEnd
      <3> HIDE DEF bs
      <3>a. PICK f \in Seq(Blocked(P)), o \in Blocked(P) : EndsWith(Blocked(P), bs, f, o)
        BY <1>1, <2>3, FrontAndLast
      <3>2. bs = Append(f, o) /\ o = Last(bs) BY <3>a DEF EndsWith
      <3>b. GoesOn(f, o, l) BY BlockStepIs
      <3>3. ~(InTable(l) /\ EndsInTable(o)) BY <1>3, <3>1, <3>2
      <3>4. BlockStep(Append(f, o), l) = Append(Append(f, o), <<l>>) BY <3>3, <3>b, Zenon DEF GoesOn
      <3> QED BY <2>1, <3>2, <3>4, Zenon
    <2> QED BY <2>2, <2>3
  <1> HIDE DEF bs
  <1>4. CASE ~InTable(b[1])
    <2> DEFINE l == b[1]
    <2>1. l \in Stout(P) /\ b = <<l>> BY <1>2, <1>4
    <2> HIDE DEF l
    <2>2. t \o <<l>> = Append(t, l) /\ Append(t, l) \in Seq(Stout(P)) BY <1>1, <2>1
    <2>3. Blocks(Append(t, l)) = Append(bs, <<l>>) BY <1>3, <1>4, <2>1 DEF l
    <2> QED BY <2>1, <2>2, <2>3, Zenon DEF bs, Texts
  <1>5. CASE InTable(b[1])
    <2> DEFINE Good(r) == r # <<>> /\ (\A i \in 1..Len(r) : InTable(r[i])) =>
                             Blocks(t \o r) = Append(bs, r)
               T == {r \in Seq(Stout(P)) : Good(r)}
    <2>1. <<>> \in T OBVIOUS
    <2>2. ASSUME NEW r \in Seq(Stout(P)), NEW l \in Stout(P), r \in T PROVE Append(r, l) \in T
      <3> DEFINE s == Append(r, l)
      <3>1. /\ s \in Seq(Stout(P)) /\ s # <<>> /\ Len(s) = Len(r) + 1 /\ Len(r) \in Nat
            /\ s[Len(s)] = l /\ (r # <<>> <=> Len(r) > 0) /\ \A i \in 1..Len(r) : s[i] = r[i]
        OBVIOUS
      <3> HIDE DEF s
      <3> SUFFICES ASSUME \A i \in 1..Len(s) : InTable(s[i]) PROVE Blocks(t \o s) = Append(bs, s)
        <4>1. Good(s) OBVIOUS
        <4> HIDE DEF Good
        <4> QED BY <3>1, <4>1 DEF s
      <3>2. InTable(l)
        <4>1. Len(s) \in 1..Len(s) BY <3>1
        <4> QED BY <3>1, <4>1
      <3>3. CASE r = <<>>
        <4>1. s = <<l>> /\ t \o <<l>> = Append(t, l) BY <1>1, <3>3 DEF s
        <4>2. ~EndsInTable(t) BY <1>5
        <4>3. Blocks(Append(t, l)) = Append(bs, <<l>>) BY <1>3, <4>2
        <4> QED BY <4>1, <4>3, Zenon
      <3>4. CASE r # <<>>
        <4>1. \A i \in 1..Len(r) : InTable(r[i])
          <5>1. \A i \in 1..Len(r) : i \in 1..Len(s) BY <3>1
          <5> QED BY <3>1, <5>1
        <4>2. Blocks(t \o r) = Append(bs, r)
          <5>1. Good(r) BY <2>2
          <5> HIDE DEF T
          <5> QED BY <3>4, <4>1, <5>1
        <4>3. t \o s = Append(t \o r, l) /\ t \o r \in Seq(Stout(P)) BY <1>1 DEF s
        <4>4. EndsInTable(r) BY <3>1, <3>4, <4>1 DEF EndsInTable
        <4>5. r \in Blocked(P) BY <3>4 DEF Blocked, Texts
        <4>6. Blocks(Append(t \o r, l)) = BlockStep(Blocks(t \o r), l) BY <4>3, BlocksMore
        <4>7. BlockStep(Append(bs, r), l) = Append(bs, Append(r, l))
          <5>1. GoesOn(bs, r, l) BY <1>1, <4>5, BlockStepIs
          <5> QED BY <3>2, <4>4, <5>1, Zenon DEF GoesOn
        <4> QED BY <4>2, <4>3, <4>6, <4>7, Zenon DEF s
      <3> QED BY <3>3, <3>4
    <2> HIDE DEF T
    <2>3. \A r \in Seq(Stout(P)), l \in Stout(P) : r \in T => Append(r, l) \in T BY <2>2
    <2>4. \A r \in Seq(Stout(P)) : r \in T BY <2>1, <2>3, OneByOne
    <2>5. Good(b) BY <1>2, <2>4 DEF T
    <2>6. \A i \in 1..Len(b) : InTable(b[i])
      <3>1. CASE Len(b) = 1 /\ ~InTable(b[1]) BY <1>5, <3>1
      <3>2. CASE \A i \in 1..Len(b) : InTable(b[i]) BY <3>2
      <3> QED BY <3>1, <3>2 DEF IsBlock
    <2>7. Blocks(t \o b) = Append(bs, b) BY <1>2, <2>5, <2>6
    <2>8. t \o b \in Seq(Stout(P)) BY <1>1, <1>2
    <2> QED BY <2>7, <2>8 DEF bs, Texts
  <1> QED BY <1>4, <1>5

\* A block by itself.
LEMMA BlocksOfOne ==
  ASSUME NEW P, NEW b \in Blocked(P), IsBlock(b)
  PROVE  Blocks(b) = <<b>>
  <1> DEFINE none == <<>>
  <1>1. none \in Texts(P) /\ none \o b = b /\ Append(none, b) = <<b>> /\ ~EndsInTable(none)
    BY DEF Texts, EndsInTable, Blocked
  <1>2. Blocks(none) = none BY BlocksMore
  <1> HIDE DEF none
  <1>3. Blocks(none \o b) = Append(Blocks(none), b) BY <1>1, BlocksOfBoth
  <1> QED BY <1>1, <1>2, <1>3, Zenon

\* What the blocks weigh together.
Weights(P) == [b \in Blocked(P) |-> [n \in Int |-> n + Weight(b)]]
Burden(P, bs) == RunOf(Int, Weights(P), 0, bs)

LEMMA BurdenMore ==
  ASSUME NEW P
  PROVE  /\ Burden(P, <<>>) = 0
         /\ \A bs \in Seq(Blocked(P)), b \in Blocked(P) :
               /\ Burden(P, bs) \in Int /\ Weight(b) \in Int
               /\ Burden(P, Append(bs, b)) = Burden(P, bs) + Weight(b)
  <1> DEFINE X == Blocked(P)
             S == Int
             G == Weights(P)
             none == <<>>
  <1>1. \A b \in X : Weight(b) \in Int BY WeightOf DEF Blocked
  <1> HIDE DEF X
  <1>2. G = [b \in X |-> [n \in S |-> n + Weight(b)]] BY DEF Weights, X
  <1>3. G \in [X -> [S -> S]] BY <1>1, <1>2
  <1> HIDE DEF G
  <1>4. 0 \in S OBVIOUS
  <1>5. none \in Seq(X) /\ none = <<>> OBVIOUS
  <1> HIDE DEF S, none
  <1>6. /\ \A s \in Seq(X) : s = <<>> => RunOf(S, G, 0, s) = 0
        /\ \A s \in Seq(X), x \in X : /\ RunOf(S, G, 0, s) \in S
                                      /\ RunOf(S, G, 0, Append(s, x)) = G[x][RunOf(S, G, 0, s)]
    BY <1>3, <1>4, RunMore
  <1>7. RunOf(S, G, 0, <<>>) = 0 BY <1>5, <1>6, Zenon
  <1>8. ASSUME NEW s \in Seq(X), NEW x \in X
        PROVE  RunOf(S, G, 0, s) \in S /\ RunOf(S, G, 0, Append(s, x)) = RunOf(S, G, 0, s) + Weight(x)
    <2>1. \A n \in S : G[x][n] = n + Weight(x) BY <1>2
    <2> QED BY <1>6, <2>1
  <1> QED BY <1>1, <1>7, <1>8, Zenon DEF Burden, G, S, X

\* The blocks of a text weigh what it weighs.
LEMMA BlocksWeigh ==
  ASSUME NEW P
  PROVE  \A s \in Texts(P) : Burden(P, Blocks(s)) = Weight(s)
  <1> DEFINE T == {s \in Seq(Stout(P)) : Burden(P, Blocks(s)) = Weight(s)}
             none == <<>>
  <1>0. \A s \in Seq(Stout(P)) : s \in Seq(LinesOn(P)) BY StoutIs DEF Texts
  <1>1. none \in T
    <2>1. Blocks(none) = none /\ Burden(P, none) = 0 /\ Weight(none) = 0
      BY BlocksMore, BurdenMore, WeightMore
    <2>2. none \in Seq(Stout(P)) OBVIOUS
    <2> HIDE DEF none
    <2> QED BY <2>1, <2>2
  <1>2. ASSUME NEW r \in Seq(Stout(P)), NEW l \in Stout(P), r \in T PROVE Append(r, l) \in T
    <2> DEFINE s == Append(r, l)
               bs == Blocks(r)
    <2>1. s \in Seq(Stout(P)) OBVIOUS
    <2>2. /\ bs \in Seq(Blocked(P)) /\ Blocks(s) = BlockStep(bs, l) /\ l \in LinesOn(P)
          /\ r \in Seq(LinesOn(P))
      BY <1>0, BlocksMore, StoutIs
    <2>3. Weight(s) = Weight(r) + LineLen(l) + 1 /\ Weight(r) \in Int /\ LineLen(l) \in Int
      BY <2>2, WeightMore
    <2>4. Burden(P, bs) = Weight(r) BY <1>2
    <2> HIDE DEF s, bs
    <2>5. ASSUME Blocks(s) = Append(bs, <<l>>) PROVE Burden(P, Blocks(s)) = Weight(s)
      <3>1. <<l>> \in Blocked(P) BY DEF Blocked, Texts
      <3>2. Weight(<<l>>) = LineLen(l) + 1 BY <2>2, OneLine
      <3>3. Burden(P, Append(bs, <<l>>)) = Burden(P, bs) + Weight(<<l>>) BY <2>2, <3>1, BurdenMore
      <3> QED BY <2>3, <2>4, <2>5, <3>2, <3>3
    <2>6. ASSUME bs = <<>> PROVE Burden(P, Blocks(s)) = Weight(s)
      <3>1. BlockStep(<<>>, l) = Append(<<>>, <<l>>) BY DEF BlockStep
      <3> QED BY <2>2, <2>5, <2>6, <3>1, Zenon
    <2>7. ASSUME bs # <<>> PROVE Burden(P, Blocks(s)) = Weight(s)
      <3>a. PICK f \in Seq(Blocked(P)), o \in Blocked(P) : EndsWith(Blocked(P), bs, f, o)
        BY <2>2, <2>7, FrontAndLast
      <3>1. bs = Append(f, o) BY <3>a DEF EndsWith
      <3>b. GoesOn(f, o, l) /\ Append(o, l) \in Blocked(P) BY BlockStepIs
      <3>2. CASE ~(InTable(l) /\ EndsInTable(o))
        <4>1. BlockStep(Append(f, o), l) = Append(Append(f, o), <<l>>) BY <3>2, <3>b, Zenon DEF GoesOn
        <4> QED BY <2>2, <2>5, <3>1, <4>1, Zenon
      <3>3. CASE InTable(l) /\ EndsInTable(o)
        <4>1. BlockStep(Append(f, o), l) = Append(f, Append(o, l)) /\ Append(o, l) \in Blocked(P)
          BY <3>3, <3>b, Zenon DEF GoesOn
        <4>2. o \in Seq(LinesOn(P)) BY <1>0 DEF Blocked, Texts
        <4>3. Weight(Append(o, l)) = Weight(o) + LineLen(l) + 1 /\ Weight(o) \in Int
          BY <2>2, <4>2, WeightMore
        <4>4. /\ Burden(P, Append(f, o)) = Burden(P, f) + Weight(o) /\ Burden(P, f) \in Int
              /\ Burden(P, Append(f, Append(o, l))) = Burden(P, f) + Weight(Append(o, l))
          BY <4>1, BurdenMore
        <4>5. Blocks(s) = Append(f, Append(o, l)) BY <2>2, <3>1, <4>1, Zenon
        <4>6. Burden(P, Append(f, o)) = Weight(r) BY <2>4, <3>1
        <4>7. Burden(P, Append(f, Append(o, l))) = Weight(s) BY <2>3, <4>3, <4>4, <4>6
        <4> QED BY <4>5, <4>7
      <3> QED BY <3>2, <3>3
    <2> QED BY <2>1, <2>6, <2>7 DEF s
  <1> HIDE DEF T
  <1>3. \A r \in Seq(Stout(P)), l \in Stout(P) : r \in T => Append(r, l) \in T BY <1>2
  <1>4. \A s \in Seq(Stout(P)) : s \in T BY <1>1, <1>3, OneByOne
  <1> QED BY <1>4 DEF T, Texts

\* The rows of a large table, collected under its header.
RowStart(h) == [chunks |-> <<>>, cur |-> <<>>, size |-> Length(h) + 1]
RowFlush(h, a) == [RowStart(h) EXCEPT !.chunks = Append(a.chunks, h \o a.cur)]
RowStep(h, a, l, max) ==
    Collect(IF a.size + LineLen(l) + 1 > max /\ a.cur # <<>> THEN RowFlush(h, a) ELSE a,
            <<l>>, LineLen(l) + 1)
Rows(h, data, max) == Fold(LAMBDA a, l : RowStep(h, a, l, max), RowStart(h), data)

SplitOf(h, a) == IF a.cur = <<>> THEN a.chunks ELSE RowFlush(h, a).chunks

\* The pieces of a long line.
PieceStep(a, p, max) == Collect(MakeRoom(a, LineLen(p), max), <<p>>, LineLen(p) + 1)

\* The blocks of a text.
StructStep(a, b, max) ==
    CASE b[1].kind = "heading" /\ a.cur # <<>> ->
           Collect(Flush(a), b, LineLen(b[1]) + 1)
      [] LargeTable(b, max) ->
           [Flush(a) EXCEPT !.chunks = @ \o SubTables(b, max)]
      [] InTable(b[1]) /\ ~LargeTable(b, max) ->
           Collect(MakeRoom(a, Length(b), max), b, Length(b))
      [] b[1].kind = "plain" /\ LineLen(b[1]) + 1 > max ->
           Spread(MakeRoom(a, LineLen(b[1]) + 1, max), Pieces(b[1], max), max)
      [] OTHER -> Collect(MakeRoom(a, LineLen(b[1]) + 1, max), b, LineLen(b[1]) + 1)
Struct(bs, max) == Fold(LAMBDA a, b : StructStep(a, b, max), Empty, bs)

\* The lines of a text, whatever they are.
LineStep(a, l, max) ==
    IF LineLen(l) + 1 > max
    THEN LET b == Flush(a)
         IN  At(Pieces(l, max), LAMBDA ps : [b EXCEPT !.chunks = @ \o [i \in DOMAIN ps |-> <<ps[i]>>]])
    ELSE Collect(MakeRoom(a, LineLen(l) + 1, max), <<l>>, LineLen(l) + 1)
Lined(text, max) == Fold(LAMBDA a, l : LineStep(a, l, max), Empty, text)

LEMMA StartIs ==
  ASSUME NEW P, NEW h \in Texts(P)
  PROVE  /\ RowStart(h) \in Gath(P) /\ RowStart(h).chunks = <<>> /\ RowStart(h).cur = <<>>
         /\ RowStart(h).size = Length(h) + 1
  <1> DEFINE none == <<>>
  <1>1. Length(h) + 1 \in Int BY WeightOf
  <1>2. none \in Seq(Blocked(P)) /\ none \in Texts(P) BY DEF Texts
  <1> HIDE DEF none
  <1>3. [chunks |-> none, cur |-> none, size |-> Length(h) + 1] \in Gath(P) BY <1>1, <1>2, GathIs
  <1> QED BY <1>3 DEF RowStart, none

\* A flush makes a table of the header and the rows collected.
LEMMA RowFlushIs ==
  ASSUME NEW P, NEW h \in Texts(P), NEW a \in Gath(P), a.cur # <<>>
  PROVE  /\ RowFlush(h, a) \in Gath(P) /\ h \o a.cur \in Blocked(P)
         /\ RowFlush(h, a).chunks = Append(a.chunks, h \o a.cur)
         /\ RowFlush(h, a).cur = <<>> /\ RowFlush(h, a).size = Length(h) + 1
  <1> DEFINE c == h \o a.cur
             cs == Append(a.chunks, c)
             st == RowStart(h)
  <1>1. c \in Blocked(P)
    <2>1. h \in Seq(Stout(P)) /\ a.cur \in Seq(Stout(P)) /\ a.cur # <<>> BY DEF Gath, Texts
    <2>2. c \in Seq(Stout(P)) /\ Len(c) = Len(h) + Len(a.cur) /\ Len(h) \in Nat /\ Len(a.cur) \in Nat
          /\ Len(a.cur) # 0
      BY <2>1
    <2> HIDE DEF c
    <2>3. c # <<>> BY <2>2
    <2> QED BY <2>2, <2>3 DEF Blocked, Texts
  <1>2. a.chunks \in Seq(Blocked(P)) BY DEF Gath
  <1> HIDE DEF c
  <1>3. cs \in Seq(Blocked(P)) BY <1>1, <1>2
  <1>4. st \in Gath(P) /\ st.cur = <<>> /\ st.size = Length(h) + 1 BY StartIs
  <1> HIDE DEF cs, st
  <1>5. RowFlush(h, a) = [st EXCEPT !.chunks = cs] BY DEF RowFlush, cs, c, st
  <1>6. [st EXCEPT !.chunks = cs] \in Gath(P) BY <1>3, <1>4 DEF Gath
  <1>7. /\ [st EXCEPT !.chunks = cs].chunks = cs /\ [st EXCEPT !.chunks = cs].cur = st.cur
        /\ [st EXCEPT !.chunks = cs].size = st.size
    BY <1>4 DEF Gath
  <1> QED BY <1>1, <1>4, <1>5, <1>6, <1>7, Zenon DEF cs, c

LEMMA OneOf ==
  ASSUME NEW P, NEW l \in Stout(P)
  PROVE  <<l>> \in Texts(P) /\ <<l>> \in Blocked(P) /\ LineLen(l) \in Int /\ LineLen(l) + 1 \in Int
  <1>1. LineLen(l) \in Int BY StoutIs
  <1>2. <<l>> \in Seq(Stout(P)) /\ <<l>> # <<>> OBVIOUS
  <1> QED BY <1>1, <1>2 DEF Texts, Blocked

\* Rows, one by one.
LEMMA RowsMore ==
  ASSUME NEW P, NEW h \in Texts(P), NEW max \in Int
  PROVE  /\ Rows(h, <<>>, max) = RowStart(h)
         /\ \A s \in Seq(Stout(P)), l \in Stout(P) :
               /\ Rows(h, s, max) \in Gath(P)
               /\ Rows(h, Append(s, l), max) = RowStep(h, Rows(h, s, max), l, max)
  <1> DEFINE S == Gath(P)
             X == Stout(P)
             base == RowStart(h)
             op(a, l) == RowStep(h, a, l, max)
             G == [l \in X |-> [a \in S |-> op(a, l)]]
  <1>1. base \in S BY StartIs
  <1>2. \A a \in S, l \in X : op(a, l) \in S 
    <2> SUFFICES ASSUME NEW a \in Gath(P), NEW l \in Stout(P)
                 PROVE  RowStep(h, a, l, max) \in Gath(P)
      OBVIOUS
    <2> HIDE DEF S, X, op, G
    <2> DEFINE c == IF a.size + LineLen(l) + 1 > max /\ a.cur # <<>> THEN RowFlush(h, a) ELSE a
    <2>1. c \in Gath(P) BY RowFlushIs
    <2>2. RowStep(h, a, l, max) = Collect(c, <<l>>, LineLen(l) + 1) BY DEF RowStep
    <2> HIDE DEF c
    <2>3. <<l>> \in Texts(P) /\ LineLen(l) + 1 \in Int BY OneOf
    <2>4. Collect(c, <<l>>, LineLen(l) + 1) \in Gath(P) BY <2>1, <2>3, CollectIs
    <2> QED BY <2>2, <2>4
  <1>3. ASSUME NEW s \in Seq(X) PROVE Rows(h, s, max) = RunOf(S, G, base, s)
    <2> DEFINE n == Len(s)
               H == [i \in 1..n |-> [a \in S |-> op(a, s[i])]]
               E(g) == [i \in 0..n |->
                          IF i = 0 THEN base ELSE At(g[i - 1], LAMBDA a : op(a, s[i]))]
               f == CHOOSE g : g = E(g)
    <2>1. n \in Nat /\ \A i \in 1..n : s[i] \in X
      <3> HIDE DEF X
      <3> QED OBVIOUS
    <2>2. Rows(h, s, max) = f[n] BY DEF Rows, Fold
    <2> HIDE DEF op, S, X, n, base
    <2>3. PICK k \in [0..n -> S] : Solves(k, n, base, H)
      <3>1. H \in [1..n -> [S -> S]] BY <1>2, <2>1
      <3> HIDE DEF H
      <3> QED BY <1>1, <2>1, <3>1, Recursion
    <2>4. \A g, i : At(g[i - 1], LAMBDA a : op(a, s[i])) = op(g[i - 1], s[i])
      BY Zenon DEF At
    <2>5. k = E(k)
      <3> SUFFICES ASSUME NEW i \in 0..n, i # 0 PROVE k[i] = op(k[i - 1], s[i])
        BY <2>3, <2>4 DEF Solves
      <3>1. i \in 1..n /\ k[i - 1] \in S BY <2>1
      <3> QED BY <2>3, <3>1 DEF Solves
    <2> HIDE DEF E
    <2>6. f = E(f) BY <2>5, Zenon
    <2> HIDE DEF f
    <2>7. \A i \in 0..n : f[i] = IF i = 0 THEN base ELSE op(f[i - 1], s[i]) BY <2>4, <2>6 DEF E
    <2>8. f[0] = base /\ \A i \in 1..n : f[i - 1] \in S => f[i] = G[s[i]][f[i - 1]]
      <3>1. 0 \in 0..n /\ \A i \in 1..n : i \in 0..n /\ i # 0 /\ s[i] \in X BY <2>1
      <3> QED BY <2>7, <3>1
    <2>9. G \in [X -> [S -> S]] BY <1>2
    <2> HIDE DEF G
    <2> QED BY <1>1, <2>2, <2>8, <2>9, RunIsOne DEF n
  <1> HIDE DEF op, S, X, base
  <1>4. G \in [X -> [S -> S]] BY <1>2
  <1>5. \A a \in S, l \in X : G[l][a] = op(a, l) OBVIOUS
  <1> HIDE DEF G
  <1>6. /\ \A s \in Seq(X) : s = <<>> => RunOf(S, G, base, s) = base
        /\ \A s \in Seq(X), l \in X :
              /\ RunOf(S, G, base, s) \in S
              /\ RunOf(S, G, base, Append(s, l)) = G[l][RunOf(S, G, base, s)]
    BY <1>1, <1>4, RunMore
  <1>7. Rows(h, <<>>, max) = base
    <2>1. <<>> \in Seq(X) OBVIOUS
    <2> QED BY <1>3, <1>6, <2>1, Zenon
  <1>8. ASSUME NEW s \in Seq(X), NEW l \in X
        PROVE  Rows(h, s, max) \in S /\ Rows(h, Append(s, l), max) = op(Rows(h, s, max), l)
    <2>1. Append(s, l) \in Seq(X) OBVIOUS
    <2>2. /\ Rows(h, s, max) = RunOf(S, G, base, s)
          /\ Rows(h, Append(s, l), max) = RunOf(S, G, base, Append(s, l))
      BY <1>3, <2>1, Zenon
    <2>3. Rows(h, s, max) \in S /\ Rows(h, Append(s, l), max) = G[l][Rows(h, s, max)]
      BY <1>6, <2>2, Zenon
    <2> QED BY <1>5, <2>3, Zenon
  <1> QED BY <1>7, <1>8, Zenon DEF op, S, X, base

LEMMA SplitAt ==
  ASSUME NEW X, NEW s \in Seq(X), NEW m \in 1..Len(s)
  PROVE  s = SubSeq(s, 1, m) \o SubSeq(s, m + 1, Len(s))
  <1> DEFINE h == SubSeq(s, 1, m)
             d == SubSeq(s, m + 1, Len(s))
             t == h \o d
             n == Len(s)
  <1>1. n \in Nat /\ m \in 1..n OBVIOUS
  <1>2. h \in Seq(X) /\ Len(h) = m /\ \A i \in 1..m : h[i] = s[i] BY <1>1
  <1>3. d \in Seq(X) /\ Len(d) = n - m
    <2>1. \A i \in (m + 1)..n : s[i] \in X BY <1>1
    <2> QED BY <1>1, <2>1
  <1>4. \A i \in 1..(n - m) : d[i] = s[m + i]
    <2> SUFFICES ASSUME NEW i \in 1..(n - m) PROVE d[i] = s[m + i] OBVIOUS
    <2>1. (m + 1) + i - 1 = m + i BY <1>1
    <2>2. d[i] = s[(m + 1) + i - 1] BY <1>1
    <2> QED BY <2>1, <2>2
  <1> HIDE DEF h, d
  <1>5. t \in Seq(X) /\ Len(t) = n BY <1>1, <1>2, <1>3
  <1>6. \A i \in 1..n : t[i] = s[i]
    <2> SUFFICES ASSUME NEW i \in 1..n PROVE t[i] = s[i] OBVIOUS
    <2>1. CASE i <= m
      <3>1. t[i] = h[i] /\ i \in 1..m BY <1>1, <1>2, <1>3, <2>1
      <3> HIDE DEF t
      <3> QED BY <1>2, <3>1
    <2>2. CASE i > m
      <3>1. t[i] = d[i - m] /\ i - m \in 1..(n - m) /\ m + (i - m) = i
        BY <1>1, <1>2, <1>3, <2>2
      <3> HIDE DEF t
      <3> QED BY <1>4, <3>1
    <2>3. i <= m \/ i > m
      <3> HIDE DEF t
      <3> QED BY <1>1
    <2> HIDE DEF t, n
    <2> QED BY <2>1, <2>2, <2>3
  <1> HIDE DEF t, n
  <1>7. t = s BY <1>5, <1>6 DEF n
  <1> QED BY <1>7 DEF t, h, d

\* How a table is split.
TableSplit(P, table, max, h, data) ==
    /\ h \in Texts(P) /\ data \in Texts(P) /\ h # <<>> /\ table = h \o data
    /\ Len(h) = HeaderLen(table) /\ Rows(h, data, max) \in Gath(P)
    /\ SubTables(table, max) = SplitOf(h, Rows(h, data, max))
    /\ SubTables(table, max) \in Seq(Blocked(P))

\* A large table becomes what its rows are split into under its header.
LEMMA SubTablesAre ==
  ASSUME NEW P, NEW table \in Blocked(P), NEW max \in Int,
         NEW h, NEW data, h = SubSeq(table, 1, HeaderLen(table)),
         data = SubSeq(table, HeaderLen(table) + 1, Len(table))
  PROVE  TableSplit(P, table, max, h, data)
  <1>1. HeaderLen(table) \in 1..Len(table) /\ table \in Seq(Stout(P)) /\ Len(table) \in Nat
    <2>1. table \in Texts(P) /\ table # <<>> BY DEF Blocked
    <2>2. table \in Seq(LinesOn(P)) BY <2>1, StoutIs
    <2> QED BY <2>1, <2>2, HeaderLenOf DEF Full, Texts
  <1>2. h \in Seq(Stout(P)) /\ data \in Seq(Stout(P)) /\ Len(h) = HeaderLen(table) BY <1>1
  <1>3. h # <<>> BY <1>1, <1>2
  <1>4. table = h \o data BY <1>1, SplitAt
  <1>5. h \in Texts(P) /\ data \in Texts(P) BY <1>2 DEF Texts
  <1> DEFINE r == Rows(h, data, max)
             start  == [chunks |-> <<>>, cur |-> <<>>, size |-> Length(h) + 1]
             flush(a) == [start EXCEPT !.chunks = Append(a.chunks, h \o a.cur)]
             F(a) == IF a.cur = <<>> THEN a.chunks ELSE flush(a).chunks
  <1>6. r \in Gath(P)
    <2>1. data \in Seq(Stout(P)) BY <1>2
    <2>2. \A s \in Seq(Stout(P)), l \in Stout(P) : Rows(h, s, max) \in Gath(P)
      BY <1>5, RowsMore
    <2>3. Rows(h, <<>>, max) \in Gath(P) BY <1>5, RowsMore, StartIs
    <2>4. CASE data = <<>> BY <2>3, <2>4
    <2>5. CASE data # <<>>
      <3>1. data[1] \in Stout(P) BY <2>1, <2>5
      <3> QED BY <2>1, <2>2, <3>1
    <2> QED BY <2>4, <2>5
  <1>7. SubTables(table, max) = At(r, F)
    BY DEF SubTables, Rows, RowStart, RowFlush, RowStep
  <1>8. \A a : flush(a) = RowFlush(h, a) BY DEF RowFlush, RowStart
  <1> HIDE DEF r, flush
  <1>9. SubTables(table, max) = F(r) BY <1>7, Zenon DEF At
  <1>10. F(r) = IF r.cur = <<>> THEN r.chunks ELSE RowFlush(h, r).chunks BY <1>8
  <1>11. F(r) \in Seq(Blocked(P))
    <2>1. r.chunks \in Seq(Blocked(P)) BY <1>6 DEF Gath
    <2>2. ASSUME r.cur # <<>> PROVE RowFlush(h, r).chunks \in Seq(Blocked(P))
      <3>1. RowFlush(h, r) \in Gath(P) BY <1>5, <1>6, <2>2, RowFlushIs
      <3> QED BY <3>1 DEF Gath
    <2> QED BY <1>10, <2>1, <2>2
  <1> QED BY <1>2, <1>3, <1>4, <1>5, <1>6, <1>9, <1>10, <1>11, Zenon DEF r, SplitOf, TableSplit

\* Pieces, one by one.
LEMMA SpreadMore ==
  ASSUME NEW P, NEW c \in Gath(P), NEW max \in Int
  PROVE  /\ Spread(c, <<>>, max) = c
         /\ \A s \in Seq(Stout(P)), p \in Stout(P) :
               /\ Spread(c, s, max) \in Gath(P)
               /\ Spread(c, Append(s, p), max) = PieceStep(Spread(c, s, max), p, max)
  <1> DEFINE S == Gath(P)
             X == Stout(P)
             base == c
             op(a, p) == PieceStep(a, p, max)
             G == [p \in X |-> [a \in S |-> op(a, p)]]
  <1>1. base \in S OBVIOUS
  <1>2. \A a \in S, p \in X : op(a, p) \in S 
    <2> SUFFICES ASSUME NEW a \in Gath(P), NEW p \in Stout(P)
                 PROVE  PieceStep(a, p, max) \in Gath(P)
      OBVIOUS
    <2> HIDE DEF S, X, op, G
    <2>1. <<p>> \in Texts(P) /\ LineLen(p) \in Int /\ LineLen(p) + 1 \in Int BY OneOf
    <2>2. MakeRoom(a, LineLen(p), max) \in Gath(P) BY <2>1, MakeRoomIs
    <2> QED BY <2>1, <2>2, CollectIs DEF PieceStep
  <1>3. ASSUME NEW s \in Seq(X) PROVE Spread(c, s, max) = RunOf(S, G, base, s)
    <2> DEFINE n == Len(s)
               H == [i \in 1..n |-> [a \in S |-> op(a, s[i])]]
               E(g) == [i \in 0..n |->
                          IF i = 0 THEN base ELSE At(g[i - 1], LAMBDA a : op(a, s[i]))]
               f == CHOOSE g : g = E(g)
    <2>1. n \in Nat /\ \A i \in 1..n : s[i] \in X
      <3> HIDE DEF X
      <3> QED OBVIOUS
    <2>2. Spread(c, s, max) = f[n] BY DEF Spread, Fold, PieceStep
    <2> HIDE DEF op, S, X, n, base
    <2>3. PICK h \in [0..n -> S] : Solves(h, n, base, H)
      <3>1. H \in [1..n -> [S -> S]] BY <1>2, <2>1
      <3> HIDE DEF H
      <3> QED BY <1>1, <2>1, <3>1, Recursion
    <2>4. \A g, i : At(g[i - 1], LAMBDA a : op(a, s[i])) = op(g[i - 1], s[i])
      BY Zenon DEF At
    <2>5. h = E(h)
      <3> SUFFICES ASSUME NEW i \in 0..n, i # 0 PROVE h[i] = op(h[i - 1], s[i])
        BY <2>3, <2>4 DEF Solves
      <3>1. i \in 1..n /\ h[i - 1] \in S BY <2>1
      <3> QED BY <2>3, <3>1 DEF Solves
    <2> HIDE DEF E
    <2>6. f = E(f) BY <2>5, Zenon
    <2> HIDE DEF f
    <2>7. \A i \in 0..n : f[i] = IF i = 0 THEN base ELSE op(f[i - 1], s[i]) BY <2>4, <2>6 DEF E
    <2>8. f[0] = base /\ \A i \in 1..n : f[i - 1] \in S => f[i] = G[s[i]][f[i - 1]]
      <3>1. 0 \in 0..n /\ \A i \in 1..n : i \in 0..n /\ i # 0 /\ s[i] \in X BY <2>1
      <3> QED BY <2>7, <3>1
    <2>9. G \in [X -> [S -> S]] BY <1>2
    <2> HIDE DEF G
    <2> QED BY <1>1, <2>2, <2>8, <2>9, RunIsOne DEF n
  <1> HIDE DEF op, S, X, base
  <1>4. G \in [X -> [S -> S]] BY <1>2
  <1>5. \A a \in S, p \in X : G[p][a] = op(a, p) OBVIOUS
  <1> HIDE DEF G
  <1>6. /\ \A s \in Seq(X) : s = <<>> => RunOf(S, G, base, s) = base
        /\ \A s \in Seq(X), p \in X :
              /\ RunOf(S, G, base, s) \in S
              /\ RunOf(S, G, base, Append(s, p)) = G[p][RunOf(S, G, base, s)]
    BY <1>1, <1>4, RunMore
  <1>7. Spread(c, <<>>, max) = base
    <2>1. <<>> \in Seq(X) OBVIOUS
    <2> QED BY <1>3, <1>6, <2>1, Zenon
  <1>8. ASSUME NEW s \in Seq(X), NEW p \in X
        PROVE  Spread(c, s, max) \in S /\ Spread(c, Append(s, p), max) = op(Spread(c, s, max), p)
    <2>1. Append(s, p) \in Seq(X) OBVIOUS
    <2>2. /\ Spread(c, s, max) = RunOf(S, G, base, s)
          /\ Spread(c, Append(s, p), max) = RunOf(S, G, base, Append(s, p))
      BY <1>3, <2>1, Zenon
    <2>3. Spread(c, s, max) \in S /\ Spread(c, Append(s, p), max) = G[p][Spread(c, s, max)]
      BY <1>6, <2>2, Zenon
    <2> QED BY <1>5, <2>3, Zenon
  <1> QED BY <1>7, <1>8, Zenon DEF op, S, X, base

\* What spreading leaves is stout.
LEMMA SpreadIs ==
  ASSUME NEW P, NEW c \in Gath(P), NEW max \in Int, NEW s \in Texts(P)
  PROVE  Spread(c, s, max) \in Gath(P)
  <1>1. CASE s = <<>> BY <1>1, SpreadMore
  <1>2. CASE s # <<>>
    <2>1. s \in Seq(Stout(P)) /\ s[1] \in Stout(P) BY <1>2 DEF Texts
    <2> QED BY <2>1, SpreadMore
  <1> QED BY <1>1, <1>2

LEMMA FirstLine ==
  ASSUME NEW P, NEW b \in Blocked(P)
  PROVE  /\ b \in Texts(P) /\ b[1] \in Stout(P) /\ LineLen(b[1]) \in Int /\ Length(b) \in Int
         /\ LineLen(b[1]) + 1 \in Int /\ Length(b) >= 0 - 1
  <1>1. b \in Texts(P) /\ b # <<>> BY DEF Blocked
  <1>2. b[1] \in Stout(P) BY <1>1 DEF Texts
  <1>3. LineLen(b[1]) \in Int BY <1>2, StoutIs
  <1>4. Length(b) \in Int /\ Length(b) = Weight(b) - 1 /\ Weight(b) \in Nat BY <1>1, WeightOf
  <1> QED BY <1>1, <1>2, <1>3, <1>4

\* A step of the pass leaves stout texts.
LEMMA StructStepIs ==
  ASSUME NEW P, NEW a \in Gath(P), NEW b \in Blocked(P), NEW max \in Nat \ {0}
  PROVE  StructStep(a, b, max) \in Gath(P)
  <1>1. /\ b \in Texts(P) /\ b[1] \in Stout(P) /\ LineLen(b[1]) \in Int /\ Length(b) \in Int
        /\ LineLen(b[1]) + 1 \in Int
    BY FirstLine
  <1>2. Flush(a) \in Gath(P) BY FlushIs
  <1>3. \A k \in Int : MakeRoom(a, k, max) \in Gath(P) BY MakeRoomIs
  <1>4. Collect(Flush(a), b, LineLen(b[1]) + 1) \in Gath(P) BY <1>1, <1>2, CollectIs
  <1>5. [Flush(a) EXCEPT !.chunks = @ \o SubTables(b, max)] \in Gath(P)
    <2> DEFINE c == Flush(a)
               t == SubTables(b, max)
    <2>1. c \in Gath(P) BY <1>2
    <2>a. t \in Seq(Blocked(P))
      <3> DEFINE h == SubSeq(b, 1, HeaderLen(b))
                 data == SubSeq(b, HeaderLen(b) + 1, Len(b))
      <3>1. h = SubSeq(b, 1, HeaderLen(b)) /\ data = SubSeq(b, HeaderLen(b) + 1, Len(b)) OBVIOUS
      <3>2. max \in Int OBVIOUS
      <3> HIDE DEF h, data, t
      <3>3. TableSplit(P, b, max, h, data) BY <3>1, <3>2, SubTablesAre
      <3> QED BY <3>3 DEF t, TableSplit
    <2> HIDE DEF c, t
    <2>2. c.chunks \o t \in Seq(Blocked(P)) BY <2>1, <2>a DEF Gath
    <2>3. [c EXCEPT !.chunks = @ \o t] \in Gath(P) BY <2>1, <2>2 DEF Gath
    <2> QED BY <2>3 DEF c, t
  <1>6. Collect(MakeRoom(a, Length(b), max), b, Length(b)) \in Gath(P) BY <1>1, <1>3, CollectIs
  <1>7. Collect(MakeRoom(a, LineLen(b[1]) + 1, max), b, LineLen(b[1]) + 1) \in Gath(P)
    BY <1>1, <1>3, CollectIs
  <1>8. LineLen(b[1]) + 1 > max =>
          Spread(MakeRoom(a, LineLen(b[1]) + 1, max), Pieces(b[1], max), max) \in Gath(P)
    <2> SUFFICES ASSUME LineLen(b[1]) + 1 > max
                 PROVE  Spread(MakeRoom(a, LineLen(b[1]) + 1, max), Pieces(b[1], max), max) \in Gath(P)
      OBVIOUS
    <2>1. LineLen(b[1]) > 0 BY <1>1
    <2>2. Pieces(b[1], max) \in Texts(P) BY <1>1, <2>1, PiecesIs
    <2> QED BY <1>1, <1>3, <2>2, SpreadIs
  <1> DEFINE heads == b[1].kind = "heading" /\ a.cur # <<>>
             large == LargeTable(b, max)
             table == InTable(b[1])
             long == b[1].kind = "plain" /\ LineLen(b[1]) + 1 > max
  <1>9. StructStep(a, b, max) =
          CASE heads -> Collect(Flush(a), b, LineLen(b[1]) + 1)
            [] large -> [Flush(a) EXCEPT !.chunks = @ \o SubTables(b, max)]
            [] table /\ ~large -> Collect(MakeRoom(a, Length(b), max), b, Length(b))
            [] long -> Spread(MakeRoom(a, LineLen(b[1]) + 1, max), Pieces(b[1], max), max)
            [] OTHER -> Collect(MakeRoom(a, LineLen(b[1]) + 1, max), b, LineLen(b[1]) + 1)
    BY DEF StructStep
  <1>10. long => LineLen(b[1]) + 1 > max OBVIOUS
  <1> HIDE DEF heads, large, table, long
  <1> QED BY <1>4, <1>5, <1>6, <1>7, <1>8, <1>9, <1>10

\* Blocks, one by one.
LEMMA StructMore ==
  ASSUME NEW P, NEW max \in Nat \ {0}
  PROVE  /\ Struct(<<>>, max) = Empty
         /\ \A s \in Seq(Blocked(P)), b \in Blocked(P) :
               /\ Struct(s, max) \in Gath(P)
               /\ Struct(Append(s, b), max) = StructStep(Struct(s, max), b, max)
  <1> DEFINE S == Gath(P)
             X == Blocked(P)
             base == Empty
             op(a, b) == StructStep(a, b, max)
             G == [b \in X |-> [a \in S |-> op(a, b)]]
  <1>1. base \in S BY EmptyIs
  <1>2. \A a \in S, b \in X : op(a, b) \in S BY StructStepIs
  <1>3. ASSUME NEW s \in Seq(X) PROVE Struct(s, max) = RunOf(S, G, base, s)
    <2> DEFINE n == Len(s)
               H == [i \in 1..n |-> [a \in S |-> op(a, s[i])]]
               E(g) == [i \in 0..n |->
                          IF i = 0 THEN base ELSE At(g[i - 1], LAMBDA a : op(a, s[i]))]
               f == CHOOSE g : g = E(g)
    <2>1. n \in Nat /\ \A i \in 1..n : s[i] \in X
      <3> HIDE DEF X
      <3> QED OBVIOUS
    <2>2. Struct(s, max) = f[n] BY DEF Struct, Fold
    <2> HIDE DEF op, S, X, n, base
    <2>3. PICK h \in [0..n -> S] : Solves(h, n, base, H)
      <3>1. H \in [1..n -> [S -> S]] BY <1>2, <2>1
      <3> HIDE DEF H
      <3> QED BY <1>1, <2>1, <3>1, Recursion
    <2>4. \A g, i : At(g[i - 1], LAMBDA a : op(a, s[i])) = op(g[i - 1], s[i])
      BY Zenon DEF At
    <2>5. h = E(h)
      <3> SUFFICES ASSUME NEW i \in 0..n, i # 0 PROVE h[i] = op(h[i - 1], s[i])
        BY <2>3, <2>4 DEF Solves
      <3>1. i \in 1..n /\ h[i - 1] \in S BY <2>1
      <3> QED BY <2>3, <3>1 DEF Solves
    <2> HIDE DEF E
    <2>6. f = E(f) BY <2>5, Zenon
    <2> HIDE DEF f
    <2>7. \A i \in 0..n : f[i] = IF i = 0 THEN base ELSE op(f[i - 1], s[i]) BY <2>4, <2>6 DEF E
    <2>8. f[0] = base /\ \A i \in 1..n : f[i - 1] \in S => f[i] = G[s[i]][f[i - 1]]
      <3>1. 0 \in 0..n /\ \A i \in 1..n : i \in 0..n /\ i # 0 /\ s[i] \in X BY <2>1
      <3> QED BY <2>7, <3>1
    <2>9. G \in [X -> [S -> S]] BY <1>2
    <2> HIDE DEF G
    <2> QED BY <1>1, <2>2, <2>8, <2>9, RunIsOne DEF n
  <1> HIDE DEF op, S, X, base
  <1>4. G \in [X -> [S -> S]] BY <1>2
  <1>5. \A a \in S, b \in X : G[b][a] = op(a, b) OBVIOUS
  <1> HIDE DEF G
  <1>6. /\ \A s \in Seq(X) : s = <<>> => RunOf(S, G, base, s) = base
        /\ \A s \in Seq(X), b \in X :
              /\ RunOf(S, G, base, s) \in S
              /\ RunOf(S, G, base, Append(s, b)) = G[b][RunOf(S, G, base, s)]
    BY <1>1, <1>4, RunMore
  <1>7. Struct(<<>>, max) = base
    <2>1. <<>> \in Seq(X) OBVIOUS
    <2> QED BY <1>3, <1>6, <2>1, Zenon
  <1>8. ASSUME NEW s \in Seq(X), NEW b \in X
        PROVE  Struct(s, max) \in S /\ Struct(Append(s, b), max) = op(Struct(s, max), b)
    <2>1. Append(s, b) \in Seq(X) OBVIOUS
    <2>2. /\ Struct(s, max) = RunOf(S, G, base, s)
          /\ Struct(Append(s, b), max) = RunOf(S, G, base, Append(s, b))
      BY <1>3, <2>1, Zenon
    <2>3. Struct(s, max) \in S /\ Struct(Append(s, b), max) = G[b][Struct(s, max)]
      BY <1>6, <2>2, Zenon
    <2> QED BY <1>5, <2>3, Zenon
  <1> QED BY <1>7, <1>8, Zenon DEF op, S, X, base

\* A step of the pass over the lines leaves stout texts.
LEMMA LineStepIs ==
  ASSUME NEW P, NEW a \in Gath(P), NEW l \in Stout(P), NEW max \in Nat \ {0}
  PROVE  /\ LineStep(a, l, max) \in Gath(P)
         /\ LineLen(l) + 1 > max =>
              LET ps == Pieces(l, max)
              IN  /\ LineStep(a, l, max).chunks = Flush(a).chunks \o [i \in 1..Len(ps) |-> <<ps[i]>>]
                  /\ LineStep(a, l, max).cur = <<>> /\ LineStep(a, l, max).size = Flush(a).size
         /\ ~(LineLen(l) + 1 > max) =>
              LineStep(a, l, max) = Collect(MakeRoom(a, LineLen(l) + 1, max), <<l>>, LineLen(l) + 1)
  <1> DEFINE ps == Pieces(l, max)
             b == Flush(a)
             new == [i \in 1..Len(ps) |-> <<ps[i]>>]
  <1>0. LineLen(l) \in Int /\ LineLen(l) + 1 \in Int /\ <<l>> \in Texts(P) BY OneOf
  <1>1. b \in Gath(P) /\ b.cur = <<>> BY FlushIs
  <1>2. ASSUME LineLen(l) + 1 > max
        PROVE  /\ LineStep(a, l, max) = [b EXCEPT !.chunks = @ \o new]
               /\ new \in Seq(Blocked(P))
    <2>1. ps \in Texts(P)
      <3>1. LineLen(l) > 0 BY <1>0, <1>2
      <3> QED BY <3>1, PiecesIs
    <2>2. LineStep(a, l, max) = [b EXCEPT !.chunks = @ \o [i \in DOMAIN ps |-> <<ps[i]>>]]
      BY <1>2, Zenon DEF At, LineStep
    <2> HIDE DEF ps
    <2>3. DOMAIN ps = 1..Len(ps) /\ Len(ps) \in Nat /\ \A i \in 1..Len(ps) : ps[i] \in Stout(P)
      BY <2>1 DEF Texts
    <2>4. \A i \in 1..Len(ps) : <<ps[i]>> \in Blocked(P) BY <2>3, OneOf
    <2>5. new \in Seq(Blocked(P)) BY <2>3, <2>4
    <2> QED BY <2>2, <2>3, <2>5
  <1>3. ASSUME ~(LineLen(l) + 1 > max)
        PROVE  /\ LineStep(a, l, max) = Collect(MakeRoom(a, LineLen(l) + 1, max), <<l>>, LineLen(l) + 1)
               /\ LineStep(a, l, max) \in Gath(P)
    <2>1. MakeRoom(a, LineLen(l) + 1, max) \in Gath(P) BY <1>0, MakeRoomIs
    <2>2. Collect(MakeRoom(a, LineLen(l) + 1, max), <<l>>, LineLen(l) + 1) \in Gath(P)
      BY <1>0, <2>1, CollectIs
    <2>3. LineStep(a, l, max) = Collect(MakeRoom(a, LineLen(l) + 1, max), <<l>>, LineLen(l) + 1)
      BY <1>3 DEF LineStep
    <2> QED BY <2>2, <2>3
  <1>4. ASSUME LineLen(l) + 1 > max
        PROVE  /\ LineStep(a, l, max) \in Gath(P)
               /\ LineStep(a, l, max).chunks = b.chunks \o new
               /\ LineStep(a, l, max).cur = <<>> /\ LineStep(a, l, max).size = b.size
    <2>1. LineStep(a, l, max) = [b EXCEPT !.chunks = @ \o new] /\ new \in Seq(Blocked(P)) BY <1>2, <1>4
    <2> HIDE DEF new, b
    <2>2. b.chunks \o new \in Seq(Blocked(P)) BY <1>1, <2>1 DEF Gath
    <2> DEFINE c == [b EXCEPT !.chunks = b.chunks \o new]
    <2>3. c \in Gath(P) BY <1>1, <2>2 DEF Gath
    <2>4. c.chunks = b.chunks \o new /\ c.cur = b.cur /\ c.size = b.size BY <1>1 DEF Gath
    <2>5. LineStep(a, l, max) = c BY <2>1
    <2> HIDE DEF c
    <2> QED BY <1>1, <2>3, <2>4, <2>5
  <1> QED BY <1>3, <1>4

\* Lines, one by one.
LEMMA LinedMore ==
  ASSUME NEW P, NEW max \in Nat \ {0}
  PROVE  /\ Lined(<<>>, max) = Empty
         /\ \A s \in Seq(Stout(P)), l \in Stout(P) :
               /\ Lined(s, max) \in Gath(P)
               /\ Lined(Append(s, l), max) = LineStep(Lined(s, max), l, max)
  <1> DEFINE S == Gath(P)
             X == Stout(P)
             base == Empty
             op(a, l) == LineStep(a, l, max)
             G == [l \in X |-> [a \in S |-> op(a, l)]]
  <1>1. base \in S BY EmptyIs
  <1>2. \A a \in S, l \in X : op(a, l) \in S BY LineStepIs
  <1>3. ASSUME NEW s \in Seq(X) PROVE Lined(s, max) = RunOf(S, G, base, s)
    <2> DEFINE n == Len(s)
               H == [i \in 1..n |-> [a \in S |-> op(a, s[i])]]
               E(g) == [i \in 0..n |->
                          IF i = 0 THEN base ELSE At(g[i - 1], LAMBDA a : op(a, s[i]))]
               f == CHOOSE g : g = E(g)
    <2>1. n \in Nat /\ \A i \in 1..n : s[i] \in X
      <3> HIDE DEF X
      <3> QED OBVIOUS
    <2>2. Lined(s, max) = f[n] BY DEF Lined, Fold
    <2> HIDE DEF op, S, X, n, base
    <2>3. PICK h \in [0..n -> S] : Solves(h, n, base, H)
      <3>1. H \in [1..n -> [S -> S]] BY <1>2, <2>1
      <3> HIDE DEF H
      <3> QED BY <1>1, <2>1, <3>1, Recursion
    <2>4. \A g, i : At(g[i - 1], LAMBDA a : op(a, s[i])) = op(g[i - 1], s[i])
      BY Zenon DEF At
    <2>5. h = E(h)
      <3> SUFFICES ASSUME NEW i \in 0..n, i # 0 PROVE h[i] = op(h[i - 1], s[i])
        BY <2>3, <2>4 DEF Solves
      <3>1. i \in 1..n /\ h[i - 1] \in S BY <2>1
      <3> QED BY <2>3, <3>1 DEF Solves
    <2> HIDE DEF E
    <2>6. f = E(f) BY <2>5, Zenon
    <2> HIDE DEF f
    <2>7. \A i \in 0..n : f[i] = IF i = 0 THEN base ELSE op(f[i - 1], s[i]) BY <2>4, <2>6 DEF E
    <2>8. f[0] = base /\ \A i \in 1..n : f[i - 1] \in S => f[i] = G[s[i]][f[i - 1]]
      <3>1. 0 \in 0..n /\ \A i \in 1..n : i \in 0..n /\ i # 0 /\ s[i] \in X BY <2>1
      <3> QED BY <2>7, <3>1
    <2>9. G \in [X -> [S -> S]] BY <1>2
    <2> HIDE DEF G
    <2> QED BY <1>1, <2>2, <2>8, <2>9, RunIsOne DEF n
  <1> HIDE DEF op, S, X, base
  <1>4. G \in [X -> [S -> S]] BY <1>2
  <1>5. \A a \in S, l \in X : G[l][a] = op(a, l) OBVIOUS
  <1> HIDE DEF G
  <1>6. /\ \A s \in Seq(X) : s = <<>> => RunOf(S, G, base, s) = base
        /\ \A s \in Seq(X), l \in X :
              /\ RunOf(S, G, base, s) \in S
              /\ RunOf(S, G, base, Append(s, l)) = G[l][RunOf(S, G, base, s)]
    BY <1>1, <1>4, RunMore
  <1>7. Lined(<<>>, max) = base
    <2>1. <<>> \in Seq(X) OBVIOUS
    <2> QED BY <1>3, <1>6, <2>1, Zenon
  <1>8. ASSUME NEW s \in Seq(X), NEW l \in X
        PROVE  Lined(s, max) \in S /\ Lined(Append(s, l), max) = op(Lined(s, max), l)
    <2>1. Append(s, l) \in Seq(X) OBVIOUS
    <2>2. /\ Lined(s, max) = RunOf(S, G, base, s)
          /\ Lined(Append(s, l), max) = RunOf(S, G, base, Append(s, l))
      BY <1>3, <2>1, Zenon
    <2>3. Lined(s, max) \in S /\ Lined(Append(s, l), max) = G[l][Lined(s, max)]
      BY <1>6, <2>2, Zenon
    <2> QED BY <1>5, <2>3, Zenon
  <1> QED BY <1>7, <1>8, Zenon DEF op, S, X, base

-----------------------------------------------------------------------------
(* Splitting by structure what was split by structure.                     *)

\* A table that the rows d make under the header h, and that needs no split.
RowChunk(Y, h, w, max, c) ==
    \E d \in Seq(Y) : /\ d # <<>> /\ c = h \o d /\ Weight(d) <= w
                      /\ Rows(h, d, max).chunks = <<>>
RowsOK(Y, h, w, max, a) ==
    /\ \A i \in 1..Len(a.chunks) : RowChunk(Y, h, w, max, a.chunks[i])
    /\ a.cur \in Seq(Y) /\ Weight(a.cur) <= w
    /\ a.cur = <<>> => a.chunks = <<>>
    /\ Rows(h, a.cur, max).chunks = <<>> /\ Rows(h, a.cur, max).cur = a.cur
    /\ Rows(h, a.cur, max).size = a.size

\* Before the first row.
LEMMA RowsStart ==
  ASSUME NEW P, NEW h \in Texts(P), NEW max \in Int, NEW Y
  PROVE  \A w \in Nat : RowsOK(Y, h, w, max, RowStart(h))
  <1> DEFINE none == <<>>
             st == RowStart(h)
  <1>1. st.chunks = none /\ st.cur = none BY StartIs
  <1>2. Rows(h, none, max) = st BY RowsMore
  <1>3. none \in Seq(Y) /\ Weight(none) = 0 /\ Len(none) = 0 BY WeightMore
  <1> HIDE DEF st
  <1>4. ASSUME NEW w \in Nat PROVE RowsOK(Y, h, w, max, st)
    <2>1. Weight(none) <= w BY <1>3
    <2> HIDE DEF none
    <2>2. Rows(h, st.cur, max) = st BY <1>1, <1>2, Zenon
    <2>3. Rows(h, st.cur, max).chunks = <<>> BY <1>1, <2>2, Zenon DEF none
    <2>4. st.cur \in Seq(Y) /\ Weight(st.cur) <= w /\ st.chunks = <<>> BY <1>1, <1>3, <2>1 DEF none
    <2>5. Len(st.chunks) = 0 BY <2>4
    <2> QED BY <2>2, <2>3, <2>4, <2>5 DEF RowsOK
  <1> QED BY <1>4 DEF st

\* One row more.
LEMMA RowsGoOn ==
  ASSUME NEW P, NEW h \in Texts(P), NEW max \in Int, NEW Y \in SUBSET Stout(P),
         NEW a \in Gath(P), NEW w \in Nat, RowsOK(Y, h, w, max, a), NEW l \in Y, NEW v \in Nat,
         w + LineLen(l) + 1 <= v, w <= v
  PROVE  RowsOK(Y, h, v, max, RowStep(h, a, l, max)) /\ RowStep(h, a, l, max) \in Gath(P)
  <1> DEFINE c == RowStep(h, a, l, max)
             one == <<l>>
             full == a.size + LineLen(l) + 1 > max /\ a.cur # <<>>
             d == IF full THEN RowFlush(h, a) ELSE a
             none == <<>>
  <1>1. /\ l \in Stout(P) /\ one \in Texts(P) /\ one \in Blocked(P) /\ LineLen(l) \in Int
        /\ LineLen(l) + 1 \in Int /\ LineLen(l) + 1 >= 0 /\ l \in LinesOn(P)
    <2>1. l \in Stout(P) OBVIOUS
    <2>2. one \in Texts(P) /\ one \in Blocked(P) /\ LineLen(l) \in Int /\ LineLen(l) + 1 \in Int
      BY <2>1, OneOf
    <2>3. LineLen(l) >= -1 /\ l \in LinesOn(P) BY <2>1, StoutIs
    <2> HIDE DEF one
    <2> QED BY <2>1, <2>2, <2>3
  <1>2. a.chunks \in Seq(Blocked(P)) /\ a.cur \in Texts(P) /\ a.cur \in Seq(Y) BY DEF Gath, RowsOK
  <1>3. full => /\ RowFlush(h, a) \in Gath(P)
                /\ RowFlush(h, a).chunks = Append(a.chunks, h \o a.cur)
                /\ RowFlush(h, a).cur = none /\ RowFlush(h, a).size = Length(h) + 1
    BY RowFlushIs
  <1>4. d \in Gath(P) BY <1>3
  <1>5. c = Collect(d, one, LineLen(l) + 1) BY DEF RowStep
  <1> HIDE DEF c, one
  <1>6. /\ c \in Gath(P) /\ c.chunks = d.chunks /\ c.cur = d.cur \o one
        /\ c.size = d.size + (LineLen(l) + 1)
    <2>1. one \in Texts(P) /\ LineLen(l) + 1 \in Int BY <1>1
    <2> HIDE DEF d, full
    <2> QED BY <1>4, <1>5, <2>1, CollectIs
  \* What was collected goes on, or stands alone.
  <1>7. ASSUME NEW y \in Texts(P), NEW z, Rows(h, y, max) = z,
               z.chunks = none, z.cur = d.cur, z.size = d.size, y = d.cur,
               ~(z.size + LineLen(l) + 1 > max /\ z.cur # <<>>)
        PROVE  /\ Rows(h, c.cur, max).chunks = none /\ Rows(h, c.cur, max).cur = c.cur
               /\ Rows(h, c.cur, max).size = c.size
    <2>1. y \in Seq(Stout(P)) BY DEF Texts
    <2>2. Rows(h, Append(y, l), max) = RowStep(h, z, l, max) /\ z \in Gath(P)
      BY <1>1, <1>7, <2>1, RowsMore
    <2>3. y \o one = Append(y, l) BY <2>1 DEF one
    <2>4. RowStep(h, z, l, max) = Collect(z, one, LineLen(l) + 1) BY <1>7 DEF RowStep, one
    <2>5. /\ Collect(z, one, LineLen(l) + 1).chunks = z.chunks
          /\ Collect(z, one, LineLen(l) + 1).cur = z.cur \o one
          /\ Collect(z, one, LineLen(l) + 1).size = z.size + (LineLen(l) + 1)
      <3>1. z \in Gath(P) BY <2>2
      <3>2. one \in Texts(P) /\ LineLen(l) + 1 \in Int BY <1>1
      <3> QED BY ONLY <3>1, <3>2, CollectIs, Zenon
    <2>6. c.cur = Append(y, l) BY <1>6, <1>7, <2>3
    <2>7. Rows(h, c.cur, max) = Collect(z, one, LineLen(l) + 1) BY <2>2, <2>4, <2>6, Zenon
    <2> HIDE DEF none
    <2> QED BY <1>6, <1>7, <2>5, <2>7, Zenon
  <1>8. /\ Rows(h, c.cur, max).chunks = none /\ Rows(h, c.cur, max).cur = c.cur
        /\ Rows(h, c.cur, max).size = c.size
    <2>1. CASE full
      <3>1. d.cur = none /\ d.size = Length(h) + 1 BY <1>3, <2>1
      <3>2. Rows(h, none, max) = RowStart(h) BY RowsMore
      <3>3. /\ RowStart(h).chunks = none /\ RowStart(h).cur = none
            /\ RowStart(h).size = Length(h) + 1
        BY StartIs
      <3>4. none \in Texts(P) BY DEF Texts
      <3>5. ~(RowStart(h).cur # <<>>) BY <3>3
      <3> HIDE DEF none, d
      <3>6. RowStart(h).cur = d.cur /\ RowStart(h).size = d.size BY <3>1, <3>3
      <3> QED BY <1>7, <3>1, <3>2, <3>3, <3>4, <3>5, <3>6
    <2>2. CASE ~full
      <3>1. d = a BY <2>2
      <3>2. /\ Rows(h, a.cur, max).chunks = none /\ Rows(h, a.cur, max).cur = a.cur
            /\ Rows(h, a.cur, max).size = a.size
        BY DEF RowsOK
      <3> DEFINE z == Rows(h, a.cur, max)
      <3>3. ~(z.size + LineLen(l) + 1 > max /\ z.cur # <<>>)
        <4> HIDE DEF z, d
        <4>1. z.size = a.size /\ z.cur = a.cur BY <3>2 DEF z
        <4> QED BY <2>2, <4>1
      <3>4. Rows(h, a.cur, max) = z OBVIOUS
      <3>5. z.chunks = none /\ z.cur = a.cur /\ z.size = a.size BY <3>2
      <3> HIDE DEF z, d, none
      <3> QED BY <1>2, <1>7, <3>1, <3>3, <3>4, <3>5
    <2> QED BY <2>1, <2>2
  <1>9. d.cur \in Seq(Y) /\ Weight(d.cur) \in Nat /\ Weight(d.cur) <= w
    <2>1. CASE full
      <3>1. d.cur = none BY <1>3, <2>1
      <3>2. none \in Seq(Y) /\ Weight(none) = 0 BY WeightMore
      <3> HIDE DEF none, d
      <3> QED BY <3>1, <3>2
    <2>2. CASE ~full
      <3>1. d = a BY <2>2
      <3> QED BY <1>2, <3>1, WeightOf DEF RowsOK
    <2> QED BY <2>1, <2>2
  <1>10. c.cur \in Seq(Y) /\ Weight(c.cur) <= v /\ c.cur # <<>>
    <2>1. d.cur \in Texts(P) /\ d.cur \in Seq(LinesOn(P))
      <3>1. d.cur \in Texts(P) BY <1>4 DEF Gath
      <3> QED BY <3>1, StoutIs
    <2> DEFINE y == d.cur
    <2>2. y \in Seq(Y) /\ y \in Seq(LinesOn(P)) BY <1>9, <2>1
    <2> HIDE DEF y, d
    <2>3. y \o one = Append(y, l) /\ Append(y, l) \in Seq(Y) /\ Append(y, l) # <<>> BY <2>2 DEF one
    <2>4. Weight(Append(y, l)) = Weight(y) + LineLen(l) + 1 BY <1>1, <2>2, WeightMore
    <2>5. c.cur = Append(y, l) BY <1>6, <2>3 DEF y
    <2>6. Weight(Append(y, l)) <= v BY <1>1, <1>9, <2>4 DEF y
    <2> QED BY <2>3, <2>5, <2>6
  <1>11. ASSUME NEW i \in 1..Len(c.chunks) PROVE RowChunk(Y, h, v, max, c.chunks[i])
    <2>1. \A x : RowChunk(Y, h, w, max, x) => RowChunk(Y, h, v, max, x)
      <3> SUFFICES ASSUME NEW x, RowChunk(Y, h, w, max, x) PROVE RowChunk(Y, h, v, max, x)
        OBVIOUS
      <3>1. PICK e \in Seq(Y) : /\ e # <<>> /\ x = h \o e /\ Weight(e) <= w
                                /\ Rows(h, e, max).chunks = <<>>
        BY DEF RowChunk
      <3>2. Weight(e) \in Int
        <4>1. e \in Texts(P) BY DEF Texts
        <4> QED BY <4>1, WeightOf
      <3>3. Weight(e) <= v BY <3>1, <3>2
      <3> QED BY <3>1, <3>3 DEF RowChunk
    <2>2. \A j \in 1..Len(a.chunks) : RowChunk(Y, h, w, max, a.chunks[j]) BY DEF RowsOK
    <2>3. CASE full
      <3> DEFINE x == h \o a.cur
      <3>1. c.chunks = Append(a.chunks, x) BY <1>3, <1>6, <2>3
      <3>2. a.cur # <<>> BY <2>3
      <3>3. RowChunk(Y, h, w, max, x) BY <1>2, <3>2 DEF RowChunk, RowsOK
      <3> HIDE DEF x, d
      <3>4. Len(c.chunks) = Len(a.chunks) + 1 /\ Len(a.chunks) \in Nat BY <1>2, <3>1
      <3>5. CASE i = Len(c.chunks)
        <4>1. c.chunks[i] = x BY <1>2, <3>1, <3>4, <3>5
        <4> QED BY <2>1, <3>3, <4>1
      <3>6. CASE i # Len(c.chunks)
        <4>1. i \in 1..Len(a.chunks) /\ c.chunks[i] = a.chunks[i] BY <1>2, <3>1, <3>4, <3>6
        <4> QED BY <2>1, <2>2, <4>1
      <3> QED BY <3>5, <3>6
    <2>4. CASE ~full
      <3>1. c.chunks = a.chunks BY <1>6, <2>4
      <3> QED BY <2>1, <2>2, <3>1
    <2> QED BY <2>3, <2>4
  <1> HIDE DEF d
  <1>12. RowsOK(Y, h, v, max, c) BY <1>8, <1>10, <1>11 DEF RowsOK
  <1> QED BY <1>6, <1>12 DEF c

\* All rows.
LEMMA RowsAll ==
  ASSUME NEW P, NEW h \in Texts(P), NEW max \in Int, NEW Y \in SUBSET Stout(P)
  PROVE  \A s \in Seq(Y) : /\ s \in Texts(P) /\ Weight(s) \in Nat /\ Rows(h, s, max) \in Gath(P)
                           /\ RowsOK(Y, h, Weight(s), max, Rows(h, s, max))
  <1> DEFINE Good(s) == /\ s \in Texts(P) /\ Weight(s) \in Nat /\ Rows(h, s, max) \in Gath(P)
                        /\ RowsOK(Y, h, Weight(s), max, Rows(h, s, max))
             T == {s \in Seq(Y) : Good(s)}
             none == <<>>
  <1>1. none \in T
    <2>1. Rows(h, none, max) = RowStart(h) /\ Weight(none) = 0 BY RowsMore, WeightMore
    <2>2. none \in Texts(P) /\ none \in Seq(Y) BY DEF Texts
    <2> HIDE DEF none
    <2>3. RowsOK(Y, h, 0, max, RowStart(h)) /\ RowStart(h) \in Gath(P) BY RowsStart, StartIs
    <2>4. Good(none) BY <2>1, <2>2, <2>3
    <2> HIDE DEF Good
    <2> QED BY <2>2, <2>4
  <1>2. ASSUME NEW r \in Seq(Y), NEW l \in Y, r \in T PROVE Append(r, l) \in T
    <2> DEFINE s == Append(r, l)
    <2>1. s \in Seq(Y) /\ s \in Seq(Stout(P)) /\ r \in Seq(Stout(P)) /\ l \in Stout(P) OBVIOUS
    <2>2. Rows(h, s, max) = RowStep(h, Rows(h, r, max), l, max) BY <2>1, RowsMore
    <2>3. Good(r) BY <1>2
    <2>4. LineLen(l) \in Int /\ LineLen(l) >= -1 /\ l \in LinesOn(P) BY <2>1, StoutIs
    <2>5. Weight(s) = Weight(r) + LineLen(l) + 1
      <3>1. r \in Seq(LinesOn(P)) BY <2>3, StoutIs
      <3> QED BY <2>4, <3>1, WeightMore
    <2> HIDE DEF s
    <2>6. Weight(s) \in Nat /\ Weight(r) <= Weight(s) /\ Weight(r) + LineLen(l) + 1 <= Weight(s)
      <3>1. Weight(r) \in Nat BY <2>3
      <3> HIDE DEF Good, T
      <3> QED BY <2>4, <2>5, <3>1
    <2>7. /\ RowsOK(Y, h, Weight(s), max, RowStep(h, Rows(h, r, max), l, max))
          /\ RowStep(h, Rows(h, r, max), l, max) \in Gath(P)
      <3>1. /\ Weight(r) \in Nat /\ Rows(h, r, max) \in Gath(P)
            /\ RowsOK(Y, h, Weight(r), max, Rows(h, r, max))
        BY <2>3
      <3> HIDE DEF Good, T
      <3> QED BY <2>6, <3>1, RowsGoOn
    <2>8. s \in Texts(P) BY <2>1 DEF Texts
    <2>9. Good(s) BY <2>2, <2>6, <2>7, <2>8
    <2> HIDE DEF Good
    <2> QED BY <2>1, <2>9 DEF s
  <1> HIDE DEF T
  <1>3. \A r \in Seq(Y), l \in Y : r \in T => Append(r, l) \in T BY <1>2
  <1>4. \A s \in Seq(Y) : s \in T BY <1>1, <1>3, OneByOne
  <1> QED BY <1>4 DEF T

\* The lines of a table that may stand below this header.
Below(P, h) ==
    {l \in Stout(P) : InTable(l) /\ (l.kind = "separator" => \E i \in 1..Len(h) : h[i].kind = "separator")}

\* A table whose header is h.
Headed(P, h) ==
    /\ h \in Blocked(P) /\ \A i \in 1..Len(h) : InTable(h[i])
    /\ \A i \in 1..Len(h) : h[i].kind = "separator" => i = Len(h)
    /\ (\A i \in 1..Len(h) : h[i].kind # "separator") => Len(h) = 2

\* A table of a header and rows is split there again.
LEMMA HeaderOf ==
  ASSUME NEW P, NEW h, Headed(P, h), NEW d \in Seq(Below(P, h)), d # <<>>
  PROVE  /\ HeaderLen(h \o d) = Len(h)
         /\ h \o d \in Blocked(P) /\ IsBlock(h \o d) /\ InTable((h \o d)[1])
         /\ SubSeq(h \o d, 1, Len(h)) = h /\ SubSeq(h \o d, Len(h) + 1, Len(h \o d)) = d
  <1> DEFINE t == h \o d
             m == Len(h)
             n == Len(d)
             seps == {i \in DOMAIN t : t[i].kind = "separator"}
  <1>1. h \in Seq(Stout(P)) /\ m \in Nat \ {0} /\ n \in Nat \ {0} /\ d \in Seq(Stout(P))
    <2>1. h \in Seq(Stout(P)) /\ h # <<>> BY DEF Headed, Blocked, Texts
    <2>2. Below(P, h) \subseteq Stout(P) BY DEF Below
    <2>3. d \in Seq(Stout(P)) BY <2>2
    <2> QED BY <2>1, <2>3
  <1>2. /\ t \in Seq(Stout(P)) /\ Len(t) = m + n /\ DOMAIN t = 1..(m + n)
        /\ \A i \in 1..m : t[i] = h[i]
        /\ \A i \in 1..n : t[m + i] = d[i]
    BY <1>1
  <1>3. \A i \in 1..n : /\ d[i] \in Stout(P) /\ InTable(d[i])
                        /\ d[i].kind = "separator" => \E j \in 1..m : h[j].kind = "separator"
    <2>1. \A i \in 1..n : d[i] \in Below(P, h) OBVIOUS
    <2> QED BY <2>1 DEF Below
  <1> HIDE DEF t
  <1>4. \A i \in 1..(m + n) : i \in 1..m \/ \E k \in 1..n : t[i] = d[k]
    <2> SUFFICES ASSUME NEW i \in 1..(m + n), ~(i \in 1..m) PROVE \E k \in 1..n : t[i] = d[k]
      OBVIOUS
    <2> HIDE DEF m, n
    <2>1. PICK k \in 1..n : m + k = i
      <3>1. i - m \in 1..n /\ m + (i - m) = i BY <1>1
      <3> QED BY <3>1
    <2>2. t[m + k] = d[k] BY <1>2
    <2> QED BY <2>1, <2>2
  <1> HIDE DEF m, n
  <1>5. \A i \in 1..(m + n) : InTable(t[i])
    <2> SUFFICES ASSUME NEW i \in 1..(m + n) PROVE InTable(t[i]) OBVIOUS
    <2>1. CASE i \in 1..m
      <3>1. InTable(h[i]) BY <2>1 DEF Headed, m
      <3>2. t[i] = h[i] BY <1>2, <2>1
      <3> QED BY <3>1, <3>2
    <2>2. CASE \E k \in 1..n : t[i] = d[k]
      <3>1. PICK k \in 1..n : t[i] = d[k] BY <2>2
      <3>2. InTable(d[k]) BY <1>3
      <3> QED BY <3>1, <3>2
    <2> QED BY <1>4, <2>1, <2>2
  <1>6. t \in Blocked(P) /\ IsBlock(t) /\ InTable(t[1])
    <2>1. t # <<>> BY <1>1, <1>2
    <2>2. Len(t) > 0 /\ 1 \in 1..(m + n) BY <1>1, <1>2
    <2>3. \A i \in 1..Len(t) : InTable(t[i]) BY <1>2, <1>5
    <2> QED BY <1>2, <1>5, <2>1, <2>2, <2>3 DEF Blocked, Texts, IsBlock
  <1>7. HeaderLen(t) = m
    <2>1. CASE \E i \in 1..m : h[i].kind = "separator"
      <3>1. h[m].kind = "separator"
        <4>1. PICK i \in 1..m : h[i].kind = "separator" BY <2>1
        <4>2. i = m BY <4>1 DEF Headed, m
        <4> QED BY <4>1, <4>2
      <3>2. m \in seps
        <4>1. m \in 1..m /\ m \in 1..(m + n) BY <1>1
        <4> QED BY <1>2, <3>1, <4>1
      <3>3. \A j \in seps : m <= j
        <4> SUFFICES ASSUME NEW j \in seps, ~(m <= j) PROVE FALSE OBVIOUS
        <4>1. j \in 1..(m + n) BY <1>2
        <4>2. j \in 1..m /\ j # m BY <1>1, <4>1
        <4>3. h[j].kind = "separator" BY <1>2, <4>2
        <4> QED BY <4>2, <4>3 DEF Headed, m
      <3>4. \A j \in seps : (\A k \in seps : j <= k) => j = m
        <4> SUFFICES ASSUME NEW j \in seps, j <= m PROVE j = m BY <3>2
        <4>1. m <= j /\ j \in Int BY <1>2, <3>3
        <4> QED BY <1>1, <4>1
      <3> DEFINE first == CHOOSE i \in seps : \A j \in seps : i <= j
      <3>5. HeaderLen(t) = first BY <3>2 DEF HeaderLen
      <3> HIDE DEF seps
      <3>6. first \in seps /\ \A j \in seps : first <= j BY <3>2, <3>3, Zenon
      <3> QED BY <3>4, <3>5, <3>6
    <2>2. CASE \A i \in 1..m : h[i].kind # "separator"
      <3>1. m = 2 BY <2>2 DEF Headed, m
      <3>2. seps = {}
        <4> SUFFICES ASSUME NEW i \in seps PROVE FALSE OBVIOUS
        <4>1. i \in 1..(m + n) /\ t[i].kind = "separator" BY <1>2
        <4> HIDE DEF seps
        <4>2. CASE i \in 1..m
          <5>1. t[i] = h[i] /\ h[i].kind # "separator" BY <1>2, <2>2, <4>2
          <5> QED BY <4>1, <5>1
        <4>3. CASE \E k \in 1..n : t[i] = d[k]
          <5>0. PICK k \in 1..n : t[i] = d[k] BY <4>3
          <5>1. d[k].kind = "separator" BY <4>1, <5>0
          <5>2. \E j \in 1..m : h[j].kind = "separator" BY <1>3, <5>1
          <5> QED BY <2>2, <5>2
        <4> QED BY <1>4, <4>1, <4>2, <4>3
      <3>3. ~(Len(t) < 2) BY <1>1, <1>2, <3>1
      <3> QED BY <3>1, <3>2, <3>3 DEF HeaderLen
    <2> QED BY <2>1, <2>2
  <1>8. SubSeq(t, 1, m) = h
    <2> DEFINE s == SubSeq(t, 1, m)
    <2>1. s \in Seq(Stout(P)) /\ Len(s) = m /\ \A i \in 1..m : s[i] = t[i]
      <3>1. \A i \in 1..m : i \in 1..(m + n) /\ t[i] \in Stout(P) BY <1>1, <1>2
      <3> QED BY <1>1, <3>1
    <2> HIDE DEF s
    <2>2. \A i \in 1..m : s[i] = h[i] BY <1>2, <2>1
    <2>3. Len(h) = m BY DEF m
    <2>4. s = h BY <1>1, <2>1, <2>2, <2>3
    <2> QED BY <2>4 DEF s
  <1>9. SubSeq(t, m + 1, Len(t)) = d
    <2> DEFINE s == SubSeq(t, m + 1, m + n)
    <2>1. s \in Seq(Stout(P)) /\ Len(s) = n
      <3>1. \A i \in (m + 1)..(m + n) : t[i] \in Stout(P) BY <1>1, <1>2
      <3> QED BY <1>1, <3>1
    <2>2. \A i \in 1..n : s[i] = d[i]
      <3> SUFFICES ASSUME NEW i \in 1..n PROVE s[i] = d[i] OBVIOUS
      <3>1. (m + 1) + i - 1 = m + i BY <1>1
      <3>2. s[i] = t[(m + 1) + i - 1] BY <1>1
      <3> HIDE DEF s
      <3> QED BY <1>2, <3>1, <3>2
    <2> HIDE DEF s
    <2>3. Len(d) = n BY DEF n
    <2>4. s = d BY <1>1, <2>1, <2>2, <2>3
    <2> QED BY <1>2, <2>4 DEF s
  <1> QED BY <1>6, <1>7, <1>8, <1>9 DEF t, m

\* The tables that a large one becomes stay as they are.
LEMMA RowChunkStays ==
  ASSUME NEW P, NEW h, Headed(P, h), NEW max \in Int, NEW w \in Nat, NEW c,
         RowChunk(Below(P, h), h, w, max, c)
  PROVE  /\ c \in Blocked(P) /\ IsBlock(c) /\ InTable(c[1]) /\ Len(SubTables(c, max)) <= 1
         /\ Weight(c) <= Weight(h) + w
  <1>1. PICK d \in Seq(Below(P, h)) : /\ d # <<>> /\ c = h \o d /\ Weight(d) <= w
                                      /\ Rows(h, d, max).chunks = <<>>
    BY DEF RowChunk
  <1>2. /\ HeaderLen(c) = Len(h) /\ c \in Blocked(P) /\ IsBlock(c) /\ InTable(c[1])
        /\ SubSeq(c, 1, Len(h)) = h /\ SubSeq(c, Len(h) + 1, Len(c)) = d
    <2> DEFINE t == h \o d
    <2>1. /\ HeaderLen(t) = Len(h) /\ t \in Blocked(P) /\ IsBlock(t) /\ InTable(t[1])
          /\ SubSeq(t, 1, Len(h)) = h /\ SubSeq(t, Len(h) + 1, Len(t)) = d
      BY <1>1, HeaderOf
    <2>2. c = t BY <1>1
    <2> HIDE DEF t
    <2> QED BY <2>1, <2>2
  <1>3. h = SubSeq(c, 1, HeaderLen(c)) /\ d = SubSeq(c, HeaderLen(c) + 1, Len(c)) BY <1>2, Zenon
  <1> DEFINE r == Rows(h, d, max)
  <1>4. /\ h \in Texts(P) /\ r \in Gath(P)
        /\ SubTables(c, max) = IF r.cur = <<>> THEN r.chunks ELSE RowFlush(h, r).chunks
    <2>1. c \in Blocked(P) BY <1>2
    <2> HIDE DEF r
    <2> DEFINE h1 == SubSeq(c, 1, HeaderLen(c))
               d1 == SubSeq(c, HeaderLen(c) + 1, Len(c))
    <2>a. h1 = SubSeq(c, 1, HeaderLen(c)) /\ d1 = SubSeq(c, HeaderLen(c) + 1, Len(c)) OBVIOUS
    <2>b. h = h1 /\ d = d1 BY <1>3, Zenon
    <2> HIDE DEF h1, d1
    <2>c. TableSplit(P, c, max, h1, d1) BY <2>a, <2>1, SubTablesAre
    <2>2. /\ h \in Texts(P) /\ Rows(h, d, max) \in Gath(P)
          /\ SubTables(c, max) = SplitOf(h, Rows(h, d, max))
      BY <2>b, <2>c, Zenon DEF TableSplit
    <2> QED BY <2>2 DEF r, SplitOf
  <1>5. r.chunks = <<>> BY <1>1
  <1> HIDE DEF r
  <1>6. Len(SubTables(c, max)) <= 1
    <2>1. CASE r.cur = <<>>
      <3>1. SubTables(c, max) = <<>> BY <1>4, <1>5, <2>1
      <3> QED BY <3>1
    <2>2. CASE r.cur # <<>>
      <3>1. RowFlush(h, r).chunks = Append(r.chunks, h \o r.cur) BY <1>4, <2>2, RowFlushIs
      <3> DEFINE x == h \o r.cur
      <3>2. SubTables(c, max) = Append(r.chunks, x) BY <1>4, <2>2, <3>1
      <3> HIDE DEF x
      <3>3. SubTables(c, max) = Append(<<>>, x) BY <1>5, <3>2
      <3>4. Len(Append(<<>>, x)) = 1 OBVIOUS
      <3> QED BY <3>3, <3>4
    <2> QED BY <2>1, <2>2
  <1>7. Weight(c) <= Weight(h) + w
    <2>1. d \in Texts(P)
      <3>1. Below(P, h) \subseteq Stout(P) BY DEF Below
      <3> QED BY <3>1 DEF Texts
    <2>2. h \in Seq(LinesOn(P)) /\ d \in Seq(LinesOn(P)) BY <1>4, <2>1, StoutIs
    <2>3. Weight(h \o d) = Weight(h) + Weight(d) /\ Weight(h) \in Int /\ Weight(d) \in Int
      BY <2>2, WeightBoth
    <2>4. Weight(c) = Weight(h) + Weight(d) BY <1>1, <2>3
    <2> QED BY <1>1, <2>3, <2>4
  <1> QED BY <1>2, <1>6, <1>7

\* A table that begins with its header.
LEMMA HeaderHeads ==
  ASSUME NEW P, NEW h \in Texts(P), NEW d \in Texts(P), h # <<>>, d # <<>>, NEW b \in Blocked(P),
         b = h \o d, \A i \in 1..Len(b) : InTable(b[i]), Len(h) = HeaderLen(b)
  PROVE  Headed(P, h) /\ d \in Seq(Below(P, h))
  <1> DEFINE m == Len(h)
             n == Len(d)
             seps == {i \in DOMAIN b : b[i].kind = "separator"}
  <1>1. /\ h \in Seq(Stout(P)) /\ d \in Seq(Stout(P)) /\ m \in Nat \ {0} /\ n \in Nat \ {0}
        /\ \A i \in 1..n : d[i] \in Stout(P)
    BY DEF Texts
  <1>2. /\ DOMAIN b = 1..(m + n) /\ Len(b) = m + n
        /\ \A i \in 1..m : b[i] = h[i] /\ i \in 1..(m + n)
        /\ \A i \in 1..n : b[m + i] = d[i] /\ m + i \in 1..(m + n)
    <2> DEFINE t == h \o d
    <2>1. /\ DOMAIN t = 1..(m + n) /\ Len(t) = m + n
          /\ \A i \in 1..m : t[i] = h[i] /\ i \in 1..(m + n)
          /\ \A i \in 1..n : t[m + i] = d[i] /\ m + i \in 1..(m + n)
      <3>0. h \in Seq(Stout(P)) /\ d \in Seq(Stout(P)) BY <1>1
      <3>1. Len(t) = m + n /\ DOMAIN t = 1..(m + n) BY <3>0, Concat
      <3>2. \A i \in 1..m : t[i] = h[i] BY <3>0, Concat
      <3>3. \A i \in 1..n : t[m + i] = d[i] BY <3>0, Concat
      <3> HIDE DEF t, m, n
      <3>4. \A i \in 1..m : i \in 1..(m + n) BY <1>1
      <3>5. \A i \in 1..n : m + i \in 1..(m + n) BY <1>1
      <3> QED BY <3>1, <3>2, <3>3, <3>4, <3>5
    <2>2. b = t OBVIOUS
    <2> HIDE DEF t, m, n
    <2> QED BY <2>1, <2>2
  <1> HIDE DEF m, n
  <1>3. \A i \in 1..(m + n) : InTable(b[i]) BY <1>2
  <1>4. (\A i \in 1..m : InTable(h[i])) /\ (\A i \in 1..n : InTable(d[i]))
    <2>1. ASSUME NEW i \in 1..m PROVE InTable(h[i])
      <3>1. b[i] = h[i] /\ InTable(b[i]) BY <1>2, <1>3
      <3> QED BY <3>1
    <2>2. ASSUME NEW i \in 1..n PROVE InTable(d[i])
      <3>1. b[m + i] = d[i] /\ InTable(b[m + i]) BY <1>2, <1>3
      <3> QED BY <3>1
    <2> QED BY <2>1, <2>2
  <1>5. h \in Blocked(P) BY DEF Blocked
  <1>6. CASE seps # {}
    <2> DEFINE first == CHOOSE i \in seps : \A j \in seps : i <= j
    <2>1. HeaderLen(b) = first BY <1>6 DEF HeaderLen
    <2>2. seps \subseteq Nat BY <1>1, <1>2
    <2>3. \E i \in seps : \A j \in seps : i <= j
      <3> HIDE DEF seps
      <3> QED BY <1>6, <2>2, Least
    <2>4. m \in seps /\ \A j \in seps : m <= j
      <3> HIDE DEF seps
      <3>1. first \in seps /\ \A j \in seps : first <= j BY <2>3, Zenon
      <3>2. first = m BY <2>1 DEF m
      <3> HIDE DEF first
      <3> QED BY <3>1, <3>2
    <2>5. \A i \in 1..m : h[i].kind = "separator" => i = m
      <3> SUFFICES ASSUME NEW i \in 1..m, h[i].kind = "separator" PROVE i = m OBVIOUS
      <3>1. i \in seps BY <1>2
      <3>2. m <= i BY <2>4, <3>1
      <3> HIDE DEF seps
      <3> QED BY <1>1, <3>2
    <2>6. m \in 1..m /\ h[m].kind = "separator"
      <3>1. m \in 1..m BY <1>1
      <3>2. b[m].kind = "separator" BY <2>4
      <3> QED BY <1>2, <3>1, <3>2
    <2>7. Headed(P, h) BY <1>4, <1>5, <2>5, <2>6 DEF Headed, m
    <2>8. \A i \in 1..n : d[i] \in Below(P, h) BY <1>1, <1>4, <2>6 DEF Below, m
    <2>9. d \in Seq(Below(P, h))
      <3> HIDE DEF seps
      <3> QED BY <1>1, <2>8 DEF n
    <2> QED BY <2>7, <2>9
  <1>7. CASE seps = {}
    <2>1. HeaderLen(b) = IF Len(b) < 2 THEN Len(b) ELSE 2 BY <1>7 DEF HeaderLen
    <2>2. m = 2
      <3>1. m = IF m + n < 2 THEN m + n ELSE 2 BY <1>2, <2>1 DEF m
      <3> HIDE DEF seps
      <3> QED BY <1>1, <3>1
    <2>3. \A i \in 1..(m + n) : b[i].kind # "separator" BY <1>2, <1>7
    <2>4. \A i \in 1..m : h[i].kind # "separator"
      <3> SUFFICES ASSUME NEW i \in 1..m PROVE h[i].kind # "separator" OBVIOUS
      <3>1. b[i] = h[i] /\ b[i].kind # "separator" BY <1>2, <2>3
      <3> QED BY <3>1
    <2>5. \A i \in 1..n : d[i].kind # "separator"
      <3> SUFFICES ASSUME NEW i \in 1..n PROVE d[i].kind # "separator" OBVIOUS
      <3>1. b[m + i] = d[i] /\ b[m + i].kind # "separator" BY <1>2, <2>3
      <3> QED BY <3>1
    <2>6. Headed(P, h) BY <1>4, <1>5, <2>2, <2>4 DEF Headed, m
    <2>7. \A i \in 1..n : d[i] \in Below(P, h) BY <1>1, <1>4, <2>5 DEF Below
    <2>8. d \in Seq(Below(P, h))
      <3> HIDE DEF seps
      <3> QED BY <1>1, <2>7 DEF n
    <2> QED BY <2>6, <2>8
  <1> QED BY <1>6, <1>7

\* A table that the pass leaves as it is.
TableStays(P, b, max, c) ==
    /\ c \in Blocked(P) /\ IsBlock(c) /\ InTable(c[1]) /\ Len(SubTables(c, max)) <= 1
    /\ Weight(c) <= Weight(b)

LEMMA SubTablesStay ==
  ASSUME NEW P, NEW b \in Blocked(P), IsBlock(b), InTable(b[1]), NEW max \in Int
  PROVE  /\ SubTables(b, max) \in Seq(Blocked(P))
         /\ \A i \in 1..Len(SubTables(b, max)) : TableStays(P, b, max, SubTables(b, max)[i])
  <1> DEFINE h == SubSeq(b, 1, HeaderLen(b))
             d == SubSeq(b, HeaderLen(b) + 1, Len(b))
             Y == Below(P, h)
             r == Rows(h, d, max)
             w == Weight(d)
             cs == SubTables(b, max)
  <1>1. h = SubSeq(b, 1, HeaderLen(b)) /\ d = SubSeq(b, HeaderLen(b) + 1, Len(b)) OBVIOUS
  <1> HIDE DEF h, d
  <1>2. TableSplit(P, b, max, h, d) BY <1>1, SubTablesAre
  <1>3. /\ h \in Texts(P) /\ d \in Texts(P) /\ h # <<>> /\ b = h \o d
        /\ Len(h) = HeaderLen(b) /\ r \in Gath(P) /\ cs = SplitOf(h, r)
        /\ cs \in Seq(Blocked(P))
    BY <1>2 DEF TableSplit
  <1>4. w \in Nat /\ Weight(h) \in Nat /\ Weight(b) = Weight(h) + w
    <2>1. h \in Seq(LinesOn(P)) /\ d \in Seq(LinesOn(P)) BY <1>3, StoutIs
    <2>2. Weight(h \o d) = Weight(h) + Weight(d) BY <2>1, WeightBoth
    <2> QED BY <1>3, <2>2, WeightOf
  <1> HIDE DEF r, cs, w
  <1>5. CASE d = <<>>
    <2>1. r = RowStart(h)
      <3>1. Rows(h, <<>>, max) = RowStart(h) BY <1>3, RowsMore
      <3> QED BY <1>5, <3>1, Zenon DEF r
    <2>2. r.cur = <<>> /\ r.chunks = <<>> BY <1>3, <2>1, StartIs
    <2>3. cs = <<>> BY <1>3, <2>2 DEF SplitOf
    <2> QED BY <1>3, <2>3 DEF cs
  <1>6. CASE d # <<>>
    <2>1. \A i \in 1..Len(b) : InTable(b[i]) BY DEF IsBlock
    <2>2. Headed(P, h) /\ d \in Seq(Y) BY <1>3, <1>6, <2>1, HeaderHeads
    <2>3. Y \in SUBSET Stout(P) BY DEF Below
    <2> HIDE DEF Y
    <2>4. RowsOK(Y, h, w, max, r) BY <1>3, <2>2, <2>3, RowsAll DEF r, w
    <2>5. \A c : RowChunk(Y, h, w, max, c) => TableStays(P, b, max, c)
      <3> SUFFICES ASSUME NEW c, RowChunk(Y, h, w, max, c) PROVE TableStays(P, b, max, c) OBVIOUS
      <3>1. /\ c \in Blocked(P) /\ IsBlock(c) /\ InTable(c[1]) /\ Len(SubTables(c, max)) <= 1
            /\ Weight(c) <= Weight(h) + w
        BY <1>4, <2>2, RowChunkStays DEF Y
      <3> QED BY <1>4, <3>1 DEF TableStays
    <2>6. \A i \in 1..Len(cs) : RowChunk(Y, h, w, max, cs[i])
      <3>1. \A i \in 1..Len(r.chunks) : RowChunk(Y, h, w, max, r.chunks[i]) BY <2>4 DEF RowsOK
      <3>2. CASE r.cur = <<>>
        <4>1. cs = r.chunks BY <1>3, <3>2 DEF SplitOf
        <4> QED BY <3>1, <4>1
      <3>3. CASE r.cur # <<>>
        <4> DEFINE x == h \o r.cur
        <4>1. RowChunk(Y, h, w, max, x) BY <2>4, <3>3 DEF RowChunk, RowsOK
        <4>2. RowFlush(h, r).chunks = Append(r.chunks, x) BY <1>3, <3>3, RowFlushIs
        <4>3. cs = Append(r.chunks, x) BY <1>3, <3>3, <4>2 DEF SplitOf
        <4>4. r.chunks \in Seq(Blocked(P)) BY <1>3 DEF Gath
        <4> HIDE DEF x
        <4> SUFFICES ASSUME NEW i \in 1..Len(cs) PROVE RowChunk(Y, h, w, max, cs[i]) OBVIOUS
        <4>5. Len(cs) = Len(r.chunks) + 1 /\ Len(r.chunks) \in Nat BY <4>3, <4>4
        <4>6. CASE i = Len(cs)
          <5>1. cs[i] = x BY <4>3, <4>4, <4>5, <4>6
          <5> QED BY <4>1, <5>1
        <4>7. CASE i # Len(cs)
          <5>1. i \in 1..Len(r.chunks) /\ cs[i] = r.chunks[i] BY <4>3, <4>4, <4>5, <4>7
          <5> QED BY <3>1, <5>1
        <4> QED BY <4>6, <4>7
      <3> QED BY <3>2, <3>3
    <2>7. \A i \in 1..Len(cs) : TableStays(P, b, max, cs[i]) BY <2>5, <2>6
    <2> QED BY <1>3, <2>7 DEF cs
  <1> QED BY <1>5, <1>6

-----------------------------------------------------------------------------
(* The pass over the blocks.                                               *)

\* What the pass adds to the size for a block.
Extent(b) == IF InTable(b[1]) THEN Length(b) ELSE LineLen(b[1]) + 1
Heads(a, b) == b[1].kind = "heading" /\ a.cur # <<>>
Long(b, max) == b[1].kind = "plain" /\ LineLen(b[1]) + 1 > max
Gathers(b, max) == ~LargeTable(b, max) /\ ~Long(b, max)

\* The step of the pass, by the kind of block.
LEMMA StructSteps ==
  ASSUME NEW P, NEW a \in Gath(P), NEW b \in Blocked(P), NEW max \in Nat \ {0}
  PROVE  /\ Heads(a, b) => Gathers(b, max) /\ StructStep(a, b, max) = Collect(Flush(a), b, Extent(b))
         /\ LargeTable(b, max) => StructStep(a, b, max) = [Flush(a) EXCEPT !.chunks = @ \o SubTables(b, max)]
         /\ Long(b, max) =>
              StructStep(a, b, max) = Spread(MakeRoom(a, LineLen(b[1]) + 1, max), Pieces(b[1], max), max)
         /\ Gathers(b, max) /\ ~Heads(a, b) =>
              StructStep(a, b, max) = Collect(MakeRoom(a, Extent(b), max), b, Extent(b))
         /\ LargeTable(b, max) => InTable(b[1])
         /\ Long(b, max) => ~InTable(b[1])
  <1>1. InTable(b[1]) <=> b[1].kind \in {"row", "separator"} BY DEF InTable
  <1> DEFINE k == b[1].kind
             heads == k = "heading" /\ a.cur # <<>>
             large == LargeTable(b, max)
             table == InTable(b[1])
             long == k = "plain" /\ LineLen(b[1]) + 1 > max
             c1 == Collect(Flush(a), b, LineLen(b[1]) + 1)
             c2 == [Flush(a) EXCEPT !.chunks = @ \o SubTables(b, max)]
             c3 == Collect(MakeRoom(a, Length(b), max), b, Length(b))
             c4 == Spread(MakeRoom(a, LineLen(b[1]) + 1, max), Pieces(b[1], max), max)
             c5 == Collect(MakeRoom(a, LineLen(b[1]) + 1, max), b, LineLen(b[1]) + 1)
  <1>2. StructStep(a, b, max) =
          CASE heads -> c1
            [] large -> c2
            [] table /\ ~large -> c3
            [] long -> c4
            [] OTHER -> c5
    BY DEF StructStep
  <1>3. large => table BY DEF LargeTable
  <1>4. (table => ~heads) /\ (table => ~long) /\ (heads => ~long) BY <1>1
  <1> HIDE DEF heads, large, table, long, c1, c2, c3, c4, c5
  <1>5. heads => StructStep(a, b, max) = c1 BY <1>2, <1>3, <1>4
  <1>6. large => StructStep(a, b, max) = c2 BY <1>2, <1>3, <1>4
  <1>7. table /\ ~large => StructStep(a, b, max) = c3 BY <1>2, <1>3, <1>4
  <1>8. long => StructStep(a, b, max) = c4 BY <1>2, <1>3, <1>4
  <1>9. ~heads /\ ~table /\ ~long => StructStep(a, b, max) = c5 BY <1>2, <1>3, <1>4
  <1>10. table => Extent(b) = Length(b) BY DEF Extent, table
  <1>11. ~table => Extent(b) = LineLen(b[1]) + 1 BY DEF Extent, table
  <1>12. heads <=> Heads(a, b) BY DEF heads, Heads, k
  <1>13. long <=> Long(b, max) BY DEF long, Long, k
  <1>14. Gathers(b, max) <=> ~large /\ ~long BY <1>13 DEF Gathers, large
  <1>15. heads => Gathers(b, max) /\ StructStep(a, b, max) = Collect(Flush(a), b, Extent(b))
    BY <1>3, <1>4, <1>5, <1>11, <1>14, Zenon DEF c1
  <1>16. Gathers(b, max) /\ ~heads =>
           StructStep(a, b, max) = Collect(MakeRoom(a, Extent(b), max), b, Extent(b))
    BY <1>7, <1>9, <1>10, <1>11, <1>14, Zenon DEF c3, c5
  <1> QED BY <1>3, <1>4, <1>6, <1>8, <1>12, <1>13, <1>15, <1>16, Zenon DEF large, table, c2, c4

\* A text that splitting by structure leaves in one piece.
Settled(c, max) == Len(Flush(Struct(Blocks(c), max)).chunks) <= 1
Whole1(P, w, max, c) == c \in Blocked(P) /\ Settled(c, max) /\ Weight(c) <= w

\* What is collected is what the pass collects of it alone.
Same(a, max) ==
    LET z == Struct(Blocks(a.cur), max)
    IN  z.chunks = <<>> /\ z.cur = a.cur /\ z.size = a.size

\* Every chunk is in one piece, and what is collected is collected again alike.
Sound(P, w, max, a) ==
    /\ a \in Gath(P)
    /\ \A i \in 1..Len(a.chunks) : Whole1(P, w, max, a.chunks[i])
    /\ Weight(a.cur) <= w
    /\ a.size >= 0
    /\ a.cur = <<>> => a.size = 0
    /\ Same(a, max)

\* The pass leaves stout texts.
LEMMA StructIs ==
  ASSUME NEW P, NEW max \in Nat \ {0}, NEW bs \in Seq(Blocked(P))
  PROVE  Struct(bs, max) \in Gath(P)
  <1>1. CASE bs = <<>> BY <1>1, StructMore, EmptyIs
  <1>2. CASE bs # <<>>
    <2>1. bs[1] \in Blocked(P) BY <1>2
    <2> QED BY <2>1, StructMore
  <1> QED BY <1>1, <1>2

\* What is collected becomes one chunk that stays in one piece.
LEMMA CurSettles ==
  ASSUME NEW P, NEW w \in Nat, NEW max \in Nat \ {0}, NEW a, Sound(P, w, max, a), a.cur # <<>>
  PROVE  Whole1(P, w, max, a.cur)
  <1> DEFINE t == a.cur
             z == Struct(Blocks(t), max)
  <1>1. t \in Texts(P) /\ t # <<>> /\ t \in Blocked(P) BY DEF Sound, Gath, Blocked
  <1>2. Blocks(t) \in Seq(Blocked(P)) BY <1>1, BlocksEnd
  <1>3. z \in Gath(P) BY <1>2, StructIs
  <1>4. z.chunks = <<>> /\ z.cur = t BY DEF Sound, Same
  <1> HIDE DEF z, t
  <1>5. Flush(z).chunks = Append(z.chunks, z.cur) BY <1>1, <1>3, <1>4, FlushIs
  <1>6. Flush(z).chunks = Append(<<>>, t) BY <1>4, <1>5
  <1>7. Len(Append(<<>>, t)) = 1 OBVIOUS
  <1>8. Settled(t, max) BY <1>6, <1>7 DEF Settled, z
  <1>9. Weight(t) <= w BY DEF Sound, t
  <1> QED BY <1>1, <1>8, <1>9 DEF Whole1, t

\* Of nothing, nothing is collected.
LEMMA SameNone ==
  ASSUME NEW P, NEW max \in Nat \ {0}, NEW a \in Gath(P), a.cur = <<>>, a.size = 0
  PROVE  Same(a, max)
  <1> DEFINE none == <<>>
  <1>1. Blocks(none) = none /\ Struct(none, max) = Empty BY BlocksMore, StructMore
  <1>2. Empty.chunks = none /\ Empty.cur = none /\ Empty.size = 0 BY EmptyIs
  <1>3. a.cur = none OBVIOUS
  <1> HIDE DEF none
  <1>4. Struct(Blocks(a.cur), max) = Empty BY <1>1, <1>3, Zenon
  <1> QED BY <1>2, <1>3, <1>4, Zenon DEF Same, none

\* The pass begins soundly.
LEMMA SoundEmpty ==
  ASSUME NEW P, NEW max \in Nat \ {0}
  PROVE  Sound(P, 0, max, Empty)
  <1> DEFINE none == <<>>
  <1>1. Empty \in Gath(P) /\ Empty.chunks = none /\ Empty.cur = none /\ Empty.size = 0 BY EmptyIs
  <1>2. Same(Empty, max) BY <1>1, SameNone
  <1>3. Weight(none) = 0 /\ Len(none) = 0 BY WeightMore
  <1> HIDE DEF none
  <1>4. Weight(Empty.cur) <= 0 BY <1>1, <1>3
  <1>5. Len(Empty.chunks) = 0 BY <1>1, <1>3
  <1> QED BY <1>1, <1>2, <1>4, <1>5 DEF Sound

\* Chunks may be said to weigh less than more.
LEMMA SoundMore ==
  ASSUME NEW P, NEW w \in Nat, NEW v \in Nat, w <= v, NEW max, NEW a
  PROVE  /\ Sound(P, w, max, a) => Sound(P, v, max, a)
         /\ \A c : Whole1(P, w, max, c) => Whole1(P, v, max, c)
  <1>1. ASSUME NEW c, Whole1(P, w, max, c) PROVE Whole1(P, v, max, c)
    <2>1. Weight(c) \in Nat /\ Weight(c) <= w BY <1>1, WeightOf DEF Whole1, Blocked
    <2>2. Weight(c) <= v BY <2>1
    <2> QED BY <1>1, <2>2 DEF Whole1
  <1>2. ASSUME Sound(P, w, max, a) PROVE Sound(P, v, max, a)
    <2>1. a.cur \in Texts(P) /\ Weight(a.cur) <= w BY <1>2 DEF Sound, Gath
    <2>2. Weight(a.cur) \in Nat BY <2>1, WeightOf
    <2>3. Weight(a.cur) <= v BY <2>1, <2>2
    <2> QED BY <1>1, <1>2, <2>3 DEF Sound
  <1> QED BY <1>1, <1>2

\* One chunk more.
LEMMA OneWhole ==
  ASSUME NEW P, NEW w, NEW max, NEW cs \in Seq(Blocked(P)), NEW c \in Blocked(P),
         \A i \in 1..Len(cs) : Whole1(P, w, max, cs[i]), Whole1(P, w, max, c)
  PROVE  /\ Append(cs, c) \in Seq(Blocked(P))
         /\ \A i \in 1..Len(Append(cs, c)) : Whole1(P, w, max, Append(cs, c)[i])
  <1> DEFINE ds == Append(cs, c)
  <1>1. ds \in Seq(Blocked(P)) /\ Len(ds) = Len(cs) + 1 /\ Len(cs) \in Nat
        /\ ds[Len(cs) + 1] = c /\ \A i \in 1..Len(cs) : ds[i] = cs[i]
    OBVIOUS
  <1> HIDE DEF ds
  <1>2. ASSUME NEW i \in 1..Len(ds) PROVE Whole1(P, w, max, ds[i])
    <2>1. CASE i = Len(cs) + 1 BY <1>1, <2>1
    <2>2. CASE i \in 1..Len(cs)
      <3>1. ds[i] = cs[i] BY <1>1, <2>2
      <3> QED BY <2>2, <3>1
    <2> QED BY <1>1, <2>1, <2>2
  <1> QED BY <1>1, <1>2 DEF ds

\* A flush leaves it sound.
LEMMA SoundFlush ==
  ASSUME NEW P, NEW w \in Nat, NEW max \in Nat \ {0}, NEW a, Sound(P, w, max, a)
  PROVE  Sound(P, w, max, Flush(a)) /\ Flush(a).cur = <<>> /\ Flush(a).size = 0
  <1>0. a \in Gath(P) BY DEF Sound
  <1> DEFINE f == Flush(a)
             none == <<>>
  <1>1. f \in Gath(P) /\ f.cur = none BY <1>0, FlushIs
  <1>2. CASE a.cur = <<>>
    <2>1. f = a /\ a.size = 0 BY <1>0, <1>2, FlushIs DEF Sound
    <2> QED BY <1>1, <2>1
  <1>3. CASE a.cur # <<>>
    <2>1. f.chunks = Append(a.chunks, a.cur) /\ f.size = 0 /\ a.cur \in Blocked(P)
      BY <1>0, <1>3, FlushIs
    <2>2. Whole1(P, w, max, a.cur) BY <1>3, CurSettles
    <2>3. a.chunks \in Seq(Blocked(P)) BY <1>0 DEF Gath
    <2>4. \A i \in 1..Len(a.chunks) : Whole1(P, w, max, a.chunks[i]) BY DEF Sound
    <2>5. \A i \in 1..Len(Append(a.chunks, a.cur)) : Whole1(P, w, max, Append(a.chunks, a.cur)[i])
      BY <2>1, <2>2, <2>3, <2>4, OneWhole
    <2> DEFINE cs == Append(a.chunks, a.cur)
    <2>6. f.chunks = cs /\ \A i \in 1..Len(cs) : Whole1(P, w, max, cs[i]) BY <2>1, <2>5
    <2> HIDE DEF cs, f
    <2>7. \A i \in 1..Len(f.chunks) : Whole1(P, w, max, f.chunks[i]) BY <2>6
    <2>8. Same(f, max) BY <1>1, <2>1, SameNone
    <2>9. Weight(none) = 0 BY WeightMore
    <2> HIDE DEF none
    <2>10. Weight(f.cur) <= w BY <1>1, <2>9
    <2> QED BY <1>1, <2>1, <2>7, <2>8, <2>10 DEF Sound, none, f
  <1> QED BY <1>2, <1>3

\* What a block adds.
LEMMA ExtentIs ==
  ASSUME NEW P, NEW b \in Blocked(P), IsBlock(b)
  PROVE  /\ Extent(b) \in Nat /\ LineLen(b[1]) \in Int /\ Weight(b) \in Nat
         /\ ~InTable(b[1]) => Extent(b) = Weight(b) /\ Extent(b) = LineLen(b[1]) + 1
  <1>1. b \in Texts(P) /\ b[1] \in Stout(P) /\ b # <<>> BY FirstLine DEF Blocked
  <1>2. LineLen(b[1]) \in Int /\ LineLen(b[1]) >= -1 BY <1>1, StoutIs
  <1>3. Weight(b) \in Nat /\ Length(b) = Weight(b) - 1 BY <1>1, WeightOf
  <1>4. CASE ~InTable(b[1])
    <2>1. b = <<b[1]>> BY <1>4, BlockEnds
    <2>2. b[1] \in LinesOn(P) BY <1>1, StoutIs
    <2>3. Weight(<<b[1]>>) = LineLen(b[1]) + 1 BY <2>2, OneLine
    <2>4. Weight(b) = LineLen(b[1]) + 1 BY <2>1, <2>3, Zenon
    <2> QED BY <1>2, <1>3, <1>4, <2>4 DEF Extent
  <1>5. CASE InTable(b[1])
    <2>1. Weight(b) >= 1
      <3>1. InTable(b[Len(b)]) /\ Len(b) \in Nat \ {0} BY <1>5, BlockEnds
      <3>2. b \in Seq(Stout(P)) BY <1>1 DEF Texts
      <3>3. PICK f \in Seq(Stout(P)), l \in Stout(P) : EndsWith(Stout(P), b, f, l)
        BY <1>1, <3>2, FrontAndLast
      <3>4. b = Append(f, l) /\ InTable(l) BY <3>1, <3>3 DEF EndsWith
      <3>5. LineLen(l) \in Int /\ LineLen(l) >= 0 /\ l \in LinesOn(P) BY <3>4, StoutIs
      <3>6. f \in Texts(P) /\ f \in Seq(LinesOn(P)) BY StoutIs DEF Texts
      <3>7. Weight(f) \in Nat BY <3>6, WeightOf
      <3>8. Weight(Append(f, l)) = Weight(f) + LineLen(l) + 1 BY <3>5, <3>6, WeightMore
      <3>9. Weight(b) = Weight(f) + LineLen(l) + 1 BY <3>4, <3>8
      <3> QED BY <3>5, <3>7, <3>9
    <2>2. Length(b) \in Nat BY <1>3, <2>1
    <2> QED BY <1>2, <1>3, <1>5, <2>2 DEF Extent
  <1> QED BY <1>4, <1>5

LEMMA EndsOfBoth ==
  ASSUME NEW P, NEW t \in Texts(P), NEW b \in Blocked(P)
  PROVE  /\ t \o b \in Blocked(P) /\ (EndsInTable(t \o b) <=> EndsInTable(b))
         /\ Weight(t \o b) = Weight(t) + Weight(b) /\ Weight(t) \in Nat /\ Weight(b) \in Nat
  <1> DEFINE c == t \o b
  <1>1. t \in Seq(Stout(P)) /\ b \in Seq(Stout(P)) /\ b # <<>> BY DEF Blocked, Texts
  <1>2. /\ c \in Seq(Stout(P)) /\ Len(c) = Len(t) + Len(b) /\ Len(t) \in Nat /\ Len(b) \in Nat \ {0}
        /\ \A i \in 1..Len(b) : c[Len(t) + i] = b[i]
    BY <1>1, Concat
  <1> HIDE DEF c
  <1>3. Len(b) \in 1..Len(b) BY <1>2
  <1>4. c[Len(c)] = b[Len(b)] BY <1>2, <1>3
  <1>5. c # <<>> BY <1>2
  <1>6. c \in Blocked(P) BY <1>2, <1>5 DEF Blocked, Texts
  <1>7. EndsInTable(c) <=> EndsInTable(b) BY <1>1, <1>4, <1>5 DEF EndsInTable
  <1>8. b \in Texts(P) BY <1>1 DEF Texts
  <1>9. t \in Seq(LinesOn(P)) /\ b \in Seq(LinesOn(P)) BY <1>8, StoutIs
  <1>10. Weight(t \o b) = Weight(t) + Weight(b) BY <1>9, WeightBoth
  <1>11. Weight(t) \in Nat /\ Weight(b) \in Nat BY <1>8, WeightOf
  <1> QED BY <1>6, <1>7, <1>10, <1>11 DEF c

\* Collecting a block leaves it sound, if it fits behind what there is.
LEMMA SoundCollect ==
  ASSUME NEW P, NEW w \in Nat, NEW max \in Nat \ {0}, NEW c, Sound(P, w, max, c),
         NEW b \in Blocked(P), IsBlock(b), ~(InTable(b[1]) /\ EndsInTable(c.cur)),
         Gathers(b, max), ~Heads(c, b), c.size + Extent(b) <= max \/ c.cur = <<>>
  PROVE  /\ Sound(P, w + Weight(b), max, Collect(c, b, Extent(b)))
         /\ EndsInTable(Collect(c, b, Extent(b)).cur) <=> InTable(b[1])
         /\ w + Weight(b) \in Nat
  <1> DEFINE t == c.cur
             n == Extent(b)
             e == Collect(c, b, n)
             z == Struct(Blocks(t), max)
             y == Collect(z, b, n)
  <1>1. c \in Gath(P) /\ t \in Texts(P) /\ c.size \in Nat /\ c.chunks \in Seq(Blocked(P))
    BY DEF Sound, Gath
  <1>2. b \in Texts(P) /\ n \in Nat /\ n \in Int /\ Weight(b) \in Nat BY ExtentIs DEF Blocked
  <1>3. /\ e \in Gath(P) /\ e.chunks = c.chunks /\ e.cur = t \o b /\ e.size = c.size + n
    <2>1. c.cur = t OBVIOUS
    <2> HIDE DEF n, t
    <2>2. /\ Collect(c, b, n) \in Gath(P) /\ Collect(c, b, n).chunks = c.chunks
          /\ Collect(c, b, n).cur = c.cur \o b /\ Collect(c, b, n).size = c.size + n
      BY <1>1, <1>2, CollectIs
    <2> QED BY <2>1, <2>2
  <1>4. t \o b \in Blocked(P) /\ (EndsInTable(t \o b) <=> InTable(b[1]))
        /\ Weight(t \o b) = Weight(t) + Weight(b) /\ Weight(t) \in Nat
    <2>1. EndsInTable(b) <=> InTable(b[1]) BY BlockEnds
    <2> HIDE DEF t
    <2>2. t \o b \in Blocked(P) /\ (EndsInTable(t \o b) <=> EndsInTable(b))
          /\ Weight(t \o b) = Weight(t) + Weight(b) /\ Weight(t) \in Nat
      BY <1>1, EndsOfBoth
    <2> QED BY <2>1, <2>2
  <1>5. Blocks(t \o b) = Append(Blocks(t), b) /\ Blocks(t) \in Seq(Blocked(P))
    BY <1>1, BlocksOfBoth, BlocksEnd
  <1>6. /\ z \in Gath(P) /\ z.chunks = <<>> /\ z.cur = t /\ z.size = c.size
        /\ Struct(Append(Blocks(t), b), max) = StructStep(z, b, max)
    <2>1. z.chunks = <<>> /\ z.cur = t /\ z.size = c.size BY DEF Sound, Same
    <2> QED BY <1>5, <2>1, StructMore, StructIs
  <1> HIDE DEF z, t, n, e, y
  <1>7. StructStep(z, b, max) = Collect(MakeRoom(z, n, max), b, n)
    <2>1. ~Heads(z, b) BY <1>6 DEF Heads, t
    <2> QED BY <1>6, <2>1, StructSteps DEF n
  <1>8. MakeRoom(z, n, max) = z
    <2>1. MakeRoom(z, n, max) = IF z.size + n > max THEN Flush(z) ELSE z BY <1>2, <1>6, MakeRoomIs
    <2>2. CASE z.cur = <<>>
      <3>1. Flush(z) = z BY <1>6, <2>2, FlushIs
      <3> QED BY <2>1, <3>1
    <2>3. CASE z.cur # <<>>
      <3>1. c.size + n <= max BY <1>6, <2>3 DEF t, n
      <3>2. ~(z.size + n > max) BY <1>1, <1>2, <1>6, <3>1
      <3> QED BY <2>1, <3>2
    <2> QED BY <2>2, <2>3
  <1>9. Struct(Blocks(t \o b), max) = y BY <1>5, <1>6, <1>7, <1>8, Zenon DEF y
  <1>10. y.chunks = z.chunks /\ y.cur = z.cur \o b /\ y.size = z.size + n
    BY <1>2, <1>6, CollectIs DEF y
  <1>11. Same(e, max)
    <2>1. Struct(Blocks(e.cur), max) = y BY <1>3, <1>9
    <2>2. y.chunks = <<>> /\ y.cur = e.cur /\ y.size = e.size BY <1>3, <1>6, <1>10
    <2> QED BY <2>1, <2>2 DEF Same
  <1>12. w + Weight(b) \in Nat /\ w <= w + Weight(b) BY <1>2
  <1>13. \A i \in 1..Len(e.chunks) : Whole1(P, w + Weight(b), max, e.chunks[i])
    <2>1. \A i \in 1..Len(e.chunks) : Whole1(P, w, max, e.chunks[i]) BY <1>3 DEF Sound
    <2> QED BY <1>12, <2>1, SoundMore
  <1>14. Weight(e.cur) <= w + Weight(b)
    <2>1. Weight(t) <= w BY DEF Sound, t
    <2> QED BY <1>2, <1>3, <1>4, <2>1
  <1>15. e.size >= 0 /\ e.cur # <<>>
    <2>1. e.cur # <<>> BY <1>3, <1>4 DEF Blocked
    <2> QED BY <1>1, <1>2, <1>3, <2>1
  <1>16. Sound(P, w + Weight(b), max, e) BY <1>3, <1>11, <1>13, <1>14, <1>15 DEF Sound
  <1> QED BY <1>3, <1>4, <1>12, <1>16 DEF e, n

\* The pieces of a long line.
Cuts(P, max, v) ==
    {p \in Stout(P) : p.kind = "plain" /\ LineLen(p) \in 1..max /\ LineLen(p) + 1 <= v}

\* A piece is a text of one line that fits.
LEMMA CutIs ==
  ASSUME NEW P, NEW max \in Nat \ {0}, NEW v \in Nat, NEW p \in Cuts(P, max, v)
  PROVE  /\ p \in Stout(P) /\ p.kind = "plain" /\ LineLen(p) \in 1..max /\ LineLen(p) \in Int
         /\ LineLen(p) + 1 <= v /\ ~InTable(p) /\ ~EndsInTable(<<p>>)
         /\ <<p>> \in Blocked(P) /\ IsBlock(<<p>>) /\ Extent(<<p>>) = LineLen(p) + 1
         /\ Weight(<<p>>) = LineLen(p) + 1 /\ <<p>> \in Texts(P) /\ ~LargeTable(<<p>>, max)
  <1> DEFINE b == <<p>>
  <1>1. p \in Stout(P) /\ p.kind = "plain" /\ LineLen(p) \in 1..max /\ LineLen(p) + 1 <= v
    BY DEF Cuts
  <1>2. ~InTable(p) BY <1>1 DEF InTable
  <1>3. Len(b) = 1 /\ b[1] = p OBVIOUS
  <1>4. b \in Blocked(P) /\ b \in Texts(P) BY <1>1, OneOf
  <1>5. p \in LinesOn(P) /\ LineLen(p) \in Int BY <1>1, StoutIs
  <1>6. Weight(b) = LineLen(p) + 1 BY <1>5, OneLine
  <1> HIDE DEF b
  <1>7. ~EndsInTable(b) BY <1>2, <1>3 DEF EndsInTable
  <1>8. IsBlock(b) BY <1>2, <1>3 DEF IsBlock
  <1>9. Extent(b) = LineLen(p) + 1 BY <1>2, <1>3 DEF Extent
  <1>10. ~LargeTable(b, max) BY <1>2, <1>3 DEF LargeTable
  <1> QED BY <1>1, <1>2, <1>4, <1>5, <1>6, <1>7, <1>8, <1>9, <1>10 DEF b

\* Splitting by structure collects such a piece, standing alone, as it is.
LEMMA CutAlone ==
  ASSUME NEW P, NEW max \in Nat \ {0}, NEW v \in Nat, NEW p \in Cuts(P, max, v)
  PROVE  Struct(Blocks(<<p>>), max) = Collect(Empty, <<p>>, LineLen(p) + 1)
  <1> DEFINE b == <<p>>
             n == LineLen(p) + 1
             none == <<>>
  <1>1. /\ p \in Stout(P) /\ p.kind = "plain" /\ LineLen(p) \in 1..max /\ n \in Int
        /\ b \in Blocked(P) /\ IsBlock(b) /\ Extent(b) = n /\ ~LargeTable(b, max)
    BY CutIs
  <1>2. b[1] = p OBVIOUS
  <1>3. Empty \in Gath(P) /\ Empty.cur = none /\ Empty.size = 0 /\ Flush(Empty) = Empty BY EmptyIs
  <1>4. none \in Seq(Blocked(P)) /\ Append(none, b) = <<b>> BY <1>1
  <1>5. \A k \in Int : MakeRoom(Empty, k, max) = Empty BY <1>3, MakeRoomIs
  <1>6. Blocks(b) = <<b>> BY <1>1, BlocksOfOne
  <1>7. Struct(none, max) = Empty /\ Struct(Append(none, b), max) = StructStep(Struct(none, max), b, max)
    BY <1>1, <1>4, StructMore
  <1>8. Struct(<<b>>, max) = StructStep(Empty, b, max) BY <1>4, <1>7, Zenon
  <1>9. ~Heads(Empty, b) BY <1>3 DEF Heads
  <1>10. LineLen(b[1]) + 1 = n BY <1>2
  <1>11. ~Long(b, max) => Gathers(b, max) BY <1>1 DEF Gathers
  <1>12. StructStep(Empty, b, max) = Collect(Empty, b, n)
    <2>1. CASE ~Long(b, max)
      <3> HIDE DEF b, n, none
      <3>1. StructStep(Empty, b, max) = Collect(MakeRoom(Empty, Extent(b), max), b, Extent(b))
        BY <1>1, <1>3, <1>9, <1>11, <2>1, StructSteps
      <3> QED BY <1>1, <1>5, <3>1
    <2>2. CASE Long(b, max)
      <3>1. LineLen(p) <= max /\ LineLen(p) > 0 BY <1>1
      <3>2. Pieces(p, max) = b BY <1>1, <3>1, PiecesIs
      <3>3. Append(none, p) = b OBVIOUS
      <3>4. none \in Seq(Stout(P)) OBVIOUS
      <3> HIDE DEF b, n, none
      <3>5. StructStep(Empty, b, max)
              = Spread(MakeRoom(Empty, LineLen(b[1]) + 1, max), Pieces(b[1], max), max)
        BY <1>1, <1>3, <2>2, StructSteps
      <3>6. StructStep(Empty, b, max) = Spread(Empty, b, max)
        BY <1>1, <1>2, <1>5, <1>10, <3>2, <3>5
      <3>7. /\ Spread(Empty, none, max) = Empty
            /\ \A s \in Seq(Stout(P)), q \in Stout(P) :
                  Spread(Empty, Append(s, q), max) = PieceStep(Spread(Empty, s, max), q, max)
        BY <1>3, SpreadMore DEF none
      <3>11. Spread(Empty, Append(none, p), max) = PieceStep(Spread(Empty, none, max), p, max)
        BY <1>1, <3>4, <3>7
      <3>8. PieceStep(Empty, p, max) = Collect(MakeRoom(Empty, LineLen(p), max), <<p>>, n)
        BY DEF PieceStep, n
      <3>9. MakeRoom(Empty, LineLen(p), max) = Empty BY <1>1, <1>5
      <3>10. <<p>> = b BY DEF b
      <3> QED BY <3>3, <3>6, <3>7, <3>8, <3>9, <3>10, <3>11, Zenon
    <2> QED BY <2>1, <2>2
  <1> QED BY <1>6, <1>8, <1>12, Zenon DEF b, n

\* A piece is collected where nothing else is.
LEMMA CutCollected ==
  ASSUME NEW P, NEW max \in Nat \ {0}, NEW v \in Nat, NEW p \in Cuts(P, max, v),
         NEW a, Sound(P, v, max, a), a.cur = <<>>
  PROVE  LET e == Collect(a, <<p>>, LineLen(p) + 1)
         IN  /\ Sound(P, v, max, e) /\ e.cur # <<>> /\ ~EndsInTable(e.cur)
             /\ e.size = LineLen(p) + 1
  <1> DEFINE b == <<p>>
             n == LineLen(p) + 1
             none == <<>>
             e == Collect(a, b, n)
             y == Collect(Empty, b, n)
  <1>1. /\ b \in Texts(P) /\ n \in Nat /\ n \in Int /\ b # none /\ ~EndsInTable(b)
        /\ Weight(b) = n /\ n <= v
    <2>1. /\ b \in Texts(P) /\ LineLen(p) \in 1..max /\ ~EndsInTable(b)
          /\ Weight(b) = n /\ n <= v
      BY CutIs
    <2>2. n \in Nat BY <2>1
    <2>3. b # none OBVIOUS
    <2> QED BY <2>1, <2>2, <2>3
  <1>2. Empty \in Gath(P) /\ Empty.chunks = none /\ Empty.cur = none /\ Empty.size = 0 BY EmptyIs
  <1>3. a \in Gath(P) /\ a.cur = none /\ a.size = 0 BY DEF Sound
  <1>4. Struct(Blocks(b), max) = y BY CutAlone
  <1>5. none \o b = b OBVIOUS
  <1> HIDE DEF b, n, none, e, y
  <1>6. /\ e \in Gath(P) /\ e.chunks = a.chunks /\ e.cur = a.cur \o b /\ e.size = a.size + n
    <2>1. /\ Collect(a, b, n) \in Gath(P) /\ Collect(a, b, n).chunks = a.chunks
          /\ Collect(a, b, n).cur = a.cur \o b /\ Collect(a, b, n).size = a.size + n
      <3>1. b \in Texts(P) /\ n \in Int BY <1>1
      <3>2. a \in Gath(P) BY <1>1, <1>3
      <3> QED BY <3>1, <3>2, CollectIs
    <2> QED BY <2>1 DEF e
  <1>7. /\ y \in Gath(P) /\ y.chunks = Empty.chunks /\ y.cur = Empty.cur \o b /\ y.size = Empty.size + n
    <2>1. /\ Collect(Empty, b, n) \in Gath(P) /\ Collect(Empty, b, n).chunks = Empty.chunks
          /\ Collect(Empty, b, n).cur = Empty.cur \o b /\ Collect(Empty, b, n).size = Empty.size + n
      <3>1. b \in Texts(P) /\ n \in Int BY <1>1
      <3>2. Empty \in Gath(P) BY <1>1, <1>2
      <3> QED BY <3>1, <3>2, CollectIs
    <2> QED BY <2>1 DEF y
  <1>8. e.cur = b /\ e.size = n BY <1>1, <1>3, <1>5, <1>6
  <1>9. y.chunks = none /\ y.cur = b /\ y.size = n BY <1>1, <1>2, <1>5, <1>7
  <1>10. Same(e, max)
    <2>1. Struct(Blocks(e.cur), max) = y BY <1>4, <1>8
    <2> QED BY <1>8, <1>9, <2>1 DEF Same, none
  <1>11. \A i \in 1..Len(e.chunks) : Whole1(P, v, max, e.chunks[i]) BY <1>6 DEF Sound
  <1>12. e.size >= 0 /\ e.cur # none BY <1>1, <1>8
  <1>13. Weight(e.cur) <= v BY <1>1, <1>8
  <1>14. Sound(P, v, max, e) BY <1>6, <1>10, <1>11, <1>12, <1>13 DEF Sound, none
  <1> QED BY <1>1, <1>8, <1>12, <1>14 DEF e, b, n, none

\* All pieces but the last are of full length, and so stand alone.
Filled(max, r) == \A i \in 1..Len(r) : i < Len(r) => LineLen(r[i]) = max
\* What spreading the pieces keeps.
SpreadOK(P, v, max, c, r) ==
    LET a == Spread(c, r, max)
    IN  /\ Sound(P, v, max, a) /\ ~EndsInTable(a.cur)
        /\ r = <<>> => a.cur = <<>>
        /\ r # <<>> => a.size = LineLen(r[Len(r)]) + 1

\* Spreading the pieces of a long line leaves it sound.
LEMMA SpreadSound ==
  ASSUME NEW P, NEW max \in Nat \ {0}, NEW v \in Nat, NEW c, Sound(P, v, max, c), c.cur = <<>>
  PROVE  \A ps \in Seq(Cuts(P, max, v)) : Filled(max, ps) => SpreadOK(P, v, max, c, ps)
  <1> DEFINE X == Cuts(P, max, v)
             none == <<>>
             T == {r \in Seq(X) : Filled(max, r) => SpreadOK(P, v, max, c, r)}
  <1>1. c \in Gath(P) /\ c.size = 0 BY DEF Sound
  <1>2. none \in T
    <2>1. Spread(c, none, max) = c BY <1>1, SpreadMore
    <2>2. ~EndsInTable(none) BY DEF EndsInTable
    <2>3. SpreadOK(P, v, max, c, none) BY <2>1, <2>2 DEF SpreadOK
    <2>4. none \in Seq(X) OBVIOUS
    <2> HIDE DEF X, none
    <2> QED BY <2>3, <2>4
  <1>3. ASSUME NEW r \in Seq(X), NEW p \in X, r \in T PROVE Append(r, p) \in T
    <2> DEFINE s == Append(r, p)
               a == Spread(c, r, max)
               m == MakeRoom(a, LineLen(p), max)
    <2>0. X \subseteq Stout(P) BY DEF Cuts
    <2>1. LineLen(p) \in 1..max /\ LineLen(p) \in Int /\ p \in Stout(P) BY CutIs
    <2> HIDE DEF X
    <2>2. /\ s \in Seq(X) /\ Len(s) = Len(r) + 1 /\ Len(r) \in Nat /\ s # none /\ s[Len(r) + 1] = p
          /\ \A i \in 1..Len(r) : s[i] = r[i]
          /\ r # none => Len(r) > 0 /\ r[Len(r)] \in X
      OBVIOUS
    <2>3. r \in Seq(Stout(P)) BY <2>0
    <2> SUFFICES ASSUME Filled(max, s) PROVE SpreadOK(P, v, max, c, s)
      BY <2>2
    <2> HIDE DEF T
    <2>4. \A i \in 1..Len(r) : LineLen(r[i]) = max
      <3> SUFFICES ASSUME NEW i \in 1..Len(r) PROVE LineLen(r[i]) = max OBVIOUS
      <3> HIDE DEF s
      <3>1. i \in 1..Len(s) /\ i < Len(s) BY <2>2
      <3>2. LineLen(s[i]) = max BY <3>1 DEF Filled
      <3> QED BY <2>2, <3>2
    <2>5. SpreadOK(P, v, max, c, r)
      <3>1. Filled(max, r) BY <2>4 DEF Filled
      <3> QED BY <1>3, <3>1 DEF T
    <2>6. a \in Gath(P) /\ Spread(c, s, max) = PieceStep(a, p, max)
      BY <1>1, <2>1, <2>3, SpreadMore
    <2>7. PieceStep(a, p, max) = Collect(m, <<p>>, LineLen(p) + 1) BY DEF PieceStep
    <2>8. Sound(P, v, max, a) /\ (r = none => a.cur = none)
          /\ (r # none => a.size = LineLen(r[Len(r)]) + 1)
      BY <2>5 DEF SpreadOK
    <2> HIDE DEF a
    <2>9. m = IF a.size + LineLen(p) > max THEN Flush(a) ELSE a BY <2>1, <2>6, MakeRoomIs
    <2>10. Sound(P, v, max, Flush(a)) /\ Flush(a).cur = none BY <2>8, SoundFlush
    <2>11. Sound(P, v, max, m) /\ m.cur = none
      <3>1. CASE r = none
        <4>1. Sound(P, v, max, a) /\ a.cur = none BY <2>8, <3>1
        <4> HIDE DEF m
        <4> QED BY <2>9, <2>10, <4>1
      <3>2. CASE r # none
        <4>1. a.size = max + 1
          <5>1. Len(r) \in 1..Len(r) BY <2>2, <3>2
          <5>2. LineLen(r[Len(r)]) = max BY <2>4, <5>1
          <5> QED BY <2>8, <3>2, <5>2
        <4>2. a.size + LineLen(p) > max BY <2>1, <4>1
        <4> HIDE DEF m
        <4> QED BY <2>9, <2>10, <4>2
      <3> QED BY <3>1, <3>2
    <2> HIDE DEF m, s, none
    <2>12. LET e == Collect(m, <<p>>, LineLen(p) + 1)
           IN  /\ Sound(P, v, max, e) /\ e.cur # <<>> /\ ~EndsInTable(e.cur)
               /\ e.size = LineLen(p) + 1
      <3>1. p \in Cuts(P, max, v) BY <1>3 DEF X
      <3>2. m.cur = <<>> /\ Sound(P, v, max, m) BY <2>11 DEF none
      <3> QED BY <3>1, <3>2, CutCollected
    <2>13. s[Len(s)] = p BY <2>2
    <2> QED BY <2>2, <2>6, <2>7, <2>12, <2>13 DEF SpreadOK, none
  <1> HIDE DEF T
  <1>4. <<>> \in T BY <1>2
  <1>5. \A s \in Seq(X) : s \in T
    <2> HIDE DEF X, none
    <2> QED BY <1>3, <1>4, OneByOne
  <1> QED BY <1>5 DEF T

\* A table that splitting leaves in at most one piece.
LEMMA TableSettles ==
  ASSUME NEW P, NEW max \in Nat \ {0}, NEW c \in Blocked(P), IsBlock(c), InTable(c[1]),
         Len(SubTables(c, max)) <= 1, SubTables(c, max) \in Seq(Blocked(P))
  PROVE  Settled(c, max)
  <1> DEFINE none == <<>>
             y == StructStep(Empty, c, max)
             st == SubTables(c, max)
  <1>1. Blocks(c) = <<c>> BY BlocksOfOne
  <1>2. none \in Seq(Blocked(P)) /\ Append(none, c) = <<c>> OBVIOUS
  <1>3. /\ Struct(none, max) = Empty
        /\ \A s \in Seq(Blocked(P)), b \in Blocked(P) :
              Struct(Append(s, b), max) = StructStep(Struct(s, max), b, max)
    BY StructMore
  <1>4. /\ Empty \in Gath(P) /\ Empty.cur = none /\ Empty.size = 0
        /\ Empty.chunks = none /\ Flush(Empty) = Empty
    BY EmptyIs
  <1> HIDE DEF none, st
  <1>5. Struct(Append(none, c), max) = y BY <1>2, <1>3
  <1> HIDE DEF y
  <1>6. Struct(Blocks(c), max) = y BY <1>1, <1>2, <1>5, Zenon
  <1>7. y \in Gath(P) BY <1>4, StructStepIs DEF y
  <1>8. CASE LargeTable(c, max)
    <2>1. y = [Flush(Empty) EXCEPT !.chunks = @ \o SubTables(c, max)]
      BY <1>4, <1>8, StructSteps DEF y
    <2>2. y = [Empty EXCEPT !.chunks = @ \o st] BY <1>4, <2>1, Zenon DEF st
    <2>3. y.cur = Empty.cur /\ y.chunks = Empty.chunks \o st BY <1>4, <2>2 DEF Gath
    <2>4. none \o st = st BY DEF none, st
    <2>5. y.cur = none /\ y.chunks = st BY <1>4, <2>3, <2>4
    <2>6. Flush(y) = y BY <1>7, <2>5, FlushIs DEF none
    <2> QED BY <1>6, <2>5, <2>6 DEF Settled, st
  <1>9. CASE ~LargeTable(c, max)
    <2> DEFINE n == Extent(c)
    <2>1. n \in Nat /\ n \in Int /\ c \in Texts(P) BY ExtentIs DEF Blocked
    <2>2. ~Long(c, max) BY <1>4, StructSteps
    <2>3. Gathers(c, max) BY <1>9, <2>2 DEF Gathers
    <2>4. ~Heads(Empty, c) BY <1>4 DEF Heads, none
    <2> HIDE DEF n
    <2>5. y = Collect(MakeRoom(Empty, n, max), c, n) BY <1>4, <2>3, <2>4, StructSteps DEF y, n
    <2>6. MakeRoom(Empty, n, max) = Empty BY <1>4, <2>1, MakeRoomIs
    <2>7. y = Collect(Empty, c, n) BY <2>5, <2>6
    <2>8. Collect(Empty, c, n).chunks = Empty.chunks /\ Collect(Empty, c, n).cur = Empty.cur \o c
      <3>1. Empty \in Gath(P) BY <1>4
      <3>2. c \in Texts(P) /\ n \in Int BY <2>1
      <3> QED BY ONLY <3>1, <3>2, CollectIs, Zenon
    <2>9. none \o c = c BY <2>1 DEF none, Texts
    <2>10. y.chunks = none /\ y.cur = c BY <1>4, <2>7, <2>8, <2>9
    <2>11. c # <<>> BY DEF Blocked
    <2>12. Flush(y).chunks = Append(y.chunks, y.cur) BY <1>7, <2>10, <2>11, FlushIs
    <2>13. Flush(y).chunks = <<c>> BY <1>2, <2>10, <2>12
    <2>14. Len(<<c>>) = 1 OBVIOUS
    <2> QED BY <1>6, <2>13, <2>14 DEF Settled
  <1> QED BY <1>8, <1>9

\* What a step keeps.
StepOK(P, v, max, b, e) ==
    Sound(P, v, max, e) /\ (EndsInTable(e.cur) => InTable(b[1])) /\ v \in Nat

\* A step that collects a block.
LEMMA CollectStep ==
  ASSUME NEW P, NEW w \in Nat, NEW max \in Nat \ {0}, NEW a, Sound(P, w, max, a),
         NEW b \in Blocked(P), IsBlock(b), ~(InTable(b[1]) /\ EndsInTable(a.cur)), Gathers(b, max)
  PROVE  StepOK(P, w + Weight(b), max, b, StructStep(a, b, max))
  <1> DEFINE f == Flush(a)
             n == Extent(b)
  <1>1. a \in Gath(P) BY DEF Sound
  <1>2. n \in Nat /\ n \in Int BY ExtentIs
  <1>3. Sound(P, w, max, f) /\ f.cur = <<>> BY SoundFlush
  <1>4. ~EndsInTable(f.cur) /\ ~Heads(f, b) BY <1>3 DEF EndsInTable, Heads
  <1> HIDE DEF f, n
  <1>5. StepOK(P, w + Weight(b), max, b, Collect(f, b, n))
    BY <1>3, <1>4, SoundCollect DEF StepOK, n
  <1>6. CASE Heads(a, b)
    <2>1. StructStep(a, b, max) = Collect(f, b, n) BY <1>1, <1>6, StructSteps DEF f, n
    <2> QED BY <1>5, <2>1
  <1>7. CASE ~Heads(a, b)
    <2>1. StructStep(a, b, max) = Collect(MakeRoom(a, n, max), b, n)
      BY <1>1, <1>7, StructSteps DEF n
    <2>2. MakeRoom(a, n, max) = IF a.size + n > max THEN f ELSE a BY <1>1, <1>2, MakeRoomIs DEF f
    <2>3. CASE a.size + n > max BY <1>5, <2>1, <2>2, <2>3
    <2>4. CASE ~(a.size + n > max)
      <3>1. a.size + n <= max
        <4>1. a.size \in Int BY <1>1 DEF Gath
        <4> QED BY <1>2, <2>4, <4>1
      <3>2. StructStep(a, b, max) = Collect(a, b, n) BY <2>1, <2>2, <2>4
      <3>3. StepOK(P, w + Weight(b), max, b, Collect(a, b, n))
        BY <1>7, <3>1, SoundCollect DEF StepOK, n
      <3> QED BY <3>2, <3>3
    <2> QED BY <2>3, <2>4
  <1> QED BY <1>6, <1>7

\* Two sequences of sound chunks.
LEMMA BothWhole ==
  ASSUME NEW P, NEW w, NEW max, NEW cs \in Seq(Blocked(P)), NEW ds \in Seq(Blocked(P)),
         \A i \in 1..Len(cs) : Whole1(P, w, max, cs[i]),
         \A i \in 1..Len(ds) : Whole1(P, w, max, ds[i])
  PROVE  /\ cs \o ds \in Seq(Blocked(P))
         /\ \A i \in 1..Len(cs \o ds) : Whole1(P, w, max, (cs \o ds)[i])
  <1> DEFINE es == cs \o ds
  <1>1. /\ es \in Seq(Blocked(P)) /\ Len(es) = Len(cs) + Len(ds) /\ Len(cs) \in Nat /\ Len(ds) \in Nat
        /\ \A i \in 1..Len(cs) : es[i] = cs[i]
        /\ \A i \in (Len(cs) + 1)..Len(es) : es[i] = ds[i - Len(cs)]
    BY Concat
  <1> HIDE DEF es
  <1>2. ASSUME NEW i \in 1..Len(es) PROVE Whole1(P, w, max, es[i])
    <2>1. CASE i \in 1..Len(cs) BY <1>1, <2>1
    <2>2. CASE i \in (Len(cs) + 1)..Len(es)
      <3>1. es[i] = ds[i - Len(cs)] BY <1>1, <2>2
      <3>2. i - Len(cs) \in 1..Len(ds) BY <1>1, <2>2
      <3>3. PICK k \in 1..Len(ds) : k = i - Len(cs) BY <3>2
      <3>4. Whole1(P, w, max, ds[k]) OBVIOUS
      <3> QED BY <3>1, <3>3, <3>4
    <2> QED BY <1>1, <2>1, <2>2
  <1> QED BY <1>1, <1>2 DEF es

\* A step that splits a large table.
LEMMA LargeStep ==
  ASSUME NEW P, NEW w \in Nat, NEW max \in Nat \ {0}, NEW a, Sound(P, w, max, a),
         NEW b \in Blocked(P), IsBlock(b), LargeTable(b, max)
  PROVE  StepOK(P, w + Weight(b), max, b, StructStep(a, b, max))
  <1> DEFINE f == Flush(a)
             v == w + Weight(b)
             st == SubTables(b, max)
             e == StructStep(a, b, max)
             es == f.chunks \o st
             none == <<>>
  <1>1. a \in Gath(P) BY DEF Sound
  <1>2. Weight(b) \in Nat BY ExtentIs
  <1>3. v \in Nat /\ w <= v /\ Weight(b) <= v BY <1>2
  <1>4. InTable(b[1]) BY <1>1, StructSteps
  <1>5. Sound(P, w, max, f) /\ f.cur = none /\ f.size = 0 BY SoundFlush
  <1>6. e = [Flush(a) EXCEPT !.chunks = @ \o SubTables(b, max)] BY <1>1, StructSteps
  <1>7. /\ st \in Seq(Blocked(P))
        /\ \A i \in 1..Len(st) : TableStays(P, b, max, st[i])
    BY <1>4, SubTablesStay
  <1> HIDE DEF f, v, st, e, none
  <1>8. Sound(P, v, max, f) BY <1>3, <1>5, SoundMore
  <1>9. f \in Gath(P) /\ f.chunks \in Seq(Blocked(P)) BY <1>5 DEF Sound, Gath
  <1>10. ASSUME NEW i \in 1..Len(st) PROVE Whole1(P, v, max, st[i])
    <2> DEFINE c == st[i]
    <2>1. TableStays(P, b, max, c) BY <1>7
    <2> HIDE DEF c
    <2>2. /\ c \in Blocked(P) /\ IsBlock(c) /\ InTable(c[1]) /\ Len(SubTables(c, max)) <= 1
          /\ Weight(c) <= Weight(b)
      BY <2>1 DEF TableStays
    <2>3. SubTables(c, max) \in Seq(Blocked(P)) BY <2>2, SubTablesStay
    <2>4. Settled(c, max) BY <2>2, <2>3, TableSettles
    <2>5. Weight(c) \in Nat BY <2>2, ExtentIs
    <2>6. Weight(c) <= v BY <1>2, <1>3, <2>2, <2>5
    <2> QED BY <2>2, <2>4, <2>6 DEF Whole1, c
  <1>11. \A i \in 1..Len(f.chunks) : Whole1(P, v, max, f.chunks[i]) BY <1>8 DEF Sound
  <1>12. es \in Seq(Blocked(P)) /\ \A i \in 1..Len(es) : Whole1(P, v, max, es[i])
    BY <1>7, <1>9, <1>10, <1>11, BothWhole
  <1>13. e = [f EXCEPT !.chunks = @ \o st] BY <1>6, Zenon DEF f, st
  <1>14. e.chunks = es /\ e.cur = f.cur /\ e.size = f.size BY <1>9, <1>13 DEF Gath
  <1>15. e \in Gath(P) BY <1>1, StructStepIs DEF e
  <1> HIDE DEF es
  <1>16. Same(e, max)
    <2>1. e.cur = <<>> /\ e.size = 0 BY <1>5, <1>14 DEF none
    <2> QED BY <1>15, <2>1, SameNone
  <1>17. \A i \in 1..Len(e.chunks) : Whole1(P, v, max, e.chunks[i]) BY <1>12, <1>14
  <1>18. Weight(e.cur) <= v /\ e.size >= 0
    <2>1. Weight(f.cur) <= v BY <1>8 DEF Sound
    <2> QED BY <1>5, <1>14, <2>1
  <1>19. e.size = 0 BY <1>5, <1>14
  <1>20. Sound(P, v, max, e) BY <1>15, <1>16, <1>17, <1>18, <1>19 DEF Sound
  <1> QED BY <1>3, <1>4, <1>20 DEF StepOK, v, e

\* A step that cuts a long line.
LEMMA LongStep ==
  ASSUME NEW P, NEW w \in Nat, NEW max \in Nat \ {0}, NEW a, Sound(P, w, max, a),
         NEW b \in Blocked(P), IsBlock(b), Long(b, max)
  PROVE  StepOK(P, w + Weight(b), max, b, StructStep(a, b, max))
  <1> DEFINE f == Flush(a)
             v == w + Weight(b)
             l == b[1]
             n == LineLen(l) + 1
             ps == Pieces(l, max)
             e == StructStep(a, b, max)
  <1>1. a \in Gath(P) /\ a.size \in Int /\ a.size >= 0 BY DEF Sound, Gath
  <1>2. Weight(b) \in Nat /\ LineLen(l) \in Int /\ ~InTable(l) /\ l \in Stout(P)
    BY <1>1, ExtentIs, StructSteps, FirstLine
  <1>3. v \in Nat /\ w <= v /\ Weight(b) <= v BY <1>2
  <1>4. Weight(b) = n BY <1>2, ExtentIs
  <1>5. n > max /\ LineLen(l) > 0
    <2>1. n > max BY DEF Long
    <2> QED BY <1>2, <2>1
  <1>6. Sound(P, w, max, f) /\ f.cur = <<>> BY SoundFlush
  <1>7. e = Spread(MakeRoom(a, n, max), ps, max) BY <1>1, StructSteps
  <1> HIDE DEF f, v, l, e
  <1>8. Sound(P, v, max, f) BY <1>3, <1>6, SoundMore
  <1>9. MakeRoom(a, n, max) = f
    <2>1. n \in Int BY <1>2
    <2> HIDE DEF n
    <2>2. a.size + n > max BY <1>1, <1>5, <2>1
    <2> QED BY <1>1, <2>1, <2>2, MakeRoomIs DEF f
  <1>10. /\ ps \in Texts(P)
         /\ \A i \in 1..Len(ps) : /\ ps[i] \in Stout(P) /\ ps[i].kind = "plain"
                                  /\ LineLen(ps[i]) \in 1..max /\ LineLen(ps[i]) <= LineLen(l)
                                  /\ i < Len(ps) => LineLen(ps[i]) = max
    BY <1>2, <1>5, PiecesIs
  <1> HIDE DEF ps
  <1>11. Filled(max, ps) BY <1>10 DEF Filled
  <1>12. \A i \in 1..Len(ps) : ps[i] \in Cuts(P, max, v)
    <2> TAKE i \in 1..Len(ps)
    <2> DEFINE p == ps[i]
    <2>1. p \in Stout(P) /\ p.kind = "plain" /\ LineLen(p) \in 1..max /\ LineLen(p) <= LineLen(l)
      BY <1>10
    <2> HIDE DEF p
    <2>2. LineLen(p) + 1 <= v BY <1>2, <1>3, <1>4, <2>1
    <2> QED BY <2>1, <2>2 DEF Cuts, p
  <1>13. ps \in Seq(Cuts(P, max, v))
    <2>1. ps \in Seq(Stout(P)) BY <1>10 DEF Texts
    <2> QED BY <1>12, <2>1
  <1>14. SpreadOK(P, v, max, f, ps) BY <1>3, <1>6, <1>8, <1>11, <1>13, SpreadSound
  <1>15. e = Spread(f, ps, max) BY <1>7, <1>9
  <1>16. Sound(P, v, max, e) /\ ~EndsInTable(e.cur) BY <1>14, <1>15 DEF SpreadOK
  <1> QED BY <1>3, <1>16 DEF StepOK, v, e

\* Each step of the pass.
LEMMA StructStepSound ==
  ASSUME NEW P, NEW w \in Nat, NEW max \in Nat \ {0}, NEW a, Sound(P, w, max, a),
         NEW b \in Blocked(P), IsBlock(b), ~(InTable(b[1]) /\ EndsInTable(a.cur))
  PROVE  StepOK(P, w + Weight(b), max, b, StructStep(a, b, max))
  <1>1. CASE LargeTable(b, max) BY <1>1, LargeStep
  <1>2. CASE Long(b, max) BY <1>2, LongStep
  <1>3. CASE Gathers(b, max) BY <1>3, CollectStep
  <1> QED BY <1>1, <1>2, <1>3 DEF Gathers

\* What the pass keeps from block to block.
StructOK(P, max, bs) ==
    /\ Sound(P, Burden(P, bs), max, Struct(bs, max)) /\ Burden(P, bs) \in Nat
    /\ EndsInTable(Struct(bs, max).cur) => bs # <<>> /\ InTable(bs[Len(bs)][1])

\* The pass over all blocks.
LEMMA StructSound ==
  ASSUME NEW P, NEW max \in Nat \ {0}
  PROVE  \A bs \in Seq(Blocked(P)) : AreBlocks(bs) => StructOK(P, max, bs)
  <1> DEFINE X == Blocked(P)
             none == <<>>
             T == {bs \in Seq(X) : AreBlocks(bs) => StructOK(P, max, bs)}
  <1>1. none \in T
    <2>1. Burden(P, none) = 0 BY BurdenMore
    <2>2. Struct(none, max) = Empty BY StructMore
    <2>3. Sound(P, 0, max, Empty) BY SoundEmpty
    <2>4. ~EndsInTable(Empty.cur) BY EmptyIs DEF EndsInTable
    <2>5. none \in Seq(X) OBVIOUS
    <2> HIDE DEF X, none
    <2> QED BY <2>1, <2>2, <2>3, <2>4, <2>5 DEF StructOK
  <1>2. ASSUME NEW bs \in Seq(X), NEW b \in X, bs \in T PROVE Append(bs, b) \in T
    <2> DEFINE cs == Append(bs, b)
               w == Burden(P, bs)
               a == Struct(bs, max)
    <2>1. /\ cs \in Seq(X) /\ cs # none /\ Len(cs) = Len(bs) + 1 /\ cs[Len(bs) + 1] = b
      OBVIOUS
    <2> SUFFICES ASSUME AreBlocks(cs) PROVE StructOK(P, max, cs) BY <2>1
    <2>2. /\ AreBlocks(bs) /\ IsBlock(b)
          /\ bs # none => ~(InTable(b[1]) /\ InTable(bs[Len(bs)][1]))
      BY MoreBlocks
    <2>3. StructOK(P, max, bs) BY <1>2, <2>2
    <2>4. Struct(cs, max) = StructStep(a, b, max) BY StructMore
    <2>5. Burden(P, cs) = w + Weight(b) BY BurdenMore
    <2> HIDE DEF T, cs, w, a, X, none
    <2>6. Sound(P, w, max, a) /\ w \in Nat BY <2>3 DEF StructOK, w, a
    <2>7. ~(InTable(b[1]) /\ EndsInTable(a.cur)) BY <2>2, <2>3 DEF StructOK, a, none
    <2>8. b \in Blocked(P) BY <1>2 DEF X
    <2>9. StepOK(P, w + Weight(b), max, b, StructStep(a, b, max))
      BY <2>2, <2>6, <2>7, <2>8, StructStepSound
    <2>10. cs[Len(cs)] = b BY <2>1
    <2> QED BY <2>1, <2>4, <2>5, <2>9, <2>10 DEF StepOK, StructOK, none
  <1> HIDE DEF T
  <1>3. <<>> \in T BY <1>1
  <1>4. \A s \in Seq(X) : s \in T
    <2> HIDE DEF X, none
    <2> QED BY <1>2, <1>3, OneByOne
  <1> QED BY <1>4 DEF T

\* Splitting by structure is the pass and a last flush.
LEMMA ByStructureIs ==
  ASSUME NEW text, NEW max
  PROVE  ByStructure(text, max) = IF Flush(Struct(Blocks(text), max)).chunks = <<>> THEN <<text>>
                                  ELSE Flush(Struct(Blocks(text), max)).chunks
  <1> DEFINE x == Flush(Struct(Blocks(text), max)).chunks
  <1>1. ByStructure(text, max) = At(x, LAMBDA cs : IF cs = <<>> THEN <<text>> ELSE cs)
    BY DEF ByStructure, Struct, StructStep
  <1> HIDE DEF x
  <1> QED BY <1>1, Zenon DEF At, x

\* Splitting a piece of a text by structure once more leaves it as it is.
Splits(P, text, max, cs) ==
    /\ cs \in Seq(Blocked(P)) /\ cs # <<>>
    /\ \A i \in 1..Len(cs) : Whole1(P, Weight(text), max, cs[i])
    /\ Settled(text, max) => Len(cs) <= 1

\* Splitting by structure splits into texts that it leaves in one piece.
LEMMA ByStructureSettles ==
  ASSUME NEW P, NEW max \in Nat \ {0}, NEW text \in Blocked(P)
  PROVE  Splits(P, text, max, ByStructure(text, max))
  <1> DEFINE bs == Blocks(text)
             w == Weight(text)
             z == Struct(bs, max)
             cs == Flush(z).chunks
             none == <<>>
  <1>1. text \in Texts(P) /\ text # none BY DEF Blocked
  <1>2. bs \in Seq(Blocked(P)) /\ AreBlocks(bs) BY <1>1, BlocksEnd
  <1>3. Burden(P, bs) = w BY <1>1, BlocksWeigh
  <1> HIDE DEF bs
  <1>4. StructOK(P, max, bs) BY <1>2, StructSound
  <1> HIDE DEF w, z, none
  <1>5. Sound(P, w, max, z) /\ w \in Nat BY <1>3, <1>4 DEF StructOK, z
  <1>6. Sound(P, w, max, Flush(z)) BY <1>5, SoundFlush
  <1>7. cs \in Seq(Blocked(P)) /\ \A i \in 1..Len(cs) : Whole1(P, w, max, cs[i])
    BY <1>6 DEF Sound, Gath
  <1>8. Settled(text, max) <=> Len(cs) <= 1 BY DEF Settled, z, bs
  <1>9. ByStructure(text, max) = IF cs = <<>> THEN <<text>> ELSE cs
    BY ByStructureIs, Zenon DEF z, bs
  <1> HIDE DEF cs
  <1>10. CASE cs # <<>>
    <2>1. ByStructure(text, max) = cs BY <1>9, <1>10
    <2> QED BY <1>7, <1>8, <1>10, <2>1 DEF Splits, w
  <1>11. CASE cs = <<>>
    <2> DEFINE ds == <<text>>
    <2>1. ByStructure(text, max) = ds BY <1>9, <1>11
    <2>2. Len(cs) <= 1 BY <1>11
    <2>3. Whole1(P, w, max, text) BY <1>5, <1>8, <2>2 DEF Whole1, w
    <2>4. ds \in Seq(Blocked(P)) /\ ds # <<>> /\ Len(ds) = 1 /\ ds[1] = text OBVIOUS
    <2> HIDE DEF ds
    <2>5. \A i \in 1..Len(ds) : Whole1(P, w, max, ds[i]) BY <2>3, <2>4
    <2>6. Len(ds) <= 1 BY <2>4
    <2> QED BY <2>1, <2>4, <2>5, <2>6 DEF Splits, w
  <1> QED BY <1>10, <1>11

-----------------------------------------------------------------------------
\* Splitting at line boundaries: what is collected weighs what it is counted at.
Light(P, max, c) == c \in Blocked(P) /\ Weight(c) <= max + 1
Weighed(P, max, a) ==
    /\ a \in Gath(P)
    /\ \A i \in 1..Len(a.chunks) : Light(P, max, a.chunks[i])
    /\ a.size = Weight(a.cur) /\ a.size <= max

\* A flush keeps what is weighed.
LEMMA WeighedFlush ==
  ASSUME NEW P, NEW max \in Nat, NEW a, Weighed(P, max, a)
  PROVE  Weighed(P, max, Flush(a)) /\ Flush(a).cur = <<>> /\ Flush(a).size = 0
  <1> DEFINE f == Flush(a)
             none == <<>>
  <1>1. /\ a \in Gath(P) /\ a.size = Weight(a.cur) /\ a.size <= max
        /\ \A i \in 1..Len(a.chunks) : Light(P, max, a.chunks[i])
    BY DEF Weighed
  <1>2. a.chunks \in Seq(Blocked(P)) /\ a.cur \in Texts(P) BY <1>1 DEF Gath
  <1>3. Weight(none) = 0 BY WeightMore
  <1>4. CASE a.cur = none
    <2>1. f = a /\ a.size = 0 BY <1>1, <1>3, <1>4, FlushIs
    <2> QED BY <1>4, <2>1
  <1>5. CASE a.cur # none
    <2> DEFINE c == a.cur
               cs == Append(a.chunks, c)
    <2>1. f \in Gath(P) /\ f.chunks = cs /\ f.size = 0 /\ f.cur = none /\ c \in Blocked(P)
      BY <1>1, <1>5, FlushIs
    <2>2. Light(P, max, c)
      <3>1. Weight(c) \in Nat /\ Weight(c) <= max BY <1>1, <1>2, WeightOf
      <3>2. Weight(c) <= max + 1 BY <3>1
      <3> QED BY <2>1, <3>2 DEF Light
    <2>3. \A i \in 1..Len(cs) : Light(P, max, cs[i])
      <3>1. /\ Len(cs) = Len(a.chunks) + 1 /\ Len(a.chunks) \in Nat /\ cs[Len(a.chunks) + 1] = c
            /\ \A i \in 1..Len(a.chunks) : cs[i] = a.chunks[i]
        BY <1>2
      <3> HIDE DEF cs, c
      <3> SUFFICES ASSUME NEW i \in 1..Len(cs) PROVE Light(P, max, cs[i]) OBVIOUS
      <3>2. CASE i = Len(a.chunks) + 1 BY <2>2, <3>1, <3>2
      <3>3. CASE i \in 1..Len(a.chunks)
        <4>1. cs[i] = a.chunks[i] BY <3>1, <3>3
        <4> QED BY <1>1, <3>3, <4>1
      <3> QED BY <3>1, <3>2, <3>3
    <2> HIDE DEF cs, c, f
    <2>4. \A i \in 1..Len(f.chunks) : Light(P, max, f.chunks[i]) BY <2>1, <2>3
    <2> HIDE DEF none
    <2>5. f.size = Weight(f.cur) /\ f.size <= max BY <1>3, <2>1
    <2> QED BY <2>1, <2>4, <2>5 DEF Weighed, none, f
  <1> QED BY <1>4, <1>5

\* One line more is weighed.
LEMMA LineStepWeighs ==
  ASSUME NEW P, NEW max \in Nat \ {0}, NEW a, Weighed(P, max, a), NEW l \in Stout(P)
  PROVE  Weighed(P, max, LineStep(a, l, max))
  <1> DEFINE e == LineStep(a, l, max)
             n == LineLen(l) + 1
             f == Flush(a)
             none == <<>>
  <1>1. a \in Gath(P) /\ a.size \in Int BY DEF Weighed, Gath
  <1>2. /\ LineLen(l) \in Int /\ LineLen(l) >= -1 /\ n \in Int /\ l \in LinesOn(P)
        /\ <<l>> \in Texts(P)
    BY StoutIs, OneOf
  <1>3. Weighed(P, max, f) /\ f.cur = none /\ f.size = 0 BY WeighedFlush
  <1>4. f \in Gath(P) /\ f.chunks \in Seq(Blocked(P)) BY <1>3 DEF Weighed, Gath
  <1>5. e \in Gath(P) BY <1>1, LineStepIs
  <1>6. CASE n > max
    <2> DEFINE ps == Pieces(l, max)
               new == [i \in 1..Len(ps) |-> <<ps[i]>>]
    <2>1. e.chunks = f.chunks \o new /\ e.cur = none /\ e.size = f.size
      BY <1>1, <1>6, LineStepIs
    <2>2. LineLen(l) > 0
      <3> HIDE DEF e, f, ps, new
      <3> QED BY <1>2, <1>6
    <2>3. /\ ps \in Texts(P)
          /\ \A i \in 1..Len(ps) : ps[i] \in Stout(P) /\ LineLen(ps[i]) \in 1..max
      BY <2>2, PiecesIs
    <2> HIDE DEF ps, e, f
    <2>4. \A i \in 1..Len(ps) : Light(P, max, <<ps[i]>>)
      <3> TAKE i \in 1..Len(ps)
      <3> DEFINE p == ps[i]
      <3>1. p \in Stout(P) /\ LineLen(p) \in 1..max BY <2>3
      <3> HIDE DEF p
      <3>2. <<p>> \in Blocked(P) /\ p \in LinesOn(P) BY <3>1, OneOf, StoutIs
      <3>3. Weight(<<p>>) = LineLen(p) + 1 BY <3>2, OneLine
      <3>4. Weight(<<p>>) <= max + 1 BY <3>1, <3>3
      <3> QED BY <3>2, <3>4 DEF Light, p
    <2>5. /\ Len(ps) \in Nat /\ new \in Seq(Blocked(P)) /\ Len(new) = Len(ps)
          /\ \A i \in 1..Len(new) : new[i] = <<ps[i]>>
      <3>1. Len(ps) \in Nat BY <2>3 DEF Texts
      <3>2. \A i \in 1..Len(ps) : <<ps[i]>> \in Blocked(P) BY <2>4 DEF Light
      <3> QED BY <3>1, <3>2
    <2> HIDE DEF new
    <2>6. \A i \in 1..Len(new) : Light(P, max, new[i]) BY <2>4, <2>5
    <2> DEFINE cs == f.chunks
               es == cs \o new
    <2>7. /\ Len(es) = Len(cs) + Len(new) /\ Len(cs) \in Nat /\ Len(new) \in Nat
          /\ \A i \in 1..Len(cs) : es[i] = cs[i]
          /\ \A i \in 1..Len(new) : es[Len(cs) + i] = new[i]
      <3>1. cs \in Seq(Blocked(P)) BY <1>4 DEF f
      <3>2. new \in Seq(Blocked(P)) BY <2>5
      <3> HIDE DEF cs
      <3>3. Len(cs) \in Nat /\ Len(new) \in Nat BY <3>1, <3>2
      <3> QED BY <3>1, <3>2, <3>3, Concat
    <2>8. \A i \in 1..Len(cs) : Light(P, max, cs[i]) BY <1>3 DEF Weighed
    <2> HIDE DEF es, cs
    <2>9. \A i \in 1..Len(es) : Light(P, max, es[i])
      <3> SUFFICES ASSUME NEW i \in 1..Len(es) PROVE Light(P, max, es[i]) OBVIOUS
      <3>1. CASE i \in 1..Len(cs)
        <4>1. es[i] = cs[i] BY <2>7, <3>1
        <4> QED BY <2>8, <3>1, <4>1
      <3>2. CASE i \notin 1..Len(cs)
        <4>1. i - Len(cs) \in 1..Len(new) BY <2>7, <3>2
        <4>2. PICK k \in 1..Len(new) : k = i - Len(cs) BY <4>1
        <4>3. i = Len(cs) + k BY <2>7, <4>2
        <4>4. es[i] = new[k] BY <2>7, <4>3
        <4> QED BY <2>6, <4>4
      <3> QED BY <3>1, <3>2
    <2>10. e.chunks = es BY <2>1 DEF es, cs
    <2>11. \A i \in 1..Len(e.chunks) : Light(P, max, e.chunks[i]) BY <2>9, <2>10
    <2>12. e.size = 0 /\ e.cur = none BY <1>3, <2>1
    <2>13. Weight(none) = 0 BY WeightMore
    <2> HIDE DEF none
    <2>14. e.size = Weight(e.cur) /\ e.size <= max BY <2>12, <2>13
    <2> QED BY <1>5, <2>11, <2>14 DEF Weighed, e
  <1>7. CASE ~(n > max)
    <2> DEFINE m == MakeRoom(a, n, max)
               b == <<l>>
    <2>1. e = Collect(m, b, n) BY <1>1, <1>7, LineStepIs
    <2>2. m \in Gath(P) /\ m = IF a.size + n > max THEN f ELSE a BY <1>1, <1>2, MakeRoomIs
    <2>3. b \in Texts(P) /\ Weight(b) = n BY <1>2, OneLine
    <2> HIDE DEF m, b, n, f, e
    <2>4. Weighed(P, max, m) /\ m.size + n <= max
      <3>1. CASE a.size + n > max
        <4>1. m = f BY <2>2, <3>1
        <4>2. n <= max BY <1>2, <1>7
        <4> QED BY <1>2, <1>3, <4>1, <4>2
      <3>2. CASE ~(a.size + n > max)
        <4>1. m = a BY <2>2, <3>2
        <4>2. a.size + n <= max BY <1>1, <1>2, <3>2
        <4> QED BY <4>1, <4>2
      <3> QED BY <3>1, <3>2
    <2>5. e.chunks = m.chunks /\ e.cur = m.cur \o b /\ e.size = m.size + n
      <3>1. Collect(m, b, n).chunks = m.chunks /\ Collect(m, b, n).cur = m.cur \o b
            /\ Collect(m, b, n).size = m.size + n
        <4>1. n \in Int BY <1>2 DEF n
        <4>2. m \in Gath(P) BY <2>2
        <4>3. b \in Texts(P) BY <2>3
        <4> QED BY <4>1, <4>2, <4>3, CollectIs
      <3> QED BY <2>1, <3>1
    <2>6. m.cur \in Texts(P) /\ m.size = Weight(m.cur) BY <2>4 DEF Weighed, Gath
    <2>7. m.cur \in Seq(LinesOn(P)) /\ b \in Seq(LinesOn(P)) BY <2>3, <2>6, StoutIs
    <2>8. Weight(m.cur \o b) = Weight(m.cur) + Weight(b) BY <2>7, WeightBoth
    <2>9. e.size = Weight(e.cur) /\ e.size <= max BY <2>3, <2>4, <2>5, <2>6, <2>8
    <2>10. \A i \in 1..Len(e.chunks) : Light(P, max, e.chunks[i]) BY <2>4, <2>5 DEF Weighed
    <2> QED BY <1>5, <2>9, <2>10 DEF Weighed, e
  <1> QED BY <1>6, <1>7

\* All lines are weighed.
LEMMA LinedWeighs ==
  ASSUME NEW P, NEW max \in Nat \ {0}
  PROVE  \A s \in Texts(P) : Weighed(P, max, Lined(s, max))
  <1> DEFINE X == Stout(P)
             none == <<>>
             T == {s \in Seq(X) : Weighed(P, max, Lined(s, max))}
  <1>1. none \in T
    <2>1. Lined(none, max) = Empty BY LinedMore
    <2>2. Empty \in Gath(P) /\ Empty.chunks = none /\ Empty.cur = none /\ Empty.size = 0 BY EmptyIs
    <2>3. Weight(none) = 0 /\ Len(none) = 0 BY WeightMore
    <2>4. none \in Seq(X) OBVIOUS
    <2> HIDE DEF X, none
    <2>5. Empty.size = Weight(Empty.cur) /\ Empty.size <= max BY <2>2, <2>3
    <2>6. Len(Empty.chunks) = 0 BY <2>2, <2>3
    <2>7. Weighed(P, max, Empty) BY <2>2, <2>5, <2>6 DEF Weighed
    <2> QED BY <2>1, <2>4, <2>7
  <1>2. ASSUME NEW s \in Seq(X), NEW l \in X, s \in T PROVE Append(s, l) \in T
    <2>1. Lined(Append(s, l), max) = LineStep(Lined(s, max), l, max) BY LinedMore
    <2>2. Weighed(P, max, Lined(s, max)) BY <1>2
    <2>3. Weighed(P, max, LineStep(Lined(s, max), l, max)) BY <2>2, LineStepWeighs
    <2>4. Append(s, l) \in Seq(X) OBVIOUS
    <2> HIDE DEF X
    <2> QED BY <2>1, <2>3, <2>4
  <1> HIDE DEF T
  <1>3. <<>> \in T BY <1>1
  <1>4. \A s \in Seq(X) : s \in T
    <2> HIDE DEF X, none
    <2> QED BY <1>2, <1>3, OneByOne
  <1> QED BY <1>4 DEF T, Texts

\* The end of a chunk that the next one repeats.
LEMMA OverlapIs ==
  ASSUME NEW P, NEW chunk \in Blocked(P), NEW n \in Nat
  PROVE  Overlapping(chunk, n) \in Texts(P) /\ Weight(Overlapping(chunk, n)) <= n + 1
  <1> DEFINE fits(i) == i > 1 /\ Length(SubSeq(chunk, i, Len(chunk))) < n
             whole == {i \in DOMAIN chunk : fits(i)}
             last == chunk[Len(chunk)]
             first == CHOOSE i \in whole : \A j \in whole : i <= j
             from == IF last.to - n > last.from THEN last.to - n ELSE last.from
             part == [last EXCEPT !.kind = "plain", !.from = from]
             none == <<>>
  <1>1. chunk \in Seq(Stout(P)) /\ chunk # none /\ Len(chunk) \in Nat \ {0} BY DEF Blocked, Texts
  <1>2. Overlapping(chunk, n) = IF n = 0 THEN none
                                ELSE IF whole # {} THEN SubSeq(chunk, first, Len(chunk))
                                ELSE <<part>>
    BY DEF Overlapping
  <1>3. ASSUME whole # {}
        PROVE  /\ SubSeq(chunk, first, Len(chunk)) \in Texts(P)
               /\ Weight(SubSeq(chunk, first, Len(chunk))) <= n + 1
    <2> DEFINE s == SubSeq(chunk, first, Len(chunk))
    <2>1. whole \subseteq 1..Len(chunk) BY <1>1
    <2>2. \E i \in whole : \A j \in whole : i <= j
      <3>1. whole \subseteq Nat BY <1>1, <2>1
      <3> HIDE DEF whole
      <3> QED BY <1>3, <3>1, Least
    <2>3. \A i \in whole : Length(SubSeq(chunk, i, Len(chunk))) < n OBVIOUS
    <2> HIDE DEF whole
    <2>4. first \in whole BY <2>2, Zenon
    <2>5. first \in 1..Len(chunk) BY <2>1, <2>4
    <2>6. Length(s) < n BY <2>3, <2>4
    <2> HIDE DEF first
    <2>7. s \in Texts(P) BY <1>1, <2>5 DEF Texts
    <2> HIDE DEF s
    <2>8. Length(s) \in Int /\ Weight(s) \in Nat /\ (Weight(s) = Length(s) + 1 \/ Weight(s) = 0)
      <3>1. CASE s = <<>> BY <2>7, <3>1, WeightOf
      <3>2. CASE s # <<>>
        <4>1. Length(s) \in Int /\ Weight(s) \in Nat /\ Length(s) = Weight(s) - 1
          BY <2>7, <3>2, WeightOf
        <4> QED BY <4>1
      <3> QED BY <3>1, <3>2
    <2>9. Weight(s) <= n + 1 BY <2>6, <2>8
    <2> QED BY <2>7, <2>9 DEF s
  <1>4. <<part>> \in Texts(P) /\ Weight(<<part>>) <= n + 1
    <2>1. Len(chunk) \in 1..Len(chunk) BY <1>1
    <2>2. last \in Stout(P) BY <1>1, <2>1
    <2> HIDE DEF last
    <2>3. last \in LinesOn(P) /\ LineLen(last) >= -1 BY <2>2, StoutIs
    <2>4. last.to \in Int /\ last.from \in Int /\ LineLen(last) = last.to - last.from
      BY <2>3 DEF LinesOn, LineLen
    <2>5. "plain" \in Kinds BY DEF Kinds
    <2>6. from \in Int /\ last.to - from <= n /\ last.to - from >= -1 BY <2>3, <2>4
    <2> HIDE DEF from
    <2>7. part \in LinesOn(P) /\ part.kind = "plain" /\ part.from = from /\ part.to = last.to
      BY <2>3, <2>5, <2>6 DEF LinesOn
    <2> HIDE DEF part
    <2>8. LineLen(part) = last.to - from BY <2>7 DEF LineLen
    <2>9. ~InTable(part) BY <2>7 DEF InTable
    <2>10. LineLen(part) >= -1 BY <2>6, <2>8
    <2>11. part \in Stout(P) BY <2>7, <2>9, <2>10 DEF Stout
    <2>12. Weight(<<part>>) = LineLen(part) + 1 BY <2>7, OneLine
    <2>13. <<part>> \in Texts(P) BY <2>11, OneOf
    <2>14. Weight(<<part>>) <= n + 1 BY <2>4, <2>6, <2>8, <2>12
    <2> QED BY <2>13, <2>14
  <1>5. none \in Texts(P) /\ Weight(none) <= n + 1
    <2>1. Weight(none) = 0 BY WeightMore
    <2>2. none \in Texts(P) BY DEF Texts
    <2> HIDE DEF none
    <2> QED BY <2>1, <2>2
  <1> HIDE DEF whole, first, part, none
  <1> QED BY <1>2, <1>3, <1>4, <1>5

\* A chunk of this size, or an overlap larger.
Fitting(P, max, overlap, c) == c \in Blocked(P) /\ Length(c) <= max + overlap + 1
AllFit(P, max, overlap, cs) ==
    cs \in Seq(Blocked(P)) /\ \A i \in 1..Len(cs) : Fitting(P, max, overlap, cs[i])

\* Splitting at line boundaries exceeds the limit by an overlap at most.
LEMMA OnLineBoundariesFit ==
  ASSUME NEW P, NEW max \in Nat \ {0}, NEW overlap \in Nat, NEW text \in Texts(P)
  PROVE  AllFit(P, max, overlap, OnLineBoundaries(text, max, overlap))
  <1> DEFINE z == Lined(text, max)
             cs == Flush(z).chunks
             piece(i) == IF i = 1 THEN cs[1] ELSE Overlapping(cs[i - 1], overlap) \o cs[i]
             overlapped(ds) ==
               [i \in DOMAIN ds |-> IF i = 1 THEN ds[1] ELSE Overlapping(ds[i - 1], overlap) \o ds[i]]
             es == OnLineBoundaries(text, max, overlap)
  <1>1. es = At(cs, overlapped) BY DEF OnLineBoundaries, Lined, LineStep
  <1>2. Weighed(P, max, z) BY LinedWeighs
  <1> HIDE DEF z
  <1>3. Weighed(P, max, Flush(z)) BY <1>2, WeighedFlush
  <1>4. /\ cs \in Seq(Blocked(P)) /\ Len(cs) \in Nat
        /\ \A i \in 1..Len(cs) : Light(P, max, cs[i])
    BY <1>3 DEF Weighed, Gath
  <1>5. DOMAIN cs = 1..Len(cs) BY <1>4
  <1> HIDE DEF cs, es
  <1>6. es = overlapped(cs)
    <2> HIDE DEF overlapped
    <2> QED BY <1>1, Zenon DEF At
  <1>7. es = [i \in 1..Len(cs) |-> piece(i)] BY <1>5, <1>6
  <1>8. ASSUME NEW i \in 1..Len(cs) PROVE Fitting(P, max, overlap, piece(i))
    <2>1. cs[i] \in Blocked(P) /\ Weight(cs[i]) <= max + 1 BY <1>4 DEF Light
    <2>2. CASE i = 1
      <3>1. piece(i) = cs[i] BY <2>2
      <3>2. cs[i] \in Texts(P) /\ cs[i] # <<>> BY <2>1 DEF Blocked
      <3>3. Length(cs[i]) = Weight(cs[i]) - 1 /\ Weight(cs[i]) \in Nat BY <3>2, WeightOf
      <3> HIDE DEF piece
      <3>4. Length(cs[i]) <= max + overlap + 1 BY <2>1, <3>3
      <3> QED BY <2>1, <3>1, <3>4 DEF Fitting
    <2>3. CASE i # 1
      <3> DEFINE o == Overlapping(cs[i - 1], overlap)
                 c == cs[i]
                 d == o \o c
      <3>1. piece(i) = d BY <2>3
      <3>2. PICK k \in 1..Len(cs) : k = i - 1 BY <1>4, <2>3
      <3>3. cs[k] \in Blocked(P) BY <1>4 DEF Light
      <3>4. Overlapping(cs[k], overlap) \in Texts(P) /\ Weight(Overlapping(cs[k], overlap)) <= overlap + 1
        BY <3>3, OverlapIs
      <3>5. o \in Texts(P) /\ Weight(o) <= overlap + 1 BY <3>2, <3>4
      <3>6. c \in Blocked(P) /\ Weight(c) <= max + 1 BY <2>1
      <3> HIDE DEF piece, o, c
      <3>7. d \in Blocked(P) /\ Weight(d) = Weight(o) + Weight(c) /\ Weight(o) \in Nat
            /\ Weight(c) \in Nat
        BY <3>5, <3>6, EndsOfBoth
      <3> HIDE DEF d
      <3>8. d \in Texts(P) /\ d # <<>> BY <3>7 DEF Blocked
      <3>9. Length(d) = Weight(d) - 1 BY <3>8, WeightOf
      <3>10. Length(d) <= max + overlap + 1 BY <3>5, <3>6, <3>7, <3>9
      <3> QED BY <3>1, <3>7, <3>10 DEF Fitting
    <2> QED BY <2>2, <2>3
  <1> HIDE DEF piece
  <1>9. \A i \in 1..Len(cs) : piece(i) \in Blocked(P) BY <1>8 DEF Fitting
  <1>10. /\ es \in Seq(Blocked(P)) /\ Len(es) = Len(cs)
         /\ \A i \in 1..Len(cs) : es[i] = piece(i)
    BY <1>4, <1>7, <1>9
  <1>11. ASSUME NEW i \in 1..Len(es) PROVE Fitting(P, max, overlap, es[i])
    BY <1>8, <1>10
  <1> QED BY <1>10, <1>11 DEF AllFit, es

-----------------------------------------------------------------------------
\* A chunk that is no more than an overlap too large, or in one piece.
Cut1(P, c) == c \in Blocked(P) /\ (Fitting(P, MaxSize, Overlap, c) \/ Settled(c, MaxSize))
Cuttings(P) == {c \in Blocked(P) : Cut1(P, c)}
Fitted(P) == {c \in Blocked(P) : \/ 10 * Length(c) <= 12 * MaxSize
                                 \/ Length(c) <= MaxSize + Overlap + 1}

LEMMA SizesAre == MaxSize \in Nat \ {0} /\ Overlap \in Nat
  BY ChunkerAssumption DEF MaxSize

\* A text that is split has chunks that fit, or that stay in one piece.
LEMMA SimpleCuts ==
  ASSUME NEW P, NEW text \in Blocked(P)
  PROVE  Simple(text, MaxSize, Overlap) \in Seq(Cuttings(P))
  <1> DEFINE ss == Simple(text, MaxSize, Overlap)
             bs == ByStructure(text, MaxSize)
             ls == OnLineBoundaries(text, MaxSize, Overlap)
             ts == <<text>>
  <1>1. MaxSize \in Nat \ {0} /\ Overlap \in Nat BY SizesAre
  <1>2. text \in Texts(P) /\ text # <<>> BY DEF Blocked
  <1>3. ss = IF Length(text) <= MaxSize THEN ts
             ELSE At(bs, LAMBDA cs : IF Len(cs) > 1 THEN cs ELSE ls)
    BY DEF Simple
  <1>4. Splits(P, text, MaxSize, bs) BY <1>1, ByStructureSettles
  <1>5. AllFit(P, MaxSize, Overlap, ls) BY <1>1, <1>2, OnLineBoundariesFit
  <1>6. ts \in Seq(Blocked(P)) /\ Len(ts) = 1 /\ ts[1] = text OBVIOUS
  <1> HIDE DEF bs, ls, ts, ss
  <1>7. ss \in {ts, bs, ls} /\ (ss = ts => ts \in {bs, ls} \/ Length(text) <= MaxSize)
    BY <1>3, Zenon DEF At
  <1>8. bs \in Seq(Cuttings(P))
    <2>1. bs \in Seq(Blocked(P)) /\ \A i \in 1..Len(bs) : Whole1(P, Weight(text), MaxSize, bs[i])
      BY <1>4 DEF Splits
    <2>2. \A i \in 1..Len(bs) : bs[i] \in Cuttings(P) BY <2>1 DEF Whole1, Cut1, Cuttings
    <2> QED BY <2>1, <2>2
  <1>9. ls \in Seq(Cuttings(P))
    <2>1. ls \in Seq(Blocked(P)) /\ \A i \in 1..Len(ls) : Fitting(P, MaxSize, Overlap, ls[i])
      BY <1>5 DEF AllFit
    <2>2. \A i \in 1..Len(ls) : ls[i] \in Cuttings(P) BY <2>1 DEF Fitting, Cut1, Cuttings
    <2> QED BY <2>1, <2>2
  <1>10. ASSUME Length(text) <= MaxSize PROVE ts \in Seq(Cuttings(P))
    <2>1. Length(text) \in Int BY <1>2, WeightOf
    <2>2. Length(text) <= MaxSize + Overlap + 1 BY <1>1, <1>10, <2>1
    <2>3. text \in Cuttings(P) BY <2>2 DEF Fitting, Cut1, Cuttings
    <2> QED BY <2>3 DEF ts
  <1> QED BY <1>7, <1>8, <1>9, <1>10 DEF ss

\* Splitting what is too large leaves nothing that is.
LEMMA SplitFits ==
  ASSUME NEW P, NEW text \in Cuttings(P), 10 * Length(text) > 12 * MaxSize
  PROVE  LET bs == ByStructure(text, MaxSize)
         IN  (IF Len(bs) > 1 THEN bs ELSE Simple(text, MaxSize, Overlap)) \in Seq(Fitted(P))
  <1> DEFINE ss == Simple(text, MaxSize, Overlap)
             bs == ByStructure(text, MaxSize)
             ls == OnLineBoundaries(text, MaxSize, Overlap)
             n == Length(text)
             pick(cs) == IF Len(cs) > 1 THEN cs ELSE ls
  <1>1. MaxSize \in Nat \ {0} /\ Overlap \in Nat BY SizesAre
  <1>2. text \in Blocked(P) /\ Cut1(P, text) /\ text \in Texts(P) /\ text # <<>> BY DEF Blocked, Cuttings
  <1>3. n \in Int /\ n = Weight(text) - 1 /\ Weight(text) \in Nat BY <1>2, WeightOf
  <1>4. n > MaxSize
    <2> HIDE DEF n
    <2> QED BY <1>1, <1>3 DEF n
  <1>5. ss = At(bs, pick)
    <2>1. ~(Length(text) <= MaxSize) BY <1>1, <1>3, <1>4
    <2> QED BY <2>1 DEF Simple
  <1>6. Splits(P, text, MaxSize, bs) BY <1>1, <1>2, ByStructureSettles
  <1>7. AllFit(P, MaxSize, Overlap, ls) BY <1>1, <1>2, OnLineBoundariesFit
  <1> HIDE DEF bs, ls, ss, n
  <1>8. ss = IF Len(bs) > 1 THEN bs ELSE ls
    <2>1. ss = pick(bs)
      <3> HIDE DEF pick
      <3> QED BY <1>5, Zenon DEF At
    <2> QED BY <2>1
  <1>9. CASE Len(bs) > 1
    <2>1. bs \in Seq(Blocked(P)) /\ \A i \in 1..Len(bs) : Whole1(P, Weight(text), MaxSize, bs[i])
      BY <1>6 DEF Splits
    <2>2. ~Settled(text, MaxSize)
      <3>1. Len(bs) \in Nat BY <2>1
      <3>2. ~(Len(bs) <= 1) BY <1>9, <3>1
      <3> QED BY <1>6, <3>2 DEF Splits
    <2>3. n <= MaxSize + Overlap + 1 BY <1>2, <2>2 DEF Cut1, Fitting, n
    <2>4. \A i \in 1..Len(bs) : bs[i] \in Fitted(P)
      <3> TAKE i \in 1..Len(bs)
      <3> DEFINE c == bs[i]
      <3>1. c \in Blocked(P) /\ Weight(c) <= Weight(text) BY <2>1 DEF Whole1
      <3> HIDE DEF c
      <3>2. c \in Texts(P) /\ c # <<>> BY <3>1 DEF Blocked
      <3>3. Length(c) = Weight(c) - 1 /\ Weight(c) \in Nat BY <3>2, WeightOf
      <3>4. Length(c) <= MaxSize + Overlap + 1 BY <1>1, <1>3, <2>3, <3>1, <3>3
      <3> QED BY <3>1, <3>4 DEF Fitted, c
    <2>5. bs \in Seq(Fitted(P)) BY <2>1, <2>4
    <2> QED BY <1>9, <2>5 DEF bs, ss
  <1>10. CASE ~(Len(bs) > 1)
    <2>1. ls \in Seq(Blocked(P)) /\ \A i \in 1..Len(ls) : Fitting(P, MaxSize, Overlap, ls[i])
      BY <1>7 DEF AllFit
    <2>2. \A i \in 1..Len(ls) : ls[i] \in Fitted(P) BY <2>1 DEF Fitting, Fitted
    <2>3. ls \in Seq(Fitted(P)) BY <2>1, <2>2
    <2>4. ss \in Seq(Fitted(P)) BY <1>8, <1>10, <2>3
    <2> QED BY <1>10, <2>4 DEF bs, ss
  <1> QED BY <1>9, <1>10

\* Chunks with these texts, and pages whose lines are stout.
Pairs(X) == [text : X, page : Nat]
StoutPage(P) == [id : Nat, text : Texts(P)]

LEMMA PairIs ==
  ASSUME NEW X, NEW t \in X, NEW p \in Nat
  PROVE  [text |-> t, page |-> p] \in Pairs(X)
  BY DEF Pairs

\* Chunks keep their texts when they are given their page.
LEMMA TaggedPairs ==
  ASSUME NEW X, NEW chunks \in Seq(X), NEW page \in Nat
  PROVE  Tagged(chunks, page) \in Seq(Pairs(X))
  <1> DEFINE tag(i) == [text |-> chunks[i], page |-> page]
             all == [i \in DOMAIN chunks |-> tag(i)]
             I == {i \in DOMAIN chunks : Length(chunks[i]) >= MinPiece}
  <1>1. Tagged(chunks, page) = Keep(all, I) BY Zenon DEF Tagged, At
  <1>2. DOMAIN chunks = 1..Len(chunks) /\ Len(chunks) \in Nat
        /\ \A i \in DOMAIN chunks : chunks[i] \in X
    OBVIOUS
  <1>3. \A i \in DOMAIN chunks : tag(i) \in Pairs(X) BY <1>2, PairIs
  <1> HIDE DEF tag, I
  <1>4. all \in Seq(Pairs(X)) BY <1>2, <1>3
  <1> HIDE DEF all
  <1> QED BY <1>1, <1>4, KeepOf

\* Texts joined as long as they fit.
LEMMA JoinFits ==
  ASSUME NEW P, NEW s \in Texts(P), NEW t \in Texts(P), s # <<>>,
         Length(s) + Length(t) + 1 <= MaxSize
  PROVE  s \o t \in Blocked(P) /\ Length(s \o t) <= MaxSize
  <1> DEFINE c == s \o t
  <1>1. s \in Seq(LinesOn(P)) /\ t \in Seq(LinesOn(P)) BY StoutIs
  <1>2. Weight(s \o t) = Weight(s) + Weight(t) BY <1>1, WeightBoth
  <1>3. Weight(s) \in Nat /\ Length(s) = Weight(s) - 1 BY WeightOf
  <1>4. Weight(t) \in Nat /\ Length(t) \in Int /\ Weight(t) <= Length(t) + 1
    <2>1. CASE t = <<>>
      <3>1. Weight(t) = 0 /\ Length(t) = 0 BY <2>1, WeightOf
      <3> QED BY <3>1
    <2>2. CASE t # <<>>
      <3>1. Weight(t) \in Nat /\ Length(t) \in Int /\ Length(t) = Weight(t) - 1 BY <2>2, WeightOf
      <3> QED BY <3>1
    <2> QED BY <2>1, <2>2
  <1>5. c \in Blocked(P)
    <2>1. c \in Seq(Stout(P)) /\ c # <<>> BY DEF Texts
    <2> HIDE DEF c
    <2> QED BY <2>1 DEF Blocked, Texts
  <1> HIDE DEF c
  <1>6. c \in Texts(P) /\ c # <<>> BY <1>5 DEF Blocked
  <1>7. Length(c) = Weight(c) - 1 BY <1>6, WeightOf
  <1>8. Weight(c) = Weight(s) + Weight(t) BY <1>2 DEF c
  <1>9. MaxSize \in Nat BY SizesAre
  <1>10. Length(c) <= MaxSize BY <1>3, <1>4, <1>7, <1>8, <1>9
  <1> QED BY <1>5, <1>10 DEF c

LEMMA SmallFits ==
  ASSUME NEW P, NEW c \in Blocked(P), Length(c) <= MaxSize
  PROVE  c \in Cuttings(P) /\ c \in Fitted(P)
  <1>1. c \in Texts(P) BY DEF Blocked
  <1>2. Length(c) \in Int BY <1>1, WeightOf
  <1>3. Length(c) <= MaxSize + Overlap + 1 BY <1>2, SizesAre
  <1> QED BY <1>3 DEF Fitted, Cuttings, Cut1, Fitting

\* The pages of a section, merged or split.
LEMMA MergePagesCuts ==
  ASSUME NEW P, NEW pages_ \in Seq(StoutPage(P))
  PROVE  MergePages(pages_) \in Seq(Pairs(Cuttings(P)))
  <1> DEFINE close(a) == IF a.text = <<>> THEN a.out
                         ELSE Append(a.out, [text |-> a.text, page |-> a.page])
             n == Len(pages_)
             X == Pairs(Cuttings(P))
             R == [out : Seq(X), text : Texts(P), page : Nat]
             S == {a \in R : Length(a.text) <= MaxSize}
             base == [out |-> <<>>, text |-> <<>>, page |-> 0]
             op(a, p) ==
            IF Length(p.text) > MaxSize
            THEN [out |-> close(a) \o Tagged(Simple(p.text, MaxSize, Overlap), p.id),
                  text |-> <<>>, page |-> p.id]
            ELSE IF a.text # <<>> /\ Length(a.text) + Length(p.text) + 1 <= MaxSize
            THEN [a EXCEPT !.text = @ \o p.text]
            ELSE [out |-> close(a), text |-> p.text, page |-> p.id]
             G == [i \in 1..n |-> [a \in S |-> op(a, pages_[i])]]
             E(g) == [i \in 0..n |->
                        IF i = 0 THEN base ELSE At(g[i - 1], LAMBDA a : op(a, pages_[i]))]
             f == CHOOSE g : g = E(g)
  <1>0. ASSUME NEW out \in Seq(X), NEW text \in Texts(P), NEW page \in Nat, Length(text) <= MaxSize
        PROVE  [out |-> out, text |-> text, page |-> page] \in S
    <2> HIDE DEF X
    <2> QED BY <1>0
  <1>12. <<>> \in Texts(P) /\ Length(<<>>) <= MaxSize
    <2>1. <<>> \in Texts(P) BY DEF Texts
    <2>2. Length(<<>>) = 0 BY <2>1, WeightOf
    <2> QED BY <2>1, <2>2, SizesAre
  <1>1. n \in Nat OBVIOUS
  <1>2. base \in S
    <2>1. <<>> \in Seq(X) OBVIOUS
    <2> HIDE DEF S, X
    <2> QED BY <1>0, <1>12, <2>1
  <1>11. ASSUME NEW a \in S PROVE close(a) \in Seq(X)
    <2>1. a.out \in Seq(X) /\ a.text \in Texts(P) /\ Length(a.text) <= MaxSize /\ a.page \in Nat
      <3> HIDE DEF X
      <3> QED OBVIOUS
    <2>2. CASE a.text = <<>> BY <2>1, <2>2
    <2>3. CASE a.text # <<>>
      <3> DEFINE c == [text |-> a.text, page |-> a.page]
      <3>1. a.text \in Blocked(P) BY <2>1, <2>3 DEF Blocked
      <3>2. a.text \in Cuttings(P) BY <2>1, <3>1, SmallFits
      <3>3. c \in X BY <2>1, <3>2, PairIs
      <3> HIDE DEF c, X
      <3>4. Append(a.out, c) \in Seq(X) BY <2>1, <3>3
      <3> QED BY <2>3, <3>4 DEF c
    <2> QED BY <2>2, <2>3
  <1>3. \A a \in S, i \in 1..n : op(a, pages_[i]) \in S
    <2> SUFFICES ASSUME NEW a \in S, NEW p \in StoutPage(P) PROVE op(a, p) \in S
      <3>1. \A i \in 1..n : pages_[i] \in StoutPage(P) OBVIOUS
      <3> HIDE DEF op, S, n
      <3> QED BY <3>1
    <2>1. p.text \in Texts(P) /\ p.id \in Nat BY DEF StoutPage
    <2>2. close(a) \in Seq(X) BY <1>11
    <2> HIDE DEF close, X
    <2>7. Length(p.text) \in Int BY <2>1, WeightOf
    <2>3. ASSUME Length(p.text) > MaxSize
          PROVE  [out |-> close(a) \o Tagged(Simple(p.text, MaxSize, Overlap), p.id),
                  text |-> <<>>, page |-> p.id] \in S
      <3> DEFINE ts == Tagged(Simple(p.text, MaxSize, Overlap), p.id)
                 os == close(a) \o ts
      <3>1. p.text # <<>>
        <4>1. ~(Length(p.text) <= MaxSize) BY <2>3, <2>7, SizesAre
        <4> QED BY <1>12, <4>1
      <3>2. p.text \in Blocked(P) BY <2>1, <3>1 DEF Blocked
      <3>3. Simple(p.text, MaxSize, Overlap) \in Seq(Cuttings(P)) BY <3>2, SimpleCuts
      <3>4. ts \in Seq(X) BY <2>1, <3>3, TaggedPairs DEF X
      <3> HIDE DEF ts
      <3>5. os \in Seq(X) BY <2>2, <3>4
      <3> HIDE DEF os
      <3>6. [out |-> os, text |-> <<>>, page |-> p.id] \in S
        <4> HIDE DEF S
        <4> QED BY <1>0, <1>12, <2>1, <3>5
      <3> QED BY <3>6 DEF os, ts
    <2>4. ASSUME a.text # <<>>, Length(a.text) + Length(p.text) + 1 <= MaxSize
          PROVE  [a EXCEPT !.text = @ \o p.text] \in S
      <3> DEFINE c == a.text \o p.text
      <3>1. a.text \in Texts(P) OBVIOUS
      <3>2. c \in Blocked(P) /\ Length(c) <= MaxSize BY <2>1, <2>4, <3>1, JoinFits
      <3>3. c \in Texts(P) BY <3>2 DEF Blocked
      <3> HIDE DEF c
      <3>4. [a EXCEPT !.text = c] \in S BY <3>2, <3>3
      <3> QED BY <3>4 DEF c
    <2>5. ASSUME ~(Length(p.text) > MaxSize)
          PROVE  [out |-> close(a), text |-> p.text, page |-> p.id] \in S
      <3>1. Length(p.text) <= MaxSize BY <2>5, <2>7, SizesAre
      <3> HIDE DEF S
      <3> QED BY <1>0, <2>1, <2>2, <3>1
    <2> HIDE DEF S
    <2> QED BY <2>3, <2>4, <2>5
  <1>4. MergePages(pages_) = close(f[n])
    <2>1. MergePages(pages_) = At(f[n], close) BY DEF MergePages, Fold
    <2> HIDE DEF f, n, close
    <2> QED BY <2>1, Zenon DEF At
  <1> HIDE DEF close
  <1> HIDE DEF op, S, n, base
  <1>5. PICK h \in [0..n -> S] : Solves(h, n, base, G)
    <2>1. G \in [1..n -> [S -> S]] BY <1>3
    <2> HIDE DEF G
    <2> QED BY <1>1, <1>2, <2>1, Recursion
  <1>6. \A g, i : At(g[i - 1], LAMBDA a : op(a, pages_[i])) = op(g[i - 1], pages_[i])
    BY Zenon DEF At
  <1>7. h = E(h)
    <2> SUFFICES ASSUME NEW i \in 0..n, i # 0 PROVE h[i] = op(h[i - 1], pages_[i])
      BY <1>5, <1>6 DEF Solves
    <2>1. i \in 1..n /\ h[i - 1] \in S BY <1>1
    <2> QED BY <1>5, <2>1 DEF Solves
  <1> HIDE DEF E
  <1>8. f = E(f) BY <1>7, Zenon
  <1> HIDE DEF f
  <1>9. \A i \in 0..n : f[i] = IF i = 0 THEN base ELSE op(f[i - 1], pages_[i]) BY <1>6, <1>8 DEF E
  <1>10. f[n] \in S
    <2>1. 0 \in 0..n /\ \A i \in 1..n : i \in 0..n /\ i # 0 BY <1>1
    <2>2. f[0] \in S /\ \A i \in 1..n : f[i - 1] \in S => f[i] \in S BY <1>2, <1>3, <1>9, <2>1
    <2> QED BY <1>1, <2>2, Reaches
  <1> QED BY <1>4, <1>10, <1>11

\* A chunk that is still too large.
LEMMA SplitOversizedFits ==
  ASSUME NEW P, NEW c \in Pairs(Cuttings(P))
  PROVE  SplitOversized(c) \in Seq(Pairs(Fitted(P)))
  <1> DEFINE t == c.text
             pick(cs) == IF Len(cs) > 1 THEN cs ELSE Simple(t, MaxSize, Overlap)
             parts == At(ByStructure(t, MaxSize), pick)
  <1>1. t \in Cuttings(P) /\ c.page \in Nat BY DEF Pairs
  <1>2. SplitOversized(c) = IF 10 * Length(t) > 12 * MaxSize THEN Tagged(parts, c.page) ELSE <<c>>
    BY DEF SplitOversized
  <1>3. parts = pick(ByStructure(t, MaxSize))
    <2> HIDE DEF pick
    <2> QED BY Zenon DEF At
  <1> HIDE DEF t, parts
  <1>4. CASE 10 * Length(t) > 12 * MaxSize
    <2>1. pick(ByStructure(t, MaxSize)) \in Seq(Fitted(P)) BY <1>1, <1>4, SplitFits
    <2>2. Tagged(parts, c.page) \in Seq(Pairs(Fitted(P))) BY <1>1, <1>3, <2>1, TaggedPairs
    <2> QED BY <1>2, <1>4, <2>2
  <1>5. CASE ~(10 * Length(t) > 12 * MaxSize)
    <2>1. t \in Blocked(P) /\ t \in Texts(P) BY <1>1 DEF Cuttings, Blocked
    <2>2. Length(t) \in Int BY <2>1, WeightOf
    <2>3. 10 * Length(t) <= 12 * MaxSize BY <1>5, <2>2, SizesAre
    <2>4. t \in Fitted(P) BY <2>1, <2>3 DEF Fitted
    <2>5. c \in Pairs(Fitted(P)) BY <1>1, <2>4 DEF t, Pairs
    <2>6. <<c>> \in Seq(Pairs(Fitted(P))) BY <2>5
    <2> QED BY <1>2, <1>5, <2>6
  <1> QED BY <1>4, <1>5

\* All chunks.
LEMMA SplitAllFits ==
  ASSUME NEW P, NEW chunks \in Seq(Pairs(Cuttings(P)))
  PROVE  SplitAll(chunks) \in Seq(Pairs(Fitted(P)))
  <1> DEFINE n == Len(chunks)
             X == Pairs(Fitted(P))
             Y == Pairs(Cuttings(P))
             S == Seq(X)
             base == <<>>
             op(out, c) == out \o SplitOversized(c)
             G == [i \in 1..n |-> [a \in S |-> op(a, chunks[i])]]
             E(g) == [i \in 0..n |->
                        IF i = 0 THEN base ELSE At(g[i - 1], LAMBDA a : op(a, chunks[i]))]
             f == CHOOSE g : g = E(g)
  <1>1. n \in Nat OBVIOUS
  <1>2. base \in S OBVIOUS
  <1>3. \A a \in S, i \in 1..n : op(a, chunks[i]) \in S
    <2>1. \A i \in 1..n : chunks[i] \in Y OBVIOUS
    <2> SUFFICES ASSUME NEW a \in S, NEW c \in Y PROVE op(a, c) \in S
      <3> HIDE DEF op, S, n, Y
      <3> QED BY <2>1
    <2>2. SplitOversized(c) \in S BY SplitOversizedFits
    <2> HIDE DEF X
    <2> QED BY <2>2
  <1>4. SplitAll(chunks) = f[n] BY DEF SplitAll, Fold
  <1> HIDE DEF op, S, n, base
  <1>5. PICK h \in [0..n -> S] : Solves(h, n, base, G)
    <2>1. G \in [1..n -> [S -> S]] BY <1>3
    <2> HIDE DEF G
    <2> QED BY <1>1, <1>2, <2>1, Recursion
  <1>6. \A g, i : At(g[i - 1], LAMBDA a : op(a, chunks[i])) = op(g[i - 1], chunks[i])
    BY Zenon DEF At
  <1>7. h = E(h)
    <2> SUFFICES ASSUME NEW i \in 0..n, i # 0 PROVE h[i] = op(h[i - 1], chunks[i])
      BY <1>5, <1>6 DEF Solves
    <2>1. i \in 1..n /\ h[i - 1] \in S BY <1>1
    <2> QED BY <1>5, <2>1 DEF Solves
  <1> HIDE DEF E
  <1>8. f = E(f) BY <1>7, Zenon
  <1> HIDE DEF f
  <1>9. \A i \in 0..n : f[i] = IF i = 0 THEN base ELSE op(f[i - 1], chunks[i]) BY <1>6, <1>8 DEF E
  <1>10. f[n] \in S
    <2>1. 0 \in 0..n /\ \A i \in 1..n : i \in 0..n /\ i # 0 BY <1>1
    <2>2. f[0] \in S /\ \A i \in 1..n : f[i - 1] \in S => f[i] \in S BY <1>2, <1>3, <1>9, <2>1
    <2> QED BY <1>1, <2>2, Reaches
  <1> QED BY <1>4, <1>10 DEF S

\* Small chunks are merged only as far as they fit.
LEMMA MergeSmallFits ==
  ASSUME NEW P, NEW chunks \in Seq(Pairs(Fitted(P)))
  PROVE  MergeSmall(chunks) \in Seq(Pairs(Fitted(P)))
  <1> DEFINE n == Len(chunks)
             X == Pairs(Fitted(P))
             S == Seq(X)
             base == <<>>
             op(out, c) ==
                IF out # <<>> /\ Length(Last(out).text) + Length(c.text) + 1 <= MaxSize
                THEN ReplaceAt(out, Len(out), [Last(out) EXCEPT !.text = @ \o c.text])
                ELSE Append(out, c)
             G == [i \in 1..n |-> [a \in S |-> op(a, chunks[i])]]
             E(g) == [i \in 0..n |->
                        IF i = 0 THEN base ELSE At(g[i - 1], LAMBDA a : op(a, chunks[i]))]
             f == CHOOSE g : g = E(g)
  <1>1. n \in Nat OBVIOUS
  <1>2. base \in S OBVIOUS
  <1>3. \A a \in S, i \in 1..n : op(a, chunks[i]) \in S
    <2>0. \A i \in 1..n : chunks[i] \in X OBVIOUS
    <2> SUFFICES ASSUME NEW a \in S, NEW c \in X PROVE op(a, c) \in S
      <3> HIDE DEF op, S, n, X
      <3> QED BY <2>0
    <2>1. Append(a, c) \in S
      <3> HIDE DEF X
      <3> QED OBVIOUS
    <2>2. ASSUME a # <<>>, Length(Last(a).text) + Length(c.text) + 1 <= MaxSize
          PROVE  ReplaceAt(a, Len(a), [Last(a) EXCEPT !.text = @ \o c.text]) \in S
      <3> DEFINE l == Last(a)
                 t == l.text \o c.text
                 d == [l EXCEPT !.text = @ \o c.text]
      <3>1. l \in X
        <4> HIDE DEF X
        <4> QED BY <2>2 DEF Last
      <3>7. c.text \in Fitted(P) BY DEF Pairs
      <3>8. Length(l.text) + Length(c.text) + 1 <= MaxSize BY <2>2
      <3> HIDE DEF l
      <3>2. l.text \in Fitted(P) /\ l.page \in Nat BY <3>1 DEF Pairs
      <3>3. l.text \in Texts(P) /\ l.text # <<>> /\ c.text \in Texts(P)
        BY <3>2, <3>7 DEF Fitted, Blocked
      <3>4. t \in Blocked(P) /\ Length(t) <= MaxSize BY <3>3, <3>8, JoinFits
      <3>5. t \in Fitted(P) BY <3>4, SmallFits
      <3> HIDE DEF t
      <3>6. [l EXCEPT !.text = t] \in X BY <3>1, <3>5 DEF Pairs
      <3>9. d \in X BY <3>6 DEF t
      <3> HIDE DEF d, X
      <3>10. ReplaceAt(a, Len(a), d) \in S BY <2>2, <3>9 DEF ReplaceAt
      <3> QED BY <3>10 DEF d, l
    <2> HIDE DEF S
    <2> QED BY <2>1, <2>2
  <1>4. MergeSmall(chunks) = f[n] BY DEF MergeSmall, Fold
  <1> HIDE DEF op, S, n, base
  <1>5. PICK h \in [0..n -> S] : Solves(h, n, base, G)
    <2>1. G \in [1..n -> [S -> S]] BY <1>3
    <2> HIDE DEF G
    <2> QED BY <1>1, <1>2, <2>1, Recursion
  <1>6. \A g, i : At(g[i - 1], LAMBDA a : op(a, chunks[i])) = op(g[i - 1], chunks[i])
    BY Zenon DEF At
  <1>7. h = E(h)
    <2> SUFFICES ASSUME NEW i \in 0..n, i # 0 PROVE h[i] = op(h[i - 1], chunks[i])
      BY <1>5, <1>6 DEF Solves
    <2>1. i \in 1..n /\ h[i - 1] \in S BY <1>1
    <2> QED BY <1>5, <2>1 DEF Solves
  <1> HIDE DEF E
  <1>8. f = E(f) BY <1>7, Zenon
  <1> HIDE DEF f
  <1>9. \A i \in 0..n : f[i] = IF i = 0 THEN base ELSE op(f[i - 1], chunks[i]) BY <1>6, <1>8 DEF E
  <1>10. f[n] \in S
    <2>1. 0 \in 0..n /\ \A i \in 1..n : i \in 0..n /\ i # 0 BY <1>1
    <2>2. f[0] \in S /\ \A i \in 1..n : f[i - 1] \in S => f[i] \in S BY <1>2, <1>3, <1>9, <2>1
    <2> QED BY <1>1, <2>2, Reaches
  <1> QED BY <1>4, <1>10 DEF S

\* A chunk is longer than the limit by a fifth or by an overlap at most.
Fits(item) == \/ 10 * Length(item.text) <= 12 * MaxSize
              \/ Length(item.text) <= MaxSize + Overlap + 1

\* All chunks of a section fit.
LEMMA ProcessSectionFits ==
  ASSUME NEW P, NEW pages_ \in Seq(StoutPage(P)), NEW path
  PROVE  \A i \in DOMAIN ProcessSection(pages_, path) : Fits(ProcessSection(pages_, path)[i])
  <1> DEFINE cs == MergeSmall(SplitAll(MergePages(pages_)))
             item(i) == [page |-> cs[i].page, idx |-> i - 1, section |-> path, text |-> cs[i].text]
  <1>1. ProcessSection(pages_, path) = [i \in DOMAIN cs |-> item(i)]
    <2>1. At(MergePages(pages_), SplitAll) = SplitAll(MergePages(pages_)) BY Zenon DEF At
    <2>2. ProcessSection(pages_, path)
            = At(cs, LAMBDA c : [i \in DOMAIN c |-> [page |-> c[i].page, idx |-> i - 1,
                                                     section |-> path, text |-> c[i].text]])
      BY <2>1 DEF ProcessSection
    <2> HIDE DEF cs
    <2> QED BY <2>2, Zenon DEF At
  <1>2. cs \in Seq(Pairs(Fitted(P))) BY MergePagesCuts, SplitAllFits, MergeSmallFits
  <1> HIDE DEF cs
  <1>3. \A i \in DOMAIN cs : cs[i] \in Pairs(Fitted(P)) BY <1>2
  <1>4. ASSUME NEW i \in DOMAIN cs PROVE Fits(item(i))
    <2>1. cs[i].text \in Fitted(P) BY <1>3 DEF Pairs
    <2> QED BY <2>1 DEF Fitted, Fits
  <1> HIDE DEF item
  <1> QED BY <1>1, <1>4

-----------------------------------------------------------------------------
(* What is stored of a page has stout lines only.                          *)

\* A text whose lines end no earlier than they begin.
LEMMA WholeIsStout ==
  ASSUME NEW P, P \subseteq Nat, NEW text \in Seq(LinesOn(P)), Whole(text)
  PROVE  text \in Texts(Nat)
  <1>1. text \in Seq(LinesOn(Nat)) BY MorePages
  <1>2. ASSUME NEW i \in 1..Len(text) PROVE text[i] \in Stout(Nat)
    <2>1. text[i] \in LinesOn(Nat) BY <1>1
    <2>2. LineLen(text[i]) \in Int BY <2>1 DEF LinesOn, LineLen
    <2>3. LineLen(text[i]) >= 0 BY DEF Whole
    <2>4. LineLen(text[i]) >= -1 BY <2>2, <2>3
    <2>5. LineLen(text[i]) >= IF InTable(text[i]) THEN 0 ELSE -1 BY <2>3, <2>4
    <2> QED BY <2>1, <2>5 DEF Stout
  <1> QED BY <1>2 DEF Texts

\* What is added to a page.
LEMMA AddedIsStout ==
  ASSUME NEW kind \in Kinds, NEW len \in Nat
  PROVE  <<Added(kind, len)>> \in Texts(Nat)
  <1> DEFINE l == Added(kind, len)
  <1>1. l \in LinesOn(Nat) /\ LineLen(l) = len BY DEF Added, Line, LinesOn, LineLen
  <1> HIDE DEF l
  <1>2. <<l>> \in Seq(LinesOn(Nat)) BY <1>1
  <1>3. Whole(<<l>>) BY <1>1 DEF Whole
  <1>4. <<l>> \in Texts(Nat) BY <1>2, <1>3, WholeIsStout
  <1> QED BY <1>4 DEF l

\* The text layer of a page, and what its image shows.
LEMMA JobIsStout ==
  ASSUME job \in Jobs, NEW p \in 1..Count
  PROVE  /\ job.pages[p].lines \in Texts(Nat) /\ job.pages[p].ink \in Texts(Nat)
         /\ Extracted(p) \in Texts(Nat)
  <1> DEFINE page == job.pages[p]
             both == page.lines \o page.ink
  <1>1. page.lines \in Seq(LinesOn({p})) /\ page.ink \in Seq(LinesOn({p})) BY JobPages
  <1>2. p \in DOMAIN job.pages /\ p \in Nat
    <2>1. job.pages \in Seq(ToSet(job.pages)) BY PdfAssumption
    <2> QED BY <2>1 DEF Count
  <1>3. \A l \in ToSet(both) : l.from <= l.to BY <1>2, PdfAssumption
  <1> HIDE DEF page
  <1>4. ToSet(both) = ToSet(page.lines) \cup ToSet(page.ink) BY <1>1, ToSetOfBoth
  <1> HIDE DEF both
  <1>5. ASSUME NEW text \in Seq(LinesOn({p})), ToSet(text) \subseteq ToSet(both)
        PROVE  text \in Texts(Nat)
    <2>1. ASSUME NEW i \in 1..Len(text) PROVE LineLen(text[i]) >= 0
      <3>1. text[i] \in LinesOn({p}) OBVIOUS
      <3>2. i \in DOMAIN text OBVIOUS
      <3>3. text[i] \in ToSet(text) BY <3>2, Zenon DEF ToSet
      <3>4. text[i].from <= text[i].to BY <1>3, <1>5, <3>3
      <3> QED BY <3>1, <3>4 DEF LinesOn, LineLen
    <2>2. Whole(text) BY <2>1 DEF Whole
    <2>3. {p} \subseteq Nat BY <1>2
    <2> QED BY <2>2, <2>3, WholeIsStout
  <1>6. page.lines \in Texts(Nat) BY <1>1, <1>4, <1>5
  <1>7. page.ink \in Texts(Nat) BY <1>1, <1>4, <1>5
  <1>8. <<>> \in Texts(Nat) BY DEF Texts
  <1>9. Extracted(p) \in {page.lines, <<>>} BY DEF Extracted, page
  <1> QED BY <1>6, <1>7, <1>8, <1>9 DEF page

\* The clean-up leaves stubs, but makes no row shorter.
LEMMA CleanedIsStout ==
  ASSUME NEW text \in Seq(LinesOn(Nat)), Whole(text)
  PROVE  Cleaned(text) \in Texts(Nat)
  <1>1. text \in Texts(Nat)
    <2>1. Nat \subseteq Nat OBVIOUS
    <2> QED BY <2>1, WholeIsStout
  <1>2. TrimPeriods(text) \in Texts(Nat)
    <2>1. CASE text # <<>> /\ Last(text).kind = "periods"
      <3> DEFINE l == Last(text)
                 m == [l EXCEPT !.kind = "stub", !.to = @ - 1]
      <3>1. l \in LinesOn(Nat) BY <2>1 DEF Last
      <3>2. LineLen(l) >= 0 /\ LineLen(l) \in Int
        <4>1. l = text[Len(text)] /\ Len(text) \in 1..Len(text) BY <2>1 DEF Last
        <4>2. LineLen(l) \in Int BY <3>1 DEF LinesOn, LineLen
        <4> HIDE DEF l
        <4> QED BY <4>1, <4>2 DEF Whole
      <3>3. TrimPeriods(text) = ReplaceAt(text, Len(text), m) BY <2>1 DEF TrimPeriods
      <3> HIDE DEF l
      <3>4. l.to - 1 \in Int /\ l.from \in Int /\ l.to \in Int BY <3>1 DEF LinesOn
      <3>5. "stub" \in Kinds BY DEF Kinds
      <3>6. m \in LinesOn(Nat) BY <3>1, <3>4, <3>5 DEF LinesOn
      <3>7. m.to = l.to - 1 /\ m.from = l.from /\ m.kind = "stub" BY <3>1 DEF LinesOn
      <3> HIDE DEF m
      <3>8. LineLen(m) >= -1 BY <3>2, <3>4, <3>7 DEF LineLen
      <3>9. ~InTable(m) BY <3>7 DEF InTable
      <3>10. m \in Stout(Nat) BY <3>6, <3>8, <3>9 DEF Stout
      <3>11. text \in Seq(Stout(Nat)) BY <1>1 DEF Texts
      <3>12. ReplaceAt(text, Len(text), m) \in Seq(Stout(Nat))
        BY <2>1, <3>10, <3>11 DEF ReplaceAt
      <3> QED BY <3>3, <3>12 DEF Texts
    <2>2. CASE ~(text # <<>> /\ Last(text).kind = "periods") BY <1>1, <2>2 DEF TrimPeriods
    <2> QED BY <2>1, <2>2
  <1>3. ASSUME NEW t \in Texts(Nat) PROVE TrimNumbered(t) \in Texts(Nat)
    <2> DEFINE last == RunStart(t, Len(t), "stub") - 1
               list == RunStart(t, last, "numbered")
               end  == RunStart(t, list - 1, "lead") - 1
    <2>1. TrimNumbered(t) = IF list > last THEN t ELSE SubSeq(t, 1, end)
      BY DEF TrimNumbered
    <2>2. t \in Seq(LinesOn(Nat)) /\ t \in Seq(Stout(Nat)) BY StoutIs DEF Texts
    <2>3. last \in 0..Len(t)
      <3>1. Len(t) \in 0..Len(t) BY <2>2
      <3>2. RunStart(t, Len(t), "stub") \in 1..(Len(t) + 1) BY <2>2, <3>1, RunStartIs
      <3> QED BY <2>2, <3>2
    <2> HIDE DEF last
    <2>4. list \in 1..(last + 1) BY <2>2, <2>3, RunStartIs
    <2> HIDE DEF list
    <2>5. CASE list > last BY <2>1, <2>5
    <2>6. CASE ~(list > last)
      <3>1. list - 1 \in 0..Len(t) BY <2>2, <2>3, <2>4, <2>6
      <3>2. RunStart(t, list - 1, "lead") \in 1..(list - 1 + 1) BY <2>2, <3>1, RunStartIs
      <3>3. end \in 0..Len(t) BY <2>2, <2>3, <2>4, <3>1, <3>2
      <3> HIDE DEF end
      <3>4. SubSeq(t, 1, end) \in Seq(Stout(Nat)) BY <2>2, <3>3
      <3> QED BY <2>1, <2>6, <3>4 DEF Texts
    <2> QED BY <2>5, <2>6
  <1> QED BY <1>2, <1>3 DEF Cleaned

-----------------------------------------------------------------------------
(* The invariant of the texts on their way into the chunks.                *)

\* On the pages, in the document, among the pages collected and in the chunks.
PagesStout == \A x \in ToSet(pages) : x.text \in Texts(Nat)
DocStout == \A x \in ToSet(doc) : x.text \in Texts(Nat)
BufferStout == buffer \in Seq(StoutPage(Nat))
ItemsFit == \A x \in ToSet(items) : Fits(x)

LEMMA TextsJoin ==
  ASSUME NEW s \in Texts(Nat), NEW t \in Texts(Nat)
  PROVE  s \o t \in Texts(Nat)
  BY DEF Texts

LEMMA NoText == <<>> \in Texts(Nat)
  BY DEF Texts

\* A page that is added.
LEMMA OneStoutMore ==
  ASSUME NEW text, NEW class, NEW fate, AddPage(text, class, fate),
         TextInv, PagesStout, text \in Texts(Nat)
  PROVE  PagesStout'
  <1> DEFINE page == Page(at, text, class, at, fate)
             all == ToSet(pages) \cup {page}
  <1>1. pages \in Seq(ToSet(pages)) /\ \A x \in ToSet(pages) : x.text \in Texts(Nat)
    BY DEF TextInv, PagesStout
  <1>2. pages' = Append(pages, page) BY DEF AddPage
  <1>3. page.text = text BY DEF Page
  <1> HIDE DEF page
  <1>4. pages' \in Seq(all)
    <2>1. pages \in Seq(all)
      <3>1. ToSet(pages) \subseteq all OBVIOUS
      <3> HIDE DEF all
      <3> QED BY <1>1, <3>1
    <2>2. page \in all OBVIOUS
    <2> HIDE DEF all
    <2> QED BY <1>2, <2>1, <2>2
  <1>5. ToSet(pages') \subseteq all
    <2> HIDE DEF all
    <2> QED BY <1>4, SeqOfItsOwn
  <1> QED BY <1>1, <1>3, <1>5 DEF PagesStout

\* A page that is read.
LEMMA ReadPageStout ==
  ASSUME PlaceInv, PagesStout, ReadPage \/ SkipBlankImage
  PROVE  PagesStout'
  <1>1. at \in 1..Count /\ ImageInv /\ TextInv /\ job \in Jobs
    <2>1. Count \in Nat BY JobPages DEF PlaceInv, ImageInv
    <2>2. AtPage BY DEF ReadPage, SkipBlankImage
    <2> QED BY <2>1, <2>2 DEF AtPage, OcrInv, PlaceInv, ImageInv
  <1>2. CASE SkipBlankImage
    <2>1. AddPage(<<>>, "BLANK", "whole") BY <1>2 DEF SkipBlankImage
    <2> QED BY <1>1, <2>1, NoText, OneStoutMore
  <1>3. CASE ReadPage
    <2> DEFINE class == classes[at]
               seen  == IF class = "CHART" /\ job.vision /\ RendersAlone(job.pages, at) THEN {at}
                        ELSE IF class = "IMAGE" /\ at \in DOMAIN images THEN {images[at]}
                        ELSE {}
    <2>1. PICK said \in {<<>>} \cup UNION {Descriptions(i) : i \in seen} :
             AddPage(IF class = "BLANK" THEN <<>> ELSE Extracted(at) \o said, class, "whole")
      BY <1>3 DEF ReadPage
    <2>2. seen \subseteq {at} BY <1>1 DEF ImageInv
    <2>3. said \in Texts(Nat)
      <3> HIDE DEF seen
      <3>1. said \in {<<>>} \cup Descriptions(at) BY <2>1, <2>2
      <3>2. <<Added("heading", 2)>> \in Texts(Nat)
        <4>1. "heading" \in Kinds BY DEF Kinds
        <4> QED BY <4>1, AddedIsStout
      <3>3. <<Added("heading", 2)>> \o job.pages[at].ink \in Texts(Nat)
        <4>1. job.pages[at].ink \in Texts(Nat) BY <1>1, JobIsStout
        <4> QED BY <3>2, <4>1, TextsJoin
      <3> QED BY <3>1, <3>3, NoText DEF Descriptions
    <2> DEFINE text == IF class = "BLANK" THEN <<>> ELSE Extracted(at) \o said
    <2>4. text \in Texts(Nat)
      <3>1. Extracted(at) \in Texts(Nat) BY <1>1, JobIsStout
      <3>2. Extracted(at) \o said \in Texts(Nat) BY <2>3, <3>1, TextsJoin
      <3> QED BY <3>2, NoText
    <2>5. AddPage(text, class, "whole") BY <2>1
    <2> HIDE DEF text, class
    <2> QED BY <1>1, <2>4, <2>5, OneStoutMore
  <1> QED BY <1>2, <1>3

\* A page that was transcribed.
LEMMA EndOcrStout ==
  ASSUME PlaceInv, HeardInv, PagesStout, EndOcr
  PROVE  PagesStout'
  <1>1. stage = "ocr" /\ OcrInv /\ ImageInv /\ TextInv /\ job \in Jobs
    BY DEF EndOcr, PlaceInv, ImageInv
  <1>2. at \in 1..Count /\ at \in Nat /\ ocr.text \in Seq(LinesOn({0, at})) BY <1>1 DEF OcrInv
  <1> DEFINE text == Cleaned(ocr.text)
             above == Extracted(at) \o <<Added("heading", 2)>>
             whole == IF text = <<>> THEN Extracted(at) ELSE above \o text
  <1>3. AddPage(whole, "IMAGE", Fate) BY DEF EndOcr
  <1>4. text \in Texts(Nat)
    <2>1. Whole(ocr.text) BY <1>1 DEF HeardInv, OcrHeard
    <2>2. {0, at} \subseteq Nat BY <1>2
    <2>3. ocr.text \in Seq(LinesOn(Nat)) BY <1>2, <2>2, MorePages
    <2> QED BY <2>1, <2>3, CleanedIsStout
  <1> HIDE DEF text
  <1>5. Extracted(at) \in Texts(Nat) BY <1>1, <1>2, JobIsStout
  <1>6. above \in Texts(Nat)
    <2>1. "heading" \in Kinds BY DEF Kinds
    <2>2. <<Added("heading", 2)>> \in Texts(Nat) BY <2>1, AddedIsStout
    <2> QED BY <1>5, <2>2, TextsJoin
  <1> HIDE DEF above
  <1>7. above \o text \in Texts(Nat) BY <1>4, <1>6, TextsJoin
  <1>8. whole \in Texts(Nat) BY <1>5, <1>7
  <1> HIDE DEF whole
  <1> QED BY <1>1, <1>3, <1>8, OneStoutMore

\* Pages that MuPDF reads, or the one that says that nothing could be read.
LEMMA RecoverStout ==
  ASSUME PlaceInv, PagesStout, Recover
  PROVE  PagesStout'
  <1>1. Count \in Nat /\ job \in Jobs BY JobPages DEF PlaceInv, ImageInv
  <1>2. <<Added("plain", 2)>> \in Texts(Nat)
    <2>1. "plain" \in Kinds BY DEF Kinds
    <2> QED BY <2>1, AddedIsStout
  <1>3. ASSUME \A i \in DOMAIN pages' : pages'[i].text \in Texts(Nat) PROVE PagesStout'
    <2>1. ASSUME NEW x \in ToSet(pages') PROVE x.text \in Texts(Nat)
      <3>1. PICK i \in DOMAIN pages' : x = pages'[i] BY Zenon DEF ToSet
      <3> QED BY <1>3, <3>1
    <2> QED BY <2>1 DEF PagesStout
  <1>4. \A num, text, of, fate : NoImage(Page(num, text, "TEXT", of, fate)).text = text
    BY DEF NoImage, Page
  <1>5. CASE UNCHANGED pages BY <1>5 DEF PagesStout
  <1>6. CASE pages' = Numbered(Recovered)
    <2>1. Recovered \in Seq(1..Count)
      <3> DEFINE all == [p \in 1..Count |-> p]
      <3>1. all \in Seq(1..Count) BY <1>1
      <3> HIDE DEF all
      <3>2. Keep(all, {p \in 1..Count : job.pages[p].lines # <<>>}) \in Seq(1..Count)
        BY <3>1, KeepOf
      <3>3. <<>> \in Seq(1..Count) OBVIOUS
      <3> QED BY <3>2, <3>3 DEF Recovered, all
    <2> DEFINE text(i) == <<Added("plain", 2)>> \o job.pages[Recovered[i]].lines
    <2>2. ASSUME NEW i \in DOMAIN Recovered PROVE text(i) \in Texts(Nat)
      <3>1. Recovered[i] \in 1..Count BY <2>1, SeqElements
      <3>2. job.pages[Recovered[i]].lines \in Texts(Nat) BY <1>1, <3>1, JobIsStout
      <3> QED BY <1>2, <3>2, TextsJoin
    <2>3. pages' = [i \in DOMAIN Recovered |->
                      NoImage(Page(i, text(i), "TEXT", Recovered[i], "whole"))]
      BY <1>6 DEF Numbered
    <2> HIDE DEF text
    <2>4. ASSUME NEW i \in DOMAIN pages' PROVE i \in DOMAIN Recovered /\ pages'[i].text = text(i)
      <3> DEFINE page == NoImage(Page(i, text(i), "TEXT", Recovered[i], "whole"))
      <3>1. i \in DOMAIN Recovered BY <2>3
      <3>2. pages'[i] = page BY <2>3, <3>1
      <3>3. page.text = text(i) BY <1>4
      <3> HIDE DEF page
      <3> QED BY <3>1, <3>2, <3>3
    <2> QED BY <1>3, <2>2, <2>4
  <1>7. CASE pages' = <<NoImage(Page(1, <<Added("plain", 2)>>, "TEXT", 1, "whole"))>>
    <2> DEFINE page == NoImage(Page(1, <<Added("plain", 2)>>, "TEXT", 1, "whole"))
    <2>1. page.text = <<Added("plain", 2)>> BY DEF NoImage, Page
    <2> HIDE DEF page
    <2>2. \A i \in DOMAIN pages' : pages'[i] = page
      <3>1. pages' = <<page>> BY <1>7 DEF page
      <3> QED BY <3>1
    <2> QED BY <1>2, <1>3, <2>1, <2>2
  <1> QED BY <1>5, <1>6, <1>7 DEF Recover

\* The text that is stored of a page.
LEMMA StoredIsStout ==
  ASSUME PlaceInv, PagesStout, NEW i \in DOMAIN pages, NEW text, NEW outcome,
         text = Sanitized(IF ReadsImage(i) THEN Preprocessed(i, outcome) ELSE pages[i].text)
  PROVE  text \in Texts(Nat) /\ Stripped(text) \in Texts(Nat)
  <1> DEFINE page == pages[i]
  <1>1. OwnText(page) /\ page.text \in Texts(Nat) /\ job \in Jobs
    <2>1. pages[i] \in ToSet(pages) BY Zenon DEF ToSet
    <2> QED BY <2>1 DEF PlaceInv, TextInv, ImageInv, PagesStout
  <1>2. Rendition(i) \in Texts(Nat)
    <2>1. CASE page.image
      <3>1. page.num \in 1..Count /\ images[page.num] = page.num
        BY <1>1, <2>1 DEF OwnText, PlaceInv, ImageInv
      <3>2. job.pages[page.num].ink \in Texts(Nat) BY <1>1, <3>1, JobIsStout
      <3>3. Rendition(i) = job.pages[page.num].ink BY <2>1, <3>1 DEF Rendition
      <3> QED BY <3>2, <3>3
    <2>2. CASE ~page.image BY <2>2, NoText DEF Rendition
    <2> QED BY <2>1, <2>2
  <1> DEFINE before == IF ReadsImage(i) THEN Preprocessed(i, outcome) ELSE pages[i].text
  <1>3. before \in Texts(Nat)
    <2>1. before \in {<<>>, Rendition(i), pages[i].text} BY Zenon DEF Preprocessed
    <2> HIDE DEF before
    <2> QED BY <1>1, <1>2, <2>1, NoText
  <1>4. text = Sanitized(before) OBVIOUS
  <1> HIDE DEF before
  <1>5. ASSUME NEW t \in Texts(Nat), NEW I PROVE Keep(t, I) \in Texts(Nat)
    <2>1. t \in Seq(Stout(Nat)) BY DEF Texts
    <2>2. Keep(t, I) \in Seq(Stout(Nat)) BY <2>1, KeepOf
    <2> QED BY <2>2 DEF Texts
  <1>6. text \in Texts(Nat)
    <2> DEFINE echoes == {k \in DOMAIN before : before[k].kind = "echo"}
    <2>1. text \in {before, Keep(before, DOMAIN before \ echoes)} BY <1>4, Zenon DEF Sanitized
    <2> HIDE DEF echoes
    <2>2. Keep(before, DOMAIN before \ echoes) \in Texts(Nat) BY <1>3, <1>5
    <2> QED BY <1>3, <2>1, <2>2
  <1>7. Stripped(text) \in Texts(Nat) BY <1>5, <1>6 DEF Stripped
  <1> QED BY <1>6, <1>7

\* What is stored of the pages.
LEMMA StorePagesStout ==
  ASSUME PlaceInv, PagesStout, StorePages
  PROVE  PagesStout' /\ DocStout'
  <1>1. PagesStout' BY DEF StorePages, PagesStout
  <1>2. DocStout'
    <2>1. PICK outcome \in [{i \in DOMAIN pages : ReadsImage(i)} -> Outcomes] :
             LET text(i) == Sanitized(IF ReadsImage(i) THEN Preprocessed(i, outcome[i])
                                      ELSE pages[i].text)
                 lost == {i \in DOMAIN pages : ~Source(i).analyses}
                 unreadable == {i \in DOMAIN pages \ lost : Unreadable(text(i))}
                 stored(i) == IF pages[i].class = "BLANK" \/ i \in unreadable THEN <<>>
                              ELSE IF text(i) # <<>> /\ Coded(text(i)) THEN Stripped(text(i))
                              ELSE text(i)
                 row(i) == [num |-> pages[i].num, text |-> stored(i),
                            section |-> Source(i).section]
                 kept == Keep([i \in DOMAIN pages |-> i], DOMAIN pages \ lost)
             IN  doc' = [k \in DOMAIN kept |-> row(kept[k])]
      BY DEF StorePages
    <2> DEFINE text(i) == Sanitized(IF ReadsImage(i) THEN Preprocessed(i, outcome[i])
                                    ELSE pages[i].text)
               lost == {i \in DOMAIN pages : ~Source(i).analyses}
               unreadable == {i \in DOMAIN pages \ lost : Unreadable(text(i))}
               stored(i) == IF pages[i].class = "BLANK" \/ i \in unreadable THEN <<>>
                            ELSE IF text(i) # <<>> /\ Coded(text(i)) THEN Stripped(text(i))
                            ELSE text(i)
               row(i) == [num |-> pages[i].num, text |-> stored(i),
                          section |-> Source(i).section]
               kept == Keep([i \in DOMAIN pages |-> i], DOMAIN pages \ lost)
    <2>2. doc' = [k \in DOMAIN kept |-> row(kept[k])] BY <2>1
    <2>3. ASSUME NEW i \in DOMAIN pages, NEW x, x = row(i) PROVE x.text \in Texts(Nat)
      <3> DEFINE now == text(i)
      <3>1. stored(i) \in {<<>>, now, Stripped(now)} BY Zenon
      <3>2. now = Sanitized(IF ReadsImage(i) THEN Preprocessed(i, outcome[i]) ELSE pages[i].text)
        OBVIOUS
      <3>3. x.text = stored(i) BY <2>3
      <3> HIDE DEF stored, now
      <3>4. now \in Texts(Nat) /\ Stripped(now) \in Texts(Nat) BY <3>2, StoredIsStout
      <3> QED BY <3>1, <3>3, <3>4, NoText
    <2>4. kept \in Seq(DOMAIN pages)
      <3> DEFINE all == [i \in DOMAIN pages |-> i]
                 D == DOMAIN pages
      <3>1. Len(pages) \in Nat /\ D = 1..Len(pages) BY SeqElements DEF PlaceInv, TextInv
      <3>2. all \in Seq(D) BY <3>1
      <3> HIDE DEF all, lost, D
      <3> QED BY <3>2, KeepOf DEF all, D
    <2> HIDE DEF kept, row
    <2>5. ASSUME NEW x \in ToSet(doc') PROVE x.text \in Texts(Nat)
      <3>1. PICK k \in DOMAIN doc' : x = doc'[k] BY Zenon DEF ToSet
      <3>2. k \in DOMAIN kept /\ x = row(kept[k]) BY <2>2, <3>1
      <3>3. kept[k] \in DOMAIN pages BY <2>4, <3>2, SeqElements
      <3> QED BY <2>3, <3>2, <3>3
    <2> QED BY <2>5 DEF DocStout
  <1> QED BY <1>1, <1>2

-----------------------------------------------------------------------------
(* The chunker: every section that is processed has stout pages.           *)

\* The chunks of a section join those before them.
LEMMA FitTogether ==
  ASSUME NEW S, NEW s \in Seq(S), \A x \in ToSet(s) : Fits(x),
         NEW path, NEW pages_ \in Seq(StoutPage(Nat))
  PROVE  /\ \A x \in ToSet(s \o ProcessSection(pages_, path)) : Fits(x)
         /\ s \o ProcessSection(pages_, path)
                \in Seq(S \cup ToSet(ProcessSection(pages_, path)))
  <1> DEFINE more == ProcessSection(pages_, path)
             all == S \cup ToSet(more)
  <1>1. more \in Seq(ToSet(more))
    <2>1. pages_ \in Seq(PageOf(Nat, Nat))
      <3>1. StoutPage(Nat) \subseteq PageOf(Nat, Nat) BY StoutIs DEF StoutPage, PageOf
      <3> HIDE DEF more
      <3> QED BY <3>1
    <2>2. more \in Seq(Items(Nat, Nat, path)) BY <2>1, ProcessSectionOf
    <2> HIDE DEF more
    <2> QED BY <2>2, SeqOfItsOwn
  <1>2. \A i \in DOMAIN more : Fits(more[i]) BY ProcessSectionFits
  <1> HIDE DEF more
  <1>3. ASSUME NEW x \in ToSet(more) PROVE Fits(x)
    <2>1. PICK i \in DOMAIN more : x = more[i] BY Zenon DEF ToSet
    <2> QED BY <1>2, <2>1
  <1>4. s \in Seq(all) /\ more \in Seq(all)
    <2>1. S \subseteq all /\ ToSet(more) \subseteq all OBVIOUS
    <2> HIDE DEF all
    <2> QED BY <1>1, <2>1
  <1> HIDE DEF all
  <1>5. s \o more \in Seq(all) BY <1>4
  <1>6. ToSet(s \o more) = ToSet(s) \cup ToSet(more) BY <1>4, ToSetOfBoth
  <1> QED BY <1>3, <1>5, <1>6 DEF more, all

ChunkStout == DocStout /\ BufferStout /\ ItemsFit

\* The section a page ends fits in its chunks, and the page is collected whole.
LEMMA CollectedIsStout ==
  ASSUME ChunkInv, ChunkStout, NEW row, NEW path, row = doc[next], next <= Len(doc)
  PROVE  /\ Collected(path, [id |-> next, text |-> row.text]) \in Seq(StoutPage(Nat))
         /\ \A x \in ToSet(items \o Ended(path)) : Fits(x)
         /\ \E S : items \o Ended(path) \in Seq(S)
  <1> DEFINE page == [id |-> next, text |-> row.text]
  <1>1. next \in Nat \ {0} /\ doc \in Seq(ToSet(doc)) /\ items \in Seq(ToSet(items))
    BY DEF ChunkInv, BufferInv, DocInv, ItemInv, Apart
  <1>2. page \in StoutPage(Nat)
    <2>1. next \in DOMAIN doc BY <1>1, SeqElements
    <2>2. row \in ToSet(doc) BY <2>1, Zenon DEF ToSet
    <2>3. row.text \in Texts(Nat) BY <2>2 DEF ChunkStout, DocStout
    <2> QED BY <1>1, <2>3 DEF StoutPage
  <1>3. buffer \in Seq(StoutPage(Nat)) /\ \A x \in ToSet(items) : Fits(x)
    BY DEF ChunkStout, BufferStout, ItemsFit
  <1> HIDE DEF page
  <1>4. Collected(path, page) \in Seq(StoutPage(Nat))
    <2>1. Collected(path, page) \in {<<page>>, Append(buffer, page)} BY DEF Collected
    <2>2. <<page>> \in Seq(StoutPage(Nat)) BY <1>2
    <2>3. Append(buffer, page) \in Seq(StoutPage(Nat)) BY <1>2, <1>3
    <2> QED BY <2>1, <2>2, <2>3
  <1>5. CASE Turns(path)
    <2>1. Ended(path) = ProcessSection(buffer, section) BY <1>5 DEF Ended
    <2>2. /\ \A x \in ToSet(items \o ProcessSection(buffer, section)) : Fits(x)
          /\ items \o ProcessSection(buffer, section)
                \in Seq(ToSet(items) \cup ToSet(ProcessSection(buffer, section)))
      BY <1>1, <1>3, FitTogether
    <2> QED BY <1>4, <2>1, <2>2 DEF page
  <1>6. CASE ~Turns(path)
    <2>1. Ended(path) = <<>> BY <1>6 DEF Ended
    <2>2. items \o Ended(path) = items BY <1>1, <2>1
    <2> QED BY <1>1, <1>3, <1>4, <2>2 DEF page
  <1> QED BY <1>5, <1>6

\* The page loop.
LEMMA ChunkSteps ==
  ASSUME ChunkInv, ChunkStout, ChunkNext
  PROVE  ChunkStout'
  <1>1. CASE SkipPage
    BY <1>1 DEF SkipPage, ChunkStout, DocStout, BufferStout, ItemsFit
  <1>2. CASE TakePage
    <2> DEFINE row == doc[next]
               path == row.section
               kept == Collected(path, [id |-> next, text |-> row.text])
               stored == items \o Ended(path)
    <2>1. next <= Len(doc) /\ UNCHANGED doc BY <1>2 DEF TakePage
    <2>2. /\ kept \in Seq(StoutPage(Nat)) /\ \A x \in ToSet(stored) : Fits(x)
          /\ \E S : stored \in Seq(S)
      BY <2>1, CollectedIsStout
    <2>3. \/ buffer' = <<>> /\ items' = stored \o ProcessSection(kept, path)
          \/ buffer' = kept /\ items' = stored
      BY <1>2 DEF TakePage
    <2> HIDE DEF kept, stored
    <2>4. PICK S : stored \in Seq(S) BY <2>2
    <2>5. \A x \in ToSet(stored \o ProcessSection(kept, path)) : Fits(x)
      BY <2>2, <2>4, FitTogether
    <2>6. <<>> \in Seq(StoutPage(Nat)) OBVIOUS
    <2>7. BufferStout' BY <2>2, <2>3, <2>6 DEF BufferStout
    <2>8. ItemsFit' BY <2>2, <2>3, <2>5 DEF ItemsFit
    <2> QED BY <2>1, <2>7, <2>8 DEF ChunkStout, DocStout
  <1>3. CASE LastSection
    <2>1. /\ items' = items \o ProcessSection(buffer, section) /\ buffer' = <<>>
          /\ UNCHANGED doc
      BY <1>3 DEF LastSection
    <2>2. /\ items \in Seq(ToSet(items)) /\ buffer \in Seq(StoutPage(Nat))
          /\ \A x \in ToSet(items) : Fits(x)
      BY DEF ChunkInv, ItemInv, Apart, ChunkStout, BufferStout, ItemsFit
    <2>3. \A x \in ToSet(items \o ProcessSection(buffer, section)) : Fits(x)
      BY <2>2, FitTogether
    <2>4. <<>> \in Seq(StoutPage(Nat)) OBVIOUS
    <2>5. ItemsFit' BY <2>1, <2>3 DEF ItemsFit
    <2>6. BufferStout' BY <2>1, <2>4 DEF BufferStout
    <2> QED BY <2>1, <2>5, <2>6 DEF ChunkStout, DocStout
  <1> QED BY <1>1, <1>2, <1>3 DEF ChunkNext

StoutInv == PagesStout /\ ChunkStout

\* No chunk is too large: whatever a page is made of and however its text is
\* split, merged and split again, a chunk is longer than max_chunk_size by a
\* fifth of it or by an overlap at the most.
THEOREM ChunksStayWithinBounds == Spec => []ChunksFit
  <1>1. Init => StoutInv
    <2> SUFFICES ASSUME PdfInit, ChunkInit PROVE StoutInv BY DEF Init
    <2>1. pages = <<>> /\ doc = <<>> /\ buffer = <<>> /\ items = <<>> BY DEF PdfInit, ChunkInit
    <2>2. DOMAIN pages = {} /\ DOMAIN doc = {} /\ DOMAIN items = {} BY <2>1
    <2>3. ToSet(pages) = {} /\ ToSet(doc) = {} /\ ToSet(items) = {} BY <2>2, Zenon DEF ToSet
    <2>4. buffer \in Seq(StoutPage(Nat)) BY <2>1
    <2> QED BY <2>3, <2>4 DEF StoutInv, PagesStout, ChunkStout, DocStout, BufferStout, ItemsFit
  <1>2. ReadingInv /\ HeardInv /\ StoutInv /\ [Next]_vars => StoutInv'
    <2> SUFFICES ASSUME PlaceInv, ChunkInv, HeardInv, PagesStout, ChunkStout, [Next]_vars
                 PROVE  PagesStout' /\ ChunkStout'
      BY DEF ReadingInv, StoutInv
    <2>1. ASSUME UNCHANGED pages PROVE PagesStout' BY <2>1 DEF PagesStout
    <2>2. ASSUME UNCHANGED <<buffer, items>>, DocStout' PROVE ChunkStout'
      BY <2>2 DEF ChunkStout, BufferStout, ItemsFit
    <2>3. ASSUME UNCHANGED chunkVars PROVE ChunkStout'
      BY <2>3 DEF chunkVars, ChunkStout, DocStout, BufferStout, ItemsFit
    <2>4. CASE PdfNext /\ UNCHANGED chunkVars
      <3>1. CASE Open \/ Scan \/ Classify \/ Reopen \/ PageFails \/ CloseFile
                 \/ StartOcr \/ ContinueOcr \/ OcrFails
        <4>1. UNCHANGED pages
          BY <3>1 DEF Open, Scan, Classify, Reopen, PageFails, CloseFile, StartOcr,
                      ContinueOcr, OcrFails
        <4> QED BY <2>1, <2>3, <2>4, <4>1
      <3>2. CASE ReadPage \/ SkipBlankImage BY <2>3, <2>4, <3>2, ReadPageStout
      <3>3. CASE EndOcr BY <2>3, <2>4, <3>3, EndOcrStout
      <3>4. CASE Recover BY <2>3, <2>4, <3>4, RecoverStout
      <3> QED BY <2>4, <3>1, <3>2, <3>3, <3>4 DEF PdfNext
    <2>5. CASE StorePages
      <3>1. UNCHANGED <<buffer, items>> BY <2>5 DEF StorePages
      <3> QED BY <2>2, <2>5, <3>1, StorePagesStout
    <2>6. CASE ChunkNext /\ UNCHANGED pdfVars
      <3>1. UNCHANGED pages BY <2>6 DEF pdfVars
      <3> QED BY <2>1, <2>6, <3>1, ChunkSteps
    <2>7. CASE UNCHANGED vars
      <3>1. UNCHANGED pages /\ UNCHANGED chunkVars BY <2>7 DEF vars, pdfVars
      <3> QED BY <2>1, <2>3, <3>1
    <2> QED BY <2>4, <2>5, <2>6, <2>7 DEF Next
  <1>3. ReadingInv /\ HeardInv /\ StoutInv => ChunksFit
    <2> SUFFICES ASSUME ItemsFit, NEW i \in DOMAIN items
                 PROVE  \/ 10 * Length(items[i].text) <= 12 * MaxSize
                        \/ Length(items[i].text) <= MaxSize + Overlap + 1
      BY DEF StoutInv, ChunkStout, ChunksFit
    <2>1. items[i] \in ToSet(items) BY Zenon DEF ToSet
    <2>2. Fits(items[i]) BY <2>1 DEF ItemsFit
    <2> QED BY <2>2 DEF Fits
  <1> QED BY <1>1, <1>2, <1>3, ReadingInvHolds, HeardInvHolds, PTL DEF Spec
=============================================================================
