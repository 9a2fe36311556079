---------------------------- MODULE FilterProofs ----------------------------
(***************************************************************************)
(* What globMatch and the branch filters of Dispatch decide, for any       *)
(* pattern, name and workflow.  Induction is by a least counterexample.    *)
(***************************************************************************)
EXTENDS Dispatch, TLAPS, WellFoundedInduction

Less == {ss \in Nat \X Nat : ss[1] < ss[2]}

LEMMA NatMin ==
  ASSUME NEW T \in SUBSET Nat, T # {}
  PROVE  \E x \in T : \A y \in T : x <= y
  <1>1. OpToRel(<, Nat) = Less
    BY Zenon DEF OpToRel, Less
  <1>2. IsWellFoundedOn(Less, Nat)
    BY <1>1, NatLessThanWellFounded
  <1>3. PICK x \in T : \A y \in T : ~(<<y, x>> \in Less)
    BY <1>2, WFMin
  <1>4. \A y \in T : ~(y < x)
    BY <1>3 DEF Less
  <1> QED BY <1>4

-----------------------------------------------------------------------------
(* globMatch                                                               *)

\* One round of the loop, given the earlier ones.
SkippedBody(p, h, i) == i > 1 /\ p[i] = "*" /\ p[i - 1] = "*" /\ ~h[i - 1]

\* The recursion of Skipped is well-founded.
LEMMA SkippedFcn ==
  ASSUME NEW p, Len(p) \in Nat
  PROVE  Skipped(p) = [i \in 1..Len(p) |-> SkippedBody(p, Skipped(p), i)]
  <1> DEFINE n == Len(p)
             Upto(h, m) == h = [i \in 1..m |-> SkippedBody(p, h, i)]
             Bad == {m \in 0..n : ~\E h : Upto(h, m)}
             Round(g) == [i \in 1..n |-> SkippedBody(p, g, i)]
  <1>1. Bad = {}
    <2> SUFFICES ASSUME Bad # {} PROVE FALSE
      OBVIOUS
    <2>1. PICK m \in Bad : \A k \in Bad : m <= k
      <3>1. Bad \in SUBSET Nat
        BY SMT
      <3> HIDE DEF Bad
      <3> QED BY <3>1, NatMin
    <2>2. m # 0
      <3>1. Upto([i \in 1..0 |-> FALSE], 0)
        OBVIOUS
      <3> QED BY <2>1, <3>1
    <2>3. PICK h : Upto(h, m - 1)
      <3> HIDE DEF Upto
      <3> QED BY <2>1, <2>2
    <2> DEFINE g == [i \in 1..m |-> IF i = m THEN SkippedBody(p, h, m) ELSE h[i]]
    <2>4. ASSUME NEW i \in 1..m PROVE g[i] = SkippedBody(p, g, i)
      <3>1. i > 1 => g[i - 1] = h[i - 1]
        BY <2>1
      <3>2. SkippedBody(p, g, i) = SkippedBody(p, h, i)
        BY <3>1 DEF SkippedBody
      <3>3. i < m => h[i] = SkippedBody(p, h, i)
        BY <2>1, <2>3
      <3> QED BY <2>1, <3>2, <3>3
    <2>5. Upto(g, m)
      BY <2>4
    <2> QED BY <2>1, <2>5
  <1>2. PICK h : h = Round(h)
    <2>1. n \notin Bad
      BY <1>1
    <2> QED BY <2>1
  <1>3. Skipped(p) = CHOOSE g : g = Round(g)
    BY DEF Skipped, SkippedBody
  <1> HIDE DEF Round
  <1>4. Skipped(p) = Round(Skipped(p))
    BY <1>2, <1>3
  <1> QED BY <1>4 DEF Round

\* The first of a run of stars is not skipped.
LEMMA FirstCounts ==
  ASSUME NEW p, Len(p) \in Nat, NEW i \in 1..Len(p), i = 1 \/ p[i - 1] # "*"
  PROVE  ~Skipped(p)[i]
  <1>1. Skipped(p)[i] = SkippedBody(p, Skipped(p), i)
    BY SkippedFcn
  <1>2. i = 1 => ~(i > 1)
    OBVIOUS
  <1>3. ~SkippedBody(p, Skipped(p), i)
    BY <1>2, Zenon DEF SkippedBody
  <1> QED BY <1>1, <1>3, Zenon

\* The end of the run of stars that i is in, or i.
EndsRun(p, i, e) == /\ e \in i..Len(p)
                    /\ e = Len(p) \/ p[e + 1] # "*"
                    /\ \A j \in i + 1..e : p[j] = "*"
RunEnd(p, i) == CHOOSE e : EndsRun(p, i, e)

LEMMA RunEnds ==
  ASSUME NEW p, Len(p) \in Nat, NEW i \in 1..Len(p)
  PROVE  EndsRun(p, i, RunEnd(p, i))
  <1> DEFINE T == {e \in i..Len(p) : e = Len(p) \/ p[e + 1] # "*"}
  <1>1. PICK e \in T : \A k \in T : e <= k
    <2>1. T \in SUBSET Nat
      OBVIOUS
    <2>2. Len(p) \in T
      OBVIOUS
    <2> HIDE DEF T
    <2>3. T # {}
      BY <2>2
    <2> QED BY <2>1, <2>3, NatMin
  <1>2. ASSUME NEW j \in i + 1..e PROVE p[j] = "*"
    <2>1. j - 1 \in i..Len(p) /\ j - 1 < e
      BY <1>1
    <2>2. j - 1 \notin T
      <3>1. j - 1 \in Nat /\ e \in Nat
        BY <1>1
      <3>2. ~(e <= j - 1)
        BY <2>1, <3>1
      <3> HIDE DEF T
      <3> QED BY <1>1, <3>2
    <2>3. p[j - 1 + 1] = "*"
      BY <2>1, <2>2
    <2>4. j - 1 + 1 = j
      OBVIOUS
    <2> QED BY <2>3, <2>4
  <1>3. EndsRun(p, i, e)
    BY <1>1, <1>2 DEF EndsRun
  <1> QED BY <1>3 DEF RunEnd

\* All stars of a run have its end, a star before another character its own.
LEMMA RunEndIs ==
  ASSUME NEW p, Len(p) \in Nat, NEW i \in 1..Len(p)
  PROVE  /\ i < Len(p) /\ p[i + 1] = "*" => RunEnd(p, i) = RunEnd(p, i + 1)
         /\ i = Len(p) \/ p[i + 1] # "*" => RunEnd(p, i) = i
  <1> DEFINE e == RunEnd(p, i)
  <1>1. EndsRun(p, i, e)
    BY RunEnds
  <1> HIDE DEF e
  <1>2. ASSUME i < Len(p), p[i + 1] = "*" PROVE e = RunEnd(p, i + 1)
    <2> DEFINE d == RunEnd(p, i + 1)
    <2>1. EndsRun(p, i + 1, d)
      BY <1>2, RunEnds
    <2> HIDE DEF d
    <2>2. e \in i + 1..Len(p) /\ d \in i + 1..Len(p)
      BY <1>1, <1>2, <2>1 DEF EndsRun
    <2>3. ~(e < d)
      <3>1. e < d => e + 1 \in i + 1 + 1..d /\ e # Len(p)
        BY <2>2
      <3> QED BY <1>1, <2>1, <3>1 DEF EndsRun
    <2>4. ~(d < e)
      <3>1. d < e => d + 1 \in i + 1..e /\ d # Len(p)
        BY <2>2
      <3> QED BY <1>1, <2>1, <3>1 DEF EndsRun
    <2>5. e = d
      BY <2>2, <2>3, <2>4
    <2> QED BY <2>5 DEF d
  <1>3. ASSUME i = Len(p) \/ p[i + 1] # "*" PROVE e = i
    <2>1. e > i => i + 1 \in i + 1..e /\ i # Len(p)
      BY <1>1 DEF EndsRun
    <2> QED BY <1>1, <1>3, <2>1 DEF EndsRun
  <1> QED BY <1>2, <1>3 DEF e

LEMMA CutsGrow ==
  ASSUME NEW n \in Nat, NEW d \in [0..n -> Nat], \A i \in 1..n : d[i - 1] <= d[i],
         NEW i \in 0..n, NEW j \in i..n
  PROVE  d[i] <= d[j]
  <1> DEFINE T == {k \in i..n : ~(d[i] <= d[k])}
  <1>1. T = {}
    <2> SUFFICES ASSUME T # {} PROVE FALSE
      OBVIOUS
    <2>1. PICK k \in T : \A l \in T : k <= l
      <3>1. T \in SUBSET Nat
        OBVIOUS
      <3> HIDE DEF T
      <3> QED BY <3>1, NatMin
    <2>2. k # i /\ k - 1 \in i..n /\ k \in 1..n
      BY <2>1
    <2>3. k - 1 \notin T
      BY <2>1, <2>2
    <2>4. d[i] <= d[k - 1] /\ d[k - 1] <= d[k]
      BY <2>2, <2>3
    <2> QED BY <2>1, <2>2, <2>4
  <1> QED BY <1>1

LEMMA EmptyPart ==
  ASSUME NEW T, NEW s \in Seq(T), NEW x \in Nat
  PROVE  SubSeq(s, x + 1, x) = <<>> /\ Slashless(SubSeq(s, x + 1, x))
  <1>1. SubSeq(s, x + 1, x) = <<>>
    OBVIOUS
  <1>2. DOMAIN <<>> = {}
    OBVIOUS
  <1> QED BY <1>1, <1>2, Zenon DEF Slashless

\* Given a cut that fits, one in which the first star of a run takes all the
\* run takes, as the regular expression has it.
Gathered(p, d) == [i \in 0..Len(p) |-> IF i \in 1..Len(p) /\ p[i] = "*"
                                       THEN d[RunEnd(p, i)] ELSE d[i]]

LEMMA GatheredIsCut ==
  ASSUME NEW S, NEW p \in Seq(S), NEW T, NEW name \in Seq(T), NEW d \in Cuts(p, name)
  PROVE  /\ Gathered(p, d) \in Cuts(p, name)
         /\ \A i \in 1..Len(p) : Gathered(p, d)[i - 1] =
               IF i > 1 /\ p[i] = "*" /\ p[i - 1] = "*" THEN Gathered(p, d)[i] ELSE d[i - 1]
         /\ \A i \in 1..Len(p) : p[i] # "*" \/ i = Len(p) \/ p[i + 1] # "*"
                                   => Gathered(p, d)[i] = d[i]
  <1> DEFINE n == Len(p)
             c == Gathered(p, d)
  <1>1. n \in Nat /\ Len(name) \in Nat /\ 1..n \subseteq 0..n
    OBVIOUS
  <1>2. /\ d \in [0..n -> 0..Len(name)] /\ d[0] = 0 /\ d[n] = Len(name)
        /\ \A i \in 1..n : d[i - 1] <= d[i]
    BY DEF Cuts
  <1>3. d \in [0..n -> Nat]
    BY <1>1, <1>2
  <1> HIDE DEF n
  <1>4. ASSUME NEW i \in 1..n PROVE RunEnd(p, i) \in i..n
    BY <1>1, <1>4, RunEnds DEF EndsRun, n
  <1>5. \A i \in 0..n : c[i] = IF i \in 1..n /\ p[i] = "*" THEN d[RunEnd(p, i)] ELSE d[i]
    BY DEF Gathered, n
  <1>6. c \in [0..n -> 0..Len(name)]
    <2>1. \A i \in 0..n : (IF i \in 1..n /\ p[i] = "*" THEN d[RunEnd(p, i)] ELSE d[i])
                            \in 0..Len(name)
      <3>1. \A i \in 1..n : RunEnd(p, i) \in 0..n
        BY <1>1, <1>4
      <3> QED BY <1>2, <3>1
    <2> QED BY <2>1 DEF Gathered, n
  <1> HIDE DEF c
  <1>7. ASSUME NEW i \in 1..n PROVE c[i] \in Nat /\ d[i] \in Nat /\ d[i] <= c[i]
    <2>1. d[i] <= d[RunEnd(p, i)]
      BY <1>1, <1>2, <1>3, <1>4, CutsGrow
    <2>2. c[i] \in Nat /\ d[i] \in Nat
      BY <1>1, <1>3, <1>6
    <2> QED BY <1>5, <2>1, <2>2
  <1>8. ASSUME NEW i \in 1..n, p[i] # "*" \/ i = n \/ p[i + 1] # "*"
        PROVE  c[i] = d[i]
    <2>1. p[i] = "*" => RunEnd(p, i) = i
      BY <1>1, <1>8, RunEndIs DEF n
    <2> QED BY <1>5, <2>1
  <1>9. ASSUME NEW i \in 1..n
        PROVE  c[i - 1] = IF i > 1 /\ p[i] = "*" /\ p[i - 1] = "*" THEN c[i] ELSE d[i - 1]
    <2>1. CASE i = 1
      <3>1. c[0] = d[0]
        BY <1>1, <1>5
      <3> QED BY <2>1, <3>1
    <2>2. CASE i > 1 /\ p[i] = "*" /\ p[i - 1] = "*"
      <3>1. i - 1 \in 1..n /\ i - 1 < n /\ i - 1 + 1 = i
        BY <1>1, <2>2
      <3>2. RunEnd(p, i - 1) = RunEnd(p, i)
        BY <1>1, <2>2, <3>1, RunEndIs DEF n
      <3>3. c[i - 1] = d[RunEnd(p, i - 1)] /\ c[i] = d[RunEnd(p, i)]
        BY <1>1, <1>5, <2>2, <3>1
      <3> QED BY <2>2, <3>2, <3>3
    <2>3. CASE i > 1 /\ (p[i] # "*" \/ p[i - 1] # "*")
      <3>1. i - 1 \in 1..n /\ i - 1 + 1 = i
        BY <1>1, <2>3
      <3>2. c[i - 1] = d[i - 1]
        BY <1>8, <2>3, <3>1
      <3> QED BY <2>3, <3>2
    <2> QED BY <1>1, <2>1, <2>2, <2>3
  <1>10. ASSUME NEW i \in 1..n PROVE c[i - 1] <= c[i]
    <2>1. d[i - 1] <= d[i] /\ d[i - 1] \in Nat
      BY <1>1, <1>2, <1>3
    <2>2. c[i] <= c[i]
      BY <1>7
    <2>3. d[i - 1] <= c[i]
      BY <1>7, <2>1
    <2> QED BY <1>9, <2>2, <2>3
  <1>11. c[0] = 0
    BY <1>1, <1>2, <1>5
  <1>12. c[n] = Len(name)
    <2>1. CASE n = 0
      BY <1>2, <1>11, <2>1
    <2>2. CASE n # 0
      BY <1>1, <1>2, <1>8, <2>2
    <2> QED BY <2>1, <2>2
  <1>13. c \in Cuts(p, name)
    BY <1>6, <1>10, <1>11, <1>12 DEF Cuts, n
  <1> QED BY <1>8, <1>9, <1>13 DEF c, n

LEMMA GatheredMatches ==
  ASSUME NEW S, NEW p \in Seq(S), NEW T, NEW name \in Seq(T), NEW d \in Cuts(p, name),
         NEW i \in 1..Len(p), StandsFor(p, i, Part(name, d, i))
  PROVE  PieceMatches(p, i, Part(name, Gathered(p, d), i))
  <1> DEFINE c == Gathered(p, d)
  <1>1. /\ c \in Cuts(p, name)
        /\ c[i - 1] = IF i > 1 /\ p[i] = "*" /\ p[i - 1] = "*" THEN c[i] ELSE d[i - 1]
        /\ p[i] # "*" \/ i = Len(p) \/ p[i + 1] # "*" => c[i] = d[i]
    BY GatheredIsCut
  <1> HIDE DEF c
  <1>2. CASE p[i] # "*"
    <2>1. Part(name, c, i) = Part(name, d, i)
      BY <1>1, <1>2 DEF Part
    <2> QED BY <1>2, <2>1 DEF StandsFor, PieceMatches, c
  <1>3. CASE p[i] = "*" /\ i > 1 /\ p[i - 1] = "*"
    <2>1. c[i] \in Nat
      BY <1>1 DEF Cuts
    <2>2. Part(name, c, i) = SubSeq(name, c[i] + 1, c[i])
      BY <1>1, <1>3 DEF Part
    <2>3. Part(name, c, i) = <<>> /\ Slashless(Part(name, c, i))
      BY <2>1, <2>2, EmptyPart
    <2> QED BY <1>3, <2>3 DEF PieceMatches, c
  <1>4. CASE p[i] = "*" /\ ~(i > 1 /\ p[i - 1] = "*")
    <2>1. ~Skipped(p)[i]
      BY <1>4, FirstCounts
    <2>2. CASE i < Len(p) /\ p[i + 1] = "*"
      BY <1>4, <2>1, <2>2 DEF PieceMatches
    <2>3. CASE ~(i < Len(p) /\ p[i + 1] = "*")
      <3>1. c[i] = d[i] /\ c[i - 1] = d[i - 1]
        BY <1>1, <1>4, <2>3
      <3>2. Part(name, c, i) = Part(name, d, i)
        BY <3>1 DEF Part
      <3>3. ~\E j \in {i - 1, i + 1} \cap DOMAIN p : p[j] = "*"
        BY <1>4, <2>3
      <3>4. Slashless(Part(name, d, i))
        BY <1>4, <3>3 DEF StandsFor
      <3> QED BY <1>4, <2>1, <3>2, <3>4 DEF PieceMatches, c
    <2> QED BY <2>2, <2>3
  <1> QED BY <1>2, <1>3, <1>4

(***************************************************************************)
(* The regular expression that globMatch builds matches a branch exactly   *)
(* when the pattern, read as its comment says, fits: a star is a run of    *)
(* anything but slashes and stars in a row a run of anything, however many *)
(* there are and whatever surrounds them.                                  *)
(***************************************************************************)
THEOREM GlobIsDescribed ==
  ASSUME NEW S, NEW p \in Seq(S), NEW T, NEW name \in Seq(T)
  PROVE  GlobMatch(p, name) <=> Fits(p, name)
  <1>1. ASSUME GlobMatch(p, name) PROVE Fits(p, name)
    <2>1. PICK c \in Cuts(p, name) : \A i \in 1..Len(p) : PieceMatches(p, i, Part(name, c, i))
      BY <1>1 DEF GlobMatch
    <2>2. ASSUME NEW i \in 1..Len(p) PROVE StandsFor(p, i, Part(name, c, i))
      <3>1. PieceMatches(p, i, Part(name, c, i))
        BY <2>1
      <3>2. Skipped(p)[i] => i > 1 /\ p[i - 1] = "*"
        <4>1. Skipped(p)[i] = SkippedBody(p, Skipped(p), i)
        BY SkippedFcn
      <4> QED BY <4>1, Zenon DEF SkippedBody
      <3>3. /\ i > 1 => i - 1 \in {i - 1, i + 1} \cap DOMAIN p
            /\ i < Len(p) => i + 1 \in {i - 1, i + 1} \cap DOMAIN p
        OBVIOUS
      <3> QED BY <3>1, <3>2, <3>3 DEF PieceMatches, StandsFor
    <2> QED BY <2>1, <2>2 DEF Fits
  <1>2. ASSUME Fits(p, name) PROVE GlobMatch(p, name)
    <2>1. PICK d \in Cuts(p, name) : \A i \in 1..Len(p) : StandsFor(p, i, Part(name, d, i))
      BY <1>2 DEF Fits
    <2>2. Gathered(p, d) \in Cuts(p, name)
      BY GatheredIsCut
    <2>3. \A i \in 1..Len(p) : PieceMatches(p, i, Part(name, Gathered(p, d), i))
      BY <2>1, GatheredMatches
    <2> QED BY <2>2, <2>3 DEF GlobMatch
  <1> QED BY <1>1, <1>2-----------------------------------------------------------------------------
(* The `on:` key                                                           *)

LEMMA KeysAreOdd ==
  ASSUME NEW l \in Nat, NEW i \in 1..l \div 2
  PROVE  /\ 2 * i \in 1..l /\ 2 * i - 1 \in 1..l - 1 /\ 2 * i - 1 + 1 = 2 * i
         /\ (2 * i - 1) % 2 = 1
  <1>1. i \in Nat /\ i # 0
    OBVIOUS
  <1>2. (2 * i - 1) % 2 = 1
    BY <1>1
  <1>3. 2 * i \in 1..l /\ 2 * i - 1 \in 1..l - 1 /\ 2 * i - 1 + 1 = 2 * i
    OBVIOUS
  <1> QED BY <1>2, <1>3

LEMMA OddIsKey ==
  ASSUME NEW l \in Nat, NEW j \in 1..l - 1, j % 2 = 1
  PROVE  \E i \in 1..l \div 2 : j = 2 * i - 1
  <1>1. PICK i \in Int : j = 2 * i - 1
    <2>1. j = 2 * (j \div 2) + 1
      OBVIOUS
    <2>2. j \div 2 \in Int
      OBVIOUS
    <2>3. \A k \in Int : j = 2 * k + 1 => k + 1 \in Int /\ j = 2 * (k + 1) - 1
      OBVIOUS
    <2> QED BY <2>1, <2>2, <2>3
  <1>2. i \in 1..l \div 2
    BY <1>1
  <1> QED BY <1>1, <1>2

LEMMA BelowGrows ==
  ASSUME NEW A, NEW B, A \subseteq B
  PROVE  Below(A) \subseteq Below(B)
  BY DEF Below

\* mapValue finds the first value of a key, if there is any.
LEMMA MapValue ==
  ASSUME NEW node, NodeOK(node), NEW k
  PROVE  \/ ValuesOf(node, k) = <<>> /\ Under(node, k) = {}
         \/ \E v : /\ ValuesOf(node, k) = <<v>> /\ Under(node, k) = {v}
                   /\ v \in Below({node})
  <1> DEFINE l == Len(node.content)
             named(j) == j % 2 = 1 /\ node.content[j].value = k
             at == {i \in 1..l \div 2 : node.content[2 * i - 1].value = k}
             firsts == {j \in 1..l - 1 : named(j) /\ \A e \in 1..j - 1 : ~named(e)}
             first == CHOOSE i \in at : \A j \in at : i <= j
  <1>1. l \in Nat /\ DOMAIN node.content = 1..l
    BY DEF NodeOK, AsSeq
  <1>2. ValuesOf(node, k) = IF at = {} THEN <<>> ELSE <<node.content[2 * first]>>
    BY DEF ValuesOf
  <1>3. Under(node, k) = {node.content[j + 1] : j \in firsts}
    BY DEF Under
  <1>4. ASSUME NEW j \in 1..l - 1, named(j)
        PROVE  \E i \in at : j = 2 * i - 1
    <2>1. PICK i \in 1..l \div 2 : j = 2 * i - 1
      <3>1. j % 2 = 1
        BY <1>4
      <3> HIDE DEF l
      <3> QED BY <1>1, <3>1, OddIsKey
    <2>2. node.content[2 * i - 1].value = k
      BY <1>4, <2>1
    <2> QED BY <2>1, <2>2
  <1>5. ASSUME NEW i \in at
        PROVE  /\ 2 * i - 1 \in 1..l - 1 /\ named(2 * i - 1)
               /\ 2 * i - 1 + 1 = 2 * i /\ 2 * i \in 1..l
    <2>1. i \in 1..l \div 2 /\ node.content[2 * i - 1].value = k
      OBVIOUS
    <2>2. /\ 2 * i \in 1..l /\ 2 * i - 1 \in 1..l - 1 /\ 2 * i - 1 + 1 = 2 * i
          /\ (2 * i - 1) % 2 = 1
      <3> HIDE DEF l, at
      <3> QED BY <1>1, <2>1, KeysAreOdd
    <2> QED BY <2>1, <2>2
  <1>6. at \in SUBSET Nat
    <2>1. at \in SUBSET (1..l \div 2)
      OBVIOUS
    <2> HIDE DEF at, l
    <2> QED BY <1>1, <2>1
  <1>7. CASE at = {}
    <2>1. firsts = {}
      <3>1. \A j \in firsts : j \in 1..l - 1 /\ named(j)
        OBVIOUS
      <3> HIDE DEF at, firsts, named
      <3> QED BY <1>4, <1>7, <3>1
    <2>2. Under(node, k) = {}
      BY <1>3, <2>1
    <2> QED BY <1>2, <1>7, <2>2
  <1>8. CASE at # {}
    <2>1. PICK m \in at : \A j \in at : m <= j
      <3> HIDE DEF at
      <3> QED BY <1>6, <1>8, NatMin
    <2>2. first \in at /\ \A j \in at : first <= j
      <3> HIDE DEF at
      <3> QED BY <2>1
    <2> HIDE DEF first
    <2>3. first \in Nat
      BY <1>6, <2>2
    <2>4. ASSUME NEW j \in firsts PROVE j = 2 * first - 1
      <3>1. j \in 1..l - 1 /\ named(j) /\ \A e \in 1..j - 1 : ~named(e)
        OBVIOUS
      <3>2. PICK i \in at : j = 2 * i - 1
        <4> HIDE DEF named, at
        <4> QED BY <1>4, <3>1
      <3>3. first <= i /\ i \in Nat
        BY <1>6, <2>2
      <3>4. 2 * first - 1 \in 1..l - 1 /\ named(2 * first - 1)
        <4> HIDE DEF named, at
        <4> QED BY <1>5, <2>2
      <3>5. 2 * first - 1 \notin 1..j - 1
        <4> HIDE DEF named
        <4> QED BY <3>1, <3>4
      <3> HIDE DEF named, at, l
      <3>6. 2 * first - 1 >= 1
        BY <1>1, <2>3, <3>4
      <3> QED BY <2>3, <3>2, <3>3, <3>5, <3>6
    <2>5. 2 * first - 1 \in firsts
      <3>1. 2 * first - 1 \in 1..l - 1 /\ named(2 * first - 1)
        <4> HIDE DEF named, at
        <4> QED BY <1>5, <2>2
      <3>2. ASSUME NEW e \in 1..2 * first - 1 - 1, named(e) PROVE FALSE
        <4>1. e \in 1..l - 1
          <5> HIDE DEF l
          <5> QED BY <1>1, <2>3, <3>1
        <4>2. PICK i \in at : e = 2 * i - 1
          <5> HIDE DEF named, at
          <5> QED BY <1>4, <3>2, <4>1
        <4>3. first <= i /\ i \in Nat
          BY <1>6, <2>2
        <4> HIDE DEF named, at, l
        <4> QED BY <2>3, <4>2, <4>3
      <3> QED BY <3>1, <3>2
    <2> DEFINE v == node.content[2 * first]
    <2>6. 2 * first - 1 + 1 = 2 * first /\ 2 * first \in 1..l
      <3> HIDE DEF named, at, l
      <3> QED BY <1>5, <2>2
    <2>7. firsts = {2 * first - 1}
      <3> HIDE DEF firsts
      <3> QED BY <2>4, <2>5
    <2>8. Under(node, k) = {v}
      <3> HIDE DEF firsts
      <3> QED BY <1>3, <2>6, <2>7
    <2>9. ValuesOf(node, k) = <<v>>
      <3> HIDE DEF at
      <3> QED BY <1>2, <1>8
    <2>10. v \in Below({node})
      <3> HIDE DEF l
      <3> QED BY <1>1, <2>6 DEF Below
    <2> QED BY <2>8, <2>9, <2>10
  <1> QED BY <1>7, <1>8

\* seqStrings has the scalar words.
LEMMA StringsAreWords ==
  ASSUME NEW v
  PROVE  SeqStrings(<<v>>) = {w.value : w \in {w \in Words(v) : w.kind = "scalar"}}
  <1>1. <<v>> # <<>> /\ <<v>>[1] = v
    OBVIOUS
  <1>2. CASE v.kind = "scalar"
    <2>1. SeqStrings(<<v>>) = {v.value} /\ Words(v) = {v}
      BY <1>1, <1>2 DEF SeqStrings, Words
    <2> QED BY <1>2, <2>1
  <1>3. CASE v.kind = "sequence"
    <2>1. v.kind # "scalar"
      BY <1>3
    <2>2. SeqStrings(<<v>>) =
            {v.content[i].value : i \in {i \in DOMAIN v.content : v.content[i].kind = "scalar"}}
      BY <1>1, <1>3, <2>1 DEF SeqStrings
    <2>3. Words(v) = {v.content[i] : i \in DOMAIN v.content}
      BY <1>3, <2>1 DEF Words
    <2> QED BY <2>2, <2>3
  <1>4. CASE v.kind \notin {"scalar", "sequence"}
    <2>1. SeqStrings(<<v>>) = {} /\ Words(v) = {}
      BY <1>1, <1>4 DEF SeqStrings, Words
    <2> QED BY <2>1
  <1> QED BY <1>2, <1>3, <1>4

LEMMA WordsBelow ==
  ASSUME NEW v, NEW w \in Words(v)
  PROVE  w = v \/ w \in Below({v})
  <1>1. CASE v.kind = "scalar"
    BY <1>1 DEF Words
  <1>2. CASE v.kind = "sequence"
    <2>1. Words(v) = {v.content[i] : i \in DOMAIN v.content}
      BY <1>2 DEF Words
    <2> QED BY <2>1 DEF Below
  <1>3. CASE v.kind \notin {"scalar", "sequence"}
    BY <1>3 DEF Words
  <1> QED BY <1>1, <1>2, <1>3

LEMMA GlobFitsOf ==
  ASSUME NEW p, AsSeq(p), NEW b, AsSeq(b)
  PROVE  GlobMatch(p, b) <=> Fits(p, b)
  BY GlobIsDescribed DEF AsSeq

\* A list of branches under a key of a mapping, and what it lets through.
LEMMA ListDecides ==
  ASSUME NEW node, node.kind = "mapping", NEW b, AsSeq(b), NEW k,
         \A n \in {node} \union Below({node}) \union Below(Below({node})) : NodeOK(n)
  PROVE  /\ AnyGlob(SeqStrings(ValuesOf(node, k)), b) <=> Listed(node, k, b)
         /\ SeqStrings(ValuesOf(node, k)) # {} <=> Constrains(node, k)
  <1>1. NodeOK(node)
    OBVIOUS
  <1>2. CASE ValuesOf(node, k) = <<>> /\ Under(node, k) = {}
    <2>1. SeqStrings(ValuesOf(node, k)) = {}
      BY <1>2 DEF SeqStrings
    <2> QED BY <1>2, <2>1 DEF AnyGlob, Listed, Constrains
  <1>3. ASSUME NEW v, ValuesOf(node, k) = <<v>>, Under(node, k) = {v}, v \in Below({node})
        PROVE  /\ AnyGlob(SeqStrings(ValuesOf(node, k)), b) <=> Listed(node, k, b)
               /\ SeqStrings(ValuesOf(node, k)) # {} <=> Constrains(node, k)
    <2> DEFINE W == {w \in Words(v) : w.kind = "scalar"}
    <2>1. SeqStrings(ValuesOf(node, k)) = {w.value : w \in W}
      BY <1>3, StringsAreWords
    <2>2. ASSUME NEW w \in W PROVE GlobMatch(w.value, b) <=> Fits(w.value, b)
      <3>1. w = v \/ w \in Below({v})
        BY WordsBelow
      <3>2. Below({v}) \subseteq Below(Below({node}))
        <4>1. {v} \subseteq Below({node})
          BY <1>3
        <4> QED BY <4>1, BelowGrows
      <3>3. NodeOK(w)
        BY <1>3, <3>1, <3>2
      <3> QED BY <3>3, GlobFitsOf DEF NodeOK
    <2>3. AnyGlob({w.value : w \in W}, b) <=> \E w \in W : Fits(w.value, b)
      BY <2>2 DEF AnyGlob
    <2>4. Listed(node, k, b) <=> \E w \in W : Fits(w.value, b)
      BY <1>3 DEF Listed
    <2>5. Constrains(node, k) <=> W # {}
      BY <1>3 DEF Constrains
    <2>6. {w.value : w \in W} # {} <=> W # {}
      OBVIOUS
    <2> HIDE DEF W
    <2> QED BY <2>1, <2>3, <2>4, <2>5, <2>6
  <1> QED BY <1>1, <1>2, <1>3, MapValue
LEMMA BareMatches ==
  ASSUME NEW r \in BOOLEAN, NEW b
  PROVE  Matches([reacts |-> r, branches |-> {}, ignore |-> {}], b) <=> r
  BY DEF Matches, AnyGlob

(***************************************************************************)
(* What triggeredBy selects is what the docs say it does: a workflow that  *)
(* cannot be parsed, or one that reacts to push and whose branch filters   *)
(* let the branch through.                                                 *)
(***************************************************************************)
LEMMA TriggeredIsWanted ==
  ASSUME NEW w, NEW b, AsSeq(b),
         LET top == {w.on}
         IN  \A n \in top \union Below(top) \union Below(Below(top))
                 \union Below(Below(Below(top))) : NodeOK(n)
  PROVE  TriggeredBy(w, b) <=> Wanted(w, b)
  <1> DEFINE on == w.on
             push0 == <<"push">>
             got == Matches(InterpretOn(on), b)
             bare(r) == [reacts |-> r, branches |-> {}, ignore |-> {}]
             want == \/ /\ on.kind \in {"scalar", "sequence"}
                        /\ \E u \in Words(on) : u.kind = "scalar" /\ u.value = push0
                     \/ /\ on.kind = "mapping"
                        /\ \E v \in Under(on, push0) :
                             v.kind = "mapping" =>
                               /\ Constrains(v, <<"branches">>) => Listed(v, <<"branches">>, b)
                               /\ ~Listed(v, <<"branches-ignore">>, b)
  <1>1. got <=> want
    <2>1. CASE on.kind = "scalar"
      <3>1. InterpretOn(on) = bare(on.value = push0)
        BY <2>1 DEF InterpretOn
      <3>2. got <=> on.value = push0
        <4>1. (on.value = push0) \in BOOLEAN
          OBVIOUS
        <4> QED BY <3>1, <4>1, BareMatches
      <3>3. Words(on) = {on}
        BY <2>1 DEF Words
      <3>4. want <=> on.value = push0
        <4> HIDE DEF on, push0
        <4> QED BY <2>1, <3>3
      <3> QED BY <3>2, <3>4
    <2>2. CASE on.kind = "sequence"
      <3> DEFINE has == \E i \in DOMAIN on.content : /\ on.content[i].kind = "scalar"
                                                     /\ on.content[i].value = push0
      <3>1. InterpretOn(on) = bare(has)
        BY <2>2 DEF InterpretOn
      <3>2. got <=> has
        <4>1. has \in BOOLEAN
          OBVIOUS
        <4> HIDE DEF has
        <4> QED BY <3>1, <4>1, BareMatches
      <3>3. Words(on) = {on.content[i] : i \in DOMAIN on.content}
        BY <2>2 DEF Words
      <3>4. want <=> has
        <4> HIDE DEF on, push0
        <4> QED BY <2>2, <3>3
      <3> QED BY <3>2, <3>4
    <2>3. CASE on.kind = "mapping"
      <3> DEFINE pushed == ValuesOf(on, push0)
                 full == [reacts   |-> TRUE,
                          branches |-> SeqStrings(ValuesOf(pushed[1], <<"branches">>)),
                          ignore   |-> SeqStrings(ValuesOf(pushed[1], <<"branches-ignore">>))]
      <3>1. InterpretOn(on) = IF pushed = <<>> \/ pushed[1].kind # "mapping"
                              THEN bare(pushed # <<>>) ELSE full
        BY <2>3 DEF InterpretOn
      <3>2. NodeOK(on)
        OBVIOUS
      <3>3. CASE ValuesOf(on, push0) = <<>> /\ Under(on, push0) = {}
        <4>1. InterpretOn(on) = bare(FALSE)
          BY <3>1, <3>3
        <4>2. ~got
          BY <4>1, BareMatches
        <4>3. ~want
          BY <2>3, <3>3
        <4> QED BY <4>2, <4>3
      <3>4. ASSUME NEW v, ValuesOf(on, push0) = <<v>>, Under(on, push0) = {v}, v \in Below({on})
            PROVE  got <=> want
        <4>1. pushed # <<>> /\ pushed[1] = v
          BY <3>4
        <4>2. CASE v.kind # "mapping"
          <5>1. InterpretOn(on) = bare(TRUE)
            BY <3>1, <4>1, <4>2
          <5>2. got
            BY <5>1, BareMatches
          <5>3. want
            BY <2>3, <3>4, <4>2
          <5> QED BY <5>2, <5>3
        <4>3. CASE v.kind = "mapping"
          <5>1. \A n \in {v} \union Below({v}) \union Below(Below({v})) : NodeOK(n)
            <6>1. {v} \subseteq Below({on})
              BY <3>4
            <6>2. Below({v}) \subseteq Below(Below({on}))
              BY <6>1, BelowGrows
            <6>3. Below(Below({v})) \subseteq Below(Below(Below({on})))
              BY <6>2, BelowGrows
            <6> QED BY <6>1, <6>2, <6>3
          <5>2. \A k : /\ AnyGlob(SeqStrings(ValuesOf(v, k)), b) <=> Listed(v, k, b)
                       /\ SeqStrings(ValuesOf(v, k)) # {} <=> Constrains(v, k)
            BY <4>3, <5>1, ListDecides
          <5> DEFINE B == SeqStrings(ValuesOf(v, <<"branches">>))
                     I == SeqStrings(ValuesOf(v, <<"branches-ignore">>))
          <5>3. InterpretOn(on) = [reacts |-> TRUE, branches |-> B, ignore |-> I]
            BY <3>1, <4>1, <4>3
          <5>4. got <=> (B # {} => AnyGlob(B, b)) /\ ~AnyGlob(I, b)
            <6> HIDE DEF B, I
            <6> QED BY <5>3 DEF Matches
          <5>5. want <=> /\ Constrains(v, <<"branches">>) => Listed(v, <<"branches">>, b)
                         /\ ~Listed(v, <<"branches-ignore">>, b)
            <6> HIDE DEF on, push0
            <6> QED BY <2>3, <3>4, <4>3
          <5>6. /\ AnyGlob(B, b) <=> Listed(v, <<"branches">>, b)
                /\ B # {} <=> Constrains(v, <<"branches">>)
                /\ AnyGlob(I, b) <=> Listed(v, <<"branches-ignore">>, b)
            BY <5>2
          <5> HIDE DEF B, I, got, want
          <5> QED BY <5>4, <5>5, <5>6
        <4> QED BY <4>2, <4>3
      <3> QED BY <2>3, <3>2, <3>3, <3>4, MapValue
    <2>4. CASE on.kind \notin {"scalar", "sequence", "mapping"}
      <3>1. InterpretOn(on) = bare(FALSE)
        BY <2>4 DEF InterpretOn
      <3>2. ~got
        BY <3>1, BareMatches
      <3> QED BY <2>4, <3>2
    <2> QED BY <2>1, <2>2, <2>3, <2>4
  <1>2. TriggeredBy(w, b) <=> ~w.parses \/ got
    BY DEF TriggeredBy
  <1>3. Wanted(w, b) <=> ~w.parses \/ want
    BY Zenon DEF Wanted
  <1> HIDE DEF got, want
  <1> QED BY <1>1, <1>2, <1>3

LEMMA TriggeredIsCaused ==
  ASSUME WellFormed, NEW c \in Commit, NEW b \in Branch
  PROVE  Triggered[c][b] = Causes[c][b]
  <1>1. \A f \in DOMAIN c : TriggeredBy(c[f], b) <=> Wanted(c[f], b)
    BY TriggeredIsWanted DEF WellFormed
  <1> QED BY <1>1 DEF Triggered, Causes
=============================================================================
