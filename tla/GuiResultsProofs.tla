-------------------------- MODULE GuiResultsProofs --------------------------
(***************************************************************************)
(* Proofs about what the GUI makes of captures: estimates of a direction,  *)
(* for any settings, captures and powers, and files, for any texts, sizes  *)
(* and bounds.                                                             *)
(*                                                                         *)
(* Estimates: what is stored together belongs together                     *)
(* (EstimateIsOfTheWindow), by the arithmetic of slices. The peaks are a   *)
(* fold over the candidates in an order of falling power (PeaksAreReal):   *)
(* the fold is defined for any number of them (FoldExists), and what holds *)
(* of a prefix (TakenOf) holds of the next one (TakeStep). The order has   *)
(* every candidate in it, and the highest power is one of them.            *)
(*                                                                         *)
(* Files: a unit of a name that is a number is the label of a press that   *)
(* has been (NameTypes, FilesAreOlder), so that the name of this press is  *)
(* of no earlier file (NamesDiffer); and the template of the next name is  *)
(* what the user typed last (TemplatesFollow).                             *)
(***************************************************************************)
EXTENDS DoaEstimate, OutputFiles,
        FiniteSetTheorems, SequenceTheorems, WellFoundedInduction, TLAPS

-----------------------------------------------------------------------------
(* Numbers *)

\* A nonempty set of naturals has a least element.
LEMMA LeastExists ==
    ASSUME NEW S, S \subseteq Nat, S # {}
    PROVE  \E i \in S : \A j \in S : i <= j
  <1>1. PICK i \in S : \A j \in S : ~ <<j, i>> \in OpToRel(<, Nat)
    BY WFMin, NatLessThanWellFounded
  <1>2. ASSUME NEW j \in S PROVE i <= j
    <2>1. <<j, i>> \in Nat \X Nat
      OBVIOUS
    <2>2. ~ (j < i)
      BY <1>1, <2>1 DEF OpToRel
    <2> QED BY <2>2
  <1> QED BY <1>2

\* Induction up to n, on a set.
LEMMA CountingUp ==
    ASSUME NEW n \in Nat, NEW S, 0 \in S,
           \A k \in 0..(n - 1) : k \in S => k + 1 \in S
    PROVE  \A k \in 0..n : k \in S
  <1> DEFINE T == {k \in 0..n : k \notin S}
  <1>1. CASE T = {}
    BY <1>1
  <1>2. CASE T # {}
    <2>1. T \subseteq Nat
      OBVIOUS
    <2>2. PICK i \in T : \A j \in T : i <= j
      BY <1>2, <2>1, LeastExists
    <2>3. i \in 1..n /\ i \notin S
      OBVIOUS
    <2>4. i - 1 \in 0..(n - 1) /\ i - 1 \in 0..n /\ (i - 1) + 1 = i
      BY <2>3
    <2>5. i - 1 \in S
      <3>1. ASSUME i - 1 \in T PROVE FALSE
        <4>1. i <= i - 1
          BY <2>2, <3>1
        <4> QED BY <4>1, <2>3
      <3> QED BY <3>1, <2>4
    <2> QED BY <2>3, <2>4, <2>5
  <1> QED BY <1>1, <1>2

\* A nonempty set of naturals with a bound has a greatest element.
LEMMA MaxIn ==
    ASSUME NEW k \in Nat, NEW s \in SUBSET (0..k), s # {}
    PROVE  Max(s) \in s
  <1> DEFINE T == {t \in 0..k : k - t \in s}
  <1>1. T \subseteq Nat /\ s \subseteq 0..k
    OBVIOUS
  <1>2. \A j \in s : k - j \in T
    <2>1. ASSUME NEW j \in s PROVE k - j \in T
      <3>1. j \in 0..k /\ k - (k - j) = j
        BY <1>1
      <3> QED BY <3>1
    <2> QED BY <2>1
  <1>3. PICK t \in T : \A u \in T : t <= u
    <2>1. T # {}
      BY <1>2
    <2> QED BY <1>1, <2>1, LeastExists
  <1>4. k - t \in s /\ \A j \in s : k - t >= j
    <2>1. ASSUME NEW j \in s PROVE k - t >= j
      <3>1. t <= k - j
        BY <1>2, <1>3
      <3> QED BY <3>1, <1>1
    <2> QED BY <2>1
  <1> QED BY <1>4 DEF Max

\* Min and Max of two numbers.
LEMMA MinOfTwo ==
    ASSUME NEW a \in Nat, NEW b \in Nat
    PROVE  /\ Min({a, b}) \in {a, b}
           /\ Min({a, b}) <= a /\ Min({a, b}) <= b
  <1>1. CASE a <= b
    <2>1. a \in {a, b} /\ \A j \in {a, b} : a <= j
      BY <1>1
    <2> QED BY <2>1 DEF Min
  <1>2. CASE b <= a
    <2>1. b \in {a, b} /\ \A j \in {a, b} : b <= j
      BY <1>2
    <2> QED BY <2>1 DEF Min
  <1> QED BY <1>1, <1>2

LEMMA MaxOfTwo ==
    ASSUME NEW a \in Nat, NEW b \in Int
    PROVE  Max({a, b}) \in Int /\ Max({a, b}) >= a
  <1>1. CASE a >= b
    <2>1. a \in {a, b} /\ \A j \in {a, b} : a >= j
      BY <1>1
    <2> QED BY <2>1 DEF Max
  <1>2. CASE b >= a
    <2>1. b \in {a, b} /\ \A j \in {a, b} : b >= j
      BY <1>2
    <2> QED BY <2>1 DEF Max
  <1> QED BY <1>1, <1>2

-----------------------------------------------------------------------------
(* The window *)

LEMMA Extents ==
    ASSUME NEW s \in Setting
    PROVE  Extent(s) \in Nat /\ Extent(s) >= 1
  <1>1. s.symbol \in Nat \ {0} /\ s.decimation \in Nat \ {0}
    BY DEF Setting
  <1>2. \A a, b \in Nat \ {0} : a * b \in Nat /\ a * b >= 1
    OBVIOUS
  <1> QED BY <1>1, <1>2 DEF Extent

LEMMA StartsFit ==
    ASSUME NEW s \in Setting, NEW frames \in Nat,
           NEW start \in Starts(s, frames)
    PROVE  /\ start \in Nat
           /\ start + Extent(s) <= Searched(s, frames)
           /\ start + Extent(s) <= frames
  <1>1. s.search \in Nat
    BY DEF Setting
  <1>2. Searched(s, frames) \in Nat /\ Searched(s, frames) <= frames
    BY <1>1, MinOfTwo DEF Searched
  <1>3. start \in 0..LastStart(s, frames)
    BY DEF Starts
  <1> QED BY <1>2, <1>3, Extents DEF LastStart

\* What a stored estimate is of: the window w of a capture, the samples u.
LEMMA ResultOf ==
    ASSUME NEW s, NEW u, NEW r \in Estimates(s, u),
           s.method \in {"conventional", "subspace", "capon"}
    PROVE  \/ r = Failed
           \/ /\ Accepted(s, u)
              /\ r \in Found(s, u)
  BY DEF Estimates, Conventional, Subspace, Capon

LEMMA FoundIs ==
    ASSUME NEW s, NEW u, NEW r \in Found(s, u)
    PROVE  /\ r.run = run' /\ r.from = u.from /\ r.count = u.count
           /\ r.valid
           /\ r.power \in Powers /\ Len(r.power) = s.angles
           /\ r.peaks \in PickPeaks(r.power, s.peaks)
  BY DEF Found

LEMMA StoredFits ==
    ASSUME NEW s \in Setting, NEW frames \in Nat, NEW w, NEW u,
           NEW start \in Nat,
           Store(s, frames, w, u, start),
           w.from \in Nat, w.count \in Nat, w.from + w.count <= frames,
           s.gate => /\ w.from = start
                     /\ start + Extent(s) <= Searched(s, frames),
           u.count \in Nat,
           u.count >= 2 =>
               /\ u.from = IF s.gate THEN w.from ELSE s.start
               /\ u.from + u.count <= w.from + w.count
               /\ \/ u.count = s.count
                  \/ u.from + u.count = w.from + w.count
               /\ s.gate /\ s.keep = 0 /\ s.count = 0 =>
                    u.count = Extent(s)
    PROVE  EstimateIsOfTheWindow'
  <1>1. /\ window' = [run |-> run', from |-> w.from, count |-> w.count]
        /\ seen' = Min({w.count, WindowSamples})
        /\ hit' = s.gate /\ hitAt' = start
        /\ result' \in Estimates(s, u) /\ missed' = FALSE
        /\ stored' = [setting |-> s, frames |-> frames]
    BY DEF Store
  <1>2. seen' <= w.count
    BY <1>1, MinOfTwo, DoaAssumption
  <1>3. s.method \in {"conventional", "subspace", "capon"}
    BY DEF Setting
  <1>4. /\ result'.run = run'
        /\ result'.valid => /\ u.count >= 2
                            /\ result'.from = u.from
                            /\ result'.count = u.count
    <2>1. CASE result' = Failed
      BY <2>1 DEF Failed, Invalid
    <2>2. CASE Accepted(s, u) /\ result' \in Found(s, u)
      BY <2>2, FoundIs DEF Accepted
    <2> QED BY <1>1, <1>3, <2>1, <2>2, ResultOf
  <1> QED BY <1>1, <1>2, <1>4 DEF EstimateIsOfTheWindow, Extent, Searched

LEMMA UngatedFits ==
    ASSUME NEW s \in Settings, NEW frames \in FrameCounts,
           EstimateUngated(s, frames)
    PROVE  EstimateIsOfTheWindow'
  <1> DEFINE w == Whole(frames)
             u == Prepared(w, s.start, s.count)
  <1>1. s \in Setting /\ frames \in Nat
    BY DoaAssumption
  <1>2. s.start \in Nat /\ s.count \in Nat
    BY <1>1 DEF Setting
  <1>3. ~s.gate /\ Store(s, frames, w, u, 0)
    BY DEF EstimateUngated
  <1>4. w.from = 0 /\ w.count = frames
    BY DEF Whole
  <1>5. /\ u.from = s.start
        /\ u.count = IF s.start >= frames THEN 0
                     ELSE IF s.count = 0 THEN frames - s.start
                     ELSE Min({s.count, frames - s.start})
    BY <1>2, <1>4 DEF Prepared
  <1> HIDE DEF w, u
  <1>6. /\ u.count \in Nat
        /\ u.count >= 2 =>
             /\ u.from + u.count <= frames
             /\ u.count = s.count \/ u.from + u.count = frames
    <2>1. CASE s.start >= frames
      BY <1>5, <2>1
    <2>2. CASE ~(s.start >= frames) /\ s.count = 0
      BY <1>1, <1>2, <1>5, <2>2
    <2>3. CASE ~(s.start >= frames) /\ s.count # 0
      <3>1. frames - s.start \in Nat
        BY <1>1, <1>2, <2>3
      <3>2. u.count = Min({s.count, frames - s.start})
        BY <1>5, <2>3
      <3> QED BY <1>1, <1>2, <1>5, <3>1, <3>2, MinOfTwo
    <2> QED BY <2>1, <2>2, <2>3
  <1> QED BY <1>1, <1>3, <1>4, <1>5, <1>6, StoredFits

LEMMA GatedFits ==
    ASSUME NEW s \in Settings, NEW frames \in FrameCounts,
           EstimateGated(s, frames)
    PROVE  EstimateIsOfTheWindow'
  <1>1. s \in Setting /\ frames \in Nat
    BY DoaAssumption
  <1>2. s.count \in Nat /\ s.keep \in Nat /\ s.gate
    BY <1>1 DEF Setting, EstimateGated
  <1>3. PICK start \in Starts(s, frames) :
            LET w == Gated(s, frames, start)
                n == IF s.count = 0 \/ s.count > w.count THEN w.count
                     ELSE s.count
            IN  Store(s, frames, w, Prepared(w, 0, n), start)
    BY DEF EstimateGated
  <1> DEFINE w == Gated(s, frames, start)
             n == IF s.count = 0 \/ s.count > w.count THEN w.count
                  ELSE s.count
             u == Prepared(w, 0, n)
             kept == IF s.keep = 0 THEN Extent(s) ELSE s.keep
  <1>4. Store(s, frames, w, u, start)
    BY <1>3
  <1>5. /\ start \in Nat /\ Extent(s) \in Nat /\ Extent(s) >= 1
        /\ start + Extent(s) <= Searched(s, frames)
        /\ start + Extent(s) <= frames
    BY <1>1, StartsFit, Extents
  <1>6. kept \in Nat \ {0}
    BY <1>2, <1>5
  <1>7. w.from = start /\ w.count = Min({kept, frames - start})
    <2>1. w = Slice(frames, start, kept)
      BY DEF Gated
    <2>2. ~(start >= frames) /\ kept # 0
      BY <1>1, <1>5, <1>6
    <2> HIDE DEF kept, w
    <2> QED BY <2>1, <2>2 DEF Slice
  <1>8. frames - start \in Nat \ {0} /\ Extent(s) <= frames - start
    BY <1>1, <1>5
  <1> HIDE DEF w
  <1>9. /\ w.count \in Nat \ {0} /\ w.count <= frames - start
        /\ s.keep = 0 => w.count = Extent(s)
    BY <1>6, <1>7, <1>8, MinOfTwo
  <1>10. n \in Nat \ {0} /\ n <= w.count /\ (n = s.count \/ n = w.count)
    BY <1>2, <1>9
  <1>11. s.count = 0 => n = w.count
    OBVIOUS
  <1>12. u.from = w.from + 0 /\ u.count = Min({n, w.count - 0})
    BY <1>9, <1>10 DEF Prepared
  <1> HIDE DEF n, u, kept
  <1>13. u.from = w.from /\ u.count = n
    BY <1>5, <1>7, <1>9, <1>10, <1>12, MinOfTwo
  <1>14. w.from + w.count <= frames
    BY <1>1, <1>5, <1>7, <1>9
  <1> QED BY <1>1, <1>2, <1>4, <1>5, <1>7, <1>9, <1>10, <1>11, <1>13, <1>14,
             StoredFits

LEMMA MissFits ==
    ASSUME NEW s, NEW frames, Miss(s, frames), EstimateIsOfTheWindow
    PROVE  EstimateIsOfTheWindow'
  BY DEF Miss, EstimateIsOfTheWindow, Extent, Searched

-----------------------------------------------------------------------------
(* The peaks *)

\* The step of PickPeaks, as an operator of its own.
Taken(limit, q, c) ==
    IF Len(q) = limit \/ \E k \in DOMAIN q : Near(q[k], c)
    THEN q
    ELSE Append(q, c)

\* What the fold computes for the sets s of positions of o.
FoldStep(limit, o, f, s) ==
    IF s = {} THEN << >>
    ELSE LET x == Max(s) IN Taken(limit, f[s \ {x}], o[x])

FoldsTo(limit, o, n, f) ==
    f = [s \in SUBSET (1..n) |-> FoldStep(limit, o, f, s)]

LEMMA MaxOfPrefix ==
    ASSUME NEW k \in Nat, NEW s \in SUBSET (1..(k + 1)), k + 1 \in s
    PROVE  Max(s) = k + 1
  <1>1. \A j \in s : k + 1 >= j
    OBVIOUS
  <1>2. \A x \in s : (\A j \in s : x >= j) => x = k + 1
    <2>1. ASSUME NEW x \in s, \A j \in s : x >= j PROVE x = k + 1
      <3>1. x >= k + 1 /\ k + 1 >= x /\ x \in Int
        BY <1>1, <2>1
      <3> QED BY <3>1
    <2> QED BY <2>1
  <1> QED BY <1>1, <1>2 DEF Max

\* The fold of any number of positions is defined.
LEMMA FoldExists ==
    ASSUME NEW limit, NEW o, NEW n \in Nat
    PROVE  \E f : FoldsTo(limit, o, n, f)
  <1> DEFINE S == {k \in Nat : \E f : FoldsTo(limit, o, k, f)}
  <1>1. 0 \in S
    <2> DEFINE g == [s \in SUBSET (1..0) |-> << >>]
    <2>1. \A s \in SUBSET (1..0) : s = {}
      OBVIOUS
    <2>2. g = [s \in SUBSET (1..0) |-> FoldStep(limit, o, g, s)]
      BY <2>1 DEF FoldStep
    <2> HIDE DEF g
    <2>3. FoldsTo(limit, o, 0, g)
      BY <2>2 DEF FoldsTo
    <2> QED BY <2>3
  <1>2. ASSUME NEW k \in 0..(n - 1), k \in S PROVE k + 1 \in S
    <2>0. k \in Nat /\ k + 1 \in Nat
      OBVIOUS
    <2>1. PICK g : FoldsTo(limit, o, k, g)
      BY <1>2
    <2>2. g = [s \in SUBSET (1..k) |-> FoldStep(limit, o, g, s)]
      BY <2>1 DEF FoldsTo
    <2> DEFINE h == [s \in SUBSET (1..(k + 1)) |->
                        IF k + 1 \in s
                        THEN Taken(limit, g[s \ {k + 1}], o[k + 1])
                        ELSE g[s]]
    <2>3. ASSUME NEW s \in SUBSET (1..(k + 1))
          PROVE  h[s] = FoldStep(limit, o, h, s)
      <3>1. CASE k + 1 \in s
        <4>1. Max(s) = k + 1 /\ s # {}
          BY <2>0, <3>1, MaxOfPrefix
        <4>2. s \ {k + 1} \in SUBSET (1..(k + 1)) /\ k + 1 \notin s \ {k + 1}
          OBVIOUS
        <4>3. h[s \ {k + 1}] = g[s \ {k + 1}]
          BY <4>2
        <4>4. h[s] = Taken(limit, g[s \ {k + 1}], o[k + 1])
          BY <3>1
        <4> HIDE DEF h
        <4> QED BY <4>1, <4>3, <4>4 DEF FoldStep
      <3>2. CASE k + 1 \notin s
        <4>1. s \in SUBSET (1..k)
          <5>1. ASSUME NEW j \in s PROVE j \in 1..k
            <6>1. j \in 1..(k + 1) /\ j # k + 1
              BY <3>2
            <6> QED BY <2>0, <6>1
          <5> QED BY <5>1
        <4>2. h[s] = g[s] /\ g[s] = FoldStep(limit, o, g, s)
          BY <2>2, <3>2, <4>1
        <4>3. CASE s = {}
          BY <4>2, <4>3 DEF FoldStep
        <4>4. CASE s # {}
          <5> DEFINE t == s \ {Max(s)}
          <5>1. t \in SUBSET (1..(k + 1)) /\ k + 1 \notin t
            BY <3>2
          <5>2. h[t] = g[t]
            BY <5>1
          <5> HIDE DEF h, t
          <5>3. FoldStep(limit, o, g, s) = FoldStep(limit, o, h, s)
            BY <4>4, <5>2 DEF FoldStep, t
          <5> QED BY <4>2, <5>3
        <4> QED BY <4>3, <4>4
      <3> QED BY <3>1, <3>2
    <2>4. h = [s \in SUBSET (1..(k + 1)) |-> FoldStep(limit, o, h, s)]
      <3>1. \A s \in SUBSET (1..(k + 1)) : h[s] = FoldStep(limit, o, h, s)
        BY <2>3
      <3>2. h = [s \in SUBSET (1..(k + 1)) |-> h[s]]
        OBVIOUS
      <3> HIDE DEF h
      <3> QED BY <3>1, <3>2
    <2> HIDE DEF h
    <2>5. FoldsTo(limit, o, k + 1, h)
      BY <2>4 DEF FoldsTo
    <2> QED BY <2>0, <2>5
  <1> HIDE DEF S
  <1>3. n \in 0..n
    OBVIOUS
  <1>4. n \in S
    BY <1>1, <1>2, <1>3, CountingUp
  <1> QED BY <1>4 DEF S

\* What is picked is such a fold.
LEMMA PicksAreFolded ==
    ASSUME NEW p, NEW limit, NEW q \in PickPeaks(p, limit),
           \A o \in ByPower(p) : o \in Seq(Int)
    PROVE  \E o \in ByPower(p) : \E f :
               FoldsTo(limit, o, Len(o), f) /\ q = f[1..Len(o)]
  <1>1. PICK o \in ByPower(p) : q =
             LET iter[s \in SUBSET (DOMAIN o)] ==
                   IF s = {} THEN << >>
                   ELSE LET x == Max(s)
                        IN  Taken(limit, iter[s \ {x}], o[x])
             IN  iter[DOMAIN o]
    BY Zenon DEF PickPeaks, FoldLeft, MapThenFoldSet, Taken
  <1>2. DOMAIN o = 1..Len(o) /\ Len(o) \in Nat
    OBVIOUS
  <1> DEFINE f == CHOOSE iter : iter =
                    [s \in SUBSET (DOMAIN o) |->
                       IF s = {} THEN << >>
                       ELSE LET x == Max(s)
                            IN  Taken(limit, iter[s \ {x}], o[x])]
  <1>3. q = f[DOMAIN o]
    BY <1>1
  <1>4. \E g : FoldsTo(limit, o, Len(o), g)
    BY <1>2, FoldExists
  <1>5. \E g : g = [s \in SUBSET (DOMAIN o) |->
                       IF s = {} THEN << >>
                       ELSE LET x == Max(s)
                            IN  Taken(limit, g[s \ {x}], o[x])]
    BY <1>2, <1>4 DEF FoldsTo, FoldStep
  <1>6. f = [s \in SUBSET (DOMAIN o) |->
                       IF s = {} THEN << >>
                       ELSE LET x == Max(s)
                            IN  Taken(limit, f[s \ {x}], o[x])]
    BY <1>5
  <1> HIDE DEF f
  <1>7. FoldsTo(limit, o, Len(o), f)
    BY <1>2, <1>6 DEF FoldsTo, FoldStep
  <1> QED BY <1>2, <1>3, <1>7

\* The fold of the first positions is that of one less, and a step.
Stepwise(limit, o, n, f) ==
    /\ f[1..0] = << >>
    /\ \A k \in 0..(n - 1) :
           f[1..(k + 1)] = Taken(limit, f[1..k], o[k + 1])

LEMMA FoldedPrefixes ==
    ASSUME NEW limit, NEW o, NEW n \in Nat, NEW f, FoldsTo(limit, o, n, f)
    PROVE  Stepwise(limit, o, n, f)
  <1>1. f = [s \in SUBSET (1..n) |-> FoldStep(limit, o, f, s)]
    BY DEF FoldsTo
  <1>2. f[1..0] = << >>
    <2>1. 1..0 = {} /\ 1..0 \in SUBSET (1..n)
      OBVIOUS
    <2>2. f[1..0] = FoldStep(limit, o, f, 1..0)
      BY <1>1, <2>1
    <2> QED BY <2>1, <2>2 DEF FoldStep
  <1>3. ASSUME NEW k \in 0..(n - 1)
        PROVE  f[1..(k + 1)] = Taken(limit, f[1..k], o[k + 1])
    <2>1. k \in Nat /\ 1..(k + 1) \in SUBSET (1..n) /\ k + 1 \in 1..(k + 1)
      OBVIOUS
    <2>2. Max(1..(k + 1)) = k + 1 /\ 1..(k + 1) # {}
      BY <2>1, MaxOfPrefix
    <2>3. (1..(k + 1)) \ {k + 1} = 1..k
      BY <2>1
    <2>4. f[1..(k + 1)] = FoldStep(limit, o, f, 1..(k + 1))
      BY <1>1, <2>1
    <2> QED BY <2>2, <2>3, <2>4 DEF FoldStep
  <1> QED BY <1>2, <1>3 DEF Stepwise

\* The candidates in order: each of them once.
LEMMA OrderedCandidates ==
    ASSUME NEW p \in Seq(Int), NEW o \in ByPower(p)
    PROVE  /\ o \in Seq(Int) /\ Len(o) \in Nat
           /\ \A i \in 1..Len(o) : o[i] \in Candidates(p)
           /\ \A c \in Candidates(p) : \E i \in 1..Len(o) : o[i] = c
           /\ \A i, j \in 1..Len(o) : i < j => p[o[i]] >= p[o[j]]
  <1> DEFINE C == Candidates(p)
             N == Cardinality(C)
             D == 1..N
  <1>1. C \subseteq 1..Len(p) /\ Len(p) \in Nat
    BY DEF Candidates
  <1>2. IsFiniteSet(C) /\ N \in Nat
    <2>1. IsFiniteSet(1..Len(p))
      BY <1>1, FS_Interval
    <2>2. IsFiniteSet(C)
      BY <1>1, <2>1, FS_Subset
    <2> QED BY <2>2, FS_CardinalityType
  <1>3. /\ o \in [D -> C] /\ \A i, j \in D : i # j => o[i] # o[j]
        /\ \A i, j \in DOMAIN o : i < j => p[o[i]] >= p[o[j]]
    BY DEF ByPower, SetToSeqs
  <1> HIDE DEF C, N
  <1>4. o \in Injection(D, C)
    BY <1>3 DEF Injection, IsInjective
  <1>5. IsFiniteSet(D) /\ Cardinality(D) = N
    BY <1>2, FS_Interval
  <1>6. o \in Surjection(D, C)
    <2>1. Cardinality(D) = Cardinality(C)
      BY <1>5 DEF N
    <2> QED BY <1>2, <1>4, <2>1, FS_Injection
  <1>7. DOMAIN o = 1..N /\ \A i \in 1..N : o[i] \in Int
    <2>1. DOMAIN o = D /\ \A i \in D : o[i] \in C
      BY <1>3
    <2>2. \A x \in C : x \in Int
      BY <1>1
    <2> QED BY <2>1, <2>2
  <1>8. o \in Seq(Int) /\ Len(o) = N
    <2>1. o \in [1..N -> Int]
      <3>1. o = [i \in 1..N |-> o[i]]
        BY <1>3
      <3> QED BY <3>1, <1>7
    <2> QED BY <1>2, <2>1
  <1>9. \A c \in C : \E i \in D : o[i] = c
    BY <1>6 DEF Surjection
  <1> QED BY <1>2, <1>3, <1>7, <1>8, <1>9 DEF C

\* A sequence of integers has a highest element.
LEMMA HighestExists ==
    ASSUME NEW p \in Seq(Int), p # << >>
    PROVE  \E m \in 1..Len(p) : \A i \in 1..Len(p) : p[i] <= p[m]
  <1> DEFINE n == Len(p) - 1
             S == {k \in Nat : \E m \in 1..(k + 1) :
                                  \A i \in 1..(k + 1) : p[i] <= p[m]}
  <1>1. n \in Nat /\ Len(p) = n + 1
    BY EmptySeq
  <1>2. \A i \in 1..(n + 1) : p[i] \in Int
    BY <1>1
  <1> HIDE DEF n
  <1>3. 0 \in S
    <2>1. 1 \in 1..(0 + 1) /\ \A i \in 1..(0 + 1) : i = 1
      OBVIOUS
    <2>2. p[1] \in Int
      BY <1>1, <1>2
    <2>3. \A i \in 1..(0 + 1) : p[i] <= p[1]
      BY <2>1, <2>2
    <2> QED BY <2>1, <2>3
  <1>4. ASSUME NEW k \in 0..(n - 1), k \in S PROVE k + 1 \in S
    <2>1. k \in Nat /\ k + 1 \in Nat /\ k + 1 <= n
      BY <1>1
    <2>2. PICK m \in 1..(k + 1) : \A i \in 1..(k + 1) : p[i] <= p[m]
      BY <1>4
    <2>3. m \in 1..((k + 1) + 1) /\ (k + 1) + 1 \in 1..((k + 1) + 1)
      BY <2>1
    <2>4. \A i \in 1..((k + 1) + 1) : p[i] \in Int
      BY <1>1, <1>2, <2>1
    <2>5. \A i \in 1..((k + 1) + 1) : i \in 1..(k + 1) \/ i = (k + 1) + 1
      BY <2>1
    <2>6. CASE p[(k + 1) + 1] <= p[m]
      <3>1. \A i \in 1..((k + 1) + 1) : p[i] <= p[m]
        BY <2>2, <2>5, <2>6
      <3> QED BY <2>1, <2>3, <3>1
    <2>7. CASE ~(p[(k + 1) + 1] <= p[m])
      <3>1. \A i \in 1..((k + 1) + 1) : p[i] <= p[(k + 1) + 1]
        BY <2>2, <2>3, <2>4, <2>5, <2>7
      <3> QED BY <2>1, <2>3, <3>1
    <2> QED BY <2>6, <2>7
  <1>5. n \in 0..n
    BY <1>1
  <1> HIDE DEF S
  <1>6. n \in S
    BY <1>1, <1>3, <1>4, <1>5, CountingUp
  <1> QED BY <1>1, <1>6 DEF S

\* What is taken of the first k of the order o.
TakenOf(p, limit, o, k, q) ==
    /\ q \in Seq(Int) /\ Len(q) <= limit
    /\ k >= 1 => Len(q) >= 1 /\ q[1] = o[1]
    /\ \A i \in DOMAIN q : \E m \in 1..k : q[i] = o[m]
    /\ \A i, j \in DOMAIN q :
           i < j => p[q[i]] >= p[q[j]] /\ ~Near(q[i], q[j])
    /\ \A m \in 1..k :
           \/ Len(q) = limit /\ p[q[limit]] >= p[o[m]]
           \/ \E i \in DOMAIN q : Near(q[i], o[m]) /\ p[q[i]] >= p[o[m]]

LEMMA TakeStep ==
    ASSUME NEW p, NEW limit \in Nat \ {0}, NEW o \in Seq(Int),
           NEW k \in 0..(Len(o) - 1), NEW q,
           \A i \in 1..Len(o) : p[o[i]] \in Int,
           \A i, j \in 1..Len(o) : i < j => p[o[i]] >= p[o[j]],
           TakenOf(p, limit, o, k, q)
    PROVE  TakenOf(p, limit, o, k + 1, Taken(limit, q, o[k + 1]))
  <1> DEFINE c == o[k + 1]
  <1>0. /\ k \in Nat /\ k + 1 \in 1..Len(o) /\ Len(o) \in Nat
        /\ 1..k \subseteq 1..Len(o)
        /\ \A m \in 1..k : m \in 1..Len(o) /\ m < k + 1
        /\ \A m \in 1..(k + 1) : m \in 1..k \/ m = k + 1
        /\ 1..k \subseteq 1..(k + 1) /\ k + 1 \in 1..(k + 1)
    OBVIOUS
  <1>1. c \in Int /\ p[c] \in Int
    BY <1>0
  <1>2. /\ q \in Seq(Int) /\ Len(q) <= limit /\ Len(q) \in Nat
        /\ DOMAIN q = 1..Len(q)
        /\ k >= 1 => Len(q) >= 1 /\ q[1] = o[1]
        /\ \A i \in DOMAIN q : \E m \in 1..k : q[i] = o[m]
        /\ \A i, j \in DOMAIN q :
               i < j => p[q[i]] >= p[q[j]] /\ ~Near(q[i], q[j])
    BY DEF TakenOf
  <1>3. \A m \in 1..k :
           \/ Len(q) = limit /\ p[q[limit]] >= p[o[m]]
           \/ \E i \in DOMAIN q : Near(q[i], o[m]) /\ p[q[i]] >= p[o[m]]
    BY DEF TakenOf
  <1>4. ASSUME NEW i \in DOMAIN q PROVE p[q[i]] >= p[c] /\ p[q[i]] \in Int
    <2>1. PICK m \in 1..k : q[i] = o[m]
      BY <1>2
    <2>2. p[o[m]] >= p[o[k + 1]] /\ p[o[m]] \in Int
      BY <1>0
    <2> QED BY <2>1, <2>2
  <1>5. CASE Len(q) = limit \/ \E i \in DOMAIN q : Near(q[i], c)
    <2>1. Taken(limit, q, c) = q
      BY <1>5 DEF Taken
    <2>2. Len(q) >= 1 /\ q[1] = o[1]
      <3>1. k >= 1
        <4>1. PICK i \in DOMAIN q : TRUE
          <5>1. CASE Len(q) = limit
            <6>1. 1 \in DOMAIN q
              BY <1>2, <5>1
            <6> QED BY <6>1
          <5> QED BY <1>5, <5>1
        <4>2. PICK m \in 1..k : q[i] = o[m]
          BY <1>2, <4>1
        <4> QED BY <1>0, <4>2
      <3> QED BY <1>2, <3>1
    <2>3. \A i \in DOMAIN q : \E m \in 1..(k + 1) : q[i] = o[m]
      BY <1>0, <1>2
    <2>4. \/ Len(q) = limit /\ p[q[limit]] >= p[c]
          \/ \E i \in DOMAIN q : Near(q[i], c) /\ p[q[i]] >= p[c]
      <3>1. CASE Len(q) = limit
        <4>1. limit \in DOMAIN q
          BY <1>2, <3>1
        <4> QED BY <3>1, <4>1, <1>4
      <3>2. CASE \E i \in DOMAIN q : Near(q[i], c)
        BY <3>2, <1>4
      <3> QED BY <1>5, <3>1, <3>2
    <2>5. \A m \in 1..(k + 1) :
           \/ Len(q) = limit /\ p[q[limit]] >= p[o[m]]
           \/ \E i \in DOMAIN q : Near(q[i], o[m]) /\ p[q[i]] >= p[o[m]]
      BY <1>0, <1>3, <2>4
    <2>6. q \in Seq(Int) /\ Len(q) <= limit
      BY <1>2
    <2>7. \A i, j \in DOMAIN q :
              i < j => p[q[i]] >= p[q[j]] /\ ~Near(q[i], q[j])
      BY <1>2
    <2>8. TakenOf(p, limit, o, k + 1, q)
      BY <2>2, <2>3, <2>5, <2>6, <2>7 DEF TakenOf
    <2> QED BY <2>1, <2>8
  <1>6. CASE ~(Len(q) = limit \/ \E i \in DOMAIN q : Near(q[i], c))
    <2> DEFINE r == Append(q, c)
    <2>1. Taken(limit, q, c) = r
      BY <1>6 DEF Taken
    <2>2. /\ r \in Seq(Int) /\ Len(r) = Len(q) + 1
          /\ DOMAIN r = 1..(Len(q) + 1)
          /\ \A i \in DOMAIN q : r[i] = q[i]
          /\ r[Len(q) + 1] = c
      BY <1>1, <1>2, AppendProperties
    <2> HIDE DEF r
    <2>3. Len(r) <= limit
      <3>1. Len(q) # limit
        BY <1>6
      <3>2. Len(q) \in Nat /\ Len(q) <= limit
        BY <1>2
      <3>3. Len(r) = Len(q) + 1
        BY <2>2
      <3> QED BY <3>1, <3>2, <3>3
    <2>4. /\ \A i \in DOMAIN r : i \in DOMAIN q \/ i = Len(q) + 1
          /\ \A i \in DOMAIN q : i \in DOMAIN r /\ i < Len(q) + 1
          /\ Len(q) + 1 \in DOMAIN r
      <3>1. DOMAIN q = 1..Len(q) /\ Len(q) \in Nat
        BY <1>2
      <3>2. DOMAIN r = 1..(Len(q) + 1)
        BY <2>2
      <3> QED BY <3>1, <3>2
    <2>5. Len(r) >= 1 /\ r[1] = o[1]
      <3>1. CASE k >= 1
        <4>1. DOMAIN q = 1..Len(q) /\ Len(q) \in Nat
          BY <1>2
        <4>2. Len(q) >= 1 /\ q[1] = o[1]
          BY <1>2, <3>1
        <4>3. 1 \in DOMAIN q
          BY <4>1, <4>2
        <4>4. r[1] = q[1] /\ Len(r) = Len(q) + 1
          BY <2>2, <4>3
        <4> QED BY <4>1, <4>2, <4>4
      <3>2. CASE ~(k >= 1)
        <4>1. k = 0
          BY <1>0, <3>2
        <4>2. \A i \in DOMAIN q : FALSE
          BY <1>2, <4>1
        <4>3. Len(q) = 0
          <5>1. ASSUME Len(q) # 0 PROVE FALSE
            <6>1. 1 \in DOMAIN q
              BY <1>2, <5>1
            <6> QED BY <6>1, <4>2
          <5> QED BY <5>1
        <4> QED BY <2>2, <4>1, <4>3
      <3> QED BY <3>1, <3>2
    <2>6. \A i \in DOMAIN r : \E m \in 1..(k + 1) : r[i] = o[m]
      BY <1>0, <1>2, <2>2, <2>4
    <2>7. ASSUME NEW i \in DOMAIN r, NEW j \in DOMAIN r, i < j
          PROVE  p[r[i]] >= p[r[j]] /\ ~Near(r[i], r[j])
      <3>1. i \in DOMAIN q
        BY <2>4, <2>7, <1>2, <2>2
      <3>2. CASE j \in DOMAIN q
        BY <1>2, <2>2, <2>7, <3>1, <3>2
      <3>3. CASE j = Len(q) + 1
        BY <1>4, <1>6, <2>2, <3>1, <3>3
      <3> QED BY <2>4, <3>2, <3>3
    <2>8. ASSUME NEW m \in 1..(k + 1)
          PROVE \E i \in DOMAIN r : Near(r[i], o[m]) /\ p[r[i]] >= p[o[m]]
      <3>1. CASE m = k + 1
        <4>1. Near(c, c)
          BY <1>1, DoaAssumption DEF Near
        <4>2. p[c] >= p[c]
          BY <1>1
        <4> QED BY <2>2, <2>4, <3>1, <4>1, <4>2
      <3>2. CASE m \in 1..k
        BY <1>3, <1>6, <2>2, <2>4, <3>2
      <3> QED BY <1>0, <3>1, <3>2
    <2>9. \A i, j \in DOMAIN r :
              i < j => p[r[i]] >= p[r[j]] /\ ~Near(r[i], r[j])
      BY <2>7
    <2>10. \A m \in 1..(k + 1) :
              \/ Len(r) = limit /\ p[r[limit]] >= p[o[m]]
              \/ \E i \in DOMAIN r : Near(r[i], o[m]) /\ p[r[i]] >= p[o[m]]
      BY <2>8
    <2>11. r \in Seq(Int)
      BY <2>2
    <2>12. TakenOf(p, limit, o, k + 1, r)
      BY <2>3, <2>5, <2>6, <2>9, <2>10, <2>11 DEF TakenOf
    <2> QED BY <2>1, <2>12
  <1> QED BY <1>5, <1>6

\* PickPeaks picks real peaks.
LEMMA PickedAreReal ==
    ASSUME NEW p \in Seq(Int), p # << >>, NEW limit \in Nat \ {0},
           NEW q \in PickPeaks(p, limit)
    PROVE  RealPeaks(p, limit, q)
  <1>1. \A o \in ByPower(p) : o \in Seq(Int)
    BY OrderedCandidates
  <1>2. PICK o \in ByPower(p) :
            \E f : FoldsTo(limit, o, Len(o), f) /\ q = f[1..Len(o)]
    BY <1>1, PicksAreFolded
  <1>3. PICK f : FoldsTo(limit, o, Len(o), f) /\ q = f[1..Len(o)]
    BY <1>2
  <1>4. /\ o \in Seq(Int) /\ Len(o) \in Nat
        /\ \A i \in 1..Len(o) : o[i] \in Candidates(p)
        /\ \A c \in Candidates(p) : \E i \in 1..Len(o) : o[i] = c
        /\ \A i, j \in 1..Len(o) : i < j => p[o[i]] >= p[o[j]]
    BY OrderedCandidates
  <1>5. \A c \in Candidates(p) :
            c \in 1..Len(p) /\ p[c] \in Int /\ IsPeak(p, c)
    BY DEF Candidates
  <1>6. \A i \in 1..Len(o) : p[o[i]] \in Int
    BY <1>4, <1>5
  <1>7. /\ f[1..0] = << >>
        /\ \A k \in 0..(Len(o) - 1) :
               f[1..(k + 1)] = Taken(limit, f[1..k], o[k + 1])
    <2>1. FoldsTo(limit, o, Len(o), f) /\ Len(o) \in Nat
      BY <1>3, <1>4
    <2>2. Stepwise(limit, o, Len(o), f)
      BY <2>1, FoldedPrefixes
    <2> QED BY <2>2 DEF Stepwise
  <1> DEFINE S == {k \in Nat : TakenOf(p, limit, o, k, f[1..k])}
  <1>8. 0 \in S
    <2>1. /\ << >> \in Seq(Int) /\ Len(<< >>) = 0 /\ DOMAIN << >> = {}
          /\ \A m \in 1..0 : FALSE
      OBVIOUS
    <2>2. TakenOf(p, limit, o, 0, << >>)
      BY <2>1 DEF TakenOf
    <2> QED BY <1>7, <2>2
  <1>9. ASSUME NEW k \in 0..(Len(o) - 1), k \in S PROVE k + 1 \in S
    <2>1. TakenOf(p, limit, o, k, f[1..k])
      BY <1>9
    <2>2. TakenOf(p, limit, o, k + 1, Taken(limit, f[1..k], o[k + 1]))
      BY <1>4, <1>6, <2>1, TakeStep
    <2> QED BY <1>4, <1>7, <2>2
  <1>10. Len(o) \in S
    <2>1. Len(o) \in 0..Len(o)
      BY <1>4
    <2> HIDE DEF S
    <2> QED BY <1>4, <1>8, <1>9, <2>1, CountingUp
  <1>11. TakenOf(p, limit, o, Len(o), q)
    BY <1>3, <1>10
  <1>12. PICK m \in 1..Len(p) : \A i \in 1..Len(p) : p[i] <= p[m]
    BY HighestExists
  <1>13. m \in Candidates(p)
    <2>1. Len(p) \in Nat /\ \A i \in 1..Len(p) : p[i] \in Int
      OBVIOUS
    <2>2. m > 1 => m - 1 \in 1..Len(p)
      BY <2>1
    <2>3. m < Len(p) => m + 1 \in 1..Len(p)
      BY <2>1
    <2>4. IsPeak(p, m)
      BY <1>12, <2>1, <2>2, <2>3 DEF IsPeak
    <2> QED BY <2>4 DEF Candidates
  <1>14. PICK h \in 1..Len(o) : o[h] = m
    BY <1>4, <1>13
  <1>15. Len(o) >= 1 /\ 1 \in 1..Len(o)
    BY <1>4, <1>14
  <1>16. Len(q) >= 1 /\ q[1] = o[1]
    BY <1>11, <1>15 DEF TakenOf
  <1>17. \A i \in DOMAIN p : p[i] <= p[q[1]]
    <2>1. p[o[1]] >= p[m]
      <3>1. CASE h = 1
        BY <1>6, <1>14, <3>1
      <3>2. CASE h # 1
        <4>1. 1 < h
          BY <1>4, <3>2
        <4> QED BY <1>4, <1>14, <1>15, <4>1
      <3> QED BY <3>1, <3>2
    <2>2. p[o[1]] \in Int /\ p[m] \in Int
      BY <1>5, <1>6, <1>13, <1>15
    <2>3. ASSUME NEW i \in DOMAIN p PROVE p[i] <= p[o[1]]
      <3>1. DOMAIN p = 1..Len(p) /\ p[i] \in Int
        OBVIOUS
      <3>2. p[i] <= p[m]
        BY <1>12, <3>1
      <3> QED BY <2>1, <2>2, <3>1, <3>2
    <2> QED BY <1>16, <2>3
  <1>18. Len(q) \in 1..limit
    <2>1. q \in Seq(Int) /\ Len(q) <= limit
      BY <1>11 DEF TakenOf
    <2> QED BY <1>16, <2>1
  <1>19. \A i, j \in DOMAIN q :
             i < j => p[q[i]] >= p[q[j]] /\ ~Near(q[i], q[j])
    BY <1>11 DEF TakenOf
  <1>20. \A i \in DOMAIN q : IsPeak(p, q[i])
    BY <1>4, <1>5, <1>11 DEF TakenOf
  <1>21. ASSUME NEW c \in Candidates(p)
         PROVE  \/ Len(q) = limit /\ p[q[limit]] >= p[c]
                \/ \E i \in DOMAIN q : Near(q[i], c) /\ p[q[i]] >= p[c]
    <2>1. PICK i \in 1..Len(o) : o[i] = c
      BY <1>4
    <2> QED BY <1>11, <2>1 DEF TakenOf
  <1> QED BY <1>17, <1>18, <1>19, <1>20, <1>21 DEF RealPeaks

-----------------------------------------------------------------------------
(* Estimates *)

LEMMA StorePeaks ==
    ASSUME NEW s \in Settings, NEW frames, NEW w, NEW u, NEW start,
           Store(s, frames, w, u, start)
    PROVE  PeaksAreReal'
  <1>1. result' \in Estimates(s, u) /\ stored'.setting = s
    BY DEF Store
  <1>2. /\ s.method \in {"conventional", "subspace", "capon"}
        /\ s.peaks \in Nat \ {0}
    BY DoaAssumption DEF Setting
  <1>3. CASE result' = Failed
    BY <1>3 DEF Failed, Invalid, PeaksAreReal
  <1>4. CASE result' \in Found(s, u)
    <2>1. /\ result'.power \in Seq(Int) /\ result'.power # << >>
          /\ result'.peaks \in PickPeaks(result'.power, s.peaks)
      BY <1>4, FoundIs, DoaAssumption
    <2>2. RealPeaks(result'.power, s.peaks, result'.peaks)
      BY <1>2, <2>1, PickedAreReal
    <2> QED BY <1>1, <2>2 DEF PeaksAreReal
  <1> QED BY <1>1, <1>2, <1>3, <1>4, ResultOf

DoaInv == EstimateIsOfTheWindow /\ PeaksAreReal

LEMMA DoaInitInv == DoaInit => DoaInv
  <1> SUFFICES ASSUME DoaInit PROVE DoaInv
    OBVIOUS
  <1>1. PeaksAreReal
    BY DEF DoaInit, Invalid, PeaksAreReal
  <1>2. EstimateIsOfTheWindow
    BY DEF DoaInit, Invalid, NoSetting, EstimateIsOfTheWindow
  <1> QED BY <1>1, <1>2 DEF DoaInv

LEMMA DoaStepInv == DoaInv /\ [DoaNext]_doaVars => DoaInv'
  <1> SUFFICES ASSUME DoaInv, [DoaNext]_doaVars PROVE DoaInv'
    OBVIOUS
  <1>1. ASSUME NEW s \in Settings, NEW frames \in FrameCounts,
               EstimateUngated(s, frames)
        PROVE  DoaInv'
    <2>1. PeaksAreReal'
      BY <1>1, StorePeaks DEF EstimateUngated
    <2> QED BY <1>1, <2>1, UngatedFits DEF DoaInv
  <1>2. ASSUME NEW s \in Settings, NEW frames \in FrameCounts,
               EstimateGated(s, frames)
        PROVE  DoaInv'
    <2>1. PeaksAreReal'
      BY <1>2, StorePeaks DEF EstimateGated
    <2> QED BY <1>2, <2>1, GatedFits DEF DoaInv
  <1>3. ASSUME NEW s \in Settings, NEW frames \in FrameCounts,
               Miss(s, frames)
        PROVE  DoaInv'
    <2>1. result' = result /\ stored' = stored
      BY <1>3 DEF Miss
    <2>2. PeaksAreReal'
      BY <2>1 DEF DoaInv, PeaksAreReal
    <2> QED BY <1>3, <2>2, MissFits DEF DoaInv
  <1>4. CASE UNCHANGED doaVars
    BY <1>4 DEF doaVars, DoaInv, EstimateIsOfTheWindow, PeaksAreReal,
                Extent, Searched
  <1> QED BY <1>1, <1>2, <1>3, <1>4 DEF DoaNext

\* Whatever estimates follow one another, the window, the result and the hit
\* that are shown belong together (the last block of
\* capture_and_estimate_doa stores them at once).
THEOREM EstimatesAreOfTheirWindows == DoaSpec => []EstimateIsOfTheWindow
  <1>1. DoaInv => EstimateIsOfTheWindow
    BY DEF DoaInv
  <1> QED BY <1>1, DoaInitInv, DoaStepInv, PTL DEF DoaSpec

\* Whatever the powers over the angles, the peaks of every result are real
\* (find_peaks: sorting by power and skipping what is near).
THEOREM EstimatesHaveRealPeaks == DoaSpec => []PeaksAreReal
  <1>1. DoaInv => PeaksAreReal
    BY DEF DoaInv
  <1> QED BY <1>1, DoaInitInv, DoaStepInv, PTL DEF DoaSpec

-----------------------------------------------------------------------------
(* Names *)

\* The units that are no labels of a press after the n-th.
Upto(n) == {u \in Int : u <= n}

LEMMA UptoGrows ==
    ASSUME NEW m \in Nat, NEW n \in Nat, m <= n, NEW t \in Seq(Upto(m))
    PROVE  t \in Seq(Upto(n))
  <1>1. Upto(m) \subseteq Upto(n)
    BY DEF Upto
  <1> QED BY <1>1, SeqMonotonic

LEMMA TextsUpto ==
    ASSUME NEW n \in Nat
    PROVE  /\ \A t \in Texts : t \in Seq(Upto(n))
           /\ DefaultName \in Seq(Upto(n))
           /\ << >> \in Seq(Upto(n))
  <1>1. Slash..Letter \subseteq Upto(n)
    BY DEF Slash, Letter, Upto
  <1>2. Seq(Slash..Letter) \subseteq Seq(Upto(n))
    BY <1>1, SeqMonotonic
  <1> QED BY <1>2, FilesAssumption

LEMMA LastPosition ==
    ASSUME NEW u, NEW S, NEW t \in Seq(S)
    PROVE  LastAt(u, t) \in 0..Len(t)
  <1> DEFINE P == {0} \cup {i \in DOMAIN t : t[i] = u}
  <1>1. Len(t) \in Nat /\ P \in SUBSET (0..Len(t)) /\ P # {}
    OBVIOUS
  <1> HIDE DEF P
  <1>2. Max(P) \in P
    BY <1>1, MaxIn
  <1>3. LastAt(u, t) = Max(P)
    BY DEF LastAt, P
  <1> QED BY <1>1, <1>2, <1>3

LEMMA PartsOf ==
    ASSUME NEW S, NEW t \in Seq(S)
    PROVE  /\ Directory(t) \in Seq(S) /\ FileOf(t) \in Seq(S)
           /\ StemOf(t) \in Seq(S) /\ ExtensionOf(t) \in Seq(S)
  <1>1. /\ LastAt(Slash, t) \in 0..Len(t) /\ LastAt(Dot, t) \in 0..Len(t)
        /\ Len(t) \in Nat
    BY LastPosition
  <1>2. Directory(t) \in Seq(S)
    BY <1>1, SubSeqProperties DEF Directory
  <1>3. FileOf(t) \in Seq(S)
    BY <1>1, SubSeqProperties DEF FileOf
  <1>4. StemOf(t) \in Seq(S)
    BY <1>1, SubSeqProperties DEF StemOf, HasExtension
  <1>5. ExtensionOf(t) \in Seq(S)
    BY <1>1, SubSeqProperties, EmptySeq DEF ExtensionOf, HasExtension
  <1> QED BY <1>2, <1>3, <1>4, <1>5

\* A name with its label: what is before the label, the label, and the rest.
Before(t) ==
    Directory(t) \o OrElse(StemOf(FileOf(t)), StemOf(FileOf(DefaultName)))
After(t) ==
    OrElse(ExtensionOf(FileOf(t)), ExtensionOf(FileOf(DefaultName)))

LEMMA TimestampedIs ==
    ASSUME NEW m \in Nat, NEW t \in Seq(Upto(m)), NEW now \in Nat, m <= now
    PROVE  /\ Timestamped(t, now) \in Seq(Upto(now))
           /\ Len(Timestamped(t, now)) = Len(Before(t)) + 2 + Len(After(t))
           /\ Len(Before(t)) \in Nat /\ Len(After(t)) \in Nat
           /\ Timestamped(t, now)[Len(Before(t)) + 2] = now
  <1> DEFINE label == <<Frequency, now>>
             S == Upto(now)
  <1>1. t \in Seq(S) /\ DefaultName \in Seq(S)
    BY UptoGrows, TextsUpto
  <1>2. label \in Seq(S) /\ Len(label) = 2 /\ label[2] = now
    BY DEF Frequency, Upto
  <1> HIDE DEF label, S
  <1>3. /\ FileOf(t) \in Seq(S) /\ FileOf(DefaultName) \in Seq(S)
        /\ Directory(t) \in Seq(S)
    BY <1>1, PartsOf
  <1>4. /\ StemOf(FileOf(t)) \in Seq(S) /\ ExtensionOf(FileOf(t)) \in Seq(S)
        /\ StemOf(FileOf(DefaultName)) \in Seq(S)
        /\ ExtensionOf(FileOf(DefaultName)) \in Seq(S)
    BY <1>3, PartsOf
  <1>5. Before(t) \in Seq(S) /\ After(t) \in Seq(S)
    BY <1>3, <1>4, ConcatProperties DEF Before, After, OrElse
  <1>6. Timestamped(t, now) = Before(t) \o label \o After(t)
    BY DEF Timestamped, Before, After, label
  <1> DEFINE front == Before(t)
             rest == After(t)
  <1>7. front \in Seq(S) /\ rest \in Seq(S)
    BY <1>5
  <1> HIDE DEF front, rest
  <1> DEFINE both == front \o label
  <1>8. /\ both \in Seq(S) /\ Len(both) = Len(front) + 2
        /\ Len(front) \in Nat /\ Len(rest) \in Nat
        /\ both[Len(front) + 2] = now
    <2>1. /\ both \in Seq(S) /\ Len(both) = Len(front) + Len(label)
          /\ \A i \in 1..(Len(front) + Len(label)) :
                 both[i] = IF i <= Len(front) THEN front[i]
                           ELSE label[i - Len(front)]
      BY <1>2, <1>7, ConcatProperties
    <2>2. Len(front) \in Nat /\ Len(rest) \in Nat
      BY <1>7, LenProperties
    <2> HIDE DEF both
    <2>3. both[Len(front) + 2] = label[(Len(front) + 2) - Len(front)]
      BY <1>2, <2>1, <2>2
    <2>4. (Len(front) + 2) - Len(front) = 2
      BY <2>2
    <2> QED BY <1>2, <2>1, <2>2, <2>3, <2>4
  <1> HIDE DEF both
  <1>9. /\ both \o rest \in Seq(S)
        /\ Len(both \o rest) = Len(front) + 2 + Len(rest)
        /\ (both \o rest)[Len(front) + 2] = now
    <2> DEFINE whole == both \o rest
    <2>1. /\ whole \in Seq(S) /\ Len(whole) = Len(both) + Len(rest)
          /\ \A i \in 1..(Len(both) + Len(rest)) :
                 whole[i] = IF i <= Len(both) THEN both[i]
                            ELSE rest[i - Len(both)]
      BY <1>7, <1>8, ConcatProperties
    <2> HIDE DEF whole
    <2>2. whole[Len(front) + 2] = both[Len(front) + 2]
      BY <1>8, <2>1
    <2> QED BY <1>8, <2>1, <2>2 DEF whole
  <1> QED BY <1>6, <1>8, <1>9 DEF front, rest, both, S

\* A name cut to the box is of the same units; one that fits is not cut.
LEMMA Boxed ==
    ASSUME NEW S, NEW t \in Seq(S)
    PROVE  /\ InBox(t) \in Seq(S)
           /\ Len(t) <= TextRoom => InBox(t) = t
  <1>1. Len(t) \in Nat /\ TextRoom \in Nat
    BY FilesAssumption
  <1> DEFINE n == Min({Len(t), TextRoom})
  <1>2. n \in Nat /\ n <= Len(t) /\ (Len(t) <= TextRoom => n = Len(t))
    BY <1>1, MinOfTwo
  <1>3. InBox(t) = SubSeq(t, 1, n)
    BY DEF InBox
  <1> HIDE DEF n
  <1>4. SubSeq(t, 1, n) \in Seq(S)
    <2>1. \A i \in 1..n : t[i] \in S
      BY <1>1, <1>2
    <2> QED BY <1>2, <2>1, SubSeqProperties
  <1>5. SubSeq(t, 1, Len(t)) = t
    BY SubSeqFull
  <1> QED BY <1>2, <1>3, <1>4, <1>5

\* The template of the next name.
NextTemplate ==
    IF text = << >> THEN DefaultName
    ELSE IF text # lastAuto THEN text
    ELSE OrElse(template, DefaultName)

\* Every unit that is a label is of a press that has been.
NameTypes ==
    /\ presses \in Nat /\ fresh \in BOOLEAN /\ lost \in BOOLEAN
    /\ \A t \in {text, template, lastAuto, typed, meant, path} :
           t \in Seq(Upto(presses))

\* The files opened are of earlier presses while the next is to be opened.
FilesAreOlder ==
    /\ savePc = "opening" => presses >= 1
    /\ \A f \in files :
           f \in Seq(Upto(IF savePc = "opening" THEN presses - 1
                          ELSE presses))

\* The next name is made from what the user typed last, and the text box may
\* be brought back to the last name.
TemplatesFollow ==
    /\ typed = << >> \/ meant = << >> => DefaultName = << >>
    /\ lastAuto = << >> => meant = DefaultName
    /\ lastAuto # << >> /\ Fits(meant) =>
           OrElse(template, DefaultName) = meant
    /\ Fits(typed) => NextTemplate = typed

NamesInv ==
    NameTypes /\ FilesAreOlder /\ TemplatesFollow /\ NamesFollowTheUser

LEMMA NamesInit == FilesInit => NamesInv
  <1> SUFFICES ASSUME FilesInit PROVE NamesInv
    OBVIOUS
  <1>1. /\ text = DefaultName /\ template = << >> /\ lastAuto = << >>
        /\ typed = DefaultName /\ meant = DefaultName /\ path = << >>
        /\ fresh = FALSE /\ lost = FALSE /\ presses = 0 /\ files = {}
        /\ savePc = "idle"
    BY DEF FilesInit
  <1>2. NameTypes
    <2>1. 0 \in Nat
      OBVIOUS
    <2>2. DefaultName \in Seq(Upto(0)) /\ << >> \in Seq(Upto(0))
      BY <2>1, TextsUpto
    <2> QED BY <1>1, <2>1, <2>2 DEF NameTypes
  <1>3. FilesAreOlder
    BY <1>1 DEF FilesAreOlder
  <1>4. TemplatesFollow
    BY <1>1 DEF TemplatesFollow, NextTemplate
  <1>5. NamesFollowTheUser
    BY <1>1 DEF NamesFollowTheUser
  <1> QED BY <1>2, <1>3, <1>4, <1>5 DEF NamesInv

\* Labels do not change the length of a name.
LEMMA FitsAlways ==
    ASSUME NEW m \in Nat, NEW t \in Seq(Upto(m)), NEW now \in Nat, m <= now,
           now >= 1, Fits(t)
    PROVE  /\ InBox(Timestamped(t, now)) = Timestamped(t, now)
           /\ Timestamped(t, now) # << >>
  <1> DEFINE u == m + 1
  <1>1. Len(Timestamped(t, now)) = Len(Before(t)) + 2 + Len(After(t))
    BY TimestampedIs
  <1>2. Len(Timestamped(t, 1)) = Len(Before(t)) + 2 + Len(After(t))
    <2> DEFINE S == Upto(u)
               one == <<Frequency, 1>>
    <2>1. u \in Nat /\ m <= u
      OBVIOUS
    <2>2. t \in Seq(S) /\ DefaultName \in Seq(S)
      BY <2>1, UptoGrows, TextsUpto
    <2>3. one \in Seq(S) /\ Len(one) = 2
      BY DEF Frequency, Upto
    <2> HIDE DEF S, one, u
    <2>4. /\ FileOf(t) \in Seq(S) /\ FileOf(DefaultName) \in Seq(S)
          /\ Directory(t) \in Seq(S)
      BY <2>2, PartsOf
    <2>5. /\ StemOf(FileOf(t)) \in Seq(S) /\ ExtensionOf(FileOf(t)) \in Seq(S)
          /\ StemOf(FileOf(DefaultName)) \in Seq(S)
          /\ ExtensionOf(FileOf(DefaultName)) \in Seq(S)
      BY <2>4, PartsOf
    <2>6. Before(t) \in Seq(S) /\ After(t) \in Seq(S)
      BY <2>4, <2>5, ConcatProperties DEF Before, After, OrElse
    <2>7. Timestamped(t, 1) = Before(t) \o one \o After(t)
      BY DEF Timestamped, Before, After, one
    <2>8. /\ Before(t) \o one \in Seq(S)
          /\ Len(Before(t) \o one) = Len(Before(t)) + Len(one)
      BY <2>3, <2>6, ConcatProperties
    <2>9. Len((Before(t) \o one) \o After(t))
              = Len(Before(t) \o one) + Len(After(t))
      BY <2>6, <2>8, ConcatProperties
    <2> QED BY <2>3, <2>7, <2>8, <2>9
  <1>3. Len(Timestamped(t, now)) <= TextRoom
    BY <1>1, <1>2 DEF Fits
  <1>4. Timestamped(t, now) \in Seq(Upto(now))
    BY TimestampedIs
  <1>5. Len(Timestamped(t, now)) >= 2
    BY <1>1, TimestampedIs
  <1> QED BY <1>3, <1>4, <1>5, Boxed

\* A name with the label of a press is of no earlier one.
LEMMA NamesDiffer ==
    ASSUME NEW m \in Nat, NEW t \in Seq(Upto(m)), NEW now \in Nat,
           m <= now, NEW f \in Seq(Upto(now - 1))
    PROVE  f # Timestamped(t, now)
  <1> SUFFICES ASSUME f = Timestamped(t, now) PROVE FALSE
    OBVIOUS
  <1>1. /\ Len(f) = Len(Before(t)) + 2 + Len(After(t))
        /\ Len(Before(t)) \in Nat /\ Len(After(t)) \in Nat
        /\ f[Len(Before(t)) + 2] = now
    BY TimestampedIs
  <1>2. Len(Before(t)) + 2 \in 1..Len(f)
    BY <1>1
  <1>3. now \in Upto(now - 1)
    BY <1>1, <1>2, ElementOfSeq
  <1> QED BY <1>3 DEF Upto

LEMMA TypeNames ==
    ASSUME NamesInv, Type
    PROVE  NamesInv'
  <1>1. /\ savePc = "idle" /\ savePc' = savePc /\ path' = path
        /\ text' \in Texts \cup {InBox(lastAuto)}
        /\ typed' = IF text' = lastAuto THEN meant
                    ELSE OrElse(text', DefaultName)
        /\ fresh' = FALSE /\ template' = template /\ lastAuto' = lastAuto
        /\ meant' = meant /\ presses' = presses /\ files' = files
        /\ lost' = lost
    BY DEF Type, saveVars
  <1>2. /\ presses \in Nat /\ lost \in BOOLEAN
        /\ \A t \in {text, template, lastAuto, typed, meant, path} :
               t \in Seq(Upto(presses))
    BY DEF NamesInv, NameTypes
  <1>3. /\ \A t \in Texts : t \in Seq(Upto(presses))
        /\ DefaultName \in Seq(Upto(presses))
    BY <1>2, TextsUpto
  <1>4. NameTypes'
    <2>1. text' \in Seq(Upto(presses))
      BY <1>1, <1>2, <1>3, Boxed
    <2>2. typed' \in Seq(Upto(presses))
      BY <1>1, <1>2, <1>3, <2>1 DEF OrElse
    <2> QED BY <1>1, <1>2, <2>1, <2>2 DEF NameTypes, Upto
  <1>5. FilesAreOlder'
    BY <1>1 DEF NamesInv, FilesAreOlder, Upto
  <1>6. /\ typed = << >> \/ meant = << >> => DefaultName = << >>
        /\ lastAuto = << >> => meant = DefaultName
        /\ lastAuto # << >> /\ Fits(meant) =>
               OrElse(template, DefaultName) = meant
    BY DEF NamesInv, TemplatesFollow
  <1>7. TemplatesFollow'
    <2>1. typed' = << >> \/ meant' = << >> => DefaultName = << >>
      BY <1>1, <1>6 DEF OrElse
    <2>2. Fits(typed') => NextTemplate' = typed'
      <3>1. CASE text' = << >>
        BY <1>1, <1>6, <3>1 DEF NextTemplate, OrElse
      <3>2. CASE text' # << >> /\ text' # lastAuto
        BY <1>1, <3>2 DEF NextTemplate, OrElse
      <3>3. CASE text' # << >> /\ text' = lastAuto
        BY <1>1, <1>6, <3>3 DEF NextTemplate
      <3> QED BY <3>1, <3>2, <3>3
    <2>3. /\ lastAuto' = << >> => meant' = DefaultName
          /\ lastAuto' # << >> /\ Fits(meant') =>
                 OrElse(template', DefaultName) = meant'
      BY <1>1, <1>6
    <2> QED BY <2>1, <2>2, <2>3 DEF TemplatesFollow, Fits, Timestamped
  <1>8. NamesFollowTheUser'
    BY <1>1 DEF NamesFollowTheUser
  <1> QED BY <1>4, <1>5, <1>7, <1>8 DEF NamesInv

LEMMA PressNames ==
    ASSUME NamesInv, Press
    PROVE  NamesInv'
  <1> DEFINE now == presses + 1
             name == Timestamped(template', now)
  <1>1. /\ savePc = "idle" /\ presses' = now /\ fresh' = TRUE
        /\ meant' = typed /\ path' = text' /\ savePc' = "opening"
        /\ lost' = FALSE /\ typed' = typed /\ files' = files
        /\ template' = NextTemplate
        /\ lastAuto' = name /\ text' = InBox(name)
    BY DEF Press, PrepareNext, NextTemplate
  <1>2. /\ presses \in Nat /\ now \in Nat /\ now >= 1 /\ presses <= now
        /\ \A t \in {text, template, lastAuto, typed, meant, path} :
               t \in Seq(Upto(presses))
    BY DEF NamesInv, NameTypes
  <1>3. template' \in Seq(Upto(presses))
    BY <1>1, <1>2, TextsUpto DEF NextTemplate, OrElse
  <1>4. name \in Seq(Upto(now)) /\ text' \in Seq(Upto(now)) /\ name # << >>
    <2>1. /\ name \in Seq(Upto(now))
          /\ Len(name) = Len(Before(template')) + 2 + Len(After(template'))
          /\ Len(Before(template')) \in Nat /\ Len(After(template')) \in Nat
      BY <1>2, <1>3, TimestampedIs
    <2> HIDE DEF name
    <2>2. InBox(name) \in Seq(Upto(now))
      BY <2>1, Boxed
    <2> QED BY <1>1, <2>1, <2>2
  <1> HIDE DEF name
  <1>5. NameTypes'
    <2>1. template' \in Seq(Upto(now)) /\ typed \in Seq(Upto(now))
      BY <1>2, <1>3, UptoGrows
    <2> HIDE DEF now
    <2>2. \A t \in {text', template', lastAuto', typed', meant', path'} :
              t \in Seq(Upto(now))
      BY <1>1, <1>4, <2>1
    <2> QED BY <1>1, <1>2, <2>2 DEF NameTypes, Upto
  <1>6. FilesAreOlder'
    <2>1. \A f \in files : f \in Seq(Upto(presses))
      BY <1>1 DEF NamesInv, FilesAreOlder
    <2>2. now - 1 = presses
      BY <1>2
    <2> HIDE DEF now
    <2> QED BY <1>1, <1>2, <2>1, <2>2 DEF FilesAreOlder, Upto
  <1>7. /\ typed = << >> => DefaultName = << >>
        /\ Fits(typed) => NextTemplate = typed
    BY DEF NamesInv, TemplatesFollow
  <1>8. Fits(typed) => text' = name /\ name = Timestamped(typed, now)
    <2>1. ASSUME Fits(typed)
          PROVE  text' = name /\ name = Timestamped(typed, now)
      <3>1. template' = typed
        BY <1>1, <1>7, <2>1
      <3>2. name = Timestamped(typed, now)
        BY <3>1 DEF name
      <3>3. InBox(name) = name
        <4>1. typed \in Seq(Upto(presses))
          BY <1>2
        <4> QED BY <1>2, <2>1, <3>2, <4>1, FitsAlways
      <3> QED BY <1>1, <3>2, <3>3
    <2> QED BY <2>1
  <1>9. TemplatesFollow'
    <2>1. typed' = << >> \/ meant' = << >> => DefaultName = << >>
      BY <1>1, <1>7
    <2>2. lastAuto' # << >>
      BY <1>1, <1>4
    <2>3. Fits(typed) => OrElse(template', DefaultName) = typed
      BY <1>1, <1>7 DEF OrElse
    <2>4. Fits(typed') => NextTemplate' = typed'
      BY <1>1, <1>4, <1>8, <2>3 DEF NextTemplate
    <2> QED BY <1>1, <2>1, <2>2, <2>3, <2>4
            DEF TemplatesFollow, Fits, Timestamped
  <1>10. NamesFollowTheUser'
    BY <1>1, <1>8 DEF NamesFollowTheUser, Fits, Timestamped
  <1> QED BY <1>5, <1>6, <1>9, <1>10 DEF NamesInv

LEMMA OpenNames ==
    ASSUME NamesInv, Open
    PROVE  NamesInv'
  <1>1. /\ savePc = "opening" /\ savePc' # "opening" /\ path' = path
        /\ text' = text /\ template' = template /\ lastAuto' = lastAuto
        /\ typed' = typed /\ meant' = meant /\ fresh' = fresh
        /\ presses' = presses
        /\ \/ files' = files \cup {path} /\ lost' = (path \in files)
           \/ files' = files /\ lost' = lost
    BY DEF Open, nameVars
  <1>2. /\ presses \in Nat /\ lost \in BOOLEAN /\ fresh \in BOOLEAN
        /\ \A t \in {text, template, lastAuto, typed, meant, path} :
               t \in Seq(Upto(presses))
    BY DEF NamesInv, NameTypes
  <1>3. presses >= 1 /\ \A f \in files : f \in Seq(Upto(presses - 1))
    BY <1>1 DEF NamesInv, FilesAreOlder
  <1>4. NameTypes'
    <2>1. lost' \in BOOLEAN
      <3>1. CASE lost' = (path \in files)
        BY <3>1
      <3>2. CASE lost' = lost
        BY <1>2, <3>2
      <3> QED BY <1>1, <3>1, <3>2
    <2> QED BY <1>1, <1>2, <2>1 DEF NameTypes, Upto
  <1>5. FilesAreOlder'
    <2>1. presses - 1 \in Nat /\ presses - 1 <= presses
      BY <1>2, <1>3
    <2>2. \A f \in files : f \in Seq(Upto(presses))
      BY <1>2, <1>3, <2>1, UptoGrows
    <2>3. \A f \in files' : f \in Seq(Upto(presses))
      BY <1>1, <1>2, <2>2
    <2> QED BY <1>1, <2>3 DEF FilesAreOlder, Upto
  <1>6. TemplatesFollow'
    BY <1>1 DEF NamesInv, TemplatesFollow, NextTemplate, Fits, Timestamped
  <1>7. NamesFollowTheUser'
    <2>1. ASSUME fresh, Fits(typed)
          PROVE  /\ text = Timestamped(typed, presses) /\ path = text /\ ~lost
                 /\ path \notin files
      <3>1. text = Timestamped(typed, presses) /\ path = text /\ ~lost
        BY <2>1 DEF NamesInv, NamesFollowTheUser
      <3>2. \A f \in files : f # Timestamped(typed, presses)
        <4>1. typed \in Seq(Upto(presses)) /\ presses <= presses
          BY <1>2
        <4>2. ASSUME NEW f \in files PROVE f # Timestamped(typed, presses)
          <5>1. f \in Seq(Upto(presses - 1))
            BY <1>3
          <5> QED BY <1>2, <4>1, <5>1, NamesDiffer
        <4> QED BY <4>2
      <3> QED BY <3>1, <3>2
    <2> QED BY <1>1, <2>1 DEF NamesFollowTheUser, Fits, Timestamped
  <1> QED BY <1>4, <1>5, <1>6, <1>7 DEF NamesInv

\* The other steps leave the names alone.
LEMMA KeptNames ==
    ASSUME NamesInv,
           nameVars' = nameVars, path' = path, files' = files, lost' = lost,
           savePc' = savePc \/ savePc' # "opening"
    PROVE  NamesInv'
  <1>1. /\ text' = text /\ template' = template /\ lastAuto' = lastAuto
        /\ typed' = typed /\ meant' = meant /\ fresh' = fresh
        /\ presses' = presses
    BY DEF nameVars
  <1>2. NameTypes'
    BY <1>1 DEF NamesInv, NameTypes, Upto
  <1>3. FilesAreOlder'
    <2>1. CASE savePc' = savePc
      BY <1>1, <2>1 DEF NamesInv, FilesAreOlder, Upto
    <2>2. CASE savePc' # "opening"
      <3>1. presses \in Nat
        BY DEF NamesInv, NameTypes
      <3>2. ASSUME NEW f \in files PROVE f \in Seq(Upto(presses))
        <4>1. CASE savePc = "opening"
          <5>1. presses - 1 \in Nat /\ presses - 1 <= presses
            BY <3>1, <4>1 DEF NamesInv, FilesAreOlder
          <5>2. f \in Seq(Upto(presses - 1))
            BY <4>1 DEF NamesInv, FilesAreOlder
          <5> QED BY <3>1, <5>1, <5>2, UptoGrows
        <4>2. CASE savePc # "opening"
          BY <4>2 DEF NamesInv, FilesAreOlder
        <4> QED BY <4>1, <4>2
      <3> QED BY <1>1, <2>2, <3>2 DEF FilesAreOlder, Upto
    <2> QED BY <2>1, <2>2
  <1>4. TemplatesFollow'
    BY <1>1 DEF NamesInv, TemplatesFollow, NextTemplate, Fits, Timestamped
  <1>5. NamesFollowTheUser'
    BY <1>1 DEF NamesInv, NamesFollowTheUser, Fits, Timestamped
  <1> QED BY <1>2, <1>3, <1>4, <1>5 DEF NamesInv

LEMMA NamesStep == NamesInv /\ [FilesNext]_filesVars => NamesInv'
  <1> SUFFICES ASSUME NamesInv, [FilesNext]_filesVars PROVE NamesInv'
    OBVIOUS
  <1>1. CASE Refused
    BY <1>1, KeptNames DEF Refused
  <1>2. CASE WriteChunk
    BY <1>2, KeptNames DEF WriteChunk
  <1>3. CASE Stop
    BY <1>3, KeptNames DEF Stop
  <1>4. CASE LeaveLoop
    BY <1>4, KeptNames DEF LeaveLoop
  <1>5. CASE Close
    BY <1>5, KeptNames DEF Close
  <1>6. CASE UNCHANGED filesVars
    BY <1>6, KeptNames DEF filesVars, saveVars
  <1> QED BY <1>1, <1>2, <1>3, <1>4, <1>5, <1>6, TypeNames, PressNames,
             OpenNames DEF FilesNext

-----------------------------------------------------------------------------
(* Saves *)

\* How far the save is, and what it shows.
SaveInv ==
    /\ savePc \in {"idle", "opening", "saving", "closing"}
    /\ total \in Nat /\ written \in Nat /\ showing \in Nat /\ disk \in Nat
    /\ stopping \in BOOLEAN
    /\ stage = "saving" <=> savePc \in {"saving", "closing"}
    /\ stage = "saving" =>
           showing = written /\ disk <= written /\ written <= total
    /\ savePc = "closing" /\ ~stopping => written = total
    /\ SavedFileIsWhole

\* A write is of no more than what is left.
LEMMA ChunkLeft ==
    ASSUME total \in Nat, written \in Nat, written <= total
    PROVE  Min({total - written, Chunk * FrameBytes}) \in 0..(total - written)
  <1>1. FrameBytes \in Nat \ {0} /\ MaxChunk \in Nat
    BY FilesAssumption
  <1>2. total - written \in Nat /\ total - written + FrameBytes - 1 \in Nat
    BY <1>1
  <1>3. Remaining \in Nat
    BY <1>1, <1>2 DEF Remaining
  <1>4. Min({Remaining, MaxChunk}) \in Nat
    BY <1>1, <1>3, MinOfTwo
  <1>5. Chunk \in Nat
    BY <1>4, MaxOfTwo DEF Chunk
  <1>6. Chunk * FrameBytes \in Nat
    BY <1>1, <1>5
  <1> QED BY <1>2, <1>6, MinOfTwo

LEMMA SaveInit == FilesInit => SaveInv
  <1> SUFFICES ASSUME FilesInit PROVE SaveInv
    OBVIOUS
  <1>1. /\ savePc = "idle" /\ stage = "none" /\ stopping = FALSE
        /\ total = 0 /\ written = 0 /\ showing = 0 /\ disk = 0
    BY DEF FilesInit
  <1>2. SavedFileIsWhole
    BY <1>1 DEF SavedFileIsWhole
  <1>3. stage # "saving" /\ savePc \notin {"saving", "closing"}
    BY <1>1
  <1>4. stopping \in BOOLEAN
    BY <1>1
  <1>5. savePc \in {"idle", "opening", "saving", "closing"}
    BY <1>1
  <1>6. total \in Nat /\ written \in Nat /\ showing \in Nat /\ disk \in Nat
    BY <1>1
  <1> QED BY <1>2, <1>3, <1>4, <1>5, <1>6 DEF SaveInv

LEMMA SaveStep == SaveInv /\ [FilesNext]_filesVars => SaveInv'
  <1> SUFFICES ASSUME SaveInv, [FilesNext]_filesVars PROVE SaveInv'
    OBVIOUS
  <1>0. /\ savePc \in {"idle", "opening", "saving", "closing"}
        /\ total \in Nat /\ written \in Nat /\ showing \in Nat /\ disk \in Nat
        /\ stopping \in BOOLEAN
        /\ stage = "saving" <=> savePc \in {"saving", "closing"}
        /\ stage = "saving" =>
               showing = written /\ disk <= written /\ written <= total
        /\ savePc = "closing" /\ ~stopping => written = total
        /\ stage = "complete" => disk = total
        /\ showing <= total
        /\ stage \in {"saving", "stopped"} => disk <= showing
    BY DEF SaveInv, SavedFileIsWhole
  <1>1. CASE Type
    BY <1>0, <1>1 DEF Type, saveVars, SaveInv, SavedFileIsWhole
  <1>2. CASE Press
    BY <1>0, <1>2 DEF Press, SaveInv, SavedFileIsWhole
  <1>3. CASE Refused
    BY <1>0, <1>3 DEF Refused, SaveInv, SavedFileIsWhole
  <1>4. CASE Open
    <2>1. total' \in Nat
      BY <1>4, FilesAssumption DEF Open
    <2>2. written' = 0 /\ showing' = 0 /\ stopping' = FALSE
      BY <1>4 DEF Open
    <2>3. /\ disk' \in Nat
          /\ \/ savePc' = "saving" /\ stage' = "saving" /\ disk' = 0
             \/ savePc' = "idle" /\ stage' = "failed"
      BY <1>0, <1>4 DEF Open
    <2>4. stopping' \in BOOLEAN
      BY <2>2
    <2>5. SavedFileIsWhole'
      BY <2>1, <2>2, <2>3 DEF SavedFileIsWhole
    <2> QED BY <2>1, <2>2, <2>3, <2>4, <2>5 DEF SaveInv
  <1>5. CASE WriteChunk
    <2> DEFINE n == Min({total - written, Chunk * FrameBytes})
    <2>1. written <= total
      BY <1>0, <1>5 DEF WriteChunk
    <2>2. n \in 0..(total - written)
      BY <1>0, <2>1, ChunkLeft
    <2>3. /\ savePc = "saving" /\ total' = total /\ stopping' = stopping
          /\ disk' \in {disk, written, written + n}
          /\ \/ /\ written' = written + n /\ showing' = written'
                /\ savePc' = savePc /\ stage' = stage
             \/ /\ savePc' = "idle" /\ stage' = "failed"
                /\ written' = written /\ showing' = showing
      BY <1>5 DEF WriteChunk
    <2> HIDE DEF n
    <2>4. /\ disk' \in Nat /\ disk' <= written + n
          /\ written + n \in Nat /\ written + n <= total
      BY <1>0, <2>1, <2>2, <2>3
    <2> QED BY <1>0, <2>1, <2>3, <2>4 DEF SaveInv, SavedFileIsWhole
  <1>6. CASE Stop
    BY <1>0, <1>6 DEF Stop, SaveInv, SavedFileIsWhole
  <1>7. CASE LeaveLoop
    <2>1. stopping' \in BOOLEAN /\ (~stopping' => written = total)
      <3>1. stopping' = (written < total)
        BY <1>7 DEF LeaveLoop
      <3>2. stopping' \in BOOLEAN
        BY <3>1
      <3>3. written <= total
        BY <1>0, <1>7 DEF LeaveLoop
      <3>4. written >= total => written = total
        BY <1>0, <3>3
      <3>5. ~stopping' => ~(written < total)
        BY <3>1
      <3>6. ~stopping' => written = total
        BY <1>0, <3>4, <3>5
      <3> QED BY <3>2, <3>6
    <2> QED BY <1>0, <1>7, <2>1 DEF LeaveLoop, SaveInv, SavedFileIsWhole
  <1>8. CASE Close
    <2>1. PICK closed \in BOOLEAN :
              /\ disk' = IF closed THEN written ELSE disk
              /\ stage' = IF stopping THEN "stopped"
                          ELSE IF closed THEN "complete" ELSE "failed"
              /\ showing' = IF ~stopping /\ closed THEN total ELSE written
      BY <1>8 DEF Close
    <2>2. /\ savePc = "closing" /\ savePc' = "idle" /\ total' = total
          /\ written' = written /\ stopping' = stopping
      BY <1>8 DEF Close
    <2> QED BY <1>0, <2>1, <2>2 DEF SaveInv, SavedFileIsWhole
  <1>9. CASE UNCHANGED filesVars
    BY <1>0, <1>9 DEF filesVars, saveVars, SaveInv, SavedFileIsWhole
  <1> QED BY <1>1, <1>2, <1>3, <1>4, <1>5, <1>6, <1>7, <1>8, <1>9
          DEF FilesNext

\* Whatever the user types and however often a save or a record is begun,
\* stopped or fails, the file has the name the user typed last with the label
\* of its press, replaces none that was written before, and has what the panel
\* says is in it (prepare_next_auto_output_path, save_baseband_iq).
THEOREM FilesAreAsAsked == FilesSpec => []FilesAsAsked
  <1>1. FilesInit => NamesInv /\ SaveInv
    BY NamesInit, SaveInit
  <1>2. NamesInv /\ SaveInv /\ [FilesNext]_filesVars => (NamesInv /\ SaveInv)'
    BY NamesStep, SaveStep
  <1>3. NamesInv /\ SaveInv => FilesAsAsked
    BY DEF NamesInv, SaveInv, FilesAsAsked
  <1> QED BY <1>1, <1>2, <1>3, PTL DEF FilesSpec
=============================================================================
