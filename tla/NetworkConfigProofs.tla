------------------------ MODULE NetworkConfigProofs ------------------------
(***************************************************************************)
(* Proofs about NetworkConfig, for every set of words: what is read back   *)
(* of a configuration that was written.                                    *)
(***************************************************************************)
EXTENDS NetworkConfig, SequenceTheorems, WellFoundedInduction, TLAPS

-----------------------------------------------------------------------------
(* The least and the greatest *)

\* A nonempty set of naturals has a least element, which is its Min.
LEMMA MinOfNats ==
    ASSUME NEW S \in SUBSET Nat, S # {}
    PROVE  Min(S) \in S /\ \A j \in S : Min(S) <= j
  <1>1. PICK i \in S : \A j \in S : ~ <<j, i>> \in OpToRel(<, Nat)
    BY WFMin, NatLessThanWellFounded
  <1>2. ASSUME NEW j \in S PROVE i <= j
    <2>1. <<j, i>> \in Nat \X Nat
      OBVIOUS
    <2>2. ~ (j < i)
      BY <1>1, <2>1 DEF OpToRel
    <2> QED BY <2>2
  <1>3. \E x \in S : \A y \in S : x <= y
    BY <1>2
  <1> QED BY <1>3 DEF Min

\* A nonempty set of naturals with a bound has a greatest, which is its Max.
LEMMA MaxOfNats ==
    ASSUME NEW k \in Nat, NEW S \in SUBSET (0..k), S # {}
    PROVE  Max(S) \in S /\ \A j \in S : j <= Max(S)
  <1> DEFINE T == {t \in 0..k : k - t \in S}
  <1>1. T \in SUBSET Nat /\ \A j \in S : k - j \in T
    OBVIOUS
  <1>2. T # {}
    BY <1>1
  <1>3. Min(T) \in T /\ \A t \in T : Min(T) <= t
    BY <1>1, <1>2, MinOfNats
  <1> DEFINE m == k - Min(T)
  <1>4. m \in S
    BY <1>3
  <1>5. ASSUME NEW j \in S PROVE m >= j
    <2>1. k - j \in T /\ Min(T) <= k - j
      BY <1>1, <1>3
    <2> QED BY <1>3, <2>1
  <1>6. \E x \in S : \A y \in S : x >= y
    BY <1>4, <1>5
  <1>7. Max(S) \in S /\ \A y \in S : Max(S) >= y
    BY <1>6 DEF Max
  <1> QED BY <1>7

-----------------------------------------------------------------------------
(* Searching and trimming *)

\* The first position of a token is a position of it that none precedes, or
\* the one past the end of a text without it.
LEMMA FirstIs ==
    ASSUME NEW text \in Seq(Tokens), NEW token \in Tokens,
           NEW p \in 1..Len(text) + 1,
           p <= Len(text) => text[p] = token,
           \A q \in 1..p - 1 : text[q] # token
    PROVE  First(text, token) = p
  <1> DEFINE S == Positions(text, token) \cup {Len(text) + 1}
  <1>1. First(text, token) = Min(S)
    BY DEF First
  <1>2. p \in S /\ \A j \in S : p <= j
    BY DEF Positions
  <1>3. S \in SUBSET Nat
    BY DEF Positions
  <1> HIDE DEF S
  <1>4. Min(S) \in S /\ Min(S) <= p
    BY <1>2, <1>3, MinOfNats
  <1>5. Min(S) \in 1..Len(text) + 1
    BY <1>4 DEF S, Positions
  <1>6. Min(S) < p => text[Min(S)] = token
    BY <1>4, <1>5 DEF S, Positions
  <1> QED BY <1>1, <1>4, <1>5, <1>6

\* There is always such a position.
LEMMA FirstExists ==
    ASSUME NEW text \in Seq(Tokens), NEW token \in Tokens
    PROVE  LET p == First(text, token)
           IN  /\ p \in 1..Len(text) + 1
               /\ p <= Len(text) => text[p] = token
               /\ \A q \in 1..p - 1 : text[q] # token
  <1> DEFINE S == Positions(text, token) \cup {Len(text) + 1}
  <1>1. First(text, token) = Min(S)
    BY DEF First
  <1>2. S \in SUBSET (1..Len(text) + 1) /\ S \in SUBSET Nat
    BY DEF Positions
  <1>3. S # {} /\ \A q \in 1..Len(text) : q \in S <=> text[q] = token
    BY DEF Positions
  <1> HIDE DEF S
  <1>4. Min(S) \in S /\ \A j \in S : Min(S) <= j
    BY <1>2, <1>3, MinOfNats
  <1> DEFINE p == Min(S)
  <1>5. p \in 1..Len(text) + 1
    BY <1>2, <1>4
  <1> HIDE DEF p
  <1>6. \A q \in 1..p - 1 : text[q] # token
    <2>1. ASSUME NEW q \in 1..p - 1 PROVE text[q] # token
      <3>1. q \in 1..Len(text)
        BY <1>5
      <3>2. q \notin S
        BY <1>4, <1>5 DEF p
      <3> QED BY <1>3, <3>1, <3>2
    <2> QED BY <2>1
  <1>7. p <= Len(text) => text[p] = token
    BY <1>3, <1>4, <1>5 DEF p
  <1> QED BY <1>1, <1>5, <1>6, <1>7 DEF p

\* The positions of a text.
LEMMA TextDomain ==
    ASSUME NEW text \in Seq(Tokens)
    PROVE  /\ Len(text) \in Nat /\ DOMAIN text = 1..Len(text)
           /\ text # <<>> => 1 \in DOMAIN text /\ Len(text) \in DOMAIN text
           /\ \A i \in 1..Len(text) : text[i] \in Tokens
  <1>1. Len(text) \in Nat /\ DOMAIN text = 1..Len(text)
    OBVIOUS
  <1>2. text # <<>> => Len(text) # 0
    BY EmptySeq
  <1> QED BY <1>1, <1>2

\* What is left when the blanks are taken out, and where it begins and ends.
LEMMA InnerOf ==
    ASSUME NEW text \in Seq(Tokens), NEW inner,
           inner = DOMAIN text \ Positions(text, Blank)
    PROVE  /\ inner \in SUBSET (1..Len(text))
           /\ \A i \in 1..Len(text) : i \in inner <=> text[i] # Blank
           /\ inner # {} =>
                /\ Min(inner) \in inner /\ Max(inner) \in inner
                /\ \A i \in inner : Min(inner) <= i /\ i <= Max(inner)
           /\ Trim[text] = IF inner = {} THEN <<>>
                           ELSE SubSeq(text, Min(inner), Max(inner))
  <1>1. Len(text) \in Nat /\ DOMAIN text = 1..Len(text)
    BY TextDomain
  <1>2. /\ inner \in SUBSET (1..Len(text))
        /\ \A i \in 1..Len(text) : i \in inner <=> text[i] # Blank
    BY <1>1 DEF Positions
  <1>3. inner \in SUBSET Nat /\ inner \in SUBSET (0..Len(text))
    <2>1. \A n \in Nat : \A i \in 1..n : i \in Nat /\ i \in 0..n
      OBVIOUS
    <2>2. \A i \in inner : i \in Nat /\ i \in 0..Len(text)
      BY <1>1, <1>2, <2>1
    <2> QED BY <2>2
  <1>4. inner # {} =>
          /\ Min(inner) \in inner /\ Max(inner) \in inner
          /\ \A i \in inner : Min(inner) <= i /\ i <= Max(inner)
    BY <1>1, <1>3, MinOfNats, MaxOfNats
  <1>5. Trim[text] = IF inner = {} THEN <<>>
                     ELSE SubSeq(text, Min(inner), Max(inner))
    BY DEF Trim
  <1> QED BY <1>2, <1>4, <1>5

\* Trimming leaves a text without margins as it is.
LEMMA TrimIs ==
    ASSUME NEW text \in Seq(Tokens),
           text # <<>> => text[1] # Blank /\ text[Len(text)] # Blank
    PROVE  Trim[text] = text
  <1> DEFINE inner == DOMAIN text \ Positions(text, Blank)
  <1>1. /\ inner \in SUBSET (1..Len(text))
        /\ \A i \in 1..Len(text) : i \in inner <=> text[i] # Blank
        /\ inner # {} =>
             /\ Min(inner) \in inner /\ Max(inner) \in inner
             /\ \A i \in inner : Min(inner) <= i /\ i <= Max(inner)
        /\ Trim[text] = IF inner = {} THEN <<>>
                        ELSE SubSeq(text, Min(inner), Max(inner))
    BY InnerOf
  <1> HIDE DEF inner
  <1>2. CASE text = <<>>
    <2>1. Len(text) = 0
      BY <1>2, EmptySeq
    <2>2. inner = {}
      BY <1>1, <2>1
    <2> QED BY <1>1, <1>2, <2>2
  <1>3. CASE text # <<>>
    <2>1. 1 \in 1..Len(text) /\ Len(text) \in 1..Len(text)
      BY <1>3, TextDomain
    <2>2. 1 \in inner /\ Len(text) \in inner
      BY <1>1, <1>3, <2>1
    <2> DEFINE a == Min(inner)
               b == Max(inner)
    <2>3. a \in 1..Len(text) /\ b \in 1..Len(text) /\ a <= 1 /\ Len(text) <= b
      BY <1>1, <2>2
    <2> HIDE DEF a, b
    <2>6. a = 1 /\ b = Len(text)
      BY <2>3, TextDomain
    <2>4. SubSeq(text, 1, Len(text)) = text
      BY SubSeqFull
    <2> QED BY <1>1, <2>2, <2>6, <2>4 DEF a, b
  <1> QED BY <1>2, <1>3

\* A text that trimming leaves as it is does not end in a blank.
LEMMA TrimmedEnds ==
    ASSUME NEW text \in Seq(Tokens), Trim[text] = text, text # <<>>
    PROVE  text[Len(text)] # Blank
  <1> DEFINE inner == DOMAIN text \ Positions(text, Blank)
  <1>1. /\ inner \in SUBSET (1..Len(text))
        /\ \A i \in 1..Len(text) : i \in inner <=> text[i] # Blank
        /\ inner # {} =>
             /\ Min(inner) \in inner /\ Max(inner) \in inner
             /\ \A i \in inner : Min(inner) <= i /\ i <= Max(inner)
        /\ Trim[text] = IF inner = {} THEN <<>>
                        ELSE SubSeq(text, Min(inner), Max(inner))
    BY InnerOf
  <1> HIDE DEF inner
  <1>2. inner # {} /\ text = SubSeq(text, Min(inner), Max(inner))
    BY <1>1
  <1> DEFINE a == Min(inner)
             b == Max(inner)
  <1>3. a \in 1..Len(text) /\ b \in 1..Len(text) /\ text[b] # Blank
    BY <1>1, <1>2
  <1>4. text = SubSeq(text, a, b)
    BY <1>2
  <1> HIDE DEF a, b
  <1>5. Len(SubSeq(text, a, b)) = IF a <= b THEN b - a + 1 ELSE 0
    <2>1. Len(text) \in Nat /\ \A i \in 1..Len(text) : text[i] \in Tokens
      BY TextDomain
    <2>2. a \in Int /\ b \in Int /\ \A i \in a..b : text[i] \in Tokens
      BY <1>3, <2>1
    <2> QED BY <2>2, SubSeqProperties
  <1>6. b = Len(text)
    BY <1>3, <1>4, <1>5, TextDomain
  <1> QED BY <1>3, <1>6

-----------------------------------------------------------------------------
(* Lines *)

\* A line without its comment and its margins.
Bare(body) == Trim[SubSeq(body, 1, First(body, "#") - 1)]

\* A text of whole lines.
Whole(text) ==
    text \in Seq(Tokens) /\ (text # <<>> => text[Len(text)] = "\n")

\* The tokens the parser looks at are tokens, and differ.
LEMMA Marks ==
    /\ "\n" \in Tokens /\ "#" \in Tokens /\ "=" \in Tokens /\ Blank \in Tokens
    /\ "=" # "\n" /\ "=" # "#" /\ "=" # Blank /\ "#" # "\n"
    /\ \A key \in Keys : /\ key \in Tokens /\ key # "\n" /\ key # "#"
                         /\ key # "=" /\ key # Blank
    /\ \A mode \in Modes : /\ mode \in Tokens /\ mode # "\n" /\ mode # "#"
                           /\ mode # Blank
  <1>1. /\ "\n" \in Tokens /\ "#" \in Tokens /\ "=" \in Tokens
        /\ Blank \in Tokens
    BY Zenon DEF Tokens
  <1>2. "=" # "\n" /\ "=" # "#" /\ "=" # Blank /\ "#" # "\n"
    BY Zenon DEF Blank
  <1>3. ASSUME NEW key \in Keys
        PROVE  /\ key \in Tokens /\ key # "\n" /\ key # "#" /\ key # "="
               /\ key # Blank
    BY Zenon DEF Keys, Tokens, Blank
  <1>4. ASSUME NEW mode \in Modes
        PROVE  /\ mode \in Tokens /\ mode # "\n" /\ mode # "#"
               /\ mode # Blank
    BY Zenon DEF Modes, Tokens, Blank
  <1> QED BY <1>1, <1>2, <1>3, <1>4

\* What follows a position of a text when another text is appended.
LEMMA RestOfConcat ==
    ASSUME NEW t \in Seq(Tokens), NEW l \in Seq(Tokens)
    PROVE  /\ SubSeq(t \o l, Len(t) + 1, Len(t \o l)) = l
           /\ \A i \in 1..Len(t) :
                  SubSeq(t \o l, i, Len(t \o l)) = SubSeq(t, i, Len(t)) \o l
  <1>1. /\ t \o l \in Seq(Tokens) /\ Len(t \o l) = Len(t) + Len(l)
        /\ \A i \in 1..Len(t) + Len(l) :
              (t \o l)[i] = IF i <= Len(t) THEN t[i] ELSE l[i - Len(t)]
    BY ConcatProperties
  <1> DEFINE u == t \o l
  <1> HIDE DEF u
  <1>2. SubSeq(u, Len(t) + 1, Len(u)) = l
    BY <1>1 DEF u
  <1>3. ASSUME NEW i \in 1..Len(t)
        PROVE  SubSeq(u, i, Len(u)) = SubSeq(t, i, Len(t)) \o l
    BY <1>1 DEF u
  <1> QED BY <1>2, <1>3 DEF u

\* The first line of a text is that of its beginning, when the beginning has
\* the whole of it.
LEMMA FirstLineKept ==
    ASSUME NEW s \in Seq(Tokens), NEW l \in Seq(Tokens), s # <<>>,
           s[Len(s)] = "\n"
    PROVE  FirstLine[s \o l] = FirstLine[s]
  <1> DEFINE u == s \o l
             p == First(s, "\n")
  <1>1. /\ u \in Seq(Tokens) /\ Len(u) = Len(s) + Len(l)
        /\ \A i \in 1..Len(s) : u[i] = s[i]
    <2>1. /\ u \in Seq(Tokens) /\ Len(u) = Len(s) + Len(l)
          /\ \A i \in 1..Len(s) + Len(l) :
                u[i] = IF i <= Len(s) THEN s[i] ELSE l[i - Len(s)]
      BY ConcatProperties
    <2> HIDE DEF u
    <2> QED BY <2>1
  <1>2. /\ p \in 1..Len(s) + 1
        /\ p <= Len(s) => s[p] = "\n"
        /\ \A q \in 1..p - 1 : s[q] # "\n"
    BY FirstExists, Marks
  <1> HIDE DEF p, u
  <1>3. Len(s) \in Nat \ {0} /\ Len(l) \in Nat
    BY EmptySeq
  <1>4. p \in 1..Len(s)
    <2>1. p # Len(s) + 1
      <3>1. ASSUME p = Len(s) + 1 PROVE FALSE
        <4>1. Len(s) \in 1..p - 1
          BY <1>3, <3>1
        <4> QED BY <1>2, <4>1
      <3> QED BY <3>1
    <2> QED BY <1>2, <1>3, <2>1
  <1>5. First(u, "\n") = p
    <2>1. p \in 1..Len(u) + 1 /\ u[p] = "\n"
      BY <1>1, <1>2, <1>3, <1>4
    <2>2. \A q \in 1..p - 1 : u[q] # "\n"
      <3>1. \A q \in 1..p - 1 : q \in 1..Len(s)
        BY <1>3, <1>4
      <3> QED BY <1>1, <1>2, <3>1
    <2>3. u \in Seq(Tokens) /\ "\n" \in Tokens
      BY <1>1, Marks
    <2> QED BY <2>1, <2>2, <2>3, FirstIs
  <1>6. SubSeq(u, 1, p - 1) = SubSeq(s, 1, p - 1)
    BY <1>1, <1>3, <1>4
  <1>7. FirstLine[u] = LET line == SubSeq(u, 1, First(u, "\n") - 1)
                       IN  Trim[SubSeq(line, 1, First(line, "#") - 1)]
    BY <1>1 DEF FirstLine
  <1>8. FirstLine[s] = LET line == SubSeq(s, 1, First(s, "\n") - 1)
                       IN  Trim[SubSeq(line, 1, First(line, "#") - 1)]
    BY DEF FirstLine
  <1> QED BY <1>5, <1>6, <1>7, <1>8 DEF p, u

\* The first line of a text of one line.
LEMMA FirstLineAlone ==
    ASSUME NEW body \in Seq(Tokens), \A i \in 1..Len(body) : body[i] # "\n"
    PROVE  FirstLine[body \o <<"\n">>] = Bare(body)
  <1> DEFINE l == body \o <<"\n">>
  <1>1. /\ l \in Seq(Tokens) /\ Len(l) = Len(body) + 1
        /\ \A i \in 1..Len(body) : l[i] = body[i]
        /\ l[Len(body) + 1] = "\n"
    BY Marks
  <1> HIDE DEF l
  <1>2. First(l, "\n") = Len(body) + 1
    <2>1. Len(body) \in Nat
      OBVIOUS
    <2> DEFINE p == Len(body) + 1
    <2>2. p \in 1..Len(l) + 1 /\ p - 1 = Len(body)
      BY <1>1, <2>1
    <2>3. \A q \in 1..p - 1 : l[q] # "\n"
      BY <1>1, <2>2
    <2> HIDE DEF p
    <2>4. First(l, "\n") = p
      BY <1>1, <2>2, <2>3, FirstIs, Marks DEF p
    <2> QED BY <2>4 DEF p
  <1>3. SubSeq(l, 1, (Len(body) + 1) - 1) = body
    BY <1>1
  <1>4. FirstLine[l] = LET line == SubSeq(l, 1, First(l, "\n") - 1)
                       IN  Trim[SubSeq(line, 1, First(line, "#") - 1)]
    BY <1>1 DEF FirstLine
  <1> QED BY <1>2, <1>3, <1>4 DEF l, Bare

\* A line, without its end.
OneLine(body) ==
    body \in Seq(Tokens) /\ \A i \in 1..Len(body) : body[i] # "\n"

\* u is t with a whole line more: what the parser sees of the lines before it
\* is what it saw, and the new one is the last.
Adds(t, body, u) ==
    /\ Whole(u) /\ Len(t) \in Nat
    /\ LineStarts(t) \subseteq 1..Len(t)
    /\ LineStarts(u) = LineStarts(t) \cup {Len(t) + 1}
    /\ \A i \in LineStarts(t) : LineFrom(u, i) = LineFrom(t, i)
    /\ LineFrom(u, Len(t) + 1) = Bare(body)

\* That is what a line written after whole lines does.
LEMMA LineMore ==
    ASSUME NEW t, Whole(t), NEW body, OneLine(body),
           NEW u, u = t \o (body \o <<"\n">>)
    PROVE  Adds(t, body, u)
  <1> DEFINE l == body \o <<"\n">>
  <1>1. t \in Seq(Tokens) /\ Len(t) \in Nat /\ DOMAIN t = 1..Len(t)
    BY TextDomain DEF Whole
  <1>2. /\ l \in Seq(Tokens) /\ Len(l) \in Nat \ {0} /\ l[Len(l)] = "\n"
        /\ \A i \in 1..Len(l) - 1 : l[i] # "\n"
    BY Marks DEF OneLine
  <1>3. FirstLine[l] = Bare(body)
    BY FirstLineAlone DEF OneLine
  <1>4. u = t \o l
    OBVIOUS
  <1> HIDE DEF l
  <1>5. /\ u \in Seq(Tokens) /\ Len(u) = Len(t) + Len(l)
        /\ \A i \in 1..Len(t) + Len(l) :
              u[i] = IF i <= Len(t) THEN t[i] ELSE l[i - Len(t)]
    <2>1. t \in Seq(Tokens) /\ l \in Seq(Tokens)
      BY <1>1, <1>2
    <2>2. /\ t \o l \in Seq(Tokens) /\ Len(t \o l) = Len(t) + Len(l)
          /\ \A i \in 1..Len(t) + Len(l) :
                (t \o l)[i] = IF i <= Len(t) THEN t[i] ELSE l[i - Len(t)]
      BY ONLY <2>1, ConcatProperties
    <2> QED BY ONLY <1>4, <2>2
  <1>6. DOMAIN u = 1..Len(t) + Len(l)
    BY <1>5, TextDomain
  <1>7. Whole(u)
    BY <1>1, <1>2, <1>5 DEF Whole
  <1>8. LineStarts(t) \subseteq 1..Len(t)
    BY <1>1 DEF LineStarts
  <1>9. LineStarts(u) = LineStarts(t) \cup {Len(t) + 1}
    <2>1. ASSUME NEW i \in 1..Len(t)
          PROVE  i \in LineStarts(u) <=> i \in LineStarts(t)
      BY <1>1, <1>2, <1>5, <1>6 DEF LineStarts
    <2>2. Len(t) + 1 \in LineStarts(u)
      <3>1. Len(t) # 0 => u[Len(t)] = "\n"
        BY <1>1, <1>2, <1>5, EmptySeq DEF Whole
      <3>2. Len(t) + 1 \in DOMAIN u /\ (Len(t) + 1) - 1 = Len(t)
        BY <1>1, <1>2, <1>6
      <3> QED BY <1>1, <3>1, <3>2 DEF LineStarts
    <2>3. ASSUME NEW i \in Len(t) + 2..Len(t) + Len(l)
          PROVE  i \notin LineStarts(u)
      <3>1. /\ i - 1 \in 1..Len(t) + Len(l) /\ ~ (i - 1 <= Len(t))
            /\ (i - 1) - Len(t) \in 1..Len(l) - 1 /\ i # 1
        BY <1>1, <1>2
      <3>2. u[i - 1] # "\n"
        BY <1>2, <1>5, <3>1
      <3> QED BY <3>1, <3>2 DEF LineStarts
    <2>4. LineStarts(u) \subseteq 1..Len(t) + Len(l)
      BY <1>6 DEF LineStarts
    <2>5. \A i \in 1..Len(t) + Len(l) :
              i \in 1..Len(t) \/ i = Len(t) + 1
                  \/ i \in Len(t) + 2..Len(t) + Len(l)
      BY <1>1, <1>2
    <2>6. \A i \in LineStarts(u) : i \in LineStarts(t) \/ i = Len(t) + 1
      BY <2>1, <2>3, <2>4, <2>5
    <2>7. \A i \in LineStarts(t) : i \in LineStarts(u)
      BY <1>8, <2>1
    <2> QED BY <2>2, <2>6, <2>7
  <1>10. /\ SubSeq(u, Len(t) + 1, Len(u)) = l
         /\ \A i \in 1..Len(t) :
                SubSeq(u, i, Len(u)) = SubSeq(t, i, Len(t)) \o l
    <2>1. t \in Seq(Tokens) /\ l \in Seq(Tokens)
      BY <1>1, <1>2
    <2>2. /\ SubSeq(t \o l, Len(t) + 1, Len(t \o l)) = l
          /\ \A i \in 1..Len(t) :
                 SubSeq(t \o l, i, Len(t \o l)) = SubSeq(t, i, Len(t)) \o l
      BY ONLY <2>1, RestOfConcat
    <2> QED BY ONLY <1>4, <2>2
  <1>11. ASSUME NEW i \in LineStarts(t)
         PROVE  LineFrom(u, i) = LineFrom(t, i)
    <2> DEFINE s == SubSeq(t, i, Len(t))
    <2>1. i \in 1..Len(t) /\ t[Len(t)] = "\n"
      BY <1>1, <1>8, <1>11, EmptySeq DEF Whole
    <2>2. /\ s \in Seq(Tokens) /\ Len(s) = Len(t) - i + 1
          /\ s[Len(s)] = t[Len(t)]
      BY <1>1, <2>1
    <2>3. s # <<>>
      <3>1. Len(s) # 0
        BY <1>1, <2>1, <2>2
      <3> HIDE DEF s
      <3> QED BY <2>2, <3>1, EmptySeq
    <2> HIDE DEF s
    <2>4. FirstLine[s \o l] = FirstLine[s]
      BY <1>2, <2>1, <2>2, <2>3, FirstLineKept
    <2>5. SubSeq(u, i, Len(u)) = s \o l
      BY <1>10, <2>1 DEF s
    <2> QED BY <2>4, <2>5 DEF s, LineFrom
  <1>12. LineFrom(u, Len(t) + 1) = Bare(body)
    BY <1>3, <1>10 DEF LineFrom
  <1> QED BY <1>1, <1>7, <1>8, <1>9, <1>11, <1>12 DEF Adds

\* A blank line, or one with a key.
LineOK(line) == line = <<>> \/ (Positions(line, "=") # {} /\ Key[line] # <<>>)

\* A line that gives a key a value.
Gives(line, key) == Positions(line, "=") # {} /\ Key[line] = <<key>>

\* u is t with a line more to be in order, and the last to have a say.
Reads(t, line, u) ==
    /\ Whole(u)
    /\ WellFormed(u) <=> WellFormed(t) /\ LineOK(line)
    /\ \A key, default : Lookup(u, key, default) =
           IF Gives(line, key) THEN Value[line] ELSE Lookup(t, key, default)

\* That is what the parser makes of a line written after whole lines.
LEMMA ReadsLine ==
    ASSUME NEW t, Whole(t), NEW body, OneLine(body),
           NEW u, u = t \o (body \o <<"\n">>)
    PROVE  Reads(t, Bare(body), u)
  <1> DEFINE k == Len(t)
             new == k + 1
  <1>1. /\ Whole(u) /\ k \in Nat
        /\ LineStarts(t) \subseteq 1..k
        /\ LineStarts(u) = LineStarts(t) \cup {new}
        /\ \A i \in LineStarts(t) : LineFrom(u, i) = LineFrom(t, i)
        /\ LineFrom(u, new) = Bare(body)
    <2>1. Adds(t, body, u)
      BY LineMore
    <2> QED BY <2>1 DEF Adds
  <1> HIDE DEF k
  <1>2. WellFormed(u) <=> WellFormed(t) /\ LineOK(Bare(body))
    <2>1. WellFormed(u) <=> \A i \in LineStarts(u) : LineOK(LineFrom(u, i))
      BY DEF WellFormed, LineOK
    <2>2. WellFormed(t) <=> \A i \in LineStarts(t) : LineOK(LineFrom(t, i))
      BY DEF WellFormed, LineOK
    <2> QED BY <1>1, <2>1, <2>2
  <1>3. ASSUME NEW key, NEW default
        PROVE  Lookup(u, key, default) =
                  IF Gives(Bare(body), key) THEN Value[Bare(body)]
                  ELSE Lookup(t, key, default)
    <2>1. KeyLines(u, key) =
              {i \in LineStarts(u) : Gives(LineFrom(u, i), key)}
      BY DEF KeyLines, Gives
    <2>2. KeyLines(t, key) =
              {i \in LineStarts(t) : Gives(LineFrom(t, i), key)}
      BY DEF KeyLines, Gives
    <2>3. KeyLines(u, key) = KeyLines(t, key) \cup
              (IF Gives(Bare(body), key) THEN {new} ELSE {})
      BY <1>1, <2>1, <2>2
    <2>4. KeyLines(t, key) \subseteq 1..k
      BY <1>1, <2>2
    <2> DEFINE lines == KeyLines(u, key)
    <2>5. Lookup(u, key, default) =
              IF lines = {} THEN default ELSE Value[LineFrom(u, Max(lines))]
      BY DEF Lookup
    <2>6. Lookup(t, key, default) =
              IF KeyLines(t, key) = {} THEN default
              ELSE Value[LineFrom(t, Max(KeyLines(t, key)))]
      BY DEF Lookup
    <2>7. lines \in SUBSET (0..new) /\ new \in Nat
      BY <1>1, <2>3, <2>4
    <2>8. CASE Gives(Bare(body), key)
      <3>1. new \in lines
        BY <2>3, <2>8
      <3> HIDE DEF lines
      <3>2. Max(lines) \in 0..new /\ new <= Max(lines)
        BY <2>7, <3>1, MaxOfNats
      <3>3. Max(lines) = new
        BY <2>7, <3>2
      <3> QED BY <1>1, <2>5, <2>8, <3>1, <3>3
    <2>9. CASE ~Gives(Bare(body), key)
      <3>1. lines = KeyLines(t, key)
        BY <2>3, <2>9
      <3> HIDE DEF lines
      <3>2. CASE lines = {}
        BY <2>5, <2>6, <2>9, <3>1, <3>2
      <3>3. CASE lines # {}
        <4>1. Max(lines) \in lines
          BY <2>7, <3>3, MaxOfNats
        <4>2. Max(lines) \in LineStarts(t)
          BY <2>2, <3>1, <4>1
        <4>3. LineFrom(u, Max(lines)) = LineFrom(t, Max(lines))
          BY <1>1, <4>2
        <4> QED BY <2>5, <2>6, <2>9, <3>1, <3>3, <4>3
      <3> QED BY <3>2, <3>3
    <2> QED BY <2>8, <2>9
  <1> QED BY <1>1, <1>2, <1>3 DEF Reads

-----------------------------------------------------------------------------
(* What is written is read back *)

\* u is t with a setting more: it has the last word on its key, and only on it.
Sets(t, key, value, u) ==
    /\ Whole(u)
    /\ WellFormed(u) <=> WellFormed(t)
    /\ \A k, default : Lookup(u, k, default) =
           IF k = key THEN value ELSE Lookup(t, k, default)

\* The line of a setting whose value the text form can carry.
LEMMA SettingBody ==
    ASSUME NEW key \in Keys, NEW value \in Seq(Tokens), Carried(value),
           NEW body, body = <<key, "=">> \o value
    PROVE  /\ OneLine(body) /\ Bare(body) = body
           /\ Positions(body, "=") # {} /\ Key[body] = <<key>>
           /\ Value[body] = value
  <1>1. /\ key \in Tokens /\ key # "\n" /\ key # "#" /\ key # "="
        /\ key # Blank /\ "=" \in Tokens /\ "=" # "\n" /\ "=" # "#"
        /\ "=" # Blank /\ "#" \in Tokens
    BY Marks
  <1>2. /\ Len(value) \in Nat /\ DOMAIN value = 1..Len(value)
        /\ \A i \in 1..Len(value) : value[i] # "\n" /\ value[i] # "#"
    <2>1. Len(value) \in Nat /\ DOMAIN value = 1..Len(value)
      BY TextDomain
    <2> QED BY <2>1 DEF Carried, Positions
  <1>3. /\ body \in Seq(Tokens) /\ Len(body) = Len(value) + 2
        /\ body[1] = key /\ body[2] = "="
        /\ \A i \in 1..Len(value) : body[i + 2] = value[i]
    <2>1. <<key, "=">> \in Seq(Tokens)
      BY <1>1
    <2>2. /\ body \in Seq(Tokens) /\ Len(body) = Len(<<key, "=">>) + Len(value)
          /\ \A i \in 1..Len(<<key, "=">>) + Len(value) :
                body[i] = IF i <= Len(<<key, "=">>) THEN <<key, "=">>[i]
                          ELSE value[i - Len(<<key, "=">>)]
      BY ONLY <2>1, value \in Seq(Tokens), body = <<key, "=">> \o value,
              ConcatProperties
    <2>3. Len(<<key, "=">>) = 2
      OBVIOUS
    <2> QED BY <1>2, <2>2, <2>3
  <1>4. \A i \in 1..Len(body) : body[i] # "\n" /\ body[i] # "#"
    <2>1. ASSUME NEW i \in 1..Len(body)
          PROVE  body[i] # "\n" /\ body[i] # "#"
      <3>1. i = 1 \/ i = 2 \/ (i - 2 \in 1..Len(value) /\ (i - 2) + 2 = i)
        BY <1>2, <1>3
      <3> QED BY <1>1, <1>2, <1>3, <3>1
    <2> QED BY <2>1
  <1>5. OneLine(body)
    BY <1>3, <1>4 DEF OneLine
  <1>6. Trim[body] = body
    <2>1. body[Len(body)] # Blank
      <3>1. CASE value = <<>>
        <4>1. Len(value) = 0
          BY <3>1, EmptySeq
        <4> QED BY <1>1, <1>3, <4>1
      <3>2. CASE value # <<>>
        <4>1. value[Len(value)] # Blank
          BY <3>2, TrimmedEnds DEF Carried
        <4>2. Len(value) \in 1..Len(value)
          BY <3>2, TextDomain
        <4> QED BY <1>3, <4>1, <4>2
      <3> QED BY <3>1, <3>2
    <2> QED BY <1>1, <1>3, <2>1, TrimIs
  <1>7. Bare(body) = body
    <2> DEFINE p == Len(body) + 1
    <2>1. p \in 1..Len(body) + 1 /\ p - 1 = Len(body) /\ ~ (p <= Len(body))
      BY <1>2, <1>3
    <2> HIDE DEF p
    <2>2. First(body, "#") = p
      <3>1. \A q \in 1..p - 1 : body[q] # "#"
        BY <1>4, <2>1
      <3>2. body \in Seq(Tokens) /\ "#" \in Tokens
        BY <1>1, <1>3
      <3> QED BY <2>1, <3>1, <3>2, FirstIs
    <2>3. SubSeq(body, 1, p - 1) = body
      BY <1>3, <2>1, SubSeqFull
    <2> QED BY <1>6, <2>2, <2>3 DEF Bare
  <1>8. Positions(body, "=") # {}
    <2>1. 2 \in DOMAIN body
      BY <1>2, <1>3
    <2> QED BY <1>3, <2>1 DEF Positions
  <1>9. First(body, "=") = 2
    <2>1. 2 \in 1..Len(body) + 1 /\ \A q \in 1..2 - 1 : body[q] # "="
      BY <1>1, <1>2, <1>3
    <2> QED BY <1>1, <1>3, <2>1, FirstIs
  <1>10. Key[body] = <<key>>
    <2>1. Key[body] = Trim[SubSeq(body, 1, First(body, "=") - 1)]
      BY <1>3 DEF Key
    <2>3. <<key>> \in Seq(Tokens) /\ Len(<<key>>) = 1 /\ <<key>>[1] = key
      BY <1>1
    <2>2. SubSeq(body, 1, 2 - 1) = <<key>>
      <3>1. \A i \in 1..1 : body[i] = key /\ body[i] \in Tokens
        BY <1>1, <1>3
      <3>2. /\ SubSeq(body, 1, 1) \in Seq(Tokens)
            /\ Len(SubSeq(body, 1, 1)) = 1 /\ SubSeq(body, 1, 1)[1] = key
        BY <3>1
      <3> DEFINE x == SubSeq(body, 1, 1)
      <3>3. x \in Seq(Tokens) /\ Len(x) = 1 /\ x[1] = key
        BY <3>2
      <3> HIDE DEF x
      <3>4. x = <<key>>
        BY <3>3
      <3> QED BY <3>4 DEF x
    <2>4. Trim[<<key>>] = <<key>>
      BY <1>1, <2>3, TrimIs
    <2> QED BY <1>9, <2>1, <2>2, <2>4
  <1>11. Value[body] = value
    <2>1. Value[body] = Trim[SubSeq(body, First(body, "=") + 1, Len(body))]
      BY <1>3 DEF Value
    <2>2. SubSeq(body, 2 + 1, Len(body)) = value
      BY <1>2, <1>3
    <2> QED BY <1>9, <2>1, <2>2 DEF Carried
  <1> QED BY <1>5, <1>7, <1>8, <1>10, <1>11

\* A line of a setting more.
LEMMA SettingMore ==
    ASSUME NEW t, Whole(t), NEW key \in Keys, NEW value \in Seq(Tokens),
           Carried(value), NEW u, u = t \o Line(key, value)
    PROVE  Sets(t, key, value, u)
  <1> DEFINE body == <<key, "=">> \o value
  <1>1. /\ OneLine(body) /\ Bare(body) = body
        /\ Positions(body, "=") # {} /\ Key[body] = <<key>>
        /\ Value[body] = value
    BY SettingBody
  <1>2. u = t \o (body \o <<"\n">>)
    BY DEF Line
  <1> HIDE DEF body
  <1>3. Reads(t, Bare(body), u)
    BY <1>1, <1>2, ReadsLine
  <1>4. LineOK(body)
    BY <1>1 DEF LineOK
  <1>5. \A k : Gives(body, k) <=> k = key
    BY <1>1 DEF Gives
  <1> QED BY <1>1, <1>3, <1>4, <1>5 DEF Sets, Reads

\* u is t with a setting more, if it has a value.
MaySet(t, key, value, u) ==
    IF value = <<>> THEN u = t ELSE Sets(t, key, value, u)

\* A setting that is written when it has a value.
LEMMA OptionalMore ==
    ASSUME NEW t, Whole(t), NEW key \in Keys, NEW value \in Seq(Tokens),
           Carried(value), NEW u, u = t \o Optional(key, value)
    PROVE  MaySet(t, key, value, u)
  <1>1. CASE value = <<>>
    <2>1. u = t
      BY <1>1, ConcatEmptySeq DEF Optional, Whole
    <2> QED BY <1>1, <2>1 DEF MaySet
  <1>2. CASE value # <<>>
    <2>1. Sets(t, key, value, u)
      BY <1>2, SettingMore DEF Optional
    <2> QED BY <1>2, <2>1 DEF MaySet
  <1> QED BY <1>1, <1>2

\* u says what t says.
Same(t, u) ==
    /\ Whole(u)
    /\ WellFormed(u) <=> WellFormed(t)
    /\ \A key, default : Lookup(u, key, default) = Lookup(t, key, default)

\* A comment more changes nothing.
LEMMA CommentMore ==
    ASSUME NEW t, Whole(t), NEW u, u = t \o Comment
    PROVE  Same(t, u)
  <1> DEFINE body == <<"#", "DFONE">>
  <1>1. /\ body \in Seq(Tokens) /\ Len(body) = 2 /\ body[1] = "#"
        /\ body[2] = "DFONE"
    <2>1. "#" \in Tokens /\ "DFONE" \in Tokens
      BY Zenon DEF Tokens
    <2> QED BY <2>1
  <1>2. OneLine(body)
    BY <1>1, Marks DEF OneLine
  <1>3. u = t \o (body \o <<"\n">>)
    BY DEF Comment
  <1> HIDE DEF body
  <1>4. Bare(body) = <<>>
    <2>1. First(body, "#") = 1
      BY <1>1, FirstIs, Marks
    <2>2. SubSeq(body, 1, 1 - 1) = <<>>
      BY <1>1
    <2>3. Trim[<<>>] = <<>>
      <3>1. \A v \in Seq(Tokens) : v = <<>> => Trim[v] = v
        BY TrimIs
      <3>2. <<>> \in Seq(Tokens)
        OBVIOUS
      <3> QED BY <3>1, <3>2
    <2> QED BY <2>1, <2>2, <2>3 DEF Bare
  <1>5. Reads(t, Bare(body), u)
    BY <1>2, <1>3, ReadsLine
  <1>6. LineOK(<<>>) /\ \A k : ~Gives(<<>>, k)
    BY DEF LineOK, Gives, Positions
  <1> QED BY <1>4, <1>5, <1>6 DEF Same, Reads

\* A text of no lines says nothing.
LEMMA EmptyText ==
    /\ Whole(<<>>) /\ WellFormed(<<>>)
    /\ \A key, default : Lookup(<<>>, key, default) = default
  <1>1. <<>> \in Seq(Tokens) /\ Len(<<>>) = 0
    OBVIOUS
  <1>2. Whole(<<>>)
    BY <1>1 DEF Whole
  <1>3. LineStarts(<<>>) = {}
    BY DEF LineStarts
  <1>4. WellFormed(<<>>)
    BY <1>3 DEF WellFormed
  <1>5. \A key : KeyLines(<<>>, key) = {}
    BY <1>3 DEF KeyLines
  <1> QED BY <1>2, <1>4, <1>5 DEF Lookup

\* The lines that are always written.
LEMMA HeadText ==
    ASSUME NEW c \in Configs, Carried(c.mac), Carried(<<c.mode>>),
           NEW t, t = Comment \o Comment \o Line("mode", <<c.mode>>)
                          \o Optional("mac", c.mac)
    PROVE  /\ Whole(t) /\ WellFormed(t)
           /\ \A key, default : Lookup(t, key, default) =
                  IF key = "mode" THEN <<c.mode>>
                  ELSE IF key = "mac" /\ c.mac # <<>> THEN c.mac
                  ELSE default
  <1> DEFINE t1 == Comment
             t2 == t1 \o Comment
             t3 == t2 \o Line("mode", <<c.mode>>)
  <1>1. c.mode \in Modes /\ c.mac \in Seq(Tokens)
    BY DEF Configs
  <1>2. <<c.mode>> \in Seq(Tokens) /\ "mode" \in Keys /\ "mac" \in Keys
    BY <1>1, Marks DEF Keys
  <1>3. Comment = <<>> \o Comment
    BY DEF Comment
  <1>4. Same(<<>>, t1)
    BY <1>3, EmptyText, CommentMore
  <1>5. Same(t1, t2)
    <2>1. Whole(t1)
      BY <1>4 DEF Same
    <2> HIDE DEF t1
    <2> QED BY <2>1, CommentMore
  <1> HIDE DEF t1, t2
  <1>6. Sets(t2, "mode", <<c.mode>>, t3)
    BY <1>2, <1>5, SettingMore DEF Same
  <1> HIDE DEF t3
  <1>7. MaySet(t3, "mac", c.mac, t)
    <2>1. t = t3 \o Optional("mac", c.mac)
      BY DEF t1, t2, t3
    <2>2. Whole(t3) /\ c.mac \in Seq(Tokens) /\ "mac" \in Keys
      BY <1>1, <1>2, <1>6 DEF Sets
    <2> QED BY <2>1, <2>2, OptionalMore
  <1>8. /\ Whole(t3) /\ WellFormed(t3)
        /\ \A key, default : Lookup(t3, key, default) =
               IF key = "mode" THEN <<c.mode>> ELSE default
    BY <1>4, <1>5, <1>6, EmptyText DEF Same, Sets
  <1>9. CASE c.mac = <<>>
    BY <1>7, <1>8, <1>9 DEF MaySet
  <1>10. CASE c.mac # <<>>
    <2>1. Sets(t3, "mac", c.mac, t)
      BY <1>7, <1>10 DEF MaySet
    <2>2. ASSUME NEW key, NEW default
          PROVE  Lookup(t, key, default) =
                    IF key = "mode" THEN <<c.mode>>
                    ELSE IF key = "mac" THEN c.mac ELSE default
      <3>1. "mac" # "mode"
        OBVIOUS
      <3>2. Lookup(t, key, default) =
                IF key = "mac" THEN c.mac ELSE Lookup(t3, key, default)
        BY <2>1 DEF Sets
      <3>3. Lookup(t3, key, default) =
                IF key = "mode" THEN <<c.mode>> ELSE default
        BY <1>8
      <3> QED BY <3>1, <3>2, <3>3
    <2> QED BY <1>8, <1>10, <2>1, <2>2 DEF Sets
  <1> QED BY <1>9, <1>10

\* Four texts are appended one by one.
OneByOne(t, a, b, c, d) ==
    t \o (a \o b \o c \o d) = t \o a \o b \o c \o d

LEMMA FourMore ==
    ASSUME NEW t \in Seq(Tokens), NEW a \in Seq(Tokens),
           NEW b \in Seq(Tokens), NEW c \in Seq(Tokens),
           NEW d \in Seq(Tokens)
    PROVE  OneByOne(t, a, b, c, d)
  <1> DEFINE ab == a \o b
             abc == ab \o c
  <1>1. ab \in Seq(Tokens)
    BY ConcatProperties
  <1> HIDE DEF ab
  <1>2. abc \in Seq(Tokens)
    BY <1>1, ConcatProperties
  <1> HIDE DEF abc
  <1>3. t \o (abc \o d) = (t \o abc) \o d
    BY <1>2
  <1>4. t \o (ab \o c) = (t \o ab) \o c
    BY <1>1
  <1>5. t \o (a \o b) = (t \o a) \o b
    OBVIOUS
  <1> QED BY <1>3, <1>4, <1>5 DEF OneByOne, ab, abc

\* u is t with the addresses of a configuration more.
SetsAddresses(t, c, u) ==
    /\ Whole(u) /\ WellFormed(u)
    /\ \A key, default : Lookup(u, key, default) =
           IF key = "address" THEN c.address
           ELSE IF key = "netmask" THEN c.netmask
           ELSE IF key = "gateway" /\ c.gateway # <<>> THEN c.gateway
           ELSE IF key = "dns" /\ c.dns # <<>> THEN c.dns
           ELSE Lookup(t, key, default)

\* Those are the lines of a static configuration.
LEMMA AddressText ==
    ASSUME NEW c \in Configs, Carried(c.address), Carried(c.netmask),
           Carried(c.gateway), Carried(c.dns),
           NEW t, Whole(t), WellFormed(t), NEW u,
           u = t \o (Line("address", c.address) \o Line("netmask", c.netmask)
                       \o Optional("gateway", c.gateway)
                       \o Optional("dns", c.dns))
    PROVE  SetsAddresses(t, c, u)
  <1> DEFINE address == Line("address", c.address)
             netmask == Line("netmask", c.netmask)
             gateway == Optional("gateway", c.gateway)
             dns == Optional("dns", c.dns)
             t1 == t \o address
             t2 == t1 \o netmask
             t3 == t2 \o gateway
             t4 == t3 \o dns
  <1>1. /\ c.address \in Seq(Tokens) /\ c.netmask \in Seq(Tokens)
        /\ c.gateway \in Seq(Tokens) /\ c.dns \in Seq(Tokens)
    BY DEF Configs
  <1>2. /\ "address" \in Keys /\ "netmask" \in Keys /\ "gateway" \in Keys
        /\ "dns" \in Keys
    BY DEF Keys
  <1>3. Sets(t, "address", c.address, t1) /\ Whole(t1)
    <2>1. Sets(t, "address", c.address, t1)
      BY <1>1, <1>2, SettingMore
    <2> QED BY <2>1 DEF Sets
  <1>4. Sets(t1, "netmask", c.netmask, t2) /\ Whole(t2)
    <2>1. t2 = t1 \o Line("netmask", c.netmask)
      OBVIOUS
    <2> HIDE DEF t1, t2
    <2>2. Sets(t1, "netmask", c.netmask, t2)
      BY <1>1, <1>2, <1>3, <2>1, SettingMore
    <2> QED BY <2>2 DEF Sets
  <1>5. MaySet(t2, "gateway", c.gateway, t3) /\ Whole(t3)
    <2>1. t3 = t2 \o Optional("gateway", c.gateway)
      OBVIOUS
    <2> HIDE DEF t2, t3
    <2>2. MaySet(t2, "gateway", c.gateway, t3)
      BY <1>1, <1>2, <1>4, <2>1, OptionalMore
    <2> QED BY <1>4, <2>2 DEF Sets, MaySet
  <1>7. MaySet(t3, "dns", c.dns, t4)
    <2>1. t4 = t3 \o Optional("dns", c.dns)
      OBVIOUS
    <2> HIDE DEF t3, t4
    <2> QED BY <1>1, <1>2, <1>5, <2>1, OptionalMore
  <1>8. u = t4
    <2>1. ASSUME NEW key \in Keys, NEW value \in Seq(Tokens)
          PROVE  Line(key, value) \in Seq(Tokens)
      BY Marks DEF Line
    <2>2. <<>> \in Seq(Tokens)
      OBVIOUS
    <2>3. /\ address \in Seq(Tokens) /\ netmask \in Seq(Tokens)
          /\ gateway \in Seq(Tokens) /\ dns \in Seq(Tokens)
      BY <1>1, <1>2, <2>1, <2>2 DEF Optional
    <2>4. t \in Seq(Tokens)
      BY DEF Whole
    <2>5. u = t \o (((address \o netmask) \o gateway) \o dns)
      OBVIOUS
    <2> HIDE DEF address, netmask, gateway, dns
    <2>6. OneByOne(t, address, netmask, gateway, dns)
      BY <2>3, <2>4, FourMore
    <2> QED BY <2>5, <2>6 DEF OneByOne
  <1> HIDE DEF t1, t2, t3, t4
  <1>9. /\ Whole(t2) /\ WellFormed(t2)
        /\ \A key, default : Lookup(t2, key, default) =
               IF key = "netmask" THEN c.netmask
               ELSE IF key = "address" THEN c.address
               ELSE Lookup(t, key, default)
    BY <1>3, <1>4 DEF Sets
  <1>10. /\ Whole(t3) /\ WellFormed(t3)
         /\ \A key, default : Lookup(t3, key, default) =
                IF key = "gateway" /\ c.gateway # <<>> THEN c.gateway
                ELSE Lookup(t2, key, default)
    BY <1>5, <1>9 DEF Sets, MaySet
  <1>11. /\ Whole(t4) /\ WellFormed(t4)
         /\ \A key, default : Lookup(t4, key, default) =
                IF key = "dns" /\ c.dns # <<>> THEN c.dns
                ELSE Lookup(t3, key, default)
    BY <1>7, <1>10 DEF Sets, MaySet
  <1>12. ASSUME NEW key, NEW default
         PROVE  Lookup(t4, key, default) =
                  IF key = "address" THEN c.address
                  ELSE IF key = "netmask" THEN c.netmask
                  ELSE IF key = "gateway" /\ c.gateway # <<>> THEN c.gateway
                  ELSE IF key = "dns" /\ c.dns # <<>> THEN c.dns
                  ELSE Lookup(t, key, default)
    <2>1. Lookup(t2, key, default) =
              IF key = "netmask" THEN c.netmask
              ELSE IF key = "address" THEN c.address
              ELSE Lookup(t, key, default)
      BY <1>9
    <2>2. Lookup(t3, key, default) =
              IF key = "gateway" /\ c.gateway # <<>> THEN c.gateway
              ELSE Lookup(t2, key, default)
      BY <1>10
    <2>3. Lookup(t4, key, default) =
              IF key = "dns" /\ c.dns # <<>> THEN c.dns
              ELSE Lookup(t3, key, default)
      BY <1>11
    <2>4. /\ "address" # "netmask" /\ "address" # "gateway"
          /\ "address" # "dns" /\ "netmask" # "gateway"
          /\ "netmask" # "dns" /\ "gateway" # "dns"
      OBVIOUS
    <2> QED BY <2>1, <2>2, <2>3, <2>4
  <1> QED BY <1>8, <1>11, <1>12 DEF SetsAddresses

\* A mode can be carried.
LEMMA ModeCarried ==
    ASSUME NEW mode \in Modes
    PROVE  Carried(<<mode>>) /\ <<mode>> \in Seq(Tokens)
  <1>1. /\ mode \in Tokens /\ mode # "\n" /\ mode # "#" /\ mode # Blank
    BY Marks
  <1>2. /\ <<mode>> \in Seq(Tokens) /\ Len(<<mode>>) = 1 /\ <<mode>>[1] = mode
        /\ DOMAIN <<mode>> = 1..1
    BY <1>1
  <1>3. Trim[<<mode>>] = <<mode>>
    BY <1>1, <1>2, TrimIs
  <1>4. Positions(<<mode>>, "\n") = {} /\ Positions(<<mode>>, "#") = {}
    BY <1>1, <1>2 DEF Positions
  <1> QED BY <1>2, <1>3, <1>4 DEF Carried

\* get_network_config's parser reads back what set_network_config writes of
\* every configuration whose values the text form can carry, the parts of it
\* that its mode uses; and it refuses exactly the static configurations
\* without an address or a netmask.
THEOREM ConfigReadsBack ==
    ASSUME NEW c \in Configs, Clean(c)
    PROVE  /\ Serialize(c) # <<>>
           /\ Parsed(Serialize(c)) = Normal(c)
           /\ Parses(Serialize(c)) <=> Usable(c)
  <1> DEFINE text == Serialize(c)
             t == Comment \o Comment \o Line("mode", <<c.mode>>)
                          \o Optional("mac", c.mac)
             rest == Line("address", c.address) \o Line("netmask", c.netmask)
                       \o Optional("gateway", c.gateway)
                       \o Optional("dns", c.dns)
  <1>1. /\ Carried(c.mac) /\ Carried(c.address) /\ Carried(c.netmask)
        /\ Carried(c.gateway) /\ Carried(c.dns)
    BY DEF Clean
  <1>2. c.mode \in Modes /\ Carried(<<c.mode>>)
    BY ModeCarried DEF Configs
  <1>3. /\ Whole(t) /\ WellFormed(t)
        /\ \A key, default : Lookup(t, key, default) =
               IF key = "mode" THEN <<c.mode>>
               ELSE IF key = "mac" /\ c.mac # <<>> THEN c.mac
               ELSE default
    BY <1>1, <1>2, HeadText
  <1>4. text = t \o (IF c.mode # "static" THEN <<>> ELSE rest)
    BY DEF Serialize
  <1> HIDE DEF text, t, rest
  <1>5. c = [mode |-> c.mode, mac |-> c.mac, address |-> c.address,
             netmask |-> c.netmask, gateway |-> c.gateway, dns |-> c.dns]
    BY DEF Configs
  <1>6. \A key, default : Lookup(t, key, default) =
            IF key = "mode" THEN <<c.mode>>
            ELSE IF key = "mac" /\ c.mac # <<>> THEN c.mac
            ELSE default
    BY <1>3
  <1>7. c.mode \notin {"manual", "disabled"} /\ <<c.mode>>[1] = c.mode
    BY <1>2 DEF Modes
  <1>8. t # <<>>
    <2>1. Lookup(t, "mode", <<>>) # Lookup(<<>>, "mode", <<>>)
      BY <1>6, EmptyText
    <2> QED BY <2>1
  <1>9. CASE c.mode # "static"
    <2>1. text = t
      BY <1>3, <1>4, <1>9, ConcatEmptySeq DEF Whole
    <2>2. /\ Lookup(text, "mode", <<"static">>) = <<c.mode>>
          /\ Lookup(text, "mac", Default.mac) = c.mac
          /\ \A default : /\ Lookup(text, "ip", default) = default
                          /\ Lookup(text, "address", default) = default
                          /\ Lookup(text, "netmask", default) = default
                          /\ Lookup(text, "gateway", default) = default
                          /\ Lookup(text, "dns", default) = default
      BY <1>6, <2>1 DEF Default
    <2>3. ModeOf(text) = <<c.mode>>
      BY <1>7, <2>2 DEF ModeOf
    <2>4. Parsed(text) = Normal(c)
      <3> DEFINE d == [Default EXCEPT !.mode = c.mode]
      <3>1. Normal(c) = [d EXCEPT !.mac = c.mac]
        BY <1>9 DEF Normal
      <3>2. d = [mode |-> c.mode, mac |-> Default.mac,
                 address |-> Default.address, netmask |-> Default.netmask,
                 gateway |-> Default.gateway, dns |-> Default.dns]
        BY DEF Default
      <3> HIDE DEF d
      <3>3. Normal(c) = [mode |-> c.mode, mac |-> c.mac,
                 address |-> Default.address, netmask |-> Default.netmask,
                 gateway |-> Default.gateway, dns |-> Default.dns]
        BY <3>1, <3>2
      <3> QED BY <1>7, <2>2, <2>3, <3>3 DEF Parsed
    <2>5. Parsed(text).mode = c.mode
      BY <1>7, <2>3 DEF Parsed
    <2>6. Parses(text) /\ Usable(c)
      BY <1>2, <1>3, <1>9, <2>1, <2>3, <2>5 DEF Parses, Usable
    <2> QED BY <1>8, <2>1, <2>4, <2>6 DEF text
  <1>10. CASE c.mode = "static"
    <2>1. text = t \o rest
      BY <1>4, <1>10
    <2>2. /\ Whole(text) /\ WellFormed(text)
          /\ \A key, default : Lookup(text, key, default) =
                 IF key = "address" THEN c.address
                 ELSE IF key = "netmask" THEN c.netmask
                 ELSE IF key = "gateway" /\ c.gateway # <<>> THEN c.gateway
                 ELSE IF key = "dns" /\ c.dns # <<>> THEN c.dns
                 ELSE Lookup(t, key, default)
      <3>1. SetsAddresses(t, c, text)
        BY <1>1, <1>3, <2>1, AddressText DEF rest
      <3> QED BY <3>1 DEF SetsAddresses
    <2>3. /\ Lookup(text, "mode", <<"static">>) = <<c.mode>>
          /\ Lookup(text, "mac", Default.mac) = c.mac
          /\ \A default : /\ Lookup(text, "ip", default) = default
                          /\ Lookup(text, "address", default) = c.address
                          /\ Lookup(text, "netmask", default) = c.netmask
          /\ Lookup(text, "gateway", Default.gateway) = c.gateway
          /\ Lookup(text, "dns", Default.dns) = c.dns
      BY <1>6, <2>2 DEF Default
    <2>4. ModeOf(text) = <<c.mode>>
      BY <1>7, <2>3 DEF ModeOf
    <2>5. Parsed(text) = c
      BY <1>5, <1>7, <2>3, <2>4 DEF Parsed
    <2>6. Parses(text) <=> Usable(c)
      BY <1>2, <2>2, <2>4, <2>5 DEF Parses
    <2>7. text # <<>>
      <3>1. Lookup(text, "mode", <<>>) # Lookup(<<>>, "mode", <<>>)
        BY <1>6, <2>2, EmptyText
      <3> QED BY <3>1
    <2> QED BY <1>10, <2>5, <2>6, <2>7 DEF text, Normal
  <1> QED BY <1>9, <1>10

=============================================================================
