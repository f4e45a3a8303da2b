----------------------------- MODULE ShellProofs -----------------------------
(***************************************************************************)
(* What holds of Shell in every run, whatever commands say, however big    *)
(* the pipe is and a read() of it, and however reads cut the text.         *)
(*                                                                         *)
(* OutputIsKept says what the caller has when a call is over.  IInv adds   *)
(* where the output is before: in the pipe while the command runs, in the  *)
(* text read so far and the pipe while the caller reads (UnderWay).  That  *)
(* the text becomes the right lines is LinesAreText.                       *)
(***************************************************************************)
EXTENDS Shell, WellFoundedInduction, TLAPS

-----------------------------------------------------------------------------
\* Induction over the numbers, for a set instead of an operator.
LEMMA SetInduction ==
  ASSUME NEW S, 0 \in S, \A n \in Nat : n \in S => n + 1 \in S
  PROVE  Nat \subseteq S
<1> DEFINE T == Nat \ S
           R == OpToRel(<, Nat)
<1>1. SUFFICES ASSUME T # {} PROVE FALSE
  OBVIOUS
<1>2. IsWellFoundedOn(R, Nat)
  BY NatLessThanWellFounded
<1>3. T \subseteq Nat
  OBVIOUS
<1>4. PICK x \in T : \A y \in T : ~ (<<y, x>> \in R)
  <2> HIDE DEF T, R
  <2> QED BY <1>1, <1>2, <1>3, WFMin
<1>5. x \in Nat /\ x \notin S
  OBVIOUS
<1>6. \A y \in Nat : y < x => y \in S
  BY <1>4 DEF OpToRel
<1> HIDE DEF T, R
<1>7. x # 0 
  BY <1>5
<1>8. x - 1 \in Nat /\ x - 1 < x /\ x - 1 + 1 = x
  BY <1>5, <1>7, SMT
<1> QED 
  BY <1>5, <1>6, <1>8

Iterates(S, a, n, G) ==
    \E f \in [0..n -> S] : f[0] = a /\ \A i \in 1..n : f[i] = G[i, f[i-1]]
\* A function by recursion up to n: it starts at a, and G makes each value of
\* the one before.
LEMMA Recursion ==
  ASSUME NEW S, NEW a \in S, NEW n \in Nat, NEW G \in [(1..n) \X S -> S]
  PROVE  Iterates(S, a, n, G)
<1> DEFINE E(k) == \E f \in [0..k -> S] : f[0] = a /\ \A i \in 1..k : f[i] = G[i, f[i-1]]
           P == {k \in Nat : k <= n => E(k)}
<1>1. E(0)
  <2> DEFINE f == [i \in 0..0 |-> a]
  <2>1. f \in [0..0 -> S]
    OBVIOUS
  <2>2. f[0] = a
    OBVIOUS
  <2>3. \A i \in 1..0 : f[i] = G[i, f[i-1]]
    <3>1. 1..0 = {} BY SMT
    <3> QED BY <3>1
  <2> HIDE DEF f
  <2> QED BY <2>1, <2>2, <2>3
<1>2. ASSUME NEW k \in Nat, k <= n => E(k) PROVE k + 1 <= n => E(k + 1)
  <2>1. SUFFICES ASSUME k + 1 <= n PROVE E(k + 1)
    OBVIOUS
  <2>2. k <= n
    BY <2>1
  <2>3. PICK f \in [0..k -> S] : f[0] = a /\ \A i \in 1..k : f[i] = G[i, f[i-1]]
    BY <2>2, <1>2
  <2>4. f[k] \in S /\ k + 1 \in 1..n 
    BY <2>1
  <2> DEFINE g == G[k + 1, f[k]]
  <2>5. g \in S
    BY <2>4
  <2>g. g = G[k + 1, f[k]]
    OBVIOUS
  <2> HIDE DEF g
  <2> DEFINE h == [i \in 0..(k+1) |-> IF i = k + 1 THEN g ELSE f[i]]
  <2>6. h \in [0..(k+1) -> S]
    BY <2>5
  <2>7. h[0] = a
    <3>1. 0 \in 0..(k+1) /\ 0 # k + 1
      OBVIOUS
    <3> QED BY <3>1, <2>3
  <2>8. ASSUME NEW i \in 1..(k+1) PROVE h[i] = G[i, h[i-1]]
    <3>1. i - 1 \in 0..k /\ i \in 0..(k+1) /\ i - 1 \in 0..(k+1) /\ i - 1 # k + 1
      OBVIOUS
    <3>2. h[i-1] = f[i-1]
      BY <3>1
    <3>3. CASE i = k + 1
      <4>1. h[i] = g
        BY <3>3, <3>1, Zenon
      <4>2. i - 1 = k
        BY <3>3
      <4> QED BY <4>1, <4>2, <3>2, <3>3, <2>g
    <3>4. CASE i # k + 1
      <4>1. h[i] = f[i] /\ i \in 1..k
        BY <3>4
      <4> QED BY <4>1, <3>2, <2>3
    <3> QED BY <3>3, <3>4
  <2> HIDE DEF h
  <2> QED BY <2>6, <2>7, <2>8
<1>3. Nat \subseteq P
  <2> HIDE DEF E
  <2>1. 0 \in P BY <1>1
  <2>2. \A k \in Nat : k \in P => k + 1 \in P BY <1>2
  <2> HIDE DEF P
  <2> QED BY <2>1, <2>2, SetInduction
<1>4. E(n)
  <2> HIDE DEF E
  <2> QED BY <1>3
<1> QED BY <1>4 DEF Iterates

\* The least element of a set of numbers is one of them.
LEMMA LeastIsThere ==
  ASSUME NEW S \in SUBSET Nat, S # {}
  PROVE  Min(S) \in S /\ \A m \in S : Min(S) <= m
<1> DEFINE R == OpToRel(<, Nat)
<1>1. IsWellFoundedOn(R, Nat)
  BY NatLessThanWellFounded
<1>2. PICK x \in S : \A y \in S : ~ (<<y, x>> \in R)
  <2> HIDE DEF R
  <2> QED BY <1>1, WFMin
<1>3. ASSUME NEW y \in S PROVE x <= y
  <2>1. x \in Nat /\ y \in Nat
    BY <1>2
  <2>2. <<y, x>> \notin R
    BY <1>2
  <2>3. ~(y < x)
    BY <2>1, <2>2, Zenon DEF OpToRel
  <2> HIDE DEF R
  <2> QED BY <2>1, <2>3, SMT
<1> QED
  BY <1>2, <1>3 DEF Min


Flattens(f, S, seqs) ==
    /\ f \in [0 .. Len(seqs) -> Seq(S)] /\ f[0] = <<>>
    /\ \A i \in 1 .. Len(seqs) : f[i] = f[i - 1] \o seqs[i]
    /\ FlattenSeq(seqs) = f[Len(seqs)]
\* FlattenSeq puts one sequence after the other.
LEMMA FlattenIs ==
  ASSUME NEW S, NEW seqs \in Seq(Seq(S))
  PROVE  \E f : Flattens(f, S, seqs)
<1> DEFINE n == Len(seqs)
           G == [x \in (1 .. n) \X Seq(S) |-> x[2] \o seqs[x[1]]]
           Is(b) == b = [i \in 1 .. n |-> IF i = 1 THEN seqs[i] ELSE b[i - 1] \o seqs[i]]
           a == CHOOSE b : Is(b)
<1>1. n \in Nat /\ \A i \in 1 .. n : seqs[i] \in Seq(S)
  OBVIOUS
<1>2. <<>> \in Seq(S)
  OBVIOUS
<1>3. G \in [(1 .. n) \X Seq(S) -> Seq(S)]
  <2> HIDE DEF n
  <2>1. ASSUME NEW i \in 1 .. n, NEW x \in Seq(S) PROVE x \o seqs[i] \in Seq(S)
    BY <1>1
  <2> QED BY <2>1
<1>4. \A i \in 1 .. n, x \in Seq(S) : G[i, x] = x \o seqs[i]
  OBVIOUS
<1>5. PICK f \in [0 .. n -> Seq(S)] : f[0] = <<>> /\ \A i \in 1 .. n : f[i] = G[i, f[i - 1]]
  <2>1. Iterates(Seq(S), <<>>, n, G)
    <3> HIDE DEF n, G
    <3> QED BY <1>1, <1>2, <1>3, Recursion
  <2> QED BY <2>1 DEF Iterates
<1>6. \A i \in 1 .. n : i - 1 \in 0 .. n /\ f[i - 1] \in Seq(S)
  <2> HIDE DEF n
  <2>1. \A i \in 1 .. n : i - 1 \in 0 .. n
    BY <1>1
  <2> QED BY <2>1, <1>5
<1>7. \A i \in 1 .. n : f[i] = f[i - 1] \o seqs[i]
  <2> HIDE DEF G
  <2> QED BY <1>4, <1>5, <1>6
<1>8. CASE n = 0
  <2>1. FlattenSeq(seqs) = <<>>
    BY <1>8 DEF FlattenSeq
  <2> HIDE DEF n
  <2>2. FlattenSeq(seqs) = f[n]
    BY <2>1, <1>5, <1>8
  <2> QED BY <1>5, <1>7, <2>2 DEF Flattens, n
<1>9. CASE n # 0
  <2> DEFINE g == [i \in 1 .. n |-> f[i]]
  <2>1. \A i \in 1 .. n : g[i] = IF i = 1 THEN seqs[i] ELSE g[i - 1] \o seqs[i]
    <3> SUFFICES ASSUME NEW i \in 1 .. n PROVE g[i] = IF i = 1 THEN seqs[i] ELSE g[i - 1] \o seqs[i]
      OBVIOUS
    <3>1. g[i] = f[i - 1] \o seqs[i]
      BY <1>7
    <3>2. CASE i = 1
      <4>1. f[i - 1] = <<>>
        <5>1. i - 1 = 0
          BY <3>2
        <5> QED BY <5>1, <1>5
      <4>2. <<>> \o seqs[i] = seqs[i]
        BY <1>1
      <4> QED BY <3>1, <3>2, <4>1, <4>2
    <3>3. CASE i # 1
      <4>1. i - 1 \in 1 .. n
        BY <3>3, <1>1
      <4>2. g[i - 1] = f[i - 1]
        BY <4>1
      <4> QED BY <3>1, <3>3, <4>2
    <3> QED BY <3>2, <3>3
  <2>2. Is(g)
    <3> DEFINE h == [i \in 1 .. n |-> IF i = 1 THEN seqs[i] ELSE g[i - 1] \o seqs[i]]
    <3> HIDE DEF n
    <3>1. g = [i \in 1 .. n |-> g[i]] /\ h = [i \in 1 .. n |-> h[i]]
      OBVIOUS
    <3>2. \A i \in 1 .. n : h[i] = IF i = 1 THEN seqs[i] ELSE g[i - 1] \o seqs[i]
      OBVIOUS
    <3>3. \A i \in 1 .. n : g[i] = h[i]
      <4> HIDE DEF g, h
      <4> QED BY <2>1, <3>2
    <3>4. g = h
      <4> HIDE DEF g, h
      <4> QED BY <3>1, <3>3, Zenon
    <3> QED BY <3>4
  <2>3. Is(a)
    <3> HIDE DEF Is
    <3> QED BY <2>2
  <2>4. FlattenSeq(seqs) = a[n]
    BY <1>9 DEF FlattenSeq
  <2>5. \A i \in 1 .. n : a[i] = IF i = 1 THEN seqs[i] ELSE a[i - 1] \o seqs[i]
    <3> HIDE DEF a, n
    <3> QED BY <2>3
  <2>6. a[n] = f[n]
    <3> DEFINE P == {i \in Nat : 1 <= i /\ i <= n => a[i] = f[i]}
    <3> HIDE DEF a, n, g
    <3>1. 0 \in P
      OBVIOUS
    <3>2. ASSUME NEW i \in Nat, i \in P PROVE i + 1 \in P
      <4>1. SUFFICES ASSUME i + 1 <= n PROVE a[i + 1] = f[i + 1]
        OBVIOUS
      <4>2. i + 1 \in 1 .. n /\ (i + 1) - 1 = i
        BY <1>1, <4>1
      <4>3. f[i + 1] = f[i] \o seqs[i + 1]
        BY <1>7, <4>2
      <4>4. CASE i = 0
        <5>1. a[i + 1] = seqs[i + 1]
          BY <2>5, <4>2, <4>4
        <5>2. <<>> \o seqs[i + 1] = seqs[i + 1]
          BY <1>1, <4>2
        <5> QED BY <4>3, <4>4, <5>1, <5>2, <1>5
      <4>5. CASE i # 0
        <5>1. a[i] = f[i]
          BY <3>2, <4>1, <4>5, <1>1
        <5>2. a[i + 1] = a[i] \o seqs[i + 1]
          <6>1. i + 1 # 1
            BY <4>5
          <6> QED BY <2>5, <4>2, <6>1
        <5> QED BY <5>1, <5>2, <4>3
      <4> QED BY <4>4, <4>5
    <3>3. Nat \subseteq P
      <4> HIDE DEF P
      <4> QED BY <3>1, <3>2, SetInduction
    <3> QED BY <1>1, <1>9, <3>3
  <2> HIDE DEF n, a
  <2> QED BY <1>5, <1>7, <2>4, <2>6 DEF Flattens, n
<1> QED
  BY <1>8, <1>9

\* One more sequence comes behind the others.
LEMMA FlattenAppend ==
  ASSUME NEW S, NEW seqs \in Seq(Seq(S)), NEW s \in Seq(S)
  PROVE  /\ FlattenSeq(seqs) \in Seq(S)
         /\ FlattenSeq(Append(seqs, s)) = FlattenSeq(seqs) \o s
<1> DEFINE tt == Append(seqs, s)
           n == Len(seqs)
<1>1. tt \in Seq(Seq(S)) /\ Len(tt) = n + 1 /\ n \in Nat /\ tt[n + 1] = s
  OBVIOUS
<1>2. \A i \in 1 .. n : tt[i] = seqs[i]
  OBVIOUS
<1>3. PICK f : Flattens(f, S, seqs)
  BY FlattenIs
<1>4. PICK g : Flattens(g, S, tt)
  <2> HIDE DEF tt
  <2> QED BY <1>1, FlattenIs
<1> HIDE DEF tt
<1>5. g[n] = f[n]
  <2> DEFINE P == {i \in Nat : i <= n => g[i] = f[i]}
  <2>1. 0 \in P
    BY <1>3, <1>4 DEF Flattens
  <2>2. ASSUME NEW i \in Nat, i \in P PROVE i + 1 \in P
    <3>1. SUFFICES ASSUME i + 1 <= n PROVE g[i + 1] = f[i + 1]
      OBVIOUS
    <3> HIDE DEF n
    <3>2. g[i] = f[i] /\ i + 1 \in 1 .. n /\ i + 1 \in 1 .. Len(tt) /\ (i + 1) - 1 = i
      BY <1>1, <2>2, <3>1
    <3>3. f[i + 1] = f[i] \o seqs[i + 1]
      BY <1>3, <3>2 DEF Flattens, n
    <3>4. g[i + 1] = g[i] \o tt[i + 1]
      BY <1>4, <3>2 DEF Flattens
    <3> QED BY <1>2, <3>2, <3>3, <3>4
  <2>3. Nat \subseteq P
    <3> HIDE DEF P
    <3> QED BY <2>1, <2>2, SetInduction
  <2> QED BY <1>1, <2>3
<1>6. g[n + 1] = g[n] \o s
  <2>1. n + 1 \in 1 .. Len(tt) /\ (n + 1) - 1 = n
    BY <1>1
  <2> HIDE DEF n
  <2> QED BY <1>1, <1>4, <2>1 DEF Flattens
<1>7. FlattenSeq(tt) = g[n + 1]
  BY <1>1, <1>4 DEF Flattens
<1>8. FlattenSeq(seqs) = f[n]
  BY <1>3 DEF Flattens
<1>9. f[n] \in Seq(S)
  <2>1. f \in [0 .. n -> Seq(S)]
    BY <1>3 DEF Flattens
  <2>2. n \in 0 .. n
    BY <1>1
  <2> HIDE DEF n
  <2> QED BY <2>1, <2>2
<1> QED
  BY <1>5, <1>6, <1>7, <1>8, <1>9 DEF tt

\* A line more is its text and a line end more.
LEMMA AllEndedAppend ==
  ASSUME NEW S, NL \in S, NEW lines \in Seq(Seq(S)), NEW l \in Seq(S)
  PROVE  /\ AllEnded(<<>>) = <<>>
         /\ AllEnded(lines) \in Seq(S)
         /\ AllEnded(Append(lines, l)) = AllEnded(lines) \o Append(l, NL)
<1> DEFINE Ends(ls) == [i \in DOMAIN ls |-> Append(ls[i], NL)]
           n == Len(lines)
<1>1. Ends(lines) \in Seq(Seq(S))
  <2>1. ASSUME NEW i \in DOMAIN lines PROVE Append(lines[i], NL) \in Seq(S)
    BY <2>1
  <2>2. DOMAIN lines = 1 .. n /\ n \in Nat
    OBVIOUS
  <2>3. Ends(lines) \in [1 .. n -> Seq(S)]
    BY <2>1, <2>2, Zenon
  <2> HIDE DEF n
  <2>4. [1 .. n -> Seq(S)] \subseteq Seq(Seq(S))
    BY <2>2
  <2> QED BY <2>3, <2>4
<1>2. Ends(Append(lines, l)) = Append(Ends(lines), Append(l, NL))
  <2> DEFINE ll == Append(lines, l)
             a == Ends(ll)
             b == Append(Ends(lines), Append(l, NL))
             e == Append(l, NL)
  <2>1. ll \in Seq(Seq(S)) /\ Len(ll) = n + 1 /\ n \in Nat /\ DOMAIN ll = 1 .. n + 1 /\ ll[n + 1] = l
        /\ \A i \in 1 .. n : ll[i] = lines[i]
    OBVIOUS
  <2>2. e \in Seq(S)
    OBVIOUS
  <2>3. Ends(lines) \in Seq(Seq(S)) /\ Len(Ends(lines)) = n /\ \A i \in 1 .. n : Ends(lines)[i] = Append(lines[i], NL)
    <3>1. DOMAIN Ends(lines) = 1 .. n /\ \A i \in 1 .. n : Ends(lines)[i] = Append(lines[i], NL)
      OBVIOUS
    <3>2. Len(Ends(lines)) = n
      <4> HIDE DEF Ends, n
      <4> QED BY <1>1, <3>1, <2>1
    <3> QED BY <1>1, <3>1, <3>2, Zenon
  <2>4. DOMAIN a = 1 .. n + 1 /\ \A i \in 1 .. n + 1 : a[i] = Append(ll[i], NL)
    <3> HIDE DEF ll
    <3> QED BY <2>1
  <2>5. b \in Seq(Seq(S)) /\ Len(b) = n + 1 /\ b[n + 1] = e /\ \A i \in 1 .. n : b[i] = Append(lines[i], NL)
    <3> HIDE DEF Ends, e, n
    <3> QED BY <2>1, <2>2, <2>3 DEF e
  <2>6. DOMAIN b = 1 .. n + 1
    <3> HIDE DEF b
    <3> QED BY <2>5
  <2>7. \A i \in 1 .. n + 1 : a[i] = b[i]
    <3> HIDE DEF a, b, ll, n
    <3>1. SUFFICES ASSUME NEW i \in 1 .. n + 1 PROVE a[i] = b[i]
      OBVIOUS
    <3>2. CASE i = n + 1
      BY <2>1, <2>4, <2>5, <3>2
    <3>3. CASE i # n + 1
      <4>1. i \in 1 .. n
        BY <3>3, <2>1
      <4> QED BY <2>1, <2>4, <2>5, <4>1
    <3> QED BY <3>2, <3>3
  <2>8. a = [i \in 1 .. n + 1 |-> a[i]] /\ b = [i \in 1 .. n + 1 |-> b[i]]
    <3>1. a = [i \in DOMAIN a |-> a[i]]
      OBVIOUS
    <3>2. b = [i \in DOMAIN b |-> b[i]]
      <4> HIDE DEF b
      <4> QED BY <2>5
    <3> HIDE DEF a, b
    <3> QED BY <2>4, <2>6, <3>1, <3>2
  <2>9. a = b
    <3> HIDE DEF a, b, n
    <3> QED BY <2>7, <2>8, Zenon
  <2> QED BY <2>9
<1>3. Append(l, NL) \in Seq(S)
  OBVIOUS
<1>4. AllEnded(lines) = FlattenSeq(Ends(lines)) /\ AllEnded(Append(lines, l)) = FlattenSeq(Ends(Append(lines, l)))
  BY DEF AllEnded
<1>5. AllEnded(<<>>) = <<>>
  <2>1. [i \in DOMAIN <<>> |-> Append(<<>>[i], NL)] = <<>>
    OBVIOUS
  <2> QED BY <2>1 DEF AllEnded, FlattenSeq
<1> HIDE DEF Ends
<1> QED
  BY <1>1, <1>2, <1>3, <1>4, <1>5, FlattenAppend

Part(S) == [done : Seq(Seq(S)), rest : Seq(S)]
Cuts(a, S, text) ==
    /\ a[0] = [done |-> <<>>, rest |-> <<>>]
    /\ \A i \in 1 .. Len(text) : a[i] = AddChar(a[i - 1], text[i])
    /\ \A i \in 0 .. Len(text) : a[i] \in Part(S)
    /\ Cut(text) = a[Len(text)]
\* A character more leaves what std::getline has read so far lines and a rest.
LEMMA AddCharTyped ==
  ASSUME NEW S, NEW p \in Part(S), NEW c \in S
  PROVE  /\ AddChar(p, c) \in Part(S)
         /\ c = NL => AddChar(p, c).done = Append(p.done, p.rest) /\ AddChar(p, c).rest = <<>>
         /\ c # NL => AddChar(p, c).done = p.done /\ AddChar(p, c).rest = Append(p.rest, c)
<1>1. CASE c = NL
  <2>1. AddChar(p, c) = [done |-> Append(p.done, p.rest), rest |-> <<>>]
    BY <1>1 DEF AddChar
  <2>2. <<>> \in Seq(S) /\ Append(p.done, p.rest) \in Seq(Seq(S))
    BY DEF Part
  <2> QED BY <1>1, <2>1, <2>2 DEF Part
<1>2. CASE c # NL
  <2>1. AddChar(p, c) = [p EXCEPT !.rest = Append(@, c)]
    BY <1>2 DEF AddChar
  <2>2. Append(p.rest, c) \in Seq(S)
    BY DEF Part
  <2> QED BY <1>2, <2>1, <2>2 DEF Part
<1> QED
  BY <1>1, <1>2

\* std::getline takes one character after the other.
LEMMA CutIs ==
  ASSUME NEW S, NEW text \in Seq(S)
  PROVE  \E a : Cuts(a, S, text)
<1> DEFINE n == Len(text)
           P == Part(S)
           base == [done |-> <<>>, rest |-> <<>>]
           G == [x \in (1 .. n) \X P |-> AddChar(x[2], text[x[1]])]
           Is(b) == b = [i \in 0 .. n |-> IF i = 0 THEN base ELSE AddChar(b[i - 1], text[i])]
           a == CHOOSE b : Is(b)
<1>1. n \in Nat /\ \A i \in 1 .. n : text[i] \in S
  OBVIOUS
<1>2. base \in P
  <2>1. <<>> \in Seq(S) /\ <<>> \in Seq(Seq(S))
    OBVIOUS
  <2> QED BY <2>1 DEF Part
<1> HIDE DEF n, base
<1>3. G \in [(1 .. n) \X P -> P]
  <2>1. ASSUME NEW i \in 1 .. n, NEW x \in P PROVE AddChar(x, text[i]) \in P
    BY <1>1, AddCharTyped
  <2> HIDE DEF P
  <2> QED BY <2>1
<1>4. \A i \in 1 .. n, x \in P : G[i, x] = AddChar(x, text[i])
  OBVIOUS
<1> HIDE DEF P
<1>5. PICK f \in [0 .. n -> P] : f[0] = base /\ \A i \in 1 .. n : f[i] = G[i, f[i - 1]]
  <2>1. Iterates(P, base, n, G)
    <3> HIDE DEF G
    <3> QED BY <1>1, <1>2, <1>3, Recursion
  <2> QED BY <2>1 DEF Iterates
<1>6. \A i \in 1 .. n : f[i - 1] \in P
  <2>1. \A i \in 1 .. n : i - 1 \in 0 .. n
    BY <1>1
  <2> QED BY <2>1, <1>5
<1>7. \A i \in 1 .. n : f[i] = AddChar(f[i - 1], text[i])
  <2> HIDE DEF G
  <2> QED BY <1>4, <1>5, <1>6
<1>8. Is(f)
  <2> DEFINE g == [i \in 0 .. n |-> IF i = 0 THEN base ELSE AddChar(f[i - 1], text[i])]
  <2>1. \A i \in 0 .. n : f[i] = g[i]
    <3>1. \A i \in 0 .. n : i # 0 => i \in 1 .. n
      BY <1>1
    <3> QED BY <3>1, <1>5, <1>7
  <2>2. f = [i \in 0 .. n |-> f[i]] /\ g = [i \in 0 .. n |-> g[i]]
    OBVIOUS
  <2> QED BY <2>1, <2>2, Zenon
<1>9. Is(a)
  <2> HIDE DEF Is
  <2> QED BY <1>8
<1>10. Cut(text) = a[n]
  BY DEF Cut, n, base
<1>11. a[0] = base /\ \A i \in 1 .. n : a[i] = AddChar(a[i - 1], text[i])
  <2>1. \A i \in 0 .. n : a[i] = IF i = 0 THEN base ELSE AddChar(a[i - 1], text[i])
    <3> HIDE DEF a
    <3> QED BY <1>9
  <2>2. 0 \in 0 .. n /\ \A i \in 1 .. n : i \in 0 .. n /\ i # 0
    BY <1>1
  <2> HIDE DEF a
  <2> QED BY <2>1, <2>2, Zenon
<1> HIDE DEF a, Is
<1>12. \A i \in 0 .. n : a[i] \in P
  <2> DEFINE Q == {i \in Nat : i <= n => a[i] \in P}
  <2>1. 0 \in Q
    BY <1>2, <1>11
  <2>2. ASSUME NEW i \in Nat, i \in Q PROVE i + 1 \in Q
    <3>1. SUFFICES ASSUME i + 1 <= n PROVE a[i + 1] \in P
      OBVIOUS
    <3>2. a[i] \in P /\ i + 1 \in 1 .. n /\ (i + 1) - 1 = i
      BY <1>1, <2>2, <3>1
    <3>3. a[i + 1] = AddChar(a[i], text[i + 1])
      BY <1>11, <3>2
    <3> QED BY <1>1, <3>2, <3>3, AddCharTyped DEF P
  <2>3. Nat \subseteq Q
    <3> HIDE DEF Q
    <3> QED BY <2>1, <2>2, SetInduction
  <2> QED BY <1>1, <2>3
<1>13. Cuts(a, S, text)
  BY <1>10, <1>11, <1>12 DEF Cuts, n, base, P
<1> QED
  BY <1>13

CutRight(S, text) == /\ Cut(text) \in Part(S)
                     /\ AllEnded(Cut(text).done) \o Cut(text).rest = text
\* What std::getline has read, with its line ends, is the text so far.
LEMMA CutKeeps ==
  ASSUME NEW S, NL \in S, NEW text \in Seq(S)
  PROVE  CutRight(S, text)
<1> DEFINE n == Len(text)
           Text(p) == AllEnded(p.done) \o p.rest
<1>1. n \in Nat /\ \A i \in 1 .. n : text[i] \in S
  OBVIOUS
<1>2. PICK a : Cuts(a, S, text)
  BY CutIs
<1> DEFINE Q == {i \in Nat : i <= n => Text(a[i]) = SubSeq(text, 1, i)}
<1>3. 0 \in Q
  <2>1. AllEnded(<<>>) = <<>>
    <3>1. <<>> \in Seq(S) /\ <<>> \in Seq(Seq(S))
      OBVIOUS
    <3> QED BY <3>1, AllEndedAppend
  <2>2. Text(a[0]) = <<>>
    BY <1>2, <2>1 DEF Cuts
  <2>3. SubSeq(text, 1, 0) = <<>>
    OBVIOUS
  <2> QED BY <2>2, <2>3
<1> HIDE DEF Text
<1>4. ASSUME NEW i \in Nat, i \in Q PROVE i + 1 \in Q
  <2>1. SUFFICES ASSUME i + 1 <= n PROVE Text(a[i + 1]) = SubSeq(text, 1, i + 1)
    OBVIOUS
  <2> DEFINE p == a[i]
             q == a[i + 1]
             c == text[i + 1]
  <2>2. i + 1 \in 1 .. n /\ i \in 0 .. n /\ (i + 1) - 1 = i
    BY <1>1, <2>1
  <2>3. p \in Part(S) /\ c \in S /\ q = AddChar(p, c)
    <3> HIDE DEF n
    <3> QED BY <1>1, <1>2, <2>2 DEF Cuts, n
  <2>4. Text(p) = SubSeq(text, 1, i)
    BY <1>4, <2>2, <1>1
  <2>5. SubSeq(text, 1, i + 1) = SubSeq(text, 1, i) \o <<c>>
    BY <2>2
  <2>6. p.done \in Seq(Seq(S)) /\ p.rest \in Seq(S)
    <3> HIDE DEF p
    <3> QED BY <2>3 DEF Part
  <2>7. AllEnded(p.done) \in Seq(S) /\ AllEnded(Append(p.done, p.rest)) = AllEnded(p.done) \o Append(p.rest, NL)
    <3> HIDE DEF p
    <3> QED BY <2>6, AllEndedAppend
  <2> DEFINE d == AllEnded(p.done)
             r == p.rest
  <2>8. d \in Seq(S) /\ r \in Seq(S)
    BY <2>6, <2>7
  <2>9. CASE c = NL
    <3>1. q.done = Append(p.done, p.rest) /\ q.rest = <<>>
      <4> HIDE DEF p, q, c
      <4> QED BY <2>3, <2>9, AddCharTyped
    <3>2. Text(q) = (d \o Append(r, NL)) \o <<>>
      <4> HIDE DEF q
      <4> QED BY <3>1, <2>7 DEF Text
    <3> HIDE DEF d, r, q, c
    <3>3. (d \o Append(r, NL)) \o <<>> = (d \o r) \o <<NL>>
      BY <2>8
    <3> QED BY <3>2, <3>3, <2>4, <2>5, <2>9 DEF d, r, q, Text
  <2>10. CASE c # NL
    <3>1. q.done = p.done /\ q.rest = Append(p.rest, c)
      <4> HIDE DEF p, q, c
      <4> QED BY <2>3, <2>10, AddCharTyped
    <3>2. Text(q) = d \o Append(r, c)
      <4> HIDE DEF q
      <4> QED BY <3>1 DEF Text
    <3>3. c \in S
      BY <2>3
    <3> HIDE DEF d, r, q, c
    <3>4. d \o Append(r, c) = (d \o r) \o <<c>>
      BY ONLY <2>8, <3>3
    <3> QED BY <3>2, <3>4, <2>4, <2>5 DEF d, r, q, Text
  <2> QED BY <2>9, <2>10
<1>5. Nat \subseteq Q
  <2> HIDE DEF Q
  <2> QED BY <1>3, <1>4, SetInduction
<1>6. Text(a[n]) = SubSeq(text, 1, n)
  <2>1. n \in Q
    <3> HIDE DEF Q, n
    <3> QED BY <1>1, <1>5
  <2> QED BY <2>1
<1>7. SubSeq(text, 1, n) = text
  OBVIOUS
<1>8. Cut(text) = a[n] /\ a[n] \in Part(S)
  <2> HIDE DEF n
  <2> QED BY <1>1, <1>2 DEF Cuts, n
<1> QED
  BY <1>6, <1>7, <1>8 DEF CutRight, Text

\* The lines of a text, each with a line end, are the text, but for a line end
\* the last one may have lacked.
LEMMA LinesAreText ==
  ASSUME NEW S, NL \in S, NEW text \in Seq(S)
  PROVE  /\ Lines(text) \in Seq(Seq(S))
         /\ AllEnded(Lines(text)) \in OrEnded(text)
<1> DEFINE c == Cut(text)
           d == AllEnded(c.done)
<1>1. c \in Part(S) /\ d \o c.rest = text
  BY CutKeeps DEF CutRight
<1>2. c.done \in Seq(Seq(S)) /\ c.rest \in Seq(S)
  <2> HIDE DEF c
  <2> QED BY <1>1 DEF Part
<1>3. d \in Seq(S) /\ AllEnded(Append(c.done, c.rest)) = d \o Append(c.rest, NL)
  <2> HIDE DEF c
  <2> QED BY <1>2, AllEndedAppend
<1>4. CASE c.rest = <<>>
  <2>1. Lines(text) = c.done
    BY <1>4 DEF Lines
  <2>2. d = text
    <3> HIDE DEF d, c
    <3> QED BY <1>1, <1>3, <1>4
  <2> QED BY <1>2, <2>1, <2>2 DEF OrEnded
<1>5. CASE c.rest # <<>>
  <2>1. Lines(text) = Append(c.done, c.rest)
    BY <1>5 DEF Lines
  <2>2. d \o Append(c.rest, NL) = Append(d \o c.rest, NL)
    <3> DEFINE r == c.rest
    <3>1. d \in Seq(S) /\ r \in Seq(S) /\ NL \in S
      BY <1>2, <1>3
    <3> HIDE DEF d, r
    <3>2. d \o Append(r, NL) = Append(d \o r, NL)
      BY ONLY <3>1
    <3> QED BY <3>2 DEF r
  <2>3. Append(c.done, c.rest) \in Seq(Seq(S))
    <3> HIDE DEF c
    <3> QED BY <1>2
  <2> HIDE DEF c
  <2> QED BY <1>1, <1>3, <2>1, <2>2, <2>3 DEF OrEnded
<1> QED
  BY <1>4, <1>5

\* Nothing said is no lines.
LEMMA NoLines == Lines(<<>>) = <<>>
<1>1. PICK a : Cuts(a, {NL}, <<>>)
  <2>1. <<>> \in Seq({NL})
    OBVIOUS
  <2> QED BY <2>1, CutIs
<1>2. Cut(<<>>) = [done |-> <<>>, rest |-> <<>>]
  BY <1>1 DEF Cuts
<1> QED
  BY <1>2 DEF Lines

\* The file has the lines, if none is as long as a read().
LEMMA ContentsOfShort ==
  ASSUME NEW lines, \A i \in DOMAIN lines : Len(lines[i]) < ReadSize
  PROVE  Contents(lines) = AllEnded(lines)
<1> DEFINE f == [i \in DOMAIN lines |-> FileLine(lines[i])]
           g == [i \in DOMAIN lines |-> Append(lines[i], NL)]
<1>1. \A i \in DOMAIN lines : FileLine(lines[i]) = Append(lines[i], NL)
  BY DEF FileLine
<1>2. f = g
  BY <1>1, Zenon
<1> QED
  BY <1>2 DEF Contents, AllEnded

\* What one read() takes and leaves.
LEMMA ReadParts ==
  ASSUME NEW S, NEW text \in Seq(S)
  PROVE  /\ ReadPart(text) \in Seq(S) /\ ReadRest(text) \in Seq(S)
         /\ ReadPart(text) \o ReadRest(text) = text
         /\ Len(ReadRest(text)) <= Len(text)
         /\ \A i \in 1 .. Len(ReadPart(text)) : \E j \in 1 .. Len(text) : ReadPart(text)[i] = text[j]
<1>1. CASE Len(text) < ReadSize
  <2>1. ReadPart(text) = text
    BY <1>1 DEF ReadPart
  <2>2. ReadRest(text) = <<>>
    BY <1>1, SizesAssumption DEF ReadRest
  <2>3. text \o <<>> = text /\ <<>> \in Seq(S) /\ Len(<<>>) <= Len(text)
    OBVIOUS
  <2> QED BY <2>1, <2>2, <2>3
<1>2. CASE ~(Len(text) < ReadSize)
  <2>1. ReadSize \in 1 .. Len(text)
    BY <1>2, SizesAssumption
  <2>2. ReadPart(text) = SubSeq(text, 1, ReadSize) /\ ReadRest(text) = SubSeq(text, ReadSize + 1, Len(text))
    BY <1>2 DEF ReadPart, ReadRest
  <2>3. SubSeq(text, 1, ReadSize) \in Seq(S) /\ Len(SubSeq(text, 1, ReadSize)) = ReadSize
        /\ \A i \in 1 .. ReadSize : SubSeq(text, 1, ReadSize)[i] = text[i]
    BY <2>1
  <2>4. SubSeq(text, ReadSize + 1, Len(text)) \in Seq(S)
    BY <2>1
  <2>5. Len(SubSeq(text, ReadSize + 1, Len(text))) <= Len(text)
    BY <2>1
  <2>6. SubSeq(text, 1, ReadSize) \o SubSeq(text, ReadSize + 1, Len(text)) = text
    BY <2>1
  <2>7. \A i \in 1 .. ReadSize : i \in 1 .. Len(text)
    BY <2>1
  <2> QED BY <2>2, <2>3, <2>4, <2>5, <2>6, <2>7
<1> QED
  BY <1>1, <1>2

\* Of a chunk without a zero byte everything is used.
LEMMA UsedWhole ==
  ASSUME NEW chunk, \A i \in 1 .. Len(chunk) : chunk[i] # NUL
  PROVE  Used(chunk) = chunk
<1>1. {i \in 1 .. Len(chunk) : chunk[i] = NUL} = {}
  OBVIOUS
<1>2. SelectInSeq(chunk, LAMBDA c : c = NUL) = 0
  BY <1>1 DEF SelectInSeq
<1> QED
  BY <1>2 DEF Used

\* What is used of a chunk is a part of it.
LEMMA UsedTyped ==
  ASSUME NEW S, NEW chunk \in Seq(S)
  PROVE  Used(chunk) \in Seq(S)
<1> DEFINE I == {i \in 1 .. Len(chunk) : chunk[i] = NUL}
           e == SelectInSeq(chunk, LAMBDA c : c = NUL)
<1>1. e = IF I # {} THEN Min(I) ELSE 0
  BY DEF SelectInSeq
<1>2. I \in SUBSET Nat /\ I \subseteq 1 .. Len(chunk)
  OBVIOUS
<1>3. e = 0 \/ e \in 1 .. Len(chunk)
  <2> HIDE DEF I, e
  <2> QED BY <1>1, <1>2, LeastIsThere
<1>4. Used(chunk) = IF e = 0 THEN chunk ELSE SubSeq(chunk, 1, e - 1)
  BY DEF Used
<1> HIDE DEF e
<1>5. e \in 1 .. Len(chunk) => SubSeq(chunk, 1, e - 1) \in Seq(S)
  OBVIOUS
<1> QED
  BY <1>3, <1>4, <1>5

-----------------------------------------------------------------------------
\* What the variables hold besides what TypeOK says.
Shapes ==
    /\ child \in [says : Seq(Char), exit : {0, 1}]
    /\ pipe \in Seq(Char) \cup {Closed}
    /\ ss \in Seq(Char)
    /\ ret \in {0, 1}
    /\ DOMAIN file = Paths
RunRecord == [captured : BOOLEAN, path : Paths \cup {<<>>, <<DevNull>>}, said : Seq(Char),
              before : {file}, opened : {FALSE}]
\* While a call is under way: what the command has said is in the pipe, or in
\* what was read and the pipe, and no file has been written.
UnderWay ==
    /\ pc = "idle" => ss = <<>> /\ ret = 0
    /\ pc # "idle" => /\ run \in RunRecord /\ run.path = m_output_path
                      /\ run.captured = ~ToDevNull(run.path) /\ run.captured = (pipe # Closed)
    /\ pc = "system" => ss = <<>> /\ ret = 0 /\ (pipe # Closed => pipe = run.said)
    /\ pc = "collect" => /\ child = Lost /\ pipe # Closed
                         /\ ret # 0 => ss = <<>> /\ pipe = run.said
                         /\ Plain(run.said) => ss \o pipe = run.said
IInv == TypeOK /\ Shapes /\ UnderWay /\ OutputIsKept /\ OnlyTheFileIsWritten

\* The program starts in a state of the invariant.
LEMMA Init_IInv ==
  ASSUME Init
  PROVE  IInv
<1>1. Lost \in [says : Seq(Char), exit : {0, 1}] /\ <<>> \in Seq(Char)
  <2>1. <<>> \in Seq(Char)
    OBVIOUS
  <2> QED BY <2>1 DEF Lost
<1>2. TypeOK
  BY DEF Init, TypeOK
<1>3. Shapes
  BY <1>1 DEF Init, Shapes
<1>4. UnderWay
  BY DEF Init, UnderWay
<1>5. ~Ran
  BY DEF Init, Ran, NoRun
<1> QED
  BY <1>2, <1>3, <1>4, <1>5 DEF IInv, OutputIsKept, OnlyTheFileIsWritten

\* Without a call that captured anything there is nothing to keep.
LEMMA NothingRan ==
  ASSUME ~Ran'
  PROVE  OutputIsKept' /\ OnlyTheFileIsWritten'
BY DEF OutputIsKept, OnlyTheFileIsWritten

\* The caller changes what the next call will do.
LEMMA Settings_Keep ==
  ASSUME IInv, UpdateCommand \/ SetOutPath \/ GiveUp
  PROVE  IInv'
<1>1. CASE UpdateCommand
  <2>1. PICK t \in Texts :
          /\ pc = "idle" /\ m_command' = CommandOf(t) /\ m_output_path' = PathOf(t)
          /\ m_output_lines' = <<>> /\ run' = NoRun
          /\ UNCHANGED <<m_error_msg, m_exec_status, m_shell_available, pc, child, pipe, ret, ss, file>>
    BY <1>1 DEF UpdateCommand
  <2>2. TypeOK'
    BY <2>1 DEF IInv, TypeOK, Paths
  <2>3. Shapes'
    BY <2>1 DEF IInv, Shapes
  <2>4. UnderWay'
    BY <2>1 DEF IInv, UnderWay
  <2>5. ~Ran'
    BY <2>1 DEF Ran, NoRun
  <2> QED BY <2>2, <2>3, <2>4, <2>5, NothingRan DEF IInv
<1>2. CASE SetOutPath
  <2>1. PICK p \in OutPaths :
          /\ pc = "idle" /\ m_output_path' = p
          /\ UNCHANGED <<m_command, m_shell_available, results, pc, child, pipe, ret, ss, file, run>>
    BY <1>2 DEF SetOutPath
  <2>2. TypeOK'
    BY <2>1 DEF IInv, TypeOK, Paths, results
  <2>3. Shapes'
    BY <2>1 DEF IInv, Shapes
  <2>4. UnderWay'
    BY <2>1 DEF IInv, UnderWay
  <2>5. Ran' = Ran /\ run' = run /\ file' = file /\ UNCHANGED results
    BY <2>1 DEF Ran
  <2>6. OutputIsKept'
    BY <2>5 DEF IInv, OutputIsKept, results
  <2>7. OnlyTheFileIsWritten'
    BY <2>5 DEF IInv, OnlyTheFileIsWritten, results
  <2> QED BY <2>2, <2>3, <2>4, <2>6, <2>7 DEF IInv
<1>3. CASE GiveUp
  <2>1. PICK toDevNull \in BOOLEAN :
          /\ Begin(toDevNull)
          /\ m_output_lines' = IF m_shell_available THEN <<>> ELSE m_output_lines
          /\ run' = NoRun
          /\ UNCHANGED <<pc, child, pipe>>
    BY <1>3 DEF GiveUp
  <2>2. TypeOK'
    BY <2>1 DEF IInv, TypeOK, Begin
  <2>3. Shapes'
    BY <2>1 DEF IInv, Shapes, Begin
  <2>4. UnderWay'
    BY <2>1 DEF IInv, UnderWay, Begin
  <2>5. ~Ran'
    BY <2>1 DEF Ran, NoRun
  <2> QED BY <2>2, <2>3, <2>4, <2>5, NothingRan DEF IInv
<1> QED
  BY <1>1, <1>2, <1>3

\* A call starts its command.
LEMMA Start_Keeps ==
  ASSUME IInv, Start
  PROVE  IInv'
<1>1. PICK toDevNull \in BOOLEAN :
        /\ Begin(toDevNull)
        /\ m_output_lines' = Cleared(m_output_lines)
        /\ pc' = "system"
        /\ child' \in {Lost} \cup IF m_command \in DOMAIN Programs THEN Programs[m_command] ELSE {}
        /\ pipe' = IF ToDevNull(m_output_path') THEN Closed ELSE <<>>
        /\ run' = [captured |-> ~ToDevNull(m_output_path'), path |-> m_output_path',
                   said |-> <<>>, before |-> file, opened |-> FALSE]
  BY DEF Start
<1>2. <<>> \in Seq(Char) /\ <<>> # Closed /\ Len(<<>>) <= PipeSize
  <2>1. <<>> \in Seq(Char)
    OBVIOUS
  <2>2. Len(<<>>) <= PipeSize
    BY SizesAssumption
  <2> QED BY <2>1, <2>2, CharAssumption, Zenon
<1>3. child' \in [says : Seq(Char), exit : {0, 1}]
  <2>1. Lost \in [says : Seq(Char), exit : {0, 1}]
    BY <1>2 DEF Lost
  <2> QED BY <1>1, <2>1, ProgramsAssumption
<1>4. m_output_path' \in Paths \cup {<<>>, <<DevNull>>} /\ file' = file /\ ss' = ss /\ ret' = ret
      /\ ss = <<>> /\ ret = 0
  BY <1>1 DEF IInv, TypeOK, UnderWay, Begin
<1>5. TypeOK'
  BY <1>1, <1>2, <1>4 DEF IInv, TypeOK, Begin, Cleared
<1>6. Shapes'
  BY <1>1, <1>2, <1>3, <1>4 DEF IInv, Shapes
<1>7. UnderWay'
  <2>1. run' \in RunRecord'
    <3>1. run' \in [captured : BOOLEAN, path : Paths \cup {<<>>, <<DevNull>>}, said : Seq(Char),
                    before : {file}, opened : {FALSE}]
      <4>1. ToDevNull(m_output_path') \in BOOLEAN
        BY DEF ToDevNull, Contains
      <4> QED BY <1>1, <1>2, <1>4, <4>1
    <3> QED BY <3>1, <1>4 DEF RunRecord
  <2>2. run'.path = m_output_path' /\ run'.said = <<>> /\ run'.captured = ~ToDevNull(m_output_path')
    BY <1>1
  <2>3. run'.captured = (pipe' # Closed)
    BY <1>1, <1>2, <2>2
  <2> QED BY <1>1, <1>4, <2>1, <2>2, <2>3 DEF UnderWay
<1>8. ~Ran'
  BY <1>1 DEF Ran
<1> QED
  BY <1>5, <1>6, <1>7, <1>8, NothingRan DEF IInv

\* The command says something, or is killed.
LEMMA Say_Keeps ==
  ASSUME IInv, Say
  PROVE  IInv'
<1>1. PICK n \in 1 .. Len(child.says) :
        /\ pc = "system" /\ n <= Room
        /\ child' = [child EXCEPT !.says = SubSeq(@, n + 1, Len(@))]
        /\ pipe' = IF pipe = Closed THEN pipe ELSE pipe \o SubSeq(child.says, 1, n)
        /\ run' = [run EXCEPT !.said = @ \o SubSeq(child.says, 1, n)]
        /\ UNCHANGED <<settings, results, pc, ret, ss, file>>
  BY DEF Say
<1> DEFINE says == child.says
           said == SubSeq(says, 1, n)
           rest == SubSeq(says, n + 1, Len(says))
<1>2. child \in [says : Seq(Char), exit : {0, 1}] /\ says \in Seq(Char)
  BY DEF IInv, Shapes
<1>3. said \in Seq(Char) /\ Len(said) = n /\ rest \in Seq(Char) /\ n \in Nat
  <2> HIDE DEF says
  <2> QED BY <1>1, <1>2 DEF says
<1>4. child' = [child EXCEPT !.says = rest]
      /\ pipe' = (IF pipe = Closed THEN pipe ELSE pipe \o said)
      /\ run' = [run EXCEPT !.said = @ \o said]
  BY <1>1
<1> HIDE DEF said, rest
<1>5. child' \in [says : Seq(Char), exit : {0, 1}]
  BY <1>2, <1>3, <1>4
<1>6. pipe' \in Seq(Char) \cup {Closed} /\ (pipe' # Closed => pipe # Closed)
  BY <1>3, <1>4, CharAssumption DEF IInv, Shapes
<1>7. pipe # Closed => pipe' \in Seq(Char) /\ Len(pipe') <= PipeSize /\ pipe' # Closed
  <2>1. SUFFICES ASSUME pipe # Closed
                 PROVE  pipe' \in Seq(Char) /\ Len(pipe') <= PipeSize /\ pipe' # Closed
    OBVIOUS
  <2>2. pipe \in Seq(Char) /\ n <= PipeSize - Len(pipe)
    BY <2>1, <1>1 DEF IInv, Shapes, Room
  <2>3. pipe' = pipe \o said
    BY <2>1, <1>4
  <2>4. pipe \o said \in Seq(Char) /\ Len(pipe \o said) = Len(pipe) + n /\ Len(pipe) \in Nat
    BY <2>2, <1>3
  <2>5. Len(pipe) + n <= PipeSize
    BY <2>2, <2>4, <1>3, SizesAssumption
  <2>6. pipe' # Closed
    BY <2>3, <2>4, CharAssumption, Zenon
  <2> QED BY <2>3, <2>4, <2>5, <2>6, Zenon
<1>8. run \in RunRecord /\ run.path = m_output_path /\ run.captured = ~ToDevNull(run.path)
      /\ run.captured = (pipe # Closed)
  BY <1>1 DEF IInv, UnderWay
<1>9. run' \in RunRecord /\ run'.path = run.path /\ run'.captured = run.captured
      /\ run'.said = run.said \o said
  <2>1. run.said \o said \in Seq(Char)
    <3>1. run.said \in Seq(Char)
      BY <1>8 DEF RunRecord
    <3> QED BY <3>1, <1>3
  <2> QED BY <1>4, <1>8, <2>1 DEF RunRecord
<1>10. TypeOK'
  BY <1>1, <1>6, <1>7 DEF IInv, TypeOK, settings, results
<1>11. Shapes'
  BY <1>1, <1>5, <1>6 DEF IInv, Shapes
<1>12. UnderWay'
  <2>1. pipe # Closed => pipe' = run'.said
    BY <1>1, <1>4, <1>9 DEF IInv, UnderWay
  <2>2. run' \in RunRecord'
    BY <1>1, <1>9 DEF RunRecord
  <2>3. run'.captured = (pipe' # Closed)
    BY <1>6, <1>7, <1>8, <1>9
  <2>4. pc' = "system" /\ ss' = ss /\ ret' = ret /\ ss = <<>> /\ ret = 0 /\ m_output_path' = m_output_path
    BY <1>1 DEF IInv, UnderWay, settings
  <2> QED BY <1>6, <1>8, <1>9, <2>1, <2>2, <2>3, <2>4 DEF UnderWay
<1>13. ~Ran'
  BY <1>1 DEF Ran
<1> QED
  BY <1>10, <1>11, <1>12, <1>13, NothingRan DEF IInv

\* Killed, the command says no more.
LEMMA Killed_Keeps ==
  ASSUME IInv, Killed
  PROVE  IInv'
<1>1. pc = "system" /\ child' = Lost
      /\ UNCHANGED <<settings, results, pc, pipe, ret, ss, file, run>>
  BY DEF Killed
<1>2. Lost \in [says : Seq(Char), exit : {0, 1}]
  <2>1. <<>> \in Seq(Char)
    OBVIOUS
  <2> QED BY <2>1 DEF Lost
<1>3. TypeOK'
  BY <1>1 DEF IInv, TypeOK, settings, results
<1>4. Shapes'
  BY <1>1, <1>2 DEF IInv, Shapes
<1>5. UnderWay'
  BY <1>1 DEF IInv, UnderWay, settings, RunRecord
<1>6. ~Ran'
  BY <1>1 DEF Ran
<1> QED
  BY <1>3, <1>4, <1>5, <1>6, NothingRan DEF IInv

\* system() returns.
LEMMA SystemReturns_Keeps ==
  ASSUME IInv, SystemReturns
  PROVE  IInv'
<1>1. /\ pc = "system" /\ child' = Lost
      /\ UNCHANGED <<settings, m_output_lines, m_error_msg, pipe, ss, file, run>>
  BY DEF SystemReturns
<1>2. child.exit \in {0, 1}
  BY DEF IInv, Shapes
<1>3. Lost \in [says : Seq(Char), exit : {0, 1}]
  <2>1. <<>> \in Seq(Char)
    OBVIOUS
  <2> QED BY <2>1 DEF Lost
<1>4. m_output_path' = m_output_path /\ ss = <<>> /\ ret = 0 /\ run \in RunRecord
      /\ run.path = m_output_path /\ run.captured = ~ToDevNull(run.path)
      /\ run.captured = (pipe # Closed) /\ (pipe # Closed => pipe = run.said)
  BY <1>1 DEF IInv, UnderWay, settings
<1>5. CASE pipe = Closed
  <2>1. pc' = "idle" /\ m_exec_status' = (child.exit = 0) /\ ret' = ret
    BY <1>5 DEF SystemReturns
  <2>2. TypeOK'
    BY <1>1, <1>5, <2>1 DEF IInv, TypeOK, settings
  <2>3. Shapes'
    BY <1>1, <1>3, <2>1 DEF IInv, Shapes
  <2>4. UnderWay'
    BY <1>1, <1>4, <2>1 DEF UnderWay
  <2>5. ~Ran'
    BY <1>1, <1>4, <1>5 DEF Ran
  <2> QED BY <2>2, <2>3, <2>4, <2>5, NothingRan DEF IInv
<1>6. CASE pipe # Closed
  <2>1. pc' = "collect" /\ ret' = child.exit /\ m_exec_status' = m_exec_status
    BY <1>6 DEF SystemReturns
  <2>2. TypeOK'
    BY <1>1, <2>1 DEF IInv, TypeOK, settings
  <2>3. Shapes'
    BY <1>1, <1>2, <1>3, <2>1 DEF IInv, Shapes
  <2>4. UnderWay'
    <3>1. <<>> \o pipe = pipe
      BY <1>6 DEF IInv, Shapes
    <3>2. run' = run /\ pipe' = pipe /\ ss' = ss /\ file' = file
      BY <1>1
    <3>3. run' \in RunRecord'
      BY <1>4, <3>2 DEF RunRecord
    <3> QED BY <1>1, <1>4, <1>6, <2>1, <3>1, <3>2, <3>3 DEF UnderWay
  <2>5. ~Ran'
    BY <2>1 DEF Ran
  <2> QED BY <2>2, <2>3, <2>4, <2>5, NothingRan DEF IInv
<1> QED
  BY <1>5, <1>6

\* The command said no zero byte: none is in what is still in the pipe.
LEMMA PlainParts ==
  ASSUME NEW a \in Seq(Char), NEW b \in Seq(Char), Plain(a \o b)
  PROVE  Used(ReadPart(b)) = ReadPart(b)
<1>1. \A j \in 1 .. Len(b) : b[j] # NUL
  <2>1. SUFFICES ASSUME NEW j \in 1 .. Len(b) PROVE b[j] # NUL
    OBVIOUS
  <2>2. Len(a) + j \in 1 .. Len(a \o b) /\ (a \o b)[Len(a) + j] = b[j]
    OBVIOUS
  <2> QED BY <2>2 DEF Plain, Contains
<1>2. \A i \in 1 .. Len(ReadPart(b)) : \E j \in 1 .. Len(b) : ReadPart(b)[i] = b[j]
  BY ReadParts
<1>3. \A i \in 1 .. Len(ReadPart(b)) : ReadPart(b)[i] # NUL
  BY <1>1, <1>2
<1> QED
  BY <1>3, UsedWhole

\* A read() takes from the pipe what it adds to the text.
LEMMA Read_Keeps ==
  ASSUME IInv, Read
  PROVE  IInv'
<1>1. /\ pc = "collect" /\ ret = 0
      /\ ss' = ss \o Used(ReadPart(pipe)) /\ pipe' = ReadRest(pipe)
      /\ UNCHANGED <<settings, results, pc, child, ret, file, run>>
  BY DEF Read
<1>2. pipe \in Seq(Char) /\ ss \in Seq(Char) /\ Len(pipe) <= PipeSize
  BY <1>1 DEF IInv, TypeOK, Shapes, UnderWay
<1>3. run \in RunRecord /\ run.path = m_output_path /\ run.captured = ~ToDevNull(run.path)
      /\ run.captured = (pipe # Closed) /\ pipe # Closed /\ child = Lost
      /\ (Plain(run.said) => ss \o pipe = run.said)
  BY <1>1 DEF IInv, UnderWay
<1>4. /\ ReadPart(pipe) \in Seq(Char) /\ ReadRest(pipe) \in Seq(Char)
      /\ ReadPart(pipe) \o ReadRest(pipe) = pipe
      /\ Len(ReadRest(pipe)) <= Len(pipe)
  BY <1>2, ReadParts
<1>5. Used(ReadPart(pipe)) \in Seq(Char)
  BY <1>4, UsedTyped
<1>6. ss' \in Seq(Char) /\ pipe' \in Seq(Char) /\ pipe' # Closed
  <2>1. ss \o Used(ReadPart(pipe)) \in Seq(Char)
    BY <1>2, <1>5
  <2>2. ss' \in Seq(Char) /\ pipe' \in Seq(Char)
    BY <1>1, <1>4, <2>1, Zenon
  <2> QED BY <2>2, CharAssumption, Zenon
<1>7. Len(pipe') <= PipeSize
  <2>1. Len(pipe') \in Nat /\ Len(pipe) \in Nat /\ Len(pipe') <= Len(pipe)
    BY <1>1, <1>2, <1>4, <1>6
  <2> QED BY <1>2, <2>1, SizesAssumption
<1>8. TypeOK'
  BY <1>1, <1>7 DEF IInv, TypeOK, settings, results
<1>9. Shapes'
  BY <1>1, <1>6 DEF IInv, Shapes
<1>10. Plain(run.said) => ss' \o pipe' = run.said
  <2>1. SUFFICES ASSUME Plain(run.said) PROVE ss' \o pipe' = run.said
    OBVIOUS
  <2>2. Used(ReadPart(pipe)) = ReadPart(pipe)
    BY <1>2, <1>3, <2>1, PlainParts
  <2>3. (ss \o ReadPart(pipe)) \o ReadRest(pipe) = ss \o (ReadPart(pipe) \o ReadRest(pipe))
    <3>1. ss \in Seq(Char) /\ ReadPart(pipe) \in Seq(Char) /\ ReadRest(pipe) \in Seq(Char)
      BY <1>2, <1>4
    <3> QED BY ONLY <3>1
  <2> QED BY <1>1, <1>3, <1>4, <2>1, <2>2, <2>3
<1>11. UnderWay'
  <2>1. run' = run /\ m_output_path' = m_output_path /\ file' = file /\ ret' = 0 /\ child' = child
        /\ pc' = "collect"
    BY <1>1 DEF settings
  <2>2. run' \in RunRecord'
    BY <1>3, <2>1 DEF RunRecord
  <2> QED BY <1>3, <1>6, <1>10, <2>1, <2>2 DEF UnderWay
<1>12. ~Ran'
  BY <1>1 DEF Ran
<1> QED
  BY <1>8, <1>9, <1>11, <1>12, NothingRan DEF IInv

\* The call ends: lines, error message and file are what they have to be.
LEMMA Finish_Keeps ==
  ASSUME IInv, Finish
  PROVE  IInv'
<1>1. PICK opens \in BOOLEAN :
        /\ pc = "collect" /\ Drained
        /\ opens => WantsFile(m_output_path)
        /\ m_error_msg' = IF pipe = <<>> THEN m_error_msg ELSE Used(ReadPart(pipe))
        /\ m_output_lines' = m_output_lines \o Lines(ss)
        /\ file' = IF opens THEN [file EXCEPT ![m_output_path] = Contents(Lines(ss))] ELSE file
        /\ m_exec_status' = (ret = 0)
        /\ run' = [run EXCEPT !.opened = opens]
        /\ pc' = "idle" /\ pipe' = Closed /\ ret' = 0 /\ ss' = <<>>
        /\ UNCHANGED <<settings, child>>
  BY DEF Finish
<1>2. /\ run \in RunRecord /\ run.path = m_output_path /\ run.captured = ~ToDevNull(run.path)
      /\ run.captured = (pipe # Closed) /\ pipe # Closed /\ child = Lost
      /\ ret # 0 => ss = <<>> /\ pipe = run.said
      /\ Plain(run.said) => ss \o pipe = run.said
  BY <1>1 DEF IInv, UnderWay
<1>3. pipe \in Seq(Char) /\ ss \in Seq(Char) /\ m_output_lines = <<>>
      /\ m_output_path \in Paths \cup {<<>>, <<DevNull>>} /\ DOMAIN file = Paths
  BY <1>1, <1>2 DEF IInv, TypeOK, Shapes
<1>4. Lines(ss) \in Seq(Seq(Char)) /\ AllEnded(Lines(ss)) \in OrEnded(ss)
  BY <1>3, LinesAreText, CharAssumption
<1>5. m_output_lines' = Lines(ss)
  <2>1. <<>> \o Lines(ss) = Lines(ss)
    BY <1>4
  <2> QED BY <1>1, <1>3, <2>1
<1>6. /\ run'.said = run.said /\ run'.path = m_output_path /\ run'.before = file
      /\ run'.opened = opens /\ run'.captured
  BY <1>1, <1>2 DEF RunRecord
<1>7. TypeOK'
  BY <1>1, <1>2 DEF IInv, TypeOK, settings
<1>8. Shapes'
  <2>1. <<>> \in Seq(Char)
    OBVIOUS
  <2>2. DOMAIN file' = Paths
    BY <1>1, <1>3
  <2> QED BY <1>1, <2>1, <2>2 DEF IInv, Shapes
<1>9. UnderWay'
  BY <1>1 DEF UnderWay
<1>10. ret = 0 /\ Plain(run.said) => ss = run.said
  <2>1. SUFFICES ASSUME ret = 0, Plain(run.said) PROVE ss = run.said
    OBVIOUS
  <2>2. pipe = <<>>
    BY <1>1, <2>1 DEF Drained
  <2>3. ss \o <<>> = ss
    BY <1>3
  <2> QED BY <1>2, <2>1, <2>2, <2>3
<1>11. OutputIsKept'
  <2>1. SUFFICES /\ ret = 0 => (Plain(run.said) => AllEnded(Lines(ss)) \in OrEnded(run.said))
                 /\ ret # 0 => Lines(ss) = <<>>
                 /\ ret # 0 /\ run.said # <<>> => m_error_msg' = Used(ReadPart(run.said))
    BY <1>1, <1>5, <1>6 DEF OutputIsKept
  <2>2. ret # 0 => Lines(ss) = <<>>
    BY <1>2, NoLines
  <2>3. ret # 0 /\ run.said # <<>> => m_error_msg' = Used(ReadPart(run.said))
    BY <1>1, <1>2
  <2> QED BY <1>4, <1>10, <2>2, <2>3
<1>12. OnlyTheFileIsWritten'
  <2>1. opens => m_output_path \in Paths /\ ret = 0
    <3>1. SUFFICES ASSUME opens PROVE m_output_path \in Paths /\ ret = 0
      OBVIOUS
    <3>2. m_output_path # <<>> /\ ret = 0
      BY <1>1, <3>1 DEF WantsFile
    <3>3. ~ToDevNull(m_output_path)
      BY <1>2
    <3>4. ToDevNull(<<DevNull>>)
      BY DEF ToDevNull, Contains
    <3> QED BY <1>3, <3>2, <3>3, <3>4
  <2>2. ASSUME NEW p \in Paths, file'[p] # file[p]
        PROVE  m_exec_status' /\ opens /\ p = m_output_path
    BY <1>1, <1>3, <2>1, <2>2
  <2>3. ASSUME opens, Plain(run.said), \A i \in DOMAIN Lines(ss) : Len(Lines(ss)[i]) < ReadSize
        PROVE  file'[m_output_path] \in OrEnded(run.said)
    <3>1. file'[m_output_path] = Contents(Lines(ss))
      BY <1>1, <1>3, <2>1, <2>3
    <3>2. Contents(Lines(ss)) = AllEnded(Lines(ss))
      BY <2>3, ContentsOfShort
    <3>3. ss = run.said
      BY <1>10, <2>1, <2>3
    <3> QED BY <1>4, <3>1, <3>2, <3>3
  <2> QED BY <1>5, <1>6, <2>2, <2>3 DEF OnlyTheFileIsWritten
<1> QED
  BY <1>7, <1>8, <1>9, <1>11, <1>12 DEF IInv

-----------------------------------------------------------------------------
\* Every step keeps the invariant.
LEMMA Next_Keeps ==
  ASSUME IInv, [Next]_vars
  PROVE  IInv'
<1>1. CASE UNCHANGED vars
  <2>1. UNCHANGED <<m_command, m_output_path, m_output_lines, m_error_msg, m_exec_status,
                    m_shell_available, pc, child, pipe, ret, ss, file, run>>
    BY <1>1 DEF vars, settings, results
  <2>2. TypeOK'
    BY <2>1 DEF IInv, TypeOK
  <2>3. Shapes'
    BY <2>1 DEF IInv, Shapes
  <2>4. UnderWay'
    BY <2>1 DEF IInv, UnderWay, RunRecord
  <2>5. OutputIsKept'
    BY <2>1 DEF IInv, OutputIsKept, Ran
  <2>6. OnlyTheFileIsWritten'
    BY <2>1 DEF IInv, OnlyTheFileIsWritten, Ran
  <2> QED BY <2>2, <2>3, <2>4, <2>5, <2>6 DEF IInv
<1>2. CASE UpdateCommand \/ SetOutPath \/ GiveUp
  BY <1>2, Settings_Keep
<1>3. CASE Start
  BY <1>3, Start_Keeps
<1>4. CASE Say
  BY <1>4, Say_Keeps
<1>5. CASE Killed
  BY <1>5, Killed_Keeps
<1>6. CASE SystemReturns
  BY <1>6, SystemReturns_Keeps
<1>7. CASE Read
  BY <1>7, Read_Keeps
<1>8. CASE Finish
  BY <1>8, Finish_Keeps
<1> QED
  BY <1>1, <1>2, <1>3, <1>4, <1>5, <1>6, <1>7, <1>8 DEF Next, Caller

\* IInv holds in every state of every run.
THEOREM IInvHolds == Spec => []IInv
<1>1. Init => IInv
  BY Init_IInv
<1>2. IInv /\ [Next]_vars => IInv'
  BY Next_Keeps
<1> QED
  BY <1>1, <1>2, PTL DEF Spec

\* The members, the pipe and the command fit together at every step of a call.
THEOREM TypeCorrect == Spec => []TypeOK
<1>1. IInv => TypeOK
  BY DEF IInv
<1> QED
  BY <1>1, IInvHolds, PTL

\* execCommand (sysutil.cpp:148): the lines are what the command said, however
\* it came through the pipe and however many reads it took, and of a command
\* that failed the error message is the first read() of what it said.
THEOREM AllOutputIsKept == Spec => []OutputIsKept
<1>1. IInv => OutputIsKept
  BY DEF IInv
<1> QED
  BY <1>1, IInvHolds, PTL

\* execCommand (sysutil.cpp:158): it writes no file but the one of the output
\* path, only after success, and then what the command said.
THEOREM OnlyThatFileIsWritten == Spec => []OnlyTheFileIsWritten
<1>1. IInv => OnlyTheFileIsWritten
  BY DEF IInv
<1> QED
  BY <1>1, IInvHolds, PTL
=============================================================================
