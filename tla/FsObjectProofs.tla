---------------------------- MODULE FsObjectProofs ----------------------------
(***************************************************************************)
(* What holds of FsObject and FileStream for every tree of files, links    *)
(* and directories, every object path and every destination.               *)
(***************************************************************************)
EXTENDS FileStream, WellFoundedInduction, TLAPS

-----------------------------------------------------------------------------
\* Induction over the numbers, for a set instead of an operator.
LEMMA SetInduction ==
  ASSUME NEW S, 0 \in S, \A n \in Nat : n \in S => n + 1 \in S
  PROVE  Nat \subseteq S
<1> DEFINE T == Nat \ S
           R == OpToRel(<, Nat)
<1>1. SUFFICES ASSUME T # {} PROVE FALSE
  OBVIOUS
<1>2. IsWellFoundedOn(R, Nat)
  BY NatLessThanWellFounded
<1>3. T \subseteq Nat
  OBVIOUS
<1>4. PICK x \in T : \A y \in T : ~ (<<y, x>> \in R)
  <2> HIDE DEF T, R
  <2> QED BY <1>1, <1>2, <1>3, WFMin
<1>5. x \in Nat /\ x \notin S
  OBVIOUS
<1>6. \A y \in Nat : y < x => y \in S
  BY <1>4 DEF OpToRel
<1> HIDE DEF T, R
<1>7. x # 0 
  BY <1>5
<1>8. x - 1 \in Nat /\ x - 1 < x /\ x - 1 + 1 = x
  BY <1>5, <1>7, SMT
<1> QED 
  BY <1>5, <1>6, <1>8

Iterates(S, a, n, G) ==
    \E f \in [0..n -> S] : f[0] = a /\ \A i \in 1..n : f[i] = G[i, f[i-1]]
\* A function by recursion up to n: it starts at a, and G makes each value of
\* the one before.
LEMMA Recursion ==
  ASSUME NEW S, NEW a \in S, NEW n \in Nat, NEW G \in [(1..n) \X S -> S]
  PROVE  Iterates(S, a, n, G)
<1> DEFINE E(k) == \E f \in [0..k -> S] : f[0] = a /\ \A i \in 1..k : f[i] = G[i, f[i-1]]
           P == {k \in Nat : k <= n => E(k)}
<1>1. E(0)
  <2> DEFINE f == [i \in 0..0 |-> a]
  <2>1. f \in [0..0 -> S]
    OBVIOUS
  <2>2. f[0] = a
    OBVIOUS
  <2>3. \A i \in 1..0 : f[i] = G[i, f[i-1]]
    <3>1. 1..0 = {} BY SMT
    <3> QED BY <3>1
  <2> HIDE DEF f
  <2> QED BY <2>1, <2>2, <2>3
<1>2. ASSUME NEW k \in Nat, k <= n => E(k) PROVE k + 1 <= n => E(k + 1)
  <2>1. SUFFICES ASSUME k + 1 <= n PROVE E(k + 1)
    OBVIOUS
  <2>2. k <= n
    BY <2>1
  <2>3. PICK f \in [0..k -> S] : f[0] = a /\ \A i \in 1..k : f[i] = G[i, f[i-1]]
    BY <2>2, <1>2
  <2>4. f[k] \in S /\ k + 1 \in 1..n 
    BY <2>1
  <2> DEFINE g == G[k + 1, f[k]]
  <2>5. g \in S
    BY <2>4
  <2>g. g = G[k + 1, f[k]]
    OBVIOUS
  <2> HIDE DEF g
  <2> DEFINE h == [i \in 0..(k+1) |-> IF i = k + 1 THEN g ELSE f[i]]
  <2>6. h \in [0..(k+1) -> S]
    BY <2>5
  <2>7. h[0] = a
    <3>1. 0 \in 0..(k+1) /\ 0 # k + 1
      OBVIOUS
    <3> QED BY <3>1, <2>3
  <2>8. ASSUME NEW i \in 1..(k+1) PROVE h[i] = G[i, h[i-1]]
    <3>1. i - 1 \in 0..k /\ i \in 0..(k+1) /\ i - 1 \in 0..(k+1) /\ i - 1 # k + 1
      OBVIOUS
    <3>2. h[i-1] = f[i-1]
      BY <3>1
    <3>3. CASE i = k + 1
      <4>1. h[i] = g
        BY <3>3, <3>1, Zenon
      <4>2. i - 1 = k
        BY <3>3
      <4> QED BY <4>1, <4>2, <3>2, <3>3, <2>g
    <3>4. CASE i # k + 1
      <4>1. h[i] = f[i] /\ i \in 1..k
        BY <3>4
      <4> QED BY <4>1, <3>2, <2>3
    <3> QED BY <3>3, <3>4
  <2> HIDE DEF h
  <2> QED BY <2>6, <2>7, <2>8
<1>3. Nat \subseteq P
  <2> HIDE DEF E
  <2>1. 0 \in P BY <1>1
  <2>2. \A k \in Nat : k \in P => k + 1 \in P BY <1>2
  <2> HIDE DEF P
  <2> QED BY <2>1, <2>2, SetInduction
<1>4. E(n)
  <2> HIDE DEF E
  <2> QED BY <1>3
<1> QED BY <1>4 DEF Iterates

-----------------------------------------------------------------------------
\* The least of some numbers is one of them.
LEMMA FirstIsThere ==
  ASSUME NEW S \in SUBSET Nat, S # {}
  PROVE  FirstOf(S) \in S /\ \A m \in S : FirstOf(S) <= m
<1> DEFINE R == OpToRel(<, Nat)
<1>1. IsWellFoundedOn(R, Nat)
  BY NatLessThanWellFounded
<1>2. PICK x \in S : \A y \in S : ~ (<<y, x>> \in R)
  <2> HIDE DEF R
  <2> QED BY <1>1, WFMin
<1>3. ASSUME NEW y \in S PROVE x <= y
  <2>1. x \in Nat /\ y \in Nat
    BY <1>2
  <2>2. <<y, x>> \notin R
    BY <1>2
  <2>3. ~(y < x)
    BY <2>1, <2>2, Zenon DEF OpToRel
  <2> HIDE DEF R
  <2> QED BY <2>1, <2>3, SMT
<1> QED
  BY <1>2, <1>3 DEF FirstOf

\* Paths are sequences of names; all but the last name are the directory.
LEMMA PathIs ==
  ASSUME NEW p \in Paths
  PROVE  /\ p \in Seq(Names) /\ p # <<>> /\ Len(p) \in Nat /\ Len(p) >= 1
         /\ Len(p) > 1 => Parent(p) \in Paths
<1>1. p \in Seq(Names) /\ p # <<>> /\ (Len(p) > 1 => Parent(p) \in Paths)
  BY PathsAssumption
<1>2. Len(p) \in Nat /\ Len(p) >= 1
  BY <1>1
<1> QED BY <1>1, <1>2

\* A sequence that is not empty is its front and its last element.
LEMMA FrontAndLast ==
  ASSUME NEW S, NEW p \in Seq(S), p # <<>>
  PROVE  /\ Parent(p) \in Seq(S) /\ Len(Parent(p)) = Len(p) - 1 /\ Name(p) \in S
         /\ Append(Parent(p), Name(p)) = p
<1>1. Len(p) \in Nat /\ Len(p) >= 1
  OBVIOUS
<1>2. Parent(p) \in Seq(S) /\ Len(Parent(p)) = Len(p) - 1
  <2>1. 1 \in 1 .. Len(p) + 1 /\ Len(p) - 1 \in 0 .. Len(p)
    BY <1>1
  <2>2. \A k \in 0 .. Len(p) : SubSeq(p, 1, k) \in Seq(S) /\ Len(SubSeq(p, 1, k)) = k
    BY <1>1
  <2> QED BY <2>1, <2>2 DEF Parent
<1>4. Name(p) \in S
  BY <1>1 DEF Name
<1>3. Append(Parent(p), Name(p)) = p
  BY <1>1 DEF Parent, Name
<1> QED BY <1>2, <1>3, <1>4

\* With a name more, the front is what it was.
LEMMA AppendIs ==
  ASSUME NEW S, NEW q \in Seq(S), NEW x \in S
  PROVE  /\ Append(q, x) \in Seq(S) /\ Append(q, x) # <<>> /\ Len(Append(q, x)) = Len(q) + 1
         /\ Parent(Append(q, x)) = q /\ Name(Append(q, x)) = x
         /\ \A k \in 1 .. Len(q) : SubSeq(Append(q, x), 1, k) = SubSeq(q, 1, k)
<1>1. Append(q, x) \in Seq(S) /\ Len(Append(q, x)) = Len(q) + 1
  OBVIOUS
<1>4. Append(q, x) # <<>>
  <2>1. Len(q) \in Nat /\ Len(<<>>) = 0
    OBVIOUS
  <2> QED BY <1>1, <2>1
<1>2. Parent(Append(q, x)) = q /\ Name(Append(q, x)) = x
  BY DEF Parent, Name
<1>3. \A k \in 1 .. Len(q) : SubSeq(Append(q, x), 1, k) = SubSeq(q, 1, k)
  OBVIOUS
<1> QED BY <1>1, <1>2, <1>3, <1>4

\* The first names of a path.
LEMMA PrefixIs ==
  ASSUME NEW S, NEW p \in Seq(S), NEW k \in 1 .. Len(p)
  PROVE  /\ SubSeq(p, 1, k) \in Seq(S) /\ Len(SubSeq(p, 1, k)) = k /\ SubSeq(p, 1, k) # <<>>
         /\ k > 1 => Parent(SubSeq(p, 1, k)) = SubSeq(p, 1, k - 1)
         /\ k = 1 => Parent(SubSeq(p, 1, k)) = <<>>
         /\ \A j \in 1 .. k : SubSeq(SubSeq(p, 1, k), 1, j) = SubSeq(p, 1, j)
         /\ SubSeq(p, 1, Len(p)) = p
<1>1. Len(p) \in Nat /\ k \in Nat /\ 1 <= k /\ k <= Len(p)
  OBVIOUS
<1>2. SubSeq(p, 1, k) \in Seq(S) /\ Len(SubSeq(p, 1, k)) = k
  BY <1>1
<1>3. SubSeq(p, 1, k) # <<>>
  BY <1>1, <1>2
<1>4. \A j \in 1 .. k : SubSeq(SubSeq(p, 1, k), 1, j) = SubSeq(p, 1, j)
  BY <1>1
<1>5. k > 1 => Parent(SubSeq(p, 1, k)) = SubSeq(p, 1, k - 1)
  BY <1>1, <1>2, <1>4 DEF Parent
<1>6. k = 1 => Parent(SubSeq(p, 1, k)) = <<>>
  BY <1>1, <1>2 DEF Parent
<1>7. SubSeq(p, 1, Len(p)) = p
  BY <1>1
<1> QED BY <1>2, <1>3, <1>4, <1>5, <1>6, <1>7

-----------------------------------------------------------------------------
IsTree(t) == t \in [Paths -> Node] /\ Rooted(t)

\* The way down to a path is of paths.
LEMMA PrefixInPaths ==
  ASSUME NEW p \in Paths, NEW k \in 1 .. Len(p)
  PROVE  SubSeq(p, 1, k) \in Paths
<1> DEFINE n == Len(p)
           P == {d \in Nat : d < n => SubSeq(p, 1, n - d) \in Paths}
<1>1. p \in Seq(Names) /\ n \in Nat /\ n >= 1
  BY PathIs
<1>2. 0 \in P
  <2>1. SubSeq(p, 1, n - 0) = p
    BY <1>1
  <2> QED BY <2>1
<1>3. ASSUME NEW d \in Nat, d \in P PROVE d + 1 \in P
  <2>1. SUFFICES ASSUME d + 1 < n PROVE SubSeq(p, 1, n - (d + 1)) \in Paths
    OBVIOUS
  <2> DEFINE q == SubSeq(p, 1, n - d)
  <2>2. q \in Paths /\ n - d \in 1 .. n /\ n - d > 1 /\ n - (d + 1) = (n - d) - 1
    BY <1>1, <1>3, <2>1
  <2>3. Len(q) = n - d /\ Parent(q) = SubSeq(p, 1, (n - d) - 1)
    <3> HIDE DEF n
    <3> QED BY <1>1, <2>2, PrefixIs DEF n
  <2>4. Parent(q) \in Paths
    <3> HIDE DEF q, n
    <3> QED BY <2>2, <2>3, PathIs
  <2> QED BY <2>2, <2>3, <2>4
<1>4. Nat \subseteq P
  <2> HIDE DEF P
  <2> QED BY <1>2, <1>3, SetInduction
<1>5. n - k \in Nat /\ n - k < n /\ n - (n - k) = k
  BY <1>1
<1> QED BY <1>4, <1>5

\* In a tree the way down to what is there is of directories.
LEMMA RootedPrefix ==
  ASSUME NEW t, IsTree(t), NEW p \in Paths, t[p] # None, NEW k \in 1 .. Len(p), k # Len(p)
  PROVE  t[SubSeq(p, 1, k)] = Dir
<1> DEFINE n == Len(p)
           P == {d \in Nat : d < n => t[SubSeq(p, 1, n - d)] # None}
<1>1. p \in Seq(Names) /\ n \in Nat /\ n >= 1 /\ Dir # None
  BY PathIs, NodeAssumption
<1>0. ASSUME NEW d \in Nat, d + 1 < n, t[SubSeq(p, 1, n - d)] # None
      PROVE  t[SubSeq(p, 1, n - (d + 1))] = Dir
  <2> DEFINE q == SubSeq(p, 1, n - d)
  <2>2. n - d \in 1 .. n /\ n - d > 1 /\ n - (d + 1) = (n - d) - 1
    BY <1>1, <1>0
  <2>3. Len(q) = n - d /\ Parent(q) = SubSeq(p, 1, (n - d) - 1)
    <3>1. \A j \in 1 .. n : j > 1 => Len(SubSeq(p, 1, j)) = j
                               /\ Parent(SubSeq(p, 1, j)) = SubSeq(p, 1, j - 1)
      BY <1>1, PrefixIs
    <3> HIDE DEF n
    <3> QED BY <2>2, <3>1
  <2>5. q \in Paths
    <3> HIDE DEF n
    <3> QED BY <2>2, PrefixInPaths DEF n
  <2>4. t[Parent(q)] = Dir
    <3>1. t[q] # None /\ Len(q) > 1
      BY <1>0, <2>2, <2>3
    <3> HIDE DEF q, n
    <3> QED BY <2>5, <3>1 DEF IsTree, Rooted
  <2> QED BY <2>2, <2>3, <2>4
<1>2. 0 \in P
  <2>1. SubSeq(p, 1, n - 0) = p
    BY <1>1
  <2> QED BY <2>1
<1>3. ASSUME NEW d \in Nat, d \in P PROVE d + 1 \in P
  <2>1. SUFFICES ASSUME d + 1 < n PROVE t[SubSeq(p, 1, n - (d + 1))] # None
    OBVIOUS
  <2>2. t[SubSeq(p, 1, n - d)] # None
    BY <1>1, <1>3, <2>1
  <2> HIDE DEF n
  <2> QED BY <2>1, <2>2, <1>0, <1>1
<1>4. Nat \subseteq P
  <2> HIDE DEF P
  <2> QED BY <1>2, <1>3, SetInduction
<1> DEFINE d == n - (k + 1)
<1>5. d \in Nat /\ d < n /\ d + 1 < n /\ n - (d + 1) = k
  BY <1>1
<1>6. t[SubSeq(p, 1, n - d)] # None
  <2> HIDE DEF d, n
  <2> QED BY <1>4, <1>5
<1>7. t[SubSeq(p, 1, n - (d + 1))] = Dir
  <2> HIDE DEF d, n
  <2> QED BY <1>0, <1>5, <1>6
<1> QED
  <2> HIDE DEF d, n
  <2> QED BY <1>5, <1>7

\* A link leads to a path, and is neither a file nor a directory nor nothing.
LEMMA LinkIs ==
  ASSUME NEW n, IsLink(n)
  PROVE  n.to \in Paths /\ n # None /\ n # Dir /\ n \notin Files
BY NodeAssumption DEF IsLink, Links

LinkTo(t, q, k) == Leads(SubSeq(q, 1, k - 1), t[SubSeq(q, 1, k)].to)
\* What the link at the first k names of a path leads to is a path.
LEMMA LinkToIs ==
  ASSUME NEW t, NEW q \in Seq(Names), NEW k \in 1 .. Len(q), IsLink(t[SubSeq(q, 1, k)])
  PROVE  LinkTo(t, q, k) \in Seq(Names) /\ LinkTo(t, q, k) # <<>>
<1> DEFINE to == t[SubSeq(q, 1, k)].to
           dir == SubSeq(q, 1, k - 1)
<1>1. to \in Paths
  BY LinkIs
<1> HIDE DEF to
<1>2. to \in Seq(Names) /\ to # <<>>
  BY <1>1, PathIs
<1>3. Name(to) \in Names
  BY <1>2, FrontAndLast
<1>4. dir \in Seq(Names)
  <2>1. Len(q) \in Nat /\ k \in Nat /\ 1 <= k /\ k <= Len(q)
    OBVIOUS
  <2> QED BY <2>1
<1> HIDE DEF dir
<1>5. Append(dir, Name(to)) \in Seq(Names) /\ Append(dir, Name(to)) # <<>>
  BY <1>3, <1>4, AppendIs
<1>6. LinkTo(t, q, k) = Leads(dir, to)
  BY DEF LinkTo, to, dir
<1> QED BY <1>2, <1>5, <1>6 DEF Leads

FirstLink(t, q, k) ==
    /\ k \in 1 .. Len(q) /\ SubSeq(q, 1, k) \in Paths /\ IsLink(t[SubSeq(q, 1, k)])
    /\ \A j \in 1 .. k : j # k => SubSeq(q, 1, j) \in Paths /\ t[SubSeq(q, 1, j)] = Dir
    /\ FirstOf(LinksOn(t, q)) = k
    /\ Hop(t, q) = LinkTo(t, q, k) \o SubSeq(q, k + 1, Len(q))
\* The first link on a path has directories above it.
LEMMA FirstLinkIs ==
  ASSUME NEW t, IsTree(t), NEW q \in Seq(Names), LinksOn(t, q) # {}
  PROVE  \E k : FirstLink(t, q, k)
<1> DEFINE k == FirstOf(LinksOn(t, q))
<1>1. k \in LinksOn(t, q)
  <2>1. LinksOn(t, q) \in SUBSET Nat
    BY DEF LinksOn
  <2> QED BY <2>1, FirstIsThere
<1> HIDE DEF k
<1>2. k \in 1 .. Len(q) /\ SubSeq(q, 1, k) \in Paths /\ IsLink(t[SubSeq(q, 1, k)])
  BY <1>1 DEF LinksOn
<1>3. ASSUME NEW j \in 1 .. k, j # k
      PROVE  SubSeq(q, 1, j) \in Paths /\ t[SubSeq(q, 1, j)] = Dir
  <2> DEFINE x == SubSeq(q, 1, k)
  <2>1. Len(x) = k /\ SubSeq(x, 1, j) = SubSeq(q, 1, j)
    BY <1>2, PrefixIs
  <2>2. t[x] # None
    BY <1>2, LinkIs
  <2>3. SubSeq(x, 1, j) \in Paths /\ t[SubSeq(x, 1, j)] = Dir
    <3>1. x \in Paths /\ j \in 1 .. Len(x) /\ j # Len(x)
      BY <1>2, <1>3, <2>1
    <3> HIDE DEF x
    <3> QED BY <2>2, <3>1, PrefixInPaths, RootedPrefix
  <2> QED BY <2>1, <2>3
<1>4. Hop(t, q) = LinkTo(t, q, k) \o SubSeq(q, k + 1, Len(q))
  BY <1>1 DEF Hop, Follow, LinkTo, k
<1> QED BY <1>2, <1>3, <1>4 DEF FirstLink, k

\* What a hop makes of a path is a path, and not the empty one of another.
LEMMA HopIs ==
  ASSUME NEW t, IsTree(t), NEW q \in Seq(Names)
  PROVE  /\ Hop(t, q) \in Seq(Names)
         /\ q # <<>> => Hop(t, q) # <<>>
         /\ LinksOn(t, q) = {} => Hop(t, q) = q
<1>1. CASE LinksOn(t, q) = {}
  BY <1>1 DEF Hop
<1>2. CASE LinksOn(t, q) # {}
  <2>1. PICK k : FirstLink(t, q, k)
    BY <1>2, FirstLinkIs
  <2> DEFINE to == LinkTo(t, q, k)
             rest == SubSeq(q, k + 1, Len(q))
  <2>2. k \in 1 .. Len(q) /\ Hop(t, q) = to \o rest
    BY <2>1 DEF FirstLink
  <2>3. to \in Seq(Names) /\ to # <<>>
    BY <2>1, LinkToIs DEF FirstLink
  <2>4. rest \in Seq(Names)
    <3>1. Len(q) \in Nat /\ k \in Nat /\ 1 <= k /\ k <= Len(q)
      BY <2>2
    <3> QED BY <3>1
  <2> HIDE DEF to, rest
  <2>5. to \o rest \in Seq(Names)
    BY <2>3, <2>4
  <2>6. to \o rest # <<>>
    <3>1. Len(to \o rest) = Len(to) + Len(rest) /\ Len(to) \in Nat /\ Len(rest) \in Nat
      BY <2>3, <2>4
    <3>2. Len(to) # 0
      BY <2>3
    <3> QED BY <3>1, <3>2
  <2> QED BY <1>2, <2>2, <2>5, <2>6
<1> QED BY <1>1, <1>2

AreHops(h, t, p) ==
    /\ h \in [0 .. MaxHops -> Seq(Names)] /\ h[0] = p
    /\ \A n \in 1 .. MaxHops : h[n] = Hop(t, h[n - 1])
\* Hops follows one link after the other.
LEMMA HopsAre ==
  ASSUME NEW t, IsTree(t), NEW p \in Seq(Names)
  PROVE  AreHops(Hops(t, p), t, p)
<1> DEFINE S == Seq(Names)
           G == [x \in (1 .. MaxHops) \X S |-> Hop(t, x[2])]
           Is(h) == h = [n \in 0 .. MaxHops |-> IF n = 0 THEN p ELSE Hop(t, h[n - 1])]
           a == CHOOSE h : Is(h)
<1>1. MaxHops \in Nat
  BY MaxHopsAssumption
<1>2. G \in [(1 .. MaxHops) \X S -> S]
  <2>1. \A i \in 1 .. MaxHops, x \in S : Hop(t, x) \in S
    BY HopIs
  <2> HIDE DEF S
  <2> QED BY <2>1
<1>3. \A i \in 1 .. MaxHops, x \in S : G[i, x] = Hop(t, x)
  OBVIOUS
<1>4. PICK f \in [0 .. MaxHops -> S] : f[0] = p /\ \A i \in 1 .. MaxHops : f[i] = G[i, f[i - 1]]
  <2>1. Iterates(S, p, MaxHops, G)
    <3> HIDE DEF G, S
    <3>1. p \in S
      BY DEF S
    <3> QED BY <1>1, <1>2, <3>1, Recursion
  <2> QED BY <2>1 DEF Iterates
<1>5. \A i \in 1 .. MaxHops : i - 1 \in 0 .. MaxHops /\ f[i - 1] \in S
  <2>1. \A i \in 1 .. MaxHops : i - 1 \in 0 .. MaxHops
    BY <1>1
  <2> HIDE DEF S
  <2> QED BY <2>1, <1>4
<1>6. \A i \in 1 .. MaxHops : f[i] = Hop(t, f[i - 1])
  <2> HIDE DEF G
  <2> QED BY <1>3, <1>4, <1>5
<1>7. Is(f)
  <2> DEFINE h == [n \in 0 .. MaxHops |-> IF n = 0 THEN p ELSE Hop(t, f[n - 1])]
  <2>1. f = [n \in 0 .. MaxHops |-> f[n]] /\ h = [n \in 0 .. MaxHops |-> h[n]]
    OBVIOUS
  <2>2. \A n \in 0 .. MaxHops : h[n] = IF n = 0 THEN p ELSE Hop(t, f[n - 1])
    OBVIOUS
  <2>3. \A n \in 0 .. MaxHops : f[n] = h[n]
    <3> HIDE DEF h, S
    <3>1. \A n \in 0 .. MaxHops : n # 0 => n \in 1 .. MaxHops
      BY <1>1
    <3> QED BY <2>2, <3>1, <1>4, <1>6
  <2>4. f = h
    <3> HIDE DEF h, S
    <3> QED BY <2>1, <2>3, Zenon
  <2> QED BY <2>4
<1>8. Is(a)
  <2> HIDE DEF Is
  <2> QED BY <1>7
<1>9. Hops(t, p) = a
  BY DEF Hops
<1>10. \A n \in 0 .. MaxHops : a[n] = IF n = 0 THEN p ELSE Hop(t, a[n - 1])
  <2> HIDE DEF a
  <2> QED BY <1>8
<1>11. a = [n \in 0 .. MaxHops |-> a[n]]
  <2> DEFINE h == [n \in 0 .. MaxHops |-> IF n = 0 THEN p ELSE Hop(t, a[n - 1])]
  <2>1. h = [n \in 0 .. MaxHops |-> h[n]]
    OBVIOUS
  <2>2. a = h
    BY <1>8
  <2> HIDE DEF a, h
  <2> QED BY <2>1, <2>2
<1> HIDE DEF a
<1>12. \A n \in 1 .. MaxHops : a[n] = Hop(t, a[n - 1])
  <2>1. \A n \in 1 .. MaxHops : n \in 0 .. MaxHops /\ n # 0
    BY <1>1
  <2> QED BY <2>1, <1>10
<1>13. a[0] = p
  <2>1. 0 \in 0 .. MaxHops
    BY <1>1
  <2> QED BY <2>1, <1>10
<1>14. \A n \in 0 .. MaxHops : a[n] \in S
  <2> DEFINE P == {n \in Nat : n <= MaxHops => a[n] \in S}
  <2>1. 0 \in P
    BY <1>13
  <2>2. ASSUME NEW n \in Nat, n \in P PROVE n + 1 \in P
    <3>1. SUFFICES ASSUME n + 1 <= MaxHops PROVE a[n + 1] \in S
      OBVIOUS
    <3>2. n + 1 \in 1 .. MaxHops /\ (n + 1) - 1 = n /\ a[n] \in S
      BY <1>1, <2>2, <3>1
    <3>3. a[n + 1] = Hop(t, a[n])
      BY <1>12, <3>2
    <3> QED BY <3>2, <3>3, HopIs
  <2>3. Nat \subseteq P
    <3> HIDE DEF P
    <3> QED BY <2>1, <2>2, SetInduction
  <2>4. \A n \in 0 .. MaxHops : n \in Nat /\ n <= MaxHops
    BY <1>1
  <2> QED BY <2>3, <2>4
<1>15. a \in [0 .. MaxHops -> S]
  <2> HIDE DEF S
  <2> QED BY <1>11, <1>14
<1> QED BY <1>9, <1>12, <1>13, <1>15 DEF AreHops

\* The places a resolution comes through, one after the other.
LEMMA HopFacts ==
  ASSUME NEW t, IsTree(t), NEW p \in Seq(Names)
  PROVE  /\ Hops(t, p)[0] = p
         /\ \A n \in Nat : n + 1 <= MaxHops => Hops(t, p)[n + 1] = Hop(t, Hops(t, p)[n])
         /\ \A n \in 0 .. MaxHops : /\ Hops(t, p)[n] \in Seq(Names)
                                    /\ p # <<>> => Hops(t, p)[n] # <<>>
<1> DEFINE h == Hops(t, p)
<1>0. MaxHops \in Nat
  BY MaxHopsAssumption
<1>1. AreHops(h, t, p)
  BY HopsAre
<1> HIDE DEF h
<1>2. \A n \in Nat : n + 1 <= MaxHops => h[n + 1] = Hop(t, h[n])
  <2> SUFFICES ASSUME NEW n \in Nat, n + 1 <= MaxHops PROVE h[n + 1] = Hop(t, h[n])
    OBVIOUS
  <2>1. n + 1 \in 1 .. MaxHops /\ (n + 1) - 1 = n
    BY <1>0
  <2> QED BY <1>1, <2>1 DEF AreHops
<1>3. \A n \in 0 .. MaxHops : h[n] \in Seq(Names)
  BY <1>1 DEF AreHops
<1>4. h[0] = p
  BY <1>1 DEF AreHops
<1>5. ASSUME p # <<>> PROVE \A n \in 0 .. MaxHops : h[n] # <<>>
  <2> DEFINE P == {n \in Nat : n <= MaxHops => h[n] # <<>>}
  <2>1. 0 \in P
    BY <1>4, <1>5
  <2>2. ASSUME NEW n \in Nat, n \in P PROVE n + 1 \in P
    <3>1. SUFFICES ASSUME n + 1 <= MaxHops PROVE h[n + 1] # <<>>
      OBVIOUS
    <3>2. n \in 0 .. MaxHops /\ h[n] # <<>>
      BY <1>0, <2>2, <3>1
    <3>3. h[n] \in Seq(Names) /\ h[n + 1] = Hop(t, h[n])
      BY <1>2, <1>3, <3>1, <3>2
    <3> QED BY <3>2, <3>3, HopIs
  <2>3. Nat \subseteq P
    <3> HIDE DEF P
    <3> QED BY <2>1, <2>2, SetInduction
  <2>4. \A n \in 0 .. MaxHops : n \in Nat /\ n <= MaxHops
    BY <1>0
  <2> QED BY <2>3, <2>4
<1> QED BY <1>2, <1>3, <1>4, <1>5 DEF h

\* Without a link on it, the place of a resolution is the last.
LEMMA Settled ==
  ASSUME NEW t, IsTree(t), NEW p \in Seq(Names), NEW n \in 0 .. MaxHops,
         LinksOn(t, Hops(t, p)[n]) = {}
  PROVE  \A m \in n .. MaxHops : Hops(t, p)[m] = Hops(t, p)[n]
<1> DEFINE h == Hops(t, p)
           P == {d \in Nat : n + d <= MaxHops => h[n + d] = h[n]}
<1>0. MaxHops \in Nat
  BY MaxHopsAssumption
<1>1. 0 \in P
  BY <1>0
<1>2. ASSUME NEW d \in Nat, d \in P PROVE d + 1 \in P
  <2>1. SUFFICES ASSUME n + (d + 1) <= MaxHops PROVE h[n + (d + 1)] = h[n]
    OBVIOUS
  <2> HIDE DEF h
  <2>2. h[n + d] = h[n] /\ n + d \in Nat /\ n + d \in 0 .. MaxHops /\ n + (d + 1) = (n + d) + 1
    BY <1>0, <1>2, <2>1
  <2>3. h[(n + d) + 1] = Hop(t, h[n + d])
    BY <2>1, <2>2, HopFacts DEF h
  <2>4. h[n + d] \in Seq(Names)
    BY <2>2, HopFacts DEF h
  <2>5. Hop(t, h[n + d]) = h[n + d]
    BY <2>2, <2>4, HopIs DEF h
  <2> QED BY <2>2, <2>3, <2>5
<1>3. Nat \subseteq P
  <2> HIDE DEF P
  <2> QED BY <1>1, <1>2, SetInduction
<1>4. ASSUME NEW m \in n .. MaxHops PROVE h[m] = h[n]
  <2>1. m - n \in Nat /\ n + (m - n) <= MaxHops /\ n + (m - n) = m
    BY <1>0
  <2> HIDE DEF h
  <2> QED BY <1>3, <2>1
<1> QED BY <1>4

\* Links and directories that stay as they are lead on as they did.
Agree(t, u) == \A q \in Paths : t[q] = Dir \/ IsLink(t[q]) => u[q] = t[q]

\* Two trees with the same links where a path goes take the same hop.
LEMMA SameHop ==
  ASSUME NEW t, NEW u, IsTree(t), IsTree(u), Agree(t, u), NEW q \in Seq(Names),
         LinksOn(t, q) # {}
  PROVE  Hop(u, q) = Hop(t, q)
<1>1. PICK k : FirstLink(t, q, k)
  BY FirstLinkIs
<1> DEFINE x == SubSeq(q, 1, k)
<1>2. u[x] = t[x] /\ x \in Paths /\ IsLink(u[x]) /\ k \in 1 .. Len(q)
  BY <1>1 DEF FirstLink, Agree
<1>3. LinksOn(u, q) # {}
  BY <1>2 DEF LinksOn
<1>4. PICK j : FirstLink(u, q, j)
  BY <1>3, FirstLinkIs
<1>5. j \in 1 .. Len(q) /\ IsLink(u[SubSeq(q, 1, j)])
  BY <1>4 DEF FirstLink
<1>6. ~(j < k)
  <2>1. SUFFICES ASSUME j < k PROVE FALSE
    OBVIOUS
  <2>2. j \in 1 .. k /\ j # k
    BY <1>2, <1>5, <2>1
  <2>3. SubSeq(q, 1, j) \in Paths /\ t[SubSeq(q, 1, j)] = Dir
    BY <1>1, <2>2 DEF FirstLink
  <2>4. u[SubSeq(q, 1, j)] = Dir
    BY <2>3 DEF Agree
  <2> QED BY <1>5, <2>4, LinkIs
<1>7. ~(k < j)
  <2>1. SUFFICES ASSUME k < j PROVE FALSE
    OBVIOUS
  <2>2. k \in 1 .. j /\ k # j
    BY <1>2, <1>5, <2>1
  <2>3. u[SubSeq(q, 1, k)] = Dir
    BY <1>4, <2>2 DEF FirstLink
  <2> QED BY <1>2, <2>3, LinkIs
<1>8. j = k
  BY <1>2, <1>5, <1>6, <1>7
<1> QED BY <1>1, <1>2, <1>4, <1>8 DEF FirstLink, LinkTo

\* Where two trees have the same links and no link is left on what one of them follows a
\* path to, both follow it there.
LEMMA SameFollowed ==
  ASSUME NEW t, NEW u, IsTree(t), IsTree(u), Agree(t, u), NEW p \in Seq(Names),
         LinksOn(u, Followed(t, p)) = {}
  PROVE  Followed(u, p) = Followed(t, p)
<1> DEFINE h == Hops(t, p)
           g == Hops(u, p)
           P == {n \in Nat : n <= MaxHops => g[n] = h[n]}
<1>0. MaxHops \in Nat
  BY MaxHopsAssumption
<1>1. 0 \in P
  BY HopFacts
<1>2. ASSUME NEW n \in Nat, n \in P PROVE n + 1 \in P
  <2>1. SUFFICES ASSUME n + 1 <= MaxHops PROVE g[n + 1] = h[n + 1]
    OBVIOUS
  <2> HIDE DEF g, h
  <2>2. g[n] = h[n] /\ n \in 0 .. MaxHops
    BY <1>0, <1>2, <2>1
  <2>3. g[n + 1] = Hop(u, h[n]) /\ h[n + 1] = Hop(t, h[n]) /\ h[n] \in Seq(Names)
    <3>1. h[n + 1] = Hop(t, h[n]) /\ h[n] \in Seq(Names)
      BY <2>1, <2>2, HopFacts DEF h
    <3>2. g[n + 1] = Hop(u, g[n])
      BY <2>1, HopFacts DEF g
    <3> QED BY <2>2, <3>1, <3>2
  <2>4. CASE LinksOn(t, h[n]) # {}
    BY <2>3, <2>4, SameHop
  <2>5. CASE LinksOn(t, h[n]) = {}
    <3>1. MaxHops \in n .. MaxHops
      BY <1>0, <2>1
    <3>2. h[MaxHops] = h[n]
      BY <2>2, <2>5, <3>1, Settled DEF h
    <3>3. LinksOn(u, h[n]) = {}
      BY <3>2 DEF Followed, h
    <3>4. Hop(u, h[n]) = h[n] /\ Hop(t, h[n]) = h[n]
      BY <2>3, <2>5, <3>3, HopIs
    <3> QED BY <2>3, <3>4
  <2> QED BY <2>4, <2>5
<1>3. Nat \subseteq P
  <2> HIDE DEF P
  <2> QED BY <1>1, <1>2, SetInduction
<1>4. g[MaxHops] = h[MaxHops]
  <2> HIDE DEF g, h
  <2> QED BY <1>0, <1>3
<1> QED BY <1>4 DEF Followed

\* What realpath finds: a path without a link on it, where there is something.
LEMMA RealpathIs ==
  ASSUME NEW t, IsTree(t), NEW p \in Seq(Names), realpath(t, p) # NoPath
  PROVE  /\ realpath(t, p) = Followed(t, p)
         /\ realpath(t, p) \in Seq(Names)
         /\ LinksOn(t, realpath(t, p)) = {}
         /\ p # <<>> => realpath(t, p) \in Paths
         /\ realpath(t, p) # <<>> =>
               /\ realpath(t, p) \in Paths
               /\ t[realpath(t, p)] # None /\ ~IsLink(t[realpath(t, p)])
<1> DEFINE r == Followed(t, p)
<1>1. r \in Seq(Names) /\ (p # <<>> => r # <<>>)
  <2>1. MaxHops \in 0 .. MaxHops
    BY MaxHopsAssumption
  <2> QED BY <2>1, HopFacts DEF Followed
<1> HIDE DEF r
<1>2. realpath(t, p) = Found(t, r)
  BY DEF realpath, r
<1>3. CASE r = <<>>
  <2>1. Found(t, r) = r
    BY <1>3 DEF Found
  <2>2. LinksOn(t, r) = {}
    BY <1>3 DEF LinksOn
  <2> QED BY <1>1, <1>2, <1>3, <2>1, <2>2 DEF r
<1>4. CASE r # <<>>
  <2>1. r \in Paths /\ t[r] \notin Links \cup {None} /\ Found(t, r) = r
    BY <1>2, <1>4 DEF Found
  <2>2. t[r] # None /\ ~IsLink(t[r])
    BY <2>1 DEF IsLink
  <2>3. LinksOn(t, r) = {}
    <3>1. SUFFICES ASSUME LinksOn(t, r) # {} PROVE FALSE
      OBVIOUS
    <3>2. PICK k \in 1 .. Len(r) : IsLink(t[SubSeq(r, 1, k)])
      BY <3>1 DEF LinksOn
    <3>3. CASE k = Len(r)
      <4>1. SubSeq(r, 1, k) = r
        BY <1>1, <3>2, <3>3, PrefixIs
      <4> QED BY <2>2, <3>2, <4>1
    <3>4. CASE k # Len(r)
      BY <2>1, <2>2, <3>2, <3>4, RootedPrefix, LinkIs
    <3> QED BY <3>3, <3>4
  <2> QED BY <1>1, <1>2, <2>1, <2>2, <2>3 DEF r
<1> QED BY <1>3, <1>4

\* A path without links on it is followed to itself.
LEMMA NoLinksOn ==
  ASSUME NEW t, IsTree(t), NEW p \in Seq(Names), LinksOn(t, p) = {}
  PROVE  Followed(t, p) = p
<1>1. 0 \in 0 .. MaxHops /\ MaxHops \in 0 .. MaxHops
  BY MaxHopsAssumption
<1>2. LinksOn(t, Hops(t, p)[0]) = {}
  BY HopFacts
<1> QED BY <1>1, <1>2, HopFacts, Settled DEF Followed

\* What is there, and is no link, has none on the way.
LEMMA NoLinksAbove ==
  ASSUME NEW t, IsTree(t), NEW p \in Paths, t[p] # None, ~IsLink(t[p])
  PROVE  LinksOn(t, p) = {}
<1>1. SUFFICES ASSUME LinksOn(t, p) # {} PROVE FALSE
  OBVIOUS
<1>2. PICK k \in 1 .. Len(p) : IsLink(t[SubSeq(p, 1, k)])
  BY <1>1 DEF LinksOn
<1>3. CASE k = Len(p)
  <2>1. SubSeq(p, 1, k) = p
    BY <1>2, <1>3, PathIs, PrefixIs
  <2> QED BY <1>2, <2>1
<1>4. CASE k # Len(p)
  BY <1>2, <1>4, RootedPrefix, LinkIs
<1> QED BY <1>3, <1>4

\* A node that is no link is found at its own path.
LEMMA RealpathOfReal ==
  ASSUME NEW t, IsTree(t), NEW p \in Paths, t[p] # None, ~IsLink(t[p])
  PROVE  realpath(t, p) = p /\ stat(t, p) = t[p]
<1>1. p \in Seq(Names) /\ p # <<>> /\ p # NoPath
  BY PathIs, NodeAssumption
<1>2. Followed(t, p) = p
  BY <1>1, NoLinksAbove, NoLinksOn
<1>3. realpath(t, p) = p
  BY <1>1, <1>2 DEF realpath, Found, IsLink
<1> QED BY <1>1, <1>3 DEF stat, NodeAt

\* The root is found, and is a directory.
LEMMA RootIs ==
  ASSUME NEW t, IsTree(t)
  PROVE  realpath(t, <<>>) = <<>> /\ stat(t, <<>>) = Dir /\ <<>> # NoPath /\ <<>> \in Seq(Names)
<1>1. <<>> \in Seq(Names)
  OBVIOUS
<1>2. <<>> # NoPath
  BY <1>1, NodeAssumption
<1>3. LinksOn(t, <<>>) = {}
  BY DEF LinksOn
<1>4. realpath(t, <<>>) = <<>>
  BY <1>1, <1>3, NoLinksOn DEF realpath, Found
<1> QED BY <1>1, <1>2, <1>4 DEF stat, NodeAt

\* A path resolves as before while links, directories and its end stay.
LEMMA RealpathStays ==
  ASSUME NEW t, NEW u, IsTree(t), IsTree(u), Agree(t, u), NEW p \in Seq(Names),
         realpath(t, p) # NoPath,
         realpath(t, p) # <<>> => u[realpath(t, p)] # None /\ ~IsLink(u[realpath(t, p)])
  PROVE  realpath(u, p) = realpath(t, p)
<1> DEFINE r == realpath(t, p)
<1>1. r = Followed(t, p) /\ r \in Seq(Names) /\ (r # <<>> => r \in Paths)
  BY RealpathIs
<1>2. LinksOn(u, r) = {}
  <2>1. CASE r = <<>>
    BY <2>1 DEF LinksOn
  <2>2. CASE r # <<>>
    <3> HIDE DEF r
    <3> QED BY <1>1, <2>2, NoLinksAbove DEF r
  <2> QED BY <2>1, <2>2
<1>3. Followed(u, p) = r
  BY <1>1, <1>2, SameFollowed
<1>4. Found(u, r) = r
  <2> HIDE DEF r
  <2> QED BY <1>1 DEF Found, IsLink, r
<1> QED BY <1>3, <1>4 DEF realpath

\* The tail of a path with one name more is the tail with that name more.
LEMMA TailAppend ==
  ASSUME NEW S, NEW q \in Seq(S), NEW x \in S, NEW k \in 1 .. Len(q)
  PROVE  SubSeq(Append(q, x), k + 1, Len(q) + 1) = Append(SubSeq(q, k + 1, Len(q)), x)
<1> DEFINE n == Len(q)
           a == SubSeq(Append(q, x), k + 1, n + 1)
           c == SubSeq(q, k + 1, n)
           b == Append(c, x)
<1>1. n \in Nat /\ k \in Nat /\ 1 <= k /\ k <= n
  OBVIOUS
<1>2. c \in Seq(S) /\ Len(c) = n - k /\ \A i \in 1 .. n - k : c[i] = q[k + i]
  BY <1>1
<1>3. b \in Seq(S) /\ Len(b) = n - k + 1 /\ b[n - k + 1] = x /\ \A i \in 1 .. n - k : b[i] = q[k + i]
  <2> HIDE DEF c, n
  <2>1. n - k \in Nat
    BY <1>1
  <2> QED BY <1>1, <1>2, <2>1
<1>4. Append(q, x) \in Seq(S) /\ Len(Append(q, x)) = n + 1 /\ Append(q, x)[n + 1] = x
      /\ \A i \in 1 .. n : Append(q, x)[i] = q[i]
  OBVIOUS
<1>5. a \in Seq(S) /\ Len(a) = n - k + 1 /\ \A i \in 1 .. n - k + 1 : a[i] = Append(q, x)[k + i]
  <2> DEFINE p == Append(q, x)
  <2>1. p \in Seq(S) /\ Len(p) = n + 1
    BY <1>4
  <2> HIDE DEF p, n
  <2>2. SubSeq(p, k + 1, n + 1) \in Seq(S) /\ Len(SubSeq(p, k + 1, n + 1)) = n - k + 1
        /\ \A i \in 1 .. n - k + 1 : SubSeq(p, k + 1, n + 1)[i] = p[k + i]
    BY <1>1, <2>1
  <2> QED BY <2>2 DEF p
<1> HIDE DEF a, b, c, n
<1>6. \A i \in 1 .. n - k + 1 : a[i] = b[i]
  <2> SUFFICES ASSUME NEW i \in 1 .. n - k + 1 PROVE a[i] = b[i]
    OBVIOUS
  <2>1. CASE i = n - k + 1
    <3>1. k + i = n + 1
      BY <1>1, <2>1
    <3> QED BY <1>3, <1>4, <1>5, <2>1, <3>1
  <2>2. CASE i # n - k + 1
    <3>1. i \in 1 .. n - k /\ k + i \in 1 .. n
      BY <1>1, <2>2
    <3> QED BY <1>3, <1>4, <1>5, <3>1
  <2> QED BY <2>1, <2>2
<1>7. a = b
  BY <1>3, <1>5, <1>6
<1> QED BY <1>7 DEF a, b, c, n

\* A path and its directory are followed in step, as far as there are links
\* on the directory.
LEMMA InStep ==
  ASSUME NEW t, IsTree(t), NEW q \in Seq(Names), NEW x \in Names, LinksOn(t, q) # {}
  PROVE  Hop(t, Append(q, x)) = Append(Hop(t, q), x)
<1> DEFINE p == Append(q, x)
<1>0. p \in Seq(Names) /\ Len(q) \in Nat /\ Len(p) = Len(q) + 1
      /\ \A j \in 1 .. Len(q) : SubSeq(p, 1, j) = SubSeq(q, 1, j)
  BY AppendIs
<1>1. PICK k : FirstLink(t, q, k)
  BY FirstLinkIs
<1>2. k \in 1 .. Len(q) /\ SubSeq(q, 1, k) \in Paths /\ IsLink(t[SubSeq(q, 1, k)])
  BY <1>1 DEF FirstLink
<1>3. k \in LinksOn(t, p)
  <2>1. k \in 1 .. Len(p)
    BY <1>0, <1>2
  <2> HIDE DEF p
  <2> QED BY <1>0, <1>2, <2>1 DEF LinksOn
<1>4. PICK j : FirstLink(t, p, j)
  BY <1>0, <1>3, FirstLinkIs
<1>5. j \in 1 .. Len(p) /\ IsLink(t[SubSeq(p, 1, j)])
  BY <1>4 DEF FirstLink
<1> HIDE DEF p
<1>6. ~(j < k)
  <2>1. SUFFICES ASSUME j < k PROVE FALSE
    OBVIOUS
  <2>2. j \in 1 .. k /\ j # k /\ j \in 1 .. Len(q)
    BY <1>0, <1>2, <1>5, <2>1
  <2>3. t[SubSeq(q, 1, j)] = Dir
    BY <1>1, <2>2 DEF FirstLink
  <2> QED BY <1>0, <1>5, <2>2, <2>3, LinkIs
<1>7. ~(k < j)
  <2>1. SUFFICES ASSUME k < j PROVE FALSE
    OBVIOUS
  <2>2. k \in 1 .. j /\ k # j
    BY <1>2, <1>5, <1>0, <2>1
  <2>3. t[SubSeq(p, 1, k)] = Dir
    BY <1>4, <2>2 DEF FirstLink
  <2> QED BY <1>0, <1>2, <2>3, LinkIs
<1>8. j = k
  BY <1>0, <1>2, <1>5, <1>6, <1>7
<1> DEFINE to == LinkTo(t, q, k)
<1>9. Hop(t, p) = to \o SubSeq(p, k + 1, Len(p)) /\ Hop(t, q) = to \o SubSeq(q, k + 1, Len(q))
  <2>1. SubSeq(p, 1, k - 1) = SubSeq(q, 1, k - 1)
    <3>1. CASE k = 1
      BY <3>1
    <3>2. CASE k # 1
      <4>1. k - 1 \in 1 .. Len(q)
        BY <1>2, <3>2
      <4> QED BY <1>0, <4>1
    <3> QED BY <3>1, <3>2
  <2>2. LinkTo(t, p, k) = LinkTo(t, q, k)
    BY <1>0, <1>2, <2>1 DEF LinkTo
  <2> QED BY <1>1, <1>4, <1>8, <2>2 DEF FirstLink
<1>10. to \in Seq(Names)
  BY <1>2, LinkToIs
<1> HIDE DEF to
<1>11. SubSeq(p, k + 1, Len(p)) = Append(SubSeq(q, k + 1, Len(q)), x)
  BY <1>0, <1>2, TailAppend DEF p
<1>12. SubSeq(q, k + 1, Len(q)) \in Seq(Names)
  <2>1. Len(q) \in Nat /\ k \in Nat /\ 1 <= k /\ k <= Len(q)
    BY <1>2
  <2> QED BY <2>1
<1>13. \A a, b \in Seq(Names) : a \o Append(b, x) = Append(a \o b, x)
  OBVIOUS
<1> QED BY <1>9, <1>10, <1>11, <1>12, <1>13 DEF p

\* From a place it comes through, a resolution goes on as from there.
LEMMA Continues ==
  ASSUME NEW t, IsTree(t), NEW p \in Seq(Names), NEW e \in Seq(Names),
         NEW n \in 0 .. MaxHops, Hops(t, p)[n] = e
  PROVE  /\ LinksOn(t, Followed(t, p)) = {} => Followed(t, p) = Followed(t, e)
         /\ LinksOn(t, e) = {} => Followed(t, p) = e
<1> DEFINE h == Hops(t, p)
           g == Hops(t, e)
           P == {d \in Nat : n + d <= MaxHops => h[n + d] = g[d]}
<1>0. MaxHops \in Nat
  BY MaxHopsAssumption
<1>1. 0 \in P
  <2>1. n + 0 = n /\ g[0] = e
    BY HopFacts
  <2> QED BY <2>1
<1>2. ASSUME NEW d \in Nat, d \in P PROVE d + 1 \in P
  <2>1. SUFFICES ASSUME n + (d + 1) <= MaxHops PROVE h[n + (d + 1)] = g[d + 1]
    OBVIOUS
  <2> HIDE DEF h, g
  <2>2. h[n + d] = g[d] /\ n + d \in Nat /\ d + 1 <= MaxHops /\ n + (d + 1) = (n + d) + 1
    BY <1>0, <1>2, <2>1
  <2>3. h[(n + d) + 1] = Hop(t, h[n + d]) /\ g[d + 1] = Hop(t, g[d])
    BY <2>1, <2>2, HopFacts DEF h, g
  <2> QED BY <2>2, <2>3
<1>3. Nat \subseteq P
  <2> HIDE DEF P
  <2> QED BY <1>1, <1>2, SetInduction
<1> DEFINE d == MaxHops - n
<1>4. d \in Nat /\ n + d = MaxHops /\ d \in 0 .. MaxHops /\ MaxHops \in d .. MaxHops /\ MaxHops \in n .. MaxHops
  BY <1>0
<1>5. h[MaxHops] = g[d]
  <2> HIDE DEF h, g, d
  <2> QED BY <1>0, <1>3, <1>4
<1> HIDE DEF d
<1>6. ASSUME LinksOn(t, Followed(t, p)) = {} PROVE Followed(t, p) = Followed(t, e)
  <2>1. LinksOn(t, g[d]) = {}
    BY <1>5, <1>6 DEF Followed
  <2>2. g[MaxHops] = g[d]
    BY <1>4, <2>1, Settled
  <2> QED BY <1>5, <2>2 DEF Followed
<1>7. ASSUME LinksOn(t, e) = {} PROVE Followed(t, p) = e
  BY <1>4, <1>7, Settled DEF Followed
<1> QED BY <1>6, <1>7

\* While links are left on a path, a path with one name more takes the same hops.
LEMMA InStepTo ==
  ASSUME NEW t, IsTree(t), NEW q \in Seq(Names), NEW x \in Names, NEW n \in 0 .. MaxHops,
         \A m \in 0 .. n : m < n => LinksOn(t, Hops(t, q)[m]) # {}
  PROVE  Hops(t, Append(q, x))[n] = Append(Hops(t, q)[n], x)
<1> DEFINE p == Append(q, x)
           h == Hops(t, p)
           g == Hops(t, q)
           P == {m \in Nat : m <= n => h[m] = Append(g[m], x)}
<1>0. MaxHops \in Nat /\ p \in Seq(Names) /\ n \in Nat /\ n <= MaxHops
  BY MaxHopsAssumption, AppendIs
<1>1. 0 \in P
  <2> HIDE DEF p
  <2>1. h[0] = p /\ g[0] = q
    BY <1>0, HopFacts
  <2> HIDE DEF g, h
  <2> QED BY <2>1 DEF p
<1>2. ASSUME NEW m \in Nat, m \in P PROVE m + 1 \in P
  <2>1. SUFFICES ASSUME m + 1 <= n PROVE h[m + 1] = Append(g[m + 1], x)
    OBVIOUS
  <2> HIDE DEF g, h, p
  <2>2. h[m] = Append(g[m], x) /\ m + 1 <= MaxHops /\ m \in 0 .. MaxHops
    BY <1>0, <1>2, <2>1
  <2>3. h[m + 1] = Hop(t, h[m]) /\ g[m + 1] = Hop(t, g[m]) /\ g[m] \in Seq(Names)
    <3>1. h[m + 1] = Hop(t, h[m])
      BY <1>0, <2>2, HopFacts DEF h
    <3>2. g[m + 1] = Hop(t, g[m]) /\ g[m] \in Seq(Names)
      BY <2>2, HopFacts DEF g
    <3> QED BY <3>1, <3>2
  <2>4. LinksOn(t, g[m]) # {}
    <3>1. m \in 0 .. n /\ m < n
      BY <1>0, <2>1
    <3> QED BY <3>1 DEF g
  <2>5. Hop(t, Append(g[m], x)) = Append(Hop(t, g[m]), x)
    BY <2>3, <2>4, InStep
  <2> QED BY <2>2, <2>3, <2>5
<1>3. Nat \subseteq P
  <2> HIDE DEF P
  <2> QED BY <1>1, <1>2, SetInduction
<1>4. h[n] = Append(g[n], x)
  <2> HIDE DEF g, h, p
  <2> QED BY <1>0, <1>3
<1> QED BY <1>4

\* The resolution of a path comes to the name in its directory.
LEMMA ReachesName ==
  ASSUME NEW t, IsTree(t), NEW q \in Seq(Names), NEW x \in Names, NEW m \in 0 .. MaxHops,
         LinksOn(t, Hops(t, q)[m]) = {}
  PROVE  \E n \in 0 .. MaxHops : Hops(t, Append(q, x))[n] = Append(Followed(t, q), x)
<1> DEFINE S == {n \in 0 .. MaxHops : LinksOn(t, Hops(t, q)[n]) = {}}
           n == FirstOf(S)
<1>0. MaxHops \in Nat
  BY MaxHopsAssumption
<1>1. n \in S /\ \A k \in S : n <= k
  <2>1. S \in SUBSET Nat /\ S # {}
    BY <1>0
  <2> HIDE DEF S
  <2> QED BY <2>1, FirstIsThere
<1>2. n \in 0 .. MaxHops /\ LinksOn(t, Hops(t, q)[n]) = {}
  BY <1>1
<1>3. \A k \in 0 .. n : k < n => LinksOn(t, Hops(t, q)[k]) # {}
  <2> HIDE DEF n
  <2>1. SUFFICES ASSUME NEW k \in 0 .. n, k < n, LinksOn(t, Hops(t, q)[k]) = {} PROVE FALSE
    OBVIOUS
  <2>2. k \in S
    BY <1>0, <1>2, <2>1
  <2> HIDE DEF S
  <2>3. n <= k
    BY <1>1, <2>2
  <2> QED BY <1>2, <2>1, <2>3
<1> HIDE DEF n, S
<1>4. Followed(t, q) = Hops(t, q)[n]
  <2>1. MaxHops \in n .. MaxHops
    BY <1>0, <1>2
  <2> QED BY <1>2, <2>1, Settled DEF Followed
<1>5. Hops(t, Append(q, x))[n] = Append(Hops(t, q)[n], x)
  BY <1>2, <1>3, InStepTo
<1> QED BY <1>2, <1>4, <1>5

\* What is in the tree is in a directory.
LEMMA ParentInTree ==
  ASSUME NEW t, IsTree(t), NEW e \in Paths, t[e] # None
  PROVE  NodeAt(t, Parent(e)) = Dir
<1>1. e \in Seq(Names) /\ Len(e) \in Nat /\ Len(e) >= 1 /\ (Len(e) > 1 => Parent(e) \in Paths)
  BY PathIs
<1>2. CASE Len(e) > 1
  <2>1. t[Parent(e)] = Dir
    BY <1>2 DEF IsTree, Rooted
  <2>2. Parent(e) # <<>> /\ Parent(e) # NoPath
    BY <1>1, <1>2, PathIs, NodeAssumption
  <2> QED BY <2>1, <2>2 DEF NodeAt
<1>3. CASE ~(Len(e) > 1)
  <2>1. Parent(e) = <<>>
    BY <1>1, <1>3 DEF Parent
  <2> QED BY <2>1, RootIs DEF NodeAt
<1> QED BY <1>2, <1>3

\* Where a path is looked up: the name in the directory its parent resolves to.
Lookup(t, p, dir, e) ==
    /\ dir \in Seq(Names) /\ dir # NoPath /\ e = Append(dir, Name(p))
    /\ e \in Seq(Names) /\ e # <<>> /\ Parent(e) = dir /\ Name(e) = Name(p)
    /\ e \notin Paths \/ ~IsLink(t[e]) =>
          LinksOn(t, e) = {} /\ Followed(t, p) = e /\ realpath(t, p) = Found(t, e)
    /\ LinksOn(t, Followed(t, p)) = {} => Followed(t, p) = Followed(t, e)
    /\ Entry(t, p) = IF e \in Paths THEN e ELSE NoPath
\* The last step of a lookup, from the directory that was found.
LEMMA LookupIs ==
  ASSUME NEW t, IsTree(t), NEW p \in Seq(Names), p # <<>>,
         NodeAt(t, realpath(t, Parent(p))) = Dir
  PROVE  Lookup(t, p, realpath(t, Parent(p)), Append(realpath(t, Parent(p)), Name(p)))
<1> DEFINE q == Parent(p)
           x == Name(p)
           dir == realpath(t, q)
           e == Append(dir, x)
<1>1. q \in Seq(Names) /\ x \in Names /\ Append(q, x) = p
  BY FrontAndLast
<1>2. dir # NoPath
  BY NodeAssumption DEF NodeAt
<1>3. dir = Followed(t, q) /\ dir \in Seq(Names) /\ LinksOn(t, dir) = {} /\ (dir # <<>> => dir \in Paths)
  <2> HIDE DEF q
  <2> QED BY <1>1, <1>2, RealpathIs
<1> HIDE DEF q, x, dir
<1>4. e \in Seq(Names) /\ e # <<>> /\ Parent(e) = dir /\ Name(e) = x
      /\ Len(e) = Len(dir) + 1 /\ \A k \in 1 .. Len(dir) : SubSeq(e, 1, k) = SubSeq(dir, 1, k)
  BY <1>1, <1>3, AppendIs
<1> HIDE DEF e
<1>5. PICK n \in 0 .. MaxHops : Hops(t, p)[n] = e
  <2>1. MaxHops \in 0 .. MaxHops
    BY MaxHopsAssumption
  <2>2. LinksOn(t, Hops(t, q)[MaxHops]) = {}
    BY <1>3 DEF Followed
  <2> QED BY <1>1, <1>3, <2>1, <2>2, ReachesName DEF e
<1>6. ASSUME e \notin Paths \/ ~IsLink(t[e]) PROVE LinksOn(t, e) = {}
  <2>1. SUFFICES ASSUME NEW k \in LinksOn(t, e) PROVE FALSE
    OBVIOUS
  <2>2. k \in 1 .. Len(e) /\ SubSeq(e, 1, k) \in Paths /\ IsLink(t[SubSeq(e, 1, k)])
    BY <2>1 DEF LinksOn
  <2>3. CASE k = Len(e)
    <3>1. SubSeq(e, 1, k) = e
      BY <1>4, <2>2, <2>3, PrefixIs
    <3> QED BY <1>6, <2>2, <3>1
  <2>4. CASE k # Len(e)
    <3>1. k \in 1 .. Len(dir)
      BY <1>3, <1>4, <2>2, <2>4
    <3>2. k \in LinksOn(t, dir)
      BY <1>4, <2>2, <3>1 DEF LinksOn
    <3> QED BY <1>3, <3>2
  <2> QED BY <2>3, <2>4
<1>7. ASSUME e \notin Paths \/ ~IsLink(t[e])
      PROVE  LinksOn(t, e) = {} /\ Followed(t, p) = e /\ realpath(t, p) = Found(t, e)
  BY <1>4, <1>5, <1>6, <1>7, Continues DEF realpath
<1>8. LinksOn(t, Followed(t, p)) = {} => Followed(t, p) = Followed(t, e)
  BY <1>4, <1>5, Continues
<1>9. Entry(t, p) = IF e \in Paths THEN e ELSE NoPath
  <2>1. NodeAt(t, dir) = Dir
    BY DEF dir, q
  <2> QED BY <2>1 DEF Entry, In, e, dir, q, x
<1> QED BY <1>2, <1>3, <1>4, <1>7, <1>8, <1>9 DEF Lookup, e, dir, q, x

\* What a path resolves to is in a directory, to which the path's parent leads.
LEMMA ParentIsDir ==
  ASSUME NEW t, IsTree(t), NEW p \in Seq(Names), p # <<>>, realpath(t, p) # NoPath
  PROVE  NodeAt(t, realpath(t, Parent(p))) = Dir
<1> DEFINE q == Parent(p)
           x == Name(p)
<1>0. MaxHops \in Nat
  BY MaxHopsAssumption
<1>1. q \in Seq(Names) /\ x \in Names /\ Append(q, x) = p
  BY FrontAndLast
<1> HIDE DEF q, x
<1>2. LinksOn(t, Followed(t, p)) = {} /\ Followed(t, p) \in Paths /\ t[Followed(t, p)] # None
  <2>1. Followed(t, p) = realpath(t, p) /\ realpath(t, p) \in Paths /\ LinksOn(t, realpath(t, p)) = {}
    BY RealpathIs
  <2>2. realpath(t, p) # <<>>
    BY <2>1, PathIs
  <2> QED BY <2>1, <2>2, RealpathIs
<1>3. \E m \in 0 .. MaxHops : LinksOn(t, Hops(t, q)[m]) = {}
  <2>1. SUFFICES ASSUME \A m \in 0 .. MaxHops : LinksOn(t, Hops(t, q)[m]) # {} PROVE FALSE
    OBVIOUS
  <2> DEFINE g == Hops(t, q)[MaxHops]
  <2>2. Hops(t, p)[MaxHops] = Append(g, x)
    <3>1. MaxHops \in 0 .. MaxHops /\ \A m \in 0 .. MaxHops : m < MaxHops => LinksOn(t, Hops(t, q)[m]) # {}
      BY <1>0, <2>1
    <3> QED BY <1>1, <3>1, InStepTo
  <2>3. g \in Seq(Names) /\ LinksOn(t, g) # {}
    <3>1. MaxHops \in 0 .. MaxHops
      BY <1>0
    <3> QED BY <1>1, <2>1, <3>1, HopFacts
  <2> HIDE DEF g
  <2>4. PICK k \in LinksOn(t, g) : TRUE
    BY <2>3
  <2>5. k \in 1 .. Len(g) /\ SubSeq(g, 1, k) \in Paths /\ IsLink(t[SubSeq(g, 1, k)])
    BY <2>4 DEF LinksOn
  <2>6. k \in 1 .. Len(Append(g, x)) /\ SubSeq(Append(g, x), 1, k) = SubSeq(g, 1, k)
    <3>1. Len(Append(g, x)) = Len(g) + 1 /\ Len(g) \in Nat
      BY <1>1, <2>3, AppendIs
    <3>2. SubSeq(Append(g, x), 1, k) = SubSeq(g, 1, k)
      BY <1>1, <2>3, <2>5, AppendIs
    <3> QED BY <2>5, <3>1, <3>2
  <2>7. k \in LinksOn(t, Append(g, x))
    BY <2>5, <2>6 DEF LinksOn
  <2> QED BY <1>2, <2>2, <2>7 DEF Followed
<1> DEFINE dir == Followed(t, q)
           e == Append(dir, x)
<1>4. LinksOn(t, dir) = {} /\ dir \in Seq(Names)
  <2>1. PICK m \in 0 .. MaxHops : LinksOn(t, Hops(t, q)[m]) = {}
    BY <1>3
  <2>2. MaxHops \in m .. MaxHops /\ MaxHops \in 0 .. MaxHops
    BY <1>0
  <2>3. Hops(t, q)[MaxHops] = Hops(t, q)[m]
    BY <1>1, <2>1, <2>2, Settled
  <2> QED BY <1>1, <2>1, <2>2, <2>3, HopFacts DEF Followed
<1>5. PICK n \in 0 .. MaxHops : Hops(t, p)[n] = e
  BY <1>1, <1>3, ReachesName
<1> HIDE DEF dir
<1>6. e \in Seq(Names) /\ Parent(e) = dir /\ Len(e) = Len(dir) + 1 /\ Len(dir) \in Nat
      /\ \A k \in 1 .. Len(dir) : SubSeq(e, 1, k) = SubSeq(dir, 1, k)
  BY <1>1, <1>4, AppendIs
<1> HIDE DEF e
<1>7. e \in Paths /\ t[e] # None
  <2>1. CASE LinksOn(t, e) = {}
    <3>1. Followed(t, p) = e
      BY <1>5, <1>6, <2>1, Continues
    <3> QED BY <1>2, <3>1
  <2>2. CASE LinksOn(t, e) # {}
    <3>1. PICK k \in 1 .. Len(e) : SubSeq(e, 1, k) \in Paths /\ IsLink(t[SubSeq(e, 1, k)])
      BY <2>2 DEF LinksOn
    <3>2. k = Len(e)
      <4>1. SUFFICES ASSUME k # Len(e) PROVE FALSE
        OBVIOUS
      <4>2. k \in 1 .. Len(dir)
        BY <1>6, <3>1, <4>1
      <4>3. k \in LinksOn(t, dir)
        BY <1>6, <3>1, <4>2 DEF LinksOn
      <4> QED BY <1>4, <4>3
    <3>3. SubSeq(e, 1, k) = e
      BY <1>6, <3>1, <3>2, PrefixIs
    <3> QED BY <3>1, <3>3, LinkIs
  <2> QED BY <2>1, <2>2
<1>8. NodeAt(t, dir) = Dir
  BY <1>6, <1>7, ParentInTree
<1>9. realpath(t, q) = dir
  <2>1. dir # NoPath
    BY <1>4, NodeAssumption
  <2>2. CASE dir = <<>>
    BY <2>2 DEF realpath, Found, dir
  <2>3. CASE dir # <<>>
    <3>1. t[dir] = Dir
      BY <1>8, <2>1, <2>3 DEF NodeAt
    <3>2. dir \in Paths
      <4>1. Len(e) > 1
        BY <1>6, <2>3, <1>4
      <4> QED BY <1>6, <1>7, <4>1, PathIs
    <3>3. t[dir] \notin Links \cup {None}
      BY <3>1, NodeAssumption
    <3> QED BY <2>3, <3>2, <3>3 DEF realpath, Found, dir
  <2> QED BY <2>2, <2>3
<1> QED BY <1>8, <1>9 DEF q

-----------------------------------------------------------------------------
\* u has all that t has.
Grows(t, u) == \A q \in Paths : t[q] # None => u[q] = t[q]

\* Growing is reflexive and transitive.
LEMMA GrowsOn ==
  ASSUME NEW t, NEW u, NEW v
  PROVE  Grows(t, t) /\ (Grows(t, u) /\ Grows(u, v) => Grows(t, v))
BY DEF Grows

\* A path that is found stays where it is while the tree grows.
LEMMA GrowsResolves ==
  ASSUME NEW t, NEW u, IsTree(t), IsTree(u), Grows(t, u), NEW p \in Seq(Names),
         realpath(t, p) # NoPath
  PROVE  realpath(u, p) = realpath(t, p) /\ stat(u, p) = stat(t, p)
<1> DEFINE r == realpath(t, p)
<1>1. Agree(t, u)
  BY NodeAssumption, LinkIs DEF Agree, Grows
<1>2. r # <<>> => r \in Paths /\ t[r] # None /\ ~IsLink(t[r])
  BY RealpathIs
<1> HIDE DEF r
<1>3. r # <<>> => u[r] # None /\ ~IsLink(u[r]) /\ u[r] = t[r]
  BY <1>2 DEF Grows
<1>4. realpath(u, p) = r
  BY <1>1, <1>3, RealpathStays DEF r
<1>5. stat(u, p) = stat(t, p)
  BY <1>2, <1>3, <1>4 DEF stat, NodeAt, r
<1> QED BY <1>4, <1>5 DEF r

\* stat answers when realpath does.
LEMMA StatIs ==
  ASSUME NEW t, IsTree(t), NEW p \in Seq(Names)
  PROVE  /\ stat(t, p) \in {None, Dir} \cup Files
         /\ stat(t, p) # None <=> realpath(t, p) # NoPath
         /\ stat(t, p) # None /\ p # <<>> =>
               realpath(t, p) \in Paths /\ stat(t, p) = t[realpath(t, p)]
<1>1. CASE realpath(t, p) = NoPath
  BY <1>1 DEF stat, NodeAt
<1>2. CASE realpath(t, p) # NoPath
  <2>1. CASE realpath(t, p) = <<>>
    <3>1. p = <<>>
      <4>1. p # <<>> => realpath(t, p) \in Paths
        BY <1>2, RealpathIs
      <4> QED BY <2>1, <4>1, PathIs
    <3>2. stat(t, p) = Dir
      BY <1>2, <2>1 DEF stat, NodeAt
    <3> QED BY <1>2, <3>1, <3>2, NodeAssumption
  <2>2. CASE realpath(t, p) # <<>>
    <3> DEFINE r == realpath(t, p)
    <3>1. r \in Paths /\ t[r] # None /\ ~IsLink(t[r])
      BY <1>2, <2>2, RealpathIs
    <3>2. t[r] \in Node
      BY <3>1 DEF IsTree
    <3>3. stat(t, p) = t[r]
      BY <1>2, <2>2 DEF stat, NodeAt
    <3> QED BY <1>2, <3>1, <3>2, <3>3 DEF Node, IsLink
  <2> QED BY <2>1, <2>2
<1> QED BY <1>1, <1>2

\* stat gives the node at the path that was found.
LEMMA StatOfFound ==
  ASSUME NEW t, IsTree(t), NEW p \in Seq(Names), NEW e \in Paths, realpath(t, p) = e
  PROVE  stat(t, p) = t[e]
<1>1. e # NoPath /\ e # <<>>
  BY PathIs, NodeAssumption
<1> QED BY <1>1 DEF stat, NodeAt

\* Where the last name of a path is looked up.
LEMMA EntryIs ==
  ASSUME NEW t, IsTree(t), NEW p \in Seq(Names), p # <<>>, Entry(t, p) # NoPath
  PROVE  /\ Entry(t, p) \in Paths
         /\ NodeAt(t, realpath(t, Parent(p))) = Dir
         /\ Lookup(t, p, realpath(t, Parent(p)), Entry(t, p))
         /\ NodeAt(t, Parent(Entry(t, p))) = Dir
<1>1. NodeAt(t, realpath(t, Parent(p))) = Dir /\ Entry(t, p) = Append(realpath(t, Parent(p)), Name(p))
      /\ Entry(t, p) \in Paths
  BY DEF Entry, In
<1>2. Lookup(t, p, realpath(t, Parent(p)), Entry(t, p))
  BY <1>1, LookupIs
<1>3. Parent(Entry(t, p)) = realpath(t, Parent(p))
  BY <1>2 DEF Lookup
<1> QED BY <1>1, <1>2, <1>3

\* A path whose directory is there, and no path through links, is its own entry.
LEMMA EntryOfPlace ==
  ASSUME NEW t, IsTree(t), NEW e \in Paths, NodeAt(t, Parent(e)) = Dir
  PROVE  Entry(t, e) = e
<1> DEFINE d == Parent(e)
<1>1. e \in Seq(Names) /\ e # <<>> /\ Append(d, Name(e)) = e /\ d \in Seq(Names)
  BY PathIs, FrontAndLast
<1>2. realpath(t, d) = d
  <2>1. CASE d = <<>>
    BY <2>1, RootIs
  <2>2. CASE d # <<>>
    <3>1. d \in Paths
      <4>1. Len(e) > 1
        <5>1. Len(d) = Len(e) - 1 /\ Len(e) \in Nat /\ Len(d) \in Nat
          BY <1>1, FrontAndLast
        <5>2. Len(d) # 0
          BY <1>1, <2>2
        <5> QED BY <5>1, <5>2
      <4> QED BY <4>1, PathIs
    <3>2. t[d] = Dir
      BY <2>2, NodeAssumption DEF NodeAt
    <3>3. t[d] # None /\ ~IsLink(t[d])
      BY <3>2, NodeAssumption, LinkIs
    <3> HIDE DEF d
    <3> QED BY <3>1, <3>3, RealpathOfReal
  <2> QED BY <2>1, <2>2
<1> QED BY <1>1, <1>2 DEF Entry, In

\* The node at a path of the tree.
LEMMA NodeAtIs ==
  ASSUME NEW t, NEW p \in Paths
  PROVE  NodeAt(t, p) = t[p]
<1>1. p # NoPath /\ p # <<>>
  BY PathIs, NodeAssumption
<1> QED BY <1>1 DEF NodeAt

\* A node where there was none, in a directory.
LEMMA PutIs ==
  ASSUME NEW t, IsTree(t), NEW e \in Paths, t[e] = None, NodeAt(t, Parent(e)) = Dir,
         NEW n \in Node
  PROVE  /\ IsTree(Put(t, e, n)) /\ Grows(t, Put(t, e, n)) /\ Put(t, e, n)[e] = n
         /\ \A q \in Paths : q # e => Put(t, e, n)[q] = t[q]
<1> DEFINE u == Put(t, e, n)
<1>1. u \in [Paths -> Node] /\ u[e] = n /\ \A q \in Paths : q # e => u[q] = t[q]
  BY DEF Put, IsTree
<1>2. Grows(t, u)
  BY <1>1 DEF Grows
<1>3. ASSUME NEW q \in Paths, u[q] # None, Len(q) > 1 PROVE u[Parent(q)] = Dir
  <2>1. Parent(q) \in Paths /\ Len(q) \in Nat /\ q \in Seq(Names) /\ q # <<>>
    BY <1>3, PathIs
  <2>2. t[Parent(q)] = Dir
    <3>1. CASE q = e
      BY <2>1, <3>1, NodeAtIs
    <3>2. CASE q # e
      BY <1>1, <1>3, <3>2 DEF IsTree, Rooted
    <3> QED BY <3>1, <3>2
  <2>3. Parent(q) # e
    BY <2>2, NodeAssumption
  <2> QED BY <1>1, <2>1, <2>2, <2>3
<1> HIDE DEF u
<1>4. IsTree(u)
  BY <1>1, <1>3 DEF IsTree, Rooted
<1> QED BY <1>1, <1>2, <1>4 DEF u

\* Taking away what is no directory.
LEMMA TakeIs ==
  ASSUME NEW t, IsTree(t), NEW e \in Paths, t[e] # Dir
  PROVE  /\ IsTree(Put(t, e, None)) /\ Grows(Put(t, e, None), t) /\ Put(t, e, None)[e] = None
         /\ \A q \in Paths : q # e => Put(t, e, None)[q] = t[q]
<1> DEFINE u == Put(t, e, None)
<1>1. u \in [Paths -> Node] /\ u[e] = None /\ \A q \in Paths : q # e => u[q] = t[q]
  BY DEF Put, IsTree, Node
<1>2. Grows(u, t)
  BY <1>1 DEF Grows
<1>3. ASSUME NEW q \in Paths, u[q] # None, Len(q) > 1 PROVE u[Parent(q)] = Dir
  <2>1. Parent(q) \in Paths /\ q # e
    BY <1>1, <1>3, PathIs
  <2>2. t[Parent(q)] = Dir
    BY <1>1, <1>3, <2>1 DEF IsTree, Rooted
  <2> QED BY <1>1, <2>1, <2>2
<1> HIDE DEF u
<1>4. IsTree(u)
  BY <1>1, <1>3 DEF IsTree, Rooted
<1> QED BY <1>1, <1>2, <1>4 DEF u

\* What a call that makes one node answers, and leaves.
Makes(t, w, e, n) ==
    /\ w.ok \in BOOLEAN /\ IsTree(w.tree) /\ Grows(t, w.tree)
    /\ ~w.ok => w.tree = t /\ (e = NoPath \/ t[e] # None)
    /\ w.ok => /\ e \in Paths /\ t[e] = None /\ w.tree = Put(t, e, n) /\ w.tree[e] = n
               /\ \A q \in Paths : q # e => w.tree[q] = t[q]
\* Placing a node makes it, or fails.
LEMMA PlacedIs ==
  ASSUME NEW t, IsTree(t), NEW e \in Paths \cup {NoPath},
         e # NoPath => NodeAt(t, Parent(e)) = Dir, NEW n \in Node
  PROVE  Makes(t, Placed(t, e, n), e, n)
<1>1. CASE e # NoPath /\ t[e] = None
  <2>1. Placed(t, e, n) = [tree |-> Put(t, e, n), ok |-> TRUE]
    BY <1>1, NodeAtIs DEF Placed, Done
  <2>2. e \in Paths /\ NodeAt(t, Parent(e)) = Dir
    BY <1>1
  <2> QED BY <1>1, <2>1, <2>2, PutIs DEF Makes
<1>2. CASE ~(e # NoPath /\ t[e] = None)
  <2>1. Placed(t, e, n) = [tree |-> t, ok |-> FALSE]
    BY <1>2, NodeAtIs DEF Placed, Failed
  <2> QED BY <1>2, <2>1, GrowsOn DEF Makes
<1> QED BY <1>1, <1>2

\* A path leads to the file or directory that is made at its entry, ...
LEMMA MadeAtEntry ==
  ASSUME NEW t, IsTree(t), NEW p \in Seq(Names), p # <<>>, Entry(t, p) # NoPath,
         t[Entry(t, p)] = None, NEW n \in {Dir} \cup Files
  PROVE  LET u == Put(t, Entry(t, p), n) IN realpath(u, p) = Entry(t, p) /\ stat(u, p) = n
<1> DEFINE e == Entry(t, p)
           dir == realpath(t, Parent(p))
           u == Put(t, e, n)
<1>1. e \in Paths /\ NodeAt(t, dir) = Dir /\ Parent(e) = dir /\ Name(e) = Name(p)
      /\ dir # NoPath /\ e = Append(dir, Name(p)) /\ NodeAt(t, Parent(e)) = Dir
  BY EntryIs DEF Lookup
<1>2. n \in Node /\ n # None /\ ~IsLink(n)
  BY NodeAssumption, LinkIs DEF Node
<1>3. IsTree(u) /\ Grows(t, u) /\ u[e] = n
  <2> HIDE DEF e
  <2> QED BY <1>1, <1>2, PutIs DEF e
<1>4. Parent(p) \in Seq(Names)
  BY FrontAndLast
<1> HIDE DEF u, e
<1>5. realpath(u, Parent(p)) = dir /\ NodeAt(u, dir) = Dir
  <2>1. realpath(u, Parent(p)) = dir /\ stat(u, Parent(p)) = stat(t, Parent(p))
    BY <1>1, <1>3, <1>4, GrowsResolves
  <2> QED BY <1>1, <2>1 DEF stat
<1> HIDE DEF dir
<1>6. Lookup(u, p, dir, e)
  BY <1>1, <1>3, <1>5, LookupIs
<1>7. realpath(u, p) = Found(u, e)
  BY <1>1, <1>2, <1>3, <1>6 DEF Lookup
<1>8. Found(u, e) = e
  BY <1>1, <1>2, <1>3, PathIs DEF Found, IsLink
<1>9. stat(u, p) = n
  BY <1>1, <1>3, <1>7, <1>8, StatOfFound
<1> QED BY <1>7, <1>8, <1>9 DEF u, e

\* ... or at its ending.
LEMMA MadeAtEnding ==
  ASSUME NEW t, IsTree(t), NEW p \in Seq(Names), Ending(t, p) # NoPath
  PROVE  /\ Ending(t, p) \in Paths /\ NodeAt(t, Parent(Ending(t, p))) = Dir
         /\ Ending(t, p) = Followed(t, p) /\ LinksOn(t, Ending(t, p)) = {}
         /\ \A n \in {Dir} \cup Files :
               t[Ending(t, p)] = None =>
                   LET u == Put(t, Ending(t, p), n) IN realpath(u, p) = Ending(t, p) /\ stat(u, p) = n
<1> DEFINE e == Ending(t, p)
<1>1. e \in Paths /\ LinksOn(t, e) = {} /\ NodeAt(t, Parent(e)) = Dir /\ e = Followed(t, p)
  BY DEF Ending
<1> HIDE DEF e
<1>2. ASSUME NEW n \in {Dir} \cup Files, t[e] = None
      PROVE  realpath(Put(t, e, n), p) = e /\ stat(Put(t, e, n), p) = n
  <2> DEFINE u == Put(t, e, n)
  <2>1. n \in Node /\ n # None /\ ~IsLink(n)
    BY NodeAssumption, LinkIs DEF Node
  <2>2. IsTree(u) /\ Grows(t, u) /\ u[e] = n /\ \A q \in Paths : q # e => u[q] = t[q]
    BY <1>1, <1>2, <2>1, PutIs
  <2> HIDE DEF u
  <2>3. LinksOn(u, e) = {}
    BY <1>1, <2>1, <2>2, NoLinksAbove
  <2>4. Agree(t, u)
    BY <2>2, NodeAssumption, LinkIs DEF Agree, Grows
  <2>5. Followed(u, p) = e
    BY <1>1, <2>2, <2>3, <2>4, SameFollowed
  <2>6. Found(u, e) = e
    BY <1>1, <2>1, <2>2, PathIs DEF Found, IsLink
  <2>7. realpath(u, p) = e
    BY <2>5, <2>6 DEF realpath
  <2> QED BY <1>1, <2>2, <2>7, StatOfFound DEF u
<1> QED BY <1>1, <1>2 DEF e

-----------------------------------------------------------------------------
\* What is under a path: the path, and what is in something under it.
LEMMA UnderIs ==
  ASSUME NEW e \in Seq(Names), NEW q \in Seq(Names), q # <<>>
  PROVE  /\ Under(e, e)
         /\ Under(q, e) => Len(e) <= Len(q)
         /\ Under(q, e) /\ q # e => Under(Parent(q), e) /\ Len(e) < Len(q)
         /\ Under(Parent(q), e) => Under(q, e)
<1>0. Len(e) \in Nat /\ Len(q) \in Nat /\ Len(q) >= 1
  BY PathIs
<1>1. Under(e, e)
  BY <1>0 DEF Under
<1>2. Parent(q) \in Seq(Names) /\ Len(Parent(q)) = Len(q) - 1 /\ Append(Parent(q), Name(q)) = q
      /\ Name(q) \in Names
  BY FrontAndLast
<1>3. \A k \in 1 .. Len(q) - 1 : SubSeq(q, 1, k) = SubSeq(Parent(q), 1, k)
  <2> DEFINE d == Parent(q)
             x == Name(q)
  <2> HIDE DEF d, x
  <2>1. d \in Seq(Names) /\ x \in Names /\ Append(d, x) = q /\ Len(d) = Len(q) - 1
    BY <1>2 DEF d, x
  <2>2. \A k \in 1 .. Len(d) : SubSeq(Append(d, x), 1, k) = SubSeq(d, 1, k)
    BY <2>1, AppendIs
  <2> QED BY <2>1, <2>2 DEF d
<1>4. SubSeq(q, 1, 0) = <<>> /\ SubSeq(Parent(q), 1, 0) = <<>>
  <2>1. \A s \in Seq(Names) : SubSeq(s, 1, 0) = <<>>
    OBVIOUS
  <2> QED BY <1>2, <2>1
<1>5. \A k \in 0 .. Len(q) - 1 : SubSeq(q, 1, k) = SubSeq(Parent(q), 1, k)
  <2> SUFFICES ASSUME NEW k \in 0 .. Len(q) - 1 PROVE SubSeq(q, 1, k) = SubSeq(Parent(q), 1, k)
    OBVIOUS
  <2>1. CASE k = 0
    BY <2>1, <1>4
  <2>2. CASE k # 0
    <3>1. k \in 1 .. Len(q) - 1
      BY <1>0, <2>2
    <3> QED BY <3>1, <1>3
  <2> QED BY <2>1, <2>2
<1>6. ASSUME Under(q, e), q # e PROVE Under(Parent(q), e) /\ Len(e) < Len(q)
  <2>1. Len(e) # Len(q)
    <3>1. SUFFICES ASSUME Len(e) = Len(q) PROVE FALSE
      OBVIOUS
    <3>2. SubSeq(q, 1, Len(q)) = q
      BY <1>0
    <3> QED BY <1>6, <3>1, <3>2 DEF Under
  <2>2. Len(e) \in 0 .. Len(q) - 1
    BY <1>0, <1>6, <2>1 DEF Under
  <2>3. SubSeq(Parent(q), 1, Len(e)) = e
    BY <1>5, <1>6, <2>2 DEF Under
  <2> QED BY <1>0, <1>2, <2>2, <2>3 DEF Under
<1>7. ASSUME Under(Parent(q), e) PROVE Under(q, e)
  <2>1. Len(e) \in 0 .. Len(q) - 1
    BY <1>0, <1>2, <1>7 DEF Under
  <2>2. SubSeq(q, 1, Len(e)) = e
    BY <1>5, <1>7, <2>1 DEF Under
  <2> QED BY <1>0, <2>1, <2>2 DEF Under
<1>8. Under(q, e) => Len(e) <= Len(q)
  BY DEF Under
<1> QED BY <1>1, <1>6, <1>7, <1>8

\* Pruning takes an entry and what is under it, and nothing else.
LEMMA PruneIs ==
  ASSUME NEW t, IsTree(t), NEW e \in Paths
  PROVE  /\ IsTree(Prune(t, e)) /\ Grows(Prune(t, e), t) /\ Prune(t, e)[e] = None
         /\ \A q \in Paths : ~Under(q, e) => Prune(t, e)[q] = t[q]
<1> DEFINE u == Prune(t, e)
<1>0. e \in Seq(Names) /\ e # <<>>
  BY PathIs
<1>1. u \in [Paths -> Node] /\ \A q \in Paths : u[q] = IF Under(q, e) THEN None ELSE t[q]
  BY DEF Prune, IsTree, Node
<1> HIDE DEF u
<1>2. u[e] = None
  BY <1>0, <1>1, UnderIs
<1>3. Grows(u, t)
  BY <1>1 DEF Grows
<1>4. ASSUME NEW q \in Paths, u[q] # None, Len(q) > 1 PROVE u[Parent(q)] = Dir
  <2>1. ~Under(q, e) /\ t[q] # None
    BY <1>1, <1>4
  <2>2. Parent(q) \in Paths /\ t[Parent(q)] = Dir
    BY <1>4, <2>1, PathIs DEF IsTree, Rooted
  <2>3. ~Under(Parent(q), e)
    BY <1>0, <2>1, PathIs, UnderIs
  <2> QED BY <1>1, <2>2, <2>3
<1>5. IsTree(u)
  BY <1>1, <1>4 DEF IsTree, Rooted
<1> QED BY <1>1, <1>2, <1>3, <1>5 DEF u

\* An entry is a path in a directory, or there is none.
LEMMA EntryTyped ==
  ASSUME NEW t, IsTree(t), NEW p \in Seq(Names), p # <<>>
  PROVE  Entry(t, p) \in Paths \cup {NoPath} /\ (Entry(t, p) # NoPath => NodeAt(t, Parent(Entry(t, p))) = Dir)
BY EntryIs

\* The system calls.
LEMMA mkdirIs ==
  ASSUME NEW t, IsTree(t), NEW p \in Seq(Names)
  PROVE  /\ mkdir(t, p).ok \in BOOLEAN /\ IsTree(mkdir(t, p).tree) /\ Grows(t, mkdir(t, p).tree)
         /\ ~mkdir(t, p).ok => mkdir(t, p).tree = t
         /\ p # <<>> => Makes(t, mkdir(t, p), Entry(t, p), Dir)
         /\ mkdir(t, p).ok => /\ p # <<>> /\ realpath(mkdir(t, p).tree, p) = Entry(t, p)
                              /\ stat(mkdir(t, p).tree, p) = Dir
<1> DEFINE w == mkdir(t, p)
<1>1. CASE p = <<>>
  <2>1. w = [tree |-> t, ok |-> FALSE]
    BY <1>1 DEF mkdir, Failed
  <2>2. w.ok = FALSE /\ w.tree = t
    BY <2>1
  <2> HIDE DEF w
  <2> QED BY <1>1, <2>2, GrowsOn DEF w
<1>2. CASE p # <<>>
  <2>1. w = Placed(t, Entry(t, p), Dir)
    BY <1>2 DEF mkdir
  <2>2. Dir \in Node
    BY DEF Node
  <2>3. Makes(t, w, Entry(t, p), Dir)
    BY <1>2, <2>1, <2>2, EntryTyped, PlacedIs
  <2> HIDE DEF w
  <2>4. ASSUME w.ok PROVE realpath(w.tree, p) = Entry(t, p) /\ stat(w.tree, p) = Dir
    <3>1. Entry(t, p) \in Paths /\ t[Entry(t, p)] = None /\ w.tree = Put(t, Entry(t, p), Dir)
      BY <2>3, <2>4 DEF Makes
    <3>2. Entry(t, p) # NoPath
      BY <3>1, PathIs, NodeAssumption
    <3> QED BY <1>2, <3>1, <3>2, MadeAtEntry
  <2>5. w.ok \in BOOLEAN /\ IsTree(w.tree) /\ Grows(t, w.tree) /\ (~w.ok => w.tree = t)
    BY <2>3 DEF Makes
  <2> QED BY <1>2, <2>3, <2>4, <2>5 DEF w
<1> QED BY <1>1, <1>2

\* symlink makes the link at the entry, or fails.
LEMMA symlinkIs ==
  ASSUME NEW t, IsTree(t), NEW p \in Seq(Names), NEW target \in Paths
  PROVE  /\ symlink(t, target, p).ok \in BOOLEAN /\ IsTree(symlink(t, target, p).tree)
         /\ Grows(t, symlink(t, target, p).tree)
         /\ ~symlink(t, target, p).ok => symlink(t, target, p).tree = t
         /\ symlink(t, target, p).ok => p # <<>>
         /\ p # <<>> => Makes(t, symlink(t, target, p), Entry(t, p), Link(target))
<1> DEFINE w == symlink(t, target, p)
<1>1. CASE p = <<>>
  <2>1. w = [tree |-> t, ok |-> FALSE]
    BY <1>1 DEF symlink, Failed
  <2>2. w.ok = FALSE /\ w.tree = t
    BY <2>1
  <2> HIDE DEF w
  <2> QED BY <1>1, <2>2, GrowsOn DEF w
<1>2. CASE p # <<>>
  <2>1. w = Placed(t, Entry(t, p), Link(target))
    BY <1>2 DEF symlink
  <2>2. Link(target) \in Node
    BY DEF Node, Link, Links
  <2>3. Makes(t, w, Entry(t, p), Link(target))
    BY <1>2, <2>1, <2>2, EntryTyped, PlacedIs
  <2> HIDE DEF w
  <2>4. w.ok \in BOOLEAN /\ IsTree(w.tree) /\ Grows(t, w.tree) /\ (~w.ok => w.tree = t)
    BY <2>3 DEF Makes
  <2> QED BY <1>2, <2>3, <2>4 DEF w
<1> QED BY <1>1, <1>2

\* creat makes the file where the path ends, through links, or fails.
LEMMA creatIs ==
  ASSUME NEW t, IsTree(t), NEW p \in Seq(Names), NEW n \in Files
  PROVE  /\ Makes(t, creat(t, p, n), Ending(t, p), n)
         /\ creat(t, p, n).ok => /\ realpath(creat(t, p, n).tree, p) = Ending(t, p)
                                 /\ stat(creat(t, p, n).tree, p) = n
<1> DEFINE w == creat(t, p, n)
<1>1. w = Placed(t, Ending(t, p), n) /\ n \in Node
  BY DEF creat, Node
<1>2. Ending(t, p) \in Paths \cup {NoPath} /\ (Ending(t, p) # NoPath => NodeAt(t, Parent(Ending(t, p))) = Dir)
  BY MadeAtEnding
<1> HIDE DEF w
<1>3. Makes(t, w, Ending(t, p), n)
  BY <1>1, <1>2, PlacedIs
<1>4. ASSUME w.ok PROVE realpath(w.tree, p) = Ending(t, p) /\ stat(w.tree, p) = n
  <2>1. Ending(t, p) \in Paths /\ t[Ending(t, p)] = None /\ w.tree = Put(t, Ending(t, p), n)
    BY <1>3, <1>4 DEF Makes
  <2>2. Ending(t, p) # NoPath
    BY <2>1, PathIs, NodeAssumption
  <2> QED BY <2>1, <2>2, MadeAtEnding
<1> QED BY <1>3, <1>4 DEF w

\* unlink takes an entry that is no directory, or fails.
LEMMA unlinkIs ==
  ASSUME NEW t, IsTree(t), NEW p \in Seq(Names)
  PROVE  /\ unlink(t, p).ok \in BOOLEAN /\ IsTree(unlink(t, p).tree) /\ Grows(unlink(t, p).tree, t)
         /\ ~unlink(t, p).ok => unlink(t, p).tree = t
         /\ unlink(t, p).ok => /\ p # <<>> /\ Entry(t, p) \in Paths
                               /\ t[Entry(t, p)] \notin {None, Dir}
                               /\ unlink(t, p).tree[Entry(t, p)] = None
                               /\ \A q \in Paths : q # Entry(t, p) => unlink(t, p).tree[q] = t[q]
<1> DEFINE w == unlink(t, p)
           e == Entry(t, p)
<1>1. CASE p # <<>> /\ NodeAt(t, e) \notin {None, Dir}
  <2>1. w = [tree |-> Put(t, e, None), ok |-> TRUE]
    BY <1>1 DEF unlink, Cleared, Done
  <2>2. e \in Paths
    <3>1. e # NoPath
      BY <1>1 DEF NodeAt
    <3> QED BY <1>1, <3>1, EntryTyped
  <2>3. t[e] \notin {None, Dir}
    BY <1>1, <2>2, NodeAtIs
  <2> HIDE DEF e
  <2>4. IsTree(Put(t, e, None)) /\ Grows(Put(t, e, None), t) /\ Put(t, e, None)[e] = None
        /\ \A q \in Paths : q # e => Put(t, e, None)[q] = t[q]
    BY <2>2, <2>3, TakeIs
  <2> QED BY <1>1, <2>1, <2>2, <2>3, <2>4 DEF e
<1>2. CASE ~(p # <<>> /\ NodeAt(t, e) \notin {None, Dir})
  <2>1. w = [tree |-> t, ok |-> FALSE]
    BY <1>2 DEF unlink, Cleared, Failed
  <2> QED BY <2>1, GrowsOn
<1> QED BY <1>1, <1>2

\* rm -rf takes the entry and what is under it, and never fails.
LEMMA rm_rfIs ==
  ASSUME NEW t, IsTree(t), NEW p \in Seq(Names)
  PROVE  /\ rm_rf(t, p).ok = TRUE /\ IsTree(rm_rf(t, p).tree) /\ Grows(rm_rf(t, p).tree, t)
         /\ \A q \in Paths : rm_rf(t, p).tree[q] # t[q] =>
                                p # <<>> /\ Entry(t, p) \in Paths /\ Under(q, Entry(t, p))
         /\ p # <<>> /\ Entry(t, p) \in Paths => rm_rf(t, p).tree[Entry(t, p)] = None
<1> DEFINE w == rm_rf(t, p)
           e == Entry(t, p)
<1>1. CASE p # <<>> /\ e # NoPath
  <2>1. w = [tree |-> Prune(t, e), ok |-> TRUE]
    BY <1>1 DEF rm_rf, Pruned, Done
  <2>2. e \in Paths
    BY <1>1, EntryTyped
  <2> HIDE DEF e
  <2>3. IsTree(Prune(t, e)) /\ Grows(Prune(t, e), t) /\ Prune(t, e)[e] = None
        /\ \A q \in Paths : ~Under(q, e) => Prune(t, e)[q] = t[q]
    BY <2>2, PruneIs
  <2> QED BY <1>1, <2>1, <2>2, <2>3 DEF e
<1>2. CASE ~(p # <<>> /\ e # NoPath)
  <2>1. w = [tree |-> t, ok |-> TRUE]
    BY <1>2 DEF rm_rf, Pruned, Done
  <2>2. ~(p # <<>> /\ e \in Paths)
    <3>1. NoPath \notin Paths
      BY PathIs, NodeAssumption
    <3> QED BY <1>2, <3>1
  <2> QED BY <2>1, <2>2, GrowsOn
<1> QED BY <1>1, <1>2

\* On the way to what is there are directories.
LEMMA WayIsDirs ==
  ASSUME NEW t, IsTree(t), NEW p \in Seq(Names), stat(t, p) # None,
         NEW k \in 1 .. Len(p), k # Len(p)
  PROVE  stat(t, SubSeq(p, 1, k)) = Dir
<1> DEFINE n == Len(p)
           P == {d \in Nat : d + 1 < n => stat(t, SubSeq(p, 1, n - (d + 1))) = Dir}
<1>0. n \in Nat /\ n >= 1 /\ Dir # None
  BY NodeAssumption
<1>1. ASSUME NEW j \in 1 .. n, j > 1, stat(t, SubSeq(p, 1, j)) # None
      PROVE  stat(t, SubSeq(p, 1, j - 1)) = Dir
  <2> DEFINE x == SubSeq(p, 1, j)
  <2>1. x \in Seq(Names) /\ x # <<>> /\ Parent(x) = SubSeq(p, 1, j - 1)
    <3>1. \A i \in 1 .. n : SubSeq(p, 1, i) \in Seq(Names) /\ SubSeq(p, 1, i) # <<>>
      <4>1. ASSUME NEW i \in 1 .. Len(p) PROVE SubSeq(p, 1, i) \in Seq(Names) /\ SubSeq(p, 1, i) # <<>>
        <5>1. Len(p) \in Nat /\ i \in Nat /\ 1 <= i /\ i <= Len(p)
          OBVIOUS
        <5>2. SubSeq(p, 1, i) \in Seq(Names) /\ Len(SubSeq(p, 1, i)) = i
          BY ONLY p \in Seq(Names), <5>1
        <5> QED BY ONLY <5>1, <5>2
      <4> QED BY <4>1
    <3>2. \A i \in 1 .. n : i > 1 => Parent(SubSeq(p, 1, i)) = SubSeq(p, 1, i - 1)
      BY PrefixIs
    <3> HIDE DEF n
    <3> QED BY <1>1, <3>1, <3>2
  <2>2. realpath(t, x) # NoPath
    <3> HIDE DEF x
    <3> QED BY <1>1, <2>1, StatIs DEF x
  <2>3. NodeAt(t, realpath(t, Parent(x))) = Dir
    <3> HIDE DEF x
    <3> QED BY <2>1, <2>2, ParentIsDir
  <2> QED BY <2>1, <2>3 DEF stat
<1>2. 0 \in P
  <2>1. SUFFICES ASSUME 0 + 1 < n PROVE stat(t, SubSeq(p, 1, n - (0 + 1))) = Dir
    OBVIOUS
  <2>2. n \in 1 .. n /\ n > 1 /\ n - (0 + 1) = n - 1
    BY <1>0, <2>1
  <2>3. SubSeq(p, 1, n) = p
    BY <1>0
  <2> HIDE DEF n
  <2> QED BY <1>1, <2>2, <2>3
<1>3. ASSUME NEW d \in Nat, d \in P PROVE d + 1 \in P
  <2>1. SUFFICES ASSUME d + 1 + 1 < n PROVE stat(t, SubSeq(p, 1, n - (d + 1 + 1))) = Dir
    OBVIOUS
  <2> DEFINE j == n - (d + 1)
  <2>2. j \in 1 .. n /\ j > 1 /\ n - (d + 1 + 1) = j - 1 /\ d + 1 < n
    BY <1>0, <2>1
  <2>3. stat(t, SubSeq(p, 1, j)) = Dir
    BY <1>3, <2>2
  <2> HIDE DEF n, j
  <2> QED BY <1>0, <1>1, <2>2, <2>3
<1>4. Nat \subseteq P
  <2> HIDE DEF P
  <2> QED BY <1>2, <1>3, SetInduction
<1> DEFINE d == n - (k + 1)
<1>5. d \in Nat /\ d + 1 < n /\ n - (d + 1) = k
  BY <1>0
<1> HIDE DEF d, n
<1> QED BY <1>4, <1>5

-----------------------------------------------------------------------------
\* What a call leaves, and whether it succeeded.
Outcomes == {w \in [tree : [Paths -> Node], ok : BOOLEAN] : Rooted(w.tree)}

\* An outcome is a tree and an answer.
LEMMA OutcomeIs ==
  ASSUME NEW w
  PROVE  w \in Outcomes => IsTree(w.tree) /\ w.ok \in BOOLEAN
BY DEF Outcomes, IsTree

\* A tree and a result are an outcome.
LEMMA OutcomeMade ==
  ASSUME NEW t, IsTree(t), NEW b \in BOOLEAN
  PROVE  [tree |-> t, ok |-> b] \in Outcomes
BY DEF Outcomes, IsTree

\* Every call has one.
LEMMA CallsHaveOutcomes ==
  ASSUME NEW t, IsTree(t), NEW p \in Seq(Names)
  PROVE  /\ mkdir(t, p) \in Outcomes /\ unlink(t, p) \in Outcomes /\ rm_rf(t, p) \in Outcomes
         /\ \A target \in Paths : symlink(t, target, p) \in Outcomes
         /\ \A n \in Files : creat(t, p, n) \in Outcomes
<1>1. ASSUME NEW e, NEW n, IsTree(Placed(t, e, n).tree) PROVE Placed(t, e, n) \in Outcomes
  <2>1. CASE Placed(t, e, n) = [tree |-> Put(t, e, n), ok |-> TRUE]
    <3>1. IsTree(Put(t, e, n))
      BY <1>1, <2>1
    <3> QED BY <2>1, <3>1, OutcomeMade
  <2>2. CASE Placed(t, e, n) = [tree |-> t, ok |-> FALSE]
    BY <1>1, <2>2, OutcomeMade
  <2> QED BY <2>1, <2>2 DEF Placed, Done, Failed
<1>2. Failed(t) \in Outcomes /\ Done(t) \in Outcomes
  BY OutcomeMade DEF Failed, Done
<1>3. mkdir(t, p) \in Outcomes
  BY <1>1, <1>2, mkdirIs DEF mkdir
<1>4. ASSUME NEW target \in Paths PROVE symlink(t, target, p) \in Outcomes
  <2>1. IsTree(symlink(t, target, p).tree)
    BY symlinkIs
  <2> QED BY <1>1, <1>2, <2>1 DEF symlink
<1>5. ASSUME NEW n \in Files PROVE creat(t, p, n) \in Outcomes
  <2>1. IsTree(creat(t, p, n).tree)
    BY creatIs DEF Makes
  <2> QED BY <1>1, <2>1 DEF creat
<1>6. unlink(t, p) \in Outcomes
  <2>1. IsTree(unlink(t, p).tree)
    BY unlinkIs
  <2>2. CASE unlink(t, p) = [tree |-> Put(t, Entry(t, p), None), ok |-> TRUE]
    <3>1. IsTree(Put(t, Entry(t, p), None))
      BY <2>1, <2>2
    <3> QED BY <2>2, <3>1, OutcomeMade
  <2> QED BY <1>2, <2>2 DEF unlink, Cleared, Done
<1>7. rm_rf(t, p) \in Outcomes
  <2>1. IsTree(rm_rf(t, p).tree)
    BY rm_rfIs
  <2>2. CASE rm_rf(t, p) = [tree |-> Prune(t, Entry(t, p)), ok |-> TRUE]
    <3>1. IsTree(Prune(t, Entry(t, p)))
      BY <2>1, <2>2
    <3> QED BY <2>2, <3>1, OutcomeMade
  <2> QED BY <1>2, <2>2 DEF rm_rf, Pruned, Done
<1> QED BY <1>3, <1>4, <1>5, <1>6, <1>7

\* Nothing is in what is no directory, ...
LEMMA NothingBelow ==
  ASSUME NEW t, IsTree(t), NEW q \in Seq(Names), NEW x \in Names, stat(t, q) # Dir
  PROVE  stat(t, Append(q, x)) = None
<1>1. Append(q, x) \in Seq(Names) /\ Append(q, x) # <<>> /\ Parent(Append(q, x)) = q
  BY AppendIs
<1>2. SUFFICES ASSUME realpath(t, Append(q, x)) # NoPath PROVE FALSE
  BY <1>1, StatIs
<1>3. NodeAt(t, realpath(t, q)) = Dir
  BY <1>1, <1>2, ParentIsDir
<1> QED BY <1>3 DEF stat

\* ... nor in a directory that is new.
LEMMA NewIsEmpty ==
  ASSUME NEW t, IsTree(t), NEW q \in Seq(Names), NEW x \in Names, mkdir(t, q).ok
  PROVE  stat(mkdir(t, q).tree, Append(q, x)) = None
<1> DEFINE u == mkdir(t, q).tree
           e == Entry(t, q)
           p == Append(q, x)
           b == Append(e, x)
<1>1. q # <<>> /\ realpath(u, q) = e /\ stat(u, q) = Dir /\ IsTree(u)
  BY mkdirIs
<1>2. e \in Paths /\ t[e] = None /\ \A r \in Paths : r # e => u[r] = t[r]
  BY <1>1, mkdirIs DEF Makes
<1>3. p \in Seq(Names) /\ p # <<>> /\ Parent(p) = q /\ Name(p) = x
  BY AppendIs
<1> HIDE DEF u, e, p
<1>4. e \in Seq(Names) /\ b \in Seq(Names) /\ b # <<>> /\ Len(b) > 1 /\ Parent(b) = e
  BY <1>2, PathIs, AppendIs
<1> HIDE DEF b
<1>5. Lookup(u, p, e, b)
  BY <1>1, <1>3, LookupIs DEF stat, b
<1>6. b \notin Paths \/ u[b] = None
  <2>1. SUFFICES ASSUME b \in Paths PROVE u[b] = None
    OBVIOUS
  <2>2. t[b] = None
    BY <1>2, <1>4, <2>1, NodeAssumption DEF IsTree, Rooted
  <2>3. b # e
    <3>1. Len(b) = Len(e) + 1 /\ Len(e) \in Nat
      BY <1>2, PathIs, AppendIs DEF b
    <3> QED BY <3>1
  <2> QED BY <1>2, <2>1, <2>2, <2>3
<1>7. realpath(u, p) = Found(u, b)
  BY <1>5, <1>6, LinkIs DEF Lookup
<1>8. Found(u, b) = NoPath
  BY <1>4, <1>6 DEF Found
<1> QED BY <1>7, <1>8 DEF stat, NodeAt, u, p

\* A name that is free in a directory.
LEMMA FreePlace ==
  ASSUME NEW t, IsTree(t), NEW e \in Paths, NodeAt(t, Parent(e)) = Dir, t[e] = None
  PROVE  Entry(t, e) = e /\ realpath(t, e) = NoPath /\ stat(t, e) = None
<1>1. e \in Seq(Names) /\ e # <<>> /\ e # NoPath
  BY PathIs, NodeAssumption
<1>2. Entry(t, e) = e
  BY EntryOfPlace
<1>3. Lookup(t, e, realpath(t, Parent(e)), e)
  BY <1>1, <1>2, EntryIs
<1>4. realpath(t, e) = Found(t, e)
  BY <1>3, LinkIs DEF Lookup
<1>5. Found(t, e) = NoPath
  BY <1>1 DEF Found
<1> QED BY <1>2, <1>4, <1>5 DEF stat, NodeAt

\* What MakeDirs has done when it is at a name of the path.
DirsTo(t, w, p, k) ==
    /\ w \in Outcomes /\ Grows(t, w.tree)
    /\ \A q \in Paths : w.tree[q] # t[q] => w.tree[q] = Dir
    /\ w.ok => k = 0 \/ stat(w.tree, SubSeq(p, 1, k)) = Dir
    /\ ~w.ok => k > 0 /\ stat(w.tree, SubSeq(p, 1, k)) # Dir
    /\ \/ w.tree = t
       \/ k > 0 /\ \A x \in Names : stat(w.tree, Append(SubSeq(p, 1, k), x)) = None
\* One more level of directories, whatever is on the way.
LEMMA LevelIs ==
  ASSUME NEW t, IsTree(t), NEW w, NEW p \in Seq(Names), NEW k \in Nat, k + 1 <= Len(p),
         DirsTo(t, w, p, k)
  PROVE  DirsTo(t, Level(w, SubSeq(p, 1, k + 1)), p, k + 1)
<1> DEFINE q == SubSeq(p, 1, k + 1)
           before == SubSeq(p, 1, k)
           v == Level(w, q)
<1>1. k + 1 \in 1 .. Len(p) /\ q \in Seq(Names) /\ q # <<>> /\ Name(q) \in Names /\ k + 1 > 0
  <2>1. k + 1 \in 1 .. Len(p)
    OBVIOUS
  <2>2. q \in Seq(Names) /\ q # <<>>
    <3>1. Len(q) = k + 1 /\ q \in Seq(Names)
      BY <2>1
    <3> QED BY <3>1
  <2>3. Name(q) \in Names
    <3> HIDE DEF q
    <3> QED BY <2>2, FrontAndLast
  <2> QED BY <2>1, <2>2, <2>3
<1>2. k > 0 => before \in Seq(Names) /\ q = Append(before, Name(q))
  <2>1. SUFFICES ASSUME k > 0 PROVE before \in Seq(Names) /\ q = Append(before, Name(q))
    OBVIOUS
  <2>2. Parent(q) = before
    BY <2>1 DEF Parent
  <2>3. Parent(q) \in Seq(Names) /\ Append(Parent(q), Name(q)) = q
    BY <1>1, FrontAndLast
  <2> QED BY <2>2, <2>3
<1>3. IsTree(w.tree) /\ w.ok \in BOOLEAN /\ Grows(t, w.tree)
  BY OutcomeIs DEF DirsTo
<1> HIDE DEF q, before
<1>4. CASE w.ok /\ stat(w.tree, q) = None
  <2>1. v = mkdir(w.tree, q)
    BY <1>4 DEF Level, Descend
  <2> HIDE DEF v
  <2>2. v \in Outcomes /\ Grows(w.tree, v.tree) /\ v.ok \in BOOLEAN /\ IsTree(v.tree)
    BY <1>1, <1>3, <2>1, CallsHaveOutcomes, mkdirIs
  <2>3. Grows(t, v.tree)
    BY <1>3, <2>2, GrowsOn
  <2>4. CASE v.ok
    <3>1. stat(v.tree, q) = Dir
      BY <1>1, <1>3, <2>1, <2>4, mkdirIs
    <3>2. \A x \in Names : stat(v.tree, Append(q, x)) = None
      BY <1>1, <1>3, <2>1, <2>4, NewIsEmpty
    <3>3. \A r \in Paths : v.tree[r] # t[r] => v.tree[r] = Dir
      <4>1. v.tree[Entry(w.tree, q)] = Dir /\ \A r \in Paths : r # Entry(w.tree, q) => v.tree[r] = w.tree[r]
        BY <1>1, <1>3, <2>1, <2>4, mkdirIs DEF Makes
      <4> QED BY <4>1 DEF DirsTo
    <3> QED BY <1>1, <2>2, <2>3, <2>4, <3>1, <3>2, <3>3 DEF DirsTo, q, v
  <2>5. CASE ~v.ok
    <3>1. v.tree = w.tree
      BY <1>1, <1>3, <2>1, <2>5, mkdirIs
    <3>2. stat(v.tree, q) # Dir
      BY <1>4, <3>1, NodeAssumption
    <3>3. \A x \in Names : stat(v.tree, Append(q, x)) = None
      BY <1>1, <2>2, <3>2, NothingBelow
    <3>4. \A r \in Paths : v.tree[r] # t[r] => v.tree[r] = Dir
      BY <3>1 DEF DirsTo
    <3> QED BY <1>1, <2>2, <2>3, <2>5, <3>2, <3>3, <3>4 DEF DirsTo, q, v
  <2> QED BY <2>2, <2>4, <2>5
<1>5. CASE ~w.ok \/ stat(w.tree, q) # None
  <2>1. v.tree = w.tree /\ v \in Outcomes
    <3>1. CASE ~w.ok
      BY <3>1 DEF Level, DirsTo
    <3>2. CASE w.ok
      <4>1. v = [w EXCEPT !.ok = stat(w.tree, q) = Dir]
        BY <1>5, <3>2 DEF Level, Descend
      <4>2. w \in [tree : [Paths -> Node], ok : BOOLEAN] /\ Rooted(w.tree)
        BY DEF DirsTo, Outcomes
      <4> QED BY <4>1, <4>2 DEF Outcomes
    <3> QED BY <1>3, <3>1, <3>2
  <2>2. v.ok <=> stat(w.tree, q) = Dir
    <3>1. CASE ~w.ok
      <4>1. v.ok = FALSE
        BY <1>3, <3>1 DEF Level
      <4>2. k > 0 /\ stat(w.tree, before) # Dir
        BY <3>1 DEF DirsTo, before
      <4>3. stat(w.tree, q) = None
        BY <1>1, <1>2, <1>3, <4>2, NothingBelow
      <4> QED BY <4>1, <4>3, NodeAssumption
    <3>2. CASE w.ok
      <4>1. v = [w EXCEPT !.ok = stat(w.tree, q) = Dir]
        BY <1>5, <3>2 DEF Level, Descend
      <4>2. w \in [tree : [Paths -> Node], ok : BOOLEAN]
        BY DEF DirsTo, Outcomes
      <4> QED BY <4>1, <4>2
    <3> QED BY <1>3, <3>1, <3>2
  <2>3. v.tree = t \/ \A x \in Names : stat(v.tree, Append(q, x)) = None
    <3>1. SUFFICES ASSUME w.tree # t PROVE \A x \in Names : stat(w.tree, Append(q, x)) = None
      BY <2>1
    <3>2. k > 0 /\ \A x \in Names : stat(w.tree, Append(before, x)) = None
      BY <3>1 DEF DirsTo, before
    <3>3. stat(w.tree, q) = None
      BY <1>1, <1>2, <3>2
    <3> QED BY <1>1, <1>3, <3>3, NothingBelow, NodeAssumption
  <2>4. \A r \in Paths : v.tree[r] # t[r] => v.tree[r] = Dir
    BY <2>1 DEF DirsTo
  <2> HIDE DEF v
  <2> QED BY <1>1, <1>3, <2>1, <2>2, <2>3, <2>4 DEF DirsTo, q, v
<1> QED BY <1>3, <1>4, <1>5

\* The same on a way that is clear.
ClearTo(t, w, p, k) ==
    /\ w \in Outcomes /\ w.ok
    /\ \A j \in 1 .. k : w.tree[SubSeq(p, 1, j)] = Dir
    /\ \A q \in Paths : w.tree[q] # t[q] => \E j \in 1 .. k : q = SubSeq(p, 1, j)
\* One more level of directories, on a way without links or files.
LEMMA ClearLevel ==
  ASSUME NEW t, IsTree(t), NEW w, NEW p \in Paths, NEW k \in Nat, k + 1 <= Len(p),
         ClearTo(t, w, p, k), t[SubSeq(p, 1, k + 1)] \in {None, Dir}
  PROVE  ClearTo(t, Level(w, SubSeq(p, 1, k + 1)), p, k + 1)
<1> DEFINE q == SubSeq(p, 1, k + 1)
           v == Level(w, q)
<1>1. q \in Paths /\ k + 1 \in 1 .. Len(p) /\ p \in Seq(Names)
  <2>1. k + 1 \in 1 .. Len(p)
    BY PathIs
  <2> QED BY <2>1, PrefixInPaths, PathIs
<1>2. w.ok /\ IsTree(w.tree) /\ w \in Outcomes
  BY OutcomeIs DEF ClearTo
<1>3. w.tree[q] \in {None, Dir}
  <2>1. CASE w.tree[q] = t[q]
    BY <2>1
  <2>2. CASE w.tree[q] # t[q]
    <3>1. PICK j \in 1 .. k : q = SubSeq(p, 1, j)
      BY <1>1, <2>2 DEF ClearTo
    <3>2. Len(q) = k + 1 /\ Len(q) = j
      BY <1>1, <3>1
    <3> QED BY <3>2
  <2> QED BY <2>1, <2>2
<1>4. NodeAt(w.tree, Parent(q)) = Dir
  <2>1. CASE k = 0
    <3>1. Parent(q) = <<>>
      BY <1>1, <2>1 DEF Parent
    <3> QED BY <1>2, <3>1, RootIs DEF NodeAt
  <2>2. CASE k > 0
    <3>1. k \in 1 .. k /\ k \in 1 .. Len(p)
      BY <1>1, <2>2
    <3>2. Parent(q) = SubSeq(p, 1, k)
      BY <1>1, <2>2 DEF Parent
    <3>3. w.tree[SubSeq(p, 1, k)] = Dir /\ SubSeq(p, 1, k) \in Paths
      BY <3>1, PrefixInPaths DEF ClearTo
    <3> QED BY <3>2, <3>3, NodeAtIs
  <2> QED BY <2>1, <2>2
<1>5. Entry(w.tree, q) = q
  BY <1>1, <1>2, <1>4, EntryOfPlace
<1>6. v.ok /\ v \in Outcomes /\ v.tree[q] = Dir /\ \A r \in Paths : r # q => v.tree[r] = w.tree[r]
  <2>1. CASE w.tree[q] = Dir
    <3>1. stat(w.tree, q) = Dir
      BY <1>1, <1>2, <2>1, RealpathOfReal, NodeAssumption, LinkIs
    <3>2. v = [w EXCEPT !.ok = TRUE]
      BY <1>2, <3>1, NodeAssumption DEF Level, Descend
    <3>3. v.tree = w.tree /\ v.ok /\ v \in Outcomes
      BY <1>2, <3>2 DEF Outcomes
    <3> HIDE DEF v
    <3> QED BY <1>2, <2>1, <3>3
  <2>2. CASE w.tree[q] = None
    <3>1. stat(w.tree, q) = None
      BY <1>1, <1>2, <1>4, <2>2, FreePlace
    <3>2. v = mkdir(w.tree, q)
      BY <1>2, <3>1 DEF Level, Descend
    <3>3. q \in Seq(Names) /\ q # <<>>
      BY <1>1, PathIs
    <3>4. Makes(w.tree, v, q, Dir)
      BY <1>2, <1>5, <3>2, <3>3, mkdirIs
    <3>5. q # NoPath
      BY <3>3, NodeAssumption
    <3>6. v \in Outcomes
      BY <1>2, <3>2, <3>3, CallsHaveOutcomes
    <3> HIDE DEF v
    <3> QED BY <2>2, <3>4, <3>5, <3>6 DEF Makes
  <2> QED BY <1>3, <2>1, <2>2
<1>7. \A j \in 1 .. k + 1 : v.tree[SubSeq(p, 1, j)] = Dir
  <2> SUFFICES ASSUME NEW j \in 1 .. k + 1 PROVE v.tree[SubSeq(p, 1, j)] = Dir
    OBVIOUS
  <2>1. CASE j = k + 1
    BY <1>6, <2>1
  <2>2. CASE j # k + 1
    <3>1. j \in 1 .. k /\ j \in 1 .. Len(p)
      BY <1>1, <2>2
    <3>2. w.tree[SubSeq(p, 1, j)] = Dir /\ SubSeq(p, 1, j) \in Paths
      BY <3>1, PrefixInPaths DEF ClearTo
    <3> HIDE DEF v
    <3>3. CASE SubSeq(p, 1, j) = q
      BY <1>6, <3>3
    <3>4. CASE SubSeq(p, 1, j) # q
      BY <1>6, <3>2, <3>4
    <3> QED BY <3>3, <3>4
  <2> QED BY <2>1, <2>2
<1>8. ASSUME NEW r \in Paths, v.tree[r] # t[r] PROVE \E j \in 1 .. k + 1 : r = SubSeq(p, 1, j)
  <2>1. CASE r = q
    <3>1. k + 1 \in 1 .. k + 1
      OBVIOUS
    <3> QED BY <2>1, <3>1
  <2>2. CASE r # q
    <3>1. PICK j \in 1 .. k : r = SubSeq(p, 1, j)
      BY <1>6, <1>8, <2>2 DEF ClearTo
    <3>2. j \in 1 .. k + 1
      OBVIOUS
    <3> QED BY <3>1, <3>2
  <2> QED BY <2>1, <2>2
<1> HIDE DEF v
<1> QED BY <1>6, <1>7, <1>8 DEF ClearTo, v, q

\* Whatever the level, Level has an outcome.
LEMMA LevelHasOutcome ==
  ASSUME NEW w \in Outcomes, NEW q \in Seq(Names)
  PROVE  Level(w, q) \in Outcomes
<1>1. IsTree(w.tree) /\ w.ok \in BOOLEAN /\ w \in [tree : [Paths -> Node], ok : BOOLEAN]
  BY OutcomeIs DEF Outcomes
<1>2. mkdir(w.tree, q) \in Outcomes
  BY <1>1, CallsHaveOutcomes
<1>3. [w EXCEPT !.ok = stat(w.tree, q) = Dir] \in Outcomes
  BY <1>1 DEF Outcomes
<1> QED BY <1>2, <1>3 DEF Level, Descend

Walks(h, t, p) ==
    /\ h \in [0 .. Len(p) -> Outcomes] /\ h[0] = Done(t)
    /\ \A k \in 1 .. Len(p) : h[k] = Level(h[k - 1], SubSeq(p, 1, k))
    /\ MakeDirs(t, p) = h[Len(p)]
\* MakeDirs goes from level to level.
LEMMA MakeDirsWalks ==
  ASSUME NEW t, IsTree(t), NEW p \in Seq(Names)
  PROVE  \E h : Walks(h, t, p)
<1> DEFINE S == Outcomes
           m == Len(p)
           G == [x \in (1 .. m) \X S |-> Level(x[2], SubSeq(p, 1, x[1]))]
           Is(h) == h = [k \in 0 .. m |-> IF k = 0 THEN Done(t) ELSE Level(h[k - 1], SubSeq(p, 1, k))]
           a == CHOOSE h : Is(h)
<1>1. m \in Nat
  OBVIOUS
<1>p. \A i \in 1 .. m : SubSeq(p, 1, i) \in Seq(Names)
  OBVIOUS
<1>2. G \in [(1 .. m) \X S -> S]
  <2>1. \A i \in 1 .. m, x \in S : Level(x, SubSeq(p, 1, i)) \in S
    BY <1>p, LevelHasOutcome
  <2> HIDE DEF S, m
  <2> QED BY <2>1
<1>3. \A i \in 1 .. m, x \in S : G[i, x] = Level(x, SubSeq(p, 1, i))
  OBVIOUS
<1>0. Done(t) \in S
  BY OutcomeMade DEF Done
<1>4. PICK f \in [0 .. m -> S] : f[0] = Done(t) /\ \A i \in 1 .. m : f[i] = G[i, f[i - 1]]
  <2>1. Iterates(S, Done(t), m, G)
    <3> HIDE DEF G, S, m
    <3> QED BY <1>0, <1>1, <1>2, Recursion
  <2> QED BY <2>1 DEF Iterates
<1>5. \A i \in 1 .. m : i - 1 \in 0 .. m /\ f[i - 1] \in S
  <2>1. \A i \in 1 .. m : i - 1 \in 0 .. m
    BY <1>1
  <2> HIDE DEF S, m
  <2> QED BY <2>1, <1>4
<1>6. \A i \in 1 .. m : f[i] = Level(f[i - 1], SubSeq(p, 1, i))
  <2> HIDE DEF G, m, S
  <2> QED BY <1>3, <1>4, <1>5
<1>7. Is(f)
  <2> DEFINE h == [k \in 0 .. m |-> IF k = 0 THEN Done(t) ELSE Level(f[k - 1], SubSeq(p, 1, k))]
  <2>1. f = [k \in 0 .. m |-> f[k]] /\ h = [k \in 0 .. m |-> h[k]]
    OBVIOUS
  <2>2. \A k \in 0 .. m : h[k] = IF k = 0 THEN Done(t) ELSE Level(f[k - 1], SubSeq(p, 1, k))
    OBVIOUS
  <2>3. \A k \in 0 .. m : f[k] = h[k]
    <3> HIDE DEF h, S, m
    <3>1. \A k \in 0 .. m : k # 0 => k \in 1 .. m
      BY <1>1
    <3> QED BY <2>2, <3>1, <1>4, <1>6
  <2>4. f = h
    <3> HIDE DEF h, S, m
    <3> QED BY <2>1, <2>3, Zenon
  <2> QED BY <2>4
<1>8. Is(a)
  <2> HIDE DEF Is
  <2> QED BY <1>7
<1>9. MakeDirs(t, p) = a[m]
  BY DEF MakeDirs
<1>10. \A k \in 0 .. m : a[k] = IF k = 0 THEN Done(t) ELSE Level(a[k - 1], SubSeq(p, 1, k))
  <2> HIDE DEF a
  <2> QED BY <1>8
<1>11. a = [k \in 0 .. m |-> a[k]]
  <2> DEFINE h == [k \in 0 .. m |-> IF k = 0 THEN Done(t) ELSE Level(a[k - 1], SubSeq(p, 1, k))]
  <2>1. h = [k \in 0 .. m |-> h[k]]
    OBVIOUS
  <2>2. a = h
    BY <1>8
  <2> HIDE DEF a, h
  <2> QED BY <2>1, <2>2
<1> HIDE DEF a
<1>12. \A k \in 1 .. m : a[k] = Level(a[k - 1], SubSeq(p, 1, k))
  <2>1. \A k \in 1 .. m : k \in 0 .. m /\ k # 0
    BY <1>1
  <2> HIDE DEF m
  <2> QED BY <2>1, <1>10
<1>13. a[0] = Done(t)
  <2>1. 0 \in 0 .. m
    BY <1>1
  <2> QED BY <2>1, <1>10
<1>14. \A k \in 0 .. m : a[k] \in S
  <2> DEFINE P == {k \in Nat : k <= m => a[k] \in S}
  <2>1. 0 \in P
    BY <1>0, <1>13
  <2>2. ASSUME NEW k \in Nat, k \in P PROVE k + 1 \in P
    <3>1. SUFFICES ASSUME k + 1 <= m PROVE a[k + 1] \in S
      OBVIOUS
    <3>2. k + 1 \in 1 .. m /\ (k + 1) - 1 = k /\ a[k] \in S
      BY <1>1, <2>2, <3>1
    <3>3. a[k + 1] = Level(a[k], SubSeq(p, 1, k + 1))
      <4> HIDE DEF m, S
      <4> QED BY <1>12, <3>2
    <3>4. SubSeq(p, 1, k + 1) \in Seq(Names)
      <4> HIDE DEF m
      <4> QED BY <1>p, <3>2
    <3> QED BY <3>2, <3>3, <3>4, LevelHasOutcome
  <2>3. Nat \subseteq P
    <3> HIDE DEF P
    <3> QED BY <2>1, <2>2, SetInduction
  <2>4. \A k \in 0 .. m : k \in Nat /\ k <= m
    BY <1>1
  <2> QED BY <2>3, <2>4
<1>15. a \in [0 .. m -> S]
  <2> HIDE DEF S, m
  <2> QED BY <1>11, <1>14
<1>16. Walks(a, t, p)
  BY <1>9, <1>12, <1>13, <1>15 DEF Walks
<1> QED BY <1>16

\* What makeDirs does, whatever is on the way.
LEMMA MakeDirsIs ==
  ASSUME NEW t, IsTree(t), NEW p \in Seq(Names)
  PROVE  DirsTo(t, MakeDirs(t, p), p, Len(p))
<1> DEFINE m == Len(p)
<1>1. PICK h : Walks(h, t, p)
  BY MakeDirsWalks
<1>0. m \in Nat
  OBVIOUS
<1> DEFINE P == {k \in Nat : k <= m => DirsTo(t, h[k], p, k)}
<1>2. 0 \in P
  <2>1. h[0] = Done(t) /\ Done(t).tree = t /\ Done(t).ok = TRUE /\ Done(t) \in Outcomes
    BY <1>1, OutcomeMade DEF Walks, Done
  <2>2. DirsTo(t, h[0], p, 0)
    BY <2>1, GrowsOn DEF DirsTo
  <2> QED BY <2>2
<1>3. ASSUME NEW k \in Nat, k \in P PROVE k + 1 \in P
  <2>1. SUFFICES ASSUME k + 1 <= m PROVE DirsTo(t, h[k + 1], p, k + 1)
    OBVIOUS
  <2>2. k + 1 \in 1 .. m /\ (k + 1) - 1 = k /\ DirsTo(t, h[k], p, k)
    BY <1>0, <1>3, <2>1
  <2>3. h[k + 1] = Level(h[k], SubSeq(p, 1, k + 1))
    <3>1. \A i \in 1 .. m : h[i] = Level(h[i - 1], SubSeq(p, 1, i))
      BY <1>1 DEF Walks
    <3> HIDE DEF m
    <3> QED BY <2>2, <3>1
  <2> QED BY <2>1, <2>2, <2>3, LevelIs
<1>4. Nat \subseteq P
  <2> HIDE DEF P
  <2> QED BY <1>2, <1>3, SetInduction
<1>5. DirsTo(t, h[m], p, m)
  BY <1>0, <1>4
<1> QED BY <1>1, <1>5 DEF Walks

\* What makeDirs does on a way without links or files.
LEMMA MakeDirsClear ==
  ASSUME NEW t, IsTree(t), NEW p \in Paths,
         \A k \in 1 .. Len(p) : t[SubSeq(p, 1, k)] \in {None, Dir}
  PROVE  ClearTo(t, MakeDirs(t, p), p, Len(p))
<1> DEFINE m == Len(p)
<1>1. PICK h : Walks(h, t, p)
  BY PathIs, MakeDirsWalks
<1>0. m \in Nat
  BY PathIs
<1> DEFINE P == {k \in Nat : k <= m => ClearTo(t, h[k], p, k)}
<1>2. 0 \in P
  <2>1. h[0] = Done(t) /\ Done(t).tree = t /\ Done(t).ok = TRUE /\ Done(t) \in Outcomes
    BY <1>1, OutcomeMade DEF Walks, Done
  <2>2. ClearTo(t, h[0], p, 0)
    BY <2>1 DEF ClearTo
  <2> QED BY <2>2
<1>3. ASSUME NEW k \in Nat, k \in P PROVE k + 1 \in P
  <2>1. SUFFICES ASSUME k + 1 <= m PROVE ClearTo(t, h[k + 1], p, k + 1)
    OBVIOUS
  <2>2. k + 1 \in 1 .. m /\ (k + 1) - 1 = k /\ ClearTo(t, h[k], p, k)
    BY <1>0, <1>3, <2>1
  <2>3. h[k + 1] = Level(h[k], SubSeq(p, 1, k + 1))
    <3>1. \A i \in 1 .. m : h[i] = Level(h[i - 1], SubSeq(p, 1, i))
      BY <1>1 DEF Walks
    <3> HIDE DEF m
    <3> QED BY <2>2, <3>1
  <2>4. t[SubSeq(p, 1, k + 1)] \in {None, Dir}
    BY <2>2
  <2> QED BY <2>1, <2>2, <2>3, <2>4, ClearLevel
<1>4. Nat \subseteq P
  <2> HIDE DEF P
  <2> QED BY <1>2, <1>3, SetInduction
<1>5. ClearTo(t, h[m], p, m)
  BY <1>0, <1>4
<1> QED BY <1>1, <1>5 DEF Walks

-----------------------------------------------------------------------------
\* What the handlers pass along.
Fields == [tree : [Paths -> Node], path : Paths \cup {<<>>}, exists : BOOLEAN,
           real : Paths \cup {<<>>}, absolute : BOOLEAN, ok : BOOLEAN]
Contexts == {c \in Fields : Rooted(c.tree) /\ (c.exists => c.path # <<>>)}

\* d is c but for the answer, the tree, the path, ...
SameObject(c, d) == d.path = c.path /\ d.exists = c.exists /\ d.real = c.real

\* What every object on a tree has.
LEMMA ContextIs ==
  ASSUME NEW c \in Contexts
  PROVE  /\ IsTree(c.tree) /\ c.path \in Paths \cup {<<>>} /\ c.path \in Seq(Names)
         /\ c.real \in Paths \cup {<<>>} /\ c.real \in Seq(Names) /\ c.exists \in BOOLEAN
         /\ c.ok \in BOOLEAN /\ (c.exists => c.path # <<>>)
<1>1. c.path \in Paths \cup {<<>>} /\ c.real \in Paths \cup {<<>>}
  BY DEF Contexts, Fields
<1>2. <<>> \in Seq(Names)
  OBVIOUS
<1>3. c.path \in Seq(Names) /\ c.real \in Seq(Names)
  BY <1>1, <1>2, PathIs
<1> QED BY <1>1, <1>3 DEF Contexts, Fields, IsTree

\* A call on the tree leaves the object as it is.
LEMMA OnIs ==
  ASSUME NEW c \in Contexts, NEW w \in Outcomes
  PROVE  On(c, w) \in Contexts /\ SameObject(c, On(c, w)) /\ On(c, w).tree = w.tree /\ On(c, w).ok = w.ok
BY DEF On, Contexts, Fields, Outcomes, SameObject

\* A result leaves the tree and the object as they are.
LEMMA ReturnsIs ==
  ASSUME NEW c \in Contexts, NEW b \in BOOLEAN
  PROVE  /\ Returns(c, b) \in Contexts /\ SameObject(c, Returns(c, b))
         /\ Returns(c, b).tree = c.tree /\ Returns(c, b).ok = b
BY DEF Returns, Contexts, Fields, SameObject

\* setPath gives the path and forgets that the object exists.
LEMMA setPathIs ==
  ASSUME NEW c \in Contexts, NEW p \in Paths \cup {<<>>}
  PROVE  /\ setPath(c, p) \in Contexts /\ setPath(c, p).tree = c.tree /\ setPath(c, p).path = p
         /\ setPath(c, p).exists = FALSE /\ setPath(c, p).real = c.real /\ setPath(c, p).ok = c.ok
BY DEF setPath, IsAbsolute, Contexts, Fields

\* A new object.
LEMMA ObjectIs ==
  ASSUME NEW t, IsTree(t), NEW p \in Paths \cup {<<>>}
  PROVE  /\ Object(t, p) \in Contexts /\ Object(t, p).tree = t /\ Object(t, p).path = p
         /\ Object(t, p).exists = FALSE /\ Object(t, p).real = <<>> /\ Object(t, p).ok = TRUE
BY DEF Object, IsAbsolute, Contexts, Fields, IsTree

\* What is there, of an object.
Exists(c, type) == c.exists \/ Matches(getStat(c), type)
Types == {UKNOWN, REGULAR_FILE, DIRECTORY}

\* What there is at the object's path is a node that is no link.
LEMMA getStatIs ==
  ASSUME NEW c \in Contexts
  PROVE  /\ getStat(c) # None => /\ c.path # <<>> /\ realpath(c.tree, c.path) \in Paths
                                 /\ getStat(c) = c.tree[realpath(c.tree, c.path)]
         /\ c.path # <<>> => getStat(c) = stat(c.tree, c.path)
         /\ getStat(c) \in {None, Dir} \cup Files
<1>1. CASE c.path = <<>>
  BY <1>1 DEF getStat
<1>2. CASE c.path # <<>>
  <2>1. getStat(c) = stat(c.tree, c.path)
    BY <1>2 DEF getStat
  <2> QED BY <1>2, <2>1, ContextIs, StatIs
<1> QED BY <1>1, <1>2

\* isExist answers whether the object exists, and changes nothing else.
LEMMA isExistIs ==
  ASSUME NEW c \in Contexts, NEW type
  PROVE  LET d == isExist(c, type) IN
         /\ d \in Contexts /\ d.tree = c.tree /\ d.path = c.path /\ d.real = c.real
         /\ d.exists = d.ok /\ (d.ok <=> Exists(c, type))
<1> DEFINE b == Exists(c, type)
<1>1. b \in BOOLEAN /\ (b => c.path # <<>>)
  <2>1. Matches(getStat(c), type) => c.path # <<>>
    BY getStatIs DEF Matches
  <2>2. Matches(getStat(c), type) \in BOOLEAN
    BY DEF Matches
  <2> QED BY <2>1, <2>2, ContextIs DEF Exists
<1>2. isExist(c, type) = [c EXCEPT !.exists = b, !.ok = b]
  BY DEF isExist, Remember, Exists
<1> HIDE DEF b
<1> DEFINE d == [c EXCEPT !.exists = b, !.ok = b]
<1>3. d \in Contexts /\ d.tree = c.tree /\ d.path = c.path /\ d.real = c.real /\ d.exists = b /\ d.ok = b
  BY <1>1 DEF Contexts, Fields
<1> QED BY <1>2, <1>3 DEF b

\* What makes a path adds directories only, and keeps the object's path free
\* when it is free.
Adds(c, d) ==
    /\ Grows(c.tree, d.tree)
    /\ \A q \in Paths : d.tree[q] # c.tree[q] => d.tree[q] = Dir
    /\ c.path # <<>> /\ stat(c.tree, c.path) = None => stat(d.tree, c.path) = None
\* makePath adds directories, and nothing where the object exists.
LEMMA makePathIs ==
  ASSUME NEW c \in Contexts, NEW type
  PROVE  LET d == makePath(c, type) IN
         /\ d \in Contexts /\ d.path = c.path /\ d.real = c.real
         /\ d.exists <=> Exists(c, type)
         /\ Exists(c, type) => d.tree = c.tree /\ d.ok
         /\ Adds(c, d)
         /\ ~Exists(c, type) /\ Len(c.path) > 1 /\ c.path \notin Bare =>
               d.tree = MakeDirs(c.tree, Parent(c.path)).tree
         /\ ~Exists(c, type) /\ ~(Len(c.path) > 1 /\ c.path \notin Bare) => d.tree = c.tree
<1> DEFINE e == isExist(c, type)
           d == makePath(c, type)
<1>1. e \in Contexts /\ e.tree = c.tree /\ e.path = c.path /\ e.real = c.real
      /\ e.exists = e.ok /\ (e.ok <=> Exists(c, type))
  BY isExistIs
<1>2. d = Directories(e)
  BY DEF makePath
<1> HIDE DEF e, d
<1>3. IsTree(c.tree) /\ c.path \in Seq(Names) /\ Len(c.path) \in Nat
  BY ContextIs
<1>4. CASE e.ok
  <2>1. d = e
    BY <1>2, <1>4 DEF Directories
  <2> QED BY <1>1, <1>4, <2>1, GrowsOn DEF Adds, d
<1>5. CASE ~e.ok /\ ~(Len(c.path) > 1 /\ c.path \notin Bare)
  <2>0. Len(e.path) <= 1 \/ e.path \in Bare
    BY <1>1, <1>3, <1>5
  <2>1. d = Returns(e, FALSE)
    BY <1>2, <1>5, <2>0, Zenon DEF Directories
  <2>2. d \in Contexts /\ SameObject(e, d) /\ d.tree = e.tree
    BY <1>1, <2>1, ReturnsIs
  <2> QED BY <1>1, <1>5, <2>2, GrowsOn DEF Adds, SameObject, d
<1>6. CASE ~e.ok /\ Len(c.path) > 1 /\ c.path \notin Bare
  <2> DEFINE w == MakeDirs(c.tree, Parent(c.path))
             p == Parent(c.path)
  <2>0. ~(Len(e.path) <= 1 \/ e.path \in Bare)
    BY <1>1, <1>3, <1>6
  <2>1. d = On(e, w)
    <3>1. d = On(e, MakeDirs(e.tree, Parent(e.path)))
      BY <1>2, <1>6, <2>0, Zenon DEF Directories
    <3> QED BY <1>1, <3>1
  <2>2. c.path # <<>>
    <3>1. Len(<<>>) = 0
      OBVIOUS
    <3> QED BY <1>6, <3>1
  <2>3. p \in Seq(Names) /\ Append(p, Name(c.path)) = c.path /\ Name(c.path) \in Names
        /\ Len(p) = Len(c.path) - 1
    BY <1>3, <2>2, FrontAndLast
  <2>4. DirsTo(c.tree, w, p, Len(p))
    BY <1>3, <2>3, MakeDirsIs
  <2> HIDE DEF w
  <2>5. w \in Outcomes
    BY <2>4 DEF DirsTo
  <2>6. d \in Contexts /\ SameObject(e, d) /\ d.tree = w.tree
    BY <1>1, <2>1, <2>5, OnIs
  <2>7. ASSUME stat(c.tree, c.path) = None PROVE stat(w.tree, c.path) = None
    <3>1. SubSeq(p, 1, Len(p)) = p
      BY <2>3
    <3>2. CASE w.tree = c.tree
      BY <2>7, <3>2
    <3>3. CASE \A x \in Names : stat(w.tree, Append(SubSeq(p, 1, Len(p)), x)) = None
      BY <2>3, <3>1, <3>3
    <3> QED BY <2>4, <3>2, <3>3 DEF DirsTo
  <2>8. Adds(c, d)
    BY <2>4, <2>6, <2>7 DEF Adds, DirsTo
  <2> QED BY <1>1, <1>6, <2>6, <2>8 DEF SameObject, d, w
<1> QED BY <1>1, <1>4, <1>5, <1>6

\* What getAbsolutePath remembers: what the path resolves to, else where its
\* name is looked up, else what was remembered.
Place(d, old) ==
    IF d.path = <<>> THEN old
    ELSE IF realpath(d.tree, d.path) # NoPath THEN realpath(d.tree, d.path)
    ELSE IF d.path \in Bare \/ stat(d.tree, Parent(d.path)) # Dir THEN old
    ELSE IF Entry(d.tree, d.path) # NoPath THEN Entry(d.tree, d.path) ELSE <<>>

\* Resolving changes only the cached real path.
LEMMA ResolvedIs ==
  ASSUME NEW c \in Contexts
  PROVE  LET d == Resolved(c) IN
         /\ d \in Contexts /\ d.tree = c.tree /\ d.path = c.path /\ d.exists = c.exists
         /\ d.ok = c.ok /\ d.real = Place(c, c.real)
<1> DEFINE d == Resolved(c)
           t == c.tree
           p == c.path
           r == Place(c, c.real)
<1>0. IsTree(t) /\ p \in Seq(Names) /\ p \in Paths \cup {<<>>} /\ c.real \in Paths \cup {<<>>}
  BY ContextIs
<1>1. CASE p = <<>>
  <2>1. d = [c EXCEPT !.absolute = FALSE]
    BY <1>1 DEF Resolved, Resolve
  <2>2. d \in Contexts /\ d.tree = c.tree /\ d.path = c.path /\ d.exists = c.exists
        /\ d.ok = c.ok /\ d.real = c.real
    BY <2>1 DEF Contexts, Fields
  <2> QED BY <1>1, <2>2 DEF Place
<1>2. CASE p # <<>>
  <2> DEFINE whole == realpath(t, p)
             v == IF whole # NoPath THEN whole ELSE Beside(directoryPath(c), Name(p), c.real)
             b == c.absolute /\ (whole # NoPath \/ directoryPath(c) # NoPath)
  <2>1. d = [c EXCEPT !.real = v, !.absolute = b]
    BY <1>2 DEF Resolved, Resolve
  <2>0. b \in BOOLEAN
    BY DEF Contexts, Fields
  <2>2. v = r /\ r \in Paths \cup {<<>>}
    <3>1. CASE whole # NoPath
      <4>1. whole \in Paths
        BY <1>0, <1>2, <3>1, RealpathIs
      <4> QED BY <1>2, <3>1, <4>1 DEF Place
    <3>2. CASE whole = NoPath /\ (p \in Bare \/ stat(t, Parent(p)) # Dir)
      <4>1. directoryPath(c) = NoPath
        BY <3>2 DEF directoryPath
      <4> QED BY <1>0, <1>2, <3>2, <4>1 DEF Beside, Place
    <3>3. CASE whole = NoPath /\ ~(p \in Bare \/ stat(t, Parent(p)) # Dir)
      <4> DEFINE dir == realpath(t, Parent(p))
                 e == Append(dir, Name(p))
      <4>1. directoryPath(c) = dir
        BY <3>3 DEF directoryPath
      <4>2. NodeAt(t, dir) = Dir
        BY <3>3 DEF stat
      <4>3. dir # NoPath
        BY <4>2, NodeAssumption DEF NodeAt
      <4>4. v = Fitting(e)
        BY <3>3, <4>1, <4>3 DEF Beside
      <4>5. Entry(t, p) = IF e \in Paths THEN e ELSE NoPath
        BY <4>2 DEF Entry, In
      <4>6. e \in Paths => e # NoPath
        BY PathIs, NodeAssumption
      <4>7. r = IF Entry(t, p) # NoPath THEN Entry(t, p) ELSE <<>>
        BY <1>2, <3>3 DEF Place
      <4> HIDE DEF e, v, r
      <4> QED BY <4>4, <4>5, <4>6, <4>7 DEF Fitting
    <3> QED BY <3>1, <3>2, <3>3
  <2> HIDE DEF v, r, b
  <2> DEFINE x == [c EXCEPT !.real = r, !.absolute = b]
  <2>3. d = x
    BY <2>1, <2>2
  <2>4. x \in Contexts /\ x.real = r /\ x.tree = c.tree /\ x.path = c.path
        /\ x.exists = c.exists /\ x.ok = c.ok
    BY <2>0, <2>2 DEF Contexts, Fields
  <2> HIDE DEF d, x
  <2> QED BY <2>3, <2>4 DEF r, d
<1> QED BY <1>1, <1>2

\* getAbsolutePath does what makePath does, and caches the real path.
LEMMA getAbsolutePathIs ==
  ASSUME NEW c \in Contexts, NEW type
  PROVE  LET d == getAbsolutePath(c, type) IN
         /\ d \in Contexts /\ d.tree = makePath(c, type).tree /\ d.path = c.path
         /\ d.exists <=> Exists(c, type)
         /\ Adds(c, d) /\ (Exists(c, type) => d.tree = c.tree)
         /\ d.real = Place(d, c.real)
<1> DEFINE m == makePath(c, type)
           d == Resolved(m)
<1>1. /\ m \in Contexts /\ m.path = c.path /\ m.real = c.real
      /\ m.exists <=> Exists(c, type)
      /\ Adds(c, m) /\ (Exists(c, type) => m.tree = c.tree)
  BY makePathIs
<1> HIDE DEF m
<1>2. d \in Contexts /\ d.tree = m.tree /\ d.path = m.path /\ d.exists = m.exists
      /\ d.ok = m.ok /\ d.real = Place(m, m.real)
  BY <1>1, ResolvedIs
<1>3. getAbsolutePath(c, type) = d
  BY DEF getAbsolutePath, m
<1> HIDE DEF d
<1>4. Place(d, c.real) = Place(m, m.real)
  BY <1>1, <1>2 DEF Place
<1>5. Adds(c, d)
  BY <1>1, <1>2 DEF Adds
<1> QED BY <1>1, <1>2, <1>3, <1>4, <1>5 DEF m

\* What an attempt to make the object leaves.
Tries(d, r, type) ==
    /\ r \in Contexts /\ Grows(d.tree, r.tree) /\ SameObject(d, r)
    /\ r.ok => type # UKNOWN /\ r.path # <<>> /\ TypeOf(stat(r.tree, r.path)) = type
\* What one attempt to create does.
LEMMA TryIs ==
  ASSUME NEW d \in Contexts, NEW type \in Types
  PROVE  Tries(d, Try(d, type), type)
<1> DEFINE r == Try(d, type)
           n == getStat(d)
<1>0. IsTree(d.tree) /\ d.path \in Seq(Names)
  BY ContextIs
<1>1. CASE type = UKNOWN \/ d.path = <<>>
  <2>1. r = Returns(d, FALSE)
    BY <1>1 DEF Try, MakeObject
  <2> QED BY <2>1, ReturnsIs, GrowsOn DEF Tries
<1>2. CASE type # UKNOWN /\ d.path # <<>> /\ n # None
  <2>1. r = Returns(d, TypeOf(n) = type)
    BY <1>2 DEF Try, MakeObject
  <2>2. n = stat(d.tree, d.path)
    BY <1>2, getStatIs
  <2>3. (TypeOf(n) = type) \in BOOLEAN
    OBVIOUS
  <2> HIDE DEF r, n
  <2>4. r \in Contexts /\ SameObject(d, r) /\ r.tree = d.tree /\ r.ok = (TypeOf(n) = type)
    BY <2>1, <2>3, ReturnsIs
  <2>5. r.path = d.path
    BY <2>4 DEF SameObject
  <2> QED BY <1>2, <2>2, <2>4, <2>5, GrowsOn DEF Tries, r
<1>3. CASE type = DIRECTORY /\ d.path # <<>> /\ n = None
  <2> DEFINE w == mkdir(d.tree, d.path)
  <2>1. r = On(d, w)
    BY <1>3 DEF Try, MakeObject, DIRECTORY, UKNOWN
  <2>2. w \in Outcomes /\ Grows(d.tree, w.tree) /\ (w.ok => stat(w.tree, d.path) = Dir)
    BY <1>0, CallsHaveOutcomes, mkdirIs
  <2> HIDE DEF w, r
  <2>3. r \in Contexts /\ SameObject(d, r) /\ r.tree = w.tree /\ r.ok = w.ok
    BY <2>1, <2>2, OnIs
  <2>4. r.path = d.path
    BY <2>3 DEF SameObject
  <2> QED BY <1>3, <2>2, <2>3, <2>4 DEF Tries, TypeOf, DIRECTORY, UKNOWN, r
<1>4. CASE type = REGULAR_FILE /\ d.path # <<>> /\ n = None
  <2> DEFINE w == creat(d.tree, d.path, New)
  <2>1. r = On(d, w)
    BY <1>4 DEF Try, MakeObject, DIRECTORY, UKNOWN, REGULAR_FILE
  <2>0. New \in Files /\ New # Dir
    BY CallsAssumption, NodeAssumption
  <2>2. w \in Outcomes /\ Grows(d.tree, w.tree) /\ (w.ok => stat(w.tree, d.path) = New)
    BY <1>0, <2>0, CallsHaveOutcomes, creatIs DEF Makes
  <2> HIDE DEF w, r
  <2>3. r \in Contexts /\ SameObject(d, r) /\ r.tree = w.tree /\ r.ok = w.ok
    BY <2>1, <2>2, OnIs
  <2>4. r.path = d.path
    BY <2>3 DEF SameObject
  <2> QED BY <1>4, <2>0, <2>2, <2>3, <2>4 DEF Tries, TypeOf, REGULAR_FILE, UKNOWN, r
<1> QED BY <1>1, <1>2, <1>3, <1>4 DEF Types

\* The parent of a path is a path.
LEMMA ParentTyped ==
  ASSUME NEW p \in Seq(Names)
  PROVE  Parent(p) \in Seq(Names)
<1>1. CASE p # <<>>
  BY <1>1, FrontAndLast
<1>2. CASE p = <<>>
  BY <1>2 DEF Parent
<1> QED BY <1>1, <1>2

\* What is at a path stays there while the tree grows.
LEMMA StatGrows ==
  ASSUME NEW t, NEW u, IsTree(t), IsTree(u), Grows(t, u), NEW p \in Seq(Names), stat(t, p) # None
  PROVE  stat(u, p) = stat(t, p) /\ realpath(u, p) = realpath(t, p)
<1>1. realpath(t, p) # NoPath
  BY StatIs
<1> QED BY <1>1, GrowsResolves

\* What create leaves, on the way and at its end.
Creates(c, r, type) ==
    /\ r \in Contexts /\ Grows(c.tree, r.tree)
    /\ r.ok => type # UKNOWN /\ r.path # <<>> /\ TypeOf(stat(r.tree, r.path)) = type
\* The first attempt of create.
LEMMA AttemptIs ==
  ASSUME NEW c \in Contexts, NEW type \in Types
  PROVE  Creates(c, Try(makePath(c, type), type), type)
<1> DEFINE m == makePath(c, type)
           r == Try(m, type)
<1>1. m \in Contexts /\ Grows(c.tree, m.tree)
  BY makePathIs DEF Adds
<1> HIDE DEF m
<1>2. Tries(m, r, type)
  BY <1>1, TryIs
<1> HIDE DEF r
<1>3. Grows(c.tree, r.tree)
  BY <1>1, <1>2, GrowsOn DEF Tries
<1> QED BY <1>1, <1>2, <1>3 DEF Creates, Tries, r, m

\* A retry of create, under the next name.
LEMMA RetryIs ==
  ASSUME NEW c \in Contexts, NEW d, NEW type \in Types, Creates(c, d, type)
  PROVE  Creates(c, Retry(d, type), type) /\ (d.ok \/ type = UKNOWN => Retry(d, type) = d)
<1>0. d \in Contexts
  BY DEF Creates
<1>1. CASE ~d.ok /\ type # UKNOWN /\ getStat(d) # None
  <2> DEFINE s == setPath(d, Sharp[d.path])
             r == Try(makePath(s, type), type)
  <2>1. d.path \in Paths
    <3>1. d.path # <<>>
      BY <1>0, <1>1, getStatIs
    <3> QED BY <1>0, <3>1, ContextIs
  <2>2. Sharp[d.path] \in Paths
    BY <2>1, SharpAssumption
  <2>3. s \in Contexts /\ s.tree = d.tree /\ s.exists = FALSE
    BY <1>0, <2>2, setPathIs
  <2>4. Retry(d, type) = r
    BY <1>1 DEF Retry
  <2> HIDE DEF s
  <2>5. Creates(s, r, type)
    BY <2>3, AttemptIs
  <2> HIDE DEF r
  <2>6. Grows(c.tree, r.tree)
    BY <2>3, <2>5, GrowsOn DEF Creates
  <2> QED BY <1>1, <2>4, <2>5, <2>6 DEF Creates
<1>2. CASE ~(~d.ok /\ type # UKNOWN /\ getStat(d) # None)
  <2>1. Retry(d, type) = d
    BY <1>2 DEF Retry
  <2> QED BY <2>1
<1> QED BY <1>1, <1>2

\* A retry gives an object, whatever came before.
LEMMA RetryTyped ==
  ASSUME NEW d \in Contexts, NEW type \in Types
  PROVE  Retry(d, type) \in Contexts
<1>1. CASE ~d.ok
  <2>1. Creates(d, d, type)
    BY <1>1, GrowsOn DEF Creates
  <2> QED BY <2>1, RetryIs DEF Creates
<1>2. CASE d.ok
  BY <1>2 DEF Retry
<1> QED BY <1>1, <1>2

Attempts(h, c, type) ==
    /\ h \in [0 .. MaxRenames -> Contexts] /\ h[0] = Try(makePath(c, type), type)
    /\ \A n \in 1 .. MaxRenames : h[n] = Retry(h[n - 1], type)
    /\ create(c, type) = h[MaxRenames]
\* create goes from attempt to attempt.
LEMMA createAttempts ==
  ASSUME NEW c \in Contexts, NEW type \in Types
  PROVE  \E h : Attempts(h, c, type)
<1> DEFINE S == Contexts
           m == MaxRenames
           First == Try(makePath(c, type), type)
           G == [x \in (1 .. m) \X S |-> Retry(x[2], type)]
           Is(h) == h = [k \in 0 .. m |-> IF k = 0 THEN First ELSE Retry(h[k - 1], type)]
           a == CHOOSE h : Is(h)
<1>1. m \in Nat
  BY MaxRenamesAssumption
<1>2. G \in [(1 .. m) \X S -> S]
  <2>1. \A i \in 1 .. m, x \in S : Retry(x, type) \in S
    BY RetryTyped
  <2> HIDE DEF S, m
  <2> QED BY <2>1
<1>3. \A i \in 1 .. m, x \in S : G[i, x] = Retry(x, type)
  OBVIOUS
<1>0. First \in S
  BY AttemptIs DEF Creates
<1>4. PICK f \in [0 .. m -> S] : f[0] = First /\ \A i \in 1 .. m : f[i] = G[i, f[i - 1]]
  <2>1. Iterates(S, First, m, G)
    <3> HIDE DEF G, S, m
    <3> QED BY <1>0, <1>1, <1>2, Recursion
  <2> QED BY <2>1 DEF Iterates
<1>5. \A i \in 1 .. m : i - 1 \in 0 .. m /\ f[i - 1] \in S
  <2>1. \A i \in 1 .. m : i - 1 \in 0 .. m
    BY <1>1
  <2> HIDE DEF S, m
  <2> QED BY <2>1, <1>4
<1>6. \A i \in 1 .. m : f[i] = Retry(f[i - 1], type)
  <2> HIDE DEF G, m, S
  <2> QED BY <1>3, <1>4, <1>5
<1>7. Is(f)
  <2> DEFINE h == [k \in 0 .. m |-> IF k = 0 THEN First ELSE Retry(f[k - 1], type)]
  <2>1. f = [k \in 0 .. m |-> f[k]] /\ h = [k \in 0 .. m |-> h[k]]
    OBVIOUS
  <2>2. \A k \in 0 .. m : h[k] = IF k = 0 THEN First ELSE Retry(f[k - 1], type)
    OBVIOUS
  <2>3. \A k \in 0 .. m : f[k] = h[k]
    <3> HIDE DEF h, S, m
    <3>1. \A k \in 0 .. m : k # 0 => k \in 1 .. m
      BY <1>1
    <3> QED BY <2>2, <3>1, <1>4, <1>6
  <2>4. f = h
    <3> HIDE DEF h, S, m
    <3> QED BY <2>1, <2>3, Zenon
  <2> QED BY <2>4
<1>8. Is(a)
  <2> HIDE DEF Is
  <2> QED BY <1>7
<1>9. create(c, type) = a[m]
  BY DEF create
<1>10. \A k \in 0 .. m : a[k] = IF k = 0 THEN First ELSE Retry(a[k - 1], type)
  <2> HIDE DEF a
  <2> QED BY <1>8
<1>11. a = [k \in 0 .. m |-> a[k]]
  <2> DEFINE h == [k \in 0 .. m |-> IF k = 0 THEN First ELSE Retry(a[k - 1], type)]
  <2>1. h = [k \in 0 .. m |-> h[k]]
    OBVIOUS
  <2>2. a = h
    BY <1>8
  <2> HIDE DEF a, h
  <2> QED BY <2>1, <2>2
<1> HIDE DEF a
<1>12. \A k \in 1 .. m : a[k] = Retry(a[k - 1], type)
  <2>1. \A k \in 1 .. m : k \in 0 .. m /\ k # 0
    BY <1>1
  <2> HIDE DEF m
  <2> QED BY <2>1, <1>10
<1>13. a[0] = First
  <2>1. 0 \in 0 .. m
    BY <1>1
  <2> QED BY <2>1, <1>10
<1>14. \A k \in 0 .. m : a[k] \in S
  <2> DEFINE P == {k \in Nat : k <= m => a[k] \in S}
  <2>1. 0 \in P
    BY <1>0, <1>13
  <2>2. ASSUME NEW k \in Nat, k \in P PROVE k + 1 \in P
    <3>1. SUFFICES ASSUME k + 1 <= m PROVE a[k + 1] \in S
      OBVIOUS
    <3>2. k + 1 \in 1 .. m /\ (k + 1) - 1 = k /\ a[k] \in S
      BY <1>1, <2>2, <3>1
    <3>3. a[k + 1] = Retry(a[k], type)
      <4> HIDE DEF m, S
      <4> QED BY <1>12, <3>2
    <3> QED BY <3>2, <3>3, RetryTyped
  <2>3. Nat \subseteq P
    <3> HIDE DEF P
    <3> QED BY <2>1, <2>2, SetInduction
  <2>4. \A k \in 0 .. m : k \in Nat /\ k <= m
    BY <1>1
  <2> QED BY <2>3, <2>4
<1>15. a \in [0 .. m -> S]
  <2> HIDE DEF S, m
  <2> QED BY <1>11, <1>14
<1>16. Attempts(a, c, type)
  BY <1>9, <1>12, <1>13, <1>15 DEF Attempts
<1> QED BY <1>16


\* What create does after all its retries, and that it stops at the first attempt that
\* succeeds.
LEMMA createIs ==
  ASSUME NEW c \in Contexts, NEW type \in Types
  PROVE  /\ Creates(c, create(c, type), type)
         /\ LET first == Try(makePath(c, type), type) IN
            first.ok \/ type = UKNOWN => create(c, type) = first
<1> DEFINE m == MaxRenames
           first == Try(makePath(c, type), type)
           Ends(d) == Creates(c, d, type) /\ (first.ok \/ type = UKNOWN => d = first)
<1>1. PICK h : Attempts(h, c, type)
  BY createAttempts
<1>0. m \in Nat
  BY MaxRenamesAssumption
<1> HIDE DEF first
<1> DEFINE P == {k \in Nat : k <= m => Ends(h[k])}
<1>2. 0 \in P
  <2>1. h[0] = first
    BY <1>1 DEF Attempts, first
  <2>2. Creates(c, first, type)
    BY AttemptIs DEF first
  <2> QED BY <2>1, <2>2
<1>3. ASSUME NEW k \in Nat, k \in P PROVE k + 1 \in P
  <2>1. SUFFICES ASSUME k + 1 <= m PROVE Ends(h[k + 1])
    OBVIOUS
  <2>2. k + 1 \in 1 .. m /\ (k + 1) - 1 = k /\ Ends(h[k])
    BY <1>0, <1>3, <2>1
  <2>3. h[k + 1] = Retry(h[k], type)
    <3>1. \A i \in 1 .. m : h[i] = Retry(h[i - 1], type)
      BY <1>1 DEF Attempts
    <3> HIDE DEF Ends
    <3> QED BY <2>2, <3>1
  <2> QED BY <2>2, <2>3, RetryIs
<1>4. Nat \subseteq P
  <2> HIDE DEF P
  <2> QED BY <1>2, <1>3, SetInduction
<1>5. Ends(h[m])
  <2> HIDE DEF Ends
  <2> QED BY <1>0, <1>4
<1>6. create(c, type) = h[m]
  BY <1>1 DEF Attempts
<1> QED BY <1>5, <1>6 DEF first

\* Without a type, create makes the path and no object.
LEMMA createOfNothing ==
  ASSUME NEW c \in Contexts
  PROVE  LET d == create(c, UKNOWN) IN
         /\ d \in Contexts /\ ~d.ok /\ d.tree = makePath(c, UKNOWN).tree /\ d.path = c.path
         /\ d.real = c.real /\ (d.exists <=> Exists(c, UKNOWN)) /\ Adds(c, d)
<1> DEFINE m == makePath(c, UKNOWN)
<1>1. /\ m \in Contexts /\ m.path = c.path /\ m.real = c.real
      /\ m.exists <=> Exists(c, UKNOWN)
      /\ Adds(c, m)
  BY makePathIs
<1>2. create(c, UKNOWN) = Try(m, UKNOWN)
  BY createIs DEF Types
<1>3. Try(m, UKNOWN) = Returns(m, FALSE)
  BY DEF Try, MakeObject
<1> HIDE DEF m
<1>4. Returns(m, FALSE) \in Contexts /\ SameObject(m, Returns(m, FALSE))
      /\ Returns(m, FALSE).tree = m.tree /\ Returns(m, FALSE).ok = FALSE
  BY <1>1, ReturnsIs
<1> DEFINE d == Returns(m, FALSE)
<1>5. Adds(c, d)
  BY <1>1, <1>4 DEF Adds
<1> HIDE DEF d
<1> QED BY <1>1, <1>2, <1>3, <1>4, <1>5 DEF SameObject, d, m
-----------------------------------------------------------------------------
\* Two paths, one after the other.
LEMMA ConcatIs ==
  ASSUME NEW S, NEW a \in Seq(S), NEW z \in Seq(S)
  PROVE  /\ a \o z \in Seq(S) /\ Len(a \o z) = Len(a) + Len(z)
         /\ SubSeq(a \o z, 1, Len(a)) = a
         /\ SubSeq(a \o z, Len(a) + 1, Len(a \o z)) = z
         /\ \A i \in 1 .. Len(z) : (a \o z)[Len(a) + i] = z[i]
<1>1. a \o z \in Seq(S) /\ Len(a \o z) = Len(a) + Len(z) /\ Len(a) \in Nat /\ Len(z) \in Nat
  OBVIOUS
<1>2. \A i \in 1 .. Len(a) : (a \o z)[i] = a[i]
  OBVIOUS
<1>3. \A i \in 1 .. Len(z) : (a \o z)[Len(a) + i] = z[i]
  OBVIOUS
<1> DEFINE c == a \o z
<1> HIDE DEF c
<1>4. SubSeq(c, 1, Len(a)) = a
  BY <1>1, <1>2 DEF c
<1>5. SubSeq(c, Len(a) + 1, Len(c)) = z
  BY <1>1, <1>3 DEF c
<1> QED BY <1>1, <1>3, <1>4, <1>5 DEF c

\* A sequence is what comes before a place and what comes after it.
LEMMA SplitIs ==
  ASSUME NEW S, NEW q \in Seq(S), NEW k \in 0 .. Len(q)
  PROVE  /\ SubSeq(q, 1, k) \o SubSeq(q, k + 1, Len(q)) = q
         /\ SubSeq(q, k + 1, Len(q)) \in Seq(S) /\ Len(SubSeq(q, k + 1, Len(q))) = Len(q) - k
<1>1. SubSeq(q, k + 1, Len(q)) \in Seq(S) /\ Len(SubSeq(q, k + 1, Len(q))) = Len(q) - k
  OBVIOUS
<1> DEFINE h == SubSeq(q, 1, k)
           z == SubSeq(q, k + 1, Len(q))
           c == h \o z
<1>2. h \in Seq(S) /\ Len(h) = k /\ Len(q) \in Nat
  OBVIOUS
<1>3. \A i \in 1 .. k : h[i] = q[i]
  OBVIOUS
<1>4. \A i \in 1 .. Len(q) - k : z[i] = q[k + i]
  OBVIOUS
<1> HIDE DEF h, z
<1>5. c \in Seq(S) /\ Len(c) = Len(q)
  BY <1>1, <1>2 DEF z
<1>6. ASSUME NEW i \in 1 .. Len(q) PROVE c[i] = q[i]
  <2>1. CASE i <= k
    <3>1. c[i] = h[i]
      BY <1>1, <1>2, <2>1 DEF z
    <3> QED BY <1>2, <1>3, <2>1, <3>1
  <2>2. CASE i > k
    <3>2. i - k \in 1 .. Len(q) - k /\ k + (i - k) = i
      BY <1>2, <2>2
    <3>4. z \in Seq(S) /\ Len(z) = Len(q) - k
      BY <1>1 DEF z
    <3>5. \A j \in 1 .. Len(z) : (h \o z)[Len(h) + j] = z[j]
      BY <1>2, <3>4
    <3>1. c[i] = z[i - k]
      BY <1>2, <3>2, <3>4, <3>5
    <3>3. z[i - k] = q[k + (i - k)]
      BY <1>4, <3>2
    <3> QED BY <3>1, <3>2, <3>3
  <2>3. i <= k \/ i > k
    BY <1>2
  <2> HIDE DEF c
  <2> QED BY <2>1, <2>2, <2>3
<1>7. c = q
  <2> HIDE DEF c
  <2> QED BY <1>5, <1>6
<1> QED BY <1>1, <1>7 DEF h, z

\* The parent of a path under another.
LEMMA ConcatParent ==
  ASSUME NEW S, NEW a \in Seq(S), NEW z \in Seq(S), z # <<>>
  PROVE  Parent(a \o z) = a \o Parent(z) /\ Parent(z) \in Seq(S)
<1>1. Parent(z) \in Seq(S) /\ Len(Parent(z)) = Len(z) - 1 /\ Len(z) \in Nat
  BY FrontAndLast
<1>2. Len(z) >= 1
  BY <1>1
<1>3. Parent(a \o z) = a \o Parent(z)
  BY <1>1, <1>2 DEF Parent
<1> QED BY <1>1, <1>3

\* What is under a path is the path with more names.
LEMMA UnderSplits ==
  ASSUME NEW e \in Seq(Names), NEW q \in Seq(Names)
  PROVE  /\ Under(q, e) => \E z \in Seq(Names) : q = e \o z
         /\ \A z \in Seq(Names) : Under(e \o z, e)
<1>1. ASSUME Under(q, e) PROVE \E z \in Seq(Names) : q = e \o z
  <2> DEFINE k == Len(e)
             z == SubSeq(q, k + 1, Len(q))
  <2>1. k \in 0 .. Len(q) /\ SubSeq(q, 1, k) = e
    BY <1>1 DEF Under
  <2> HIDE DEF k
  <2>2. z \in Seq(Names) /\ SubSeq(q, 1, k) \o z = q
    BY <2>1, SplitIs
  <2> HIDE DEF z
  <2> QED BY <2>1, <2>2
<1>2. ASSUME NEW z \in Seq(Names) PROVE Under(e \o z, e)
  <2>1. e \o z \in Seq(Names) /\ Len(e \o z) = Len(e) + Len(z) /\ SubSeq(e \o z, 1, Len(e)) = e
    BY ConcatIs
  <2>2. Len(e) \in Nat /\ Len(z) \in Nat
    OBVIOUS
  <2> DEFINE c == e \o z
  <2> HIDE DEF c
  <2>3. Under(c, e)
    BY <2>1, <2>2 DEF Under, c
  <2> QED BY <2>3 DEF c
<1> QED BY <1>1, <1>2

\* The names below a directory that is put elsewhere.
LEMMA ImageIs ==
  ASSUME NEW s \in Seq(Names), NEW d \in Seq(Names), NEW z \in Seq(Names)
  PROVE  Image(s \o z, s, d) = d \o z /\ d \o z \in Seq(Names)
<1>1. SubSeq(s \o z, Len(s) + 1, Len(s \o z)) = z
  BY ConcatIs
<1>2. d \o z \in Seq(Names)
  BY ConcatIs
<1> QED BY <1>1, <1>2 DEF Image

\* The image of a path under a move, and the way back.
LEMMA ImageBack ==
  ASSUME NEW s \in Seq(Names), NEW d \in Seq(Names), NEW q \in Seq(Names), Under(q, s)
  PROVE  /\ Image(q, s, d) \in Seq(Names) /\ Under(Image(q, s, d), d)
         /\ Image(Image(q, s, d), d, s) = q
         /\ q # s => /\ Parent(Image(q, s, d)) = Image(Parent(q), s, d)
                     /\ Len(Image(q, s, d)) > Len(d)
         /\ q = s => Image(q, s, d) = d
<1>1. PICK z \in Seq(Names) : q = s \o z
  BY UnderSplits
<1>2. Image(q, s, d) = d \o z /\ d \o z \in Seq(Names) /\ Image(d \o z, d, s) = s \o z
  BY <1>1, ImageIs
<1>3. Under(d \o z, d)
  BY UnderSplits
<1>6. \A x \in Seq(Names) : Image(s \o x, s, d) = d \o x
  BY ImageIs
<1>4. ASSUME q # s
      PROVE  Parent(Image(q, s, d)) = Image(Parent(q), s, d) /\ Len(Image(q, s, d)) > Len(d)
  <2>1. z # <<>>
    <3>1. s \o <<>> = s
      OBVIOUS
    <3> QED BY <1>1, <1>4, <3>1
  <2>2. Parent(s \o z) = s \o Parent(z) /\ Parent(d \o z) = d \o Parent(z) /\ Parent(z) \in Seq(Names)
    BY <2>1, ConcatParent
  <2>3. Image(s \o Parent(z), s, d) = d \o Parent(z)
    BY <1>6, <2>2
  <2>4. Len(d \o z) = Len(d) + Len(z) /\ Len(z) \in Nat /\ Len(z) # 0 /\ Len(d) \in Nat
    BY <2>1, ConcatIs
  <2>5. Len(d \o z) > Len(d)
    <3> DEFINE c == Len(d \o z)
    <3> HIDE DEF c
    <3> QED BY <2>4 DEF c
  <2> QED BY <1>1, <1>2, <2>2, <2>3, <2>5
<1>5. ASSUME q = s PROVE Image(q, s, d) = d
  <2>1. s = s \o <<>> /\ d \o <<>> = d /\ <<>> \in Seq(Names)
    OBVIOUS
  <2>2. Image(s \o <<>>, s, d) = d \o <<>>
    BY <1>6, <2>1, Zenon
  <2> QED BY <1>5, <2>1, <2>2, Zenon
<1> QED BY <1>1, <1>2, <1>3, <1>4, <1>5

-----------------------------------------------------------------------------
\* What is at q of a tree that was put at e.
LEMMA MovedIs ==
  ASSUME NEW t, IsTree(t), NEW s \in Paths, NEW e \in Paths, NEW q \in Paths
  PROVE  /\ Moved(t, s, e, q) \in Node
         /\ Moved(t, s, e, q) # None =>
               /\ Under(q, e)
               /\ q # e => /\ Parent(q) \in Paths /\ Under(Parent(q), e)
                           /\ Moved(t, s, e, Parent(q)) = Dir
         /\ Moved(t, s, e, e) = t[s]
         /\ Under(q, s) /\ Image(q, s, e) \in Paths => Moved(t, s, e, Image(q, s, e)) = t[q]
<1>0. s \in Seq(Names) /\ e \in Seq(Names) /\ q \in Seq(Names) /\ e # <<>> /\ q # <<>> /\ s # <<>>
      /\ Len(s) \in Nat /\ Len(s) >= 1 /\ Len(e) \in Nat /\ Len(e) >= 1 /\ Len(q) \in Nat
  BY PathIs
<1> DEFINE n == Moved(t, s, e, q)
           i == Image(q, e, s)
<1>1. n \in Node
  BY DEF Moved, IsTree, Node
<1>2. ASSUME n # None PROVE Under(q, e) /\ i \in Paths /\ n = t[i]
  BY <1>2 DEF Moved
<1>3. ASSUME n # None, q # e
      PROVE  Parent(q) \in Paths /\ Under(Parent(q), e) /\ Moved(t, s, e, Parent(q)) = Dir
  <2>1. Under(Parent(q), e) /\ Len(e) < Len(q)
    BY <1>0, <1>2, <1>3, UnderIs
  <2>2. Parent(q) \in Paths
    BY <1>0, <2>1, PathIs
  <2>3. Parent(i) = Image(Parent(q), e, s) /\ Len(i) > Len(s)
    BY <1>0, <1>2, <1>3, ImageBack
  <2> HIDE DEF i
  <2>5. Len(i) > 1 /\ i \in Paths /\ t[i] # None
    BY <1>0, <1>2, <1>3, <2>3, PathIs
  <2>4. Parent(i) \in Paths /\ t[Parent(i)] = Dir
    BY <2>5, PathIs DEF IsTree, Rooted
  <2> QED BY <2>1, <2>2, <2>3, <2>4 DEF Moved
<1>4. Moved(t, s, e, e) = t[s]
  <2>1. Under(e, e) /\ Image(e, e, s) = s
    BY <1>0, UnderIs, ImageBack
  <2> QED BY <2>1 DEF Moved
<1>5. ASSUME Under(q, s), Image(q, s, e) \in Paths PROVE Moved(t, s, e, Image(q, s, e)) = t[q]
  <2>1. Under(Image(q, s, e), e) /\ Image(Image(q, s, e), e, s) = q
    BY <1>0, <1>5, ImageBack
  <2> QED BY <2>1 DEF Moved
<1> QED BY <1>1, <1>2, <1>3, <1>4, <1>5

\* A move of the node at s to e: all of it is there, nothing at s, and of the
\* other nodes only the one it replaces is lost.
Moves(t, w, s, e) ==
    /\ s \in Paths /\ e \in Paths /\ t[s] # None /\ ~Under(e, s) /\ ~Under(s, e)
    /\ SameBelow(t, s, w.tree, e)
    /\ \A q \in Paths : Under(q, s) => w.tree[q] = None
    /\ \A q \in Paths : t[q] # None /\ w.tree[q] # t[q] => Under(q, s) \/ q = e
\* rename moves, or fails.
LEMMA RenamedIs ==
  ASSUME NEW t, IsTree(t), NEW s \in Paths \cup {NoPath}, NEW e \in Paths \cup {NoPath},
         e # NoPath => NodeAt(t, Parent(e)) = Dir
  PROVE  LET w == Renamed(t, s, e) IN
         w \in Outcomes /\ (~w.ok => w.tree = t) /\ (w.ok => Moves(t, w, s, e))
<1> DEFINE w == Renamed(t, s, e)
           u == [q \in Paths |-> IF Under(q, e) THEN Moved(t, s, e, q)
                                 ELSE IF Under(q, s) THEN None ELSE t[q]]
<1>1. CASE ~Replaces(t, s, e)
  <2>1. w = [tree |-> t, ok |-> FALSE]
    BY <1>1 DEF Renamed, Failed
  <2> HIDE DEF w
  <2>2. w \in Outcomes /\ w.ok = FALSE /\ w.tree = t
    BY <2>1, OutcomeMade
  <2> QED BY <2>2 DEF w
<1>2. CASE Replaces(t, s, e)
  <2>0. w = [tree |-> u, ok |-> TRUE]
    BY <1>2 DEF Renamed, Done
  <2>1. e \in Paths /\ NodeAt(t, Parent(e)) = Dir /\ s \in Paths /\ t[s] # None
    <3>1. e \in Paths /\ NodeAt(t, Parent(e)) = Dir
      BY <1>2 DEF Replaces
    <3>2. s # NoPath
      BY <1>2 DEF Replaces, NodeAt
    <3> QED BY <1>2, <3>1, <3>2, NodeAtIs DEF Replaces
  <2>2. ~Under(e, s) /\ ~Under(s, e)
        /\ \A q \in Paths : Under(q, s) /\ t[q] # None => Image(q, s, e) \in Paths
    BY <1>2 DEF Replaces, Fits
  <2>3. \/ t[e] = None
        \/ t[e] = Dir /\ \A q \in Children(e) : t[q] = None
        \/ t[e] # Dir
    BY <1>2 DEF Replaces
  <2>4. e \in Seq(Names) /\ s \in Seq(Names) /\ e # <<>> /\ Len(e) \in Nat
    BY <2>1, PathIs
  <2>5. /\ \A q \in Paths : Under(q, e) => u[q] = Moved(t, s, e, q)
        /\ \A q \in Paths : ~Under(q, e) /\ Under(q, s) => u[q] = None
        /\ \A q \in Paths : ~Under(q, e) /\ ~Under(q, s) => u[q] = t[q]
    OBVIOUS
  <2>6. u \in [Paths -> Node]
    <3>1. \A q \in Paths : Moved(t, s, e, q) \in Node
      BY <2>1, MovedIs
    <3>2. None \in Node /\ \A q \in Paths : t[q] \in Node
      BY DEF IsTree, Node
    <3> QED BY <3>1, <3>2
  <2> HIDE DEF u
  <2>7. ASSUME NEW q \in Paths, u[q] # None, Len(q) > 1 PROVE u[Parent(q)] = Dir
    <3>1. Parent(q) \in Paths /\ q \in Seq(Names) /\ q # <<>>
      BY <2>7, PathIs
    <3>2. CASE Under(q, e) /\ q # e
      <4>1. Moved(t, s, e, q) # None
        BY <2>5, <2>7, <3>2
      <4>2. Under(Parent(q), e) /\ Moved(t, s, e, Parent(q)) = Dir
        BY <2>1, <3>2, <4>1, MovedIs
      <4> QED BY <2>5, <3>1, <4>2
    <3>3. CASE q = e
      <4>1. t[Parent(e)] = Dir
        BY <2>1, <3>1, <3>3, NodeAtIs
      <4>2. ~Under(Parent(e), e)
        <5>1. Len(Parent(e)) = Len(e) - 1
          BY <2>4, FrontAndLast
        <5> QED BY <2>4, <5>1 DEF Under
      <4>3. ~Under(Parent(e), s)
        BY <2>2, <2>4, UnderIs
      <4> QED BY <2>5, <3>1, <3>3, <4>1, <4>2, <4>3
    <3>4. CASE ~Under(q, e)
      <4>1. ~Under(q, s) /\ t[q] # None
        BY <2>5, <2>7, <3>4
      <4>2. t[Parent(q)] = Dir
        BY <2>7, <4>1 DEF IsTree, Rooted
      <4>3. ~Under(Parent(q), e) /\ ~Under(Parent(q), s)
        BY <2>4, <3>1, <3>4, <4>1, UnderIs
      <4> QED BY <2>5, <3>1, <4>2, <4>3
    <3> QED BY <3>2, <3>3, <3>4
  <2>8. IsTree(u)
    BY <2>6, <2>7 DEF IsTree, Rooted
  <2>9. ASSUME NEW q \in Paths, Under(q, s) PROVE u[q] = None
    <3>1. ~Under(q, e)
      <4>1. SUFFICES ASSUME Under(q, e) PROVE FALSE
        OBVIOUS
      <4>2. Len(e) <= Len(s) \/ Len(s) <= Len(e)
        BY <2>1, PathIs
      <4>3. q \in Seq(Names) /\ Len(s) \in Nat
        BY <2>1, PathIs
      <4>4. CASE Len(e) <= Len(s)
        <5>1. SubSeq(SubSeq(q, 1, Len(s)), 1, Len(e)) = SubSeq(q, 1, Len(e))
          BY <2>4, <2>9, <4>3, <4>4 DEF Under
        <5> QED BY <2>2, <2>9, <4>1, <4>4, <5>1 DEF Under
      <4>5. CASE Len(s) <= Len(e)
        <5>1. SubSeq(SubSeq(q, 1, Len(e)), 1, Len(s)) = SubSeq(q, 1, Len(s))
          BY <2>4, <4>1, <4>3, <4>5 DEF Under
        <5> QED BY <2>2, <2>9, <4>1, <4>5, <5>1 DEF Under
      <4> QED BY <4>2, <4>4, <4>5
    <3> QED BY <2>5, <2>9, <3>1
  <2>10. SameBelow(t, s, u, e)
    <3> SUFFICES ASSUME NEW q \in Paths, Under(q, s), t[q] # None
                 PROVE  u[Image(q, s, e)] = t[q]
      BY DEF SameBelow, Image
    <3>1. Image(q, s, e) \in Paths /\ Under(Image(q, s, e), e)
      BY <2>2, <2>4, PathIs, ImageBack
    <3>2. Moved(t, s, e, Image(q, s, e)) = t[q]
      BY <2>1, <3>1, MovedIs
    <3> QED BY <2>5, <3>1, <3>2
  <2>11. ASSUME NEW q \in Paths, t[q] # None, u[q] # t[q] PROVE Under(q, s) \/ q = e
    <3>1. SUFFICES ASSUME Under(q, e), q # e PROVE FALSE
      BY <2>5, <2>11
    <3>2. q \in Seq(Names) /\ Len(q) \in Nat /\ Len(e) <= Len(q) /\ Len(e) >= 1 /\ q # <<>>
      BY <2>1, <2>4, <3>1, PathIs, UnderIs
    <3>3. q \in Children(e)
      BY <3>1 DEF Children
    <3>4. t[e] = Dir
      <4>1. Len(e) < Len(q)
        BY <2>4, <3>1, <3>2, UnderIs
      <4>2. Len(e) \in 1 .. Len(q) /\ Len(e) # Len(q) /\ SubSeq(q, 1, Len(e)) = e
        BY <2>4, <3>1, <3>2, <4>1 DEF Under
      <4> QED BY <2>11, <4>2, RootedPrefix
    <3> QED BY <2>3, <2>11, <3>3, <3>4, NodeAssumption
  <2> HIDE DEF w
  <2>12. w \in Outcomes /\ w.ok = TRUE /\ w.tree = u
    BY <2>0, <2>8, OutcomeMade
  <2>13. Moves(t, w, s, e)
    BY <2>1, <2>2, <2>9, <2>10, <2>11, <2>12 DEF Moves
  <2> QED BY <2>12, <2>13 DEF w
<1> QED BY <1>1, <1>2

\* mv moves to where the destination leads, or fails.
LEMMA mvIs ==
  ASSUME NEW t, IsTree(t), NEW src \in Seq(Names), NEW dst
  PROVE  LET w == mv(t, src, dst)
             to == Into(t, src, dst)
         IN  /\ w \in Outcomes /\ (~w.ok => w.tree = t)
             /\ w.ok => src # <<>> /\ to \in Paths /\ Moves(t, w, Entry(t, src), Entry(t, to))
<1> DEFINE w == mv(t, src, dst)
           to == Into(t, src, dst)
<1>1. CASE src = <<>> \/ to \notin Paths
  <2>1. w = [tree |-> t, ok |-> FALSE]
    BY <1>1 DEF mv, MovedTo, Failed
  <2> HIDE DEF w
  <2>2. w \in Outcomes /\ w.ok = FALSE /\ w.tree = t
    BY <2>1, OutcomeMade
  <2> QED BY <2>2 DEF w
<1>2. CASE src # <<>> /\ to \in Paths
  <2> HIDE DEF to
  <2>1. w = Renamed(t, Entry(t, src), Entry(t, to))
    BY <1>2 DEF mv, MovedTo, to
  <2>2. to \in Seq(Names) /\ to # <<>>
    BY <1>2, PathIs
  <2>3. Entry(t, src) \in Paths \cup {NoPath} /\ Entry(t, to) \in Paths \cup {NoPath}
        /\ (Entry(t, to) # NoPath => NodeAt(t, Parent(Entry(t, to))) = Dir)
    BY <1>2, <2>2, EntryTyped
  <2> QED BY <1>2, <2>1, <2>3, RenamedIs DEF to
<1> QED BY <1>1, <1>2

\* A copy is a tree, and keeps every directory.
Copies(t, w) ==
    /\ w \in Outcomes
    /\ \A q \in Paths : t[q] = Dir => w.tree[q] = Dir
\* A copy that is merged changes no directory.
LEMMA MergedIs ==
  ASSUME NEW t, IsTree(t), NEW s \in Paths, NEW e \in Paths, NodeAt(t, Parent(e)) = Dir
  PROVE  Copies(t, Merged(t, s, e, Clashes(t, s, e)))
<1> DEFINE K == Clashes(t, s, e)
           w == Merged(t, s, e, K)
           u == [q \in Paths |-> Copied(t, s, e, K, q)]
           M(q) == Moved(t, s, e, q)
<1>0. e \in Seq(Names) /\ e # <<>> /\ s \in Seq(Names)
  BY PathIs
<1>1. w = [tree |-> u, ok |-> K = {}]
  BY DEF Merged
<1>2. \A q \in Paths : Clash(t, s, e, q) => q \in K /\ Skipped(K, q)
  <2>1. \A q \in Paths : Under(q, q)
    BY PathIs, UnderIs
  <2> QED BY <2>1 DEF Clashes, Skipped
<1> HIDE DEF K
<1>3. ASSUME NEW q \in Paths, Over(t, s, e, K, q) # {} PROVE t[q] \in Files /\ u[q] \in Files
  <2> DEFINE O == Over(t, s, e, K, q)
             r == CHOOSE r \in O : TRUE
  <2>1. r \in O
    BY <1>3
  <2>2. r \in Paths /\ ThroughLink(t, s, e, r) /\ ~Skipped(K, r) /\ realpath(t, r) = q
    BY <2>1 DEF Over
  <2>3. u[q] = M(r)
    BY <1>3 DEF Copied
  <2> HIDE DEF r, u
  <2>4. M(r) \in Files
    BY <2>2 DEF ThroughLink
  <2>5. stat(t, r) \in Files
    BY <1>2, <2>2 DEF Clash, ThroughLink
  <2>6. t[q] = stat(t, r)
    BY <2>2, PathIs, StatOfFound
  <2> QED BY <2>3, <2>4, <2>5, <2>6
<1>4. ASSUME NEW q \in Paths, Over(t, s, e, K, q) = {}
      PROVE  u[q] = IF M(q) = None \/ ThroughLink(t, s, e, q) \/ Skipped(K, q) THEN t[q] ELSE M(q)
  BY <1>4 DEF Copied
<1>5. u \in [Paths -> Node]
  <2>1. ASSUME NEW q \in Paths PROVE u[q] \in Node
    <3>1. M(q) \in Node /\ t[q] \in Node
      BY MovedIs DEF IsTree
    <3>2. CASE Over(t, s, e, K, q) = {}
      <4> HIDE DEF u
      <4> QED BY <1>4, <3>1, <3>2
    <3>3. CASE Over(t, s, e, K, q) # {}
      <4> HIDE DEF u
      <4> QED BY <1>3, <3>3 DEF Node
    <3> QED BY <3>2, <3>3
  <2> QED BY <2>1
<1> HIDE DEF u
<1>6. ASSUME NEW q \in Paths, t[q] = Dir PROVE u[q] = Dir
  <2>1. Over(t, s, e, K, q) = {}
    BY <1>3, <1>6, NodeAssumption
  <2>2. SUFFICES ASSUME M(q) # None, M(q) # Dir PROVE Skipped(K, q)
    BY <1>4, <1>6, <2>1
  <2>3. Under(q, e)
    BY <2>2, MovedIs
  <2>4. Clash(t, s, e, q)
    BY <1>6, <2>2, <2>3, NodeAssumption DEF Clash, Meet
  <2> QED BY <1>2, <2>4
<1>7. ASSUME NEW q \in Paths, u[q] # None, Len(q) > 1 PROVE u[Parent(q)] = Dir
  <2>1. Parent(q) \in Paths /\ q \in Seq(Names) /\ q # <<>>
    BY <1>7, PathIs
  <2>2. CASE t[q] # None
    <3>1. t[Parent(q)] = Dir
      BY <1>7, <2>2 DEF IsTree, Rooted
    <3> QED BY <1>6, <2>1, <3>1
  <2>3. CASE t[q] = None
    <3>1. Over(t, s, e, K, q) = {}
      BY <1>3, <2>3, NodeAssumption
    <3>2. M(q) # None /\ ~Skipped(K, q)
      BY <1>4, <1>7, <2>3, <3>1
    <3>3. CASE q = e
      <4>1. t[Parent(q)] = Dir
        BY <2>1, <3>3, NodeAtIs
      <4> QED BY <1>6, <2>1, <4>1
    <3>4. CASE q # e
      <4> DEFINE d == Parent(q)
      <4>1. d \in Paths /\ Under(d, e) /\ M(d) = Dir
        BY <3>2, <3>4, MovedIs
      <4>2. ~Skipped(K, d)
        <5>1. SUFFICES ASSUME NEW r \in K, Under(d, r) PROVE Under(q, r)
          BY <3>2 DEF Skipped
        <5>2. r \in Seq(Names)
          BY PathIs DEF K, Clashes
        <5> QED BY <2>1, <5>1, <5>2, UnderIs
      <4> HIDE DEF d
      <4>3. t[d] \in {None, Dir}
        <5>1. SUFFICES ASSUME t[d] \notin {None, Dir} PROVE FALSE
          OBVIOUS
        <5>2. Clash(t, s, e, d)
          BY <4>1, <5>1, NodeAssumption DEF Clash, Meet
        <5> QED BY <1>2, <4>1, <4>2, <5>2
      <4>4. CASE t[d] = Dir
        BY <1>6, <4>1, <4>4 DEF d
      <4>5. CASE t[d] = None
        <5>1. Over(t, s, e, K, d) = {}
          BY <1>3, <4>1, <4>5, NodeAssumption
        <5>2. ~ThroughLink(t, s, e, d)
          BY <4>5 DEF ThroughLink, Meet
        <5>3. u[d] = Dir
          BY <1>4, <4>1, <4>2, <5>1, <5>2, NodeAssumption
        <5> QED BY <5>3 DEF d
      <4> QED BY <4>3, <4>4, <4>5
    <3> QED BY <3>3, <3>4
  <2> QED BY <2>2, <2>3
<1>8. IsTree(u)
  BY <1>5, <1>7 DEF IsTree, Rooted
<1> HIDE DEF w
<1>9. w \in Outcomes /\ w.tree = u
  <2>1. (K = {}) \in BOOLEAN
    OBVIOUS
  <2> QED BY <1>1, <1>8, <2>1, OutcomeMade
<1>10. Copies(t, w)
  BY <1>6, <1>9 DEF Copies
<1> QED BY <1>10 DEF w, K

\* cp -rf changes no directory.
LEMMA cp_rfIs ==
  ASSUME NEW t, IsTree(t), NEW src \in Seq(Names), NEW dst
  PROVE  Copies(t, cp_rf(t, src, dst))
<1>0. Copies(t, Failed(t))
  <2>1. Failed(t) \in Outcomes
    BY OutcomeMade DEF Failed
  <2>2. Failed(t).tree = t
    BY DEF Failed
  <2> QED BY <2>1, <2>2 DEF Copies
<1>1. CASE src = <<>>
  BY <1>0, <1>1 DEF cp_rf
<1>2. CASE src # <<>>
  <2> DEFINE s == Entry(t, src)
             to == Into(t, src, dst)
             e == Target(t, s, to)
  <2>1. cp_rf(t, src, dst) = Written(t, s, e)
    BY <1>2 DEF cp_rf
  <2>2. s \in Paths \cup {NoPath}
    BY <1>2, EntryTyped
  <2> HIDE DEF s, to
  <2>3. CASE e \in {NoPath, <<>>} \/ NodeAt(t, s) = None
    BY <1>0, <2>1, <2>3 DEF Written
  <2>4. CASE e \notin {NoPath, <<>>} /\ NodeAt(t, s) # None
    <3>1. s \in Paths
      BY <2>2, <2>4 DEF NodeAt
    <3>2. to \in Paths
      BY <2>4 DEF Target
    <3>3. to \in Seq(Names) /\ to # <<>>
      BY <3>2, PathIs
    <3>4. e \in Paths /\ NodeAt(t, Parent(e)) = Dir
      <4>1. CASE e = Entry(t, to)
        BY <2>4, <3>3, <4>1, EntryTyped
      <4>2. CASE e = realpath(t, to)
        <5>1. e \in Paths /\ t[e] # None
          BY <2>4, <3>3, <4>2, RealpathIs
        <5> HIDE DEF e
        <5> QED BY <5>1, ParentInTree
      <4> QED BY <3>2, <4>1, <4>2 DEF Target
    <3> HIDE DEF e
    <3>5. Copies(t, Merged(t, s, e, Clashes(t, s, e)))
      BY <3>1, <3>4, MergedIs
    <3> QED BY <1>0, <2>1, <3>5 DEF Written
  <2> QED BY <2>3, <2>4
<1> QED BY <1>1, <1>2
-----------------------------------------------------------------------------
\* What a command does to one of its words has an outcome.
LEMMA RunIs ==
  ASSUME NEW name, NEW t, IsTree(t), NEW p \in Paths, NEW dst
  PROVE  Run(name, t, p, dst) \in Outcomes
<1>1. p \in Seq(Names)
  BY PathIs
<1>2. rm_rf(t, p) \in Outcomes
  BY <1>1, CallsHaveOutcomes
<1>3. mv(t, p, dst) \in Outcomes
  BY <1>1, mvIs
<1>4. cp_rf(t, p, dst) \in Outcomes
  BY <1>1, cp_rfIs DEF Copies
<1> QED BY <1>2, <1>3, <1>4 DEF Run

\* One word of a command line after another.
NextWord(w, name, p, dst) == Then(w, Run(name, w.tree, p, dst))
\* The next word has an outcome, and its tree.
LEMMA NextWordIs ==
  ASSUME NEW w \in Outcomes, NEW name, NEW p \in Paths, NEW dst
  PROVE  /\ NextWord(w, name, p, dst) \in Outcomes
         /\ NextWord(w, name, p, dst).tree = Run(name, w.tree, p, dst).tree
         /\ w.ok => NextWord(w, name, p, dst) = Run(name, w.tree, p, dst)
<1> DEFINE r == Run(name, w.tree, p, dst)
           b == r.ok /\ w.ok
<1>1. r \in Outcomes /\ w.ok \in BOOLEAN
  BY OutcomeIs, RunIs
<1> HIDE DEF r
<1>2. NextWord(w, name, p, dst) = [r EXCEPT !.ok = b]
  BY <1>1 DEF NextWord, Then, Outcomes, r
<1>3. b \in BOOLEAN /\ (w.ok => b = r.ok)
  BY <1>1, OutcomeIs
<1> HIDE DEF b
<1>4. [r EXCEPT !.ok = b] \in Outcomes /\ [r EXCEPT !.ok = b].tree = r.tree
  BY <1>1, <1>3 DEF Outcomes
<1>5. w.ok => [r EXCEPT !.ok = b] = r
  BY <1>1, <1>3 DEF Outcomes
<1> QED BY <1>2, <1>4, <1>5 DEF r

RunsOver(h, name, t, words, dst) ==
    /\ h \in [0 .. Len(words) -> Outcomes] /\ h[0] = Done(t)
    /\ \A k \in 1 .. Len(words) : h[k] = NextWord(h[k - 1], name, words[k], dst)
    /\ RunEach(name, t, words, dst) = h[Len(words)]
\* RunEach goes from word to word.
LEMMA RunEachRuns ==
  ASSUME NEW name, NEW t, IsTree(t), NEW words \in Seq(Paths), NEW dst
  PROVE  \E h : RunsOver(h, name, t, words, dst)
<1> DEFINE S == Outcomes
           m == Len(words)
           G == [x \in (1 .. m) \X S |-> NextWord(x[2], name, words[x[1]], dst)]
           Is(h) == h = [n \in 0 .. m |-> IF n = 0 THEN Done(t)
                                          ELSE Then(h[n - 1], Run(name, h[n - 1].tree, words[n], dst))]
           a == CHOOSE h : Is(h)
<1>1. m \in Nat
  OBVIOUS
<1>p. \A i \in 1 .. m : words[i] \in Paths
  OBVIOUS
<1>2. G \in [(1 .. m) \X S -> S]
  <2>1. \A i \in 1 .. m, x \in S : NextWord(x, name, words[i], dst) \in S
    BY <1>p, NextWordIs
  <2> HIDE DEF S, m
  <2> QED BY <2>1
<1>3. \A i \in 1 .. m, x \in S : G[i, x] = NextWord(x, name, words[i], dst)
  OBVIOUS
<1>0. Done(t) \in S
  BY OutcomeMade DEF Done
<1>4. PICK f \in [0 .. m -> S] : f[0] = Done(t) /\ \A i \in 1 .. m : f[i] = G[i, f[i - 1]]
  <2>1. Iterates(S, Done(t), m, G)
    <3> HIDE DEF G, S, m
    <3> QED BY <1>0, <1>1, <1>2, Recursion
  <2> QED BY <2>1 DEF Iterates
<1>5. \A i \in 1 .. m : i - 1 \in 0 .. m /\ f[i - 1] \in S
  <2>1. \A i \in 1 .. m : i - 1 \in 0 .. m
    BY <1>1
  <2> HIDE DEF S, m
  <2> QED BY <2>1, <1>4
<1>6. \A i \in 1 .. m : f[i] = NextWord(f[i - 1], name, words[i], dst)
  <2> HIDE DEF G, m, S
  <2> QED BY <1>3, <1>4, <1>5
<1>7. Is(f)
  <2> DEFINE h == [k \in 0 .. m |-> IF k = 0 THEN Done(t)
                                    ELSE Then(f[k - 1], Run(name, f[k - 1].tree, words[k], dst))]
  <2>1. f = [k \in 0 .. m |-> f[k]] /\ h = [k \in 0 .. m |-> h[k]]
    OBVIOUS
  <2>2. \A k \in 0 .. m : h[k] = IF k = 0 THEN Done(t) ELSE NextWord(f[k - 1], name, words[k], dst)
    BY DEF NextWord
  <2>3. \A k \in 0 .. m : f[k] = h[k]
    <3> HIDE DEF h, S, m
    <3>1. \A k \in 0 .. m : k # 0 => k \in 1 .. m
      BY <1>1
    <3> QED BY <2>2, <3>1, <1>4, <1>6
  <2>4. f = h
    <3> HIDE DEF h, S, m
    <3> QED BY <2>1, <2>3, Zenon
  <2> QED BY <2>4
<1>8. Is(a)
  <2> HIDE DEF Is
  <2> QED BY <1>7
<1>9. RunEach(name, t, words, dst) = a[m]
  BY DEF RunEach
<1>10. \A k \in 0 .. m : a[k] = IF k = 0 THEN Done(t) ELSE NextWord(a[k - 1], name, words[k], dst)
  <2> HIDE DEF a
  <2> QED BY <1>8 DEF NextWord
<1>11. a = [k \in 0 .. m |-> a[k]]
  <2> DEFINE h == [k \in 0 .. m |-> IF k = 0 THEN Done(t)
                                    ELSE Then(a[k - 1], Run(name, a[k - 1].tree, words[k], dst))]
  <2>1. h = [k \in 0 .. m |-> h[k]]
    OBVIOUS
  <2>2. a = h
    BY <1>8
  <2> HIDE DEF a, h
  <2> QED BY <2>1, <2>2
<1> HIDE DEF a
<1>12. \A k \in 1 .. m : a[k] = NextWord(a[k - 1], name, words[k], dst)
  <2>1. \A k \in 1 .. m : k \in 0 .. m /\ k # 0
    BY <1>1
  <2> HIDE DEF m
  <2> QED BY <2>1, <1>10
<1>13. a[0] = Done(t)
  <2>1. 0 \in 0 .. m
    BY <1>1
  <2> QED BY <2>1, <1>10
<1>14. \A k \in 0 .. m : a[k] \in S
  <2> DEFINE P == {k \in Nat : k <= m => a[k] \in S}
  <2>1. 0 \in P
    BY <1>0, <1>13
  <2>2. ASSUME NEW k \in Nat, k \in P PROVE k + 1 \in P
    <3>1. SUFFICES ASSUME k + 1 <= m PROVE a[k + 1] \in S
      OBVIOUS
    <3>2. k + 1 \in 1 .. m /\ (k + 1) - 1 = k /\ a[k] \in S
      BY <1>1, <2>2, <3>1
    <3>3. a[k + 1] = NextWord(a[k], name, words[k + 1], dst)
      <4> HIDE DEF m, S
      <4> QED BY <1>12, <3>2
    <3>4. words[k + 1] \in Paths
      <4> HIDE DEF m
      <4> QED BY <1>p, <3>2
    <3> QED BY <3>2, <3>3, <3>4, NextWordIs
  <2>3. Nat \subseteq P
    <3> HIDE DEF P
    <3> QED BY <2>1, <2>2, SetInduction
  <2>4. \A k \in 0 .. m : k \in Nat /\ k <= m
    BY <1>1
  <2> QED BY <2>3, <2>4
<1>15. a \in [0 .. m -> S]
  <2> HIDE DEF S, m
  <2> QED BY <1>11, <1>14
<1>16. RunsOver(a, name, t, words, dst)
  BY <1>9, <1>12, <1>13, <1>15 DEF RunsOver
<1> QED BY <1>16

\* A command has an outcome, and with one word it is what it does to that word.
LEMMA RunEachIs ==
  ASSUME NEW name, NEW t, IsTree(t), NEW words \in Seq(Paths), NEW dst
  PROVE  /\ RunEach(name, t, words, dst) \in Outcomes
         /\ Len(words) = 1 => RunEach(name, t, words, dst) = Run(name, t, words[1], dst)
<1>1. PICK h : RunsOver(h, name, t, words, dst)
  BY RunEachRuns
<1>2. Len(words) \in 0 .. Len(words)
  OBVIOUS
<1>3. RunEach(name, t, words, dst) \in Outcomes
  BY <1>1, <1>2 DEF RunsOver
<1>4. ASSUME Len(words) = 1
      PROVE  RunEach(name, t, words, dst) = Run(name, t, words[1], dst)
  <2>1. h[0] = Done(t) /\ RunEach(name, t, words, dst) = h[1] /\ words[1] \in Paths
    BY <1>1, <1>4 DEF RunsOver
  <2>2. \A k \in 1 .. 1 : h[k] = NextWord(h[k - 1], name, words[k], dst)
    BY <1>1, <1>4 DEF RunsOver
  <2>3. 1 \in 1 .. 1 /\ 1 - 1 = 0
    OBVIOUS
  <2>4. h[1] = NextWord(Done(t), name, words[1], dst)
    BY <2>1, <2>2, <2>3
  <2>5. Done(t) \in Outcomes /\ Done(t).ok /\ Done(t).tree = t
    BY OutcomeMade DEF Done
  <2> QED BY <2>1, <2>4, <2>5, NextWordIs
<1> QED BY <1>3, <1>4

\* The words of a text are paths.
LEMMA TextIs ==
  ASSUME NEW p \in Paths \cup {<<>>}
  PROVE  Text(p) \in Seq(Paths) /\ (Plain(p) => Text(p) = IF p = <<>> THEN <<>> ELSE <<p>>)
<1>1. <<>> \in Seq(Paths)
  OBVIOUS
<1>2. p # <<>> => Words[p] \in Seq(Paths)
  BY TextAssumption
<1> QED BY <1>1, <1>2 DEF Text, Plain

\* Two words, one after the other.
LEMMA TwoWords ==
  ASSUME NEW S, NEW a \in Seq(S), NEW z \in Seq(S), Len(a) = 1, Len(z) = 1
  PROVE  Len(a \o z) = 2 /\ SubSeq(a \o z, 1, Len(a \o z) - 1) = a /\ (a \o z)[Len(a \o z)] = z[1]
<1>1. Len(a \o z) = 2
  OBVIOUS
<1>2. SubSeq(a \o z, 1, Len(a)) = a
  BY ConcatIs
<1>3. \A i \in 1 .. Len(z) : (a \o z)[Len(a) + i] = z[i]
  BY ConcatIs
<1>4. 1 \in 1 .. Len(z) /\ Len(a) + 1 = 2 /\ Len(a \o z) - 1 = Len(a)
  BY <1>1
<1> DEFINE line == a \o z
<1> HIDE DEF line
<1>5. Len(line) = 2 /\ SubSeq(line, 1, Len(line) - 1) = a
  BY <1>1, <1>2, <1>4 DEF line
<1>6. line[2] = z[1]
  <2>1. line[Len(a) + 1] = z[1]
    BY <1>3, <1>4 DEF line
  <2> QED BY <1>4, <2>1
<1> QED BY <1>5, <1>6 DEF line

\* What mv and cp are called with has an outcome, ...
LEMMA OntoIs ==
  ASSUME NEW name, NEW t, IsTree(t), NEW line \in Seq(Paths), NEW slash
  PROVE  Onto(name, t, line, slash) \in Outcomes
<1>1. Failed(t) \in Outcomes
  BY OutcomeMade DEF Failed
<1>2. CASE Len(line) >= 2
  <2>1. Len(line) - 1 \in 0 .. Len(line)
    BY <1>2
  <2>2. SubSeq(line, 1, Len(line) - 1) \in Seq(Paths)
    BY <2>1
  <2>3. RunEach(name, t, SubSeq(line, 1, Len(line) - 1), line[Len(line)]) \in Outcomes
    BY <2>2, RunEachIs
  <2> QED BY <1>1, <2>3 DEF Onto
<1>3. CASE Len(line) < 2
  BY <1>1, <1>3 DEF Onto
<1>4. Len(line) \in Nat
  OBVIOUS
<1>5. Len(line) < 2 \/ Len(line) >= 2
  BY <1>4
<1> QED BY <1>2, <1>3, <1>5

\* ... and of two texts that the shell leaves whole it is that of the call.
LEMMA OntoPlain ==
  ASSUME NEW name, NEW t, IsTree(t), NEW src \in Paths \cup {<<>>}, NEW dst \in Paths, NEW slash \in BOOLEAN,
         Plain(src), Plain(dst)
  PROVE  Onto(name, t, Line(src, dst), slash) =
           IF src = <<>> \/ (slash /\ stat(t, dst) # Dir) THEN Failed(t) ELSE Run(name, t, src, dst)
<1>1. dst # <<>>
  BY PathIs
<1>2. src \notin Signs /\ Text(dst) = <<dst>>
  BY <1>1, TextIs DEF Plain
<1>3. Line(src, dst) = Text(src) \o <<dst>>
  BY <1>2 DEF Line
<1>4. CASE src = <<>>
  <2>1. Text(src) = <<>>
    BY <1>4, TextIs
  <2>2. Len(<<>> \o <<dst>>) = 1
    OBVIOUS
  <2> QED BY <1>3, <1>4, <2>1, <2>2 DEF Onto
<1>5. CASE src # <<>>
  <2> DEFINE a == <<src>>
             z == <<dst>>
             line == a \o z
  <2>1. Text(src) = a /\ src \in Paths
    BY <1>5, TextIs
  <2>2. a \in Seq(Paths) /\ z \in Seq(Paths) /\ Len(a) = 1 /\ Len(z) = 1 /\ a[1] = src /\ z[1] = dst
    BY <2>1
  <2>5. Line(src, dst) = line
    BY <1>3, <2>1
  <2> HIDE DEF a, z
  <2>3. Len(line) = 2 /\ SubSeq(line, 1, Len(line) - 1) = a /\ line[Len(line)] = dst
    BY <2>2, TwoWords
  <2> HIDE DEF line
  <2>6. RunEach(name, t, a, dst) = Run(name, t, src, dst)
    BY <2>2, RunEachIs
  <2>8. Onto(name, t, line, slash) =
          IF slash /\ stat(t, dst) # Dir THEN Failed(t) ELSE RunEach(name, t, a, dst)
    <3> DEFINE x == SubSeq(line, 1, Len(line) - 1)
    <3>1. x = a
      BY <2>3
    <3>2. ~(Len(line) < 2) /\ ~(Len(line) > 2)
      BY <2>3
    <3>3. line[Len(line)] = dst
      BY <2>3
    <3> HIDE DEF x
    <3>4. Onto(name, t, line, slash) =
            IF slash /\ stat(t, dst) # Dir THEN Failed(t) ELSE RunEach(name, t, x, dst)
      BY <3>2, <3>3 DEF Onto, x
    <3> QED BY <3>1, <3>4
  <2> QED BY <1>5, <2>5, <2>6, <2>8
<1> QED BY <1>4, <1>5
-----------------------------------------------------------------------------
\* A place: what is looked up there is looked up at the path.
AtPlace(t, r) == r \in Paths /\ Entry(t, r) = r
\* The place of an object: where it is, or, when nothing is there, beside its name.
LEMMA PlaceIs ==
  ASSUME NEW c \in Contexts, NEW old, c.path # <<>>
  PROVE  LET t == c.tree
             p == c.path
             r == Place(c, old)
             beside == p \notin Bare /\ stat(t, Parent(p)) = Dir
         IN  /\ stat(t, p) # None => r = realpath(t, p) /\ AtPlace(t, r) /\ stat(t, r) = t[r]
                                     /\ realpath(t, r) = r /\ t[r] = stat(t, p)
             /\ stat(t, p) = None /\ ~beside => r = old
             /\ stat(t, p) = None /\ beside =>
                   IF Entry(t, p) = NoPath THEN r = <<>> ELSE r = Entry(t, p) /\ AtPlace(t, r)
<1> DEFINE t == c.tree
           p == c.path
           r == Place(c, old)
           beside == p \notin Bare /\ stat(t, Parent(p)) = Dir
<1>1. IsTree(t) /\ p \in Seq(Names) /\ p # <<>>
  BY ContextIs
<1>2. ASSUME stat(t, p) # None
      PROVE  r = realpath(t, p) /\ AtPlace(t, r) /\ stat(t, r) = t[r] /\ realpath(t, r) = r /\ t[r] = stat(t, p)
  <2>1. realpath(t, p) # NoPath /\ realpath(t, p) \in Paths /\ stat(t, p) = t[realpath(t, p)]
    BY <1>1, <1>2, StatIs
  <2>2. t[realpath(t, p)] # None /\ ~IsLink(t[realpath(t, p)])
    BY <1>1, <2>1, PathIs, RealpathIs
  <2>3. r = realpath(t, p)
    BY <1>1, <2>1 DEF Place
  <2> HIDE DEF r
  <2>4. r \in Paths /\ t[r] # None /\ ~IsLink(t[r])
    BY <2>1, <2>2, <2>3
  <2>5. realpath(t, r) = r /\ stat(t, r) = t[r]
    BY <1>1, <2>4, RealpathOfReal
  <2>6. Entry(t, r) = r
    BY <1>1, <2>4, ParentInTree, EntryOfPlace
  <2> QED BY <2>1, <2>3, <2>4, <2>5, <2>6 DEF AtPlace
<1>3. ASSUME stat(t, p) = None PROVE realpath(t, p) = NoPath
  BY <1>1, <1>3, StatIs
<1>4. ASSUME stat(t, p) = None, ~beside PROVE r = old
  BY <1>1, <1>3, <1>4 DEF Place
<1>5. ASSUME stat(t, p) = None, beside
      PROVE  IF Entry(t, p) = NoPath THEN r = <<>> ELSE r = Entry(t, p) /\ AtPlace(t, r)
  <2>1. r = IF Entry(t, p) # NoPath THEN Entry(t, p) ELSE <<>>
    BY <1>1, <1>3, <1>5 DEF Place
  <2>2. Entry(t, p) \in Paths \cup {NoPath}
        /\ (Entry(t, p) # NoPath => NodeAt(t, Parent(Entry(t, p))) = Dir)
    BY <1>1, EntryTyped
  <2> DEFINE e == Entry(t, p)
  <2> HIDE DEF e, r
  <2>3. ASSUME e # NoPath PROVE AtPlace(t, e)
    BY <1>1, <2>2, <2>3, EntryOfPlace DEF AtPlace, e
  <2> QED BY <2>1, <2>3 DEF e
<1> QED BY <1>2, <1>4, <1>5

\* A call at the place is the call at the path.
LEMMA CallAtPlace ==
  ASSUME NEW c \in Contexts, c.path # <<>>, stat(c.tree, c.path) = None
  PROVE  LET r == Place(c, <<>>) IN
         r # <<>> => /\ r = Entry(c.tree, c.path) /\ AtPlace(c.tree, r)
                     /\ c.path \notin Bare /\ stat(c.tree, Parent(c.path)) = Dir
                     /\ mkdir(c.tree, r) = mkdir(c.tree, c.path)
                     /\ \A target : symlink(c.tree, target, r) = symlink(c.tree, target, c.path)
<1> DEFINE r == Place(c, <<>>)
<1>1. ASSUME r # <<>>
      PROVE  r = Entry(c.tree, c.path) /\ AtPlace(c.tree, r)
             /\ c.path \notin Bare /\ stat(c.tree, Parent(c.path)) = Dir
  BY <1>1, PlaceIs
<1>2. ASSUME r # <<>>
      PROVE  /\ mkdir(c.tree, r) = mkdir(c.tree, c.path)
             /\ \A target : symlink(c.tree, target, r) = symlink(c.tree, target, c.path)
  <2> HIDE DEF r
  <2>1. Entry(c.tree, r) = Entry(c.tree, c.path)
    BY <1>1, <1>2 DEF AtPlace
  <2> QED BY <1>2, <2>1 DEF mkdir, symlink
<1> QED BY <1>1, <1>2

\* What move and copy do first: nothing is lost, and when it succeeded, a
\* directory is at the destination if it has to be.
Prepares(c, p, dst) ==
    /\ p \in Contexts /\ Grows(c.tree, p.tree) /\ SameObject(c, p)
    /\ \A q \in Paths : p.tree[q] # c.tree[q] => p.tree[q] = Dir
    /\ p.ok => c.ok
    /\ p.ok /\ stat(c.tree, dst.path) # None =>
          p.tree = c.tree /\ (stat(c.tree, dst.path) = Dir \/ getType(c) # DIRECTORY)
    /\ p.ok /\ stat(c.tree, dst.path) = None /\ getStat(c) # None =>
          IF getType(c) = DIRECTORY \/ dst.slash THEN stat(p.tree, dst.path) = Dir
          ELSE stat(p.tree, dst.path) = None
\* Preparing a destination only adds directories.
LEMMA PreparedIs ==
  ASSUME NEW c \in Contexts, NEW dst \in Destinations
  PROVE  Prepares(c, Prepared(c, dst), dst)
<1> DEFINE object0 == Object(c.tree, dst.path)
           new == isExist(object0, UKNOWN)
           d == create(new, UKNOWN)
           k == [c EXCEPT !.tree = d.tree]
           at == getAbsolutePath(d, UKNOWN)
           p == Prepared(c, dst)
<1>0. dst.path \in Paths /\ dst.path # <<>> /\ dst.slash \in BOOLEAN /\ IsTree(c.tree) /\ dst.path \in Seq(Names)
  BY CallsAssumption, PathIs, ContextIs
<1>1. object0 \in Contexts /\ object0.tree = c.tree /\ object0.path = dst.path
      /\ object0.exists = FALSE /\ object0.real = <<>>
  <2>1. dst.path \in Paths \cup {<<>>}
    BY <1>0
  <2> DEFINE q == dst.path
             t == c.tree
  <2> HIDE DEF q, t
  <2>2. /\ Object(t, q) \in Contexts /\ Object(t, q).tree = t /\ Object(t, q).path = q
        /\ Object(t, q).exists = FALSE /\ Object(t, q).real = <<>>
    BY <1>0, <2>1, ObjectIs DEF q, t
  <2> QED BY <2>2 DEF q, t
<1> HIDE DEF object0
<1>2. Exists(object0, UKNOWN) <=> stat(c.tree, dst.path) # None
  BY <1>0, <1>1, getStatIs DEF Exists, Matches
<1>3. new \in Contexts /\ new.tree = c.tree /\ new.path = dst.path /\ new.real = <<>>
      /\ (new.ok <=> stat(c.tree, dst.path) # None) /\ new.exists = new.ok
  BY <1>1, <1>2, isExistIs
<1>4. CASE ~c.ok
  <2>1. p = c
    BY <1>4 DEF Prepared
  <2> QED BY <1>4, <2>1, GrowsOn DEF Prepares, SameObject
<1>5. CASE c.ok /\ new.ok
  <2> DEFINE b == getType(new) = DIRECTORY \/ getType(c) # DIRECTORY
  <2>1. p = Returns(c, b)
    BY <1>5 DEF Prepared, Prepare, object0
  <2>2. b \in BOOLEAN
    OBVIOUS
  <2>3. b => stat(c.tree, dst.path) = Dir \/ getType(c) # DIRECTORY
    <3>1. getStat(new) = stat(c.tree, dst.path)
      <4> HIDE DEF new
      <4> QED BY <1>0, <1>3, getStatIs
    <3> QED BY <3>1 DEF getType, TypeOf, DIRECTORY, REGULAR_FILE, UKNOWN
  <2> HIDE DEF new, b, p
  <2>4. p \in Contexts /\ SameObject(c, p) /\ p.tree = c.tree /\ p.ok = b
    BY <2>1, <2>2, ReturnsIs
  <2> QED BY <1>3, <1>5, <2>3, <2>4, GrowsOn DEF Prepares, p
<1>6. CASE c.ok /\ ~new.ok
  <2>1. p = Lead(c, d, dst.slash)
    BY <1>6 DEF Prepared, Prepare, object0
  <2> HIDE DEF new
  <2>2. /\ d \in Contexts /\ d.path = dst.path /\ d.real = <<>> /\ Grows(c.tree, d.tree)
        /\ ~d.exists /\ stat(d.tree, dst.path) = None /\ stat(c.tree, dst.path) = None
        /\ \A q \in Paths : d.tree[q] # c.tree[q] => d.tree[q] = Dir
    <3>1. getStat(new) = None
      BY <1>0, <1>3, <1>6, getStatIs
    <3>2. ~Exists(new, UKNOWN)
      BY <1>3, <1>6, <3>1 DEF Exists, Matches
    <3> QED BY <1>0, <1>3, <1>6, <3>2, createOfNothing DEF Adds
  <2> HIDE DEF d
  <2>3. k \in Contexts /\ k.tree = d.tree /\ SameObject(c, k) /\ k.path = c.path /\ k.ok = c.ok
    <3>1. d.tree \in [Paths -> Node] /\ Rooted(d.tree)
      BY <2>2, ContextIs DEF IsTree
    <3> QED BY <3>1 DEF Contexts, Fields, SameObject
  <2> HIDE DEF k
  <2>4. getStat(c) # None => getType(k) = getType(c)
    <3>1. SUFFICES ASSUME getStat(c) # None PROVE getStat(k) = getStat(c)
      BY DEF getType
    <3>2. c.path # <<>> /\ getStat(c) = stat(c.tree, c.path) /\ getStat(k) = stat(d.tree, c.path)
      BY <2>3, <3>1, getStatIs
    <3> QED BY <2>2, <3>1, <3>2, ContextIs, StatGrows
  <2>5. CASE getType(k) = DIRECTORY \/ dst.slash
    <3> DEFINE w == mkdir(at.tree, at.real)
    <3>1. p = On(c, w)
      BY <2>1, <2>5 DEF Lead, Enter, k
    <3>2. at \in Contexts /\ at.path = dst.path /\ Adds(d, at) /\ at.real = Place(at, <<>>)
      BY <2>2, getAbsolutePathIs
    <3> HIDE DEF at
    <3>3. stat(at.tree, dst.path) = None /\ Grows(c.tree, at.tree) /\ IsTree(at.tree) /\ at.real \in Seq(Names)
      BY <1>0, <2>2, <3>2, GrowsOn, ContextIs DEF Adds
    <3>4. w \in Outcomes /\ Grows(at.tree, w.tree) /\ w.ok \in BOOLEAN
      BY <3>3, CallsHaveOutcomes, mkdirIs
    <3>8. \A q \in Paths : w.tree[q] # at.tree[q] => w.tree[q] = Dir
      <4>1. /\ ~w.ok => w.tree = at.tree
            /\ w.ok => at.real # <<>>
            /\ at.real # <<>> => Makes(at.tree, w, Entry(at.tree, at.real), Dir)
        BY <3>3, mkdirIs
      <4> HIDE DEF w
      <4> QED BY <4>1 DEF Makes
    <3>9. \A q \in Paths : at.tree[q] # d.tree[q] => at.tree[q] = Dir
      BY <3>2 DEF Adds
    <3>5. w.ok => stat(w.tree, dst.path) = Dir
      <4>1. SUFFICES ASSUME w.ok PROVE stat(w.tree, dst.path) = Dir
        OBVIOUS
      <4>2. at.real # <<>>
        BY <3>3, <4>1, mkdirIs
      <4>3. w = mkdir(at.tree, dst.path)
        BY <1>0, <3>2, <3>3, <4>2, CallAtPlace
      <4> HIDE DEF w
      <4> QED BY <1>0, <3>3, <4>1, <4>3, mkdirIs
    <3> HIDE DEF w, p
    <3>6. p \in Contexts /\ SameObject(c, p) /\ p.tree = w.tree /\ p.ok = w.ok
      BY <3>1, <3>4, OnIs
    <3>7. Grows(c.tree, p.tree)
      BY <3>3, <3>4, <3>6, GrowsOn
    <3>10. \A q \in Paths : p.tree[q] # c.tree[q] => p.tree[q] = Dir
      <4>1. \A q \in Paths : w.tree[q] # c.tree[q] => w.tree[q] = Dir
        BY <2>2, <3>2, <3>4, <3>8, <3>9, NodeAssumption DEF Adds, Grows
      <4> QED BY <3>6, <4>1
    <3> QED BY <1>6, <2>2, <2>4, <2>5, <3>5, <3>6, <3>7, <3>10 DEF Prepares, p
  <2>6. CASE ~(getType(k) = DIRECTORY \/ dst.slash)
    <3>1. p = k
      BY <2>1, <2>6 DEF Lead, k
    <3> HIDE DEF p
    <3> QED BY <1>0, <1>6, <2>2, <2>3, <2>4, <2>6, <3>1 DEF Prepares, p
  <2> QED BY <2>5, <2>6
<1> QED BY <1>3, <1>4, <1>5, <1>6, ContextIs
-----------------------------------------------------------------------------
\* A move that succeeded forgets that the object exists.
LEMMA ForgetIs ==
  ASSUME NEW r \in Contexts
  PROVE  LET d == Forget(r) IN
         /\ d \in Contexts /\ d.tree = r.tree /\ d.path = r.path /\ d.real = r.real /\ d.ok = r.ok
         /\ d.exists <=> r.exists /\ ~r.ok
<1> DEFINE b == r.exists /\ ~r.ok
<1>1. Forget(r) = [r EXCEPT !.exists = b]
  BY DEF Forget, Contexts, Fields
<1>2. b \in BOOLEAN /\ (b => r.path # <<>>)
  BY ContextIs
<1> HIDE DEF b
<1> DEFINE d == [r EXCEPT !.exists = b]
<1>3. d \in Contexts /\ d.tree = r.tree /\ d.path = r.path /\ d.real = r.real /\ d.ok = r.ok /\ d.exists = b
  BY <1>2 DEF Contexts, Fields
<1> QED BY <1>1, <1>3 DEF b

\* A call that failed leaves the tree.
LEMMA FailedIs ==
  ASSUME NEW t, IsTree(t)
  PROVE  Failed(t) \in Outcomes /\ Failed(t).tree = t /\ Failed(t).ok = FALSE
<1>1. Failed(t) \in Outcomes
  BY OutcomeMade DEF Failed
<1>2. Failed(t).tree = t /\ Failed(t).ok = FALSE
  BY DEF Failed
<1> QED BY <1>1, <1>2

\* A command runs when the shell is up, and fails when it is not; of a text with
\* a sign in it the answer is another's.
LEMMA execCommandIs ==
  ASSUME NEW a \in Contexts, NEW up \in BOOLEAN, NEW texts, NEW call \in Outcomes
  PROVE  LET r == execCommand(a, up, texts, call) IN
         /\ r \in Contexts /\ SameObject(a, r)
         /\ r.tree = call.tree \/ (r.tree = a.tree /\ ~r.ok)
         /\ r.ok => up /\ r.tree = call.tree
         /\ texts \cap Signs = {} /\ up => r.tree = call.tree /\ r.ok = call.ok
         /\ texts \cap Signs = {} /\ ~up => r.tree = a.tree /\ ~r.ok
<1>1. CASE texts \cap Signs # {}
  <2> DEFINE w == [call EXCEPT !.ok = up]
  <2>1. execCommand(a, up, texts, call) = On(a, w)
    BY <1>1 DEF execCommand
  <2>2. w \in Outcomes /\ w.tree = call.tree /\ w.ok = up
    BY DEF Outcomes
  <2> HIDE DEF w
  <2> QED BY <1>1, <2>1, <2>2, OnIs
<1>2. CASE texts \cap Signs = {} /\ up
  <2>1. execCommand(a, up, texts, call) = On(a, call)
    BY <1>2 DEF execCommand
  <2> QED BY <1>2, <2>1, OnIs
<1>3. CASE texts \cap Signs = {} /\ ~up
  <2>1. execCommand(a, up, texts, call) = On(a, Failed(a.tree))
    BY <1>3 DEF execCommand
  <2>2. Failed(a.tree) \in Outcomes /\ Failed(a.tree).tree = a.tree /\ Failed(a.tree).ok = FALSE
    BY ContextIs, FailedIs
  <2> QED BY <1>3, <2>1, <2>2, OnIs
<1> QED BY <1>1, <1>2, <1>3

\* What mv and cp do with texts that the shell leaves whole: nothing, or the call.
Transfers(name, a, r, dst, up) ==
    LET run == Run(name, a.tree, a.real, dst.path) IN
    \/ r.tree = a.tree /\ ~r.ok
    \/ /\ up /\ a.real # <<>> /\ (dst.slash => stat(a.tree, dst.path) = Dir)
       /\ r.tree = run.tree /\ r.ok = run.ok
\* mv and cp leave the object as it is.
LEMMA TransferIs ==
  ASSUME NEW name, NEW a \in Contexts, NEW dst \in Destinations, NEW up \in BOOLEAN
  PROVE  LET r == Transfer(name, a, dst, up) IN
         /\ r \in Contexts /\ SameObject(a, r) /\ (r.ok => up)
         /\ Plain(a.real) /\ Plain(dst.path) => Transfers(name, a, r, dst, up)
<1> DEFINE texts == {a.real, dst.path}
           line == Line(a.real, dst.path)
           slash == dst.slash /\ texts \cap Signs = {}
           call == Onto(name, a.tree, line, slash)
           run == Run(name, a.tree, a.real, dst.path)
           r == Transfer(name, a, dst, up)
<1>1. IsTree(a.tree) /\ a.real \in Paths \cup {<<>>} /\ dst.path \in Paths /\ dst.slash \in BOOLEAN
      /\ dst.path \in Paths \cup {<<>>}
  BY ContextIs, CallsAssumption
<1>2. line \in Seq(Paths)
  <2>1. Text(a.real) \in Seq(Paths) /\ Text(dst.path) \in Seq(Paths)
    BY <1>1, TextIs
  <2> DEFINE x == Text(a.real)
             y == Text(dst.path)
  <2> HIDE DEF x, y
  <2>2. x \o y \in Seq(Paths)
    BY <2>1, ConcatIs DEF x, y
  <2> QED BY <2>1, <2>2 DEF Line, x, y
<1>3. slash \in BOOLEAN
  BY <1>1
<1> HIDE DEF line
<1>4. call \in Outcomes
  BY <1>1, <1>2, OntoIs
<1>5. r = execCommand(a, up, texts, call)
  BY DEF Transfer, line
<1> HIDE DEF call, texts, r
<1>6. /\ r \in Contexts /\ SameObject(a, r)
      /\ r.ok => up /\ r.tree = call.tree
      /\ texts \cap Signs = {} /\ up => r.tree = call.tree /\ r.ok = call.ok
      /\ texts \cap Signs = {} /\ ~up => r.tree = a.tree /\ ~r.ok
  BY <1>4, <1>5, execCommandIs
<1>7. ASSUME Plain(a.real), Plain(dst.path) PROVE Transfers(name, a, r, dst, up)
  <2>1. texts \cap Signs = {}
    BY <1>7 DEF Plain, texts
  <2>2. slash = dst.slash
    BY <1>1, <2>1
  <2>3. call = IF a.real = <<>> \/ (dst.slash /\ stat(a.tree, dst.path) # Dir)
               THEN Failed(a.tree) ELSE run
    <3> DEFINE src == a.real
               to == dst.path
               t == a.tree
    <3> HIDE DEF src, to, t
    <3>1. Onto(name, t, Line(src, to), slash) =
            IF src = <<>> \/ (slash /\ stat(t, to) # Dir) THEN Failed(t) ELSE Run(name, t, src, to)
      <4> HIDE DEF slash
      <4> QED BY <1>1, <1>3, <1>7, OntoPlain DEF src, to, t
    <3> QED BY <2>2, <3>1 DEF src, to, t, call, line
  <2>4. Failed(a.tree).tree = a.tree /\ Failed(a.tree).ok = FALSE
    BY <1>1, FailedIs
  <2> HIDE DEF run
  <2>5. CASE call = Failed(a.tree)
    BY <1>6, <2>1, <2>4, <2>5 DEF Transfers
  <2>6. CASE call = run /\ ~(a.real = <<>> \/ (dst.slash /\ stat(a.tree, dst.path) # Dir))
    BY <1>6, <2>1, <2>6 DEF Transfers, run
  <2> QED BY <2>3, <2>5, <2>6
<1> QED BY <1>6, <1>7 DEF r

\* What is remembered is not asked again.
LEMMA Asked ==
  ASSUME NEW c \in Contexts, NEW type, NEW type2, c.exists
  PROVE  LET a == getAbsolutePath(c, type2) IN
         /\ a \in Contexts /\ a.tree = c.tree /\ a.path = c.path /\ a.exists
         /\ a.real = Place(c, c.real) /\ a.real \in Seq(Names)
<1> DEFINE a == getAbsolutePath(c, type2)
<1>1. Exists(c, type2)
  BY DEF Exists
<1>2. a \in Contexts /\ a.path = c.path /\ a.exists /\ a.tree = c.tree /\ a.real = Place(a, c.real)
  BY <1>1, getAbsolutePathIs
<1> HIDE DEF a
<1>3. Place(a, c.real) = Place(c, c.real)
  BY <1>2 DEF Place
<1> QED BY <1>2, <1>3, ContextIs DEF a

\* A move: the preparations, then mv of what the path names then, when the shell
\* leaves the texts whole.
Mover(c, p, r, dst, up) ==
    LET w == mv(p.tree, Place(p, c.real), dst.path) IN
    /\ ~r.ok => r.tree = p.tree
    /\ r.ok => /\ p.ok /\ up /\ w.ok /\ r.tree = w.tree
               /\ dst.slash => stat(p.tree, dst.path) = Dir
\* move prepares the destination, and moves.
LEMMA moveIs ==
  ASSUME NEW c \in Contexts, NEW type \in Types, NEW dst \in Destinations, NEW up \in BOOLEAN
  PROVE  LET r == move(c, type, dst, up)
             p == Prepared(isExist(c, type), dst)
         IN  /\ r \in Contexts /\ r.path = c.path /\ (r.ok => up)
             /\ p \in Contexts /\ Grows(c.tree, p.tree) /\ Prepares(isExist(c, type), p, dst)
             /\ p.path = c.path /\ p.real = c.real
             /\ Plain(Place(p, c.real)) /\ Plain(dst.path) => Mover(c, p, r, dst, up)
<1> DEFINE e == isExist(c, type)
           p == Prepared(e, dst)
           r == move(c, type, dst, up)
           a == getAbsolutePath(p, type)
           x == Transfer("mv", a, dst, up)
<1>1. e \in Contexts /\ e.tree = c.tree /\ e.path = c.path /\ e.real = c.real /\ e.exists = e.ok
  BY isExistIs
<1>3. r = MoveTo(p, type, dst, up)
  BY DEF move
<1> HIDE DEF e, r
<1>4. Prepares(e, p, dst)
  BY <1>1, PreparedIs
<1> HIDE DEF p
<1>5. p \in Contexts /\ Grows(c.tree, p.tree) /\ p.path = c.path /\ p.real = c.real /\ p.exists = e.exists
  BY <1>1, <1>4 DEF Prepares, SameObject
<1>7. CASE ~p.ok
  <2>1. r = p
    BY <1>3, <1>7 DEF MoveTo
  <2> QED BY <1>4, <1>5, <1>7, <2>1 DEF e, p, r, Mover
<1>8. CASE p.ok
  <2>1. r = Forget(x)
    BY <1>3, <1>8 DEF MoveTo, Mv
  <2>2. p.exists
    BY <1>1, <1>4, <1>5, <1>8 DEF Prepares
  <2>3. a \in Contexts /\ a.tree = p.tree /\ a.path = p.path /\ a.exists /\ a.real = Place(p, p.real)
        /\ a.real \in Seq(Names)
    BY <1>5, <2>2, Asked
  <2> HIDE DEF a
  <2>6. /\ x \in Contexts /\ SameObject(a, x) /\ (x.ok => up)
        /\ Plain(a.real) /\ Plain(dst.path) => Transfers("mv", a, x, dst, up)
    BY <2>3, TransferIs
  <2> HIDE DEF x
  <2>7. r \in Contexts /\ r.tree = x.tree /\ r.path = x.path /\ r.ok = x.ok
    BY <2>1, <2>6, ForgetIs
  <2>8. r.path = c.path
    BY <1>5, <2>3, <2>6, <2>7 DEF SameObject
  <2>9. ASSUME Plain(Place(p, c.real)), Plain(dst.path) PROVE Mover(c, p, r, dst, up)
    <3> DEFINE w == mv(p.tree, Place(p, c.real), dst.path)
    <3>1. a.real = Place(p, c.real)
      BY <1>5, <2>3
    <3>2. Run("mv", a.tree, a.real, dst.path) = w
      BY <2>3, <3>1 DEF Run
    <3>3. w \in Outcomes /\ (~w.ok => w.tree = p.tree)
      BY <1>5, <2>3, <3>1, ContextIs, mvIs
    <3>4. Transfers("mv", a, x, dst, up)
      BY <2>6, <2>9, <3>1
    <3> HIDE DEF w
    <3> QED BY <1>8, <2>3, <2>7, <3>2, <3>3, <3>4 DEF Transfers, Mover, w
  <2> QED BY <1>4, <1>5, <2>6, <2>7, <2>8, <2>9 DEF e, p, r
<1> QED BY <1>5, <1>7, <1>8, ContextIs

\* copy keeps the object's path.
LEMMA copyIs ==
  ASSUME NEW c \in Contexts, NEW type \in Types, NEW dst \in Destinations, NEW up \in BOOLEAN
  PROVE  LET r == copy(c, type, dst, up) IN r \in Contexts /\ r.path = c.path
<1> DEFINE e == isExist(c, type)
           p == Prepared(e, dst)
           r == copy(c, type, dst, up)
           a == getAbsolutePath(p, type)
           x == Transfer("cp", a, dst, up)
<1>1. e \in Contexts /\ e.path = c.path /\ e.exists = e.ok
  BY isExistIs
<1>3. r = CopyTo(p, type, dst, up)
  BY DEF copy
<1> HIDE DEF e, r
<1>4. Prepares(e, p, dst)
  BY <1>1, PreparedIs
<1> HIDE DEF p
<1>5. p \in Contexts /\ p.path = c.path /\ p.exists = e.exists
  BY <1>1, <1>4 DEF Prepares, SameObject
<1>7. CASE ~p.ok
  BY <1>3, <1>5, <1>7 DEF CopyTo, r
<1>8. CASE p.ok
  <2>1. r = x
    BY <1>3, <1>8 DEF CopyTo, Cp
  <2>3. a \in Contexts /\ a.path = p.path
    BY <1>5, getAbsolutePathIs
  <2> HIDE DEF a
  <2>6. x \in Contexts /\ SameObject(a, x)
    BY <2>3, TransferIs
  <2> HIDE DEF x
  <2> QED BY <1>5, <2>1, <2>3, <2>6 DEF r, SameObject
<1> QED BY <1>5, <1>7, <1>8, ContextIs

\* A link is made to the object's path, at the destination or not at all.
LEMMA createSymLinkIs ==
  ASSUME NEW c \in Contexts, NEW type \in Types, NEW dst \in Destinations
  PROVE  LET r == createSymLink(c, type, dst) IN
         /\ r \in Contexts /\ r.path = c.path /\ Grows(c.tree, r.tree)
         /\ r.ok /\ c.path # <<>> => \E t : /\ IsTree(t) /\ Grows(c.tree, t)
                                            /\ symlink(t, c.path, dst.path).ok
                                            /\ r.tree = symlink(t, c.path, dst.path).tree
         /\ r.ok => c.path # <<>>
<1> DEFINE e == isExist(c, type)
           object0 == Object(e.tree, dst.path)
           new == isExist(object0, UKNOWN)
           f == IF new.ok THEN new ELSE create(new, UKNOWN)
           at == getAbsolutePath(f, UKNOWN)
           w == symlink(at.tree, e.path, at.real)
           r == createSymLink(c, type, dst)
<1>0. dst.path \in Paths \cup {<<>>} /\ dst.path \in Paths /\ dst.path # <<>> /\ dst.path \in Seq(Names)
  BY CallsAssumption, PathIs
<1>1. e \in Contexts /\ e.tree = c.tree /\ e.path = c.path /\ e.real = c.real /\ e.exists = e.ok
      /\ (e.ok <=> Exists(c, type))
  BY isExistIs
<1>2. (e.exists => e.path # <<>>) /\ IsTree(e.tree)
  BY <1>1, ContextIs
<1>3. r = LinkFrom(e, dst)
  BY DEF createSymLink
<1> HIDE DEF e, r
<1>4. CASE ~e.ok
  <2>1. r = e
    BY <1>3, <1>4 DEF LinkFrom
  <2> QED BY <1>1, <1>2, <1>4, <2>1, GrowsOn DEF r
<1>5. CASE e.ok
  <2>1. object0 \in Contexts /\ object0.tree = e.tree /\ object0.path = dst.path
        /\ object0.exists = FALSE /\ object0.real = <<>>
    <3> DEFINE q == dst.path
               t == e.tree
    <3> HIDE DEF q, t
    <3>2. /\ Object(t, q) \in Contexts /\ Object(t, q).tree = t /\ Object(t, q).path = q
          /\ Object(t, q).exists = FALSE /\ Object(t, q).real = <<>>
      BY <1>0, <1>2, ObjectIs DEF q, t
    <3> QED BY <3>2 DEF q, t
  <2>2. r = LinkAt(e, new)
    BY <1>3, <1>5 DEF LinkFrom
  <2> HIDE DEF object0
  <2>3. new \in Contexts /\ new.tree = e.tree /\ new.path = dst.path /\ new.real = <<>>
        /\ new.exists = new.ok /\ (new.ok <=> stat(e.tree, dst.path) # None)
    <3>1. Exists(object0, UKNOWN) <=> stat(e.tree, dst.path) # None
      BY <1>0, <2>1, getStatIs DEF Exists, Matches
    <3> QED BY <2>1, <3>1, isExistIs
  <2> HIDE DEF new
  <2>4. CASE new.ok /\ getType(new) # DIRECTORY
    <3>1. r = Returns(e, FALSE)
      BY <2>2, <2>4 DEF LinkAt
    <3>2. r \in Contexts /\ SameObject(e, r) /\ r.tree = e.tree /\ r.ok = FALSE
      BY <1>1, <3>1, ReturnsIs
    <3> QED BY <1>1, <1>2, <3>2, GrowsOn DEF SameObject, r
  <2>5. CASE ~(new.ok /\ getType(new) # DIRECTORY)
    <3>1. r = On(e, w)
      BY <2>2, <2>5 DEF LinkAt, Symlink
    <3>2. f \in Contexts /\ f.path = dst.path /\ f.real = <<>> /\ Grows(e.tree, f.tree)
          /\ (stat(f.tree, dst.path) # None => new.ok)
      <4>1. CASE new.ok
        BY <2>3, <4>1, GrowsOn
      <4>2. CASE ~new.ok
        <5>1. Exists(new, UKNOWN) <=> stat(e.tree, dst.path) # None
          BY <1>0, <2>3, getStatIs DEF Exists, Matches
        <5> QED BY <1>0, <2>3, <4>2, <5>1, createOfNothing DEF Adds
      <4> QED BY <4>1, <4>2
    <3> HIDE DEF f
    <3>3. at \in Contexts /\ at.path = dst.path /\ Adds(f, at) /\ at.real = Place(at, <<>>)
      BY <3>2, getAbsolutePathIs
    <3> HIDE DEF at
    <3>4. Grows(e.tree, at.tree) /\ IsTree(at.tree) /\ at.real \in Seq(Names) /\ at.real \in Paths \cup {<<>>}
      BY <3>2, <3>3, GrowsOn, ContextIs DEF Adds
    <3>5. e.path \in Paths
      BY <1>1, <1>2, <1>5, ContextIs
    <3>6. w \in Outcomes /\ Grows(at.tree, w.tree) /\ w.ok \in BOOLEAN
      BY <3>4, <3>5, CallsHaveOutcomes, symlinkIs
    <3>7. ASSUME w.ok PROVE w = symlink(at.tree, e.path, dst.path)
      <4>1. at.real # <<>>
        BY <3>4, <3>5, <3>7, symlinkIs
      <4>2. stat(at.tree, dst.path) = None
        <5>1. SUFFICES ASSUME stat(at.tree, dst.path) # None PROVE FALSE
          OBVIOUS
        <5>2. AtPlace(at.tree, at.real) /\ at.tree[at.real] = stat(at.tree, dst.path)
          BY <1>0, <3>3, <5>1, PlaceIs
        <5>3. Makes(at.tree, w, at.real, Link(e.path))
          BY <3>4, <3>5, <4>1, <5>2, symlinkIs DEF AtPlace
        <5> QED BY <3>7, <5>1, <5>2, <5>3 DEF Makes
      <4>3. \A target : symlink(at.tree, target, at.real) = symlink(at.tree, target, at.path)
        BY <1>0, <3>3, <4>1, <4>2, CallAtPlace
      <4> QED BY <3>3, <4>3
    <3> HIDE DEF w
    <3>8. r \in Contexts /\ SameObject(e, r) /\ r.tree = w.tree /\ r.ok = w.ok
      BY <1>1, <3>1, <3>6, OnIs
    <3>9. Grows(c.tree, r.tree) /\ Grows(c.tree, at.tree)
      BY <1>1, <3>4, <3>6, <3>8, GrowsOn
    <3>11. r.ok => \E t : /\ IsTree(t) /\ Grows(c.tree, t)
                          /\ symlink(t, c.path, dst.path).ok
                          /\ r.tree = symlink(t, c.path, dst.path).tree
      BY <1>1, <3>4, <3>7, <3>8, <3>9
    <3> QED BY <1>1, <3>5, <3>8, <3>9, <3>11, PathIs DEF SameObject, r
  <2> QED BY <2>4, <2>5
<1> QED BY <1>1, <1>4, <1>5, ContextIs

\* A remove deletes at the place of an object that exists: a directory what its
\* text says.
Gone(c, real) == IF getType(c) = DIRECTORY THEN RunEach("rm", c.tree, Text(real), <<>>)
                 ELSE unlink(c.tree, real)
\* What remove leaves.
LEMMA removeIs ==
  ASSUME NEW c \in Contexts, NEW type \in Types, NEW up \in BOOLEAN
  PROVE  LET r == remove(c, type, up)
             real == Place(c, c.real)
             gone == Gone(c, real)
         IN  /\ r \in Contexts /\ r.path = c.path
             /\ r.tree = c.tree \/ (Exists(c, type) /\ r.tree = gone.tree)
             /\ r.ok => Exists(c, type) /\ r.tree = gone.tree /\ (getType(c) # DIRECTORY => gone.ok)
             /\ real \in Seq(Names) /\ real \in Paths \cup {<<>>} /\ gone \in Outcomes
<1> DEFINE e == isExist(c, type)
           r == remove(c, type, up)
           a == getAbsolutePath(e, type)
           real == Place(c, c.real)
           directory == getType(c) = DIRECTORY
           gone == Gone(c, real)
           x == Delete(a, up, directory)
<1>1. e \in Contexts /\ e.tree = c.tree /\ e.path = c.path /\ e.real = c.real /\ e.exists = e.ok
      /\ (e.ok <=> Exists(c, type))
  BY isExistIs
<1>2. IsTree(c.tree)
  BY ContextIs
<1>3. r = RemoveObject(e, type, up)
  BY DEF remove
<1> HIDE DEF e, r
<1>4. Place(e, e.real) = real /\ (getType(e) = DIRECTORY) = directory
  BY <1>1 DEF Place, getType, getStat
<1>9. real \in Seq(Names) /\ real \in Paths \cup {<<>>} /\ gone \in Outcomes
  <2>1. real \in Seq(Names) /\ real \in Paths \cup {<<>>}
    <3>1. Resolved(c) \in Contexts /\ Resolved(c).real = real
      BY ResolvedIs
    <3> QED BY <3>1, ContextIs
  <2> HIDE DEF real
  <2>2. unlink(c.tree, real) \in Outcomes
    BY <1>2, <2>1, CallsHaveOutcomes
  <2>3. RunEach("rm", c.tree, Text(real), <<>>) \in Outcomes
    BY <1>2, <2>1, TextIs, RunEachIs
  <2> QED BY <2>1, <2>2, <2>3 DEF Gone
<1> HIDE DEF real
<1>5. CASE ~e.ok
  <2>1. r = e
    BY <1>3, <1>5 DEF RemoveObject
  <2> QED BY <1>1, <1>5, <1>9, <2>1 DEF r, real
<1>6. CASE e.ok
  <2>1. r = Forget(x)
    BY <1>3, <1>4, <1>6 DEF RemoveObject
  <2>2. a \in Contexts /\ a.tree = c.tree /\ a.path = c.path /\ a.real = real
    BY <1>1, <1>4, <1>6, Asked
  <2> HIDE DEF a
  <2>3. /\ x \in Contexts /\ x.path = c.path /\ (x.tree = gone.tree \/ x.tree = c.tree)
        /\ x.ok => x.tree = gone.tree /\ (~directory => gone.ok)
    <3>1. CASE directory
      <4>1. x = execCommand(a, up, {a.real}, gone)
        BY <2>2, <3>1 DEF Delete, Gone
      <4> DEFINE texts == {a.real}
      <4> HIDE DEF x, gone, texts
      <4>2. /\ x \in Contexts /\ SameObject(a, x)
            /\ x.tree = gone.tree \/ (x.tree = a.tree /\ ~x.ok)
            /\ x.ok => x.tree = gone.tree
        BY <1>9, <2>2, <4>1, execCommandIs DEF texts
      <4> QED BY <2>2, <3>1, <4>2 DEF SameObject
    <3>2. CASE ~directory
      <4>1. x = On(a, gone)
        BY <2>2, <3>2 DEF Delete, Gone
      <4> HIDE DEF x, gone
      <4>2. x \in Contexts /\ SameObject(a, x) /\ x.tree = gone.tree /\ x.ok = gone.ok
        BY <1>9, <2>2, <4>1, OnIs
      <4> QED BY <2>2, <4>2 DEF SameObject
    <3> QED BY <3>1, <3>2
  <2> HIDE DEF x, gone
  <2>4. r \in Contexts /\ r.tree = x.tree /\ r.path = x.path /\ r.ok = x.ok
    BY <2>1, <2>3, ForgetIs
  <2> QED BY <1>1, <1>6, <1>9, <2>3, <2>4 DEF r, real, gone
<1> QED BY <1>1, <1>5, <1>6, ContextIs

\* removeSymLink takes a link away, or nothing.
LEMMA removeSymLinkIs ==
  ASSUME NEW c \in Contexts, NEW type \in Types
  PROVE  LET r == removeSymLink(c, type)
             w == unlink(c.tree, c.path)
         IN  /\ r \in Contexts
             /\ \/ r.tree = c.tree /\ r.path = c.path /\ (r.ok => ~isSymbolicLink(c))
                \/ /\ r.ok /\ isSymbolicLink(c) /\ w.ok /\ r.tree = w.tree
                   /\ r.path = Place(c, c.real)
<1> DEFINE e == isExist(c, type)
           r == removeSymLink(c, type)
           a == getAbsolutePath(e, type)
           w == unlink(c.tree, c.path)
           u == On(a, w)
<1>1. e \in Contexts /\ e.tree = c.tree /\ e.path = c.path /\ e.real = c.real /\ e.exists = e.ok
  BY isExistIs
<1>2. IsTree(c.tree) /\ c.path \in Seq(Names)
  BY ContextIs
<1>3. r = RemoveLink(e, type)
  BY DEF removeSymLink
<1> HIDE DEF e, r
<1>4. isSymbolicLink(e) = isSymbolicLink(c) /\ Place(e, e.real) = Place(c, c.real)
  BY <1>1 DEF isSymbolicLink, Place
<1>5. CASE ~(e.ok /\ isSymbolicLink(e))
  <2>1. r = e
    BY <1>3, <1>5 DEF RemoveLink
  <2> QED BY <1>1, <1>2, <1>4, <1>5, <2>1 DEF r
<1>6. CASE e.ok /\ isSymbolicLink(e)
  <2>1. a \in Contexts /\ a.tree = c.tree /\ a.path = c.path /\ a.exists /\ a.real = Place(c, c.real)
    BY <1>1, <1>4, <1>6, Asked
  <2> HIDE DEF a
  <2>2. r = Retarget(u)
    <3>1. r = Retarget(Unlink(a))
      BY <1>3, <1>6 DEF RemoveLink, a
    <3> QED BY <2>1, <3>1 DEF Unlink
  <2>3. w \in Outcomes /\ (~w.ok => w.tree = c.tree) /\ w.ok \in BOOLEAN
    BY <1>2, CallsHaveOutcomes, unlinkIs
  <2> HIDE DEF w
  <2>4. u \in Contexts /\ SameObject(a, u) /\ u.tree = w.tree /\ u.ok = w.ok
    BY <2>1, <2>3, OnIs
  <2> HIDE DEF u
  <2>5. u.path = c.path /\ u.exists /\ u.real = Place(c, c.real)
    BY <2>1, <2>4 DEF SameObject
  <2>6. CASE u.ok
    <3>1. r = setPath(u, u.real)
      BY <2>2, <2>6 DEF Retarget
    <3>2. r \in Contexts /\ r.tree = u.tree /\ r.path = u.real /\ r.exists = FALSE /\ r.ok = u.ok
      BY <2>4, <3>1, ContextIs, setPathIs
    <3> QED BY <1>4, <1>6, <2>3, <2>4, <2>5, <2>6, <3>2 DEF r, w
  <2>7. CASE ~u.ok
    <3>1. r = u
      BY <2>2, <2>7 DEF Retarget
    <3> QED BY <1>1, <1>2, <2>3, <2>4, <2>5, <2>7, <3>1 DEF r
  <2> QED BY <2>6, <2>7
<1> QED BY <1>5, <1>6

\* The calls that change no tree when the object exists.
Leaves(c, r) == r \in Contexts /\ r.path = c.path /\ r.tree = c.tree
\* setOwner leaves the tree.
LEMMA setOwnerIs ==
  ASSUME NEW c \in Contexts, NEW type, NEW up \in BOOLEAN
  PROVE  Leaves(c, setOwner(c, type, up))
<1> DEFINE e == isExist(c, type)
           a == getAbsolutePath(e, type)
           r == setOwner(c, type, up)
           words == Text(a.real)
           b == words # <<>> /\ \A i \in DOMAIN words : stat(a.tree, words[i]) # None
           call == [tree |-> a.tree, ok |-> b]
<1>1. e \in Contexts /\ e.tree = c.tree /\ e.path = c.path /\ e.exists = e.ok
  BY isExistIs
<1>3. r = ChangeOwner(e, type, up)
  BY DEF setOwner
<1> HIDE DEF e, r
<1>5. CASE ~e.ok
  <2>1. r = e
    BY <1>3, <1>5 DEF ChangeOwner
  <2> QED BY <1>1, <2>1 DEF Leaves, r
<1>6. CASE e.ok
  <2>1. a \in Contexts /\ a.tree = c.tree /\ a.path = c.path
    BY <1>1, <1>6, Asked
  <2>2. r = execCommand(a, up, {a.real}, call)
    BY <1>3, <1>6 DEF ChangeOwner, Own
  <2>3. b \in BOOLEAN
    OBVIOUS
  <2> DEFINE texts == {a.real}
  <2> HIDE DEF a, b, texts
  <2>4. call \in Outcomes /\ call.tree = a.tree
    BY <2>1, <2>3, ContextIs, OutcomeMade
  <2> HIDE DEF call
  <2>5. r \in Contexts /\ SameObject(a, r) /\ (r.tree = call.tree \/ r.tree = a.tree)
    BY <2>1, <2>2, <2>4, execCommandIs DEF texts
  <2> QED BY <2>1, <2>4, <2>5 DEF Leaves, SameObject, r
<1> QED BY <1>1, <1>5, <1>6, ContextIs

\* changeMode leaves the tree.
LEMMA changeModeIs ==
  ASSUME NEW c \in Contexts, NEW type, NEW up \in BOOLEAN
  PROVE  Leaves(c, changeMode(c, type, up))
<1> DEFINE e == isExist(c, type)
           a == getAbsolutePath(e, type)
           r == changeMode(c, type, up)
           b == up /\ a.real # <<>> /\ stat(a.tree, a.real) # None
<1>1. e \in Contexts /\ e.tree = c.tree /\ e.path = c.path /\ e.exists = e.ok
  BY isExistIs
<1>3. r = Chmod(e, type, up)
  BY DEF changeMode
<1> HIDE DEF e, r
<1>4. ASSUME NEW d \in Contexts, d.tree = c.tree, d.path = c.path,
             NEW v \in BOOLEAN, r = Returns(d, v)
      PROVE  Leaves(c, r)
  <2>1. r \in Contexts /\ SameObject(d, r) /\ r.tree = d.tree
    BY <1>4, ReturnsIs
  <2> QED BY <1>4, <2>1 DEF Leaves, SameObject
<1>5. CASE ~(e.ok /\ getStat(e) # None)
  <2>1. r = Returns(e, FALSE)
    BY <1>3, <1>5 DEF Chmod
  <2> QED BY <1>1, <1>4, <2>1 DEF r
<1>6. CASE e.ok /\ getStat(e) # None
  <2>1. a \in Contexts /\ a.tree = c.tree /\ a.path = c.path
    BY <1>1, <1>6, Asked
  <2>2. r = Returns(a, b)
    BY <1>3, <1>6 DEF Chmod, ModeAt
  <2>3. b \in BOOLEAN
    OBVIOUS
  <2> HIDE DEF a, b
  <2> QED BY <1>4, <2>1, <2>2, <2>3 DEF r
<1> QED BY <1>5, <1>6

-----------------------------------------------------------------------------
\* The object between two calls, as a context.
LEMMA NowIs ==
  ASSUME TypeOK
  PROVE  Now \in Contexts /\ m_type \in Types
BY DEF TypeOK, Now, Contexts, Fields, Types

\* A step to an object on a tree keeps the types.
LEMMA BecomesTyped ==
  ASSUME TypeOK, NEW c \in Contexts, Becomes(c)
  PROVE  TypeOK'
BY DEF TypeOK, Becomes, Contexts, Fields

\* Another program leaves a tree, whatever it makes or deletes.
LEMMA OtherLeavesTree ==
  ASSUME NEW t, IsTree(t), NEW u, NEW p \in EnvPaths, Entry(t, p) = p, NEW N \in SUBSET Node,
         IF t[p] = None THEN \E n \in N : u = Put(t, p, n) ELSE u = Prune(t, p)
  PROVE  IsTree(u)
<1>1. p \in Paths /\ p # NoPath
  BY CallsAssumption, PathIs, NodeAssumption
<1>2. CASE t[p] # None
  BY <1>1, <1>2, PruneIs
<1>3. CASE t[p] = None
  <2>1. PICK n \in N : u = Put(t, p, n)
    BY <1>3
  <2>2. n \in Node
    OBVIOUS
  <2>3. NodeAt(t, Parent(p)) = Dir
    BY <1>1, PathIs, EntryTyped
  <2> QED BY <1>1, <1>3, <2>1, <2>2, <2>3, PutIs
<1> QED BY <1>2, <1>3

\* The type invariant is one: whatever the handlers do, what is in the tree is
\* in a directory, the path and the remembered path are paths, and an object
\* without a path does not exist.  (FsObject.cpp, every public member.)
THEOREM TypeCorrect == Spec => []TypeOK
<1>1. Init => TypeOK
  BY TreesAssumption, CallsAssumption DEF Init, TypeOK, Rooted, IsAbsolute
<1>2. TypeOK /\ [Next]_vars => TypeOK'
  <2> SUFFICES ASSUME TypeOK, [Next]_vars PROVE TypeOK'
    OBVIOUS
  <2>0. Now \in Contexts /\ m_type \in Types
    BY NowIs
  <2>1. CASE SetPath
    <3>1. PICK p \in ObjectPaths \cup {<<>>} : Becomes(setPath(Now, p))
      BY <2>1 DEF SetPath
    <3>2. p \in Paths \cup {<<>>}
      BY CallsAssumption
    <3> QED BY <2>0, <3>1, <3>2, setPathIs, BecomesTyped
  <2>2. CASE IsExist
    BY <2>0, <2>2, isExistIs, BecomesTyped DEF IsExist
  <2>3. CASE GetAbsolutePath
    BY <2>0, <2>3, getAbsolutePathIs, BecomesTyped DEF GetAbsolutePath
  <2>4. CASE Create
    BY <2>0, <2>4, createIs, BecomesTyped DEF Create, Creates
  <2>5. CASE Move
    BY <2>0, <2>5, moveIs, BecomesTyped DEF Move
  <2>6. CASE Copy
    BY <2>0, <2>6, copyIs, BecomesTyped DEF Copy
  <2>7. CASE CreateSymLink
    BY <2>0, <2>7, createSymLinkIs, BecomesTyped DEF CreateSymLink
  <2>8. CASE Remove
    BY <2>0, <2>8, removeIs, BecomesTyped DEF Remove
  <2>9. CASE RemoveSymLink
    BY <2>0, <2>9, removeSymLinkIs, BecomesTyped DEF RemoveSymLink
  <2>10. CASE SetOwner
    BY <2>0, <2>10, setOwnerIs, BecomesTyped DEF SetOwner, Leaves
  <2>11. CASE ChangeMode
    BY <2>0, <2>11, changeModeIs, BecomesTyped DEF ChangeMode, Leaves
  <2>12. CASE Other
    <3>1. PICK p \in EnvPaths :
            /\ Entry(tree, p) = p
            /\ IF tree[p] = None THEN \E n \in EnvNodes : tree' = Put(tree, p, n)
               ELSE tree' = Prune(tree, p)
            /\ UNCHANGED <<object, m_type>>
      BY <2>12 DEF Other
    <3>2. IsTree(tree) /\ EnvNodes \in SUBSET Node
      BY CallsAssumption DEF TypeOK, IsTree
    <3>3. IsTree(tree')
      BY <3>1, <3>2, OtherLeavesTree
    <3> QED BY <3>1, <3>3 DEF TypeOK, IsTree, object
  <2>13. CASE UNCHANGED vars
    BY <2>13 DEF TypeOK, vars, object, Rooted
  <2> QED BY <2>1, <2>2, <2>3, <2>4, <2>5, <2>6, <2>7, <2>8, <2>9, <2>10, <2>11, <2>12, <2>13 DEF Next
<1> QED BY <1>1, <1>2, PTL DEF Spec

\* On a way of directories and missing names there is no link.
LEMMA ClearWay ==
  ASSUME NEW t, IsTree(t), NEW p \in Seq(Names),
         \A k \in 1 .. Len(p) : t[SubSeq(p, 1, k)] \in {None, Dir}
  PROVE  LinksOn(t, p) = {} /\ Followed(t, p) = p
<1>1. ASSUME NEW k \in LinksOn(t, p) PROVE FALSE
  <2>1. k \in 1 .. Len(p) /\ IsLink(t[SubSeq(p, 1, k)])
    BY DEF LinksOn
  <2> QED BY <2>1, LinkIs
<1> QED BY <1>1, NoLinksOn

\* What is made at a free name in a directory.
LEMMA MakesFree ==
  ASSUME NEW d \in Contexts, d.path # <<>>, d.tree[d.path] = None,
         NodeAt(d.tree, Parent(d.path)) = Dir, NEW type \in Types, type # UKNOWN
  PROVE  Try(d, type).ok /\ Try(d, type).path = d.path
<1> DEFINE u == d.tree
           p == d.path
           w == IF type = DIRECTORY THEN mkdir(u, p) ELSE creat(u, p, New)
<1>1. IsTree(u) /\ p \in Paths /\ p \in Seq(Names) /\ p # <<>> /\ u[p] = None /\ NodeAt(u, Parent(p)) = Dir
  BY ContextIs
<1>2. getStat(d) = stat(u, p)
  BY <1>1, getStatIs
<1>3. Try(d, type) = MakeObject(d, type, getStat(d))
  BY DEF Try
<1> HIDE DEF u, p
<1>4. Entry(u, p) = p /\ stat(u, p) = None
  BY <1>1, FreePlace
<1>5. Ending(u, p) = p
  <2>1. p # NoPath
    BY <1>1, NodeAssumption
  <2>2. Lookup(u, p, realpath(u, Parent(p)), p)
    BY <1>1, <1>4, <2>1, EntryIs, Zenon
  <2>3. LinksOn(u, p) = {} /\ Followed(u, p) = p
    <3>1. ~IsLink(u[p])
      BY <1>1, LinkIs
    <3> QED BY <2>2, <3>1 DEF Lookup
  <2> QED BY <1>1, <2>3 DEF Ending
<1>6. NodeAt(u, p) = None /\ p # NoPath
  BY <1>1, NodeAtIs, NodeAssumption
<1>7. w.ok = TRUE
  <2>1. mkdir(u, p).ok = TRUE
    BY <1>1, <1>4, <1>6 DEF mkdir, Placed, Done
  <2>2. creat(u, p, New).ok = TRUE
    BY <1>5, <1>6 DEF creat, Placed, Done
  <2> QED BY <2>1, <2>2
<1>8. w \in Outcomes
  BY <1>1, CallsHaveOutcomes, CallsAssumption
<1>9. Try(d, type) = On(d, w)
  BY <1>1, <1>2, <1>3, <1>4 DEF MakeObject, u, p
<1> HIDE DEF w
<1> QED BY <1>7, <1>8, <1>9, OnIs DEF SameObject

\* The way down to a clear path, when makePath is done.
LEMMA makePathClear ==
  ASSUME NEW c \in Contexts, NEW type, c.path # <<>>, ~c.exists, c.tree[c.path] = None,
         \A k \in 1 .. Len(c.path) - 1 : c.tree[SubSeq(c.path, 1, k)] \in {None, Dir},
         c.path \in Bare => stat(c.tree, Parent(c.path)) = Dir
  PROVE  LET d == makePath(c, type) IN
         d.tree[d.path] = None /\ NodeAt(d.tree, Parent(d.path)) = Dir
<1> DEFINE t == c.tree
           p == c.path
           d == makePath(c, type)
           u == d.tree
           q == Parent(p)
<1>1. IsTree(t) /\ p \in Paths /\ p \in Seq(Names) /\ p # <<>> /\ t[p] = None
  BY ContextIs
<1>2. /\ \A k \in 1 .. Len(p) - 1 : t[SubSeq(p, 1, k)] \in {None, Dir}
      /\ p \in Bare => stat(t, q) = Dir
  OBVIOUS
<1>3. getStat(c) = stat(t, p) /\ ~c.exists
  BY <1>1, getStatIs
<1>4. /\ d.path = p
      /\ ~Exists(c, type) /\ Len(p) > 1 /\ p \notin Bare => u = MakeDirs(t, q).tree
      /\ ~Exists(c, type) /\ ~(Len(p) > 1 /\ p \notin Bare) => u = t
  BY makePathIs
<1> HIDE DEF t, p, d
<1>5. Len(p) \in Nat /\ Len(p) >= 1 /\ (Len(p) > 1 => q \in Paths) /\ q \in Seq(Names) /\ Len(q) = Len(p) - 1
  BY <1>1, PathIs, FrontAndLast
<1>6. \A k \in 1 .. Len(q) : k \in 1 .. Len(p) /\ SubSeq(q, 1, k) = SubSeq(p, 1, k)
  <2> TAKE k \in 1 .. Len(q)
  <2>1. Len(p) - 1 \in 1 .. Len(p) /\ k \in 1 .. Len(p) /\ k \in 1 .. Len(p) - 1
    BY <1>5
  <2>2. \A j \in 1 .. Len(p) - 1 : SubSeq(SubSeq(p, 1, Len(p) - 1), 1, j) = SubSeq(p, 1, j)
    BY <1>1, <2>1, PrefixIs
  <2> QED BY <2>1, <2>2 DEF q, Parent
<1>7. \A k \in 1 .. Len(q) : t[SubSeq(q, 1, k)] \in {None, Dir}
  <2> TAKE k \in 1 .. Len(q)
  <2>1. k \in 1 .. Len(p) - 1
    BY <1>5
  <2> QED BY <1>2, <1>6, <2>1
<1>8. stat(t, p) = None
  <2>1. \A k \in 1 .. Len(p) : t[SubSeq(p, 1, k)] \in {None, Dir}
    <3> TAKE k \in 1 .. Len(p)
    <3>1. CASE k = Len(p)
      <4>1. SubSeq(p, 1, Len(p)) = p
        BY <1>1, <3>1, PrefixIs
      <4> QED BY <1>1, <3>1, <4>1
    <3>2. CASE k # Len(p)
      <4>1. k \in 1 .. Len(p) - 1
        BY <1>5, <3>2
      <4> QED BY <1>2, <4>1
    <3> QED BY <3>1, <3>2
  <2>2. Followed(t, p) = p
    BY <1>1, <2>1, ClearWay
  <2>3. realpath(t, p) = NoPath
    BY <1>1, <2>2 DEF realpath, Found
  <2> QED BY <1>1, <2>3, StatIs
<1>9. ~Exists(c, type)
  BY <1>3, <1>8 DEF Exists, Matches
<1> HIDE DEF q
<1>10. u[p] = None /\ NodeAt(u, q) = Dir
  <2>1. CASE Len(p) > 1 /\ p \notin Bare
    <3>1. u = MakeDirs(t, q).tree /\ q \in Paths /\ Len(q) \in 1 .. Len(q)
      BY <1>4, <1>5, <1>9, <2>1
    <3>2. ClearTo(t, MakeDirs(t, q), q, Len(q))
      BY <1>1, <1>7, <3>1, MakeDirsClear
    <3>3. u[SubSeq(q, 1, Len(q))] = Dir /\ SubSeq(q, 1, Len(q)) = q
      BY <1>5, <3>1, <3>2, PrefixIs DEF ClearTo
    <3>4. \A j \in 1 .. Len(q) : SubSeq(q, 1, j) # p
      <4> TAKE j \in 1 .. Len(q)
      <4>1. Len(SubSeq(q, 1, j)) = j
        BY <1>5, PrefixIs
      <4> QED BY <1>5, <4>1
    <3>5. u[p] = t[p]
      BY <1>1, <3>1, <3>2, <3>4 DEF ClearTo
    <3> QED BY <1>1, <3>1, <3>3, <3>5, NodeAtIs
  <2>2. CASE ~(Len(p) > 1 /\ p \notin Bare)
    <3>1. u = t
      BY <1>4, <1>9, <2>2
    <3>2. CASE Len(p) = 1
      <4>1. q = <<>>
        BY <1>5, <3>2
      <4> QED BY <1>1, <3>1, <4>1, RootIs DEF NodeAt
    <3>3. CASE Len(p) > 1
      <4>1. stat(t, q) = Dir /\ q \in Paths
        BY <1>2, <1>5, <2>2, <3>3
      <4>2. Followed(t, q) = q
        BY <1>1, <1>5, <1>7, ClearWay
      <4>3. stat(t, q) # None
        BY <4>1, NodeAssumption
      <4>4. realpath(t, q) # NoPath
        BY <1>1, <1>5, <4>3, StatIs
      <4>5. realpath(t, q) = q
        BY <1>1, <1>5, <4>2, <4>4, RealpathIs
      <4>6. t[q] = Dir
        BY <1>1, <1>5, <4>1, <4>5, StatOfFound
      <4> QED BY <1>1, <3>1, <4>1, <4>6, NodeAtIs
    <3> QED BY <1>5, <3>2, <3>3
  <2> QED BY <2>1, <2>2
<1> QED BY <1>4, <1>10 DEF q, d

\* create changes no node that is there, whatever it meets on the way and how
\* often it renames, and true means that an object of the type is at its path;
\* with nothing on a clear way down it succeeds.  (FsObject::create, renaming
\* included.)
LEMMA CreateRight ==
  ASSUME TypeOK
  PROVE  CreateIsRight
<1> DEFINE c == create(Now, m_type)
           first == Try(makePath(Now, m_type), m_type)
<1>1. Now \in Contexts /\ m_type \in Types /\ Now.tree = tree /\ Now.path = m_path /\ Now.exists = m_exists
  BY NowIs DEF Now
<1>2. Creates(Now, c, m_type) /\ (first.ok \/ m_type = UKNOWN => c = first)
  BY <1>1, createIs
<1>3. CreateIsSafe
  <2> HIDE DEF c
  <2>1. \A q \in Touched(tree, c.tree) : tree[q] = None
    BY <1>1, <1>2 DEF Touched, Creates, Grows
  <2>2. c.ok => TypeOf(stat(c.tree, c.path)) = m_type
    BY <1>2 DEF Creates
  <2> QED BY <2>1, <2>2 DEF CreateIsSafe, c
<1>4. CreateSucceeds
  <2> SUFFICES ASSUME m_path \notin Bare \cup {<<>>}, ~m_exists, m_type # UKNOWN, tree[m_path] = None,
                      \A k \in 1 .. Len(m_path) - 1 : tree[SubSeq(m_path, 1, k)] \in {None, Dir}
               PROVE  c.ok /\ c.path = m_path
    BY DEF CreateSucceeds
  <2> DEFINE d == makePath(Now, m_type)
  <2>1. d.tree[d.path] = None /\ NodeAt(d.tree, Parent(d.path)) = Dir
    BY <1>1, makePathClear
  <2>2. d \in Contexts /\ d.path = m_path
    BY <1>1, makePathIs
  <2> HIDE DEF d
  <2>3. Try(d, m_type).ok /\ Try(d, m_type).path = m_path
    BY <1>1, <2>1, <2>2, MakesFree
  <2> QED BY <1>2, <2>3 DEF d
<1> QED BY <1>3, <1>4 DEF CreateIsRight

\* A create that returned true made what it was asked for, where the object now is
\* (FsObject::create).
THEOREM CreateCorrect == Spec => []CreateIsRight
BY TypeCorrect, CreateRight, PTL

\* A new link leads to what its target leads to, as far as links are followed; a
\* bare target when it is looked up in the link's own directory.
LEMMA LinkLeads ==
  ASSUME NEW t, IsTree(t), NEW dst \in Paths, NEW p \in Paths, symlink(t, p, dst).ok,
         NEW u, u = symlink(t, p, dst).tree, realpath(u, p) # NoPath,
         p \in Bare => Parent(Entry(u, dst)) = realpath(u, Parent(p))
  PROVE  TooLong(u, dst) \/ realpath(u, dst) = realpath(u, p)
<1> DEFINE e == Entry(t, dst)
           q == Parent(dst)
<1>1. dst \in Seq(Names) /\ dst # <<>> /\ p \in Seq(Names) /\ q \in Seq(Names)
  BY PathIs, FrontAndLast
<1>2. IsTree(u) /\ Grows(t, u) /\ e \in Paths /\ t[e] = None /\ u[e] = Link(p)
  BY <1>1, symlinkIs DEF Makes
<1>3. e # NoPath /\ e \in Seq(Names) /\ e # <<>>
  BY <1>2, PathIs, NodeAssumption
<1>4. NodeAt(t, realpath(t, q)) = Dir /\ e = Append(realpath(t, q), Name(dst))
  BY <1>1, <1>3, EntryIs DEF Lookup
<1> HIDE DEF e, q
<1>5. realpath(t, q) # NoPath
  BY <1>4, NodeAssumption DEF NodeAt
<1>6. realpath(u, q) = realpath(t, q) /\ stat(u, q) = stat(t, q)
  BY <1>1, <1>2, <1>5, GrowsResolves
<1>7. NodeAt(u, realpath(u, q)) = Dir
  BY <1>4, <1>6 DEF stat
<1>8. Lookup(u, dst, realpath(u, q), e)
  BY <1>1, <1>2, <1>4, <1>6, <1>7, LookupIs DEF q
<1> SUFFICES ASSUME ~TooLong(u, dst) PROVE realpath(u, dst) = realpath(u, p)
  OBVIOUS
<1>9. LinksOn(u, Followed(u, dst)) = {} /\ Followed(u, dst) = Followed(u, e)
  BY <1>8 DEF TooLong, Lookup
<1>10. IsLink(u[e]) /\ u[e].to = p /\ u[e] # None
  BY <1>2, LinkIs DEF IsLink, Links, Link
<1>11. Len(e) \in 1 .. Len(e) /\ SubSeq(e, 1, Len(e)) = e
  BY <1>2, PathIs, PrefixIs
<1>12. LinksOn(u, e) # {}
  BY <1>2, <1>10, <1>11 DEF LinksOn
<1> DEFINE to == LinkTo(u, e, Len(e))
<1>13. Hop(u, e) = to
  <2>1. PICK k : FirstLink(u, e, k)
    BY <1>2, <1>3, <1>12, FirstLinkIs
  <2>2. k \in 1 .. Len(e) /\ IsLink(u[SubSeq(e, 1, k)]) /\ Hop(u, e) = LinkTo(u, e, k) \o SubSeq(e, k + 1, Len(e))
    BY <2>1 DEF FirstLink
  <2>3. k = Len(e)
    BY <1>2, <1>10, <2>2, RootedPrefix, LinkIs
  <2>4. Hop(u, e) = to \o SubSeq(e, Len(e) + 1, Len(e))
    BY <2>2, <2>3
  <2>5. to \o SubSeq(e, Len(e) + 1, Len(e)) = to
    <3>1. Len(e) \in 0 .. Len(e) /\ Len(e) \in Nat
      BY <1>3, <1>11
    <3>2. SubSeq(e, Len(e) + 1, Len(e)) \in Seq(Names) /\ Len(SubSeq(e, Len(e) + 1, Len(e))) = Len(e) - Len(e)
      BY <1>3, <3>1, SplitIs
    <3>3. SubSeq(e, Len(e) + 1, Len(e)) = <<>>
      BY <3>1, <3>2
    <3>4. to \in Seq(Names)
      BY <1>3, <1>10, <1>11, LinkToIs
    <3> HIDE DEF to
    <3> QED BY <3>3, <3>4
  <2> QED BY <2>4, <2>5
<1>14. 1 \in 0 .. MaxHops /\ 0 + 1 <= MaxHops
  <2>1. Followed(u, e) # e
    BY <1>9, <1>12
  <2>2. Hops(u, e)[0] = e
    BY <1>2, <1>3, HopFacts
  <2>3. MaxHops # 0
    BY <2>1, <2>2 DEF Followed
  <2> QED BY <2>3, MaxHopsAssumption
<1>15. Hops(u, e)[1] = to
  <2>1. Hops(u, e)[0 + 1] = Hop(u, Hops(u, e)[0]) /\ Hops(u, e)[0] = e
    BY <1>2, <1>3, <1>14, HopFacts
  <2> QED BY <1>13, <2>1
<1>16. Followed(u, e) = Followed(u, to)
  <2>1. to \in Seq(Names)
    BY <1>3, <1>10, <1>11, LinkToIs
  <2> HIDE DEF to
  <2> QED BY <1>2, <1>3, <1>9, <1>14, <1>15, <2>1, Continues
<1>17. to = Leads(Parent(e), p)
  BY <1>10, <1>11 DEF LinkTo, Parent
<1>18. Followed(u, to) = Followed(u, p)
  <2>1. CASE p \notin Bare
    BY <1>17, <2>1 DEF Leads
  <2>2. CASE p \in Bare
    <3> DEFINE dir == realpath(u, Parent(p))
               b == Append(dir, Name(p))
    <3>1. Entry(u, dst) = e
      BY <1>2, <1>8 DEF Lookup
    <3>2. to = b
      BY <1>17, <2>2, <3>1 DEF Leads
    <3>3. NodeAt(u, dir) = Dir /\ p # <<>>
      BY <1>1, <1>2, ParentIsDir, PathIs
    <3>4. Lookup(u, p, dir, b)
      BY <1>1, <1>2, <3>3, LookupIs
    <3>5. LinksOn(u, Followed(u, p)) = {}
      BY <1>1, <1>2, RealpathIs
    <3> QED BY <3>2, <3>4, <3>5 DEF Lookup
  <2> QED BY <2>1, <2>2
<1> QED BY <1>9, <1>16, <1>18 DEF realpath

\* After createSymLink returned true the new name leads to the object, and
\* removeSymLink takes only a link away.  (FsObject::createSymLink and
\* FsObject::removeSymLink.)
LEMMA LinksRight ==
  ASSUME TypeOK
  PROVE  LinksAreRight
<1>1. Now \in Contexts /\ m_type \in Types /\ Now.tree = tree /\ Now.path = m_path /\ Now.real = m_realPath
  BY NowIs DEF Now
<1>2. IsTree(tree) /\ (getStat(Now) # None => m_path # <<>> /\ m_path \in Paths /\ m_path \in Seq(Names)
                                              /\ realpath(tree, m_path) \in Paths /\ getStat(Now) = stat(tree, m_path))
  BY <1>1, ContextIs, getStatIs
<1>3. LinkLeadsToObject
  <2> SUFFICES ASSUME NEW dst \in Destinations
               PROVE  LET c == createSymLink(Now, m_type, dst) IN
                      /\ \A q \in Touched(tree, c.tree) : tree[q] = None
                      /\ c.ok /\ getStat(Now) # None
                         /\ (m_path \in Bare =>
                               Parent(Entry(c.tree, dst.path)) = realpath(tree, Parent(m_path))) =>
                            \/ realpath(c.tree, dst.path) = realpath(tree, m_path)
                            \/ TooLong(c.tree, dst.path)
    BY DEF LinkLeadsToObject
  <2> DEFINE c == createSymLink(Now, m_type, dst)
  <2>1. /\ c \in Contexts /\ Grows(tree, c.tree)
        /\ c.ok /\ m_path # <<>> => \E t : /\ IsTree(t) /\ Grows(tree, t)
                                           /\ symlink(t, m_path, dst.path).ok
                                           /\ c.tree = symlink(t, m_path, dst.path).tree
    BY <1>1, createSymLinkIs
  <2> HIDE DEF c
  <2>2. \A q \in Touched(tree, c.tree) : tree[q] = None
    BY <2>1 DEF Touched, Grows
  <2>3. ASSUME c.ok, getStat(Now) # None,
               m_path \in Bare => Parent(Entry(c.tree, dst.path)) = realpath(tree, Parent(m_path))
        PROVE  realpath(c.tree, dst.path) = realpath(tree, m_path) \/ TooLong(c.tree, dst.path)
    <3>1. PICK t : /\ IsTree(t) /\ Grows(tree, t)
                   /\ symlink(t, m_path, dst.path).ok
                   /\ c.tree = symlink(t, m_path, dst.path).tree
      BY <1>2, <2>1, <2>3
    <3>2. dst.path \in Paths
      BY CallsAssumption
    <3>4. IsTree(c.tree)
      BY <2>1, ContextIs
    <3>5. realpath(tree, m_path) # NoPath
      BY <1>2, <2>3, PathIs, NodeAssumption
    <3>6. realpath(c.tree, m_path) = realpath(tree, m_path)
      BY <1>2, <2>1, <2>3, <3>4, <3>5, GrowsResolves
    <3>7. m_path \in Bare => Parent(Entry(c.tree, dst.path)) = realpath(c.tree, Parent(m_path))
      <4>1. NodeAt(tree, realpath(tree, Parent(m_path))) = Dir /\ Parent(m_path) \in Seq(Names)
        BY <1>2, <2>3, <3>5, ParentIsDir, FrontAndLast
      <4>2. realpath(tree, Parent(m_path)) # NoPath
        BY <4>1, NodeAssumption DEF NodeAt
      <4>3. realpath(c.tree, Parent(m_path)) = realpath(tree, Parent(m_path))
        BY <1>2, <2>1, <3>4, <4>1, <4>2, GrowsResolves
      <4> QED BY <2>3, <4>3
    <3>8. TooLong(c.tree, dst.path) \/ realpath(c.tree, dst.path) = realpath(c.tree, m_path)
      BY <1>2, <2>3, <3>1, <3>2, <3>5, <3>6, <3>7, LinkLeads
    <3> QED BY <3>6, <3>8
  <2> QED BY <2>2, <2>3 DEF c
<1>4. RemovesOnlyLinks
  <2> DEFINE c == removeSymLink(Now, m_type)
             w == unlink(tree, m_path)
  <2>1. /\ c \in Contexts
        /\ \/ c.tree = tree /\ c.path = m_path /\ (c.ok => ~isSymbolicLink(Now))
           \/ /\ c.ok /\ isSymbolicLink(Now) /\ w.ok /\ c.tree = w.tree
              /\ c.path = Place(Now, m_realPath)
    BY <1>1, removeSymLinkIs
  <2>2. m_path \in Seq(Names)
    BY <1>1, ContextIs
  <2> HIDE DEF c, w
  <2>3. CASE c.tree = tree /\ c.path = m_path /\ (c.ok => ~isSymbolicLink(Now))
    <3>1. isSymbolicLink(c) <=> isSymbolicLink(Now)
      BY <1>1, <2>3 DEF isSymbolicLink
    <3>2. \A q \in Touched(tree, c.tree) : FALSE
      BY <2>3 DEF Touched
    <3> QED BY <1>2, <2>3, <3>1, <3>2 DEF RemovesOnlyLinks, c
  <2>4. CASE /\ c.ok /\ isSymbolicLink(Now) /\ w.ok /\ c.tree = w.tree
             /\ c.path = Place(Now, m_realPath)
    <3> DEFINE e == Entry(tree, m_path)
    <3>1. /\ e \in Paths /\ c.tree[e] = None
          /\ \A q \in Paths : q # e => c.tree[q] = tree[q]
      BY <1>2, <2>2, <2>4, unlinkIs DEF w
    <3>2. IsLink(tree[e])
      <4>1. m_path # <<>> /\ IsLink(lstat(tree, m_path))
        BY <1>1, <2>4 DEF isSymbolicLink
      <4>2. NodeAt(tree, e) = tree[e]
        BY <3>1, NodeAtIs
      <4> QED BY <4>1, <4>2 DEF lstat
    <3> HIDE DEF e
    <3>3. \A q \in Touched(tree, c.tree) : IsLink(tree[q]) /\ c.tree[q] = None
      BY <3>1, <3>2 DEF Touched
    <3>4. ASSUME getStat(Now) # None
          PROVE  stat(c.tree, c.path) = getStat(Now) /\ ~isSymbolicLink(c)
      <4> DEFINE r == Place(Now, m_realPath)
                 v == c.tree
      <4>1. stat(tree, m_path) # None /\ m_path # <<>>
        BY <1>2, <3>4
      <4>2. r = realpath(tree, m_path) /\ AtPlace(tree, r) /\ tree[r] = stat(tree, m_path)
        BY <1>1, <4>1, PlaceIs
      <4>3. r \in Paths /\ ~IsLink(tree[r]) /\ tree[r] # None
        <5>1. stat(tree, m_path) \in {None, Dir} \cup Files
          BY <1>2, <2>2, StatIs
        <5> QED BY <4>1, <4>2, <5>1, LinkIs DEF AtPlace
      <4>4. IsTree(v) /\ c.path = r
        BY <2>1, <2>4, ContextIs
      <4> HIDE DEF r, v
      <4>5. v[r] = tree[r]
        BY <3>1, <3>2, <4>3 DEF v
      <4>6. stat(v, r) = v[r]
        BY <4>3, <4>4, <4>5, RealpathOfReal
      <4>7. Entry(v, r) = r
        BY <4>3, <4>4, <4>5, ParentInTree, EntryOfPlace
      <4>8. lstat(v, r) = v[r]
        BY <4>3, <4>7, NodeAtIs, PathIs DEF lstat
      <4>9. ~isSymbolicLink(c)
        BY <4>3, <4>4, <4>5, <4>8 DEF isSymbolicLink, v
      <4> QED BY <1>2, <3>4, <4>2, <4>4, <4>5, <4>6, <4>9 DEF v
    <3> QED BY <3>3, <3>4 DEF RemovesOnlyLinks, c
  <2> QED BY <2>1, <2>3, <2>4
<1> QED BY <1>3, <1>4 DEF LinksAreRight

\* A link that was made leads to the object it was made from (FsObject::createSymLink).
THEOREM LinksCorrect == Spec => []LinksAreRight
BY TypeCorrect, LinksRight, PTL

\* A path that is lost on the way: no link is left to follow, and nothing there.
Lost(u, q) == LinksOn(u, q) = {} /\ Found(u, q) = NoPath
\* Where things have gone, a hop leads where it led, or the path is lost.
LEMMA FewerHops ==
  ASSUME NEW t, NEW u, IsTree(t), IsTree(u), Grows(u, t), NEW q \in Seq(Names)
  PROVE  Hop(u, q) = Hop(t, q) \/ Lost(u, q)
<1>1. \A s \in Paths : u[s] = t[s] \/ u[s] = None
  BY DEF Grows
<1>2. LinksOn(u, q) \subseteq LinksOn(t, q)
  BY <1>1, LinkIs DEF LinksOn
<1>3. CASE LinksOn(t, q) = {}
  BY <1>2, <1>3 DEF Hop
<1>4. CASE LinksOn(t, q) # {}
  <2>1. PICK k : FirstLink(t, q, k)
    BY <1>4, FirstLinkIs
  <2> DEFINE l == SubSeq(q, 1, k)
  <2>2. /\ k \in 1 .. Len(q) /\ l \in Paths /\ IsLink(t[l])
        /\ \A j \in 1 .. k : j # k => SubSeq(q, 1, j) \in Paths /\ t[SubSeq(q, 1, j)] = Dir
        /\ Hop(t, q) = LinkTo(t, q, k) \o SubSeq(q, k + 1, Len(q))
    BY <2>1 DEF FirstLink
  <2>3. Len(q) \in Nat /\ k \in Nat
    BY <2>2
  <2>4. \A j \in 1 .. k : SubSeq(l, 1, j) = SubSeq(q, 1, j) /\ Len(l) = k
    BY <2>2, PrefixIs
  <2>5. CASE u[l] = t[l]
    <3>1. k \in LinksOn(u, q)
      BY <2>2, <2>5 DEF LinksOn
    <3>2. PICK m : FirstLink(u, q, m)
      BY <3>1, FirstLinkIs
    <3>3. /\ m \in 1 .. Len(q) /\ IsLink(u[SubSeq(q, 1, m)]) /\ SubSeq(q, 1, m) \in Paths
          /\ \A j \in 1 .. m : j # m => u[SubSeq(q, 1, j)] = Dir
          /\ Hop(u, q) = LinkTo(u, q, m) \o SubSeq(q, m + 1, Len(q))
      BY <3>2 DEF FirstLink
    <3>4. m = k
      <4>1. CASE m < k
        <5>1. m \in 1 .. k /\ m # k
          BY <2>3, <3>3, <4>1
        <5>2. t[SubSeq(q, 1, m)] = Dir
          BY <2>2, <5>1
        <5>3. u[SubSeq(q, 1, m)] \in {Dir, None}
          BY <1>1, <3>3, <5>2
        <5> QED BY <3>3, <5>3, LinkIs
      <4>2. CASE k < m
        <5>1. k \in 1 .. m /\ k # m
          BY <2>2, <2>3, <3>3, <4>2
        <5>2. u[l] = Dir
          BY <3>3, <5>1
        <5> QED BY <2>2, <2>5, <5>2, LinkIs
      <4> QED BY <2>3, <3>3, <4>1, <4>2
    <3>5. LinkTo(u, q, k) = LinkTo(t, q, k)
      BY <2>5 DEF LinkTo
    <3> QED BY <2>2, <3>3, <3>4, <3>5
  <2>6. CASE u[l] = None
    <3>1. ASSUME NEW s \in Paths, NEW m \in 1 .. Len(q), s = SubSeq(q, 1, m), m >= k
          PROVE  u[s] = None
      <4>1. CASE m = k
        BY <2>6, <3>1, <4>1
      <4>2. CASE m # k
        <5>1. k \in 1 .. m /\ Len(s) = m /\ SubSeq(s, 1, k) = l
          BY <2>2, <2>3, <3>1, <4>2, PrefixIs
        <5>2. k \in 1 .. Len(s) /\ k # Len(s)
          BY <4>2, <5>1
        <5>3. u[s] # None => u[SubSeq(s, 1, k)] = Dir
          BY <5>2, RootedPrefix
        <5> QED BY <2>6, <5>1, <5>3, NodeAssumption
      <4> QED BY <4>1, <4>2
    <3>2. LinksOn(u, q) = {}
      <4> SUFFICES ASSUME NEW m \in LinksOn(u, q) PROVE FALSE
        OBVIOUS
      <4>1. m \in 1 .. Len(q) /\ SubSeq(q, 1, m) \in Paths /\ IsLink(u[SubSeq(q, 1, m)])
        BY DEF LinksOn
      <4>2. CASE m >= k
        BY <3>1, <4>1, <4>2, LinkIs
      <4>3. CASE m < k
        <5>1. m \in 1 .. k /\ m # k
          BY <2>3, <4>1, <4>3
        <5>2. u[SubSeq(q, 1, m)] \in {Dir, None}
          BY <1>1, <2>2, <4>1, <5>1
        <5> QED BY <4>1, <5>2, LinkIs
      <4> QED BY <2>3, <4>1, <4>2, <4>3
    <3>3. Found(u, q) = NoPath
      <4>1. q # <<>> /\ Len(q) \in 1 .. Len(q) /\ SubSeq(q, 1, Len(q)) = q /\ Len(q) >= k
        <5>1. Len(q) \in 1 .. Len(q) /\ Len(q) >= k
          BY <2>2, <2>3
        <5>2. Len(<<>>) = 0
          OBVIOUS
        <5> QED BY <5>1, <5>2, PrefixIs
      <4>2. q \in Paths => u[q] = None
        BY <3>1, <4>1
      <4> QED BY <4>1, <4>2 DEF Found
    <3> QED BY <3>2, <3>3 DEF Lost
  <2> QED BY <1>1, <2>2, <2>5, <2>6
<1> QED BY <1>3, <1>4

\* Where things have gone, a path resolves to what it did, or to nothing.
LEMMA FewerResolves ==
  ASSUME NEW t, NEW u, IsTree(t), IsTree(u), Grows(u, t), NEW p \in Seq(Names)
  PROVE  realpath(u, p) \in {NoPath, realpath(t, p)}
<1> DEFINE h == Hops(t, p)
           g == Hops(u, p)
           S == {n \in Nat : n <= MaxHops => g[n] = h[n] \/ Lost(u, g[n])}
<1>1. /\ h[0] = p /\ g[0] = p
      /\ \A n \in Nat : n + 1 <= MaxHops => h[n + 1] = Hop(t, h[n]) /\ g[n + 1] = Hop(u, g[n])
      /\ \A n \in 0 .. MaxHops : h[n] \in Seq(Names) /\ g[n] \in Seq(Names)
  BY HopFacts
<1> HIDE DEF h, g
<1>2. 0 \in S
  BY <1>1
<1>3. ASSUME NEW n \in Nat, n \in S PROVE n + 1 \in S
  <2> SUFFICES ASSUME n + 1 <= MaxHops PROVE g[n + 1] = h[n + 1] \/ Lost(u, g[n + 1])
    OBVIOUS
  <2>1. n \in 0 .. MaxHops
    BY MaxHopsAssumption
  <2>2. h[n + 1] = Hop(t, h[n]) /\ g[n + 1] = Hop(u, g[n]) /\ h[n] \in Seq(Names) /\ g[n] \in Seq(Names)
    BY <1>1, <2>1
  <2>3. CASE Lost(u, g[n])
    <3>1. g[n + 1] = g[n]
      BY <2>2, <2>3 DEF Lost, Hop
    <3> QED BY <2>3, <3>1
  <2>4. CASE ~Lost(u, g[n])
    <3>1. g[n] = h[n]
      BY <1>3, <2>1, <2>4
    <3>2. Hop(u, g[n]) = Hop(t, g[n])
      BY <2>2, <2>4, FewerHops
    <3> QED BY <2>2, <3>1, <3>2
  <2> QED BY <2>3, <2>4
<1>4. MaxHops \in S
  <2> HIDE DEF S
  <2>1. Nat \subseteq S
    BY <1>2, <1>3, SetInduction
  <2> QED BY <2>1, MaxHopsAssumption
<1>5. g[MaxHops] = h[MaxHops] \/ Lost(u, g[MaxHops])
  BY <1>4, MaxHopsAssumption
<1>6. realpath(t, p) = Found(t, h[MaxHops]) /\ realpath(u, p) = Found(u, g[MaxHops])
  BY DEF realpath, Followed, h, g
<1>7. CASE Lost(u, g[MaxHops])
  BY <1>6, <1>7 DEF Lost
<1>8. CASE g[MaxHops] = h[MaxHops]
  <2> DEFINE e == h[MaxHops]
  <2>1. \A s \in Paths : u[s] # None => t[s] = u[s]
    BY DEF Grows
  <2> HIDE DEF e
  <2>2. Found(u, e) \in {NoPath, Found(t, e)}
    BY <2>1 DEF Found
  <2> QED BY <1>6, <1>8, <2>2 DEF e
<1> QED BY <1>5, <1>7, <1>8

\* Where things have gone, a name is looked up where it was, or nowhere.
LEMMA FewerEntry ==
  ASSUME NEW t, NEW u, IsTree(t), IsTree(u), Grows(u, t), NEW p \in Seq(Names), p # <<>>,
         Entry(u, p) # NoPath
  PROVE  Entry(u, p) = Entry(t, p)
<1> DEFINE d == realpath(u, Parent(p))
<1>1. Parent(p) \in Seq(Names)
  BY FrontAndLast
<1>2. NodeAt(u, d) = Dir /\ Entry(u, p) = Append(d, Name(p)) /\ Append(d, Name(p)) \in Paths
  BY DEF Entry, In
<1>3. d # NoPath
  BY <1>2, NodeAssumption DEF NodeAt
<1>4. d = realpath(t, Parent(p))
  BY <1>1, <1>3, FewerResolves
<1>5. d # <<>> => d \in Paths
  BY <1>1, <1>3, RealpathIs
<1> HIDE DEF d
<1>6. NodeAt(t, d) = Dir
  <2>1. CASE d = <<>>
    BY <1>3, <2>1 DEF NodeAt
  <2>2. CASE d # <<>>
    <3>1. u[d] = Dir /\ d \in Paths
      BY <1>2, <1>3, <1>5, <2>2 DEF NodeAt
    <3>2. t[d] = Dir
      BY <3>1, NodeAssumption DEF Grows
    <3> QED BY <1>3, <2>2, <3>2 DEF NodeAt
  <2> QED BY <2>1, <2>2
<1> QED BY <1>2, <1>4, <1>6 DEF Entry, In

\* What the words of an rm -rf take is under their entries.
Takes(t, u, words) ==
    /\ IsTree(u) /\ Grows(u, t)
    /\ \A q \in Paths : u[q] # t[q] =>
          \E i \in DOMAIN words : Entry(t, words[i]) \in Paths /\ Under(q, Entry(t, words[i]))
\* An rm -rf of several words takes what one of them names, and nothing else.
LEMMA RemovesWords ==
  ASSUME NEW t, IsTree(t), NEW words \in Seq(Paths), NEW dst
  PROVE  Takes(t, RunEach("rm", t, words, dst).tree, words)
<1>1. PICK h : RunsOver(h, "rm", t, words, dst)
  BY RunEachRuns
<1> DEFINE m == Len(words)
           S == {n \in Nat : n <= m => Takes(t, h[n].tree, words)}
<1>2. /\ h \in [0 .. m -> Outcomes] /\ h[0] = Done(t)
      /\ \A k \in 1 .. m : h[k] = NextWord(h[k - 1], "rm", words[k], dst)
      /\ RunEach("rm", t, words, dst) = h[m]
  BY <1>1 DEF RunsOver
<1>3. m \in Nat /\ DOMAIN words = 1 .. m /\ \A k \in 1 .. m : words[k] \in Paths
  OBVIOUS
<1> HIDE DEF m
<1>4. 0 \in S
  <2>1. h[0].tree = t
    BY <1>2 DEF Done
  <2>2. Takes(t, t, words)
    BY GrowsOn DEF Takes
  <2> QED BY <2>1, <2>2
<1>5. ASSUME NEW n \in Nat, n \in S PROVE n + 1 \in S
  <2> SUFFICES ASSUME n + 1 <= m PROVE Takes(t, h[n + 1].tree, words)
    OBVIOUS
  <2> DEFINE v == h[n].tree
             p == words[n + 1]
             u == h[n + 1].tree
  <2>1. n + 1 \in 1 .. m /\ n \in 0 .. m /\ (n + 1) - 1 = n /\ p \in Paths
    BY <1>3
  <2>2. h[n] \in Outcomes /\ h[n + 1] = NextWord(h[n], "rm", p, dst)
    BY <1>2, <2>1
  <2>3. Takes(t, v, words)
    BY <1>3, <1>5
  <2>4. u = rm_rf(v, p).tree
    <3>1. Run("rm", v, p, dst) = rm_rf(v, p)
      BY DEF Run
    <3> HIDE DEF v, p
    <3>2. NextWord(h[n], "rm", p, dst).tree = Run("rm", h[n].tree, p, dst).tree
      BY <2>1, <2>2, NextWordIs
    <3> QED BY <2>2, <3>1, <3>2 DEF v
  <2> HIDE DEF v, p, u
  <2>5. IsTree(v) /\ Grows(v, t) /\ p \in Seq(Names) /\ p # <<>>
    BY <2>1, <2>3, PathIs DEF Takes
  <2>6. /\ IsTree(u) /\ Grows(u, v)
        /\ \A q \in Paths : u[q] # v[q] => Entry(v, p) \in Paths /\ Under(q, Entry(v, p))
    BY <2>4, <2>5, rm_rfIs
  <2>7. Grows(u, t)
    BY <2>5, <2>6 DEF Grows
  <2>8. ASSUME NEW q \in Paths, u[q] # t[q]
        PROVE  \E i \in DOMAIN words : Entry(t, words[i]) \in Paths /\ Under(q, Entry(t, words[i]))
    <3>1. CASE v[q] # t[q]
      BY <2>3, <3>1 DEF Takes
    <3>2. CASE u[q] # v[q]
      <4>1. Entry(v, p) \in Paths /\ Under(q, Entry(v, p))
        BY <2>6, <3>2
      <4>2. Entry(v, p) # NoPath
        BY <4>1, PathIs, NodeAssumption
      <4>3. Entry(v, p) = Entry(t, p)
        BY <2>5, <4>2, FewerEntry
      <4> QED BY <1>3, <2>1, <4>1, <4>3 DEF p
    <3> QED BY <2>8, <3>1, <3>2
  <2> QED BY <2>6, <2>7, <2>8 DEF Takes, u
<1>6. m \in S
  <2> HIDE DEF S
  <2>1. Nat \subseteq S
    BY <1>4, <1>5, SetInduction
  <2> QED BY <1>3, <2>1
<1> QED BY <1>2, <1>3, <1>6

\* What has been taken away is not found again.
LEMMA GoneIsGone ==
  ASSUME NEW t, NEW u, IsTree(t), IsTree(u), Grows(u, t), NEW p \in Seq(Names), p # <<>>,
         realpath(t, p) = NoPath \/ u[realpath(t, p)] = None
  PROVE  stat(u, p) = None
<1>1. realpath(u, p) \in {NoPath, realpath(t, p)}
  BY FewerResolves
<1>2. realpath(u, p) = NoPath
  <2> SUFFICES ASSUME realpath(u, p) # NoPath PROVE FALSE
    OBVIOUS
  <2>1. realpath(u, p) = realpath(t, p) /\ u[realpath(u, p)] = None
    BY <1>1
  <2>2. realpath(u, p) \in Paths /\ realpath(u, p) # <<>>
    BY RealpathIs, PathIs
  <2>3. u[realpath(u, p)] # None
    BY <2>2, RealpathIs
  <2> QED BY <2>1, <2>3
<1> QED BY <1>2, StatIs

\* An object strays when nothing is at its path, and no directory to put its name
\* to: then its place is the one it remembers.
LEMMA StraysIs ==
  ASSUME TypeOK
  PROVE  LET beside == m_path \notin Bare /\ stat(tree, Parent(m_path)) = Dir
         IN  /\ Strays <=> m_exists /\ stat(tree, m_path) = None /\ ~beside
             /\ Strays => Place(Now, m_realPath) = m_realPath
<1>1. Now \in Contexts /\ Now.tree = tree /\ Now.path = m_path
  BY NowIs DEF Now
<1>2. IsTree(tree) /\ m_path \in Seq(Names) /\ (m_exists => m_path # <<>>)
  BY <1>1, ContextIs DEF TypeOK
<1>3. realpath(tree, m_path) = NoPath <=> stat(tree, m_path) = None
  BY <1>2, StatIs
<1>4. m_exists => Parent(m_path) \in Seq(Names)
  BY <1>2, FrontAndLast
<1>5. stat(tree, Parent(m_path)) = Dir /\ m_exists => realpath(tree, Parent(m_path)) # NoPath
  BY <1>2, <1>4, StatIs, NodeAssumption
<1>6. m_exists => (directoryPath(Now) = NoPath <=> m_path \in Bare \/ stat(tree, Parent(m_path)) # Dir)
  BY <1>1, <1>5 DEF directoryPath
<1>7. Strays <=> m_exists /\ stat(tree, m_path) = None /\ ~(m_path \notin Bare /\ stat(tree, Parent(m_path)) = Dir)
  BY <1>3, <1>6 DEF Strays
<1>8. Strays => Place(Now, m_realPath) = m_realPath
  BY <1>1, <1>2, <1>3, <1>7 DEF Place
<1> QED BY <1>7, <1>8

\* What a remove that went through deletes is Doomed, and the path is free then.
Takeable(u, ok) ==
    /\ \A q \in Paths : u[q] # tree[q] => (\E n \in Doomed : Under(q, n)) /\ (Strays => tree[q] # Dir)
    /\ ok /\ (\A n \in Named(tree, m_path) : Plain(n)) => stat(u, m_path) = None
\* A directory's path is pasted into rm -rf, and what its words name goes.
LEMMA RemovesDirectory ==
  ASSUME TypeOK, getType(Now) = DIRECTORY
  PROVE  Takeable(Gone(Now, Place(Now, m_realPath)).tree, TRUE)
<1> DEFINE r == Place(Now, m_realPath)
           w == Gone(Now, r)
<1>1. Now \in Contexts /\ Now.tree = tree /\ Now.path = m_path
  BY NowIs DEF Now
<1>2. IsTree(tree) /\ m_path \in Seq(Names)
  BY <1>1, ContextIs DEF TypeOK
<1>3. getStat(Now) = Dir
  BY DEF getType, TypeOf, UKNOWN, DIRECTORY, REGULAR_FILE
<1>4. m_path # <<>> /\ stat(tree, m_path) = Dir /\ stat(tree, m_path) # None
  BY <1>1, <1>3, getStatIs, NodeAssumption
<1>5. r = realpath(tree, m_path) /\ r \in Paths /\ Entry(tree, r) = r /\ tree[r] = Dir
  BY <1>1, <1>4, PlaceIs DEF AtPlace
<1>6. w = RunEach("rm", tree, Text(r), <<>>)
  BY <1>1 DEF Gone
<1> HIDE DEF r, w
<1>7. r # NoPath /\ r # <<>> /\ r \in Seq(Names) /\ Text(r) = Words[r]
  BY <1>5, PathIs, NodeAssumption DEF Text
<1>8. Named(tree, m_path) = {r}
  BY <1>4, <1>5, <1>7 DEF Named
<1>9. ~Strays
  BY <1>5, <1>7 DEF Strays
<1>10. Doomed = Operands(r)
  BY <1>8, <1>9 DEF Doomed
<1>11. Words[r] \in Seq(Paths)
  BY <1>5, TextAssumption
<1>12. CASE Plain(r)
  <2>1. Words[r] = <<r>> /\ Len(Words[r]) = 1 /\ Words[r][1] = r
    <3>1. Words[r] = <<r>>
      BY <1>7, <1>12 DEF Plain
    <3>2. Len(<<r>>) = 1 /\ <<r>>[1] = r
      OBVIOUS
    <3> QED BY <3>1, <3>2
  <2>2. w = Run("rm", tree, r, <<>>)
    BY <1>2, <1>6, <1>7, <1>11, <2>1, RunEachIs
  <2>3. w = rm_rf(tree, r)
    BY <2>2 DEF Run
  <2>4. /\ IsTree(w.tree) /\ Grows(w.tree, tree)
        /\ \A q \in Paths : w.tree[q] # tree[q] => Under(q, r)
        /\ w.tree[r] = None
    <3>1. /\ IsTree(w.tree) /\ Grows(w.tree, tree)
          /\ \A q \in Paths : w.tree[q] # tree[q] =>
                                r # <<>> /\ Entry(tree, r) \in Paths /\ Under(q, Entry(tree, r))
          /\ r # <<>> /\ Entry(tree, r) \in Paths => w.tree[Entry(tree, r)] = None
      BY <1>2, <1>7, <2>3, rm_rfIs
    <3> QED BY <1>5, <1>7, <3>1
  <2>5. Doomed = {r}
    BY <1>10, <1>12 DEF Operands
  <2>6. stat(w.tree, m_path) = None
    BY <1>2, <1>4, <1>5, <2>4, GoneIsGone
  <2> QED BY <1>9, <2>4, <2>5, <2>6 DEF Takeable, w, r
<1>13. CASE ~Plain(r)
  <2>1. Takes(tree, w.tree, Words[r])
    BY <1>2, <1>6, <1>7, <1>11, RemovesWords
  <2>2. Doomed = {Entry(tree, Words[r][i]) : i \in DOMAIN Words[r]} \ {NoPath}
    BY <1>5, <1>10, <1>13 DEF Operands
  <2>3. ASSUME NEW q \in Paths, w.tree[q] # tree[q]
        PROVE  \E n \in Doomed : Under(q, n)
    <3>1. PICK i \in DOMAIN Words[r] : Entry(tree, Words[r][i]) \in Paths /\ Under(q, Entry(tree, Words[r][i]))
      BY <2>1, <2>3 DEF Takes
    <3>2. Entry(tree, Words[r][i]) # NoPath
      BY <3>1, PathIs, NodeAssumption
    <3>3. Entry(tree, Words[r][i]) \in Doomed
      BY <2>2, <3>2
    <3> QED BY <3>1, <3>3
  <2> QED BY <1>8, <1>9, <1>13, <2>3 DEF Takeable, w, r
<1> QED BY <1>12, <1>13

\* Anything else is unlinked, where the path resolves to or the name is looked up.
LEMMA RemovesEntry ==
  ASSUME TypeOK, getType(Now) # DIRECTORY, Exists(Now, m_type)
  PROVE  LET w == Gone(Now, Place(Now, m_realPath)) IN Takeable(w.tree, w.ok)
<1> DEFINE r == Place(Now, m_realPath)
           w == Gone(Now, r)
<1>1. Now \in Contexts /\ Now.tree = tree /\ Now.path = m_path /\ Now.exists = m_exists
      /\ Now.real = m_realPath /\ m_type \in Types
  BY NowIs DEF Now
<1>2. IsTree(tree) /\ m_path \in Seq(Names) /\ (m_exists => m_path # <<>>)
  BY <1>1, ContextIs DEF TypeOK
<1>3. getStat(Now) # None => m_path # <<>> /\ getStat(Now) = stat(tree, m_path)
  BY <1>1, getStatIs
<1>4. m_path # <<>>
  BY <1>1, <1>2, <1>3 DEF Exists, Matches
<1>5. w = unlink(tree, r) /\ r \in Seq(Names)
  BY <1>1, removeIs DEF Gone
<1>6. getStat(Now) = stat(tree, m_path) /\ stat(tree, m_path) # Dir
  BY <1>1, <1>4, getStatIs DEF getStat, getType, TypeOf
<1>7. /\ IsTree(w.tree) /\ Grows(w.tree, tree) /\ (~w.ok => w.tree = tree) /\ w.ok \in BOOLEAN
      /\ w.ok => /\ r # <<>> /\ Entry(tree, r) \in Paths /\ tree[Entry(tree, r)] \notin {None, Dir}
                 /\ w.tree[Entry(tree, r)] = None
                 /\ \A q \in Paths : q # Entry(tree, r) => w.tree[q] = tree[q]
  BY <1>2, <1>5, unlinkIs
<1> HIDE DEF r, w
<1> DEFINE e == Entry(tree, r)
<1>9. ASSUME w.ok PROVE e \in Paths /\ e # NoPath /\ Under(e, e) /\ tree[e] \notin {None, Dir} /\ Operands(e) = {e}
  <2>1. e \in Paths /\ tree[e] \notin {None, Dir}
    BY <1>7, <1>9
  <2> HIDE DEF e
  <2>2. e \in Seq(Names) /\ e # <<>> /\ e # NoPath
    BY <2>1, PathIs, NodeAssumption
  <2>3. Under(e, e)
    BY <2>2, UnderIs
  <2> QED BY <2>1, <2>2, <2>3 DEF Operands
<1>10. CASE stat(tree, m_path) # None
  <2>1. r = realpath(tree, m_path) /\ r \in Paths /\ e = r
    BY <1>1, <1>4, <1>10, PlaceIs DEF AtPlace, r
  <2>2. r # NoPath /\ r # <<>>
    BY <2>1, PathIs, NodeAssumption
  <2>3. Named(tree, m_path) = {r} /\ ~Strays
    BY <1>4, <2>1, <2>2 DEF Named, Strays
  <2>4. Doomed = Operands(r)
    BY <2>3 DEF Doomed
  <2> HIDE DEF e
  <2>5. w.ok => stat(w.tree, m_path) = None
    BY <1>2, <1>4, <1>7, <2>1, GoneIsGone DEF e
  <2>6. \A q \in Paths : w.tree[q] # tree[q] => \E n \in Doomed : Under(q, n)
    BY <1>7, <1>9, <2>1, <2>4 DEF e
  <2> QED BY <2>3, <2>5, <2>6 DEF Takeable, w, r
<1>11. CASE stat(tree, m_path) = None
  <2>1. realpath(tree, m_path) = NoPath /\ m_exists
    BY <1>1, <1>2, <1>6, <1>11, StatIs DEF Exists, Matches
  <2>2. stat(w.tree, m_path) = None
    BY <1>2, <1>4, <1>7, <2>1, GoneIsGone
  <2>3. CASE Strays
    <3>1. r = m_realPath
      BY <2>3, StraysIs DEF r
    <3>2. Doomed = {e} \ {NoPath}
      BY <2>3, <3>1 DEF Doomed
    <3> HIDE DEF e
    <3>3. \A q \in Paths : w.tree[q] # tree[q] => q = e /\ w.ok
      BY <1>7 DEF e
    <3>4. \A q \in Paths : w.tree[q] # tree[q] => (\E n \in Doomed : Under(q, n)) /\ tree[q] # Dir
      BY <1>9, <3>2, <3>3
    <3> QED BY <2>2, <3>4 DEF Takeable, w, r
  <2>4. CASE ~Strays
    <3>1. m_path \notin Bare /\ stat(tree, Parent(m_path)) = Dir
      BY <1>11, <2>1, <2>4, StraysIs
    <3>2. IF Entry(tree, m_path) = NoPath THEN r = <<>>
          ELSE r = Entry(tree, m_path) /\ AtPlace(tree, r)
      BY <1>1, <1>4, <1>11, <3>1, PlaceIs, Zenon DEF r
    <3> HIDE DEF e
    <3>3. ASSUME NEW q \in Paths, w.tree[q] # tree[q] PROVE \E n \in Doomed : Under(q, n)
      <4>1. w.ok /\ q = e /\ r # <<>>
        BY <1>7, <3>3 DEF e
      <4>2. r = Entry(tree, m_path) /\ e = r
        BY <3>2, <4>1 DEF AtPlace, e
      <4>3. Named(tree, m_path) = {r}
        BY <1>4, <1>9, <2>1, <4>1, <4>2 DEF Named
      <4>4. Doomed = Operands(r)
        BY <2>4, <4>3 DEF Doomed
      <4> QED BY <1>9, <4>1, <4>2, <4>4
    <3> QED BY <2>2, <2>4, <3>3 DEF Takeable, w, r
  <2> QED BY <2>3, <2>4
<1> QED BY <1>10, <1>11

\* remove deletes what the object's path names, or what a shell makes of it, and
\* of an object that strays at most the file or link it remembers.
\* (FsObject::remove, with whatever is remembered.)
LEMMA RemoveRight ==
  ASSUME TypeOK
  PROVE  RemoveHitsOnlyNamed
<1> SUFFICES ASSUME NEW up \in BOOLEAN
             PROVE  LET c == remove(Now, m_type, up)
                        hit == Touched(tree, c.tree)
                    IN  /\ \A q \in hit : \E n \in Doomed : Under(q, n)
                        /\ Strays => \A q \in hit : tree[q] # Dir
                        /\ c.ok /\ (\A n \in Named(tree, m_path) : Plain(n)) => stat(c.tree, m_path) = None
  BY DEF RemoveHitsOnlyNamed
<1> DEFINE c == remove(Now, m_type, up)
           w == Gone(Now, Place(Now, m_realPath))
<1>1. Now \in Contexts /\ m_type \in Types /\ Now.tree = tree /\ Now.real = m_realPath
  BY NowIs DEF Now
<1>2. /\ c.tree = tree \/ (Exists(Now, m_type) /\ c.tree = w.tree)
      /\ c.ok => Exists(Now, m_type) /\ c.tree = w.tree /\ (getType(Now) # DIRECTORY => w.ok)
  BY <1>1, removeIs
<1>3. Exists(Now, m_type) => Takeable(w.tree, w.ok \/ getType(Now) = DIRECTORY)
  <2>1. CASE getType(Now) = DIRECTORY
    <3>1. Takeable(w.tree, TRUE)
      BY <2>1, RemovesDirectory
    <3> HIDE DEF w
    <3> QED BY <2>1, <3>1 DEF Takeable
  <2>2. CASE getType(Now) # DIRECTORY
    <3>1. Exists(Now, m_type) => Takeable(w.tree, w.ok)
      BY <2>2, RemovesEntry
    <3> HIDE DEF w
    <3> QED BY <2>2, <3>1 DEF Takeable
  <2> QED BY <2>1, <2>2
<1> HIDE DEF c, w
<1>4. ASSUME NEW q \in Touched(tree, c.tree)
      PROVE  (\E n \in Doomed : Under(q, n)) /\ (Strays => tree[q] # Dir)
  BY <1>2, <1>3 DEF Touched, Takeable
<1>5. c.ok /\ (\A n \in Named(tree, m_path) : Plain(n)) => stat(c.tree, m_path) = None
  BY <1>2, <1>3 DEF Takeable
<1> QED BY <1>4, <1>5 DEF c

\* What remove deletes is what the path names, but for the two cases
\* RemoveHitsOnlyNamed tells, whatever an object remembers and other programs do.
THEOREM RemoveCorrect == Spec => []RemoveHitsOnlyNamed
BY TypeCorrect, RemoveRight, PTL

\* A move that returned true has put all of an object that was there at its
\* landing, and lost no other node but the one it replaced there; a move that
\* returned false has lost nothing.  (FsObject::move, after the directories it
\* makes, where the shell leaves both texts whole.)
LEMMA MoveRight ==
  ASSUME TypeOK, getStat(Now) # None
  PROVE  MoveKeepsData
<1> SUFFICES ASSUME NEW dst \in Destinations, NEW up \in BOOLEAN, Straight(dst)
             PROVE  LET c == move(Now, m_type, dst, up)
                        lost == {q \in Touched(tree, c.tree) : tree[q] # None}
                    IN  IF ~c.ok THEN lost = {}
                        ELSE \E src \in Named(tree, m_path) :
                                 LET to == Entry(move(Now, m_type, dst, FALSE).tree, Landing(tree, src, dst)) IN
                                 /\ to # NoPath
                                 /\ SameBelow(tree, src, c.tree, to)
                                 /\ \A q \in lost : Under(q, src) \/ q = to
  BY DEF MoveKeepsData
<1> DEFINE c == move(Now, m_type, dst, up)
           made == move(Now, m_type, dst, FALSE).tree
           e == isExist(Now, m_type)
           p == Prepared(e, dst)
           lost == {q \in Touched(tree, c.tree) : tree[q] # None}
           src == realpath(tree, m_path)
           r == Place(p, m_realPath)
           w == mv(p.tree, r, dst.path)
           to == Entry(made, Landing(tree, src, dst))
<1>1. Now \in Contexts /\ m_type \in Types /\ Now.tree = tree /\ Now.path = m_path /\ Now.real = m_realPath
  BY NowIs DEF Now
<1>2. m_path # <<>> /\ src \in Paths /\ getStat(Now) = tree[src] /\ tree[src] # None
  BY <1>1, getStatIs
<1>p. /\ p \in Contexts /\ Grows(tree, p.tree) /\ Prepares(e, p, dst)
      /\ p.path = m_path /\ p.real = m_realPath
  BY <1>1, moveIs
<1>5. e.tree = tree /\ getStat(e) = getStat(Now)
  BY <1>1, isExistIs DEF getStat
<1>6. IsTree(tree) /\ IsTree(p.tree) /\ m_path \in Seq(Names) /\ dst.path \in Paths /\ dst.path \in Seq(Names)
  BY <1>1, <1>p, ContextIs, CallsAssumption, PathIs
<1>r. realpath(p.tree, m_path) = src /\ r = src /\ Entry(p.tree, src) = src
  <2>1. stat(p.tree, m_path) # None /\ realpath(p.tree, m_path) = src
    <3> HIDE DEF p
    <3>1. src # NoPath
      BY <1>2, PathIs, NodeAssumption
    <3>2. stat(tree, m_path) # None
      BY <1>6, <3>1, StatIs DEF src
    <3> QED BY <1>p, <1>6, <3>2, StatGrows DEF src
  <2> HIDE DEF p, src
  <2> QED BY <1>2, <1>p, <2>1, PlaceIs DEF AtPlace
<1>n. src \in Named(tree, m_path)
  BY <1>2, PathIs, NodeAssumption DEF Named
<1>s. Plain(r) /\ Plain(dst.path)
  <2> HIDE DEF r, src
  <2> QED BY <1>r, <1>n DEF Straight
<1> HIDE DEF src
<1>m. /\ \A b \in BOOLEAN : Mover(Now, p, move(Now, m_type, dst, b), dst, b)
      /\ c \in Contexts
  <2>1. \A b \in BOOLEAN : /\ move(Now, m_type, dst, b) \in Contexts
                           /\ Plain(Place(p, Now.real)) /\ Plain(dst.path) =>
                                 Mover(Now, p, move(Now, m_type, dst, b), dst, b)
    BY <1>1, moveIs
  <2> HIDE DEF p
  <2> QED BY <1>1, <1>s, <2>1
<1>4. made = p.tree
  <2>1. Mover(Now, p, move(Now, m_type, dst, FALSE), dst, FALSE)
    BY <1>m
  <2> HIDE DEF p
  <2> QED BY <2>1 DEF Mover
<1>3. /\ c \in Contexts
      /\ p \in Contexts /\ Grows(tree, p.tree) /\ Prepares(e, p, dst)
      /\ p.path = m_path /\ p.real = m_realPath
      /\ ~c.ok => c.tree = p.tree
      /\ c.ok => p.ok /\ w.ok /\ c.tree = w.tree /\ (dst.slash => stat(p.tree, dst.path) = Dir)
  <2>1. Mover(Now, p, c, dst, up)
    BY <1>m
  <2> HIDE DEF p, c
  <2> QED BY <1>1, <1>p, <1>m, <2>1 DEF Mover
<1> HIDE DEF c, made, e, p, w, r
<1>7. CASE ~c.ok
  BY <1>3, <1>7 DEF Touched, Grows, c
<1>8. CASE c.ok
  <2>2. r = src /\ Entry(p.tree, src) = src
    BY <1>r
  <2>3. src \in Seq(Names) /\ src # <<>>
    BY <1>2, PathIs
  <2>4. w = mv(p.tree, src, dst.path)
    BY <2>2 DEF w
  <2>5. Moves(p.tree, w, src, Entry(p.tree, Into(p.tree, src, dst.path)))
    BY <1>3, <1>6, <1>8, <2>2, <2>3, <2>4, mvIs
  <2>6. Into(p.tree, src, dst.path) = Landing(tree, src, dst)
    <3>1. getType(e) = DIRECTORY <=> tree[src] = Dir
      BY <1>2, <1>5 DEF getType, TypeOf, UKNOWN, DIRECTORY, REGULAR_FILE
    <3>2. stat(p.tree, dst.path) = Dir <=> dst.slash \/ tree[src] = Dir \/ stat(tree, dst.path) = Dir
      <4>1. CASE stat(tree, dst.path) # None
        <5>1. p.tree = tree /\ (stat(tree, dst.path) = Dir \/ getType(e) # DIRECTORY)
          BY <1>3, <1>5, <1>8, <4>1 DEF Prepares
        <5> QED BY <1>3, <1>8, <3>1, <5>1
      <4>2. CASE stat(tree, dst.path) = None
        <5>1. IF getType(e) = DIRECTORY \/ dst.slash THEN stat(p.tree, dst.path) = Dir
              ELSE stat(p.tree, dst.path) = None
          BY <1>2, <1>3, <1>5, <1>8, <4>2 DEF Prepares
        <5> QED BY <3>1, <4>2, <5>1, NodeAssumption
      <4> QED BY <4>1, <4>2
    <3> QED BY <3>2 DEF Into, Landing
  <2>7. to = Entry(p.tree, Into(p.tree, src, dst.path))
    BY <1>4, <2>6
  <2> HIDE DEF to
  <2>8. Moves(p.tree, w, src, to) /\ c.tree = w.tree
    BY <1>3, <1>8, <2>5, <2>7
  <2>9. to # NoPath
    BY <2>8, PathIs, NodeAssumption DEF Moves
  <2>10. SameBelow(tree, src, c.tree, to)
    BY <1>3, <2>8 DEF Moves, SameBelow, Grows
  <2>11. \A q \in lost : Under(q, src) \/ q = to
    BY <1>3, <2>8 DEF Moves, Grows, Touched
  <2>12. src \in Named(tree, m_path)
    BY <1>n
  <2> HIDE DEF lost
  <2>13. /\ to # NoPath
         /\ SameBelow(tree, src, c.tree, to)
         /\ \A q \in lost : Under(q, src) \/ q = to
    BY <2>9, <2>10, <2>11
  <2> QED BY <1>8, <2>12, <2>13 DEF lost, c, to, made
<1> QED BY <1>7, <1>8

\* A move of what is there loses nothing on the way (FsObject::move).
THEOREM MoveCorrect == Spec => [](getStat(Now) # None => MoveKeepsData)
BY TypeCorrect, MoveRight, PTL

-----------------------------------------------------------------------------
\* Where the directories on the way are there or can be made, getAbsolutePath
\* answers with what the path names: what it resolves to, ...
AnswersPath(c, d) ==
    /\ stat(d.tree, c.path) # None =>
          /\ stat(c.tree, c.path) = stat(d.tree, c.path)
          /\ stat(d.tree, d.real) = stat(d.tree, c.path)
    \* ... or the name that open makes the same file at.
    /\ stat(d.tree, c.path) = None /\ d.real # <<>> =>
          stat(d.tree, d.real) = None /\ Ending(d.tree, d.real) = Ending(d.tree, c.path)
Led(c) == c.exists /\ stat(c.tree, c.path) = None =>
             c.path \notin Bare /\ stat(c.tree, Parent(c.path)) = Dir
\* getAbsolutePath answers the object's own path, when the path can be walked and
\* an object that is remembered to exist does not stray.
LEMMA AnswerIs ==
  ASSUME NEW c \in Contexts, c.path # <<>>, Led(c), Walkable(c.tree, c.path), NEW type
  PROVE  AnswersPath(c, getAbsolutePath(c, type))
<1> DEFINE d == getAbsolutePath(c, type)
           t == c.tree
           u == d.tree
           p == c.path
           q == Parent(p)
<1>1. /\ d \in Contexts /\ u = makePath(c, type).tree /\ d.path = p /\ Adds(c, d)
      /\ (Exists(c, type) => u = t)
      /\ d.real = Place(d, c.real)
  BY getAbsolutePathIs
<1>2. IsTree(t) /\ IsTree(u) /\ p \in Paths /\ p \in Seq(Names) /\ p # <<>> /\ d.real \in Seq(Names)
  BY <1>1, ContextIs
<1>3. /\ Len(p) \in Nat /\ Len(p) >= 1 /\ Len(q) = Len(p) - 1 /\ q \in Seq(Names)
  BY <1>2, PathIs, FrontAndLast
<1>4. /\ Grows(t, u) /\ (stat(t, p) = None => stat(u, p) = None)
      /\ \A s \in Paths : u[s] # t[s] => u[s] = Dir
  BY <1>1, <1>2 DEF Adds
<1>5. /\ ~TooLong(t, p) /\ (p \in Bare => stat(t, p) # None)
      /\ Len(p) > 1 => MakeDirs(t, q).ok
  BY DEF Walkable
<1>6. /\ ~Exists(c, type) /\ Len(p) > 1 /\ p \notin Bare => u = MakeDirs(t, q).tree
      /\ ~Exists(c, type) /\ ~(Len(p) > 1 /\ p \notin Bare) => u = t
  BY <1>1, makePathIs
<1>7. Exists(c, type) /\ stat(t, p) = None => stat(t, q) = Dir
  <2>1. getStat(c) = stat(t, p)
    BY getStatIs
  <2> QED BY <2>1 DEF Exists, Matches, Led
<1> HIDE DEF d, t, u, p, q
<1>8. ASSUME stat(u, p) # None
      PROVE  stat(t, p) = stat(u, p) /\ stat(u, d.real) = stat(u, p)
  <2>1. stat(t, p) = stat(u, p)
    BY <1>2, <1>4, <1>8, StatGrows
  <2>2. stat(u, d.real) = stat(u, p)
    <3>1. d.path # <<>> /\ d.tree = u /\ stat(d.tree, d.path) # None
      BY <1>1, <1>2, <1>8 DEF u
    <3>2. Place(d, c.real) = realpath(d.tree, d.path) /\ AtPlace(d.tree, Place(d, c.real))
          /\ stat(d.tree, Place(d, c.real)) = d.tree[Place(d, c.real)]
          /\ d.tree[Place(d, c.real)] = stat(d.tree, d.path)
      BY <1>1, <3>1, PlaceIs
    <3> QED BY <1>1, <3>1, <3>2
  <2> QED BY <2>1, <2>2
<1>9. ASSUME stat(u, p) = None, d.real # <<>>
      PROVE  stat(u, d.real) = None /\ Ending(u, d.real) = Ending(u, p)
  <2>1. stat(t, p) = None
    BY <1>2, <1>4, <1>9, StatGrows
  <2>2. p \notin Bare
    BY <1>5, <2>1
  <2>3. stat(u, q) = Dir
    <3>1. CASE Exists(c, type)
      BY <1>1, <1>7, <2>1, <3>1 DEF u, t
    <3>2. CASE ~Exists(c, type) /\ Len(p) > 1
      <4>1. u = MakeDirs(t, q).tree /\ MakeDirs(t, q).ok
        BY <1>5, <1>6, <2>2, <3>2
      <4>2. DirsTo(t, MakeDirs(t, q), q, Len(q))
        BY <1>2, <1>3, MakeDirsIs
      <4>3. SubSeq(q, 1, Len(q)) = q /\ Len(q) # 0
        BY <1>3, <3>2
      <4> QED BY <4>1, <4>2, <4>3 DEF DirsTo
    <3>3. CASE ~Exists(c, type) /\ ~(Len(p) > 1)
      <4>1. q = <<>>
        BY <1>3, <3>3
      <4> QED BY <1>2, <4>1, RootIs
    <3> QED BY <3>1, <3>2, <3>3
  <2>4. IF Entry(u, p) = NoPath THEN d.real = <<>> ELSE d.real = Entry(u, p) /\ AtPlace(u, d.real)
    <3>1. d.path # <<>> /\ d.tree = u /\ d.path = p /\ stat(d.tree, d.path) = None
          /\ d.path \notin Bare /\ stat(d.tree, Parent(d.path)) = Dir
      BY <1>1, <1>2, <1>9, <2>2, <2>3 DEF u, q
    <3>2. IF Entry(d.tree, d.path) = NoPath THEN Place(d, c.real) = <<>>
          ELSE Place(d, c.real) = Entry(d.tree, d.path) /\ AtPlace(d.tree, Place(d, c.real))
      BY <1>1, <3>1, PlaceIs, Zenon
    <3> QED BY <1>1, <3>1, <3>2
  <2> DEFINE e == d.real
  <2>5. e = Entry(u, p) /\ e # NoPath /\ e \in Paths /\ e \in Seq(Names) /\ e # <<>>
    BY <1>2, <1>9, <2>4, PathIs, NodeAssumption DEF AtPlace
  <2> HIDE DEF e
  <2>6. \A s \in Paths : t[s] = Dir \/ IsLink(t[s]) => u[s] = t[s]
    BY <1>4, LinkIs, NodeAssumption DEF Grows
  <2>7. LinksOn(u, Followed(t, p)) = {}
    <3>1. LinksOn(t, Followed(t, p)) = {}
      BY <1>5 DEF TooLong
    <3>2. \A s \in Paths : IsLink(u[s]) => IsLink(t[s])
      BY <1>4, LinkIs
    <3> QED BY <3>1, <3>2 DEF LinksOn
  <2>8. Followed(u, p) = Followed(t, p)
    BY <1>2, <2>6, <2>7, SameFollowed DEF Agree
  <2>9. Lookup(u, p, realpath(u, q), e)
    BY <1>2, <2>5, EntryIs DEF q
  <2>10. Followed(u, p) = Followed(u, e)
    BY <2>7, <2>8, <2>9 DEF Lookup
  <2>11. realpath(u, e) = realpath(u, p)
    BY <2>10 DEF realpath
  <2>12. stat(u, e) = None
    BY <1>9, <2>11 DEF stat
  <2>13. Ending(u, e) = Ending(u, p)
    BY <2>10 DEF Ending
  <2> QED BY <2>12, <2>13 DEF e
<1>10. AnswersPath(c, d)
  BY <1>8, <1>9 DEF AnswersPath, t, u, p
<1> QED BY <1>10 DEF d

\* An open file, and the object with its file and the contents of all of them.
Streams == {s \in [file : Files \cup {None}, mode : Modes \cup {"none"}, pending : SUBSET {Word}] :
              s.file = None => s = Closed}
Worlds == [obj : Contexts, data : [Files -> SUBSET {Old, Word}], stream : Streams]

\* The parts of a world.
LEMMA WorldIs ==
  ASSUME NEW w \in Worlds
  PROVE  /\ w.obj \in Contexts /\ w.data \in [Files -> SUBSET {Old, Word}] /\ w.stream \in Streams
         /\ w.stream.file \in Files \cup {None} /\ w.stream.pending \subseteq {Word}
         /\ w.stream.file = None => w.stream = Closed
         /\ \A c \in Contexts : [w EXCEPT !.obj = c] \in Worlds
BY DEF Worlds, Streams

\* A closed stream is one.
LEMMA ClosedIs == Closed \in Streams /\ Closed.file = None /\ Closed.pending = {}
BY DEF Closed, Streams, Modes

\* What was in the buffer is in the file.
LEMMA FlushedIs ==
  ASSUME NEW w \in Worlds, w.stream.file # None
  PROVE  LET r == Flushed(w) IN
         /\ r \in Worlds /\ r.obj = w.obj /\ r.stream.file = w.stream.file
         /\ w.stream.pending \subseteq r.data[w.stream.file]
<1> DEFINE s == [w.stream EXCEPT !.pending = {}]
           f == w.stream.file
           v == [w.data EXCEPT ![f] = @ \cup w.stream.pending]
<1>1. f \in Files /\ w.data \in [Files -> SUBSET {Old, Word}] /\ w.stream.pending \subseteq {Word}
  BY WorldIs
<1>2. s \in Streams /\ s.file = f
  BY <1>1, NodeAssumption DEF Worlds, Streams
<1>3. v \in [Files -> SUBSET {Old, Word}] /\ v[f] = w.data[f] \cup w.stream.pending
  BY <1>1
<1>4. Flushed(w) = [w EXCEPT !.data = v, !.stream = s]
  BY DEF Flushed, Worlds
<1> HIDE DEF s, v, f
<1>5. LET r == [w EXCEPT !.data = v, !.stream = s] IN
      r \in Worlds /\ r.obj = w.obj /\ r.stream = s /\ r.data = v
  BY <1>2, <1>3 DEF Worlds
<1> QED BY <1>2, <1>3, <1>4, <1>5 DEF f

\* A close leaves the object, and the file complete.
LEMMA CloseIs ==
  ASSUME NEW w \in Worlds
  PROVE  LET r == checkAndClose(w) IN
         /\ r \in Worlds /\ r.obj = w.obj /\ r.stream = Closed
         /\ w.stream.file # None => w.stream.pending \subseteq r.data[w.stream.file]
<1>1. CASE w.stream.file = None
  BY <1>1, WorldIs DEF checkAndClose
<1>2. CASE w.stream.file # None
  <2> DEFINE v == Flushed(w)
  <2>1. /\ v \in Worlds /\ v.obj = w.obj
        /\ w.stream.pending \subseteq v.data[w.stream.file]
    BY <1>2, FlushedIs
  <2>2. checkAndClose(w) = [v EXCEPT !.stream = Closed]
    BY <1>2 DEF checkAndClose
  <2> HIDE DEF v
  <2>3. LET r == [v EXCEPT !.stream = Closed] IN
        r \in Worlds /\ r.obj = v.obj /\ r.stream = Closed /\ r.data = v.data
    BY <2>1, ClosedIs DEF Worlds
  <2> QED BY <2>1, <2>2, <2>3
<1> QED BY <1>1, <1>2

\* A file that was opened, and perhaps emptied.
LEMMA AttachedIs ==
  ASSUME NEW w \in Worlds, NEW f \in Files, NEW mode \in Modes
  PROVE  LET r == Attached(w, f, mode) IN
         /\ r \in Worlds /\ r.obj = w.obj /\ r.stream.file = f
         /\ \A g \in Files : g # f => r.data[g] = w.data[g]
<1> DEFINE s == [file |-> f, mode |-> mode, pending |-> {}]
           v == [w.data EXCEPT ![f] = IF mode = "out" THEN {} ELSE @]
<1>1. w.data \in [Files -> SUBSET {Old, Word}]
  BY WorldIs
<1>2. s \in Streams /\ s.file = f
  BY NodeAssumption DEF Streams
<1>3. v \in [Files -> SUBSET {Old, Word}] /\ \A g \in Files : g # f => v[g] = w.data[g]
  BY <1>1
<1>4. Attached(w, f, mode) = [w EXCEPT !.stream = s, !.data = v]
  BY DEF Attached, Worlds
<1> HIDE DEF s, v
<1>5. LET r == [w EXCEPT !.stream = s, !.data = v] IN
      r \in Worlds /\ r.obj = w.obj /\ r.stream = s /\ r.data = v
  BY <1>2, <1>3 DEF Worlds
<1> QED BY <1>2, <1>3, <1>4, <1>5

\* What an open does: nothing, or it opens the file that is there, or it makes
\* one, of an inode that is nowhere in the tree.
OpensOne(w, r, n) ==
    /\ n = stat(w.obj.tree, w.obj.real) /\ w.obj.real # <<>> /\ n \in Files
    /\ r.obj = w.obj /\ r.stream.file = n
    /\ \A g \in Files : g # n => r.data[g] = w.data[g]
MakesOne(w, r, f) ==
    /\ stat(w.obj.tree, w.obj.real) = None /\ w.obj.real # <<>>
    /\ f \in Files /\ f \notin InTree(w.obj.tree)
    /\ creat(w.obj.tree, w.obj.real, f).ok
    /\ r.obj = [w.obj EXCEPT !.tree = creat(w.obj.tree, w.obj.real, f).tree] /\ r.stream.file = f
    /\ \A g \in Files : g # f => r.data[g] = w.data[g]
OpensWell(w, r) == r = w \/ (\E n : OpensOne(w, r, n)) \/ (\E f : MakesOne(w, r, f))

\* open of the remembered path.
LEMMA fstream_openIs ==
  ASSUME NEW w \in Worlds, NEW mode \in Modes, Unused(w.obj.tree) # {}
  PROVE  LET r == fstream_open(w, mode) IN r \in Worlds /\ OpensWell(w, r)
<1> DEFINE t == w.obj.tree
           p == w.obj.real
           n == stat(t, p)
           f == Fresh(t)
           c == creat(t, p, f)
           r == fstream_open(w, mode)
<1>1. w.obj \in Contexts /\ w.data \in [Files -> SUBSET {Old, Word}]
  BY WorldIs
<1>2. IsTree(t) /\ p \in Seq(Names)
  BY <1>1, ContextIs
<1>3. f \in Files /\ f \notin InTree(t)
  <2>1. f \in Unused(t)
    BY DEF Fresh
  <2> QED BY <2>1 DEF Unused
<1>4. r = IF p = <<>> THEN w
          ELSE IF n \in Files THEN Attached(w, n, mode)
          ELSE IF n = None /\ mode \in {"out", "app"} THEN Made(w, c, f, mode)
          ELSE w
  BY DEF fstream_open
<1> HIDE DEF r, f
<1>5. CASE p # <<>> /\ n \in Files
  <2>1. r = Attached(w, n, mode)
    BY <1>4, <1>5
  <2> HIDE DEF n
  <2>2. /\ r \in Worlds /\ r.obj = w.obj /\ r.stream.file = n
        /\ \A g \in Files : g # n => r.data[g] = w.data[g]
    BY <1>5, <2>1, AttachedIs
  <2>3. OpensOne(w, r, n)
    BY <1>5, <2>2 DEF OpensOne, n
  <2> QED BY <2>2, <2>3 DEF OpensWell, r
<1>6. CASE p # <<>> /\ n = None /\ c.ok /\ r = Made(w, c, f, mode)
  <2> DEFINE o == [w.obj EXCEPT !.tree = c.tree]
             v == [w.data EXCEPT ![f] = {}]
             x == [w EXCEPT !.obj = o, !.data = v]
  <2>1. r = Attached(x, f, mode)
    BY <1>1, <1>6 DEF Made, Worlds
  <2>2. o \in Contexts
    <3>1. c \in Outcomes
      BY <1>2, <1>3, CallsHaveOutcomes
    <3>2. IsTree(c.tree)
      BY <3>1, OutcomeIs
    <3> HIDE DEF c
    <3> QED BY <1>1, <3>2 DEF Contexts, Fields, IsTree
  <2>3. v \in [Files -> SUBSET {Old, Word}] /\ \A g \in Files : g # f => v[g] = w.data[g]
    BY <1>1
  <2> HIDE DEF v
  <2>4. x \in Worlds /\ x.obj = o /\ x.data = v
    <3> HIDE DEF o
    <3> QED BY <2>2, <2>3 DEF Worlds
  <2> HIDE DEF x
  <2>5. /\ r \in Worlds /\ r.obj = x.obj /\ r.stream.file = f
        /\ \A g \in Files : g # f => r.data[g] = x.data[g]
    BY <1>3, <2>1, <2>4, AttachedIs
  <2>6. MakesOne(w, r, f)
    BY <1>3, <1>6, <2>3, <2>4, <2>5 DEF MakesOne
  <2> QED BY <2>5, <2>6 DEF OpensWell, r
<1>7. CASE r = w
  BY <1>7 DEF OpensWell, r
<1>8. \/ p # <<>> /\ n \in Files
      \/ p # <<>> /\ n = None /\ c.ok /\ r = Made(w, c, f, mode)
      \/ r = w
  <2>1. ~c.ok => Made(w, c, f, mode) = w
    BY DEF Made
  <2> QED BY <1>4, <2>1
<1> QED BY <1>5, <1>6, <1>7, <1>8

\* openInit, as far as types go, and what it remembers.
LEMMA OpenTyped ==
  ASSUME NEW w \in Worlds, NEW mode \in Modes, Unused(w.obj.tree) # {}, w.obj.path # <<>>
  PROVE  LET a == getAbsolutePath(w.obj, REGULAR_FILE)
             x == [checkAndClose(w) EXCEPT !.obj = a]
             r == openInit(w, mode)
         IN  /\ x \in Worlds /\ x.obj = a /\ x.stream = Closed /\ x.data = checkAndClose(w).data
             /\ r \in Worlds /\ OpensWell(x, r)
             /\ r.obj.path = w.obj.path
<1> DEFINE c == w.obj
           a == getAbsolutePath(c, REGULAR_FILE)
           v == checkAndClose(w)
           x == [v EXCEPT !.obj = a]
           r == openInit(w, mode)
<1>1. c \in Contexts
  BY WorldIs
<1>2. a \in Contexts /\ a.path = c.path /\ Adds(c, a)
  BY <1>1, getAbsolutePathIs
<1>4. v \in Worlds /\ v.obj = w.obj /\ v.stream = Closed
  BY CloseIs
<1>5. r = fstream_open(x, mode)
  BY <1>4 DEF openInit
<1> HIDE DEF v, a, r
<1>6. x \in Worlds /\ x.obj = a /\ x.stream = Closed /\ x.data = v.data
  BY <1>2, <1>4 DEF Worlds
<1> HIDE DEF x
<1>7. Unused(x.obj.tree) # {}
  <2>1. \A s \in Paths : a.tree[s] = c.tree[s] \/ a.tree[s] = Dir
    BY <1>2 DEF Adds
  <2>2. InTree(a.tree) \subseteq InTree(c.tree) \cup {Dir}
    BY <2>1 DEF InTree
  <2>3. Dir \notin Files
    BY NodeAssumption
  <2> QED BY <1>6, <2>2, <2>3 DEF Unused
<1>8. r \in Worlds /\ OpensWell(x, r)
  BY <1>5, <1>6, <1>7, fstream_openIs
<1>9. r.obj.path = c.path
  <2>1. CASE r.obj = x.obj
    BY <1>2, <1>6, <2>1
  <2>2. ASSUME NEW f, MakesOne(x, r, f) PROVE r.obj.path = c.path
    <3> DEFINE k == creat(a.tree, a.real, f)
    <3>1. f \in Files /\ k.ok /\ r.obj = [a EXCEPT !.tree = k.tree]
      BY <1>6, <2>2 DEF MakesOne
    <3> HIDE DEF k
    <3>2. r.obj.path = a.path
      BY <1>2, <3>1 DEF Contexts, Fields
    <3> QED BY <1>2, <3>2
  <2>3. r.obj = x.obj \/ \E f : MakesOne(x, r, f)
    BY <1>8 DEF OpensWell, OpensOne
  <2> QED BY <2>1, <2>2, <2>3
<1> QED BY <1>4, <1>6, <1>8, <1>9 DEF r, x, v, a

\* What is opened is what the path names, and only that is emptied, ...
OpensNamed(w, r) ==
    /\ \A f \in InTree(w.obj.tree) \cap Files :
          r.data[f] # checkAndClose(w).data[f] => f = stat(w.obj.tree, w.obj.path)
    /\ r.stream.file # None => r.stream.file = stat(r.obj.tree, w.obj.path)
\* ... where the directories on the way are there or can be made.
LEMMA OpenRight ==
  ASSUME NEW w \in Worlds, NEW mode \in Modes, Unused(w.obj.tree) # {}, w.obj.path # <<>>,
         Led(w.obj), Walkable(w.obj.tree, w.obj.path)
  PROVE  OpensNamed(w, openInit(w, mode))
<1> DEFINE c == w.obj
           p == c.path
           a == getAbsolutePath(c, REGULAR_FILE)
           x == [checkAndClose(w) EXCEPT !.obj = a]
           before == checkAndClose(w).data
           r == openInit(w, mode)
<1>1. c \in Contexts
  BY WorldIs
<1>2. /\ x \in Worlds /\ x.obj = a /\ x.stream = Closed /\ x.data = before
      /\ r \in Worlds /\ OpensWell(x, r)
  BY OpenTyped
<1>3. AnswersPath(c, a)
  BY <1>1, AnswerIs
<1>4. a \in Contexts /\ a.path = p /\ Adds(c, a)
  BY <1>1, getAbsolutePathIs
<1>5. IsTree(a.tree) /\ a.real \in Seq(Names) /\ p \in Seq(Names)
  BY <1>1, <1>4, ContextIs
<1>6. stat(a.tree, a.real) = stat(a.tree, p) \/ (stat(a.tree, p) = None /\ a.real = <<>>)
      \/ (stat(a.tree, p) = None /\ stat(a.tree, a.real) = None)
  BY <1>3 DEF AnswersPath
<1> HIDE DEF x, r, a, before
<1>7. ASSUME r = x PROVE OpensNamed(w, r)
  <2>1. r.data = before /\ r.stream.file = None
    BY <1>2, <1>7, ClosedIs
  <2> QED BY <2>1 DEF OpensNamed, r, before
<1>8. ASSUME NEW n, OpensOne(x, r, n) PROVE OpensNamed(w, r)
  <2>1. /\ n = stat(a.tree, a.real) /\ a.real # <<>> /\ n \in Files
        /\ r.obj = a /\ r.stream.file = n
        /\ \A g \in Files : g # n => r.data[g] = before[g]
    BY <1>2, <1>8 DEF OpensOne
  <2>2. n # None
    BY <2>1, NodeAssumption
  <2>3. stat(a.tree, p) # None
    BY <1>3, <2>1, <2>2 DEF AnswersPath
  <2>4. n = stat(a.tree, p) /\ n = stat(c.tree, p)
    BY <1>3, <2>1, <2>3 DEF AnswersPath
  <2> QED BY <2>1, <2>4 DEF OpensNamed, before
<1>9. ASSUME NEW f, MakesOne(x, r, f) PROVE OpensNamed(w, r)
  <2> DEFINE k == creat(a.tree, a.real, f)
  <2>1. /\ stat(a.tree, a.real) = None /\ a.real # <<>> /\ f \in Files /\ f \notin InTree(a.tree)
        /\ k.ok /\ r.obj = [a EXCEPT !.tree = k.tree] /\ r.stream.file = f
        /\ \A g \in Files : g # f => r.data[g] = before[g]
    BY <1>2, <1>9 DEF MakesOne
  <2>2. stat(a.tree, p) = None
    BY <1>3, <2>1 DEF AnswersPath
  <2>3. Ending(a.tree, a.real) = Ending(a.tree, p)
    BY <1>3, <2>1, <2>2 DEF AnswersPath
  <2>4. k = creat(a.tree, p, f)
    BY <2>3 DEF creat
  <2>5. r.obj.tree = k.tree
    <3> HIDE DEF k
    <3> QED BY <1>4, <2>1 DEF Contexts, Fields
  <2>6. stat(k.tree, p) = f
    BY <1>5, <2>1, <2>4, creatIs
  <2>7. f \notin InTree(c.tree)
    <3>1. \A s \in Paths : c.tree[s] # None => a.tree[s] = c.tree[s]
      BY <1>4 DEF Adds, Grows
    <3>2. f # None
      BY <2>1, NodeAssumption
    <3> QED BY <2>1, <3>1, <3>2 DEF InTree
  <2> HIDE DEF k
  <2> QED BY <2>1, <2>5, <2>6, <2>7 DEF OpensNamed, before
<1>10. OpensNamed(w, r)
  <2>1. r = x \/ (\E n : OpensOne(x, r, n)) \/ (\E f : MakesOne(x, r, f))
    BY <1>2 DEF OpensWell
  <2> QED BY <1>7, <1>8, <1>9, <2>1
<1> QED BY <1>10 DEF r

\* The object's file stays with it in every world.
FileTypeOK ==
    /\ TypeOK /\ m_type = REGULAR_FILE
    /\ data \in [Files -> SUBSET {Old, Word}]
    /\ stream \in Streams
    /\ kept \in BOOLEAN
\* The inductive invariant: kept remembers the opens that cannot have gone astray.
FileInv == FileTypeOK /\ StreamFollowsPath

\* The object with its file between two calls, as a world.
LEMMA HereIs ==
  ASSUME FileTypeOK
  PROVE  /\ Here \in Worlds /\ Here.obj = Now /\ Here.data = data /\ Here.stream = stream
         /\ Now \in Contexts /\ Now.tree = tree /\ Now.path = m_path
         /\ (~Strays <=> Led(Now))
<1>1. Now \in Contexts
  BY NowIs DEF FileTypeOK
<1>2. Now.tree = tree /\ Now.path = m_path
  BY DEF Now
<1>3. Here \in Worlds /\ Here.obj = Now /\ Here.data = data /\ Here.stream = stream
  BY <1>1 DEF Here, Worlds, FileTypeOK
<1>4. ~Strays <=> Led(Now)
  <2>1. Strays <=> m_exists /\ stat(tree, m_path) = None /\ ~(m_path \notin Bare /\ stat(tree, Parent(m_path)) = Dir)
    BY StraysIs DEF FileTypeOK
  <2> QED BY <2>1 DEF Led, Now
<1> QED BY <1>1, <1>2, <1>3, <1>4

\* What a call leaves, when it leaves a stream on the path or none.
LEMMA ToKeeps ==
  ASSUME FileTypeOK, NEW w \in Worlds, To(w), kept' \in BOOLEAN,
         w.stream.file # None /\ kept' => stat(w.obj.tree, w.obj.path) = w.stream.file
  PROVE  FileInv'
<1>1. w.obj \in Contexts /\ w.data \in [Files -> SUBSET {Old, Word}] /\ w.stream \in Streams
  BY WorldIs
<1>2. Becomes(w.obj) /\ stream' = w.stream
      /\ data' = [f \in Files |-> IF f \in Held(w) THEN w.data[f] ELSE {}]
  BY DEF To
<1>3. TypeOK'
  BY <1>1, <1>2, BecomesTyped DEF FileTypeOK
<1>4. tree' = w.obj.tree /\ m_path' = w.obj.path /\ m_type' = m_type
  BY <1>2 DEF Becomes
<1>5. data' \in [Files -> SUBSET {Old, Word}]
  BY <1>1, <1>2
<1>6. FileTypeOK'
  BY <1>1, <1>2, <1>3, <1>4, <1>5 DEF FileTypeOK
<1>7. StreamFollowsPath'
  BY <1>2, <1>4 DEF StreamFollowsPath, IsOpen
<1> QED BY <1>6, <1>7 DEF FileInv

\* A stream is closed before an object that exists is moved or removed.
LEMMA ReadyIs ==
  ASSUME NEW w \in Worlds
  PROVE  LET r == Ready(w)
             e == isExist(w.obj, REGULAR_FILE)
         IN  /\ r \in Worlds /\ r.obj = e /\ e \in Contexts /\ e.tree = w.obj.tree /\ e.path = w.obj.path
             /\ e.ok => /\ r.stream = Closed
                        /\ w.stream.file # None => w.stream.pending \subseteq r.data[w.stream.file]
             /\ ~e.ok => r.stream = w.stream
<1> DEFINE e == isExist(w.obj, REGULAR_FILE)
           x == [w EXCEPT !.obj = e]
           r == Ready(w)
<1>1. e \in Contexts /\ e.tree = w.obj.tree /\ e.path = w.obj.path
  BY WorldIs, isExistIs
<1>2. r = IfExists(x)
  BY DEF Ready
<1> HIDE DEF e, r
<1>3. x \in Worlds /\ x.obj = e /\ x.stream = w.stream
  BY <1>1 DEF Worlds
<1> HIDE DEF x
<1>4. /\ r \in Worlds /\ r.obj = e
      /\ e.ok => /\ r.stream = Closed
                 /\ w.stream.file # None => w.stream.pending \subseteq r.data[w.stream.file]
      /\ ~e.ok => r.stream = w.stream
  <2>1. CASE e.ok
    <3>1. r = checkAndClose(x)
      BY <1>2, <1>3, <2>1 DEF IfExists
    <3> QED BY <1>3, <2>1, <3>1, CloseIs
  <2>2. CASE ~e.ok
    <3>1. r = x
      BY <1>2, <1>3, <2>2 DEF IfExists
    <3> QED BY <1>3, <2>2, <3>1
  <2> QED BY <2>1, <2>2
<1> QED BY <1>1, <1>4 DEF e, r

\* Only the object changes.
LEMMA WithObject ==
  ASSUME NEW w \in Worlds, NEW c \in Contexts
  PROVE  LET r == [w EXCEPT !.obj = c] IN
         r \in Worlds /\ r.obj = c /\ r.data = w.data /\ r.stream = w.stream
BY DEF Worlds

\* Every call of a file keeps the invariant, whatever other programs do to its
\* files.
LEMMA FileStep ==
  ASSUME FileInv, [FileNext]_fileVars
  PROVE  FileInv'
<1>1. /\ FileTypeOK /\ StreamFollowsPath /\ kept \in BOOLEAN
      /\ TypeOK /\ stream \in Streams /\ data \in [Files -> SUBSET {Old, Word}] /\ m_type = REGULAR_FILE
  BY DEF FileInv, FileTypeOK
<1>2. Here \in Worlds /\ Here.obj = Now /\ Here.data = data /\ Here.stream = stream
      /\ Now \in Contexts /\ Now.tree = tree /\ Now.path = m_path /\ (~Strays <=> Led(Now))
  BY <1>1, HereIs
<1>3. IsTree(tree) /\ m_path \in Seq(Names)
  BY <1>2, ContextIs
<1>4. stream.file # None /\ kept => stat(tree, m_path) = stream.file
  BY <1>1 DEF StreamFollowsPath, IsOpen
<1>5. \A p \in ObjectPaths \cup {<<>>} : p \in Paths \cup {<<>>}
  BY CallsAssumption
<1>6. REGULAR_FILE \in Types
  BY DEF Types
<1>7. Sure \in BOOLEAN /\ \A b : Walkable(tree, b) \in BOOLEAN
  BY DEF Walkable, Sure
<1> USE <1>1, <1>2, <1>3
<1>11. CASE Open
  <2>1. PICK mode \in Modes :
          Room /\ To(openInit(Here, mode))
               /\ kept' = IF m_path = <<>> THEN kept ELSE Sure
    BY <1>11 DEF Open
  <2> DEFINE r == openInit(Here, mode)
  <2>2. Unused(Here.obj.tree) # {}
    BY <2>1 DEF Room
  <2>3. kept' \in BOOLEAN
    BY <1>7, <2>1
  <2>4. CASE m_path = <<>>
    <3>1. r = Here
      BY <2>4 DEF openInit
    <3> QED BY <1>4, <2>1, <2>3, <2>4, <3>1, ToKeeps
  <2>5. CASE m_path # <<>>
    <3>1. r \in Worlds /\ r.obj.path = m_path
      BY <2>2, <2>5, OpenTyped
    <3>2. kept' => OpensNamed(Here, r)
      BY <2>1, <2>2, <2>5, OpenRight DEF Sure
    <3>3. r.stream.file # None /\ kept' => stat(r.obj.tree, r.obj.path) = r.stream.file
      BY <3>1, <3>2 DEF OpensNamed
    <3> HIDE DEF r
    <3> QED BY <2>1, <2>3, <3>1, <3>3, ToKeeps DEF r
  <2> QED BY <2>4, <2>5
<1>12. CASE OpenPath
  <2>1. PICK p \in ObjectPaths, mode \in Modes :
          Room /\ To(openInit(NewPath(Here, p), mode)) /\ kept' = Walkable(tree, p)
    BY <1>12 DEF OpenPath
  <2> DEFINE v == checkAndClose(Here)
             c == setPath(Now, p)
             x == NewPath(Here, p)
             r == openInit(x, mode)
  <2>2. v \in Worlds /\ v.obj = Now /\ v.stream = Closed
    BY CloseIs
  <2>3. c \in Contexts /\ c.tree = tree /\ c.path = p /\ c.exists = FALSE /\ p \in Paths
    BY CallsAssumption, setPathIs
  <2>4. Led(c)
    BY <2>3 DEF Led
  <2>5. x = [v EXCEPT !.obj = c]
    BY <2>2 DEF NewPath
  <2> HIDE DEF v, c, x, r
  <2>6. x \in Worlds /\ x.obj = c
    BY <2>2, <2>3, <2>5, WithObject
  <2>7. Unused(x.obj.tree) # {} /\ x.obj.path # <<>> /\ Led(x.obj) /\ x.obj.path = p /\ x.obj.tree = tree
    BY <2>1, <2>3, <2>4, <2>6, PathIs DEF Room
  <2>8. r \in Worlds /\ r.obj.path = p
    BY <2>6, <2>7, OpenTyped DEF r
  <2>9. kept' => OpensNamed(x, r)
    BY <2>1, <2>6, <2>7, OpenRight DEF r
  <2>10. r.stream.file # None /\ kept' => stat(r.obj.tree, r.obj.path) = r.stream.file
    BY <2>7, <2>8, <2>9 DEF OpensNamed
  <2>11. kept' \in BOOLEAN
    BY <1>7, <2>1
  <2>12. To(r)
    BY <2>1 DEF r, x
  <2> QED BY <2>8, <2>10, <2>11, <2>12, ToKeeps
\* A stream that is closed, or left as it is at an object with a new path.
<1>13. ASSUME NEW s \in Worlds, NEW c \in Contexts, To([s EXCEPT !.obj = c]),
              kept' \in BOOLEAN, s.stream.file # None => ~kept'
       PROVE  FileInv'
  <2> DEFINE r == [s EXCEPT !.obj = c]
  <2>1. r \in Worlds /\ r.obj = c /\ r.stream = s.stream
    BY WithObject
  <2> HIDE DEF r
  <2>3. To(r)
    BY <1>13 DEF r
  <2>4. r.stream.file # None /\ kept' => stat(r.obj.tree, r.obj.path) = r.stream.file
    BY <1>13, <2>1
  <2> QED BY <1>13, <2>1, <2>3, <2>4, ToKeeps
<1>14. CASE NewFilePath
  <2>1. PICK p \in ObjectPaths \cup {<<>>} : To(NewPath(Here, p)) /\ Same
    BY <1>14 DEF NewFilePath
  <2> DEFINE v == checkAndClose(Here)
             c == setPath(Now, p)
  <2>2. v \in Worlds /\ v.obj = Now /\ v.stream = Closed
    BY CloseIs
  <2>3. c \in Contexts /\ c.exists = FALSE
    BY <1>5, setPathIs
  <2>4. NewPath(Here, p) = [v EXCEPT !.obj = c]
    BY <2>2 DEF NewPath
  <2> HIDE DEF v, c
  <2> QED BY <1>13, <2>1, <2>2, <2>3, <2>4, ClosedIs DEF Same
<1>15. CASE Assign
  <2>1. PICK p \in ObjectPaths \cup {<<>>} : To([Here EXCEPT !.obj = setPath(@, p)]) /\ kept' = ~IsOpen
    BY <1>15 DEF Assign
  <2> DEFINE c == setPath(Now, p)
  <2>2. c \in Contexts /\ c.exists = FALSE
    BY <1>5, setPathIs
  <2>3. [Here EXCEPT !.obj = setPath(@, p)] = [Here EXCEPT !.obj = c]
    BY DEF Worlds
  <2> HIDE DEF c
  <2> QED BY <1>13, <2>1, <2>2, <2>3 DEF IsOpen
<1>10. CASE Look
  <2> DEFINE c == isExist(Now, REGULAR_FILE)
             r == [Here EXCEPT !.obj = c]
  <2>1. [Here EXCEPT !.obj = isExist(@, REGULAR_FILE)] = r
    BY DEF Worlds
  <2>2. c \in Contexts /\ c.tree = tree /\ c.path = m_path
    BY isExistIs
  <2>3. To(r) /\ kept' = kept
    BY <1>10, <2>1 DEF Look, Same
  <2> HIDE DEF c
  <2>4. r \in Worlds /\ r.obj = c /\ r.stream = stream
    BY <2>2, WithObject
  <2> HIDE DEF r
  <2> QED BY <1>4, <2>2, <2>3, <2>4, ToKeeps
<1>16. CASE CloseStream
  <2> DEFINE v == checkAndClose(Here)
  <2>1. v \in Worlds /\ v.obj = Now /\ v.stream.file = None
    BY CloseIs, ClosedIs
  <2>2. To(v) /\ kept' \in BOOLEAN
    BY <1>16 DEF CloseStream, Same
  <2> HIDE DEF v
  <2> QED BY <2>1, <2>2, ToKeeps
<1>17. CASE Replace
  <2>1. PICK p \in ObjectPaths : To([checkAndClose(Here) EXCEPT !.obj = Object(@.tree, p)]) /\ Same
    BY <1>17 DEF Replace
  <2> DEFINE v == checkAndClose(Here)
             c == Object(tree, p)
  <2>2. v \in Worlds /\ v.obj = Now /\ v.stream = Closed
    BY CloseIs
  <2>3. c \in Contexts /\ c.exists = FALSE
    <3>1. p \in Paths \cup {<<>>}
      BY <1>5
    <3> QED BY <3>1, ObjectIs
  <2>4. [checkAndClose(Here) EXCEPT !.obj = Object(@.tree, p)] = [v EXCEPT !.obj = c]
    BY <2>2
  <2> HIDE DEF v, c
  <2> QED BY <1>13, <2>1, <2>2, <2>3, <2>4, ClosedIs DEF Same
\* move and remove: of an object that exists with its stream closed, or nothing.
<1>18. ASSUME NEW s, To(s), Same,
              \/ s = Ready(Here) /\ ~Ready(Here).obj.ok
              \/ /\ Ready(Here).obj.ok
                 /\ \E c \in Contexts : s = [Ready(Here) EXCEPT !.obj = c]
       PROVE  FileInv'
  <2> DEFINE r == Ready(Here)
             e == isExist(Now, REGULAR_FILE)
  <2>1. /\ r \in Worlds /\ r.obj = e /\ e \in Contexts /\ e.tree = tree /\ e.path = m_path
        /\ (e.ok => r.stream = Closed) /\ (~e.ok => r.stream = stream)
    BY ReadyIs
  <2>2. kept' = kept
    BY <1>18 DEF Same
  <2> HIDE DEF r, e
  <2>3. CASE s = r /\ ~r.obj.ok
    <3>1. r.stream = stream
      BY <2>1, <2>3
    <3>2. r.stream.file # None /\ kept' => stat(r.obj.tree, r.obj.path) = r.stream.file
      BY <1>4, <2>1, <2>2, <3>1
    <3> QED BY <1>18, <2>1, <2>2, <2>3, <3>2, ToKeeps
  <2>4. CASE r.obj.ok /\ \E c \in Contexts : s = [r EXCEPT !.obj = c]
    <3>1. PICK c \in Contexts : s = [r EXCEPT !.obj = c]
      BY <2>4
    <3>2. s \in Worlds /\ s.obj = c /\ s.stream = r.stream
      BY <2>1, <3>1, WithObject
    <3>3. s.stream.file = None
      BY <2>1, <2>4, <3>2, ClosedIs
    <3> QED BY <1>18, <2>2, <3>1, <3>2, <3>3, ToKeeps
  <2> QED BY <1>18, <2>3, <2>4 DEF r
<1>19. CASE MoveFile
  <2>1. PICK dst \in Destinations, up \in BOOLEAN : To(MovedAway(Ready(Here), dst, up)) /\ Same
    BY <1>19 DEF MoveFile
  <2> DEFINE r == Ready(Here)
             c == move(r.obj, REGULAR_FILE, dst, up)
  <2>2. r \in Worlds /\ r.obj \in Contexts
    BY ReadyIs
  <2> HIDE DEF r
  <2>3. c \in Contexts
    BY <1>6, <2>2, moveIs
  <2>4. MovedAway(r, dst, up) = IF r.obj.ok THEN [r EXCEPT !.obj = c] ELSE r
    BY <2>2 DEF MovedAway
  <2> HIDE DEF c
  <2> QED BY <1>18, <2>1, <2>3, <2>4 DEF r
<1>20. CASE RemoveFile
  <2>1. PICK up \in BOOLEAN : To(Removed(Ready(Here), up)) /\ Same
    BY <1>20 DEF RemoveFile
  <2> DEFINE r == Ready(Here)
             c == remove(r.obj, REGULAR_FILE, up)
  <2>2. r \in Worlds /\ r.obj \in Contexts
    BY ReadyIs
  <2> HIDE DEF r
  <2>3. c \in Contexts
    BY <1>6, <2>2, removeIs
  <2>4. Removed(r, up) = IF r.obj.ok THEN [r EXCEPT !.obj = c] ELSE r
    BY <2>2 DEF Removed
  <2> HIDE DEF c
  <2> QED BY <1>18, <2>1, <2>3, <2>4 DEF r
<1>21. CASE Write
  <2>1. /\ stream.file # None /\ stream' = [stream EXCEPT !.pending = {Word}]
        /\ UNCHANGED <<vars, data, kept>>
    BY <1>21 DEF Write, IsOpen
  <2>2. stream' \in Streams /\ stream'.file = stream.file
    BY <2>1 DEF Streams
  <2>3. UNCHANGED <<tree, m_path, m_exists, m_realPath, m_absolute, m_type, data, kept>>
    BY <2>1 DEF vars, object
  <2>4. TypeOK'
    BY <2>3 DEF TypeOK, Rooted
  <2>5. FileTypeOK'
    BY <2>2, <2>3, <2>4 DEF FileTypeOK
  <2>6. StreamFollowsPath'
    BY <2>2, <2>3 DEF StreamFollowsPath, IsOpen
  <2> QED BY <2>5, <2>6 DEF FileInv
<1>22. CASE Flush
  <2> DEFINE r == Flushed(Here)
  <2>1. stream.file # None
    <3>1. stream.pending # {}
      BY <1>22 DEF Flush
    <3> QED BY <3>1 DEF Streams, Closed
  <2>2. r \in Worlds /\ r.obj = Now /\ r.stream.file = stream.file
    BY <2>1, FlushedIs
  <2>3. To(r) /\ kept' = kept
    BY <1>22 DEF Flush, Same
  <2> HIDE DEF r
  <2> QED BY <1>4, <2>2, <2>3, ToKeeps
<1>23. CASE Program
  <2> DEFINE N == {Fresh(tree)} \cup EnvNodes
  <2>1. PICK p \in EnvPaths :
          /\ Entry(tree, p) = p /\ Room
          /\ IF tree[p] = None THEN \E n \in N : tree' = Put(tree, p, n) ELSE tree' = Prune(tree, p)
          /\ data' = [f \in Files |-> IF f \notin InTree(tree') \cup {stream.file} THEN {}
                                      ELSE IF f \in InTree(tree) \cup {stream.file} THEN data[f] ELSE {Old}]
          /\ kept' = ~IsOpen
          /\ UNCHANGED <<object, m_type, stream>>
    BY <1>23 DEF Program
  <2>2. N \in SUBSET Node
    <3>1. Fresh(tree) \in Unused(tree)
      BY <2>1 DEF Fresh, Room
    <3>2. Fresh(tree) \in Node
      BY <3>1 DEF Unused, Node
    <3> QED BY <3>2, CallsAssumption
  <2> HIDE DEF N
  <2>3. UNCHANGED <<m_path, m_exists, m_realPath, m_absolute, m_type, stream>>
    BY <2>1 DEF object
  <2>4. IsTree(tree')
    BY <2>1, <2>2, OtherLeavesTree
  <2>5. TypeOK'
    BY <2>3, <2>4 DEF TypeOK, IsTree
  <2>6. data' \in [Files -> SUBSET {Old, Word}]
    BY <2>1
  <2>7. FileTypeOK'
    BY <2>1, <2>3, <2>5, <2>6 DEF FileTypeOK
  <2>8. StreamFollowsPath'
    BY <2>1, <2>3 DEF StreamFollowsPath, IsOpen
  <2> QED BY <2>7, <2>8 DEF FileInv
<1>24. CASE UNCHANGED fileVars
  <2>1. UNCHANGED <<tree, m_path, m_exists, m_realPath, m_absolute, m_type, data, stream, kept>>
    BY <1>24 DEF fileVars, vars, object
  <2>2. TypeOK'
    BY <2>1 DEF TypeOK, Rooted
  <2>3. FileTypeOK'
    BY <2>1, <2>2 DEF FileTypeOK
  <2> QED BY <2>1, <2>3 DEF FileInv, StreamFollowsPath, IsOpen
<1> QED BY <1>10, <1>11, <1>12, <1>14, <1>15, <1>16, <1>17, <1>19, <1>20, <1>21, <1>22, <1>23, <1>24
        DEF FileNext

\* The invariant holds.
LEMMA FileInvariant == FileSpec => []FileInv
<1>1. FileInit => FileInv
  <2> SUFFICES ASSUME FileInit PROVE FileInv
    OBVIOUS
  <2>1. Init /\ m_type = REGULAR_FILE /\ stream = Closed /\ kept = TRUE
        /\ data = [f \in Files |-> IF f \in InTree(tree) THEN {Old} ELSE {}]
    BY DEF FileInit
  <2>2. TypeOK
    BY <2>1, TreesAssumption, CallsAssumption DEF Init, TypeOK, Rooted, IsAbsolute
  <2>4. data \in [Files -> SUBSET {Old, Word}]
    BY <2>1
  <2> QED BY <2>1, <2>2, <2>4, ClosedIs DEF FileInv, FileTypeOK, StreamFollowsPath, IsOpen
<1>2. FileInv /\ [FileNext]_fileVars => FileInv'
  BY FileStep
<1> QED BY <1>1, <1>2, PTL DEF FileSpec

\* openRead, openWrite, openAppend and openReadWrite open the file the path
\* names and empty no other, when the path can be walked and the object does not
\* stray.
\* (File::openInit over FsObject::getAbsolutePath.)
THEOREM OpenCorrect == FileSpec => []OpensOnlyNamed
<1>1. ASSUME FileInv PROVE OpensOnlyNamed
  <2> SUFFICES ASSUME m_path # <<>>, Sure, Room, NEW mode \in Modes
               PROVE  OpensOnly(mode)
    BY DEF OpensOnlyNamed
  <2>1. FileTypeOK
    BY <1>1 DEF FileInv
  <2>2. Here \in Worlds /\ Here.obj = Now /\ Now.tree = tree /\ Now.path = m_path
         /\ Led(Now) /\ Walkable(tree, m_path)
    BY <2>1, HereIs DEF Sure
  <2>3. Unused(Here.obj.tree) # {}
    BY <2>2 DEF Room
  <2> HIDE DEF Room
  <2>4. OpensNamed(Here, openInit(Here, mode))
    BY <2>2, <2>3, OpenRight
  <2> QED BY <2>2, <2>4 DEF OpensNamed, OpensOnly
<1> QED BY <1>1, FileInvariant, PTL

\* The stream is on the file of the object's path: no call leaves it on the file
\* of an earlier name.  (File's setPath, move, remove and destructor.)
THEOREM StreamCorrect == FileSpec => []StreamFollowsPath
<1>1. FileInv => StreamFollowsPath
  BY DEF FileInv
<1> QED BY <1>1, FileInvariant, PTL

\* What a move of an object that is there leaves: its node at another path.
LEMMA MovedIsThere ==
  ASSUME NEW c \in Contexts, NEW type \in Types, NEW dst \in Destinations, NEW up \in BOOLEAN,
         getStat(c) # None, move(c, type, dst, up).ok,
         Plain(realpath(c.tree, c.path)), Plain(dst.path)
  PROVE  \E q \in Paths : move(c, type, dst, up).tree[q] = getStat(c)
<1> DEFINE r == move(c, type, dst, up)
           p == Prepared(isExist(c, type), dst)
           src == realpath(c.tree, c.path)
           w == mv(p.tree, src, dst.path)
           to == Entry(p.tree, Into(p.tree, src, dst.path))
<1>1. c.path # <<>> /\ src \in Paths /\ getStat(c) = c.tree[src] /\ getStat(c) = stat(c.tree, c.path)
  BY getStatIs
<1>2. /\ p \in Contexts /\ Grows(c.tree, p.tree) /\ p.path = c.path /\ p.real = c.real
      /\ Plain(Place(p, c.real)) /\ Plain(dst.path) => Mover(c, p, r, dst, up)
  BY moveIs
<1>3. IsTree(c.tree) /\ IsTree(p.tree) /\ c.path \in Seq(Names)
  BY <1>2, ContextIs
<1> HIDE DEF r, p
<1>4. stat(p.tree, c.path) # None /\ realpath(p.tree, c.path) = src
  BY <1>1, <1>2, <1>3, StatGrows
<1>p. Plain(src)
  OBVIOUS
<1> HIDE DEF src
<1>5. Place(p, c.real) = src /\ Entry(p.tree, src) = src
  BY <1>1, <1>2, <1>4, PlaceIs DEF AtPlace
<1>6. w.ok /\ r.tree = w.tree
  BY <1>2, <1>5, <1>p DEF Mover, r
<1>7. src \in Seq(Names) /\ src # <<>> /\ Len(src) \in 0 .. Len(src)
  BY <1>1, PathIs
<1>8. Moves(p.tree, w, src, to)
  BY <1>3, <1>5, <1>6, <1>7, mvIs
<1> HIDE DEF w, to
<1>9. to \in Paths /\ SameBelow(p.tree, src, w.tree, to) /\ to \in Seq(Names)
  BY <1>8, PathIs DEF Moves
<1>10. p.tree[src] = getStat(c) /\ p.tree[src] # None
  BY <1>1, <1>2 DEF Grows
<1>11. w.tree[to \o SubSeq(src, Len(src) + 1, Len(src))] = p.tree[src]
  BY <1>1, <1>7, <1>9, <1>10, UnderIs DEF SameBelow
<1>12. to \o SubSeq(src, Len(src) + 1, Len(src)) = to
  <2>1. SubSeq(src, Len(src) + 1, Len(src)) \in Seq(Names)
        /\ Len(SubSeq(src, Len(src) + 1, Len(src))) = Len(src) - Len(src)
    BY <1>7, SplitIs
  <2>2. SubSeq(src, Len(src) + 1, Len(src)) = <<>>
    BY <1>7, <2>1
  <2> QED BY <1>9, <2>2
<1> QED BY <1>6, <1>9, <1>10, <1>11, <1>12 DEF r

\* A file that was moved with its stream open is complete: all that was written
\* before the call is in it, and in no buffer.  (File::move.)
THEOREM MovedCorrect == FileSpec => []MovedIsComplete
<1>1. ASSUME FileInv PROVE MovedIsComplete
  <2> SUFFICES ASSUME NEW dst \in Destinations, NEW up \in BOOLEAN, Straight(dst),
                      MovedAway(Ready(Here), dst, up).obj.ok, IsOpen,
                      stat(tree, m_path) = stream.file
               PROVE  LET w == MovedAway(Ready(Here), dst, up) IN
                      /\ stream.file \in InTree(w.obj.tree)
                      /\ stream.pending \subseteq w.data[stream.file]
                      /\ w.stream.file = None
    BY DEF MovedIsComplete
  <2> DEFINE r == Ready(Here)
             e == isExist(Now, REGULAR_FILE)
             c == move(e, REGULAR_FILE, dst, up)
             w == MovedAway(r, dst, up)
  <2>1. FileTypeOK
    BY <1>1 DEF FileInv
  <2>2. Here \in Worlds /\ Here.obj = Now /\ Here.stream = stream /\ Now \in Contexts
        /\ Now.tree = tree /\ Now.path = m_path
    BY <2>1, HereIs
  <2>3. /\ r \in Worlds /\ r.obj = e /\ e \in Contexts /\ e.tree = tree /\ e.path = m_path
        /\ e.ok => /\ r.stream = Closed
                   /\ stream.file # None => stream.pending \subseteq r.data[stream.file]
    BY <2>2, ReadyIs
  <2>4. REGULAR_FILE \in Types /\ stream.file # None
    BY DEF Types, IsOpen
  <2>5. m_path # <<>>
    <3>1. CASE m_path = <<>>
      <4>1. stat(tree, m_path) = Dir
        BY <2>2, <3>1, ContextIs, RootIs
      <4>2. stream.file \in Files
        BY <2>1, <2>4 DEF FileTypeOK, Streams
      <4> QED BY <4>1, <4>2, NodeAssumption
    <3> QED BY <3>1
  <2>6. getStat(e) = stream.file
    BY <2>3, <2>5, getStatIs
  <2>p. Plain(realpath(e.tree, e.path)) /\ Plain(dst.path)
    <3>1. IsTree(tree) /\ m_path \in Seq(Names)
      BY <2>2, ContextIs
    <3>2. stat(tree, m_path) # None
      BY <2>4
    <3>3. realpath(tree, m_path) # NoPath
      BY <3>1, <3>2, StatIs
    <3>4. realpath(tree, m_path) \in Named(tree, m_path)
      BY <2>5, <3>3 DEF Named
    <3> HIDE DEF e
    <3> QED BY <2>3, <3>4 DEF Straight
  <2> HIDE DEF r, e
  <2>7. e.ok
    <3>1. ~e.ok => w = r
      BY <2>3 DEF MovedAway
    <3>2. w.obj.ok
      BY DEF r
    <3> QED BY <2>3, <3>1, <3>2
  <2>8. w = [r EXCEPT !.obj = c]
    BY <2>3, <2>7 DEF MovedAway
  <2>9. c \in Contexts
    BY <2>3, <2>4, moveIs
  <2>10. w.obj = c /\ w.data = r.data /\ w.stream = r.stream
    <3> HIDE DEF c
    <3> QED BY <2>3, <2>8, <2>9, WithObject
  <2>11. c.ok
    BY <2>10 DEF r
  <2>12. \E q \in Paths : c.tree[q] = stream.file
    BY <2>3, <2>4, <2>6, <2>11, <2>p, MovedIsThere
  <2> HIDE DEF c, w
  <2>13. stream.file \in InTree(w.obj.tree)
    BY <2>10, <2>12 DEF InTree
  <2>14. stream.pending \subseteq w.data[stream.file] /\ w.stream.file = None
    BY <2>3, <2>4, <2>7, <2>10, ClosedIs
  <2> QED BY <2>13, <2>14 DEF w, r
<1> QED BY <1>1, FileInvariant, PTL

\* Links that stay the same, and no others, are followed the same.
LEMMA SameLinks ==
  ASSUME NEW t, NEW u, IsTree(t), IsTree(u), NEW p \in Seq(Names),
         \A q \in Paths : IsLink(t[q]) \/ IsLink(u[q]) => u[q] = t[q]
  PROVE  Followed(u, p) = Followed(t, p)
<1> DEFINE h == Hops(t, p)
           g == Hops(u, p)
           S == {n \in Nat : n <= MaxHops => g[n] = h[n]}
<1>1. /\ h[0] = p /\ g[0] = p
      /\ \A n \in Nat : n + 1 <= MaxHops => h[n + 1] = Hop(t, h[n]) /\ g[n + 1] = Hop(u, g[n])
      /\ \A n \in 0 .. MaxHops : h[n] \in Seq(Names) /\ g[n] \in Seq(Names)
  BY HopFacts
<1>2. ASSUME NEW q \in Seq(Names) PROVE Hop(u, q) = Hop(t, q)
  <2>1. LinksOn(u, q) = LinksOn(t, q)
    BY DEF LinksOn
  <2>2. CASE LinksOn(t, q) = {}
    BY <2>1, <2>2 DEF Hop
  <2>3. CASE LinksOn(t, q) # {}
    <3>1. PICK k : FirstLink(t, q, k)
      BY <2>3, FirstLinkIs
    <3>2. FirstOf(LinksOn(t, q)) = k /\ SubSeq(q, 1, k) \in Paths /\ IsLink(t[SubSeq(q, 1, k)])
      BY <3>1 DEF FirstLink
    <3>3. u[SubSeq(q, 1, k)] = t[SubSeq(q, 1, k)]
      BY <3>2
    <3> QED BY <2>1, <2>3, <3>2, <3>3 DEF Hop, Follow
  <2> QED BY <2>2, <2>3
<1> HIDE DEF h, g
<1>3. 0 \in S
  BY <1>1
<1>4. ASSUME NEW n \in Nat, n \in S PROVE n + 1 \in S
  <2> SUFFICES ASSUME n + 1 <= MaxHops PROVE g[n + 1] = h[n + 1]
    OBVIOUS
  <2>1. n \in 0 .. MaxHops
    BY MaxHopsAssumption
  <2> QED BY <1>1, <1>2, <1>4, <2>1
<1>5. MaxHops \in S
  <2> HIDE DEF S
  <2>1. Nat \subseteq S
    BY <1>3, <1>4, SetInduction
  <2> QED BY <2>1, MaxHopsAssumption
<1> QED BY <1>5, MaxHopsAssumption DEF Followed, h, g

\* Nothing is below what is not there.
LEMMA NothingUnder ==
  ASSUME NEW t, IsTree(t), NEW e \in Paths, t[e] = None, NEW q \in Paths, Under(q, e)
  PROVE  t[q] = None
<1>1. e \in Seq(Names) /\ q \in Seq(Names) /\ Len(e) \in Nat /\ Len(q) \in Nat /\ Len(e) >= 1
  BY PathIs
<1>2. Len(e) <= Len(q) /\ SubSeq(q, 1, Len(e)) = e
  BY DEF Under
<1>3. CASE Len(e) = Len(q)
  <2>1. SubSeq(q, 1, Len(q)) = q
    BY <1>1, <1>2, <1>3, PrefixIs
  <2> QED BY <1>2, <1>3, <2>1
<1>4. CASE Len(e) # Len(q)
  <2>1. Len(e) \in 1 .. Len(q)
    BY <1>1, <1>2
  <2>2. t[q] # None => t[SubSeq(q, 1, Len(e))] = Dir
    BY <1>4, <2>1, RootedPrefix
  <2> QED BY <1>2, <2>2, NodeAssumption
<1> QED BY <1>3, <1>4

\* u is t with more directories.
MoreDirs(t, u) == Grows(t, u) /\ \A q \in Paths : u[q] # t[q] => u[q] = Dir
\* With more directories, a name leads where it led, or to where nothing was.
LEMMA SamePlace ==
  ASSUME NEW t, NEW u, IsTree(t), IsTree(u), MoreDirs(t, u), NEW p \in Paths, NEW e \in Paths,
         e = IF realpath(u, p) = NoPath THEN Entry(u, p) ELSE realpath(u, p)
  PROVE  e \in Named(t, p) \/ \A q \in Paths : Under(q, e) => t[q] = None
<1>1. CASE t[e] = None
  BY <1>1, NothingUnder
<1>2. CASE t[e] # None
  <2>1. p \in Seq(Names) /\ p # <<>> /\ Parent(p) \in Seq(Names) /\ e # NoPath /\ e # <<>> /\ u[e] = t[e]
    BY <1>2, PathIs, FrontAndLast, NodeAssumption DEF MoreDirs, Grows
  <2>2. \A q \in Paths : IsLink(t[q]) \/ IsLink(u[q]) => u[q] = t[q]
    BY LinkIs DEF MoreDirs, Grows
  <2>3. Followed(u, p) = Followed(t, p) /\ Followed(u, Parent(p)) = Followed(t, Parent(p))
    BY <2>1, <2>2, SameLinks
  <2>4. CASE realpath(u, p) # NoPath
    <3>1. e = Followed(u, p) /\ ~IsLink(u[e])
      BY <2>1, <2>4, RealpathIs
    <3>2. realpath(t, p) = e
      BY <1>2, <2>1, <2>3, <3>1 DEF realpath, Found, IsLink
    <3> QED BY <2>1, <3>2 DEF Named
  <2>5. CASE realpath(u, p) = NoPath
    <3> DEFINE q == Parent(p)
               dir == realpath(u, q)
    <3>1. e = Entry(u, p)
      BY <2>5
    <3>2. Lookup(u, p, dir, e) /\ NodeAt(u, dir) = Dir
      BY <2>1, <3>1, EntryIs
    <3>3. dir # NoPath /\ dir \in Seq(Names) /\ e = Append(dir, Name(p)) /\ Parent(e) = dir
      BY <3>2 DEF Lookup
    <3>4. dir = Followed(u, q)
      BY <2>1, <3>3, RealpathIs
    <3>5. NodeAt(t, dir) = Dir
      BY <1>2, <3>3, ParentInTree
    <3>6. dir # <<>> => dir \in Paths
      BY <2>1, <3>3, RealpathIs
    <3> HIDE DEF dir
    <3>7. realpath(t, q) = dir
      <4>1. CASE dir = <<>>
        BY <2>3, <3>4, <4>1 DEF realpath, Found
      <4>2. CASE dir # <<>>
        <5>1. t[dir] = Dir
          BY <3>3, <3>5, <3>6, <4>2 DEF NodeAt
        <5>2. Dir \notin Links \cup {None}
          BY NodeAssumption
        <5> QED BY <2>3, <3>4, <3>6, <4>2, <5>1, <5>2 DEF realpath, Found
      <4> QED BY <4>1, <4>2
    <3>8. Entry(t, p) = e
      BY <3>3, <3>5, <3>7 DEF Entry, In
    <3>9. realpath(t, p) = NoPath
      BY <2>1, <2>5, GrowsResolves DEF MoreDirs
    <3> QED BY <2>1, <3>8, <3>9 DEF Named
  <2> QED BY <2>4, <2>5
<1> QED BY <1>1, <1>2

\* Two paths on the way to a third are on the way to each other.
LEMMA OneWay ==
  ASSUME NEW e \in Paths, NEW s \in Paths, NEW q \in Paths, Under(q, e), Under(q, s)
  PROVE  Under(e, s) \/ Under(s, e)
<1>1. e \in Seq(Names) /\ s \in Seq(Names) /\ q \in Seq(Names) /\ Len(e) \in Nat /\ Len(s) \in Nat
      /\ Len(q) \in Nat /\ Len(e) >= 1 /\ Len(s) >= 1
  BY PathIs
<1>2. Len(e) <= Len(q) /\ SubSeq(q, 1, Len(e)) = e /\ Len(s) <= Len(q) /\ SubSeq(q, 1, Len(s)) = s
  BY DEF Under
<1>3. \A j \in 1 .. Len(e) : SubSeq(e, 1, j) = SubSeq(q, 1, j)
  <2>1. Len(e) \in 1 .. Len(q)
    BY <1>1, <1>2
  <2> QED BY <1>1, <1>2, <2>1, PrefixIs
<1>4. \A j \in 1 .. Len(s) : SubSeq(s, 1, j) = SubSeq(q, 1, j)
  <2>1. Len(s) \in 1 .. Len(q)
    BY <1>1, <1>2
  <2> QED BY <1>1, <1>2, <2>1, PrefixIs
<1>5. CASE Len(s) <= Len(e)
  <2>1. Len(s) \in 1 .. Len(e)
    BY <1>1, <1>5
  <2> QED BY <1>2, <1>3, <1>5, <2>1 DEF Under
<1>6. CASE Len(e) <= Len(s)
  <2>1. Len(e) \in 1 .. Len(s)
    BY <1>1, <1>6
  <2> QED BY <1>2, <1>4, <1>6, <2>1 DEF Under
<1> QED BY <1>1, <1>5, <1>6

\* A copy to where no link is: it changes nothing but what is below there, not
\* the source, and when it succeeds all of the source is there.
CopiesTo(t, w, s, e) ==
    /\ SameBelow(t, s, w.tree, s)
    /\ w.ok => SameBelow(t, s, w.tree, e)
    /\ \A q \in Paths : w.tree[q] # t[q] => Under(q, e)
\* A copy merged over no links has all of the source below its landing.
LEMMA MergedClear ==
  ASSUME NEW t, IsTree(t), NEW s \in Paths, NEW e \in Paths, Fits(t, s, e),
         \A q \in Paths : Under(q, e) => ~IsLink(t[q])
  PROVE  CopiesTo(t, Merged(t, s, e, Clashes(t, s, e)), s, e)
<1> DEFINE clashes == Clashes(t, s, e)
           w == Merged(t, s, e, clashes)
<1>1. \A q \in Paths : ~ThroughLink(t, s, e, q)
  BY DEF ThroughLink, Meet
<1>2. \A q \in Paths : Over(t, s, e, clashes, q) = {}
  BY <1>1 DEF Over
<1>3. /\ w.ok <=> clashes = {}
      /\ \A q \in Paths : w.tree[q] = IF Moved(t, s, e, q) = None \/ Skipped(clashes, q)
                                      THEN t[q] ELSE Moved(t, s, e, q)
  <2>1. w.tree = [q \in Paths |-> Copied(t, s, e, clashes, q)] /\ w.ok = (clashes = {})
    BY DEF Merged
  <2>2. \A q \in Paths : w.tree[q] = Copied(t, s, e, clashes, q)
    BY <2>1
  <2> HIDE DEF w, clashes
  <2> QED BY <1>1, <1>2, <2>1, <2>2 DEF Copied
<1> HIDE DEF w, clashes
<1>4. \A q \in Paths : w.tree[q] # t[q] => Under(q, e)
  BY <1>3 DEF Moved
<1>5. s \in Seq(Names) /\ e \in Seq(Names)
  BY PathIs
<1>6. SameBelow(t, s, w.tree, s)
  <2> SUFFICES ASSUME NEW q \in Paths, Under(q, s), t[q] # None
               PROVE  w.tree[s \o SubSeq(q, Len(s) + 1, Len(q))] = t[q]
    BY DEF SameBelow
  <2>1. q \in Seq(Names) /\ Image(q, s, s) = s \o SubSeq(q, Len(s) + 1, Len(q))
    BY PathIs DEF Image
  <2>2. PICK z \in Seq(Names) : q = s \o z
    BY <1>5, <2>1, UnderSplits
  <2>3. Image(q, s, s) = q
    BY <1>5, <2>2, ImageIs
  <2>4. ~Under(q, e)
    BY OneWay DEF Fits
  <2> QED BY <1>4, <2>1, <2>3, <2>4
<1>7. w.ok => SameBelow(t, s, w.tree, e)
  <2> SUFFICES ASSUME w.ok, NEW q \in Paths, Under(q, s), t[q] # None
               PROVE  w.tree[e \o SubSeq(q, Len(s) + 1, Len(q))] = t[q]
    BY DEF SameBelow
  <2>1. Image(q, s, e) = e \o SubSeq(q, Len(s) + 1, Len(q)) /\ Image(q, s, e) \in Paths
    BY DEF Image, Fits
  <2>2. Moved(t, s, e, Image(q, s, e)) = t[q]
    <3>1. \A x \in Paths : Under(x, s) /\ Image(x, s, e) \in Paths => Moved(t, s, e, Image(x, s, e)) = t[x]
      BY MovedIs
    <3> QED BY <2>1, <3>1, Zenon
  <2>3. ~Skipped(clashes, Image(q, s, e))
    BY <1>3 DEF Skipped
  <2> QED BY <1>3, <2>1, <2>2, <2>3
<1> QED BY <1>4, <1>6, <1>7 DEF CopiesTo, w, clashes

\* cp of what is at s, to a name where no link is.
LEMMA cp_rfClear ==
  ASSUME NEW t, IsTree(t), NEW s \in Paths, Entry(t, s) = s, ~IsLink(t[s]), NEW to \in Paths,
         LET e == IF realpath(t, to) = NoPath THEN Entry(t, to) ELSE realpath(t, to) IN
         e # NoPath => \A q \in Paths : Under(q, e) => ~IsLink(t[q])
  PROVE  LET e == IF realpath(t, to) = NoPath THEN Entry(t, to) ELSE realpath(t, to)
             w == Written(t, s, Target(t, s, to))
         IN  IF e \in Paths THEN (w.ok = FALSE /\ w.tree = t) \/ CopiesTo(t, w, s, e)
             ELSE w.ok = FALSE /\ w.tree = t
<1> DEFINE e == IF realpath(t, to) = NoPath THEN Entry(t, to) ELSE realpath(t, to)
           w == Written(t, s, Target(t, s, to))
<1>1. Target(t, s, to) = e
  <2>1. NodeAt(t, s) = t[s]
    BY NodeAtIs
  <2> QED BY <2>1 DEF Target
<1>2. e \in Paths \/ e \in {NoPath, <<>>}
  <2>1. to \in Seq(Names) /\ to # <<>>
    BY PathIs
  <2> QED BY <2>1, EntryTyped, RealpathIs
<1>3. e # NoPath => \A q \in Paths : Under(q, e) => ~IsLink(t[q])
  OBVIOUS
<1> HIDE DEF e
<1>4. w = IF e \notin {NoPath, <<>>} /\ NodeAt(t, s) # None /\ Fits(t, s, e) /\ (IsLink(t[e]) => IsLink(t[s]))
          THEN Merged(t, s, e, Clashes(t, s, e)) ELSE Failed(t)
  BY <1>1 DEF Written
<1>5. Failed(t).ok = FALSE /\ Failed(t).tree = t
  BY DEF Failed
<1> HIDE DEF w
<1>6. CASE e \in {NoPath, <<>>}
  <2>1. e \notin Paths
    BY <1>6, PathIs, NodeAssumption
  <2> QED BY <1>4, <1>5, <1>6, <2>1 DEF e, w
<1>7. CASE e \in Paths /\ w = Failed(t)
  BY <1>5, <1>7 DEF e, w
<1>8. CASE e \in Paths /\ Fits(t, s, e) /\ w = Merged(t, s, e, Clashes(t, s, e))
  <2>1. e # NoPath
    BY <1>8, PathIs, NodeAssumption
  <2>2. CopiesTo(t, w, s, e)
    BY <1>3, <1>8, <2>1, MergedClear
  <2> QED BY <1>8, <2>2 DEF e, w
<1> QED BY <1>2, <1>4, <1>6, <1>7, <1>8

\* Where mv and cp put what is there is where the command was meant to.
LEMMA LandingIs ==
  ASSUME NEW c \in Contexts, NEW p, NEW dst \in Destinations, Prepares(c, p, dst), p.ok,
         getStat(c) # None, dst.slash => stat(p.tree, dst.path) = Dir
  PROVE  Into(p.tree, realpath(c.tree, c.path), dst.path)
            = Landing(c.tree, realpath(c.tree, c.path), dst)
<1> DEFINE src == realpath(c.tree, c.path)
<1>1. getStat(c) = c.tree[src]
  BY getStatIs
<1> HIDE DEF src
<1>2. getType(c) = DIRECTORY <=> c.tree[src] = Dir
  BY <1>1 DEF getType, TypeOf, UKNOWN, DIRECTORY, REGULAR_FILE
<1>3. stat(p.tree, dst.path) = Dir <=> dst.slash \/ c.tree[src] = Dir \/ stat(c.tree, dst.path) = Dir
  <2>1. CASE stat(c.tree, dst.path) # None
    <3>1. p.tree = c.tree /\ (stat(c.tree, dst.path) = Dir \/ getType(c) # DIRECTORY)
      BY <2>1 DEF Prepares
    <3> QED BY <1>2, <3>1
  <2>2. CASE stat(c.tree, dst.path) = None
    <3>1. IF getType(c) = DIRECTORY \/ dst.slash THEN stat(p.tree, dst.path) = Dir
          ELSE stat(p.tree, dst.path) = None
      BY <2>2 DEF Prepares
    <3> QED BY <1>2, <2>2, <3>1, NodeAssumption
  <2> QED BY <2>1, <2>2
<1> QED BY <1>3 DEF Into, Landing, src

\* A copy of what is there: the preparations, then cp, or not.
CopyRuns(c, r, p, dst, up) ==
    LET w == cp_rf(p.tree, realpath(c.tree, c.path), dst.path) IN
    /\ ~up => r.tree = p.tree /\ ~r.ok
    /\ \/ r.tree = p.tree /\ ~r.ok
       \/ /\ p.ok /\ up /\ r.tree = w.tree /\ r.ok = w.ok
          /\ dst.slash => stat(p.tree, dst.path) = Dir
\* copy runs cp -rf on the prepared tree, or fails and leaves that tree.
LEMMA copyRuns ==
  ASSUME NEW c \in Contexts, NEW type \in Types, NEW dst \in Destinations, NEW up \in BOOLEAN,
         getStat(c) # None, Plain(realpath(c.tree, c.path)), Plain(dst.path)
  PROVE  LET p == Prepared(isExist(c, type), dst) IN
         Prepares(isExist(c, type), p, dst) /\ CopyRuns(c, copy(c, type, dst, up), p, dst, up)
<1> DEFINE e == isExist(c, type)
           p == Prepared(e, dst)
           r == copy(c, type, dst, up)
           a == getAbsolutePath(p, type)
           src == realpath(c.tree, c.path)
           x == Transfer("cp", a, dst, up)
<1>1. e \in Contexts /\ e.tree = c.tree /\ e.path = c.path /\ e.exists = e.ok
  BY isExistIs
<1>2. c.path # <<>> /\ src \in Paths /\ stat(c.tree, c.path) # None /\ IsTree(c.tree) /\ c.path \in Seq(Names)
  BY getStatIs, ContextIs
<1>3. r = CopyTo(p, type, dst, up)
  BY DEF copy
<1> HIDE DEF e, r
<1>4. Prepares(e, p, dst)
  BY <1>1, PreparedIs
<1> HIDE DEF p
<1>5. p \in Contexts /\ Grows(c.tree, p.tree) /\ p.path = c.path /\ p.exists = e.exists
  BY <1>1, <1>4 DEF Prepares, SameObject
<1>7. CASE ~p.ok
  <2>1. r = p
    BY <1>3, <1>7 DEF CopyTo
  <2> QED BY <1>4, <1>7, <2>1 DEF r, p, e, CopyRuns
<1>8. CASE p.ok
  <2>1. r = x
    BY <1>3, <1>8 DEF CopyTo, Cp
  <2>2. p.exists
    BY <1>1, <1>4, <1>5, <1>8 DEF Prepares
  <2>3. a \in Contexts /\ a.tree = p.tree /\ a.path = p.path /\ a.exists /\ a.real \in Seq(Names)
        /\ a.real = Place(p, p.real)
    BY <1>5, <2>2, Asked
  <2> HIDE DEF a
  <2>4. a.real = src
    <3>1. IsTree(p.tree)
      BY <1>5, ContextIs
    <3>2. stat(p.tree, p.path) # None /\ realpath(p.tree, p.path) = src /\ p.path # <<>>
      BY <1>2, <1>5, <3>1, StatGrows
    <3> HIDE DEF src
    <3> QED BY <1>5, <2>3, <3>2, PlaceIs
  <2>5. Plain(a.real)
    BY <2>4
  <2>6. Transfers("cp", a, x, dst, up)
    BY <2>3, <2>5, TransferIs
  <2>7. Run("cp", a.tree, a.real, dst.path) = cp_rf(p.tree, src, dst.path)
    BY <2>3, <2>4 DEF Run
  <2> HIDE DEF x
  <2>8. CopyRuns(c, r, p, dst, up)
    BY <1>8, <2>1, <2>3, <2>6, <2>7 DEF CopyRuns, Transfers, src
  <2> QED BY <1>4, <2>8 DEF r, p, e
<1> QED BY <1>7, <1>8

\* Where a copy to `to` is written, and what a copy over no links does there.
LandsAt(t, to) == IF realpath(t, to) = NoPath THEN Entry(t, to) ELSE realpath(t, to)
ClearCopy(t, w, s, e) ==
    IF e \in Paths THEN (w.ok = FALSE /\ w.tree = t) \/ CopiesTo(t, w, s, e)
    ELSE w.ok = FALSE /\ w.tree = t

\* A copy of an entry that is no link, to where no links are, is clear.
LEMMA LandedClear ==
  ASSUME NEW t, IsTree(t), NEW s \in Paths, Entry(t, s) = s, ~IsLink(t[s]), NEW to \in Paths,
         LandsAt(t, to) # NoPath => \A q \in Paths : Under(q, LandsAt(t, to)) => ~IsLink(t[q])
  PROVE  ClearCopy(t, Written(t, s, Target(t, s, to)), s, LandsAt(t, to))
BY cp_rfClear DEF LandsAt, ClearCopy

\* The landings of the object hold no links: with cp a link there is replaced by
\* one of the source, and a file is written to where it leads, which may be the
\* source itself.
LandingsHoldNoLinks ==
    \A dst \in Destinations :
        \A n \in Named(tree, Landing(tree, realpath(tree, m_path), dst)), q \in Paths :
            Under(q, n) => ~IsLink(tree[q])

\* A copy of an object that is there leaves all of it where it is and, when it
\* returned true, has the same at its landing; it changes no other node.
\* (FsObject::copy, over a landing without links.)
LEMMA CopyRight ==
  ASSUME TypeOK, getStat(Now) # None, LandingsHoldNoLinks
  PROVE  CopyKeepsSource
<1> SUFFICES ASSUME NEW dst \in Destinations, NEW up \in BOOLEAN, Straight(dst),
                    NEW src \in Named(tree, m_path)
             PROVE  LET c == copy(Now, m_type, dst, up)
                        lost == {q \in Touched(tree, c.tree) : tree[q] # None}
                        to == Landing(tree, src, dst)
                        made == copy(Now, m_type, dst, FALSE).tree
                    IN  /\ SameBelow(tree, src, c.tree, src)
                        /\ c.ok => \E n \in Named(made, to) \cup {Entry(made, to)} :
                                       n # NoPath /\ SameBelow(tree, src, c.tree, n)
                        /\ \A q \in lost : \E n \in Named(tree, to) \cup {Entry(tree, to)} : Under(q, n)
  BY DEF CopyKeepsSource
<1> DEFINE c == copy(Now, m_type, dst, up)
           lost == {q \in Touched(tree, c.tree) : tree[q] # None}
           to == Landing(tree, src, dst)
           made == copy(Now, m_type, dst, FALSE).tree
           x == isExist(Now, m_type)
           p == Prepared(x, dst)
           w == cp_rf(p.tree, src, dst.path)
           u == p.tree
<1>1. Now \in Contexts /\ m_type \in Types /\ Now.tree = tree /\ Now.path = m_path
  BY NowIs DEF Now
<1>2. m_path # <<>> /\ realpath(tree, m_path) \in Paths /\ tree[realpath(tree, m_path)] # None
      /\ IsTree(tree) /\ m_path \in Seq(Names) /\ realpath(tree, m_path) # NoPath
  BY <1>1, getStatIs, ContextIs, PathIs, NodeAssumption
<1>3. src = realpath(tree, m_path) /\ src \in Paths /\ ~IsLink(tree[src]) /\ tree[src] # None
  <2>1. src = realpath(tree, m_path)
    BY <1>2 DEF Named
  <2>2. realpath(tree, m_path) # <<>>
    BY <1>2, PathIs
  <2> QED BY <1>2, <2>1, <2>2, RealpathIs
<1>p. Plain(realpath(Now.tree, Now.path)) /\ Plain(dst.path)
  BY <1>1, <1>3 DEF Straight
<1> HIDE DEF to
<1>4. Prepares(x, p, dst) /\ CopyRuns(Now, c, p, dst, up)
  BY <1>1, <1>p, copyRuns
<1>5. made = u
  <2>1. \A b \in BOOLEAN : CopyRuns(Now, copy(Now, m_type, dst, b), p, dst, b)
    BY <1>1, <1>p, copyRuns
  <2>2. FALSE \in BOOLEAN
    OBVIOUS
  <2> HIDE DEF p
  <2>3. CopyRuns(Now, copy(Now, m_type, dst, FALSE), p, dst, FALSE)
    BY <2>1, <2>2, Zenon
  <2> QED BY <2>3 DEF CopyRuns
<1>6. x \in Contexts /\ x.tree = tree /\ x.path = m_path /\ getStat(x) = getStat(Now)
  BY <1>1, isExistIs DEF getStat
<1> HIDE DEF c, made, x, p
<1>7. p \in Contexts /\ MoreDirs(tree, u) /\ IsTree(u)
  BY <1>4, <1>6, ContextIs DEF Prepares, MoreDirs
<1>8. \A q \in Paths : tree[q] # None => u[q] = tree[q]
  BY <1>7 DEF MoreDirs, Grows
<1>9. src \in Seq(Names) /\ src # <<>>
  BY <1>3, PathIs
<1>10. SameBelow(tree, src, u, src)
  <2> SUFFICES ASSUME NEW q \in Paths, Under(q, src), tree[q] # None
               PROVE  u[src \o SubSeq(q, Len(src) + 1, Len(q))] = tree[q]
    BY DEF SameBelow
  <2>1. q \in Seq(Names)
    BY PathIs
  <2>2. PICK z \in Seq(Names) : q = src \o z
    BY <1>9, <2>1, UnderSplits
  <2>3. Image(q, src, src) = q
    BY <1>9, <2>2, ImageIs
  <2> QED BY <1>8, <2>3 DEF Image
<1>11. CASE c.tree = u /\ ~c.ok
  <2>1. lost = {}
    BY <1>8, <1>11 DEF Touched
  <2> HIDE DEF lost
  <2> QED BY <1>10, <1>11, <2>1 DEF lost, c, to, made
<1>12. CASE /\ p.ok /\ up /\ c.tree = w.tree /\ c.ok = w.ok
            /\ dst.slash => stat(u, dst.path) = Dir
  <2>1. Into(u, src, dst.path) = to
    BY <1>3, <1>4, <1>6, <1>12, LandingIs DEF to
  <2> DEFINE e == IF realpath(u, to) = NoPath THEN Entry(u, to) ELSE realpath(u, to)
  <2>2. Entry(u, src) = src /\ u[src] = tree[src]
    <3>1. u[src] = tree[src]
      BY <1>3, <1>8
    <3>2. NodeAt(u, Parent(src)) = Dir
      BY <1>3, <1>7, <3>1, ParentInTree
    <3> QED BY <1>3, <1>7, <3>1, <3>2, EntryOfPlace
  <2>3. w = Written(u, src, Target(u, src, to))
    BY <1>9, <2>1, <2>2 DEF cp_rf
  <2>4. CASE to \notin Paths
    <3>1. w = Failed(u)
      BY <2>3, <2>4 DEF Target, Written
    <3>2. c.tree = u /\ ~c.ok
      BY <1>12, <3>1 DEF Failed
    <3> QED BY <1>11, <3>2
  <2>5. CASE to \in Paths
    <3>1. e \in Paths \/ e \in {NoPath, <<>>}
      <4>1. to \in Seq(Names) /\ to # <<>>
        BY <2>5, PathIs
      <4> QED BY <1>7, <4>1, EntryTyped, RealpathIs
    <3>2. e \in Paths => e \in Named(tree, to) \/ \A q \in Paths : Under(q, e) => tree[q] = None
      BY <1>2, <1>7, <2>5, SamePlace
    <3>3. e \in Paths => e \in Named(u, to) \cup {Entry(u, to)} /\ e # NoPath
      <4>1. to # <<>>
        BY <2>5, PathIs
      <4> QED BY <4>1, PathIs, NodeAssumption DEF Named
    <3>12. e # NoPath => e \in Paths
      <4>1. to \in Seq(Names) /\ to # <<>>
        BY <2>5, PathIs
      <4> QED BY <1>7, <4>1, EntryTyped, RealpathIs
    <3> HIDE DEF e
    <3>4. e \in Paths => \A q \in Paths : Under(q, e) => ~IsLink(u[q])
      <4> SUFFICES ASSUME e \in Paths, NEW q \in Paths, Under(q, e), IsLink(u[q]) PROVE FALSE
        OBVIOUS
      <4>1. IsLink(tree[q]) /\ tree[q] # None
        BY <1>7, LinkIs DEF MoreDirs
      <4>2. e \in Named(tree, to)
        BY <3>2, <4>1
      <4> QED BY <1>3, <4>1, <4>2 DEF LandingsHoldNoLinks, to
    <3>5. ClearCopy(u, w, src, e)
      <4> HIDE DEF to, w, u
      <4>1. ~IsLink(u[src])
        BY <1>3, <2>2
      <4>2. LandsAt(u, to) = e
        BY DEF LandsAt, e
      <4>3. LandsAt(u, to) # NoPath => \A q \in Paths : Under(q, LandsAt(u, to)) => ~IsLink(u[q])
        BY <3>4, <3>12, <4>2
      <4>4. ClearCopy(u, Written(u, src, Target(u, src, to)), src, LandsAt(u, to))
        BY <1>3, <1>7, <2>2, <2>5, <4>1, <4>3, LandedClear
      <4> QED BY <2>3, <4>2, <4>4
    <3>6. CASE w.ok = FALSE /\ w.tree = u
      BY <1>11, <1>12, <3>6
    <3>7. CASE e \in Paths /\ CopiesTo(u, w, src, e)
      <4> DEFINE v == c.tree
      <4>1. /\ SameBelow(u, src, v, src) /\ (c.ok => SameBelow(u, src, v, e))
            /\ \A q \in Paths : v[q] # u[q] => Under(q, e)
        BY <1>12, <3>7 DEF CopiesTo
      <4> HIDE DEF v
      <4>2. SameBelow(tree, src, v, src) /\ (c.ok => SameBelow(tree, src, v, e))
        BY <1>8, <4>1 DEF SameBelow
      <4>3. \A q \in lost : \E n \in Named(tree, to) \cup {Entry(tree, to)} : Under(q, n)
        <5> SUFFICES ASSUME NEW q \in lost
                     PROVE  \E n \in Named(tree, to) \cup {Entry(tree, to)} : Under(q, n)
          OBVIOUS
        <5>1. q \in Paths /\ tree[q] # None /\ v[q] # tree[q]
          BY DEF Touched, v
        <5>2. Under(q, e)
          BY <1>8, <4>1, <5>1
        <5> QED BY <3>2, <3>7, <5>1, <5>2
      <4>4. c.ok => \E n \in Named(made, to) \cup {Entry(made, to)} :
                        n # NoPath /\ SameBelow(tree, src, v, n)
        BY <1>5, <3>3, <3>7, <4>2
      <4> HIDE DEF lost
      <4> QED BY <4>2, <4>3, <4>4 DEF lost, v, c, to, made
    <3> HIDE DEF c, lost, made, to, w, u, e
    <3> QED BY <3>5, <3>6, <3>7 DEF ClearCopy
  <2> QED BY <2>4, <2>5
<1>13. CopyRuns(Now, c, p, dst, up)
  BY <1>4
<1>14. \/ c.tree = u /\ ~c.ok
       \/ /\ p.ok /\ up /\ c.tree = w.tree /\ c.ok = w.ok
          /\ dst.slash => stat(u, dst.path) = Dir
  BY <1>1, <1>3, <1>13 DEF CopyRuns
<1> QED BY <1>11, <1>12, <1>14

\* Neither a move nor a copy of what is there loses data on the way, where the
\* landings hold no links and the shell leaves the texts whole.
THEOREM MoveAndCopyCorrect ==
  Spec => [](getStat(Now) # None /\ LandingsHoldNoLinks => MoveAndCopyKeepData)
<1>1. TypeOK => (getStat(Now) # None /\ LandingsHoldNoLinks => MoveAndCopyKeepData)
  BY MoveRight, CopyRight DEF MoveAndCopyKeepData
<1> QED BY <1>1, TypeCorrect, PTL
=============================================================================
