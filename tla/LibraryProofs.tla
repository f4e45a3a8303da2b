---------------------------- MODULE LibraryProofs ----------------------------
(***************************************************************************)
(* What holds of the calls of Library in every run of the program, however *)
(* many descriptors, objects and addresses there are, however long the     *)
(* files, and however often a call is made.                                *)
(*                                                                         *)
(* IInv is inductive.  Its first part, Owned, says of the descriptor table *)
(* that every open number has exactly one keeper: an object, a place of    *)
(* the vector, or the running function, whose numbers are InFlight.  The   *)
(* second, FrameOK, says what the running call knows at each of its steps. *)
(* The third, ChannelOK, says that what is in flight between two processes *)
(* is a sequence of things and ends with the last byte of a message.       *)
(*                                                                         *)
(* The proofs are in three layers: what each operator on tables returns    *)
(* (MoveAssigned, CloseAll, the two ends of a message that carries         *)
(* descriptors), what each action does to IInv, and what IInv says of each *)
(* property.                                                               *)
(***************************************************************************)
EXTENDS Library, FiniteSetTheorems, WellFoundedInduction, TLAPS

\* A table of the right shape, and who has to close what: the numbers of E are
\* in the hands of the running function.
Table == [fds : [Fd -> Thing \cup {None}], held : [Owner -> Fd \cup {None}],
          vector : Seq(Fd), wrong : BOOLEAN]
HeldOnce(t) == \A o, p \in Owner : t.held[o] # None /\ t.held[o] = t.held[p] => o = p
VectorOnce(t) == \A i, j \in DOMAIN t.vector : t.vector[i] = t.vector[j] => i = j
Apart(t, E) ==
    /\ \A o \in Owner : t.held[o] \notin E
    /\ \A i \in DOMAIN t.vector : t.vector[i] \notin E
    /\ \A o \in Owner, i \in DOMAIN t.vector : t.held[o] # t.vector[i]
KeptBy(t, E, n) ==
    \/ n \in E
    \/ \E o \in Owner : t.held[o] = n
    \/ \E i \in DOMAIN t.vector : t.vector[i] = n
OpenAreKept(t, E) == \A n \in Fd : t.fds[n] # None <=> KeptBy(t, E, n)
Owned(t, E) ==
    /\ t \in Table /\ E \subseteq Fd
    /\ HeldOnce(t) /\ VectorOnce(t) /\ Apart(t, E) /\ OpenAreKept(t, E)
    /\ ~t.wrong

-----------------------------------------------------------------------------
\* Induction over the numbers, for a set instead of an operator.
LEMMA SetInduction ==
  ASSUME NEW S, 0 \in S, \A n \in Nat : n \in S => n + 1 \in S
  PROVE  Nat \subseteq S
<1> DEFINE T == Nat \ S
           R == OpToRel(<, Nat)
<1>1. SUFFICES ASSUME T # {} PROVE FALSE
  OBVIOUS
<1>2. IsWellFoundedOn(R, Nat)
  BY NatLessThanWellFounded
<1>3. T \subseteq Nat
  OBVIOUS
<1>4. PICK x \in T : \A y \in T : ~ (<<y, x>> \in R)
  <2> HIDE DEF T, R
  <2> QED BY <1>1, <1>2, <1>3, WFMin
<1>5. x \in Nat /\ x \notin S
  OBVIOUS
<1>6. \A y \in Nat : y < x => y \in S
  BY <1>4 DEF OpToRel
<1> HIDE DEF T, R
<1>7. x # 0 
  BY <1>5
<1>8. x - 1 \in Nat /\ x - 1 < x /\ x - 1 + 1 = x
  BY <1>5, <1>7, SMT
<1> QED 
  BY <1>5, <1>6, <1>8

Iterates(S, a, n, G) ==
    \E f \in [0..n -> S] : f[0] = a /\ \A i \in 1..n : f[i] = G[i, f[i-1]]
\* A function by recursion up to n: it starts at a, and G makes each value of
\* the one before.
LEMMA Recursion ==
  ASSUME NEW S, NEW a \in S, NEW n \in Nat, NEW G \in [(1..n) \X S -> S]
  PROVE  Iterates(S, a, n, G)
<1> DEFINE E(k) == \E f \in [0..k -> S] : f[0] = a /\ \A i \in 1..k : f[i] = G[i, f[i-1]]
           P == {k \in Nat : k <= n => E(k)}
<1>1. E(0)
  <2> DEFINE f == [i \in 0..0 |-> a]
  <2>1. f \in [0..0 -> S]
    OBVIOUS
  <2>2. f[0] = a
    OBVIOUS
  <2>3. \A i \in 1..0 : f[i] = G[i, f[i-1]]
    <3>1. 1..0 = {} BY SMT
    <3> QED BY <3>1
  <2> HIDE DEF f
  <2> QED BY <2>1, <2>2, <2>3
<1>2. ASSUME NEW k \in Nat, k <= n => E(k) PROVE k + 1 <= n => E(k + 1)
  <2>1. SUFFICES ASSUME k + 1 <= n PROVE E(k + 1)
    OBVIOUS
  <2>2. k <= n
    BY <2>1
  <2>3. PICK f \in [0..k -> S] : f[0] = a /\ \A i \in 1..k : f[i] = G[i, f[i-1]]
    BY <2>2, <1>2
  <2>4. f[k] \in S /\ k + 1 \in 1..n 
    BY <2>1
  <2> DEFINE g == G[k + 1, f[k]]
  <2>5. g \in S
    BY <2>4
  <2>g. g = G[k + 1, f[k]]
    OBVIOUS
  <2> HIDE DEF g
  <2> DEFINE h == [i \in 0..(k+1) |-> IF i = k + 1 THEN g ELSE f[i]]
  <2>6. h \in [0..(k+1) -> S]
    BY <2>5
  <2>7. h[0] = a
    <3>1. 0 \in 0..(k+1) /\ 0 # k + 1
      OBVIOUS
    <3> QED BY <3>1, <2>3
  <2>8. ASSUME NEW i \in 1..(k+1) PROVE h[i] = G[i, h[i-1]]
    <3>1. i - 1 \in 0..k /\ i \in 0..(k+1) /\ i - 1 \in 0..(k+1) /\ i - 1 # k + 1
      OBVIOUS
    <3>2. h[i-1] = f[i-1]
      BY <3>1
    <3>3. CASE i = k + 1
      <4>1. h[i] = g
        BY <3>3, <3>1, Zenon
      <4>2. i - 1 = k
        BY <3>3
      <4> QED BY <4>1, <4>2, <3>2, <3>3, <2>g
    <3>4. CASE i # k + 1
      <4>1. h[i] = f[i] /\ i \in 1..k
        BY <3>4
      <4> QED BY <4>1, <3>2, <2>3
    <3> QED BY <3>3, <3>4
  <2> HIDE DEF h
  <2> QED BY <2>6, <2>7, <2>8
<1>3. Nat \subseteq P
  <2> HIDE DEF E
  <2>1. 0 \in P BY <1>1
  <2>2. \A k \in Nat : k \in P => k + 1 \in P BY <1>2
  <2> HIDE DEF P
  <2> QED BY <2>1, <2>2, SetInduction
<1>4. E(n)
  <2> HIDE DEF E
  <2> QED BY <1>3
<1> QED BY <1>4 DEF Iterates

\* The least element of a set of numbers is one of them.
LEMMA LeastIsThere ==
  ASSUME NEW S \in SUBSET Nat, S # {}
  PROVE  Min(S) \in S /\ \A m \in S : Min(S) <= m
<1> DEFINE R == OpToRel(<, Nat)
<1>1. IsWellFoundedOn(R, Nat)
  BY NatLessThanWellFounded
<1>2. PICK x \in S : \A y \in S : ~ (<<y, x>> \in R)
  <2> HIDE DEF R
  <2> QED BY <1>1, WFMin
<1>3. ASSUME NEW y \in S PROVE x <= y
  <2>1. x \in Nat /\ y \in Nat
    BY <1>2
  <2>2. <<y, x>> \notin R
    BY <1>2
  <2>3. ~(y < x)
    BY <2>1, <2>2, Zenon DEF OpToRel
  <2> HIDE DEF R
  <2> QED BY <2>1, <2>3, SMT
<1> QED
  BY <1>2, <1>3 DEF Min

\* The number the kernel gives is free.
LEMMA LowestIsFree ==
  ASSUME NEW t, ~IsFull(t)
  PROVE  Lowest(t) \in Fd /\ t.fds[Lowest(t)] = None
<1>1. Free(t) \in SUBSET Nat /\ Free(t) # {}
  BY FdAssumption DEF Free, IsFull
<1>2. Lowest(t) \in Free(t)
  BY <1>1, LeastIsThere DEF Lowest
<1> QED
  BY <1>2 DEF Free

\* What is opened at a free number is in the hands of the function.
LEMMA Opens_Owned ==
  ASSUME NEW t, NEW E, Owned(t, E), NEW n \in Fd, t.fds[n] = None, NEW o \in Thing
  PROVE  Owned([t EXCEPT !.fds[n] = o], E \cup {n})
<1> DEFINE u == [t EXCEPT !.fds[n] = o]
<1>1. t \in Table
  BY DEF Owned
<1>2. u \in Table /\ u.held = t.held /\ u.vector = t.vector /\ u.wrong = t.wrong
  BY <1>1 DEF Table
<1>3. \A m \in Fd : u.fds[m] = IF m = n THEN o ELSE t.fds[m]
  BY <1>1 DEF Table
<1> HIDE DEF u
<1>4. o # None
  BY ThingAssumption
<1>5. ~KeptBy(t, E, n)
  BY DEF Owned, OpenAreKept
<1>6. Apart(u, E \cup {n})
  BY <1>2, <1>5 DEF Owned, Apart, KeptBy
<1>7. OpenAreKept(u, E \cup {n})
  BY <1>2, <1>3, <1>4 DEF Owned, OpenAreKept, KeptBy
<1>8. HeldOnce(u) /\ VectorOnce(u)
  BY <1>2 DEF Owned, HeldOnce, VectorOnce
<1>9. ~u.wrong /\ E \cup {n} \subseteq Fd
  BY <1>2 DEF Owned
<1> QED
  BY <1>2, <1>6, <1>7, <1>8, <1>9 DEF Owned, u

\* close of a number in hand.
LEMMA Close_Owned ==
  ASSUME NEW t, NEW E, Owned(t, E), NEW n \in E
  PROVE  Owned(close(t, n), E \ {n}) /\ close(t, n).held = t.held
         /\ close(t, n).fds = [t.fds EXCEPT ![n] = None]
<1> DEFINE u == [t EXCEPT !.fds[n] = None, !.wrong = @ \/ t.fds[n] = None]
<1>1. t \in Table /\ n \in Fd /\ n # None
  BY FdAssumption DEF Owned
<1>2. close(t, n) = u
  BY <1>1 DEF close
<1>3. t.fds[n] # None
  BY <1>1 DEF Owned, OpenAreKept, KeptBy
<1>4. u \in Table /\ u.held = t.held /\ u.vector = t.vector
  BY <1>1 DEF Table
<1>5. \A m \in Fd : u.fds[m] = IF m = n THEN None ELSE t.fds[m]
  BY <1>1 DEF Table
<1>6. ~u.wrong
  BY <1>1, <1>3, Zenon DEF Owned, Table
<1> HIDE DEF u
<1>7. Apart(u, E \ {n}) /\ E \ {n} \subseteq Fd
  BY <1>4 DEF Owned, Apart
<1>8. OpenAreKept(u, E \ {n})
  <2>1. ~ \E o \in Owner : t.held[o] = n
    BY DEF Owned, Apart
  <2>2. ~ \E i \in DOMAIN t.vector : t.vector[i] = n
    BY DEF Owned, Apart
  <2> QED BY <1>4, <1>5, <2>1, <2>2 DEF Owned, OpenAreKept, KeptBy
<1>9. HeldOnce(u) /\ VectorOnce(u)
  BY <1>4 DEF Owned, HeldOnce, VectorOnce
<1>10. u.fds = [t.fds EXCEPT ![n] = None]
  BY <1>1 DEF Table, u
<1> QED
  BY <1>2, <1>4, <1>6, <1>7, <1>8, <1>9, <1>10 DEF Owned

\* release: what an object held is in the hands of the function.
LEMMA Release_Owned ==
  ASSUME NEW t, NEW E, Owned(t, E), NEW h \in Owner
  PROVE  Owned(release(t, h), E \cup ({t.held[h]} \ {None})) /\ release(t, h).fds = t.fds
         /\ release(t, h).held = [t.held EXCEPT ![h] = None]
<1> DEFINE u == release(t, h)
           F == E \cup ({t.held[h]} \ {None})
<1>1. t \in Table
  BY DEF Owned
<1>2. u \in Table /\ u.fds = t.fds /\ u.vector = t.vector /\ u.wrong = t.wrong
  BY <1>1 DEF Table, release
<1>3. \A o \in Owner : u.held[o] = IF o = h THEN None ELSE t.held[o]
  BY <1>1 DEF Table, release
<1>4. F \subseteq Fd /\ t.held[h] \in Fd \cup {None} /\ None \notin Fd
  BY <1>1, FdAssumption DEF Owned, Table
<1> HIDE DEF u
<1>5. HeldOnce(u) /\ VectorOnce(u)
  BY <1>2, <1>3 DEF Owned, HeldOnce, VectorOnce
<1>6. Apart(u, F)
  <2>0. \A i \in DOMAIN t.vector : t.vector[i] \in Fd
    BY <1>1 DEF Table
  <2>1. \A o \in Owner : u.held[o] \notin F
    BY <1>3, <1>4 DEF Owned, Apart, HeldOnce
  <2>2. \A i \in DOMAIN u.vector : u.vector[i] \notin F
    BY <1>2 DEF Owned, Apart
  <2>3. \A o \in Owner, i \in DOMAIN u.vector : u.held[o] # u.vector[i]
    BY <1>2, <1>3, <1>4, <2>0 DEF Owned, Apart
  <2> QED BY <2>1, <2>2, <2>3 DEF Apart
<1>7. ASSUME NEW n \in Fd PROVE KeptBy(u, F, n) <=> KeptBy(t, E, n)
  BY <1>2, <1>3, <1>4 DEF KeptBy
<1>8. OpenAreKept(u, F)
  BY <1>2, <1>7 DEF Owned, OpenAreKept
<1>9. u.held = [t.held EXCEPT ![h] = None]
  BY <1>1 DEF Table, release, u
<1> QED
  BY <1>2, <1>4, <1>5, <1>6, <1>8, <1>9 DEF Owned, u

\* A number in hand, or none, becomes that of an empty object.
LEMMA Take_Owned ==
  ASSUME NEW t, NEW E, Owned(t, E), NEW h \in Owner, t.held[h] = None, NEW n \in E \cup {None}
  PROVE  Owned([t EXCEPT !.held[h] = n], E \ {n})
<1> DEFINE u == [t EXCEPT !.held[h] = n]
           F == E \ {n}
<1>1. t \in Table /\ E \subseteq Fd /\ None \notin Fd
  BY FdAssumption DEF Owned
<1>2. u \in Table /\ u.fds = t.fds /\ u.vector = t.vector /\ u.wrong = t.wrong
  BY <1>1 DEF Table
<1>3. \A o \in Owner : u.held[o] = IF o = h THEN n ELSE t.held[o]
  BY <1>1 DEF Table
<1> HIDE DEF u
<1>4. \A i \in DOMAIN t.vector : t.vector[i] \in Fd
  BY <1>1 DEF Table
<1>5. HeldOnce(u) /\ VectorOnce(u)
  BY <1>1, <1>2, <1>3 DEF Owned, HeldOnce, VectorOnce, Apart
<1>6. Apart(u, F)
  BY <1>1, <1>2, <1>3, <1>4 DEF Owned, Apart
<1>7. ASSUME NEW m \in Fd PROVE KeptBy(u, F, m) <=> KeptBy(t, E, m)
  BY <1>1, <1>2, <1>3 DEF KeptBy
<1>8. OpenAreKept(u, F)
  BY <1>2, <1>7 DEF Owned, OpenAreKept
<1> QED
  BY <1>1, <1>2, <1>5, <1>6, <1>8 DEF Owned, u

IsReset(t, u, E, h, n) ==
    /\ Owned(u, E \ {n}) /\ u.vector = t.vector
    /\ u.held = [t.held EXCEPT ![h] = n]
    /\ \A m \in Fd : m # t.held[h] => u.fds[m] = t.fds[m]
\* reset: what was held is closed, and n, in hand or None, is held.
LEMMA Reset_Owned ==
  ASSUME NEW t, NEW E, Owned(t, E), NEW h \in Owner, NEW n \in E \cup {None}
  PROVE  IsReset(t, reset(t, h, n), E, h, n)
<1> DEFINE old == t.held[h]
           F == E \cup ({old} \ {None})
           r == release(t, h)
           c == close(r, old)
           u == [c EXCEPT !.held[h] = n]
<1>0. t \in Table /\ old \in Fd \cup {None} /\ None \notin Fd /\ old \notin E /\ E \subseteq Fd
  BY FdAssumption DEF Owned, Table, Apart
<1>1. Owned(r, F) /\ r.fds = t.fds /\ r.held = [t.held EXCEPT ![h] = None] /\ r.vector = t.vector
  <2>1. r.vector = t.vector
    BY <1>0 DEF release, Table
  <2> QED BY <2>1, Release_Owned
<1>2. /\ Owned(c, E) /\ c.held = r.held /\ c.vector = t.vector
      /\ \A m \in Fd : m # old => c.fds[m] = t.fds[m]
  <2>1. CASE old = None
    <3>1. c = r /\ F = E
      BY <2>1 DEF close
    <3> QED BY <1>1, <3>1
  <2>2. CASE old # None
    <3>1. F \ {old} = E /\ old \in F
      BY <2>2, <1>0
    <3>2. c.vector = r.vector
      BY <1>0, <2>2 DEF close, release, Table
    <3> HIDE DEF r, F
    <3>3. Owned(r, F) /\ old \in F
      BY <3>1, <1>1
    <3>4. Owned(c, F \ {old})
      BY <3>3, Close_Owned
    <3>5. c.held = r.held
      BY <3>3, Close_Owned
    <3>6. c.fds = [t.fds EXCEPT ![old] = None]
      <4>1. close(r, old).fds = [r.fds EXCEPT ![old] = None]
        BY <3>3, Close_Owned
      <4> QED BY <4>1, <1>1
    <3>7. \A m \in Fd : m # old => c.fds[m] = t.fds[m]
      BY <3>6, <1>0 DEF Table
    <3> QED BY <3>1, <3>2, <3>4, <3>5, <3>7, <1>1
  <2> QED BY <2>1, <2>2
<1>3. reset(t, h, n) = u
  BY <1>0 DEF reset, close, release, Table
<1> HIDE DEF c, r
<1>4. c.held[h] = None /\ c \in Table
  BY <1>0, <1>1, <1>2 DEF Owned, Table
<1>5. Owned(u, E \ {n})
  BY <1>2, <1>4, Take_Owned
<1>6. u.fds = c.fds /\ u.vector = c.vector /\ u.held = [c.held EXCEPT ![h] = n]
  BY <1>4 DEF Table
<1>7. u.held = [t.held EXCEPT ![h] = n]
  BY <1>0, <1>1, <1>2, <1>6 DEF Table
<1> QED
  BY <1>2, <1>3, <1>5, <1>6, <1>7 DEF IsReset

-----------------------------------------------------------------------------
\* operator=(unique_fd&&) leaks nothing, an object assigned to itself too.
LEMMA MoveAssigned_Owned ==
  ASSUME NEW t, Owned(t, {}), NEW h \in Owner, NEW s \in Owner
  PROVE  Owned(MoveAssigned(t, h, s), {})
<1> DEFINE n == t.held[s]
           E == {} \cup ({n} \ {None})
           r == release(t, s)
<1>1. Owned(r, E)
  BY Release_Owned
<1>2. n \in E \cup {None} /\ E \ {n} = {}
  OBVIOUS
<1>3. Owned(reset(r, h, n), E \ {n})
  <2> HIDE DEF E, r, n
  <2>1. IsReset(r, reset(r, h, n), E, h, n)
    BY <1>1, <1>2, Reset_Owned
  <2> QED BY <2>1 DEF IsReset
<1> QED
  BY <1>2, <1>3 DEF MoveAssigned

\* The two ends of a pipe.
LEMMA EndsAreThings == SetToSeq(Object)[1] \in Thing /\ SetToSeq(Object)[2] \in Thing
<1> DEFINE n == Cardinality(Object)
           ends == SetToSeq(Object)
<1>1. n \in Nat /\ n >= 2
  BY ObjectAssumption, FS_CardinalityType
<1>2. \E f \in [1 .. n -> Object] : IsInjective(f)
  <2>1. ExistsBijection(1 .. n, Object)
    BY ObjectAssumption, FS_CardinalityType
  <2>2. PICK f : f \in Bijection(1 .. n, Object)
    BY <2>1 DEF ExistsBijection
  <2>3. f \in [1 .. n -> Object] /\ \A a, b \in 1 .. n : f[a] = f[b] => a = b
    BY <2>2 DEF Bijection, Injection, IsInjective
  <2>4. DOMAIN f = 1 .. n
    BY <2>3
  <2> QED BY <2>3, <2>4 DEF IsInjective
<1>3. ends \in [1 .. n -> Object]
  BY <1>2 DEF SetToSeq
<1>4. 1 \in 1 .. n /\ 2 \in 1 .. n
  BY <1>1
<1> QED
  BY <1>3, <1>4 DEF Thing

\* open: the lowest number is in the hands of the function.
LEMMA Opened_Owned ==
  ASSUME NEW t, NEW E, Owned(t, E), ~IsFull(t), NEW o \in Thing
  PROVE  /\ Owned(Opened(t, o), E \cup {Lowest(t)})
         /\ Lowest(t) \in Fd /\ Lowest(t) \notin E
         /\ Opened(t, o).fds = [t.fds EXCEPT ![Lowest(t)] = o]
<1>1. Lowest(t) \in Fd /\ t.fds[Lowest(t)] = None
  BY LowestIsFree
<1>2. Lowest(t) \notin E
  BY <1>1 DEF Owned, OpenAreKept, KeptBy
<1>3. Opened(t, o).fds = [t.fds EXCEPT ![Lowest(t)] = o]
  BY DEF Opened, Owned, Table
<1>4. Owned(Opened(t, o), E \cup {Lowest(t)})
  BY <1>1, Opens_Owned DEF Opened
<1> QED
  BY <1>1, <1>2, <1>3, <1>4

\* pipe2 and socketpair leak nothing, into two objects or one.
LEMMA Pair_Owned ==
  ASSUME NEW t, Owned(t, {}), NEW left \in Owner, NEW right \in Owner
  PROVE  Owned(Pair(t, left, right), {})
<1> DEFINE ends == SetToSeq(Object)
           a == Lowest(t)
           one == Opened(t, ends[1])
           b == Lowest(one)
           two == Opened(one, ends[2])
<1>1. CASE IsFull(t) \/ IsFull(one)
  BY <1>1 DEF Pair
<1>2. CASE ~(IsFull(t) \/ IsFull(one))
  <2>1. ends[1] \in Thing /\ ends[2] \in Thing
    BY EndsAreThings
  <2> HIDE DEF ends
  <2>2. Owned(one, {} \cup {a})
    BY <1>2, <2>1, Opened_Owned
  <2>3. Owned(two, ({} \cup {a}) \cup {b}) /\ b \notin ({} \cup {a})
    <3> HIDE DEF one, a
    <3> QED BY <1>2, <2>1, <2>2, Opened_Owned
  <2> DEFINE u == reset(two, left, a)
  <2>4. Owned(two, {a, b}) /\ a # b
    <3> HIDE DEF two, a, b
    <3> {} \cup {a} \cup {b} = {a, b}
      OBVIOUS
    <3> QED BY <2>3
  <2>5. Owned(u, {a, b} \ {a})
    <3> HIDE DEF two, a, b
    <3>1. IsReset(two, reset(two, left, a), {a, b}, left, a)
      BY <2>4, Reset_Owned
    <3> QED BY <3>1 DEF IsReset
  <2>6. {a, b} \ {a} = {b} /\ {b} \ {b} = {}
    <3> HIDE DEF a, b
    <3> QED BY <2>4
  <2>7. Owned(reset(u, right, b), {b} \ {b})
    <3> HIDE DEF u, a, b
    <3>1. IsReset(u, reset(u, right, b), {b}, right, b)
      BY <2>5, <2>6, Reset_Owned
    <3> QED BY <3>1 DEF IsReset
  <2>8. Pair(t, left, right) = reset(u, right, b)
    BY <1>2 DEF Pair, ends
  <2> QED BY <2>6, <2>7, <2>8
<1> QED
  BY <1>1, <1>2

\* fdopen leaks nothing, whether it succeeds or not.
LEMMA Fdopened_Owned ==
  ASSUME NEW t, Owned(t, {}), NEW h \in Owner, h # FILE, t.held[FILE] = None, NEW ok \in BOOLEAN
  PROVE  Owned(Fdopened(t, h, ok), {})
<1> DEFINE n == t.held[h]
           E == {} \cup ({n} \ {None})
           r == release(t, h)
<1>1. Owned(r, E) /\ r.held = [t.held EXCEPT ![h] = None]
  BY Release_Owned
<1>2. n \in E \cup {None} /\ E \ {n} = {} /\ FILE \in Owner
  BY DEF Owner
<1>3. r.held[FILE] = None
  BY <1>1, <1>2 DEF Owned, Table
<1>4. CASE ok
  <2>1. Owned([r EXCEPT !.held[FILE] = n], E \ {n})
    <3> HIDE DEF r, n, E
    <3> QED BY <1>1, <1>2, <1>3, Take_Owned
  <2>2. Fdopened(t, h, ok) = [r EXCEPT !.held[FILE] = n]
    BY <1>4 DEF Fdopened
  <2> QED BY <2>1, <2>2, <1>2
<1>5. CASE ~ok
  <2>1. Fdopened(t, h, ok) = close(r, n)
    BY <1>5 DEF Fdopened
  <2>2. CASE n = None
    <3>1. close(r, n) = r /\ E = {}
      BY <2>2 DEF close
    <3> QED BY <3>1, <2>1, <1>1
  <2>3. CASE n # None
    <3>1. n \in E
      BY <2>3
    <3>2. Owned(close(r, n), E \ {n})
      <4> HIDE DEF r, n, E
      <4> QED BY <1>1, <3>1, Close_Owned
    <3> QED BY <3>2, <2>1, <1>2
  <2> QED BY <2>2, <2>3
<1> QED
  BY <1>4, <1>5

-----------------------------------------------------------------------------
\* Sequences of numbers: what CloseAll closes, and what recvmsg makes.
IsClosed(t, u, E, ns) == Owned(u, E \ Range(ns)) /\ u.held = t.held /\ u.vector = t.vector
\* Numbers in hand, each once, are closed one after the other.
LEMMA CloseAll_Owned ==
  ASSUME NEW t, NEW E, Owned(t, E), NEW ns \in Seq(Fd), IsInjective(ns), Range(ns) \subseteq E
  PROVE  IsClosed(t, CloseAll(t, ns), E, ns)
<1> DEFINE R == Range(ns)
           u == CloseAll(t, ns)
<1>1. t \in Table /\ E \subseteq Fd
  BY DEF Owned
<1>2. u.held = t.held /\ u.vector = t.vector /\ u.fds = [n \in Fd |-> IF n \in R THEN None ELSE t.fds[n]]
  BY <1>1 DEF CloseAll, Table
<1>3. u \in Table /\ ~u.wrong
  <2>1. \A i \in DOMAIN ns : ns[i] \in R /\ ns[i] \in Fd
    BY DEF Range
  <2>2. \A i \in DOMAIN ns : t.fds[ns[i]] # None
    BY <2>1 DEF Owned, OpenAreKept, KeptBy
  <2>3. ~(t.wrong \/ ~IsInjective(ns) \/ \E i \in DOMAIN ns : t.fds[ns[i]] = None)
    BY <2>2 DEF Owned
  <2> DEFINE w == t.wrong \/ ~IsInjective(ns) \/ \E i \in DOMAIN ns : t.fds[ns[i]] = None
             f == [n \in Fd |-> IF n \in R THEN None ELSE t.fds[n]]
  <2>4. u = [t EXCEPT !.fds = f, !.wrong = w]
    BY <1>1 DEF CloseAll, Table
  <2>5. f \in [Fd -> Thing \cup {None}]
    BY <1>1 DEF Table
  <2>6. w = FALSE
    BY <2>3
  <2>7. u = [t EXCEPT !.fds = f, !.wrong = FALSE]
    BY <2>4, <2>6
  <2> HIDE DEF u, f, w
  <2> QED BY <2>5, <2>7, <1>1 DEF Table
<1> HIDE DEF u
<1>4. Apart(u, E \ R) /\ E \ R \subseteq Fd
  BY <1>1, <1>2 DEF Owned, Apart
<1>5. HeldOnce(u) /\ VectorOnce(u)
  BY <1>2 DEF Owned, HeldOnce, VectorOnce
<1>6. \A n \in R : /\ n \in E
                   /\ ~ \E o \in Owner : t.held[o] = n
                   /\ ~ \E i \in DOMAIN t.vector : t.vector[i] = n
  BY DEF Owned, Apart
<1> HIDE DEF R
<1>7. OpenAreKept(u, E \ R)
  BY <1>1, <1>2, <1>6 DEF Owned, OpenAreKept, KeptBy
<1> QED
  BY <1>2, <1>3, <1>4, <1>5, <1>7 DEF IsClosed, Owned, R, u

\* Counted from the lowest one, the free numbers have different ranks.
LEMMA RankIsRight ==
  ASSUME NEW t, NEW n \in Free(t)
  PROVE  /\ Rank(t, n) \in 1 .. Cardinality(Free(t))
         /\ \A m \in Free(t) : m < n => Rank(t, m) < Rank(t, n)
<1> DEFINE Upto(m) == {k \in Free(t) : k <= m}
<1>1. IsFiniteSet(Free(t)) /\ Free(t) \subseteq Nat /\ Free(t) \subseteq Fd
  BY FdAssumption, FS_Subset DEF Free
<1>2. IsFiniteSet(Upto(n)) /\ Cardinality(Upto(n)) <= Cardinality(Free(t))
      /\ Cardinality(Upto(n)) \in Nat /\ Cardinality(Free(t)) \in Nat
  BY <1>1, FS_Subset, FS_CardinalityType
<1>3. Cardinality(Upto(n)) # 0
  <2>1. n \in Upto(n)
    BY <1>1
  <2> QED BY <1>2, <2>1, FS_EmptySet
<1>4. ASSUME NEW m \in Free(t), m < n
      PROVE  Cardinality(Upto(m)) < Cardinality(Upto(n))
  <2>1. Upto(m) \subseteq Upto(n) /\ n \in Upto(n) /\ n \notin Upto(m)
    BY <1>1, <1>4
  <2>2. Upto(m) # Upto(n)
    BY <2>1
  <2> HIDE DEF Upto
  <2>3. Cardinality(Upto(m)) <= Cardinality(Upto(n)) /\ (Cardinality(Upto(m)) = Cardinality(Upto(n)) => Upto(m) = Upto(n))
        /\ Cardinality(Upto(m)) \in Nat
    BY <1>2, <2>1, FS_Subset, FS_CardinalityType
  <2> QED BY <2>2, <2>3, <1>2
<1> HIDE DEF Upto
<1>5. \A m \in Free(t) : Rank(t, m) = Cardinality(Upto(m))
  BY DEF Rank, Upto
<1> QED
  BY <1>2, <1>3, <1>4, <1>5

\* There is a free number of every rank up to their count.
LEMMA RankIsThere ==
  ASSUME NEW t, NEW i \in 1 .. Cardinality(Free(t))
  PROVE  Nth(t, i) \in Free(t) /\ Rank(t, Nth(t, i)) = i
<1> DEFINE F == Free(t)
           c == Cardinality(F)
           P == {k \in Nat : k < c => \E n \in F : Rank(t, n) = k + 1}
<1>1. IsFiniteSet(F) /\ F \subseteq Nat /\ c \in Nat
  BY FdAssumption, FS_Subset, FS_CardinalityType DEF Free
<1>2. 0 \in P
  <2>1. SUFFICES ASSUME 0 < c PROVE \E n \in F : Rank(t, n) = 1
    BY <1>1
  <2>2. F # {}
    BY <2>1, <1>1, FS_EmptySet
  <2>3. Min(F) \in F /\ \A m \in F : Min(F) <= m
    BY <1>1, <2>2, LeastIsThere
  <2>4. {m \in F : m <= Min(F)} = {Min(F)}
    BY <1>1, <2>3
  <2>5. Rank(t, Min(F)) = 1
    BY <2>4, FS_Singleton DEF Rank
  <2> QED BY <2>3, <2>5
<1>3. ASSUME NEW k \in Nat, k \in P PROVE k + 1 \in P
  <2>1. SUFFICES ASSUME k + 1 < c PROVE \E n \in F : Rank(t, n) = k + 2
    BY <1>1, <1>3
  <2>2. PICK n \in F : Rank(t, n) = k + 1
    BY <2>1, <1>1, <1>3
  <2> DEFINE Up == {m \in F : n < m}
             Low == {m \in F : m <= n}
  <2>3. Cardinality(Low) = k + 1
    BY <2>2 DEF Rank
  <2>4. Up # {}
    <3>1. SUFFICES ASSUME Up = {} PROVE FALSE
      OBVIOUS
    <3>2. Low = F
      BY <3>1, <1>1
    <3> QED BY <3>2, <2>3, <2>1, <1>1
  <2>5. Min(Up) \in Up /\ \A m \in Up : Min(Up) <= m
    BY <1>1, <2>4, LeastIsThere
  <2>6. {m \in F : m <= Min(Up)} = Low \cup {Min(Up)} /\ Min(Up) \notin Low
    BY <1>1, <2>5
  <2>7. IsFiniteSet(Low)
    BY <1>1, FS_Subset
  <2>8. Cardinality(Low \cup {Min(Up)}) = k + 2
    <3> HIDE DEF Low, Up
    <3>1. Cardinality(Low \cup {Min(Up)}) = Cardinality(Low) + 1
      BY <2>6, <2>7, FS_AddElement
    <3> QED BY <3>1, <2>3
  <2>9. Rank(t, Min(Up)) = k + 2
    BY <2>6, <2>8 DEF Rank
  <2> QED BY <2>5, <2>9
<1>4. Nat \subseteq P
  <2>1. \A k \in Nat : k \in P => k + 1 \in P
    BY <1>3
  <2> HIDE DEF P
  <2> QED BY <1>2, <2>1, SetInduction
<1>5. i - 1 \in Nat /\ i - 1 < c /\ i - 1 + 1 = i
  BY <1>1
<1>6. \E n \in F : Rank(t, n) = i
  BY <1>4, <1>5
<1> QED
  BY <1>6 DEF Nth

\* Filled: the numbers recvmsg makes are in hand, and refer to what came.
Numbers(t, k) == [i \in 1 .. k |-> Nth(t, i)]
IsFilled(t, u, E, c, ns) ==
    /\ ns \in Seq(Fd) /\ IsInjective(ns) /\ Len(ns) = Len(c)
    /\ Owned(u, E \cup Range(ns))
    /\ u.held = t.held /\ u.vector = t.vector
    /\ \A i \in 1 .. Len(c) : u.fds[ns[i]] = c[i]
\* recvmsg puts what it carries into the lowest free numbers.
LEMMA Filled_Owned ==
  ASSUME NEW t, NEW E, Owned(t, E), NEW c \in Seq(Thing), Len(c) <= Cardinality(Free(t))
  PROVE  IsFilled(t, Filled(t, c), E, c, Numbers(t, Len(c)))
<1> DEFINE k == Len(c)
           F == Free(t)
           ns == Numbers(t, k)
           u == Filled(t, c)
<1>0. t \in Table /\ E \subseteq Fd
  BY DEF Owned
<1>1. k \in Nat /\ Cardinality(F) \in Nat /\ F \subseteq Fd /\ F \subseteq Nat
  <2>1. F \subseteq Fd /\ F \subseteq Nat /\ IsFiniteSet(F)
    BY FdAssumption, FS_Subset DEF Free
  <2> HIDE DEF F
  <2> QED BY <2>1, FS_CardinalityType
<1>2. \A i \in 1 .. k : ns[i] \in F /\ Rank(t, ns[i]) = i
  <2>1. \A i \in 1 .. k : i \in 1 .. Cardinality(F)
    BY <1>1
  <2> QED BY <2>1, RankIsThere DEF Numbers
<1>3. ns \in Seq(Fd) /\ DOMAIN ns = 1 .. k /\ Len(ns) = k
  <2>1. ns \in [1 .. k -> Fd]
    BY <1>1, <1>2 DEF Numbers
  <2> HIDE DEF ns
  <2> QED BY <2>1, <1>1
<1> HIDE DEF ns
<1>4. IsInjective(ns)
  BY <1>2, <1>3 DEF IsInjective
<1>5. ASSUME NEW n \in F
      PROVE  n \in Range(ns) <=> Rank(t, n) <= k
  <2>1. Rank(t, n) \in 1 .. Cardinality(F)
    BY RankIsRight
  <2>2. ASSUME Rank(t, n) <= k PROVE n \in Range(ns)
    <3> DEFINE i == Rank(t, n)
    <3>1. i \in 1 .. k /\ ns[i] \in F /\ Rank(t, ns[i]) = i
      BY <2>1, <2>2, <1>1, <1>2
    <3>2. ~(ns[i] < n) /\ ~(n < ns[i])
      <4>1. ns[i] < n => Rank(t, ns[i]) < Rank(t, n)
        BY <3>1, RankIsRight
      <4>2. n < ns[i] => Rank(t, n) < Rank(t, ns[i])
        BY <3>1, RankIsRight
      <4> QED BY <4>1, <4>2, <3>1
    <3>3. ns[i] = n
      BY <3>1, <3>2, <1>1
    <3> QED BY <3>1, <3>3, <1>3 DEF Range
  <2>3. ASSUME n \in Range(ns) PROVE Rank(t, n) <= k
    BY <2>3, <1>2, <1>3 DEF Range
  <2> QED BY <2>2, <2>3
<1>6. Range(ns) \subseteq F
  BY <1>2, <1>3 DEF Range
<1>7. \A n \in F : Rank(t, n) \in Nat /\ Rank(t, n) >= 1
  BY RankIsRight
<1> DEFINE f == [n \in Fd |-> IF n \in F /\ Rank(t, n) <= k THEN c[Rank(t, n)] ELSE t.fds[n]]
<1>8. u = [t EXCEPT !.fds = f]
  BY DEF Filled
<1>9. f \in [Fd -> Thing \cup {None}]
  BY <1>0, <1>1, <1>7 DEF Table
<1>10. \A n \in Fd : f[n] = IF n \in Range(ns) THEN c[Rank(t, n)] ELSE t.fds[n]
  BY <1>5, <1>6
<1>11. \A n \in Range(ns) : c[Rank(t, n)] \in Thing
  BY <1>5, <1>6, <1>7
<1> HIDE DEF f, u
<1>12. u \in Table /\ u.fds = f /\ u.held = t.held /\ u.vector = t.vector /\ u.wrong = t.wrong
  BY <1>0, <1>8, <1>9 DEF Table
<1>13. \A n \in F : ~KeptBy(t, E, n)
  BY DEF Free, Owned, OpenAreKept
<1>14. Apart(u, E \cup Range(ns)) /\ E \cup Range(ns) \subseteq Fd
  BY <1>0, <1>1, <1>6, <1>12, <1>13 DEF Owned, Apart, KeptBy
<1>15. OpenAreKept(u, E \cup Range(ns))
  BY <1>10, <1>11, <1>12, ThingAssumption DEF Owned, OpenAreKept, KeptBy
<1>16. HeldOnce(u) /\ VectorOnce(u) /\ ~u.wrong
  BY <1>12 DEF Owned, HeldOnce, VectorOnce
<1>17. \A i \in 1 .. k : u.fds[ns[i]] = c[i]
  BY <1>2, <1>3, <1>6, <1>1, <1>10, <1>12 DEF Range
<1> QED
  BY <1>3, <1>4, <1>12, <1>14, <1>15, <1>16, <1>17 DEF IsFilled, Owned, u, ns

\* reset makes a table of a table.
LEMMA ResetTyped ==
  ASSUME NEW t \in Table, NEW h \in Owner, NEW n \in Fd \cup {None}
  PROVE  reset(t, h, n) \in Table
<1>1. close(t, t.held[h]) \in Table
  <2>1. CASE t.held[h] = None
    BY <2>1 DEF close
  <2>2. CASE t.held[h] # None
    <3> DEFINE m == t.held[h]
               w == t.wrong \/ t.fds[m] = None
               f == [t.fds EXCEPT ![m] = None]
    <3>1. m \in Fd /\ w \in BOOLEAN /\ f \in [Fd -> Thing \cup {None}]
      BY <2>2 DEF Table
    <3>2. close(t, m) = [t EXCEPT !.fds = f, !.wrong = w]
      BY <2>2 DEF close, Table
    <3> HIDE DEF f, w, m
    <3>3. [t EXCEPT !.fds = f, !.wrong = w] \in Table
      BY <3>1 DEF Table
    <3> QED BY <3>2, <3>3 DEF m
  <2> QED BY <2>1, <2>2
<1> QED
  BY <1>1 DEF reset, Table

Chain(t, f, hs, ns) ==
    /\ f \in [0 .. Len(hs) -> Table]
    /\ f[0] = t /\ Resets(t, hs, ns) = f[Len(hs)]
    /\ \A i \in 1 .. Len(hs) : f[i] = reset(f[i - 1], hs[i], ns[i])
\* Resets is what its steps make of the table, one object after the other.
LEMMA ResetsAreSteps ==
  ASSUME NEW t \in Table, NEW hs \in Seq(Owner), NEW ns,
         \A i \in 1 .. Len(hs) : ns[i] \in Fd \cup {None}
  PROVE  \E f : Chain(t, f, hs, ns)
<1> DEFINE n == Len(hs)
           G == [x \in (1 .. n) \X Table |-> reset(x[2], hs[x[1]], ns[x[1]])]
           Is(f) == f = [i \in 0 .. n |-> IF i = 0 THEN t ELSE reset(f[i - 1], hs[i], ns[i])]
           a == CHOOSE f : Is(f)
<1>1. n \in Nat /\ \A i \in 1 .. n : hs[i] \in Owner
  OBVIOUS
<1>2. \A i \in 1 .. n, x \in Table : reset(x, hs[i], ns[i]) \in Table
  BY <1>1, ResetTyped
<1>3. G \in [(1 .. n) \X Table -> Table]
  BY <1>2
<1>4. \A i \in 1 .. n, x \in Table : G[i, x] = reset(x, hs[i], ns[i])
  OBVIOUS
<1>5. PICK f \in [0 .. n -> Table] : f[0] = t /\ \A i \in 1 .. n : f[i] = G[i, f[i-1]]
  <2> HIDE DEF G, n
  <2>1. Iterates(Table, t, n, G)
    BY <1>1, <1>3, Recursion
  <2> QED BY <2>1 DEF Iterates
<1>6. \A i \in 1 .. n : f[i - 1] \in Table
  BY <1>1
<1>7. \A i \in 1 .. n : f[i] = reset(f[i - 1], hs[i], ns[i])
  <2> HIDE DEF G
  <2> QED BY <1>4, <1>5, <1>6
<1>8. Is(f)
  <2> DEFINE g == [i \in 0 .. n |-> IF i = 0 THEN t ELSE reset(f[i - 1], hs[i], ns[i])]
  <2>1. \A i \in 0 .. n : f[i] = g[i]
    <3>1. \A i \in 0 .. n : i # 0 => i \in 1 .. n
      BY <1>1
    <3> HIDE DEF n
    <3> QED BY <3>1, <1>5, <1>7
  <2>2. f = [i \in 0 .. n |-> f[i]] /\ g = [i \in 0 .. n |-> g[i]]
    OBVIOUS
  <2> QED BY <2>1, <2>2, Zenon
<1>9. Is(a)
  <2> HIDE DEF Is
  <2> QED BY <1>8
<1>10. Resets(t, hs, ns) = a[n]
  BY DEF Resets
<1>11. DOMAIN a = 0 .. n /\ a[0] = t /\ \A i \in 1 .. n : a[i] = reset(a[i - 1], hs[i], ns[i])
  <2>1. \A i \in 0 .. n : a[i] = IF i = 0 THEN t ELSE reset(a[i - 1], hs[i], ns[i])
    <3> HIDE DEF a
    <3> QED BY <1>9
  <2>2. DOMAIN a = 0 .. n
    <3> HIDE DEF a
    <3> QED BY <1>9
  <2>3. 0 \in 0 .. n /\ \A i \in 1 .. n : i \in 0 .. n /\ i # 0
    BY <1>1
  <2> HIDE DEF a, n
  <2> QED BY <2>1, <2>2, <2>3, Zenon
<1>12. a[n] = f[n]
  <2> DEFINE P == {i \in Nat : i <= n => a[i] = f[i]}
  <2> HIDE DEF a, n
  <2>1. 0 \in P
    BY <1>5, <1>11
  <2>2. ASSUME NEW i \in Nat, i \in P PROVE i + 1 \in P
    <3>1. SUFFICES ASSUME i + 1 <= n PROVE a[i + 1] = f[i + 1]
      OBVIOUS
    <3>2. a[i] = f[i] /\ i + 1 \in 1 .. n /\ (i + 1) - 1 = i
      BY <1>1, <2>2, <3>1
    <3>3. a[i + 1] = reset(a[i], hs[i + 1], ns[i + 1])
      BY <1>11, <3>2
    <3>4. f[i + 1] = reset(f[i], hs[i + 1], ns[i + 1])
      BY <1>7, <3>2
    <3> QED BY <3>2, <3>3, <3>4
  <2>3. Nat \subseteq P
    <3> HIDE DEF P
    <3> QED BY <2>1, <2>2, SetInduction
  <2> QED BY <1>1, <2>3
<1> HIDE DEF a
<1>13. Chain(t, f, hs, ns)
  BY <1>1, <1>5, <1>7, <1>10, <1>12 DEF Chain
<1> HIDE DEF n
<1> QED
  BY <1>13

\* What Resets does, handle by handle: after k of them.
Given(ns, k) == {ns[j] : j \in 1 .. k}
ResetTo(t, f, E, hs, ns, k) ==
    /\ Owned(f[k], E \ Given(ns, k)) /\ f[k].vector = t.vector
    /\ \A i \in 1 .. k : \E j \in i .. k : f[k].held[hs[i]] = ns[j] /\ hs[j] = hs[i]
    /\ IsInjective(hs) =>
          /\ \A i \in 1 .. Len(hs) : i > k => f[k].held[hs[i]] = t.held[hs[i]]
          /\ \A n \in E : f[k].fds[n] = t.fds[n]
ResetsGive(t, E, hs, ns) ==
    \E f : ResetTo(t, f, E, hs, ns, Len(hs)) /\ Resets(t, hs, ns) = f[Len(hs)]

\* The objects take the numbers in hand, each as long as no later argument is
\* the same object.
LEMMA Resets_Owned ==
  ASSUME NEW t, NEW E, Owned(t, E), NEW hs \in Seq(Owner), NEW ns,
         \A i \in 1 .. Len(hs) : ns[i] \in E \cup {None},
         \A i, j \in 1 .. Len(hs) : ns[i] # None /\ ns[i] = ns[j] => i = j
  PROVE  ResetsGive(t, E, hs, ns)
<1> DEFINE n == Len(hs)
<1>0. /\ t \in Table /\ E \subseteq Fd /\ None \notin Fd /\ n \in Nat
      /\ \A i \in 1 .. n : hs[i] \in Owner
      /\ DOMAIN hs = 1 .. n
  BY FdAssumption DEF Owned
<1>1. PICK f : Chain(t, f, hs, ns)
  <2>1. \A i \in 1 .. Len(hs) : ns[i] \in Fd \cup {None}
    BY <1>0
  <2> QED BY <1>0, <2>1, ResetsAreSteps
<1> HIDE DEF n
<1> DEFINE P == {k \in Nat : k <= n => ResetTo(t, f, E, hs, ns, k)}
<1>2. 0 \in P
  <2>1. Given(ns, 0) = {} /\ 1 .. 0 = {} /\ E \ {} = E
    BY DEF Given
  <2> QED BY <1>1, <2>1 DEF ResetTo, n, Chain
<1>3. ASSUME NEW k \in Nat, k \in P PROVE k + 1 \in P
  <2>1. SUFFICES ASSUME k + 1 <= n PROVE ResetTo(t, f, E, hs, ns, k + 1)
    OBVIOUS
  <2> DEFINE u == f[k]
             v == f[k + 1]
             h == hs[k + 1]
             m == ns[k + 1]
             F == E \ Given(ns, k)
  <2>2. ResetTo(t, f, E, hs, ns, k) /\ k + 1 \in 1 .. n /\ (k + 1) - 1 = k
    BY <1>0, <1>3, <2>1
  <2>3. v = reset(u, h, m) /\ h \in Owner /\ m \in E \cup {None}
    BY <1>0, <1>1, <2>2 DEF n, Chain
  <2>4. m \in F \cup {None}
    <3>1. m # None => m \notin Given(ns, k)
      BY <1>0, <2>2 DEF Given, n
    <3> QED BY <2>3, <3>1
  <2>5. Given(ns, k + 1) = Given(ns, k) \cup {m}
    BY DEF Given
  <2>6. F \ {m} = E \ Given(ns, k + 1)
    BY <2>5
  <2>7. Owned(u, F) /\ u.vector = t.vector /\ u \in Table
    BY <2>2 DEF ResetTo, Owned
  <2> HIDE DEF u, v, h, m, F
  <2>8. /\ Owned(v, F \ {m}) /\ v.vector = u.vector /\ v.held = [u.held EXCEPT ![h] = m]
        /\ \A q \in Fd : q # u.held[h] => v.fds[q] = u.fds[q]
    <3>1. IsReset(u, reset(u, h, m), F, h, m)
      BY <2>3, <2>4, <2>7, Reset_Owned
    <3> QED BY <3>1, <2>3 DEF IsReset
  <2>9. \A o \in Owner : v.held[o] = IF o = h THEN m ELSE u.held[o]
    BY <2>7, <2>8 DEF Table
  <2>10. ASSUME NEW i \in 1 .. (k + 1)
         PROVE  \E j \in i .. (k + 1) : v.held[hs[i]] = ns[j] /\ hs[j] = hs[i]
    <3>1. hs[i] \in Owner /\ k + 1 \in i .. (k + 1)
      BY <1>0, <2>1
    <3>2. CASE hs[i] = h
      BY <3>1, <3>2, <2>9 DEF h, m
    <3>3. CASE hs[i] # h
      <4>1. i \in 1 .. k
        BY <3>3 DEF h
      <4>2. PICK j \in i .. k : u.held[hs[i]] = ns[j] /\ hs[j] = hs[i]
        BY <2>2, <4>1 DEF ResetTo, u
      <4>3. j \in i .. (k + 1)
        BY <4>1
      <4> QED BY <3>1, <3>3, <2>9, <4>2, <4>3
    <3> QED BY <3>2, <3>3
  <2>11. ASSUME IsInjective(hs)
         PROVE  /\ \A i \in 1 .. Len(hs) : i > k + 1 => v.held[hs[i]] = t.held[hs[i]]
                /\ \A q \in E : v.fds[q] = t.fds[q]
    <3>1. /\ \A i \in 1 .. n : i > k => u.held[hs[i]] = t.held[hs[i]]
          /\ \A q \in E : u.fds[q] = t.fds[q]
      BY <2>2, <2>11 DEF ResetTo, u, n
    <3>2. ASSUME NEW i \in 1 .. n, i > k + 1 PROVE v.held[hs[i]] = t.held[hs[i]]
      <4>1. hs[i] # h
        BY <1>0, <2>2, <2>11, <3>2 DEF IsInjective, h
      <4> QED BY <1>0, <2>9, <3>1, <3>2, <4>1
    <3>3. u.held[h] = t.held[h]
      BY <2>2, <3>1 DEF h
    <3>4. u.held[h] \notin E
      BY <2>3, <3>3 DEF Owned, Apart
    <3>5. \A q \in E : v.fds[q] = t.fds[q]
      BY <1>0, <2>8, <3>1, <3>4
    <3> QED BY <3>2, <3>5 DEF n
  <2> QED BY <2>6, <2>7, <2>8, <2>10, <2>11 DEF ResetTo, v
<1>4. Nat \subseteq P
  <2> HIDE DEF P
  <2> QED BY <1>2, <1>3, SetInduction
<1> QED
  BY <1>0, <1>1, <1>4 DEF n, Chain, ResetsGive

\* What clear takes from the vector is in the hands of the function.
LEMMA Vector_Owned ==
  ASSUME NEW t, NEW E, Owned(t, E)
  PROVE  Owned([t EXCEPT !.vector = <<>>], E \cup Range(t.vector))
<1> DEFINE u == [t EXCEPT !.vector = <<>>]
           R == Range(t.vector)
<1>1. t \in Table /\ E \subseteq Fd /\ R \subseteq Fd /\ None \notin Fd
  BY FdAssumption DEF Owned, Table, Range
<1>2. u \in Table /\ u.fds = t.fds /\ u.held = t.held /\ u.vector = <<>> /\ u.wrong = t.wrong
  <2>1. <<>> \in Seq(Fd)
    OBVIOUS
  <2> QED BY <1>1, <2>1 DEF Table
<1> HIDE DEF u
<1>3. \A n : n \in R <=> \E i \in DOMAIN t.vector : t.vector[i] = n
  BY DEF Range
<1>4. DOMAIN u.vector = {}
  BY <1>2
<1>5. HeldOnce(u) /\ VectorOnce(u)
  BY <1>2, <1>4 DEF Owned, HeldOnce, VectorOnce
<1> HIDE DEF R
<1>6. Apart(u, E \cup R)
  BY <1>2, <1>3, <1>4 DEF Owned, Apart
<1>7. OpenAreKept(u, E \cup R)
  BY <1>2, <1>3, <1>4 DEF Owned, OpenAreKept, KeptBy
<1> QED
  BY <1>1, <1>2, <1>5, <1>6, <1>7 DEF Owned, u, R

\* The numbers in hand become the vector.
LEMMA Vectored_Owned ==
  ASSUME NEW t, NEW ns \in Seq(Fd), IsInjective(ns), t.vector = <<>>, Owned(t, Range(ns))
  PROVE  Owned([t EXCEPT !.vector = ns], {})
<1> DEFINE u == [t EXCEPT !.vector = ns]
           R == Range(ns)
<1>1. t \in Table /\ R \subseteq Fd /\ None \notin Fd
  BY FdAssumption DEF Owned
<1>2. u \in Table /\ u.fds = t.fds /\ u.held = t.held /\ u.vector = ns /\ u.wrong = t.wrong
  BY <1>1 DEF Table
<1> HIDE DEF u
<1>3. \A n : n \in R <=> \E i \in DOMAIN ns : ns[i] = n
  BY DEF Range
<1>4. \A i \in DOMAIN t.vector : FALSE
  OBVIOUS
<1>5. HeldOnce(u) /\ VectorOnce(u)
  BY <1>2 DEF Owned, HeldOnce, VectorOnce, IsInjective
<1> HIDE DEF R
<1>6. Owned(t, R)
  BY DEF R
<1>7. Apart(u, {})
  BY <1>2, <1>3, <1>6 DEF Owned, Apart
<1>8. OpenAreKept(u, {})
  BY <1>2, <1>3, <1>4, <1>6 DEF Owned, OpenAreKept, KeptBy
<1> QED
  BY <1>2, <1>5, <1>6, <1>7, <1>8 DEF Owned, u

\* clear closes all that the vector held.
LEMMA Cleared_Owned ==
  ASSUME NEW t, Owned(t, {})
  PROVE  /\ Owned([CloseAll(t, t.vector) EXCEPT !.vector = <<>>], {})
         /\ [CloseAll(t, t.vector) EXCEPT !.vector = <<>>].vector = <<>>
         /\ Free(t) \subseteq Free([CloseAll(t, t.vector) EXCEPT !.vector = <<>>])
<1> DEFINE ns == t.vector
           R == Range(ns)
           v == [t EXCEPT !.vector = <<>>]
           u == CloseAll(v, ns)
           w == [CloseAll(t, ns) EXCEPT !.vector = <<>>]
<1>1. t \in Table /\ ns \in Seq(Fd) /\ IsInjective(ns)
  BY DEF Owned, Table, VectorOnce, IsInjective
<1>2. Owned(v, {} \cup R)
  BY Vector_Owned
<1>3. {} \cup R = R /\ R \ R = {}
  OBVIOUS
<1>4. Owned(u, R \ R) /\ u.vector = v.vector
  <2> HIDE DEF v, R
  <2>1. R = Range(ns) BY DEF R
  <2> HIDE DEF ns
  <2>2. IsClosed(v, CloseAll(v, ns), R, ns)
    BY <1>1, <1>2, <1>3, <2>1, CloseAll_Owned
  <2> QED BY <2>1, <2>2 DEF IsClosed
<1>5. w = u
  BY <1>1 DEF CloseAll, Table
<1>6. w.vector = <<>>
  BY <1>1 DEF CloseAll, Table
<1>7. \A n \in Fd : t.fds[n] = None => w.fds[n] = None
  BY <1>1 DEF CloseAll, Table
<1>8. Free(t) \subseteq Free(w)
  BY <1>7 DEF Free
<1> QED
  BY <1>3, <1>4, <1>5, <1>6, <1>8

-----------------------------------------------------------------------------
\* The channel: what was attached are things, and the last byte ends a message.
Byte == [carried : Seq(Thing), last : BOOLEAN]
ChannelOK ==
    /\ channel \in [kind : Kinds, passcred : BOOLEAN, bytes : Seq(Byte), closed : BOOLEAN]
    /\ channel.bytes # <<>> => channel.bytes[Len(channel.bytes)].last

\* What a message carries are things.
LEMMA CarriedTyped ==
  ASSUME ChannelOK, NEW len
  PROVE  Carried(len) \in Seq(Thing)
<1> DEFINE b == channel.bytes
           on == {i \in Carriers(b) : i <= Taken(len)}
<1>1. b \in Seq(Byte)
  BY DEF ChannelOK
<1>2. on \subseteq DOMAIN b /\ on \subseteq Nat
  BY <1>1 DEF Carriers
<1>3. CASE on = {}
  BY <1>3 DEF Carried
<1>4. CASE on # {}
  <2>1. Min(on) \in DOMAIN b
    <3> HIDE DEF on
    <3> QED BY <1>2, <1>4, LeastIsThere
  <2>2. b[Min(on)] \in Byte
    <3> HIDE DEF on, b
    <3> QED BY <1>1, <2>1
  <2>3. b[Min(on)].carried \in Seq(Thing)
    <3> HIDE DEF on, b
    <3> QED BY <2>2 DEF Byte
  <2>4. Carried(len) = b[Min(on)].carried
    BY <1>4 DEF Carried
  <2> QED BY <2>3, <2>4
<1> QED
  BY <1>3, <1>4

\* A receive takes no more than there is in the channel.
LEMMA TakenTyped ==
  ASSUME ChannelOK, NEW len \in Nat
  PROVE  Taken(len) \in 0 .. Len(channel.bytes)
<1>0. CASE channel.bytes = <<>>
  <2>1. Len(<<>>) = 0
    OBVIOUS
  <2> QED BY <1>0, <2>1 DEF Taken
<1> SUFFICES ASSUME channel.bytes # <<>> PROVE Taken(len) \in 0 .. Len(channel.bytes)
  BY <1>0
<1> DEFINE b == channel.bytes
           n == Len(b)
           S == {len, n} \cup {EndOf(b, i) : i \in Carriers(b)}
<1>1. b \in Seq(Byte) /\ n \in Nat /\ n > 0 /\ DOMAIN b = 1 .. n /\ b[n].last
  BY DEF ChannelOK
<1>2. ASSUME NEW i \in 1 .. n PROVE EndOf(b, i) \in i .. n
  <2> DEFINE T == {j \in i .. Len(b) : b[j].last}
  <2>1. n \in T /\ T \subseteq i .. n /\ T \subseteq Nat
    BY <1>1
  <2>2. Min(T) \in T
    <3> HIDE DEF T
    <3> QED BY <2>1, LeastIsThere
  <2> QED BY <2>1, <2>2 DEF EndOf
<1>3. Carriers(b) \subseteq 1 .. n
  BY <1>1 DEF Carriers
<1>4. S \in SUBSET Nat /\ n \in S
  <2>1. \A i \in Carriers(b) : EndOf(b, i) \in Nat
    BY <1>1, <1>2, <1>3
  <2> QED BY <1>1, <2>1
<1>5. Min(S) \in Nat /\ Min(S) <= n
  <2> HIDE DEF S
  <2>1. Min(S) \in S /\ \A m \in S : Min(S) <= m
    BY <1>4, LeastIsThere
  <2> QED BY <1>4, <2>1
<1>6. EndOf(b, 1) \in 0 .. n
  BY <1>1, <1>2
<1>7. Taken(len) = IF channel.kind = "datagram" THEN EndOf(b, 1) ELSE Min(S)
  BY DEF Taken
<1> HIDE DEF S
<1> QED
  BY <1>1, <1>5, <1>6, <1>7

\* The buffer has room for the descriptors it was made for when there are no
\* credentials.
LEMMA PlacesTyped ==
  ASSUME NEW n \in Nat
  PROVE  Places(n) \in Nat /\ (~channel.passcred => Places(n) >= n)
<1>1. n + (n % 2) \in Nat /\ n + (n % 2) >= n
  OBVIOUS
<1> DEFINE m == n + (n % 2)
<1> HIDE DEF m
<1>2. cmsg_space(n) = 16 + 4 * m /\ m \in Nat /\ m >= n
  BY <1>1 DEF cmsg_space, cmsghdr, m
<1>3. CASE channel.passcred
  <2>1. ucred_space = 32 /\ cmsghdr = 16
    BY DEF ucred_space, cmsghdr
  <2>2. Places(n) = IF cmsg_space(n) - 32 < 16 THEN 0 ELSE (cmsg_space(n) - 32 - 16) \div 4
    BY <1>3, <2>1 DEF Places
  <2> QED BY <1>2, <1>3, <2>2
<1>4. CASE ~channel.passcred
  <2>1. Places(n) = IF cmsg_space(n) - 0 < 16 THEN 0 ELSE (cmsg_space(n) - 0 - 16) \div 4
    BY <1>4 DEF Places, cmsghdr
  <2>2. Places(n) = m
    BY <1>2, <2>1
  <2> QED BY <1>2, <2>2
<1> QED
  BY <1>3, <1>4

\* How many descriptors recvmsg makes.
LEMMA InstalledIsLeast ==
  ASSUME ChannelOK, NEW t, NEW n \in Nat, NEW len
  PROVE  LET k == Installed(t, n, len) IN
         /\ k \in Nat /\ k <= Len(Carried(len)) /\ k <= Places(n) /\ k <= Cardinality(Free(t))
         /\ k \in {Len(Carried(len)), Places(n), Cardinality(Free(t))}
<1> DEFINE S == {Len(Carried(len)), Places(n), Cardinality(Free(t))}
<1>1. Len(Carried(len)) \in Nat
  BY CarriedTyped
<1>2. Places(n) \in Nat
  BY PlacesTyped
<1>3. Cardinality(Free(t)) \in Nat
  <2>1. IsFiniteSet(Free(t))
    BY FdAssumption, FS_Subset DEF Free
  <2> QED BY <2>1, FS_CardinalityType
<1>4. S \in SUBSET Nat /\ S # {}
  BY <1>1, <1>2, <1>3
<1>5. Min(S) \in S /\ \A m \in S : Min(S) <= m
  <2> HIDE DEF S
  <2> QED BY <1>4, LeastIsThere
<1>6. Installed(t, n, len) = Min(S)
  BY DEF Installed
<1> HIDE DEF S
<1>7. Installed(t, n, len) \in S /\ \A m \in S : Installed(t, n, len) <= m
  BY <1>5, <1>6
<1> QED
  BY <1>4, <1>7 DEF S

\* What a receive gives, and when it must succeed.
Fitting(t, n, len) == /\ Len(Carried(len)) <= n /\ Len(Carried(len)) <= Cardinality(Free(t))
                      /\ ~channel.passcred /\ cmsg_space(n) < PageSize
                      /\ channel.kind = "datagram" => Taken(len) <= len
Received(t, r, n, len) ==
    /\ r \in [ok : BOOLEAN, t : Table, numbers : Seq(Fd)]
    /\ r.t.held = t.held /\ r.t.vector = t.vector
    /\ r.numbers \in Seq(Fd) /\ IsInjective(r.numbers) /\ Owned(r.t, Range(r.numbers))
    /\ ~r.ok => r.numbers = <<>>
    /\ r.ok => /\ Len(r.numbers) <= n /\ Len(r.numbers) = Len(Carried(len))
               /\ \A i \in 1 .. Len(r.numbers) : r.t.fds[r.numbers[i]] = Carried(len)[i]

\* Where all that was attached fits, the receive succeeds.
LEMMA ReceivedVectorFits ==
  ASSUME ChannelOK,
         NEW t, NEW n \in Nat, NEW len \in Nat, Fitting(t, n, len)
  PROVE  ReceivedVector(t, n, len).ok
<1> DEFINE m == recvmsg(t, n, len)
           k == Installed(t, n, len)
           c == Carried(len)
<1>1. c \in Seq(Thing) /\ Len(c) \in Nat
  BY CarriedTyped
<1>2. k = Len(c)
  <2>1. Places(n) \in Nat /\ Places(n) >= n
    BY PlacesTyped DEF Fitting
  <2>2. /\ k \in Nat /\ k <= Len(c) /\ k <= Places(n) /\ k <= Cardinality(Free(t))
        /\ k \in {Len(c), Places(n), Cardinality(Free(t))}
    BY InstalledIsLeast
  <2>3. Cardinality(Free(t)) >= Len(c) /\ n >= Len(c)
    BY DEF Fitting
  <2> HIDE DEF k, c
  <2> QED BY <1>1, <2>1, <2>2, <2>3
<1>3. ~m.ctrunc /\ ~m.other
  <2>1. ~(k < Len(c))
    BY <1>1, <1>2
  <2> QED BY <2>1 DEF recvmsg, Fitting
<1>4. ~m.trunc
  <2>1. Taken(len) \in Nat
    BY TakenTyped
  <2>2. m.trunc = (channel.kind = "datagram" /\ Taken(len) > len)
    BY DEF recvmsg
  <2>3. channel.kind = "datagram" => ~(Taken(len) > len)
    BY <2>1 DEF Fitting
  <2> QED BY <2>2, <2>3
<1>5. Len(m.numbers) = k
  <2>1. m.numbers = [i \in 1 .. k |-> Nth(t, i)]
    BY DEF recvmsg
  <2> QED BY <1>1, <1>2, <2>1
<1>6. ~(Len(m.numbers) > n)
  BY <1>1, <1>2, <1>5 DEF Fitting
<1>7. ~(cmsg_space(n) >= PageSize)
  <2>1. cmsg_space(n) \in Int /\ PageSize \in Int
    BY SizesAssumption DEF cmsg_space, cmsghdr
  <2> QED BY <2>1 DEF Fitting
<1> QED
  BY <1>3, <1>4, <1>6, <1>7 DEF ReceivedVector

\* A receive has all that was attached in its hands, in order, or nothing.
LEMMA ReceivedVector_Owned ==
  ASSUME ChannelOK, NEW t, Owned(t, {}), NEW n \in Nat, NEW len \in Nat
  PROVE  Received(t, ReceivedVector(t, n, len), n, len)
<1> DEFINE m == recvmsg(t, n, len)
           k == Installed(t, n, len)
           c == Carried(len)
           d == SubSeq(c, 1, k)
           ns == Numbers(t, k)
           u == Filled(t, d)
           r == ReceivedVector(t, n, len)
           fails == m.trunc \/ m.ctrunc \/ m.other \/ Len(m.numbers) > n
<1>1. c \in Seq(Thing) /\ Len(c) \in Nat
  BY CarriedTyped
<1>2. k \in Nat /\ k <= Len(c) /\ k <= Cardinality(Free(t))
  BY InstalledIsLeast
<1>3. d \in Seq(Thing) /\ Len(d) = k /\ \A i \in 1 .. k : d[i] = c[i]
  <2> HIDE DEF c, k
  <2> QED BY <1>1, <1>2
<1>4. /\ ns \in Seq(Fd) /\ IsInjective(ns) /\ Len(ns) = k
      /\ Owned(u, {} \cup Range(ns))
      /\ u.held = t.held /\ u.vector = t.vector
      /\ \A i \in 1 .. k : u.fds[ns[i]] = d[i]
  <2>1. IsFilled(t, Filled(t, d), {}, d, Numbers(t, Len(d)))
    <3> HIDE DEF d, k
    <3> QED BY <1>2, <1>3, Filled_Owned
  <2> HIDE DEF d, k
  <2> QED BY <2>1, <1>3 DEF IsFilled
<1>5. m.t = u /\ m.numbers = ns /\ (m.ctrunc <=> (k < Len(c) \/ (channel.passcred /\ cmsg_space(n) < ucred_len)))
  BY DEF recvmsg, Numbers
<1>6. {} \cup Range(ns) = Range(ns) /\ Range(<<>>) = {} /\ Range(ns) \ Range(ns) = {} /\ IsInjective(<<>>)
  BY DEF Range, IsInjective
<1>7. CASE cmsg_space(n) >= PageSize
  <2>1. r = Failed(t)
    BY <1>7 DEF ReceivedVector
  <2>2. r.ok = FALSE /\ r.t = t /\ r.numbers = <<>>
    BY <2>1 DEF Failed
  <2>3. <<>> \in Seq(Fd)
    OBVIOUS
  <2>4. t \in Table /\ r = [ok |-> FALSE, t |-> t, numbers |-> <<>>]
    BY <2>1 DEF Failed, Owned
  <2>5. r \in [ok : BOOLEAN, t : Table, numbers : Seq(Fd)]
    <3> HIDE DEF r
    <3> QED BY <2>3, <2>4
  <2> HIDE DEF r
  <2> QED BY <2>2, <2>3, <2>5, <1>6 DEF Received, r
<1>8. CASE ~(cmsg_space(n) >= PageSize) /\ fails
  <2>1. r = Failed(CloseAll(u, ns))
    BY <1>8, <1>5 DEF ReceivedVector
  <2>2. Owned(u, Range(ns))
    BY <1>4, <1>6
  <2> HIDE DEF u, ns
  <2>3. IsClosed(u, CloseAll(u, ns), Range(ns), ns)
    BY <1>4, <2>2, CloseAll_Owned
  <2> DEFINE v == CloseAll(u, ns)
  <2>4. Owned(v, Range(<<>>)) /\ v.held = t.held /\ v.vector = t.vector
    BY <2>3, <1>4, <1>6 DEF IsClosed
  <2>5. r.ok = FALSE /\ r.t = v /\ r.numbers = <<>>
    BY <2>1 DEF Failed
  <2>6. <<>> \in Seq(Fd)
    OBVIOUS
  <2>7. v \in Table /\ r = [ok |-> FALSE, t |-> v, numbers |-> <<>>]
    BY <2>1, <2>4 DEF Failed, Owned
  <2>8. r \in [ok : BOOLEAN, t : Table, numbers : Seq(Fd)]
    <3> HIDE DEF v, r
    <3> QED BY <2>6, <2>7
  <2> HIDE DEF v, r
  <2> QED BY <2>4, <2>5, <2>6, <2>8, <1>6 DEF Received, r
<1>9. CASE ~(cmsg_space(n) >= PageSize) /\ ~fails
  <2>1. r = [ok |-> TRUE, t |-> u, numbers |-> ns]
    BY <1>9, <1>5 DEF ReceivedVector
  <2>2. ~(k < Len(c)) /\ ~(k > n)
    BY <1>9, <1>5, <1>4
  <2>3. k = Len(c) /\ k <= n
    <3> HIDE DEF k, c
    <3> QED BY <1>1, <1>2, <2>2
  <2>4. Owned(u, Range(ns))
    BY <1>4, <1>6
  <2> HIDE DEF u, ns, d, k, c
  <2>5. \A i \in 1 .. k : u.fds[ns[i]] = c[i]
    BY <1>3, <1>4
  <2>6. u \in Table
    BY <2>4 DEF Owned
  <2> QED BY <2>1, <2>3, <2>4, <2>5, <2>6, <1>4 DEF Received, c
<1> QED
  BY <1>7, <1>8, <1>9

\* ReceiveFileDescriptorVector leaks nothing and gives all or nothing.
LEMMA ReceiveVector_Owned ==
  ASSUME ChannelOK,
         NEW t, Owned(t, {}), NEW n \in Nat, NEW len \in Nat,
         NEW r, r = ReceiveFileDescriptorVector(t, n, len)
  PROVE  /\ Owned(r.t, {})
         /\ r.ok => Len(r.numbers) <= n /\ Refers(r.t, r.numbers) = Carried(len)
         /\ Fitting(t, n, len) => r.ok
<1> DEFINE u == [CloseAll(t, t.vector) EXCEPT !.vector = <<>>]
           a == ReceivedVector(u, n, len)
           c == Carried(len)
<1>1. Owned(u, {}) /\ u.vector = <<>> /\ Free(t) \subseteq Free(u)
  BY Cleared_Owned
<1>2. Received(u, a, n, len)
  <2> HIDE DEF u
  <2> QED BY <1>1, ReceivedVector_Owned
<1>3. r = [a EXCEPT !.t.vector = a.numbers]
  BY DEF ReceiveFileDescriptorVector
<1>4. c \in Seq(Thing) /\ Len(c) \in Nat
  BY CarriedTyped
<1>5. Fitting(t, n, len) => a.ok
  <2>1. IsFiniteSet(Free(u)) /\ IsFiniteSet(Free(t))
    BY FdAssumption, FS_Subset DEF Free
  <2> HIDE DEF u
  <2>2. Cardinality(Free(t)) <= Cardinality(Free(u)) /\ Cardinality(Free(t)) \in Nat /\ Cardinality(Free(u)) \in Nat
    BY <1>1, <2>1, FS_Subset, FS_CardinalityType
  <2>3. Fitting(t, n, len) => Fitting(u, n, len)
    BY <1>4, <2>2 DEF Fitting
  <2> QED BY <2>3, ReceivedVectorFits
<1> HIDE DEF a, u
<1>6. a \in [ok : BOOLEAN, t : Table, numbers : Seq(Fd)]
  BY <1>2 DEF Received
<1>7. r.ok = a.ok /\ r.numbers = a.numbers /\ r.t = [a.t EXCEPT !.vector = a.numbers]
  BY <1>3, <1>6
<1>8. Owned(r.t, {})
  <2>1. /\ a.numbers \in Seq(Fd) /\ IsInjective(a.numbers) /\ a.t.vector = <<>>
        /\ Owned(a.t, Range(a.numbers))
    BY <1>1, <1>2 DEF Received
  <2>2. Owned([a.t EXCEPT !.vector = a.numbers], {})
    BY <2>1, Vectored_Owned
  <2> QED BY <2>2, <1>7
<1>9. ASSUME r.ok PROVE Len(r.numbers) <= n /\ Refers(r.t, r.numbers) = Carried(len)
  <2>1. /\ Len(a.numbers) <= n /\ Len(a.numbers) = Len(c) /\ a.numbers \in Seq(Fd)
        /\ \A i \in 1 .. Len(a.numbers) : a.t.fds[a.numbers[i]] = c[i]
    BY <1>2, <1>7, <1>9 DEF Received
  <2>2. r.t.fds = a.t.fds
    BY <1>6, <1>7 DEF Table
  <2> HIDE DEF c
  <2>3. Refers(r.t, r.numbers) = [i \in 1 .. Len(c) |-> c[i]]
    BY <1>4, <1>7, <2>1, <2>2 DEF Refers
  <2>4. c = [i \in 1 .. Len(c) |-> c[i]]
    BY <1>4
  <2> QED BY <1>7, <2>1, <2>3, <2>4 DEF c
<1> QED
  BY <1>5, <1>7, <1>8, <1>9

HandedOut(t, r, hs, len) ==
    /\ Owned(r.t, {})
    /\ r.ok /\ IsInjective(hs) =>
          Refers(r.t, [i \in DOMAIN hs |-> r.t.held[hs[i]]]) = Carried(len)
    /\ ~r.ok => \A i \in DOMAIN hs : r.t.held[hs[i]] = None
    /\ Fitting(t, Len(hs), len) /\ Len(Carried(len)) = Len(hs) => r.ok
\* ReceiveFileDescriptors leaks nothing, and the objects hold all or nothing.
LEMMA Receive_Owned ==
  ASSUME ChannelOK,
         NEW t, Owned(t, {}), NEW hs \in Seq(Owner), NEW len \in Nat,
         NEW r, r = ReceiveFileDescriptors(t, hs, len)
  PROVE  HandedOut(t, r, hs, len)
<1> DEFINE n == Len(hs)
           a == ReceivedVector(t, n, len)
           c == Carried(len)
           ns == a.numbers
           nn == [i \in DOMAIN hs |-> None]
<1>0. n \in Nat /\ DOMAIN hs = 1 .. n /\ None \notin Fd /\ c \in Seq(Thing) /\ Len(c) \in Nat
      /\ \A i \in 1 .. n : hs[i] \in Owner
  BY CarriedTyped, FdAssumption
<1>1. Received(t, a, n, len)
  BY <1>0, ReceivedVector_Owned
<1>2. Fitting(t, n, len) => a.ok
  BY <1>0, ReceivedVectorFits
<1>3. r = IF a.ok /\ Len(ns) = n THEN [a EXCEPT !.t = Resets(a.t, hs, ns)]
          ELSE Failed(CloseAll(Resets(a.t, hs, nn), ns))
  BY DEF ReceiveFileDescriptors
<1> HIDE DEF a, n, c
<1>4. /\ a \in [ok : BOOLEAN, t : Table, numbers : Seq(Fd)]
      /\ ns \in Seq(Fd) /\ IsInjective(ns) /\ Owned(a.t, Range(ns))
      /\ a.ok => /\ Len(ns) <= n /\ Len(ns) = Len(c)
                 /\ \A i \in 1 .. Len(ns) : a.t.fds[ns[i]] = c[i]
      /\ DOMAIN ns = 1 .. Len(ns)
  BY <1>1 DEF Received, c
<1> HIDE DEF ns
<1>5. CASE a.ok /\ Len(ns) = n
  <2>1. r.ok = TRUE /\ r.t = Resets(a.t, hs, ns)
    BY <1>3, <1>4, <1>5
  <2>2. Given(ns, n) = Range(ns) /\ \A i \in 1 .. n : ns[i] \in Range(ns) /\ ns[i] \in Fd
    BY <1>4, <1>5 DEF Given, Range
  <2>3. \A i, j \in 1 .. n : ns[i] # None /\ ns[i] = ns[j] => i = j
    BY <1>4, <1>5 DEF IsInjective
  <2>4. PICK f : ResetTo(a.t, f, Range(ns), hs, ns, n) /\ Resets(a.t, hs, ns) = f[n]
    <3>1. ResetsGive(a.t, Range(ns), hs, ns)
      BY <1>4, <2>2, <2>3, Resets_Owned DEF n
    <3> QED BY <3>1 DEF ResetsGive, n
  <2>5. Range(ns) \ Given(ns, n) = {}
    BY <2>2
  <2>6. Owned(r.t, {})
    <3>1. Owned(f[n], Range(ns) \ Given(ns, n))
      BY <2>4 DEF ResetTo
    <3> QED BY <2>1, <2>4, <2>5, <3>1
  <2>7. ASSUME IsInjective(hs)
        PROVE  Refers(r.t, [i \in DOMAIN hs |-> r.t.held[hs[i]]]) = c
    <3>1. ASSUME NEW i \in 1 .. n PROVE r.t.held[hs[i]] = ns[i]
      <4>1. PICK j \in i .. n : r.t.held[hs[i]] = ns[j] /\ hs[j] = hs[i]
        BY <2>1, <2>4 DEF ResetTo
      <4>2. j = i
        BY <4>1, <2>7, <1>0 DEF IsInjective
      <4> QED BY <4>1, <4>2
    <3>2. \A i \in 1 .. n : r.t.fds[ns[i]] = c[i]
      <4>1. \A q \in Range(ns) : f[n].fds[q] = a.t.fds[q]
        BY <2>4, <2>7 DEF ResetTo
      <4>2. \A i \in 1 .. n : a.t.fds[ns[i]] = c[i]
        BY <1>4, <1>5
      <4> QED BY <2>1, <2>2, <2>4, <4>1, <4>2
    <3>3. Refers(r.t, [i \in DOMAIN hs |-> r.t.held[hs[i]]]) = [i \in 1 .. n |-> c[i]]
      BY <1>0, <3>1, <3>2 DEF Refers
    <3>4. c = [i \in 1 .. n |-> c[i]]
      <4>1. Len(c) = n
        BY <1>4, <1>5
      <4> QED BY <1>0, <4>1
    <3> QED BY <3>3, <3>4
  <2>8. n = Len(hs) /\ c = Carried(len)
    BY DEF n, c
  <2> QED BY <2>1, <2>6, <2>7, <2>8 DEF HandedOut
<1>6. CASE ~(a.ok /\ Len(ns) = n)
  <2> DEFINE v == Resets(a.t, hs, nn)
             w == CloseAll(v, ns)
  <2>1. r.ok = FALSE /\ r.t = w
    BY <1>3, <1>6 DEF Failed
  <2>2. \A i \in 1 .. n : nn[i] = None
    BY <1>0
  <2> HIDE DEF nn
  <2>3. PICK f : ResetTo(a.t, f, Range(ns), hs, nn, n) /\ v = f[n]
    <3>1. \A i \in 1 .. Len(hs) : nn[i] \in Range(ns) \cup {None}
      BY <2>2 DEF n
    <3>2. \A i, j \in 1 .. Len(hs) : nn[i] # None /\ nn[i] = nn[j] => i = j
      BY <2>2 DEF n
    <3>3. ResetsGive(a.t, Range(ns), hs, nn)
      BY <1>4, <3>1, <3>2, Resets_Owned
    <3> QED BY <3>3 DEF ResetsGive, n
  <2>4. Range(ns) \ Given(nn, n) = Range(ns)
    <3>1. None \notin Range(ns)
      BY <1>0, <1>4 DEF Range
    <3> QED BY <2>2, <3>1 DEF Given
  <2>5. Owned(v, Range(ns)) /\ \A i \in 1 .. n : v.held[hs[i]] = None
    <3> HIDE DEF v
    <3>1. Owned(v, Range(ns))
      BY <2>3, <2>4 DEF ResetTo
    <3>2. ASSUME NEW i \in 1 .. n PROVE v.held[hs[i]] = None
      <4>1. PICK j \in i .. n : v.held[hs[i]] = nn[j]
        BY <2>3 DEF ResetTo
      <4>2. j \in 1 .. n
        BY <1>0
      <4> QED BY <2>2, <4>1, <4>2
    <3> QED BY <3>1, <3>2
  <2> HIDE DEF v
  <2>6. IsClosed(v, w, Range(ns), ns)
    BY <1>4, <2>5, CloseAll_Owned
  <2>7. Range(ns) \ Range(ns) = {}
    OBVIOUS
  <2>8. Owned(w, {}) /\ w.held = v.held
    BY <2>6, <2>7 DEF IsClosed
  <2>9. ~(Fitting(t, n, len) /\ Len(c) = n)
    BY <1>2, <1>4, <1>6
  <2> HIDE DEF w
  <2>10. n = Len(hs) /\ c = Carried(len)
    BY DEF n, c
  <2>11. ~r.ok /\ Owned(r.t, {}) /\ \A i \in DOMAIN hs : r.t.held[hs[i]] = None
    BY <2>1, <2>5, <2>8, <1>0
  <2> QED BY <2>9, <2>10, <2>11 DEF HandedOut
<1> QED
  BY <1>5, <1>6

-----------------------------------------------------------------------------
\* The frames of the calls, and what holds of each at every step.
MaybeFd == Fd \cup {None}
Piece == Files \cup {"more"} \cup Range(Content)
Data == [Files -> Seq(Piece)]

ConnectFrame ==
    [call : {"socket_network_client"}, at : {"socket", "connect", "select", "getsockopt", "return"},
     fd : MaybeFd, addr : Nat, last : Nat, timeout : BOOLEAN, waited : Nat, refused : SUBSET Nat,
     failed : BOOLEAN, timedOut : BOOLEAN]
ConnectOK(f, d) ==
    /\ f \in ConnectFrame
    /\ f.addr \in 1 .. f.last + 1 /\ f.refused = 1 .. f.addr - 1
    /\ f.at = "socket" => f.fd = None /\ f.waited <= f.addr - 1
    /\ f.at \in {"connect", "select", "getsockopt"} => f.fd # None /\ f.addr <= f.last
    /\ f.at = "connect" => d[f.fd] = Sock(f.addr, "new", TRUE) /\ f.waited <= f.addr - 1
    /\ f.at = "select" => /\ \E s \in {"connecting", "connected", "refused"} : d[f.fd] = Sock(f.addr, s, TRUE)
                          /\ f.waited <= f.addr - 1
    /\ f.at = "getsockopt" => /\ \E s \in {"connected", "refused"} : d[f.fd] = Sock(f.addr, s, TRUE)
                              /\ f.waited <= f.addr
    /\ f.at = "return" => /\ f.fd # None => d[f.fd] = Sock(f.addr, "connected", FALSE)
                          /\ f.fd = None => f.failed \/ f.timedOut \/ f.addr = f.last + 1
                          /\ f.waited <= f.last

UeventFrame ==
    [call : {"uevent_kernel_recv"}, at : {"check", "return"}, fd : {None}, message : Messages,
     creds : BOOLEAN, require_group : BOOLEAN, buffer : Messages \cup {None}, ok : BOOLEAN]
UeventOK(f) ==
    /\ f \in UeventFrame
    /\ f.at = "return" => IF f.ok THEN Believed(f) ELSE f.buffer = None

WriteFrame ==
    [call : {"WriteStringToFile"}, at : {"open", "fchmod", "fchown", "write", "cleanup", "return"},
     fd : MaybeFd, name : Names, data : Data, inode : Files \cup {None}, follow : BOOLEAN,
     modes : BOOLEAN, left : Seq(Piece), touched : BOOLEAN, linked : BOOLEAN,
     removed : Names, result : BOOLEAN]
Called(f) == IF f.linked THEN "link" ELSE f.inode
Named(f) == ~f.touched => Leads(f.name) = f.inode /\ f.name = Called(f)
WriteOK(f) ==
    /\ f \in WriteFrame
    /\ f.at = "open" => f.fd = None /\ f.inode = None /\ f.left = Content
    /\ f.at \in {"fchmod", "fchown", "write", "cleanup"} => f.inode \in Files /\ Named(f)
    /\ f.at \in {"fchmod", "fchown"} => f.data[f.inode] = <<>> /\ f.left = Content
    /\ f.at = "write" => f.data[f.inode] \o f.left = Content
    /\ f.at # "return" => ~f.result
    /\ f.at = "return" => IF f.result THEN f.inode \in Files /\ f.data[f.inode] = Content /\ Named(f)
                          ELSE f.inode # None => Leads(f.name) # f.inode
    /\ f.at # "return" => f.removed = None
    /\ f.removed # None => /\ ~f.result /\ f.inode # None
                           /\ ~f.touched => f.removed = Called(f)

WriteFullyFrame ==
    [call : {"WriteFully"}, at : {"write", "return"}, fd : {None}, data : Data, inode : {"new"},
     left : Seq(Piece), result : BOOLEAN]
WriteFullyOK(f) ==
    /\ f \in WriteFullyFrame
    /\ f.at = "write" => f.data[f.inode] \o f.left = Content
    /\ f.at = "return" /\ f.result => f.data[f.inode] = Content

ReadFrame ==
    [call : {"ReadFileToString"}, at : {"open", "read", "return"}, fd : MaybeFd, name : Names,
     data : Data, inode : Inodes \cup {None}, follow : BOOLEAN, content : Seq(Piece),
     touched : BOOLEAN, cut : BOOLEAN, result : BOOLEAN]
Begins(s, t) == Len(s) <= Len(t) /\ \A i \in 1 .. Len(s) : s[i] = t[i]
ReadOK(f) ==
    /\ f \in ReadFrame
    /\ f.at = "open" => f.fd = None /\ f.content = <<>>
    /\ f.at = "read" =>
          f.inode # None /\ (f.inode \in Files /\ ~f.cut => Begins(f.content, f.data[f.inode]))
    /\ f.at = "return" /\ f.result =>
          IF f.cut THEN Len(f.content) >= Len(f.data[f.inode]) ELSE f.content = f.data[f.inode]

LoadFrame ==
    [call : {"load_file"}, at : {"open", "lseek", "read", "return"}, fd : MaybeFd, name : Names,
     data : Data, inode : Inodes \cup {None}, size : Nat, content : Seq(Piece),
     touched : BOOLEAN, cut : BOOLEAN, result : BOOLEAN]
LoadOK(f) ==
    /\ f \in LoadFrame
    /\ f.at = "open" => f.fd = None
    /\ f.at = "read" => f.inode \in Files
    /\ f.at = "return" /\ f.result => /\ Len(f.content) = f.size
                                      /\ f.content = SubSeq(f.data[f.inode], 1, f.size)

ReadFullyFrame ==
    [call : {"ReadFully"}, at : {"read", "return"}, fd : {None}, offset : 0 .. Size, start : Nat,
     count : Nat, atOffset : BOOLEAN, got : Seq(Nat), result : BOOLEAN]
ReadFullyOK(f) ==
    /\ f \in ReadFullyFrame
    /\ Len(f.got) <= f.count
    /\ \A i \in 1 .. Len(f.got) : f.got[i] < f.offset
    /\ \A i, j \in 1 .. Len(f.got) : i < j => f.got[i] < f.got[j]
    /\ f.atOffset => /\ f.offset = f.start + Len(f.got)
                     /\ \A i \in 1 .. Len(f.got) : f.got[i] = f.start + i - 1
    /\ f.at = "return" => f.result = (Len(f.got) = f.count)

RemoveFrame ==
    [call : {"RemoveFileIfExists"}, at : {"lstat", "unlink", "return"}, fd : {None}, name : Names,
     touched : BOOLEAN, failed : BOOLEAN, result : BOOLEAN]
RemoveOK(f) ==
    /\ f \in RemoveFrame
    /\ f.at # "return" => ~f.result
    /\ f.at = "unlink" => f.name \notin {"dir", None} \/ f.touched
    /\ f.at = "return" => IF f.result THEN f.name = None ELSE f.name = "dir" \/ f.failed \/ f.touched

ReadlinkFrame ==
    [call : {"Readlink"}, at : {"readlink", "return"}, fd : {None}, length : Nat, size : Nat,
     text : Nat, result : BOOLEAN]
ReadlinkOK(f) ==
    f \in ReadlinkFrame /\ (f.at = "return" /\ f.result => f.text = f.length)

TemporaryFileFrame ==
    [call : {"TemporaryFile"}, at : {"alive", "return"}, fd : MaybeFd, name : {"new", None},
     remove : BOOLEAN, result : BOOLEAN]
TemporaryFileOK(f) ==
    f \in TemporaryFileFrame /\ (f.at = "return" /\ f.remove => f.name = None)

TemporaryDirFrame ==
    [call : {"TemporaryDir"}, at : {"alive", "walk", "return"}, fd : {None}, made : BOOLEAN,
     there : BOOLEAN, contents : SUBSET Children, todo : SUBSET Children, remove : BOOLEAN, failed : BOOLEAN,
     touched : BOOLEAN, result : BOOLEAN]
TemporaryDirOK(f) ==
    /\ f \in TemporaryDirFrame
    /\ f.at # "return" => f.there = f.made
    /\ f.at = "walk" => f.there /\ f.remove /\ (f.contents \subseteq f.todo \/ f.failed \/ f.touched)
    /\ f.at = "return" => IF f.remove THEN f.there => f.failed \/ f.touched
                          ELSE f.there = f.made

FileOK(f) == \/ WriteOK(f) \/ WriteFullyOK(f) \/ ReadOK(f) \/ LoadOK(f) \/ ReadFullyOK(f)
             \/ RemoveOK(f) \/ ReadlinkOK(f) \/ TemporaryFileOK(f) \/ TemporaryDirOK(f)
FrameOK(f, d) == f = NoCall \/ ConnectOK(f, d) \/ UeventOK(f) \/ FileOK(f)

\* The inductive invariant: what the running function has open is in its fd.
InFlight == {frame.fd} \ {None}
IInv == Owned(Here, InFlight) /\ FrameOK(frame, fds) /\ ChannelOK

-----------------------------------------------------------------------------
\* To(t) makes t of the table.
LEMMA ToIs ==
  ASSUME NEW t \in Table, To(t)
  PROVE  Here' = t
BY DEF To, Here, Table

\* What the running function has in hand is closed.
LEMMA CloseInHand ==
  ASSUME NEW t, NEW n \in Fd \cup {None}, Owned(t, {n} \ {None})
  PROVE  Owned(close(t, n), {})
<1>1. CASE n = None
  <2>1. close(t, n) = t /\ {n} \ {None} = {}
    BY <1>1 DEF close
  <2> QED BY <2>1
<1>2. CASE n # None
  <2> DEFINE E == {n} \ {None}
  <2>1. n \in E /\ E \ {n} = {}
    BY <1>2
  <2> HIDE DEF E
  <2>2. Owned(t, E)
    BY DEF E
  <2>3. Owned(close(t, n), E \ {n})
    BY <2>1, <2>2, Close_Owned
  <2> QED BY <2>1, <2>3
<1> QED
  BY <1>1, <1>2

\* What the running function has in hand is given to h.
LEMMA ResetInHand ==
  ASSUME NEW t, NEW n \in Fd \cup {None}, Owned(t, {n} \ {None}), NEW h \in Owner
  PROVE  Owned(reset(t, h, n), {})
<1> DEFINE E == {n} \ {None}
<1>1. n \in E \cup {None} /\ E \ {n} = {} /\ Owned(t, E)
  OBVIOUS
<1> HIDE DEF E
<1>2. IsReset(t, reset(t, h, n), E, h, n)
  BY <1>1, Reset_Owned
<1> QED
  BY <1>1, <1>2 DEF IsReset

\* An open descriptor changes what it stands for.
LEMMA Changed_Owned ==
  ASSUME NEW t, NEW E, Owned(t, E), NEW n \in Fd, t.fds[n] # None, NEW o \in Thing
  PROVE  Owned([t EXCEPT !.fds[n] = o], E)
<1> DEFINE u == [t EXCEPT !.fds[n] = o]
<1>1. t \in Table
  BY DEF Owned
<1>2. u \in Table /\ u.held = t.held /\ u.vector = t.vector /\ u.wrong = t.wrong
  BY <1>1 DEF Table
<1>3. \A m \in Fd : u.fds[m] = IF m = n THEN o ELSE t.fds[m]
  BY <1>1 DEF Table
<1> HIDE DEF u
<1>4. o # None
  BY ThingAssumption
<1>5. OpenAreKept(u, E)
  BY <1>2, <1>3, <1>4 DEF Owned, OpenAreKept, KeptBy
<1>6. HeldOnce(u) /\ VectorOnce(u) /\ Apart(u, E)
  BY <1>2 DEF Owned, HeldOnce, VectorOnce, Apart
<1> QED
  BY <1>2, <1>5, <1>6 DEF Owned, u

\* The names of the calls of file.cpp.
FileCalls == {"WriteStringToFile", "WriteFully", "ReadFileToString", "load_file", "ReadFully",
              "RemoveFileIfExists", "Readlink", "TemporaryFile", "TemporaryDir"}
\* The frame of a call of file.cpp tells which call it is.
LEMMA FileCallOf ==
  ASSUME NEW f, FileOK(f)
  PROVE  /\ f.call \in FileCalls /\ f.fd \in MaybeFd
         /\ f.call = "WriteStringToFile" => WriteOK(f)
         /\ f.call = "WriteFully" => WriteFullyOK(f)
         /\ f.call = "ReadFileToString" => ReadOK(f)
         /\ f.call = "load_file" => LoadOK(f)
         /\ f.call = "ReadFully" => ReadFullyOK(f)
         /\ f.call = "RemoveFileIfExists" => RemoveOK(f)
         /\ f.call = "Readlink" => ReadlinkOK(f)
         /\ f.call = "TemporaryFile" => TemporaryFileOK(f)
         /\ f.call = "TemporaryDir" => TemporaryDirOK(f)
<1>1. WriteOK(f) => f.call = "WriteStringToFile" /\ f.fd \in MaybeFd
  BY DEF WriteOK, WriteFrame
<1>2. WriteFullyOK(f) => f.call = "WriteFully" /\ f.fd \in MaybeFd
  BY DEF WriteFullyOK, WriteFullyFrame, MaybeFd
<1>3. ReadOK(f) => f.call = "ReadFileToString" /\ f.fd \in MaybeFd
  BY DEF ReadOK, ReadFrame
<1>4. LoadOK(f) => f.call = "load_file" /\ f.fd \in MaybeFd
  BY DEF LoadOK, LoadFrame
<1>5. ReadFullyOK(f) => f.call = "ReadFully" /\ f.fd \in MaybeFd
  BY DEF ReadFullyOK, ReadFullyFrame, MaybeFd
<1>6. RemoveOK(f) => f.call = "RemoveFileIfExists" /\ f.fd \in MaybeFd
  BY DEF RemoveOK, RemoveFrame, MaybeFd
<1>7. ReadlinkOK(f) => f.call = "Readlink" /\ f.fd \in MaybeFd
  BY DEF ReadlinkOK, ReadlinkFrame, MaybeFd
<1>8. TemporaryFileOK(f) => f.call = "TemporaryFile" /\ f.fd \in MaybeFd
  BY DEF TemporaryFileOK, TemporaryFileFrame
<1>9. TemporaryDirOK(f) => f.call = "TemporaryDir" /\ f.fd \in MaybeFd
  BY DEF TemporaryDirOK, TemporaryDirFrame, MaybeFd
<1> QED
  BY <1>1, <1>2, <1>3, <1>4, <1>5, <1>6, <1>7, <1>8, <1>9 DEF FileOK, FileCalls

\* A frame tells which call it is.
LEMMA CallOf ==
  ASSUME FrameOK(frame, fds)
  PROVE  /\ frame.fd \in MaybeFd
         /\ frame.call \in FileCalls \cup {"none", "socket_network_client", "uevent_kernel_recv"}
         /\ frame.call = "none" => frame = NoCall
         /\ frame.call = "socket_network_client" => ConnectOK(frame, fds)
         /\ frame.call = "uevent_kernel_recv" => UeventOK(frame)
         /\ frame.call \in FileCalls => FileOK(frame)
<1>1. ConnectOK(frame, fds) => frame.call = "socket_network_client" /\ frame.fd \in MaybeFd
  BY DEF ConnectOK, ConnectFrame
<1>2. UeventOK(frame) => frame.call = "uevent_kernel_recv" /\ frame.fd \in MaybeFd
  BY DEF UeventOK, UeventFrame, MaybeFd
<1>3. FileOK(frame) => frame.call \in FileCalls /\ frame.fd \in MaybeFd
  BY FileCallOf
<1>4. frame = NoCall => frame.call = "none" /\ frame.fd \in MaybeFd
  BY DEF NoCall, MaybeFd
<1> QED
  BY <1>1, <1>2, <1>3, <1>4 DEF FrameOK, FileCalls

\* Between two calls there is no frame.
LEMMA IdleIs ==
  ASSUME FrameOK(frame, fds), Idle
  PROVE  frame = NoCall /\ InFlight = {}
<1>1. frame = NoCall
  BY CallOf DEF Idle
<1> QED
  BY <1>1 DEF NoCall, InFlight

-----------------------------------------------------------------------------
Socks == [addr : Nat, state : {"new", "connecting", "connected", "refused"}, nonblock : BOOLEAN]
\* The client's sockets are things.
LEMMA SocketsAreThings ==
  ASSUME NEW a \in Nat, NEW s \in {"new", "connecting", "connected", "refused"}, NEW b \in BOOLEAN
  PROVE  Sock(a, s, b) \in Thing
BY DEF Sock, Thing

Flipped(o) == [o EXCEPT !.nonblock = ~@]
\* toggle_O_NONBLOCK changes the one flag and nothing else.
LEMMA Toggles ==
  ASSUME NEW addr \in Nat, NEW state \in {"new", "connecting", "connected", "refused"}
  PROVE  /\ Flipped(Sock(addr, state, TRUE)) = Sock(addr, state, FALSE)
         /\ Flipped(Sock(addr, state, FALSE)) = Sock(addr, state, TRUE)
<1> DEFINE r == Sock(addr, state, TRUE)
           o == Sock(addr, state, FALSE)
           p == [r EXCEPT !.nonblock = FALSE]
           q == [o EXCEPT !.nonblock = TRUE]
<1>1. r \in Socks /\ o \in Socks
  BY DEF Sock, Socks
<1>2. r.nonblock = TRUE /\ r.addr = addr /\ r.state = state
  BY Zenon DEF Sock
<1>3. o.nonblock = FALSE /\ o.addr = addr /\ o.state = state
  BY Zenon DEF Sock
<1> HIDE DEF r, o
<1>4. p \in Socks /\ p.nonblock = FALSE /\ p.addr = r.addr /\ p.state = r.state
  BY <1>1 DEF Socks
<1>5. q \in Socks /\ q.nonblock = TRUE /\ q.addr = o.addr /\ q.state = o.state
  BY <1>1 DEF Socks
<1> HIDE DEF p, q
<1>6. p = o /\ q = r
  BY <1>1, <1>2, <1>3, <1>4, <1>5 DEF Socks
<1>7. (~r.nonblock) = FALSE /\ (~o.nonblock) = TRUE
  BY <1>2, <1>3
<1>8. [r EXCEPT !.nonblock = ~@] = o /\ [o EXCEPT !.nonblock = ~@] = r
  BY <1>6, <1>7 DEF p, q
<1> QED
  BY <1>8 DEF r, o, Flipped

\* A call of socket_network_client_timeout keeps the invariant.
LEMMA SocketNetworkClient_Keeps ==
  ASSUME IInv, SocketNetworkClient, UNCHANGED channel
  PROVE  IInv'
<1>1. PICK n \in 0 .. MaxAddresses, timeout \in BOOLEAN : Idle /\ frame' = Start(n, timeout) /\ UNCHANGED table
  BY DEF SocketNetworkClient
<1>2. frame = NoCall /\ InFlight = {}
  BY <1>1, IdleIs DEF IInv
<1>3. InFlight' = {} /\ Here' = Here
  BY <1>1 DEF Start, InFlight, table, Here
<1>4. ConnectOK(frame', fds')
  <2>1. n \in Nat
    BY <1>1, AddressesAssumption
  <2>2. 1 .. 0 = {}
    OBVIOUS
  <2> QED BY <1>1, <2>1, <2>2 DEF ConnectOK, ConnectFrame, Start, MaybeFd
<1> QED
  BY <1>2, <1>3, <1>4 DEF IInv, FrameOK, ChannelOK

\* The state in which a step of the client begins
ConnectState ==
    /\ ConnectOK(frame, fds) /\ frame \in ConnectFrame /\ Owned(Here, InFlight) /\ Here \in Table
    /\ Here.fds = fds
    /\ frame.fd \in Fd \cup {None} /\ ChannelOK
\* Where the client runs, this is its state.
LEMMA ConnectBegins ==
  ASSUME IInv, frame.call = "socket_network_client"
  PROVE  ConnectState
<1>1. ConnectOK(frame, fds)
  BY CallOf DEF IInv
<1>2. Here \in Table
  BY DEF IInv, Owned
<1> QED
  BY <1>1, <1>2 DEF ConnectState, ConnectOK, ConnectFrame, MaybeFd, IInv, Here

\* An error closes the socket and returns.
LEMMA GiveUp_Keeps ==
  ASSUME ConnectState, GiveUp, frame.waited <= frame.last, UNCHANGED channel
  PROVE  IInv'
<1>1. Owned(close(Here, frame.fd), {})
  BY CloseInHand DEF ConnectState, InFlight
<1>2. Here' = close(Here, frame.fd)
  BY <1>1, ToIs DEF GiveUp, Owned
<1>3. InFlight' = {}
  BY DEF GiveUp, InFlight, ConnectState, ConnectFrame
<1>4. ConnectOK(frame', fds')
  BY DEF GiveUp, ConnectState, ConnectOK, ConnectFrame, MaybeFd
<1> QED
  BY <1>1, <1>2, <1>3, <1>4 DEF IInv, FrameOK, ChannelOK, ConnectState

\* A refused address: the socket is closed and the next one tried.
LEMMA Continue_Keeps ==
  ASSUME ConnectState, Continue, frame.addr <= frame.last, frame.waited <= frame.addr, UNCHANGED channel
  PROVE  IInv'
<1>1. Owned(close(Here, frame.fd), {})
  BY CloseInHand DEF ConnectState, InFlight
<1>2. Here' = close(Here, frame.fd)
  BY <1>1, ToIs DEF Continue, Owned
<1>3. InFlight' = {}
  BY DEF Continue, InFlight, ConnectState, ConnectFrame
<1>4. ConnectOK(frame', fds')
  <2> DEFINE refused == frame.refused \cup {frame.addr}
  <2>1. refused = 1 .. (frame.addr + 1) - 1 /\ refused \in SUBSET Nat
    BY DEF ConnectState, ConnectOK, ConnectFrame
  <2>2. /\ frame' \in ConnectFrame /\ frame'.at = "socket" /\ frame'.fd = None /\ frame'.addr = frame.addr + 1
        /\ frame'.waited = frame.waited /\ frame'.last = frame.last /\ frame'.refused = refused
    <3>1. frame' = [frame EXCEPT !.at = "socket", !.fd = None, !.addr = @ + 1, !.refused = refused]
      BY DEF Continue
    <3>2. frame.addr + 1 \in Nat /\ None \in MaybeFd
      BY DEF ConnectState, ConnectFrame, MaybeFd
    <3> HIDE DEF refused
    <3> QED BY <2>1, <3>1, <3>2 DEF ConnectState, ConnectFrame
  <2> HIDE DEF refused
  <2>3. frame.addr \in Nat /\ frame.last \in Nat /\ frame.waited \in Nat /\ frame.addr \in 1 .. frame.last + 1
    BY DEF ConnectState, ConnectOK, ConnectFrame
  <2> QED BY <2>1, <2>2, <2>3 DEF ConnectOK
<1> QED
  BY <1>1, <1>2, <1>3, <1>4 DEF IInv, FrameOK, ChannelOK, ConnectState

\* With t the table in which the socket of the call is connected but for O_NONBLOCK
LEMMA Toggled_Keeps ==
  ASSUME ConnectState, NEW t, Owned(t, InFlight), frame.fd \in Fd,
         t.fds[frame.fd] = Sock(frame.addr, "connected", TRUE), Toggled(t), frame.addr <= frame.last,
         frame.waited <= frame.last, UNCHANGED channel
  PROVE  IInv'
<1> DEFINE s == frame.fd
           u == [t EXCEPT !.fds[s].nonblock = ~@]
           o == Sock(frame.addr, "connected", FALSE)
<1>0. s \in Fd /\ s # None /\ t \in Table /\ InFlight = {s}
  BY FdAssumption DEF Owned, InFlight
<1>1. PICK ok \in BOOLEAN : /\ To(toggle_O_NONBLOCK(t, s, ok))
                            /\ frame' = [frame EXCEPT !.at = "return", !.fd = IF ok THEN @ ELSE None,
                                                      !.failed = ~ok]
  BY DEF Toggled
<1>2. u = [t EXCEPT !.fds[s] = o]
  <2>1. [t.fds[s] EXCEPT !.nonblock = ~@] = o
    <3>1. frame.addr \in Nat
      BY DEF ConnectState, ConnectFrame
    <3>2. Flipped(Sock(frame.addr, "connected", TRUE)) = o
      BY <3>1, Toggles
    <3> HIDE DEF o
    <3>3. Flipped(t.fds[s]) = o
      BY <3>2
    <3> QED BY <3>3 DEF Flipped
  <2>2. u = [t EXCEPT !.fds = [t.fds EXCEPT ![s] = [t.fds[s] EXCEPT !.nonblock = ~@]]]
    OBVIOUS
  <2> QED BY <2>1, <2>2
<1>3. Owned(u, {s}) /\ u.fds[s] = o
  <2>1. o \in Thing
    BY SocketsAreThings DEF ConnectState, ConnectFrame
  <2>2. t.fds[s] # None
    BY <1>0 DEF Owned, OpenAreKept, KeptBy
  <2> HIDE DEF o
  <2>3. Owned([t EXCEPT !.fds[s] = o], {s})
    BY <1>0, <2>1, <2>2, Changed_Owned
  <2>4. [t EXCEPT !.fds[s] = o].fds[s] = o
    BY <1>0 DEF Table
  <2> QED BY <1>2, <2>3, <2>4
<1>4. Owned(close(t, s), {})
  BY <1>0, CloseInHand DEF InFlight
<1>c. ConnectOK(frame, fds) /\ frame \in ConnectFrame
  BY DEF ConnectState
<1>5. CASE ok
  <2>1. Here' = u
    <3>1. toggle_O_NONBLOCK(t, s, ok) = u
      BY <1>5 DEF toggle_O_NONBLOCK
    <3> HIDE DEF u
    <3> QED BY <1>1, <1>3, <3>1, ToIs DEF Owned
  <2>2. frame' = [frame EXCEPT !.at = "return", !.failed = FALSE]
    BY <1>1, <1>5, <1>c DEF ConnectFrame
  <2> HIDE DEF u
  <2>3. InFlight' = {s} /\ fds'[s] = o
    BY <1>0, <1>3, <2>1, <2>2, <1>c DEF InFlight, Here, ConnectFrame
  <2>4. ConnectOK(frame', fds')
    <3> HIDE DEF o
    <3>1. /\ frame' \in ConnectFrame /\ frame'.at = "return" /\ frame'.fd = s /\ frame'.addr = frame.addr
          /\ frame'.last = frame.last /\ frame'.refused = frame.refused /\ frame'.waited = frame.waited
      BY <2>2, <1>c DEF ConnectFrame
    <3>2. fds'[frame'.fd] = Sock(frame'.addr, "connected", FALSE)
      BY <3>1, <2>3 DEF o
    <3> HIDE DEF s
    <3> QED BY <3>1, <3>2, <1>0, <1>c DEF ConnectOK
  <2> QED BY <1>3, <2>1, <2>3, <2>4 DEF IInv, FrameOK, ChannelOK, ConnectState
<1>6. CASE ~ok
  <2>1. Here' = close(t, s)
    <3>1. toggle_O_NONBLOCK(t, s, ok) = close(t, s)
      BY <1>6 DEF toggle_O_NONBLOCK
    <3> QED BY <1>1, <1>4, <3>1, ToIs DEF Owned
  <2>2. frame' = [frame EXCEPT !.at = "return", !.fd = None, !.failed = TRUE]
    BY <1>1, <1>6
  <2>3. InFlight' = {}
    BY <2>2, <1>c DEF InFlight, ConnectFrame
  <2>4. ConnectOK(frame', fds')
    BY <2>2, <1>c DEF ConnectOK, ConnectFrame, MaybeFd
  <2> QED BY <1>4, <2>1, <2>3, <2>4 DEF IInv, FrameOK, ChannelOK, ConnectState
<1> QED
  BY <1>1, <1>5, <1>6

\* A new socket, also when fcntl fails and closes it.
LEMMA Socket_Keeps ==
  ASSUME ConnectState, Socket, UNCHANGED channel
  PROVE  IInv'
<1>1. /\ ConnectOK(frame, fds) /\ frame \in ConnectFrame /\ frame.at = "socket" /\ frame.fd = None
      /\ frame.waited <= frame.addr - 1 /\ frame.addr \in 1 .. frame.last + 1 /\ InFlight = {}
  BY DEF Socket, Connecting, ConnectState, ConnectOK, InFlight
<1>2. frame.addr \in Nat /\ frame.last \in Nat /\ frame.waited \in Nat
  BY <1>1 DEF ConnectFrame
<1>3. frame.waited <= frame.last
  BY <1>1, <1>2
<1>4. CASE frame.addr > frame.last /\ Break(None) /\ UNCHANGED table
  <2>1. frame' = [frame EXCEPT !.at = "return", !.fd = None] /\ Here' = Here /\ frame.addr = frame.last + 1
    BY <1>1, <1>2, <1>4 DEF Break, table, Here
  <2>2. InFlight' = {}
    BY <2>1, <1>1 DEF InFlight, ConnectFrame
  <2>3. ConnectOK(frame', fds')
    BY <2>1, <1>1, <1>2, <1>3 DEF ConnectOK, ConnectFrame, MaybeFd
  <2> QED BY <1>1, <2>1, <2>2, <2>3 DEF IInv, FrameOK, ChannelOK, ConnectState
<1>5. CASE frame.addr <= frame.last /\ GiveUp
  BY <1>3, <1>5, GiveUp_Keeps
<1>6. CASE /\ frame.addr <= frame.last /\ ~IsFull(Here)
           /\ \E ok \in BOOLEAN :
                /\ To(toggle_O_NONBLOCK(Opened(Here, Sock(frame.addr, "new", FALSE)), Lowest(Here), ok))
                /\ frame' = IF ok THEN [frame EXCEPT !.at = "connect", !.fd = Lowest(Here)]
                            ELSE [frame EXCEPT !.at = "return", !.failed = TRUE]
  <2> DEFINE n == Lowest(Here)
             t == Opened(Here, Sock(frame.addr, "new", FALSE))
             o == Sock(frame.addr, "new", TRUE)
             u == [t EXCEPT !.fds[n].nonblock = ~@]
  <2>1. PICK ok \in BOOLEAN :
             /\ To(toggle_O_NONBLOCK(t, n, ok))
             /\ frame' = IF ok THEN [frame EXCEPT !.at = "connect", !.fd = n]
                         ELSE [frame EXCEPT !.at = "return", !.failed = TRUE]
    BY <1>6
  <2>2. Sock(frame.addr, "new", FALSE) \in Thing /\ o \in Thing
    BY <1>2, SocketsAreThings
  <2>3. Owned(t, {n}) /\ n \in Fd /\ t.fds = [fds EXCEPT ![n] = Sock(frame.addr, "new", FALSE)]
    <3>1. Owned(Here, {}) /\ Here.fds = fds /\ {} \cup {n} = {n}
      BY <1>1 DEF ConnectState
    <3>2. /\ Owned(t, {} \cup {n}) /\ n \in Fd
          /\ t.fds = [Here.fds EXCEPT ![n] = Sock(frame.addr, "new", FALSE)]
      BY <3>1, <2>2, <1>6, Opened_Owned
    <3> HIDE DEF t, n
    <3> QED BY <3>1, <3>2
  <2>4. t \in Table /\ n # None /\ fds \in [Fd -> Thing \cup {None}]
    BY <2>3, FdAssumption DEF Owned, ConnectState, Table, Here
  <2> HIDE DEF t, n
  <2>5. t.fds[n] = Sock(frame.addr, "new", FALSE)
    BY <2>3, <2>4 DEF Table
  <2>6. u = [t EXCEPT !.fds[n] = o]
    <3>1. [t.fds[n] EXCEPT !.nonblock = ~@] = o
      <4>1. Flipped(Sock(frame.addr, "new", FALSE)) = o
        BY <1>2, Toggles
      <4> HIDE DEF o
      <4>2. Flipped(t.fds[n]) = o
        BY <4>1, <2>5
      <4> QED BY <4>2 DEF Flipped
    <3>2. u = [t EXCEPT !.fds = [t.fds EXCEPT ![n] = [t.fds[n] EXCEPT !.nonblock = ~@]]]
      OBVIOUS
    <3> QED BY <3>1, <3>2
  <2>7. CASE ok
    <3>1. Owned([t EXCEPT !.fds[n] = o], {n}) /\ [t EXCEPT !.fds[n] = o].fds[n] = o
      <4> HIDE DEF o
      <4>1. t.fds[n] # None
        BY <2>3 DEF Owned, OpenAreKept, KeptBy
      <4>2. Owned([t EXCEPT !.fds[n] = o], {n})
        BY <2>2, <2>3, <4>1, Changed_Owned
      <4>3. [t EXCEPT !.fds[n] = o].fds[n] = o
        BY <2>3, <2>4 DEF Table
      <4> QED BY <4>2, <4>3
    <3>2. toggle_O_NONBLOCK(t, n, ok) = u
      BY <2>7 DEF toggle_O_NONBLOCK
    <3> HIDE DEF u, o
    <3>3. Here' = u
      BY <2>1, <3>2, <3>1, <2>6, ToIs DEF Owned
    <3>4. frame' = [frame EXCEPT !.at = "connect", !.fd = n]
      BY <2>1, <2>7
    <3>5. InFlight' = {n} /\ fds'[n] = o
      <4>1. frame'.fd = n
        BY <1>1, <3>4 DEF ConnectFrame
      <4>2. InFlight' = {n}
        BY <4>1, <2>4 DEF InFlight
      <4>3. Here'.fds = fds'
        BY DEF Here
      <4>4. fds'[n] = o
        BY <4>3, <3>1, <3>3, <2>6
      <4> QED BY <4>2, <4>4
    <3>6. ConnectOK(frame', fds')
      <4>1. /\ frame' \in ConnectFrame /\ frame'.at = "connect" /\ frame'.fd = n
            /\ frame'.addr = frame.addr /\ frame'.last = frame.last
            /\ frame'.refused = frame.refused /\ frame'.waited = frame.waited
        BY <3>4, <1>1, <2>3 DEF ConnectFrame, MaybeFd
      <4>2. fds'[frame'.fd] = Sock(frame'.addr, "new", TRUE)
        BY <3>5, <4>1 DEF o
      <4> QED BY <4>1, <4>2, <1>1, <1>2, <1>6, <2>4 DEF ConnectOK
    <3> QED BY <2>6, <3>1, <3>3, <3>5, <3>6 DEF IInv, FrameOK, ChannelOK, ConnectState
  <2>8. CASE ~ok
    <3>1. Owned(close(t, n), {})
      <4>1. {n} \ {None} = {n}
        BY <2>4
      <4> QED BY <2>3, <4>1, CloseInHand
    <3>2. toggle_O_NONBLOCK(t, n, ok) = close(t, n)
      BY <2>8 DEF toggle_O_NONBLOCK
    <3>3. Here' = close(t, n)
      BY <2>1, <3>1, <3>2, ToIs DEF Owned
    <3>4. frame' = [frame EXCEPT !.at = "return", !.failed = TRUE]
      BY <2>1, <2>8
    <3>5. InFlight' = {}
      BY <3>4, <1>1 DEF InFlight, ConnectFrame
    <3>6. ConnectOK(frame', fds')
      BY <3>4, <1>1, <1>2, <1>3 DEF ConnectOK, ConnectFrame
    <3> QED BY <3>1, <3>3, <3>5, <3>6 DEF IInv, FrameOK, ChannelOK, ConnectState
  <2> QED BY <2>1, <2>7, <2>8
<1> QED
  BY <1>4, <1>5, <1>6 DEF Socket

\* A socket of the client whose state changes
IsChanged(t, u, E, n, o) == u = [t EXCEPT !.fds[n] = o] /\ Owned(u, E) /\ u.fds[n] = o
\* Only the state of an open socket changes.
LEMMA State_Owned ==
  ASSUME NEW t, NEW E, Owned(t, E), NEW n \in Fd, NEW addr \in Nat,
         NEW s \in {"new", "connecting", "connected", "refused"},
         NEW v \in {"new", "connecting", "connected", "refused"}, NEW b \in BOOLEAN,
         t.fds[n] = Sock(addr, s, b)
  PROVE  IsChanged(t, [t EXCEPT !.fds[n].state = v], E, n, Sock(addr, v, b))
<1> DEFINE o == Sock(addr, v, b)
           r == Sock(addr, s, b)
<1>1. o \in Socks /\ r \in Socks /\ o \in Thing /\ r \in Thing
  BY SocketsAreThings DEF Sock, Socks
<1>2. r.addr = addr /\ r.nonblock = b /\ o.addr = addr /\ o.state = v /\ o.nonblock = b
  BY Zenon DEF Sock
<1> HIDE DEF o, r
<1>3. [t.fds[n] EXCEPT !.state = v] = o
  <2> DEFINE p == [r EXCEPT !.state = v]
  <2>1. p \in Socks /\ p.state = v /\ p.addr = r.addr /\ p.nonblock = r.nonblock
    BY <1>1 DEF Socks
  <2> HIDE DEF p
  <2>2. p = o
    BY <2>1, <1>1, <1>2 DEF Socks
  <2> QED BY <2>2 DEF p, r
<1>4. [t EXCEPT !.fds[n].state = v] = [t EXCEPT !.fds[n] = o]
  <2>1. [t EXCEPT !.fds[n].state = v] = [t EXCEPT !.fds = [t.fds EXCEPT ![n] = [t.fds[n] EXCEPT !.state = v]]]
    OBVIOUS
  <2> QED BY <1>3, <2>1
<1>5. t.fds[n] # None
  BY <1>1, ThingAssumption DEF r
<1>6. Owned([t EXCEPT !.fds[n] = o], E)
  BY <1>1, <1>5, Changed_Owned
<1>7. [t EXCEPT !.fds[n] = o].fds[n] = o
  <2>1. t \in Table
    BY DEF Owned
  <2> QED BY <2>1 DEF Table
<1> QED
  BY <1>4, <1>6, <1>7 DEF o, IsChanged

-----------------------------------------------------------------------------
\* connect, at once, refused or in progress.
LEMMA Connect_Keeps ==
  ASSUME ConnectState, Connect, UNCHANGED channel
  PROVE  IInv'
<1> DEFINE n == frame.fd
           a == frame.addr
<1>1. /\ ConnectOK(frame, fds) /\ frame \in ConnectFrame /\ frame.at = "connect" /\ n # None /\ n \in Fd
      /\ a \in Nat /\ a <= frame.last /\ frame.waited <= a - 1 /\ fds[n] = Sock(a, "new", TRUE)
  BY DEF Connect, Connecting, ConnectState, ConnectOK, ConnectFrame
<1>2. frame.last \in Nat /\ frame.waited \in Nat /\ frame.waited <= a /\ frame.waited <= frame.last
  BY <1>1 DEF ConnectFrame
<1>3. Here.fds[n] = Sock(a, "new", TRUE) /\ Owned(Here, InFlight) /\ InFlight = {n}
  BY <1>1 DEF ConnectState, InFlight
<1> DEFINE t == [Here EXCEPT !.fds[n].state = "connected"]
           u == [Here EXCEPT !.fds[n].state = "connecting"]
<1>4. CASE Toggled([Here EXCEPT !.fds[frame.fd].state = "connected"])
  <2>1. IsChanged(Here, t, InFlight, n, Sock(a, "connected", TRUE))
    <3> HIDE DEF n, a
    <3> QED BY <1>1, <1>3, State_Owned
  <2> HIDE DEF t
  <2>2. Toggled(t)
    BY <1>4 DEF t
  <2> QED BY <1>1, <1>2, <2>1, <2>2, Toggled_Keeps DEF IsChanged
<1>5. CASE Continue
  BY <1>1, <1>2, <1>5, Continue_Keeps
<1>6. CASE /\ To([Here EXCEPT !.fds[frame.fd].state = "connecting"])
           /\ frame' = [frame EXCEPT !.at = "select"]
  <2>0. IsChanged(Here, u, InFlight, n, Sock(a, "connecting", TRUE))
    <3> HIDE DEF n, a
    <3> QED BY <1>1, <1>3, State_Owned
  <2>1. Owned(u, InFlight) /\ u.fds[n] = Sock(a, "connecting", TRUE)
    BY <2>0, Zenon DEF IsChanged
  <2> HIDE DEF u
  <2>2. Here' = u
    BY <1>6, <2>1, ToIs DEF u, Owned
  <2>3. /\ frame' \in ConnectFrame /\ frame'.at = "select" /\ frame'.fd = n /\ frame'.addr = a
        /\ frame'.last = frame.last /\ frame'.refused = frame.refused /\ frame'.waited = frame.waited
    BY <1>1, <1>6 DEF ConnectFrame
  <2>4. InFlight' = InFlight /\ Here'.fds = fds'
    BY <2>3 DEF InFlight, Here
  <2>5. fds'[frame'.fd] = Sock(frame'.addr, "connecting", TRUE)
    BY <2>1, <2>2, <2>3, <2>4
  <2>6. ConnectOK(frame', fds')
    <3> QED BY <2>3, <2>5, <1>1, <1>2 DEF ConnectOK
  <2> QED BY <2>1, <2>2, <2>4, <2>6 DEF IInv, FrameOK, ChannelOK, ConnectState
<1> QED
  BY <1>4, <1>5, <1>6 DEF Connect

\* select: ready, an error or the time is up.
LEMMA Select_Keeps ==
  ASSUME ConnectState, Select, UNCHANGED channel
  PROVE  IInv'
<1> DEFINE n == frame.fd
           a == frame.addr
<1>1. /\ ConnectOK(frame, fds) /\ frame \in ConnectFrame /\ frame.at = "select" /\ n # None /\ n \in Fd
      /\ a \in Nat /\ a <= frame.last /\ frame.waited <= a - 1
      /\ \E s \in {"connecting", "connected", "refused"} : fds[n] = Sock(a, s, TRUE)
  BY DEF Select, Connecting, ConnectState, ConnectOK, ConnectFrame
<1>2. frame.last \in Nat /\ frame.waited \in Nat /\ frame.waited + 1 <= a /\ frame.waited + 1 <= frame.last
  BY <1>1 DEF ConnectFrame
<1>3. CASE GiveUp
  BY <1>2, <1>3, GiveUp_Keeps
<1>4. CASE /\ socket.state # "connecting"
           /\ \E w \in {frame.waited, frame.waited + 1} :
                 frame' = [frame EXCEPT !.at = "getsockopt", !.waited = w]
           /\ UNCHANGED table
  <2>1. PICK w \in {frame.waited, frame.waited + 1} :
                 frame' = [frame EXCEPT !.at = "getsockopt", !.waited = w]
    BY <1>4
  <2>2. w \in Nat /\ w <= a
    BY <1>1, <1>2
  <2>3. /\ frame' \in ConnectFrame /\ frame'.at = "getsockopt" /\ frame'.fd = n /\ frame'.addr = a
        /\ frame'.last = frame.last /\ frame'.refused = frame.refused /\ frame'.waited = w
    BY <2>1, <2>2, <1>1 DEF ConnectFrame
  <2>4. Here' = Here /\ InFlight' = InFlight /\ fds' = fds
    BY <2>3, <1>4 DEF InFlight, Here, table
  <2>5. \E s \in {"connected", "refused"} : fds[n] = Sock(a, s, TRUE)
    <3>1. PICK s \in {"connecting", "connected", "refused"} : fds[n] = Sock(a, s, TRUE)
      BY <1>1
    <3>2. Sock(a, s, TRUE).state = s
      BY Zenon DEF Sock
    <3>3. fds[n].state = s
      BY <3>1, <3>2, Zenon
    <3> QED BY <3>1, <3>3, <1>4 DEF socket
  <2>6. ConnectOK(frame', fds')
    <3> QED BY <2>2, <2>3, <2>4, <2>5, <1>1, <1>2 DEF ConnectOK
  <2> QED BY <2>4, <2>6 DEF IInv, FrameOK, ChannelOK, ConnectState
<1>5. CASE /\ frame.timeout /\ socket.state = "connecting"
           /\ To(close(Here, frame.fd))
           /\ frame' = [frame EXCEPT !.at = "return", !.fd = None, !.waited = @ + 1, !.timedOut = TRUE]
  <2>1. Owned(close(Here, n), {})
    BY CloseInHand DEF ConnectState, InFlight
  <2>2. Here' = close(Here, n)
    BY <1>5, <2>1, ToIs DEF Owned
  <2>3. InFlight' = {}
    BY <1>1, <1>5 DEF InFlight, ConnectFrame
  <2>4. ConnectOK(frame', fds')
    <3>1. /\ frame' \in ConnectFrame /\ frame'.at = "return" /\ frame'.fd = None /\ frame'.addr = a
          /\ frame'.last = frame.last /\ frame'.refused = frame.refused
          /\ frame'.waited = frame.waited + 1 /\ frame'.timedOut = TRUE
      <4> DEFINE w == frame.waited + 1
      <4>1. frame' = [frame EXCEPT !.at = "return", !.fd = None, !.waited = w, !.timedOut = TRUE]
        BY <1>5
      <4>2. w \in Nat /\ None \in MaybeFd
        BY <1>2 DEF MaybeFd
      <4> HIDE DEF w
      <4>3. frame' \in ConnectFrame
        BY <4>1, <4>2, <1>1 DEF ConnectFrame
      <4>4. /\ frame'.at = "return" /\ frame'.fd = None /\ frame'.addr = a /\ frame'.last = frame.last
            /\ frame'.refused = frame.refused /\ frame'.waited = w
        BY <4>1, <1>1 DEF ConnectFrame
      <4>5. frame'.timedOut = TRUE
        BY <4>1, <1>1, Zenon DEF ConnectFrame
      <4> QED BY <4>3, <4>4, <4>5 DEF w
    <3> QED BY <3>1, <1>1, <1>2 DEF ConnectOK
  <2> QED BY <2>1, <2>2, <2>3, <2>4 DEF IInv, FrameOK, ChannelOK, ConnectState
<1> QED
  BY <1>3, <1>4, <1>5 DEF Select

\* SO_ERROR decides between the result and the next address.
LEMMA Getsockopt_Keeps ==
  ASSUME ConnectState, Getsockopt, UNCHANGED channel
  PROVE  IInv'
<1> DEFINE n == frame.fd
           a == frame.addr
<1>1. /\ ConnectOK(frame, fds) /\ frame \in ConnectFrame /\ frame.at = "getsockopt" /\ n # None /\ n \in Fd
      /\ a \in Nat /\ a <= frame.last /\ frame.waited <= a
      /\ \E s \in {"connected", "refused"} : fds[n] = Sock(a, s, TRUE)
  BY DEF Getsockopt, Connecting, ConnectState, ConnectOK, ConnectFrame
<1>2. frame.last \in Nat /\ frame.waited \in Nat /\ frame.waited <= frame.last
  BY <1>1 DEF ConnectFrame
<1>3. CASE GiveUp
  BY <1>2, <1>3, GiveUp_Keeps
<1>4. CASE socket.state = "refused" /\ Continue
  BY <1>1, <1>2, <1>4, Continue_Keeps
<1>5. CASE socket.state = "connected" /\ Toggled(Here)
  <2>1. fds[n] = Sock(a, "connected", TRUE)
    <3>1. PICK s \in {"connected", "refused"} : fds[n] = Sock(a, s, TRUE)
      BY <1>1
    <3>2. Sock(a, s, TRUE).state = s
      BY Zenon DEF Sock
    <3>3. fds[n].state = s
      BY <3>1, <3>2, Zenon
    <3> QED BY <3>1, <3>3, <1>5 DEF socket
  <2>2. Here.fds[n] = Sock(a, "connected", TRUE) /\ Owned(Here, InFlight)
    BY <2>1 DEF ConnectState
  <2> QED BY <1>1, <1>2, <1>5, <2>2, Toggled_Keeps
<1> QED
  BY <1>3, <1>4, <1>5 DEF Getsockopt

\* The caller takes the result.
LEMMA Connected_Keeps ==
  ASSUME ConnectState, Connected, UNCHANGED channel
  PROVE  IInv'
<1>1. PICK h \in Handle : To(reset(Here, h, frame.fd)) /\ frame' = NoCall
  BY DEF Connected
<1>2. Owned(reset(Here, h, frame.fd), {})
  BY ResetInHand DEF ConnectState, InFlight, Owner
<1>3. Here' = reset(Here, h, frame.fd)
  BY <1>1, <1>2, ToIs DEF Owned
<1>4. InFlight' = {}
  BY <1>1 DEF InFlight, NoCall
<1> QED
  BY <1>1, <1>2, <1>3, <1>4 DEF IInv, FrameOK, ChannelOK, ConnectState

\* The network changes the state of the socket only.
LEMMA Answer_Keeps ==
  ASSUME ConnectState, Answer, UNCHANGED channel
  PROVE  IInv'
<1> DEFINE n == frame.fd
           a == frame.addr
<1>1. PICK state \in {"connected", "refused"} :
         /\ Connecting("select")
         /\ fds' = [fds EXCEPT ![frame.fd].state = state]
         /\ UNCHANGED <<held, vector, wrong, frame>>
  BY DEF Answer
<1>2. /\ ConnectOK(frame, fds) /\ frame \in ConnectFrame /\ frame.at = "select" /\ n # None /\ n \in Fd
      /\ a \in Nat
      /\ \E s \in {"connecting", "connected", "refused"} : fds[n] = Sock(a, s, TRUE)
  BY <1>1 DEF Connecting, ConnectState, ConnectOK, ConnectFrame
<1>3. PICK s \in {"connecting", "connected", "refused"} : fds[n] = Sock(a, s, TRUE)
  BY <1>2
<1> DEFINE t == [Here EXCEPT !.fds[n].state = state]
<1>4. Owned(t, InFlight) /\ t.fds[n] = Sock(a, state, TRUE)
  <2>1. Here.fds[n] = Sock(a, s, TRUE) /\ Owned(Here, InFlight)
    BY <1>3 DEF ConnectState
  <2>2. IsChanged(Here, t, InFlight, n, Sock(a, state, TRUE))
    <3> HIDE DEF n, a
    <3> QED BY <1>2, <2>1, State_Owned
  <2> QED BY <2>2, Zenon DEF IsChanged
<1>5. Here' = t
  BY <1>1 DEF Here
<1>6. InFlight' = InFlight /\ fds'[n] = Sock(a, state, TRUE)
  <2>1. Here'.fds = fds'
    BY DEF Here
  <2> HIDE DEF t
  <2> QED BY <2>1, <1>1, <1>4, <1>5 DEF InFlight
<1>7. ConnectOK(frame', fds')
  BY <1>1, <1>2, <1>6 DEF ConnectOK
<1> HIDE DEF t
<1> QED
  BY <1>1, <1>4, <1>5, <1>6, <1>7 DEF IInv, FrameOK, ChannelOK, ConnectState

\* Every step of the client, the network and the call keep the invariant.
LEMMA Client_Keeps ==
  ASSUME IInv, SocketNetworkClient \/ ConnectStep \/ Answer, UNCHANGED channel
  PROVE  IInv'
<1>1. CASE SocketNetworkClient
  BY <1>1, SocketNetworkClient_Keeps
<1>2. CASE ConnectStep \/ Answer
  <2>1. frame.call = "socket_network_client"
    BY <1>2 DEF ConnectStep, Answer, Socket, Connect, Select, Getsockopt, Connected, Connecting
  <2>2. ConnectState
    BY <2>1, ConnectBegins
  <2> QED BY <1>2, <2>2, Socket_Keeps, Connect_Keeps, Select_Keeps, Getsockopt_Keeps,
             Connected_Keeps, Answer_Keeps DEF ConnectStep
<1> QED
  BY <1>1, <1>2

-----------------------------------------------------------------------------
\* Between two calls nothing is in the hands of a function.
AtRest == /\ Idle /\ frame = NoCall /\ InFlight = {} /\ Owned(Here, {}) /\ Here \in Table
          /\ fds \in [Fd -> Thing \cup {None}] /\ held \in [Owner -> Fd \cup {None}] /\ ChannelOK
\* Between two calls this is the state.
LEMMA RestsInIdle ==
  ASSUME IInv, Idle
  PROVE  AtRest
<1>1. frame = NoCall /\ InFlight = {}
  BY IdleIs DEF IInv
<1>2. Owned(Here, {}) /\ Here \in Table
  BY <1>1 DEF IInv, Owned
<1>3. fds \in [Fd -> Thing \cup {None}] /\ held \in [Owner -> Fd \cup {None}]
  BY <1>2 DEF Here, Table
<1> QED
  BY <1>1, <1>2, <1>3 DEF AtRest, IInv

\* Between two calls any step to a table with all its owners keeps the
\* invariant.
LEMMA Rest_Keeps ==
  ASSUME AtRest, NEW t, Owned(t, {}), To(t), UNCHANGED frame, ChannelOK'
  PROVE  IInv'
<1>1. Here' = t
  BY ToIs DEF Owned
<1>2. InFlight' = {}
  BY DEF AtRest, InFlight
<1> QED
  BY <1>1, <1>2 DEF IInv, AtRest, FrameOK

\* What the caller opens are things.
LEMMA ObjectsAreThings == Object \subseteq Thing
BY DEF Thing

\* The caller keeps the invariant, whatever it does with its objects.
LEMMA Caller_Keeps ==
  ASSUME IInv, Caller, UNCHANGED channel
  PROVE  IInv'
<1>1. AtRest /\ ChannelOK' /\ UNCHANGED frame
  BY RestsInIdle DEF Caller, AtRest, ChannelOK
<1>2. Handle \subseteq Owner /\ FILE \in Owner /\ FILE \notin Handle
  BY OwnerAssumption DEF Owner
<1>3. SUFFICES \E t : Owned(t, {}) /\ To(t)
  BY <1>1, Rest_Keeps
<1>4. ASSUME NEW t, Owned(t, {}), NEW h \in Owner PROVE Owned(reset(t, h, None), {})
  <2>1. Owned(t, {None} \ {None})
    <3>1. {None} \ {None} = {}
      OBVIOUS
    <3> QED BY <1>4, <3>1
  <2> QED BY <1>4, <2>1, ResetInHand
<1>5. Owned(Here, {})
  BY <1>1 DEF AtRest
<1>6. CASE Open
  <2>1. PICK h \in Handle, o \in Object :
           To(IF IsFull(Here) THEN reset(Here, h, None) ELSE reset(Opened(Here, o), h, Lowest(Here)))
    BY <1>6 DEF Open
  <2>2. CASE IsFull(Here)
    BY <1>2, <1>4, <1>5, <2>1, <2>2
  <2>3. CASE ~IsFull(Here)
    <3> DEFINE n == Lowest(Here)
               t == Opened(Here, o)
    <3>1. Owned(t, {} \cup {n}) /\ n \in Fd
      BY <1>5, <2>3, ObjectsAreThings, Opened_Owned
    <3>2. {} \cup {n} = {n} \ {None}
      BY <3>1, FdAssumption
    <3> HIDE DEF t, n
    <3>3. Owned(reset(t, h, n), {})
      BY <1>2, <3>1, <3>2, ResetInHand
    <3>4. To(reset(t, h, n))
      BY <2>1, <2>3 DEF t, n
    <3> QED BY <3>3, <3>4
  <2> QED BY <2>2, <2>3
<1>7. CASE Reset
  BY <1>2, <1>4, <1>5, <1>7 DEF Reset
<1>8. CASE Move
  BY <1>2, <1>5, <1>8, MoveAssigned_Owned DEF Move
<1>9. CASE Pipe
  BY <1>2, <1>5, <1>9, Pair_Owned DEF Pipe
<1>10. CASE Fdopen
  <2>1. PICK h \in Handle, ok \in BOOLEAN : held[FILE] = None /\ To(Fdopened(Here, h, ok))
    BY <1>10 DEF Fdopen
  <2>2. Here.held[FILE] = None
    BY <2>1 DEF Here
  <2>3. Owned(Fdopened(Here, h, ok), {})
    BY <1>2, <1>5, <2>1, <2>2, Fdopened_Owned
  <2> QED BY <2>1, <2>3
<1>11. CASE Fclose
  BY <1>2, <1>4, <1>5, <1>11 DEF Fclose
<1>12. CASE Clear
  <2>1. To([CloseAll(Here, Here.vector) EXCEPT !.vector = <<>>])
    <3>1. Here.vector = vector
      BY DEF Here
    <3> QED BY <1>12, <3>1 DEF Clear
  <2>2. Owned([CloseAll(Here, Here.vector) EXCEPT !.vector = <<>>], {})
    BY <1>5, Cleared_Owned
  <2> QED BY <2>1, <2>2
<1> QED
  BY <1>6, <1>7, <1>8, <1>9, <1>10, <1>11, <1>12 DEF Caller

-----------------------------------------------------------------------------
\* The arguments are sequences of objects.
LEMMA ArgumentsAreSeqs == Arguments \subseteq Seq(Handle) /\ Seq(Handle) \subseteq Seq(Owner)
<1>1. Arguments \subseteq Seq(Handle)
  <2>1. ASSUME NEW m \in 0 .. 2, NEW s \in [1 .. m -> Handle] PROVE s \in Seq(Handle)
    OBVIOUS
  <2>2. Arguments = UNION {[1 .. m -> Handle] : m \in 0 .. 2}
    BY Zenon DEF Arguments, SeqOf
  <2> QED BY <2>1, <2>2
<1>2. Handle \subseteq Owner
  BY DEF Owner
<1>3. ASSUME NEW s \in Seq(Handle) PROVE s \in Seq(Owner)
  BY <1>2
<1> QED
  BY <1>1, <1>3

\* A message carries things, and its last byte ends it.
LEMMA Send_Keeps ==
  ASSUME IInv, Send
  PROVE  IInv'
<1>1. PICK hs \in Arguments, len \in Lengths :
         /\ Idle
         /\ SendFileDescriptorVector([i \in DOMAIN hs |-> held[hs[i]]], len)
         /\ UNCHANGED <<table, frame>>
  BY DEF Send
<1>2. AtRest
  BY <1>1, RestsInIdle
<1> DEFINE ns == [i \in DOMAIN hs |-> held[hs[i]]]
           c == [i \in DOMAIN ns |-> fds[ns[i]]]
           m == Message(c, len)
           b == channel.bytes
<1>3. hs \in Seq(Owner) /\ DOMAIN hs = 1 .. Len(hs) /\ Len(hs) \in Nat
  BY ArgumentsAreSeqs
<1>4. c \in Seq(Thing)
  <2>1. ASSUME NEW i \in 1 .. Len(hs) PROVE c[i] \in Thing
    <3>1. ns[i] = held[hs[i]] /\ hs[i] \in Owner /\ ns[i] # None
      BY <1>1, <1>3 DEF SendFileDescriptorVector
    <3>2. ns[i] \in Fd
      BY <3>1, <1>2 DEF AtRest
    <3>3. Here.fds[ns[i]] # None
      <4>1. KeptBy(Here, {}, ns[i])
        BY <3>1 DEF KeptBy, Here
      <4> HIDE DEF ns
      <4> QED BY <3>2, <4>1, <1>2 DEF AtRest, Owned, OpenAreKept
    <3>4. c[i] = fds[ns[i]]
      BY <1>3
    <3> HIDE DEF c, ns
    <3> QED BY <3>2, <3>3, <3>4, <1>2 DEF AtRest, Here
  <2>2. DOMAIN c = 1 .. Len(hs)
    BY <1>3
  <2> HIDE DEF c, ns
  <2>3. c = [i \in 1 .. Len(hs) |-> c[i]]
    BY <2>2 DEF c
  <2> QED BY <2>1, <2>3, <1>3
<1>5. m \in Seq(Byte) /\ len \in 1 .. 2 /\ Len(m) = len /\ m[len].last
  <2>0. len \in 1 .. 2
    BY DEF Lengths
  <2>1. ASSUME NEW i \in 1 .. len
        PROVE  [carried |-> IF i = 1 THEN c ELSE <<>>, last |-> i = len] \in Byte
    <3>1. (IF i = 1 THEN c ELSE <<>>) \in Seq(Thing)
      BY <1>4
    <3> HIDE DEF c
    <3> QED BY <3>1 DEF Byte
  <2> HIDE DEF c
  <2>2. m = [i \in 1 .. len |-> [carried |-> IF i = 1 THEN c ELSE <<>>, last |-> i = len]]
    BY DEF Message
  <2>3. m \in Seq(Byte) /\ Len(m) = len
    BY <2>0, <2>1, <2>2
  <2>4. m[len].last
    <3>1. len \in 1 .. len
      BY <2>0
    <3> DEFINE first == IF len = 1 THEN c ELSE <<>>
    <3>2. m[len] = [carried |-> first, last |-> len = len]
      BY <2>2, <3>1, Zenon
    <3>3. (len = len) = TRUE
      OBVIOUS
    <3> HIDE DEF first
    <3>4. m[len] = [carried |-> first, last |-> TRUE]
      BY <3>2, <3>3
    <3>5. m[len].last = TRUE
      BY <3>4
    <3> QED BY <3>5
  <2> QED BY <2>0, <2>3, <2>4
<1>6. b \in Seq(Byte)
  BY <1>2 DEF AtRest, ChannelOK
<1>7. channel' = [channel EXCEPT !.bytes = b \o m]
  BY <1>1 DEF SendFileDescriptorVector
<1> HIDE DEF m, b
<1>8. b \o m \in Seq(Byte) /\ Len(b \o m) = Len(b) + len /\ (b \o m)[Len(b) + len] = m[len]
  BY <1>5, <1>6
<1>9. ChannelOK'
  <2>1. channel' \in [kind : Kinds, passcred : BOOLEAN, bytes : Seq(Byte), closed : BOOLEAN]
    BY <1>2, <1>7, <1>8 DEF AtRest, ChannelOK
  <2>2. channel'.bytes = b \o m
    BY <1>2, <1>7 DEF AtRest, ChannelOK
  <2>3. channel'.bytes[Len(channel'.bytes)] = m[len]
    BY <2>2, <1>8
  <2> QED BY <2>1, <2>3, <1>5 DEF ChannelOK
<1>10. Here' = Here /\ UNCHANGED frame
  BY <1>1 DEF Here, table
<1>11. To(Here)
  BY <1>1 DEF To, Here, table
<1> QED
  BY <1>2, <1>9, <1>10, <1>11, Rest_Keeps DEF AtRest

\* What is left in the channel still ends with the end of a message.
LEMMA Consumed_Keeps ==
  ASSUME ChannelOK, NEW len \in Nat, Consumed(len)
  PROVE  ChannelOK'
<1>0. CASE channel.bytes = <<>>
  <2>1. Len(<<>>) = 0 /\ SubSeq(<<>>, 0 + 1, 0) = <<>>
    OBVIOUS
  <2>2. Taken(len) = 0
    BY <1>0 DEF Taken
  <2>3. channel' = [channel EXCEPT !.bytes = <<>>]
    BY <1>0, <2>1, <2>2 DEF Consumed
  <2>4. <<>> \in Seq(Byte)
    OBVIOUS
  <2> QED BY <2>3, <2>4 DEF ChannelOK
<1> SUFFICES ASSUME channel.bytes # <<>> PROVE ChannelOK'
  BY <1>0
<1> DEFINE b == channel.bytes
           k == Taken(len)
           r == SubSeq(b, k + 1, Len(b))
<1>1. k \in 0 .. Len(b) /\ b \in Seq(Byte) /\ b[Len(b)].last
  BY TakenTyped DEF ChannelOK
<1>2. channel' = [channel EXCEPT !.bytes = r]
  BY DEF Consumed
<1> HIDE DEF k, b
<1>3. r \in Seq(Byte) /\ Len(r) = Len(b) - k
  BY <1>1
<1>4. r # <<>> => r[Len(r)] = b[Len(b)]
  <2>1. SUFFICES ASSUME r # <<>> PROVE r[Len(r)] = b[Len(b)]
    OBVIOUS
  <2> DEFINE n == Len(b) - k
  <2>2. n \in 1 .. Len(r) /\ Len(r) = n /\ k + n = Len(b)
    BY <1>1, <1>3, <2>1
  <2>3. n \in Int /\ 1 <= n /\ n <= Len(b) - (k + 1) + 1 /\ k + 1 \in Nat
    <3>1. Len(b) \in Nat /\ k \in Nat
      BY <1>1
    <3> HIDE DEF r
    <3> QED BY <3>1, <2>2
  <2> HIDE DEF n
  <2>4. r[n] = b[(k + 1) + n - 1]
    BY <1>1, <2>3
  <2>5. r[n] = b[k + n]
    BY <1>1, <2>3, <2>4
  <2> HIDE DEF r, n
  <2> QED BY <2>2, <2>5
<1> HIDE DEF r
<1>5. channel' \in [kind : Kinds, passcred : BOOLEAN, bytes : Seq(Byte), closed : BOOLEAN] /\ channel'.bytes = r
  BY <1>2, <1>3 DEF ChannelOK
<1> QED
  BY <1>1, <1>4, <1>5 DEF ChannelOK

\* Sending and receiving keep the invariant.
LEMMA FdPassing_Keeps ==
  ASSUME IInv, FdPassing
  PROVE  IInv'
<1>1. CASE Send
  BY <1>1, Send_Keeps
<1>2. CASE ReceiveVector
  <2>1. PICK max_fds \in 0 .. 3, len \in Lengths :
           /\ Idle /\ Arrives
           /\ To(ReceiveFileDescriptorVector(Here, max_fds, len).t)
           /\ IF cmsg_space(max_fds) < PageSize THEN Consumed(len) ELSE UNCHANGED channel
           /\ UNCHANGED frame
    BY <1>2 DEF ReceiveVector
  <2>2. AtRest /\ max_fds \in Nat /\ len \in Nat
    BY <2>1, RestsInIdle DEF Lengths
  <2> DEFINE r == ReceiveFileDescriptorVector(Here, max_fds, len)
  <2>3. Owned(r.t, {})
    <3>1. r = ReceiveFileDescriptorVector(Here, max_fds, len)
      OBVIOUS
    <3> HIDE DEF r
    <3> QED BY <2>1, <2>2, <3>1, ReceiveVector_Owned DEF AtRest
  <2>4. ChannelOK'
    BY <2>1, <2>2, Consumed_Keeps DEF AtRest, ChannelOK
  <2> QED BY <2>1, <2>2, <2>3, <2>4, Rest_Keeps
<1>3. CASE Receive
  <2>1. PICK hs \in Arguments, len \in Lengths :
           /\ Idle /\ Arrives
           /\ To(ReceiveFileDescriptors(Here, hs, len).t)
           /\ IF cmsg_space(Len(hs)) < PageSize THEN Consumed(len) ELSE UNCHANGED channel
           /\ UNCHANGED frame
    BY <1>3 DEF Receive
  <2>2. AtRest /\ hs \in Seq(Owner) /\ len \in Nat
    BY <2>1, RestsInIdle, ArgumentsAreSeqs DEF Lengths
  <2> DEFINE r == ReceiveFileDescriptors(Here, hs, len)
  <2>3. Owned(r.t, {})
    <3>1. r = ReceiveFileDescriptors(Here, hs, len)
      OBVIOUS
    <3> HIDE DEF r
    <3> QED BY <2>1, <2>2, <3>1, Receive_Owned DEF AtRest, HandedOut
  <2>4. ChannelOK'
    BY <2>1, <2>2, Consumed_Keeps DEF AtRest, ChannelOK
  <2> QED BY <2>1, <2>2, <2>3, <2>4, Rest_Keeps
<1>4. CASE Hangup
  <2>1. Idle /\ UNCHANGED <<table, frame>> /\ channel' = [channel EXCEPT !.closed = TRUE]
    BY <1>4 DEF Hangup
  <2>2. AtRest
    BY <2>1, RestsInIdle
  <2>3. ChannelOK'
    BY <2>1, <2>2 DEF AtRest, ChannelOK
  <2>4. To(Here)
    BY <2>1 DEF To, Here, table
  <2> QED BY <2>1, <2>2, <2>3, <2>4, Rest_Keeps DEF AtRest
<1> QED
  BY <1>1, <1>2, <1>3, <1>4 DEF FdPassing

-----------------------------------------------------------------------------
\* A socket that is ready is held, one that failed is closed.
LEMMA ReadyOrClosed_Owned ==
  ASSUME NEW t, Owned(t, {}), NEW h \in Owner, NEW o \in Thing, NEW ready \in BOOLEAN
  PROVE  Owned(ReadyOrClosed(t, h, o, ready), {})
<1> DEFINE n == Lowest(t)
           u == Opened(t, o)
<1>1. None \in Fd \cup {None} /\ {None} \ {None} = {}
  OBVIOUS
<1>2. CASE IsFull(t)
  <2>1. Owned(reset(t, h, None), {})
    BY <1>1, ResetInHand
  <2> QED BY <1>2, <2>1 DEF ReadyOrClosed
<1>3. CASE ~IsFull(t)
  <2>1. Owned(u, {} \cup {n}) /\ n \in Fd
    BY <1>3, Opened_Owned
  <2>2. {} \cup {n} = {n} \ {None}
    BY <2>1, FdAssumption
  <2> HIDE DEF n, u
  <2>3. Owned(reset(u, h, n), {}) /\ Owned(close(u, n), {})
    BY <2>1, <2>2, ResetInHand, CloseInHand
  <2>4. Owned(reset(close(u, n), h, None), {})
    BY <1>1, <2>3, ResetInHand
  <2> QED BY <1>3, <2>3, <2>4 DEF ReadyOrClosed, n, u
<1> QED
  BY <1>2, <1>3

\* Sockets of servers and uevents are things.
LEMMA ServersAreThings ==
  /\ \A listens \in BOOLEAN : Server(listens) \in Thing
  /\ \A buffer \in Nat, passcred \in BOOLEAN : Uevent(buffer, passcred) \in Thing
BY DEF Server, Uevent, Thing

\* socket_inaddr_any_server and uevent_open_socket keep the invariant.
LEMMA Opened_Keeps ==
  ASSUME IInv, Listen \/ UeventOpen, UNCHANGED channel
  PROVE  IInv'
<1>1. AtRest /\ ChannelOK' /\ UNCHANGED frame
  BY RestsInIdle DEF Listen, UeventOpen, AtRest, ChannelOK
<1>2. SUFFICES \E t : Owned(t, {}) /\ To(t)
  BY <1>1, Rest_Keeps
<1>3. Owned(Here, {}) /\ Handle \subseteq Owner
  BY <1>1 DEF AtRest, Owner
<1>4. CASE Listen
  <2>1. PICK h \in Handle, stream, flags, ok \in BOOLEAN : socket_inaddr_any_server(h, stream, flags, ok)
    BY <1>4 DEF Listen
  <2> DEFINE listens == stream /\ ~flags
             ready == ok /\ \A n \in Fd : fds[n] # Server(TRUE)
  <2>2. listens \in BOOLEAN /\ ready \in BOOLEAN
    OBVIOUS
  <2>3. To(ReadyOrClosed(Here, h, Server(listens), ready))
    BY <2>1 DEF socket_inaddr_any_server
  <2> HIDE DEF listens, ready
  <2>4. Server(listens) \in Thing /\ h \in Owner
    BY <2>2, <1>3, ServersAreThings
  <2>5. Owned(ReadyOrClosed(Here, h, Server(listens), ready), {})
    BY <2>2, <2>4, <1>3, ReadyOrClosed_Owned
  <2> QED BY <2>3, <2>5
<1>5. CASE UeventOpen
  <2>1. PICK h \in Handle, buf_sz \in 1 .. 2 * RmemMax, passcred, ok \in BOOLEAN :
           uevent_open_socket(h, buf_sz, passcred, ok)
    BY <1>5 DEF UeventOpen
  <2> DEFINE forced == Rcvbuf(buf_sz, FALSE) < 2 * buf_sz
             size == Rcvbuf(buf_sz, forced)
             ready == ok /\ \A n \in Fd : ~IsUevent(n)
  <2>2. size \in Nat /\ ready \in BOOLEAN
    <3>1. buf_sz \in Nat /\ RmemMax \in Nat
      BY RmemAssumption
    <3> HIDE DEF forced
    <3>2. Rcvbuf(buf_sz, forced) \in {2 * buf_sz, 2 * RmemMax}
      BY <3>1 DEF Rcvbuf
    <3>3. 2 * buf_sz \in Nat /\ 2 * RmemMax \in Nat
      BY <3>1
    <3>4. size \in Nat
      BY <3>2, <3>3
    <3>5. ready \in BOOLEAN
      OBVIOUS
    <3> QED BY <3>4, <3>5
  <2>3. To(ReadyOrClosed(Here, h, Uevent(size, passcred), ready))
    BY <2>1, Zenon DEF uevent_open_socket
  <2> HIDE DEF size, ready
  <2>4. Uevent(size, passcred) \in Thing /\ h \in Owner
    BY <2>2, <1>3, ServersAreThings
  <2>5. Owned(ReadyOrClosed(Here, h, Uevent(size, passcred), ready), {})
    BY <2>2, <2>4, <1>3, ReadyOrClosed_Owned
  <2> QED BY <2>3, <2>5
<1> QED
  BY <1>4, <1>5

\* A step that leaves the table and the descriptor in hand alone.
LEMMA Local_Keeps ==
  ASSUME IInv, UNCHANGED <<table, channel>>, frame'.fd = frame.fd, FrameOK(frame', fds)
  PROVE  IInv'
<1>1. Here' = Here /\ InFlight' = InFlight /\ fds' = fds
  BY DEF table, Here, InFlight
<1> QED
  BY <1>1 DEF IInv, ChannelOK

\* uevent_kernel_recv keeps the invariant.
LEMMA Uevent_Keeps ==
  ASSUME IInv, UeventRecv \/ UeventCheck \/ UeventReturn, UNCHANGED channel
  PROVE  IInv'
<1>1. CASE UeventRecv
  <2>1. PICK h \in Handle, m \in Messages, require_group \in BOOLEAN :
          /\ Idle /\ held[h] # None /\ IsUevent(held[h])
          /\ frame' = [call |-> "uevent_kernel_recv", at |-> "check", fd |-> None, message |-> m,
                       creds |-> fds[held[h]].passcred, require_group |-> require_group,
                       buffer |-> m, ok |-> FALSE]
          /\ UNCHANGED table
    BY <1>1 DEF UeventRecv
  <2>2. frame = NoCall
    BY <2>1, IdleIs DEF IInv
  <2>3. fds[held[h]].passcred \in BOOLEAN
    <3>1. PICK b \in 0 .. 4 * RmemMax, p \in BOOLEAN : fds[held[h]] = Uevent(b, p)
      BY <2>1 DEF IsUevent
    <3>2. Uevent(b, p).passcred = p
      BY Zenon DEF Uevent
    <3> QED BY <3>1, <3>2
  <2>4. UeventOK(frame')
    BY <2>1, <2>3 DEF UeventOK, UeventFrame
  <2>5. frame'.fd = frame.fd
    BY <2>1, <2>2 DEF NoCall
  <2> QED BY <2>1, <2>4, <2>5, Local_Keeps DEF FrameOK
<1>2. CASE UeventCheck
  <2>1. UeventOK(frame) /\ frame \in UeventFrame
    BY <1>2, CallOf DEF UeventCheck, Receiving, IInv, UeventOK
  <2> DEFINE ok == Believed(frame)
             buffer == IF ok THEN frame.buffer ELSE None
  <2>2. ok \in BOOLEAN /\ buffer \in Messages \cup {None}
    BY <2>1 DEF Believed, UeventFrame
  <2>3. frame' = [frame EXCEPT !.at = "return", !.ok = ok, !.buffer = buffer]
    BY <1>2, Zenon DEF UeventCheck
  <2>4. Believed(frame') = ok
    <3> HIDE DEF buffer
    <3>1. frame'.creds = frame.creds /\ frame'.message = frame.message /\ frame'.require_group = frame.require_group
      BY <2>1, <2>3 DEF UeventFrame
    <3> QED BY <3>1 DEF Believed
  <2>5. buffer = None \/ ok
    OBVIOUS
  <2> HIDE DEF ok, buffer
  <2>6. frame' \in UeventFrame /\ frame'.fd = frame.fd /\ frame'.buffer = buffer
    BY <2>1, <2>2, <2>3 DEF UeventFrame
  <2>7. frame'.ok = ok
    BY <2>1, <2>3, Zenon DEF UeventFrame
  <2>8. UeventOK(frame')
    BY <2>4, <2>5, <2>6, <2>7 DEF UeventOK
  <2> QED BY <1>2, <2>6, <2>8, Local_Keeps DEF FrameOK, UeventCheck
<1>3. CASE UeventReturn
  <2>1. frame.fd = None
    BY <1>3, CallOf DEF UeventReturn, Receiving, IInv, UeventOK, UeventFrame
  <2>2. frame' = NoCall /\ frame'.fd = frame.fd
    BY <1>3, <2>1 DEF UeventReturn, NoCall
  <2> QED BY <1>3, <2>2, Local_Keeps DEF FrameOK, UeventReturn
<1> QED
  BY <1>1, <1>2, <1>3

-----------------------------------------------------------------------------
\* In a state of the invariant the frame is right for its call.
LEMMA FrameOf ==
  ASSUME IInv
  PROVE  /\ frame.call = "WriteStringToFile" => WriteOK(frame)
         /\ frame.call = "WriteFully" => WriteFullyOK(frame)
         /\ frame.call = "ReadFileToString" => ReadOK(frame)
         /\ frame.call = "load_file" => LoadOK(frame)
         /\ frame.call = "ReadFully" => ReadFullyOK(frame)
         /\ frame.call = "RemoveFileIfExists" => RemoveOK(frame)
         /\ frame.call = "Readlink" => ReadlinkOK(frame)
         /\ frame.call = "TemporaryFile" => TemporaryFileOK(frame)
         /\ frame.call = "TemporaryDir" => TemporaryDirOK(frame)
<1>1. frame.call \in FileCalls => FileOK(frame)
  BY CallOf DEF IInv
<1> QED
  BY <1>1, FileCallOf DEF FileCalls

\* The same for the calls of file.cpp.
LEMMA File_Keeps ==
  ASSUME IInv, UNCHANGED <<table, channel>>, frame'.fd = frame.fd, FileOK(frame')
  PROVE  IInv'
BY Local_Keeps DEF FrameOK

\* A call begins with nothing in hand.
LEMMA Call_Keeps ==
  ASSUME IInv, NEW f, Call(f), f.fd = None, FileOK(f), UNCHANGED channel
  PROVE  IInv'
<1>1. frame = NoCall
  BY IdleIs DEF Call, IInv
<1>2. frame'.fd = frame.fd /\ frame' = f /\ UNCHANGED table
  BY <1>1 DEF Call, NoCall
<1> QED
  BY <1>2, File_Keeps

\* What the caller writes are pieces.
LEMMA ContentIsPieces == Content \in Seq(Piece)
<1>1. Range(Content) \subseteq Piece
  BY DEF Piece
<1> DEFINE R == Range(Content)
<1>2. Content \in Seq(R)
  BY ContentAssumption
<1> HIDE DEF R
<1>3. R \subseteq Piece
  BY <1>1 DEF R
<1> QED
  BY <1>2, <1>3

\* The files have pieces at first.
LEMMA ContentsAreData == Contents \in Data
<1>1. \A f \in Files : (IF f = "new" THEN <<>> ELSE <<f>>) \in Seq(Piece)
  <2>1. ASSUME NEW f \in Files PROVE <<f>> \in Seq(Piece)
    <3>1. f \in Piece
      BY DEF Piece
    <3> QED BY <3>1
  <2>2. <<>> \in Seq(Piece)
    OBVIOUS
  <2> QED BY <2>1, <2>2
<1> QED
  BY <1>1 DEF Contents, Data

\* An open of a call: the new number is the one in its frame.
LEMMA Opens_Keeps ==
  ASSUME IInv, NEW i \in Inodes, NEW f, Opens(i, f), frame.fd = None, UNCHANGED channel,
         FileOK(frame'), frame'.fd = Lowest(Here)
  PROVE  IInv'
<1> DEFINE n == Lowest(Here)
           o == [inode |-> i]
<1>1. InFlight = {} /\ {} \cup {n} = {n}
  BY DEF InFlight
<1>2. o \in Thing
  BY DEF Thing
<1>3. ~IsFull(Here) /\ To(Opened(Here, o)) /\ Owned(Here, {})
  BY <1>1 DEF Opens, IInv
<1> HIDE DEF o
<1>4. Owned(Opened(Here, o), {} \cup {n}) /\ n \in Fd
  BY <1>2, <1>3, Opened_Owned
<1>5. Here' = Opened(Here, o)
  BY <1>3, <1>4, ToIs DEF Owned
<1>6. InFlight' = {n}
  BY <1>4, FdAssumption DEF InFlight
<1> QED
  BY <1>1, <1>4, <1>5, <1>6 DEF IInv, FrameOK, ChannelOK

\* A step that closes what the call has in hand.
LEMMA Closes_Keeps ==
  ASSUME IInv, To(close(Here, frame.fd)), UNCHANGED channel, frame'.fd = None,
         frame' = NoCall \/ FileOK(frame')
  PROVE  IInv'
<1>1. frame.fd \in Fd \cup {None}
  BY CallOf DEF IInv, MaybeFd
<1>2. Owned(close(Here, frame.fd), {})
  BY <1>1, CloseInHand DEF IInv, InFlight
<1>3. Here' = close(Here, frame.fd)
  BY <1>2, ToIs DEF Owned
<1>4. InFlight' = {}
  BY DEF InFlight
<1> QED
  BY <1>2, <1>3, <1>4 DEF IInv, FrameOK, ChannelOK

-----------------------------------------------------------------------------
\* A transfer: what is there and what is left make the whole.
LEMMA Pieces ==
  ASSUME NEW d \in Seq(Piece), NEW l \in Seq(Piece), NEW n \in 0 .. Len(l)
  PROVE  /\ d \o SubSeq(l, 1, n) \in Seq(Piece) /\ SubSeq(l, n + 1, Len(l)) \in Seq(Piece)
         /\ (d \o SubSeq(l, 1, n)) \o SubSeq(l, n + 1, Len(l)) = d \o l
<1> DEFINE a == SubSeq(l, 1, n)
           b == SubSeq(l, n + 1, Len(l))
           k == Len(l)
           m == Len(d)
           x == (d \o a) \o b
           y == d \o l
<1>1. m \in Nat /\ k \in Nat /\ n \in Nat /\ n <= k
  OBVIOUS
<1>2. a \in Seq(Piece) /\ Len(a) = n /\ \A i \in 1 .. n : a[i] = l[i]
  OBVIOUS
<1>3. b \in Seq(Piece) /\ Len(b) = k - n /\ \A i \in 1 .. k - n : b[i] = l[n + i]
  <2>1. b \in Seq(Piece) /\ Len(b) = k - n
    OBVIOUS
  <2>2. ASSUME NEW i \in 1 .. k - n PROVE b[i] = l[n + i]
    <3>1. b[i] = l[(n + 1) + i - 1]
      OBVIOUS
    <3>2. (n + 1) + i - 1 = n + i
      OBVIOUS
    <3> HIDE DEF b
    <3> QED BY <3>1, <3>2
  <2> QED BY <2>1, <2>2
<1> HIDE DEF a, b
<1>4. d \o a \in Seq(Piece) /\ Len(d \o a) = m + n
      /\ \A i \in 1 .. m + n : (d \o a)[i] = IF i <= m THEN d[i] ELSE a[i - m]
  BY <1>1, <1>2
<1> DEFINE c == d \o a
<1> HIDE DEF c
<1>5. c \in Seq(Piece) /\ Len(c) = m + n /\ \A i \in 1 .. m + n : c[i] = IF i <= m THEN d[i] ELSE a[i - m]
  BY <1>4 DEF c
<1>6. c \o b \in Seq(Piece) /\ Len(c \o b) = m + k
      /\ \A i \in 1 .. m + k : (c \o b)[i] = IF i <= m + n THEN c[i] ELSE b[i - (m + n)]
  <2> DEFINE p == Len(c)
             q == Len(b)
  <2>1. p \in Nat /\ q \in Nat /\ p = m + n /\ p + q = m + k
    BY <1>1, <1>3, <1>5
  <2>2. c \o b \in Seq(Piece) /\ Len(c \o b) = p + q
        /\ \A i \in 1 .. p + q : (c \o b)[i] = IF i <= p THEN c[i] ELSE b[i - p]
    <3>1. c \in Seq(Piece) /\ b \in Seq(Piece)
      BY <1>3, <1>5
    <3> QED BY ONLY <3>1
  <2> HIDE DEF p, q, m, k
  <2> QED BY <2>1, <2>2
<1>7. y \in Seq(Piece) /\ Len(y) = m + k
      /\ \A i \in 1 .. m + k : y[i] = IF i <= m THEN d[i] ELSE l[i - m]
  BY <1>1
<1> DEFINE z == c \o b
<1>8. z \in Seq(Piece) /\ Len(z) = m + k
      /\ \A i \in 1 .. m + k : z[i] = IF i <= m + n THEN c[i] ELSE b[i - (m + n)]
  BY <1>6
<1> HIDE DEF y, z, m, k
<1>9. ASSUME NEW i \in 1 .. m + k PROVE z[i] = y[i]
  <2>1. CASE i <= m
    <3>1. i \in 1 .. m + n /\ i <= m + n
      BY <1>1, <2>1
    <3> QED BY <1>5, <1>7, <1>8, <2>1, <3>1
  <2>2. CASE i > m /\ i <= m + n
    <3>1. i \in 1 .. m + n /\ ~(i <= m) /\ i - m \in 1 .. n
      BY <1>1, <2>2
    <3> QED BY <1>2, <1>5, <1>7, <1>8, <2>2, <3>1
  <2>3. CASE i > m + n
    <3>1. ~(i <= m + n) /\ ~(i <= m) /\ i - (m + n) \in 1 .. k - n /\ n + (i - (m + n)) = i - m
      BY <1>1, <2>3
    <3>2. b[i - (m + n)] = l[i - m]
      BY <1>3, <3>1
    <3> QED BY <1>7, <1>8, <3>1, <3>2
  <2> QED BY <1>1, <2>1, <2>2, <2>3
<1>10. z = y
  BY <1>1, <1>7, <1>8, <1>9
<1> QED
  BY <1>3, <1>4, <1>10 DEF a, b, c, y, z, k

-----------------------------------------------------------------------------
\* Where names lead, and what is left of a name that was removed.
LEMMA LeadsTyped ==
  /\ \A name \in Names : Leads(name) \in Inodes \cup {None}
  /\ \A name \in {"old", "new", "other", "link"} : Leads(name) \in Files
  /\ \A f \in Files : Leads(f) = f
  /\ \A name \in Names : Unlinked(name) \in {"dir", None}
  /\ Leads("dir") = "dir" /\ Leads(None) = None
  /\ Leads("dir") \notin Files /\ Leads(None) \notin Files /\ None \notin Inodes
BY NamesAssumption DEF Leads, Names, Inodes, Files, Unlinked

\* An empty file.
LEMMA NoPieces == <<>> \in Seq(Piece)
OBVIOUS

\* A call of WriteStringToFile or WriteFully keeps the invariant.
LEMMA WriteCalls_Keep ==
  ASSUME IInv, WriteStringToFile \/ WriteFully, UNCHANGED channel
  PROVE  IInv'
<1>0. Contents \in Data /\ Content \in Seq(Piece) /\ Contents["new"] = <<>> /\ "new" \in Files
  BY ContentsAreData, ContentIsPieces DEF Contents, Files
<1>1. CASE WriteStringToFile
  <2>1. PICK name \in InitialNames, follow, modes \in BOOLEAN :
          Call([call |-> "WriteStringToFile", at |-> "open", fd |-> None, name |-> name, data |-> Contents,
                inode |-> None, follow |-> follow, modes |-> modes, left |-> Content, touched |-> FALSE,
                linked |-> name = "link", removed |-> None, result |-> FALSE])
    BY <1>1 DEF WriteStringToFile
  <2> DEFINE linked == name = "link"
             f == [call |-> "WriteStringToFile", at |-> "open", fd |-> None, name |-> name, data |-> Contents,
                   inode |-> None, follow |-> follow, modes |-> modes, left |-> Content, touched |-> FALSE,
                   linked |-> linked, removed |-> None, result |-> FALSE]
  <2>2. name \in Names /\ linked \in BOOLEAN /\ None \in MaybeFd /\ None \in Names
    BY DEF InitialNames, Names, Files, MaybeFd
  <2> HIDE DEF linked
  <2>3. WriteOK(f) /\ f.fd = None
    BY <1>0, <2>2 DEF WriteOK, WriteFrame
  <2>4. Call(f)
    BY <2>1 DEF linked
  <2> HIDE DEF f
  <2> QED BY <2>3, <2>4, Call_Keeps DEF FileOK
<1>2. CASE WriteFully
  <2> DEFINE f == [call |-> "WriteFully", at |-> "write", fd |-> None, data |-> Contents,
                   inode |-> "new", left |-> Content, result |-> FALSE]
  <2>1. <<>> \o Content = Content
    BY <1>0
  <2>2. WriteFullyOK(f) /\ f.fd = None
    BY <1>0, <2>1 DEF WriteFullyOK, WriteFullyFrame
  <2>3. Call(f)
    BY <1>2 DEF WriteFully
  <2> HIDE DEF f
  <2> QED BY <2>2, <2>3, Call_Keeps DEF FileOK
<1> QED
  BY <1>1, <1>2

\* open(O_CREAT | O_TRUNC): the file is empty and has the name.
LEMMA OpenToWrite_Keeps ==
  ASSUME IInv, OpenToWrite, UNCHANGED channel
  PROVE  IInv'
<1>1. /\ WriteOK(frame) /\ frame \in WriteFrame /\ frame.at = "open" /\ frame.fd = None /\ frame.inode = None
      /\ frame.left = Content /\ frame.removed = None
  BY FrameOf DEF OpenToWrite, In, WriteOK
<1>2. CASE Result(FALSE) /\ UNCHANGED table
  <2>1. frame' = [frame EXCEPT !.at = "return", !.result = FALSE]
    BY <1>2 DEF Result
  <2>2. WriteOK(frame') /\ frame'.fd = frame.fd
    BY <1>1, <2>1 DEF WriteOK, WriteFrame
  <2> QED BY <1>2, <2>2, File_Keeps DEF FileOK
<1>3. CASE /\ frame.name # "dir" /\ (frame.name = "link" => frame.follow)
           /\ LET i == IF frame.name = None THEN "new" ELSE Leads(frame.name) IN
              Opens(i, [frame EXCEPT !.at = IF frame.modes THEN "fchmod" ELSE "write",
                                     !.name = IF @ = None THEN i ELSE @, !.data[i] = <<>>,
                                     !.linked = frame.name = "link"])
  <2> DEFINE i == IF frame.name = None THEN "new" ELSE Leads(frame.name)
             at == IF frame.modes THEN "fchmod" ELSE "write"
             name == IF frame.name = None THEN i ELSE frame.name
             data == [frame.data EXCEPT ![i] = <<>>]
             linked == frame.name = "link"
             f == [frame EXCEPT !.at = at, !.name = name, !.data = data, !.linked = linked]
  <2>1. Opens(i, f)
    BY <1>3
  <2>2. i \in Files /\ Leads(name) = i /\ name \in Names /\ name = IF linked THEN "link" ELSE i
    BY <1>1, <1>3, LeadsTyped DEF WriteFrame, Names, Files
  <2>3. data \in Data /\ data[i] = <<>>
    BY <1>1, <2>2, NoPieces DEF WriteFrame, Data
  <2>4. at \in {"fchmod", "write"} /\ linked \in BOOLEAN
    OBVIOUS
  <2>5. frame' = [f EXCEPT !.fd = Lowest(Here), !.inode = i] /\ ~IsFull(Here)
    BY <2>1 DEF Opens
  <2>6. Lowest(Here) \in MaybeFd
    BY <2>5, LowestIsFree DEF MaybeFd
  <2> HIDE DEF i, at, name, data, linked
  <2>7. /\ frame' \in WriteFrame /\ frame'.at = at /\ frame'.fd = Lowest(Here) /\ frame'.name = name
        /\ frame'.data = data /\ frame'.inode = i /\ frame'.left = Content
    BY <1>1, <2>2, <2>3, <2>4, <2>5, <2>6 DEF WriteFrame
  <2>8. frame'.result = frame.result /\ frame'.linked = linked /\ frame'.removed = frame.removed
    BY <1>1, <2>5, Zenon DEF WriteFrame
  <2>9. <<>> \o Content = Content
    BY ContentIsPieces
  <2>10. WriteOK(frame')
    BY <1>1, <2>2, <2>3, <2>4, <2>7, <2>8, <2>9 DEF WriteOK, Named, Called
  <2>11. i \in Inodes
    BY <2>2 DEF Inodes
  <2> HIDE DEF f
  <2> QED BY <1>1, <2>1, <2>7, <2>10, <2>11, Opens_Keeps DEF FileOK
<1> QED
  BY <1>2, <1>3 DEF OpenToWrite

\* fchmod and fchown go on, or to the cleanup.
LEMMA FchmodFchown_Keep ==
  ASSUME IInv, Fchmod \/ Fchown, UNCHANGED channel
  PROVE  IInv'
<1>1. /\ WriteOK(frame) /\ frame \in WriteFrame /\ frame.inode \in Files /\ Named(frame)
      /\ frame.data[frame.inode] = <<>> /\ frame.left = Content /\ ~frame.result
      /\ frame.removed = None
  BY FrameOf DEF Fchmod, Fchown, In, WriteOK
<1>2. PICK at \in {"fchown", "write", "cleanup"} : frame' = [frame EXCEPT !.at = at]
  BY DEF Fchmod, Fchown, Goto
<1>3. <<>> \o Content = Content
  BY ContentIsPieces
<1>4. /\ frame' \in WriteFrame /\ frame'.at = at /\ frame'.fd = frame.fd
      /\ frame'.inode = frame.inode /\ frame'.data = frame.data /\ frame'.left = frame.left
      /\ frame'.name = frame.name
  BY <1>1, <1>2 DEF WriteFrame
<1>5. /\ frame'.touched = frame.touched /\ frame'.result = frame.result
      /\ frame'.linked = frame.linked /\ frame'.removed = frame.removed
  BY <1>1, <1>2, Zenon DEF WriteFrame
<1>6. WriteOK(frame')
  BY <1>1, <1>2, <1>3, <1>4, <1>5 DEF WriteOK, Named, Called
<1> QED
  BY <1>4, <1>6, File_Keeps DEF FileOK, Fchmod, Fchown

\* One transfer moves pieces from what is left to the file.
LEMMA Written_Moves ==
  ASSUME frame.data \in Data, frame.left \in Seq(Piece), frame.inode \in Files,
         NEW n \in 1 .. Len(frame.left),
         NEW data, data = [frame.data EXCEPT ![frame.inode] = @ \o SubSeq(frame.left, 1, n)],
         NEW left, left = SubSeq(frame.left, n + 1, Len(frame.left))
  PROVE  /\ data \in Data /\ left \in Seq(Piece)
         /\ data[frame.inode] \o left = frame.data[frame.inode] \o frame.left
<1> DEFINE d == frame.data[frame.inode]
           l == frame.left
           e == d \o SubSeq(l, 1, n)
<1>1. d \in Seq(Piece) /\ n \in 0 .. Len(l)
  BY DEF Data
<1>2. e \in Seq(Piece) /\ left \in Seq(Piece) /\ e \o left = d \o l
  <2> HIDE DEF d
  <2> QED BY <1>1, Pieces
<1>3. data = [frame.data EXCEPT ![frame.inode] = e]
  OBVIOUS
<1> HIDE DEF e
<1>4. data \in Data /\ data[frame.inode] = e
  BY <1>2, <1>3 DEF Data
<1> QED
  BY <1>2, <1>4

\* The loops of WriteStringToFd and WriteFully: written and left make the
\* content.
LEMMA Writes_Keep ==
  ASSUME IInv, WriteStringToFd \/ WriteLoop, UNCHANGED channel
  PROVE  IInv'
<1>0. UNCHANGED table
  BY DEF WriteStringToFd, WriteLoop, Writes
<1>1. CASE WriteStringToFd
  <2>1. /\ WriteOK(frame) /\ frame \in WriteFrame /\ frame.at = "write" /\ frame.inode \in Files /\ Named(frame)
        /\ frame.data[frame.inode] \o frame.left = Content /\ frame.call = "WriteStringToFile" /\ ~frame.result
    BY <1>1, FrameOf DEF WriteStringToFd, Writes, In, WriteOK
  <2>2. CASE frame.left = <<>> /\ Result(TRUE)
    <3>1. frame.data[frame.inode] \in Seq(Piece)
      BY <2>1 DEF WriteFrame, Data
    <3>2. frame.data[frame.inode] = Content
      BY <2>1, <2>2, <3>1
    <3>3. WriteOK(frame') /\ frame'.fd = frame.fd
      BY <2>1, <2>2, <3>2 DEF Result, WriteOK, WriteFrame, Named, Called
    <3> QED BY <1>0, <3>3, File_Keeps DEF FileOK
  <2>3. CASE \E n \in 1 .. Len(frame.left) : Written(n)
    <3>1. PICK n \in 1 .. Len(frame.left) : Written(n)
      BY <2>3
    <3> DEFINE data == [frame.data EXCEPT ![frame.inode] = @ \o SubSeq(frame.left, 1, n)]
               left == SubSeq(frame.left, n + 1, Len(frame.left))
    <3>2. frame.data \in Data /\ frame.left \in Seq(Piece)
      BY <2>1 DEF WriteFrame
    <3>3. /\ data \in Data /\ left \in Seq(Piece)
          /\ data[frame.inode] \o left = frame.data[frame.inode] \o frame.left
      BY <2>1, <3>2, Written_Moves
    <3>4. frame' = [frame EXCEPT !.data = data, !.left = left]
      BY <3>1 DEF Written
    <3> HIDE DEF data, left
    <3>5. WriteOK(frame') /\ frame'.fd = frame.fd
      BY <2>1, <3>3, <3>4 DEF WriteOK, WriteFrame, Named, Called
    <3> QED BY <1>0, <3>5, File_Keeps DEF FileOK
  <2>4. CASE frame.left # <<>> /\ WriteFails
    <3>1. frame' = [frame EXCEPT !.at = "cleanup"]
      BY <2>1, <2>4 DEF WriteFails, Goto
    <3>2. WriteOK(frame') /\ frame'.fd = frame.fd
      BY <2>1, <3>1 DEF WriteOK, WriteFrame, Named, Called
    <3> QED BY <1>0, <3>2, File_Keeps DEF FileOK
  <2> QED BY <1>1, <2>2, <2>3, <2>4 DEF WriteStringToFd, Writes
<1>2. CASE WriteLoop
  <2>1. /\ WriteFullyOK(frame) /\ frame \in WriteFullyFrame /\ frame.at = "write" /\ frame.inode \in Files
        /\ frame.data[frame.inode] \o frame.left = Content /\ frame.call = "WriteFully"
    BY <1>2, FrameOf DEF WriteLoop, Writes, In, WriteFullyOK, WriteFullyFrame, Files
  <2>2. CASE frame.left = <<>> /\ Result(TRUE)
    <3>1. frame.data[frame.inode] \in Seq(Piece)
      BY <2>1 DEF WriteFullyFrame, Data
    <3>2. frame.data[frame.inode] = Content
      BY <2>1, <2>2, <3>1
    <3>3. WriteFullyOK(frame') /\ frame'.fd = frame.fd
      BY <2>1, <2>2, <3>2 DEF Result, WriteFullyOK, WriteFullyFrame
    <3> QED BY <1>0, <3>3, File_Keeps DEF FileOK
  <2>3. CASE \E n \in 1 .. Len(frame.left) : Written(n)
    <3>1. PICK n \in 1 .. Len(frame.left) : Written(n)
      BY <2>3
    <3> DEFINE data == [frame.data EXCEPT ![frame.inode] = @ \o SubSeq(frame.left, 1, n)]
               left == SubSeq(frame.left, n + 1, Len(frame.left))
    <3>2. frame.data \in Data /\ frame.left \in Seq(Piece)
      BY <2>1 DEF WriteFullyFrame
    <3>3. /\ data \in Data /\ left \in Seq(Piece)
          /\ data[frame.inode] \o left = frame.data[frame.inode] \o frame.left
      BY <2>1, <3>2, Written_Moves
    <3>4. frame' = [frame EXCEPT !.data = data, !.left = left]
      BY <3>1 DEF Written
    <3> HIDE DEF data, left
    <3>5. WriteFullyOK(frame') /\ frame'.fd = frame.fd
      BY <2>1, <3>3, <3>4 DEF WriteFullyOK, WriteFullyFrame
    <3> QED BY <1>0, <3>5, File_Keeps DEF FileOK
  <2>4. CASE frame.left # <<>> /\ WriteFails
    <3>1. frame' = [frame EXCEPT !.at = "return", !.result = FALSE]
      BY <2>1, <2>4 DEF WriteFails, Result
    <3>2. WriteFullyOK(frame') /\ frame'.fd = frame.fd
      BY <2>1, <3>1 DEF WriteFullyOK, WriteFullyFrame
    <3> QED BY <1>0, <3>2, File_Keeps DEF FileOK
  <2> QED BY <1>2, <2>2, <2>3, <2>4 DEF WriteLoop, Writes
<1> QED
  BY <1>1, <1>2

\* CleanUpAfterFailedWrite takes the name from the file.
LEMMA CleanUp_Keeps ==
  ASSUME IInv, CleanUpAfterFailedWrite, UNCHANGED channel
  PROVE  IInv'
<1>1. /\ WriteOK(frame) /\ frame \in WriteFrame /\ frame.inode \in Files /\ ~frame.result
      /\ frame.at = "cleanup" /\ Named(frame)
  BY FrameOf DEF CleanUpAfterFailedWrite, In, WriteOK
<1> DEFINE name == Unlinked(frame.name)
           removed == IF frame.name = "dir" THEN None ELSE frame.name
<1>2. name \in Names /\ Leads(name) # frame.inode
  BY <1>1, LeadsTyped DEF WriteFrame, Names
<1>3. frame' = [frame EXCEPT !.name = name, !.at = "return", !.removed = removed]
  BY DEF CleanUpAfterFailedWrite
<1>4. /\ removed \in Names
      /\ removed # None /\ ~frame.touched => removed = Called(frame)
  BY <1>1 DEF Named, WriteFrame, Names
<1>5. frame.inode # None
  BY <1>1, LeadsTyped DEF Inodes
<1> HIDE DEF name, removed
<1>6. /\ frame' \in WriteFrame /\ frame'.at = "return" /\ frame'.inode = frame.inode
      /\ frame'.fd = frame.fd /\ frame'.name = name /\ frame'.removed = removed
  BY <1>1, <1>2, <1>3, <1>4 DEF WriteFrame
<1>7. frame'.touched = frame.touched /\ frame'.result = frame.result /\ frame'.linked = frame.linked
  BY <1>1, <1>3, Zenon DEF WriteFrame
<1>8. WriteOK(frame')
  BY <1>1, <1>2, <1>4, <1>5, <1>6, <1>7 DEF WriteOK, Called
<1> QED
  BY <1>6, <1>8, File_Keeps DEF FileOK, CleanUpAfterFailedWrite

-----------------------------------------------------------------------------
\* A call of ReadFileToString or load_file keeps the invariant.
LEMMA ReadCalls_Keep ==
  ASSUME IInv, ReadFileToString \/ load_file, UNCHANGED channel
  PROVE  IInv'
<1>0. Contents \in Data /\ <<>> \in Seq(Piece) /\ None \in MaybeFd
  BY ContentsAreData, NoPieces DEF MaybeFd
<1>1. CASE ReadFileToString
  <2>1. PICK name \in InitialNames, follow \in BOOLEAN :
          Call([call |-> "ReadFileToString", at |-> "open", fd |-> None, name |-> name, data |-> Contents,
                inode |-> None, follow |-> follow, content |-> <<>>, touched |-> FALSE, cut |-> FALSE,
                   result |-> FALSE])
    BY <1>1 DEF ReadFileToString
  <2> DEFINE f == [call |-> "ReadFileToString", at |-> "open", fd |-> None, name |-> name, data |-> Contents,
                   inode |-> None, follow |-> follow, content |-> <<>>, touched |-> FALSE, cut |-> FALSE,
                   result |-> FALSE]
  <2>2. name \in Names
    BY DEF InitialNames, Names, Files
  <2>3. ReadOK(f) /\ f.fd = None
    BY <1>0, <2>2 DEF ReadOK, ReadFrame
  <2>4. Call(f)
    BY <2>1
  <2> HIDE DEF f
  <2> QED BY <2>3, <2>4, Call_Keeps DEF FileOK
<1>2. CASE load_file
  <2>1. PICK name \in InitialNames :
          Call([call |-> "load_file", at |-> "open", fd |-> None, name |-> name, data |-> Contents,
                inode |-> None, size |-> 0, content |-> <<>>, touched |-> FALSE, cut |-> FALSE,
                   result |-> FALSE])
    BY <1>2 DEF load_file
  <2> DEFINE f == [call |-> "load_file", at |-> "open", fd |-> None, name |-> name, data |-> Contents,
                   inode |-> None, size |-> 0, content |-> <<>>, touched |-> FALSE, cut |-> FALSE,
                   result |-> FALSE]
  <2>2. name \in Names
    BY DEF InitialNames, Names, Files
  <2>3. LoadOK(f) /\ f.fd = None
    BY <1>0, <2>2 DEF LoadOK, LoadFrame
  <2>4. Call(f)
    BY <2>1
  <2> HIDE DEF f
  <2> QED BY <2>3, <2>4, Call_Keeps DEF FileOK
<1> QED
  BY <1>1, <1>2

\* open of ReadFileToString: nothing is read yet.
LEMMA OpenToRead_Keeps ==
  ASSUME IInv, OpenToRead, UNCHANGED channel
  PROVE  IInv'
<1>1. /\ ReadOK(frame) /\ frame \in ReadFrame /\ frame.at = "open" /\ frame.fd = None
      /\ frame.content = <<>>
  BY FrameOf DEF OpenToRead, In, ReadOK
<1>2. CASE Result(FALSE) /\ UNCHANGED table
  <2>1. ReadOK(frame') /\ frame'.fd = frame.fd
    BY <1>1, <1>2 DEF Result, ReadOK, ReadFrame
  <2> QED BY <1>2, <2>1, File_Keeps DEF FileOK
<1>3. CASE /\ frame.name # None /\ (frame.name = "link" => frame.follow)
           /\ Opens(Leads(frame.name), [frame EXCEPT !.at = "read"])
  <2> DEFINE i == Leads(frame.name)
             f == [frame EXCEPT !.at = "read"]
  <2>1. i \in Inodes /\ i # None
    BY <1>1, <1>3, LeadsTyped, NamesAssumption DEF ReadFrame, Leads, Names, Inodes, Files
  <2>2. frame' = [f EXCEPT !.fd = Lowest(Here), !.inode = i] /\ ~IsFull(Here)
    BY <1>3 DEF Opens
  <2>3. Lowest(Here) \in MaybeFd
    BY <2>2, LowestIsFree DEF MaybeFd
  <2> HIDE DEF i
  <2>4. /\ frame' \in ReadFrame /\ frame'.at = "read" /\ frame'.fd = Lowest(Here)
        /\ frame'.inode = i /\ frame'.content = <<>> /\ frame'.data = frame.data
    BY <1>1, <2>1, <2>2, <2>3 DEF ReadFrame
  <2>5. i \in Files => Begins(<<>>, frame.data[i])
    <3>1. ASSUME i \in Files PROVE Len(frame.data[i]) \in Nat
      BY <3>1, <1>1 DEF ReadFrame, Data
    <3> QED BY <3>1 DEF Begins
  <2>6. ReadOK(frame')
    BY <2>1, <2>4, <2>5 DEF ReadOK
  <2>7. Opens(i, f)
    BY <1>3 DEF i
  <2> HIDE DEF f
  <2> QED BY <1>1, <2>1, <2>4, <2>6, <2>7, Opens_Keeps DEF FileOK
<1> QED
  BY <1>2, <1>3 DEF OpenToRead

\* A prefix grows by the next pieces, and is all when nothing is left.
LEMMA Grows ==
  ASSUME NEW c \in Seq(Piece), NEW t \in Seq(Piece), Begins(c, t)
  PROVE  /\ SubSeq(t, Len(c) + 1, Len(t)) = <<>> => c = t
         /\ \A n \in 1 .. Len(SubSeq(t, Len(c) + 1, Len(t))) :
               /\ c \o SubSeq(SubSeq(t, Len(c) + 1, Len(t)), 1, n) \in Seq(Piece)
               /\ Begins(c \o SubSeq(SubSeq(t, Len(c) + 1, Len(t)), 1, n), t)
<1> DEFINE m == Len(c)
           k == Len(t)
           r == SubSeq(t, m + 1, k)
<1>1. m \in Nat /\ k \in Nat /\ m <= k /\ \A i \in 1 .. m : c[i] = t[i]
  BY DEF Begins
<1>2. r \in Seq(Piece) /\ Len(r) = k - m
  BY <1>1
<1>3. ASSUME NEW i \in 1 .. k - m PROVE r[i] = t[m + i]
  <2>1. r[i] = t[(m + 1) + i - 1]
    BY <1>1
  <2>2. (m + 1) + i - 1 = m + i
    BY <1>1
  <2> HIDE DEF r
  <2> QED BY <2>1, <2>2
<1> HIDE DEF r
<1>4. ASSUME r = <<>> PROVE c = t
  <2>1. k = m
    BY <1>1, <1>2, <1>4
  <2> QED BY <1>1, <2>1
<1>5. ASSUME NEW n \in 1 .. Len(r) PROVE c \o SubSeq(r, 1, n) \in Seq(Piece) /\ Begins(c \o SubSeq(r, 1, n), t)
  <2> DEFINE p == SubSeq(r, 1, n)
             q == c \o p
  <2>1. p \in Seq(Piece) /\ Len(p) = n /\ \A i \in 1 .. n : p[i] = r[i]
    BY <1>2
  <2>2. n \in 1 .. k - m
    BY <1>2
  <2> HIDE DEF p
  <2>3. q \in Seq(Piece) /\ Len(q) = m + n /\ \A i \in 1 .. m + n : q[i] = IF i <= m THEN c[i] ELSE p[i - m]
    BY <2>1
  <2> HIDE DEF q, m, k
  <2>4. ASSUME NEW i \in 1 .. m + n PROVE q[i] = t[i]
    <3>1. CASE i <= m
      <4>1. i \in 1 .. m
        BY <3>1, <1>1
      <4> QED BY <1>1, <2>3, <3>1, <4>1
    <3>2. CASE ~(i <= m)
      <4>1. i - m \in 1 .. n /\ i - m \in 1 .. k - m /\ m + (i - m) = i
        BY <3>2, <1>1, <2>2
      <4>2. q[i] = p[i - m] /\ p[i - m] = r[i - m] /\ r[i - m] = t[m + (i - m)]
        BY <1>3, <2>1, <2>3, <3>2, <4>1
      <4> QED BY <4>1, <4>2
    <3> QED BY <3>1, <3>2
  <2>5. m + n <= k
    BY <1>1, <2>2
  <2> QED BY <2>3, <2>4, <2>5 DEF Begins, q, p, k
<1> QED
  BY <1>4, <1>5 DEF r

\* What is read of a file that was cut goes on where the reader is.
LEMMA Goes ==
  ASSUME NEW c \in Seq(Piece), NEW t \in Seq(Piece)
  PROVE  /\ SubSeq(t, Len(c) + 1, Len(t)) = <<>> => Len(c) >= Len(t)
         /\ \A n \in 1 .. Len(SubSeq(t, Len(c) + 1, Len(t))) :
               c \o SubSeq(SubSeq(t, Len(c) + 1, Len(t)), 1, n) \in Seq(Piece)
<1> DEFINE m == Len(c)
           k == Len(t)
           r == SubSeq(t, m + 1, k)
<1>1. m \in Nat /\ k \in Nat
  OBVIOUS
<1>2. r \in Seq(Piece) /\ (m < k => Len(r) = k - m)
  BY <1>1
<1>3. r = <<>> => m >= k
  <2> HIDE DEF m, k, r
  <2>1. SUFFICES ASSUME r = <<>>, m < k PROVE FALSE
    BY <1>1
  <2>2. Len(r) = 0
    BY <2>1
  <2> QED BY <1>1, <1>2, <2>1, <2>2
<1>4. ASSUME NEW n \in 1 .. Len(r) PROVE c \o SubSeq(r, 1, n) \in Seq(Piece)
  <2> HIDE DEF r
  <2>1. SubSeq(r, 1, n) \in Seq(Piece)
    BY <1>2
  <2> QED BY <2>1
<1> QED
  BY <1>3, <1>4

\* The loop of ReadFdToString: what was read begins the file, if nobody cuts it.
LEMMA ReadFdToString_Keeps ==
  ASSUME IInv, ReadFdToString, UNCHANGED channel
  PROVE  IInv'
<1>1. /\ ReadOK(frame) /\ frame \in ReadFrame /\ frame.at = "read" /\ frame.inode # None
      /\ (frame.inode \in Files /\ ~frame.cut => Begins(frame.content, frame.data[frame.inode]))
  BY FrameOf DEF ReadFdToString, In, ReadOK
<1>2. CASE Result(FALSE)
  <2>1. ReadOK(frame') /\ frame'.fd = frame.fd
    BY <1>1, <1>2 DEF Result, ReadOK, ReadFrame
  <2> QED BY <2>1, File_Keeps DEF FileOK, ReadFdToString
<1>3. ASSUME frame.inode \in Files,
             LET rest == SubSeq(frame.data[frame.inode], Len(frame.content) + 1,
                                Len(frame.data[frame.inode])) IN
             \/ rest = <<>> /\ Result(TRUE)
             \/ \E n \in 1 .. Len(rest) : frame' = [frame EXCEPT !.content = @ \o SubSeq(rest, 1, n)]
      PROVE  IInv'
  <2> DEFINE t == frame.data[frame.inode]
             c == frame.content
             rest == SubSeq(t, Len(c) + 1, Len(t))
  <2>1. t \in Seq(Piece) /\ c \in Seq(Piece) /\ (~frame.cut => Begins(c, t))
    BY <1>1, <1>3 DEF ReadFrame, Data
  <2>2. /\ rest = <<>> => IF frame.cut THEN Len(c) >= Len(t) ELSE c = t
        /\ \A n \in 1 .. Len(rest) : /\ c \o SubSeq(rest, 1, n) \in Seq(Piece)
                                     /\ ~frame.cut => Begins(c \o SubSeq(rest, 1, n), t)
    <3> HIDE DEF t, c
    <3>1. CASE frame.cut
      BY <2>1, <3>1, Goes
    <3>2. CASE ~frame.cut
      BY <2>1, <3>2, Grows
    <3> QED BY <3>1, <3>2
  <2>3. CASE rest = <<>> /\ Result(TRUE)
    <3>1. IF frame.cut THEN Len(c) >= Len(t) ELSE c = t
      BY <2>2, <2>3
    <3>2. ReadOK(frame') /\ frame'.fd = frame.fd
      BY <1>1, <2>3, <3>1 DEF Result, ReadOK, ReadFrame
    <3> QED BY <3>2, File_Keeps DEF FileOK, ReadFdToString
  <2>4. CASE \E n \in 1 .. Len(rest) : frame' = [frame EXCEPT !.content = @ \o SubSeq(rest, 1, n)]
    <3>1. PICK n \in 1 .. Len(rest) : frame' = [frame EXCEPT !.content = c \o SubSeq(rest, 1, n)]
      BY <2>4
    <3> DEFINE d == c \o SubSeq(rest, 1, n)
    <3>2. d \in Seq(Piece) /\ (~frame.cut => Begins(d, t)) /\ frame' = [frame EXCEPT !.content = d]
      <4>1. d = c \o SubSeq(rest, 1, n) /\ frame' = [frame EXCEPT !.content = d]
        BY <3>1
      <4> HIDE DEF d, rest, c, t
      <4>2. /\ c \o SubSeq(rest, 1, n) \in Seq(Piece)
            /\ ~frame.cut => Begins(c \o SubSeq(rest, 1, n), t)
        BY <2>2
      <4> QED BY <4>1, <4>2
    <3> HIDE DEF d, rest, c
    <3>3. /\ frame' \in ReadFrame /\ frame'.at = "read" /\ frame'.content = d /\ frame'.fd = frame.fd
          /\ frame'.inode = frame.inode /\ frame'.data = frame.data /\ frame'.cut = frame.cut
      BY <1>1, <3>2 DEF ReadFrame
    <3>4. ReadOK(frame')
      BY <1>1, <3>2, <3>3 DEF ReadOK
    <3> QED BY <3>3, <3>4, File_Keeps DEF FileOK, ReadFdToString
  <2> QED BY <1>3, <2>3, <2>4
<1> QED
  BY <1>2, <1>3 DEF ReadFdToString

-----------------------------------------------------------------------------
\* open of load_file.
LEMMA OpenToLoad_Keeps ==
  ASSUME IInv, OpenToLoad, UNCHANGED channel
  PROVE  IInv'
<1>1. /\ LoadOK(frame) /\ frame \in LoadFrame /\ frame.at = "open" /\ frame.fd = None
  BY FrameOf DEF OpenToLoad, In, LoadOK
<1>2. CASE Result(FALSE) /\ UNCHANGED table
  <2>1. LoadOK(frame') /\ frame'.fd = frame.fd
    BY <1>1, <1>2 DEF Result, LoadOK, LoadFrame
  <2> QED BY <1>2, <2>1, File_Keeps DEF FileOK
<1>3. CASE frame.name # None /\ Opens(Leads(frame.name), [frame EXCEPT !.at = "lseek"])
  <2> DEFINE i == Leads(frame.name)
             f == [frame EXCEPT !.at = "lseek"]
  <2>1. i \in Inodes
    BY <1>1, <1>3, LeadsTyped, NamesAssumption DEF LoadFrame, Leads, Names, Inodes, Files
  <2>2. frame' = [f EXCEPT !.fd = Lowest(Here), !.inode = i] /\ ~IsFull(Here)
    BY <1>3 DEF Opens
  <2>3. Lowest(Here) \in MaybeFd
    BY <2>2, LowestIsFree DEF MaybeFd
  <2> HIDE DEF i
  <2>4. frame' \in LoadFrame /\ frame'.at = "lseek" /\ frame'.fd = Lowest(Here)
    BY <1>1, <2>1, <2>2, <2>3 DEF LoadFrame
  <2>5. LoadOK(frame')
    BY <2>4 DEF LoadOK
  <2>6. Opens(i, f)
    BY <1>3 DEF i
  <2> HIDE DEF f
  <2> QED BY <1>1, <2>1, <2>4, <2>5, <2>6, Opens_Keeps DEF FileOK
<1> QED
  BY <1>2, <1>3 DEF OpenToLoad

\* load_file asks for the size.
LEMMA Lseek_Keeps ==
  ASSUME IInv, Lseek, UNCHANGED channel
  PROVE  IInv'
<1>1. LoadOK(frame) /\ frame \in LoadFrame
  BY FrameOf DEF Lseek, In, LoadOK
<1>2. CASE Result(FALSE)
  <2>1. LoadOK(frame') /\ frame'.fd = frame.fd
    BY <1>1, <1>2 DEF Result, LoadOK, LoadFrame
  <2> QED BY <2>1, File_Keeps DEF FileOK, Lseek
<1>3. CASE /\ frame.inode \in Files
           /\ frame' = [frame EXCEPT !.at = "read", !.size = Len(frame.data[frame.inode])]
  <2> DEFINE size == Len(frame.data[frame.inode])
  <2>1. size \in Nat
    BY <1>1, <1>3 DEF LoadFrame, Data
  <2>2. frame' = [frame EXCEPT !.at = "read", !.size = size]
    BY <1>3
  <2> HIDE DEF size
  <2>3. LoadOK(frame') /\ frame'.fd = frame.fd
    BY <1>1, <1>3, <2>1, <2>2 DEF LoadOK, LoadFrame
  <2> QED BY <2>3, File_Keeps DEF FileOK, Lseek
<1> QED
  BY <1>2, <1>3 DEF Lseek

\* The lesser of two numbers.
LEMMA LeastOfTwo ==
  ASSUME NEW a \in Nat, NEW b \in Nat
  PROVE  Min({a, b}) \in Nat /\ Min({a, b}) <= a /\ Min({a, b}) <= b
<1> DEFINE S == {a, b}
<1>1. S \in SUBSET Nat /\ S # {} /\ a \in S /\ b \in S
  OBVIOUS
<1> HIDE DEF S
<1>2. Min(S) \in S /\ \A m \in S : Min(S) <= m
  BY <1>1, LeastIsThere
<1> QED
  BY <1>1, <1>2 DEF S

\* The one read of load_file: true only for all of the size.
LEMMA ReadAtOnce_Keeps ==
  ASSUME IInv, ReadAtOnce, UNCHANGED channel
  PROVE  IInv'
<1>1. LoadOK(frame) /\ frame \in LoadFrame /\ frame.inode \in Files
  BY FrameOf DEF ReadAtOnce, In, LoadOK
<1>2. CASE Result(FALSE)
  <2>1. LoadOK(frame') /\ frame'.fd = frame.fd
    BY <1>1, <1>2 DEF Result, LoadOK, LoadFrame
  <2> QED BY <2>1, File_Keeps DEF FileOK, ReadAtOnce
<1>3. CASE \E n \in 0 .. Min({frame.size, Len(frame.data[frame.inode])}) :
              frame' = [frame EXCEPT !.content = SubSeq(frame.data[frame.inode], 1, n),
                                     !.at = "return", !.result = n = frame.size]
  <2> DEFINE t == frame.data[frame.inode]
  <2>1. PICK n \in 0 .. Min({frame.size, Len(t)}) :
           frame' = [frame EXCEPT !.content = SubSeq(t, 1, n), !.at = "return", !.result = n = frame.size]
    BY <1>3
  <2> DEFINE content == SubSeq(t, 1, n)
             result == n = frame.size
  <2>2. t \in Seq(Piece) /\ frame.size \in Nat
    BY <1>1 DEF LoadFrame, Data
  <2>3. n \in Nat /\ n <= Len(t)
    BY <2>2, LeastOfTwo
  <2>4. content \in Seq(Piece) /\ Len(content) = n
    <3> HIDE DEF t
    <3> QED BY <2>2, <2>3
  <2>5. result => Len(content) = frame.size /\ content = SubSeq(t, 1, frame.size)
    BY <2>4
  <2>6. frame' = [frame EXCEPT !.content = content, !.at = "return", !.result = result] /\ result \in BOOLEAN
    BY <2>1
  <2> HIDE DEF content, result
  <2>7. /\ frame' \in LoadFrame /\ frame'.fd = frame.fd /\ frame'.content = content
        /\ frame'.at = "return" /\ frame'.data = frame.data /\ frame'.inode = frame.inode
        /\ frame'.size = frame.size
    BY <1>1, <2>4, <2>6 DEF LoadFrame
  <2>8. frame'.result = result
    BY <1>1, <2>6, Zenon DEF LoadFrame
  <2>9. LoadOK(frame')
    BY <2>5, <2>7, <2>8 DEF LoadOK
  <2> QED BY <2>7, <2>9, File_Keeps DEF FileOK, ReadAtOnce
<1> QED
  BY <1>2, <1>3 DEF ReadAtOnce

-----------------------------------------------------------------------------
\* A call of ReadFully or ReadFullyAtOffset keeps the invariant.
LEMMA ReadFully_Keeps ==
  ASSUME IInv, ReadFully, UNCHANGED channel
  PROVE  IInv'
<1>1. PICK offset \in 0 .. 1, byte_count \in 0 .. 3, atOffset \in BOOLEAN :
         Call([call |-> "ReadFully", at |-> "read", fd |-> None, offset |-> offset, start |-> offset,
               count |-> byte_count, atOffset |-> atOffset, got |-> <<>>, result |-> FALSE])
  BY DEF ReadFully
<1> DEFINE f == [call |-> "ReadFully", at |-> "read", fd |-> None, offset |-> offset, start |-> offset,
                 count |-> byte_count, atOffset |-> atOffset, got |-> <<>>, result |-> FALSE]
<1>2. offset \in 0 .. Size /\ offset \in Nat /\ byte_count \in Nat
  BY DEF Size
<1>3. f \in ReadFullyFrame /\ f.fd = None /\ f.at = "read"
  <2>1. <<>> \in Seq(Nat)
    OBVIOUS
  <2> QED BY <1>2, <2>1 DEF ReadFullyFrame
<1>4. f.got = <<>> /\ f.offset = offset /\ f.start = offset /\ f.count = byte_count
  OBVIOUS
<1>5. Call(f)
  BY <1>1
<1> HIDE DEF f
<1>6. ReadFullyOK(f)
  BY <1>2, <1>3, <1>4 DEF ReadFullyOK
<1> QED
  BY <1>3, <1>5, <1>6, Call_Keeps DEF FileOK

\* The loop of ReadFully: the bytes come in order, and with an offset of its own
\* without a gap.
LEMMA ReadLoop_Keeps ==
  ASSUME IInv, ReadLoop, UNCHANGED channel
  PROVE  IInv'
<1>1. ReadFullyOK(frame) /\ frame \in ReadFullyFrame /\ frame.at = "read"
  BY FrameOf DEF ReadLoop, In, ReadFullyOK
<1> DEFINE remaining == frame.count - Len(frame.got)
           there == Size - frame.offset
           g == frame.got
<1>2. /\ g \in Seq(Nat) /\ Len(g) \in Nat /\ frame.count \in Nat /\ remaining \in Nat /\ there \in Nat
      /\ frame.offset \in Nat /\ frame.start \in Nat /\ Size \in Nat
  BY <1>1 DEF ReadFullyOK, ReadFullyFrame, Size
<1>3. CASE remaining = 0 /\ Result(TRUE)
  <2>1. Len(g) = frame.count
    BY <1>2, <1>3
  <2>2. frame' = [frame EXCEPT !.at = "return", !.result = TRUE]
    BY <1>3 DEF Result
  <2>3. ReadFullyOK(frame') /\ frame'.fd = frame.fd
    BY <1>1, <2>1, <2>2 DEF ReadFullyOK, ReadFullyFrame
  <2> QED BY <2>3, File_Keeps DEF FileOK, ReadLoop
<1>4. CASE remaining > 0 /\ Result(FALSE)
  <2>1. Len(g) # frame.count
    BY <1>2, <1>4
  <2>2. frame' = [frame EXCEPT !.at = "return", !.result = FALSE]
    BY <1>4 DEF Result
  <2>3. ReadFullyOK(frame') /\ frame'.fd = frame.fd
    BY <1>1, <2>1, <2>2 DEF ReadFullyOK, ReadFullyFrame
  <2> QED BY <2>3, File_Keeps DEF FileOK, ReadLoop
<1>5. CASE \E n \in 1 .. Min({remaining, there}) :
              frame' = [frame EXCEPT !.got = @ \o [i \in 1 .. n |-> frame.offset + i - 1], !.offset = @ + n]
  <2>1. PICK n \in 1 .. Min({remaining, there}) :
              frame' = [frame EXCEPT !.got = g \o [i \in 1 .. n |-> frame.offset + i - 1],
                                     !.offset = frame.offset + n]
    BY <1>5
  <2> DEFINE new == [i \in 1 .. n |-> frame.offset + i - 1]
             h == g \o new
             m == Len(g)
             to == frame.offset + n
  <2>2. n \in Nat /\ n >= 1 /\ n <= remaining /\ n <= there
    <3> HIDE DEF remaining, there
    <3> QED BY <1>2, LeastOfTwo
  <2>3. to \in 0 .. Size /\ to \in Nat
    BY <1>2, <2>2
  <2>4. new \in Seq(Nat) /\ Len(new) = n /\ \A i \in 1 .. n : new[i] = frame.offset + i - 1
    BY <1>2, <2>2
  <2> HIDE DEF new, g
  <2>5. h \in Seq(Nat) /\ Len(h) = m + n /\ \A i \in 1 .. m + n : h[i] = IF i <= m THEN g[i] ELSE new[i - m]
    <3>1. g \in Seq(Nat) /\ new \in Seq(Nat) /\ Len(new) = n
      BY <1>2, <2>4 DEF g
    <3>2. /\ g \o new \in Seq(Nat) /\ Len(g \o new) = Len(g) + Len(new)
          /\ \A i \in 1 .. Len(g) + Len(new) :
                (g \o new)[i] = IF i <= Len(g) THEN g[i] ELSE new[i - Len(g)]
      BY ONLY <3>1
    <3> QED BY <3>1, <3>2
  <2>6. m \in Nat /\ m + n <= frame.count
    BY <1>2, <2>2 DEF g
  <2>7. frame' = [frame EXCEPT !.got = h, !.offset = to]
    BY <2>1 DEF new
  <2>8. /\ \A i \in 1 .. m : g[i] < frame.offset
        /\ \A i, j \in 1 .. m : i < j => g[i] < g[j]
        /\ frame.atOffset => /\ frame.offset = frame.start + m
                             /\ \A i \in 1 .. m : g[i] = frame.start + i - 1
    BY <1>1 DEF ReadFullyOK, g
  <2> HIDE DEF h, m, remaining, there
  <2>9. ASSUME NEW i \in 1 .. m + n
        PROVE  IF i <= m THEN i \in 1 .. m /\ h[i] = g[i] /\ g[i] \in Nat
               ELSE i - m \in 1 .. n /\ h[i] = frame.offset + (i - m) - 1
    <3>1. CASE i <= m
      <4>1. i \in 1 .. m
        BY <3>1, <2>6
      <4>2. g[i] \in Nat
        BY <4>1, <1>2 DEF m
      <4> QED BY <2>5, <3>1, <4>1, <4>2
    <3>2. CASE ~(i <= m)
      <4>1. i - m \in 1 .. n
        BY <3>2, <2>2, <2>6
      <4> QED BY <2>4, <2>5, <3>2, <4>1
    <3> QED BY <3>1, <3>2
  <2>10. ASSUME NEW i \in 1 .. m + n PROVE h[i] < to
    <3>1. i \in Nat
      BY <2>6
    <3>2. CASE i <= m
      <4>1. h[i] = g[i] /\ g[i] \in Nat /\ g[i] < frame.offset
        BY <2>8, <2>9, <3>2
      <4> QED BY <4>1, <1>2, <2>2
    <3>3. CASE ~(i <= m)
      <4>1. i - m \in 1 .. n /\ h[i] = frame.offset + (i - m) - 1
        BY <2>9, <3>3
      <4> QED BY <4>1, <1>2, <2>2, <2>6, <3>1
    <3> QED BY <3>2, <3>3
  <2>11. ASSUME NEW i \in 1 .. m + n, NEW j \in 1 .. m + n, i < j PROVE h[i] < h[j]
    <3>1. i \in Nat /\ j \in Nat
      BY <2>6
    <3>2. CASE j <= m
      <4>0. i <= m
        BY <2>11, <2>6, <3>1, <3>2
      <4>1. i \in 1 .. m /\ j \in 1 .. m /\ h[i] = g[i] /\ h[j] = g[j]
        BY <2>9, <3>2, <4>0
      <4> QED BY <4>1, <2>8, <2>11
    <3>3. CASE ~(j <= m) /\ i <= m
      <4>1. h[i] = g[i] /\ g[i] \in Nat /\ g[i] < frame.offset
        BY <2>8, <2>9, <3>3
      <4>2. j - m \in 1 .. n /\ h[j] = frame.offset + (j - m) - 1
        BY <2>9, <3>3
      <4> QED BY <4>1, <4>2, <1>2, <2>2, <2>6, <3>1
    <3>4. CASE ~(j <= m) /\ ~(i <= m)
      <4>1. h[i] = frame.offset + (i - m) - 1
        BY <2>9, <3>4
      <4>2. h[j] = frame.offset + (j - m) - 1
        BY <2>9, <3>4
      <4> QED BY <4>1, <4>2, <1>2, <2>6, <2>11, <3>1
    <3> QED BY <3>2, <3>3, <3>4
  <2>12. ASSUME frame.atOffset
         PROVE  to = frame.start + (m + n) /\ \A i \in 1 .. m + n : h[i] = frame.start + i - 1
    <3>1. frame.offset = frame.start + m
      BY <2>8, <2>12
    <3>2. ASSUME NEW i \in 1 .. m + n PROVE h[i] = frame.start + i - 1
      <4>1. CASE i <= m
        <5>1. i \in 1 .. m /\ h[i] = g[i]
          BY <2>9, <4>1
        <5> QED BY <5>1, <2>8, <2>12
      <4>2. CASE ~(i <= m)
        <5>1. h[i] = frame.offset + (i - m) - 1
          BY <2>9, <4>2
        <5> QED BY <5>1, <3>1, <1>2, <2>6
      <4> QED BY <4>1, <4>2
    <3> QED BY <3>1, <3>2, <1>2, <2>2, <2>6
  <2> HIDE DEF to
  <2>13. /\ frame' \in ReadFullyFrame /\ frame'.got = h /\ frame'.offset = to /\ frame'.at = "read"
         /\ frame'.start = frame.start /\ frame'.count = frame.count /\ frame'.fd = frame.fd
    BY <1>1, <2>3, <2>5, <2>7 DEF ReadFullyFrame
  <2>14. frame'.atOffset = frame.atOffset
    BY <1>1, <2>7, Zenon DEF ReadFullyFrame
  <2>15. ReadFullyOK(frame')
    BY <2>5, <2>6, <2>10, <2>11, <2>12, <2>13, <2>14 DEF ReadFullyOK
  <2> QED BY <2>13, <2>15, File_Keeps DEF FileOK, ReadLoop
<1> QED
  BY <1>3, <1>4, <1>5 DEF ReadLoop

\* Another reader only moves the position forward.
LEMMA OtherReader_Keeps ==
  ASSUME IInv, OtherReader, UNCHANGED channel
  PROVE  IInv'
<1>1. ReadFullyOK(frame) /\ frame \in ReadFullyFrame /\ frame.at = "read"
  BY FrameOf DEF OtherReader, In, ReadFullyOK
<1> DEFINE to == frame.offset + 1
<1>2. /\ frame' = [frame EXCEPT !.offset = to] /\ ~frame.atOffset /\ to \in 0 .. Size
      /\ frame.offset \in Nat /\ frame.got \in Seq(Nat)
  BY <1>1 DEF OtherReader, ReadFullyFrame, Size
<1>3. \A i \in 1 .. Len(frame.got) : frame.got[i] < to
  <2>1. ASSUME NEW i \in 1 .. Len(frame.got) PROVE frame.got[i] < to
    <3>1. frame.got[i] \in Nat
      BY <1>2
    <3>2. frame.got[i] < frame.offset
      BY <1>1 DEF ReadFullyOK
    <3> QED BY <1>2, <3>1, <3>2
  <2> QED BY <2>1
<1> HIDE DEF to
<1>4. /\ frame' \in ReadFullyFrame /\ frame'.got = frame.got /\ frame'.offset = to /\ frame'.at = "read"
      /\ frame'.start = frame.start /\ frame'.count = frame.count /\ frame'.fd = frame.fd
  BY <1>1, <1>2 DEF ReadFullyFrame
<1>5. frame'.atOffset = frame.atOffset
  BY <1>1, <1>2, Zenon DEF ReadFullyFrame
<1>6. ReadFullyOK(frame')
  BY <1>1, <1>2, <1>3, <1>4, <1>5 DEF ReadFullyOK
<1> QED
  BY <1>4, <1>6, File_Keeps DEF FileOK, OtherReader

-----------------------------------------------------------------------------
\* RemoveFileIfExists keeps the invariant.
LEMMA Remove_Keeps ==
  ASSUME IInv, RemoveFileIfExists \/ Lstat \/ Unlink, UNCHANGED channel
  PROVE  IInv'
<1>1. CASE RemoveFileIfExists
  <2>1. PICK name \in InitialNames :
          Call([call |-> "RemoveFileIfExists", at |-> "lstat", fd |-> None, name |-> name,
                touched |-> FALSE, failed |-> FALSE, result |-> FALSE])
    BY <1>1 DEF RemoveFileIfExists
  <2> DEFINE f == [call |-> "RemoveFileIfExists", at |-> "lstat", fd |-> None, name |-> name,
                   touched |-> FALSE, failed |-> FALSE, result |-> FALSE]
  <2>2. name \in Names
    BY DEF InitialNames, Names, Files
  <2>3. RemoveOK(f) /\ f.fd = None
    BY <2>2 DEF RemoveOK, RemoveFrame
  <2>4. Call(f)
    BY <2>1
  <2> HIDE DEF f
  <2> QED BY <2>3, <2>4, Call_Keeps DEF FileOK
<1>2. CASE Lstat
  <2>1. RemoveOK(frame) /\ frame \in RemoveFrame /\ frame.at = "lstat" /\ ~frame.result
    BY <1>2, FrameOf DEF Lstat, In, RemoveOK
  <2>2. CASE Fails
    <3>1. RemoveOK(frame') /\ frame'.fd = frame.fd
      BY <2>1, <2>2 DEF Fails, RemoveOK, RemoveFrame
    <3> QED BY <1>2, <3>1, File_Keeps DEF FileOK, Lstat
  <2>3. CASE frame.name = None /\ Result(TRUE)
    <3>1. RemoveOK(frame') /\ frame'.fd = frame.fd
      BY <2>1, <2>3 DEF Result, RemoveOK, RemoveFrame
    <3> QED BY <1>2, <3>1, File_Keeps DEF FileOK, Lstat
  <2>4. CASE frame.name = "dir" /\ Result(FALSE)
    <3>1. RemoveOK(frame') /\ frame'.fd = frame.fd
      BY <2>1, <2>4 DEF Result, RemoveOK, RemoveFrame
    <3> QED BY <1>2, <3>1, File_Keeps DEF FileOK, Lstat
  <2>5. CASE frame.name \notin {"dir", None} /\ Goto("unlink")
    <3>1. RemoveOK(frame') /\ frame'.fd = frame.fd
      BY <2>1, <2>5 DEF Goto, RemoveOK, RemoveFrame
    <3> QED BY <1>2, <3>1, File_Keeps DEF FileOK, Lstat
  <2> QED BY <1>2, <2>2, <2>3, <2>4, <2>5 DEF Lstat
<1>3. CASE Unlink
  <2>1. /\ RemoveOK(frame) /\ frame \in RemoveFrame /\ frame.at = "unlink" /\ ~frame.result
        /\ frame.name \notin {"dir", None} \/ frame.touched
    BY <1>3, FrameOf DEF Unlink, In, RemoveOK
  <2>2. CASE Fails
    <3>1. RemoveOK(frame') /\ frame'.fd = frame.fd
      BY <2>1, <2>2 DEF Fails, RemoveOK, RemoveFrame
    <3> QED BY <1>3, <3>1, File_Keeps DEF FileOK, Unlink
  <2>3. CASE frame.name \in {"dir", None} /\ Result(FALSE)
    <3>1. RemoveOK(frame') /\ frame'.fd = frame.fd
      BY <2>1, <2>3 DEF Result, RemoveOK, RemoveFrame
    <3> QED BY <1>3, <3>1, File_Keeps DEF FileOK, Unlink
  <2>4. CASE /\ frame.name \notin {"dir", None}
             /\ frame' = [frame EXCEPT !.name = None, !.at = "return", !.result = TRUE]
    <3>1. RemoveOK(frame') /\ frame'.fd = frame.fd
      BY <2>1, <2>4 DEF RemoveOK, RemoveFrame, Names
    <3> QED BY <1>3, <3>1, File_Keeps DEF FileOK, Unlink
  <2> QED BY <1>3, <2>2, <2>3, <2>4 DEF Unlink
<1> QED
  BY <1>1, <1>2, <1>3

\* Readlink keeps the invariant, while the link changes too.
LEMMA Readlink_Keeps ==
  ASSUME IInv, Readlink \/ ReadlinkLoop \/ ReadlinkFails \/ Relink, UNCHANGED channel
  PROVE  IInv'
<1>0. 1 .. MaxLink \subseteq Nat
  BY ContentAssumption
<1>1. CASE Readlink
  <2>1. PICK length \in 1 .. MaxLink :
          Call([call |-> "Readlink", at |-> "readlink", fd |-> None, length |-> length, size |-> 2,
                text |-> 0, result |-> FALSE])
    BY <1>1 DEF Readlink
  <2> DEFINE f == [call |-> "Readlink", at |-> "readlink", fd |-> None, length |-> length, size |-> 2,
                   text |-> 0, result |-> FALSE]
  <2>2. ReadlinkOK(f) /\ f.fd = None
    BY <1>0 DEF ReadlinkOK, ReadlinkFrame
  <2>3. Call(f)
    BY <2>1
  <2> HIDE DEF f
  <2> QED BY <2>2, <2>3, Call_Keeps DEF FileOK
<1>2. CASE ReadlinkLoop \/ ReadlinkFails \/ Relink
  <2>1. ReadlinkOK(frame) /\ frame \in ReadlinkFrame /\ frame.at = "readlink" /\ UNCHANGED table
    BY <1>2, FrameOf DEF ReadlinkLoop, ReadlinkFails, Relink, In, ReadlinkOK
  <2>2. \/ frame' = [frame EXCEPT !.text = frame.length, !.at = "return", !.result = TRUE]
        \/ frame' = [frame EXCEPT !.size = 2 * @]
        \/ frame' = [frame EXCEPT !.at = "return", !.result = FALSE]
        \/ \E length \in Nat : frame' = [frame EXCEPT !.length = length]
    BY <1>0, <1>2 DEF ReadlinkLoop, ReadlinkFails, Relink, Result
  <2>3. ReadlinkOK(frame') /\ frame'.fd = frame.fd
    <3>1. CASE frame' = [frame EXCEPT !.text = frame.length, !.at = "return", !.result = TRUE]
      BY <2>1, <3>1 DEF ReadlinkOK, ReadlinkFrame
    <3>2. CASE frame' = [frame EXCEPT !.size = 2 * @]
      BY <2>1, <3>2 DEF ReadlinkOK, ReadlinkFrame
    <3>3. CASE frame' = [frame EXCEPT !.at = "return", !.result = FALSE]
      BY <2>1, <3>3 DEF ReadlinkOK, ReadlinkFrame
    <3>4. ASSUME NEW length \in Nat, frame' = [frame EXCEPT !.length = length]
          PROVE  ReadlinkOK(frame') /\ frame'.fd = frame.fd
      BY <2>1, <3>4 DEF ReadlinkOK, ReadlinkFrame
    <3> QED BY <2>2, <3>1, <3>2, <3>3, <3>4
  <2> QED BY <2>1, <2>3, File_Keeps DEF FileOK
<1> QED
  BY <1>1, <1>2

-----------------------------------------------------------------------------
\* A TemporaryFile is made, or not.
LEMMA TemporaryFile_Keeps ==
  ASSUME IInv, TemporaryFile, UNCHANGED channel
  PROVE  IInv'
<1>1. PICK made \in BOOLEAN :
         /\ made => ~IsFull(Here)
         /\ To(IF made THEN Opened(Here, [inode |-> "new"]) ELSE Here)
         /\ frame' = [call |-> "TemporaryFile", at |-> "alive", fd |-> IF made THEN Lowest(Here) ELSE None,
                      name |-> IF made THEN "new" ELSE None, remove |-> TRUE, result |-> FALSE]
  BY DEF TemporaryFile
<1>2. AtRest
  BY RestsInIdle DEF TemporaryFile
<1>3. ChannelOK'
  BY <1>2 DEF AtRest, ChannelOK
<1> DEFINE n == Lowest(Here)
           o == [inode |-> "new"]
<1>4. CASE made
  <2>1. o \in Thing
    BY DEF Thing, Inodes, Files
  <2> HIDE DEF o
  <2>2. Owned(Opened(Here, o), {} \cup {n}) /\ n \in Fd
    BY <1>1, <1>2, <1>4, <2>1, Opened_Owned DEF AtRest
  <2>3. {} \cup {n} = {n} /\ n # None
    BY <2>2, FdAssumption
  <2>4. Here' = Opened(Here, o)
    BY <1>1, <1>4, <2>2, ToIs DEF Owned, o
  <2> HIDE DEF n
  <2>5. frame' = [call |-> "TemporaryFile", at |-> "alive", fd |-> n, name |-> "new", remove |-> TRUE,
                  result |-> FALSE]
    BY <1>1, <1>4 DEF n
  <2>6. TemporaryFileOK(frame') /\ InFlight' = {n}
    BY <2>2, <2>3, <2>5 DEF TemporaryFileOK, TemporaryFileFrame, MaybeFd, InFlight
  <2> QED BY <1>3, <2>2, <2>3, <2>4, <2>6 DEF IInv, FrameOK, FileOK
<1>5. CASE ~made
  <2>1. To(Here) /\ Owned(Here, {})
    BY <1>1, <1>2, <1>5 DEF AtRest
  <2>2. Here' = Here
    BY <2>1, ToIs DEF Owned
  <2>3. frame' = [call |-> "TemporaryFile", at |-> "alive", fd |-> None, name |-> None, remove |-> TRUE,
                  result |-> FALSE]
    BY <1>1, <1>5
  <2>4. TemporaryFileOK(frame') /\ InFlight' = {}
    BY <2>3 DEF TemporaryFileOK, TemporaryFileFrame, MaybeFd, InFlight
  <2> QED BY <1>3, <2>1, <2>2, <2>4 DEF IInv, FrameOK, FileOK
<1> QED
  BY <1>4, <1>5

\* TemporaryFile::release hands the descriptor to the caller.
LEMMA TemporaryRelease_Keeps ==
  ASSUME IInv, TemporaryRelease, UNCHANGED channel
  PROVE  IInv'
<1>1. PICK h \in Handle : To(reset(Here, h, frame.fd)) /\ frame' = [frame EXCEPT !.fd = None]
  BY DEF TemporaryRelease
<1>2. TemporaryFileOK(frame) /\ frame \in TemporaryFileFrame /\ frame.at = "alive"
  BY FrameOf DEF TemporaryRelease, In, TemporaryFileOK
<1>3. frame.fd \in Fd \cup {None} /\ Owned(Here, {frame.fd} \ {None}) /\ h \in Owner
  BY <1>2 DEF TemporaryFileFrame, MaybeFd, IInv, InFlight, Owner
<1>4. Owned(reset(Here, h, frame.fd), {})
  BY <1>3, ResetInHand
<1>5. Here' = reset(Here, h, frame.fd)
  BY <1>1, <1>4, ToIs DEF Owned
<1>6. TemporaryFileOK(frame') /\ InFlight' = {}
  BY <1>1, <1>2 DEF TemporaryFileOK, TemporaryFileFrame, MaybeFd, InFlight
<1> QED
  BY <1>4, <1>5, <1>6 DEF IInv, FrameOK, FileOK, ChannelOK

\* The destructor of TemporaryFile closes and removes.
LEMMA TemporaryDestroyed_Keeps ==
  ASSUME IInv, TemporaryDestroyed, UNCHANGED channel
  PROVE  IInv'
<1>1. TemporaryFileOK(frame) /\ frame \in TemporaryFileFrame
  BY FrameOf DEF TemporaryDestroyed, In, TemporaryFileOK
<1> DEFINE name == IF frame.remove THEN Unlinked(frame.name) ELSE frame.name
<1>2. name \in {"new", None} /\ (frame.remove => name = None)
  BY <1>1, NamesAssumption DEF TemporaryFileFrame, Unlinked
<1>3. frame' = [frame EXCEPT !.at = "return", !.fd = None, !.name = name]
  BY DEF TemporaryDestroyed
<1> HIDE DEF name
<1>4. TemporaryFileOK(frame') /\ frame'.fd = None
  BY <1>1, <1>2, <1>3 DEF TemporaryFileOK, TemporaryFileFrame, MaybeFd
<1> QED
  BY <1>4, Closes_Keeps DEF FileOK, TemporaryDestroyed

\* DoNotRemove of both.
LEMMA DoNotRemove_Keeps ==
  ASSUME IInv, DoNotRemove, UNCHANGED channel
  PROVE  IInv'
<1>1. frame' = [frame EXCEPT !.remove = FALSE] /\ UNCHANGED table
  BY DEF DoNotRemove
<1>2. CASE In("TemporaryFile", "alive")
  <2>1. TemporaryFileOK(frame) /\ frame \in TemporaryFileFrame /\ frame.at = "alive"
    BY <1>2, FrameOf DEF In, TemporaryFileOK
  <2>2. TemporaryFileOK(frame') /\ frame'.fd = frame.fd
    BY <1>1, <2>1 DEF TemporaryFileOK, TemporaryFileFrame
  <2> QED BY <1>1, <2>2, File_Keeps DEF FileOK
<1>3. CASE In("TemporaryDir", "alive")
  <2>1. TemporaryDirOK(frame) /\ frame \in TemporaryDirFrame /\ frame.at = "alive"
    BY <1>3, FrameOf DEF In, TemporaryDirOK
  <2>2. TemporaryDirOK(frame') /\ frame'.fd = frame.fd
    BY <1>1, <2>1 DEF TemporaryDirOK, TemporaryDirFrame
  <2> QED BY <1>1, <2>2, File_Keeps DEF FileOK
<1> QED
  BY <1>2, <1>3 DEF DoNotRemove

\* A TemporaryDir from constructor to the end of its walk, while others fill it.
LEMMA TemporaryDir_Keeps ==
  ASSUME IInv, TemporaryDir \/ Fill \/ StartWalk \/ Walk, UNCHANGED channel
  PROVE  IInv'
<1>1. CASE TemporaryDir
  <2>0. PICK made \in BOOLEAN :
          Call([call |-> "TemporaryDir", at |-> "alive", fd |-> None, made |-> made, there |-> made,
                contents |-> {}, todo |-> {}, remove |-> TRUE, failed |-> FALSE, touched |-> FALSE,
                result |-> FALSE])
    BY <1>1 DEF TemporaryDir
  <2> DEFINE f == [call |-> "TemporaryDir", at |-> "alive", fd |-> None, made |-> made, there |-> made,
                   contents |-> {}, todo |-> {}, remove |-> TRUE, failed |-> FALSE, touched |-> FALSE,
                   result |-> FALSE]
  <2>1. TemporaryDirOK(f) /\ f.fd = None
    BY DEF TemporaryDirOK, TemporaryDirFrame
  <2>2. Call(f)
    BY <2>0
  <2> HIDE DEF f
  <2> QED BY <2>1, <2>2, Call_Keeps DEF FileOK
<1>2. CASE Fill \/ StartWalk \/ Walk
  <2>1. /\ TemporaryDirOK(frame) /\ frame \in TemporaryDirFrame /\ UNCHANGED table
        /\ frame.at \in {"alive", "walk"} /\ frame.there = frame.made
        /\ frame.at = "walk" => frame.there
        /\ frame.at = "walk" => frame.remove /\ (frame.contents \subseteq frame.todo \/ frame.failed \/ frame.touched)
    BY <1>2, FrameOf DEF Fill, StartWalk, Walk, In, TemporaryDirOK
  <2> SUFFICES TemporaryDirOK(frame') /\ frame'.fd = frame.fd
    BY <2>1, File_Keeps DEF FileOK
  <2>2. CASE Fill
    <3>1. PICK child \in Children :
             frame' = [frame EXCEPT !.contents = @ \cup {child}, !.touched = frame.at = "walk"]
      BY <2>2 DEF Fill
    <3> DEFINE contents == frame.contents \cup {child}
               touched == frame.at = "walk"
    <3>2. contents \in SUBSET Children /\ touched \in BOOLEAN
      BY <2>1 DEF TemporaryDirFrame
    <3>3. frame' = [frame EXCEPT !.contents = contents, !.touched = touched]
      BY <3>1
    <3>4. frame.at = "walk" => touched
      OBVIOUS
    <3> HIDE DEF contents, touched
    <3>5. frame' \in TemporaryDirFrame /\ frame'.at = frame.at /\ frame'.fd = frame.fd
      BY <2>1, <3>2, <3>3 DEF TemporaryDirFrame
    <3>6. /\ frame'.touched = touched /\ frame'.there = frame.there /\ frame'.remove = frame.remove
          /\ frame'.made = frame.made
      BY <2>1, <3>3, Zenon DEF TemporaryDirFrame
    <3> QED BY <2>1, <3>4, <3>5, <3>6 DEF TemporaryDirOK
  <2>3. CASE StartWalk
    <3>0. frame.at = "alive"
      BY <2>3 DEF StartWalk, In
    <3>1. CASE frame.remove /\ frame.there /\ frame' = [frame EXCEPT !.at = "walk", !.todo = frame.contents]
      BY <2>1, <3>1 DEF TemporaryDirOK, TemporaryDirFrame
    <3>2. CASE ~frame.remove /\ Goto("return")
      BY <2>1, <3>2 DEF Goto, TemporaryDirOK, TemporaryDirFrame
    <3>3. CASE frame.remove /\ Fails
      BY <2>1, <3>3 DEF Fails, TemporaryDirOK, TemporaryDirFrame
    <3> QED BY <2>3, <3>1, <3>2, <3>3 DEF StartWalk
  <2>4. CASE Walk
    <3>0. frame.at = "walk" /\ frame.remove /\ (frame.contents \subseteq frame.todo \/ frame.failed \/ frame.touched)
      BY <2>1, <2>4 DEF Walk, In
    <3>1. CASE frame.todo # {}
      <4>1. PICK child \in frame.todo, ok \in BOOLEAN :
               frame' = [frame EXCEPT !.todo = @ \ {child},
                                      !.contents = IF ok THEN @ \ {child} ELSE @,
                                      !.failed = @ \/ ~ok]
        BY <2>4, <3>1 DEF Walk, WalkChild
      <4> DEFINE todo == frame.todo \ {child}
                 contents == IF ok THEN frame.contents \ {child} ELSE frame.contents
                 failed == frame.failed \/ ~ok
      <4>2. todo \in SUBSET Children /\ contents \in SUBSET Children /\ failed \in BOOLEAN
        BY <2>1 DEF TemporaryDirFrame
      <4>3. contents \subseteq todo \/ failed \/ frame.touched
        BY <3>0
      <4>4. frame' = [frame EXCEPT !.todo = todo, !.contents = contents, !.failed = failed]
        BY <4>1
      <4> HIDE DEF todo, contents, failed
      <4>5. /\ frame' \in TemporaryDirFrame /\ frame'.at = "walk" /\ frame'.fd = frame.fd
            /\ frame'.todo = todo /\ frame'.contents = contents
        BY <2>1, <3>0, <4>2, <4>4 DEF TemporaryDirFrame
      <4>6. /\ frame'.failed = failed /\ frame'.there = frame.there /\ frame'.remove = frame.remove
            /\ frame'.touched = frame.touched /\ frame'.made = frame.made
        BY <2>1, <4>4, Zenon DEF TemporaryDirFrame
      <4> QED BY <2>1, <3>0, <4>3, <4>5, <4>6 DEF TemporaryDirOK
    <3>2. CASE frame.todo = {} /\ frame' = [frame EXCEPT !.at = "return", !.there = frame.contents # {}]
      <4> DEFINE there == frame.contents # {}
      <4>1. there \in BOOLEAN /\ (there => frame.failed \/ frame.touched)
        BY <3>0, <3>2
      <4>2. frame' = [frame EXCEPT !.at = "return", !.there = there]
        BY <3>2
      <4> HIDE DEF there
      <4>3. frame' \in TemporaryDirFrame /\ frame'.at = "return" /\ frame'.fd = frame.fd
        BY <2>1, <4>1, <4>2 DEF TemporaryDirFrame
      <4>4. /\ frame'.there = there /\ frame'.failed = frame.failed /\ frame'.remove = frame.remove
            /\ frame'.touched = frame.touched /\ frame'.made = frame.made
        BY <2>1, <4>2, Zenon DEF TemporaryDirFrame
      <4> QED BY <3>0, <4>1, <4>3, <4>4 DEF TemporaryDirOK
    <3>3. CASE frame' = [frame EXCEPT !.at = "return", !.failed = TRUE]
      BY <2>1, <3>0, <3>3 DEF TemporaryDirOK, TemporaryDirFrame
    <3> QED BY <2>4, <3>1, <3>2, <3>3 DEF Walk, WalkSelf
  <2> QED BY <1>2, <2>2, <2>3, <2>4
<1> QED
  BY <1>1, <1>2

-----------------------------------------------------------------------------
\* The end of a call closes what it has in hand.
LEMMA FileReturn_Keeps ==
  ASSUME IInv, FileReturn, UNCHANGED channel
  PROVE  IInv'
BY Closes_Keeps DEF FileReturn, NoCall

\* Another program takes the name or gives it to another file.
LEMMA Renames_Keeps ==
  ASSUME IInv, Renames, UNCHANGED channel
  PROVE  IInv'
<1>1. PICK name \in {"other", "dir", None} :
         /\ OnPath
         /\ frame' = [frame EXCEPT !.name = name, !.touched = TRUE]
         /\ UNCHANGED table
  BY DEF Renames
<1>2. name \in Names /\ frame.at # "return"
  BY <1>1 DEF OnPath, Names, Files
<1>3. CASE frame.call = "WriteStringToFile"
  <2>1. WriteOK(frame) /\ frame \in WriteFrame
    BY <1>3, FrameOf DEF WriteOK
  <2>2. /\ frame' \in WriteFrame /\ frame'.touched = TRUE /\ frame'.fd = frame.fd /\ frame'.at = frame.at
        /\ frame'.inode = frame.inode /\ frame'.data = frame.data /\ frame'.left = frame.left
    BY <1>1, <1>2, <2>1 DEF WriteFrame
  <2>3. frame'.result = frame.result /\ frame'.removed = frame.removed
    BY <1>1, <2>1, Zenon DEF WriteFrame
  <2>4. WriteOK(frame')
    BY <1>2, <2>1, <2>2, <2>3 DEF WriteOK, Named
  <2> QED BY <1>1, <2>2, <2>4, File_Keeps DEF FileOK
<1>4. CASE frame.call = "ReadFileToString"
  <2>1. ReadOK(frame) /\ frame \in ReadFrame
    BY <1>4, FrameOf DEF ReadOK
  <2>2. ReadOK(frame') /\ frame'.fd = frame.fd
    BY <1>1, <1>2, <2>1 DEF ReadOK, ReadFrame
  <2> QED BY <1>1, <2>2, File_Keeps DEF FileOK
<1>5. CASE frame.call = "RemoveFileIfExists"
  <2>1. RemoveOK(frame) /\ frame \in RemoveFrame
    BY <1>5, FrameOf DEF RemoveOK
  <2>2. RemoveOK(frame') /\ frame'.fd = frame.fd
    BY <1>1, <1>2, <2>1 DEF RemoveOK, RemoveFrame
  <2> QED BY <1>1, <2>2, File_Keeps DEF FileOK
<1>6. CASE frame.call = "load_file"
  <2>1. LoadOK(frame) /\ frame \in LoadFrame
    BY <1>6, FrameOf DEF LoadOK
  <2>2. LoadOK(frame') /\ frame'.fd = frame.fd
    BY <1>1, <1>2, <2>1 DEF LoadOK, LoadFrame
  <2> QED BY <1>1, <2>2, File_Keeps DEF FileOK
<1> QED
  BY <1>1, <1>3, <1>4, <1>5, <1>6 DEF OnPath

\* The other program writes to the file that is read.
LEMMA Changes_Keep ==
  ASSUME IInv, Appends \/ Truncates, UNCHANGED channel
  PROVE  IInv'
<1>0. frame.call \in {"ReadFileToString", "load_file"} /\ frame.at # "return" /\ UNCHANGED table
  BY DEF Appends, Truncates
<1>1. frame.data \in Data
  BY <1>0, FrameOf DEF ReadOK, ReadFrame, LoadOK, LoadFrame
<1> DEFINE d == frame.data["old"]
           e == Append(d, "more")
<1>2. d \in Seq(Piece) /\ "old" \in Files
  BY <1>1 DEF Data, Files
<1>3. e \in Seq(Piece) /\ Len(e) = Len(d) + 1 /\ \A i \in 1 .. Len(d) : e[i] = d[i]
  <2>1. "more" \in Piece
    BY DEF Piece
  <2> HIDE DEF d
  <2> QED BY <1>2, <2>1
<1>4. \E s \in Seq(Piece) : \/ frame' = [frame EXCEPT !.data["old"] = s] /\ s = e
                            \/ frame' = [frame EXCEPT !.data["old"] = s, !.cut = TRUE]
  BY <1>3, NoPieces DEF Appends, Truncates
<1>5. PICK s \in Seq(Piece) : \/ frame' = [frame EXCEPT !.data["old"] = s] /\ s = e
                              \/ frame' = [frame EXCEPT !.data["old"] = s, !.cut = TRUE]
  BY <1>4
<1> DEFINE data == [frame.data EXCEPT !["old"] = s]
<1>6. data \in Data /\ data["old"] = s /\ \A f \in Files \ {"old"} : data[f] = frame.data[f]
  BY <1>1, <1>2 DEF Data
<1>7. \/ frame' = [frame EXCEPT !.data = data] /\ s = e
      \/ frame' = [frame EXCEPT !.data = data, !.cut = TRUE]
  BY <1>5, Zenon
<1> HIDE DEF data, e
<1>8. CASE frame.call = "ReadFileToString"
  <2>1. ReadOK(frame) /\ frame \in ReadFrame
    BY <1>8, FrameOf DEF ReadOK
  <2>2. /\ frame' \in ReadFrame /\ frame'.data = data /\ frame'.fd = frame.fd /\ frame'.at = frame.at
        /\ frame'.inode = frame.inode /\ frame'.content = frame.content
        /\ frame'.cut \/ (s = e /\ ~frame.cut = ~frame'.cut)
    <3>1. CASE frame' = [frame EXCEPT !.data = data] /\ s = e
      BY <1>6, <2>1, <3>1 DEF ReadFrame
    <3>2. CASE frame' = [frame EXCEPT !.data = data, !.cut = TRUE]
      BY <1>6, <2>1, <3>2 DEF ReadFrame
    <3> QED BY <1>7, <3>1, <3>2
  <2>3. ASSUME frame.inode \in Files, Begins(frame.content, frame.data[frame.inode]), s = e
        PROVE  Begins(frame.content, data[frame.inode])
    <3>1. CASE frame.inode = "old"
      <4>1. data[frame.inode] = e
        BY <1>6, <2>3, <3>1
      <4>2. Len(frame.content) \in Nat /\ Len(d) \in Nat
        BY <1>2, <2>1 DEF ReadFrame
      <4>3. Len(frame.content) <= Len(d) /\ \A i \in 1 .. Len(frame.content) : frame.content[i] = d[i]
        BY <2>3, <3>1 DEF Begins
      <4> HIDE DEF d
      <4>4. Len(frame.content) <= Len(e) /\ \A i \in 1 .. Len(frame.content) : i \in 1 .. Len(d)
        BY <1>3, <4>2, <4>3
      <4> QED BY <1>3, <4>1, <4>3, <4>4 DEF Begins
    <3>2. CASE frame.inode # "old"
      BY <1>6, <2>3, <3>2
    <3> QED BY <3>1, <3>2
  <2>4. ReadOK(frame')
    BY <1>0, <2>1, <2>2, <2>3 DEF ReadOK
  <2> QED BY <1>0, <2>2, <2>4, File_Keeps DEF FileOK
<1>9. CASE frame.call = "load_file"
  <2>1. LoadOK(frame) /\ frame \in LoadFrame
    BY <1>9, FrameOf DEF LoadOK
  <2>2. LoadOK(frame') /\ frame'.fd = frame.fd
    <3>1. CASE frame' = [frame EXCEPT !.data = data]
      BY <1>0, <1>6, <2>1, <3>1 DEF LoadOK, LoadFrame
    <3>2. CASE frame' = [frame EXCEPT !.data = data, !.cut = TRUE]
      BY <1>0, <1>6, <2>1, <3>2 DEF LoadOK, LoadFrame
    <3> QED BY <1>7, <3>1, <3>2
  <2> QED BY <1>0, <2>2, File_Keeps DEF FileOK
<1> QED
  BY <1>0, <1>8, <1>9

-----------------------------------------------------------------------------
\* Every step of the calls of file.cpp and of the other program keeps the
\* invariant.
LEMMA Files_Keep ==
  ASSUME IInv, FileCall \/ FileStep \/ FileCaller \/ OtherProgram, UNCHANGED channel
  PROVE  IInv'
<1>1. CASE FileCall
  BY <1>1, WriteCalls_Keep, ReadCalls_Keep, ReadFully_Keeps, Remove_Keeps, Readlink_Keeps,
     TemporaryFile_Keeps, TemporaryDir_Keeps DEF FileCall
<1>2. CASE FileStep
  BY <1>2, OpenToWrite_Keeps, FchmodFchown_Keep, Writes_Keep, CleanUp_Keeps, OpenToRead_Keeps,
     ReadFdToString_Keeps, ReadLoop_Keeps, OpenToLoad_Keeps, Lseek_Keeps, ReadAtOnce_Keeps,
     Remove_Keeps, Readlink_Keeps, TemporaryDestroyed_Keeps, TemporaryDir_Keeps, FileReturn_Keeps
     DEF FileStep
<1>3. CASE FileCaller
  BY <1>3, TemporaryRelease_Keeps, DoNotRemove_Keeps DEF FileCaller
<1>4. CASE OtherProgram
  BY <1>4, Readlink_Keeps, Renames_Keeps, Changes_Keep, OtherReader_Keeps, TemporaryDir_Keeps
     DEF OtherProgram
<1> QED
  BY <1>1, <1>2, <1>3, <1>4

\* The next-state relation without the bounds on when a call begins.
AnyNext == \/ (Caller \/ SocketNetworkClient \/ FileCall \/ Listen \/ UeventOpen \/ UeventRecv
               \/ Running \/ Around) /\ UNCHANGED channel
           \/ FdPassing
\* Every step keeps the invariant.
LEMMA AnyNext_Keeps ==
  ASSUME IInv, [AnyNext]_libraryVars
  PROVE  IInv'
<1>1. CASE UNCHANGED libraryVars
  BY <1>1, CallOf DEF libraryVars, IInv, Here, InFlight, FrameOK, ChannelOK, table
<1>2. CASE AnyNext
  BY <1>2, Caller_Keeps, FdPassing_Keeps, Client_Keeps, Files_Keep, Opened_Keeps, Uevent_Keeps
     DEF AnyNext, Running, Around, EndpointsStep
<1> QED
  BY <1>1, <1>2

\* The bounds only leave steps out.
LEMMA LibraryIsAny == LibraryNext => AnyNext
BY DEF LibraryNext, AnyNext, BeginCall, OpenSocket

\* The invariant holds at first.
LEMMA Init_IInv ==
  ASSUME LibraryInit
  PROVE  IInv
<1> USE DEF LibraryInit, DescriptorsInit, FdPassingInit
<1>1. frame = NoCall /\ InFlight = {}
  BY DEF NoCall, InFlight
<1>2. Here \in Table
  <2>1. fds \in [Fd -> Thing \cup {None}] /\ held \in [Owner -> Fd \cup {None}]
    OBVIOUS
  <2>2. vector \in Seq(Fd) /\ wrong \in BOOLEAN
    <3>1. <<>> \in Seq(Fd)
      OBVIOUS
    <3>2. vector = <<>> /\ wrong = FALSE
      OBVIOUS
    <3> QED BY ONLY <3>1, <3>2
  <2> QED BY ONLY <2>1, <2>2 DEF Here, Table
<1>3. HeldOnce(Here) /\ VectorOnce(Here) /\ Apart(Here, {})
  BY DEF Here, HeldOnce, VectorOnce, Apart
<1>4. OpenAreKept(Here, {})
  BY FdAssumption DEF Here, OpenAreKept, KeptBy
<1>5. ChannelOK
  <2>1. <<>> \in Seq(Byte)
    OBVIOUS
  <2> QED BY <2>1 DEF ChannelOK
<1>6. ~Here.wrong
  BY DEF Here
<1> QED
  BY <1>1, <1>2, <1>3, <1>4, <1>5, <1>6 DEF IInv, Owned, FrameOK

-----------------------------------------------------------------------------
\* The invariant counts one keeper for each open number and none for the others.
LEMMA IInv_NothingLeaks ==
  ASSUME IInv
  PROVE  NothingLeaks
<1>1. /\ Owned(Here, InFlight) /\ held \in [Owner -> Fd \cup {None}] /\ vector \in Seq(Fd)
      /\ InFlight = {frame.fd} \ {None} /\ None \notin Fd
  BY FdAssumption DEF IInv, Owned, Table, Here, InFlight
<1>2. ASSUME NEW n \in Fd PROVE Keepers(n) = IF fds[n] = None THEN 0 ELSE 1
  <2> DEFINE A == {o \in Owner : held[o] = n}
             B == {i \in DOMAIN vector : vector[i] = n}
             c == IF frame.fd = n THEN 1 ELSE 0
  <2>0. Cardinality({}) = 0
    BY FS_EmptySet
  <2>1. /\ fds[n] # None <=> (frame.fd = n \/ A # {} \/ B # {})
        /\ frame.fd = n => A = {} /\ B = {}
        /\ A # {} => B = {}
    <3>1. n # None
      BY <1>1
    <3>2. fds[n] # None <=> KeptBy(Here, InFlight, n)
      BY <1>1 DEF Owned, OpenAreKept, Here
    <3>3. KeptBy(Here, InFlight, n) <=> (frame.fd = n \/ A # {} \/ B # {})
      BY <1>1, <3>1 DEF KeptBy, Here
    <3>4. frame.fd = n => A = {} /\ B = {}
      BY <1>1, <3>1 DEF Owned, Apart, Here
    <3>5. A # {} => B = {}
      BY <1>1 DEF Owned, Apart, Here
    <3> QED BY <3>2, <3>3, <3>4, <3>5
  <2>2. A # {} => Cardinality(A) = 1
    <3>1. ASSUME NEW o \in A PROVE A = {o}
      BY <1>1 DEF Owned, HeldOnce, Here
    <3> HIDE DEF A
    <3> QED BY <3>1, FS_Singleton
  <2>3. B # {} => Cardinality(B) = 1
    <3>1. ASSUME NEW i \in B PROVE B = {i}
      BY <1>1 DEF Owned, VectorOnce, Here
    <3> HIDE DEF B
    <3> QED BY <3>1, FS_Singleton
  <2>4. Keepers(n) = Cardinality(A) + Cardinality(B) + c
    BY DEF Keepers
  <2> HIDE DEF A, B
  <2> QED BY <2>0, <2>1, <2>2, <2>3, <2>4
<1>3. ~wrong
  BY <1>1 DEF Owned, Here
<1> QED
  BY <1>2, <1>3 DEF NothingLeaks

\* What the client returns is right where its frame is.
LEMMA IInv_ConnectsRight ==
  ASSUME IInv
  PROVE  ConnectsRight
<1>1. SUFFICES ASSUME Connecting("return") PROVE ConnectsRight
  BY DEF ConnectsRight
<1>2. ConnectOK(frame, fds) /\ frame.at = "return" /\ frame \in ConnectFrame
  BY <1>1, CallOf DEF Connecting, IInv, ConnectOK
<1>3. frame.addr = frame.last + 1 => 1 .. frame.addr - 1 = 1 .. frame.last
  <2>1. frame.last \in Nat
    BY <1>2 DEF ConnectFrame
  <2>2. SUFFICES ASSUME frame.addr = frame.last + 1 PROVE 1 .. frame.addr - 1 = 1 .. frame.last
    OBVIOUS
  <2>3. frame.addr - 1 = frame.last
    BY <2>1, <2>2
  <2> QED BY <2>3
<1> QED
  BY <1>2, <1>3, Zenon DEF ConnectsRight, ConnectOK, socket

\* A receive from a state of the invariant is right, and so is a uevent.
LEMMA IInv_ReceivesAreRight ==
  ASSUME IInv
  PROVE  ReceivesAreRight
<1>1. OnlyKernelData
  <2>1. SUFFICES ASSUME Receiving("return") PROVE OnlyKernelData
    BY DEF OnlyKernelData
  <2>2. UeventOK(frame) /\ frame.at = "return"
    BY <2>1, CallOf DEF Receiving, IInv
  <2> QED BY <2>2 DEF OnlyKernelData, UeventOK, Believed
<1>2. ReceivedIsRight
  <2>1. SUFFICES ASSUME Idle, Arrives PROVE ReceivedIsRight
    BY Zenon DEF ReceivedIsRight
  <2>2. AtRest
    BY <2>1, RestsInIdle
  <2>f. \A n, len : Fits(n, len) <=> Fitting(Here, n, len)
    BY DEF Fits, Fitting
  <2>3. ASSUME NEW n \in 0 .. 3, NEW len \in Lengths
        PROVE  LET r == ReceiveFileDescriptorVector(Here, n, len) IN
               /\ r.ok => Len(r.numbers) <= n /\ Refers(r.t, r.numbers) = Carried(len)
               /\ Fits(n, len) => r.ok
    <3> DEFINE r == ReceiveFileDescriptorVector(Here, n, len)
    <3>1. n \in Nat /\ len \in Nat
      BY DEF Lengths
    <3>2. r = ReceiveFileDescriptorVector(Here, n, len)
      OBVIOUS
    <3> HIDE DEF r
    <3>3. /\ r.ok => Len(r.numbers) <= n /\ Refers(r.t, r.numbers) = Carried(len)
          /\ Fitting(Here, n, len) => r.ok
      BY <2>1, <2>2, <3>1, <3>2, ReceiveVector_Owned DEF AtRest
    <3>4. Fits(n, len) => r.ok
      BY <2>f, <3>3
    <3> QED BY <3>2, <3>3, <3>4, Zenon
  <2>4. ASSUME NEW hs \in Arguments, NEW len \in Lengths
        PROVE  LET r == ReceiveFileDescriptors(Here, hs, len)
                   numbers == [i \in DOMAIN hs |-> r.t.held[hs[i]]]
               IN  /\ r.ok /\ IsInjective(hs) => Refers(r.t, numbers) = Carried(len)
                   /\ ~r.ok => \A i \in DOMAIN hs : numbers[i] = None
                   /\ Fits(Len(hs), len) /\ Len(Carried(len)) = Len(hs) => r.ok
    <3> DEFINE r == ReceiveFileDescriptors(Here, hs, len)
               numbers == [i \in DOMAIN hs |-> r.t.held[hs[i]]]
    <3>1. hs \in Seq(Owner) /\ len \in Nat
      BY ArgumentsAreSeqs DEF Lengths
    <3>2. r = ReceiveFileDescriptors(Here, hs, len)
      OBVIOUS
    <3> HIDE DEF r
    <3>3. /\ r.ok /\ IsInjective(hs) => Refers(r.t, numbers) = Carried(len)
          /\ ~r.ok => \A i \in DOMAIN hs : r.t.held[hs[i]] = None
          /\ Fitting(Here, Len(hs), len) /\ Len(Carried(len)) = Len(hs) => r.ok
      <4>1. HandedOut(Here, r, hs, len)
        BY <2>1, <2>2, <3>1, <3>2, Receive_Owned DEF AtRest
      <4> QED BY <4>1 DEF HandedOut
    <3>4. ~r.ok => \A i \in DOMAIN hs : numbers[i] = None
      BY <3>3
    <3>5. Fits(Len(hs), len) /\ Len(Carried(len)) = Len(hs) => r.ok
      BY <2>f, <3>3
    <3>6. r.ok /\ IsInjective(hs) => Refers(r.t, numbers) = Carried(len)
      BY <3>3
    <3> QED BY <3>4, <3>5, <3>6 DEF r
  <2> QED BY <2>3, <2>4, Zenon DEF ReceivedIsRight
<1> QED
  BY <1>1, <1>2 DEF ReceivesAreRight

\* What the calls of file.cpp report is right where their frames are.
LEMMA IInv_TransfersAreWhole ==
  ASSUME IInv
  PROVE  TransfersAreWhole
<1>1. WrittenIsWhole
  <2>1. SUFFICES ASSUME In("WriteStringToFile", "return") PROVE WrittenIsWhole
    BY Zenon DEF WrittenIsWhole
  <2>2. WriteOK(frame) /\ frame.at = "return"
    BY <2>1, FrameOf DEF In
  <2> QED BY <2>2 DEF WrittenIsWhole, WriteOK, Named, Called
<1>2. In("ReadFileToString", "return") /\ frame.result =>
         IF frame.cut THEN Len(frame.content) >= Len(frame.data[frame.inode])
         ELSE frame.content = frame.data[frame.inode]
  BY FrameOf DEF In, ReadOK
<1>3. In("load_file", "return") /\ frame.result =>
         /\ Len(frame.content) = frame.size
         /\ frame.content = SubSeq(frame.data[frame.inode], 1, frame.size)
  BY FrameOf DEF In, LoadOK
<1>4. In("WriteFully", "return") /\ frame.result => frame.data[frame.inode] = Content
  BY FrameOf DEF In, WriteFullyOK
<1>5. In("ReadFully", "return") =>
         /\ frame.result = (Len(frame.got) = frame.count)
         /\ frame.atOffset => frame.got = [i \in DOMAIN frame.got |-> frame.start + i - 1]
         /\ \A i, j \in DOMAIN frame.got : i < j => frame.got[i] < frame.got[j]
  <2>1. SUFFICES ASSUME In("ReadFully", "return")
                 PROVE  /\ frame.result = (Len(frame.got) = frame.count)
                        /\ frame.atOffset => frame.got = [i \in DOMAIN frame.got |-> frame.start + i - 1]
                        /\ \A i, j \in DOMAIN frame.got : i < j => frame.got[i] < frame.got[j]
    OBVIOUS
  <2>2. ReadFullyOK(frame) /\ frame.at = "return" /\ frame \in ReadFullyFrame
    BY <2>1, FrameOf DEF In, ReadFullyOK
  <2>3. frame.got \in Seq(Nat) /\ DOMAIN frame.got = 1 .. Len(frame.got)
    BY <2>2 DEF ReadFullyFrame
  <2>4. frame.result = (Len(frame.got) = frame.count)
    BY <2>2, Zenon DEF ReadFullyOK
  <2>5. frame.atOffset => frame.got = [i \in DOMAIN frame.got |-> frame.start + i - 1]
    <3>1. SUFFICES ASSUME frame.atOffset
                   PROVE  frame.got = [i \in DOMAIN frame.got |-> frame.start + i - 1]
      OBVIOUS
    <3>2. \A i \in 1 .. Len(frame.got) : frame.got[i] = frame.start + i - 1
      BY <2>2, <3>1 DEF ReadFullyOK
    <3> DEFINE g == frame.got
    <3>3. g = [i \in DOMAIN g |-> g[i]]
      BY <2>3
    <3>4. \A i \in DOMAIN g : g[i] = frame.start + i - 1
      BY <2>3, <3>2
    <3> HIDE DEF g
    <3>5. g = [i \in DOMAIN g |-> frame.start + i - 1]
      BY ONLY <3>3, <3>4
    <3> QED BY <3>5 DEF g
  <2>6. \A i, j \in DOMAIN frame.got : i < j => frame.got[i] < frame.got[j]
    BY <2>2, <2>3 DEF ReadFullyOK
  <2> QED BY <2>4, <2>5, <2>6
<1>6. In("RemoveFileIfExists", "return") =>
         IF frame.result THEN frame.name = None
         ELSE frame.name = "dir" \/ frame.failed \/ frame.touched
  BY FrameOf DEF In, RemoveOK
<1>7. In("Readlink", "return") /\ frame.result => frame.text = frame.length
  BY FrameOf DEF In, ReadlinkOK
<1>8. In("TemporaryFile", "return") /\ frame.remove => frame.name = None
  BY FrameOf DEF In, TemporaryFileOK
<1>9. In("TemporaryDir", "return") =>
         IF frame.remove THEN frame.there => frame.failed \/ frame.touched
         ELSE frame.there = frame.made
  BY FrameOf DEF In, TemporaryDirOK
<1> QED
  BY <1>1, <1>2, <1>3, <1>4, <1>5, <1>6, <1>7, <1>8, <1>9
     DEF TransfersAreWhole, ReadIsWhole, NamesAreRight

-----------------------------------------------------------------------------
\* The program without the bounds of Library: a call may begin in every state
\* between two calls, whatever the table holds and however often.
AnySpec == LibraryInit /\ [][AnyNext]_libraryVars

\* IInv holds in every state of the program, without the bounds too.
THEOREM IInvHolds == AnySpec => []IInv
<1>1. LibraryInit => IInv
  BY Init_IInv
<1>2. IInv /\ [AnyNext]_libraryVars => IInv'
  BY AnyNext_Keeps
<1> QED
  BY <1>1, <1>2, PTL DEF AnySpec

\* What the runs check is a part of the program without the bounds.
THEOREM LibraryIsAnySpec == LibrarySpec => AnySpec
<1>1. [LibraryNext]_libraryVars => [AnyNext]_libraryVars
  BY LibraryIsAny
<1> QED
  BY <1>1, PTL DEF LibrarySpec, AnySpec

\* Without the bounds on how often and when a call begins: no descriptor is
\* leaked, closed twice or owned twice (unique_fd.h, sockets.cpp, cmsg.cpp,
\* file.cpp, socket_network_client_unix.cpp).
THEOREM NothingEverLeaks == AnySpec => []NothingLeaks
BY IInvHolds, IInv_NothingLeaks, PTL

\* No call of the library leaks a descriptor, closes one twice or leaves two
\* objects with the same one, on any path of it.
THEOREM LibraryLeaksNothing == LibrarySpec => []NothingLeaks
BY NothingEverLeaks, LibraryIsAnySpec, PTL

\* socket_network_client_timeout: it returns a connected socket, or none, and
\* has then tried every address it was given.
THEOREM LibraryConnectsRight == LibrarySpec => []ConnectsRight
<1>1. IInv => ConnectsRight
  BY IInv_ConnectsRight
<1> QED
  BY <1>1, IInvHolds, LibraryIsAnySpec, PTL

\* Descriptors passed to another process: a receive that succeeds has exactly
\* what was sent in the order it was sent, and one that fails has nothing.
THEOREM LibraryReceivesAreRight == LibrarySpec => []ReceivesAreRight
BY IInv_ReceivesAreRight, IInvHolds, LibraryIsAnySpec, PTL

\* The loops of file.cpp: what is reported written, read, loaded or removed is.
THEOREM LibraryTransfersAreWhole == LibrarySpec => []TransfersAreWhole
BY IInv_TransfersAreWhole, IInvHolds, LibraryIsAnySpec, PTL
=============================================================================
