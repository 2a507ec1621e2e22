---------------------------- MODULE FormatProofs -----------------------------
(* Theorems about the walk of readOptions and about the checksum, for bytes *)
(* of any length and content: the walk is well defined, a reply that is cut *)
(* short is never read as another one, options that the client knows are    *)
(* read to their end; and a receiver accepts the checksum exactly if adding *)
(* the carry brings no second one.                                          *)
EXTENDS DHCPOptions, Checksum, SequenceTheorems, WellFoundedInduction, TLAPS

Result == [ended : BOOLEAN, types : Seq(Nat)]

Positions(b) == 1..(Len(b) + 1)

(* What the walk reads from each position of b.                             *)
Walk(b) == CHOOSE walk : walk = [p \in Positions(b) |-> ReadFrom(b, walk, p)]

-----------------------------------------------------------------------------
(* Recursion over positions.                                                *)

LEMMA LeastNumber ==
    ASSUME NEW T, T \subseteq Nat, T # {}
    PROVE  \E k \in T : \A j \in T : k <= j
<1> DEFINE Less == {ss \in Nat \X Nat : ss[1] < ss[2]}
<1>1. IsWellFoundedOn(Less, Nat)
  BY NatLessThanWellFounded DEF OpToRel
<1>2. \E k \in T : \A j \in T : ~(<<j, k>> \in Less)
  <2> HIDE DEF Less
  <2> QED BY <1>1, WFMin
<1>3. PICK k \in T : \A j \in T : ~(<<j, k>> \in Less)
  BY <1>2
<1>4. ASSUME NEW j \in T PROVE k <= j
  <2>1. k \in Nat /\ j \in Nat
    OBVIOUS
  <2>2. ~(j < k)
    BY <1>3, <2>1
  <2> QED BY <2>1, <2>2
<1> QED BY <1>4

LEMMA InductionFromEnd ==
    ASSUME NEW n \in Nat, NEW S,
           \A p \in 1..n : (\A q \in 1..n : q > p => q \in S) => p \in S
    PROVE  \A p \in 1..n : p \in S
<1> DEFINE T == {k \in Nat : \E p \in 1..n : p = n - k /\ p \notin S}
<1>1. \A p \in 1..n : p \notin S => n - p \in T
  OBVIOUS
<1>2. SUFFICES ASSUME T # {} PROVE FALSE
  BY <1>1
<1>3. PICK k \in T : \A j \in T : k <= j
  <2> HIDE DEF T
  <2>1. T \subseteq Nat
    BY DEF T
  <2> QED BY <1>2, <2>1, LeastNumber
<1>4. PICK p \in 1..n : p = n - k /\ p \notin S
  BY <1>3
<1>5. ASSUME NEW q \in 1..n, q > p PROVE q \in S
  <2> SUFFICES ASSUME q \notin S PROVE FALSE
    OBVIOUS
  <2>1. n - q \in T
    BY <1>1
  <2> HIDE DEF T
  <2>2. k <= n - q
    BY <1>3, <2>1
  <2>3. k \in Nat
    BY DEF T
  <2> QED BY <1>4, <1>5, <2>2, <2>3
<1> QED BY <1>4, <1>5

(* What G gives at each position depends on the later ones alone.           *)
Backwards(n, R, G) ==
    /\ n \in Nat /\ R # {} /\ G \in [1..n -> [[1..n -> R] -> R]]
    /\ \A p \in 1..n : \A f, g \in [1..n -> R] :
         (\A q \in 1..n : q > p => f[q] = g[q]) => G[p][f] = G[p][g]

HasSolution(n, R, G) == \E f \in [1..n -> R] : \A p \in 1..n : f[p] = G[p][f]

LEMMA RecursionFromEnd ==
    ASSUME NEW n, NEW R, NEW G, Backwards(n, R, G)
    PROVE  HasSolution(n, R, G)
<1> USE DEF Backwards, HasSolution
<1> PICK r \in R : TRUE
  OBVIOUS
<1> DEFINE Good(k) == \E f \in [1..n -> R] : \A p \in 1..n : p > k => f[p] = G[p][f]
           T == {k \in Nat : Good(k)}
<1>1. n \in T
  <2>1. [p \in 1..n |-> r] \in [1..n -> R]
    OBVIOUS
  <2>2. \A p \in 1..n : ~(p > n)
    OBVIOUS
  <2> QED BY <2>1, <2>2
<1>2. PICK k \in T : \A j \in T : k <= j
  <2> HIDE DEF T
  <2>1. T \subseteq Nat
    BY DEF T
  <2> QED BY <1>1, <2>1, LeastNumber
<1>3. PICK f \in [1..n -> R] : \A p \in 1..n : p > k => f[p] = G[p][f]
  BY <1>2
<1>4. k \in Nat /\ k <= n
  BY <1>1, <1>2
<1>5. CASE k = 0
  BY <1>3, <1>5
<1>6. CASE k # 0
  <2> DEFINE g == [f EXCEPT ![k] = G[k][f]]
  <2>1. k \in 1..n
    BY <1>4, <1>6
  <2>2. G[k][f] \in R
    BY <2>1
  <2>3. g \in [1..n -> R] /\ g[k] = G[k][f] /\ \A q \in 1..n : q # k => g[q] = f[q]
    BY <2>1, <2>2
  <2> HIDE DEF g
  <2>4. ASSUME NEW p \in 1..n, p > k - 1 PROVE g[p] = G[p][g]
    <3>1. \A q \in 1..n : q > p => f[q] = g[q]
      BY <1>4, <2>3, <2>4
    <3>2. G[p][f] = G[p][g]
      BY <2>3, <3>1
    <3> QED BY <1>3, <1>4, <2>3, <2>4, <3>2
  <2>5. k - 1 \in T
    BY <1>4, <1>6, <2>3, <2>4
  <2> HIDE DEF T
  <2>6. k <= k - 1
    BY <1>2, <2>5
  <2> QED BY <1>4, <2>6
<1> QED BY <1>5, <1>6

-----------------------------------------------------------------------------
(* The walk is well defined.                                                *)

LEMMA Skips == ASSUME NEW len \in Nat PROVE Skipped(len) \in Nat
BY DEF Skipped

(* A result with one more message type.                                     *)
LEMMA MoreTypes ==
    ASSUME NEW r \in Result, NEW k \in Nat
    PROVE  /\ WithType(k, r) \in Result
           /\ WithType(k, r).ended = r.ended
           /\ WithType(k, r).types = <<k>> \o r.types
<1>1. r.ended \in BOOLEAN /\ r.types \in Seq(Nat)
  BY DEF Result
<1>2. <<k>> \o r.types \in Seq(Nat)
  BY <1>1
<1>3. WithType(k, r) \in Result
  BY <1>2 DEF Result, WithType
<1>4. WithType(k, r).ended = r.ended /\ WithType(k, r).types = <<k>> \o r.types
  BY DEF Result, WithType
<1> QED BY <1>3, <1>4

LEMMA Results == Underflow \in Result /\ [ended |-> TRUE, types |-> <<>>] \in Result
<1>1. <<>> \in Seq(Nat)
  OBVIOUS
<1> QED BY <1>1 DEF Underflow, Result

(* What is read at p depends on what is read later, and is a result.        *)
LEMMA ReadFromLater ==
    ASSUME NEW b \in Seq(Nat), NEW p \in Positions(b),
           NEW f \in [Positions(b) -> Result], NEW g,
           \A q \in Positions(b) : q > p => f[q] = g[q]
    PROVE  ReadFrom(b, f, p) = ReadFrom(b, g, p) /\ ReadFrom(b, f, p) \in Result
<1>1. Len(b) \in Nat /\ p \in Nat /\ p >= 1 /\ p <= Len(b) + 1
  BY DEF Positions
<1>2. \A q \in 1..Len(b) : b[q] \in Nat
  OBVIOUS
<1>3. ASSUME NEW q \in Nat, q > p, q <= Len(b) + 1 PROVE f[q] = g[q] /\ f[q] \in Result
  BY <1>1, <1>3 DEF Positions
<1>4. CASE p > Len(b) \/ b[p] = END
  BY <1>4, Results DEF ReadFrom
<1>5. CASE ~(p > Len(b)) /\ b[p] # END /\ b[p] = MSG_TYPE
  <2>1. CASE p + 2 > Len(b)
    BY <1>5, <2>1, Results DEF ReadFrom
  <2>2. CASE ~(p + 2 > Len(b))
    <3>1. f[p + 3] = g[p + 3] /\ f[p + 3] \in Result /\ b[p + 2] \in Nat
      BY <1>1, <1>2, <1>3, <2>2
    <3> QED BY <1>5, <2>2, <3>1, MoreTypes DEF ReadFrom
  <2> QED BY <2>1, <2>2
<1>6. CASE ~(p > Len(b)) /\ b[p] # END /\ b[p] # MSG_TYPE /\ b[p] \in Timers
  <2>1. CASE p + 5 > Len(b)
    BY <1>6, <2>1, Results DEF ReadFrom
  <2>2. CASE ~(p + 5 > Len(b))
    <3>1. f[p + 6] = g[p + 6] /\ f[p + 6] \in Result
      BY <1>1, <1>3, <2>2
    <3> QED BY <1>6, <2>2, <3>1 DEF ReadFrom
  <2> QED BY <2>1, <2>2
<1>7. CASE ~(p > Len(b)) /\ b[p] # END /\ b[p] # MSG_TYPE /\ b[p] \notin Timers /\ b[p] \in Sized
  <2>1. CASE p + 1 > Len(b) \/ p + 1 + Skipped(b[p + 1]) > Len(b)
    BY <1>7, <2>1, Results DEF ReadFrom
  <2>2. CASE ~(p + 1 > Len(b) \/ p + 1 + Skipped(b[p + 1]) > Len(b))
    <3> DEFINE q == p + 2 + Skipped(b[p + 1])
    <3>1. Skipped(b[p + 1]) \in Nat
      <4>1. p + 1 \in 1..Len(b)
        BY <1>1, <2>2
      <4> QED BY <1>2, <4>1, Skips
    <3>2. q \in Nat /\ q > p /\ q <= Len(b) + 1
      BY <1>1, <2>2, <3>1
    <3>3. f[q] = g[q] /\ f[q] \in Result
      BY <1>3, <3>2
    <3> QED BY <1>7, <2>2, <3>3 DEF ReadFrom
  <2> QED BY <2>1, <2>2
<1>8. CASE ~(p > Len(b)) /\ b[p] # END /\ b[p] # MSG_TYPE /\ b[p] \notin Timers /\ b[p] \notin Sized
  <2>1. f[p + 1] = g[p + 1] /\ f[p + 1] \in Result
    BY <1>1, <1>3, <1>8
  <2> QED BY <1>8, <2>1 DEF ReadFrom
<1> QED BY <1>4, <1>5, <1>6, <1>7, <1>8

LEMMA WalkIsDefined ==
    ASSUME NEW b \in Seq(Nat)
    PROVE  /\ Walk(b) \in [Positions(b) -> Result]
           /\ \A p \in Positions(b) : Walk(b)[p] = ReadFrom(b, Walk(b), p)
           /\ ReadOptions(b) = Walk(b)[1]
<1> DEFINE n == Len(b) + 1
           F == [1..n -> Result]
           G == [p \in 1..n |-> [f \in F |-> ReadFrom(b, f, p)]]
           w == Walk(b)
<1>1. n \in Nat /\ 1..n = Positions(b)
  BY DEF Positions
<1>2. ASSUME NEW f \in F, NEW p \in 1..n PROVE ReadFrom(b, f, p) \in Result
  BY <1>1, <1>2, ReadFromLater
<1>3. G \in [1..n -> [F -> Result]]
  BY <1>2
<1>4. \A f \in F, p \in 1..n : G[p][f] = ReadFrom(b, f, p)
  OBVIOUS
<1> HIDE DEF n, G, w
<1>5. ASSUME NEW p \in 1..n, NEW f \in F, NEW g \in F, \A q \in 1..n : q > p => f[q] = g[q]
      PROVE  G[p][f] = G[p][g]
  <2>1. ReadFrom(b, f, p) = ReadFrom(b, g, p)
    BY <1>1, <1>5, ReadFromLater
  <2> QED BY <1>4, <2>1
<1>6. \E f \in F : \A p \in 1..n : f[p] = G[p][f]
  <2>1. Underflow \in Result
    BY Results
  <2>2. Backwards(n, Result, G)
    BY <1>1, <1>3, <1>5, <2>1 DEF Backwards
  <2>3. HasSolution(n, Result, G)
    BY <2>2, RecursionFromEnd
  <2> QED BY <2>3 DEF HasSolution
<1>7. PICK f \in F : \A p \in 1..n : f[p] = ReadFrom(b, f, p)
  BY <1>4, <1>6
<1>8. f = [p \in Positions(b) |-> ReadFrom(b, f, p)]
  BY <1>1, <1>7
<1>9. w = [p \in Positions(b) |-> ReadFrom(b, w, p)]
  BY <1>8 DEF Walk, w
<1>10. ReadOptions(b) = w[1]
  BY DEF ReadOptions, Walk, Positions, w
(* There is no other such function.                                         *)
<1>11. \A p \in 1..n : w[p] = f[p]
  <2> DEFINE S == {p \in 1..n : w[p] = f[p]}
  <2>1. ASSUME NEW p \in 1..n, \A q \in 1..n : q > p => q \in S PROVE p \in S
    <3>1. p \in Positions(b) /\ f \in [Positions(b) -> Result]
      BY <1>1
    <3>2. \A q \in Positions(b) : q > p => f[q] = w[q]
      BY <1>1, <2>1
    <3>3. ReadFrom(b, f, p) = ReadFrom(b, w, p)
      BY <3>1, <3>2, ReadFromLater
    <3> QED BY <1>1, <1>7, <1>9, <3>3
  <2> HIDE DEF S
  <2>2. \A p \in 1..n : p \in S
    BY <1>1, <2>1, InductionFromEnd
  <2> QED BY <2>2 DEF S
<1>12. w = f
  BY <1>1, <1>9, <1>11
<1> QED BY <1>1, <1>7, <1>10, <1>12 DEF w

(* The parts of a result that the theorems speak of.                        *)
LEMMA WalkResults ==
    ASSUME NEW b \in Seq(Nat), NEW p \in Positions(b)
    PROVE  Walk(b)[p] \in Result
BY WalkIsDefined

THEOREM ReadIsDefined == ASSUME NEW b \in Seq(Nat) PROVE ReadOptions(b) \in Result
<1>1. 1 \in Positions(b)
  BY DEF Positions
<1> QED BY <1>1, WalkIsDefined

-----------------------------------------------------------------------------
(* Replies that are cut short.                                              *)

Beginning(c, b) == Len(c) <= Len(b) /\ \A i \in 1..Len(c) : c[i] = b[i]

(* r was read of the beginning of what s was read of.                       *)
Agrees(r, s) ==
    /\ \E later \in Seq(Nat) : s.types = r.types \o later
    /\ r.ended => r = s

LEMMA AgreeUnderflow == ASSUME NEW s \in Result PROVE Agrees(Underflow, s)
<1>1. s.types \in Seq(Nat) /\ s.types = <<>> \o s.types
  BY DEF Result
<1>2. Underflow.types = <<>> /\ Underflow.ended = FALSE
  BY DEF Underflow
<1> QED BY <1>1, <1>2 DEF Agrees

LEMMA AgreeSame == ASSUME NEW s \in Result PROVE Agrees(s, s)
<1>1. s.types \in Seq(Nat) /\ <<>> \in Seq(Nat)
  BY DEF Result
<1>2. s.types = s.types \o <<>>
  BY <1>1
<1> QED BY <1>1, <1>2 DEF Agrees

LEMMA Joined ==
    ASSUME NEW x \in Seq(Nat), NEW y \in Seq(Nat), NEW z \in Seq(Nat)
    PROVE  x \o (y \o z) = (x \o y) \o z
OBVIOUS

LEMMA AgreeMore ==
    ASSUME NEW r \in Result, NEW s \in Result, NEW k \in Nat, Agrees(r, s)
    PROVE  Agrees(WithType(k, r), WithType(k, s))
<1>1. PICK later \in Seq(Nat) : s.types = r.types \o later
  BY DEF Agrees
<1>2. r.types \in Seq(Nat) /\ <<k>> \in Seq(Nat)
  BY DEF Result
<1>3. <<k>> \o s.types = (<<k>> \o r.types) \o later
  <2> DEFINE t == <<k>>
  <2>1. t \in Seq(Nat)
    OBVIOUS
  <2> HIDE DEF t
  <2>2. t \o (r.types \o later) = (t \o r.types) \o later
    BY <1>2, <2>1, Joined, Zenon
  <2> QED BY <1>1, <2>2 DEF t
<1> QED BY <1>1, <1>3, MoreTypes DEF Agrees

(* In a beginning the walk does what it does in the whole, or runs out: x   *)
(* and y are what is read there from p, f and g what is read from later     *)
(* positions.                                                               *)
SameChoice(c, p, x, y, f, g) ==
    \/ x = Underflow
    \/ x = y
    \/ \E q \in Positions(c) : q > p /\ x = f[q] /\ y = g[q]
    \/ \E q \in Positions(c) : \E k \in Nat :
         q > p /\ x = WithType(k, f[q]) /\ y = WithType(k, g[q])

LEMMA SameStep ==
    ASSUME NEW b \in Seq(Nat), NEW c \in Seq(Nat), Beginning(c, b),
           NEW p \in Positions(c), NEW f, NEW g
    PROVE  SameChoice(c, p, ReadFrom(c, f, p), ReadFrom(b, g, p), f, g)
<1> USE DEF SameChoice
<1>1. /\ Len(c) \in Nat /\ Len(b) \in Nat /\ Len(c) <= Len(b)
      /\ p \in Nat /\ p >= 1 /\ p <= Len(c) + 1
  BY DEF Beginning, Positions
<1>2. ASSUME NEW i \in Nat, i >= 1, ~(i > Len(c))
      PROVE  ~(i > Len(b)) /\ c[i] = b[i] /\ c[i] \in Nat
  <2>1. i \in 1..Len(c)
    BY <1>1, <1>2
  <2> QED BY <1>1, <2>1 DEF Beginning
<1>3. ASSUME NEW q \in Nat, q > p, q <= Len(c) + 1 PROVE q \in Positions(c)
  BY <1>1, <1>3 DEF Positions
<1>4. CASE p > Len(c)
  BY <1>4 DEF ReadFrom
<1>5. CASE ~(p > Len(c))
  <2>1. ~(p > Len(b)) /\ b[p] = c[p]
    BY <1>1, <1>2, <1>5
  <2>2. CASE c[p] = END
    <3>1. /\ ReadFrom(c, f, p) = [ended |-> TRUE, types |-> <<>>]
          /\ ReadFrom(b, g, p) = [ended |-> TRUE, types |-> <<>>]
      BY <1>5, <2>1, <2>2 DEF ReadFrom
    <3> QED BY <3>1, Results
  <2>3. CASE c[p] # END /\ c[p] = MSG_TYPE
    <3>1. CASE p + 2 > Len(c)
      BY <1>5, <2>3, <3>1 DEF ReadFrom
    <3>2. CASE ~(p + 2 > Len(c))
      <4>1. ~(p + 2 > Len(b)) /\ b[p + 2] = c[p + 2] /\ c[p + 2] \in Nat /\ p + 3 \in Positions(c)
        <5>1. p + 2 \in Nat /\ p + 2 >= 1 /\ p + 3 \in Nat /\ p + 3 > p /\ p + 3 <= Len(c) + 1
          BY <1>1, <3>2
        <5> QED BY <1>2, <1>3, <3>2, <5>1
      <4>2. /\ ReadFrom(c, f, p) = WithType(c[p + 2], f[p + 3])
            /\ ReadFrom(b, g, p) = WithType(c[p + 2], g[p + 3])
        BY <1>5, <2>1, <2>3, <3>2, <4>1, Zenon DEF ReadFrom
      <4>3. p + 3 > p
        BY <1>1
      <4> QED BY <4>1, <4>2, <4>3, Zenon
    <3> QED BY <3>1, <3>2
  <2>4. CASE c[p] # END /\ c[p] # MSG_TYPE /\ c[p] \in Timers
    <3>1. CASE p + 5 > Len(c)
      BY <1>5, <2>4, <3>1 DEF ReadFrom
    <3>2. CASE ~(p + 5 > Len(c))
      <4>1. ~(p + 5 > Len(b)) /\ p + 6 \in Positions(c) /\ p + 6 > p
        BY <1>1, <1>3, <3>2
      <4>2. ReadFrom(c, f, p) = f[p + 6] /\ ReadFrom(b, g, p) = g[p + 6]
        BY <1>5, <2>1, <2>4, <3>2, <4>1, Zenon DEF ReadFrom
      <4> QED BY <4>1, <4>2
    <3> QED BY <3>1, <3>2
  <2>5. CASE c[p] # END /\ c[p] # MSG_TYPE /\ c[p] \notin Timers /\ c[p] \in Sized
    <3> DEFINE len == Skipped(c[p + 1])
    <3>1. CASE p + 1 > Len(c) \/ p + 1 + len > Len(c)
      BY <1>5, <2>5, <3>1, Zenon DEF ReadFrom
    <3>2. CASE ~(p + 1 > Len(c)) /\ ~(p + 1 + len > Len(c))
      <4>1. ~(p + 1 > Len(b)) /\ b[p + 1] = c[p + 1] /\ c[p + 1] \in Nat
        BY <1>1, <1>2, <3>2
      <4>2. len \in Nat
        BY <4>1, Skips
      <4> HIDE DEF len
      <4>3. ~(p + 1 + len > Len(b)) /\ p + 2 + len \in Positions(c) /\ p + 2 + len > p
        BY <1>1, <1>3, <3>2, <4>2
      <4>4. ReadFrom(c, f, p) = f[p + 2 + len] /\ ReadFrom(b, g, p) = g[p + 2 + len]
        BY <1>5, <2>1, <2>5, <3>2, <4>1, <4>3, Zenon DEF ReadFrom, len
      <4> QED BY <4>3, <4>4
    <3> QED BY <3>1, <3>2
  <2>6. CASE c[p] # END /\ c[p] # MSG_TYPE /\ c[p] \notin Timers /\ c[p] \notin Sized
    <3>1. p + 1 \in Positions(c) /\ p + 1 > p
      BY <1>1, <1>3, <1>5
    <3>2. ReadFrom(c, f, p) = f[p + 1] /\ ReadFrom(b, g, p) = g[p + 1]
      BY <1>5, <2>1, <2>6, Zenon DEF ReadFrom
    <3> QED BY <3>1, <3>2
  <2> QED BY <2>2, <2>3, <2>4, <2>5, <2>6
<1> QED BY <1>4, <1>5

LEMMA CutAgrees ==
    ASSUME NEW b \in Seq(Nat), NEW c \in Seq(Nat), Beginning(c, b)
    PROVE  \A p \in Positions(c) : Agrees(Walk(c)[p], Walk(b)[p])
<1> DEFINE n == Len(c) + 1
           u == Walk(c)
           v == Walk(b)
           S == {p \in 1..n : Agrees(u[p], v[p])}
<1>1. Positions(c) = 1..n /\ Positions(c) \subseteq Positions(b) /\ n \in Nat
  BY DEF Positions, Beginning
<1>2. \A p \in Positions(c) :
        /\ u[p] = ReadFrom(c, u, p) /\ u[p] \in Result
        /\ v[p] = ReadFrom(b, v, p) /\ v[p] \in Result
  BY <1>1, WalkIsDefined
<1> HIDE DEF n, u, v
<1>3. ASSUME NEW p \in 1..n, \A q \in 1..n : q > p => q \in S
      PROVE  p \in S
  <2>1. u[p] = ReadFrom(c, u, p) /\ v[p] = ReadFrom(b, v, p) /\ v[p] \in Result
    BY <1>1, <1>2
  <2>2. ASSUME NEW q \in Positions(c), q > p
        PROVE  Agrees(u[q], v[q]) /\ u[q] \in Result /\ v[q] \in Result
    BY <1>1, <1>2, <1>3, <2>2
  <2>3. Agrees(u[p], v[p])
    <3>1. CASE u[p] = Underflow
      BY <2>1, <3>1, AgreeUnderflow
    <3>2. CASE u[p] = v[p]
      BY <2>1, <3>2, AgreeSame
    <3>3. CASE \E q \in Positions(c) : q > p /\ u[p] = u[q] /\ v[p] = v[q]
      BY <2>2, <3>3
    <3>4. CASE \E q \in Positions(c) : \E k \in Nat :
                 q > p /\ u[p] = WithType(k, u[q]) /\ v[p] = WithType(k, v[q])
      BY <2>2, <3>4, AgreeMore
    <3>5. SameChoice(c, p, u[p], v[p], u, v)
      <4>1. p \in Positions(c)
        BY <1>1
      <4> QED BY <2>1, <4>1, SameStep
    <3> QED BY <3>1, <3>2, <3>3, <3>4, <3>5 DEF SameChoice
  <2> QED BY <2>3
<1>4. \A p \in 1..n : p \in S
  <2> HIDE DEF S
  <2> QED BY <1>1, <1>3, InductionFromEnd
<1> QED BY <1>1, <1>4 DEF u, v

(* Of a reply that is cut short readOptions reads a beginning of what it    *)
(* would have read; if it comes to an end all the same, nothing is missing. *)
THEOREM CutReply ==
    ASSUME NEW b \in Seq(Nat), NEW c \in Seq(Nat), Beginning(c, b)
    PROVE  /\ \E later \in Seq(Nat) : ReadOptions(b).types = ReadOptions(c).types \o later
           /\ ReadOptions(c).ended => ReadOptions(c) = ReadOptions(b)
<1>1. 1 \in Positions(c)
  BY DEF Positions
<1>2. Agrees(ReadOptions(c), ReadOptions(b))
  BY <1>1, CutAgrees, WalkIsDefined
<1> QED BY <1>2 DEF Agrees

-----------------------------------------------------------------------------
(* Replies made of options the client knows.                                *)

PAD == 0

(* P holds where options of b start: each is a pad byte, the end, or a code *)
(* of the switch with the length its value has, behind which the next one   *)
(* starts.                                                                  *)
OptionStarts(b, P) ==
    /\ P \subseteq 1..Len(b)
    /\ \A p \in P :
         \/ b[p] = END
         \/ b[p] = PAD /\ p + 1 \in P
         \/ b[p] = MSG_TYPE /\ b[p + 1] = 1 /\ p + 3 \in P
         \/ b[p] \in Timers /\ b[p + 1] = 4 /\ p + 6 \in P
         \/ b[p] \in Sized /\ p < Len(b) /\ b[p + 1] < 128 /\ p + 2 + b[p + 1] \in P

(* c is a beginning of b.  At the start of an option the walk over c goes   *)
(* on to the start of the next, comes to the end, or runs out of bytes; the *)
(* last only if c is not the whole.                                         *)
KnownChoice(b, c, P, p, x, f) ==
    \/ b[p] = END /\ p <= Len(c) /\ x = [ended |-> TRUE, types |-> <<>>]
    \/ Len(c) # Len(b) /\ x = Underflow
    \/ \E q \in P \cap Positions(c) :
         /\ q > p
         /\ \/ b[p] # MSG_TYPE /\ x = f[q]
            \/ b[p] = MSG_TYPE /\ x = WithType(b[p + 2], f[q]) /\ b[p + 2] \in Nat

LEMMA KnownStep ==
    ASSUME NEW b \in Seq(Nat), NEW c \in Seq(Nat), Beginning(c, b),
           NEW P, OptionStarts(b, P), NEW p \in P \cap Positions(c), NEW f
    PROVE  KnownChoice(b, c, P, p, ReadFrom(c, f, p), f)
<1> USE DEF KnownChoice
<1>1. /\ Len(c) \in Nat /\ Len(b) \in Nat /\ Len(c) <= Len(b)
      /\ p \in Nat /\ p >= 1 /\ p <= Len(c) + 1 /\ p <= Len(b)
  BY DEF Beginning, Positions, OptionStarts
<1>2. ASSUME NEW i \in Nat, i >= 1, ~(i > Len(c)) PROVE c[i] = b[i]
  <2>1. i \in 1..Len(c)
    BY <1>1, <1>2
  <2> QED BY <1>1, <2>1 DEF Beginning
<1>3. ASSUME NEW q \in P, q <= Len(c) + 1
      PROVE  q \in P \cap Positions(c)
  <2>1. q \in 1..Len(b)
    BY DEF OptionStarts
  <2> QED BY <1>1, <1>3, <2>1 DEF Positions
<1>4. \A i \in 1..Len(b) : b[i] \in Nat
  OBVIOUS
<1>5. \A q \in P : q \in Nat /\ q <= Len(b)
  BY <1>1 DEF OptionStarts
<1>6. CASE p > Len(c)
  <2>1. ReadFrom(c, f, p) = Underflow
    BY <1>6 DEF ReadFrom
  <2>2. Len(c) # Len(b)
    BY <1>1, <1>6
  <2> QED BY <2>1, <2>2
<1>7. CASE ~(p > Len(c))
  <2>1. c[p] = b[p]
    BY <1>1, <1>2, <1>7
  <2>2. CASE b[p] = END
    <3>1. p <= Len(c)
      BY <1>1, <1>7
    <3>2. ReadFrom(c, f, p) = [ended |-> TRUE, types |-> <<>>]
      BY <1>7, <2>1, <2>2 DEF ReadFrom
    <3> QED BY <2>2, <3>1, <3>2
  <2>3. CASE b[p] = PAD /\ p + 1 \in P
    <3>1. b[p] # END /\ b[p] # MSG_TYPE /\ b[p] \notin Timers /\ b[p] \notin Sized
      BY <2>3 DEF PAD, END, MSG_TYPE, Timers, Sized
    <3>2. ReadFrom(c, f, p) = f[p + 1]
      BY <1>7, <2>1, <3>1, Zenon DEF ReadFrom
    <3>3. p + 1 \in P \cap Positions(c) /\ p + 1 > p
      BY <1>1, <1>3, <1>7, <2>3
    <3> QED BY <3>1, <3>2, <3>3
  <2>4. CASE b[p] = MSG_TYPE /\ p + 3 \in P
    <3>1. b[p] # END
      BY <2>4 DEF END, MSG_TYPE
    <3>2. p + 3 <= Len(b)
      BY <1>5, <2>4
    <3>3. CASE p + 2 > Len(c)
      <4>1. ReadFrom(c, f, p) = Underflow
        BY <1>7, <2>1, <2>4, <3>1, <3>3, Zenon DEF ReadFrom
      <4>2. Len(c) # Len(b)
        BY <1>1, <3>2, <3>3
      <4> QED BY <4>1, <4>2
    <3>4. CASE ~(p + 2 > Len(c))
      <4>1. c[p + 2] = b[p + 2] /\ b[p + 2] \in Nat
        BY <1>1, <1>2, <1>4, <3>2, <3>4
      <4>2. ReadFrom(c, f, p) = WithType(b[p + 2], f[p + 3])
        BY <1>7, <2>1, <2>4, <3>1, <3>4, <4>1, Zenon DEF ReadFrom
      <4>3. p + 3 \in P \cap Positions(c) /\ p + 3 > p
        BY <1>1, <1>3, <2>4, <3>4
      <4> QED BY <2>4, <4>1, <4>2, <4>3
    <3> QED BY <3>3, <3>4
  <2>5. CASE b[p] \in Timers /\ p + 6 \in P
    <3>1. b[p] # END /\ b[p] # MSG_TYPE
      BY <2>5 DEF END, MSG_TYPE, Timers
    <3>2. p + 6 <= Len(b)
      BY <1>5, <2>5
    <3>3. CASE p + 5 > Len(c)
      <4>1. ReadFrom(c, f, p) = Underflow
        BY <1>7, <2>1, <2>5, <3>1, <3>3, Zenon DEF ReadFrom
      <4>2. Len(c) # Len(b)
        BY <1>1, <3>2, <3>3
      <4> QED BY <4>1, <4>2
    <3>4. CASE ~(p + 5 > Len(c))
      <4>1. ReadFrom(c, f, p) = f[p + 6]
        BY <1>7, <2>1, <2>5, <3>1, <3>4, Zenon DEF ReadFrom
      <4>2. p + 6 \in P \cap Positions(c) /\ p + 6 > p
        BY <1>1, <1>3, <2>5, <3>4
      <4> QED BY <3>1, <4>1, <4>2
    <3> QED BY <3>3, <3>4
  <2>6. CASE b[p] \in Sized /\ p < Len(b) /\ b[p + 1] < 128 /\ p + 2 + b[p + 1] \in P
    <3>0. b[p] \in Sized
      BY <2>6
    <3>1. b[p] # END /\ b[p] # MSG_TYPE /\ b[p] \notin Timers
      BY <3>0 DEF END, MSG_TYPE, Timers, Sized
    <3> DEFINE len == b[p + 1]
    <3>2. len < 128 /\ p + 2 + len \in P
      BY <2>6
    <3>3. CASE p + 1 > Len(c)
      <4>1. ReadFrom(c, f, p) = Underflow
        BY <1>7, <2>1, <2>6, <3>1, <3>3, Zenon DEF ReadFrom
      <4>2. Len(c) # Len(b)
        BY <1>1, <2>6, <3>3
      <4> QED BY <4>1, <4>2
    <3>4. CASE ~(p + 1 > Len(c))
      <4>1. c[p + 1] = len /\ len \in Nat /\ Skipped(len) = len
        <5>1. p + 1 \in 1..Len(b) /\ p + 1 >= 1
          BY <1>1, <3>4
        <5> QED BY <1>2, <1>4, <3>2, <3>4, <5>1 DEF Skipped
      <4>2. p + 2 + len <= Len(b)
        BY <1>5, <3>2
      <4> HIDE DEF len
      <4>3. CASE p + 1 + len > Len(c)
        <5>1. ReadFrom(c, f, p) = Underflow
          BY <1>7, <2>1, <2>6, <3>1, <3>4, <4>1, <4>3, Zenon DEF ReadFrom
        <5>2. Len(c) # Len(b)
          BY <1>1, <4>1, <4>2, <4>3
        <5> QED BY <5>1, <5>2
      <4>4. CASE ~(p + 1 + len > Len(c))
        <5>1. ReadFrom(c, f, p) = f[p + 2 + len]
          BY <1>7, <2>1, <2>6, <3>1, <3>4, <4>1, <4>4, Zenon DEF ReadFrom
        <5>2. p + 2 + len \in P \cap Positions(c) /\ p + 2 + len > p
          BY <1>1, <1>3, <3>2, <4>1, <4>4
        <5> QED BY <3>1, <5>1, <5>2
      <4> QED BY <4>3, <4>4
    <3> QED BY <3>3, <3>4
  <2> QED BY <2>2, <2>3, <2>4, <2>5, <2>6 DEF OptionStarts
<1> QED BY <1>6, <1>7

(* R holds of what is read from an option if it holds of what is read from  *)
(* the later ones.                                                          *)
Kept(b, c, P, R) ==
    /\ R \subseteq Result
    /\ \A p \in P \cap Positions(c) : \A x \in Result :
         (/\ KnownChoice(b, c, P, p, x, Walk(c))
          /\ \A q \in P \cap Positions(c) : q > p => Walk(c)[q] \in R) => x \in R

LEMMA KnownInduction ==
    ASSUME NEW b \in Seq(Nat), NEW c \in Seq(Nat), Beginning(c, b),
           NEW P, OptionStarts(b, P), NEW R, Kept(b, c, P, R)
    PROVE  \A p \in P \cap Positions(c) : Walk(c)[p] \in R
<1> DEFINE n == Len(c) + 1
           u == Walk(c)
           S == {p \in 1..n : p \in P => u[p] \in R}
<1>1. Positions(c) = 1..n /\ n \in Nat
  BY DEF Positions
<1>2. \A p \in Positions(c) : u[p] = ReadFrom(c, u, p) /\ u[p] \in Result
  BY WalkIsDefined
<1>3. \A p \in P \cap Positions(c) : KnownChoice(b, c, P, p, u[p], u)
  <2>1. \A p \in P \cap Positions(c) : KnownChoice(b, c, P, p, ReadFrom(c, u, p), u)
    BY KnownStep
  <2> QED BY <1>2, <2>1, Zenon
<1> HIDE DEF n, u
<1>4. ASSUME NEW p \in 1..n, \A q \in 1..n : q > p => q \in S
      PROVE  p \in S
  BY <1>1, <1>2, <1>3, <1>4 DEF u, Kept
<1>5. \A p \in 1..n : p \in S
  <2> HIDE DEF S
  <2> QED BY <1>1, <1>4, InductionFromEnd
<1> QED BY <1>1, <1>5 DEF u

Done == [ended |-> TRUE, types |-> <<>>]

(* Known options are read to the end; where none of them is a message type, *)
(* none is read.                                                            *)
LEMMA KnownRead ==
    ASSUME NEW b \in Seq(Nat), NEW P, OptionStarts(b, P), NEW p \in P
    PROVE  /\ Walk(b)[p].ended
           /\ (\A q \in P : b[q] # MSG_TYPE) => Walk(b)[p] = Done
<1>1. Beginning(b, b) /\ p \in P \cap Positions(b)
  BY DEF Beginning, OptionStarts, Positions
<1>2. Done \in Result /\ Done.ended
  BY Results DEF Done
<1>3. Walk(b)[p].ended
  <2> DEFINE R == {r \in Result : r.ended}
  <2>1. ASSUME NEW o \in P \cap Positions(b), NEW x \in Result,
               KnownChoice(b, b, P, o, x, Walk(b)),
               \A q \in P \cap Positions(b) : q > o => Walk(b)[q] \in R
        PROVE  x \in R
    <3>1. CASE x = Done
      BY <1>2, <3>1
    <3>2. CASE \E q \in P \cap Positions(b) : q > o /\ x = Walk(b)[q]
      BY <2>1, <3>2
    <3>3. CASE \E q \in P \cap Positions(b) :
                 q > o /\ x = WithType(b[o + 2], Walk(b)[q]) /\ b[o + 2] \in Nat
      <4>1. PICK q \in P \cap Positions(b) :
              q > o /\ x = WithType(b[o + 2], Walk(b)[q]) /\ b[o + 2] \in Nat
        BY <3>3
      <4>2. Walk(b)[q] \in Result /\ Walk(b)[q].ended
        BY <2>1, <4>1
      <4>3. WithType(b[o + 2], Walk(b)[q]).ended
        BY <4>1, <4>2, MoreTypes
      <4> QED BY <4>1, <4>3
    <3> QED BY <2>1, <3>1, <3>2, <3>3, Zenon DEF KnownChoice, Done
  <2>2. Kept(b, b, P, R)
    BY <2>1 DEF Kept
  <2> HIDE DEF R
  <2>3. Walk(b)[p] \in R
    BY <1>1, <2>2, KnownInduction
  <2> QED BY <2>3 DEF R
<1>4. ASSUME \A q \in P : b[q] # MSG_TYPE
      PROVE  Walk(b)[p] = Done
  <2> DEFINE R == {Done}
  <2>1. ASSUME NEW o \in P \cap Positions(b), NEW x \in Result,
               KnownChoice(b, b, P, o, x, Walk(b)),
               \A q \in P \cap Positions(b) : q > o => Walk(b)[q] \in R
        PROVE  x \in R
    BY <1>4, <2>1 DEF KnownChoice, Done
  <2>2. Kept(b, b, P, R)
    BY <1>2, <2>1 DEF Kept
  <2> HIDE DEF R
  <2>3. Walk(b)[p] \in R
    BY <1>1, <2>2, KnownInduction
  <2> QED BY <2>3 DEF R
<1> QED BY <1>3, <1>4

(* A reply made of options that the client knows, up to an end option, is   *)
(* read to that end: handleData goes on to its table.                       *)
THEOREM KnownReplyIsRead ==
    ASSUME NEW b \in Seq(Nat), NEW P, OptionStarts(b, P), 1 \in P
    PROVE  ReadOptions(b).ended
<1>1. ReadOptions(b) = Walk(b)[1]
  BY WalkIsDefined
<1> QED BY <1>1, KnownRead

(* Cut short before its end option, such a reply is never read to an end:   *)
(* readOptions throws, at whatever byte the cut falls.                      *)
THEOREM CutReplyIsNoticed ==
    ASSUME NEW b \in Seq(Nat), NEW P, OptionStarts(b, P), 1 \in P,
           NEW c \in Seq(Nat), Beginning(c, b),
           \A p \in P : b[p] = END => p > Len(c)
    PROVE  ~ReadOptions(c).ended
<1> DEFINE R == {r \in Result : ~r.ended}
<1>1. ReadOptions(c) = Walk(c)[1] /\ 1 \in P \cap Positions(c)
  BY WalkIsDefined DEF Positions
<1>2. ASSUME NEW p \in P \cap Positions(c), NEW x \in Result,
             KnownChoice(b, c, P, p, x, Walk(c)),
             \A q \in P \cap Positions(c) : q > p => Walk(c)[q] \in R
      PROVE  x \in R
  <2>1. ~(p <= Len(c)) \/ b[p] # END
    <3>1. p \in Nat /\ Len(c) \in Nat
      BY DEF Positions
    <3> QED BY <3>1
  <2>2. CASE x = Underflow
    BY <1>2, <2>2 DEF Underflow
  <2>3. CASE \E q \in P \cap Positions(c) : q > p /\ x = Walk(c)[q]
    BY <1>2, <2>3
  <2>4. CASE \E q \in P \cap Positions(c) :
               q > p /\ x = WithType(b[p + 2], Walk(c)[q]) /\ b[p + 2] \in Nat
    <3>1. PICK q \in P \cap Positions(c) :
            q > p /\ x = WithType(b[p + 2], Walk(c)[q]) /\ b[p + 2] \in Nat
      BY <2>4
    <3>2. Walk(c)[q] \in Result /\ ~Walk(c)[q].ended
      BY <1>2, <3>1
    <3>3. ~WithType(b[p + 2], Walk(c)[q]).ended
      BY <3>1, <3>2, MoreTypes
    <3> QED BY <3>1, <3>3
  <2> QED BY <1>2, <2>1, <2>2, <2>3, <2>4, Zenon DEF KnownChoice
<1>3. Kept(b, c, P, R)
  BY <1>2 DEF Kept
<1> HIDE DEF R
<1>4. Walk(c)[1] \in R
  BY <1>1, <1>3, KnownInduction
<1> QED BY <1>1, <1>4 DEF R

(* A message type followed by known options of other types, which is what   *)
(* the servers of DHCPApplication send, is read as that type alone.         *)
THEOREM TypeThenOptions ==
    ASSUME NEW t \in Seq(Nat), NEW P, OptionStarts(t, P), 1 \in P,
           \A p \in P : t[p] # MSG_TYPE, NEW k \in Nat
    PROVE  ReadOptions(<<MSG_TYPE, 1, k>> \o t) = [ended |-> TRUE, types |-> <<k>>]
<1> DEFINE b == <<MSG_TYPE, 1, k>> \o t
           Q == {p + 3 : p \in P}
<1>1. /\ b \in Seq(Nat) /\ Len(b) = Len(t) + 3 /\ Len(t) \in Nat
      /\ b[1] = MSG_TYPE /\ b[3] = k
      /\ \A p \in 1..Len(t) : b[p + 3] = t[p]
  BY DEF MSG_TYPE
<1>2. P \subseteq 1..Len(t)
  BY DEF OptionStarts
<1> HIDE DEF b
<1>3. ASSUME NEW p \in P
      PROVE  \/ t[p] = END
             \/ t[p] = PAD /\ p + 1 \in P
             \/ t[p] \in Timers /\ t[p + 1] = 4 /\ p + 6 \in P
             \/ t[p] \in Sized /\ p < Len(t) /\ t[p + 1] < 128 /\ p + 2 + t[p + 1] \in P
  BY DEF OptionStarts
<1>4. OptionStarts(b, Q)
  <2>1. Q \subseteq 1..Len(b)
    <3>1. ASSUME NEW p \in P PROVE p + 3 \in 1..Len(b)
      <4>1. p \in Nat /\ p >= 1 /\ p <= Len(t)
        BY <1>1, <1>2
      <4> QED BY <1>1, <4>1
    <3> QED BY <3>1
  <2>2. ASSUME NEW p \in P
        PROVE  \/ b[p + 3] = END
               \/ b[p + 3] = PAD /\ p + 3 + 1 \in Q
               \/ b[p + 3] \in Timers /\ b[p + 3 + 1] = 4 /\ p + 3 + 6 \in Q
               \/ /\ b[p + 3] \in Sized /\ p + 3 < Len(b)
                  /\ b[p + 3 + 1] < 128 /\ p + 3 + 2 + b[p + 3 + 1] \in Q
    <3>1. p \in 1..Len(t) /\ b[p + 3] = t[p]
      BY <1>1, <1>2
    <3>2. CASE t[p] = END
      BY <3>1, <3>2
    <3>3. CASE t[p] = PAD /\ p + 1 \in P
      <4>1. (p + 1) + 3 = p + 3 + 1
        BY <3>1
      <4> QED BY <3>1, <3>3, <4>1
    <3>4. CASE t[p] \in Timers /\ t[p + 1] = 4 /\ p + 6 \in P
      <4>1. (p + 6) + 3 = p + 3 + 6 /\ (p + 1) + 3 = p + 3 + 1
        BY <3>1
      <4>2. p + 1 \in 1..Len(t)
        BY <1>1, <1>2, <3>1, <3>4
      <4>3. b[p + 3 + 1] = t[p + 1]
        BY <1>1, <4>1, <4>2
      <4> QED BY <3>1, <3>4, <4>1, <4>3
    <3>5. CASE t[p] \in Sized /\ p < Len(t) /\ t[p + 1] < 128 /\ p + 2 + t[p + 1] \in P
      <4>0. p < Len(t)
        BY <3>5
      <4>1. p + 1 \in 1..Len(t) /\ p + 3 < Len(b) /\ (p + 1) + 3 = p + 3 + 1
        BY <1>1, <3>1, <4>0
      <4>2. b[p + 3 + 1] = t[p + 1] /\ t[p + 1] \in Nat
        BY <1>1, <4>1
      <4>3. (p + 2 + t[p + 1]) + 3 = p + 3 + 2 + t[p + 1]
        <5> DEFINE len == t[p + 1]
        <5> HIDE DEF len
        <5>1. len \in Nat /\ p \in Nat
          BY <3>1, <4>2 DEF len
        <5>2. (p + 2 + len) + 3 = p + 3 + 2 + len
          BY <5>1
        <5> QED BY <5>2 DEF len
      <4> QED BY <3>1, <3>5, <4>1, <4>2, <4>3
    <3> QED BY <1>3, <3>2, <3>3, <3>4, <3>5
  <2> HIDE DEF Q
  <2>3. \A q \in Q : \E p \in P : q = p + 3
    BY DEF Q
  <2> QED BY <2>1, <2>2, <2>3 DEF OptionStarts
<1>5. Walk(b)[4] = Done
  <2>1. 4 \in Q
    BY <1>2
  <2>2. \A q \in Q : b[q] # MSG_TYPE
    BY <1>1, <1>2
  <2> HIDE DEF Q
  <2> QED BY <1>1, <1>4, <2>1, <2>2, KnownRead
<1>6. ReadFrom(b, Walk(b), 1) = WithType(k, Walk(b)[4])
  <2>1. ~(1 > Len(b)) /\ ~(1 + 2 > Len(b)) /\ b[1] # END /\ b[1 + 2] = k
    BY <1>1 DEF MSG_TYPE, END
  <2>2. ReadFrom(b, Walk(b), 1) = WithType(b[1 + 2], Walk(b)[1 + 3])
    BY <1>1, <2>1, Zenon DEF ReadFrom
  <2> QED BY <2>1, <2>2
<1>7. ReadOptions(b) = WithType(k, Done)
  <2>1. 1 \in Positions(b)
    BY <1>1 DEF Positions
  <2> QED BY <1>1, <1>5, <1>6, <2>1, WalkIsDefined
<1>8. WithType(k, Done) = [ended |-> TRUE, types |-> <<k>>]
  <2>1. <<k>> \o <<>> = <<k>>
    OBVIOUS
  <2>2. Done.types = <<>> /\ Done.ended
    BY DEF Done
  <2> QED BY <2>1, <2>2 DEF WithType
<1> QED BY <1>7, <1>8 DEF b

-----------------------------------------------------------------------------
(* The checksum.                                                            *)

Byte == 0..255

(* What is added up from each position of b on.                             *)
SumStep(b, sum, k) == IF k > Len(b) THEN 0 ELSE Term(b, k) + sum[k + 1]
SumFrom(b) == CHOOSE sum : sum = [k \in Positions(b) |-> SumStep(b, sum, k)]

LEMMA TermRange ==
    ASSUME NEW b \in Seq(Byte), NEW k \in 1..Len(b)
    PROVE  Term(b, k) \in Nat /\ Term(b, k) <= 65280
<1>1. b[k] \in Byte /\ k \in Nat
  OBVIOUS
<1>2. \A v \in Byte : v \in Nat /\ v <= 255
  BY DEF Byte
<1> QED BY <1>1, <1>2 DEF Term

LEMMA SumExists ==
    ASSUME NEW b \in Seq(Byte)
    PROVE  \E f : f = [k \in Positions(b) |-> SumStep(b, f, k)]
<1> DEFINE n == Len(b) + 1
           F == [1..n -> Nat]
           G == [k \in 1..n |-> [f \in F |-> SumStep(b, f, k)]]
<1>1. n \in Nat /\ 1..n = Positions(b) /\ Len(b) \in Nat
  BY DEF Positions
<1>2. ASSUME NEW k \in 1..n, NEW f \in F PROVE SumStep(b, f, k) \in Nat
  <2>1. CASE k > Len(b)
    BY <2>1 DEF SumStep
  <2>2. CASE ~(k > Len(b))
    <3>1. k \in 1..Len(b) /\ k + 1 \in 1..n
      BY <1>1, <2>2
    <3>2. Term(b, k) \in Nat /\ f[k + 1] \in Nat
      BY <3>1, TermRange
    <3> QED BY <2>2, <3>2 DEF SumStep
  <2> QED BY <2>1, <2>2
<1>3. G \in [1..n -> [F -> Nat]] /\ \A f \in F, k \in 1..n : G[k][f] = SumStep(b, f, k)
  BY <1>2
<1> HIDE DEF G, n
<1>4. ASSUME NEW k \in 1..n, NEW f \in F, NEW g \in F, \A q \in 1..n : q > k => f[q] = g[q]
      PROVE  G[k][f] = G[k][g]
  <2>1. CASE k > Len(b)
    BY <1>3, <2>1 DEF SumStep
  <2>2. CASE ~(k > Len(b))
    <3>1. k + 1 \in 1..n /\ k + 1 > k
      BY <1>1, <2>2 DEF n
    <3> QED BY <1>3, <1>4, <3>1 DEF SumStep
  <2> QED BY <2>1, <2>2
<1>5. HasSolution(n, Nat, G)
  <2>1. Backwards(n, Nat, G)
    BY <1>1, <1>3, <1>4 DEF Backwards
  <2> QED BY <2>1, RecursionFromEnd
<1>6. PICK f \in F : \A k \in 1..n : f[k] = SumStep(b, f, k)
  BY <1>3, <1>5 DEF HasSolution
<1>7. f = [k \in Positions(b) |-> SumStep(b, f, k)]
  BY <1>1, <1>6
<1> QED BY <1>7

LEMMA SumEquation ==
    ASSUME NEW b \in Seq(Byte)
    PROVE  /\ \A k \in Positions(b) : SumFrom(b)[k] = SumStep(b, SumFrom(b), k)
           /\ Sum16(b) = SumFrom(b)[1]
<1>1. SumFrom(b) = [k \in Positions(b) |-> SumStep(b, SumFrom(b), k)]
  BY SumExists DEF SumFrom
<1>2. Sum16(b) = SumFrom(b)[1]
  BY DEF Sum16, SumFrom, SumStep, Positions
<1> QED BY <1>1, <1>2

(* No word is above 255 * 256.                                              *)
LEMMA SumRange ==
    ASSUME NEW b \in Seq(Byte)
    PROVE  /\ \A k \in Positions(b) :
                /\ SumFrom(b)[k] \in Nat
                /\ SumFrom(b)[k] <= 65280 * (Len(b) + 1 - k)
           /\ Sum16(b) \in Nat /\ Sum16(b) <= 65280 * Len(b)
<1> DEFINE n == Len(b) + 1
           sum == SumFrom(b)
           S == {k \in 1..n : sum[k] \in Nat /\ sum[k] <= 65280 * (n - k)}
<1>1. n \in Nat /\ 1..n = Positions(b) /\ Len(b) \in Nat
  BY DEF Positions
<1>2. ASSUME NEW k \in 1..n, \A q \in 1..n : q > k => q \in S PROVE k \in S
  <2>1. sum[k] = SumStep(b, sum, k)
    BY <1>1, SumEquation
  <2> HIDE DEF sum
  <2>2. CASE k > Len(b)
    BY <1>1, <2>1, <2>2 DEF SumStep
  <2>3. CASE ~(k > Len(b))
    <3>1. k \in 1..Len(b) /\ k + 1 \in 1..n /\ k + 1 > k
      BY <1>1, <2>3
    <3>2. sum[k] = Term(b, k) + sum[k + 1]
      BY <2>1, <2>3 DEF SumStep
    <3>3. Term(b, k) \in Nat /\ Term(b, k) <= 65280
      BY <3>1, TermRange
    <3>4. sum[k + 1] \in Nat /\ sum[k + 1] <= 65280 * (n - (k + 1))
      BY <1>2, <3>1
    <3> QED BY <1>1, <3>2, <3>3, <3>4
  <2> QED BY <2>2, <2>3
<1>3. \A k \in 1..n : k \in S
  <2> HIDE DEF S, n
  <2> QED BY <1>1, <1>2, InductionFromEnd
<1>4. \A k \in Positions(b) : sum[k] \in Nat /\ sum[k] <= 65280 * (Len(b) + 1 - k)
  BY <1>1, <1>3
<1>5. Sum16(b) = sum[1] /\ 1 \in Positions(b)
  BY <1>1, SumEquation
<1> HIDE DEF sum
<1>6. Sum16(b) \in Nat /\ Sum16(b) <= 65280 * Len(b)
  BY <1>1, <1>4, <1>5
<1> QED BY <1>4, <1>6 DEF sum

(* A sum with its upper and its lower 16 bits.                              *)
Halves(h, l) == 65536 * h + l

LEMMA CarryOf ==
    ASSUME NEW h \in Nat, NEW l \in Nat, l < 65536
    PROVE  Halves(h, l) % 65536 = l /\ Carry(Halves(h, l)) = l + h
<1>1. Halves(h, l) % 65536 = l
  BY DEF Halves
<1>2. Halves(h, l) \div 65536 = h
  BY DEF Halves
<1> QED BY <1>1, <1>2 DEF Carry

LEMMA HalvesOf ==
    ASSUME NEW s \in Nat, s < 65536 * 65536
    PROVE  \E h, l \in Nat : h < 65536 /\ l < 65536 /\ s = Halves(h, l)
<1>1. s \div 65536 \in Nat /\ s \div 65536 < 65536
  OBVIOUS
<1>2. s % 65536 \in Nat /\ s % 65536 < 65536
  OBVIOUS
<1>3. s = 65536 * (s \div 65536) + (s % 65536)
  OBVIOUS
<1> QED BY <1>1, <1>2, <1>3 DEF Halves

(* A sum, and its complement after the carry was added once.                *)
LEMMA CarriedOnce ==
    ASSUME NEW s \in Nat, s < 65536 * 65536
    PROVE  Carry(Carry(s + (65535 - (Carry(s) % 65536)))) = 65535 <=> Carry(s) < 65536
<1>1. PICK h \in Nat, l \in Nat : h < 65536 /\ l < 65536 /\ s = Halves(h, l)
  BY HalvesOf
<1>2. Carry(s) = l + h
  BY <1>1, CarryOf
<1>3. CASE l + h < 65536
  <2>2. (l + h) % 65536 = l + h /\ Carry(65535) = 65535
    BY <1>3 DEF Carry
  <2>3. s + (65535 - (l + h)) = Halves(h, 65535 - h)
    BY <1>1 DEF Halves
  <2>4. 65535 - h \in Nat /\ 65535 - h < 65536
    BY <1>1
  <2>5. Carry(Halves(h, 65535 - h)) = 65535
    BY <2>4, CarryOf
  <2> QED BY <1>2, <1>3, <2>2, <2>3, <2>5
<1>4. CASE ~(l + h < 65536)
  <2>1. l + h - 65536 \in Nat /\ l + h - 65536 < 65536
    BY <1>1, <1>4
  <2>2. Halves(1, l + h - 65536) = l + h
    BY <1>1 DEF Halves
  <2>3. (l + h) % 65536 = l + h - 65536
    <3> DEFINE r == l + h - 65536
    <3>1. r \in Nat /\ r < 65536 /\ Halves(1, r) = l + h
      BY <2>1, <2>2
    <3> HIDE DEF r
    <3>2. Halves(1, r) % 65536 = r
      BY <3>1, CarryOf
    <3> QED BY <3>1, <3>2 DEF r
  <2>4. s + (65535 - (l + h - 65536)) = Halves(h + 1, 65535 - h)
    BY <1>1 DEF Halves
  <2>5. 65535 - h \in Nat /\ 65535 - h < 65536 /\ h + 1 \in Nat
    BY <1>1
  <2>6. Carry(Halves(h + 1, 65535 - h)) = 65536
    BY <2>5, CarryOf
  <2>7. Carry(65536) = 1
    BY DEF Carry
  <2> QED BY <1>2, <1>4, <2>3, <2>4, <2>6, <2>7
<1> QED BY <1>3, <1>4

(* A receiver adds up the words of a message and its checksum, and carries  *)
(* as often as it must.  It accepts the checksum of the program exactly if  *)
(* one carry was enough.                                                    *)
THEOREM ChecksumIsAccepted ==
    ASSUME NEW b \in Seq(Byte), Len(b) < 65536
    PROVE  Carry(Carry(Sum16(b) + checksum(b))) = 65535 <=> Carry(Sum16(b)) < 65536
<1>1. Sum16(b) \in Nat /\ Sum16(b) < 65536 * 65536
  BY SumRange
<1> QED BY <1>1, CarriedOnce DEF checksum
=============================================================================
