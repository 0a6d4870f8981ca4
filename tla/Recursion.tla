------------------------------ MODULE Recursion ------------------------------
(***************************************************************************)
(* Recursive functions whose arguments get smaller: a module that defines    *)
(*                                                                         *)
(*    f[x \in Domain] == Body(f, x)                                          *)
(*                                                                         *)
(* instantiates this one with its Domain, a Measure of the arguments, the    *)
(* Body, and what Fits every result.  It then has to show that the body only *)
(* looks at smaller arguments (LooksDown) to know what f is.                *)
(***************************************************************************)
EXTENDS Integers, WellFoundedInduction, TLAPS

CONSTANTS Domain, Measure(_), Body(_, _), Fits(_, _)

Measured == \A x \in Domain : Measure(x) \in Nat

\* The arguments below a bound, and the functions that agree on them.
Upto(n) == {x \in Domain : Measure(x) < n}

Agree(f, g, n) == \A x \in Upto(n) : f[x] = g[x]

FitsBelow(f, n) == \A x \in Upto(n) : Fits(x, f[x])

LooksDown ==
  \A x \in Domain : \A f, g :
    Agree(f, g, Measure(x)) /\ FitsBelow(f, Measure(x)) =>
      Body(f, x) = Body(g, x) /\ Fits(x, Body(f, x))

\* What f is, up to a bound.
IsPart(f, n) == f = [x \in Upto(n) |-> Body(f, x)]

Part(n) == CHOOSE f : IsPart(f, n)

-----------------------------------------------------------------------------

\* A set of numbers that is not empty has a smallest one.
LEMMA LeastExists ==
  ASSUME NEW S, S \subseteq Nat, S # {}
  PROVE  \E x \in S : \A y \in S : x <= y
<1> DEFINE R == {ss \in Nat \X Nat : ss[1] < ss[2]}
<1>1. IsWellFoundedOn(R, Nat)
  BY NatLessThanWellFounded DEF OpToRel
<1>2. \A x, y \in Nat : y < x => <<y, x>> \in R
  OBVIOUS
<1> HIDE DEF R
<1>3. PICK x \in S : \A y \in S : ~ (<<y, x>> \in R)
  BY <1>1, WFMin
<1>4. ASSUME NEW y \in S PROVE x <= y
  <2>1. x \in Nat /\ y \in Nat
    OBVIOUS
  <2>2. ~ (y < x)
    BY <2>1, <1>2, <1>3
  <2>3. QED
    BY <2>1, <2>2
<1>5. QED
  BY <1>4

\* A set that holds an argument whenever it holds all that are smaller holds them
\* all.
THEOREM Induction ==
  ASSUME Measured, NEW S, \A x \in Domain : Upto(Measure(x)) \subseteq S => x \in S
  PROVE  Domain \subseteq S
<1> SUFFICES ASSUME NEW z \in Domain, z \notin S PROVE FALSE
  OBVIOUS
<1> DEFINE Bad == {Measure(x) : x \in Domain \ S}
<1>1. Bad \subseteq Nat /\ Bad # {}
  BY DEF Measured
<1>2. PICK b \in Bad : \A c \in Bad : b <= c
  BY <1>1, LeastExists
<1>3. PICK x \in Domain \ S : b = Measure(x)
  OBVIOUS
<1>4. ASSUME NEW y \in Upto(Measure(x)), y \notin S PROVE FALSE
  <2>1. y \in Domain /\ Measure(y) < Measure(x) /\ Measure(y) \in Bad
    BY <1>4 DEF Upto
  <2>2. Measure(x) <= Measure(y) /\ Measure(x) \in Nat /\ Measure(y) \in Nat
    BY <1>2, <1>3, <2>1 DEF Measured
  <2>3. QED
    BY <2>1, <2>2
<1>5. QED
  BY <1>3, <1>4

LEMMA PartFits ==
  ASSUME Measured, LooksDown, NEW n \in Nat, NEW f, IsPart(f, n)
  PROVE  FitsBelow(f, n)
<1> DEFINE S == {x \in Domain : Measure(x) < n => Fits(x, f[x])}
<1>1. ASSUME NEW x \in Domain, Upto(Measure(x)) \subseteq S PROVE x \in S
  <2> SUFFICES ASSUME Measure(x) < n PROVE Fits(x, f[x])
    OBVIOUS
  <2>1. FitsBelow(f, Measure(x))
    <3>1. ASSUME NEW y \in Upto(Measure(x)) PROVE Fits(y, f[y])
      <4>1. y \in S /\ y \in Domain /\ Measure(y) < Measure(x)
        BY <1>1 DEF Upto
      <4>2. Measure(y) < n
        BY <4>1 DEF Measured
      <4>3. QED
        BY <4>1, <4>2
    <3>2. QED
      BY <3>1 DEF FitsBelow
  <2>2. Agree(f, f, Measure(x))
    BY DEF Agree
  <2>3. Fits(x, Body(f, x))
    BY <2>1, <2>2 DEF LooksDown
  <2>4. f[x] = Body(f, x)
    BY DEF IsPart, Upto
  <2>5. QED
    BY <2>3, <2>4
<1>2. Domain \subseteq S
  <2> HIDE DEF S
  <2>1. QED
    BY <1>1, Induction
<1>3. QED
  BY <1>2 DEF FitsBelow, Upto

LEMMA PartsAgree ==
  ASSUME Measured, LooksDown, NEW m \in Nat, NEW n \in Nat, m <= n,
         NEW f, IsPart(f, m), NEW g, IsPart(g, n)
  PROVE  Agree(f, g, m)
<1> DEFINE S == {x \in Domain : Measure(x) < m => f[x] = g[x]}
<1>1. ASSUME NEW x \in Domain, Upto(Measure(x)) \subseteq S PROVE x \in S
  <2> SUFFICES ASSUME Measure(x) < m PROVE f[x] = g[x]
    OBVIOUS
  <2>1. ASSUME NEW y \in Upto(Measure(x)) PROVE y \in Upto(m) /\ f[y] = g[y]
    <3>1. y \in S /\ y \in Domain /\ Measure(y) < Measure(x)
      BY <1>1 DEF Upto
    <3>2. Measure(y) < m
      BY <3>1 DEF Measured
    <3>3. QED
      BY <3>1, <3>2 DEF Upto
  <2>2. FitsBelow(f, Measure(x)) /\ Agree(f, g, Measure(x))
    BY <2>1, PartFits DEF FitsBelow, Agree
  <2>3. Body(f, x) = Body(g, x)
    BY <2>2 DEF LooksDown
  <2>4. Measure(x) < n
    BY DEF Measured
  <2>5. f[x] = Body(f, x) /\ g[x] = Body(g, x)
    BY <2>4 DEF IsPart, Upto
  <2>6. QED
    BY <2>3, <2>5
<1>2. Domain \subseteq S
  <2> HIDE DEF S
  <2>1. QED
    BY <1>1, Induction
<1>3. QED
  BY <1>2 DEF Agree, Upto

LEMMA PartExists ==
  ASSUME Measured, LooksDown, NEW n \in Nat
  PROVE  IsPart(Part(n), n)
<1> DEFINE Bad == {k \in Nat : ~\E f : IsPart(f, k)}
<1>1. ASSUME Bad # {} PROVE FALSE
  <2>1. PICK b \in Bad : \A c \in Bad : b <= c
    BY <1>1, LeastExists
  <2>2. b \in Nat /\ ~\E f : IsPart(f, b)
    OBVIOUS
  <2>3. CASE b = 0
    <3> DEFINE g == [x \in Upto(0) |-> 0]
    <3>1. Upto(0) = {}
      BY DEF Upto, Measured
    <3>2. g = [x \in Upto(0) |-> Body(g, x)]
      BY <3>1
    <3>3. IsPart(g, 0)
      BY <3>2 DEF IsPart
    <3>4. QED
      BY <2>2, <2>3, <3>3
  <2>4. CASE b # 0
    <3>1. b - 1 \in Nat /\ b - 1 \notin Bad
      BY <2>1, <2>2, <2>4
    <3>2. PICK f : IsPart(f, b - 1)
      BY <3>1
    <3> DEFINE g == [x \in Upto(b) |-> Body(f, x)]
    <3>3. ASSUME NEW x \in Upto(b) PROVE Body(f, x) = Body(g, x)
      <4>1. x \in Domain /\ Measure(x) \in Nat /\ Measure(x) <= b - 1
        BY <2>2 DEF Upto, Measured
      <4>2. ASSUME NEW y \in Upto(Measure(x))
            PROVE  y \in Upto(b - 1) /\ f[y] = g[y]
        <5>1. y \in Domain /\ Measure(y) \in Nat /\ Measure(y) < Measure(x)
          BY DEF Upto, Measured
        <5>2. y \in Upto(b - 1) /\ y \in Upto(b)
          BY <2>2, <4>1, <5>1 DEF Upto
        <5>3. f[y] = Body(f, y)
          BY <3>2, <5>2 DEF IsPart
        <5>4. QED
          BY <5>2, <5>3
      <4>3. FitsBelow(f, b - 1)
        BY <3>1, <3>2, PartFits
      <4>4. FitsBelow(f, Measure(x)) /\ Agree(f, g, Measure(x))
        BY <4>2, <4>3 DEF FitsBelow, Agree
      <4>5. QED
        BY <4>1, <4>4 DEF LooksDown
    <3>4. g = [x \in Upto(b) |-> Body(g, x)]
      BY <3>3
    <3>5. IsPart(g, b)
      BY <3>4 DEF IsPart
    <3>6. QED
      BY <2>2, <3>5
  <2>5. QED
    BY <2>3, <2>4
<1>2. \E f : IsPart(f, n)
  BY <1>1
<1>3. QED
  BY <1>2 DEF Part

\* What a function is that is defined by recursion.
THEOREM Defined ==
  ASSUME Measured, LooksDown,
         NEW f, f = CHOOSE g : g = [x \in Domain |-> Body(g, x)]
  PROVE  /\ f = [x \in Domain |-> Body(f, x)]
         /\ \A x \in Domain : f[x] = Body(f, x) /\ Fits(x, f[x])
<1> DEFINE h == [x \in Domain |-> Body(Part(Measure(x)), x)]
<1>1. ASSUME NEW x \in Domain
      PROVE  /\ Body(Part(Measure(x)), x) = Body(h, x)
             /\ Fits(x, h[x])
  <2> DEFINE p == Part(Measure(x))
  <2>1. IsPart(p, Measure(x))
    BY PartExists DEF Measured
  <2>2. FitsBelow(p, Measure(x))
    BY <2>1, PartFits DEF Measured
  <2>3. ASSUME NEW y \in Upto(Measure(x)) PROVE p[y] = h[y]
    <3> DEFINE q == Part(Measure(y))
    <3>1. /\ y \in Domain /\ Measure(y) < Measure(x)
          /\ Measure(x) \in Nat /\ Measure(y) \in Nat
      BY DEF Upto, Measured
    <3>2. IsPart(q, Measure(y))
      BY <3>1, PartExists
    <3>3. Agree(q, p, Measure(y)) /\ FitsBelow(q, Measure(y))
      BY <2>1, <3>1, <3>2, PartsAgree, PartFits
    <3>4. Body(q, y) = Body(p, y)
      BY <3>1, <3>3 DEF LooksDown
    <3>5. p[y] = Body(p, y)
      BY <2>1 DEF IsPart
    <3>6. QED
      BY <3>1, <3>4, <3>5
  <2>4. Agree(p, h, Measure(x))
    BY <2>3 DEF Agree
  <2>5. Body(p, x) = Body(h, x) /\ Fits(x, Body(p, x))
    BY <2>2, <2>4 DEF LooksDown
  <2>6. QED
    BY <2>5
<1>2. h = [x \in Domain |-> Body(h, x)]
  BY <1>1
<1> HIDE DEF h
<1>3. f = [x \in Domain |-> Body(f, x)]
  BY <1>2
<1> DEFINE S == {x \in Domain : Fits(x, f[x])}
<1>4. ASSUME NEW x \in Domain, Upto(Measure(x)) \subseteq S PROVE x \in S
  <2>1. Agree(f, f, Measure(x)) /\ FitsBelow(f, Measure(x))
    BY <1>4 DEF Agree, FitsBelow
  <2>2. Fits(x, Body(f, x))
    BY <2>1 DEF LooksDown
  <2>3. f[x] = Body(f, x)
    BY <1>3
  <2>4. QED
    BY <2>2, <2>3
<1>5. Domain \subseteq S
  <2> HIDE DEF S
  <2>1. QED
    BY <1>4, Induction
<1>6. QED
  BY <1>3, <1>5

=============================================================================
