----------------------------- MODULE Recursion -----------------------------
(***************************************************************************)
(* Functions defined by recursion on smaller arguments: that they satisfy  *)
(* their equation, and induction over their arguments.  What is smaller is *)
(* said by a measure in the naturals.                                      *)
(*                                                                         *)
(* The library states the same with an operator as a parameter of the      *)
(* theorem.  Here the operators are parameters of the module, so that an   *)
(* instance of the module names the case it is about.                      *)
(***************************************************************************)
EXTENDS Integers, WellFoundedInduction, TLAPS

CONSTANTS
  Domain,         \* the arguments
  Size(_),        \* their measure
  Body(_, _),     \* the value at an argument, from a function on smaller ones
  Good(_, _)      \* what holds of an argument and the value at it

-----------------------------------------------------------------------------

\* A set of naturals with zero and every successor of its elements is all of them.
LEMMA OnNaturals ==
  ASSUME NEW S \in SUBSET Nat, 0 \in S, \A n \in S : n + 1 \in S
  PROVE  S = Nat
<1> DEFINE T == Nat \ S
<1> SUFFICES ASSUME T # {} PROVE FALSE
  OBVIOUS
<1>1. PICK x \in T : \A y \in T : ~ (<<y, x>> \in OpToRel(<, Nat))
  BY NatLessThanWellFounded, WFMin, T \subseteq Nat, Zenon
<1>2. x - 1 \in Nat /\ x - 1 < x /\ x \in Nat
  OBVIOUS
<1>3. <<x - 1, x>> \in OpToRel(<, Nat)
  BY <1>2 DEF OpToRel
<1>4. x - 1 \in S
  BY <1>1, <1>2, <1>3
<1>5. x \in S
  BY <1>2, <1>4
<1> QED
  BY <1>5

\* A set with every argument whose smaller arguments it has holds them all.
LEMMA OnSmaller ==
  ASSUME \A x \in Domain : Size(x) \in Nat,
         NEW S,
         \A x \in Domain : (\A y \in Domain : Size(y) < Size(x) => y \in S) => x \in S
  PROVE  \A x \in Domain : x \in S
<1> DEFINE Upto == {n \in Nat : \A x \in Domain : Size(x) < n => x \in S}
<1>1. 0 \in Upto
  OBVIOUS
<1>2. ASSUME NEW n \in Upto PROVE n + 1 \in Upto
  <2>1. n \in Nat /\ n + 1 \in Nat
    OBVIOUS
  <2>2. ASSUME NEW x \in Domain, Size(x) < n + 1 PROVE x \in S
    <3>1. \A y \in Domain : Size(y) < Size(x) => Size(y) < n
      BY <2>1, <2>2
    <3> QED
      BY <3>1
  <2> QED
    BY <2>1, <2>2
<1>3. Upto = Nat
  <2> HIDE DEF Upto
  <2>1. Upto \in SUBSET Nat
    BY DEF Upto
  <2> QED
    BY <1>1, <1>2, <2>1, OnNaturals
<1> QED
  <2> SUFFICES ASSUME NEW x \in Domain PROVE x \in S
    OBVIOUS
  <2>1. Size(x) + 1 \in Upto
    BY <1>3
  <2> QED
    BY <2>1

-----------------------------------------------------------------------------

\* A function that satisfies the equation at the arguments of a size below n.
Approximates(f, n) ==
  \A x \in Domain : Size(x) < n => f[x] = Body(f, x) /\ Good(x, f[x])

\* The body looks at smaller arguments only, and what is good there makes it good.
Descends ==
  \A x \in Domain : \A g, h :
    (\A y \in Domain : Size(y) < Size(x) => g[y] = h[y] /\ Good(y, g[y]))
      => Body(g, x) = Body(h, x) /\ Good(x, Body(g, x))

\* Two approximations have the same values as far as both go.
LEMMA ApproximationsAgree ==
  ASSUME \A x \in Domain : Size(x) \in Nat, Descends,
         NEW n \in Nat, NEW f, NEW g, Approximates(f, n), Approximates(g, n)
  PROVE  \A x \in Domain : Size(x) < n => f[x] = g[x]
<1> DEFINE S == {x \in Domain : Size(x) < n => f[x] = g[x]}
<1>1. ASSUME NEW x \in Domain, \A y \in Domain : Size(y) < Size(x) => y \in S
      PROVE  x \in S
  <2> SUFFICES ASSUME Size(x) < n PROVE f[x] = g[x]
    OBVIOUS
  <2>1. \A y \in Domain : Size(y) < Size(x) => f[y] = g[y] /\ Good(y, f[y])
    BY <1>1 DEF Approximates
  <2>2. Body(f, x) = Body(g, x)
    BY <2>1 DEF Descends
  <2> QED
    BY <2>2 DEF Approximates
<1>2. \A x \in Domain : x \in S
  <2> HIDE DEF S
  <2> QED
    BY <1>1, OnSmaller
<1> QED
  BY <1>2

\* There are approximations of every size.
LEMMA ApproximationsExist ==
  ASSUME \A x \in Domain : Size(x) \in Nat, Descends
  PROVE  \A n \in Nat : \E f : Approximates(f, n)
<1> DEFINE S == {n \in Nat : \E f : Approximates(f, n)}
<1>1. 0 \in S
  <2>1. Approximates(<< >>, 0)
    BY DEF Approximates
  <2> QED
    BY <2>1
<1>2. ASSUME NEW n \in S PROVE n + 1 \in S
  <2>1. PICK f : Approximates(f, n)
    OBVIOUS
  <2> DEFINE g == [x \in Domain |-> Body(f, x)]
  <2>2. ASSUME NEW x \in Domain, Size(x) < n + 1
        PROVE  g[x] = Body(g, x) /\ Good(x, g[x])
    <3>1. \A y \in Domain : Size(y) < Size(x) => f[y] = g[y] /\ Good(y, f[y])
      BY <2>1, <2>2 DEF Approximates
    <3>2. Body(f, x) = Body(g, x) /\ Good(x, Body(f, x))
      <4> HIDE DEF g
      <4> QED
        BY <3>1 DEF Descends
    <3> QED
      BY <3>2
  <2>3. Approximates(g, n + 1)
    BY <2>2 DEF Approximates
  <2> QED
    BY <2>3
<1>3. S = Nat
  <2> HIDE DEF S
  <2>1. S \in SUBSET Nat
    BY DEF S
  <2> QED
    BY <1>1, <1>2, <2>1, OnNaturals
<1> QED
  BY <1>3

\* A function defined by a recursion that descends satisfies its equation, and
\* its values are good.
LEMMA Defined ==
  ASSUME \A x \in Domain : Size(x) \in Nat, Descends,
         NEW f, f = CHOOSE g : g = [x \in Domain |-> Body(g, x)]
  PROVE  /\ f = [x \in Domain |-> Body(f, x)]
         /\ \A x \in Domain : Good(x, f[x])
<1> DEFINE At(n) == CHOOSE g : Approximates(g, n)
           g     == [x \in Domain |-> At(Size(x) + 1)[x]]
<1>1. \A n \in Nat : Approximates(At(n), n)
  BY ApproximationsExist
<1>2. ASSUME NEW x \in Domain
      PROVE  g[x] = Body(g, x) /\ Good(x, g[x])
  <2> DEFINE h == At(Size(x) + 1)
  <2>1. Approximates(h, Size(x) + 1)
    BY <1>1
  <2>2. ASSUME NEW y \in Domain, Size(y) < Size(x)
        PROVE  h[y] = g[y] /\ Good(y, h[y])
    <3> DEFINE k == At(Size(y) + 1)
    <3>1. Approximates(k, Size(y) + 1)
      BY <1>1
    <3>2. Approximates(h, Size(y) + 1)
      BY <2>1, <2>2 DEF Approximates
    <3>3. k[y] = h[y]
      <4> HIDE DEF h, k
      <4> QED
        BY <3>1, <3>2, ApproximationsAgree
    <3> QED
      BY <3>2, <3>3 DEF Approximates
  <2>3. Body(h, x) = Body(g, x)
    <3> HIDE DEF h, g
    <3> QED
      BY <2>2 DEF Descends
  <2> QED
    BY <2>1, <2>3 DEF Approximates
<1>3. g = [x \in Domain |-> Body(g, x)]
  <2>1. \A x \in Domain : g[x] = Body(g, x)
    BY <1>2
  <2> QED
    BY <2>1
<1>4. f = [x \in Domain |-> Body(f, x)]
  <2> HIDE DEF g
  <2> QED
    BY <1>3
<1>5. ASSUME NEW x \in Domain, \A y \in Domain : Size(y) < Size(x) => Good(y, f[y])
      PROVE  Good(x, f[x])
  <2>1. f[x] = Body(f, x)
    BY <1>4
  <2> QED
    BY <1>5, <2>1 DEF Descends
<1>6. \A x \in Domain : Good(x, f[x])
  <2> DEFINE S == {x \in Domain : Good(x, f[x])}
  <2>1. ASSUME NEW x \in Domain, \A y \in Domain : Size(y) < Size(x) => y \in S
        PROVE  x \in S
    BY <2>1, <1>5
  <2>2. \A x \in Domain : x \in S
    <3> HIDE DEF S
    <3> QED
      BY <2>1, OnSmaller
  <2> QED
    BY <2>2
<1> QED
  BY <1>4, <1>6

=============================================================================
