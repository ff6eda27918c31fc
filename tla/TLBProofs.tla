----------------------------- MODULE TLBProofs ------------------------------
(***************************************************************************)
(* Proofs about the TLB, for every number of slots, all entries and every  *)
(* order of the instructions: its two trees are red-black trees of the     *)
(* slots in use, and with them it behaves as an array that is searched as  *)
(* a set.                                                                  *)
(*                                                                         *)
(* Software is taken to keep to OneSpaceIn: all its entries that are not   *)
(* global go to one slot.  With two of them in use the tree of the address *)
(* spaces is walked by other criteria when an entry is inserted than when  *)
(* it is found, and AddressSpace shows a TLB that loses an entry so.       *)
(*                                                                         *)
(* The argument follows the code.  Each setter of TLB is characterized by  *)
(* what it leaves alone, and then only these facts are used.  A tree comes *)
(* with two witnesses that the program does not keep: the nodes below each *)
(* node and the black height of each.  FixupInv and EvictInv are the       *)
(* invariants of the two loops, with the nodes below the current one for a *)
(* variant, and Relabeled is the replacement of a node by its successor.   *)
(* TLBInv puts the trees together.                                         *)
(***************************************************************************)
EXTENDS TLB, TLAPS, FiniteSetTheorems, WellFoundedInduction

-----------------------------------------------------------------------------
(* Recursion and induction on the naturals.  The sets that the induction  *)
(* runs through are values, so that it needs no operator for a parameter. *)

(* A set of naturals that is not empty has a least element. *)
LEMMA LeastElement ==
  ASSUME NEW T \in SUBSET Nat, T # {}
  PROVE  \E x \in T : \A y \in T : x <= y
<1>1. IsWellFoundedOn(OpToRel(<, Nat), Nat) BY NatLessThanWellFounded
<1>2. PICK x \in T : \A y \in T : ~ (<<y, x>> \in OpToRel(<, Nat))
  <2> DEFINE R == OpToRel(<, Nat)
  <2>1. IsWellFoundedOn(R, Nat) BY <1>1
  <2> HIDE DEF R
  <2>2. PICK x \in T : \A y \in T : ~ (<<y, x>> \in R) BY <2>1, WFMin
  <2> QED BY <2>2 DEF R
<1>3. ASSUME NEW y \in T PROVE x <= y
  <2>1. x \in Nat /\ y \in Nat OBVIOUS
  <2>2. <<y, x>> \in OpToRel(<, Nat) <=> y < x BY <2>1 DEF OpToRel
  <2>3. ~ (y < x) BY <1>2, <2>2, Zenon
  <2> QED BY <2>1, <2>3
<1> QED BY <1>3

(* Induction, with the property as the set of the numbers that have it. *)
LEMMA SetInduction ==
  ASSUME NEW S, 0 \in S, \A n \in Nat : n \in S => n + 1 \in S
  PROVE  Nat \subseteq S
<1> SUFFICES ASSUME Nat \ S # {} PROVE FALSE OBVIOUS
<1>1. PICK x \in Nat \ S : \A y \in Nat \ S : x <= y BY LeastElement
<1>2. x # 0 /\ x - 1 \in Nat OBVIOUS
<1>3. x - 1 \in S BY <1>1, <1>2
<1> QED BY <1>2, <1>3

(* A function applied repeatedly. *)
Iterates(g, s, F, S) == g \in [Nat -> S] /\ g[0] = s /\ \A i \in Nat : g[i + 1] = F[g[i]]

(* A function applied again and again, as a function of the number of times. *)
LEMMA Recursion ==
  ASSUME NEW S, NEW s \in S, NEW F \in [S -> S]
  PROVE  \E g : Iterates(g, s, F, S)
<1> DEFINE Runs(n, g) == g \in [0 .. n -> S] /\ g[0] = s /\ \A i \in 0 .. n - 1 : g[i + 1] = F[g[i]]
           T == {n \in Nat : \E g : Runs(n, g)}
<1>1. Nat \subseteq T
  <2>1. Runs(0, [i \in 0 .. 0 |-> s]) OBVIOUS
  <2>2. ASSUME NEW n \in Nat, n \in T PROVE n + 1 \in T
    <3>1. PICK g : Runs(n, g) BY <2>2
    <3> DEFINE h == [i \in 0 .. n + 1 |-> IF i <= n THEN g[i] ELSE F[g[n]]]
    <3>2. h \in [0 .. n + 1 -> S] BY <3>1
    <3>3. h[0] = s BY <3>1
    <3>4. ASSUME NEW i \in 0 .. n PROVE h[i + 1] = F[h[i]]
      <4>1. CASE i < n BY <3>1, <4>1
      <4>2. CASE i = n BY <3>1, <4>2
      <4> QED BY <4>1, <4>2
    <3>5. Runs(n + 1, h) BY <3>2, <3>3, <3>4
    <3> QED BY <3>5
  <2>3. 0 \in T BY <2>1
  <2> HIDE DEF T
  <2> QED BY <2>2, <2>3, SetInduction
<1> DEFINE G(n) == CHOOSE g : Runs(n, g)
<1>2. ASSUME NEW n \in Nat PROVE Runs(n, G(n))
  BY <1>1
<1>3. ASSUME NEW n \in Nat, NEW i \in 0 .. n PROVE G(n)[i] = G(i)[i]
  <2> DEFINE A == {j \in Nat : j <= i => G(n)[j] = G(i)[j]}
  <2> HIDE DEF G
  <2>1. 0 \in A BY <1>2
  <2>2. ASSUME NEW j \in Nat, j \in A PROVE j + 1 \in A
    BY <1>2, <2>2
  <2>3. Nat \subseteq A
    <3> HIDE DEF A
    <3> QED BY <2>1, <2>2, SetInduction
  <2> QED BY <2>3
<1> DEFINE f == [n \in Nat |-> G(n)[n]]
<1> HIDE DEF G
<1>4. f \in [Nat -> S] BY <1>2
<1>5. f[0] = s BY <1>2
<1>6. ASSUME NEW i \in Nat PROVE f[i + 1] = F[f[i]]
  <2>1. G(i + 1)[i + 1] = F[G(i + 1)[i]] BY <1>2
  <2> QED BY <2>1, <1>3
<1> HIDE DEF f
<1> QED BY <1>4, <1>5, <1>6 DEF Iterates

(* A loop of N rounds: round i leads from P[i] into P[i + 1]. *)
Leads(P, F) == \A i \in Nat : \A x \in P[i] : F[x] \in P[i + 1]

Unrolled(f, P, s, F, N) ==
  /\ f = [i \in 0 .. N |-> IF i = 0 THEN s ELSE F[f[i - 1]]]
  /\ \A i \in 0 .. N : f[i] \in P[i]

(* N rounds from a state of P[0] lead into P[N]. *)
LEMMA Rounds ==
  ASSUME NEW P, NEW s \in P[0], NEW F, Leads(P, F), NEW N \in Nat
  PROVE  \E f : Unrolled(f, P, s, F, N)
<1> DEFINE S == UNION {P[i] : i \in Nat}
           R == [x \in S |-> F[x]]
<1>0. \A i \in Nat : \A x \in P[i] : F[x] \in P[i + 1] BY DEF Leads
<1>1. s \in S OBVIOUS
<1>2. R \in [S -> S]
  <2>1. ASSUME NEW x \in S PROVE F[x] \in S
    <3>1. PICK i \in Nat : x \in P[i] OBVIOUS
    <3>2. F[x] \in P[i + 1] BY <1>0, <3>1
    <3>3. i + 1 \in Nat OBVIOUS
    <3> QED BY <3>2, <3>3
  <2> HIDE DEF S
  <2> QED BY <2>1
<1>3. PICK g \in [Nat -> S] : g[0] = s /\ \A i \in Nat : g[i + 1] = R[g[i]]
  <2> HIDE DEF S, R
  <2>1. \E g : Iterates(g, s, R, S) BY <1>1, <1>2, Recursion
  <2> QED BY <2>1 DEF Iterates
<1>4. \A i \in Nat : g[i + 1] = F[g[i]]
  <2> HIDE DEF S
  <2> QED BY <1>3
<1>5. \A i \in Nat : g[i] \in P[i]
  <2> DEFINE A == {i \in Nat : g[i] \in P[i]}
  <2>1. 0 \in A BY <1>3
  <2>2. ASSUME NEW n \in Nat, n \in A PROVE n + 1 \in A
    <3>1. g[n] \in P[n] BY <2>2
    <3>2. F[g[n]] \in P[n + 1] BY <1>0, <3>1
    <3> QED BY <1>4, <3>2
  <2> HIDE DEF A
  <2>3. Nat \subseteq A BY <2>1, <2>2, SetInduction
  <2> QED BY <2>3 DEF A
<1> DEFINE f == [i \in 0 .. N |-> g[i]]
<1> HIDE DEF S, R
<1>6. f = [i \in 0 .. N |-> IF i = 0 THEN s ELSE F[f[i - 1]]]
  <2>1. ASSUME NEW i \in 0 .. N PROVE g[i] = IF i = 0 THEN s ELSE F[f[i - 1]]
    <3>1. CASE i = 0 BY <1>3, <3>1
    <3>2. CASE i # 0
      <4>1. i - 1 \in Nat /\ i - 1 \in 0 .. N /\ (i - 1) + 1 = i BY <3>2
      <4>2. g[(i - 1) + 1] = F[g[i - 1]] BY <1>4, <4>1
      <4> QED BY <3>2, <4>1, <4>2
    <3> QED BY <3>1, <3>2
  <2> QED BY <2>1
<1>7. \A i \in 0 .. N : f[i] \in P[i] BY <1>5
<1> HIDE DEF f
<1> QED BY <1>6, <1>7 DEF Unrolled

-----------------------------------------------------------------------------
(* Quotients and remainders: the arithmetic of the page masks. *)

(* The quotient and the remainder of an integer. *)
LEMMA DivMod ==
  ASSUME NEW a \in Int, NEW d \in Nat \ {0}
  PROVE  /\ a \div d \in Int /\ a % d \in 0 .. d - 1
         /\ a = d * (a \div d) + (a % d)
OBVIOUS

(* The quotient is the only one. *)
LEMMA Between ==
  ASSUME NEW d \in Nat \ {0}, NEW q \in Int, NEW p \in Int, NEW r \in 0 .. d - 1,
         NEW s \in 0 .. d - 1,
         d * q + r = d * p + s
  PROVE  q = p
<1>1. ASSUME NEW x \in Int, NEW y \in Int, x < y PROVE d * y >= d * x + d
  <2>1. y = x + 1 + (y - x - 1) /\ y - x - 1 \in Nat BY <1>1
  <2>2. d * (y - x - 1) >= 0 BY <2>1
  <2>3. d * y = d * x + d + d * (y - x - 1) BY SMT
  <2> QED BY <2>2, <2>3
<1>2. ~(q < p) BY <1>1
<1>3. ~(p < q) BY <1>1
<1> QED BY <1>2, <1>3

(* The quotient and the remainder of a number given by them. *)
LEMMA DivModIs ==
  ASSUME NEW d \in Nat \ {0}, NEW q \in Int, NEW r \in 0 .. d - 1
  PROVE  (d * q + r) \div d = q /\ (d * q + r) % d = r
<1> DEFINE a == d * q + r
<1>1. a \in Int BY SMT
<1>2. a \div d \in Int /\ a % d \in 0 .. d - 1 /\ a = d * (a \div d) + (a % d)
  <2> HIDE DEF a
  <2> QED BY <1>1, DivMod
<1>3. a \div d = q
  <2> DEFINE p == a \div d
             s == a % d
  <2>1. p \in Int /\ s \in 0 .. d - 1 /\ d * q + r = d * p + s BY <1>2
  <2> HIDE DEF p, s, a
  <2>2. q = p BY <2>1, Between
  <2> QED BY <2>2 DEF p
<1>4. a % d = r BY <1>2, <1>3
<1> QED BY <1>3, <1>4

(* A number without a remainder is a multiple. *)
LEMMA Multiples ==
  ASSUME NEW d \in Nat \ {0}, NEW a \in Int, a % d = 0
  PROVE  \E q \in Int : a = d * q
BY DivMod

(* A multiple of d has no remainder. *)
LEMMA MultipleIs ==
  ASSUME NEW d \in Nat \ {0}, NEW q \in Int
  PROVE  (d * q) % d = 0
<1>1. 0 \in 0 .. d - 1 OBVIOUS
<1>2. (d * q + 0) % d = 0 BY <1>1, DivModIs
<1>3. d * q + 0 = d * q BY SMT
<1> QED BY <1>2, <1>3

(* The sum of a multiple and a number. *)
LEMMA PlusMultiple ==
  ASSUME NEW d \in Nat \ {0}, NEW a \in Int, NEW b \in Int, a % d = 0
  PROVE  (a + b) % d = b % d
<1>1. PICK q \in Int : a = d * q BY Multiples
<1> DEFINE p == b \div d
           r == b % d
<1>2. p \in Int /\ r \in 0 .. d - 1 /\ b = d * p + r BY DivMod
<1> HIDE DEF p, r
<1>3. a + b = d * (q + p) + r BY <1>1, <1>2, SMT
<1>4. (d * (q + p) + r) % d = r BY <1>2, DivModIs
<1> QED BY <1>3, <1>4 DEF r

(* A multiple of d below another one is d below it. *)
LEMMA MultiplesApart ==
  ASSUME NEW d \in Nat \ {0}, NEW a \in Int, NEW b \in Int, a % d = 0, b % d = 0, a < b
  PROVE  a + d <= b
<1>1. PICK q \in Int : a = d * q BY Multiples
<1>2. PICK p \in Int : b = d * p BY Multiples
<1>3. q < p
  <2>1. CASE p <= q
    <3>1. q - p \in Nat BY <2>1
    <3>2. d * (q - p) >= 0 BY <3>1
    <3>3. a - b = d * (q - p) BY <1>1, <1>2, SMT
    <3> QED BY <3>2, <3>3
  <2> QED BY <2>1
<1>4. p - q - 1 \in Nat BY <1>3
<1>5. d * (p - q - 1) >= 0 BY <1>4
<1>6. b = a + d + d * (p - q - 1) BY <1>1, <1>2, SMT
<1> QED BY <1>5, <1>6

-----------------------------------------------------------------------------
(* The operators of TLBTree on a tree of the right type: what each sets, and *)
(* that it sets nothing else.                                                *)

(* The type of the trees. *)
TreeType ==
  [root   : [Trees -> Nodes],
   child  : [Nodes -> [Sides -> Nodes \cup {NULL}]],
   parent : [Nodes -> Nodes \cup {NULL}],
   color  : [Nodes -> {RED, BLACK}]]

(* The nil of a tree is a node and no slot. *)
LEMMA NilNodes ==
  ASSUME NEW k \in Trees
  PROVE  Nil[k] \in Nodes /\ Nil[k] \notin Slots
BY NodesAssumption DEF Trees, Nil, Nodes

(* The two sides. *)
LEMMA Others ==
  \A s \in Sides : Other(s) \in Sides /\ Other(s) # s /\ Other(Other(s)) = s
    /\ Sides = {s, Other(s)}
BY DEF Other, Sides

(* What two trees may agree on. *)
SameRoots(x, t) == \A j \in Trees : Root(x, j) = Root(t, j)
SameChildren(x, t) == \A i \in Nodes : \A s \in Sides : Child(x, i, s) = Child(t, i, s)
SameParents(x, t) == \A i \in Nodes : Parent(x, i) = Parent(t, i)
SameColors(x, t) == \A i \in Nodes : Color(x, i) = Color(t, i)

(* What the setters of the model do, one predicate for each: x is t with the *)
(* one field set.                                                            *)
RootSet(x, t, k, n) ==
  /\ x \in TreeType
  /\ \A j \in Trees : Root(x, j) = IF j = k THEN n ELSE Root(t, j)
  /\ SameChildren(x, t)
  /\ SameParents(x, t)
  /\ SameColors(x, t)

ParentSet(x, t, n, m) ==
  /\ x \in TreeType
  /\ SameRoots(x, t)
  /\ SameChildren(x, t)
  /\ \A i \in Nodes : Parent(x, i) = IF i = n THEN m ELSE Parent(t, i)
  /\ SameColors(x, t)

ChildSet(x, t, n, side, m) ==
  /\ x \in TreeType
  /\ SameRoots(x, t)
  /\ \A i \in Nodes : \A s \in Sides : Child(x, i, s) = IF i = n /\ s = side THEN m
       ELSE Child(t, i, s)
  /\ SameParents(x, t)
  /\ SameColors(x, t)

ChildrenSet(x, t, n, m) ==
  /\ x \in TreeType
  /\ SameRoots(x, t)
  /\ \A i \in Nodes : \A s \in Sides : Child(x, i, s) = IF i = n THEN m ELSE Child(t, i, s)
  /\ SameParents(x, t)
  /\ SameColors(x, t)

Painted(x, t, n, c) ==
  /\ x \in TreeType
  /\ SameRoots(x, t)
  /\ SameChildren(x, t)
  /\ SameParents(x, t)
  /\ \A i \in Nodes : Color(x, i) = IF i = n THEN c ELSE Color(t, i)

(* Setting the root. *)
LEMMA SetRootIs ==
  ASSUME NEW t \in TreeType, NEW k \in Trees, NEW n \in Nodes
  PROVE  RootSet(SetRoot(t, k, n), t, k, n)
BY DEF SetRoot, TreeType, Root, Child, Parent, Color, RootSet, SameChildren, SameParents,
   SameColors

(* Setting a parent. *)
LEMMA SetParentIs ==
  ASSUME NEW t \in TreeType, NEW n \in Nodes, NEW m \in Nodes \cup {NULL}
  PROVE  ParentSet(SetParent(t, n, m), t, n, m)
BY DEF SetParent, TreeType, Root, Child, Parent, Color, ParentSet, SameRoots, SameChildren,
   SameColors

(* Setting a colour. *)
LEMMA PaintIs ==
  ASSUME NEW t \in TreeType, NEW n \in Nodes, NEW c \in {RED, BLACK}
  PROVE  Painted(Paint(t, n, c), t, n, c)
BY DEF Paint, TreeType, Root, Child, Parent, Color, Painted, SameRoots, SameChildren,
   SameParents

(* Setting a child. *)
LEMMA SetChildIs ==
  ASSUME NEW t \in TreeType, NEW n \in Nodes, NEW side \in Sides, NEW m \in Nodes
  PROVE  ChildSet(SetChild(t, n, side, m), t, n, side, m)
BY DEF SetChild, TreeType, Root, Child, Parent, Color, ChildSet, SameRoots, SameParents,
   SameColors

(* Setting both children. *)
LEMMA SetChildrenIs ==
  ASSUME NEW t \in TreeType, NEW n \in Nodes, NEW m \in Nodes \cup {NULL}
  PROVE  ChildrenSet(SetChildren(t, n, [side \in Sides |-> m]), t, n, m)
BY DEF SetChildren, TreeType, Root, Child, Parent, Color, ChildrenSet, SameRoots, SameParents,
   SameColors

(* The types of the fields. *)
LEMMA Typed ==
  ASSUME NEW t \in TreeType
  PROVE  /\ \A k \in Trees : Root(t, k) \in Nodes
         /\ \A n \in Nodes : Parent(t, n) \in Nodes \cup {NULL} /\ Color(t, n) \in {RED, BLACK}
         /\ \A n \in Nodes : \A s \in Sides : Child(t, n, s) \in Nodes \cup {NULL}
BY DEF TreeType, Root, Child, Parent, Color

(* The side of its parent that Transplant and Rotate take a node to be on. *)
SideIn(t, p, n) == IF n = Child(t, p, "left") THEN "left" ELSE "right"

(* The tree x is t with v linked to the parent p of u in place of u. *)
Transplanted(x, t, k, u, v, p) ==
  /\ x \in TreeType
  /\ SameColors(x, t)
  /\ \A j \in Trees : Root(x, j) = IF j = k /\ p = Nil[k] THEN v ELSE Root(t, j)
  /\ \A m \in Nodes : Parent(x, m) = IF m = v THEN p ELSE Parent(t, m)
  /\ \A m \in Nodes : \A s \in Sides : Child(x, m, s) =
               IF p # Nil[k] /\ m = p /\ s = SideIn(t, p, u) THEN v ELSE Child(t, m, s)

(* Transplant does that. *)
LEMMA TransplantIs ==
  ASSUME NEW t \in TreeType, NEW k \in Trees, NEW u \in Nodes, NEW v \in Nodes,
         Parent(t, u) \in Nodes
  PROVE  Transplanted(Transplant(t, k, u, v), t, k, u, v, Parent(t, u))
<1> DEFINE p == Parent(t, u)
           side == SideIn(t, p, u)
           q == IF p = Nil[k] THEN SetRoot(t, k, v) ELSE SetChild(t, p, side, v)
           x == Transplant(t, k, u, v)
<1>0. p \in Nodes OBVIOUS
<1>1. x = SetParent(q, v, p) BY DEF Transplant, SideIn
<1>2. side \in Sides BY DEF Sides, SideIn
<1> HIDE DEF side, x, p
<1>3. /\ q \in TreeType
      /\ SameColors(q, t) /\ SameParents(q, t)
      /\ \A j \in Trees : Root(q, j) = IF j = k /\ p = Nil[k] THEN v ELSE Root(t, j)
      /\ \A m \in Nodes : \A s \in Sides :
           Child(q, m, s) = IF p # Nil[k] /\ m = p /\ s = side THEN v ELSE Child(t, m, s)
  <2>1. CASE p = Nil[k]
    <3>1. q = SetRoot(t, k, v) BY <2>1
    <3> HIDE DEF q
    <3>2. RootSet(q, t, k, v) BY <3>1, SetRootIs
    <3> QED BY <2>1, <3>2 DEF RootSet, SameChildren
  <2>2. CASE p # Nil[k]
    <3>1. q = SetChild(t, p, side, v) BY <2>2
    <3> HIDE DEF q
    <3>2. ChildSet(q, t, p, side, v) BY <1>0, <1>2, <3>1, SetChildIs
    <3> QED BY <2>2, <3>2 DEF ChildSet, SameRoots
  <2> QED BY <2>1, <2>2
<1> HIDE DEF q
<1>4. ParentSet(x, q, v, p) BY <1>0, <1>1, <1>3, SetParentIs
<1>5. Transplanted(x, t, k, u, v, p)
  BY <1>3, <1>4 DEF Transplanted, ParentSet, SameRoots, SameChildren, SameColors, SameParents,
     side
<1> QED BY <1>5 DEF x, p

(* The tree x is t rotated at n: its child y takes its place, and the child *)
(* inner of y goes below n.                                                 *)
Rotated(x, t, k, n, side, y, inner, p) ==
  /\ x \in TreeType
  /\ SameColors(x, t)
  /\ \A j \in Trees : Root(x, j) = IF j = k /\ p = Nil[k] THEN y ELSE Root(t, j)
  /\ \A m \in Nodes : Parent(x, m) =
                  IF m = n THEN y ELSE IF m = y THEN p
                  ELSE IF m = inner /\ inner # Nil[k] THEN n ELSE Parent(t, m)
  /\ \A m \in Nodes : \A s \in Sides : Child(x, m, s) =
                  IF m = n /\ s = Other(side) THEN inner
                  ELSE IF m = y /\ s = side THEN n
                  ELSE IF m = p /\ p # Nil[k] /\ s = SideIn(t, p, n) THEN y
                  ELSE Child(t, m, s)

(* Rotate does that, for either side. *)
LEMMA RotateIs ==
  ASSUME NEW t \in TreeType, NEW k \in Trees, NEW n \in Slots, NEW side \in Sides,
         NEW y \in Slots, NEW inner \in Nodes, NEW p \in Nodes,
         y = Child(t, n, Other(side)), inner = Child(t, y, side), p = Parent(t, n),
         n # y, inner # n, inner # y, p # n, p # y
  PROVE  Rotated(Rotate(t, k, n, side), t, k, n, side, y, inner, p)
<1>0. Slots \subseteq Nodes BY DEF Nodes
<1> DEFINE r == SetChild(t, n, Other(side), inner)
           q == IF inner = Nil[k] THEN r ELSE SetParent(r, inner, n)
           w == Transplant(q, k, n, y)
           v == SetChild(w, y, side, n)
           x == Rotate(t, k, n, side)
<1>1. x = SetParent(v, n, y) BY DEF Rotate
<1>2. ChildSet(r, t, n, Other(side), inner) BY <1>0, Others, SetChildIs
<1> HIDE DEF r
<1>3. /\ q \in TreeType
      /\ SameColors(q, t) /\ SameRoots(q, t) /\ SameChildren(q, r)
      /\ \A m \in Nodes : Parent(q, m) = IF m = inner /\ inner # Nil[k] THEN n ELSE Parent(t, m)
  <2>1. CASE inner = Nil[k]
    BY <1>2, <2>1 DEF ChildSet, SameColors, SameRoots, SameChildren, SameParents
  <2>2. CASE inner # Nil[k]
    <3>1. q = SetParent(r, inner, n) BY <2>2
    <3> HIDE DEF q
    <3>2. ParentSet(q, r, inner, n) BY <1>0, <1>2, <3>1, SetParentIs DEF ChildSet
    <3> QED
      BY <1>2, <2>2, <3>2 DEF ParentSet, ChildSet, SameColors, SameRoots, SameChildren,
         SameParents
  <2> QED BY <2>1, <2>2
<1> HIDE DEF q
<1>4. SideIn(q, p, n) = SideIn(t, p, n)
  BY <1>2, <1>3 DEF Sides, SideIn, ChildSet, SameChildren
<1>5. Parent(q, n) = p
  <2>1. \A m \in Nodes : Parent(q, m) = IF m = inner /\ inner # Nil[k] THEN n ELSE Parent(t, m)
    BY <1>3
  <2> QED BY <1>0, <2>1
<1>6. Transplanted(w, q, k, n, y, p) BY <1>0, <1>3, <1>5, TransplantIs
<1> HIDE DEF w
<1>7. ChildSet(v, w, y, side, n) BY <1>0, <1>6, SetChildIs DEF Transplanted
<1> HIDE DEF v
<1>8. ParentSet(x, v, n, y) BY <1>0, <1>1, <1>7, SetParentIs DEF ChildSet
<1> HIDE DEF x
<1>9. \A m \in Nodes : Parent(x, m) =
                  IF m = n THEN y ELSE IF m = y THEN p
                  ELSE IF m = inner /\ inner # Nil[k] THEN n ELSE Parent(t, m)
  BY <1>0, <1>3, <1>6, <1>7, <1>8 DEF ParentSet, ChildSet, Transplanted, SameParents
<1>10. \A m \in Nodes : \A s \in Sides : Child(x, m, s) =
                  IF m = n /\ s = Other(side) THEN inner
                  ELSE IF m = y /\ s = side THEN n
                  ELSE IF m = p /\ p # Nil[k] /\ s = SideIn(t, p, n) THEN y
                  ELSE Child(t, m, s)
  BY <1>0, <1>2, <1>3, <1>4, <1>6, <1>7, <1>8 DEF ParentSet, ChildSet, Transplanted,
     SameChildren
<1>11. x \in TreeType /\ SameColors(x, t)
       /\ \A j \in Trees : Root(x, j) = IF j = k /\ p = Nil[k] THEN y ELSE Root(t, j)
  BY <1>3, <1>6, <1>7, <1>8 DEF ParentSet, ChildSet, Transplanted, SameColors, SameRoots
<1>12. Rotated(x, t, k, n, side, y, inner, p) BY <1>9, <1>10, <1>11 DEF Rotated
<1> QED BY <1>12 DEF x

-----------------------------------------------------------------------------
(* The shape of a tree.  D gives for every node the set of the nodes below it *)
(* (itself included); the order of the keys is that of a search tree.         *)

(* The nodes below n. *)
Sub(D, n) == D[n]

(* Node a lies on side s of node b in the order of the keys. *)
Beyond(key, s, a, b) == IF s = "left" THEN key[a] < key[b] ELSE key[b] < key[a]

(* The nodes of tree k. *)
Members(t, k, D) == Sub(D, Root(t, k))

(* Node n of tree k. *)
NodeOK(t, k, D, key, n) ==
  /\ n \in Sub(D, n)
  /\ Sub(D, n) \subseteq Members(t, k, D)
  /\ \A m \in Sub(D, n) : m = n \/ \E s \in Sides : m \in Sub(D, Child(t, n, s))
  /\ \A s \in Sides :
       /\ Child(t, n, s) = Nil[k] \/ (Child(t, n, s) \in Sub(D, n) /\ Parent(t, Child(t, n, s)) = n)
       /\ Sub(D, Child(t, n, s)) \subseteq Sub(D, n)
       /\ \A m \in Sub(D, Child(t, n, s)) : Beyond(key, s, m, n)

(* Tree k is a search tree on its members: what is below a node is below one *)
(* of its children or the node itself, links go both ways, and the root's    *)
(* parent is nil.                                                            *)
Shape(t, k, D, key) ==
  /\ t \in TreeType
  /\ key \in [Slots -> Int]
  /\ \A n \in Nodes : Sub(D, n) \subseteq Slots
  /\ Sub(D, Nil[k]) = {}
  /\ \/ Root(t, k) = Nil[k]
     \/ Root(t, k) \in Members(t, k, D) /\ Parent(t, Root(t, k)) = Nil[k]
  /\ \A n \in Members(t, k, D) : NodeOK(t, k, D, key, n)
  /\ \A n \in Members(t, k, D) : n # Root(t, k) =>
       /\ Parent(t, n) \in Members(t, k, D)
       /\ \E s \in Sides : Child(t, Parent(t, n), s) = n

(* Either side gives a strict order, the converse of the other's. *)
LEMMA BeyondFacts ==
  ASSUME NEW key \in [Slots -> Int]
  PROVE  /\ \A s \in Sides : \A a, b \in Slots :
              Beyond(key, s, a, b) <=> Beyond(key, Other(s), b, a)
         /\ \A s \in Sides : \A a, b, c \in Slots : Beyond(key, s, a, b)
              /\ Beyond(key, s, b, c) => Beyond(key, s, a, c)
         /\ \A s \in Sides : \A a \in Slots : ~Beyond(key, s, a, a)
BY DEF Beyond, Sides, Other

(* What the links of a node say of its parent and its children. *)
Kin(t, k, D, key, n) ==
  /\ n \in Slots /\ n \in Nodes /\ n # Nil[k]
  /\ Parent(t, n) \in Nodes /\ Parent(t, n) # n
  /\ Parent(t, n) = Nil[k] <=> n = Root(t, k)
  /\ Parent(t, n) # Nil[k] => /\ Parent(t, n) \in Members(t, k, D)
                              /\ n \in Sub(D, Parent(t, n))
                              /\ \E s \in Sides : Child(t, Parent(t, n), s) = n
  /\ \A s \in Sides :
       /\ Child(t, n, s) \in Nodes
       /\ Child(t, n, s) # n
       /\ Child(t, n, s) # Parent(t, n) \/ Child(t, n, s) = Nil[k]
       /\ Child(t, n, s) # Nil[k] =>
            /\ Child(t, n, s) \in Members(t, k, D)
            /\ Child(t, n, s) \in Sub(D, Child(t, n, s))
            /\ Parent(t, Child(t, n, s)) = n
            /\ Child(t, n, Other(s)) # Child(t, n, s)
            /\ Child(t, n, s) # Root(t, k)
            /\ Beyond(key, s, Child(t, n, s), n)

(* The links of a node of a tree. *)
LEMMA Family ==
  ASSUME NEW t, NEW k \in Trees, NEW D, NEW key, Shape(t, k, D, key),
         NEW n \in Members(t, k, D)
  PROVE  Kin(t, k, D, key, n)
<1>0. Nil[k] \in Nodes /\ Nil[k] \notin Slots /\ Slots \subseteq Nodes BY NilNodes DEF Nodes
<1>1. Root(t, k) \in Nodes BY Typed DEF Shape
<1>2. n \in Slots BY <1>1 DEF Shape, Members
<1>3. NodeOK(t, k, D, key, n) BY DEF Shape
<1>4. Root(t, k) # Nil[k] /\ Root(t, k) \in Members(t, k, D) /\ Parent(t, Root(t, k)) = Nil[k]
  BY DEF Shape, Members
<1>5. ASSUME NEW s \in Sides, Child(t, n, s) # Nil[k]
      PROVE  /\ Child(t, n, s) \in Members(t, k, D)
             /\ Child(t, n, s) \in Sub(D, Child(t, n, s))
             /\ Parent(t, Child(t, n, s)) = n
             /\ Beyond(key, s, Child(t, n, s), n)
             /\ Child(t, n, s) \in Slots
             /\ Child(t, n, s) # n
             /\ Child(t, n, s) # Root(t, k)
  <2> DEFINE c == Child(t, n, s)
  <2>1. c \in Members(t, k, D) /\ Parent(t, c) = n BY <1>3, <1>5 DEF NodeOK
  <2>2. NodeOK(t, k, D, key, c) BY <2>1 DEF Shape
  <2>3. c \in Sub(D, c) BY <2>2 DEF NodeOK
  <2>4. Beyond(key, s, c, n) BY <1>3, <2>3 DEF NodeOK
  <2>5. c \in Slots BY <1>1, <2>1 DEF Shape, Members
  <2>6. c # n BY <1>2, <2>4, <2>5, BeyondFacts DEF Shape
  <2>7. c # Root(t, k) BY <1>0, <1>2, <1>4, <2>1
  <2> QED BY <2>1, <2>3, <2>4, <2>5, <2>6, <2>7
<1>6. ASSUME NEW s \in Sides,
             Child(t, n, s) # Nil[k] PROVE Child(t, n, Other(s)) # Child(t, n, s)
  <2>1. CASE Child(t, n, Other(s)) = Nil[k] BY <2>1, <1>6
  <2>2. CASE Child(t, n, Other(s)) # Nil[k]
    <3> DEFINE c == Child(t, n, s)
               d == Child(t, n, Other(s))
    <3>1. Beyond(key, s, c, n) /\ c \in Slots BY <1>5, <1>6
    <3>2. Beyond(key, Other(s), d, n) /\ d \in Slots BY <1>5, <2>2, Others
    <3>3. Beyond(key, s, n, d) BY <1>2, <3>2, BeyondFacts DEF Shape
    <3> HIDE DEF c, d
    <3>4. Beyond(key, s, c, d) BY <1>2, <3>1, <3>2, <3>3, BeyondFacts DEF Shape
    <3>5. c # d BY <3>1, <3>4, BeyondFacts DEF Shape
    <3> QED BY <3>5 DEF c, d
  <2> QED BY <2>1, <2>2
<1>7. \A s \in Sides : Child(t, n, s) \in Nodes BY <1>0, <1>5
<1>8. \A s \in Sides : Child(t, n, s) # n BY <1>0, <1>2, <1>5
<1>9. CASE n = Root(t, k)
  BY <1>0, <1>2, <1>4, <1>5, <1>6, <1>7, <1>8, <1>9 DEF Kin
<1>10. CASE n # Root(t, k)
  <2> DEFINE p == Parent(t, n)
  <2>1. p \in Members(t, k, D) /\ \E s \in Sides : Child(t, p, s) = n BY <1>10 DEF Shape
  <2>2. NodeOK(t, k, D, key, p) BY <2>1 DEF Shape
  <2>3. p \in Slots BY <1>1, <2>1 DEF Shape, Members
  <2>4. n \in Sub(D, n) BY <1>3 DEF NodeOK
  <2>5. PICK s \in Sides : Child(t, p, s) = n BY <2>1
  <2>6. Beyond(key, s, n, p) /\ n \in Sub(D, p) BY <2>2, <2>4, <2>5 DEF NodeOK
  <2>7. p # n BY <1>2, <2>3, <2>6, BeyondFacts DEF Shape
  <2>8. ASSUME NEW r \in Sides, Child(t, n, r) = p, p # Nil[k] PROVE FALSE
    <3>1. Beyond(key, r, p, n) BY <1>5, <2>8
    <3>2. p \in Sub(D, n) BY <1>3, <2>8 DEF NodeOK
    <3>3. r = s \/ r = Other(s) BY Others
    <3>4. CASE r = s
      BY <1>2, <2>3, <2>6, <3>1, <3>4, BeyondFacts DEF Shape
    <3>5. CASE r = Other(s)
      <4>1. Sub(D, n) \subseteq Sub(D, p) BY <2>2, <2>5 DEF NodeOK
      <4>2. \A m \in Sub(D, n) : Beyond(key, s, m, p) BY <2>2, <2>5 DEF NodeOK
      <4>3. Beyond(key, s, p, p) BY <3>2, <4>2
      <4> QED BY <2>3, <4>3, BeyondFacts DEF Shape
    <3> QED BY <3>3, <3>4, <3>5
  <2> QED BY <1>0, <1>2, <1>5, <1>6, <1>7, <1>8, <1>10, <2>1, <2>3, <2>6, <2>7, <2>8 DEF Kin
<1> QED BY <1>9, <1>10

-----------------------------------------------------------------------------
(* A rotation keeps the shape. *)

(* The nodes below each node after a rotation. *)
RotatedSub(D, n, y, side, t) ==
  [m \in Nodes |-> IF m = y THEN Sub(D, n)
                   ELSE IF m = n THEN {n} \cup Sub(D, Child(t, n, side))
                     \cup Sub(D, Child(t, y, side))
                   ELSE Sub(D, m)]

(* A rotation of a node that has a child on the other side keeps the shape, *)
(* the members and the order of the keys.                                   *)
LEMMA RotateShape ==
  ASSUME NEW t, NEW k \in Trees, NEW D, NEW key, Shape(t, k, D, key),
         NEW n \in Members(t, k, D), NEW side \in Sides,
         NEW y, y = Child(t, n, Other(side)), y # Nil[k]
  PROVE  LET x == Rotate(t, k, n, side)
             E == RotatedSub(D, n, y, side, t)
         IN  /\ Shape(x, k, E, key)
             /\ Members(x, k, E) = Members(t, k, D)
             /\ Rotated(x, t, k, n, side, y, Child(t, y, side), Parent(t, n))
<1> DEFINE x == Rotate(t, k, n, side)
           E == RotatedSub(D, n, y, side, t)
           a == Child(t, n, side)
           b == Child(t, y, side)
           c == Child(t, y, Other(side))
           p == Parent(t, n)
           z == Nil[k]
           T == Members(t, k, D)
<1>0. z \in Nodes /\ z \notin Slots /\ Slots \subseteq Nodes BY NilNodes DEF Nodes
<1>1. t \in TreeType /\ key \in [Slots -> Int] /\ Root(t, k) \in Nodes BY Typed DEF Shape
<1>2. Kin(t, k, D, key, n) BY Family
<1>3. /\ y \in T /\ y # n /\ Parent(t, y) = n /\ y \in Sub(D, y) /\ y # Root(t, k)
      /\ Beyond(key, Other(side), y, n) /\ a # y /\ y # p
  BY <1>2, Others DEF Kin
<1>4. Kin(t, k, D, key, y) BY <1>3, Family
<1>5. b \in Nodes /\ b # y /\ c # y /\ c \in Nodes /\ y \in Slots
      /\ (b # z => b \in T /\ Parent(t, b) = y /\ b # c) /\ (c # z => c \in T /\ Parent(t, c) = y)
  BY <1>4, Others DEF Kin
<1>6. n \in Slots /\ p \in Nodes /\ p # n /\ b # n
  BY <1>0, <1>2, <1>3, <1>4 DEF Kin
<1>7. Rotated(x, t, k, n, side, y, b, p)
  BY <1>1, <1>2, <1>3, <1>4, <1>5, <1>6, RotateIs
<1>8. \A m \in Nodes : Sub(E, m) = IF m = y THEN Sub(D, n)
                   ELSE IF m = n THEN {n} \cup Sub(D, a) \cup Sub(D, b)
                   ELSE Sub(D, m)
  BY DEF Sub, RotatedSub
<1> HIDE DEF x, E
<1>9. Members(x, k, E) = T
  <2>1. CASE p = z
    <3>1. Root(x, k) = y /\ Root(t, k) = n BY <1>2, <1>7, <2>1 DEF Rotated, Kin
    <3> QED BY <1>0, <1>5, <1>8, <3>1 DEF Members
  <2>2. CASE p # z
    <3>1. Root(x, k) = Root(t, k) /\ Root(t, k) # n BY <1>2, <1>7, <2>2 DEF Rotated, Kin
    <3> QED BY <1>1, <1>3, <1>8, <3>1 DEF Members
  <2> QED BY <2>1, <2>2
<1>10. NodeOK(t, k, D, key, n) /\ NodeOK(t, k, D, key, y) BY <1>3 DEF Shape
<1>11. Sides = {side, Other(side)} /\ side # Other(side) /\ Other(side) \in Sides
         /\ Other(Other(side)) = side
  BY Others
<1>12. /\ Child(x, n, side) = a /\ Child(x, n, Other(side)) = b
       /\ Child(x, y, side) = n /\ Child(x, y, Other(side)) = c
  BY <1>0, <1>3, <1>5, <1>6, <1>7, <1>11 DEF Rotated
<1>13. /\ Sub(E, y) = Sub(D, n) /\ Sub(E, n) = {n} \cup Sub(D, a) \cup Sub(D, b)
       /\ Sub(E, a) = Sub(D, a) /\ Sub(E, b) = Sub(D, b) /\ Sub(E, c) = Sub(D, c)
  <2>1. a \in Nodes /\ a # n /\ a # y BY <1>2, <1>3 DEF Kin
  <2>2. c # n BY <1>0, <1>2, <1>4, <1>11 DEF Kin
  <2> QED BY <1>0, <1>3, <1>5, <1>6, <1>8, <2>1, <2>2
<1>14. /\ Parent(x, n) = y /\ Parent(x, y) = p
       /\ (b # z => Parent(x, b) = n) /\ (c # z => Parent(x, c) = y) /\ (a # z => Parent(x, a) = n)
  <2>1. Parent(x, n) = y /\ Parent(x, y) = p /\ (b # z => Parent(x, b) = n)
    BY <1>0, <1>3, <1>5, <1>6, <1>7 DEF Rotated
  <2>2. ASSUME c # z PROVE Parent(x, c) = y
    BY <1>0, <1>3, <1>5, <1>6, <1>7, <2>2 DEF Rotated
  <2>3. ASSUME a # z PROVE Parent(x, a) = n
    BY <1>2, <1>3, <1>4, <1>7, <2>3 DEF Rotated, Kin
  <2> QED BY <2>1, <2>2, <2>3
<1>15. /\ Sub(D, y) \subseteq Sub(D, n) /\ Sub(D, a) \subseteq Sub(D, n)
       /\ Sub(D, b) \subseteq Sub(D, y) /\ Sub(D, c) \subseteq Sub(D, y)
       /\ Sub(D, n) \subseteq T /\ n \in Sub(D, n) /\ y \in Sub(D, y)
  BY <1>10, <1>11 DEF NodeOK
<1>16. /\ \A m \in Sub(D, n) : m = n \/ m \in Sub(D, a) \/ m \in Sub(D, y)
       /\ \A m \in Sub(D, y) : m = y \/ m \in Sub(D, b) \/ m \in Sub(D, c)
  BY <1>10, <1>11 DEF NodeOK
<1>17. /\ \A m \in Sub(D, a) : Beyond(key, side, m, n)
       /\ \A m \in Sub(D, y) : Beyond(key, Other(side), m, n)
       /\ \A m \in Sub(D, b) : Beyond(key, side, m, y)
       /\ \A m \in Sub(D, c) : Beyond(key, Other(side), m, y)
  BY <1>10, <1>11 DEF NodeOK
<1>18. T \subseteq Slots BY <1>1 DEF Shape, Members
<1>19. NodeOK(x, k, E, key, y)
  <2>1. Beyond(key, side, n, y) BY <1>1, <1>3, <1>5, <1>6, BeyondFacts
  <2>2. \A m \in Sub(D, a) : Beyond(key, side, m, y)
    BY <1>1, <1>5, <1>6, <1>15, <1>17, <1>18, <2>1, BeyondFacts
  <2>3. \A m \in Sub(E, n) : Beyond(key, side, m, y) BY <1>13, <1>17, <2>1, <2>2
  <2>4. \A m \in Sub(E, c) : Beyond(key, Other(side), m, y) BY <1>13, <1>17
  <2>5. c = z \/ (c \in Sub(E, y) /\ Parent(x, c) = y)
    <3>1. c = z \/ c \in Sub(D, y) BY <1>10, <1>11 DEF NodeOK
    <3> QED BY <1>13, <1>14, <1>15, <3>1
  <2>6. n \in Sub(E, y) /\ y \in Sub(E, y) BY <1>13, <1>15
  <2>7. Sub(E, n) \subseteq Sub(E, y) /\ Sub(E, c) \subseteq Sub(E, y) /\ Sub(E, y) \subseteq T
    BY <1>13, <1>15
  <2>8. \A m \in Sub(E, y) : m = y \/ m \in Sub(E, n) \/ m \in Sub(E, c)
    BY <1>13, <1>16
  <2> QED BY <1>9, <1>11, <1>12, <1>14, <2>3, <2>4, <2>5, <2>6, <2>7, <2>8 DEF NodeOK
<1>20. NodeOK(x, k, E, key, n)
  <2>1. \A m \in Sub(E, b) : Beyond(key, Other(side), m, n) BY <1>13, <1>15, <1>17
  <2>2. \A m \in Sub(E, a) : Beyond(key, side, m, n) BY <1>13, <1>17
  <2>3. a = z \/ a \in Sub(E, n)
    <3>1. a = z \/ a \in Sub(D, a) BY <1>2 DEF Kin
    <3> QED BY <1>13, <3>1
  <2>4. b = z \/ b \in Sub(E, n)
    <3>1. b = z \/ b \in Sub(D, b) BY <1>4 DEF Kin
    <3> QED BY <1>13, <3>1
  <2>5. n \in Sub(E, n) /\ Sub(E, a) \subseteq Sub(E, n) /\ Sub(E, b) \subseteq Sub(E, n)
        /\ Sub(E, n) \subseteq T
    BY <1>13, <1>15
  <2>6. \A m \in Sub(E, n) : m = n \/ m \in Sub(E, a) \/ m \in Sub(E, b)
    BY <1>13
  <2> QED BY <1>9, <1>11, <1>12, <1>14, <2>1, <2>2, <2>3, <2>4, <2>5, <2>6 DEF NodeOK
<1>21. ASSUME NEW m \in T, m # y, m # n PROVE NodeOK(x, k, E, key, m)
  <2>1. NodeOK(t, k, D, key, m) /\ Kin(t, k, D, key, m) BY Family DEF Shape
  <2>2. Sub(E, m) = Sub(D, m) BY <1>8, <1>21, <2>1 DEF Kin
  <2>3. ASSUME NEW s \in Sides
        PROVE  /\ Sub(E, Child(x, m, s)) = Sub(D, Child(t, m, s))
               /\ Child(x, m, s) = Nil[k] \/ (Child(x, m, s) \in Sub(D, m)
                    /\ Parent(x, Child(x, m, s)) = m)
    <3>1. CASE Child(t, m, s) = n
      <4>1. p = m BY <1>0, <1>6, <2>1, <3>1 DEF Kin
      <4>2. s = SideIn(t, p, n)
        <5>1. \A r \in Sides : r # s => Child(t, m, r) # n
          BY <1>0, <1>6, <2>1, <3>1, Others DEF Kin
        <5> QED BY <3>1, <4>1, <5>1 DEF SideIn, Sides
      <4>3. Child(x, m, s) = y BY <1>7, <1>21, <2>1, <4>1, <4>2 DEF Rotated, Kin
      <4>4. Sub(D, n) \subseteq Sub(D, m) BY <2>1, <3>1 DEF NodeOK
      <4> QED BY <1>13, <1>14, <1>15, <3>1, <4>1, <4>3, <4>4
    <3>2. CASE Child(t, m, s) # n
      <4> DEFINE d == Child(t, m, s)
      <4>1. Child(x, m, s) = d
        <5>1. CASE m = p /\ p # z /\ s = SideIn(t, p, n)
          <6>1. \E r \in Sides : Child(t, p, r) = n BY <1>2, <5>1 DEF Kin
          <6>2. Child(t, p, SideIn(t, p, n)) = n BY <6>1 DEF Sides, SideIn
          <6> QED BY <3>2, <5>1, <6>2
        <5>2. CASE ~(m = p /\ p # z /\ s = SideIn(t, p, n))
          BY <1>7, <1>21, <2>1, <5>2 DEF Rotated, Kin
        <5> QED BY <5>1, <5>2
      <4>2. d \in Nodes BY <2>1 DEF Kin
      <4>3. d # y BY <1>0, <1>3, <1>5, <1>21, <2>1 DEF Kin
      <4>4. Sub(E, d) = Sub(D, d) BY <1>8, <3>2, <4>2, <4>3
      <4>5. d # z => Parent(t, d) = m /\ d \in Sub(D, m) BY <2>1 DEF Kin, NodeOK
      <4>6. d # z => d # b BY <1>5, <1>21, <4>5
      <4>7. d # z => Parent(x, d) = m BY <1>7, <3>2, <4>2, <4>3, <4>5, <4>6 DEF Rotated
      <4> QED BY <4>1, <4>4, <4>5, <4>7
    <3> QED BY <3>1, <3>2
  <2>4. /\ m \in Sub(D, m) /\ Sub(D, m) \subseteq T
        /\ \A j \in Sub(D, m) : j = m \/ \E s \in Sides : j \in Sub(D, Child(t, m, s))
        /\ \A s \in Sides : /\ Sub(D, Child(t, m, s)) \subseteq Sub(D, m)
                            /\ \A j \in Sub(D, Child(t, m, s)) : Beyond(key, s, j, m)
    BY <2>1 DEF NodeOK
  <2> QED BY <1>9, <2>2, <2>3, <2>4 DEF NodeOK
<1>22. ASSUME NEW m \in T, m # Root(x, k)
       PROVE Parent(x, m) \in T /\ \E s \in Sides : Child(x, Parent(x, m), s) = m
  <2>1. CASE m = n BY <1>3, <1>12, <1>14, <2>1
  <2>2. CASE m = y
    <3>1. p # z BY <1>7, <1>22, <2>2 DEF Rotated
    <3>2. p \in T /\ p # n /\ p # y /\ p \in Nodes BY <1>2, <1>3, <3>1 DEF Kin
    <3>3. SideIn(t, p, n) \in Sides BY DEF Sides, SideIn
    <3>4. Child(x, p, SideIn(t, p, n)) = y BY <1>7, <3>1, <3>2, <3>3 DEF Rotated
    <3> QED BY <1>14, <2>2, <3>2, <3>3, <3>4
  <2>3. CASE m # n /\ m # y
    <3> DEFINE q == Parent(t, m)
    <3>1. Kin(t, k, D, key, m) BY Family
    <3>2. m # Root(t, k)
      <4>1. CASE p = z BY <1>2, <2>3, <4>1 DEF Kin
      <4>2. CASE p # z BY <1>7, <1>22, <4>2 DEF Rotated
      <4> QED BY <4>1, <4>2
    <3>3. q # z /\ q \in T /\ \E s \in Sides : Child(t, q, s) = m BY <3>1, <3>2 DEF Kin
    <3>4. PICK s \in Sides : Child(t, q, s) = m BY <3>3
    <3>5. CASE m = b /\ b # z BY <1>2, <1>11, <1>12, <1>14, <3>5
    <3>6. CASE ~(m = b /\ b # z)
      <4>1. Parent(x, m) = q BY <1>7, <2>3, <3>1, <3>6 DEF Rotated, Kin
      <4>2. q \in Nodes BY <3>1 DEF Kin
      <4>3. ~(q = n /\ s = Other(side)) BY <2>3, <3>4
      <4>4. ~(q = y /\ s = side) BY <3>1, <3>4, <3>6 DEF Kin
      <4>5. ~(q = p /\ p # z /\ s = SideIn(t, p, n))
        <5>1. p # z => \E r \in Sides : Child(t, p, r) = n BY <1>2 DEF Kin
        <5>2. p # z => Child(t, p, SideIn(t, p, n)) = n BY <5>1 DEF Sides, SideIn
        <5> QED BY <2>3, <3>4, <5>2
      <4>6. Child(x, q, s) = m BY <1>7, <3>4, <4>2, <4>3, <4>4, <4>5 DEF Rotated
      <4> QED BY <3>3, <4>1, <4>6
    <3> QED BY <3>5, <3>6
  <2> QED BY <2>1, <2>2, <2>3
<1>23. Root(x, k) = z \/ (Root(x, k) \in T /\ Parent(x, Root(x, k)) = z)
  <2>1. CASE p = z
    BY <1>3, <1>7, <1>14, <2>1 DEF Rotated
  <2>2. CASE p # z
    <3>1. Root(x, k) = Root(t, k) /\ Root(t, k) # n BY <1>2, <1>7, <2>2 DEF Rotated, Kin
    <3>2. Root(t, k) \in T /\ Parent(t, Root(t, k)) = z /\ Root(t, k) # z
      BY <1>0, <1>18 DEF Shape, Members
    <3>3. Root(t, k) # b BY <1>0, <1>5, <1>18, <3>2
    <3> QED BY <1>1, <1>3, <1>7, <3>1, <3>2, <3>3 DEF Rotated
  <2> QED BY <2>1, <2>2
<1>24. (\A m \in Nodes : Sub(E, m) \subseteq Slots) /\ Sub(E, z) = {}
  <2>1. (\A m \in Nodes : Sub(D, m) \subseteq Slots) /\ Sub(D, z) = {} BY DEF Shape
  <2>2. a \in Nodes BY <1>2 DEF Kin
  <2> QED BY <1>0, <1>5, <1>6, <1>8, <2>1, <2>2
<1>25. x \in TreeType BY <1>7 DEF Rotated
<1>26. \A m \in T : NodeOK(x, k, E, key, m) BY <1>19, <1>20, <1>21
<1>27. Shape(x, k, E, key) BY <1>1, <1>9, <1>22, <1>23, <1>24, <1>25, <1>26 DEF Shape
<1> QED BY <1>7, <1>9, <1>27 DEF x, E

-----------------------------------------------------------------------------
(* What changes and what does not: repainting and turning in one tree. *)

(* The tree x is t up to its colours. *)
SameLinks(x, t) == x \in TreeType /\ SameRoots(x, t) /\ SameChildren(x, t) /\ SameParents(x, t)

(* Tree k changed, and its nodes T. *)
Frame(x, t, k, T) ==
  /\ \A j \in Trees : j # k => Root(x, j) = Root(t, j)
  /\ \A m \in Nodes : m \notin T /\ m # Nil[k] =>
       /\ \A s \in Sides : Child(x, m, s) = Child(t, m, s)
       /\ Parent(x, m) = Parent(t, m)
       /\ Color(x, m) = Color(t, m)

(* Frames compose. *)
LEMMA FrameStep ==
  ASSUME NEW t, NEW x, NEW y, NEW k, NEW T, Frame(x, t, k, T), Frame(y, x, k, T)
  PROVE  Frame(y, t, k, T)
BY DEF Frame

(* Colours do not matter to the shape. *)
LEMMA Repaint ==
  ASSUME NEW t, NEW x, SameLinks(x, t), NEW k \in Trees, NEW D, NEW key,
         Shape(t, k, D, key)
  PROVE  Shape(x, k, D, key) /\ Members(x, k, D) = Members(t, k, D)
<1>0. Nil[k] \in Nodes /\ Nil[k] \notin Slots /\ Slots \subseteq Nodes BY NilNodes DEF Nodes
<1>1. Root(x, k) = Root(t, k) /\ Root(t, k) \in Nodes BY Typed DEF SameLinks, SameRoots, Shape
<1>2. Members(x, k, D) = Members(t, k, D) BY <1>1 DEF Members
<1>3. Members(t, k, D) \subseteq Slots BY <1>1 DEF Members, Shape
<1>4. ASSUME NEW n \in Members(t, k, D) PROVE NodeOK(x, k, D, key, n)
  <2>1. NodeOK(t, k, D, key, n) /\ Kin(t, k, D, key, n) BY Family DEF Shape
  <2>2. \A s \in Sides : Child(x, n, s) = Child(t, n, s)
    BY <2>1 DEF SameLinks, SameChildren, Kin
  <2>3. \A s \in Sides : Parent(x, Child(t, n, s)) = Parent(t, Child(t, n, s))
    BY <2>1 DEF SameLinks, SameParents, Kin
  <2> QED BY <1>2, <2>1, <2>2, <2>3 DEF NodeOK
<1>5. ASSUME NEW n \in Members(t, k, D), n # Root(t, k)
      PROVE  Parent(x, n) \in Members(t, k, D) /\ \E s \in Sides : Child(x, Parent(x, n), s) = n
  <2>1. Kin(t, k, D, key, n) BY Family
  <2>2. Parent(x, n) = Parent(t, n) BY <2>1 DEF SameLinks, SameParents, Kin
  <2>3. Parent(t, n) \in Members(t, k, D) /\ \E s \in Sides : Child(t, Parent(t, n), s) = n
    BY <1>5 DEF Shape
  <2>4. Parent(t, n) \in Nodes BY <1>0, <1>3, <2>3
  <2> QED BY <2>2, <2>3, <2>4 DEF SameLinks, SameChildren
<1>6. \/ Root(x, k) = Nil[k]
      \/ Root(x, k) \in Members(x, k, D) /\ Parent(x, Root(x, k)) = Nil[k]
  BY <1>1, <1>2 DEF Shape, SameLinks, SameParents
<1>7. Shape(x, k, D, key) BY <1>1, <1>2, <1>4, <1>5, <1>6 DEF Shape, SameLinks
<1> QED BY <1>2, <1>7

(* The tree x is t with node n turned to that side and y in its place. *)
Turned(x, t, k, T, n, side, y) ==
  /\ Root(x, k) = IF Root(t, k) = n THEN y ELSE Root(t, k)
  /\ Child(x, n, side) = Child(t, n, side)
  /\ Child(x, n, Other(side)) = Child(t, y, side)
  /\ Child(x, y, side) = n
  /\ Child(x, y, Other(side)) = Child(t, y, Other(side))
  /\ \A m \in T : m # n /\ m # y => \A s \in Sides :
        Child(x, m, s) = IF Child(t, m, s) = n THEN y ELSE Child(t, m, s)
  /\ Parent(x, n) = y
  /\ Parent(x, y) = Parent(t, n)
  /\ Child(t, y, side) # Nil[k] => Parent(x, Child(t, y, side)) = n
  /\ \A m \in Nodes : m # n /\ m # y /\ (m = Nil[k] \/ m # Child(t, y, side)) =>
        Parent(x, m) = Parent(t, m)
  /\ SameColors(x, t)
  /\ Frame(x, t, k, T)

(* The same rotation in terms of the members of the tree only. *)
LEMMA Turn ==
  ASSUME NEW t, NEW k \in Trees, NEW D, NEW key, Shape(t, k, D, key),
         NEW n \in Members(t, k, D), NEW side \in Sides,
         NEW y, y = Child(t, n, Other(side)), y # Nil[k]
  PROVE  LET x == Rotate(t, k, n, side)
             E == RotatedSub(D, n, y, side, t)
         IN  /\ Shape(x, k, E, key)
             /\ Members(x, k, E) = Members(t, k, D)
             /\ Turned(x, t, k, Members(t, k, D), n, side, y)
<1> DEFINE x == Rotate(t, k, n, side)
           E == RotatedSub(D, n, y, side, t)
           b == Child(t, y, side)
           p == Parent(t, n)
           z == Nil[k]
           T == Members(t, k, D)
<1>1. Shape(x, k, E, key) /\ Members(x, k, E) = T /\ Rotated(x, t, k, n, side, y, b, p)
  BY RotateShape
<1> HIDE DEF x, E
<1>0. z \in Nodes /\ z \notin Slots /\ Slots \subseteq Nodes BY NilNodes DEF Nodes
<1>2. Kin(t, k, D, key, n) BY Family
<1>3. y \in T /\ y # p /\ Parent(t, y) = n /\ y # n BY <1>2, Others DEF Kin
<1>4. Kin(t, k, D, key, y) BY <1>3, Family
<1>5. T \subseteq Slots /\ Root(t, k) \in Nodes BY Typed DEF Shape, Members
<1>6. side # Other(side) /\ Other(side) \in Sides /\ Sides = {side, Other(side)}
        /\ Other(Other(side)) = side
  BY Others
<1>7. Root(x, k) = IF Root(t, k) = n THEN y ELSE Root(t, k)
  BY <1>1, <1>2 DEF Rotated, Kin
<1>8. p # z => Child(t, p, SideIn(t, p, n)) = n /\ SideIn(t, p, n) \in Sides /\ p \in T /\ p # n
  BY <1>2 DEF Kin, Sides, SideIn
<1>9. /\ Child(x, n, side) = Child(t, n, side)
      /\ Child(x, n, Other(side)) = b
      /\ Child(x, y, side) = n
      /\ Child(x, y, Other(side)) = Child(t, y, Other(side))
  BY <1>0, <1>1, <1>2, <1>3, <1>4, <1>6 DEF Rotated, Kin
<1>10. ASSUME NEW m \in T, m # n, m # y, NEW s \in Sides
       PROVE  Child(x, m, s) = IF Child(t, m, s) = n THEN y ELSE Child(t, m, s)
  <2>1. Kin(t, k, D, key, m) BY Family
  <2>2. Child(x, m, s) = IF m = p /\ p # z /\ s = SideIn(t, p, n) THEN y ELSE Child(t, m, s)
    BY <1>1, <1>10, <2>1 DEF Rotated, Kin
  <2>3. CASE Child(t, m, s) = n
    <3>1. p = m /\ m # z BY <1>0, <1>2, <2>1, <2>3 DEF Kin
    <3>2. \A r \in Sides : r # s => Child(t, m, r) # n
      BY <1>0, <1>2, <2>1, <2>3, Others DEF Kin
    <3>3. s = SideIn(t, p, n) BY <2>3, <3>1, <3>2 DEF SideIn, Sides
    <3> QED BY <2>2, <2>3, <3>1, <3>3
  <2>4. CASE Child(t, m, s) # n BY <1>8, <2>2, <2>4
  <2> QED BY <2>3, <2>4
<1>11. /\ Parent(x, n) = y /\ Parent(x, y) = p
       /\ b # z => Parent(x, b) = n
       /\ \A m \in Nodes : m # n /\ m # y /\ (m = z \/ m # b) => Parent(x, m) = Parent(t, m)
  <2>1. b \in Nodes /\ b # y /\ (b # z => b # n) /\ n \in Nodes /\ y \in Nodes
    BY <1>0, <1>2, <1>3, <1>4 DEF Kin
  <2> QED BY <1>1, <1>3, <2>1 DEF Rotated
<1>12. SameColors(x, t) BY <1>1 DEF Rotated
<1>13. Frame(x, t, k, T)
  <2>1. \A j \in Trees : j # k => Root(x, j) = Root(t, j) BY <1>1 DEF Rotated
  <2>2. b = z \/ b \in T BY <1>4 DEF Kin
  <2>3. ASSUME NEW m \in Nodes, m \notin T, m # z
        PROVE  /\ \A s \in Sides : Child(x, m, s) = Child(t, m, s)
               /\ Parent(x, m) = Parent(t, m)
               /\ Color(x, m) = Color(t, m)
    <3>1. m # n /\ m # y /\ m # b /\ ~(m = p /\ p # z) BY <1>3, <1>8, <2>2, <2>3
    <3> QED BY <1>1, <3>1 DEF Rotated, SameColors
  <2> QED BY <2>1, <2>3 DEF Frame
<1>14. Turned(x, t, k, T, n, side, y)
  BY <1>7, <1>9, <1>10, <1>11, <1>12, <1>13 DEF Turned
<1> QED BY <1>1, <1>14 DEF x, E

(* Painting a node of a tree leaves the links and the other tree. *)
LEMMA PaintLinks ==
  ASSUME NEW t \in TreeType, NEW n \in Nodes, NEW c \in {RED, BLACK}, NEW k, NEW T, n \in T
  PROVE  LET x == Paint(t, n, c)
         IN  /\ SameLinks(x, t)
             /\ \A i \in Nodes : Color(x, i) = IF i = n THEN c ELSE Color(t, i)
             /\ Frame(x, t, k, T)
<1> DEFINE x == Paint(t, n, c)
<1>1. Painted(x, t, n, c) BY PaintIs
<1> HIDE DEF x
<1>2. SameLinks(x, t) BY <1>1 DEF Painted, SameLinks
<1>3. \A i \in Nodes : Color(x, i) = IF i = n THEN c ELSE Color(t, i) BY <1>1 DEF Painted
<1>4. Frame(x, t, k, T) BY <1>1 DEF Painted, Frame, SameRoots, SameChildren, SameParents
<1> QED BY <1>2, <1>3, <1>4 DEF x

-----------------------------------------------------------------------------
(* Insertion: the loop of TLBTreeFixup.  H gives for every node the number of *)
(* black nodes on the paths below it; a node q may be one level short.        *)

(* The black height of a node. *)
Ht(H, n) == H[n]

(* A black node counts, a red one does not. *)
Weight(t, n) == IF Color(t, n) = BLACK THEN 1 ELSE 0

(* The level that is missing below node q on side sd. *)
Short(q, sd, m, s) == IF m = q /\ s = sd THEN 1 ELSE 0

(* All paths below a node have its number of black nodes, but on side sd of *)
(* node q, where one is missing (none is when q is NULL).                   *)
Levels(t, k, T, H, q, sd) ==
  /\ Color(t, Nil[k]) = BLACK
  /\ Ht(H, Nil[k]) = 0
  /\ \A m \in Nodes : Ht(H, m) \in Nat
  /\ \A m \in T : \A s \in Sides :
       Ht(H, m) = Ht(H, Child(t, m, s)) + Weight(t, m) + Short(q, sd, m, s)

(* A red node has black children. *)
RedRule(t, m) == Color(t, m) = RED => \A s \in Sides : Color(t, Child(t, m, s)) = BLACK

(* The tree t is a red-black tree but for the red node n, that may have a red parent. *)
FixupInv(t, n, k, T, key, D, H) ==
  /\ Shape(t, k, D, key)
  /\ Members(t, k, D) = T
  /\ Levels(t, k, T, H, NULL, "left")
  /\ n \in T
  /\ Color(t, n) = RED
  /\ \A m \in T : m # Parent(t, n) => RedRule(t, m)
  /\ \A m \in T : \A s \in Sides :
       m = Parent(t, n) /\ Color(t, m) = RED /\ Child(t, m, s) # n =>
         Color(t, Child(t, m, s)) = BLACK
  /\ Color(t, Root(t, k)) = BLACK \/ n = Root(t, k)

(* The parent, grandfather and uncle of a red child of a red node. *)
Elders(t, k, T, n, p, g, side) ==
  /\ p \in T /\ g \in T /\ p # n /\ g # p /\ g # n /\ side \in Sides
  /\ Child(t, g, side) = p
  /\ p # Root(t, k) /\ n # Root(t, k)
  /\ Color(t, g) = BLACK
  /\ \E s \in Sides : Child(t, p, s) = n
  /\ Child(t, g, Other(side)) \in Nodes
  /\ Child(t, g, Other(side)) # p
  /\ Child(t, g, Other(side)) # g
  /\ Child(t, g, Other(side)) # Nil[k] => /\ Child(t, g, Other(side)) \in T
                                          /\ Parent(t, Child(t, g, Other(side))) = g

(* Such a child has a grandfather: the loop of TLBTreeFixup may follow the *)
(* parent of the parent, and the colour of the uncle, without a test.      *)
LEMMA FixupKin ==
  ASSUME NEW t, NEW n, NEW k \in Trees, NEW T, NEW key, NEW D, NEW H,
         FixupInv(t, n, k, T, key, D, H), Color(t, Parent(t, n)) = RED,
         NEW p, p = Parent(t, n), NEW g, g = Parent(t, p), NEW side, side = SideIn(t, g, p)
  PROVE  Elders(t, k, T, n, p, g, side)
<1>1. Kin(t, k, D, key, n) BY Family DEF FixupInv
<1>2. Color(t, Nil[k]) = BLACK BY DEF FixupInv, Levels
<1>3. p # Nil[k] BY <1>2 DEF RED, BLACK
<1>4. p \in T /\ p # n /\ n # Root(t, k) /\ \E s \in Sides : Child(t, p, s) = n
  BY <1>1, <1>3 DEF Kin, FixupInv
<1>5. Kin(t, k, D, key, p) BY <1>4, Family DEF FixupInv
<1>6. p # Root(t, k) BY <1>4 DEF FixupInv, RED, BLACK
<1>7. g \in T /\ g # p /\ \E s \in Sides : Child(t, g, s) = p
  BY <1>5, <1>6 DEF Kin, FixupInv
<1>8. Kin(t, k, D, key, g) BY <1>7, Family DEF FixupInv
<1>9. g # n BY <1>1, <1>3, <1>4, <1>5, <1>7 DEF Kin
<1>10. side \in Sides /\ Child(t, g, side) = p BY <1>7 DEF Sides, SideIn
<1>11. Color(t, g) = BLACK
  <2>1. RedRule(t, g) BY <1>7 DEF FixupInv
  <2>2. Color(t, p) = RED /\ t \in TreeType /\ g \in Nodes BY <1>8 DEF FixupInv, Shape, Kin
  <2>3. Color(t, g) \in {RED, BLACK} BY <2>2, Typed
  <2> QED BY <1>10, <2>1, <2>2, <2>3 DEF RedRule, RED, BLACK
<1>12. Other(side) \in Sides /\ side = Other(Other(side)) BY <1>10, Others
<1>13. /\ Child(t, g, Other(side)) \in Nodes
       /\ Child(t, g, Other(side)) # p
       /\ Child(t, g, Other(side)) # g
       /\ Child(t, g, Other(side)) # Nil[k] => /\ Child(t, g, Other(side)) \in T
                                               /\ Parent(t, Child(t, g, Other(side))) = g
  BY <1>3, <1>8, <1>10, <1>12 DEF Kin, FixupInv
<1> QED BY <1>4, <1>6, <1>7, <1>9, <1>10, <1>11, <1>13 DEF Elders

(* The node is the outer grandchild: one rotation ends the loop. *)
LEMMA FixupOuter ==
  ASSUME NEW t, NEW n, NEW k \in Trees, NEW T, NEW key, NEW D, NEW H,
         FixupInv(t, n, k, T, key, D, H), Color(t, Parent(t, n)) = RED,
         NEW p, p = Parent(t, n), NEW g, g = Parent(t, p), NEW side, side = SideIn(t, g, p),
         Child(t, p, side) = n, Color(t, Child(t, g, Other(side))) = BLACK
  PROVE  LET x == Rotate(Paint(Paint(t, p, BLACK), g, RED), k, g, Other(side))
         IN  /\ \E E, G : FixupInv(x, n, k, T, key, E, G)
             /\ Frame(x, t, k, T)
             /\ Color(x, Parent(x, n)) = BLACK
<1> DEFINE cur == Child(t, g, Other(side))
           b == Child(t, p, Other(side))
           u == Paint(t, p, BLACK)
           v == Paint(u, g, RED)
           x == Rotate(v, k, g, Other(side))
           z == Nil[k]
<1>0. z \in Nodes /\ z \notin Slots /\ Slots \subseteq Nodes BY NilNodes DEF Nodes
<1>91. Elders(t, k, T, n, p, g, side) BY FixupKin
<1>1. /\ p \in T /\ g \in T /\ p # n /\ g # p /\ g # n /\ side \in Sides
      /\ Child(t, g, side) = p /\ Color(t, g) = BLACK /\ cur \in Nodes /\ cur # p /\ cur # g
      /\ p # Root(t, k) /\ n # Root(t, k)
      /\ cur # z => cur \in T /\ Parent(t, cur) = g
  BY <1>91 DEF Elders
<1>2. Shape(t, k, D, key) /\ Members(t, k, D) = T /\ t \in TreeType /\ n \in T
  BY DEF FixupInv, Shape
<1>3. Kin(t, k, D, key, n) /\ Kin(t, k, D, key, p) /\ Kin(t, k, D, key, g)
  BY <1>1, <1>2, Family
<1>4. n \in Nodes /\ p \in Nodes /\ g \in Nodes /\ n # z /\ p # z /\ g # z BY <1>3 DEF Kin
<1>5. side # Other(side) /\ Other(side) \in Sides /\ Sides = {side, Other(side)}
        /\ Other(Other(side)) = side
  BY <1>1, Others
<1>6. b \in Nodes /\ b # p /\ b # n /\ b # g /\ (b # z => b \in T /\ Parent(t, b) = p)
  BY <1>2, <1>3, <1>4, <1>5 DEF Kin
<1>7. SameLinks(u, t) /\ (\A i \in Nodes : Color(u, i) = IF i = p THEN BLACK
        ELSE Color(t, i)) /\ Frame(u, t, k, T)
  BY <1>1, <1>2, <1>4, PaintLinks
<1> HIDE DEF u
<1>8. SameLinks(v, u) /\ (\A i \in Nodes : Color(v, i) = IF i = g THEN RED ELSE Color(u, i))
        /\ Frame(v, u, k, T)
  <2>1. u \in TreeType BY <1>7 DEF SameLinks
  <2> QED BY <1>1, <1>4, <2>1, PaintLinks
<1> HIDE DEF v
<1>9. SameLinks(v, t) BY <1>7, <1>8 DEF SameLinks, SameRoots, SameChildren, SameParents
<1>10. Shape(v, k, D, key) /\ Members(v, k, D) = T BY <1>2, <1>9, Repaint
<1>11. /\ Child(v, g, side) = p /\ Child(v, g, Other(side)) = cur
       /\ Child(v, p, side) = n /\ Child(v, p, Other(side)) = b /\ Root(v, k) = Root(t, k)
       /\ Parent(v, n) = p /\ Parent(v, g) = Parent(t, g)
       /\ \A m \in T : \A s \in Sides : Child(v, m, s) = Child(t, m, s)
  <2>1. T \subseteq Nodes BY <1>0, <1>2, Typed DEF Members, Shape
  <2> QED BY <1>1, <1>4, <1>5, <1>9, <2>1 DEF SameLinks, SameChildren, SameRoots, SameParents
<1> DEFINE E == RotatedSub(D, g, p, Other(side), v)
<1>12. Shape(x, k, E, key) /\ Members(x, k, E) = T /\ Turned(x, v, k, T, g, Other(side), p)
  BY <1>1, <1>4, <1>5, <1>10, <1>11, Turn
<1> HIDE DEF x, E
<1>13. /\ Child(x, g, Other(side)) = cur /\ Child(x, g, side) = b
       /\ Child(x, p, Other(side)) = g /\ Child(x, p, side) = n
       /\ Root(x, k) = IF Root(t, k) = g THEN p ELSE Root(t, k)
       /\ \A m \in T : m # g /\ m # p => \A s \in Sides :
            Child(x, m, s) = IF Child(t, m, s) = g THEN p ELSE Child(t, m, s)
       /\ Parent(x, n) = p
  BY <1>4, <1>5, <1>6, <1>11, <1>12 DEF Turned
<1>14. \A i \in Nodes : Color(x, i) = IF i = g THEN RED ELSE IF i = p THEN BLACK ELSE Color(t, i)
  BY <1>7, <1>8, <1>12 DEF Turned, SameColors
<1>15. Frame(x, t, k, T)
  <2>1. Frame(x, v, k, T) BY <1>12 DEF Turned
  <2> QED BY <1>7, <1>8, <2>1, FrameStep
<1> DEFINE G == [m \in Nodes |-> IF m = p THEN Ht(H, g) ELSE IF m = g THEN Ht(H, p) ELSE Ht(H, m)]
<1>16. \A m \in Nodes : Ht(G, m) = IF m = p THEN Ht(H, g) ELSE IF m = g THEN Ht(H, p) ELSE Ht(H, m)
  BY DEF Ht
<1> HIDE DEF G
<1>17. /\ Levels(t, k, T, H, NULL, "left") /\ NULL \notin Nodes
  BY NodesAssumption DEF FixupInv, Nodes
<1>18. /\ \A m \in Nodes : Ht(H, m) \in Nat
       /\ Color(t, z) = BLACK /\ Ht(H, z) = 0
       /\ \A m \in T : \A s \in Sides : Ht(H, m) = Ht(H, Child(t, m, s)) + Weight(t, m)
  <2>1. T \subseteq Nodes BY <1>0, <1>2, Typed DEF Members, Shape
  <2>2. \A m \in T : \A s \in Sides : Short(NULL, "left", m, s) = 0 BY <1>17, <2>1 DEF Short
  <2>3. \A m \in Nodes : Ht(H, m) \in Nat BY <1>17 DEF Levels
  <2>4. \A m \in T : Weight(t, m) \in Nat BY DEF Weight
  <2>5. ASSUME NEW m \in T, NEW s \in Sides
        PROVE Ht(H, m) = Ht(H, Child(t, m, s)) + Weight(t, m)
    <3>1. Kin(t, k, D, key, m) BY <1>2, Family
    <3>2. Child(t, m, s) \in Nodes BY <3>1 DEF Kin
    <3>3. Ht(H, m) = Ht(H, Child(t, m, s)) + Weight(t, m) + Short(NULL, "left", m, s)
      BY <1>17 DEF Levels
    <3> QED BY <2>2, <2>3, <2>4, <3>2, <3>3
  <2> QED BY <1>17, <2>3, <2>5 DEF Levels
<1>19. /\ Ht(H, p) = Ht(H, b) /\ Ht(H, p) = Ht(H, n)
       /\ Ht(H, g) = Ht(H, p) + 1 /\ Ht(H, g) = Ht(H, cur) + 1
  <2>1. Weight(t, p) = 0 /\ Weight(t, g) = 1 BY <1>1 DEF Weight, RED, BLACK
  <2>2. Ht(H, p) = Ht(H, b) + 0 /\ Ht(H, p) = Ht(H, n) + 0
    BY <1>1, <1>5, <1>18, <2>1
  <2>3. Ht(H, g) = Ht(H, p) + 1 /\ Ht(H, g) = Ht(H, cur) + 1
    BY <1>1, <1>5, <1>18, <2>1
  <2> QED BY <1>4, <1>6, <1>18, <2>2, <2>3
<1>20. ASSUME NEW m \in T, m # g, m # p
       PROVE  /\ \A s \in Sides : Ht(G, Child(x, m, s)) = Ht(H, Child(t, m, s))
              /\ Weight(x, m) = Weight(t, m) /\ Ht(G, m) = Ht(H, m)
              /\ Color(x, m) = Color(t, m)
              /\ \A s \in Sides : Color(x, Child(x, m, s)) = Color(t, Child(t, m, s))
  <2>1. Kin(t, k, D, key, m) BY <1>2, Family
  <2>2. m \in Nodes BY <2>1 DEF Kin
  <2>3. Color(x, m) = Color(t, m) /\ Ht(G, m) = Ht(H, m) BY <1>14, <1>16, <1>20, <2>2
  <2>4. ASSUME NEW s \in Sides
        PROVE  /\ Ht(G, Child(x, m, s)) = Ht(H, Child(t, m, s))
               /\ Color(x, Child(x, m, s)) = Color(t, Child(t, m, s))
    <3>1. CASE Child(t, m, s) = g
      <4>1. Child(x, m, s) = p BY <1>13, <1>20, <3>1
      <4> QED BY <1>1, <1>4, <1>14, <1>16, <3>1, <4>1
    <3>2. CASE Child(t, m, s) # g
      <4>1. Child(x, m, s) = Child(t, m, s) /\ Child(t, m, s) \in Nodes
        BY <1>13, <1>20, <2>1, <3>2 DEF Kin
      <4>2. Child(t, m, s) # p BY <1>4, <1>20, <2>1 DEF Kin
      <4> QED BY <1>14, <1>16, <3>2, <4>1, <4>2
    <3> QED BY <3>1, <3>2
  <2> QED BY <2>3, <2>4 DEF Weight
<1>21. Levels(x, k, T, G, NULL, "left")
  <2>1. Color(x, z) = BLACK /\ Ht(G, z) = 0 BY <1>0, <1>4, <1>14, <1>16, <1>18
  <2>2. \A m \in Nodes : Ht(G, m) \in Nat BY <1>4, <1>16, <1>18
  <2>3. ASSUME NEW m \in T, NEW s \in Sides
        PROVE  Ht(G, m) = Ht(G, Child(x, m, s)) + Weight(x, m)
    <3>1. CASE m = g
      <4>1. Weight(x, g) = 0 /\ Ht(G, g) = Ht(H, p)
        BY <1>1, <1>4, <1>14, <1>16 DEF Weight, RED, BLACK
      <4>2. Ht(G, cur) = Ht(H, cur) /\ Ht(G, b) = Ht(H, b) BY <1>1, <1>6, <1>16
      <4> QED BY <1>1, <1>4, <1>5, <1>6, <1>13, <1>18, <1>19, <3>1, <4>1, <4>2
    <3>2. CASE m = p
      <4>1. Weight(x, p) = 1 /\ Ht(G, p) = Ht(H, g) BY <1>1, <1>4, <1>14, <1>16 DEF Weight
      <4>2. Ht(G, g) = Ht(H, p) /\ Ht(G, n) = Ht(H, n) BY <1>1, <1>4, <1>16
      <4> QED BY <1>1, <1>4, <1>5, <1>13, <1>18, <1>19, <3>2, <4>1, <4>2
    <3>3. CASE m # g /\ m # p
      BY <1>18, <1>20, <3>3
    <3> QED BY <3>1, <3>2, <3>3
  <2>4. ASSUME NEW m \in T, NEW s \in Sides
        PROVE  Ht(G, m) = Ht(G, Child(x, m, s)) + Weight(x, m) + Short(NULL, "left", m, s)
    <3>1. Kin(x, k, E, key, m) BY <1>12, Family
    <3>2. Child(x, m, s) \in Nodes /\ m \in Nodes BY <3>1 DEF Kin
    <3>3. Short(NULL, "left", m, s) = 0 BY <1>17, <3>2 DEF Short
    <3>4. Weight(x, m) \in Nat BY DEF Weight
    <3>5. Ht(G, Child(x, m, s)) \in Nat BY <2>2, <3>2
    <3> QED BY <2>3, <3>3, <3>4, <3>5
  <2> QED BY <2>1, <2>2, <2>4 DEF Levels
<1>22. ASSUME NEW m \in T PROVE RedRule(x, m)
  <2>1. CASE m = g
    <3>1. Color(x, cur) = BLACK BY <1>1, <1>14
    <3>2. Color(t, b) = BLACK BY <1>1, <1>5, <1>6 DEF FixupInv
    <3>3. Color(x, b) = BLACK BY <1>6, <1>14, <3>2
    <3> QED BY <1>5, <1>13, <2>1, <3>1, <3>3 DEF RedRule
  <2>2. CASE m = p BY <1>1, <1>4, <1>14, <2>2 DEF RedRule, RED, BLACK
  <2>3. CASE m # g /\ m # p
    <3>1. RedRule(t, m) BY <2>3 DEF FixupInv
    <3> QED BY <1>20, <2>3, <3>1 DEF RedRule
  <2> QED BY <2>1, <2>2, <2>3
<1>23. Color(x, p) = BLACK BY <1>1, <1>4, <1>14
<1>24. Color(x, n) = RED BY <1>1, <1>4, <1>14 DEF FixupInv
<1>25. Color(x, Root(x, k)) = BLACK
  <2>1. Color(t, Root(t, k)) = BLACK BY <1>1 DEF FixupInv
  <2>2. Root(t, k) \in Nodes BY <1>2, Typed
  <2> QED BY <1>1, <1>13, <1>14, <1>23, <2>1, <2>2
<1>26. FixupInv(x, n, k, T, key, E, G)
  BY <1>2, <1>12, <1>13, <1>21, <1>22, <1>23, <1>24, <1>25 DEF FixupInv, RED, BLACK
<1> QED BY <1>13, <1>15, <1>23, <1>26 DEF x, v, u

(* The levels when none is missing. *)
Balanced(t, k, T, H) ==
  /\ Color(t, Nil[k]) = BLACK
  /\ Ht(H, Nil[k]) = 0
  /\ \A m \in Nodes : Ht(H, m) \in Nat
  /\ \A m \in T : \A s \in Sides : Ht(H, m) = Ht(H, Child(t, m, s)) + Weight(t, m)

(* The nodes of a tree, and the levels when none is missing. *)
LEMMA LevelsAre ==
  ASSUME NEW t, NEW k \in Trees, NEW T, NEW key, NEW D, NEW H,
         Shape(t, k, D, key), Members(t, k, D) = T
  PROVE  /\ T \subseteq Nodes
         /\ \A m \in T : \A s \in Sides : Child(t, m, s) \in Nodes
         /\ Levels(t, k, T, H, NULL, "left") <=> Balanced(t, k, T, H)
<1>1. T \subseteq Nodes BY Typed DEF Members, Shape, Nodes
<1>2. ASSUME NEW m \in T, NEW s \in Sides
      PROVE  Child(t, m, s) \in Nodes /\ Short(NULL, "left", m, s) = 0 /\ Weight(t, m) \in Nat
  <2>1. Kin(t, k, D, key, m) BY Family
  <2>2. NULL \notin Nodes BY NodesAssumption DEF Nodes
  <2> QED BY <1>1, <2>1, <2>2 DEF Kin, Short, Weight
<1>3. ASSUME NEW m \in T, NEW s \in Sides, \A j \in Nodes : Ht(H, j) \in Nat
      PROVE  Ht(H, Child(t, m, s)) + Weight(t, m) + Short(NULL, "left", m, s)
               = Ht(H, Child(t, m, s)) + Weight(t, m)
  <2>1. Ht(H, Child(t, m, s)) \in Nat BY <1>2, <1>3
  <2> QED BY <1>2, <2>1
<1> QED BY <1>1, <1>2, <1>3 DEF Levels, Balanced

(* The node is the inner grandchild: a rotation makes its parent the outer one. *)
LEMMA FixupInner ==
  ASSUME NEW t, NEW n, NEW k \in Trees, NEW T, NEW key, NEW D, NEW H,
         FixupInv(t, n, k, T, key, D, H), Color(t, Parent(t, n)) = RED,
         NEW p, p = Parent(t, n), NEW g, g = Parent(t, p), NEW side, side = SideIn(t, g, p),
         Child(t, p, Other(side)) = n
  PROVE  LET r == Rotate(t, k, p, side)
         IN  /\ \E E : FixupInv(r, p, k, T, key, E, H)
             /\ Frame(r, t, k, T)
             /\ Parent(r, p) = n /\ Parent(r, n) = g /\ Color(r, n) = RED
             /\ Child(r, g, side) = n /\ Child(r, n, side) = p
             /\ Child(r, g, Other(side)) = Child(t, g, Other(side))
             /\ SameColors(r, t)
<1> DEFINE cur == Child(t, g, Other(side))
           a == Child(t, n, side)
           r == Rotate(t, k, p, side)
           E == RotatedSub(D, p, n, side, t)
           z == Nil[k]
<1>0. z \in Nodes /\ z \notin Slots /\ Slots \subseteq Nodes BY NilNodes DEF Nodes
<1>91. Elders(t, k, T, n, p, g, side) BY FixupKin
<1>1. /\ p \in T /\ g \in T /\ p # n /\ g # p /\ g # n /\ side \in Sides
      /\ Child(t, g, side) = p /\ Color(t, g) = BLACK /\ cur \in Nodes /\ cur # p /\ cur # g
      /\ p # Root(t, k) /\ n # Root(t, k)
      /\ cur # z => cur \in T /\ Parent(t, cur) = g
  BY <1>91 DEF Elders
<1>2. Shape(t, k, D, key) /\ Members(t, k, D) = T /\ t \in TreeType /\ n \in T
  BY DEF FixupInv, Shape
<1>3. Kin(t, k, D, key, n) /\ Kin(t, k, D, key, p) /\ Kin(t, k, D, key, g)
  BY <1>1, <1>2, Family
<1>4. n \in Nodes /\ p \in Nodes /\ g \in Nodes /\ n # z /\ p # z /\ g # z BY <1>3 DEF Kin
<1>5. side # Other(side) /\ Other(side) \in Sides /\ Sides = {side, Other(side)}
        /\ Other(Other(side)) = side
  BY <1>1, Others
<1>6. Shape(r, k, E, key) /\ Members(r, k, E) = T /\ Turned(r, t, k, T, p, side, n)
  BY <1>1, <1>2, <1>4, Turn
<1> HIDE DEF r, E
<1>7. /\ Child(r, p, side) = Child(t, p, side) /\ Child(r, p, Other(side)) = a
      /\ Child(r, n, side) = p /\ Child(r, n, Other(side)) = Child(t, n, Other(side))
      /\ Parent(r, p) = n /\ Parent(r, n) = g
      /\ Root(r, k) = Root(t, k)
      /\ \A m \in T : m # p /\ m # n => \A s \in Sides :
            Child(r, m, s) = IF Child(t, m, s) = p THEN n ELSE Child(t, m, s)
      /\ SameColors(r, t)
      /\ Frame(r, t, k, T)
  BY <1>1, <1>6 DEF Turned
<1>8. Color(r, n) = RED /\ Color(r, p) = RED /\ Color(t, n) = RED /\ Color(t, p) = RED
  BY <1>4, <1>7 DEF SameColors, FixupInv
<1>9. Child(r, g, side) = n /\ Child(r, g, Other(side)) = cur
  BY <1>1, <1>5, <1>7
<1>10. /\ T \subseteq Nodes
       /\ \A m \in T : \A s \in Sides : Child(t, m, s) \in Nodes /\ Child(r, m, s) \in Nodes
       /\ Color(t, Nil[k]) = BLACK
       /\ Ht(H, Nil[k]) = 0
       /\ \A m \in Nodes : Ht(H, m) \in Nat
       /\ \A m \in T : \A s \in Sides : Ht(H, m) = Ht(H, Child(t, m, s)) + Weight(t, m)
  <2>1. Balanced(t, k, T, H) BY <1>2, LevelsAre DEF FixupInv
  <2>2. T \subseteq Nodes /\ \A m \in T : \A s \in Sides : Child(t, m, s) \in Nodes
    BY <1>2, LevelsAre
  <2>3. \A m \in T : \A s \in Sides : Child(r, m, s) \in Nodes
    BY <1>6, LevelsAre
  <2> QED BY <2>1, <2>2, <2>3 DEF Balanced
<1>11. Weight(t, p) = 0 /\ Weight(t, n) = 0 /\ \A m \in T : Weight(r, m) = Weight(t, m)
  BY <1>7, <1>8, <1>10 DEF Weight, SameColors, RED, BLACK
<1>12. \A s \in Sides : Ht(H, Child(t, p, s)) = Ht(H, p) /\ Ht(H, Child(t, n, s)) = Ht(H, p)
  <2>1. \A s \in Sides : Ht(H, p) = Ht(H, Child(t, p, s)) + 0
          /\ Ht(H, n) = Ht(H, Child(t, n, s)) + 0
    BY <1>1, <1>2, <1>10, <1>11
  <2>2. \A s \in Sides : Ht(H, p) = Ht(H, Child(t, p, s)) /\ Ht(H, n) = Ht(H, Child(t, n, s))
    BY <1>1, <1>2, <1>10, <2>1
  <2> QED BY <1>5, <2>2
<1>13. Levels(r, k, T, H, NULL, "left")
  <2>1. Color(r, z) = BLACK BY <1>0, <1>7, <1>10 DEF SameColors
  <2>2. ASSUME NEW m \in T, NEW s \in Sides
        PROVE  Ht(H, m) = Ht(H, Child(r, m, s)) + Weight(r, m)
    <3>1. Ht(H, n) = Ht(H, p) BY <1>5, <1>12
    <3>2. CASE m = p \/ m = n
      <4>1. Child(r, m, s) = p \/ \E j \in {n, p}, q \in Sides : Child(r, m, s) = Child(t, j, q)
        BY <1>1, <1>5, <1>7, <3>2
      <4>2. Ht(H, Child(r, m, s)) = Ht(H, p) BY <1>12, <4>1
      <4>3. Weight(r, m) = 0 /\ Ht(H, m) = Ht(H, p) /\ Ht(H, p) \in Nat
        BY <1>4, <1>10, <1>11, <3>1, <3>2
      <4> QED BY <4>2, <4>3
    <3>3. CASE m # p /\ m # n
      BY <1>7, <1>10, <1>11, <3>1, <3>3
    <3> QED BY <3>2, <3>3
  <2> QED BY <1>6, <1>10, <2>1, <2>2, LevelsAre DEF Balanced
<1>14. \A m \in T : m # p /\ m # n => \A s \in Sides :
         Color(r, Child(r, m, s)) = Color(t, Child(t, m, s))
  BY <1>4, <1>7, <1>8, <1>10 DEF SameColors
<1>15. \A m \in T : m # n => RedRule(r, m)
  <2>1. RedRule(t, n) BY <1>2, <1>1 DEF FixupInv
  <2>2. Color(t, Child(t, p, side)) = BLACK
    <3>1. Child(t, p, side) # n BY <1>2, <1>3, <1>4, <1>5 DEF Kin
    <3> QED BY <1>1, <3>1 DEF FixupInv
  <2>3. Color(t, a) = BLACK BY <1>1, <1>8, <2>1 DEF RedRule
  <2>4. RedRule(r, p)
    <3>1. Color(r, Child(r, p, side)) = BLACK BY <1>1, <1>7, <1>10, <2>2 DEF SameColors
    <3>2. Color(r, Child(r, p, Other(side))) = BLACK
      BY <1>1, <1>2, <1>7, <1>10, <2>3 DEF SameColors
    <3> QED BY <1>5, <3>1, <3>2 DEF RedRule
  <2>5. ASSUME NEW m \in T, m # n, m # p PROVE RedRule(r, m)
    <3>1. RedRule(t, m) BY <2>5 DEF FixupInv
    <3> QED BY <1>7, <1>10, <1>14, <2>5, <3>1 DEF RedRule, SameColors
  <2> QED BY <2>4, <2>5
<1>16. Color(r, Child(r, n, Other(side))) = BLACK
  <2>1. RedRule(t, n) BY <1>1, <1>2 DEF FixupInv
  <2>2. Color(t, Child(t, n, Other(side))) = BLACK BY <1>5, <1>8, <2>1 DEF RedRule
  <2> QED BY <1>2, <1>5, <1>7, <1>10, <2>2 DEF SameColors
<1>17. Color(r, Root(r, k)) = BLACK
  <2>1. Root(t, k) \in Nodes BY <1>2, Typed
  <2> QED BY <1>1, <1>7, <2>1 DEF SameColors, FixupInv
<1>18. ASSUME NEW s \in Sides, Child(r, n, s) # p PROVE Color(r, Child(r, n, s)) = BLACK
  <2>1. s = Other(side) BY <1>5, <1>7, <1>18
  <2> QED BY <1>16, <2>1
<1>19. FixupInv(r, p, k, T, key, E, H)
  BY <1>1, <1>6, <1>7, <1>8, <1>13, <1>15, <1>17, <1>18 DEF FixupInv
<1> QED BY <1>7, <1>8, <1>9, <1>19 DEF r

(* A red uncle: the grandparent is the next node of the loop. *)
LEMMA FixupUncle ==
  ASSUME NEW t, NEW n, NEW k \in Trees, NEW T, NEW key, NEW D, NEW H,
         FixupInv(t, n, k, T, key, D, H), Color(t, Parent(t, n)) = RED,
         NEW p, p = Parent(t, n), NEW g, g = Parent(t, p), NEW side, side = SideIn(t, g, p),
         NEW cur, cur = Child(t, g, Other(side)), Color(t, cur) = RED
  PROVE  LET x == Paint(Paint(Paint(t, p, BLACK), cur, BLACK), g, RED)
         IN  /\ \E G : FixupInv(x, g, k, T, key, D, G)
             /\ Frame(x, t, k, T)
             /\ n \in Sub(D, g) /\ Sub(D, n) \subseteq Sub(D, g) /\ g \notin Sub(D, n)
<1> DEFINE u == Paint(t, p, BLACK)
           v == Paint(u, cur, BLACK)
           x == Paint(v, g, RED)
           z == Nil[k]
<1>0. z \in Nodes /\ z \notin Slots /\ Slots \subseteq Nodes BY NilNodes DEF Nodes
<1>91. Elders(t, k, T, n, p, g, side) BY FixupKin
<1>1. /\ p \in T /\ g \in T /\ p # n /\ g # p /\ g # n /\ side \in Sides
      /\ Child(t, g, side) = p /\ Color(t, g) = BLACK /\ cur \in Nodes /\ cur # p /\ cur # g
      /\ p # Root(t, k) /\ n # Root(t, k)
      /\ cur # z => cur \in T /\ Parent(t, cur) = g
  BY <1>91 DEF Elders
<1>2. Shape(t, k, D, key) /\ Members(t, k, D) = T /\ t \in TreeType /\ n \in T
  BY DEF FixupInv, Shape
<1>3. Kin(t, k, D, key, n) /\ Kin(t, k, D, key, p) /\ Kin(t, k, D, key, g)
  BY <1>1, <1>2, Family
<1>4. n \in Nodes /\ p \in Nodes /\ g \in Nodes /\ n # z /\ p # z /\ g # z BY <1>3 DEF Kin
<1>5. side # Other(side) /\ Other(side) \in Sides /\ Sides = {side, Other(side)}
        /\ Other(Other(side)) = side
  BY <1>1, Others
<1>6. /\ T \subseteq Nodes
      /\ \A m \in T : \A s \in Sides : Child(t, m, s) \in Nodes
      /\ Color(t, z) = BLACK
      /\ Ht(H, z) = 0
      /\ \A m \in Nodes : Ht(H, m) \in Nat
      /\ \A m \in T : \A s \in Sides : Ht(H, m) = Ht(H, Child(t, m, s)) + Weight(t, m)
  <2>1. Balanced(t, k, T, H) BY <1>2, LevelsAre DEF FixupInv
  <2>2. T \subseteq Nodes /\ \A m \in T : \A s \in Sides : Child(t, m, s) \in Nodes
    BY <1>2, LevelsAre
  <2> QED BY <2>1, <2>2 DEF Balanced
<1>7. cur # z /\ cur \in T /\ Parent(t, cur) = g /\ cur # n BY <1>1, <1>6 DEF RED, BLACK
<1>8. SameLinks(u, t) /\ (\A i \in Nodes : Color(u, i) = IF i = p THEN BLACK
        ELSE Color(t, i)) /\ Frame(u, t, k, T)
  BY <1>1, <1>2, <1>4, PaintLinks
<1> HIDE DEF u
<1>9. SameLinks(v, u) /\ (\A i \in Nodes : Color(v, i) = IF i = cur THEN BLACK
        ELSE Color(u, i)) /\ Frame(v, u, k, T)
  <2>1. u \in TreeType BY <1>8 DEF SameLinks
  <2> QED BY <1>1, <1>7, <2>1, PaintLinks
<1> HIDE DEF v
<1>10. SameLinks(x, v) /\ (\A i \in Nodes : Color(x, i) = IF i = g THEN RED
         ELSE Color(v, i)) /\ Frame(x, v, k, T)
  <2>1. v \in TreeType BY <1>9 DEF SameLinks
  <2> QED BY <1>1, <1>4, <2>1, PaintLinks
<1> HIDE DEF x
<1>11. SameLinks(x, t) BY <1>8, <1>9, <1>10 DEF SameLinks, SameRoots, SameChildren, SameParents
<1>12. Shape(x, k, D, key) /\ Members(x, k, D) = T BY <1>2, <1>11, Repaint
<1>13. /\ \A m \in T : \A s \in Sides : Child(x, m, s) = Child(t, m, s)
       /\ Parent(x, g) = Parent(t, g) /\ Root(x, k) = Root(t, k)
  BY <1>4, <1>6, <1>11 DEF SameLinks, SameChildren, SameParents, SameRoots
<1>14. \A i \in Nodes : Color(x, i) = IF i = g THEN RED ELSE IF i = p \/ i = cur THEN BLACK
         ELSE Color(t, i)
  BY <1>8, <1>9, <1>10
<1>15. Frame(x, t, k, T) BY <1>8, <1>9, <1>10, FrameStep
<1> DEFINE G == [m \in Nodes |-> IF m = p \/ m = cur THEN Ht(H, m) + 1 ELSE Ht(H, m)]
<1>16. \A m \in Nodes : Ht(G, m) = IF m = p \/ m = cur THEN Ht(H, m) + 1 ELSE Ht(H, m)
  BY DEF Ht
<1> HIDE DEF G
<1>17. \A m \in T : \A s \in Sides : m # g => Child(t, m, s) # p /\ Child(t, m, s) # cur
  <2>1. ASSUME NEW m \in T, NEW s \in Sides,
               m # g PROVE Child(t, m, s) # p /\ Child(t, m, s) # cur
    <3>1. Kin(t, k, D, key, m) BY <1>2, Family
    <3> QED BY <1>4, <1>7, <2>1, <3>1 DEF Kin
  <2> QED BY <2>1
<1>18. Weight(t, p) = 0 /\ Weight(t, cur) = 0 /\ Weight(t, g) = 1
       /\ Weight(x, p) = 1 /\ Weight(x, cur) = 1 /\ Weight(x, g) = 0
       /\ \A m \in T : m # p /\ m # cur /\ m # g => Weight(x, m) = Weight(t, m)
  BY <1>1, <1>4, <1>6, <1>14 DEF Weight, RED, BLACK
<1>19. Levels(x, k, T, G, NULL, "left")
  <2>1. Color(x, z) = BLACK /\ Ht(G, z) = 0 BY <1>0, <1>4, <1>6, <1>7, <1>14, <1>16
  <2>2. \A m \in Nodes : Ht(G, m) \in Nat BY <1>6, <1>16
  <2>3. ASSUME NEW m \in T, NEW s \in Sides
        PROVE  Ht(G, m) = Ht(G, Child(x, m, s)) + Weight(x, m)
    <3>0. Child(x, m, s) = Child(t, m, s) /\ Child(t, m, s) \in Nodes /\ m \in Nodes
          /\ Ht(H, m) = Ht(H, Child(t, m, s)) + Weight(t, m)
          /\ Ht(H, m) \in Nat /\ Ht(H, Child(t, m, s)) \in Nat
      BY <1>6, <1>13
    <3>1. CASE m = g
      <4>1. Child(t, m, s) = p \/ Child(t, m, s) = cur BY <1>1, <1>5, <3>1
      <4>2. Ht(G, m) = Ht(H, m) /\ Ht(G, Child(t, m, s)) = Ht(H, Child(t, m, s)) + 1
        BY <1>1, <1>16, <3>0, <3>1, <4>1
      <4> QED BY <1>18, <3>0, <3>1, <4>2
    <3>2. CASE m = p \/ m = cur
      <4>1. Ht(G, m) = Ht(H, m) + 1 /\ Ht(G, Child(t, m, s)) = Ht(H, Child(t, m, s))
        BY <1>1, <1>16, <1>17, <3>0, <3>2
      <4>2. Weight(t, m) = 0 /\ Weight(x, m) = 1 BY <1>18, <3>2
      <4> QED BY <3>0, <4>1, <4>2
    <3>3. CASE m # g /\ m # p /\ m # cur
      BY <1>16, <1>17, <1>18, <3>0, <3>3
    <3> QED BY <3>1, <3>2, <3>3
  <2> QED BY <1>12, <2>1, <2>2, <2>3, LevelsAre DEF Balanced
<1>20. ASSUME NEW m \in T, NEW s \in Sides, m # g, Child(t, m, s) # g
       PROVE Color(x, Child(x, m, s)) = Color(t, Child(t, m, s))
  BY <1>6, <1>13, <1>14, <1>17, <1>20
<1>21. ASSUME NEW m \in T, m # Parent(x, g) PROVE RedRule(x, m)
  <2>1. CASE m = p \/ m = cur BY <1>1, <1>4, <1>14, <2>1 DEF RedRule, RED, BLACK
  <2>2. CASE m = g
    <3>1. Color(x, p) = BLACK /\ Color(x, cur) = BLACK BY <1>1, <1>4, <1>14
    <3> QED BY <1>1, <1>5, <1>13, <2>2, <3>1 DEF RedRule
  <2>3. CASE m # p /\ m # cur /\ m # g
    <3>1. RedRule(t, m) BY <2>3 DEF FixupInv
    <3>2. \A s \in Sides : Child(t, m, s) # g
      <4>1. Kin(t, k, D, key, m) BY <1>2, Family
      <4> QED BY <1>4, <1>13, <1>21, <4>1 DEF Kin
    <3>3. Color(x, m) = Color(t, m) BY <1>6, <1>14, <2>3
    <3> QED BY <1>20, <2>3, <3>1, <3>2, <3>3 DEF RedRule
  <2> QED BY <2>1, <2>2, <2>3
<1>22. ASSUME NEW m \in T, NEW s \in Sides, m = Parent(x, g), Color(x, m) = RED,
              Child(x, m, s) # g
       PROVE  Color(x, Child(x, m, s)) = BLACK
  <2>1. Kin(t, k, D, key, m) BY <1>2, Family
  <2>2. m # g /\ m # p /\ m # cur
    BY <1>3, <1>4, <1>7, <1>13, <1>22, <2>1, <1>1, <1>5 DEF Kin
  <2>3. RedRule(t, m) BY <2>2 DEF FixupInv
  <2>4. Color(t, m) = RED BY <1>6, <1>14, <1>22, <2>2
  <2>5. Color(t, Child(t, m, s)) = BLACK BY <2>3, <2>4 DEF RedRule
  <2> QED BY <1>13, <1>20, <1>22, <2>2, <2>5
<1>23. Color(x, Root(x, k)) = BLACK \/ g = Root(x, k)
  <2>1. Color(t, Root(t, k)) = BLACK /\ Root(t, k) \in Nodes BY <1>1, <1>2, Typed DEF FixupInv
  <2> QED BY <1>13, <1>14, <2>1
<1>24. Color(x, g) = RED BY <1>4, <1>14
<1>25. FixupInv(x, g, k, T, key, D, G)
  BY <1>1, <1>12, <1>19, <1>21, <1>22, <1>23, <1>24 DEF FixupInv
<1>26. n \in Sub(D, g) /\ Sub(D, n) \subseteq Sub(D, g) /\ g \notin Sub(D, n)
  <2>1. NodeOK(t, k, D, key, g) /\ NodeOK(t, k, D, key, p) BY <1>1, <1>2 DEF Shape
  <2>2. PICK s \in Sides : Child(t, p, s) = n BY <1>1, FixupKin DEF Elders
  <2>3. Sub(D, n) \subseteq Sub(D, p) /\ n \in Sub(D, p) BY <1>4, <2>1, <2>2 DEF NodeOK
  <2>4. Sub(D, p) \subseteq Sub(D, g) /\ \A m \in Sub(D, p) : Beyond(key, side, m, g)
    BY <1>1, <2>1 DEF NodeOK
  <2>5. ~Beyond(key, side, g, g)
    <3>1. g \in Slots /\ key \in [Slots -> Int] BY <1>2, <1>3 DEF Kin, Shape
    <3> QED BY <1>1, <3>1, BeyondFacts
  <2> QED BY <2>3, <2>4, <2>5
<1> QED BY <1>15, <1>25, <1>26 DEF x, v, u

-----------------------------------------------------------------------------
(* A round of TLBTreeFixup, and the loop.  The subtree of the red node grows *)
(* in each round that is not the last, so the Slots bound the rounds.        *)

(* A red-black tree with the nodes T. *)
RBTree(t, k, T, key, D, H) ==
  /\ Shape(t, k, D, key)
  /\ Members(t, k, D) = T
  /\ Levels(t, k, T, H, NULL, "left")
  /\ \A m \in T : RedRule(t, m)
  /\ Color(t, Root(t, k)) = BLACK

(* The state of the loops. *)
States == [tree : TreeType, node : Nodes]

(* A round of TLBTreeFixup keeps FixupInv, and it ends the loop or goes up. *)
LEMMA FixupRoundIs ==
  ASSUME NEW x \in States, NEW k \in Trees, NEW T, NEW key, NEW D, NEW H,
         FixupInv(x.tree, x.node, k, T, key, D, H)
  PROVE  LET y == FixupRound(k, x)
             n == x.node
         IN  /\ Color(x.tree, Parent(x.tree, n)) # RED => y = x
             /\ Color(x.tree, Parent(x.tree, n)) = RED =>
                  \E E, G : /\ FixupInv(y.tree, y.node, k, T, key, E, G)
                            /\ Frame(y.tree, x.tree, k, T)
                            /\ \/ Color(y.tree, Parent(y.tree, y.node)) # RED
                               \/ Sub(D, n) \subseteq Sub(E, y.node) /\ y.node \notin Sub(D, n)
<1> DEFINE t == x.tree
           n == x.node
           p == Parent(t, n)
           g == Parent(t, p)
           side == SideIn(t, g, p)
           cur == Child(t, g, Other(side))
           y == FixupRound(k, x)
<1>1. CASE Color(t, p) # RED BY <1>1 DEF FixupRound
<1>2. CASE Color(t, p) = RED /\ Color(t, cur) = RED
  <2> DEFINE v == Paint(Paint(Paint(t, p, BLACK), cur, BLACK), g, RED)
  <2>1. y = [tree |-> v, node |-> g] BY <1>2 DEF FixupRound, SideIn
  <2>2. /\ \E G : FixupInv(v, g, k, T, key, D, G)
        /\ Frame(v, t, k, T)
        /\ n \in Sub(D, g) /\ Sub(D, n) \subseteq Sub(D, g) /\ g \notin Sub(D, n)
    <3> HIDE DEF p, g, side, cur, v
    <3>1. p = Parent(t, n) /\ g = Parent(t, p) /\ side = SideIn(t, g, p)
            /\ cur = Child(t, g, Other(side))
      BY DEF p, g, side, cur
    <3> QED BY <1>2, <3>1, FixupUncle DEF v
  <2> HIDE DEF y, v, t, n, p, g, cur
  <2>3. y.tree = v /\ y.node = g BY <2>1
  <2> QED BY <1>2, <2>2, <2>3 DEF t, n, p, y
<1>3. CASE Color(t, p) = RED /\ Color(t, cur) # RED
  <2> DEFINE inner == n = Child(t, p, Other(side))
             low == IF inner THEN p ELSE n
             r == IF inner THEN Rotate(t, k, p, side) ELSE t
             top == Parent(r, low)
             v == Rotate(Paint(Paint(r, top, BLACK), g, RED), k, g, Other(side))
  <2>1. y = [tree |-> v, node |-> low] BY <1>3 DEF FixupRound, SideIn
  <2>2. /\ p \in T /\ g \in T /\ side \in Sides /\ Child(t, g, side) = p
        /\ \E s \in Sides : Child(t, p, s) = n
        /\ cur \in Nodes
    <3> HIDE DEF p, g, side
    <3>1. p = Parent(t, n) /\ g = Parent(t, p) /\ side = SideIn(t, g, p)
      BY DEF p, g, side
    <3>2. Elders(t, k, T, n, p, g, side) BY <1>3, <3>1, FixupKin
    <3> QED BY <3>2 DEF Elders, cur
  <2>3. Color(t, cur) = BLACK
    <3>2. t \in TreeType BY DEF States
    <3> QED BY <1>3, <2>2, <3>2, Typed
  <2>4. /\ \E E, G : FixupInv(v, low, k, T, key, E, G)
        /\ Frame(v, t, k, T)
        /\ Color(v, Parent(v, low)) = BLACK
    <3>1. CASE inner
      <4>1. low = p /\ r = Rotate(t, k, p, side) BY <3>1
      <4> HIDE DEF low, r, inner
      <4>2. /\ \E E : FixupInv(r, p, k, T, key, E, H)
            /\ Frame(r, t, k, T)
            /\ Parent(r, p) = n /\ Parent(r, n) = g /\ Color(r, n) = RED
            /\ Child(r, g, side) = n /\ Child(r, n, side) = p
            /\ Child(r, g, Other(side)) = cur
            /\ SameColors(r, t)
        BY <1>3, <3>1, <4>1, FixupInner DEF inner
      <4>3. PICK E : FixupInv(r, p, k, T, key, E, H) BY <4>2
      <4>4. top = n BY <4>1, <4>2
      <4>5. Color(r, cur) = BLACK BY <2>2, <2>3, <4>2 DEF SameColors
      <4>6. side = SideIn(r, g, n)
        <5>1. cur # n
          <6>1. Kin(t, k, D, key, g) BY <2>2, Family DEF FixupInv
          <6>2. Color(t, n) = RED BY DEF FixupInv
          <6> QED BY <2>3, <6>2 DEF RED, BLACK
        <5> QED BY <2>2, <4>2, <5>1 DEF SideIn, Sides, Other
      <4> HIDE DEF top, v
      <4>7. v = Rotate(Paint(Paint(r, n, BLACK), g, RED), k, g, Other(side)) BY <4>4 DEF v
      <4> HIDE DEF t, n, p, g, side, cur
      <4>8. /\ \E EE, G : FixupInv(v, p, k, T, key, EE, G)
            /\ Frame(v, r, k, T)
            /\ Color(v, Parent(v, p)) = BLACK
        BY <4>2, <4>3, <4>5, <4>6, <4>7, FixupOuter
      <4> QED BY <4>1, <4>2, <4>8, FrameStep
    <3>2. CASE ~ inner
      <4>1. low = n /\ r = t /\ top = p BY <3>2
      <4>2. Child(t, p, side) = n BY <2>2, <3>2, Others
      <4> HIDE DEF low, r, inner, top
      <4>3. v = Rotate(Paint(Paint(t, p, BLACK), g, RED), k, g, Other(side)) BY <4>1
      <4> HIDE DEF v
      <4> HIDE DEF t, n
      <4>4. FixupInv(t, n, k, T, key, D, H) BY DEF t, n
      <4> QED BY <1>3, <2>3, <4>1, <4>2, <4>3, <4>4, FixupOuter
    <3> QED BY <3>1, <3>2
  <2> HIDE DEF y, v, t, n, p, low
  <2>5. y.tree = v /\ y.node = low BY <2>1
  <2> QED BY <1>3, <2>4, <2>5 DEF t, n, p, y, RED, BLACK
<1> QED BY <1>1, <1>2, <1>3

(* A set that gains an element has a larger cardinality. *)
LEMMA Grows ==
  ASSUME IsFiniteSet(Slots), NEW A, NEW B, B \subseteq Slots, A \subseteq B, NEW y \in B,
         y \notin A
  PROVE  /\ Cardinality(A) \in Nat /\ Cardinality(B) \in Nat
         /\ Cardinality(B) >= Cardinality(A) + 1
         /\ Cardinality(B) <= Cardinality(Slots)
<1>1. IsFiniteSet(B) /\ Cardinality(B) <= Cardinality(Slots) BY FS_Subset
<1>2. IsFiniteSet(A) BY <1>1, FS_Subset
<1>3. Cardinality(A) \in Nat /\ Cardinality(B) \in Nat BY <1>1, <1>2, FS_CardinalityType
<1>4. Cardinality(A \cup {y}) = Cardinality(A) + 1 BY <1>2, FS_AddElement
<1>5. A \cup {y} \subseteq B OBVIOUS
<1>6. Cardinality(A \cup {y}) <= Cardinality(B) BY <1>1, <1>5, FS_Subset
<1> QED BY <1>1, <1>3, <1>4, <1>6

(* The condition that ends the loop of TLBTreeFixup. *)
FixupDone(x) == Color(x.tree, Parent(x.tree, x.node)) # RED

(* The state after i rounds. *)
FixupAfter(x, t, k, T, key, i) ==
  \E D, H : /\ FixupInv(x.tree, x.node, k, T, key, D, H)
            /\ Frame(x.tree, t, k, T)
            /\ FixupDone(x) \/ Cardinality(Sub(D, x.node)) > i

(* One round more. *)
LEMMA FixupRounds ==
  ASSUME NEW t, NEW k \in Trees, NEW T, NEW key,
         NEW x \in States, NEW i \in Nat, FixupAfter(x, t, k, T, key, i)
  PROVE  FixupRound(k, x) \in States /\ FixupAfter(FixupRound(k, x), t, k, T, key, i + 1)
<1> DEFINE y == FixupRound(k, x)
           n == x.node
<1>1. PICK D, H : /\ FixupInv(x.tree, n, k, T, key, D, H)
                  /\ Frame(x.tree, t, k, T)
                  /\ FixupDone(x) \/ Cardinality(Sub(D, n)) > i
  BY DEF FixupAfter
<1>2. CASE FixupDone(x)
  <2>1. y = x BY <1>1, <1>2, FixupRoundIs DEF FixupDone
  <2> QED BY <1>1, <1>2, <2>1 DEF FixupAfter
<1>3. CASE ~ FixupDone(x)
  <2>1. PICK E, G : /\ FixupInv(y.tree, y.node, k, T, key, E, G)
                    /\ Frame(y.tree, x.tree, k, T)
                    /\ \/ Color(y.tree, Parent(y.tree, y.node)) # RED
                       \/ Sub(D, n) \subseteq Sub(E, y.node) /\ y.node \notin Sub(D, n)
    BY <1>1, <1>3, FixupRoundIs DEF FixupDone
  <2> HIDE DEF y, n
  <2>2. Frame(y.tree, t, k, T) BY <1>1, <2>1, FrameStep
  <2>3. /\ Shape(y.tree, k, E, key) /\ Members(y.tree, k, E) = T /\ y.node \in T
    BY <2>1 DEF FixupInv
  <2>4. NodeOK(y.tree, k, E, key, y.node) BY <2>3 DEF Shape
  <2>5. Kin(y.tree, k, E, key, y.node) BY <2>3, Family
  <2>6. Sub(E, y.node) \subseteq Slots /\ y.node \in Sub(E, y.node)
    BY <2>3, <2>4, <2>5 DEF Shape, NodeOK, Kin
  <2>7. FixupDone(y) \/ Cardinality(Sub(E, y.node)) > i + 1
    <3>1. CASE FixupDone(y) BY <3>1
    <3>2. CASE ~ FixupDone(y)
      <4>1. Sub(D, n) \subseteq Sub(E, y.node) /\ y.node \notin Sub(D, n)
        BY <2>1, <3>2 DEF FixupDone
      <4>2. /\ Cardinality(Sub(D, n)) \in Nat /\ Cardinality(Sub(E, y.node)) \in Nat
            /\ Cardinality(Sub(E, y.node)) >= Cardinality(Sub(D, n)) + 1
        BY <2>6, <4>1, Grows, NodesAssumption
      <4>3. Cardinality(Sub(D, n)) > i BY <1>1, <1>3
      <4> QED BY <4>2, <4>3
    <3> QED BY <3>1, <3>2
  <2>8. y \in States
    <3>1. y.tree \in TreeType /\ y.node \in Nodes BY <2>3, <2>5 DEF Shape, Kin
    <3>2. y = [tree |-> y.tree, node |-> y.node]
      BY DEF y, FixupRound, States
    <3> HIDE DEF y
    <3> QED BY <3>1, <3>2 DEF States
  <2>9. FixupAfter(y, t, k, T, key, i + 1) BY <2>1, <2>2, <2>7 DEF FixupAfter
  <2> QED BY <2>8, <2>9 DEF y
<1> QED BY <1>2, <1>3

(* The loop ends with the parent of the node black. *)
LEMMA FixupLoop ==
  ASSUME NEW t, NEW n, NEW k \in Trees, NEW T, NEW key, NEW D, NEW H,
         FixupInv(t, n, k, T, key, D, H)
  PROVE  LET x == Loop(LAMBDA y : FixupRound(k, y), [tree |-> t, node |-> n])
         IN  x \in States /\ FixupDone(x) /\ FixupAfter(x, t, k, T, key, 0)
<1> DEFINE s == [tree |-> t, node |-> n]
           N == Cardinality(Slots)
           F == [x \in States |-> FixupRound(k, x)]
           P == [i \in Nat |-> {x \in States : FixupAfter(x, t, k, T, key, i)}]
           after == CHOOSE f : f = [i \in 0 .. N |-> IF i = 0 THEN s ELSE FixupRound(k, f[i - 1])]
           x == Loop(LAMBDA y : FixupRound(k, y), s)
<1>1. x = after[N] BY DEF Loop
<1>2. N \in Nat BY FS_CardinalityType, NodesAssumption
<1>3. s \in P[0]
  <2>1. s.tree = t /\ s.node = n OBVIOUS
  <2>2. Kin(t, k, D, key, n) /\ t \in TreeType /\ Shape(t, k, D, key) /\ n \in Members(t, k, D)
    BY Family DEF FixupInv, Shape
  <2>3. s \in States BY <2>2 DEF States, Kin
  <2>4. NodeOK(t, k, D, key, n) BY <2>2 DEF Shape
  <2>5. n \in Sub(D, n) /\ Sub(D, n) \subseteq Slots BY <2>2, <2>4 DEF NodeOK, Kin, Shape
  <2>6. Cardinality(Sub(D, n)) > 0
    <3>1. Cardinality({}) = 0 BY FS_EmptySet
    <3>2. Cardinality(Sub(D, n)) >= Cardinality({}) + 1 /\ Cardinality(Sub(D, n)) \in Nat
      BY <2>5, Grows, NodesAssumption
    <3> QED BY <3>1, <3>2
  <2>7. Frame(t, t, k, T) BY DEF Frame
  <2>8. FixupAfter(s, t, k, T, key, 0)
    <3> HIDE DEF s
    <3> QED BY <2>1, <2>6, <2>7 DEF FixupAfter
  <2> HIDE DEF s
  <2> QED BY <2>3, <2>8
<1>4. \A i \in Nat : \A y \in P[i] : F[y] \in P[i + 1]
  <2>1. ASSUME NEW i \in Nat, NEW y \in P[i] PROVE F[y] \in P[i + 1]
    <3>1. y \in States /\ FixupAfter(y, t, k, T, key, i) OBVIOUS
    <3>2. F[y] = FixupRound(k, y) BY <3>1
    <3>3. FixupRound(k, y) \in States /\ FixupAfter(FixupRound(k, y), t, k, T, key, i + 1)
      BY <3>1, FixupRounds
    <3> HIDE DEF F
    <3> QED BY <3>2, <3>3
  <2> QED BY <2>1
<1> HIDE DEF P, F, s, N
<1>5. PICK f : /\ f = [i \in 0 .. N |-> IF i = 0 THEN s ELSE F[f[i - 1]]]
               /\ \A i \in 0 .. N : f[i] \in P[i]
  <2>1. Leads(P, F) BY <1>4 DEF Leads
  <2>2. \E g : Unrolled(g, P, s, F, N) BY <1>2, <1>3, <2>1, Rounds
  <2> QED BY <2>2 DEF Unrolled
<1>6. \A y \in States : F[y] = FixupRound(k, y) BY DEF F
<1>7. \A i \in Nat : P[i] \subseteq States BY DEF P
<1>8. f = [i \in 0 .. N |-> IF i = 0 THEN s ELSE FixupRound(k, f[i - 1])]
  <2>1. ASSUME NEW i \in 0 .. N, i # 0 PROVE F[f[i - 1]] = FixupRound(k, f[i - 1])
    <3>1. i - 1 \in 0 .. N /\ i - 1 \in Nat BY <1>2, <2>1
    <3>2. f[i - 1] \in States BY <1>5, <1>7, <3>1
    <3> QED BY <1>6, <3>2
  <2>2. [i \in 0 .. N |-> IF i = 0 THEN s ELSE F[f[i - 1]]]
          = [i \in 0 .. N |-> IF i = 0 THEN s ELSE FixupRound(k, f[i - 1])]
    BY <2>1
  <2> QED BY <1>5, <2>2
<1>9. after = [i \in 0 .. N |-> IF i = 0 THEN s ELSE FixupRound(k, after[i - 1])]
  BY <1>8
<1> HIDE DEF after
<1>10. \A i \in 0 .. N : after[i] = f[i]
  <2> DEFINE A == {i \in Nat : i \in 0 .. N => after[i] = f[i]}
  <2>1. 0 \in A BY <1>8, <1>9
  <2>2. ASSUME NEW i \in Nat, i \in A PROVE i + 1 \in A
    <3>1. CASE i + 1 \in 0 .. N
      <4>1. i \in 0 .. N /\ (i + 1) - 1 = i /\ i + 1 # 0 BY <1>2, <3>1
      <4>2. after[i] = f[i] BY <2>2, <4>1
      <4>3. after[i + 1] = FixupRound(k, after[i]) BY <1>9, <3>1, <4>1
      <4>4. f[i + 1] = FixupRound(k, f[i]) BY <1>8, <3>1, <4>1
      <4> QED BY <4>2, <4>3, <4>4
    <3>2. CASE i + 1 \notin 0 .. N BY <3>2
    <3> QED BY <3>1, <3>2
  <2> HIDE DEF A
  <2>3. Nat \subseteq A BY <2>1, <2>2, SetInduction
  <2> QED BY <2>3 DEF A
<1>11. after[N] \in P[N] BY <1>2, <1>5, <1>10
<1>12. x \in States /\ FixupAfter(x, t, k, T, key, N) BY <1>1, <1>2, <1>11 DEF P
<1> HIDE DEF x
<1>13. PICK E, G : /\ FixupInv(x.tree, x.node, k, T, key, E, G)
                   /\ Frame(x.tree, t, k, T)
                   /\ FixupDone(x) \/ Cardinality(Sub(E, x.node)) > N
  BY <1>12 DEF FixupAfter
<1>14. FixupDone(x)
  <2>1. Sub(E, x.node) \subseteq Slots BY <1>12, <1>13 DEF FixupInv, Shape, States
  <2>2. Cardinality(Sub(E, x.node)) <= N /\ Cardinality(Sub(E, x.node)) \in Nat
    BY <2>1, FS_Subset, FS_CardinalityType, NodesAssumption DEF N
  <2> QED BY <1>2, <1>13, <2>2
<1>15. FixupAfter(x, t, k, T, key, 0) BY <1>13, <1>14 DEF FixupAfter
<1> QED BY <1>12, <1>14, <1>15 DEF x, s

-----------------------------------------------------------------------------
(* What TLBTreeFixup leaves is a red-black tree. *)

(* The root of a tree that is balanced may be painted black. *)
LEMMA BlackRoot ==
  ASSUME NEW t, NEW k \in Trees, NEW T, NEW key, NEW D, NEW H,
         Shape(t, k, D, key), Members(t, k, D) = T, Levels(t, k, T, H, NULL, "left"),
         NEW r, r = Root(t, k), r \in T,
         \A m \in T : m # r => RedRule(t, m)
  PROVE  LET x == Paint(t, r, BLACK)
         IN  /\ \E G : RBTree(x, k, T, key, D, G)
             /\ Frame(x, t, k, T)
<1> DEFINE x == Paint(t, r, BLACK)
           z == Nil[k]
<1>0. z \in Nodes /\ z \notin Slots /\ Slots \subseteq Nodes BY NilNodes DEF Nodes
<1>1. Balanced(t, k, T, H) /\ T \subseteq Nodes /\ \A m \in T : \A s \in Sides :
        Child(t, m, s) \in Nodes
  BY LevelsAre
<1>2. /\ SameLinks(x, t) /\ Frame(x, t, k, T)
      /\ \A i \in Nodes : Color(x, i) = IF i = r THEN BLACK ELSE Color(t, i)
  <2>1. t \in TreeType /\ r \in Nodes BY <1>1 DEF Shape
  <2> QED BY <2>1, PaintLinks
<1> HIDE DEF x
<1>3. Shape(x, k, D, key) /\ Members(x, k, D) = T BY <1>2, Repaint
<1>4. Root(x, k) = r /\ \A m \in T : \A s \in Sides : Child(x, m, s) = Child(t, m, s)
  BY <1>1, <1>2 DEF SameLinks, SameRoots, SameChildren
<1> DEFINE up == IF Color(t, r) = BLACK THEN 0 ELSE 1
           G == [m \in Nodes |-> IF m = r THEN Ht(H, m) + up ELSE Ht(H, m)]
<1>5. \A m \in Nodes : Ht(G, m) = IF m = r THEN Ht(H, m) + up ELSE Ht(H, m) BY DEF Ht
<1>6. up \in Nat /\ Weight(t, r) + up = 1 /\ Weight(x, r) = 1
  BY <1>1, <1>2 DEF Weight
<1> HIDE DEF G, up
<1>7. r # z
  <2>1. Kin(t, k, D, key, r) BY Family
  <2> QED BY <2>1 DEF Kin
<1>8. \A m \in T : \A s \in Sides : Child(t, m, s) # r
  <2>1. ASSUME NEW m \in T, NEW s \in Sides PROVE Child(t, m, s) # r
    <3>1. Kin(t, k, D, key, m) BY Family
    <3> QED BY <1>7, <3>1 DEF Kin
  <2> QED BY <2>1
<1>9. Balanced(x, k, T, G)
  <2>1. Color(x, z) = BLACK /\ Ht(G, z) = 0 BY <1>0, <1>1, <1>2, <1>5, <1>7 DEF Balanced
  <2>2. \A m \in Nodes : Ht(G, m) \in Nat BY <1>1, <1>5, <1>6 DEF Balanced
  <2>3. ASSUME NEW m \in T,
               NEW s \in Sides PROVE Ht(G, m) = Ht(G, Child(x, m, s)) + Weight(x, m)
    <3>1. /\ Child(x, m, s) = Child(t, m, s) /\ Child(t, m, s) \in Nodes /\ m \in Nodes
          /\ Ht(H, m) = Ht(H, Child(t, m, s)) + Weight(t, m)
          /\ Ht(H, Child(t, m, s)) \in Nat /\ Ht(H, m) \in Nat
      BY <1>1, <1>4 DEF Balanced
    <3>2. Ht(G, Child(t, m, s)) = Ht(H, Child(t, m, s)) BY <1>5, <1>8, <3>1
    <3>3. CASE m = r
      <4>1. Ht(G, m) = Ht(H, m) + up BY <1>5, <3>1, <3>3
      <4>2. Weight(t, m) \in Nat BY DEF Weight
      <4> QED BY <1>6, <3>1, <3>2, <3>3, <4>1, <4>2
    <3>4. CASE m # r
      <4>1. Weight(x, m) = Weight(t, m) BY <1>2, <3>1, <3>4 DEF Weight
      <4> QED BY <1>5, <3>1, <3>2, <3>4, <4>1
    <3> QED BY <3>3, <3>4
  <2> QED BY <2>1, <2>2, <2>3 DEF Balanced
<1>10. Levels(x, k, T, G, NULL, "left") BY <1>3, <1>9, LevelsAre
<1>11. ASSUME NEW m \in T PROVE RedRule(x, m)
  <2>1. CASE m = r BY <1>1, <1>2, <2>1 DEF RedRule, RED, BLACK
  <2>2. CASE m # r
    <3>1. RedRule(t, m) BY <2>2
    <3>2. Color(x, m) = Color(t, m) BY <1>1, <1>2, <2>2
    <3>3. \A s \in Sides : Child(x, m, s) = Child(t, m, s) /\ Child(t, m, s) # r
            /\ Child(t, m, s) \in Nodes
      BY <1>1, <1>4, <1>8
    <3>4. \A s \in Sides : Color(x, Child(x, m, s)) = Color(t, Child(t, m, s)) BY <1>2, <3>3
    <3> QED BY <3>1, <3>2, <3>4 DEF RedRule
  <2> QED BY <2>1, <2>2
<1>12. Color(x, Root(x, k)) = BLACK BY <1>1, <1>2, <1>4
<1>13. RBTree(x, k, T, key, D, G) BY <1>3, <1>10, <1>11, <1>12 DEF RBTree
<1> QED BY <1>2, <1>13 DEF x

(* What TLBTreeFixup restores: a red-black tree with the same nodes. *)
LEMMA FixupTree ==
  ASSUME NEW t, NEW n, NEW k \in Trees, NEW T, NEW key, NEW D, NEW H,
         FixupInv(t, n, k, T, key, D, H)
  PROVE  LET x == TLBTreeFixup(t, k, n)
         IN  /\ \E E, G : RBTree(x, k, T, key, E, G)
             /\ Frame(x, t, k, T)
<1> DEFINE y == Loop(LAMBDA w : FixupRound(k, w), [tree |-> t, node |-> n])
           x == TLBTreeFixup(t, k, n)
<1>1. x = Paint(y.tree, Root(y.tree, k), BLACK) BY DEF TLBTreeFixup
<1>2. y \in States /\ FixupDone(y) /\ FixupAfter(y, t, k, T, key, 0) BY FixupLoop
<1> HIDE DEF x, y
<1>3. PICK E, G : FixupInv(y.tree, y.node, k, T, key, E, G) /\ Frame(y.tree, t, k, T)
  BY <1>2 DEF FixupAfter
<1> DEFINE u == y.tree
           r == Root(u, k)
<1> HIDE DEF u, r
<1>4. /\ Shape(u, k, E, key) /\ Members(u, k, E) = T /\ Levels(u, k, T, G, NULL, "left")
      /\ y.node \in T
  BY <1>3 DEF FixupInv, u
<1>5. r \in T BY <1>4 DEF Members, Shape, r
<1>6. \A m \in T : m # r => RedRule(u, m)
  <2>1. ASSUME NEW m \in T, m # r PROVE RedRule(u, m)
    <3>1. CASE m = Parent(u, y.node) BY <1>2, <3>1 DEF FixupDone, RedRule, u
    <3>2. CASE m # Parent(u, y.node) BY <1>3, <3>2 DEF FixupInv, u
    <3> QED BY <3>1, <3>2
  <2> QED BY <2>1
<1>7. /\ \E GG : RBTree(Paint(u, r, BLACK), k, T, key, E, GG)
      /\ Frame(Paint(u, r, BLACK), u, k, T)
  BY <1>4, <1>5, <1>6, BlackRoot DEF r
<1>8. x = Paint(u, r, BLACK) BY <1>1 DEF u, r
<1>9. Frame(x, t, k, T) BY <1>3, <1>7, <1>8, FrameStep DEF u
<1>10. \E EE, GG : RBTree(x, k, T, key, EE, GG) BY <1>7, <1>8
<1> QED BY <1>9, <1>10 DEF x

-----------------------------------------------------------------------------
(* Eviction: the loop of EvictFixup. *)

(* The tree t is a red-black tree but for node n: its parent is a level short on side sd, *)
(* and n may be a red child of a red node.                                              *)
EvictInv(t, n, k, T, key, D, H, sd) ==
  /\ Shape(t, k, D, key)
  /\ Members(t, k, D) = T
  /\ n \in T \cup {Nil[k]}
  /\ n # Root(t, k) => /\ Parent(t, n) \in T
                       /\ sd \in Sides /\ sd = SideIn(t, Parent(t, n), n)
                       /\ Child(t, Parent(t, n), sd) = n
                       /\ Levels(t, k, T, H, Parent(t, n), sd)
                       /\ Color(t, Root(t, k)) = BLACK
  /\ n = Root(t, k) => Levels(t, k, T, H, NULL, "left")
  /\ \A m \in T : m # n /\ Color(t, m) = RED => \A s \in Sides :
       Child(t, m, s) = n \/ Color(t, Child(t, m, s)) = BLACK

(* The same of n, its parent p and its sibling w. *)
EvictAt(t, n, k, T, H, sd, p, w) ==
  /\ T \subseteq Nodes /\ Nil[k] \notin T
  /\ n \in Nodes /\ p \in T /\ w \in T /\ p # n /\ w # n /\ w # p
  /\ Parent(t, n) = p /\ Parent(t, w) = p
  /\ sd \in Sides
  /\ Child(t, p, sd) = n /\ Child(t, p, Other(sd)) = w
  /\ n # Root(t, k) /\ w # Root(t, k)
  /\ Color(t, Nil[k]) = BLACK /\ Ht(H, Nil[k]) = 0
  /\ Color(t, Root(t, k)) = BLACK
  /\ \A m \in Nodes : Ht(H, m) \in Nat
  /\ \A m \in T : \A s \in Sides : /\ Child(t, m, s) \in Nodes
                                   /\ Child(t, m, s) # Nil[k] => /\ Child(t, m, s) \in T
                                                                 /\ Parent(t, Child(t, m, s)) = m
                                                                 /\ Child(t, m, s) # m
  /\ \A m \in T : \A s \in Sides : m # p \/ s # sd =>
       Ht(H, m) = Ht(H, Child(t, m, s)) + Weight(t, m)
  /\ Ht(H, p) = Ht(H, n) + Weight(t, p) + 1
  /\ Ht(H, w) = Ht(H, n) + 1

(* They are there: the sibling of a node that is short is no nil, so that *)
(* EvictFixup may follow its children without a test.                     *)
LEMMA EvictFacts ==
  ASSUME NEW t, NEW n, NEW k \in Trees, NEW T, NEW key, NEW D, NEW H, NEW sd,
         EvictInv(t, n, k, T, key, D, H, sd), n # Root(t, k),
         NEW p, p = Parent(t, n), NEW w, w = Child(t, p, Other(sd))
  PROVE  EvictAt(t, n, k, T, H, sd, p, w)
<1> DEFINE z == Nil[k]
<1>0. z \in Nodes /\ z \notin Slots /\ Slots \subseteq Nodes BY NilNodes DEF Nodes
<1>1. /\ Shape(t, k, D, key) /\ Members(t, k, D) = T /\ p \in T /\ sd \in Sides
           /\ Child(t, p, sd) = n
      /\ Levels(t, k, T, H, p, sd) /\ Color(t, Root(t, k)) = BLACK /\ n \in T \cup {z}
  BY DEF EvictInv
<1>2. T \subseteq Slots BY <1>1, Typed DEF Shape, Members
<1>3. Kin(t, k, D, key, p) BY <1>1, Family
<1>4. n \in Nodes /\ n # p BY <1>0, <1>1, <1>2, <1>3 DEF Kin
<1>5. Other(sd) \in Sides /\ Other(sd) # sd /\ Other(Other(sd)) = sd BY <1>1, Others
<1>6. /\ \A m \in Nodes : Ht(H, m) \in Nat
      /\ Color(t, z) = BLACK /\ Ht(H, z) = 0
      /\ \A m \in T : \A s \in Sides : Ht(H, m) = Ht(H, Child(t, m, s)) + Weight(t,
           m) + Short(p, sd, m, s)
  BY <1>1 DEF Levels
<1>7. \A m \in T : \A s \in Sides : /\ Child(t, m, s) \in Nodes
                                    /\ Child(t, m, s) # z => /\ Child(t, m, s) \in T
                                                             /\ Parent(t, Child(t, m, s)) = m
                                                             /\ Child(t, m, s) # m
  <2>1. ASSUME NEW m \in T, NEW s \in Sides
        PROVE  /\ Child(t, m, s) \in Nodes
               /\ Child(t, m, s) # z => /\ Child(t, m, s) \in T
                                        /\ Parent(t, Child(t, m, s)) = m
                                        /\ Child(t, m, s) # m
    <3>1. Kin(t, k, D, key, m) BY <1>1, Family
    <3> QED BY <1>1, <3>1 DEF Kin
  <2> QED BY <2>1
<1>8. ASSUME NEW m \in T, NEW s \in Sides, m # p \/ s # sd
      PROVE  Ht(H, m) = Ht(H, Child(t, m, s)) + Weight(t, m)
  <2>1. Short(p, sd, m, s) = 0 BY <1>8 DEF Short
  <2>2. Ht(H, Child(t, m, s)) \in Nat /\ Weight(t, m) \in Nat BY <1>6, <1>7 DEF Weight
  <2>3. Ht(H, m) = Ht(H, Child(t, m, s)) + Weight(t, m) + Short(p, sd, m, s) BY <1>6
  <2> QED BY <2>1, <2>2, <2>3
<1>9. Ht(H, p) = Ht(H, n) + Weight(t, p) + 1
  <2>1. Short(p, sd, p, sd) = 1 BY DEF Short
  <2> QED BY <1>1, <1>6, <2>1
<1>10. Ht(H, w) = Ht(H, n) + 1
  <2>1. Ht(H, p) = Ht(H, w) + Weight(t, p) BY <1>1, <1>5, <1>8
  <2>2. Ht(H, w) \in Nat /\ Ht(H, n) \in Nat /\ Weight(t, p) \in Nat
    BY <1>1, <1>4, <1>5, <1>6, <1>7 DEF Weight
  <2> QED BY <1>9, <2>1, <2>2
<1>11. w # z
  <2>1. Ht(H, n) \in Nat BY <1>4, <1>6
  <2> QED BY <1>6, <1>10, <2>1
<1>12. w \in T /\ Parent(t, w) = p /\ w # p BY <1>1, <1>5, <1>7, <1>11
<1>13. w # n BY <1>1, <1>3, <1>5, <1>11 DEF Kin
<1>14. w # Root(t, k) BY <1>1, <1>3, <1>5, <1>11 DEF Kin
<1>15. z \notin T /\ T \subseteq Nodes BY <1>0, <1>2
<1> QED BY <1>1, <1>4, <1>6, <1>7, <1>8, <1>9, <1>10, <1>12, <1>13, <1>14, <1>15 DEF EvictAt

(* The sibling is red: a rotation gives n a black one. *)
LEMMA EvictRedSibling ==
  ASSUME NEW t, NEW n, NEW k \in Trees, NEW T, NEW key, NEW D, NEW H, NEW sd,
         EvictInv(t, n, k, T, key, D, H, sd), n # Root(t, k),
         NEW p, p = Parent(t, n), NEW w, w = Child(t, p, Other(sd)), Color(t, w) = RED
  PROVE  LET x == Rotate(Paint(Paint(t, w, BLACK), p, RED), k, p, sd)
         IN  /\ \E E, G : /\ EvictInv(x, n, k, T, key, E, G, sd)
                          /\ Sub(E, n) = Sub(D, n)
             /\ Frame(x, t, k, T)
             /\ n # Root(x, k) /\ Color(x, n) = Color(t, n)
             /\ Parent(x, n) = p
             /\ Color(x, Child(x, p, Other(sd))) = BLACK
<1> DEFINE near == Child(t, w, sd)
           far == Child(t, w, Other(sd))
           u == Paint(t, w, BLACK)
           v == Paint(u, p, RED)
           x == Rotate(v, k, p, sd)
           z == Nil[k]
<1>1. EvictAt(t, n, k, T, H, sd, p, w) BY EvictFacts
<1>2. Shape(t, k, D, key) /\ Members(t, k, D) = T /\ t \in TreeType /\ n \in T \cup {z}
  BY DEF EvictInv, Shape
<1>3. /\ T \subseteq Nodes /\ z \notin T /\ n \in Nodes /\ p \in T /\ w \in T
      /\ p # n /\ w # n /\ w # p /\ sd \in Sides /\ p \in Nodes /\ w \in Nodes
      /\ Child(t, p, sd) = n /\ Child(t, p, Other(sd)) = w
      /\ n # Root(t, k) /\ w # Root(t, k)
      /\ Parent(t, n) = p /\ Parent(t, w) = p
  BY <1>1 DEF EvictAt
<1>4. sd # Other(sd) /\ Other(sd) \in Sides /\ Sides = {sd, Other(sd)} /\ Other(Other(sd)) = sd
  BY <1>3, Others
<1>5. /\ near \in Nodes /\ far \in Nodes
      /\ near # w /\ far # w
      /\ near # z => near \in T /\ Parent(t, near) = w
      /\ far # z => far \in T /\ Parent(t, far) = w
  BY <1>1, <1>3, <1>4 DEF EvictAt
<1>6. near # p /\ far # p /\ (near # z => near # n) /\ (far # z => far # n)
  <2>1. Kin(t, k, D, key, w) BY <1>2, <1>3, Family
  <2> QED BY <1>3, <1>4, <1>5, <2>1 DEF Kin
<1>7. SameLinks(u, t) /\ (\A i \in Nodes : Color(u, i) = IF i = w THEN BLACK
        ELSE Color(t, i)) /\ Frame(u, t, k, T)
  BY <1>2, <1>3, PaintLinks
<1> HIDE DEF u
<1>8. SameLinks(v, u) /\ (\A i \in Nodes : Color(v, i) = IF i = p THEN RED ELSE Color(u, i))
        /\ Frame(v, u, k, T)
  <2>1. u \in TreeType BY <1>7 DEF SameLinks
  <2> QED BY <1>3, <2>1, PaintLinks
<1> HIDE DEF v
<1>9. SameLinks(v, t) BY <1>7, <1>8 DEF SameLinks, SameRoots, SameChildren, SameParents
<1>10. Shape(v, k, D, key) /\ Members(v, k, D) = T BY <1>2, <1>9, Repaint
<1>11. /\ Child(v, p, sd) = n /\ Child(v, p, Other(sd)) = w
       /\ Child(v, w, sd) = near /\ Child(v, w, Other(sd)) = far /\ Root(v, k) = Root(t, k)
       /\ Parent(v, n) = p
       /\ \A m \in T : \A s \in Sides : Child(v, m, s) = Child(t, m, s)
  BY <1>3, <1>4, <1>9 DEF SameLinks, SameChildren, SameRoots, SameParents
<1> DEFINE E == RotatedSub(D, p, w, sd, v)
<1>12. Shape(x, k, E, key) /\ Members(x, k, E) = T /\ Turned(x, v, k, T, p, sd, w)
  BY <1>3, <1>10, <1>11, Turn
<1>13. Sub(E, n) = Sub(D, n) BY <1>3 DEF RotatedSub, Sub
<1> HIDE DEF x, E
<1>14. /\ Child(x, p, sd) = n /\ Child(x, p, Other(sd)) = near
       /\ Child(x, w, sd) = p /\ Child(x, w, Other(sd)) = far
       /\ Root(x, k) = IF Root(t, k) = p THEN w ELSE Root(t, k)
       /\ \A m \in T : m # p /\ m # w => \A s \in Sides :
            Child(x, m, s) = IF Child(t, m, s) = p THEN w ELSE Child(t, m, s)
  BY <1>4, <1>11, <1>12 DEF Turned
<1>15. Parent(x, n) = p
  <2>1. n = z \/ n # near BY <1>6
  <2> QED BY <1>3, <1>11, <1>12, <2>1 DEF Turned
<1>16. \A i \in Nodes : Color(x, i) = IF i = p THEN RED ELSE IF i = w THEN BLACK ELSE Color(t, i)
  BY <1>7, <1>8, <1>12 DEF Turned, SameColors
<1>17. Frame(x, t, k, T)
  <2>1. Frame(x, v, k, T) BY <1>12 DEF Turned
  <2> QED BY <1>7, <1>8, <2>1, FrameStep
<1> DEFINE G == [m \in Nodes |-> IF m = p THEN Ht(H, w) ELSE IF m = w THEN Ht(H, p) ELSE Ht(H, m)]
<1>18. \A m \in Nodes : Ht(G, m) = IF m = p THEN Ht(H, w) ELSE IF m = w THEN Ht(H, p) ELSE Ht(H, m)
  BY DEF Ht
<1> HIDE DEF G
<1>19. Color(t, p) = BLACK
  <2>1. Color(t, p) # RED BY <1>3, <1>4 DEF EvictInv, RED, BLACK
  <2> QED BY <1>2, <1>3, <2>1, Typed
<1>20. Weight(t, p) = 1 /\ Weight(t, w) = 0 /\ Weight(x, p) = 0 /\ Weight(x, w) = 1
  BY <1>3, <1>16, <1>19 DEF Weight, RED, BLACK
<1>21. /\ Ht(H, p) = Ht(H, n) + 2 /\ Ht(H, w) = Ht(H, n) + 1
       /\ Ht(H, near) = Ht(H, n) + 1 /\ Ht(H, far) = Ht(H, n) + 1
       /\ \A m \in Nodes : Ht(H, m) \in Nat
  <2>1. /\ Ht(H, p) = Ht(H, n) + 1 + 1 /\ Ht(H, w) = Ht(H, n) + 1
        /\ \A m \in Nodes : Ht(H, m) \in Nat
        /\ Ht(H, w) = Ht(H, near) + 0 /\ Ht(H, w) = Ht(H, far) + 0
    BY <1>1, <1>3, <1>4, <1>20 DEF EvictAt
  <2>2. Ht(H, near) \in Nat /\ Ht(H, far) \in Nat /\ Ht(H, n) \in Nat BY <1>3, <1>5, <2>1
  <2> QED BY <2>1, <2>2
<1>22. near # z /\ near # n
  <2>1. Ht(H, z) = 0 /\ Ht(H, n) \in Nat BY <1>1, <1>3, <1>21 DEF EvictAt
  <2> QED BY <1>6, <1>21, <2>1
<1>23. Color(t, near) = BLACK /\ Color(t, far) = BLACK
  BY <1>1, <1>3, <1>4, <1>5, <1>6 DEF EvictInv, EvictAt
<1>24. ASSUME NEW m \in T, m # p, m # w
       PROVE  /\ \A s \in Sides : Ht(G, Child(x, m, s)) = Ht(H, Child(t, m, s))
              /\ Weight(x, m) = Weight(t, m) /\ Ht(G, m) = Ht(H, m)
              /\ Color(x, m) = Color(t, m)
              /\ \A s \in Sides : Color(x, Child(x, m, s)) = Color(t, Child(t, m, s))
              /\ \A s \in Sides : Child(t, m, s) = n <=> Child(x, m, s) = n
  <2>1. m \in Nodes BY <1>3
  <2>2. Color(x, m) = Color(t, m) /\ Ht(G, m) = Ht(H, m) BY <1>16, <1>18, <1>24, <2>1
  <2>3. ASSUME NEW s \in Sides
        PROVE  /\ Ht(G, Child(x, m, s)) = Ht(H, Child(t, m, s))
               /\ Color(x, Child(x, m, s)) = Color(t, Child(t, m, s))
               /\ Child(t, m, s) = n <=> Child(x, m, s) = n
    <3>1. CASE Child(t, m, s) = p
      <4>1. Child(x, m, s) = w BY <1>14, <1>24, <3>1
      <4> QED BY <1>3, <1>16, <1>18, <1>19, <3>1, <4>1
    <3>2. CASE Child(t, m, s) # p
      <4>1. Child(x, m, s) = Child(t, m, s) BY <1>14, <1>24, <3>2
      <4>2. Child(t, m, s) \in Nodes /\ Child(t, m, s) # w
        BY <1>1, <1>3, <1>24 DEF EvictAt
      <4> QED BY <1>16, <1>18, <3>2, <4>1, <4>2
    <3> QED BY <3>1, <3>2
  <2> QED BY <2>2, <2>3 DEF Weight
<1>25. Levels(x, k, T, G, p, sd)
  <2>1. Color(x, z) = BLACK /\ Ht(G, z) = 0
    <3>1. z \in Nodes BY NilNodes
    <3> QED BY <1>1, <1>3, <1>16, <1>18, <3>1 DEF EvictAt
  <2>2. \A m \in Nodes : Ht(G, m) \in Nat BY <1>3, <1>18, <1>21
  <2>3. ASSUME NEW m \in T, NEW s \in Sides
        PROVE  Ht(G, m) = Ht(G, Child(x, m, s)) + Weight(x, m) + Short(p, sd, m, s)
    <3>1. CASE m = p
      <4>1. Ht(G, p) = Ht(H, n) + 1 /\ Ht(G, n) = Ht(H, n) /\ Ht(G, near) = Ht(H, n) + 1
              /\ Ht(H, n) \in Nat
        BY <1>3, <1>5, <1>6, <1>18, <1>21
      <4>2. CASE s = sd
        <5>1. Short(p, sd, m, s) = 1 BY <3>1, <4>2 DEF Short
        <5> QED BY <1>14, <1>20, <3>1, <4>1, <4>2, <5>1
      <4>3. CASE s = Other(sd)
        <5>1. Short(p, sd, m, s) = 0 BY <1>4, <3>1, <4>3 DEF Short
        <5> QED BY <1>14, <1>20, <3>1, <4>1, <4>3, <5>1
      <4> QED BY <1>4, <4>2, <4>3
    <3>2. CASE m = w
      <4>1. Ht(G, w) = Ht(H, n) + 2 /\ Ht(G, p) = Ht(H, n) + 1 /\ Ht(G, far) = Ht(H, n) + 1
              /\ Ht(H, n) \in Nat
        BY <1>3, <1>5, <1>6, <1>18, <1>21
      <4>2. Short(p, sd, m, s) = 0 BY <1>3, <3>2 DEF Short
      <4> QED BY <1>4, <1>14, <1>20, <3>2, <4>1, <4>2
    <3>3. CASE m # p /\ m # w
      <4>1. Ht(H, m) = Ht(H, Child(t, m, s)) + Weight(t, m) /\ Child(t, m, s) \in Nodes
        BY <1>1, <3>3 DEF EvictAt
      <4>2. Short(p, sd, m, s) = 0 BY <3>3 DEF Short
      <4>3. Weight(t, m) \in Nat /\ Ht(H, Child(t, m, s)) \in Nat BY <1>21, <4>1 DEF Weight
      <4> QED BY <1>24, <3>3, <4>1, <4>2, <4>3
    <3> QED BY <3>1, <3>2, <3>3
  <2> QED BY <2>1, <2>2, <2>3 DEF Levels
<1>26. ASSUME NEW m \in T, m # n, Color(x, m) = RED, NEW s \in Sides
       PROVE  Child(x, m, s) = n \/ Color(x, Child(x, m, s)) = BLACK
  <2>1. CASE m = p BY <1>4, <1>5, <1>6, <1>14, <1>16, <1>23, <2>1
  <2>2. CASE m = w BY <1>3, <1>16, <1>26, <2>2 DEF RED, BLACK
  <2>3. CASE m # p /\ m # w
    <3>1. Color(t, m) = RED BY <1>24, <1>26, <2>3
    <3>2. Child(t, m, s) = n \/ Color(t, Child(t, m, s)) = BLACK BY <1>26, <3>1 DEF EvictInv
    <3> QED BY <1>24, <2>3, <3>2
  <2> QED BY <2>1, <2>2, <2>3
<1>27. n # Root(x, k) /\ Color(x, n) = Color(t, n) BY <1>3, <1>14, <1>16
<1>28. Color(x, Root(x, k)) = BLACK
  <2>1. Root(t, k) \in Nodes /\ Color(t, Root(t, k)) = BLACK BY <1>1, <1>2, Typed DEF EvictAt
  <2> QED BY <1>3, <1>14, <1>16, <2>1
<1>29. sd = SideIn(x, p, n) BY <1>4, <1>14, <1>22 DEF SideIn, Sides
<1>30. EvictInv(x, n, k, T, key, E, G, sd)
  BY <1>2, <1>3, <1>12, <1>14, <1>15, <1>25, <1>26, <1>27, <1>28, <1>29 DEF EvictInv
<1>31. Color(x, Child(x, p, Other(sd))) = BLACK BY <1>5, <1>6, <1>14, <1>16, <1>23
<1> QED BY <1>13, <1>15, <1>17, <1>27, <1>30, <1>31 DEF x, v, u

(* The children of a black sibling are black: it is painted red, and the parent is short. *)
LEMMA EvictBlackChildren ==
  ASSUME NEW t, NEW n, NEW k \in Trees, NEW T, NEW key, NEW D, NEW H, NEW sd,
         EvictInv(t, n, k, T, key, D, H, sd), n # Root(t, k), Color(t, n) = BLACK,
         NEW p, p = Parent(t, n), NEW w, w = Child(t, p, Other(sd)), Color(t, w) = BLACK,
         \A s \in Sides : Color(t, Child(t, w, s)) = BLACK
  PROVE  LET x == Paint(t, w, RED)
         IN  /\ \E G, r : EvictInv(x, p, k, T, key, D, G, r)
             /\ Frame(x, t, k, T)
             /\ Sub(D, n) \subseteq Sub(D, p) /\ p \notin Sub(D, n)
<1> DEFINE x == Paint(t, w, RED)
           z == Nil[k]
           q == Parent(t, p)
           r == SideIn(t, q, p)
<1>1. EvictAt(t, n, k, T, H, sd, p, w) BY EvictFacts
<1>2. Shape(t, k, D, key) /\ Members(t, k, D) = T /\ t \in TreeType /\ n \in T \cup {z}
  BY DEF EvictInv, Shape
<1>3. /\ T \subseteq Nodes /\ z \notin T /\ n \in Nodes /\ p \in T /\ w \in T
      /\ p # n /\ w # n /\ w # p /\ sd \in Sides /\ p \in Nodes /\ w \in Nodes
      /\ Child(t, p, sd) = n /\ Child(t, p, Other(sd)) = w
      /\ n # Root(t, k) /\ w # Root(t, k)
      /\ Parent(t, n) = p /\ Parent(t, w) = p
      /\ Color(t, Root(t, k)) = BLACK
      /\ \A m \in T : \A s \in Sides : /\ Child(t, m, s) \in Nodes
                                       /\ Child(t, m, s) # z => Parent(t, Child(t, m, s)) = m
  BY <1>1 DEF EvictAt
<1>4. sd # Other(sd) /\ Other(sd) \in Sides /\ Sides = {sd, Other(sd)} /\ Other(Other(sd)) = sd
  BY <1>3, Others
<1>5. SameLinks(x, t) /\ (\A i \in Nodes : Color(x, i) = IF i = w THEN RED ELSE Color(t, i))
        /\ Frame(x, t, k, T)
  BY <1>2, <1>3, PaintLinks
<1> HIDE DEF x
<1>6. Shape(x, k, D, key) /\ Members(x, k, D) = T BY <1>2, <1>5, Repaint
<1>7. /\ Root(x, k) = Root(t, k) /\ Parent(x, p) = q
      /\ \A m \in T : \A s \in Sides : Child(x, m, s) = Child(t, m, s)
  BY <1>3, <1>5 DEF SameLinks, SameRoots, SameParents, SameChildren
<1>8. /\ p # Root(t, k) => q \in T /\ r \in Sides /\ Child(t, q, r) = p /\ q # p /\ q # w
      /\ p = Root(t, k) => q = z
  <2>1. Kin(t, k, D, key, p) BY <1>2, <1>3, Family
  <2> QED BY <1>2, <1>3, <1>4, <2>1 DEF Kin, Sides, SideIn
<1>9. \A m \in T : \A s \in Sides : Child(t, m, s) = p => m = q /\ s = r
  <2>1. ASSUME NEW m \in T, NEW s \in Sides, Child(t, m, s) = p PROVE m = q /\ s = r
    <3>1. Kin(t, k, D, key, m) BY <1>2, Family
    <3>2. m = q BY <1>3, <2>1
    <3>3. \A j \in Sides : j # s => Child(t, m, j) # p BY <1>3, <2>1, <3>1, Others DEF Kin
    <3> QED BY <2>1, <3>2, <3>3 DEF SideIn, Sides
  <2> QED BY <2>1
<1>10. \A m \in T : \A s \in Sides : Child(t, m, s) = w => m = p /\ s = Other(sd)
  <2>1. ASSUME NEW m \in T, NEW s \in Sides, Child(t, m, s) = w PROVE m = p /\ s = Other(sd)
    <3>1. m = p BY <1>3, <2>1
    <3> QED BY <1>3, <1>4, <2>1, <3>1
  <2> QED BY <2>1
<1>11. /\ \A m \in Nodes : Ht(H, m) \in Nat
       /\ Color(t, z) = BLACK /\ Ht(H, z) = 0
       /\ \A m \in T : \A s \in Sides : m # p \/ s # sd =>
            Ht(H, m) = Ht(H, Child(t, m, s)) + Weight(t, m)
       /\ Ht(H, p) = Ht(H, n) + Weight(t, p) + 1
       /\ Ht(H, w) = Ht(H, n) + 1
  BY <1>1 DEF EvictAt
<1>12. Weight(t, w) = 1 /\ Weight(x, w) = 0 /\ \A m \in T : m # w => Weight(x, m) = Weight(t, m)
  BY <1>3, <1>5 DEF Weight, RED, BLACK
<1> DEFINE G == [m \in Nodes |-> IF m = p \/ m = w THEN Ht(H, m) - 1 ELSE Ht(H, m)]
<1>13. \A m \in Nodes : Ht(G, m) = IF m = p \/ m = w THEN Ht(H, m) - 1 ELSE Ht(H, m) BY DEF Ht
<1> HIDE DEF G
<1>14. Ht(H, n) \in Nat /\ Weight(t, p) \in Nat BY <1>3, <1>11 DEF Weight
<1>15. Color(x, z) = BLACK /\ Ht(G, z) = 0
  <2>1. z \in Nodes BY NilNodes
  <2> QED BY <1>3, <1>5, <1>11, <1>13, <2>1
<1>16. \A m \in Nodes : Ht(G, m) \in Nat
  <2>1. Ht(H, p) - 1 \in Nat /\ Ht(H, w) - 1 \in Nat BY <1>11, <1>14
  <2> QED BY <1>11, <1>13, <2>1
<1>17. ASSUME NEW m \in T, NEW s \in Sides
       PROVE  Ht(G, m) = Ht(G, Child(x, m, s)) + Weight(x, m) + (IF m = q /\ s = r THEN 1 ELSE 0)
  <2>0. /\ Child(x, m, s) = Child(t, m, s) /\ Child(t, m, s) \in Nodes /\ m \in Nodes
        /\ Ht(H, Child(t, m, s)) \in Nat /\ Ht(H, m) \in Nat /\ Weight(t, m) \in Nat
    BY <1>3, <1>7, <1>11 DEF Weight
  <2>1. CASE m = p /\ s = sd
    <3>1. m # q BY <1>3, <1>8, <2>1
    <3>2. Ht(G, p) = Ht(H, p) - 1 /\ Ht(G, n) = Ht(H, n) BY <1>3, <1>13
    <3> QED BY <1>3, <1>11, <1>12, <1>14, <2>0, <2>1, <3>1, <3>2
  <2>2. CASE m = p /\ s = Other(sd)
    <3>1. m # q BY <1>3, <1>8, <2>2
    <3>2. Ht(G, p) = Ht(H, p) - 1 /\ Ht(G, w) = Ht(H, w) - 1 BY <1>3, <1>13
    <3>3. Ht(H, p) = Ht(H, w) + Weight(t, p) BY <1>3, <1>4, <1>11
    <3> QED BY <1>3, <1>11, <1>12, <1>14, <2>0, <2>2, <3>1, <3>2, <3>3
  <2>3. CASE m = w
    <3>1. m # q BY <1>3, <1>8, <2>3
    <3>2. Child(t, m, s) # p /\ Child(t, m, s) # w BY <1>3, <1>9, <1>10, <2>3, <3>1
    <3>3. Ht(G, m) = Ht(H, m) - 1 /\ Ht(G, Child(t, m, s)) = Ht(H, Child(t, m, s))
      BY <1>3, <1>13, <2>0, <2>3, <3>2
    <3>4. Ht(H, m) = Ht(H, Child(t, m, s)) + 1 BY <1>3, <1>11, <1>12, <2>3
    <3> QED BY <1>12, <2>0, <2>3, <3>1, <3>3, <3>4
  <2>4. CASE m # p /\ m # w
    <3>1. Child(t, m, s) # w BY <1>10, <2>4
    <3>2. Ht(H, m) = Ht(H, Child(t, m, s)) + Weight(t, m) /\ Weight(x, m) = Weight(t, m)
            /\ Ht(G, m) = Ht(H, m)
      BY <1>11, <1>12, <1>13, <2>0, <2>4
    <3>3. CASE m = q /\ s = r
      <4>1. p # Root(t, k) BY <1>3, <1>8, <3>3
      <4>2. Child(t, m, s) = p BY <1>8, <3>3, <4>1
      <4>3. Ht(G, p) = Ht(H, p) - 1 BY <1>3, <1>13
      <4> QED BY <2>0, <3>2, <3>3, <4>2, <4>3
    <3>4. CASE ~(m = q /\ s = r)
      <4>1. Child(t, m, s) # p BY <1>9, <3>4
      <4>2. Ht(G, Child(t, m, s)) = Ht(H, Child(t, m, s)) BY <1>13, <2>0, <3>1, <4>1
      <4> QED BY <2>0, <3>2, <3>4, <4>2
    <3> QED BY <3>3, <3>4
  <2> QED BY <1>4, <2>1, <2>2, <2>3, <2>4
<1>18. ASSUME NEW m \in T, m # p, Color(x, m) = RED, NEW s \in Sides
       PROVE  Child(x, m, s) = p \/ Color(x, Child(x, m, s)) = BLACK
  <2>1. Child(x, m, s) = Child(t, m, s) /\ Child(t, m, s) \in Nodes BY <1>3, <1>7
  <2>2. Child(t, m, s) # w BY <1>10, <1>18
  <2>3. Color(x, Child(x, m, s)) = Color(t, Child(t, m, s)) BY <1>5, <2>1, <2>2
  <2>4. CASE m = w BY <2>3, <2>4
  <2>5. CASE m # w
    <3>1. Color(t, m) = RED BY <1>3, <1>5, <1>18, <2>5
    <3>2. m # n BY <3>1 DEF RED, BLACK
    <3>3. Child(t, m, s) = n \/ Color(t, Child(t, m, s)) = BLACK BY <3>1, <3>2 DEF EvictInv
    <3> QED BY <2>3, <3>3
  <2> QED BY <2>4, <2>5
<1> DEFINE short == SideIn(t, q, p)
<1>r. r = short OBVIOUS
<1> HIDE DEF q, r
<1>19. ASSUME p = Root(t, k) PROVE EvictInv(x, p, k, T, key, D, G, r)
  <2>1. q \notin T BY <1>3, <1>8, <1>19
  <2>2. ASSUME NEW m \in T,
               NEW s \in Sides PROVE Ht(G, m) = Ht(G, Child(x, m, s)) + Weight(x, m)
    <3>1. Ht(G, m) = Ht(G, Child(x, m, s)) + Weight(x, m) + 0 BY <1>17, <2>1
    <3>2. Child(x, m, s) \in Nodes BY <1>3, <1>7
    <3>3. Ht(G, Child(x, m, s)) \in Nat /\ Weight(x, m) \in Nat BY <1>16, <3>2 DEF Weight
    <3> QED BY <3>1, <3>3
  <2>3. Balanced(x, k, T, G) BY <1>15, <1>16, <2>2 DEF Balanced
  <2>4. Levels(x, k, T, G, NULL, "left") BY <1>6, <2>3, LevelsAre
  <2> QED BY <1>3, <1>6, <1>7, <1>18, <1>19, <2>4 DEF EvictInv
<1>20. ASSUME p # Root(t, k) PROVE EvictInv(x, p, k, T, key, D, G, r)
  <2>1. Levels(x, k, T, G, q, r) BY <1>15, <1>16, <1>17 DEF Levels, Short
  <2>2. Color(x, Root(x, k)) = BLACK
    <3>1. Root(t, k) \in Nodes BY <1>2, Typed
    <3> QED BY <1>3, <1>5, <1>7, <3>1
  <2>3. r = SideIn(x, q, p) BY <1>r, <1>7, <1>8, <1>20 DEF SideIn, Sides
  <2> QED BY <1>3, <1>6, <1>7, <1>8, <1>18, <1>20, <2>1, <2>2, <2>3 DEF EvictInv
<1>21. \E GG, rr : EvictInv(x, p, k, T, key, D, GG, rr)
  <2>1. EvictInv(x, p, k, T, key, D, G, r) BY <1>19, <1>20
  <2> QED BY <2>1
<1>22. Sub(D, n) \subseteq Sub(D, p) /\ p \notin Sub(D, n)
  <2>1. NodeOK(t, k, D, key, p) BY <1>2, <1>3 DEF Shape
  <2>2. Sub(D, n) \subseteq Sub(D, p) /\ \A m \in Sub(D, n) : Beyond(key, sd, m, p)
    BY <1>3, <2>1 DEF NodeOK
  <2>3. ~Beyond(key, sd, p, p)
    <3>1. p \in Slots /\ key \in [Slots -> Int] BY <1>2, <1>3, Typed DEF Shape, Members
    <3> QED BY <1>3, <3>1, BeyondFacts
  <2> QED BY <2>2, <2>3
<1> QED BY <1>5, <1>21, <1>22 DEF x

(* The near child of a black sibling is red and the far one black: a rotation gives n a *)
(* sibling with a red far child.                                                        *)
LEMMA EvictNear ==
  ASSUME NEW t, NEW n, NEW k \in Trees, NEW T, NEW key, NEW D, NEW H, NEW sd,
         EvictInv(t, n, k, T, key, D, H, sd), n # Root(t, k), Color(t, n) = BLACK,
         NEW p, p = Parent(t, n), NEW w, w = Child(t, p, Other(sd)), Color(t, w) = BLACK,
         NEW near, near = Child(t, w, sd), Color(t, near) = RED,
         Color(t, Child(t, w, Other(sd))) = BLACK
  PROVE  LET x == Rotate(Paint(Paint(t, near, BLACK), w, RED), k, w, Other(sd))
         IN  /\ \E E, G : EvictInv(x, n, k, T, key, E, G, sd)
             /\ Frame(x, t, k, T)
             /\ n # Root(x, k) /\ Color(x, n) = BLACK
             /\ Parent(x, n) = p
             /\ Child(x, p, Other(sd)) = near /\ Color(x, near) = BLACK
             /\ Child(x, near, Other(sd)) = w /\ Color(x, w) = RED
<1> DEFINE far == Child(t, w, Other(sd))
           in == Child(t, near, sd)
           out == Child(t, near, Other(sd))
           u == Paint(t, near, BLACK)
           v == Paint(u, w, RED)
           x == Rotate(v, k, w, Other(sd))
           z == Nil[k]
<1>1. EvictAt(t, n, k, T, H, sd, p, w) BY EvictFacts
<1>2. Shape(t, k, D, key) /\ Members(t, k, D) = T /\ t \in TreeType /\ n \in T \cup {z}
  BY DEF EvictInv, Shape
<1>3. /\ T \subseteq Nodes /\ z \notin T /\ n \in Nodes /\ p \in T /\ w \in T
      /\ p # n /\ w # n /\ w # p /\ sd \in Sides /\ p \in Nodes /\ w \in Nodes
      /\ Child(t, p, sd) = n /\ Child(t, p, Other(sd)) = w
      /\ n # Root(t, k) /\ w # Root(t, k)
      /\ Parent(t, n) = p /\ Parent(t, w) = p
      /\ Color(t, z) = BLACK /\ Color(t, Root(t, k)) = BLACK
  BY <1>1 DEF EvictAt
<1>4. sd # Other(sd) /\ Other(sd) \in Sides /\ Sides = {sd, Other(sd)} /\ Other(Other(sd)) = sd
  BY <1>3, Others
<1>5. /\ \A m \in Nodes : Ht(H, m) \in Nat
      /\ Color(t, z) = BLACK /\ Ht(H, z) = 0
      /\ \A m \in T : \A s \in Sides : m # p \/ s # sd =>
           Ht(H, m) = Ht(H, Child(t, m, s)) + Weight(t, m)
      /\ Ht(H, p) = Ht(H, n) + Weight(t, p) + 1
      /\ \A m \in T : \A s \in Sides : /\ Child(t, m, s) \in Nodes
                                       /\ Child(t, m, s) # z => /\ Child(t, m, s) \in T
                                                                /\ Parent(t, Child(t, m, s)) = m
                                                                /\ Child(t, m, s) # m
  BY <1>1 DEF EvictAt
<1>6. near \in T /\ near # z /\ near \in Nodes /\ Parent(t, near) = w /\ near # w
  BY <1>3, <1>4, <1>5 DEF RED, BLACK
<1>7. near # p /\ near # n /\ far # p /\ far # near /\ far # w /\ far \in Nodes /\ near # Root(t, k)
  <2>1. Kin(t, k, D, key, w) BY <1>2, <1>3, Family
  <2> QED BY <1>2, <1>3, <1>4, <1>6, <2>1 DEF Kin
<1>8. /\ in \in Nodes /\ out \in Nodes
      /\ in # w /\ out # w /\ in # near /\ out # near
      /\ in # z => in \in T /\ Parent(t, in) = near
      /\ out # z => out \in T /\ Parent(t, out) = near
  <2>1. Kin(t, k, D, key, near) BY <1>2, <1>6, Family
  <2> QED BY <1>3, <1>4, <1>5, <1>6, <2>1 DEF Kin
<1>9. SameLinks(u, t) /\ (\A i \in Nodes : Color(u, i) = IF i = near THEN BLACK
        ELSE Color(t, i)) /\ Frame(u, t, k, T)
  BY <1>2, <1>6, PaintLinks
<1> HIDE DEF u
<1>10. SameLinks(v, u) /\ (\A i \in Nodes : Color(v, i) = IF i = w THEN RED
         ELSE Color(u, i)) /\ Frame(v, u, k, T)
  <2>1. u \in TreeType BY <1>9 DEF SameLinks
  <2> QED BY <1>3, <2>1, PaintLinks
<1> HIDE DEF v
<1>11. SameLinks(v, t) BY <1>9, <1>10 DEF SameLinks, SameRoots, SameChildren, SameParents
<1>12. Shape(v, k, D, key) /\ Members(v, k, D) = T BY <1>2, <1>11, Repaint
<1>13. /\ Child(v, w, sd) = near /\ Child(v, w, Other(sd)) = far
       /\ Child(v, near, sd) = in /\ Child(v, near, Other(sd)) = out /\ Root(v, k) = Root(t, k)
       /\ Parent(v, n) = p
       /\ \A m \in T : \A s \in Sides : Child(v, m, s) = Child(t, m, s)
  BY <1>3, <1>4, <1>6, <1>11 DEF SameLinks, SameChildren, SameRoots, SameParents
<1> DEFINE E == RotatedSub(D, w, near, Other(sd), v)
<1>14. Shape(x, k, E, key) /\ Members(x, k, E) = T /\ Turned(x, v, k, T, w, Other(sd), near)
  BY <1>3, <1>4, <1>6, <1>12, <1>13, Turn
<1> HIDE DEF x, E
<1>15. /\ Child(x, w, Other(sd)) = far /\ Child(x, w, sd) = out
       /\ Child(x, near, Other(sd)) = w /\ Child(x, near, sd) = in
       /\ Root(x, k) = Root(t, k)
       /\ \A m \in T : m # w /\ m # near => \A s \in Sides :
            Child(x, m, s) = IF Child(t, m, s) = w THEN near ELSE Child(t, m, s)
  BY <1>3, <1>4, <1>13, <1>14 DEF Turned
<1>16. Parent(x, n) = p
  <2>1. n = z \/ n # out BY <1>3, <1>6, <1>7, <1>8
  <2>2. n # w /\ n # near BY <1>3, <1>7
  <2> QED BY <1>3, <1>13, <1>14, <2>1, <2>2 DEF Turned
<1>17. \A i \in Nodes : Color(x, i) = IF i = w THEN RED ELSE IF i = near THEN BLACK ELSE Color(t, i)
  BY <1>9, <1>10, <1>14 DEF Turned, SameColors
<1>18. Frame(x, t, k, T)
  <2>1. Frame(x, v, k, T) BY <1>14 DEF Turned
  <2> QED BY <1>9, <1>10, <2>1, FrameStep
<1> DEFINE G == [m \in Nodes |-> IF m = w THEN Ht(H, near) ELSE IF m = near THEN Ht(H, w)
                  ELSE Ht(H, m)]
<1>19. \A m \in Nodes : Ht(G, m) = IF m = w THEN Ht(H, near) ELSE IF m = near THEN Ht(H, w)
         ELSE Ht(H, m)
  BY DEF Ht
<1> HIDE DEF G
<1>20. Weight(t, near) = 0 /\ Weight(t, w) = 1 /\ Weight(x, near) = 1 /\ Weight(x, w) = 0
  BY <1>3, <1>6, <1>17 DEF Weight, RED, BLACK
<1>21. /\ Ht(H, w) = Ht(H, near) + 1 /\ Ht(H, far) = Ht(H, near)
       /\ Ht(H, in) = Ht(H, near) /\ Ht(H, out) = Ht(H, near)
       /\ Ht(H, near) \in Nat
  <2>1. /\ Ht(H, w) = Ht(H, near) + 1 /\ Ht(H, w) = Ht(H, far) + 1
        /\ Ht(H, near) = Ht(H, in) + 0 /\ Ht(H, near) = Ht(H, out) + 0
    BY <1>3, <1>4, <1>5, <1>6, <1>7, <1>20
  <2>2. Ht(H, near) \in Nat /\ Ht(H, far) \in Nat /\ Ht(H, in) \in Nat /\ Ht(H, out) \in Nat
    BY <1>5, <1>6, <1>7, <1>8
  <2> QED BY <2>1, <2>2
<1>22. Color(t, in) = BLACK /\ Color(t, out) = BLACK
  BY <1>3, <1>4, <1>6, <1>7 DEF EvictInv
<1>23. ASSUME NEW m \in T, m # w, m # near
       PROVE  /\ \A s \in Sides : Ht(G, Child(x, m, s)) = Ht(H, Child(t, m, s))
              /\ Weight(x, m) = Weight(t, m) /\ Ht(G, m) = Ht(H, m)
              /\ Color(x, m) = Color(t, m)
              /\ \A s \in Sides : Color(x, Child(x, m, s)) = Color(t, Child(t, m, s))
              /\ \A s \in Sides : Child(t, m, s) = n <=> Child(x, m, s) = n
  <2>1. m \in Nodes BY <1>3
  <2>2. Color(x, m) = Color(t, m) /\ Ht(G, m) = Ht(H, m) BY <1>17, <1>19, <1>23, <2>1
  <2>3. ASSUME NEW s \in Sides
        PROVE  /\ Ht(G, Child(x, m, s)) = Ht(H, Child(t, m, s))
               /\ Color(x, Child(x, m, s)) = Color(t, Child(t, m, s))
               /\ Child(t, m, s) = n <=> Child(x, m, s) = n
    <3>1. CASE Child(t, m, s) = w
      <4>1. Child(x, m, s) = near BY <1>15, <1>23, <3>1
      <4> QED BY <1>3, <1>6, <1>7, <1>17, <1>19, <3>1, <4>1
    <3>2. CASE Child(t, m, s) # w
      <4>1. Child(x, m, s) = Child(t, m, s) BY <1>15, <1>23, <3>2
      <4>2. Child(t, m, s) \in Nodes /\ Child(t, m, s) # near
        BY <1>5, <1>6, <1>23
      <4> QED BY <1>17, <1>19, <3>2, <4>1, <4>2
    <3> QED BY <3>1, <3>2
  <2> QED BY <2>2, <2>3 DEF Weight
<1>24. Levels(x, k, T, G, p, sd)
  <2>1. Color(x, z) = BLACK /\ Ht(G, z) = 0
    <3>1. z \in Nodes BY NilNodes
    <3> QED BY <1>3, <1>5, <1>6, <1>17, <1>19, <3>1
  <2>2. \A m \in Nodes : Ht(G, m) \in Nat BY <1>3, <1>5, <1>6, <1>19
  <2>3. ASSUME NEW m \in T, NEW s \in Sides
        PROVE  Ht(G, m) = Ht(G, Child(x, m, s)) + Weight(x, m) + Short(p, sd, m, s)
    <3>1. CASE m = w
      <4>1. Ht(G, w) = Ht(H, near)
        BY <1>3, <1>19
      <4>2. Ht(G, far) = Ht(H, near) BY <1>7, <1>19, <1>21
      <4>3. Ht(G, out) = Ht(H, near) BY <1>8, <1>19, <1>21
      <4>4. Short(p, sd, m, s) = 0 BY <1>3, <3>1 DEF Short
      <4>5. Child(x, w, s) = far \/ Child(x, w, s) = out BY <1>4, <1>15
      <4> QED BY <1>20, <1>21, <3>1, <4>1, <4>2, <4>3, <4>4, <4>5
    <3>2. CASE m = near
      <4>1. Ht(G, near) = Ht(H, near) + 1 BY <1>6, <1>19, <1>21
      <4>2. Ht(G, w) = Ht(H, near) /\ Ht(G, in) = Ht(H, near) BY <1>3, <1>8, <1>19, <1>21
      <4>3. Short(p, sd, m, s) = 0 BY <1>7, <3>2 DEF Short
      <4>4. Child(x, near, s) = w \/ Child(x, near, s) = in BY <1>4, <1>15
      <4> QED BY <1>20, <1>21, <3>2, <4>1, <4>2, <4>3, <4>4
    <3>3. CASE m # w /\ m # near
      <4>1. Child(t, m, s) \in Nodes /\ Ht(H, Child(t, m, s)) \in Nat /\ Weight(t, m) \in Nat
        BY <1>5 DEF Weight
      <4>2. CASE m = p /\ s = sd
        <5>1. Short(p, sd, m, s) = 1 BY <4>2 DEF Short
        <5>2. Ht(H, m) = Ht(H, Child(t, m, s)) + Weight(t, m) + 1 BY <1>3, <1>5, <4>2
        <5> QED BY <1>23, <3>3, <4>1, <5>1, <5>2
      <4>3. CASE ~(m = p /\ s = sd)
        <5>1. Short(p, sd, m, s) = 0 BY <4>3 DEF Short
        <5>2. Ht(H, m) = Ht(H, Child(t, m, s)) + Weight(t, m) BY <1>5, <4>3
        <5> QED BY <1>23, <3>3, <4>1, <5>1, <5>2
      <4> QED BY <4>2, <4>3
    <3> QED BY <3>1, <3>2, <3>3
  <2> QED BY <2>1, <2>2, <2>3 DEF Levels
<1>25. ASSUME NEW m \in T, m # n, Color(x, m) = RED, NEW s \in Sides
       PROVE  Child(x, m, s) = n \/ Color(x, Child(x, m, s)) = BLACK
  <2>1. CASE m = w
    <3>1. Child(x, w, s) = far \/ Child(x, w, s) = out BY <1>4, <1>15
    <3>2. Color(x, far) = BLACK BY <1>7, <1>17
    <3>3. Color(x, out) = BLACK BY <1>8, <1>17, <1>22
    <3> QED BY <2>1, <3>1, <3>2, <3>3
  <2>2. CASE m = near BY <1>6, <1>17, <1>25, <2>2 DEF RED, BLACK
  <2>3. CASE m # near /\ m # w
    <3>1. Color(t, m) = RED BY <1>23, <1>25, <2>3
    <3>2. Child(t, m, s) = n \/ Color(t, Child(t, m, s)) = BLACK BY <1>25, <3>1 DEF EvictInv
    <3> QED BY <1>23, <2>3, <3>2
  <2> QED BY <2>1, <2>2, <2>3
<1>26. n # Root(x, k) /\ Color(x, n) = BLACK BY <1>3, <1>7, <1>15, <1>17
<1>27. Color(x, Root(x, k)) = BLACK
  <2>1. Root(t, k) \in Nodes BY <1>2, Typed
  <2> QED BY <1>3, <1>7, <1>15, <1>17, <2>1
<1>28. Child(x, p, sd) = n /\ Child(x, p, Other(sd)) = near
  BY <1>3, <1>4, <1>7, <1>15
<1>29. sd = SideIn(x, p, n) BY <1>4, <1>7, <1>28 DEF SideIn, Sides
<1>30. EvictInv(x, n, k, T, key, E, G, sd)
  BY <1>2, <1>3, <1>14, <1>16, <1>24, <1>25, <1>26, <1>27, <1>28, <1>29 DEF EvictInv
<1>31. Color(x, near) = BLACK /\ Color(x, w) = RED BY <1>3, <1>6, <1>17
<1> QED BY <1>15, <1>16, <1>18, <1>26, <1>28, <1>30, <1>31 DEF x, v, u

(* The far child of a black sibling is red: one rotation ends the loop. *)
LEMMA EvictFar ==
  ASSUME NEW t, NEW n, NEW k \in Trees, NEW T, NEW key, NEW D, NEW H, NEW sd,
         EvictInv(t, n, k, T, key, D, H, sd), n # Root(t, k), Color(t, n) = BLACK,
         NEW p, p = Parent(t, n), NEW w, w = Child(t, p, Other(sd)), Color(t, w) = BLACK,
         NEW far, far = Child(t, w, Other(sd)), Color(t, far) = RED
  PROVE  LET x == Rotate(Paint(Paint(Paint(t, w, Color(t, p)), p, BLACK), far, BLACK), k, p, sd)
         IN  /\ \E E, G : RBTree(x, k, T, key, E, G)
             /\ Frame(x, t, k, T)
<1> DEFINE near == Child(t, w, sd)
           c == Color(t, p)
           u == Paint(t, w, c)
           v == Paint(u, p, BLACK)
           y == Paint(v, far, BLACK)
           x == Rotate(y, k, p, sd)
           z == Nil[k]
<1>1. EvictAt(t, n, k, T, H, sd, p, w) BY EvictFacts
<1>2. Shape(t, k, D, key) /\ Members(t, k, D) = T /\ t \in TreeType /\ n \in T \cup {z}
  BY DEF EvictInv, Shape
<1>3. /\ T \subseteq Nodes /\ z \notin T /\ n \in Nodes /\ p \in T /\ w \in T
      /\ p # n /\ w # n /\ w # p /\ sd \in Sides /\ p \in Nodes /\ w \in Nodes
      /\ Child(t, p, sd) = n /\ Child(t, p, Other(sd)) = w
      /\ n # Root(t, k) /\ w # Root(t, k)
      /\ Parent(t, n) = p /\ Parent(t, w) = p
      /\ Color(t, z) = BLACK /\ Color(t, Root(t, k)) = BLACK
  BY <1>1 DEF EvictAt
<1>4. sd # Other(sd) /\ Other(sd) \in Sides /\ Sides = {sd, Other(sd)} /\ Other(Other(sd)) = sd
  BY <1>3, Others
<1>5. /\ \A m \in Nodes : Ht(H, m) \in Nat
      /\ Color(t, z) = BLACK /\ Ht(H, z) = 0
      /\ \A m \in T : \A s \in Sides : m # p \/ s # sd =>
           Ht(H, m) = Ht(H, Child(t, m, s)) + Weight(t, m)
      /\ Ht(H, p) = Ht(H, n) + Weight(t, p) + 1
      /\ Ht(H, w) = Ht(H, n) + 1
      /\ \A m \in T : \A s \in Sides : /\ Child(t, m, s) \in Nodes
                                       /\ Child(t, m, s) # z => /\ Child(t, m, s) \in T
                                                                /\ Parent(t, Child(t, m, s)) = m
                                                                /\ Child(t, m, s) # m
  BY <1>1 DEF EvictAt
<1>6. far \in T /\ far # z /\ far \in Nodes /\ Parent(t, far) = w /\ far # w
  BY <1>3, <1>4, <1>5 DEF RED, BLACK
<1>7. far # p /\ far # n /\ near # p /\ near # far /\ near # w /\ near \in Nodes /\ far # Root(t, k)
  <2>1. Kin(t, k, D, key, w) BY <1>2, <1>3, Family
  <2> QED BY <1>2, <1>3, <1>4, <1>6, <2>1 DEF Kin
<1>8. \A s \in Sides : Child(t, far, s) \in Nodes /\ Child(t, far, s) # w
        /\ Child(t, far, s) # far /\ Child(t, far, s) # p
  <2>1. Kin(t, k, D, key, far) BY <1>2, <1>6, Family
  <2>2. \A s \in Sides : Child(t, far, s) # w BY <1>3, <1>6, <1>7, <2>1 DEF Kin
  <2>3. ASSUME NEW s \in Sides, Child(t, far, s) = p PROVE FALSE
    <3>1. NodeOK(t, k, D, key, p) /\ NodeOK(t, k, D, key, w) /\ NodeOK(t, k, D, key, far)
      BY <1>2, <1>3, <1>6 DEF Shape
    <3>2. p \in Sub(D, far) BY <1>3, <2>3, <3>1 DEF NodeOK
    <3>3. Sub(D, far) \subseteq Sub(D, w) BY <1>3, <1>4, <3>1 DEF NodeOK
    <3>4. Beyond(key, Other(sd), p, p) BY <1>3, <1>4, <3>1, <3>2, <3>3 DEF NodeOK
    <3>5. p \in Slots /\ key \in [Slots -> Int] BY <1>2, <1>3, Typed DEF Shape, Members
    <3> QED BY <1>4, <3>4, <3>5, BeyondFacts
  <2> QED BY <1>5, <1>6, <2>2, <2>3
<1>0. c \in {RED, BLACK} BY <1>2, <1>3, Typed
<1>9. SameLinks(u, t) /\ (\A i \in Nodes : Color(u, i) = IF i = w THEN c ELSE Color(t, i))
        /\ Frame(u, t, k, T)
  BY <1>0, <1>2, <1>3, PaintLinks
<1> HIDE DEF u
<1>10. SameLinks(v, u) /\ (\A i \in Nodes : Color(v, i) = IF i = p THEN BLACK
         ELSE Color(u, i)) /\ Frame(v, u, k, T)
  <2>1. u \in TreeType BY <1>9 DEF SameLinks
  <2> QED BY <1>3, <2>1, PaintLinks
<1> HIDE DEF v
<1>11. SameLinks(y, v) /\ (\A i \in Nodes : Color(y, i) = IF i = far THEN BLACK
         ELSE Color(v, i)) /\ Frame(y, v, k, T)
  <2>1. v \in TreeType BY <1>10 DEF SameLinks
  <2> QED BY <1>6, <2>1, PaintLinks
<1> HIDE DEF y
<1>12. SameLinks(y, t) BY <1>9, <1>10, <1>11 DEF SameLinks, SameRoots, SameChildren, SameParents
<1>13. Shape(y, k, D, key) /\ Members(y, k, D) = T BY <1>2, <1>12, Repaint
<1>14. /\ Child(y, p, sd) = n /\ Child(y, p, Other(sd)) = w
       /\ Child(y, w, sd) = near /\ Child(y, w, Other(sd)) = far /\ Root(y, k) = Root(t, k)
       /\ \A m \in T : \A s \in Sides : Child(y, m, s) = Child(t, m, s)
  BY <1>3, <1>4, <1>12 DEF SameLinks, SameChildren, SameRoots
<1> DEFINE E == RotatedSub(D, p, w, sd, y)
<1>15. Shape(x, k, E, key) /\ Members(x, k, E) = T /\ Turned(x, y, k, T, p, sd, w)
  BY <1>3, <1>13, <1>14, Turn
<1> HIDE DEF x, E
<1>16. /\ Child(x, p, sd) = n /\ Child(x, p, Other(sd)) = near
       /\ Child(x, w, sd) = p /\ Child(x, w, Other(sd)) = far
       /\ Root(x, k) = IF Root(t, k) = p THEN w ELSE Root(t, k)
       /\ \A m \in T : m # p /\ m # w => \A s \in Sides :
            Child(x, m, s) = IF Child(t, m, s) = p THEN w ELSE Child(t, m, s)
  BY <1>4, <1>14, <1>15 DEF Turned
<1> HIDE DEF c
<1>17. \A i \in Nodes : Color(x, i) = IF i = p \/ i = far THEN BLACK ELSE IF i = w THEN c
         ELSE Color(t, i)
  BY <1>9, <1>10, <1>11, <1>15 DEF Turned, SameColors
<1>18. Frame(x, t, k, T)
  <2>1. Frame(x, y, k, T) BY <1>15 DEF Turned
  <2> QED BY <1>9, <1>10, <1>11, <2>1, FrameStep
<1> DEFINE h == Ht(H, n)
           G == [m \in Nodes |-> IF m = p \/ m = far THEN h + 1 ELSE IF m = w THEN Ht(H, p)
                  ELSE Ht(H, m)]
<1>19. \A m \in Nodes : Ht(G, m) = IF m = p \/ m = far THEN h + 1
         ELSE IF m = w THEN Ht(H, p) ELSE Ht(H, m)
  BY DEF Ht
<1> HIDE DEF G, h
<1>20. Weight(t, far) = 0 /\ Weight(t, w) = 1 /\ Weight(x, far) = 1 /\ Weight(x, p) = 1
         /\ Weight(x, w) = Weight(t, p)
  BY <1>3, <1>6, <1>7, <1>17 DEF Weight, RED, BLACK, c
<1>21. /\ h \in Nat /\ Ht(H, p) = h + 1 + Weight(t, p)
       /\ Ht(H, near) = h /\ Ht(H, far) = h /\ Ht(H, n) = h
       /\ \A s \in Sides : Ht(H, Child(t, far, s)) = h
       /\ Weight(t, p) \in Nat
  <2>1. /\ Ht(H, w) = Ht(H, near) + 1 /\ Ht(H, w) = Ht(H, far) + 1
        /\ \A s \in Sides : Ht(H, far) = Ht(H, Child(t, far, s)) + 0
    BY <1>3, <1>4, <1>5, <1>6, <1>7, <1>20
  <2>2. Ht(H, n) \in Nat /\ Ht(H, far) \in Nat /\ Ht(H, near) \in Nat /\ Weight(t, p) \in Nat
        /\ \A s \in Sides : Ht(H, Child(t, far, s)) \in Nat
    BY <1>3, <1>5, <1>6, <1>7, <1>8 DEF Weight
  <2>3. Ht(H, p) = Ht(H, n) + Weight(t, p) + 1 /\ Ht(H, w) = Ht(H, n) + 1 BY <1>5
  <2> QED BY <2>1, <2>2, <2>3 DEF h
<1>22. ASSUME NEW m \in T, m # p, m # w
       PROVE  /\ \A s \in Sides : Ht(G, Child(x, m, s)) = Ht(H, Child(t, m, s))
              /\ \A s \in Sides : Color(x, Child(x, m, s)) = Color(t, Child(t, m, s))
  <2>1. m \in Nodes BY <1>3
  <2>3. ASSUME NEW s \in Sides
        PROVE  /\ Ht(G, Child(x, m, s)) = Ht(H, Child(t, m, s))
               /\ Color(x, Child(x, m, s)) = Color(t, Child(t, m, s))
    <3>1. CASE Child(t, m, s) = p
      <4>1. Child(x, m, s) = w BY <1>16, <1>22, <3>1
      <4> QED BY <1>3, <1>6, <1>17, <1>19, <3>1, <4>1 DEF c
    <3>2. CASE Child(t, m, s) # p
      <4>1. Child(x, m, s) = Child(t, m, s) BY <1>16, <1>22, <3>2
      <4>2. Child(t, m, s) \in Nodes /\ Child(t, m, s) # w /\ Child(t, m, s) # far
        BY <1>3, <1>5, <1>6, <1>22
      <4> QED BY <1>17, <1>19, <3>2, <4>1, <4>2
    <3> QED BY <3>1, <3>2
  <2> QED BY <2>3
<1>23. Balanced(x, k, T, G)
  <2>1. Color(x, z) = BLACK /\ Ht(G, z) = 0
    <3>1. z \in Nodes BY NilNodes
    <3> QED BY <1>3, <1>5, <1>6, <1>17, <1>19, <3>1
  <2>2. \A m \in Nodes : Ht(G, m) \in Nat BY <1>3, <1>5, <1>19, <1>21
  <2>3. ASSUME NEW m \in T, NEW s \in Sides
        PROVE  Ht(G, m) = Ht(G, Child(x, m, s)) + Weight(x, m)
    <3>1. CASE m = p
      <4>1. Ht(G, p) = h + 1 /\ Ht(G, n) = h /\ Ht(G, near) = h
        BY <1>3, <1>7, <1>19, <1>21
      <4>2. Child(x, p, s) = n \/ Child(x, p, s) = near BY <1>4, <1>16
      <4> QED BY <1>20, <1>21, <3>1, <4>1, <4>2
    <3>2. CASE m = w
      <4>1. Ht(G, w) = h + 1 + Weight(t, p) /\ Ht(G, p) = h + 1 /\ Ht(G, far) = h + 1
        BY <1>3, <1>6, <1>19, <1>21
      <4>2. Child(x, w, s) = p \/ Child(x, w, s) = far BY <1>4, <1>16
      <4> QED BY <1>20, <1>21, <3>2, <4>1, <4>2
    <3>3. CASE m = far
      <4>1. Ht(G, far) = h + 1 BY <1>6, <1>19
      <4>2. Ht(G, Child(x, far, s)) = h BY <1>6, <1>7, <1>21, <1>22
      <4> QED BY <1>20, <1>21, <3>3, <4>1, <4>2
    <3>4. CASE m # p /\ m # w /\ m # far
      <4>1. Ht(H, m) = Ht(H, Child(t, m, s)) + Weight(t, m) BY <1>5, <3>4
      <4>2. Ht(G, m) = Ht(H, m) /\ Weight(x, m) = Weight(t, m)
        BY <1>3, <1>17, <1>19, <3>4 DEF Weight
      <4> QED BY <1>22, <3>4, <4>1, <4>2
    <3> QED BY <3>1, <3>2, <3>3, <3>4
  <2> QED BY <2>1, <2>2, <2>3 DEF Balanced
<1>24. Levels(x, k, T, G, NULL, "left") BY <1>15, <1>23, LevelsAre
<1>25. ASSUME NEW m \in T PROVE RedRule(x, m)
  <2>1. CASE m = p \/ m = far BY <1>3, <1>6, <1>17, <2>1 DEF RedRule, RED, BLACK
  <2>2. CASE m = w
    <3>1. Color(x, p) = BLACK /\ Color(x, far) = BLACK BY <1>3, <1>6, <1>17
    <3>2. \A s \in Sides : Child(x, w, s) = p \/ Child(x, w, s) = far BY <1>4, <1>16
    <3> QED BY <2>2, <3>1, <3>2 DEF RedRule
  <2>3. CASE m # p /\ m # w /\ m # far
    <3>1. Color(x, m) = Color(t, m) BY <1>3, <1>17, <2>3
    <3>2. CASE Color(t, m) = RED
      <4>1. m # n BY <3>2 DEF RED, BLACK
      <4>2. \A s \in Sides : Color(t, Child(t, m, s)) = BLACK BY <3>2, <4>1 DEF EvictInv
      <4> QED BY <1>22, <2>3, <4>2 DEF RedRule
    <3>3. CASE Color(t, m) # RED BY <3>1, <3>3 DEF RedRule
    <3> QED BY <3>2, <3>3
  <2> QED BY <2>1, <2>2, <2>3
<1>26. Color(x, Root(x, k)) = BLACK
  <2>1. Root(t, k) \in Nodes BY <1>2, Typed
  <2> QED BY <1>3, <1>6, <1>7, <1>16, <1>17, <2>1 DEF c
<1>27. RBTree(x, k, T, key, E, G) BY <1>15, <1>24, <1>25, <1>26 DEF RBTree
<1> QED BY <1>18, <1>27 DEF x, y, v, u, c

-----------------------------------------------------------------------------
(* A round of EvictFixup, and the loop, with the same variant. *)

(* The condition that ends the loop of EvictFixup. *)
EvictDone(x, k) == x.node = Root(x.tree, k) \/ Color(x.tree, x.node) = RED

(* A red-black tree needs no fixing. *)
LEMMA RBEvict ==
  ASSUME NEW t, NEW k \in Trees, NEW T, NEW key, NEW D, NEW H,
         RBTree(t, k, T, key, D, H)
  PROVE  EvictInv(t, Root(t, k), k, T, key, D, H, "left")
BY DEF RBTree, EvictInv, RedRule, Shape

(* A round of EvictFixup keeps EvictInv, and it ends the loop or goes up. *)
LEMMA EvictRoundIs ==
  ASSUME NEW x \in States, NEW k \in Trees, NEW T, NEW key, NEW D, NEW H, NEW sd,
         EvictInv(x.tree, x.node, k, T, key, D, H, sd)
  PROVE  LET y == EvictRound(k, x)
             n == x.node
         IN  /\ EvictDone(x, k) => y = x
             /\ ~ EvictDone(x, k) =>
                  \E E, G, r : /\ EvictInv(y.tree, y.node, k, T, key, E, G, r)
                               /\ Frame(y.tree, x.tree, k, T)
                               /\ \/ EvictDone(y, k)
                                  \/ y.node \in T /\ Sub(D, n) \subseteq Sub(E, y.node)
                                       /\ y.node \notin Sub(D, n)
<1> DEFINE t == x.tree
           n == x.node
           p == Parent(t, n)
           side == SideIn(t, p, n)
           t1 == IF Color(t, Sibling(t, p, side)) = RED
                 THEN Rotate(Paint(Paint(t, Sibling(t, p, side), BLACK), p, RED), k, p, side)
                 ELSE t
           w == Sibling(t1, p, side)
           near == Near(t1, p, side)
           far == Far(t1, p, side)
           t2 == IF Color(t1, Far(t1, p, side)) = BLACK
                 THEN Rotate(Paint(Paint(t1, Near(t1, p, side), BLACK), Sibling(t1, p, side),
                   RED), k, Sibling(t1, p, side), Other(side))
                 ELSE t1
           t3 == Rotate(Paint(Paint(Paint(t2, Sibling(t2, p, side), Color(t2, p)), p, BLACK),
                   Far(t2, p, side), BLACK), k, p, side)
           y == EvictRound(k, x)
<1>0. y = IF n = Root(t, k) \/ Color(t, n) = RED THEN x
          ELSE IF Color(t1, near) = BLACK /\ Color(t1, far) = BLACK
               THEN [tree |-> Paint(t1, w, RED), node |-> p]
               ELSE [tree |-> t3, node |-> Root(t3, k)]
  <2>1. t1 = LiftSibling(t, k, p, side) BY DEF LiftSibling
  <2>2. t2 = LiftNear(t1, k, p, side) BY <2>1 DEF LiftNear
  <2>3. t3 = LiftFar(t2, k, p, side) BY <2>2 DEF LiftFar
  <2> HIDE DEF t1, t2, t3
  <2> QED BY <2>1, <2>2, <2>3 DEF EvictRound, SideIn
<1>1. CASE EvictDone(x, k) BY <1>0, <1>1 DEF EvictDone
<1>2. CASE ~ EvictDone(x, k)
  <2>0. t \in TreeType /\ n \in Nodes BY DEF States
  <2> HIDE DEF y
  <2>1. n # Root(t, k) /\ Color(t, n) = BLACK BY <1>2, <2>0, Typed DEF EvictDone
  <2>2. side = sd BY <2>1 DEF EvictInv
  <2>3. sd \in Sides BY <2>1 DEF EvictInv
  <2>4. p = Parent(t, n) OBVIOUS
  <2> HIDE DEF t, n, p, side
  <2>5. EvictInv(t, n, k, T, key, D, H, sd) BY DEF t, n
  <2>6. EvictAt(t, n, k, T, H, sd, p, Sibling(t, p, side))
    BY <2>1, <2>2, <2>4, <2>5, EvictFacts DEF Sibling
  <2>7. PICK E, G : /\ EvictInv(t1, n, k, T, key, E, G, sd)
                    /\ Sub(E, n) = Sub(D, n)
                    /\ Frame(t1, t, k, T)
                    /\ n # Root(t1, k) /\ Color(t1, n) = BLACK
                    /\ Parent(t1, n) = p
                    /\ Color(t1, Sibling(t1, p, side)) = BLACK
    <3>1. CASE Color(t, Sibling(t, p, side)) = RED
      <4> DEFINE v == Sibling(t, p, side)
      <4>1. t1 = Rotate(Paint(Paint(t, v, BLACK), p, RED), k, p, sd) BY <2>2, <3>1
      <4>2. v = Child(t, p, Other(sd)) BY <2>2 DEF Sibling
      <4> HIDE DEF t1, v
      <4>3. /\ \E E, G : /\ EvictInv(t1, n, k, T, key, E, G, sd)
                         /\ Sub(E, n) = Sub(D, n)
            /\ Frame(t1, t, k, T)
            /\ n # Root(t1, k) /\ Color(t1, n) = Color(t, n)
            /\ Parent(t1, n) = p
            /\ Color(t1, Child(t1, p, Other(sd))) = BLACK
        BY <2>1, <2>4, <2>5, <3>1, <4>1, <4>2, EvictRedSibling DEF v
      <4> QED BY <2>1, <2>2, <4>3 DEF Sibling
    <3>2. CASE Color(t, Sibling(t, p, side)) # RED
      <4>1. t1 = t BY <3>2
      <4>2. Color(t, Sibling(t, p, side)) = BLACK
        <5>1. Sibling(t, p, side) \in Nodes BY <2>6 DEF EvictAt
        <5> QED BY <2>0, <3>2, <5>1, Typed DEF t
      <4>3. Frame(t, t, k, T) BY DEF Frame
      <4> QED BY <2>1, <2>4, <2>5, <4>1, <4>2, <4>3
    <3> QED BY <3>1, <3>2
  <2> HIDE DEF t1
  <2>8. /\ w = Child(t1, p, Other(sd)) /\ near = Child(t1, w, sd) /\ far = Child(t1, w, Other(sd))
    BY <2>2 DEF Sibling, Near, Far
  <2>9. EvictAt(t1, n, k, T, G, sd, p, w) BY <2>7, <2>8, EvictFacts
  <2>10. near \in Nodes /\ far \in Nodes /\ t1 \in TreeType
    BY <2>3, <2>7, <2>8, <2>9, Others DEF EvictAt, EvictInv, Shape
  <2>11. CASE Color(t1, near) = BLACK /\ Color(t1, far) = BLACK
    <3> DEFINE v == Paint(t1, w, RED)
    <3>1. y = [tree |-> v, node |-> p] BY <1>0, <1>2, <2>11 DEF EvictDone, t, n
    <3> HIDE DEF v, w, near, far
    <3>2. \A s \in Sides : Color(t1, Child(t1, w, s)) = BLACK
      BY <2>3, <2>8, <2>11, Others
    <3>3. /\ \E GG, r : EvictInv(v, p, k, T, key, E, GG, r)
          /\ Frame(v, t1, k, T)
          /\ Sub(E, n) \subseteq Sub(E, p) /\ p \notin Sub(E, n)
      BY <2>7, <2>8, <3>2, EvictBlackChildren DEF v, w
    <3>4. y.tree = v /\ y.node = p BY <3>1
    <3>5. Frame(v, t, k, T) BY <2>7, <3>3, FrameStep
    <3>6. PICK GG, r : EvictInv(v, p, k, T, key, E, GG, r) BY <3>3
    <3>7. p \in T BY <2>9 DEF EvictAt
    <3> QED BY <1>2, <2>7, <3>3, <3>4, <3>5, <3>6, <3>7 DEF t, n, y
  <2>12. CASE ~ (Color(t1, near) = BLACK /\ Color(t1, far) = BLACK)
    <3>1. y = [tree |-> t3, node |-> Root(t3, k)] BY <1>0, <1>2, <2>12 DEF EvictDone, t, n
    <3>2. (\E EE, GG : RBTree(t3, k, T, key, EE, GG)) /\ Frame(t3, t, k, T)
      <4>1. CASE Color(t1, far) = BLACK
        <5>1. Color(t1, near) = RED BY <2>10, <2>12, <4>1, Typed
        <5>2. t2 = Rotate(Paint(Paint(t1, near, BLACK), w, RED), k, w, Other(sd)) BY <2>2, <4>1
        <5> HIDE DEF t2, w, near, far
        <5>3. /\ \E EE, GG : EvictInv(t2, n, k, T, key, EE, GG, sd)
              /\ Frame(t2, t1, k, T)
              /\ n # Root(t2, k) /\ Color(t2, n) = BLACK
              /\ Parent(t2, n) = p
              /\ Child(t2, p, Other(sd)) = near /\ Color(t2, near) = BLACK
              /\ Child(t2, near, Other(sd)) = w /\ Color(t2, w) = RED
          BY <2>7, <2>8, <4>1, <5>1, <5>2, EvictNear DEF w
        <5>4. Sibling(t2, p, side) = near /\ Far(t2, p, side) = w BY <2>2, <5>3 DEF Sibling, Far
        <5>5. t3 = Rotate(Paint(Paint(Paint(t2, near, Color(t2, p)), p, BLACK), w, BLACK), k, p, sd)
          BY <2>2, <5>4
        <5> HIDE DEF t3
        <5>6. PICK EE, GG : EvictInv(t2, n, k, T, key, EE, GG, sd) BY <5>3
        <5>7. /\ \E F, J : RBTree(t3, k, T, key, F, J)
              /\ Frame(t3, t2, k, T)
          BY <5>3, <5>5, <5>6, EvictFar
        <5> QED BY <2>7, <5>3, <5>7, FrameStep
      <4>2. CASE Color(t1, far) # BLACK
        <5>1. Color(t1, far) = RED BY <2>10, <4>2, Typed
        <5>2. t2 = t1 BY <4>2
        <5> HIDE DEF t2
        <5>3. t3 = Rotate(Paint(Paint(Paint(t1, w, Color(t1, p)), p, BLACK), far, BLACK), k, p, sd)
          BY <2>2, <5>2
        <5> HIDE DEF t3, w, near, far
        <5>4. /\ \E F, J : RBTree(t3, k, T, key, F, J)
              /\ Frame(t3, t1, k, T)
          BY <2>7, <2>8, <5>1, <5>3, EvictFar DEF w
        <5> QED BY <2>7, <5>4, FrameStep
      <4> QED BY <4>1, <4>2
    <3> HIDE DEF t3
    <3>3. y.tree = t3 /\ y.node = Root(t3, k) BY <3>1
    <3>4. PICK EE, GG : RBTree(t3, k, T, key, EE, GG) BY <3>2
    <3>5. EvictInv(t3, Root(t3, k), k, T, key, EE, GG, "left") BY <3>4, RBEvict
    <3>6. EvictDone(y, k) BY <3>3 DEF EvictDone
    <3> QED BY <1>2, <3>2, <3>3, <3>5, <3>6 DEF t, n, y
  <2> QED BY <2>11, <2>12
<1> QED BY <1>1, <1>2

(* The state after i rounds. *)
EvictAfter(x, t, k, T, key, i) ==
  \E D, H, sd : /\ EvictInv(x.tree, x.node, k, T, key, D, H, sd)
                /\ Frame(x.tree, t, k, T)
                /\ EvictDone(x, k) \/ Cardinality(Sub(D, x.node)) >= i

(* The types of that state. *)
LEMMA EvictNode ==
  ASSUME NEW t, NEW n, NEW k \in Trees, NEW T, NEW key, NEW D, NEW H, NEW sd,
         EvictInv(t, n, k, T, key, D, H, sd)
  PROVE  /\ t \in TreeType /\ n \in Nodes /\ Sub(D, n) \subseteq Slots
         /\ n \in T => n \in Sub(D, n)
<1>1. Nil[k] \in Nodes /\ Shape(t, k, D, key) /\ Members(t, k, D) = T /\ n \in T \cup {Nil[k]}
  BY NilNodes DEF EvictInv
<1>2. T \subseteq Nodes BY <1>1, Typed DEF Shape, Members, Nodes
<1> QED BY <1>1, <1>2 DEF Shape, NodeOK

(* One round more. *)
LEMMA EvictRounds ==
  ASSUME NEW t, NEW k \in Trees, NEW T, NEW key,
         NEW x \in States, NEW i \in Nat, EvictAfter(x, t, k, T, key, i)
  PROVE  EvictRound(k, x) \in States /\ EvictAfter(EvictRound(k, x), t, k, T, key, i + 1)
<1> DEFINE y == EvictRound(k, x)
           n == x.node
<1>1. PICK D, H, sd : /\ EvictInv(x.tree, n, k, T, key, D, H, sd)
                      /\ Frame(x.tree, t, k, T)
                      /\ EvictDone(x, k) \/ Cardinality(Sub(D, n)) >= i
  BY DEF EvictAfter
<1>2. CASE EvictDone(x, k)
  <2>1. y = x BY <1>1, <1>2, EvictRoundIs
  <2> QED BY <1>1, <1>2, <2>1 DEF EvictAfter
<1>3. CASE ~ EvictDone(x, k)
  <2>1. PICK E, G, r : /\ EvictInv(y.tree, y.node, k, T, key, E, G, r)
                       /\ Frame(y.tree, x.tree, k, T)
                       /\ \/ EvictDone(y, k)
                          \/ y.node \in T /\ Sub(D, n) \subseteq Sub(E, y.node)
                               /\ y.node \notin Sub(D, n)
    BY <1>1, <1>3, EvictRoundIs
  <2> HIDE DEF y, n
  <2>2. Frame(y.tree, t, k, T) BY <1>1, <2>1, FrameStep
  <2>3. /\ y.tree \in TreeType /\ y.node \in Nodes /\ Sub(E, y.node) \subseteq Slots
        /\ y.node \in T => y.node \in Sub(E, y.node)
    BY <2>1, EvictNode
  <2>4. y.node \in T \/ EvictDone(y, k) BY <2>1
  <2>5. EvictDone(y, k) \/ Cardinality(Sub(E, y.node)) >= i + 1
    <3>1. CASE EvictDone(y, k) BY <3>1
    <3>2. CASE ~ EvictDone(y, k)
      <4>1. Sub(D, n) \subseteq Sub(E, y.node) /\ y.node \notin Sub(D, n) BY <2>1, <3>2
      <4>2. /\ Cardinality(Sub(D, n)) \in Nat /\ Cardinality(Sub(E, y.node)) \in Nat
            /\ Cardinality(Sub(E, y.node)) >= Cardinality(Sub(D, n)) + 1
        BY <2>3, <2>4, <3>2, <4>1, Grows, NodesAssumption
      <4>3. Cardinality(Sub(D, n)) >= i BY <1>1, <1>3
      <4> QED BY <4>2, <4>3
    <3> QED BY <3>1, <3>2
  <2>6. y \in States
    <3>2. y = [tree |-> y.tree, node |-> y.node]
      BY <1>3 DEF y, EvictRound, States
    <3> HIDE DEF y
    <3> QED BY <2>3, <3>2 DEF States
  <2>7. EvictAfter(y, t, k, T, key, i + 1) BY <2>1, <2>2, <2>5 DEF EvictAfter
  <2> QED BY <2>6, <2>7 DEF y
<1> QED BY <1>2, <1>3

(* The loop ends at the root or at a red node. *)
LEMMA EvictLoop ==
  ASSUME NEW t, NEW n, NEW k \in Trees, NEW T, NEW key, NEW D, NEW H, NEW sd,
         EvictInv(t, n, k, T, key, D, H, sd)
  PROVE  LET x == Loop(LAMBDA y : EvictRound(k, y), [tree |-> t, node |-> n])
         IN  x \in States /\ EvictDone(x, k) /\ EvictAfter(x, t, k, T, key, 0)
<1> DEFINE s == [tree |-> t, node |-> n]
           N == Cardinality(Slots)
           F == [x \in States |-> EvictRound(k, x)]
           P == [i \in Nat |-> {x \in States : EvictAfter(x, t, k, T, key, i)}]
           after == CHOOSE f : f = [i \in 0 .. N |-> IF i = 0 THEN s ELSE EvictRound(k, f[i - 1])]
           x == Loop(LAMBDA y : EvictRound(k, y), s)
<1>1. x = after[N] BY DEF Loop
<1>2. N \in Nat BY FS_CardinalityType, NodesAssumption
<1>3. s \in P[0]
  <2>1. s.tree = t /\ s.node = n OBVIOUS
  <2>2. t \in TreeType /\ n \in Nodes /\ Sub(D, n) \subseteq Slots BY EvictNode
  <2>3. s \in States BY <2>2 DEF States
  <2>4. Cardinality(Sub(D, n)) >= 0
    <3>1. IsFiniteSet(Sub(D, n)) BY <2>2, FS_Subset, NodesAssumption
    <3>2. Cardinality(Sub(D, n)) \in Nat BY <3>1, FS_CardinalityType
    <3> QED BY <3>2
  <2>5. Frame(t, t, k, T) BY DEF Frame
  <2>6. EvictAfter(s, t, k, T, key, 0)
    <3> HIDE DEF s
    <3> QED BY <2>1, <2>4, <2>5 DEF EvictAfter
  <2> HIDE DEF s
  <2> QED BY <2>3, <2>6
<1>4. \A i \in Nat : \A y \in P[i] : F[y] \in P[i + 1]
  <2>1. ASSUME NEW i \in Nat, NEW y \in P[i] PROVE F[y] \in P[i + 1]
    <3>1. y \in States /\ EvictAfter(y, t, k, T, key, i) OBVIOUS
    <3>2. F[y] = EvictRound(k, y) BY <3>1
    <3>3. EvictRound(k, y) \in States /\ EvictAfter(EvictRound(k, y), t, k, T, key, i + 1)
      BY <3>1, EvictRounds
    <3> HIDE DEF F
    <3> QED BY <3>2, <3>3
  <2> QED BY <2>1
<1> HIDE DEF P, F, s, N
<1>5. PICK f : /\ f = [i \in 0 .. N |-> IF i = 0 THEN s ELSE F[f[i - 1]]]
               /\ \A i \in 0 .. N : f[i] \in P[i]
  <2>1. Leads(P, F) BY <1>4 DEF Leads
  <2>2. \E g : Unrolled(g, P, s, F, N) BY <1>2, <1>3, <2>1, Rounds
  <2> QED BY <2>2 DEF Unrolled
<1>6. \A y \in States : F[y] = EvictRound(k, y) BY DEF F
<1>7. \A i \in Nat : P[i] \subseteq States BY DEF P
<1>8. f = [i \in 0 .. N |-> IF i = 0 THEN s ELSE EvictRound(k, f[i - 1])]
  <2>1. ASSUME NEW i \in 0 .. N, i # 0 PROVE F[f[i - 1]] = EvictRound(k, f[i - 1])
    <3>1. i - 1 \in 0 .. N /\ i - 1 \in Nat BY <1>2, <2>1
    <3>2. f[i - 1] \in States BY <1>5, <1>7, <3>1
    <3> QED BY <1>6, <3>2
  <2>2. [i \in 0 .. N |-> IF i = 0 THEN s ELSE F[f[i - 1]]]
          = [i \in 0 .. N |-> IF i = 0 THEN s ELSE EvictRound(k, f[i - 1])]
    BY <2>1
  <2> QED BY <1>5, <2>2
<1>9. after = [i \in 0 .. N |-> IF i = 0 THEN s ELSE EvictRound(k, after[i - 1])]
  BY <1>8
<1> HIDE DEF after
<1>10. \A i \in 0 .. N : after[i] = f[i]
  <2> DEFINE A == {i \in Nat : i \in 0 .. N => after[i] = f[i]}
  <2>1. 0 \in A BY <1>8, <1>9
  <2>2. ASSUME NEW i \in Nat, i \in A PROVE i + 1 \in A
    <3>1. CASE i + 1 \in 0 .. N
      <4>1. i \in 0 .. N /\ (i + 1) - 1 = i /\ i + 1 # 0 BY <1>2, <3>1
      <4>2. after[i] = f[i] BY <2>2, <4>1
      <4>3. after[i + 1] = EvictRound(k, after[i]) BY <1>9, <3>1, <4>1
      <4>4. f[i + 1] = EvictRound(k, f[i]) BY <1>8, <3>1, <4>1
      <4> QED BY <4>2, <4>3, <4>4
    <3>2. CASE i + 1 \notin 0 .. N BY <3>2
    <3> QED BY <3>1, <3>2
  <2> HIDE DEF A
  <2>3. Nat \subseteq A BY <2>1, <2>2, SetInduction
  <2> QED BY <2>3 DEF A
<1>11. after[N] \in P[N] BY <1>2, <1>5, <1>10
<1>12. x \in States /\ EvictAfter(x, t, k, T, key, N) BY <1>1, <1>2, <1>11 DEF P
<1> HIDE DEF x
<1>13. PICK E, G, r : /\ EvictInv(x.tree, x.node, k, T, key, E, G, r)
                      /\ Frame(x.tree, t, k, T)
                      /\ EvictDone(x, k) \/ Cardinality(Sub(E, x.node)) >= N
  BY <1>12 DEF EvictAfter
<1>14. EvictDone(x, k)
  <2> SUFFICES ASSUME ~ EvictDone(x, k) PROVE FALSE OBVIOUS
  <2> DEFINE u == x.tree
             m == x.node
             p == Parent(u, m)
  <2>1. m # Root(u, k) BY DEF EvictDone
  <2>2. EvictAt(u, m, k, T, G, r, p, Child(u, p, Other(r)))
    <3> HIDE DEF u, m, p
    <3>1. EvictInv(u, m, k, T, key, E, G, r) /\ p = Parent(u, m) BY <1>13 DEF u, m, p
    <3> QED BY <2>1, <3>1, EvictFacts
  <2> HIDE DEF u, m, p
  <2>3. /\ Shape(u, k, E, key) /\ Members(u, k, E) = T /\ p \in T /\ r \in Sides
             /\ Child(u, p, r) = m
    BY <1>13, <2>2 DEF EvictInv, EvictAt, u
  <2>4. NodeOK(u, k, E, key, p) BY <2>3 DEF Shape
  <2>5. p \in Slots /\ key \in [Slots -> Int] BY <2>3, Typed DEF Shape, Members
  <2>6. p \notin Sub(E, m) BY <2>3, <2>4, <2>5, BeyondFacts DEF NodeOK
  <2>7. Sub(E, m) \subseteq Slots BY <1>13, EvictNode DEF u, m
  <2>8. Cardinality(Slots) >= Cardinality(Sub(E, m)) + 1 /\ Cardinality(Sub(E, m)) \in Nat
    BY <2>5, <2>6, <2>7, Grows, NodesAssumption
  <2>9. Cardinality(Sub(E, m)) >= N BY <1>13 DEF m
  <2> QED BY <1>2, <2>8, <2>9 DEF N
<1>15. EvictAfter(x, t, k, T, key, 0)
  BY <1>13, <1>14 DEF EvictAfter
<1> QED BY <1>12, <1>14, <1>15 DEF x, s

(* The red node that is a level short is painted black. *)
LEMMA BlackNode ==
  ASSUME NEW t, NEW n, NEW k \in Trees, NEW T, NEW key, NEW D, NEW H, NEW sd,
         EvictInv(t, n, k, T, key, D, H, sd), n # Root(t, k), Color(t, n) = RED
  PROVE  LET x == Paint(t, n, BLACK)
         IN  /\ \E G : RBTree(x, k, T, key, D, G)
             /\ Frame(x, t, k, T)
<1> DEFINE x == Paint(t, n, BLACK)
           z == Nil[k]
           p == Parent(t, n)
           w == Child(t, p, Other(sd))
<1>1. EvictAt(t, n, k, T, H, sd, p, w) BY EvictFacts
<1> HIDE DEF p, w
<1>2. Shape(t, k, D, key) /\ Members(t, k, D) = T /\ t \in TreeType /\ n \in T \cup {z}
  BY DEF EvictInv, Shape
<1>3. /\ T \subseteq Nodes /\ z \notin T /\ n \in Nodes /\ p \in T /\ p # n /\ sd \in Sides
           /\ p \in Nodes
      /\ Child(t, p, sd) = n /\ Parent(t, n) = p
      /\ Color(t, z) = BLACK /\ Color(t, Root(t, k)) = BLACK
      /\ \A m \in Nodes : Ht(H, m) \in Nat
      /\ Ht(H, z) = 0
      /\ \A m \in T : \A s \in Sides : m # p \/ s # sd =>
           Ht(H, m) = Ht(H, Child(t, m, s)) + Weight(t, m)
      /\ Ht(H, p) = Ht(H, n) + Weight(t, p) + 1
      /\ \A m \in T : \A s \in Sides : /\ Child(t, m, s) \in Nodes
                                       /\ Child(t, m, s) # z => Parent(t, Child(t, m, s)) = m
  BY <1>1 DEF EvictAt
<1>4. n # z /\ n \in T BY <1>2, <1>3 DEF RED, BLACK
<1>5. SameLinks(x, t) /\ (\A i \in Nodes : Color(x, i) = IF i = n THEN BLACK
        ELSE Color(t, i)) /\ Frame(x, t, k, T)
  BY <1>2, <1>3, <1>4, PaintLinks
<1> HIDE DEF x
<1>6. Shape(x, k, D, key) /\ Members(x, k, D) = T BY <1>2, <1>5, Repaint
<1>7. Root(x, k) = Root(t, k) /\ \A m \in T : \A s \in Sides : Child(x, m, s) = Child(t, m, s)
  BY <1>3, <1>5 DEF SameLinks, SameRoots, SameChildren
<1>8. \A m \in T : \A s \in Sides : Child(t, m, s) = n => m = p /\ s = sd
  <2>1. ASSUME NEW m \in T, NEW s \in Sides, Child(t, m, s) = n PROVE m = p /\ s = sd
    <3>1. Kin(t, k, D, key, m) BY <1>2, Family
    <3>2. m = p BY <1>3, <1>4, <2>1
    <3> QED BY <1>3, <1>4, <2>1, <3>1, <3>2, Others DEF Kin
  <2> QED BY <2>1
<1> DEFINE G == [m \in Nodes |-> IF m = n THEN Ht(H, m) + 1 ELSE Ht(H, m)]
<1>9. \A m \in Nodes : Ht(G, m) = IF m = n THEN Ht(H, m) + 1 ELSE Ht(H, m) BY DEF Ht
<1> HIDE DEF G
<1>10. Balanced(x, k, T, G)
  <2>1. Color(x, z) = BLACK /\ Ht(G, z) = 0
    <3>1. z \in Nodes BY NilNodes
    <3> QED BY <1>3, <1>4, <1>5, <1>9, <3>1
  <2>2. \A m \in Nodes : Ht(G, m) \in Nat BY <1>3, <1>9
  <2>3. ASSUME NEW m \in T, NEW s \in Sides
        PROVE  Ht(G, m) = Ht(G, Child(x, m, s)) + Weight(x, m)
    <3>0. /\ Child(x, m, s) = Child(t, m, s) /\ Child(t, m, s) \in Nodes /\ m \in Nodes
          /\ Ht(H, Child(t, m, s)) \in Nat /\ Ht(H, m) \in Nat /\ Weight(t, m) \in Nat
      BY <1>3, <1>7 DEF Weight
    <3>1. CASE m = p /\ s = sd
      <4>1. Ht(G, p) = Ht(H, p) /\ Ht(G, n) = Ht(H, n) + 1 /\ Weight(x, p) = Weight(t, p)
        BY <1>3, <1>5, <1>9 DEF Weight
      <4> QED BY <1>3, <3>0, <3>1, <4>1
    <3>2. CASE ~ (m = p /\ s = sd)
      <4>1. Ht(H, m) = Ht(H, Child(t, m, s)) + Weight(t, m) /\ Child(t, m, s) # n
        BY <1>3, <1>8, <3>2
      <4>2. Ht(G, Child(t, m, s)) = Ht(H, Child(t, m, s)) BY <1>9, <3>0, <4>1
      <4>3. CASE m = n
        <5>1. Weight(t, m) = 0 /\ Weight(x, m) = 1 BY <1>3, <1>5, <4>3 DEF Weight, RED, BLACK
        <5>2. Ht(G, m) = Ht(H, m) + 1 BY <1>3, <1>9, <4>3
        <5> QED BY <3>0, <4>1, <4>2, <5>1, <5>2
      <4>4. CASE m # n
        <5>1. Weight(x, m) = Weight(t, m) /\ Ht(G, m) = Ht(H, m)
          BY <1>5, <1>9, <3>0, <4>4 DEF Weight
        <5> QED BY <3>0, <4>1, <4>2, <5>1
      <4> QED BY <4>3, <4>4
    <3> QED BY <3>1, <3>2
  <2> QED BY <2>1, <2>2, <2>3 DEF Balanced
<1>11. Levels(x, k, T, G, NULL, "left") BY <1>6, <1>10, LevelsAre
<1>12. ASSUME NEW m \in T PROVE RedRule(x, m)
  <2>1. CASE m = n BY <1>3, <1>5, <2>1 DEF RedRule, RED, BLACK
  <2>2. CASE m # n /\ Color(t, m) = RED
    <3>1. \A s \in Sides : Child(t, m, s) = n \/ Color(t, Child(t, m, s)) = BLACK
      BY <2>2 DEF EvictInv
    <3>2. \A s \in Sides : Color(x, Child(t, m, s)) = BLACK BY <1>3, <1>5, <3>1
    <3> QED BY <1>7, <3>2 DEF RedRule
  <2>3. CASE m # n /\ Color(t, m) # RED BY <1>3, <1>5, <2>3 DEF RedRule
  <2> QED BY <2>1, <2>2, <2>3
<1>13. Color(x, Root(x, k)) = BLACK
  <2>1. Root(t, k) \in Nodes BY <1>2, Typed
  <2> QED BY <1>3, <1>5, <1>7, <2>1
<1>14. RBTree(x, k, T, key, D, G) BY <1>6, <1>11, <1>12, <1>13 DEF RBTree
<1> QED BY <1>5, <1>14 DEF x

(* What EvictFixup restores. *)
LEMMA EvictTree ==
  ASSUME NEW t, NEW n, NEW k \in Trees, NEW T, NEW key, NEW D, NEW H, NEW sd,
         EvictInv(t, n, k, T, key, D, H, sd)
  PROVE  LET x == EvictFixup(t, k, n)
         IN  /\ \E E, G : RBTree(x, k, T, key, E, G)
             /\ Frame(x, t, k, T)
<1> DEFINE y == Loop(LAMBDA w : EvictRound(k, w), [tree |-> t, node |-> n])
           x == EvictFixup(t, k, n)
<1>1. x = Paint(y.tree, y.node, BLACK) BY DEF EvictFixup
<1>2. y \in States /\ EvictDone(y, k) /\ EvictAfter(y, t, k, T, key, 0) BY EvictLoop
<1> HIDE DEF x, y
<1>3. PICK E, G, r : EvictInv(y.tree, y.node, k, T, key, E, G, r) /\ Frame(y.tree, t, k, T)
  BY <1>2 DEF EvictAfter
<1> DEFINE u == y.tree
           m == y.node
<1>4. x = Paint(u, m, BLACK) /\ EvictInv(u, m, k, T, key, E, G, r) /\ Frame(u, t, k, T)
      /\ (m = Root(u, k) \/ Color(u, m) = RED)
  BY <1>1, <1>2, <1>3 DEF EvictDone
<1> HIDE DEF u, m
<1>5. (\E EE, GG : RBTree(x, k, T, key, EE, GG)) /\ Frame(x, u, k, T)
  <2>1. CASE m # Root(u, k)
    <3>1. Color(u, m) = RED BY <1>4, <2>1
    <3> HIDE DEF x
    <3> DEFINE v == Paint(u, m, BLACK)
    <3>2. (\E GG : RBTree(v, k, T, key, E, GG)) /\ Frame(v, u, k, T)
      BY <1>4, <2>1, <3>1, BlackNode
    <3> HIDE DEF v
    <3>3. x = v BY <1>4 DEF v
    <3> QED BY <3>2, <3>3
  <2>2. CASE m = Root(u, k) /\ m \in T
    <3> DEFINE v == Paint(u, m, BLACK)
    <3>1. Shape(u, k, E, key) /\ Members(u, k, E) = T /\ Levels(u, k, T, G, NULL, "left")
      BY <1>4, <2>2 DEF EvictInv
    <3>2. \A j \in T : \A s \in Sides : Child(u, j, s) # m
      <4>1. ASSUME NEW j \in T, NEW s \in Sides PROVE Child(u, j, s) # m
        <5>1. Kin(u, k, E, key, j) /\ Kin(u, k, E, key, m) BY <2>2, <3>1, Family
        <5> QED BY <2>2, <5>1 DEF Kin
      <4> QED BY <4>1
    <3>3. \A j \in T : j # m => RedRule(u, j) BY <1>4, <3>2 DEF EvictInv, RedRule
    <3>4. (\E GG : RBTree(v, k, T, key, E, GG)) /\ Frame(v, u, k, T)
      BY <2>2, <3>1, <3>3, BlackRoot
    <3> HIDE DEF v
    <3>5. x = v BY <1>4 DEF v
    <3> QED BY <3>4, <3>5
  <2>3. CASE m = Root(u, k) /\ m \notin T
    <3>1. /\ Shape(u, k, E, key) /\ Members(u, k, E) = T /\ Levels(u, k, T, G, NULL, "left")
          /\ m = Nil[k] /\ u \in TreeType
      BY <1>4, <2>3 DEF EvictInv, Shape
    <3>2. T = {} BY <2>3, <3>1 DEF Shape, Members
    <3>3. m \in Nodes BY <3>1, NilNodes
    <3>4. /\ SameLinks(x, u)
          /\ \A i \in Nodes : Color(x, i) = IF i = m THEN BLACK ELSE Color(u, i)
          /\ Frame(x, u, k, T \cup {m})
      BY <1>4, <3>1, <3>3, PaintLinks
    <3>5. Shape(x, k, E, key) /\ Members(x, k, E) = T BY <3>1, <3>4, Repaint
    <3>6. Root(x, k) = m BY <2>3, <3>4 DEF SameLinks, SameRoots
    <3>7. Levels(x, k, T, G, NULL, "left") BY <3>1, <3>2, <3>3, <3>4 DEF Levels
    <3>8. RBTree(x, k, T, key, E, G) BY <3>2, <3>3, <3>4, <3>5, <3>6, <3>7 DEF RBTree
    <3>9. Frame(x, u, k, T) BY <3>1, <3>4 DEF Frame
    <3> QED BY <3>8, <3>9
  <2> QED BY <1>4, <2>1, <2>2, <2>3 DEF EvictInv
<1>6. Frame(x, t, k, T) BY <1>4, <1>5, FrameStep
<1> QED BY <1>5, <1>6 DEF x

-----------------------------------------------------------------------------
(* Walks.  A walk whose steps go down in a tree ends, where no step is left. *)

(* A walk that goes down ends, in S and where next stops it. *)
Down(next, S, D) ==
  \A m \in S : /\ Sub(D, m) \subseteq Slots
               /\ m \in Slots => /\ next[m] \in S
                                 /\ next[m] # m => /\ Sub(D, next[m]) \subseteq Sub(D, m)
                                                   /\ m \in Sub(D, m)
                                                   /\ m \notin Sub(D, next[m])

(* A walk down stays in S and ends where next does not move. *)
LEMMA WalkIs ==
  ASSUME NEW next, NEW S, NEW D, Down(next, S, D), NEW n \in S
  PROVE  Walk(next, n) \in S /\ (Walk(next, n) \in Slots => next[Walk(next, n)] = Walk(next, n))
<1> DEFINE N == Cardinality(Slots)
           F == [m \in S |-> IF m \in Slots THEN next[m] ELSE m]
           Stuck(m) == m \in Slots => next[m] = m
           P == [i \in Nat |-> {m \in S : Stuck(m) \/ Cardinality(Sub(D, m)) <= N - i}]
           Runs(f) == f = [i \in 0 .. N |->
                        IF i = 0 THEN n ELSE IF f[i - 1] \in Slots THEN next[f[i - 1]]
                          ELSE f[i - 1]]
           after == CHOOSE f : Runs(f)
           x == Walk(next, n)
<1>1. x = after[N] BY DEF Walk, Loop
<1>2. N \in Nat BY FS_CardinalityType, NodesAssumption
<1>3. \A m \in S : Cardinality(Sub(D, m)) \in Nat /\ Cardinality(Sub(D, m)) <= N
  <2>1. ASSUME NEW m \in S PROVE Cardinality(Sub(D, m)) \in Nat /\ Cardinality(Sub(D, m)) <= N
    <3>1. Sub(D, m) \subseteq Slots BY DEF Down
    <3>2. IsFiniteSet(Sub(D, m)) /\ Cardinality(Sub(D, m)) <= N
      BY <3>1, FS_Subset, NodesAssumption
    <3> QED BY <3>2, FS_CardinalityType
  <2> QED BY <2>1
<1>4. n \in P[0]
  <2>1. Cardinality(Sub(D, n)) <= N - 0 BY <1>2, <1>3
  <2> QED BY <2>1
<1>5. \A i \in Nat : \A m \in P[i] : F[m] \in P[i + 1]
  <2>1. ASSUME NEW i \in Nat, NEW m \in P[i] PROVE F[m] \in P[i + 1]
    <3>1. m \in S /\ (Stuck(m) \/ Cardinality(Sub(D, m)) <= N - i) OBVIOUS
    <3>2. F[m] = IF m \in Slots THEN next[m] ELSE m BY <3>1
    <3>3. CASE Stuck(m)
      <4>1. F[m] = m BY <3>2, <3>3
      <4> HIDE DEF F
      <4> QED BY <3>1, <3>3, <4>1
    <3>4. CASE ~ Stuck(m)
      <4> DEFINE j == next[m]
      <4>1. m \in Slots /\ j # m /\ F[m] = j BY <3>2, <3>4
      <4>2. /\ j \in S /\ Sub(D, j) \subseteq Sub(D, m) /\ m \in Sub(D, m) /\ m \notin Sub(D, j)
            /\ Sub(D, m) \subseteq Slots
        BY <3>1, <4>1 DEF Down
      <4> HIDE DEF F, j
      <4>3. Cardinality(Sub(D, m)) >= Cardinality(Sub(D, j)) + 1 BY <4>2, Grows, NodesAssumption
      <4>4. Cardinality(Sub(D, m)) <= N - i BY <3>1, <3>4
      <4>5. Cardinality(Sub(D, j)) <= N - (i + 1)
        <5>1. Cardinality(Sub(D, m)) \in Nat /\ Cardinality(Sub(D, j)) \in Nat
          BY <1>3, <3>1, <4>2
        <5> HIDE DEF N
        <5> QED BY <1>2, <4>3, <4>4, <5>1
      <4>6. j \in P[i + 1]
        <5>1. i + 1 \in Nat OBVIOUS
        <5> QED BY <4>2, <4>5, <5>1
      <4> QED BY <4>1, <4>6
    <3> QED BY <3>3, <3>4
  <2> QED BY <2>1
<1>6. \A i \in Nat : P[i] \subseteq S OBVIOUS
<1>7. \A m \in S : F[m] = IF m \in Slots THEN next[m] ELSE m OBVIOUS
<1>8. P[N] = {m \in S : Stuck(m) \/ Cardinality(Sub(D, m)) <= N - N} BY <1>2
<1> HIDE DEF P, F, N
<1>9. PICK f : /\ f = [i \in 0 .. N |-> IF i = 0 THEN n ELSE F[f[i - 1]]]
               /\ \A i \in 0 .. N : f[i] \in P[i]
  <2>1. Leads(P, F) BY <1>5 DEF Leads
  <2>2. \E g : Unrolled(g, P, n, F, N) BY <1>2, <1>4, <2>1, Rounds
  <2> QED BY <2>2 DEF Unrolled
<1>10. f = [i \in 0 .. N |->
              IF i = 0 THEN n ELSE IF f[i - 1] \in Slots THEN next[f[i - 1]] ELSE f[i - 1]]
  <2>1. ASSUME NEW i \in 0 .. N, i # 0
        PROVE  F[f[i - 1]] = IF f[i - 1] \in Slots THEN next[f[i - 1]] ELSE f[i - 1]
    <3>1. i - 1 \in 0 .. N /\ i - 1 \in Nat BY <1>2, <2>1
    <3>2. f[i - 1] \in S BY <1>6, <1>9, <3>1
    <3> QED BY <1>7, <3>2
  <2>2. [i \in 0 .. N |-> IF i = 0 THEN n ELSE F[f[i - 1]]]
          = [i \in 0 .. N |->
              IF i = 0 THEN n ELSE IF f[i - 1] \in Slots THEN next[f[i - 1]] ELSE f[i - 1]]
    BY <2>1
  <2> QED BY <1>9, <2>2
<1>11. after = [i \in 0 .. N |->
              IF i = 0 THEN n ELSE IF after[i - 1] \in Slots THEN next[after[i - 1]]
                ELSE after[i - 1]]
  <2>1. Runs(f) BY <1>10
  <2> HIDE DEF Runs
  <2>2. Runs(after) BY <2>1
  <2> QED BY <2>2 DEF Runs
<1> HIDE DEF after
<1>12. \A i \in 0 .. N : after[i] = f[i]
  <2> DEFINE A == {i \in Nat : i \in 0 .. N => after[i] = f[i]}
  <2>1. 0 \in A BY <1>10, <1>11
  <2>2. ASSUME NEW i \in Nat, i \in A PROVE i + 1 \in A
    <3>1. CASE i + 1 \in 0 .. N
      <4>1. i \in 0 .. N /\ (i + 1) - 1 = i /\ i + 1 # 0 BY <1>2, <3>1
      <4>2. after[i] = f[i] BY <2>2, <4>1
      <4>3. after[i + 1] = IF after[i] \in Slots THEN next[after[i]] ELSE after[i]
        BY <1>11, <3>1, <4>1
      <4>4. f[i + 1] = IF f[i] \in Slots THEN next[f[i]] ELSE f[i] BY <1>10, <3>1, <4>1
      <4> QED BY <4>2, <4>3, <4>4
    <3>2. CASE i + 1 \notin 0 .. N BY <3>2
    <3> QED BY <3>1, <3>2
  <2> HIDE DEF A
  <2>3. Nat \subseteq A BY <2>1, <2>2, SetInduction
  <2> QED BY <2>3 DEF A
<1>13. x \in P[N] BY <1>1, <1>2, <1>9, <1>12
<1> HIDE DEF x
<1>14. Stuck(x)
  <2>1. x \in S BY <1>8, <1>13
  <2> SUFFICES ASSUME ~ Stuck(x) PROVE FALSE OBVIOUS
  <2>2. Cardinality(Sub(D, x)) <= N - N BY <1>8, <1>13
  <2>3. x \in Slots /\ next[x] # x OBVIOUS
  <2>4. x \in Sub(D, x) /\ x \notin {} /\ Sub(D, x) \subseteq Slots BY <2>1, <2>3 DEF Down
  <2>5. Cardinality({}) = 0 BY FS_EmptySet
  <2>6. Cardinality(Sub(D, x)) >= Cardinality({}) + 1 BY <2>4, Grows, NodesAssumption
  <2>7. Cardinality(Sub(D, x)) \in Nat BY <1>3, <2>1
  <2> QED BY <1>2, <2>2, <2>5, <2>6, <2>7
<1> QED BY <1>8, <1>13, <1>14 DEF x

-----------------------------------------------------------------------------
(* Removal: a node with at most one child is spliced out. *)

(* The nodes below each node when n is taken out. *)
Without(D, n) == [m \in Nodes |-> Sub(D, m) \ {n}]

(* The tree x is t with c in the place of n. *)
Spliced(x, t, k, T, n, c) ==
  /\ x \in TreeType
  /\ Root(x, k) = IF Root(t, k) = n THEN c ELSE Root(t, k)
  /\ \A m \in T : m # n => \A s \in Sides :
        Child(x, m, s) = IF Child(t, m, s) = n THEN c ELSE Child(t, m, s)
  /\ \A s \in Sides : Child(x, n, s) = Child(t, n, s)
  /\ \A m \in Nodes : Parent(x, m) = IF m = c THEN Parent(t, n) ELSE Parent(t, m)
  /\ SameColors(x, t)

(* Transplant splices n out, and c in, when c is below n or nil. *)
LEMMA Splice ==
  ASSUME NEW t, NEW k \in Trees, NEW D, NEW key, Shape(t, k, D, key),
         NEW T, T = Members(t, k, D), NEW n \in T, NEW c \in T \cup {Nil[k]}, c # n
  PROVE  /\ Spliced(Transplant(t, k, n, c), t, k, T, n, c)
         /\ Frame(Transplant(t, k, n, c), t, k, T)
<1> DEFINE x == Transplant(t, k, n, c)
           p == Parent(t, n)
           z == Nil[k]
<1>0. z \in Nodes /\ z \notin Slots /\ Slots \subseteq Nodes BY NilNodes DEF Nodes
<1>1. Kin(t, k, D, key, n) BY Family
<1>2. t \in TreeType /\ p \in Nodes /\ n \in Nodes /\ T \subseteq Slots /\ c \in Nodes
  BY <1>0, <1>1, Typed DEF Kin, Shape, Members
<1>3. Transplanted(x, t, k, n, c, p) BY <1>2, TransplantIs
<1> HIDE DEF x
<1>4. Root(x, k) = IF Root(t, k) = n THEN c ELSE Root(t, k)
  BY <1>1, <1>3 DEF Transplanted, Kin
<1>5. p # z => Child(t, p, SideIn(t, p, n)) = n /\ SideIn(t, p, n) \in Sides /\ p \in T /\ p # n
  BY <1>1 DEF Kin, Sides, SideIn
<1>6. ASSUME NEW m \in T, m # n, NEW s \in Sides
      PROVE  Child(x, m, s) = IF Child(t, m, s) = n THEN c ELSE Child(t, m, s)
  <2>1. Kin(t, k, D, key, m) BY Family
  <2>2. Child(x, m, s) = IF p # z /\ m = p /\ s = SideIn(t, p, n) THEN c ELSE Child(t, m, s)
    BY <1>3, <2>1 DEF Transplanted, Kin
  <2>3. CASE Child(t, m, s) = n
    <3>1. p = m /\ m # z BY <1>0, <1>1, <2>1, <2>3 DEF Kin
    <3>2. \A r \in Sides : r # s => Child(t, m, r) # n
      BY <1>0, <1>1, <2>1, <2>3, Others DEF Kin
    <3>3. s = SideIn(t, p, n) BY <2>3, <3>1, <3>2 DEF SideIn, Sides
    <3> QED BY <2>2, <2>3, <3>1, <3>3
  <2>4. CASE Child(t, m, s) # n BY <1>5, <2>2, <2>4
  <2> QED BY <2>3, <2>4
<1>7. \A s \in Sides : Child(x, n, s) = Child(t, n, s)
  BY <1>2, <1>3, <1>5 DEF Transplanted
<1>8. /\ x \in TreeType
      /\ \A m \in Nodes : Parent(x, m) = IF m = c THEN Parent(t, n) ELSE Parent(t, m)
      /\ SameColors(x, t)
  BY <1>3 DEF Transplanted
<1>9. Spliced(x, t, k, T, n, c) BY <1>4, <1>6, <1>7, <1>8 DEF Spliced
<1>10. Frame(x, t, k, T)
  <2>1. \A j \in Trees : j # k => Root(x, j) = Root(t, j) BY <1>3 DEF Transplanted
  <2>2. ASSUME NEW m \in Nodes, m \notin T, m # z
        PROVE  /\ \A s \in Sides : Child(x, m, s) = Child(t, m, s)
               /\ Parent(x, m) = Parent(t, m)
               /\ Color(x, m) = Color(t, m)
    <3>1. m # c /\ ~(p # z /\ m = p) BY <1>5, <2>2
    <3> QED BY <1>3, <3>1 DEF Transplanted, SameColors
  <2> QED BY <2>1, <2>2 DEF Frame
<1> QED BY <1>9, <1>10 DEF x

(* A node without a child on one side is replaced by the other. *)
LEMMA SpliceShape ==
  ASSUME NEW t, NEW k \in Trees, NEW D, NEW key, Shape(t, k, D, key),
         NEW T, T = Members(t, k, D), NEW n \in T, NEW side \in Sides,
         Child(t, n, side) = Nil[k],
         NEW c, c = Child(t, n, Other(side)), NEW x, Spliced(x, t, k, T, n, c)
  PROVE  /\ Shape(x, k, Without(D, n), key)
         /\ Members(x, k, Without(D, n)) = T \ {n}
<1> DEFINE E == Without(D, n)
           p == Parent(t, n)
           z == Nil[k]
<1>0. z \in Nodes /\ z \notin Slots /\ Slots \subseteq Nodes BY NilNodes DEF Nodes
<1>1. Kin(t, k, D, key, n) /\ NodeOK(t, k, D, key, n) BY Family DEF Shape
<1>2. t \in TreeType /\ key \in [Slots -> Int] /\ p \in Nodes /\ n \in Nodes /\ n \in Slots
        /\ T \subseteq Slots
      /\ Root(t, k) \in Nodes
  BY <1>0, <1>1, Typed DEF Kin, Shape, Members
<1>3. \A m \in Nodes : Sub(E, m) = Sub(D, m) \ {n} BY DEF Without, Sub
<1> HIDE DEF E
<1>4. Other(side) \in Sides /\ Sides = {side, Other(side)} BY Others
<1>5. /\ c \in Nodes /\ c # n
      /\ c # z => c \in T /\ Parent(t, c) = n /\ c \in Sub(D, c) /\ c # Root(t, k)
  BY <1>1, <1>4 DEF Kin
<1>6. Sub(D, n) = {n} \cup Sub(D, c) /\ n \notin Sub(D, c)
  <2>1. Sub(D, z) = {} BY DEF Shape
  <2>2. Sub(D, n) = {n} \cup Sub(D, c) BY <1>1, <1>4, <2>1 DEF NodeOK
  <2>3. ~Beyond(key, Other(side), n, n) BY <1>2, <1>4, BeyondFacts
  <2> QED BY <1>1, <1>4, <2>2, <2>3 DEF NodeOK
<1>7. Members(x, k, E) = T \ {n}
  <2>1. CASE Root(t, k) = n
    <3>1. Root(x, k) = c BY <2>1 DEF Spliced
    <3>2. T = Sub(D, n) BY <2>1 DEF Members
    <3> QED BY <1>3, <1>5, <1>6, <3>1, <3>2 DEF Members
  <2>2. CASE Root(t, k) # n
    <3>1. Root(x, k) = Root(t, k) BY <2>2 DEF Spliced
    <3> QED BY <1>2, <1>3, <3>1 DEF Members
  <2> QED BY <2>1, <2>2
<1>8. \A m \in Nodes : Parent(x, m) = IF m = c THEN p ELSE Parent(t, m) BY DEF Spliced
<1>9. ASSUME NEW m \in T, m # n PROVE NodeOK(x, k, E, key, m)
  <2>1. NodeOK(t, k, D, key, m) /\ Kin(t, k, D, key, m) BY Family DEF Shape
  <2>2. Sub(E, m) = Sub(D, m) \ {n} BY <1>3, <2>1 DEF Kin
  <2>3. ASSUME NEW s \in Sides
        PROVE  /\ Sub(E, Child(x, m, s)) = Sub(D, Child(t, m, s)) \ {n}
               /\ Child(x, m, s) = z \/ (Child(x, m, s) \in Sub(E, m)
                    /\ Parent(x, Child(x, m, s)) = m)
    <3>1. CASE Child(t, m, s) = n
      <4>1. p = m BY <1>0, <1>2, <2>1, <3>1 DEF Kin
      <4>2. Child(x, m, s) = c BY <1>9, <3>1 DEF Spliced
      <4>3. Sub(D, n) \subseteq Sub(D, m) BY <2>1, <3>1 DEF NodeOK
      <4> QED BY <1>3, <1>5, <1>6, <1>8, <2>2, <3>1, <4>1, <4>2, <4>3
    <3>2. CASE Child(t, m, s) # n
      <4> DEFINE d == Child(t, m, s)
      <4>1. Child(x, m, s) = d BY <1>9, <3>2 DEF Spliced
      <4>2. d \in Nodes BY <2>1 DEF Kin
      <4>3. d # z => d \in Sub(D, m) /\ Parent(t, d) = m BY <2>1 DEF NodeOK
      <4>4. d # z => Parent(x, d) = m BY <1>5, <1>8, <1>9, <4>2, <4>3
      <4> QED BY <1>3, <2>2, <3>2, <4>1, <4>2, <4>3, <4>4
    <3> QED BY <3>1, <3>2
  <2>4. /\ m \in Sub(D, m) /\ Sub(D, m) \subseteq T
        /\ \A j \in Sub(D, m) : j = m \/ \E s \in Sides : j \in Sub(D, Child(t, m, s))
        /\ \A s \in Sides : /\ Sub(D, Child(t, m, s)) \subseteq Sub(D, m)
                            /\ \A j \in Sub(D, Child(t, m, s)) : Beyond(key, s, j, m)
    BY <2>1 DEF NodeOK
  <2>5. /\ m \in Sub(E, m) /\ Sub(E, m) \subseteq T \ {n}
        /\ \A j \in Sub(E, m) : j = m \/ \E s \in Sides : j \in Sub(E, Child(x, m, s))
        /\ \A s \in Sides : /\ Sub(E, Child(x, m, s)) \subseteq Sub(E, m)
                            /\ \A j \in Sub(E, Child(x, m, s)) : Beyond(key, s, j, m)
    BY <1>9, <2>2, <2>3, <2>4
  <2> QED BY <1>7, <2>3, <2>5 DEF NodeOK
<1>10. ASSUME NEW m \in T, m # n, m # Root(x, k)
       PROVE  Parent(x, m) \in T \ {n} /\ \E s \in Sides : Child(x, Parent(x, m), s) = m
  <2>1. Kin(t, k, D, key, m) BY Family
  <2>2. CASE m = c
    <3>1. n # Root(t, k) BY <1>10, <2>2 DEF Spliced
    <3>2. p \in T /\ p # n /\ \E s \in Sides : Child(t, p, s) = n BY <1>1, <3>1 DEF Kin
    <3>3. Parent(x, m) = p BY <1>5, <1>8, <2>2
    <3>4. \E s \in Sides : Child(x, p, s) = c BY <3>2 DEF Spliced
    <3> QED BY <2>2, <3>2, <3>3, <3>4
  <2>3. CASE m # c
    <3> DEFINE q == Parent(t, m)
    <3>1. Parent(x, m) = q BY <1>8, <2>1, <2>3 DEF Kin
    <3>2. m # Root(t, k) BY <1>10 DEF Spliced
    <3>3. q \in T /\ \E s \in Sides : Child(t, q, s) = m BY <2>1, <3>2 DEF Kin
    <3>4. q # n
      <4> SUFFICES ASSUME q = n PROVE FALSE OBVIOUS
      <4>1. PICK s \in Sides : Child(t, n, s) = m BY <3>3
      <4>2. CASE s = side BY <2>1, <4>1, <4>2 DEF Kin
      <4>3. CASE s = Other(side) BY <2>3, <4>1, <4>3
      <4> QED BY <1>4, <4>2, <4>3
    <3>5. PICK s \in Sides : Child(t, q, s) = m BY <3>3
    <3>6. Child(x, q, s) = m BY <1>10, <3>3, <3>4, <3>5 DEF Spliced
    <3> QED BY <3>1, <3>3, <3>4, <3>6
  <2> QED BY <2>2, <2>3
<1>11. Root(x, k) = z \/ (Root(x, k) \in T \ {n} /\ Parent(x, Root(x, k)) = z)
  <2>1. CASE Root(t, k) = n
    <3>1. Root(x, k) = c /\ p = z BY <1>1, <2>1 DEF Spliced, Kin
    <3> QED BY <1>5, <1>8, <3>1
  <2>2. CASE Root(t, k) # n
    <3>1. Root(x, k) = Root(t, k) BY <2>2 DEF Spliced
    <3>2. Root(t, k) = z \/ (Root(t, k) \in T /\ Parent(t, Root(t, k)) = z) BY DEF Shape
    <3> QED BY <1>2, <1>5, <1>8, <2>2, <3>1, <3>2
  <2> QED BY <2>1, <2>2
<1>12. (\A m \in Nodes : Sub(E, m) \subseteq Slots) /\ Sub(E, z) = {}
  BY <1>0, <1>3 DEF Shape
<1>13. x \in TreeType BY DEF Spliced
<1>14. Shape(x, k, E, key) BY <1>2, <1>7, <1>9, <1>10, <1>11, <1>12, <1>13 DEF Shape
<1> QED BY <1>7, <1>14 DEF E

(* The tree x is what is left when a node of that colour is taken out, and c is put in its place. *)
Removed(x, c, color, k, T, key, D, H) ==
  /\ color = BLACK => \E sd : EvictInv(x, c, k, T, key, D, H, sd)
  /\ color = RED => RBTree(x, k, T, key, D, H)

(* A node with a nil child can be replaced by its other child: the tree is a    *)
(* red-black tree if the node was red, and a level short there if it was black. *)
LEMMA RemoveOne ==
  ASSUME NEW t, NEW k \in Trees, NEW T, NEW key, NEW D, NEW H,
         RBTree(t, k, T, key, D, H),
         NEW n \in T, NEW side \in Sides, Child(t, n, side) = Nil[k],
         NEW c, c = Child(t, n, Other(side)), NEW x, Spliced(x, t, k, T, n, c)
  PROVE  /\ Removed(x, c, Color(t, n), k, T \ {n}, key, Without(D, n), H)
         /\ Shape(x, k, Without(D, n), key)
         /\ Members(x, k, Without(D, n)) = T \ {n}
         /\ c \in (T \ {n}) \cup {Nil[k]}
<1> DEFINE E == Without(D, n)
           U == T \ {n}
           p == Parent(t, n)
           z == Nil[k]
<1>0. z \in Nodes /\ z \notin Slots /\ Slots \subseteq Nodes BY NilNodes DEF Nodes
<1>1. Shape(t, k, D, key) /\ T = Members(t, k, D) BY DEF RBTree
<1>2. Kin(t, k, D, key, n) BY <1>1, Family
<1>3. Shape(x, k, E, key) /\ Members(x, k, E) = U BY <1>1, SpliceShape
<1> HIDE DEF E
<1>4. Other(side) \in Sides /\ Sides = {side, Other(side)} BY Others
<1>5. Balanced(t, k, T, H) BY <1>1, LevelsAre DEF RBTree
<1>6. T \subseteq Nodes /\ T \subseteq Slots /\ \A m \in T : \A s \in Sides :
        Child(t, m, s) \in Nodes
  BY <1>0, <1>1, LevelsAre, Typed DEF Shape, Members
<1>7. /\ c \in Nodes /\ c # n /\ c \in U \cup {z}
      /\ c # z => Parent(t, c) = n /\ c # Root(t, k)
  BY <1>1, <1>2, <1>4 DEF Kin
<1>8. Ht(H, c) = 0 /\ Ht(H, n) = Weight(t, n) /\ Weight(t, n) \in {0, 1}
  <2>1. Ht(H, n) = Ht(H, z) + Weight(t, n) /\ Ht(H, n) = Ht(H, c) + Weight(t, n)
    BY <1>4, <1>5 DEF Balanced
  <2>2. Ht(H, z) = 0 /\ Ht(H, c) \in Nat BY <1>5, <1>7 DEF Balanced
  <2>3. Weight(t, n) \in {0, 1} BY DEF Weight
  <2> QED BY <2>1, <2>2, <2>3
<1>9. \A m \in Nodes : Color(x, m) = Color(t, m) BY DEF Spliced, SameColors
<1>10. \A m \in U : \A s \in Sides : Child(x, m, s) = IF Child(t, m, s) = n THEN c
         ELSE Child(t, m, s)
  BY DEF Spliced
<1>11. /\ Color(x, z) = BLACK /\ Ht(H, z) = 0 /\ \A m \in Nodes : Ht(H, m) \in Nat
  BY <1>0, <1>5, <1>9 DEF Balanced
<1>12. \A m \in U : Weight(x, m) = Weight(t, m) /\ Weight(t, m) \in {0, 1}
  BY <1>6, <1>9 DEF Weight
<1>13. \A m \in U : \A s \in Sides : Child(t, m, s) = n => m = p
  <2>1. n # z BY <1>2 DEF Kin
  <2>2. ASSUME NEW m \in U PROVE \A s \in Sides : Child(t, m, s) = n => m = p
    <3>1. Kin(t, k, D, key, m) BY <1>1, Family
    <3> QED BY <2>1, <3>1 DEF Kin
  <2> QED BY <2>2
<1>14. ASSUME NEW m \in U, NEW s \in Sides
       PROVE  /\ Child(t, m, s) # n => Ht(H, m) = Ht(H, Child(x, m, s)) + Weight(x, m)
              /\ Child(t, m, s) = n => Ht(H, m) = Ht(H, Child(x, m, s)) + Weight(x,
                   m) + Weight(t, n)
  <2>1. Ht(H, m) = Ht(H, Child(t, m, s)) + Weight(t, m) BY <1>5 DEF Balanced
  <2>2. CASE Child(t, m, s) # n BY <1>10, <1>12, <2>1, <2>2
  <2>3. CASE Child(t, m, s) = n
    <3>1. Child(x, m, s) = c /\ Weight(x, m) = Weight(t, m) BY <1>10, <1>12, <2>3
    <3> QED BY <1>8, <1>12, <2>1, <2>3, <3>1
  <2> QED BY <2>2, <2>3
<1>15. CASE Color(t, n) = BLACK
  <2>1. Weight(t, n) = 1 BY <1>15 DEF Weight
  <2>2. CASE n = Root(t, k)
    <3>1. Root(x, k) = c BY <2>2 DEF Spliced
    <3>2. \A m \in U : \A s \in Sides : Child(t, m, s) # n
      BY <1>0, <1>2, <1>6, <1>13, <2>2 DEF Kin
    <3>3. Balanced(x, k, U, H) BY <1>11, <1>14, <3>2 DEF Balanced
    <3>4. Levels(x, k, U, H, NULL, "left") BY <1>3, <3>3, LevelsAre
    <3>5. \A m \in U : m # c /\ Color(x, m) = RED => \A s \in Sides :
            Child(x, m, s) = c \/ Color(x, Child(x, m, s)) = BLACK
      BY <1>6, <1>9, <1>10 DEF RBTree, RedRule
    <3>6. EvictInv(x, c, k, U, key, E, H, "left") BY <1>3, <1>7, <3>1, <3>4, <3>5 DEF EvictInv
    <3> QED BY <1>3, <1>7, <1>15, <3>6 DEF Removed, E, RED, BLACK
  <2>3. CASE n # Root(t, k)
    <3> DEFINE sd == SideIn(t, p, n)
    <3>1. Root(x, k) = Root(t, k) /\ Root(x, k) # c
      <4>1. Root(x, k) = Root(t, k) BY <2>3 DEF Spliced
      <4>2. Root(t, k) # z BY <1>1, <1>0, <1>6 DEF Shape, Members
      <4> QED BY <1>7, <4>1, <4>2
    <3>2. p \in U /\ p \in T /\ sd \in Sides /\ Child(t, p, sd) = n /\ p # n /\ p # z
      BY <1>1, <1>2, <2>3 DEF Kin, SideIn, Sides
    <3>3. sd = SideIn(x, p, c)
      <4>1. CASE Child(t, p, "left") = n
        <5>1. Child(x, p, "left") = c BY <1>10, <3>2, <4>1 DEF Sides
        <5> QED BY <4>1, <5>1 DEF SideIn
      <4>2. CASE Child(t, p, "left") # n
        <5>1. Child(x, p, "left") = Child(t, p, "left") BY <1>10, <3>2, <4>2 DEF Sides
        <5>2. Child(t, p, "left") # c
          <6>1. CASE c = z
            <7>1. Ht(H, p) = Ht(H, Child(t, p, "left")) + Weight(t, p)
                  /\ Ht(H, p) = Ht(H, n) + Weight(t, p)
              BY <1>5, <3>2 DEF Balanced, Sides
            <7>2. Weight(t, p) \in {0, 1} /\ Ht(H, Child(t, p, "left")) \in Nat
              BY <1>5, <1>6, <1>12, <3>2 DEF Balanced, Sides
            <7>3. Ht(H, Child(t, p, "left")) = 1 BY <1>8, <2>1, <7>1, <7>2
            <7> QED BY <1>11, <6>1, <7>3
          <6>2. CASE c # z
            <7>1. Kin(t, k, D, key, p) BY <1>1, <3>2, Family
            <7>2. Child(t, p, "left") # z => Parent(t, Child(t, p, "left")) = p
              BY <7>1 DEF Kin, Sides
            <7> QED BY <1>7, <3>2, <6>2, <7>2
          <6> QED BY <6>1, <6>2
        <5> QED BY <4>2, <5>1, <5>2 DEF SideIn
      <4> QED BY <4>1, <4>2
    <3>4. Parent(x, c) = p BY <1>7 DEF Spliced
    <3>5. Child(x, p, sd) = c BY <1>10, <3>2
    <3> HIDE DEF sd, p
    <3>6. Levels(x, k, U, H, p, sd)
      <4>1. ASSUME NEW m \in U, NEW s \in Sides
            PROVE  Ht(H, m) = Ht(H, Child(x, m, s)) + Weight(x, m) + Short(p, sd, m, s)
        <5>1. Child(t, m, s) = n => m = p /\ s = sd
          <6>1. CASE Child(t, m, s) = n
            <7>1. m = p BY <1>13, <6>1
            <7>2. Kin(t, k, D, key, p) BY <1>1, <3>2, Family
            <7>3. s = sd \/ s = Other(sd) BY <3>2, Others
            <7> QED BY <1>2, <3>2, <6>1, <7>1, <7>2, <7>3 DEF Kin
          <6> QED BY <6>1
        <5>2. /\ Ht(H, Child(x, m, s)) \in Nat
              /\ Weight(x, m) \in {0, 1}
          BY <1>6, <1>7, <1>10, <1>11, <1>12
        <5>3. CASE Child(t, m, s) = n
          <6>1. Short(p, sd, m, s) = 1 BY <5>1, <5>3 DEF Short
          <6> QED BY <1>14, <2>1, <5>3, <6>1
        <5>4. CASE Child(t, m, s) # n
          <6>1. Short(p, sd, m, s) = 0 BY <3>2, <5>4 DEF Short
          <6> QED BY <1>14, <5>2, <5>4, <6>1
        <5> QED BY <5>3, <5>4
      <4> QED BY <1>11, <4>1 DEF Levels
    <3>7. \A m \in U : m # c /\ Color(x, m) = RED => \A s \in Sides :
            Child(x, m, s) = c \/ Color(x, Child(x, m, s)) = BLACK
      BY <1>6, <1>9, <1>10 DEF RBTree, RedRule
    <3>8. Color(x, Root(x, k)) = BLACK
      <4>1. Root(t, k) \in Nodes BY <1>1, Typed DEF Shape
      <4> QED BY <1>9, <3>1, <4>1 DEF RBTree
    <3>9. EvictInv(x, c, k, U, key, E, H, sd)
      BY <1>3, <1>7, <3>1, <3>2, <3>3, <3>4, <3>5, <3>6, <3>7, <3>8 DEF EvictInv
    <3> QED BY <1>3, <1>7, <1>15, <3>9 DEF Removed, E, RED, BLACK
  <2> QED BY <2>2, <2>3
<1>16. CASE Color(t, n) = RED
  <2>1. Weight(t, n) = 0 BY <1>16 DEF Weight, RED, BLACK
  <2>2. n # Root(t, k) BY <1>16 DEF RBTree, RED, BLACK
  <2>3. Root(x, k) = Root(t, k) BY <2>2 DEF Spliced
  <2>4. Color(x, Root(x, k)) = BLACK
    <3>1. Root(t, k) \in Nodes BY <1>1, Typed DEF Shape
    <3> QED BY <1>9, <2>3, <3>1 DEF RBTree
  <2>5. Color(t, c) = BLACK BY <1>4, <1>16 DEF RBTree, RedRule
  <2>6. Balanced(x, k, U, H)
    <3>1. ASSUME NEW m \in U, NEW s \in Sides
          PROVE  Ht(H, m) = Ht(H, Child(x, m, s)) + Weight(x, m)
      <4>1. Ht(H, Child(x, m, s)) \in Nat /\ Weight(x, m) \in {0, 1}
        BY <1>6, <1>7, <1>10, <1>11, <1>12
      <4> QED BY <1>14, <2>1, <4>1
    <3> QED BY <1>11, <3>1 DEF Balanced
  <2>7. Levels(x, k, U, H, NULL, "left") BY <1>3, <2>6, LevelsAre
  <2>8. \A m \in U : RedRule(x, m)
    BY <1>6, <1>7, <1>9, <1>10, <2>5 DEF RBTree, RedRule
  <2>9. RBTree(x, k, U, key, E, H) BY <1>3, <2>4, <2>7, <2>8 DEF RBTree
  <2> QED BY <1>3, <1>7, <1>16, <2>9 DEF Removed, E, RED, BLACK
<1> QED
  <2>1. t \in TreeType /\ n \in Nodes BY <1>1, <1>6 DEF Shape
  <2>2. Color(t, n) \in {RED, BLACK} BY <2>1, Typed
  <2> QED BY <1>15, <1>16, <2>2

-----------------------------------------------------------------------------
(* Removal of a node with two children: its successor is spliced out, and then *)
(* takes the place of the node under another name.                             *)

(* Node m is the first of the nodes below c in the order of the keys. *)
First(t, k, D, key, c, m) ==
  /\ m \in Sub(D, c) /\ Sub(D, m) \subseteq Sub(D, c)
  /\ Child(t, m, "left") = Nil[k]
  /\ \A j \in Sub(D, c) : j = m \/ Beyond(key, "right", j, m)

(* Leftmost finds the first one. *)
LEMMA LeftmostIs ==
  ASSUME NEW t, NEW k \in Trees, NEW D, NEW key, Shape(t, k, D, key),
         NEW c \in Members(t, k, D)
  PROVE  First(t, k, D, key, c, Leftmost(t, k, c))
<1> DEFINE z == Nil[k]
           next == [m \in Slots |-> IF Child(t, m, "left") = z THEN m ELSE Child(t, m, "left")]
           S == {m \in Sub(D, c) : /\ Sub(D, m) \subseteq Sub(D, c)
                                   /\ \A j \in Sub(D, c) :
                                        j \in Sub(D, m) \/ Beyond(key, "right", j, m)}
<1>0. z \in Nodes /\ z \notin Slots /\ Slots \subseteq Nodes BY NilNodes DEF Nodes
<1>1. NodeOK(t, k, D, key, c) BY DEF Shape
<1>2. \A m \in Sub(D, c) : m \in Members(t, k, D) /\ m \in Slots
  <2>1. Root(t, k) \in Nodes BY Typed DEF Shape
  <2> QED BY <1>1, <2>1 DEF NodeOK, Shape, Members
<1>3. Members(t, k, D) \subseteq Slots
  <2>1. Root(t, k) \in Nodes BY Typed DEF Shape
  <2> QED BY <2>1 DEF Shape, Members
<1>4. key \in [Slots -> Int] /\ Sub(D, z) = {} BY DEF Shape
<1>5. "left" \in Sides /\ "right" \in Sides /\ Sides = {"left", "right"} BY DEF Sides
<1>6. ASSUME NEW m \in S
      PROVE  /\ Sub(D, m) \subseteq Slots
             /\ m \in Slots => /\ next[m] \in S
                               /\ next[m] # m => /\ Sub(D, next[m]) \subseteq Sub(D, m)
                                                 /\ m \in Sub(D, m)
                                                 /\ m \notin Sub(D, next[m])
  <2>1. m \in Sub(D, c) /\ m \in Members(t, k, D) /\ m \in Slots BY <1>2
  <2>2. NodeOK(t, k, D, key, m) /\ Kin(t, k, D, key, m) BY <2>1, Family DEF Shape
  <2>3. Sub(D, m) \subseteq Slots BY <1>0, <2>1 DEF Shape
  <2> DEFINE d == Child(t, m, "left")
             e == Child(t, m, "right")
  <2>4. next[m] = IF d = z THEN m ELSE d BY <2>1
  <2>5. CASE d = z BY <2>3, <2>4, <2>5
  <2>6. CASE d # z
    <3>1. next[m] = d BY <2>4, <2>6
    <3>2. /\ d \in Members(t, k, D) /\ d \in Sub(D, d) /\ Beyond(key, "left", d, m)
      BY <1>5, <2>2, <2>6 DEF Kin
    <3>3. d \in Slots BY <1>3, <3>2
    <3>4. Beyond(key, "right", m, d) BY <2>1, <3>2, <3>3 DEF Beyond
    <3>5. /\ Sub(D, d) \subseteq Sub(D, m) /\ Sub(D, e) \subseteq Sub(D, m)
          /\ \A j \in Sub(D, m) : j = m \/ j \in Sub(D, d) \/ j \in Sub(D, e)
          /\ \A j \in Sub(D, e) : Beyond(key, "right", j, m)
          /\ \A j \in Sub(D, d) : Beyond(key, "left", j, m)
          /\ m \in Sub(D, m)
      BY <1>5, <2>2 DEF NodeOK
    <3>6. m \notin Sub(D, d) BY <1>4, <1>5, <2>1, <3>5, BeyondFacts
    <3>7. ASSUME NEW i \in Slots, Beyond(key, "right", i, m) PROVE Beyond(key, "right", i, d)
      BY <1>4, <1>5, <2>1, <3>3, <3>4, <3>7, BeyondFacts
    <3> HIDE DEF d, e, next
    <3>8. ASSUME NEW j \in Sub(D, c) PROVE j \in Sub(D, d) \/ Beyond(key, "right", j, d)
      <4>1. j \in Sub(D, m) \/ Beyond(key, "right", j, m) OBVIOUS
      <4>2. j \in Slots BY <1>2
      <4> QED BY <3>4, <3>5, <3>7, <4>1, <4>2
    <3>9. d \in Sub(D, c) /\ Sub(D, d) \subseteq Sub(D, c)
      <4>1. Sub(D, m) \subseteq Sub(D, c) OBVIOUS
      <4> QED BY <3>2, <3>5, <4>1
    <3>10. d \in S BY <3>8, <3>9
    <3> QED BY <2>3, <3>1, <3>5, <3>6, <3>10
  <2> QED BY <2>5, <2>6
<1>7. Down(next, S, D)
  <2> HIDE DEF next, S
  <2> QED BY <1>6 DEF Down
<1>8. c \in S
  <2>1. c \in Sub(D, c) BY <1>1 DEF NodeOK
  <2> QED BY <2>1
<1> DEFINE m == Walk(next, c)
<1>9. m \in S /\ (m \in Slots => next[m] = m)
  <2> HIDE DEF next, S
  <2> QED BY <1>7, <1>8, WalkIs
<1>10. Leftmost(t, k, c) = m BY DEF Leftmost
<1> HIDE DEF m
<1>11. m \in Sub(D, c) /\ Sub(D, m) \subseteq Sub(D, c) /\ m \in Slots /\ m \in Members(t, k, D)
  BY <1>2, <1>9
<1>12. NodeOK(t, k, D, key, m) /\ Kin(t, k, D, key, m) BY <1>11, Family DEF Shape
<1>13. Child(t, m, "left") = z
  <2>1. next[m] = m /\ next[m] = IF Child(t, m, "left") = z THEN m ELSE Child(t, m, "left")
    BY <1>9, <1>11
  <2>2. Child(t, m, "left") # m BY <1>5, <1>12 DEF Kin
  <2> QED BY <2>1, <2>2
<1>14. ASSUME NEW j \in Sub(D, c) PROVE j = m \/ Beyond(key, "right", j, m)
  <2>1. j \in Sub(D, m) \/ Beyond(key, "right", j, m) BY <1>9
  <2>2. CASE j \in Sub(D, m)
    <3>1. j = m \/ j \in Sub(D, z) \/ j \in Sub(D, Child(t, m, "right"))
      BY <1>5, <1>12, <1>13, <2>2 DEF NodeOK
    <3>2. \A i \in Sub(D, Child(t, m, "right")) : Beyond(key, "right", i, m)
      BY <1>5, <1>12 DEF NodeOK
    <3> QED BY <1>4, <3>1, <3>2
  <2> QED BY <2>1, <2>2
<1> QED BY <1>10, <1>11, <1>13, <1>14 DEF First

(* Node m takes the place of node n. *)
Ren(j, n, m) == IF j = n THEN m ELSE j

(* What renaming does to sets, to the nodes below a node and to heights. *)
RenAll(A, n, m) == {Ren(j, n, m) : j \in A}

RenSub(D, n, m) == [j \in Nodes |-> RenAll(Sub(D, IF j = m THEN n ELSE j), n, m)]

RenHt(H, n, m) == [j \in Nodes |-> Ht(H, IF j = m THEN n ELSE j)]

(* The tree y is x with m in the place of n. *)
Relabeled(y, x, k, T, n, m, c) ==
  /\ y \in TreeType
  /\ Root(y, k) = Ren(Root(x, k), n, m)
  /\ \A j \in T : \A s \in Sides : Child(y, Ren(j, n, m), s) = Ren(Child(x, j, s), n, m)
  /\ \A j \in T \cup {c} : Parent(y, Ren(j, n, m)) = Ren(Parent(x, j), n, m)
  /\ \A j \in T \cup {Nil[k]} : Color(y, Ren(j, n, m)) = Color(x, j)

(* The key of m fits the place of n. *)
Fits(x, k, D, key, n, m) ==
  /\ \A s \in Sides : \A j \in Sub(D, Child(x, n, s)) : Beyond(key, s, j, m)
  /\ \A i \in Members(x, k, D) : \A s \in Sides :
       n \in Sub(D, Child(x, i, s)) => Beyond(key, s, m, i)

(* Renaming is one to one. *)
Renaming(k, T, D, n, m) ==
  /\ \A j \in T \cup {Nil[k]} : /\ Sub(RenSub(D, n, m), Ren(j, n, m)) = RenAll(Sub(D, j), n, m)
                                /\ Ren(j, n, m) \in Nodes
  /\ \A i, j \in T \cup {Nil[k]} : Ren(i, n, m) = Ren(j, n, m) => i = j
  /\ Ren(Nil[k], n, m) = Nil[k]
  /\ \A i \in RenAll(T, n, m) : \E j \in T : i = Ren(j, n, m)
  /\ RenAll(T, n, m) = (T \ {n}) \cup {m}
  /\ RenAll(T, n, m) \subseteq Slots

(* It is when m is no node of the tree. *)
LEMMA RenFacts ==
  ASSUME NEW k \in Trees, NEW T, T \subseteq Slots, NEW D, NEW n \in T, NEW m \in Slots \ T
  PROVE  Renaming(k, T, D, n, m)
<1> DEFINE z == Nil[k]
<1>0. z \in Nodes /\ z \notin Slots /\ Slots \subseteq Nodes BY NilNodes DEF Nodes
<1>1. ASSUME NEW j \in T \cup {z} PROVE Sub(RenSub(D, n, m), Ren(j, n, m)) = RenAll(Sub(D, j), n, m)
  <2>1. j # m /\ j \in Nodes /\ m \in Nodes BY <1>0
  <2>2. \A i \in Nodes : Sub(RenSub(D, n, m), i) = RenAll(Sub(D, IF i = m THEN n ELSE i), n, m)
    BY DEF Sub, RenSub
  <2> QED BY <2>1, <2>2 DEF Ren
<1>2. \A i, j \in T \cup {z} : Ren(i, n, m) = Ren(j, n, m) => i = j BY <1>0 DEF Ren
<1>3. \A j \in T \cup {z} : Ren(j, n, m) \in Nodes BY <1>0 DEF Ren
<1>4. RenAll(T, n, m) = (T \ {n}) \cup {m} BY DEF RenAll, Ren
<1>5. \A i \in RenAll(T, n, m) : \E j \in T : i = Ren(j, n, m) BY DEF RenAll
<1>6. Ren(z, n, m) = z BY <1>0 DEF Ren
<1> QED BY <1>1, <1>2, <1>3, <1>4, <1>5, <1>6 DEF Renaming

(* A tree keeps its shape when a node outside of it whose key fits takes the *)
(* place of one of its nodes.                                                *)
LEMMA RelabelShape ==
  ASSUME NEW x, NEW k \in Trees, NEW D, NEW key, Shape(x, k, D, key),
         NEW T, T = Members(x, k, D), NEW n \in T, NEW m \in Slots \ T, NEW c,
         NEW y, Relabeled(y, x, k, T, n, m, c), Fits(x, k, D, key, n, m)
  PROVE  /\ Shape(y, k, RenSub(D, n, m), key)
         /\ Members(y, k, RenSub(D, n, m)) = RenAll(T, n, m)
<1> DEFINE z == Nil[k]
           E == RenSub(D, n, m)
           r(j) == Ren(j, n, m)
           U == RenAll(T, n, m)
<1>0. z \in Nodes /\ z \notin Slots /\ Slots \subseteq Nodes BY NilNodes DEF Nodes
<1>1. Root(x, k) \in Nodes /\ T \subseteq Slots
  <2>1. Root(x, k) \in Nodes BY Typed DEF Shape
  <2> QED BY <2>1 DEF Shape, Members
<1>2. /\ \A j \in T \cup {z} : Sub(E, r(j)) = RenAll(Sub(D, j), n, m) /\ r(j) \in Nodes
      /\ \A i, j \in T \cup {z} : r(i) = r(j) => i = j
      /\ r(z) = z
      /\ \A i \in U : \E j \in T : i = r(j)
      /\ U \subseteq Slots
  <2>1. n \in T /\ m \in Slots \ T /\ T \subseteq Slots BY <1>1
  <2>2. Renaming(k, T, D, n, m) BY <2>1, RenFacts
  <2> QED BY <2>2 DEF Renaming
<1>3. Sub(D, z) = {} BY DEF Shape
<1>4. \A A, B : A \subseteq B => RenAll(A, n, m) \subseteq RenAll(B, n, m) BY DEF RenAll
<1>5. \A A : \A j \in A : r(j) \in RenAll(A, n, m) BY DEF RenAll
<1>6. \A A : \A i \in RenAll(A, n, m) : \E j \in A : i = r(j) BY DEF RenAll
<1>7. Root(x, k) \in T \cup {z} BY DEF Shape
<1>8. Root(y, k) = r(Root(x, k)) BY DEF Relabeled
<1>9. Members(y, k, E) = U BY <1>2, <1>7, <1>8 DEF Members
<1>10. \A j \in T : /\ \A s \in Sides : Child(y, r(j), s) = r(Child(x, j, s))
                    /\ Parent(y, r(j)) = r(Parent(x, j))
  BY DEF Relabeled
<1>11. \A i \in Nodes : Sub(E, i) \subseteq Slots
  <2>1. ASSUME NEW i \in Nodes PROVE Sub(E, i) \subseteq Slots
    <3>1. Sub(E, i) = RenAll(Sub(D, IF i = m THEN n ELSE i), n, m) BY <2>1 DEF Sub, RenSub
    <3>2. Sub(D, IF i = m THEN n ELSE i) \subseteq Slots BY <1>0, <1>1 DEF Shape
    <3> QED BY <3>1, <3>2 DEF RenAll, Ren
  <2> QED BY <2>1
<1>12. key \in [Slots -> Int] BY DEF Shape
<1>13. /\ \A s \in Sides : \A j \in Sub(D, Child(x, n, s)) : Beyond(key, s, j, m)
       /\ \A i \in T : \A s \in Sides : n \in Sub(D, Child(x, i, s)) => Beyond(key, s, m, i)
  BY DEF Fits
<1> HIDE DEF E
<1>14. ASSUME NEW j \in T PROVE NodeOK(y, k, E, key, r(j))
  <2>1. NodeOK(x, k, D, key, j) /\ Kin(x, k, D, key, j) BY Family DEF Shape
  <2>2. Sub(E, r(j)) = RenAll(Sub(D, j), n, m) BY <1>2
  <2>3. r(j) \in Sub(E, r(j)) BY <1>5, <2>1, <2>2 DEF NodeOK
  <2>4. Sub(E, r(j)) \subseteq U BY <1>4, <2>1, <2>2 DEF NodeOK
  <2>5. \A s \in Sides : /\ Child(x, j, s) \in T \cup {z}
                         /\ Child(y, r(j), s) = r(Child(x, j, s))
                         /\ Sub(E, Child(y, r(j), s)) = RenAll(Sub(D, Child(x, j, s)), n, m)
    BY <1>2, <1>10, <2>1 DEF Kin
  <2>6. ASSUME NEW i \in Sub(E, r(j)) PROVE i = r(j) \/ \E s \in Sides :
                 i \in Sub(E, Child(y, r(j), s))
    <3>1. PICK a \in Sub(D, j) : i = r(a) BY <1>6, <2>2
    <3>2. CASE a = j BY <3>1, <3>2
    <3>3. CASE a # j
      <4>1. PICK s \in Sides : a \in Sub(D, Child(x, j, s)) BY <2>1, <3>3 DEF NodeOK
      <4>2. i \in Sub(E, Child(y, r(j), s)) BY <1>5, <2>5, <3>1, <4>1
      <4> QED BY <4>2
    <3> QED BY <3>2, <3>3
  <2>7. ASSUME NEW s \in Sides
        PROVE  /\ Child(y, r(j), s) = z \/ (Child(y, r(j), s) \in Sub(E, r(j))
                    /\ Parent(y, Child(y, r(j), s)) = r(j))
               /\ Sub(E, Child(y, r(j), s)) \subseteq Sub(E, r(j))
               /\ \A i \in Sub(E, Child(y, r(j), s)) : Beyond(key, s, i, r(j))
    <3> DEFINE b == Child(x, j, s)
    <3>1. /\ b = z \/ (b \in Sub(D, j) /\ Parent(x, b) = j)
          /\ Sub(D, b) \subseteq Sub(D, j)
          /\ \A i \in Sub(D, b) : Beyond(key, s, i, j)
      BY <2>1 DEF NodeOK
    <3>2. b \in T \cup {z} /\ Child(y, r(j), s) = r(b)
            /\ Sub(E, Child(y, r(j), s)) = RenAll(Sub(D, b), n, m)
      BY <2>5
    <3> HIDE DEF b, r
    <3>3. CASE b = z
      BY <1>2, <1>3, <1>6, <1>4, <2>2, <3>1, <3>2, <3>3
    <3>4. CASE b # z
      <4>1. b \in T /\ b \in Sub(D, j) /\ Parent(x, b) = j BY <3>1, <3>2, <3>4
      <4>2. r(b) \in Sub(E, r(j)) BY <1>5, <2>2, <4>1
      <4>3. Parent(y, r(b)) = r(j) BY <1>10, <4>1
      <4>4. RenAll(Sub(D, b), n, m) \subseteq RenAll(Sub(D, j), n, m) BY <1>4, <3>1
      <4>5. ASSUME NEW i \in RenAll(Sub(D, b), n, m) PROVE Beyond(key, s, i, r(j))
        <5>1. PICK a \in Sub(D, b) : i = r(a) BY <1>6
        <5>2. Beyond(key, s, a, j) BY <3>1
        <5>3. Sub(D, b) \subseteq T BY <2>1, <3>1 DEF NodeOK
        <5>4. ~(a = n /\ j = n)
          <6>1. ~Beyond(key, s, n, n) BY <1>1, <1>12, BeyondFacts
          <6> QED BY <5>2, <6>1
        <5>5. CASE a = n
          <6>1. i = m /\ r(j) = j BY <5>1, <5>4, <5>5 DEF r, Ren
          <6>2. Beyond(key, s, m, j) BY <1>13, <5>5 DEF b
          <6> QED BY <6>1, <6>2
        <5>6. CASE j = n
          <6>1. i = a /\ r(j) = m BY <5>1, <5>4, <5>6 DEF r, Ren
          <6>2. Beyond(key, s, a, m) BY <1>13, <5>6 DEF b
          <6> QED BY <6>1, <6>2
        <5>7. CASE a # n /\ j # n BY <5>1, <5>2, <5>7 DEF r, Ren
        <5> QED BY <5>5, <5>6, <5>7
      <4> QED BY <2>2, <3>2, <4>2, <4>3, <4>4, <4>5
    <3> QED BY <3>3, <3>4
  <2> HIDE DEF r, U
  <2>8. Sub(E, r(j)) \subseteq Members(y, k, E) BY <1>9, <2>4
  <2> QED BY <2>3, <2>6, <2>7, <2>8 DEF NodeOK
<1>15. ASSUME NEW j \in T, r(j) # Root(y, k)
       PROVE  Parent(y, r(j)) \in U /\ \E s \in Sides : Child(y, Parent(y, r(j)), s) = r(j)
  <2>1. j # Root(x, k) BY <1>8, <1>15
  <2>2. Parent(x, j) \in T /\ \E s \in Sides : Child(x, Parent(x, j), s) = j BY <2>1 DEF Shape
  <2> HIDE DEF r
  <2> QED BY <1>5, <1>10, <2>2
<1>16. Root(y, k) = z \/ (Root(y, k) \in U /\ Parent(y, Root(y, k)) = z)
  <2>1. CASE Root(x, k) = z BY <1>2, <1>8, <2>1
  <2>2. CASE Root(x, k) # z
    <3>1. Root(x, k) \in T /\ Parent(x, Root(x, k)) = z BY <2>2 DEF Shape
    <3> HIDE DEF r
    <3> QED BY <1>2, <1>5, <1>8, <1>10, <3>1
  <2> QED BY <2>1, <2>2
<1>17. Sub(E, z) = {}
  <2>1. Sub(E, z) = RenAll({}, n, m)
    <3> HIDE DEF r
    <3> QED BY <1>2, <1>3
  <2> QED BY <2>1 DEF RenAll
<1> HIDE DEF r, U
<1>18. \A i \in U : NodeOK(y, k, E, key, i) BY <1>2, <1>14
<1>19. \A i \in U : i # Root(y, k) => Parent(y, i) \in U /\ \E s \in Sides :
         Child(y, Parent(y, i), s) = i
  BY <1>2, <1>15
<1>20. y \in TreeType BY DEF Relabeled
<1>21. Shape(y, k, E, key) BY <1>9, <1>11, <1>12, <1>16, <1>17, <1>18, <1>19, <1>20 DEF Shape
<1> QED BY <1>9, <1>21 DEF E, U

(* So it does when it is a level short. *)
LEMMA RelabelRemoved ==
  ASSUME NEW x, NEW k \in Trees, NEW D, NEW key, NEW H, Shape(x, k, D, key),
         NEW T, T = Members(x, k, D), NEW n \in T, NEW m \in Slots \ T,
         NEW c \in T \cup {Nil[k]},
         NEW y, Relabeled(y, x, k, T, n, m, c), Fits(x, k, D, key, n, m),
         NEW color, Removed(x, c, color, k, T, key, D, H)
  PROVE  Removed(y, Ren(c, n, m), color, k, RenAll(T, n, m), key, RenSub(D, n, m), RenHt(H, n, m))
<1> DEFINE z == Nil[k]
           E == RenSub(D, n, m)
           G == RenHt(H, n, m)
           r(j) == Ren(j, n, m)
           U == RenAll(T, n, m)
<1>0. z \in Nodes /\ z \notin Slots /\ Slots \subseteq Nodes BY NilNodes DEF Nodes
<1>1. Root(x, k) \in Nodes /\ T \subseteq Slots
  <2>1. Root(x, k) \in Nodes BY Typed DEF Shape
  <2> QED BY <2>1 DEF Shape, Members
<1>2. Shape(y, k, E, key) /\ Members(y, k, E) = U BY RelabelShape
<1>3. n \in T /\ m \in Slots \ T /\ T \subseteq Slots BY <1>1
<1>4. /\ \A j \in T \cup {z} : Sub(E, r(j)) = RenAll(Sub(D, j), n, m) /\ r(j) \in Nodes
      /\ \A i, j \in T \cup {z} : r(i) = r(j) => i = j
      /\ r(z) = z
      /\ \A i \in U : \E j \in T : i = r(j)
      /\ U \subseteq Slots
      /\ \A j \in T : r(j) \in U
  <2>1. /\ \A j \in T \cup {z} : Sub(E, r(j)) = RenAll(Sub(D, j), n, m) /\ r(j) \in Nodes
        /\ \A i, j \in T \cup {z} : r(i) = r(j) => i = j
        /\ r(z) = z
        /\ \A i \in U : \E j \in T : i = r(j)
        /\ U \subseteq Slots
    <3>1. Renaming(k, T, D, n, m) BY <1>3, RenFacts
    <3> QED BY <3>1 DEF Renaming
  <2>2. \A j \in T : r(j) \in U BY DEF RenAll
  <2> QED BY <2>1, <2>2
<1>5. \A j \in T \cup {z} : Ht(G, r(j)) = Ht(H, j)
  <2>1. ASSUME NEW j \in T \cup {z} PROVE Ht(G, r(j)) = Ht(H, j)
    <3>1. j # m /\ m \in Nodes /\ j \in Nodes BY <1>0, <1>3
    <3>2. \A i \in Nodes : Ht(G, i) = Ht(H, IF i = m THEN n ELSE i) BY DEF Ht, RenHt
    <3> QED BY <3>1, <3>2 DEF Ren
  <2> QED BY <2>1
<1>6. /\ \A j \in T : /\ \A s \in Sides : Child(y, r(j), s) = r(Child(x, j, s))
                      /\ Parent(y, r(j)) = r(Parent(x, j))
      /\ Parent(y, r(c)) = r(Parent(x, c))
      /\ \A j \in T \cup {z} : Color(y, r(j)) = Color(x, j)
      /\ Root(y, k) = r(Root(x, k))
  BY DEF Relabeled
<1>7. \A j \in T : \A s \in Sides : Child(x, j, s) \in T \cup {z}
  <2>1. \A j \in T : Kin(x, k, D, key, j) BY Family
  <2> QED BY <2>1 DEF Kin
<1>8. Root(x, k) \in T \cup {z} BY DEF Shape
<1>9. \A j \in T \cup {z} : Weight(y, r(j)) = Weight(x, j) BY <1>6 DEF Weight
<1>10. (\A i \in Nodes : Ht(H, i) \in Nat) => \A i \in Nodes : Ht(G, i) \in Nat
  <2>1. \A i \in Nodes : Ht(G, i) = Ht(H, IF i = m THEN n ELSE i) BY DEF Ht, RenHt
  <2>2. n \in Nodes BY <1>0, <1>3
  <2> HIDE DEF G
  <2> QED BY <2>1, <2>2
<1> HIDE DEF E, G, r
<1>11. \A j, i \in T \cup {z} : r(j) = r(i) <=> j = i BY <1>4
<1>12. ASSUME NEW q \in T, NEW sd, Levels(x, k, T, H, q, sd) PROVE Levels(y, k, U, G, r(q), sd)
  <2>1. Color(y, z) = BLACK /\ Ht(G, z) = 0 BY <1>4, <1>5, <1>6, <1>12 DEF Levels
  <2>2. \A i \in Nodes : Ht(G, i) \in Nat BY <1>10, <1>12 DEF Levels
  <2>3. ASSUME NEW i \in U, NEW s \in Sides
        PROVE  Ht(G, i) = Ht(G, Child(y, i, s)) + Weight(y, i) + Short(r(q), sd, i, s)
    <3>1. PICK j \in T : i = r(j) BY <1>4
    <3>2. Short(r(q), sd, i, s) = Short(q, sd, j, s) BY <1>11, <3>1 DEF Short
    <3>3. Ht(H, j) = Ht(H, Child(x, j, s)) + Weight(x, j) + Short(q, sd, j, s)
      BY <1>12 DEF Levels
    <3> QED BY <1>5, <1>6, <1>7, <1>9, <3>1, <3>2, <3>3
  <2> QED BY <2>1, <2>2, <2>3 DEF Levels
<1>13. ASSUME Balanced(x, k, T, H) PROVE Balanced(y, k, U, G)
  <2>1. Color(y, z) = BLACK /\ Ht(G, z) = 0 BY <1>4, <1>5, <1>6, <1>13 DEF Balanced
  <2>2. \A i \in Nodes : Ht(G, i) \in Nat BY <1>10, <1>13 DEF Balanced
  <2>3. ASSUME NEW i \in U, NEW s \in Sides
        PROVE  Ht(G, i) = Ht(G, Child(y, i, s)) + Weight(y, i)
    <3>1. PICK j \in T : i = r(j) BY <1>4
    <3>2. Ht(H, j) = Ht(H, Child(x, j, s)) + Weight(x, j) BY <1>13 DEF Balanced
    <3> QED BY <1>5, <1>6, <1>7, <1>9, <3>1, <3>2
  <2> QED BY <2>1, <2>2, <2>3 DEF Balanced
<1>14. ASSUME Levels(x, k, T, H, NULL, "left") PROVE Levels(y, k, U, G, NULL, "left")
  <2>1. Balanced(x, k, T, H) BY <1>14, LevelsAre
  <2> QED BY <1>2, <1>13, <2>1, LevelsAre
<1>15. Color(y, Root(y, k)) = Color(x, Root(x, k)) BY <1>6, <1>8
<1>16. ASSUME NEW sd,
              EvictInv(x, c, k, T, key, D, H, sd) PROVE EvictInv(y, r(c), k, U, key, E, G, sd)
  <2>1. r(c) \in U \cup {z} BY <1>4
  <2>2. r(c) = Root(y, k) <=> c = Root(x, k) BY <1>6, <1>8, <1>11
  <2>3. ASSUME r(c) # Root(y, k)
        PROVE  /\ Parent(y, r(c)) \in U
               /\ sd \in Sides /\ sd = SideIn(y, Parent(y, r(c)), r(c))
               /\ Child(y, Parent(y, r(c)), sd) = r(c)
               /\ Levels(y, k, U, G, Parent(y, r(c)), sd)
               /\ Color(y, Root(y, k)) = BLACK
    <3> DEFINE p == Parent(x, c)
    <3>1. /\ p \in T
          /\ sd \in Sides /\ sd = SideIn(x, p, c)
          /\ Child(x, p, sd) = c
          /\ Levels(x, k, T, H, p, sd)
          /\ Color(x, Root(x, k)) = BLACK
      BY <1>16, <2>2, <2>3 DEF EvictInv
    <3>2. Parent(y, r(c)) = r(p) BY <1>6
    <3> HIDE DEF p
    <3>3. r(p) \in U /\ Child(y, r(p), sd) = r(c) BY <1>4, <1>6, <3>1
    <3>4. SideIn(y, r(p), r(c)) = SideIn(x, p, c)
      <4>1. "left" \in Sides BY DEF Sides
      <4>2. r(c) = Child(y, r(p), "left") <=> c = Child(x, p, "left")
        BY <1>6, <1>7, <1>11, <3>1, <4>1
      <4> QED BY <4>2 DEF SideIn
    <3>5. Levels(y, k, U, G, r(p), sd) BY <1>12, <3>1
    <3> QED BY <1>15, <3>1, <3>2, <3>3, <3>4, <3>5
  <2>4. r(c) = Root(y, k) => Levels(y, k, U, G, NULL, "left") BY <1>14, <1>16, <2>2 DEF EvictInv
  <2>5. ASSUME NEW i \in U, i # r(c), Color(y, i) = RED, NEW s \in Sides
        PROVE  Child(y, i, s) = r(c) \/ Color(y, Child(y, i, s)) = BLACK
    <3>1. PICK j \in T : i = r(j) BY <1>4
    <3>2. j # c /\ Color(x, j) = RED BY <1>6, <2>5, <3>1
    <3>3. Child(x, j, s) = c \/ Color(x, Child(x, j, s)) = BLACK BY <1>16, <3>2 DEF EvictInv
    <3> QED BY <1>6, <1>7, <3>1, <3>3
  <2> QED BY <1>2, <2>1, <2>3, <2>4, <2>5 DEF EvictInv
<1>17. ASSUME RBTree(x, k, T, key, D, H) PROVE RBTree(y, k, U, key, E, G)
  <2>1. Levels(y, k, U, G, NULL, "left") BY <1>14, <1>17 DEF RBTree
  <2>2. ASSUME NEW i \in U, Color(y, i) = RED,
               NEW s \in Sides PROVE Color(y, Child(y, i, s)) = BLACK
    <3>1. PICK j \in T : i = r(j) BY <1>4
    <3>2. Color(x, j) = RED BY <1>6, <2>2, <3>1
    <3>3. Color(x, Child(x, j, s)) = BLACK BY <1>17, <3>2 DEF RBTree, RedRule
    <3> QED BY <1>6, <1>7, <3>1, <3>3
  <2> QED BY <1>2, <1>15, <1>17, <2>1, <2>2 DEF RBTree, RedRule
<1> QED
  <2>1. ASSUME color = BLACK PROVE \E sd : EvictInv(y, r(c), k, U, key, E, G, sd)
    <3>1. \E sd : EvictInv(x, c, k, T, key, D, H, sd) BY <2>1 DEF Removed
    <3>2. PICK sd : EvictInv(x, c, k, T, key, D, H, sd) BY <3>1
    <3>3. EvictInv(y, r(c), k, U, key, E, G, sd) BY <1>16, <3>2
    <3> QED BY <3>3
  <2>2. color = RED => RBTree(y, k, U, key, E, G) BY <1>17 DEF Removed
  <2>3. Removed(y, r(c), color, k, U, key, E, G) BY <2>1, <2>2 DEF Removed
  <2> QED BY <2>3 DEF r, U, E, G

(* What is below a node below d is below d. *)
LEMMA Nested ==
  ASSUME NEW t, NEW k \in Trees, NEW D, NEW key, Shape(t, k, D, key),
         NEW d \in Members(t, k, D), NEW n \in Sub(D, d)
  PROVE  Sub(D, n) \subseteq Sub(D, d)
<1> DEFINE T == Members(t, k, D)
           Size(j) == Cardinality(Sub(D, j))
           S == {i \in Nat : \A j \in T : Size(j) <= i =>
                  \A m \in Sub(D, j) : Sub(D, m) \subseteq Sub(D, j)}
<1>0. Nil[k] \in Nodes /\ Nil[k] \notin Slots /\ Slots \subseteq Nodes BY NilNodes DEF Nodes
<1>1. Root(t, k) \in Nodes /\ T \subseteq Slots
  <2>1. Root(t, k) \in Nodes BY Typed DEF Shape
  <2> QED BY <2>1 DEF Shape, Members
<1>2. \A j \in Nodes : Sub(D, j) \subseteq Slots BY DEF Shape
<1>3. IsFiniteSet(Slots) BY NodesAssumption
<1>4. \A j \in T : NodeOK(t, k, D, key, j) BY DEF Shape
<1>5. \A j \in T : Size(j) \in Nat /\ Size(j) >= 1
  <2>1. ASSUME NEW j \in T PROVE Size(j) \in Nat /\ Size(j) >= 1
    <3>1. j \in Sub(D, j) /\ Sub(D, j) \subseteq Slots BY <1>0, <1>1, <1>2, <1>4 DEF NodeOK
    <3>2. {} \subseteq Sub(D, j) /\ j \notin {} OBVIOUS
    <3>3. Cardinality({}) \in Nat /\ Size(j) \in Nat /\ Size(j) >= Cardinality({}) + 1
      BY <1>3, <3>1, <3>2, Grows
    <3> QED BY <3>3
  <2> QED BY <2>1
<1> HIDE DEF Size
<1>6. 0 \in S BY <1>5
<1>7. ASSUME NEW i \in Nat, i \in S PROVE i + 1 \in S
  <2>1. ASSUME NEW j \in T, Size(j) <= i + 1,
               NEW m \in Sub(D, j) PROVE Sub(D, m) \subseteq Sub(D, j)
    <3>1. CASE m = j BY <3>1
    <3>2. CASE m # j
      <4>1. PICK s \in Sides : m \in Sub(D, Child(t, j, s)) BY <1>4, <3>2 DEF NodeOK
      <4> DEFINE c == Child(t, j, s)
      <4>2. Sub(D, c) \subseteq Sub(D, j) /\ m \in Sub(D, c) BY <1>4, <4>1 DEF NodeOK
      <4>3. c # Nil[k] BY <4>1 DEF Shape
      <4>4. c \in T
        <5>1. Kin(t, k, D, key, j) BY Family
        <5> QED BY <4>3, <5>1 DEF Kin
      <4>5. j \in Sub(D, j) /\ j \notin Sub(D, c)
        <5>1. key \in [Slots -> Int] /\ j \in Slots BY <1>1 DEF Shape
        <5>2. ~Beyond(key, s, j, j) BY <5>1, BeyondFacts
        <5> QED BY <1>4, <5>2 DEF NodeOK
      <4> HIDE DEF c
      <4>6. Sub(D, j) \subseteq Slots BY <1>0, <1>1, <1>2
      <4>7. Cardinality(Sub(D, j)) >= Cardinality(Sub(D, c)) + 1
        BY <1>3, <4>2, <4>5, <4>6, Grows
      <4>8. Size(c) <= i
        <5>1. Size(j) >= Size(c) + 1 BY <4>7 DEF Size
        <5> QED BY <1>5, <2>1, <4>4, <5>1
      <4>9. Sub(D, m) \subseteq Sub(D, c) BY <1>7, <4>2, <4>4, <4>8
      <4> QED BY <4>2, <4>9
    <3> QED BY <3>1, <3>2
  <2> QED BY <1>7, <2>1
<1>8. Nat \subseteq S
  <2> HIDE DEF S
  <2> QED BY <1>6, <1>7, SetInduction
<1> QED BY <1>5, <1>8

(* The setters keep to their tree when they are applied to its nodes or to its *)
(* nil.  (The nil of a tree is written: its parent is what the loop of         *)
(* EvictFixup starts from.)                                                    *)
LEMMA FrameSet ==
  ASSUME NEW t \in TreeType, NEW k \in Trees, NEW T, T \subseteq Slots,
         NEW n \in T \cup {Nil[k]}
  PROVE  /\ \A m \in Nodes \cup {NULL} : /\ ParentSet(SetParent(t, n, m), t, n, m)
                                         /\ Frame(SetParent(t, n, m), t, k, T)
         /\ \A m \in Nodes, s \in Sides :
              /\ ChildSet(SetChild(t, n, s, m), t, n, s, m)
              /\ n \in T => Frame(SetChild(t, n, s, m), t, k, T)
         /\ \A c \in {RED, BLACK} : /\ Painted(Paint(t, n, c), t, n, c)
                                    /\ Frame(Paint(t, n, c), t, k, T)
<1>0. Nil[k] \in Nodes /\ Slots \subseteq Nodes BY NilNodes DEF Nodes
<1>1. n \in Nodes BY <1>0
<1>2. ASSUME NEW m \in Nodes \cup {NULL}
      PROVE  ParentSet(SetParent(t, n, m), t, n, m) /\ Frame(SetParent(t, n, m), t, k, T)
  <2>1. ParentSet(SetParent(t, n, m), t, n, m) BY <1>1, SetParentIs
  <2> QED BY <2>1 DEF Frame, ParentSet, SameRoots, SameChildren, SameColors
<1>3. ASSUME NEW m \in Nodes, NEW s \in Sides
      PROVE  /\ ChildSet(SetChild(t, n, s, m), t, n, s, m)
             /\ n \in T => Frame(SetChild(t, n, s, m), t, k, T)
  <2>1. ChildSet(SetChild(t, n, s, m), t, n, s, m) BY <1>1, SetChildIs
  <2> QED BY <2>1 DEF Frame, ChildSet, SameRoots, SameParents, SameColors
<1>4. ASSUME NEW c \in {RED, BLACK}
      PROVE  Painted(Paint(t, n, c), t, n, c) /\ Frame(Paint(t, n, c), t, k, T)
  <2>1. Painted(Paint(t, n, c), t, n, c) BY <1>1, PaintIs
  <2> QED BY <2>1 DEF Frame, Painted, SameRoots, SameChildren, SameParents
<1> QED BY <1>2, <1>3, <1>4

(* So does Transplant. *)
LEMMA FrameTransplant ==
  ASSUME NEW t \in TreeType, NEW k \in Trees, NEW T, T \subseteq Slots,
         NEW u \in T, NEW v \in T \cup {Nil[k]}, Parent(t, u) \in T \cup {Nil[k]}
  PROVE  /\ Transplanted(Transplant(t, k, u, v), t, k, u, v, Parent(t, u))
         /\ Frame(Transplant(t, k, u, v), t, k, T)
<1>0. Nil[k] \in Nodes /\ Slots \subseteq Nodes BY NilNodes DEF Nodes
<1>1. u \in Nodes /\ v \in Nodes /\ Parent(t, u) \in Nodes BY <1>0
<1>2. Transplanted(Transplant(t, k, u, v), t, k, u, v, Parent(t, u)) BY <1>1, TransplantIs
<1>3. Frame(Transplant(t, k, u, v), t, k, T) BY <1>2 DEF Frame, Transplanted, SameColors
<1> QED BY <1>2, <1>3

(* The tree r in which the successor of n, with fixup in its place, is made the parent of what *)
(* is right of n.                                                                              *)
Detached(r, t, x, k, T, n, next, right, fixup) ==
  /\ r \in TreeType
  /\ SameColors(r, t)
  /\ Root(r, k) = Root(t, k)
  /\ \A j \in T : j # next => \A s \in Sides : j # n => Child(r, j, s) = Child(x, j, s)
  /\ Child(r, next, "right") = IF next = right THEN fixup ELSE right
  /\ \A j \in Nodes : j # right /\ j # fixup /\ j # next => Parent(r, j) = Parent(x, j)
  /\ fixup # next /\ Parent(r, fixup) = Ren(Parent(x, fixup), n, next)
  /\ right # next => Parent(r, right) = next
  /\ Frame(r, t, k, T)

(* Unlink leaves that tree, whether the successor is the right child of n or *)
(* further down.                                                             *)
LEMMA DetachedIs ==
  ASSUME NEW t, NEW k \in Trees, NEW T, NEW key, NEW D,
         Shape(t, k, D, key), T = Members(t, k, D),
         NEW n \in T, NEW right \in T, right = Child(t, n, "right"),
         NEW next \in T, next # n, next # Root(t, k), Child(t, n, "left") # next,
         NEW fixup, fixup = Child(t, next, "right"), fixup # n,
         NEW x, x = Transplant(t, k, next, fixup), Spliced(x, t, k, T, next, fixup),
         Frame(x, t, k, T)
  PROVE  LET r == IF next = right THEN SetParent(t, fixup, next)
                  ELSE SetParent(SetChild(x, next, "right", right), right, next)
         IN  Detached(r, t, x, k, T, n, next, right, fixup)
<1> DEFINE z == Nil[k]
           r == IF next = right THEN SetParent(t, fixup, next)
                ELSE SetParent(SetChild(x, next, "right", right), right, next)
<1>0. z \in Nodes /\ z \notin Slots /\ Slots \subseteq Nodes BY NilNodes DEF Nodes
<1>1. T \subseteq Slots
  <2>1. Root(t, k) \in Nodes BY Typed DEF Shape
  <2> QED BY <2>1 DEF Shape, Members
<1>2. Kin(t, k, D, key, n) /\ Kin(t, k, D, key, next) BY Family
<1>3. fixup \in T \cup {z} /\ fixup # next /\ "right" \in Sides BY <1>2 DEF Kin, Sides
<1>4. /\ Root(x, k) = Root(t, k)
      /\ \A m \in T : m # next => \A s \in Sides :
           Child(x, m, s) = IF Child(t, m, s) = next THEN fixup ELSE Child(t, m, s)
      /\ \A s \in Sides : Child(x, next, s) = Child(t, next, s)
      /\ \A m \in Nodes : Parent(x, m) = IF m = fixup THEN Parent(t, next) ELSE Parent(t, m)
      /\ SameColors(x, t) /\ x \in TreeType
  BY DEF Spliced
<1>5. Parent(t, right) = n /\ right # z BY <1>0, <1>1, <1>2, <1>3 DEF Kin
<1>6. n \in Nodes /\ next \in Nodes /\ right \in Nodes /\ fixup \in Nodes BY <1>0, <1>1, <1>3
<1>7. t \in TreeType BY DEF Shape
<1>8. CASE next = right
  <2>1. r = SetParent(t, fixup, next) BY <1>8
  <2> HIDE DEF r
  <2>2. ParentSet(r, t, fixup, next) /\ Frame(r, t, k, T)
    BY <1>1, <1>3, <1>6, <1>7, <2>1, FrameSet
  <2>3. \A j \in T : j # n => \A s \in Sides : Child(t, j, s) # next
    <3>1. \A j \in T : Kin(t, k, D, key, j) BY Family
    <3> QED BY <1>0, <1>1, <1>5, <1>8, <3>1 DEF Kin
  <2>4. \A j \in T : j # next => \A s \in Sides : j # n => Child(r, j, s) = Child(x, j, s)
    BY <1>0, <1>1, <1>4, <2>2, <2>3 DEF ParentSet, SameChildren
  <2>5. Child(r, next, "right") = fixup BY <1>3, <1>6, <2>2 DEF ParentSet, SameChildren
  <2>6. \A j \in Nodes : Parent(r, j) = IF j = fixup THEN next ELSE Parent(t, j)
    BY <2>2 DEF ParentSet
  <2>7. Ren(Parent(x, fixup), n, next) = next BY <1>4, <1>5, <1>6, <1>8 DEF Ren
  <2>8. Root(r, k) = Root(t, k) /\ SameColors(r, t) /\ r \in TreeType
    BY <2>2 DEF ParentSet, SameRoots
  <2> QED BY <1>3, <1>4, <1>6, <1>8, <2>2, <2>4, <2>5, <2>6, <2>7, <2>8 DEF Detached, r
<1>9. CASE next # right
  <2> DEFINE q == SetChild(x, next, "right", right)
  <2>1. r = SetParent(q, right, next) BY <1>9
  <2>2. ChildSet(q, x, next, "right", right) /\ Frame(q, x, k, T)
    BY <1>1, <1>3, <1>4, <1>6, FrameSet
  <2> HIDE DEF q, r
  <2>3. q \in TreeType BY <2>2 DEF ChildSet
  <2>4. ParentSet(r, q, right, next) /\ Frame(r, q, k, T)
    BY <1>1, <1>6, <2>1, <2>3, FrameSet
  <2>5. Frame(r, t, k, T) BY <2>2, <2>4, FrameStep
  <2>6. \A j \in T : j # next => \A s \in Sides : Child(r, j, s) = Child(x, j, s)
    BY <1>0, <1>1, <2>2, <2>4 DEF ChildSet, ParentSet, SameChildren
  <2>7. Child(r, next, "right") = right
    BY <1>3, <1>6, <2>2, <2>4 DEF ChildSet, ParentSet, SameChildren
  <2>8. \A j \in Nodes : Parent(r, j) = IF j = right THEN next ELSE Parent(x, j)
    BY <2>2, <2>4 DEF ChildSet, ParentSet, SameParents
  <2>9. Root(r, k) = Root(t, k) /\ SameColors(r, t) /\ r \in TreeType
    BY <1>4, <2>2, <2>4 DEF ChildSet, ParentSet, SameRoots, SameColors
  <2>10. fixup # right
    <3>1. fixup # z => Parent(t, fixup) = next BY <1>2, <1>3 DEF Kin
    <3> QED BY <1>5, <3>1
  <2>11. Parent(r, fixup) = Ren(Parent(x, fixup), n, next)
    <3>1. Parent(r, fixup) = Parent(t, next) BY <1>4, <1>6, <2>8, <2>10
    <3>2. Parent(t, next) # n
      <4> SUFFICES ASSUME Parent(t, next) = n PROVE FALSE OBVIOUS
      <4>1. \E s \in Sides : Child(t, n, s) = next BY <1>0, <1>1, <1>2 DEF Kin
      <4> QED BY <1>9, <4>1 DEF Sides
    <3> QED BY <1>4, <1>6, <3>1, <3>2 DEF Ren
  <2> QED BY <1>3, <1>6, <1>9, <2>5, <2>6, <2>7, <2>8, <2>9, <2>10, <2>11 DEF Detached, r
<1> QED BY <1>8, <1>9 DEF r

(* The rest of Unlink puts the successor in the place of n and gives it the *)
(* colour of n.                                                             *)
LEMMA ReplacedIs ==
  ASSUME NEW t, NEW k \in Trees, NEW T, NEW key, NEW D,
         Shape(t, k, D, key), T = Members(t, k, D),
         NEW n \in T, NEW left \in T, left = Child(t, n, "left"),
         NEW right \in T, right = Child(t, n, "right"),
         NEW next \in T, next # n, next # Root(t, k), left # next,
         NEW fixup, fixup = Child(t, next, "right"), fixup # n,
         NEW x, Spliced(x, t, k, T, next, fixup),
         NEW E, Shape(x, k, E, key), Members(x, k, E) = T \ {next},
         NEW r, Detached(r, t, x, k, T, n, next, right, fixup)
  PROVE  LET s == SetParent(SetChild(Transplant(r, k, n, next), next, "left", left), left, next)
             y == Paint(s, next, Color(t, n))
         IN  Relabeled(y, x, k, T \ {next}, n, next, fixup) /\ Frame(y, t, k, T)
<1> DEFINE z == Nil[k]
           p == Parent(x, n)
           v == Transplant(r, k, n, next)
           w == SetChild(v, next, "left", left)
           s == SetParent(w, left, next)
           y == Paint(s, next, Color(t, n))
           U == T \ {next}
<1>0. z \in Nodes /\ z \notin Slots /\ Slots \subseteq Nodes BY NilNodes DEF Nodes
<1>1. T \subseteq Slots /\ t \in TreeType
  <2>1. Root(t, k) \in Nodes BY Typed DEF Shape
  <2> QED BY <2>1 DEF Shape, Members
<1>2. Kin(t, k, D, key, n) /\ Kin(t, k, D, key, next) BY Family
<1>3. \A j \in U : Kin(x, k, E, key, j) BY Family
<1>4. n \in U /\ left \in U BY <1>2
<1>5. /\ fixup \in U \cup {z} /\ "left" \in Sides /\ "right" \in Sides /\ Sides = {"left", "right"}
  BY <1>2 DEF Kin, Sides
<1>6. n \in Nodes /\ next \in Nodes /\ right \in Nodes /\ left \in Nodes /\ fixup \in Nodes
  BY <1>0, <1>1, <1>5
<1>7. /\ Root(x, k) = Root(t, k)
      /\ \A m \in U : \A e \in Sides :
           Child(x, m, e) = IF Child(t, m, e) = next THEN fixup ELSE Child(t, m, e)
      /\ \A m \in Nodes : Parent(x, m) = IF m = fixup THEN Parent(t, next) ELSE Parent(t, m)
      /\ SameColors(x, t)
  BY DEF Spliced
<1>8. p \in U \cup {z} /\ p # n /\ (p = z <=> n = Root(x, k)) /\ p \in Nodes
  BY <1>3, <1>4 DEF Kin
<1>9. /\ r \in TreeType
      /\ SameColors(r, t)
      /\ Root(r, k) = Root(t, k)
      /\ \A j \in U : \A e \in Sides : j # n => Child(r, j, e) = Child(x, j, e)
      /\ Child(r, next, "right") = IF next = right THEN fixup ELSE right
      /\ \A j \in Nodes : j # right /\ j # fixup /\ j # next => Parent(r, j) = Parent(x, j)
      /\ fixup # next /\ Parent(r, fixup) = Ren(Parent(x, fixup), n, next)
      /\ right # next => Parent(r, right) = next
      /\ Frame(r, t, k, T)
  BY DEF Detached
<1>10. n # right /\ Parent(r, n) = p BY <1>2, <1>5, <1>6, <1>9 DEF Kin
<1> HIDE DEF p
<1>11. Transplanted(v, r, k, n, next, p) /\ Frame(v, r, k, T)
  <2>1. Parent(r, n) \in T \cup {z} BY <1>8, <1>10
  <2> QED BY <1>1, <1>9, <1>10, <2>1, FrameTransplant
<1> HIDE DEF v
<1>12. ChildSet(w, v, next, "left", left) /\ Frame(w, v, k, T)
  BY <1>1, <1>5, <1>6, <1>11, FrameSet DEF Transplanted
<1> HIDE DEF w
<1>13. ParentSet(s, w, left, next) /\ Frame(s, w, k, T)
  BY <1>1, <1>6, <1>12, FrameSet DEF ChildSet
<1> HIDE DEF s
<1>14. Painted(y, s, next, Color(t, n)) /\ Frame(y, s, k, T)
  <2>1. Color(t, n) \in {RED, BLACK} BY <1>1, <1>6, Typed
  <2>2. s \in TreeType /\ next \in T \cup {Nil[k]} BY <1>13 DEF ParentSet
  <2> QED BY <1>1, <2>1, <2>2, FrameSet
<1> HIDE DEF y
<1>15. Frame(y, t, k, T)
  <2>1. Frame(v, t, k, T) BY <1>9, <1>11, FrameStep
  <2>2. Frame(w, t, k, T) BY <2>1, <1>12, FrameStep
  <2>3. Frame(s, t, k, T) BY <2>2, <1>13, FrameStep
  <2> QED BY <2>3, <1>14, FrameStep
<1>16. Root(y, k) = IF p = z THEN next ELSE Root(t, k)
  BY <1>9, <1>11, <1>12, <1>13, <1>14 DEF Painted, ParentSet, ChildSet, Transplanted, SameRoots
<1>17. \A m \in Nodes : \A e \in Sides : Child(y, m, e) =
          IF m = next /\ e = "left" THEN left
          ELSE IF p # z /\ m = p /\ e = SideIn(r, p, n) THEN next ELSE Child(r, m, e)
  BY <1>11, <1>12, <1>13, <1>14 DEF Painted, ParentSet, ChildSet, Transplanted, SameChildren
<1>18. \A m \in Nodes : Parent(y, m) = IF m = left THEN next ELSE IF m = next THEN p
         ELSE Parent(r, m)
  BY <1>11, <1>12, <1>13, <1>14 DEF Painted, ParentSet, ChildSet, Transplanted, SameParents
<1>19. \A m \in Nodes : Color(y, m) = IF m = next THEN Color(t, n) ELSE Color(t, m)
  BY <1>9, <1>11, <1>12, <1>13, <1>14 DEF Painted, ParentSet, ChildSet, Transplanted, SameColors
<1>20. y \in TreeType BY <1>14 DEF Painted
<1>21. Root(y, k) = Ren(Root(x, k), n, next) BY <1>7, <1>8, <1>16 DEF Ren
<1>22. ASSUME NEW j \in U, NEW e \in Sides
       PROVE  Child(y, Ren(j, n, next), e) = Ren(Child(x, j, e), n, next)
  <2>1. CASE j = n
    <3>1. Ren(j, n, next) = next BY <2>1 DEF Ren
    <3>2. p # next BY <1>0, <1>1, <1>8
    <3>3. Child(x, n, "left") = left /\ Child(x, n, "right") = IF right = next THEN fixup ELSE right
      BY <1>4, <1>5, <1>7
    <3>4. left # n /\ right # n BY <1>2, <1>5 DEF Kin
    <3>5. CASE e = "left"
      <4>1. Child(y, next, "left") = left BY <1>5, <1>6, <1>17
      <4> QED BY <2>1, <3>1, <3>3, <3>4, <3>5, <4>1 DEF Ren
    <3>6. CASE e = "right"
      <4>1. Child(y, next, "right") = Child(r, next, "right") BY <1>5, <1>6, <1>17, <3>2
      <4> QED BY <1>9, <2>1, <3>1, <3>3, <3>4, <3>6, <4>1 DEF Ren
    <3> QED BY <1>5, <3>5, <3>6
  <2>2. CASE j # n
    <3>1. Ren(j, n, next) = j /\ j \in Nodes BY <1>0, <1>1, <2>2 DEF Ren
    <3>2. Child(y, j, e) = IF p # z /\ j = p /\ e = SideIn(r, p, n) THEN next ELSE Child(x, j, e)
      BY <1>9, <1>17, <2>2, <3>1
    <3>3. Child(x, j, e) = n <=> p # z /\ j = p /\ e = SideIn(x, p, n)
      <4>1. Kin(x, k, E, key, j) /\ Kin(x, k, E, key, n) BY <1>3, <1>4
      <4>2. Child(x, j, e) = n => j = p BY <1>0, <1>1, <1>4, <4>1 DEF Kin, p
      <4>3. Child(x, p, e) = n /\ j = p => e = SideIn(x, p, n)
        <5>1. \A f \in Sides : Child(x, j, f) # z => Child(x, j, Other(f)) # Child(x, j, f)
          BY <4>1 DEF Kin
        <5>2. n # z BY <4>1 DEF Kin
        <5> QED BY <1>5, <5>1, <5>2 DEF SideIn, Other
      <4>4. p # z => Child(x, p, SideIn(x, p, n)) = n BY <1>5, <4>1 DEF Kin, SideIn, p
      <4>5. j # z BY <4>1 DEF Kin
      <4> QED BY <4>2, <4>3, <4>4, <4>5
    <3>4. p # z => SideIn(r, p, n) = SideIn(x, p, n) BY <1>5, <1>8, <1>9 DEF SideIn
    <3> QED BY <3>1, <3>2, <3>3, <3>4 DEF Ren
  <2> QED BY <2>1, <2>2
<1>23. Parent(t, left) = n /\ left # fixup
  <2>1. left # z /\ next # z BY <1>0, <1>1
  <2>2. Parent(t, left) = n BY <1>2, <1>5, <2>1 DEF Kin
  <2>3. fixup # z => Parent(t, fixup) = next BY <1>2, <1>5 DEF Kin
  <2> QED BY <2>1, <2>2, <2>3
<1>24. ASSUME NEW j \in U \cup {fixup}
       PROVE  Parent(y, Ren(j, n, next)) = Ren(Parent(x, j), n, next)
  <2>1. CASE j = n
    <3>1. Ren(j, n, next) = next /\ Parent(x, j) = p /\ Ren(p, n, next) = p
      BY <1>8, <2>1 DEF Ren, p
    <3> QED BY <1>6, <1>18, <3>1
  <2>2. CASE j # n
    <3>1. Ren(j, n, next) = j /\ j # next /\ j \in Nodes
      BY <1>0, <1>1, <1>5, <1>6, <1>9, <2>2 DEF Ren
    <3>2. Parent(y, j) = IF j = left THEN next ELSE Parent(r, j) BY <1>18, <3>1
    <3>3. CASE j = left
      <4>1. Parent(x, j) = n BY <1>7, <1>6, <1>23, <3>3
      <4> QED BY <3>1, <3>2, <3>3, <4>1 DEF Ren
    <3>4. CASE j = fixup BY <1>9, <1>23, <3>1, <3>2, <3>4
    <3>5. CASE j = right /\ j # fixup
      <4>1. Parent(x, j) = n
        <5>1. right # z BY <1>0, <1>1
        <5>2. Parent(t, right) = n BY <1>2, <1>5, <5>1 DEF Kin
        <5> QED BY <1>6, <1>7, <3>5, <5>2
      <4>2. j # left BY <1>2, <1>5, <3>5, <1>0, <1>1 DEF Kin, Other
      <4> QED BY <1>9, <3>1, <3>2, <3>5, <4>1, <4>2 DEF Ren
    <3>6. CASE j # left /\ j # fixup /\ j # right
      <4>1. Parent(y, j) = Parent(x, j) BY <1>9, <3>1, <3>2, <3>6
      <4>2. Parent(x, j) # n
        <5> SUFFICES ASSUME Parent(x, j) = n PROVE FALSE OBVIOUS
        <5>1. j \in U BY <3>6
        <5>2. Parent(t, j) = n BY <1>7, <3>1, <3>6
        <5>3. Kin(t, k, D, key, j) BY <5>1, Family
        <5>4. \E e \in Sides : Child(t, n, e) = j BY <1>0, <1>1, <5>2, <5>3 DEF Kin
        <5> QED BY <1>5, <3>6, <5>4
      <4> QED BY <3>1, <4>1, <4>2 DEF Ren
    <3> QED BY <3>3, <3>4, <3>5, <3>6
  <2> QED BY <2>1, <2>2
<1>25. ASSUME NEW j \in U \cup {z} PROVE Color(y, Ren(j, n, next)) = Color(x, j)
  BY <1>0, <1>1, <1>6, <1>7, <1>19 DEF Ren, SameColors
<1>26. Relabeled(y, x, k, U, n, next, fixup)
  BY <1>20, <1>21, <1>22, <1>24, <1>25 DEF Relabeled
<1> QED BY <1>15, <1>26 DEF y, s, w, v

-----------------------------------------------------------------------------
(* TLBTreeEvict: both kinds of removal, and the loop on what they leave. *)

(* Unlinking a node with at most one child. *)
LEMMA UnlinkOne ==
  ASSUME NEW t, NEW k \in Trees, NEW T, NEW key, NEW D, NEW H,
         RBTree(t, k, T, key, D, H),
         NEW n \in T, NEW side \in Sides, Child(t, n, side) = Nil[k],
         NEW c, c = Child(t, n, Other(side))
  PROVE  /\ \E E, G : Removed(Transplant(t, k, n, c), c, Color(t, n), k, T \ {n}, key, E, G)
         /\ Frame(Transplant(t, k, n, c), t, k, T)
<1> DEFINE x == Transplant(t, k, n, c)
<1>1. Shape(t, k, D, key) /\ T = Members(t, k, D) BY DEF RBTree
<1>2. c \in T \cup {Nil[k]} /\ c # n
  <2>1. Kin(t, k, D, key, n) BY <1>1, Family
  <2>2. Other(side) \in Sides BY Others
  <2> QED BY <1>1, <2>1, <2>2 DEF Kin
<1>3. Spliced(x, t, k, T, n, c) /\ Frame(x, t, k, T) BY <1>1, <1>2, Splice
<1> HIDE DEF x
<1>4. Removed(x, c, Color(t, n), k, T \ {n}, key, Without(D, n), H) BY <1>3, RemoveOne
<1> QED BY <1>3, <1>4 DEF x

(* Unlinking a node with two children: the node that takes its place is the *)
(* successor, and the colour that goes missing is that of the successor.    *)
LEMMA UnlinkTwo ==
  ASSUME NEW t, NEW k \in Trees, NEW T, NEW key, NEW D, NEW H,
         RBTree(t, k, T, key, D, H),
         NEW n \in T, NEW left, left = Child(t, n, "left"), left # Nil[k],
         NEW right, right = Child(t, n, "right"), right # Nil[k],
         NEW next, next = Leftmost(t, k, right),
         NEW fixup, fixup = Child(t, next, "right")
  PROVE  LET r == IF next = right THEN SetParent(t, fixup, next)
                  ELSE SetParent(SetChild(Transplant(t, k, next, fixup), next, "right",
                    right), right, next)
             s == SetParent(SetChild(Transplant(r, k, n, next), next, "left", left), left, next)
             y == Paint(s, next, Color(t, n))
         IN  /\ \E E, G : Removed(y, fixup, Color(t, next), k, T \ {n}, key, E, G)
             /\ Frame(y, t, k, T)
             /\ next \in T
<1> DEFINE x == Transplant(t, k, next, fixup)
           z == Nil[k]
           E == Without(D, next)
           U == T \ {next}
<1>0. z \in Nodes /\ z \notin Slots /\ Slots \subseteq Nodes BY NilNodes DEF Nodes
<1>1. Shape(t, k, D, key) /\ T = Members(t, k, D) BY DEF RBTree
<1>2. T \subseteq Slots /\ t \in TreeType /\ key \in [Slots -> Int]
  <2>1. Root(t, k) \in Nodes BY <1>1, Typed DEF Shape
  <2> QED BY <1>1, <2>1 DEF Shape, Members
<1>3. "left" \in Sides /\ "right" \in Sides /\ Other("left") = "right" /\ Other("right") = "left"
  BY DEF Sides, Other
<1>4. Kin(t, k, D, key, n) /\ NodeOK(t, k, D, key, n) BY <1>1, Family DEF Shape
<1>5. left \in T /\ right \in T /\ left # right
  BY <1>1, <1>3, <1>4 DEF Kin
<1>6. First(t, k, D, key, right, next) BY <1>1, <1>5, LeftmostIs
<1>7. /\ next \in Sub(D, right) /\ Sub(D, next) \subseteq Sub(D, right)
      /\ Child(t, next, "left") = z
      /\ \A j \in Sub(D, right) : j = next \/ Beyond(key, "right", j, next)
  BY <1>6 DEF First
<1>8. /\ Sub(D, right) \subseteq Sub(D, n) /\ Sub(D, n) \subseteq T
      /\ \A j \in Sub(D, right) : Beyond(key, "right", j, n)
      /\ \A j \in Sub(D, left) : Beyond(key, "left", j, n)
  BY <1>1, <1>3, <1>4 DEF NodeOK
<1>9. ~Beyond(key, "right", n, n) /\ n \in Slots BY <1>2, <1>3, BeyondFacts
<1>10. next \in T /\ next # n /\ n \notin Sub(D, next) /\ next \in Slots
  BY <1>2, <1>7, <1>8, <1>9
<1>11. next # Root(t, k)
  BY <1>1, <1>10 DEF Members
<1>12. Kin(t, k, D, key, next) /\ NodeOK(t, k, D, key, next) BY <1>1, <1>10, Family DEF Shape
<1>13. /\ fixup \in U \cup {z} /\ fixup # next /\ fixup # n
       /\ Sub(D, fixup) \subseteq Sub(D, next) /\ (fixup # z => fixup \in Sub(D, next))
  <2>1. /\ fixup \in U \cup {z} /\ fixup # next
        /\ Sub(D, fixup) \subseteq Sub(D, next) /\ (fixup # z => fixup \in Sub(D, next))
    BY <1>1, <1>3, <1>12 DEF Kin, NodeOK
  <2>2. n # z BY <1>4 DEF Kin
  <2> QED BY <1>10, <2>1, <2>2
<1>14. left # next
  <2>1. left \in Sub(D, left)
    <3>1. NodeOK(t, k, D, key, left) BY <1>1, <1>5 DEF Shape
    <3> QED BY <3>1 DEF NodeOK
  <2>2. Beyond(key, "left", left, n) /\ Beyond(key, "right", next, n) BY <1>7, <1>8, <2>1
  <2> QED BY <1>2, <1>9, <1>10, <2>2 DEF Beyond
<1>15. Spliced(x, t, k, T, next, fixup) /\ Frame(x, t, k, T) BY <1>1, <1>10, <1>13, Splice
<1> DEFINE r == IF next = right THEN SetParent(t, fixup, next)
                ELSE SetParent(SetChild(x, next, "right", right), right, next)
           s == SetParent(SetChild(Transplant(r, k, n, next), next, "left", left), left, next)
           y == Paint(s, next, Color(t, n))
<1>16. x = Transplant(t, k, next, fixup) OBVIOUS
<1> HIDE DEF x
<1>17. Detached(r, t, x, k, T, n, next, right, fixup)
  BY <1>1, <1>5, <1>10, <1>11, <1>13, <1>14, <1>15, <1>16, DetachedIs
<1>18. /\ Removed(x, fixup, Color(t, next), k, U, key, E, H)
       /\ Shape(x, k, E, key)
       /\ Members(x, k, E) = U
  <2>1. fixup = Child(t, next, Other("left")) BY <1>3
  <2>2. Child(t, next, "left") = Nil[k] BY <1>7
  <2>3. RBTree(t, k, T, key, D, H) /\ next \in T /\ "left" \in Sides
          /\ Spliced(x, t, k, T, next, fixup)
    BY <1>3, <1>10, <1>15
  <2> HIDE DEF E
  <2>4. /\ Removed(x, fixup, Color(t, next), k, T \ {next}, key, Without(D, next), H)
        /\ Shape(x, k, Without(D, next), key)
        /\ Members(x, k, Without(D, next)) = T \ {next}
    BY <2>1, <2>2, <2>3, RemoveOne
  <2> QED BY <2>4 DEF E
<1> HIDE DEF r, E
<1>19. Relabeled(y, x, k, U, n, next, fixup) /\ Frame(y, t, k, T)
  BY <1>1, <1>5, <1>10, <1>11, <1>13, <1>14, <1>15, <1>17, <1>18, ReplacedIs
<1> HIDE DEF y
<1>20. \A m \in Nodes : Sub(E, m) = Sub(D, m) \ {next} BY DEF E, Without, Sub
<1>21. \A m \in U : \A e \in Sides :
          Child(x, m, e) = IF Child(t, m, e) = next THEN fixup ELSE Child(t, m, e)
  BY <1>15 DEF Spliced
<1>22. Fits(x, k, E, key, n, next)
  <2>1. ASSUME NEW e \in Sides, NEW j \in Sub(E, Child(x, n, e)) PROVE Beyond(key, e, j, next)
    <3>1. CASE e = "left"
      <4>1. Child(x, n, e) = left BY <1>3, <1>10, <1>14, <1>21, <3>1
      <4>2. j \in Sub(D, left) BY <1>0, <1>2, <1>5, <1>20, <2>1, <4>1
      <4>3. Beyond(key, "left", j, n) /\ Beyond(key, "right", next, n) BY <1>7, <1>8, <4>2
      <4>4. j \in Slots BY <1>0, <1>1, <1>2, <1>5, <4>2 DEF Shape
      <4> QED BY <1>2, <1>9, <1>10, <3>1, <4>3, <4>4 DEF Beyond
    <3>2. CASE e = "right"
      <4>1. Child(x, n, e) = IF right = next THEN fixup ELSE right BY <1>3, <1>10, <1>21, <3>2
      <4>2. Child(x, n, e) \in Nodes BY <1>0, <1>2, <1>5, <1>13, <4>1
      <4>3. j \in Sub(D, right) /\ j # next BY <1>7, <1>13, <1>20, <2>1, <4>1, <4>2
      <4> QED BY <1>7, <3>2, <4>3
    <3> QED BY <3>1, <3>2 DEF Sides
  <2>2. ASSUME NEW i \in U, NEW e \in Sides,
               n \in Sub(E, Child(x, i, e)) PROVE Beyond(key, e, next, i)
    <3> DEFINE d == Child(t, i, e)
    <3>1. Kin(t, k, D, key, i) /\ NodeOK(t, k, D, key, i) BY <1>1, Family DEF Shape
    <3>2. d \in Nodes BY <3>1 DEF Kin
    <3>3. CASE d = next
      <4>1. Child(x, i, e) = fixup BY <1>21, <3>3
      <4>2. fixup \in Nodes BY <1>0, <1>2, <1>13
      <4>3. n \in Sub(D, fixup) BY <1>20, <2>2, <4>1, <4>2
      <4> QED BY <1>10, <1>13, <4>3
    <3>4. CASE d # next
      <4>1. Child(x, i, e) = d BY <1>21, <3>4
      <4>2. n \in Sub(D, d) BY <1>20, <2>2, <3>2, <4>1
      <4>3. d # z BY <1>1, <4>2 DEF Shape
      <4>4. d \in T BY <1>1, <3>1, <4>3 DEF Kin
      <4>5. Sub(D, n) \subseteq Sub(D, d) BY <1>1, <4>2, <4>4, Nested
      <4>6. next \in Sub(D, d) BY <1>7, <1>8, <4>5
      <4> QED BY <3>1, <4>6 DEF NodeOK
    <3> QED BY <3>3, <3>4
  <2> QED BY <1>18, <2>1, <2>2 DEF Fits
<1>23. /\ n \in U /\ next \in Slots \ U BY <1>10
<1>24. Removed(y, Ren(fixup, n, next), Color(t, next), k, RenAll(U, n, next), key,
               RenSub(E, n, next), RenHt(H, n, next))
  <2> HIDE DEF U
  <2> QED BY <1>13, <1>18, <1>19, <1>22, <1>23, RelabelRemoved
<1>25. Ren(fixup, n, next) = fixup BY <1>13 DEF Ren
<1>26. RenAll(U, n, next) = T \ {n}
  <2>1. RenAll(U, n, next) = (U \ {n}) \cup {next} BY <1>10 DEF RenAll, Ren
  <2> QED BY <1>10, <2>1
<1>27. \E F, G : Removed(y, fixup, Color(t, next), k, T \ {n}, key, F, G) BY <1>24, <1>25, <1>26
<1> QED BY <1>10, <1>19, <1>27 DEF y, r, x

(* Tree k with nodes T is the same in x and t. *)
SameOn(x, t, k, T) ==
  /\ x \in TreeType
  /\ Root(x, k) = Root(t, k)
  /\ \A m \in T : /\ \A s \in Sides : Child(x, m, s) = Child(t, m, s)
                  /\ Parent(x, m) = Parent(t, m)
                  /\ Color(x, m) = Color(t, m)
  /\ Color(x, Nil[k]) = Color(t, Nil[k])

(* The keys of the nodes T are the same. *)
SameKeys(l, key, T) == l \in [Slots -> Int] /\ \A m \in T : l[m] = key[m]

(* Then it is the same red-black tree. *)
LEMMA SameTree ==
  ASSUME NEW t, NEW k \in Trees, NEW T, NEW key, NEW D, NEW H,
         RBTree(t, k, T, key, D, H), NEW x, SameOn(x, t, k, T), NEW l, SameKeys(l, key, T)
  PROVE  RBTree(x, k, T, l, D, H)
<1> DEFINE z == Nil[k]
<1>0. z \in Nodes /\ z \notin Slots /\ Slots \subseteq Nodes BY NilNodes DEF Nodes
<1>1. Shape(t, k, D, key) /\ T = Members(t, k, D) BY DEF RBTree
<1>2. T \subseteq Slots /\ t \in TreeType /\ key \in [Slots -> Int]
  <2>1. Root(t, k) \in Nodes BY <1>1, Typed DEF Shape
  <2> QED BY <1>1, <2>1 DEF Shape, Members
<1>3. /\ x \in TreeType /\ Root(x, k) = Root(t, k)
      /\ \A m \in T : /\ \A s \in Sides : Child(x, m, s) = Child(t, m, s)
                      /\ Parent(x, m) = Parent(t, m)
                      /\ Color(x, m) = Color(t, m)
      /\ Color(x, z) = Color(t, z)
      /\ l \in [Slots -> Int] /\ \A m \in T : l[m] = key[m]
  BY DEF SameOn, SameKeys
<1>4. Members(x, k, D) = T BY <1>1, <1>3 DEF Members
<1>5. ASSUME NEW m \in T PROVE NodeOK(x, k, D, l, m)
  <2>1. NodeOK(t, k, D, key, m) /\ Kin(t, k, D, key, m) BY <1>1, Family DEF Shape
  <2>2. ASSUME NEW s \in Sides
        PROVE  /\ Child(x, m, s) = z \/ (Child(x, m, s) \in Sub(D, m)
                    /\ Parent(x, Child(x, m, s)) = m)
               /\ Sub(D, Child(x, m, s)) \subseteq Sub(D, m)
               /\ \A i \in Sub(D, Child(x, m, s)) : Beyond(l, s, i, m)
    <3> DEFINE c == Child(t, m, s)
    <3>1. /\ c = z \/ (c \in Sub(D, m) /\ Parent(t, c) = m)
          /\ Sub(D, c) \subseteq Sub(D, m)
          /\ \A i \in Sub(D, c) : Beyond(key, s, i, m)
          /\ Sub(D, m) \subseteq T
      BY <1>1, <2>1 DEF NodeOK
    <3>2. Child(x, m, s) = c BY <1>3
    <3> HIDE DEF c
    <3>3. c \in T => Parent(x, c) = Parent(t, c) BY <1>3
    <3>4. \A i \in Sub(D, c) : Beyond(l, s, i, m)
      <4>1. \A i \in Sub(D, c) : l[i] = key[i] /\ l[m] = key[m] BY <1>3, <3>1
      <4> QED BY <3>1, <4>1 DEF Beyond
    <3> QED BY <3>1, <3>2, <3>3, <3>4
  <2>3. /\ m \in Sub(D, m) /\ Sub(D, m) \subseteq T
        /\ \A i \in Sub(D, m) : i = m \/ \E s \in Sides : i \in Sub(D, Child(x, m, s))
    BY <1>1, <1>3, <2>1 DEF NodeOK
  <2> QED BY <1>4, <2>2, <2>3 DEF NodeOK
<1>6. Root(x, k) = z \/ (Root(x, k) \in T /\ Parent(x, Root(x, k)) = z)
  BY <1>1, <1>3 DEF Shape
<1>7. \A m \in T : m # Root(x, k) => /\ Parent(x, m) \in T
                                    /\ \E s \in Sides : Child(x, Parent(x, m), s) = m
  BY <1>1, <1>3 DEF Shape
<1>8. (\A n \in Nodes : Sub(D, n) \subseteq Slots) /\ Sub(D, z) = {} BY <1>1 DEF Shape
<1>9. Shape(x, k, D, l) BY <1>3, <1>4, <1>5, <1>6, <1>7, <1>8 DEF Shape
<1>10. \A m \in T : \A s \in Sides : Child(t, m, s) \in T \cup {z}
  <2>1. \A m \in T : Kin(t, k, D, key, m) BY <1>1, Family
  <2> QED BY <1>1, <2>1 DEF Kin
<1>11. Levels(x, k, T, H, NULL, "left")
  <2>1. \A m \in T : Weight(x, m) = Weight(t, m) BY <1>3 DEF Weight
  <2> QED BY <1>3, <2>1 DEF RBTree, Levels
<1>12. \A m \in T : RedRule(x, m) BY <1>3, <1>10 DEF RBTree, RedRule
<1>13. Color(x, Root(x, k)) = BLACK BY <1>1, <1>3 DEF RBTree, Shape
<1> QED BY <1>4, <1>9, <1>11, <1>12, <1>13 DEF RBTree

(* What keeps to some nodes of a tree keeps to more of them. *)
LEMMA FrameWider ==
  ASSUME NEW x, NEW t, NEW k, NEW T, NEW U, U \subseteq T, Frame(x, t, k, U)
  PROVE  Frame(x, t, k, T)
BY DEF Frame

(* Unlink takes a node out of its tree. *)
LEMMA UnlinkIs ==
  ASSUME NEW t, NEW k \in Trees, NEW T, NEW key, NEW D, NEW H,
         RBTree(t, k, T, key, D, H), NEW n \in T
  PROVE  LET u == Unlink(t, k, n)
         IN  /\ \E E, G : Removed(u.tree, u.fixup, u.color, k, T \ {n}, key, E, G)
             /\ Frame(u.tree, t, k, T)
             /\ u.color \in {RED, BLACK}
<1> DEFINE left == Child(t, n, "left")
           right == Child(t, n, "right")
           next == Leftmost(t, k, right)
           fixup == Child(t, next, "right")
           r == IF next = right THEN SetParent(t, fixup, next)
                ELSE SetParent(SetChild(Transplant(t, k, next, fixup), next, "right", right),
                  right, next)
           s == SetParent(SetChild(Transplant(r, k, n, next), next, "left", left), left, next)
           y == Paint(s, next, Color(t, n))
           u == Unlink(t, k, n)
<1>1. "left" \in Sides /\ "right" \in Sides /\ Other("left") = "right" /\ Other("right") = "left"
  BY DEF Sides, Other
<1>2. T \subseteq Nodes /\ t \in TreeType
  <2>1. Shape(t, k, D, key) /\ Members(t, k, D) = T BY DEF RBTree
  <2> QED BY <2>1, LevelsAre DEF Shape
<1>3. \A m \in T : Color(t, m) \in {RED, BLACK} BY <1>2, Typed
<1>4. u = IF left = Nil[k]
          THEN [tree |-> Transplant(t, k, n, right), fixup |-> right, color |-> Color(t, n)]
          ELSE IF right = Nil[k]
          THEN [tree |-> Transplant(t, k, n, left), fixup |-> left, color |-> Color(t, n)]
          ELSE [tree |-> y, fixup |-> fixup, color |-> Color(t, next)]
  BY DEF Unlink
<1> HIDE DEF u
<1>5. CASE left = Nil[k]
  <2>1. u.tree = Transplant(t, k, n, right) /\ u.fixup = right /\ u.color = Color(t, n)
    BY <1>4, <1>5
  <2>2. right = Child(t, n, Other("left")) BY <1>1
  <2>3. left = Nil[k] BY <1>5
  <2> HIDE DEF right
  <2>4. /\ \E E, G : Removed(Transplant(t, k, n, right), right, Color(t, n), k, T \ {n}, key, E, G)
        /\ Frame(Transplant(t, k, n, right), t, k, T)
    BY <1>1, <2>2, <2>3, UnlinkOne
  <2> QED BY <1>3, <2>1, <2>4 DEF u
<1>6. CASE left # Nil[k] /\ right = Nil[k]
  <2>1. u.tree = Transplant(t, k, n, left) /\ u.fixup = left /\ u.color = Color(t, n)
    BY <1>4, <1>6
  <2>2. left = Child(t, n, Other("right")) BY <1>1
  <2>3. right = Nil[k] BY <1>6
  <2> HIDE DEF left
  <2>4. /\ \E E, G : Removed(Transplant(t, k, n, left), left, Color(t, n), k, T \ {n}, key, E, G)
        /\ Frame(Transplant(t, k, n, left), t, k, T)
    BY <1>1, <2>2, <2>3, UnlinkOne
  <2> QED BY <1>3, <2>1, <2>4 DEF u
<1>7. CASE left # Nil[k] /\ right # Nil[k]
  <2>1. u = [tree |-> y, fixup |-> fixup, color |-> Color(t, next)] BY <1>4, <1>7
  <2>2. /\ \E E, G : Removed(y, fixup, Color(t, next), k, T \ {n}, key, E, G)
        /\ Frame(y, t, k, T)
        /\ next \in T
    BY <1>7, UnlinkTwo
  <2> HIDE DEF y, fixup, next
  <2>3. u.tree = y /\ u.fixup = fixup /\ u.color = Color(t, next) BY <2>1
  <2> QED BY <1>3, <2>2, <2>3 DEF u
<1> QED BY <1>5, <1>6, <1>7

(* Free marks a slot as not in use and touches nothing else. *)
LEMMA FreeIs ==
  ASSUME NEW t \in TreeType, NEW k \in Trees, NEW T, T \subseteq Slots, NEW i \in T,
         NEW U, U = T \ {i}
  PROVE  LET x == Free(t, k, i)
         IN  SameOn(x, t, k, U) /\ Frame(x, t, k, T) /\ Parent(x, i) = NULL
<1> DEFINE a == SetChildren(t, i, Unused)
           b == Paint(a, i, BLACK)
           c == SetParent(b, i, NULL)
           x == SetParent(c, Nil[k], NULL)
<1>0. Nil[k] \in Nodes /\ Nil[k] \notin Slots /\ Slots \subseteq Nodes BY NilNodes DEF Nodes
<1>1. x = Free(t, k, i) BY DEF Free
<1>2. i \in Nodes /\ i # Nil[k] BY <1>0
<1>3. ChildrenSet(a, t, i, NULL) BY <1>2, SetChildrenIs DEF Unused
<1> HIDE DEF a
<1>4. Painted(b, a, i, BLACK) BY <1>2, <1>3, PaintIs DEF ChildrenSet
<1> HIDE DEF b
<1>5. ParentSet(c, b, i, NULL) BY <1>2, <1>4, SetParentIs DEF Painted
<1> HIDE DEF c
<1>6. ParentSet(x, c, Nil[k], NULL) BY <1>0, <1>5, SetParentIs DEF ParentSet
<1> HIDE DEF x
<1>7. /\ x \in TreeType
      /\ \A j \in Trees : Root(x, j) = Root(t, j)
      /\ \A m \in Nodes : m # i => /\ \A s \in Sides : Child(x, m, s) = Child(t, m, s)
                                   /\ m # Nil[k] => Parent(x, m) = Parent(t, m)
                                   /\ Color(x, m) = Color(t, m)
      /\ Parent(x, i) = NULL
  BY <1>2, <1>3, <1>4, <1>5, <1>6
  DEF ChildrenSet, Painted, ParentSet, SameRoots, SameChildren, SameParents, SameColors
<1>8. SameOn(x, t, k, U) BY <1>0, <1>2, <1>7 DEF SameOn
<1>9. Frame(x, t, k, T) BY <1>7 DEF Frame
<1> QED BY <1>1, <1>7, <1>8, <1>9

(* TLBTreeEvict takes a node out of its tree. *)
LEMMA EvictIs ==
  ASSUME NEW t, NEW i \in Slots, NEW k \in Trees, k = TreeOf(entries[i]),
         NEW T, NEW key, NEW D, NEW H, RBTree(t, k, T, key, D, H), i \in T
  PROVE  LET x == TLBTreeEvict(t, i)
         IN  /\ \E E, G : RBTree(x, k, T \ {i}, key, E, G)
             /\ Frame(x, t, k, T)
             /\ Parent(x, i) = NULL
<1> DEFINE u == Unlink(t, k, i)
           s == IF u.color = BLACK THEN EvictFixup(u.tree, k, u.fixup) ELSE u.tree
           x == TLBTreeEvict(t, i)
           U == T \ {i}
<1>1. Shape(t, k, D, key) /\ T = Members(t, k, D) BY DEF RBTree
<1>2. T \subseteq Slots /\ key \in [Slots -> Int]
  <2>1. Root(t, k) \in Nodes BY <1>1, Typed DEF Shape
  <2> QED BY <1>1, <2>1 DEF Shape, Members
<1>3. Parent(t, i) # NULL
  <2>1. Kin(t, k, D, key, i) BY <1>1, Family
  <2> QED BY <2>1, NodesAssumption DEF Kin, Nodes
<1>4. x = Free(s, k, i) BY <1>3 DEF TLBTreeEvict
<1>5. /\ \E E, G : Removed(u.tree, u.fixup, u.color, k, U, key, E, G)
      /\ Frame(u.tree, t, k, T)
      /\ u.color \in {RED, BLACK}
  BY UnlinkIs
<1> HIDE DEF u
<1>6. (\E E, G : RBTree(s, k, U, key, E, G)) /\ Frame(s, t, k, T)
  <2>1. PICK E, G : Removed(u.tree, u.fixup, u.color, k, U, key, E, G) BY <1>5
  <2>2. CASE u.color = BLACK
    <3>1. s = EvictFixup(u.tree, k, u.fixup) BY <2>2
    <3> HIDE DEF s
    <3>2. \E sd : EvictInv(u.tree, u.fixup, k, U, key, E, G, sd) BY <2>1, <2>2 DEF Removed
    <3>3. PICK sd : EvictInv(u.tree, u.fixup, k, U, key, E, G, sd) BY <3>2
    <3>4. (\E EE, GG : RBTree(s, k, U, key, EE, GG)) /\ Frame(s, u.tree, k, U)
      BY <3>1, <3>3, EvictTree
    <3>5. Frame(s, u.tree, k, T) BY <3>4, FrameWider
    <3> QED BY <1>5, <3>4, <3>5, FrameStep
  <2>3. CASE u.color = RED
    <3>1. s = u.tree BY <2>3 DEF RED, BLACK
    <3> HIDE DEF s
    <3>2. RBTree(s, k, U, key, E, G) BY <2>1, <2>3, <3>1 DEF Removed
    <3> QED BY <1>5, <3>1, <3>2
  <2> QED BY <1>5, <2>2, <2>3
<1> HIDE DEF s
<1>7. PICK E, G : RBTree(s, k, U, key, E, G) BY <1>6
<1>8. s \in TreeType BY <1>7 DEF RBTree, Shape
<1>9. SameOn(x, s, k, U) /\ Frame(x, s, k, T) /\ Parent(x, i) = NULL
  BY <1>2, <1>4, <1>8, FreeIs
<1> HIDE DEF x
<1>10. SameKeys(key, key, U) BY <1>2 DEF SameKeys
<1>11. RBTree(x, k, U, key, E, G) BY <1>7, <1>9, <1>10, SameTree
<1>12. Frame(x, t, k, T) BY <1>6, <1>9, FrameStep
<1> QED BY <1>9, <1>11, <1>12 DEF x, U

-----------------------------------------------------------------------------
(* TLBTreeInsert: the place of a new node, and the loop on what it leaves. *)

(* The place of a key in a tree: on that side of node cur, or of no node. *)
Place(t, k, D, key, i, cur, side) ==
  /\ side \in Sides
  /\ \/ cur = Nil[k] /\ Root(t, k) = Nil[k]
     \/ /\ cur \in Members(t, k, D)
        /\ Child(t, cur, side) = Nil[k]
        /\ Beyond(key, side, i, cur)
        /\ \A m \in Members(t, k, D) : \A s \in Sides :
             cur \in Sub(D, Child(t, m, s)) => Beyond(key, s, i, m)

(* The tree x is t with node i there. *)
Grown(x, t, k, T, i, cur, side) ==
  /\ x \in TreeType
  /\ Root(x, k) = IF cur = Nil[k] THEN i ELSE Root(t, k)
  /\ \A s \in Sides : Child(x, i, s) = Nil[k]
  /\ \A m \in T : \A s \in Sides : Child(x, m, s) = IF m = cur /\ s = side THEN i
       ELSE Child(t, m, s)
  /\ Parent(x, i) = cur
  /\ \A m \in T : Parent(x, m) = Parent(t, m)
  /\ Color(x, i) = RED
  /\ \A m \in T \cup {Nil[k]} : Color(x, m) = Color(t, m)

(* Leaf links a red node there. *)
LEMMA LeafIs ==
  ASSUME NEW t \in TreeType, NEW k \in Trees, NEW T, T \subseteq Slots,
         NEW i \in Slots, i \notin T, NEW cur \in T \cup {Nil[k]}, NEW side \in Sides
  PROVE  LET x == Leaf(t, k, i, cur, side)
         IN  Grown(x, t, k, T, i, cur, side) /\ Frame(x, t, k, T \cup {i})
<1> DEFINE z == Nil[k]
           a == SetChildren(t, i, [s \in Sides |-> z])
           b == SetParent(a, i, cur)
           c == IF cur = z THEN SetRoot(b, k, i) ELSE SetChild(b, cur, side, i)
           x == Leaf(t, k, i, cur, side)
<1>0. z \in Nodes /\ z \notin Slots /\ Slots \subseteq Nodes BY NilNodes DEF Nodes
<1>1. x = Paint(c, i, RED) BY DEF Leaf
<1>2. i \in Nodes /\ cur \in Nodes /\ i # cur /\ i # z /\ z \notin T BY <1>0
<1>3. ChildrenSet(a, t, i, z) BY <1>0, <1>2, SetChildrenIs
<1> HIDE DEF a
<1>4. ParentSet(b, a, i, cur) BY <1>2, <1>3, SetParentIs DEF ChildrenSet
<1> HIDE DEF b
<1>5. /\ c \in TreeType
      /\ \A j \in Trees : Root(c, j) = IF j = k /\ cur = z THEN i ELSE Root(t, j)
      /\ \A m \in Nodes : \A s \in Sides :
           Child(c, m, s) = IF m = i THEN z ELSE IF cur # z /\ m = cur /\ s = side THEN i
             ELSE Child(t, m, s)
      /\ \A m \in Nodes : /\ Parent(c, m) = IF m = i THEN cur ELSE Parent(t, m)
                          /\ Color(c, m) = Color(t, m)
  <2>1. CASE cur = z
    <3>1. c = SetRoot(b, k, i) BY <2>1
    <3> HIDE DEF c
    <3>2. RootSet(c, b, k, i) BY <1>2, <1>4, <3>1, SetRootIs DEF ParentSet
    <3> QED BY <1>3, <1>4, <2>1, <3>2
        DEF RootSet, ParentSet, ChildrenSet, SameRoots, SameChildren, SameParents, SameColors
  <2>2. CASE cur # z
    <3>1. c = SetChild(b, cur, side, i) BY <2>2
    <3> HIDE DEF c
    <3>2. ChildSet(c, b, cur, side, i) BY <1>2, <1>4, <3>1, SetChildIs DEF ParentSet
    <3> QED BY <1>2, <1>3, <1>4, <2>2, <3>2
        DEF ChildSet, ParentSet, ChildrenSet, SameRoots, SameChildren, SameParents, SameColors
  <2> QED BY <2>1, <2>2
<1> HIDE DEF c
<1>6. Painted(x, c, i, RED) BY <1>1, <1>2, <1>5, PaintIs
<1> HIDE DEF x
<1>7. /\ x \in TreeType
      /\ \A j \in Trees : Root(x, j) = IF j = k /\ cur = z THEN i ELSE Root(t, j)
      /\ \A m \in Nodes : \A s \in Sides :
           Child(x, m, s) = IF m = i THEN z ELSE IF cur # z /\ m = cur /\ s = side THEN i
             ELSE Child(t, m, s)
      /\ \A m \in Nodes : /\ Parent(x, m) = IF m = i THEN cur ELSE Parent(t, m)
                          /\ Color(x, m) = IF m = i THEN RED ELSE Color(t, m)
  BY <1>5, <1>6 DEF Painted, SameRoots, SameChildren, SameParents
<1>8. Grown(x, t, k, T, i, cur, side) BY <1>0, <1>2, <1>7 DEF Grown
<1>9. Frame(x, t, k, T \cup {i}) BY <1>2, <1>7 DEF Frame
<1> QED BY <1>8, <1>9 DEF x

(* The nodes below each node of the tree with i. *)
GrownSub(D, i, cur) ==
  [m \in Nodes |-> IF m = i THEN {i} ELSE IF cur \in Sub(D, m) THEN Sub(D, m) \cup {i}
    ELSE Sub(D, m)]

(* It keeps the shape. *)
LEMMA GrownShape ==
  ASSUME NEW t, NEW k \in Trees, NEW T, NEW key, NEW D,
         Shape(t, k, D, key), T = Members(t, k, D), NEW i \in Slots, i \notin T,
         NEW cur, NEW side, Place(t, k, D, key, i, cur, side),
         NEW x, Grown(x, t, k, T, i, cur, side)
  PROVE  /\ Shape(x, k, GrownSub(D, i, cur), key)
         /\ Members(x, k, GrownSub(D, i, cur)) = T \cup {i}
<1> DEFINE z == Nil[k]
           E == GrownSub(D, i, cur)
<1>0. z \in Nodes /\ z \notin Slots /\ Slots \subseteq Nodes BY NilNodes DEF Nodes
<1>1. T \subseteq Slots /\ key \in [Slots -> Int] /\ Root(t, k) \in Nodes
  <2>1. Root(t, k) \in Nodes BY Typed DEF Shape
  <2> QED BY <2>1 DEF Shape, Members
<1>2. /\ Sub(E, i) = {i}
      /\ \A m \in Nodes : m # i => Sub(E, m) = IF cur \in Sub(D, m) THEN Sub(D, m) \cup {i}
           ELSE Sub(D, m)
  BY <1>0 DEF GrownSub, Sub
<1> HIDE DEF E
<1>3. side \in Sides /\ (cur = z \/ cur \in T) /\ (cur = z => Root(t, k) = z)
  BY <1>0, <1>1 DEF Place
<1>4. cur = z => T = {} BY <1>3 DEF Members, Shape
<1>5. \A m \in T : \A s \in Sides : cur \in Sub(D, Child(t, m, s)) => Beyond(key, s, i, m)
  BY <1>4 DEF Place
<1>6. cur \in T => Child(t, cur, side) = z /\ Beyond(key, side, i, cur)
  BY <1>0, <1>1 DEF Place
<1>7. Sub(D, z) = {} /\ Sub(E, z) = {} BY <1>0, <1>2 DEF Shape
<1>8. /\ x \in TreeType
      /\ Root(x, k) = IF cur = z THEN i ELSE Root(t, k)
      /\ \A s \in Sides : Child(x, i, s) = z
      /\ \A m \in T : \A s \in Sides : Child(x, m, s) = IF m = cur /\ s = side THEN i
           ELSE Child(t, m, s)
      /\ Parent(x, i) = cur
      /\ \A m \in T : Parent(x, m) = Parent(t, m)
  BY DEF Grown
<1>9. Members(x, k, E) = T \cup {i}
  <2>1. CASE cur = z BY <1>2, <1>4, <1>8, <2>1 DEF Members
  <2>2. CASE cur # z
    <3>1. cur \in T /\ Root(x, k) = Root(t, k) BY <1>3, <1>8, <2>2
    <3>2. Root(t, k) \in T BY <1>7, <3>1 DEF Shape, Members
    <3> QED BY <1>1, <1>2, <3>1, <3>2 DEF Members
  <2> QED BY <2>1, <2>2
<1>10. NodeOK(x, k, E, key, i)
  BY <1>2, <1>7, <1>8, <1>9 DEF NodeOK
<1>11. ASSUME NEW m \in T PROVE NodeOK(x, k, E, key, m)
  <2>1. NodeOK(t, k, D, key, m) /\ Kin(t, k, D, key, m) BY Family DEF Shape
  <2>2. m # i /\ m \in Nodes BY <2>1 DEF Kin
  <2>3. Sub(E, m) = IF cur \in Sub(D, m) THEN Sub(D, m) \cup {i} ELSE Sub(D, m) BY <1>2, <2>2
  <2>4. /\ m \in Sub(D, m) /\ Sub(D, m) \subseteq T
        /\ \A j \in Sub(D, m) : j = m \/ \E s \in Sides : j \in Sub(D, Child(t, m, s))
    BY <2>1 DEF NodeOK
  <2>5. m \in Sub(E, m) /\ Sub(E, m) \subseteq Members(x, k, E) BY <1>9, <2>3, <2>4
  <2>6. ASSUME NEW s \in Sides
        PROVE  /\ \/ Child(x, m, s) = z
                  \/ Child(x, m, s) \in Sub(E, m) /\ Parent(x, Child(x, m, s)) = m
               /\ Sub(E, Child(x, m, s)) \subseteq Sub(E, m)
               /\ \A j \in Sub(E, Child(x, m, s)) : Beyond(key, s, j, m)
               /\ Sub(D, Child(t, m, s)) \subseteq Sub(E, Child(x, m, s))
               /\ cur \in Sub(D, Child(t, m, s)) => i \in Sub(E, Child(x, m, s))
    <3> DEFINE c == Child(t, m, s)
    <3>1. /\ c = z \/ (c \in Sub(D, m) /\ Parent(t, c) = m)
          /\ Sub(D, c) \subseteq Sub(D, m)
          /\ \A j \in Sub(D, c) : Beyond(key, s, j, m)
      BY <2>1 DEF NodeOK
    <3>2. CASE m = cur /\ s = side
      <4>1. Child(x, m, s) = i /\ c = z BY <1>6, <1>8, <3>2
      <4>2. Sub(E, m) = Sub(D, m) \cup {i} BY <2>3, <2>4, <3>2
      <4>3. Beyond(key, s, i, m) BY <1>6, <3>2
      <4> QED BY <1>2, <1>7, <1>8, <3>2, <4>1, <4>2, <4>3
    <3>3. CASE ~(m = cur /\ s = side)
      <4>1. Child(x, m, s) = c BY <1>8, <3>3
      <4>2. c = z \/ c \in T BY <2>4, <3>1
      <4>3. c \in Nodes /\ c # i BY <1>0, <1>1, <4>2
      <4> HIDE DEF c
      <4>4. Sub(E, c) = IF cur \in Sub(D, c) THEN Sub(D, c) \cup {i} ELSE Sub(D, c)
        BY <1>2, <4>3
      <4>5. Sub(E, c) \subseteq Sub(E, m) BY <2>3, <3>1, <4>4
      <4>6. cur \in Sub(D, c) => Beyond(key, s, i, m) BY <1>5 DEF c
      <4>7. \A j \in Sub(E, c) : Beyond(key, s, j, m) BY <3>1, <4>4, <4>6
      <4>8. c = z \/ (c \in Sub(E, m) /\ Parent(x, c) = m) BY <1>8, <2>3, <3>1, <4>2
      <4>9. Sub(D, c) \subseteq Sub(E, c) /\ (cur \in Sub(D, c) => i \in Sub(E, c)) BY <4>4
      <4> QED BY <4>1, <4>5, <4>7, <4>8, <4>9 DEF c
    <3> QED BY <3>2, <3>3
  <2>7. ASSUME NEW j \in Sub(E, m) PROVE j = m \/ \E s \in Sides : j \in Sub(E, Child(x, m, s))
    <3>1. CASE j \in Sub(D, m) BY <2>4, <2>6, <3>1
    <3>2. CASE j = i /\ cur \in Sub(D, m)
      <4>1. CASE cur = m
        <5>1. Child(x, m, side) = i BY <1>3, <1>8, <4>1
        <5> QED BY <1>2, <1>3, <3>2, <5>1
      <4>2. CASE cur # m
        <5>1. PICK s \in Sides : cur \in Sub(D, Child(t, m, s)) BY <2>4, <3>2, <4>2
        <5> QED BY <2>6, <3>2, <5>1
      <4> QED BY <4>1, <4>2
    <3> QED BY <2>3, <3>1, <3>2
  <2> QED BY <2>5, <2>6, <2>7 DEF NodeOK
<1>12. \A m \in Members(x, k, E) : NodeOK(x, k, E, key, m) BY <1>9, <1>10, <1>11
<1>13. Root(x, k) = z \/ (Root(x, k) \in Members(x, k, E) /\ Parent(x, Root(x, k)) = z)
  <2>1. CASE cur = z BY <1>8, <1>9, <2>1
  <2>2. CASE cur # z
    <3>1. Root(x, k) = Root(t, k) BY <1>8, <2>2
    <3>2. Root(t, k) = z \/ (Root(t, k) \in T /\ Parent(t, Root(t, k)) = z) BY DEF Shape
    <3> QED BY <1>8, <1>9, <3>1, <3>2
  <2> QED BY <2>1, <2>2
<1>14. ASSUME NEW m \in T \cup {i}, m # Root(x, k)
       PROVE  Parent(x, m) \in T \cup {i} /\ \E s \in Sides : Child(x, Parent(x, m), s) = m
  <2>1. CASE m = i
    <3>1. cur # z /\ cur \in T /\ Parent(x, m) = cur BY <1>3, <1>8, <1>14, <2>1
    <3>2. Child(x, cur, side) = i BY <1>3, <1>8, <3>1
    <3> QED BY <1>3, <2>1, <3>1, <3>2
  <2>2. CASE m # i
    <3>1. m \in T BY <2>2
    <3>2. cur # z BY <1>4, <3>1
    <3>3. m # Root(t, k) BY <1>8, <1>14, <3>2
    <3>4. Parent(t, m) \in T /\ \E s \in Sides : Child(t, Parent(t, m), s) = m
      BY <3>1, <3>3 DEF Shape
    <3>5. PICK s \in Sides : Child(t, Parent(t, m), s) = m BY <3>4
    <3>6. ~(Parent(t, m) = cur /\ s = side) BY <1>0, <1>1, <1>3, <1>6, <3>1, <3>2, <3>5
    <3>7. Child(x, Parent(t, m), s) = m BY <1>8, <3>4, <3>5, <3>6
    <3> QED BY <1>8, <3>1, <3>4, <3>7
  <2> QED BY <2>1, <2>2
<1>15. \A m \in Nodes : Sub(E, m) \subseteq Slots BY <1>2 DEF Shape
<1>16. Shape(x, k, E, key) BY <1>1, <1>7, <1>8, <1>9, <1>12, <1>13, <1>14, <1>15 DEF Shape
<1> QED BY <1>9, <1>16 DEF E

(* It is a red-black tree but for the red node i. *)
LEMMA GrownFixup ==
  ASSUME NEW t, NEW k \in Trees, NEW T, NEW key, NEW D, NEW H,
         RBTree(t, k, T, key, D, H), NEW i \in Slots, i \notin T,
         NEW cur, NEW side, Place(t, k, D, key, i, cur, side),
         NEW x, Grown(x, t, k, T, i, cur, side)
  PROVE  \E E, G : FixupInv(x, i, k, T \cup {i}, key, E, G)
<1> DEFINE z == Nil[k]
           E == GrownSub(D, i, cur)
           G == [m \in Nodes |-> IF m = i THEN 0 ELSE Ht(H, m)]
           U == T \cup {i}
<1>0. z \in Nodes /\ z \notin Slots /\ Slots \subseteq Nodes BY NilNodes DEF Nodes
<1>1. Shape(t, k, D, key) /\ T = Members(t, k, D) BY DEF RBTree
<1>2. T \subseteq Slots /\ T \subseteq Nodes /\ Root(t, k) \in Nodes
  <2>1. Root(t, k) \in Nodes BY <1>1, Typed DEF Shape
  <2> QED BY <1>0, <1>1, <2>1 DEF Shape, Members
<1>3. Shape(x, k, E, key) /\ Members(x, k, E) = U BY <1>1, GrownShape
<1>4. /\ Root(x, k) = IF cur = Nil[k] THEN i ELSE Root(t, k)
      /\ \A s \in Sides : Child(x, i, s) = z
      /\ \A m \in T : \A s \in Sides : Child(x, m, s) = IF m = cur /\ s = side THEN i
           ELSE Child(t, m, s)
      /\ Parent(x, i) = cur
      /\ Color(x, i) = RED
      /\ \A m \in T \cup {z} : Color(x, m) = Color(t, m)
  BY DEF Grown
<1>5. side \in Sides /\ (cur \in T => Child(t, cur, side) = z)
  BY <1>0, <1>1, <1>2 DEF Place
<1>6. Balanced(t, k, T, H) BY <1>1, LevelsAre DEF RBTree
<1>7. \A m \in Nodes : Ht(G, m) = IF m = i THEN 0 ELSE Ht(H, m) BY DEF Ht
<1> HIDE DEF E, G
<1>8. \A m \in T : \A s \in Sides : Child(t, m, s) \in T \cup {z}
  <2>1. \A m \in T : Kin(t, k, D, key, m) BY <1>1, Family
  <2> QED BY <1>1, <2>1 DEF Kin
<1>9. Balanced(x, k, U, G)
  <2>1. /\ Color(x, z) = BLACK /\ Ht(G, z) = 0 /\ \A m \in Nodes : Ht(G, m) \in Nat
    BY <1>0, <1>4, <1>6, <1>7 DEF Balanced
  <2>2. ASSUME NEW m \in U,
               NEW s \in Sides PROVE Ht(G, m) = Ht(G, Child(x, m, s)) + Weight(x, m)
    <3>1. CASE m = i
      <4>1. Weight(x, m) = 0 BY <1>4, <3>1 DEF Weight, RED, BLACK
      <4>2. i \in Nodes BY <1>0
      <4> QED BY <1>4, <1>7, <2>1, <3>1, <4>1, <4>2
    <3>2. CASE m # i
      <4>1. m \in T /\ m \in Nodes BY <1>2, <3>2
      <4>2. Weight(x, m) = Weight(t, m) BY <1>4, <4>1 DEF Weight
      <4>3. Ht(H, m) = Ht(H, Child(t, m, s)) + Weight(t, m) BY <1>6, <4>1 DEF Balanced
      <4>4. Ht(G, Child(x, m, s)) = Ht(H, Child(t, m, s))
        <5>1. CASE m = cur /\ s = side
          <6>1. Child(x, m, s) = i /\ Child(t, m, s) = z BY <1>4, <1>5, <4>1, <5>1
          <6>2. i \in Nodes BY <1>0
          <6> QED BY <1>6, <1>7, <6>1, <6>2 DEF Balanced
        <5>2. CASE ~(m = cur /\ s = side)
          <6>1. Child(x, m, s) = Child(t, m, s) BY <1>4, <4>1, <5>2
          <6>2. Child(t, m, s) \in Nodes /\ Child(t, m, s) # i BY <1>0, <1>2, <1>8, <4>1
          <6> QED BY <1>7, <6>1, <6>2
        <5> QED BY <5>1, <5>2
      <4> QED BY <1>7, <3>2, <4>1, <4>2, <4>3, <4>4
    <3> QED BY <3>1, <3>2
  <2> QED BY <2>1, <2>2 DEF Balanced
<1>10. Levels(x, k, U, G, NULL, "left") BY <1>3, <1>9, LevelsAre
<1>11. Color(x, z) = BLACK BY <1>9 DEF Balanced
<1>12. \A m \in U : m # cur => RedRule(x, m)
  <2>1. \A m \in T : m # cur => RedRule(x, m) BY <1>4, <1>8 DEF RBTree, RedRule
  <2>2. RedRule(x, i) BY <1>4, <1>11 DEF RedRule
  <2> QED BY <2>1, <2>2
<1>13. ASSUME NEW m \in U, NEW s \in Sides, m = cur, Color(x, m) = RED, Child(x, m, s) # i
       PROVE  Color(x, Child(x, m, s)) = BLACK
  <2>1. CASE m = i BY <1>4, <1>11, <2>1
  <2>2. CASE m # i
    <3>1. Child(x, m, s) = Child(t, m, s) /\ Color(t, m) = RED BY <1>4, <1>13, <2>2
    <3> QED BY <1>4, <1>8, <2>2, <3>1 DEF RBTree, RedRule
  <2> QED BY <2>1, <2>2
<1>14. Color(x, Root(x, k)) = BLACK \/ i = Root(x, k)
  <2>1. Root(t, k) \in T \cup {z} BY <1>1 DEF Shape
  <2> QED BY <1>4, <2>1 DEF RBTree
<1>15. FixupInv(x, i, k, U, key, E, G)
  BY <1>3, <1>4, <1>10, <1>12, <1>13, <1>14 DEF FixupInv
<1> QED BY <1>15

(* The end of the walk to the place of entry e, that of node i. *)
Goes(es, e, T, key, i) == \A m \in T : Beyond(key, SideOf(e, es[m]), i, m)

(* The walk from the root ends at the place of i. *)
LEMMA EndIs ==
  ASSUME NEW t, NEW k \in Trees, NEW T, NEW key, NEW D,
         Shape(t, k, D, key), T = Members(t, k, D), NEW i \in Slots,
         NEW es, NEW e, Goes(es, e, T, key, i),
         NEW cur, cur = WalkEnds(t, es, e, Root(t, k))
  PROVE  /\ Place(t, k, D, key, i, cur, SideOf(e, es[cur]))
         /\ cur \in T \cup {Nil[k]}
<1> DEFINE z == Nil[k]
           root == Root(t, k)
           side(m) == SideOf(e, es[m])
           next == [m \in Slots |-> LET c == Child(t, m, side(m)) IN IF c \in Slots THEN c ELSE m]
           S == {m \in T : \A j \in T : \/ j \in Sub(D, m)
                                        \/ \E s \in Sides : /\ Beyond(key, s, i, j)
                                                            /\ \A a \in Sub(D, m) :
                                                                 Beyond(key, s, a, j)}
<1>0. z \in Nodes /\ z \notin Slots /\ Slots \subseteq Nodes BY NilNodes DEF Nodes
<1>1. root \in Nodes /\ T \subseteq Slots /\ key \in [Slots -> Int]
  <2>1. root \in Nodes BY Typed DEF Shape
  <2> QED BY <2>1 DEF Shape, Members
<1>2. cur = Walk(next, root) BY DEF WalkEnds
<1>3. \A m : side(m) \in Sides BY DEF SideOf, Sides
<1>4. \A m \in T : Beyond(key, side(m), i, m) BY DEF Goes
<1>5. \A m \in Slots : next[m] = IF Child(t, m, side(m)) \in Slots THEN Child(t, m, side(m)) ELSE m
  OBVIOUS
<1>6. \A m \in T : NodeOK(t, k, D, key, m) /\ Kin(t, k, D, key, m) BY Family DEF Shape
<1> HIDE DEF next, side
<1>7. CASE root = z
  <2>1. Sub(D, z) = {} BY DEF Shape
  <2>2. Down(next, {z}, D) BY <1>0, <2>1 DEF Down
  <2>3. cur \in {z} BY <1>2, <1>7, <2>2, WalkIs
  <2>4. SideOf(e, es[cur]) \in Sides BY <1>3 DEF side
  <2> QED BY <1>7, <2>3, <2>4 DEF Place
<1>8. CASE root # z
  <2>1. root \in T BY <1>8 DEF Shape
  <2>2. root \in S BY <2>1 DEF Members
  <2>3. ASSUME NEW m \in S
        PROVE  /\ Sub(D, m) \subseteq Slots
               /\ m \in Slots => /\ next[m] \in S
                                 /\ next[m] # m => /\ Sub(D, next[m]) \subseteq Sub(D, m)
                                                   /\ m \in Sub(D, m)
                                                   /\ m \notin Sub(D, next[m])
    <3> DEFINE c == Child(t, m, side(m))
               d == Child(t, m, Other(side(m)))
    <3>1. m \in T /\ m \in Slots BY <1>1
    <3>2. Sub(D, m) \subseteq Slots BY <1>0, <3>1 DEF Shape
    <3>3. next[m] = IF c \in Slots THEN c ELSE m BY <1>5, <3>1
    <3>4. CASE c \notin Slots BY <3>2, <3>3, <3>4
    <3>5. CASE c \in Slots
      <4>1. side(m) \in Sides /\ Other(side(m)) \in Sides /\ Sides = {side(m), Other(side(m))}
        BY <1>3, Others
      <4>2. c \in T /\ c \in Sub(D, c) BY <1>0, <1>6, <3>1, <3>5, <4>1 DEF Kin
      <4>3. /\ Sub(D, c) \subseteq Sub(D, m) /\ m \in Sub(D, m)
            /\ \A a \in Sub(D, c) : Beyond(key, side(m), a, m)
            /\ \A a \in Sub(D, d) : Beyond(key, Other(side(m)), a, m)
            /\ \A j \in Sub(D, m) : j = m \/ j \in Sub(D, c) \/ j \in Sub(D, d)
        BY <1>6, <3>1, <4>1 DEF NodeOK
      <4>4. m \notin Sub(D, c) BY <1>1, <3>1, <4>1, <4>3, BeyondFacts
      <4> HIDE DEF c, d
      <4>5. ASSUME NEW j \in T
            PROVE  \/ j \in Sub(D, c)
                   \/ \E s \in Sides : Beyond(key, s, i, j) /\ \A a \in Sub(D, c) :
                        Beyond(key, s, a, j)
        <5>1. CASE j \notin Sub(D, m)
          <6>1. PICK s \in Sides : Beyond(key, s, i, j) /\ \A a \in Sub(D, m) : Beyond(key, s, a, j)
            BY <5>1
          <6> QED BY <4>3, <6>1
        <5>2. CASE j = m BY <1>4, <3>1, <4>1, <4>3, <5>2
        <5>3. CASE j \in Sub(D, d)
          <6>1. Beyond(key, Other(side(m)), j, m) BY <4>3, <5>3
          <6>2. j \in Slots BY <1>1
          <6>3. Beyond(key, side(m), m, j)
            BY <1>1, <3>1, <4>1, <6>1, <6>2, BeyondFacts
          <6>4. \A a \in Slots : Beyond(key, side(m), a, m) => Beyond(key, side(m), a, j)
            BY <1>1, <3>1, <4>1, <6>2, <6>3, BeyondFacts
          <6>5. \A a \in Sub(D, c) : a \in Slots BY <3>2, <4>3
          <6> QED BY <1>4, <3>1, <4>1, <4>3, <6>4, <6>5
        <5> QED BY <4>3, <5>1, <5>2, <5>3
      <4>6. c \in S BY <4>2, <4>5
      <4> QED BY <3>2, <3>3, <3>5, <4>3, <4>4, <4>6 DEF c
    <3> QED BY <3>4, <3>5
  <2>4. Down(next, S, D)
    <3> HIDE DEF S
    <3> QED BY <2>3 DEF Down
  <2>5. cur \in S /\ (cur \in Slots => next[cur] = cur)
    <3> HIDE DEF S
    <3> QED BY <1>2, <2>2, <2>4, WalkIs
  <2>6. cur \in T /\ cur \in Slots BY <1>1, <2>5
  <2>7. Child(t, cur, side(cur)) = z
    <3>1. next[cur] = IF Child(t, cur, side(cur)) \in Slots THEN Child(t, cur, side(cur)) ELSE cur
      BY <1>5, <2>6
    <3>2. Kin(t, k, D, key, cur) BY <1>6, <2>6
    <3>3. Child(t, cur, side(cur)) # cur BY <1>3, <3>2 DEF Kin
    <3>4. Child(t, cur, side(cur)) \notin Slots BY <2>5, <2>6, <3>1, <3>3
    <3>5. Child(t, cur, side(cur)) \in T \cup {z} BY <1>3, <3>2 DEF Kin
    <3> QED BY <1>1, <3>4, <3>5
  <2>8. ASSUME NEW m \in T, NEW s \in Sides,
               cur \in Sub(D, Child(t, m, s)) PROVE Beyond(key, s, i, m)
    <3> DEFINE d == Child(t, m, s)
    <3>1. Beyond(key, s, cur, m) BY <1>6, <2>8 DEF NodeOK
    <3>2. CASE m \in Sub(D, cur)
      <4>1. d # z BY <2>8 DEF Shape
      <4>2. d \in T BY <1>6, <4>1 DEF Kin
      <4>3. Sub(D, cur) \subseteq Sub(D, d) BY <2>8, <4>2, Nested
      <4>4. Beyond(key, s, m, m) BY <1>6, <3>2, <4>3 DEF NodeOK
      <4> QED BY <1>1, <4>4, BeyondFacts
    <3>3. CASE m \notin Sub(D, cur)
      <4>1. PICK r \in Sides : Beyond(key, r, i, m) /\ \A a \in Sub(D, cur) : Beyond(key, r, a, m)
        BY <2>5, <3>3
      <4>2. cur \in Sub(D, cur) BY <1>6, <2>6 DEF NodeOK
      <4>3. Beyond(key, r, cur, m) BY <4>1, <4>2
      <4>4. r = s BY <1>1, <2>6, <3>1, <4>3 DEF Beyond, Sides
      <4> QED BY <4>1, <4>4
    <3> QED BY <3>2, <3>3
  <2> QED BY <1>3, <1>4, <2>6, <2>7, <2>8 DEF Place, side
<1> QED BY <1>7, <1>8

(* TLBTreeInsert puts a node in its tree, at the place where the walk ends. *)
LEMMA InsertAt ==
  ASSUME NEW t, NEW k \in Trees, NEW T, NEW key, NEW D, NEW H,
         RBTree(t, k, T, key, D, H), NEW i \in Slots, i \notin T,
         NEW es, Goes(es, es[i], T, key, i),
         NEW cur, cur = WalkEnds(t, es, es[i], Root(t, k)),
         NEW x, x = TLBTreeFixup(Leaf(t, k, i, cur, SideOf(es[i], es[cur])), k, i)
  PROVE  /\ \E E, G : RBTree(x, k, T \cup {i}, key, E, G)
         /\ Frame(x, t, k, T \cup {i})
<1> DEFINE side == SideOf(es[i], es[cur])
           y == Leaf(t, k, i, cur, side)
           U == T \cup {i}
<1>1. Shape(t, k, D, key) /\ T = Members(t, k, D) /\ t \in TreeType BY DEF RBTree, Shape
<1>2. T \subseteq Slots
  <2>1. Root(t, k) \in Nodes BY <1>1, Typed
  <2> QED BY <1>1, <2>1 DEF Shape, Members
<1>3. Place(t, k, D, key, i, cur, side) /\ cur \in T \cup {Nil[k]} BY <1>1, EndIs
<1>4. side \in Sides BY DEF SideOf, Sides
<1>5. x = TLBTreeFixup(y, k, i) OBVIOUS
<1> HIDE DEF side
<1>6. Grown(y, t, k, T, i, cur, side) /\ Frame(y, t, k, U) BY <1>1, <1>2, <1>3, <1>4, LeafIs
<1> HIDE DEF y
<1>7. \E E, G : FixupInv(y, i, k, U, key, E, G) BY <1>3, <1>6, GrownFixup
<1>8. PICK E, G : FixupInv(y, i, k, U, key, E, G) BY <1>7
<1> HIDE DEF U
<1>9. (\E EE, GG : RBTree(x, k, U, key, EE, GG)) /\ Frame(x, y, k, U) BY <1>5, <1>8, FixupTree
<1>10. Frame(x, t, k, U) BY <1>6, <1>9, FrameStep
<1> QED BY <1>9, <1>10 DEF U

(* A walk from a nil node stays there. *)
LEMMA NilWalk ==
  ASSUME NEW k \in Trees, NEW next
  PROVE  Walk(next, Nil[k]) = Nil[k]
<1> DEFINE D == [n \in Nodes |-> {}]
<1>1. Nil[k] \in Nodes /\ Nil[k] \notin Slots BY NilNodes
<1>2. Sub(D, Nil[k]) = {} BY <1>1 DEF Sub
<1> HIDE DEF D
<1>3. Down(next, {Nil[k]}, D) BY <1>1, <1>2 DEF Down
<1>4. Walk(next, Nil[k]) \in {Nil[k]} BY <1>3, WalkIs
<1> QED BY <1>4

(* An entry that overlaps neither the last node of the walk through its own *)
(* tree nor, if it is of an address space, of that through the other one is *)
(* inserted; a tree for address spaces has to be empty.                     *)
LEMMA InsertIs ==
  ASSUME NEW t, NEW k \in Trees, NEW T, NEW key, NEW D, NEW H,
         RBTree(t, k, T, key, D, H), NEW i \in Slots, i \notin T,
         NEW es, k = TreeOf(es[i]), Goes(es, es[i], T, key, i), ~Refused(t, es, i),
         k = "asid" => T = {}
  PROVE  LET x == TLBTreeInsert(t, es, i)
         IN  /\ \E E, G : RBTree(x, k, T \cup {i}, key, E, G)
             /\ Frame(x, t, k, T \cup {i})
<1> DEFINE x == TLBTreeInsert(t, es, i)
           cur == PlaceOf(t, es, i)
<1>1. x = TLBTreeFixup(Leaf(t, k, i, cur, SideOf(es[i], es[cur])), k, i) BY DEF TLBTreeInsert
<1>2. k = "asid" => Root(t, k) = Nil[k] BY DEF RBTree, Shape
<1>3. cur = WalkEnds(t, es, es[i], Root(t, k)) BY <1>2 DEF PlaceOf
<1> HIDE DEF x, cur
<1>4. (\E E, G : RBTree(x, k, T \cup {i}, key, E, G)) /\ Frame(x, t, k, T \cup {i})
  BY <1>1, <1>3, InsertAt
<1> QED BY <1>4 DEF x

(* The walk through tree k ends at one of its nodes, or at nil if it has none. *)
LEMMA WalkEndsIn ==
  ASSUME NEW t, NEW k \in Trees, NEW T, NEW key, NEW D, NEW H,
         RBTree(t, k, T, key, D, H), NEW i \in Slots, NEW es, NEW e, Goes(es, e, T, key, i)
  PROVE  WalkEnds(t, es, e, Root(t, k)) \in T \cup {Nil[k]}
<1> DEFINE cur == WalkEnds(t, es, e, Root(t, k))
<1>1. cur = WalkEnds(t, es, e, Root(t, k)) OBVIOUS
<1> HIDE DEF cur
<1>2. cur \in T \cup {Nil[k]} BY <1>1, EndIs DEF RBTree
<1> QED BY <1>1, <1>2

-----------------------------------------------------------------------------
(* Entries: what TLBWI stores, what TLBR reads back, and how stored entries *)
(* compare.                                                                 *)

(* What software may write: the entries it uses, and the one of a reset. *)
Contents == Entries \cup {Empty}

(* One of the two halves of an entry. *)
Halves == [global : BOOLEAN, pfn : Nat]

(* What TLBWI stores of the registers. *)
Stored(e) == [e EXCEPT !.vpn2 = Merge(e.region, e.vpn2)]

(* What TLBR makes of a stored entry again. *)
Folded(f) == [f EXCEPT !.vpn2 = @ % RegionSize]

(* An entry as it is stored. *)
StoredOK(f, e) ==
  /\ f \in [region : 0 .. 3, vpn2 : Nat, mask : Nat, asid : Nat, lo0 : Halves, lo1 : Halves]
  /\ f.vpn2 = Merge(e.region, e.vpn2)
  /\ f.vpn2 % (f.mask + 1) = 0
  /\ Merge(f.region, f.vpn2 % RegionSize) = f.vpn2
  /\ Pairs(f) = f.vpn2 .. f.vpn2 + f.mask
  /\ Pairs(e) = Pairs(f)
  /\ Folded(f) = e
  /\ f.region = e.region /\ f.mask = e.mask /\ f.asid = e.asid /\ f.lo0 = e.lo0 /\ f.lo1 = e.lo1

(* The fields of such an entry, from EntriesAssumption. *)
LEMMA ContentIs ==
  ASSUME NEW e \in Contents
  PROVE  /\ e \in [region : 0 .. 3, vpn2 : 0 .. RegionSize - 1, mask : Nat, asid : Nat, lo0 :
              Halves, lo1 : Halves]
         /\ e.region \in 0 .. 3 /\ e.vpn2 \in 0 .. RegionSize - 1 /\ e.mask \in Nat
              /\ e.asid \in Nat
         /\ e.lo0 \in Halves /\ e.lo1 \in Halves
         /\ e.vpn2 % (e.mask + 1) = 0
         /\ RegionSize % (e.mask + 1) = 0
         /\ (Pages32 \div 4) % (e.mask + 1) = 0
         /\ RegionSize \in Nat \ {0}
<1>1. /\ e \in [region : 0 .. 3, vpn2 : 0 .. RegionSize - 1, mask : Nat, asid : Nat, lo0 :
           Halves, lo1 : Halves]
      /\ e.vpn2 % (e.mask + 1) = 0
      /\ RegionSize % (e.mask + 1) = 0
      /\ (Pages32 \div 4) % (e.mask + 1) = 0
      /\ RegionSize \in Nat \ {0}
  BY EntriesAssumption DEF Contents, Halves
<1> QED BY <1>1

(* Merge keeps the region and the pair apart. *)
LEMMA MergeIs ==
  ASSUME NEW r \in 0 .. 3, NEW v \in 0 .. RegionSize - 1, RegionSize \in Nat \ {0}
  PROVE  /\ Merge(r, v) \in Nat
         /\ Merge(r, v) = RegionSize * r + v
         /\ Merge(r, v) % RegionSize = v
         /\ Merge(r, v) \div RegionSize = r
<1>1. r = 0 \/ r = 1 \/ r = 2 \/ r = 3 OBVIOUS
<1>2. Merge(r, v) = RegionSize * r + v /\ RegionSize * r + v \in Nat BY <1>1 DEF Merge
<1>3. (RegionSize * r + v) % RegionSize = v /\ (RegionSize * r + v) \div RegionSize = r
  BY DivModIs
<1> QED BY <1>2, <1>3

(* An entry is stored as that. *)
LEMMA StoredIs ==
  ASSUME NEW e \in Contents
  PROVE  StoredOK(Stored(e), e)
<1> DEFINE f == Stored(e)
           v == Merge(e.region, e.vpn2)
           d == e.mask + 1
<1>1. /\ e \in [region : 0 .. 3, vpn2 : 0 .. RegionSize - 1, mask : Nat, asid : Nat, lo0 :
           Halves, lo1 : Halves]
      /\ e.region \in 0 .. 3 /\ e.vpn2 \in 0 .. RegionSize - 1 /\ e.mask \in Nat
      /\ e.vpn2 % d = 0
      /\ RegionSize % d = 0
      /\ RegionSize \in Nat \ {0}
  BY ContentIs
<1>2. /\ v \in Nat /\ v % RegionSize = e.vpn2 /\ e.vpn2 % RegionSize = e.vpn2
      /\ v % d = 0
  <2> DEFINE r == e.region
             w == e.vpn2
             a == RegionSize * r
  <2>0. RegionSize \in Nat \ {0} /\ RegionSize \in Int BY <1>1
  <2>10. 0 \in Int OBVIOUS
  <2>1. /\ r \in 0 .. 3 /\ w \in 0 .. RegionSize - 1 /\ v = Merge(r, w) /\ d \in Nat \ {0}
        /\ w % d = 0 /\ RegionSize % d = 0
    BY <1>1
  <2> HIDE DEF r, w, v, d
  <2>2. v \in Nat /\ v = a + w /\ v % RegionSize = w BY <1>1, <2>1, MergeIs
  <2>3. w % RegionSize = w
    <3>1. RegionSize * 0 + w = w BY <1>1, <2>1
    <3>2. (RegionSize * 0 + w) % RegionSize = w BY <2>0, <2>1, <2>10, DivModIs
    <3> QED BY <3>1, <3>2
  <2>4. PICK q \in Int : RegionSize = d * q BY <2>0, <2>1, Multiples
  <2> DEFINE p == q * r
  <2>5. p \in Int /\ a = d * p BY <1>1, <2>1, <2>4, SMT
  <2>6. a \in Int BY <1>1, <2>1
  <2> HIDE DEF p, a
  <2>7. a % d = 0 BY <2>1, <2>5, MultipleIs
  <2>8. w \in Int BY <1>1, <2>1
  <2>9. (a + w) % d = w % d BY <2>1, <2>6, <2>7, <2>8, PlusMultiple
  <2> QED BY <2>1, <2>2, <2>3, <2>9 DEF w
<1>3. f = [e EXCEPT !.vpn2 = v] BY DEF Stored
<1> HIDE DEF v
<1>4. /\ f \in [region : 0 .. 3, vpn2 : Nat, mask : Nat, asid : Nat, lo0 : Halves, lo1 : Halves]
      /\ f.vpn2 = v /\ f.region = e.region /\ f.mask = e.mask /\ f.asid = e.asid
           /\ f.lo0 = e.lo0 /\ f.lo1 = e.lo1
  BY <1>1, <1>2, <1>3
<1>5. Folded(f) = e
  <2>1. Folded(f) = [f EXCEPT !.vpn2 = v % RegionSize] BY <1>4 DEF Folded
  <2>2. Folded(f) = [f EXCEPT !.vpn2 = e.vpn2] BY <1>2, <2>1
  <2> QED BY <1>1, <1>3, <2>2
<1> HIDE DEF f
<1>7. Merge(f.region, f.vpn2 % RegionSize) = f.vpn2
  <2>1. f.vpn2 % RegionSize = e.vpn2 BY <1>2, <1>4
  <2> QED BY <1>4, <2>1 DEF v
<1>9. Pairs(f) = f.vpn2 .. f.vpn2 + f.mask BY <1>7 DEF Pairs
<1>10. Pairs(e) = v .. v + e.mask BY <1>2 DEF Pairs, v
<1>11. StoredOK(f, e) BY <1>2, <1>4, <1>5, <1>7, <1>9, <1>10 DEF StoredOK, v
<1> QED BY <1>11 DEF f

-----------------------------------------------------------------------------
(* The forest: the two trees together, and what a write of a slot does to them. *)

(* What the array of entries holds. *)
StoredEntries == {Stored(e) : e \in Contents}

(* The pairs of pages of a stored entry are a range. *)
LEMMA StoredRange ==
  ASSUME NEW f \in StoredEntries
  PROVE  /\ f.vpn2 \in Nat /\ f.mask \in Nat
         /\ Pairs(f) = f.vpn2 .. f.vpn2 + f.mask
<1>1. PICK e \in Contents : f = Stored(e) BY DEF StoredEntries
<1>2. StoredOK(f, e) BY <1>1, StoredIs
<1> QED BY <1>2 DEF StoredOK

(* Disjoint entries have the order of their ends, and no overlap is seen. *)
LEMMA Disjoint ==
  ASSUME NEW e \in StoredEntries, NEW f \in StoredEntries, Pairs(e) \cap Pairs(f) = {}
  PROVE  /\ ~DoEntriesOverlap(e, f)
         /\ SideOf(e, f) = IF e.vpn2 < f.vpn2 THEN "left" ELSE "right"
         /\ e.vpn2 # f.vpn2
<1>1. /\ e.vpn2 \in Nat /\ e.mask \in Nat /\ Pairs(e) = e.vpn2 .. e.vpn2 + e.mask
      /\ f.vpn2 \in Nat /\ f.mask \in Nat /\ Pairs(f) = f.vpn2 .. f.vpn2 + f.mask
  BY StoredRange
<1> DEFINE a == e.vpn2
           b == e.vpn2 + e.mask
           c == f.vpn2
           d == f.vpn2 + f.mask
<1>2. /\ a \in Nat /\ b \in Nat /\ a <= b /\ c \in Nat /\ d \in Nat /\ c <= d
      /\ Pairs(e) = a .. b /\ Pairs(f) = c .. d
      /\ GetEntryEndAddress(e) = b /\ GetEntryEndAddress(f) = d
  BY <1>1 DEF GetEntryEndAddress
<1>3. \A x \in Nat : ~(a <= x /\ x <= b /\ c <= x /\ x <= d)
  <2> HIDE DEF a, b, c, d
  <2>1. \A x \in Nat : x \in a .. b <=> a <= x /\ x <= b BY <1>2
  <2>2. \A x \in Nat : x \in c .. d <=> c <= x /\ x <= d BY <1>2
  <2> QED BY <1>2, <2>1, <2>2
<1>4. b < c \/ d < a
  <2> HIDE DEF a, b, c, d
  <2>1. ~(a <= c /\ c <= b) BY <1>2, <1>3
  <2>2. ~(c <= a /\ a <= d) BY <1>2, <1>3
  <2> QED BY <1>2, <2>1, <2>2
<1>5. ~DoEntriesOverlap(e, f)
  <2>1. DoEntriesOverlap(e, f) <=> b >= d /\ a <= d BY <1>2 DEF DoEntriesOverlap
  <2> HIDE DEF a, b, c, d
  <2> QED BY <1>2, <1>4, <2>1
<1>6. SideOf(e, f) = IF b < d THEN "left" ELSE "right" BY <1>2 DEF SideOf
<1>7. (b < d <=> a < c) /\ a # c
  <2> HIDE DEF a, b, c, d
  <2> QED BY <1>2, <1>4
<1> QED BY <1>5, <1>6, <1>7

(* The keys of the trees: the first pair of pages of each entry. *)
Firsts(es) == [i \in Slots |-> es[i].vpn2]

(* The slots of S whose entries belong to tree k. *)
OfTree(S, es, k) == {j \in S : TreeOf(es[j]) = k}

(* The two trees hold the slots S by their entries es. *)
Forest(t, S, es) ==
  /\ t \in TreeType
  /\ S \subseteq Slots
  /\ es \in [Slots -> StoredEntries]
  /\ \A k \in Trees : \E D, H : RBTree(t, k, OfTree(S, es, k), Firsts(es), D, H)

(* The keys are integers. *)
LEMMA FirstsType ==
  ASSUME NEW es \in [Slots -> StoredEntries]
  PROVE  Firsts(es) \in [Slots -> Int] /\ \A i \in Slots : Firsts(es)[i] = es[i].vpn2
<1>1. \A i \in Slots : es[i].vpn2 \in Nat BY StoredRange
<1> QED BY <1>1 DEF Firsts

(* Every entry belongs to one of the trees. *)
LEMMA KindOf ==
  ASSUME NEW e
  PROVE  TreeOf(e) \in Trees /\ (TreeOf(e) = "global" <=> IsGlobalEntry(e))
BY DEF TreeOf, Trees

(* A change to one tree leaves the other as it is. *)
LEMMA FramesApart ==
  ASSUME NEW t \in TreeType, NEW x \in TreeType, NEW k \in Trees, NEW j \in Trees, j # k,
         NEW T, NEW S, S \cap T = {}, T \subseteq Slots, S \subseteq Slots, Frame(x, t, k, T)
  PROVE  SameOn(x, t, j, S)
<1>1. Nil[j] \in Nodes /\ Nil[j] \notin Slots BY NilNodes
<1>2. Nil[k] \in Nodes /\ Nil[k] \notin Slots BY NilNodes
<1>3. Nil[j] # Nil[k] BY NodesAssumption DEF Nil, Trees
<1>4. \A m \in S : m \in Nodes /\ m \notin T /\ m # Nil[k] BY <1>2 DEF Nodes
<1>5. Nil[j] \notin T BY <1>1
<1> QED BY <1>1, <1>3, <1>4, <1>5 DEF Frame, SameOn

(* A node of a tree has a parent, nil included. *)
LEMMA LinkedInTree ==
  ASSUME NEW t, NEW k \in Trees, NEW T, NEW key, NEW D, NEW H, RBTree(t, k, T, key, D, H),
         NEW j \in T
  PROVE  Parent(t, j) \in Nodes /\ Parent(t, j) # NULL
<1>1. Shape(t, k, D, key) /\ j \in Members(t, k, D) BY DEF RBTree
<1>2. Kin(t, k, D, key, j) BY <1>1, Family
<1> QED BY <1>2, NodesAssumption DEF Kin, Nodes

(* The slots of a forest are linked. *)
LEMMA Linked ==
  ASSUME NEW t, NEW S, NEW es, Forest(t, S, es), NEW j \in S
  PROVE  Parent(t, j) \in Nodes /\ Parent(t, j) # NULL
<1> DEFINE k == TreeOf(es[j])
           T == OfTree(S, es, k)
<1>1. k \in Trees BY KindOf
<1>2. j \in T BY DEF OfTree
<1>3. PICK D, H : RBTree(t, k, T, Firsts(es), D, H) BY <1>1 DEF Forest
<1> HIDE DEF k, T
<1> QED BY <1>1, <1>2, <1>3, LinkedInTree

(* New contents of slots that are not in use. *)
LEMMA Rewrite ==
  ASSUME NEW t, NEW S, NEW es, Forest(t, S, es), NEW fs \in [Slots -> StoredEntries],
         \A j \in S : fs[j] = es[j]
  PROVE  Forest(t, S, fs)
<1>1. S \subseteq Slots /\ es \in [Slots -> StoredEntries] /\ t \in TreeType BY DEF Forest
<1>2. ASSUME NEW k \in Trees
      PROVE  \E D, H : RBTree(t, k, OfTree(S, fs, k), Firsts(fs), D, H)
  <2> DEFINE T == OfTree(S, es, k)
  <2>1. T = OfTree(S, fs, k) BY DEF OfTree
  <2>2. T \subseteq S BY DEF OfTree
  <2>3. PICK D, H : RBTree(t, k, T, Firsts(es), D, H) BY DEF Forest
  <2> HIDE DEF T
  <2>4. SameOn(t, t, k, T) BY <1>1 DEF SameOn
  <2>5. SameKeys(Firsts(fs), Firsts(es), T) BY <1>1, <2>2, FirstsType DEF SameKeys
  <2> HIDE DEF Forest
  <2>6. RBTree(t, k, T, Firsts(fs), D, H) BY <2>3, <2>4, <2>5, SameTree
  <2> QED BY <2>1, <2>6
<1> QED BY <1>1, <1>2 DEF Forest

(* Evicting a slot in use. *)
LEMMA EvictForest ==
  ASSUME NEW t, NEW S, Forest(t, S, entries), NEW i \in S,
         NEW x, x = TLBTreeEvict(t, i)
  PROVE  /\ Forest(x, S \ {i}, entries)
         /\ Parent(x, i) = NULL
         /\ \A j \in Slots \ S : Parent(x, j) = Parent(t, j)
<1> DEFINE k == TreeOf(entries[i])
           T == OfTree(S, entries, k)
           key == Firsts(entries)
<1>0. S \subseteq Slots /\ entries \in [Slots -> StoredEntries] /\ t \in TreeType BY DEF Forest
<1>1. k \in Trees /\ k = TreeOf(entries[i]) /\ i \in Slots BY <1>0, KindOf
<1>2. i \in T /\ T \subseteq Slots /\ T \subseteq S BY <1>0 DEF OfTree
<1>3. PICK D, H : RBTree(t, k, T, key, D, H) BY <1>1 DEF Forest
<1>4. key \in [Slots -> Int] BY <1>0, FirstsType
<1>5. \A j \in Trees : j # k => OfTree(S, entries, j) \cap T = {}
        /\ OfTree(S \ {i}, entries, j) = OfTree(S, entries, j)
  BY DEF OfTree
<1>6. OfTree(S \ {i}, entries, k) = T \ {i} BY DEF OfTree
<1> HIDE DEF k, T, key
<1>7. /\ \E E, G : RBTree(x, k, T \ {i}, key, E, G)
      /\ Frame(x, t, k, T)
      /\ Parent(x, i) = NULL
  BY <1>1, <1>2, <1>3, EvictIs
<1>8. x \in TreeType BY <1>7 DEF RBTree, Shape
<1>9. ASSUME NEW j \in Trees
      PROVE  \E E, G : RBTree(x, j, OfTree(S \ {i}, entries, j), Firsts(entries), E, G)
  <2>1. CASE j = k BY <1>6, <1>7, <2>1 DEF key
  <2>2. CASE j # k
    <3> DEFINE U == OfTree(S, entries, j)
    <3>1. U \subseteq Slots /\ U \cap T = {} /\ OfTree(S \ {i}, entries, j) = U
      BY <1>0, <1>5, <2>2 DEF OfTree
    <3>2. PICK E, G : RBTree(t, j, U, Firsts(entries), E, G) BY DEF Forest
    <3> HIDE DEF U
    <3>3. SameOn(x, t, j, U) BY <1>0, <1>1, <1>2, <1>7, <1>8, <2>2, <3>1, FramesApart
    <3>4. SameKeys(key, key, U) BY <1>4 DEF SameKeys
    <3>5. RBTree(x, j, U, key, E, G) BY <3>2, <3>3, <3>4, SameTree DEF key
    <3> QED BY <3>1, <3>5 DEF key
  <2> QED BY <2>1, <2>2
<1>10. ASSUME NEW j \in Slots \ S PROVE Parent(x, j) = Parent(t, j)
  <2>1. j \in Nodes /\ j \notin T /\ j # Nil[k] BY <1>1, <1>2, NilNodes DEF Nodes
  <2> QED BY <1>7, <2>1 DEF Frame
<1>11. Forest(x, S \ {i}, entries) BY <1>0, <1>8, <1>9 DEF Forest
<1> QED BY <1>7, <1>10, <1>11

(* Entry i overlaps no entry it would clash with, and is the first of an    *)
(* address space if it is of one.                                           *)
Room(S, es, i) ==
  /\ \A m \in S : TreeOf(es[i]) = "global" \/ TreeOf(es[m]) = "global" =>
                    Pairs(es[i]) \cap Pairs(es[m]) = {}
  /\ TreeOf(es[i]) = "asid" => OfTree(S, es, "asid") = {}

(* Where there is room, the walk through a tree orders the entry as the keys *)
(* do, and none of its overlap tests succeeds.                               *)
LEMMA RoomGoes ==
  ASSUME NEW S, S \subseteq Slots, NEW es \in [Slots -> StoredEntries], NEW i \in Slots,
         Room(S, es, i),
         NEW k \in Trees, k = "global" \/ TreeOf(es[i]) = k
  PROVE  /\ Goes(es, es[i], OfTree(S, es, k), Firsts(es), i)
         /\ \A m \in OfTree(S, es, k) : ~DoEntriesOverlap(es[i], es[m])
<1> DEFINE T == OfTree(S, es, k)
           key == Firsts(es)
<1>1. ASSUME NEW m \in T
      PROVE  Beyond(key, SideOf(es[i], es[m]), i, m) /\ ~DoEntriesOverlap(es[i], es[m])
  <2>1. m \in S /\ TreeOf(es[m]) = k /\ m \in Slots BY DEF OfTree
  <2>2. k = "global" BY <1>1 DEF Room, Trees, OfTree
  <2>3. Pairs(es[i]) \cap Pairs(es[m]) = {} BY <2>1, <2>2 DEF Room
  <2> DEFINE e == es[i]
             f == es[m]
  <2>4. e \in StoredEntries /\ f \in StoredEntries BY <2>1
  <2>5. Pairs(e) \cap Pairs(f) = {} BY <2>3
  <2>6. key[i] = e.vpn2 /\ key[m] = f.vpn2 BY <2>1, FirstsType
  <2>7. e.vpn2 \in Nat /\ f.vpn2 \in Nat
    <3> HIDE DEF e, f
    <3> QED BY <2>4, StoredRange
  <2>8. /\ ~DoEntriesOverlap(e, f)
        /\ SideOf(e, f) = IF e.vpn2 < f.vpn2 THEN "left" ELSE "right"
        /\ e.vpn2 # f.vpn2
    <3> HIDE DEF e, f
    <3> QED BY <2>4, <2>5, Disjoint
  <2>9. Beyond(key, SideOf(e, f), i, m)
    <3> HIDE DEF e, f, key
    <3> QED BY <2>6, <2>7, <2>8 DEF Beyond
  <2> QED BY <2>8, <2>9
<1> QED BY <1>1 DEF Goes

(* Inserting a slot that there is room for. *)
LEMMA InsertForest ==
  ASSUME NEW t, NEW S, NEW es, Forest(t, S, es), NEW i \in Slots, i \notin S, Room(S, es, i),
         NEW x, x = TLBTreeInsert(t, es, i)
  PROVE  /\ Forest(x, S \cup {i}, es)
         /\ \A j \in Slots \ (S \cup {i}) : Parent(x, j) = Parent(t, j)
<1> DEFINE k == TreeOf(es[i])
           T == OfTree(S, es, k)
           key == Firsts(es)
           V == OfTree(S, es, "global")
<1>0. S \subseteq Slots /\ es \in [Slots -> StoredEntries] /\ t \in TreeType BY DEF Forest
<1>1. k \in Trees /\ k = TreeOf(es[i]) /\ "global" \in Trees BY KindOf DEF Trees
<1>2. i \notin T /\ T \subseteq Slots BY <1>0 DEF OfTree
<1>3. PICK D, H : RBTree(t, k, T, key, D, H) BY <1>1 DEF Forest
<1>4. PICK E, G : RBTree(t, "global", V, key, E, G) BY <1>1 DEF Forest
<1>5. key \in [Slots -> Int] BY <1>0, FirstsType
<1>6. Goes(es, es[i], T, key, i) /\ \A m \in T : ~DoEntriesOverlap(es[i], es[m])
  BY <1>0, <1>1, RoomGoes
<1>7. Goes(es, es[i], V, key, i) /\ \A m \in V : ~DoEntriesOverlap(es[i], es[m])
  BY <1>0, <1>1, RoomGoes
<1>8. k = "asid" => T = {} BY DEF Room
<1>9. \A j \in Trees : j # k => OfTree(S, es, j) \cap (T \cup {i}) = {}
        /\ OfTree(S \cup {i}, es, j) = OfTree(S, es, j)
  BY DEF OfTree
<1>10. OfTree(S \cup {i}, es, k) = T \cup {i} BY DEF OfTree
<1> HIDE DEF k, T, V, key
<1>11. ~Refused(t, es, i)
  <2> DEFINE cur == PlaceOf(t, es, i)
             g == WalkEnds(t, es, es[i], Root(t, "global"))
  <2>1. g \in V \cup {Nil["global"]} BY <1>1, <1>4, <1>7, WalkEndsIn
  <2>2. Nil["global"] = GlobalNil BY DEF Nil
  <2>3. k = "asid" => Root(t, k) = Nil[k] BY <1>3, <1>8 DEF RBTree, Shape
  <2>4. cur = WalkEnds(t, es, es[i], Root(t, k)) BY <1>1, <2>3 DEF PlaceOf
  <2>5. WalkEnds(t, es, es[i], Root(t, k)) \in T \cup {Nil[k]} BY <1>1, <1>3, <1>6, WalkEndsIn
  <2>6. Refused(t, es, i) <=> \/ k = "asid" /\ g # GlobalNil /\ DoEntriesOverlap(es[i], es[g])
                              \/ /\ cur # Nil[k]
                                 /\ k = "global" \/ DoASIDsMatch(es[i], es[cur])
                                 /\ DoEntriesOverlap(es[i], es[cur])
    BY <1>1 DEF Refused
  <2> HIDE DEF cur, g
  <2> QED BY <1>6, <1>7, <2>1, <2>2, <2>4, <2>5, <2>6
<1>12. /\ \E DD, HH : RBTree(x, k, T \cup {i}, key, DD, HH)
       /\ Frame(x, t, k, T \cup {i})
  BY <1>1, <1>2, <1>3, <1>6, <1>8, <1>11, InsertIs
<1>13. x \in TreeType BY <1>12 DEF RBTree, Shape
<1>14. ASSUME NEW j \in Trees
       PROVE  \E DD, HH : RBTree(x, j, OfTree(S \cup {i}, es, j), Firsts(es), DD, HH)
  <2>1. CASE j = k BY <1>10, <1>12, <2>1 DEF key
  <2>2. CASE j # k
    <3> DEFINE U == OfTree(S, es, j)
               W == T \cup {i}
    <3>1. U \subseteq Slots /\ U \cap W = {} /\ OfTree(S \cup {i}, es, j) = U /\ W \subseteq Slots
      BY <1>0, <1>2, <1>9, <2>2 DEF OfTree
    <3>2. PICK DD, HH : RBTree(t, j, U, Firsts(es), DD, HH) BY DEF Forest
    <3>3. Frame(x, t, k, W) BY <1>12
    <3> HIDE DEF U, W
    <3>4. SameOn(x, t, j, U) BY <1>0, <1>1, <1>13, <2>2, <3>1, <3>3, FramesApart
    <3>5. SameKeys(key, key, U) BY <1>5 DEF SameKeys
    <3>6. RBTree(x, j, U, key, DD, HH) BY <3>2, <3>4, <3>5, SameTree DEF key
    <3> QED BY <3>1, <3>6 DEF key
  <2> QED BY <2>1, <2>2
<1>15. ASSUME NEW j \in Slots \ (S \cup {i}) PROVE Parent(x, j) = Parent(t, j)
  <2>1. j \in Nodes /\ j \notin T \cup {i} /\ j # Nil[k] BY <1>1, NilNodes DEF Nodes, T, OfTree
  <2> QED BY <1>12, <2>1 DEF Frame
<1>16. Forest(x, S \cup {i}, es) BY <1>0, <1>13, <1>14 DEF Forest
<1> QED BY <1>15, <1>16

-----------------------------------------------------------------------------
(* The invariant, and the write that keeps it. *)

(* The slots in use: TLBWI evicts by the same test. *)
LiveIn(t) == {j \in Slots : Parent(t, j) # NULL}

(* Slot i is written: its entry is evicted, and another one inserted. *)
LEMMA WriteForest ==
  ASSUME NEW t, Forest(t, LiveIn(t), entries), NEW i \in Slots,
         NEW es \in [Slots -> StoredEntries], \A j \in Slots \ {i} : es[j] = entries[j],
         Room(LiveIn(t) \ {i}, es, i),
         NEW x, x = TLBTreeInsert(TLBTreeEvict(t, i), es, i)
  PROVE  /\ LiveIn(x) = LiveIn(t) \cup {i}
         /\ Forest(x, LiveIn(x), es)
<1> DEFINE y == TLBTreeEvict(t, i)
           L == LiveIn(t)
           S == L \ {i}
<1>1. L \subseteq Slots /\ \A j \in Slots : j \in L <=> Parent(t, j) # NULL BY DEF LiveIn
<1>2. /\ Forest(y, S, entries)
      /\ \A j \in Slots \ S : Parent(y, j) = NULL
  <2>1. CASE i \in L
    <3>1. y = TLBTreeEvict(t, i) OBVIOUS
    <3> HIDE DEF y, L
    <3>2. /\ Forest(y, L \ {i}, entries)
          /\ Parent(y, i) = NULL
          /\ \A j \in Slots \ L : Parent(y, j) = Parent(t, j)
      BY <2>1, <3>1, EvictForest DEF L
    <3>3. \A j \in Slots \ S : j = i \/ j \in Slots \ L OBVIOUS
    <3> QED BY <1>1, <3>2, <3>3
  <2>2. CASE i \notin L
    <3>1. y = t BY <1>1, <2>2 DEF TLBTreeEvict
    <3>2. S = L BY <2>2
    <3> HIDE DEF y, L, S
    <3> QED BY <1>1, <3>1, <3>2 DEF L
  <2> QED BY <2>1, <2>2
<1>3. \A j \in S : es[j] = entries[j] BY <1>1
<1>4. x = TLBTreeInsert(y, es, i) /\ i \notin S /\ Room(S, es, i) OBVIOUS
<1>5. S \cup {i} = L \cup {i} OBVIOUS
<1> HIDE DEF y, L, S
<1>6. Forest(y, S, es) BY <1>2, <1>3, Rewrite
<1>7. /\ Forest(x, S \cup {i}, es)
      /\ \A j \in Slots \ (S \cup {i}) : Parent(x, j) = Parent(y, j)
  BY <1>4, <1>6, InsertForest
<1>8. \A j \in S \cup {i} : Parent(x, j) # NULL
  <2> DEFINE U == S \cup {i}
  <2>1. Forest(x, U, es) BY <1>7
  <2> HIDE DEF U
  <2>2. \A j \in U : Parent(x, j) # NULL BY <2>1, Linked
  <2> QED BY <2>2 DEF U
<1>9. LiveIn(x) = S \cup {i}
  <2>1. \A j \in Slots \ (S \cup {i}) : Parent(x, j) = NULL BY <1>2, <1>7
  <2>2. S \cup {i} \subseteq Slots BY <1>1 DEF S
  <2> QED BY <1>8, <2>1, <2>2 DEF LiveIn
<1> QED BY <1>5, <1>7, <1>9 DEF L

(* Every slot in use holds an entry of Uses for that slot. *)
Sourced(t) == \A j \in LiveIn(t) : \E e \in Contents : <<j, e>> \in Uses /\ entries[j] = Stored(e)

(* No two slots in use clash. *)
Apart(t) == \A i, j \in LiveIn(t) : i = j \/ ~Clash(entries[i], entries[j])

(* The inductive invariant: two red-black trees hold exactly the slots in use, *)
(* these hold entries software uses, and no two of them clash.  Without Apart  *)
(* the trees would not be ordered, and without Sourced the next write could    *)
(* clash.                                                                      *)
TLBInv ==
  /\ regs \in Contents
  /\ index \in [probe : BOOLEAN, index : Slots]
  /\ Forest(tree, LiveIn(tree), entries)
  /\ Sourced(tree)
  /\ Apart(tree)

(* An entry clashes as its stored form does. *)
LEMMA StoredClash ==
  ASSUME NEW e \in Contents, NEW f
  PROVE  /\ IsGlobalEntry(Stored(e)) <=> IsGlobalEntry(e)
         /\ Pairs(Stored(e)) = Pairs(e)
         /\ Clash(Stored(e), f) <=> Clash(e, f)
         /\ Clash(f, Stored(e)) <=> Clash(e, f)
<1>1. /\ Stored(e).lo0 = e.lo0 /\ Stored(e).lo1 = e.lo1 /\ Stored(e).asid = e.asid
      /\ Pairs(Stored(e)) = Pairs(e)
  BY StoredIs DEF StoredOK
<1>2. IsGlobalEntry(Stored(e)) <=> IsGlobalEntry(e) BY <1>1 DEF IsGlobalEntry
<1>3. Pairs(e) \cap Pairs(f) = Pairs(f) \cap Pairs(e) OBVIOUS
<1> QED BY <1>1, <1>2, <1>3 DEF Clash

(* TLBWI keeps the invariant: whatever the slot held is evicted, and there is *)
(* room for what is written.                                                  *)
LEMMA WriteKeepsInv ==
  ASSUME OneSpaceIn(Uses), TLBInv, TLBWI
  PROVE  /\ TLBInv'
         /\ LiveIn(tree') = LiveIn(tree) \cup {index.index}
         /\ entries' = [entries EXCEPT ![index.index] = Stored(regs)]
<1> DEFINE i == index.index
           e == regs
           f == Stored(e)
           es == entries'
           L == LiveIn(tree)
           x == tree'
<1>1. i \in Slots /\ e \in Contents /\ <<i, e>> \in Uses /\ entries \in [Slots -> StoredEntries]
      /\ L \subseteq Slots
  BY DEF TLBInv, TLBWI, Forest, LiveIn
<1>2. es = [entries EXCEPT ![i] = f] BY DEF TLBWI, Stored
<1>3. f \in StoredEntries BY <1>1 DEF StoredEntries
<1>4. x = TLBTreeInsert(TLBTreeEvict(tree, i), es, i) BY DEF TLBWI
<1>5. \A j \in L \ {i} : ~Clash(e, entries[j]) BY DEF TLBWI, Disciplined, LiveIn, InTree
<1>6. regs' = regs /\ index' = index BY DEF TLBWI
<1> HIDE DEF i, e, f, es, x
<1>7. es \in [Slots -> StoredEntries] /\ es[i] = f /\ \A j \in Slots \ {i} : es[j] = entries[j]
  BY <1>1, <1>2, <1>3
<1>8. \A j \in L \ {i} : es[j] = entries[j] BY <1>1, <1>7
<1>9. /\ IsGlobalEntry(f) <=> IsGlobalEntry(e)
      /\ Pairs(f) = Pairs(e)
  BY <1>1, StoredClash DEF f
<1>10. Room(L \ {i}, es, i)
  <2>1. ASSUME NEW m \in L \ {i}, TreeOf(es[i]) = "global" \/ TreeOf(es[m]) = "global"
        PROVE  Pairs(es[i]) \cap Pairs(es[m]) = {}
    <3>1. es[m] = entries[m] /\ ~Clash(e, entries[m]) BY <1>5, <1>8
    <3>2. IsGlobalEntry(e) \/ IsGlobalEntry(entries[m]) BY <1>7, <1>9, <2>1, <3>1, KindOf
    <3>3. Pairs(e) \cap Pairs(entries[m]) = {} BY <3>1, <3>2 DEF Clash
    <3> QED BY <1>7, <1>9, <3>1, <3>3
  <2>2. ASSUME TreeOf(es[i]) = "asid", NEW m \in OfTree(L \ {i}, es, "asid") PROVE FALSE
    <3>1. m \in L \ {i} /\ TreeOf(es[m]) = "asid" /\ es[m] = entries[m] BY <1>8 DEF OfTree
    <3>2. PICK d \in Contents : <<m, d>> \in Uses /\ entries[m] = Stored(d)
      BY <3>1 DEF TLBInv, Sourced
    <3>3. ~IsGlobalEntry(d)
      <4>1. ~IsGlobalEntry(Stored(d)) BY <3>1, <3>2 DEF TreeOf
      <4> QED BY <4>1, StoredClash
    <3>4. ~IsGlobalEntry(e) BY <1>7, <1>9, <2>2 DEF TreeOf
    <3>5. \A u, v \in Uses : IsGlobalEntry(u[2]) \/ IsGlobalEntry(v[2]) \/ u[1] = v[1]
      BY DEF OneSpaceIn
    <3>6. <<m, d>>[2] = d /\ <<i, e>>[2] = e /\ <<m, d>>[1] = m /\ <<i, e>>[1] = i OBVIOUS
    <3>7. m = i BY <1>1, <3>2, <3>3, <3>4, <3>5, <3>6
    <3> QED BY <3>1, <3>7
  <2> QED BY <2>1, <2>2 DEF Room
<1>11. Forest(tree, L, entries) BY DEF TLBInv
<1>12. LiveIn(x) = L \cup {i} /\ Forest(x, LiveIn(x), es)
  BY <1>1, <1>4, <1>7, <1>10, <1>11, WriteForest
<1>13. \A j \in LiveIn(x) : \E d \in Contents : <<j, d>> \in Uses /\ es[j] = Stored(d)
  <2>1. ASSUME NEW j \in LiveIn(x) PROVE \E d \in Contents : <<j,
               d>> \in Uses /\ es[j] = Stored(d)
    <3>1. CASE j = i BY <1>1, <1>7, <3>1 DEF f
    <3>2. CASE j # i
      <4>1. j \in L /\ es[j] = entries[j] BY <1>8, <1>12, <3>2
      <4> QED BY <4>1 DEF TLBInv, Sourced
    <3> QED BY <3>1, <3>2
  <2> QED BY <2>1
<1>14. ASSUME NEW a \in LiveIn(x), NEW b \in LiveIn(x), a # b PROVE ~Clash(es[a], es[b])
  <2>1. a \in L \cup {i} /\ b \in L \cup {i} BY <1>12
  <2>2. CASE a = i
    <3>1. b \in L \ {i} /\ es[b] = entries[b] BY <1>8, <1>14, <2>1, <2>2
    <3>2. ~Clash(e, es[b]) BY <1>5, <3>1
    <3> QED BY <1>1, <1>7, <2>2, <3>2, StoredClash DEF f
  <2>3. CASE b = i
    <3>1. a \in L \ {i} /\ es[a] = entries[a] BY <1>8, <1>14, <2>1, <2>3
    <3>2. ~Clash(e, es[a]) BY <1>5, <3>1
    <3> QED BY <1>1, <1>7, <2>3, <3>2, StoredClash DEF f
  <2>4. CASE a # i /\ b # i
    <3>1. a \in L /\ b \in L /\ es[a] = entries[a] /\ es[b] = entries[b] BY <1>8, <2>1, <2>4
    <3> QED BY <1>14, <3>1 DEF TLBInv, Apart
  <2> QED BY <2>2, <2>3, <2>4
<1>15. regs' \in Contents /\ index' \in [probe : BOOLEAN, index : Slots] BY <1>6 DEF TLBInv
<1>16. Forest(tree, LiveIn(tree), entries)'
  <2>1. Forest(tree', LiveIn(tree'), entries') BY <1>12 DEF x, es
  <2> QED BY <2>1 DEF Forest, LiveIn, RBTree, OfTree
<1>17. Sourced(tree)' BY <1>13 DEF x, es, Sourced
<1>18. Apart(tree)' BY <1>14 DEF x, es, Apart
<1> QED BY <1>2, <1>12, <1>15, <1>16, <1>17, <1>18 DEF TLBInv, x, es, i, f, e

-----------------------------------------------------------------------------
(* The search of the two trees. *)

(* The entry of slot i maps the pair of pages v. *)
Maps(v, i) == v \in Pairs(entries[i])

(* The comparison of SearchTree. *)
LEMMA UnmaskedIs ==
  ASSUME NEW f \in StoredEntries, NEW v \in Nat
  PROVE  f.vpn2 = Unmasked(v, f.mask) <=> v \in Pairs(f)
<1> DEFINE b == f.vpn2
           d == f.mask + 1
<1>1. PICK e \in Contents : f = Stored(e) BY DEF StoredEntries
<1>2. StoredOK(f, e) BY <1>1, StoredIs
<1>3. b \in Nat /\ d \in Nat \ {0} /\ b % d = 0 /\ Pairs(f) = b .. b + d - 1
  BY <1>2 DEF StoredOK
<1>4. Unmasked(v, f.mask) = v - (v % d) BY DEF Unmasked
<1> HIDE DEF b, d
<1>5. v % d \in 0 .. d - 1 BY <1>3, DivMod
<1>6. ASSUME b = v - (v % d) PROVE v \in b .. b + d - 1 BY <1>3, <1>5, <1>6
<1>7. ASSUME v \in b .. b + d - 1 PROVE b = v - (v % d)
  <2> DEFINE r == v - b
  <2>1. r \in 0 .. d - 1 /\ r \in Int /\ v = b + r BY <1>3, <1>7
  <2> HIDE DEF r
  <2>2. (b + r) % d = r % d
    <3>1. b \in Int /\ r \in Int /\ d \in Nat \ {0} /\ b % d = 0 BY <1>3, <2>1
    <3> QED BY <3>1, PlusMultiple
  <2>3. (d * 0 + r) % d = r BY <1>3, <2>1, DivModIs
  <2>4. d * 0 + r = r BY <1>3, <2>1
  <2> QED BY <1>3, <2>1, <2>2, <2>3, <2>4
<1> QED BY <1>3, <1>4, <1>6, <1>7 DEF b

(* The entries of a tree do not overlap. *)
Spread(T) == \A a, b \in T : a = b \/ Pairs(entries[a]) \cap Pairs(entries[b]) = {}

(* The search of a tree finds the node that maps v. *)
LEMMA SearchIs ==
  ASSUME entries \in [Slots -> StoredEntries], NEW k \in Trees, NEW T, NEW D, NEW H,
         RBTree(tree, k, T, Firsts(entries), D, H), Spread(T), NEW v \in Nat,
         NEW last, last = SearchTree(k, Root(tree, k), v)
  PROVE  \/ last = NULL /\ \A m \in T : ~Maps(v, m)
         \/ last \in T /\ Maps(v, last)
<1> DEFINE z == Nil[k]
           key == Firsts(entries)
           next == [m \in Slots |->
                 IF entries[m].vpn2 = Unmasked(v, entries[m].mask) THEN m
                 ELSE Child(tree, m, IF v < entries[m].vpn2 THEN "left" ELSE "right")]
           side(m) == IF v < entries[m].vpn2 THEN "left" ELSE "right"
           end == Walk(next, Root(tree, k))
           S == {x \in T \cup {z} : \A m \in T : Maps(v, m) => m \in Sub(D, x)}
<1>0. z \in Nodes /\ z \notin Slots /\ Slots \subseteq Nodes BY NilNodes DEF Nodes
<1>1. Shape(tree, k, D, key) /\ T = Members(tree, k, D) /\ tree \in TreeType
  BY DEF RBTree, Shape
<1>2. T \subseteq Slots
  <2>1. Root(tree, k) \in Nodes BY <1>1, Typed
  <2> QED BY <1>1, <2>1 DEF Shape, Members
<1>3. \A m \in T : NodeOK(tree, k, D, key, m) /\ Kin(tree, k, D, key, m)
  BY <1>1, Family DEF Shape
<1>4. \A m \in Slots : next[m] = IF Maps(v, m) THEN m ELSE Child(tree, m, side(m))
  <2>1. ASSUME NEW m \in Slots PROVE entries[m].vpn2 = Unmasked(v, entries[m].mask) <=> Maps(v, m)
    <3>1. entries[m] \in StoredEntries OBVIOUS
    <3> QED BY <3>1, UnmaskedIs DEF Maps
  <2> QED BY <2>1
<1>5. \A m \in Slots : /\ entries[m].vpn2 \in Nat /\ entries[m].mask \in Nat
                       /\ key[m] = entries[m].vpn2
                       /\ Maps(v, m) <=> v \in entries[m].vpn2 .. entries[m].vpn2 + entries[m].mask
                       /\ Pairs(entries[m]) = entries[m].vpn2 .. entries[m].vpn2 + entries[m].mask
  BY StoredRange, FirstsType DEF Maps
<1>6. last = IF end = z THEN NULL ELSE end BY DEF SearchTree
<1>7. Sub(D, z) = {} BY <1>1 DEF Shape
<1>8. \A m : side(m) \in Sides BY DEF Sides
<1>9. ASSUME NEW m \in T, ~Maps(v, m), NEW h \in T, Maps(v, h), NEW s \in Sides,
             Beyond(key, s, h, m)
      PROVE  s = side(m)
  <2> DEFINE a == entries[m].vpn2
             b == entries[m].vpn2 + entries[m].mask
             c == entries[h].vpn2
             d == entries[h].vpn2 + entries[h].mask
  <2>1. /\ a \in Nat /\ b \in Nat /\ a <= b /\ c \in Nat /\ d \in Nat /\ c <= d
        /\ ~(a <= v /\ v <= b) /\ c <= v /\ v <= d
        /\ key[m] = a /\ key[h] = c
        /\ Pairs(entries[m]) = a .. b /\ Pairs(entries[h]) = c .. d
    BY <1>2, <1>5, <1>9
  <2>2. m # h BY <1>9
  <2>3. Pairs(entries[m]) \cap Pairs(entries[h]) = {} BY <1>9, <2>2 DEF Spread
  <2>4. a \notin c .. d
    <3> HIDE DEF a, b, c, d
    <3>1. a \in a .. b BY <2>1
    <3> QED BY <2>1, <2>3, <3>1
  <2>5. side(m) = IF v < a THEN "left" ELSE "right" OBVIOUS
  <2>6. s = "left" \/ s = "right" BY DEF Sides
  <2> HIDE DEF a, b, c, d, side, key
  <2>7. ~(c <= a /\ a <= d) BY <2>1, <2>4
  <2>8. CASE s = "left"
    <3>1. c < a BY <1>9, <2>1, <2>8 DEF Beyond
    <3> QED BY <2>1, <2>5, <2>7, <2>8, <3>1
  <2>9. CASE s = "right"
    <3>1. a < c BY <1>9, <2>1, <2>9 DEF Beyond
    <3> QED BY <2>1, <2>5, <2>9, <3>1
  <2> QED BY <2>6, <2>8, <2>9
<1> HIDE DEF next, side, end, key
<1>10. Root(tree, k) \in S
  <2>1. Root(tree, k) \in T \cup {z} BY <1>1 DEF Shape
  <2> QED BY <1>1, <2>1 DEF Members
<1>11. ASSUME NEW m \in S
       PROVE  /\ Sub(D, m) \subseteq Slots
              /\ m \in Slots => /\ next[m] \in S
                                /\ next[m] # m => /\ Sub(D, next[m]) \subseteq Sub(D, m)
                                                  /\ m \in Sub(D, m)
                                                  /\ m \notin Sub(D, next[m])
  <2>1. Sub(D, m) \subseteq Slots BY <1>0, <1>1, <1>2 DEF Shape
  <2>2. ASSUME m \in Slots
        PROVE  /\ next[m] \in S
               /\ next[m] # m => /\ Sub(D, next[m]) \subseteq Sub(D, m)
                                 /\ m \in Sub(D, m)
                                 /\ m \notin Sub(D, next[m])
    <3>1. m \in T BY <1>0, <2>2
    <3>2. CASE Maps(v, m) BY <1>4, <2>2, <3>2
    <3>3. CASE ~Maps(v, m)
      <4> DEFINE c == Child(tree, m, side(m))
      <4>1. next[m] = c BY <1>4, <2>2, <3>3
      <4>2. c \in T \cup {z} BY <1>1, <1>3, <1>8, <3>1 DEF Kin
      <4>3. /\ m \in Sub(D, m) /\ Sub(D, c) \subseteq Sub(D, m)
            /\ \A j \in Sub(D, c) : Beyond(key, side(m), j, m)
            /\ \A j \in Sub(D, m) : j = m \/ \E s \in Sides : j \in Sub(D, Child(tree, m, s))
        BY <1>3, <1>8, <3>1 DEF NodeOK
      <4>4. m \notin Sub(D, c) BY <1>1, <1>8, <2>2, <4>3, BeyondFacts DEF Shape
      <4>5. ASSUME NEW h \in T, Maps(v, h) PROVE h \in Sub(D, c)
        <5>1. h \in Sub(D, m) /\ h # m BY <3>3, <4>5
        <5>2. PICK s \in Sides : h \in Sub(D, Child(tree, m, s)) BY <4>3, <5>1
        <5>3. Beyond(key, s, h, m) BY <1>3, <3>1, <5>2 DEF NodeOK
        <5>4. s = side(m) BY <1>9, <3>1, <3>3, <4>5, <5>3
        <5> QED BY <5>2, <5>4
      <4> HIDE DEF c
      <4>6. c \in S BY <4>2, <4>5
      <4> QED BY <4>1, <4>3, <4>4, <4>6
    <3> QED BY <3>2, <3>3
  <2> QED BY <2>1, <2>2
<1>12. end \in S /\ (end \in Slots => next[end] = end)
  <2> HIDE DEF S
  <2>1. Down(next, S, D) BY <1>11 DEF Down
  <2> QED BY <1>10, <2>1, WalkIs DEF end
<1>13. CASE end = z BY <1>6, <1>7, <1>12, <1>13
<1>14. CASE end # z
  <2>1. end \in T /\ end \in Slots BY <1>2, <1>12, <1>14
  <2>2. Child(tree, end, side(end)) # end BY <1>3, <1>8, <2>1 DEF Kin
  <2>3. Maps(v, end) BY <1>4, <1>12, <2>1, <2>2
  <2> QED BY <1>6, <1>14, <2>1, <2>3
<1> QED BY <1>13, <1>14

(* The walk to an address space in a tree with a single node. *)
LEMMA FindIs ==
  ASSUME NEW k \in Trees, NEW T, NEW key, NEW D, NEW H, RBTree(tree, k, T, key, D, H),
         NEW r \in Slots, T = {r}, NEW asid
  PROVE  /\ Root(tree, k) = r
         /\ FindASID(r, asid) = IF entries[r].asid = asid THEN r ELSE Nil[k]
<1> DEFINE z == Nil[k]
           next == [m \in Slots |->
          IF entries[m].asid = asid THEN m
          ELSE Child(tree, m, IF asid < entries[m].asid THEN "left" ELSE "right")]
           end == Walk(next, r)
<1>0. z \in Nodes /\ z \notin Slots /\ Slots \subseteq Nodes BY NilNodes DEF Nodes
<1>1. Shape(tree, k, D, key) /\ T = Members(tree, k, D) BY DEF RBTree
<1>2. Root(tree, k) = r
  <2>1. Sub(D, z) = {} BY <1>1 DEF Shape
  <2>2. Root(tree, k) # z BY <1>1, <2>1 DEF Members
  <2> QED BY <1>1, <2>2 DEF Shape
<1>3. Kin(tree, k, D, key, r) /\ NodeOK(tree, k, D, key, r) BY <1>1, Family DEF Shape
<1>4. \A s \in Sides : Child(tree, r, s) = z BY <1>1, <1>3 DEF Kin
<1>5. next[r] = IF entries[r].asid = asid THEN r ELSE z BY <1>4 DEF Sides
<1>6. end = FindASID(r, asid) BY DEF FindASID
<1>7. Sub(D, z) = {} /\ Sub(D, r) \subseteq Slots /\ r \in Sub(D, r)
  BY <1>0, <1>1, <1>3 DEF Shape, NodeOK
<1> HIDE DEF next
<1>8. CASE entries[r].asid = asid
  <2>1. Down(next, {r}, D) BY <1>5, <1>7, <1>8 DEF Down
  <2>2. end \in {r} BY <2>1, WalkIs
  <2> QED BY <1>2, <1>6, <1>8, <2>2
<1>9. CASE entries[r].asid # asid
  <2>1. Down(next, {r, z}, D) BY <1>0, <1>5, <1>7, <1>9 DEF Down
  <2>2. end \in {r, z} /\ (end \in Slots => next[end] = end) BY <2>1, WalkIs
  <2>3. end = z BY <1>0, <1>5, <1>9, <2>2
  <2> QED BY <1>2, <1>6, <1>9, <2>3
<1> QED BY <1>8, <1>9

(* Entry i translates the pair v for an address space. *)
Translates(asid, v, i) ==
  /\ i \in LiveIn(tree)
  /\ IsGlobalEntry(entries[i]) \/ entries[i].asid = asid
  /\ Maps(v, i)

(* The node found is one that translates, or there is none. *)
Found(n, asid, v) ==
  \/ n = NULL /\ \A i \in Slots : ~Translates(asid, v, i)
  \/ n \in Slots /\ Translates(asid, v, n)

(* TLBTreeLookup finds the entry that translates, in whichever tree it is. *)
LEMMA LookupIs ==
  ASSUME OneSpaceIn(Uses), TLBInv, NEW asid, NEW region, NEW vpn2,
         NEW v \in Nat, v = Merge(region, vpn2),
         NEW n, n = TLBTreeLookup(asid, region, vpn2)
  PROVE  Found(n, asid, v)
<1> DEFINE L == LiveIn(tree)
           G == OfTree(L, entries, "global")
           A == OfTree(L, entries, "asid")
           key == Firsts(entries)
           global == SearchTree("global", Root(tree, "global"), v)
           private == SearchTree("asid", FindASID(Root(tree, "asid"), asid), v)
<1>1. /\ "global" \in Trees /\ "asid" \in Trees
      /\ entries \in [Slots -> StoredEntries] /\ L \subseteq Slots
      /\ \A k \in Trees : \E D, H : RBTree(tree, k, OfTree(L, entries, k), key, D, H)
  BY DEF TLBInv, Forest, Trees
<1>2. PICK D, H : RBTree(tree, "global", G, key, D, H) BY <1>1
<1>3. PICK E, F : RBTree(tree, "asid", A, key, E, F) BY <1>1
<1>4. /\ G \subseteq L /\ A \subseteq L
      /\ \A i \in L : i \in G <=> IsGlobalEntry(entries[i])
      /\ \A i \in L : i \in A <=> ~IsGlobalEntry(entries[i])
  BY DEF OfTree, TreeOf
<1>5. Spread(G)
  <2>1. ASSUME NEW a \in G, NEW b \in G,
               a # b PROVE Pairs(entries[a]) \cap Pairs(entries[b]) = {}
    <3>1. ~Clash(entries[a], entries[b]) /\ IsGlobalEntry(entries[a])
      BY <1>4, <2>1 DEF TLBInv, Apart
    <3> QED BY <3>1 DEF Clash
  <2> QED BY <2>1 DEF Spread
<1>6. ASSUME NEW a \in A, NEW b \in A PROVE a = b
  <2>1. PICK d \in Contents : <<a, d>> \in Uses /\ entries[a] = Stored(d)
    BY <1>4 DEF TLBInv, Sourced
  <2>2. PICK e \in Contents : <<b, e>> \in Uses /\ entries[b] = Stored(e)
    BY <1>4 DEF TLBInv, Sourced
  <2>3. ~IsGlobalEntry(Stored(d)) /\ ~IsGlobalEntry(Stored(e)) BY <1>4, <2>1, <2>2
  <2>4. ~IsGlobalEntry(d) /\ ~IsGlobalEntry(e) BY <2>3, StoredClash
  <2>5. \A u, w \in Uses : IsGlobalEntry(u[2]) \/ IsGlobalEntry(w[2]) \/ u[1] = w[1]
    BY DEF OneSpaceIn
  <2>6. <<a, d>>[2] = d /\ <<b, e>>[2] = e /\ <<a, d>>[1] = a /\ <<b, e>>[1] = b OBVIOUS
  <2> QED BY <2>1, <2>2, <2>4, <2>5, <2>6
<1>7. n = IF global # NULL THEN global ELSE private BY DEF TLBTreeLookup
<1>8. NULL \notin Slots BY NodesAssumption
<1> HIDE DEF L, G, A, key, global, private
<1>9. \/ global = NULL /\ \A m \in G : ~Maps(v, m)
      \/ global \in G /\ Maps(v, global)
  BY <1>1, <1>2, <1>5, SearchIs DEF key, global
<1>10. \/ private = NULL /\ \A m \in A : ~(entries[m].asid = asid /\ Maps(v, m))
       \/ private \in A /\ entries[private].asid = asid /\ Maps(v, private)
  <2> DEFINE from == FindASID(Root(tree, "asid"), asid)
  <2>1. private = SearchTree("asid", from, v) BY DEF private
  <2>2. SearchTree("asid", Nil["asid"], v) = NULL BY <1>1, NilWalk DEF SearchTree
  <2>3. CASE A = {}
    <3>1. Root(tree, "asid") = Nil["asid"] BY <1>3, <2>3 DEF RBTree, Shape
    <3>2. from = Nil["asid"] BY <1>1, <3>1, NilWalk DEF FindASID
    <3> QED BY <2>1, <2>2, <2>3, <3>2
  <2>4. CASE A # {}
    <3>1. PICK r \in A : TRUE BY <2>4
    <3>2. A = {r} BY <1>6, <3>1
    <3>3. r \in Slots BY <1>1, <1>4, <3>1
    <3>4. /\ Root(tree, "asid") = r
          /\ FindASID(r, asid) = IF entries[r].asid = asid THEN r ELSE Nil["asid"]
      BY <1>1, <1>3, <3>2, <3>3, FindIs
    <3> HIDE DEF from
    <3>5. CASE entries[r].asid = asid
      <4>1. Spread(A) BY <3>2 DEF Spread
      <4>2. private = SearchTree("asid", Root(tree, "asid"), v) BY <2>1, <3>4, <3>5 DEF from
      <4>3. \/ private = NULL /\ \A m \in A : ~Maps(v, m)
            \/ private \in A /\ Maps(v, private)
        BY <1>1, <1>3, <4>1, <4>2, SearchIs DEF key
      <4> QED BY <3>2, <3>5, <4>3
    <3>6. CASE entries[r].asid # asid
      <4>1. private = NULL BY <2>1, <2>2, <3>4, <3>6 DEF from
      <4> QED BY <3>2, <3>6, <4>1
    <3> QED BY <3>5, <3>6
  <2> QED BY <2>3, <2>4
<1>11. CASE global # NULL
  <2>1. n \in G /\ Maps(v, n) BY <1>7, <1>9, <1>11
  <2> QED BY <1>1, <1>4, <2>1 DEF Found, Translates, L
<1>12. CASE global = NULL /\ private # NULL
  <2>1. n \in A /\ entries[n].asid = asid /\ Maps(v, n) BY <1>7, <1>10, <1>12
  <2> QED BY <1>1, <1>4, <2>1 DEF Found, Translates, L
<1>13. CASE global = NULL /\ private = NULL
  <2>1. n = NULL BY <1>7, <1>13
  <2>2. \A m \in G : ~Maps(v, m) BY <1>1, <1>4, <1>8, <1>9, <1>13
  <2>3. \A m \in A : ~(entries[m].asid = asid /\ Maps(v, m)) BY <1>1, <1>4, <1>8, <1>10, <1>13
  <2>4. ASSUME NEW i \in Slots PROVE ~Translates(asid, v, i)
    BY <1>4, <2>2, <2>3 DEF Translates, L
  <2> QED BY <2>1, <2>4 DEF Found
<1> QED BY <1>11, <1>12, <1>13

-----------------------------------------------------------------------------
(* The invariant holds. *)

(* A tree whose root is nil is a red-black tree without nodes. *)
LEMMA EmptyTree ==
  ASSUME NEW t \in TreeType, NEW k \in Trees, Root(t, k) = Nil[k], Color(t, Nil[k]) = BLACK,
         NEW key \in [Slots -> Int]
  PROVE  \E D, H : RBTree(t, k, {}, key, D, H)
<1> DEFINE D == [n \in Nodes |-> {}]
           H == [n \in Nodes |-> 0]
<1>0. Nil[k] \in Nodes /\ Nil[k] \notin Slots BY NilNodes
<1>1. \A n \in Nodes : Sub(D, n) = {} BY DEF Sub
<1>2. \A n \in Nodes : Ht(H, n) = 0 BY DEF Ht
<1> HIDE DEF D, H
<1>3. Members(t, k, D) = {} BY <1>0, <1>1 DEF Members
<1>4. Shape(t, k, D, key) BY <1>0, <1>1, <1>3 DEF Shape
<1>5. Levels(t, k, {}, H, NULL, "left") BY <1>0, <1>2 DEF Levels
<1>6. RBTree(t, k, {}, key, D, H) BY <1>3, <1>4, <1>5 DEF RBTree
<1> QED BY <1>6

(* The TLB of VR4300InitTLB and TLBTreeInit has empty trees. *)
LEMMA InitInv ==
  ASSUME Init
  PROVE  TLBInv
<1>1. tree \in TreeType BY DEF Init, TreeType, Unused, Nil, Nodes, Trees, Sides, RED, BLACK
<1>2. /\ \A k \in Trees : Root(tree, k) = Nil[k] /\ Color(tree, Nil[k]) = BLACK
      /\ \A n \in Slots : Parent(tree, n) = NULL
  <2>1. Slots \subseteq Nodes /\ \A k \in Trees : Nil[k] \in Nodes BY NilNodes DEF Nodes
  <2> QED BY <2>1 DEF Init, Root, Color, Parent
<1>3. LiveIn(tree) = {} BY <1>2 DEF LiveIn
<1>4. Empty \in Contents /\ Empty.region = 0 BY EntriesAssumption DEF Contents
<1>5. Stored(Empty) = Empty
  <2>1. /\ Empty \in [region : 0 .. 3, vpn2 : 0 .. RegionSize - 1, mask : Nat, asid :
             Nat, lo0 : Halves, lo1 : Halves]
        /\ RegionSize \in Nat \ {0}
        /\ Empty.vpn2 \in 0 .. RegionSize - 1
    BY <1>4, ContentIs
  <2>2. Merge(Empty.region, Empty.vpn2) = Empty.vpn2
    <3> DEFINE v == Empty.vpn2
    <3>1. v \in Int /\ RegionSize \in Int BY <2>1
    <3> HIDE DEF v
    <3>2. 0 * RegionSize + v = v BY <3>1
    <3> QED BY <1>4, <3>2 DEF Merge, v
  <2> QED BY <2>1, <2>2 DEF Stored
<1>6. entries \in [Slots -> StoredEntries] BY <1>4, <1>5 DEF Init, StoredEntries
<1>7. ASSUME NEW k \in Trees
      PROVE  \E D, H : RBTree(tree, k, OfTree({}, entries, k), Firsts(entries), D, H)
  <2> DEFINE key == Firsts(entries)
  <2>1. key \in [Slots -> Int] BY <1>6, FirstsType
  <2>2. OfTree({}, entries, k) = {} BY DEF OfTree
  <2> HIDE DEF key
  <2>3. \E D, H : RBTree(tree, k, {}, key, D, H) BY <1>1, <1>2, <2>1, EmptyTree
  <2> QED BY <2>2, <2>3 DEF key
<1>8. Forest(tree, LiveIn(tree), entries) BY <1>1, <1>3, <1>6, <1>7 DEF Forest
<1>9. regs \in Contents /\ index \in [probe : BOOLEAN, index : Slots] BY <1>4 DEF Init
<1> QED BY <1>3, <1>8, <1>9 DEF TLBInv, Sourced, Apart

(* The registers an entry is read back to. *)
LEMMA FoldedIs ==
  ASSUME NEW f \in StoredEntries
  PROVE  Folded(f) \in Contents
<1>1. PICK e \in Contents : f = Stored(e) BY DEF StoredEntries
<1>2. StoredOK(f, e) BY <1>1, StoredIs
<1> QED BY <1>2 DEF StoredOK

(* The pair of pages a probe asks for. *)
LEMMA ProbeIs ==
  ASSUME OneSpaceIn(Uses), TLBInv, TLBP
  PROVE  LET n == TLBTreeLookup(regs.asid, regs.region, regs.vpn2)
         IN  /\ Merge(regs.region, regs.vpn2) \in Nat
             /\ Found(n, regs.asid, Merge(regs.region, regs.vpn2))
             /\ index' = IF n # NULL THEN [probe |-> TRUE, index |-> n]
                         ELSE [index EXCEPT !.probe = FALSE]
             /\ UNCHANGED <<tree, entries, regs>>
<1> DEFINE n == TLBTreeLookup(regs.asid, regs.region, regs.vpn2)
           r == regs.region
           w == regs.vpn2
           v == Merge(r, w)
<1>1. r \in 0 .. 3 /\ w \in 0 .. RegionSize - 1 /\ RegionSize \in Nat \ {0}
  BY ContentIs DEF TLBInv
<1>2. v \in Nat
  <2> HIDE DEF r, w
  <2> QED BY <1>1, MergeIs
<1>3. v = Merge(regs.region, regs.vpn2) OBVIOUS
<1>4. n = TLBTreeLookup(regs.asid, regs.region, regs.vpn2) OBVIOUS
<1>5. /\ index' = IF n # NULL THEN [probe |-> TRUE, index |-> n]
                  ELSE [index EXCEPT !.probe = FALSE]
      /\ UNCHANGED <<tree, entries, regs>>
  BY DEF TLBP
<1> HIDE DEF n, v, r, w
<1>6. Found(n, regs.asid, v) BY <1>2, <1>3, <1>4, LookupIs
<1> QED BY <1>2, <1>3, <1>5, <1>6 DEF n

(* A step that leaves the trees and the entries keeps the invariant. *)
LEMMA SameForest ==
  ASSUME TLBInv, UNCHANGED <<tree, entries>>,
         regs' \in Contents, index' \in [probe : BOOLEAN, index : Slots]
  PROVE  TLBInv'
<1>1. tree' = tree /\ entries' = entries OBVIOUS
<1>2. Forest(tree, LiveIn(tree), entries)'
  <2>1. Forest(tree', LiveIn(tree'), entries') BY <1>1 DEF TLBInv
  <2> QED BY <2>1
<1>3. Sourced(tree)' BY <1>1 DEF TLBInv, Sourced
<1>4. Apart(tree)' BY <1>1 DEF TLBInv, Apart
<1> QED BY <1>2, <1>3, <1>4 DEF TLBInv

(* Every step keeps the invariant. *)
LEMMA NextKeepsInv ==
  ASSUME OneSpaceIn(Uses), TLBInv, [Next]_vars
  PROVE  TLBInv'
<1>0. /\ regs \in Contents /\ index \in [probe : BOOLEAN, index : Slots]
      /\ entries \in [Slots -> StoredEntries]
  BY DEF TLBInv, Forest
<1>1. CASE MTC0Entry
  <2>1. regs' \in Contents /\ UNCHANGED <<tree, entries>> /\ index' = index
    BY <1>1 DEF MTC0Entry, Contents
  <2> QED BY <1>0, <2>1, SameForest
<1>2. CASE MTC0Index
  <2>1. regs' = regs /\ UNCHANGED <<tree, entries>> /\ index' \in [probe : BOOLEAN, index : Slots]
    BY <1>0, <1>2 DEF MTC0Index
  <2> QED BY <1>0, <2>1, SameForest
<1>3. CASE TLBWI BY <1>3, WriteKeepsInv
<1>4. CASE TLBR
  <2>1. regs' = Folded(entries[index.index]) /\ UNCHANGED <<tree, entries, index>>
    BY <1>4 DEF TLBR, Folded
  <2>2. entries[index.index] \in StoredEntries BY <1>0
  <2>3. regs' \in Contents BY <2>1, <2>2, FoldedIs
  <2> QED BY <1>0, <2>1, <2>3, SameForest
<1>5. CASE TLBP
  <2> DEFINE n == TLBTreeLookup(regs.asid, regs.region, regs.vpn2)
  <2>1. /\ Found(n, regs.asid, Merge(regs.region, regs.vpn2))
        /\ index' = IF n # NULL THEN [probe |-> TRUE, index |-> n]
                    ELSE [index EXCEPT !.probe = FALSE]
        /\ UNCHANGED <<tree, entries, regs>>
    BY <1>5, ProbeIs
  <2> HIDE DEF n
  <2>2. n # NULL => n \in Slots BY <2>1 DEF Found
  <2>3. index' \in [probe : BOOLEAN, index : Slots] BY <1>0, <2>1, <2>2
  <2> QED BY <1>0, <2>1, <2>3, SameForest
<1>6. CASE UNCHANGED vars
  <2>1. UNCHANGED <<tree, entries>> /\ regs' = regs /\ index' = index BY <1>6 DEF vars
  <2> QED BY <1>0, <2>1, SameForest
<1> QED BY <1>1, <1>2, <1>3, <1>4, <1>5, <1>6 DEF Next

(* TLBInv holds in every reachable state of the TLB, whatever the number of      *)
(* slots, the entries and the order of the writes, probes and reads: TLBWI       *)
(* (VR4300TLBWI of CP0.c) goes through TLBTreeEvict and TLBTreeInsert of         *)
(* TLBTree.c, and the loops of both end with red-black trees of the slots in     *)
(* use.  Software keeps to OneSpaceIn: one slot for all that is no global entry. *)
THEOREM TLBInvariance ==
  ASSUME OneSpaceIn(Uses)
  PROVE  Spec => []TLBInv
<1>1. Init => TLBInv BY InitInv
<1>2. TLBInv /\ [Next]_vars => TLBInv' BY NextKeepsInv
<1> QED BY <1>1, <1>2, PTL DEF Spec

-----------------------------------------------------------------------------
(* The black height that RedBlack defines by recursion is that of the trees. *)

(* The equations that define the black height of all nodes. *)
Counts(g) ==
  \A n \in Nodes : Ht(g, n) = IF n \in LiveIn(tree)
                              THEN Ht(g, Child(tree, n, "left")) + Weight(tree, n)
                              ELSE 0

(* They have one solution on a tree: its levels. *)
LEMMA CountsAre ==
  ASSUME NEW k \in Trees, NEW T, NEW key, NEW D, NEW H, RBTree(tree, k, T, key, D, H),
         T \subseteq LiveIn(tree), NEW g, Counts(g)
  PROVE  \A m \in T \cup {Nil[k]} : Ht(g, m) = Ht(H, m)
<1> DEFINE z == Nil[k]
           Size(j) == Cardinality(Sub(D, j))
           S == {i \in Nat : \A j \in T : Size(j) <= i => Ht(g, j) = Ht(H, j)}
<1>0. z \in Nodes /\ z \notin Slots /\ Slots \subseteq Nodes BY NilNodes DEF Nodes
<1>1. Shape(tree, k, D, key) /\ T = Members(tree, k, D) BY DEF RBTree
<1>2. T \subseteq Slots /\ \A j \in Nodes : Sub(D, j) \subseteq Slots
  <2>1. Root(tree, k) \in Nodes BY <1>1, Typed DEF Shape
  <2> QED BY <1>1, <2>1 DEF Shape, Members
<1>3. IsFiniteSet(Slots) BY NodesAssumption
<1>4. \A j \in T : NodeOK(tree, k, D, key, j) /\ Kin(tree, k, D, key, j)
  BY <1>1, Family DEF Shape
<1>5. Balanced(tree, k, T, H) BY <1>1, LevelsAre DEF RBTree
<1>6. Ht(g, z) = Ht(H, z) BY <1>0, <1>5 DEF Counts, Balanced, LiveIn
<1>7. \A j \in T : Size(j) \in Nat /\ Size(j) >= 1
  <2>1. ASSUME NEW j \in T PROVE Size(j) \in Nat /\ Size(j) >= 1
    <3>1. j \in Sub(D, j) /\ Sub(D, j) \subseteq Slots BY <1>0, <1>1, <1>2, <1>4 DEF NodeOK
    <3>2. {} \subseteq Sub(D, j) /\ j \notin {} OBVIOUS
    <3>3. Cardinality({}) \in Nat /\ Size(j) \in Nat /\ Size(j) >= Cardinality({}) + 1
      BY <1>3, <3>1, <3>2, Grows
    <3> QED BY <3>3
  <2> QED BY <2>1
<1> HIDE DEF Size
<1>8. 0 \in S BY <1>7
<1>9. ASSUME NEW i \in Nat, i \in S PROVE i + 1 \in S
  <2>1. ASSUME NEW j \in T, Size(j) <= i + 1 PROVE Ht(g, j) = Ht(H, j)
    <3> DEFINE c == Child(tree, j, "left")
    <3>1. "left" \in Sides BY DEF Sides
    <3>2. Ht(g, j) = Ht(g, c) + Weight(tree, j) BY <1>0, <1>2 DEF Counts
    <3>3. Ht(H, j) = Ht(H, c) + Weight(tree, j) BY <1>5, <3>1 DEF Balanced
    <3>4. Ht(g, c) = Ht(H, c)
      <4>1. CASE c = z BY <1>6, <4>1
      <4>2. CASE c # z
        <5>1. c \in T BY <1>1, <1>4, <3>1, <4>2 DEF Kin
        <5>2. /\ Sub(D, c) \subseteq Sub(D, j) /\ j \in Sub(D, j)
              /\ \A a \in Sub(D, c) : Beyond(key, "left", a, j)
          BY <1>4, <3>1 DEF NodeOK
        <5>3. key \in [Slots -> Int] /\ j \in Slots BY <1>1, <1>2 DEF Shape
        <5>4. ~Beyond(key, "left", j, j) BY <3>1, <5>3, BeyondFacts
        <5> HIDE DEF c
        <5>5. j \notin Sub(D, c) BY <5>2, <5>4
        <5>6. Sub(D, j) \subseteq Slots BY <1>0, <1>2
        <5>7. Cardinality(Sub(D, j)) >= Cardinality(Sub(D, c)) + 1
          BY <1>3, <5>2, <5>5, <5>6, Grows
        <5>8. Size(c) <= i
          <6>1. Size(j) >= Size(c) + 1 BY <5>7 DEF Size
          <6> QED BY <1>7, <2>1, <5>1, <6>1
        <5> QED BY <1>9, <5>1, <5>8
      <4> QED BY <4>1, <4>2
    <3> QED BY <3>2, <3>3, <3>4
  <2> QED BY <1>9, <2>1
<1>10. Nat \subseteq S
  <2> HIDE DEF S
  <2> QED BY <1>8, <1>9, SetInduction
<1>11. \A j \in T : Ht(g, j) = Ht(H, j) BY <1>7, <1>10
<1> QED BY <1>6, <1>11

(* A node of the slots in use is a node of the tree of its entry. *)
LEMMA InForest ==
  ASSUME TLBInv, NEW i \in Slots, InTree(i), NEW k, k = TreeOf(entries[i]),
         NEW T, T = OfTree(LiveIn(tree), entries, k)
  PROVE  /\ k \in Trees /\ i \in T
         /\ T \subseteq LiveIn(tree)
         /\ T \subseteq {j \in Slots : TreeOf(entries[j]) = k}
         /\ \E D, H : RBTree(tree, k, T, Firsts(entries), D, H)
<1>1. k \in Trees BY KindOf
<1>2. i \in T BY DEF OfTree, LiveIn, InTree
<1> QED BY <1>1, <1>2 DEF TLBInv, Forest, OfTree, LiveIn

(* The recursive definition of BlackHeight has a solution. *)
LEMMA BlackHeightCounts ==
  ASSUME TLBInv
  PROVE  Counts(BlackHeight)
<1> DEFINE Equation(g) == g = [n \in Nodes |->
               IF n \in Slots /\ InTree(n)
               THEN g[Child(tree, n, "left")] + (IF Color(tree, n) = BLACK THEN 1 ELSE 0)
               ELSE 0]
           L == LiveIn(tree)
           T(k) == OfTree(L, entries, k)
           key == Firsts(entries)
<1>1. /\ "global" \in Trees /\ "asid" \in Trees /\ \A k \in Trees : k = "global" \/ k = "asid"
      /\ \A k \in Trees : \E D, H : RBTree(tree, k, T(k), key, D, H)
  BY DEF TLBInv, Forest, Trees
<1>2. PICK D1, H1 : RBTree(tree, "global", T("global"), key, D1, H1) BY <1>1
<1>3. PICK D2, H2 : RBTree(tree, "asid", T("asid"), key, D2, H2) BY <1>1
<1> DEFINE HH == [k \in Trees |-> IF k = "global" THEN H1 ELSE H2]
           DD == [k \in Trees |-> IF k = "global" THEN D1 ELSE D2]
           w == [n \in Nodes |-> IF n \in L THEN Ht(HH[TreeOf(entries[n])], n) ELSE 0]
<1>4. \A k \in Trees : RBTree(tree, k, T(k), key, DD[k], HH[k]) BY <1>1, <1>2, <1>3
<1> HIDE DEF HH, DD, T, L, key
<1>5. ASSUME NEW n \in L
      PROVE  w[n] = w[Child(tree, n, "left")] + Weight(tree, n)
  <2> DEFINE k == TreeOf(entries[n])
             c == Child(tree, n, "left")
  <2>1. k \in Trees /\ n \in T(k) /\ L \subseteq Slots BY KindOf DEF T, OfTree, L, LiveIn
  <2>2. \A m \in T(k) : m \in L /\ TreeOf(entries[m]) = k BY DEF T, OfTree
  <2> HIDE DEF k
  <2>3. RBTree(tree, k, T(k), key, DD[k], HH[k]) BY <1>4, <2>1
  <2> DEFINE D == DD[k]
             H == HH[k]
             U == T(k)
  <2>4. RBTree(tree, k, U, key, D, H) BY <2>3
  <2> HIDE DEF D, H, U
  <2>5. Shape(tree, k, D, key) /\ U = Members(tree, k, D) BY <2>4 DEF RBTree
  <2>6. Balanced(tree, k, U, H) BY <2>1, <2>4, <2>5, LevelsAre DEF RBTree
  <2>7. n \in U /\ "left" \in Sides BY <2>1 DEF U, Sides
  <2>8. Kin(tree, k, D, key, n) BY <2>1, <2>5, <2>7, Family
  <2>9. c \in U \cup {Nil[k]} /\ c \in Nodes BY <2>5, <2>7, <2>8 DEF Kin
  <2>10. Ht(H, n) = Ht(H, c) + Weight(tree, n) BY <2>6, <2>7 DEF Balanced
  <2>11. w[n] = Ht(H, n)
    <3>1. n \in Nodes BY <2>1 DEF Nodes
    <3> QED BY <3>1 DEF H, k
  <2>12. w[c] = Ht(H, c)
    <3> HIDE DEF c
    <3>1. CASE c \in U
      <4>1. c \in L /\ TreeOf(entries[c]) = k BY <2>2, <3>1 DEF U
      <4> QED BY <2>9, <4>1 DEF H
    <3>2. CASE c = Nil[k]
      <4>1. c \notin L BY <2>1, <3>2, NilNodes
      <4>2. w[c] = 0 BY <2>9, <4>1
      <4>3. Ht(H, c) = 0 BY <2>6, <3>2 DEF Balanced
      <4> QED BY <4>2, <4>3
    <3> QED BY <2>9, <3>1, <3>2
  <2> QED BY <2>10, <2>11, <2>12
<1>6. \A n \in Nodes : n \in L <=> n \in Slots /\ InTree(n) BY DEF L, LiveIn, InTree
<1>7. Equation(w)
  <2>1. \A n \in Nodes : w[n] = IF n \in Slots /\ InTree(n)
               THEN w[Child(tree, n, "left")] + (IF Color(tree, n) = BLACK THEN 1 ELSE 0)
               ELSE 0
    BY <1>5, <1>6 DEF Weight
  <2>2. w = [n \in Nodes |-> w[n]] OBVIOUS
  <2> HIDE DEF w
  <2> QED BY <2>1, <2>2
<1>8. \E g : Equation(g) BY <1>7
<1>9. BlackHeight = CHOOSE g : Equation(g) BY DEF BlackHeight
<1> HIDE DEF Equation
<1>10. Equation(BlackHeight) BY <1>8, <1>9
<1> DEFINE b == BlackHeight
<1>11. Equation(b) BY <1>10
<1> HIDE DEF b
<1>12. \A n \in Nodes : b[n] = IF n \in Slots /\ InTree(n)
               THEN b[Child(tree, n, "left")] + (IF Color(tree, n) = BLACK THEN 1 ELSE 0)
               ELSE 0
  BY <1>11 DEF Equation
<1>13. Counts(b) BY <1>6, <1>12 DEF Counts, Ht, Weight, L
<1> QED BY <1>13 DEF b

-----------------------------------------------------------------------------
(* The invariants of the trees. *)

(* A child in the sense of LinksAgree is one in the sense of the model. *)
LEMMA ChildrenAre ==
  ASSUME NEW n, NEW k \in Trees, NEW c \in Children(n)
  PROVE  c # Nil[k] /\ \E s \in Sides : c = Child(tree, n, s)
BY DEF Children, Nil, Trees

(* The invariant implies LinksAgree. *)
LEMMA InvLinks ==
  ASSUME TLBInv
  PROVE  LinksAgree
<1>1. ASSUME NEW k \in Trees, Root(tree, k) # Nil[k] PROVE Parent(tree, Root(tree, k)) = Nil[k]
  <2>1. PICK D, H : RBTree(tree, k, OfTree(LiveIn(tree), entries, k), Firsts(entries), D, H)
    BY DEF TLBInv, Forest
  <2> QED BY <1>1, <2>1 DEF RBTree, Shape
<1>2. ASSUME NEW i \in Slots, InTree(i), NEW k, k = TreeOf(entries[i]), NEW p,
             p = Parent(tree, i)
      PROVE  /\ Children(i) \subseteq {j \in Slots : Parent(tree, j) = i}
             /\ p = Nil[k] => Root(tree, k) = i
             /\ p # Nil[k] => TreeOf(entries[p]) = k /\ i \in Children(p)
  <2> DEFINE T == OfTree(LiveIn(tree), entries, k)
             key == Firsts(entries)
  <2>1. T = OfTree(LiveIn(tree), entries, k) OBVIOUS
  <2> HIDE DEF T
  <2>2. /\ k \in Trees /\ i \in T
        /\ T \subseteq {j \in Slots : TreeOf(entries[j]) = k}
        /\ \E D, H : RBTree(tree, k, T, key, D, H)
    BY <1>2, <2>1, InForest
  <2>3. PICK D, H : RBTree(tree, k, T, key, D, H) BY <2>2
  <2>4. Shape(tree, k, D, key) /\ T = Members(tree, k, D) BY <2>3 DEF RBTree
  <2>5. Kin(tree, k, D, key, i) BY <2>2, <2>4, Family
  <2>6. Children(i) \subseteq {j \in Slots : Parent(tree, j) = i}
    <3>1. ASSUME NEW c \in Children(i) PROVE c \in Slots /\ Parent(tree, c) = i
      <4>1. c # Nil[k] /\ \E s \in Sides : c = Child(tree, i, s) BY <2>2, ChildrenAre
      <4> QED BY <2>2, <2>4, <2>5, <4>1 DEF Kin
    <3> QED BY <3>1
  <2>7. p = Nil[k] => Root(tree, k) = i BY <1>2, <2>5 DEF Kin
  <2>8. ASSUME p # Nil[k] PROVE TreeOf(entries[p]) = k /\ i \in Children(p)
    <3>1. p \in T /\ \E s \in Sides : Child(tree, p, s) = i BY <1>2, <2>4, <2>5, <2>8 DEF Kin
    <3>2. i # GlobalNil /\ i # AsidNil BY <1>2, NodesAssumption
    <3> QED BY <2>2, <3>1, <3>2 DEF Children
  <2> QED BY <2>6, <2>7, <2>8
<1> QED BY <1>1, <1>2 DEF LinksAgree

(* The invariant implies RedBlack. *)
LEMMA InvRedBlack ==
  ASSUME TLBInv
  PROVE  RedBlack
<1>1. ASSUME NEW k \in Trees PROVE Color(tree, Root(tree, k)) = BLACK
  <2>1. PICK D, H : RBTree(tree, k, OfTree(LiveIn(tree), entries, k), Firsts(entries), D, H)
    BY DEF TLBInv, Forest
  <2> QED BY <2>1 DEF RBTree
<1>2. Counts(BlackHeight) BY BlackHeightCounts
<1>3. ASSUME NEW i \in Slots, InTree(i)
      PROVE  /\ Color(tree, i) = RED => \A j \in Children(i) : Color(tree, j) = BLACK
             /\ BlackHeight[Child(tree, i, "left")] = BlackHeight[Child(tree, i, "right")]
  <2> DEFINE k == TreeOf(entries[i])
             T == OfTree(LiveIn(tree), entries, k)
             key == Firsts(entries)
             b == BlackHeight
  <2>1. k = TreeOf(entries[i]) OBVIOUS
  <2> HIDE DEF k
  <2>2. T = OfTree(LiveIn(tree), entries, k) OBVIOUS
  <2> HIDE DEF T, b
  <2>3. /\ k \in Trees /\ i \in T /\ T \subseteq LiveIn(tree)
        /\ \E D, H : RBTree(tree, k, T, key, D, H)
    BY <1>3, <2>1, <2>2, InForest
  <2>4. PICK D, H : RBTree(tree, k, T, key, D, H) BY <2>3
  <2>5. Shape(tree, k, D, key) /\ T = Members(tree, k, D) BY <2>4 DEF RBTree
  <2>6. Kin(tree, k, D, key, i) BY <2>3, <2>5, Family
  <2>7. Counts(b) BY <1>2 DEF b
  <2>8. \A m \in T \cup {Nil[k]} : Ht(b, m) = Ht(H, m) BY <2>3, <2>4, <2>7, CountsAre
  <2>9. Balanced(tree, k, T, H) BY <2>3, <2>4, <2>5, LevelsAre DEF RBTree
  <2>10. \A s \in Sides : Child(tree, i, s) \in T \cup {Nil[k]} BY <2>5, <2>6 DEF Kin
  <2>11. "left" \in Sides /\ "right" \in Sides BY DEF Sides
  <2>12. Ht(H, Child(tree, i, "left")) = Ht(H, Child(tree, i, "right"))
    <3> DEFINE l == Child(tree, i, "left")
               r == Child(tree, i, "right")
    <3>1. l \in Nodes /\ r \in Nodes BY <2>6, <2>11 DEF Kin
    <3>2. /\ Ht(H, i) = Ht(H, l) + Weight(tree, i) /\ Ht(H, i) = Ht(H, r) + Weight(tree, i)
          /\ Ht(H, l) \in Nat /\ Ht(H, r) \in Nat
      BY <2>3, <2>9, <2>11, <3>1 DEF Balanced
    <3>3. Weight(tree, i) \in Nat BY DEF Weight
    <3> HIDE DEF l, r
    <3> QED BY <3>2, <3>3 DEF l, r
  <2>13. b[Child(tree, i, "left")] = b[Child(tree, i, "right")]
    BY <2>8, <2>10, <2>11, <2>12 DEF Ht
  <2>14. ASSUME Color(tree, i) = RED, NEW j \in Children(i) PROVE Color(tree, j) = BLACK
    <3>1. RedRule(tree, i) BY <2>3, <2>4 DEF RBTree
    <3>2. \E s \in Sides : j = Child(tree, i, s) BY <2>3, ChildrenAre
    <3> QED BY <2>14, <3>1, <3>2 DEF RedRule
  <2> QED BY <2>13, <2>14 DEF b
<1> QED BY <1>1, <1>3 DEF RedBlack

(* The links of the trees agree after every operation: a slot in use is in *)
(* exactly one tree, the child of its parent, and the root's parent is nil *)
(* (what TLBTreeEvict and Transplant rely on when they follow parents).    *)
THEOREM LinksAgreeAlways ==
  ASSUME OneSpaceIn(Uses)
  PROVE  Spec => []LinksAgree
<1>1. TLBInv => LinksAgree BY InvLinks
<1> QED BY <1>1, TLBInvariance, PTL

(* The trees are red-black trees after every operation, as the loops of         *)
(* TLBTreeFixup and EvictFixup are there to restore: the root is black, a red   *)
(* node has black children, every path has as many black nodes, and keys are in *)
(* order.                                                                       *)
THEOREM RedBlackAlways ==
  ASSUME OneSpaceIn(Uses)
  PROVE  Spec => []RedBlack
<1>1. TLBInv => RedBlack BY InvRedBlack
<1> QED BY <1>1, TLBInvariance, PTL

-----------------------------------------------------------------------------
(* The refinement of the flat TLB. *)

(* A pair of pages that a stored entry maps lies in its region. *)
LEMMA PairOf ==
  ASSUME NEW e \in Contents, NEW r \in 0 .. 3, NEW w \in 0 .. RegionSize - 1
  PROVE  Merge(r, w) \in Pairs(Stored(e)) <=> e.region = r /\ w \in e.vpn2 .. e.vpn2 + e.mask
<1> DEFINE R == e.region
           b == e.vpn2
           m == e.mask
           d == m + 1
           n == RegionSize
<1>1. /\ R \in 0 .. 3 /\ b \in 0 .. n - 1 /\ m \in Nat /\ d \in Nat \ {0}
      /\ b % d = 0 /\ n % d = 0 /\ n \in Nat \ {0} /\ n \in Int /\ b \in Int /\ b < n
  BY ContentIs
<1>2. Pairs(Stored(e)) = Merge(R, b) .. Merge(R, b) + m BY StoredIs DEF StoredOK
<1>3. w \in 0 .. n - 1 OBVIOUS
<1> HIDE DEF R, b, m, d, n
<1>4. b + d <= n BY <1>1, MultiplesApart
<1>5. Merge(R, b) = n * R + b /\ Merge(R, b) \in Nat
  <2>1. R \in 0 .. 3 /\ b \in 0 .. RegionSize - 1 /\ RegionSize \in Nat \ {0} BY <1>1 DEF n
  <2> QED BY <2>1, MergeIs DEF n
<1>6. Merge(r, w) = n * r + w /\ Merge(r, w) \in Nat
  <2>1. RegionSize \in Nat \ {0} BY <1>1 DEF n
  <2> QED BY <2>1, MergeIs DEF n
<1>7. ASSUME R = r, w \in b .. b + m PROVE Merge(r, w) \in Pairs(Stored(e))
  <2> DEFINE x == n * r
  <2>1. x \in Int BY <1>1
  <2>2. Merge(R, b) = x + b /\ Merge(r, w) = x + w BY <1>5, <1>6, <1>7
  <2> HIDE DEF x
  <2> QED BY <1>1, <1>2, <1>7, <2>1, <2>2
<1>8. ASSUME Merge(r, w) \in Pairs(Stored(e)) PROVE R = r /\ w \in b .. b + m
  <2> DEFINE x == n * r
             y == n * R
             s == x + w - y
  <2>1. x \in Int /\ y \in Int BY <1>1
  <2>2. Merge(R, b) = y + b /\ Merge(r, w) = x + w BY <1>5, <1>6
  <2> HIDE DEF x, y
  <2>3. s \in Int /\ s >= b /\ s <= b + m BY <1>1, <1>2, <1>3, <1>8, <2>1, <2>2
  <2>4. m = d - 1 BY <1>1 DEF d
  <2>5. s \in 0 .. n - 1 BY <1>1, <1>4, <2>3, <2>4
  <2>6. n * r + w = n * R + s BY <2>1, <1>3 DEF x, y
  <2> HIDE DEF s
  <2>7. r \in Int /\ R \in Int BY <1>1
  <2>8. r = R BY <1>1, <1>3, <2>5, <2>6, <2>7, Between
  <2>9. x = y BY <2>8 DEF x, y
  <2>10. w = s BY <1>3, <2>1, <2>9 DEF s
  <2> QED BY <1>1, <1>3, <2>3, <2>8, <2>10
<1>9. Merge(r, w) \in Pairs(Stored(e)) <=> R = r /\ w \in b .. b + m BY <1>7, <1>8
<1> QED BY <1>9 DEF R, b, m

(* The array of entries as software sees it. *)
Flattened == [i \in Slots |-> Folded(entries[i])]

(* The refinement mapping. *)
LEMMA FlatIs ==
  /\ [i \in Slots |-> [entries[i] EXCEPT !.vpn2 = @ % RegionSize]] = Flattened
  /\ {i \in Slots : InTree(i)} = LiveIn(tree)
BY DEF Flattened, Folded, LiveIn, InTree

(* An entry of the flat TLB matches when the stored one translates. *)
LEMMA FlatMaps ==
  ASSUME TLBInv, NEW i \in Slots
  PROVE  /\ Flattened[i] \in Contents /\ entries[i] = Stored(Flattened[i])
         /\ i \in LiveIn(tree) =>
              (Flat!Maps(Flattened[i], regs)
                 <=> Translates(regs.asid, Merge(regs.region, regs.vpn2), i))
<1> DEFINE e == Flattened[i]
           f == entries[i]
           r == regs.region
           w == regs.vpn2
<1>1. PICK d \in Contents : f = Stored(d) BY DEF TLBInv, Forest, StoredEntries
<1>2. StoredOK(f, d) BY <1>1, StoredIs
<1>3. e = d BY <1>2 DEF Flattened, StoredOK
<1>4. /\ e \in Contents /\ f = Stored(e)
      /\ f.asid = e.asid /\ f.lo0 = e.lo0 /\ f.lo1 = e.lo1
  BY <1>1, <1>2, <1>3 DEF StoredOK
<1>5. r \in 0 .. 3 /\ w \in 0 .. RegionSize - 1 BY ContentIs DEF TLBInv
<1> HIDE DEF e, r, w
<1>6. Merge(r, w) \in Pairs(f) <=> e.region = r /\ w \in e.vpn2 .. e.vpn2 + e.mask
  BY <1>4, <1>5, PairOf
<1>7. Flat!Maps(e, regs) <=> /\ e.region = r
                             /\ (e.lo0.global /\ e.lo1.global) \/ e.asid = regs.asid
                             /\ w \in e.vpn2 .. e.vpn2 + e.mask
  BY DEF Flat!Maps, Flat!IsGlobal, Flat!Pairs, r, w
<1>8. IsGlobalEntry(f) <=> e.lo0.global /\ e.lo1.global BY <1>4 DEF IsGlobalEntry
<1>9. Translates(regs.asid, Merge(r, w), i) <=> /\ i \in LiveIn(tree)
                                                /\ IsGlobalEntry(f) \/ f.asid = regs.asid
                                                /\ Merge(r, w) \in Pairs(f)
  BY DEF Translates, Maps
<1>10. f.asid = e.asid BY <1>4
<1> QED BY <1>4, <1>6, <1>7, <1>8, <1>9, <1>10 DEF e, r, w

(* The initial states map to initial states. *)
LEMMA FlatInit ==
  ASSUME Init
  PROVE  Flat!Init
<1>1. TLBInv BY InitInv
<1>2. LiveIn(tree) = {}
  <2>1. Slots \subseteq Nodes BY DEF Nodes
  <2> QED BY <2>1 DEF Init, LiveIn, Parent
<1>3. Flattened = [i \in Slots |-> Empty]
  <2>1. Empty \in Contents BY DEF Contents
  <2>2. /\ Empty \in [region : 0 .. 3, vpn2 : 0 .. RegionSize - 1, mask : Nat, asid :
             Nat, lo0 : Halves, lo1 : Halves]
        /\ RegionSize \in Nat \ {0} /\ RegionSize \in Int
        /\ Empty.vpn2 \in 0 .. RegionSize - 1
    BY <2>1, ContentIs
  <2>3. Empty.vpn2 % RegionSize = Empty.vpn2
    <3> DEFINE v == Empty.vpn2
    <3>1. v \in 0 .. RegionSize - 1 /\ v \in Int /\ 0 \in Int BY <2>2
    <3> HIDE DEF v
    <3>2. (RegionSize * 0 + v) % RegionSize = v BY <2>2, <3>1, DivModIs
    <3>3. RegionSize * 0 + v = v BY <2>2, <3>1
    <3> QED BY <3>2, <3>3 DEF v
  <2>4. Folded(Empty) = Empty BY <2>2, <2>3 DEF Folded
  <2> QED BY <2>4 DEF Init, Flattened
<1> QED BY <1>2, <1>3, FlatIs DEF Init, Flat!Init

(* Every step maps to a step of the flat TLB or to none. *)
LEMMA FlatStep ==
  ASSUME OneSpaceIn(Uses), TLBInv, Next
  PROVE  Flat!Next \/ UNCHANGED Flat!vars
<1>0. entries \in [Slots -> StoredEntries] /\ regs \in Contents
        /\ index \in [probe : BOOLEAN, index : Slots]
  BY DEF TLBInv, Forest
<1>1. ASSUME UNCHANGED <<tree, entries>>
      PROVE  /\ [i \in Slots |-> [entries[i] EXCEPT !.vpn2 = @ % RegionSize]]'
                  = [i \in Slots |-> [entries[i] EXCEPT !.vpn2 = @ % RegionSize]]
             /\ {i \in Slots : InTree(i)}' = {i \in Slots : InTree(i)}
  BY <1>1 DEF InTree
<1>2. CASE MTC0Entry
  <2>1. UNCHANGED <<tree, entries>> BY <1>2 DEF MTC0Entry
  <2>2. Flat!SetRegisters BY <1>1, <1>2, <2>1 DEF MTC0Entry, Flat!SetRegisters
  <2> QED BY <2>2 DEF Flat!Next
<1>3. CASE MTC0Index
  <2>1. UNCHANGED <<tree, entries>> BY <1>3 DEF MTC0Index
  <2>2. Flat!SetIndex BY <1>1, <1>3, <2>1 DEF MTC0Index, Flat!SetIndex
  <2> QED BY <2>2 DEF Flat!Next
<1>4. CASE TLBR
  <2>1. UNCHANGED <<tree, entries, index>> /\ regs' = Folded(entries[index.index])
    BY <1>4 DEF TLBR, Folded
  <2>2. index.index \in Slots BY <1>0
  <2>3. regs' = Flattened[index.index] BY <2>1, <2>2 DEF Flattened
  <2>4. Flat!Read BY <1>1, <2>1, <2>3, FlatIs DEF Flat!Read
  <2> QED BY <2>4 DEF Flat!Next
<1>5. CASE TLBWI
  <2> DEFINE i == index.index
  <2>1. /\ LiveIn(tree') = LiveIn(tree) \cup {i}
        /\ entries' = [entries EXCEPT ![i] = Stored(regs)]
        /\ UNCHANGED <<regs, index>>
    BY <1>5, WriteKeepsInv DEF TLBWI
  <2>2. i \in Slots BY <1>0
  <2>3. Folded(Stored(regs)) = regs BY <1>0, StoredIs DEF StoredOK
  <2> HIDE DEF i
  <2>4. Flattened' = [Flattened EXCEPT ![i] = regs]
    <3>1. \A j \in Slots : Folded(entries'[j]) = IF j = i THEN regs ELSE Folded(entries[j])
      BY <1>0, <2>1, <2>2, <2>3
    <3>2. Flattened' = [j \in Slots |-> Folded(entries'[j])] BY DEF Flattened
    <3>3. Flattened = [j \in Slots |-> Folded(entries[j])] BY DEF Flattened
    <3> QED BY <2>2, <3>1, <3>2, <3>3
  <2>5. [j \in Slots |-> [entries[j] EXCEPT !.vpn2 = @ % RegionSize]]' = Flattened'
    BY DEF Flattened, Folded
  <2>6. {j \in Slots : InTree(j)}' = LiveIn(tree') BY DEF LiveIn, InTree
  <2>7. Flat!Write BY <2>1, <2>4, <2>5, <2>6, FlatIs DEF Flat!Write, i
  <2> QED BY <2>7 DEF Flat!Next
<1>6. CASE TLBP
  <2> DEFINE n == TLBTreeLookup(regs.asid, regs.region, regs.vpn2)
             v == Merge(regs.region, regs.vpn2)
  <2>1. /\ Found(n, regs.asid, v)
        /\ index' = IF n # NULL THEN [probe |-> TRUE, index |-> n]
                    ELSE [index EXCEPT !.probe = FALSE]
        /\ UNCHANGED <<tree, entries, regs>>
    BY <1>6, ProbeIs
  <2> HIDE DEF n, v
  <2>2. \A i \in LiveIn(tree) : Flat!Maps(Flattened[i], regs) <=> Translates(regs.asid, v, i)
    BY FlatMaps DEF v, LiveIn
  <2>3. \A i \in Slots : Translates(regs.asid, v, i) => i \in LiveIn(tree) BY DEF Translates
  <2>4. CASE n = NULL
    <3>1. ~\E i \in LiveIn(tree) : Flat!Maps(Flattened[i], regs)
      BY <2>1, <2>2, <2>4, NodesAssumption DEF Found, LiveIn
    <3>2. index' = [index EXCEPT !.probe = FALSE] BY <2>1, <2>4
    <3>3. Flat!Probe BY <1>1, <2>1, <3>1, <3>2, FlatIs DEF Flat!Probe
    <3> QED BY <3>3 DEF Flat!Next
  <2>5. CASE n # NULL
    <3>1. n \in LiveIn(tree) /\ Flat!Maps(Flattened[n], regs)
      BY <2>1, <2>2, <2>3, <2>5 DEF Found
    <3>2. index' = [probe |-> TRUE, index |-> n] BY <2>1, <2>5
    <3>3. Flat!Probe BY <1>1, <2>1, <3>1, <3>2, FlatIs DEF Flat!Probe
    <3> QED BY <3>3 DEF Flat!Next
  <2> QED BY <2>4, <2>5
<1> QED BY <1>2, <1>3, <1>4, <1>5, <1>6 DEF Next

(* A step that changes nothing maps to one that changes nothing. *)
LEMMA FlatStutter ==
  ASSUME UNCHANGED vars
  PROVE  UNCHANGED Flat!vars
BY DEF vars, Flat!vars, InTree

(* TLBTree.c implements a flat TLB: with its trees, its keys and its lookups *)
(* mapped to the array of entries that software writes, probes and reads,    *)
(* every step is one of FlatTLB.  A probe therefore finds the entry that is  *)
(* there, and TLBR reads back what TLBWI was given.                          *)
THEOREM TLBIsFlat ==
  ASSUME OneSpaceIn(Uses)
  PROVE  Spec => FlatSpec
<1>1. Init => Flat!Init BY FlatInit
<1>2. TLBInv /\ [Next]_vars => [Flat!Next]_(Flat!vars) BY FlatStep, FlatStutter
<1> QED BY <1>1, <1>2, TLBInvariance, PTL DEF Spec, FlatSpec, Flat!Spec

-----------------------------------------------------------------------------
(* The translation of an address. *)

(* The parts that VR4300Translate makes of a page. *)
LEMMA PageParts ==
  ASSUME NEW page \in Nat
  PROVE  /\ Merge(page \div (2 * RegionSize), (page \div 2) % RegionSize) = page \div 2
         /\ page \div 2 \in Nat
         /\ \E c \in 0 .. 1 : page = 2 * (page \div 2) + c
<1> DEFINE n == RegionSize
           q == page \div 2
           c == page % 2
           a == q \div n
           b == q % n
<1>1. n \in Nat \ {0} /\ n \in Int BY EntriesAssumption
<1>2. q \in Nat /\ c \in 0 .. 1 /\ page = 2 * q + c
  <2>1. q \in Int /\ c \in 0 .. 2 - 1 /\ page = 2 * q + c BY DivMod
  <2> HIDE DEF q, c
  <2> QED BY <2>1
<1> HIDE DEF q, c
<1>3. a \in Int /\ b \in 0 .. n - 1 /\ q = n * a + b BY <1>1, <1>2, DivMod
<1> HIDE DEF a, b, n
<1> DEFINE m == 2 * n
           s == 2 * b + c
<1>4. m \in Nat \ {0} /\ s \in 0 .. m - 1 BY <1>1, <1>2, <1>3
<1>5. page = m * a + s
  <2>1. page = 2 * (n * a + b) + c BY <1>2, <1>3
  <2>2. 2 * (n * a + b) + c = (2 * n) * a + (2 * b + c) BY <1>1, <1>2, <1>3, SMT
  <2> QED BY <2>1, <2>2
<1> HIDE DEF m, s
<1>6. page \div m = a BY <1>3, <1>4, <1>5, DivModIs
<1>7. a * n + b = q BY <1>1, <1>3
<1>8. Merge(a, b) = q BY <1>7 DEF Merge, n
<1> QED BY <1>2, <1>6, <1>8 DEF a, b, q, m, n

(* The page within an entry: which half it is in, and where in the half. *)
InHalf(page, b, d, offset) ==
  /\ page >= (2 * b + d) % Pages32 <=> ~(offset <= d - 1)
  /\ page % d = IF offset <= d - 1 THEN offset ELSE offset - d

(* The comparison of the page with the mask selects the half the page is in: *)
(* the multiples of the 32-bit address space do not move the bit compared.   *)
LEMMA HalfOf ==
  ASSUME NEW b \in Nat, NEW d \in Nat \ {0}, b % d = 0,
         Pages32 \in Nat, Pages32 % 4 = 0, (Pages32 \div 4) % d = 0,
         NEW page \in Nat, page < Pages32 \div 2,
         NEW q \in b .. b + d - 1, NEW c \in 0 .. 1, page = 2 * q + c,
         NEW offset, offset = page - 2 * b
  PROVE  InHalf(page, b, d, offset)
<1> DEFINE P == Pages32
           p == P \div 4
<1>1. p \in Nat /\ P = 4 * p /\ P \div 2 = 2 * p
  <2>1. p \in Int /\ P = 4 * p + (P % 4) BY DivMod
  <2>2. P \div 2 = 2 * p
    <3> HIDE DEF p, P
    <3>1. P = 2 * (2 * p) + 0 BY <2>1 DEF P
    <3>2. 2 * p \in Int /\ 0 \in 0 .. 2 - 1 /\ 2 \in Nat \ {0} BY <2>1
    <3> QED BY <3>1, <3>2, DivModIs
  <2> QED BY <2>1, <2>2
<1>2. p % d = 0 BY DEF p
<1>3. page < 2 * p BY <1>1
<1> HIDE DEF p
<1>4. q \in Int /\ q >= b /\ q <= b + d - 1 OBVIOUS
<1>5. b < p BY <1>1, <1>3, <1>4
<1>6. b + d <= p
  <2>1. b \in Int /\ p \in Int /\ b % d = 0 BY <1>1
  <2> QED BY <1>2, <1>5, <2>1, MultiplesApart
<1>7. (2 * b + d) % P = 2 * b + d
  <2> DEFINE s == 2 * b + d
  <2>1. s \in 0 .. P - 1 /\ s \in Int /\ P \in Nat \ {0} /\ 0 \in Int BY <1>1, <1>6
  <2> HIDE DEF s, P
  <2>2. (P * 0 + s) % P = s BY <2>1, DivModIs
  <2>3. P * 0 + s = s BY <2>1
  <2> QED BY <2>2, <2>3 DEF s
<1>8. offset \in 0 .. 2 * d - 1 BY <1>4
<1>9. page >= 2 * b + d <=> ~(offset <= d - 1) BY <1>4
<1>10. (2 * b) % d = 0
  <2>0. b \in Int /\ b % d = 0 OBVIOUS
  <2>1. PICK r \in Int : b = d * r BY <2>0, Multiples
  <2>2. 2 * b = d * (2 * r) BY <2>1, SMT
  <2>3. (d * (2 * r)) % d = 0 BY <2>1, MultipleIs
  <2> QED BY <2>2, <2>3
<1>11. page % d = offset % d
  <2> DEFINE x == 2 * b
  <2>1. x \in Int /\ offset \in Int /\ page = x + offset /\ x % d = 0 BY <1>4, <1>10
  <2> HIDE DEF x
  <2>2. (x + offset) % d = offset % d BY <2>1, PlusMultiple
  <2> QED BY <2>1, <2>2
<1>12. offset % d = IF offset <= d - 1 THEN offset ELSE offset - d
  <2>1. CASE offset <= d - 1
    <3>1. offset \in 0 .. d - 1 /\ 0 \in Int BY <1>8, <2>1
    <3>2. (d * 0 + offset) % d = offset BY <3>1, DivModIs
    <3>3. d * 0 + offset = offset BY <3>1
    <3> QED BY <2>1, <3>2, <3>3
  <2>2. CASE ~(offset <= d - 1)
    <3> DEFINE s == offset - d
    <3>1. s \in 0 .. d - 1 /\ 1 \in Int /\ offset = d * 1 + s BY <1>8, <2>2
    <3> HIDE DEF s
    <3>2. (d * 1 + s) % d = s BY <3>1, DivModIs
    <3> QED BY <2>2, <3>1, <3>2 DEF s
  <2> QED BY <2>1, <2>2
<1> QED BY <1>7, <1>9, <1>11, <1>12 DEF P, InHalf

(* The frame an entry gives for a page. *)
FrameOf(e, page) ==
  LET offset == page - 2 * e.vpn2
  IN  IF offset <= e.mask THEN e.lo0.pfn + offset
      ELSE e.lo1.pfn + offset - e.mask - 1

(* VR4300Translate gives the frame of an entry that translates the page, or *)
(* faults when there is none.                                               *)
LEMMA TranslateIs ==
  ASSUME OneSpaceIn(Uses), TLBInv, NEW page \in 0 .. Pages32 \div 2 - 1, NEW asid
  PROVE  \/ /\ VR4300Translate(asid, page) = NULL
            /\ \A i \in Slots : ~Translates(asid, page \div 2, i)
         \/ \E i \in Slots : /\ Translates(asid, page \div 2, i)
                             /\ VR4300Translate(asid, page) = FrameOf(entries[i], page)
<1> DEFINE region == page \div (2 * RegionSize)
           vpn2 == (page \div 2) % RegionSize
           q == page \div 2
           n == TLBTreeLookup(asid, region, vpn2)
           e == entries[n]
           end == (2 * e.vpn2 + e.mask + 1) % Pages32
           lo == IF page >= end THEN e.lo1 ELSE e.lo0
<1>0. page \in Nat /\ page < Pages32 \div 2
  <2>1. Pages32 \div 2 \in Int BY EntriesAssumption
  <2> QED BY <2>1
<1>1. /\ q = Merge(region, vpn2) /\ q \in Nat
      /\ \E c \in 0 .. 1 : page = 2 * q + c
  BY <1>0, PageParts
<1>2. n = TLBTreeLookup(asid, region, vpn2) OBVIOUS
<1>3. VR4300Translate(asid, page) = IF n = NULL THEN NULL ELSE lo.pfn + (page % (e.mask + 1))
  BY DEF VR4300Translate
<1> HIDE DEF region, vpn2, n
<1>4. Found(n, asid, q)
  <2> HIDE DEF q
  <2> QED BY <1>1, <1>2, LookupIs
<1>5. CASE n = NULL
  <2>1. \A i \in Slots : ~Translates(asid, q, i) BY <1>4, <1>5, NodesAssumption DEF Found
  <2> QED BY <1>3, <1>5, <2>1
<1>6. CASE n # NULL
  <2>1. n \in Slots /\ Translates(asid, q, n) BY <1>4, <1>6 DEF Found
  <2>2. PICK g \in Contents : e = Stored(g) BY <2>1 DEF TLBInv, Forest, StoredEntries
  <2>3. StoredOK(e, g) BY <2>2, StoredIs
  <2> DEFINE b == e.vpn2
             d == e.mask + 1
             offset == page - 2 * b
  <2>4. /\ b \in Nat /\ d \in Nat \ {0} /\ b % d = 0 /\ e.mask \in Nat
        /\ Pairs(e) = b .. b + e.mask
        /\ e.lo0.pfn \in Nat /\ e.lo1.pfn \in Nat
        /\ e.mask = g.mask
    <3>1. /\ e.vpn2 \in Nat /\ e.mask \in Nat /\ e.lo0 \in Halves /\ e.lo1 \in Halves
          /\ e.vpn2 % (e.mask + 1) = 0 /\ Pairs(e) = e.vpn2 .. e.vpn2 + e.mask /\ e.mask = g.mask
      BY <2>3 DEF StoredOK
    <3>2. e.lo0.pfn \in Nat /\ e.lo1.pfn \in Nat BY <3>1 DEF Halves
    <3> QED BY <3>1, <3>2
  <2>5. (Pages32 \div 4) % d = 0
    <3>1. (Pages32 \div 4) % (g.mask + 1) = 0 BY ContentIs
    <3> QED BY <2>4, <3>1
  <2>6. q \in b .. b + e.mask BY <2>1, <2>4 DEF Translates, Maps
  <2>7. PICK c \in 0 .. 1 : page = 2 * q + c BY <1>1
  <2>8. Pages32 \in Nat /\ Pages32 % 4 = 0 BY EntriesAssumption
  <2>9. e.mask = d - 1 /\ q \in b .. b + d - 1 /\ 2 * e.vpn2 + e.mask + 1 = 2 * b + d
    <3> DEFINE m == e.mask
    <3>1. m \in Nat /\ q \in b .. b + m /\ b \in Nat BY <2>4, <2>6
    <3>2. d = m + 1 OBVIOUS
    <3>3. 2 * e.vpn2 + e.mask + 1 = 2 * b + m + 1 OBVIOUS
    <3> HIDE DEF b, q, d, m
    <3>4. m = d - 1 /\ 2 * b + m + 1 = 2 * b + d /\ q \in b .. b + d - 1 BY <3>1, <3>2
    <3> QED BY <3>3, <3>4 DEF m
  <2>10. offset = page - 2 * b /\ offset \in Int BY <1>0, <2>4
  <2> HIDE DEF offset, b, d, q
  <2>11. InHalf(page, b, d, offset)
    <3>1. b \in Nat /\ d \in Nat \ {0} /\ b % d = 0 BY <2>4
    <3>2. q \in b .. b + d - 1 BY <2>9
    <3>3. offset = page - 2 * b BY <2>10
    <3> HIDE DEF e, lo, end
    <3>4. /\ Pages32 \in Nat /\ Pages32 % 4 = 0 /\ (Pages32 \div 4) % d = 0
          /\ page \in Nat /\ page < Pages32 \div 2 /\ page = 2 * q + c
      BY <1>0, <2>5, <2>7, <2>8
    <3> QED BY <3>1, <3>2, <3>3, <3>4, HalfOf
  <2>12. FrameOf(e, page) = IF offset <= e.mask THEN e.lo0.pfn + offset
           ELSE e.lo1.pfn + offset - e.mask - 1
    BY DEF FrameOf, offset, b
  <2>13. VR4300Translate(asid, page) = lo.pfn + (page % d) BY <1>3, <1>6 DEF d
  <2>14. end = (2 * b + d) % Pages32 BY <2>9
  <2>15. VR4300Translate(asid, page) = FrameOf(e, page)
    <3>1. CASE offset <= d - 1
      <4>1. lo = e.lo0 BY <2>11, <2>14, <3>1 DEF InHalf
      <4> HIDE DEF lo, e
      <4>2. VR4300Translate(asid, page) = e.lo0.pfn + offset
        BY <2>11, <2>13, <3>1, <4>1 DEF InHalf
      <4> QED BY <2>9, <2>12, <3>1, <4>2
    <3>2. CASE ~(offset <= d - 1)
      <4>1. lo = e.lo1 BY <2>11, <2>14, <3>2 DEF InHalf
      <4> HIDE DEF lo, e
      <4>2. VR4300Translate(asid, page) = e.lo1.pfn + (offset - d)
        BY <2>11, <2>13, <3>2, <4>1 DEF InHalf
      <4>3. e.lo1.pfn + (offset - d) = e.lo1.pfn + offset - e.mask - 1 BY <2>4, <2>9, <2>10
      <4> QED BY <2>9, <2>12, <3>2, <4>2, <4>3
    <3> QED BY <3>1, <3>2
  <2> QED BY <2>1, <2>15 DEF q
<1> QED BY <1>5, <1>6

(* The invariant implies UserTranslation. *)
LEMMA InvTranslation ==
  ASSUME OneSpaceIn(Uses), TLBInv
  PROVE  UserTranslation
<1> SUFFICES ASSUME NEW page \in 0 .. Pages32 \div 2 - 1, NEW asid
             PROVE  LET holders == {i \in Slots : /\ InTree(i)
                                                  /\ IsGlobalEntry(entries[i])
                                                       \/ entries[i].asid = asid
                                                  /\ page \div 2 \in Pairs(entries[i])}
                        Frame0(e) == LET offset == page - 2 * e.vpn2
                                     IN  IF offset <= e.mask THEN e.lo0.pfn + offset
                                         ELSE e.lo1.pfn + offset - e.mask - 1
                    IN  IF holders = {} THEN VR4300Translate(asid, page) = NULL
                        ELSE \E i \in holders : VR4300Translate(asid, page) = Frame0(entries[i])
  BY DEF UserTranslation
<1> DEFINE holders == {i \in Slots : /\ InTree(i)
                                     /\ IsGlobalEntry(entries[i]) \/ entries[i].asid = asid
                                     /\ page \div 2 \in Pairs(entries[i])}
           result == VR4300Translate(asid, page)
<1>1. \A i \in Slots : i \in holders <=> Translates(asid, page \div 2, i)
  BY DEF Translates, Maps, LiveIn, InTree, IsGlobalEntry
<1>2. holders \subseteq Slots OBVIOUS
<1> HIDE DEF holders, result
<1>3. \/ /\ result = NULL
         /\ \A i \in Slots : ~Translates(asid, page \div 2, i)
      \/ \E i \in Slots : /\ Translates(asid, page \div 2, i)
                          /\ result = FrameOf(entries[i], page)
  BY TranslateIs DEF result
<1>4. IF holders = {} THEN result = NULL
      ELSE \E i \in holders : result = FrameOf(entries[i], page)
  BY <1>1, <1>2, <1>3
<1> QED BY <1>4 DEF FrameOf, holders, result

(* A user address is translated by the entry that software wrote for it and is *)
(* in use, with the frame of the half it lies in, and by none when there is    *)
(* none (VR4300Translate of TLB.h by way of TLBTreeLookup).                    *)
THEOREM UserTranslationAlways ==
  ASSUME OneSpaceIn(Uses)
  PROVE  Spec => []UserTranslation
<1>1. TLBInv => UserTranslation BY InvTranslation
<1> QED BY <1>1, TLBInvariance, PTL
=============================================================================
