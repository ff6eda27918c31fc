-------------------------------- MODULE TLB ---------------------------------
(***************************************************************************)
(* The TLB: the instructions on it (TLB.c), the CP0 registers they use     *)
(* (CP0.c), and the two red-black trees that hold its entries (TLBTree.c), *)
(* one for global entries and one for those of an address space.           *)
(*                                                                         *)
(* A node of a tree is a slot; left, right and parent are its pointers, of *)
(* which parent is NULL for a slot in no tree.  The pointers of such a     *)
(* slot, and the parent of a nil node, are not read before they are set    *)
(* again: they are kept at NULL.  Mirrored code is written once, with a    *)
(* direction as a parameter.                                               *)
(*                                                                         *)
(* Addresses count pages.  An entry maps mask + 1 pairs of pages, from the *)
(* pair vpn2 on, the first half of them to lo0 and the second to lo1.      *)
(***************************************************************************)
EXTENDS Integers, FiniteSets

CONSTANTS
  Slots,       \* the indices of the array of entries
  GlobalNil,   \* the nil nodes of the two trees
  AsidNil,
  NULL,
  Entries,     \* contents software gives the registers, all aligned
  Empty,       \* a zeroed entry
  RegionSize,  \* values of VPN2: 2^27 in the code
  Pages32,     \* pages in 32 bits of address: 2^20 in the code
  Uses         \* which entries software writes to which slots

ASSUME NodesAssumption ==
  /\ IsFiniteSet(Slots)
  /\ GlobalNil # AsidNil
  /\ {GlobalNil, AsidNil} \cap Slots = {}
  /\ NULL \notin Slots \cup {GlobalNil, AsidNil}

(* An entry starts on a multiple of its length, which divides those of a   *)
(* region and of the user space, as any shorter power of two does.         *)
ASSUME EntriesAssumption ==
  /\ RegionSize \in Nat \ {0}
  /\ Pages32 \in Nat
  /\ Pages32 % 4 = 0
  /\ Empty.region = 0
  /\ \A e \in Entries \cup {Empty} :
       /\ e \in [region : 0 .. 3, vpn2 : 0 .. RegionSize - 1, mask : Nat, asid : Nat,
                 lo0 : [global : BOOLEAN, pfn : Nat], lo1 : [global : BOOLEAN, pfn : Nat]]
       /\ e.vpn2 % (e.mask + 1) = 0
       /\ RegionSize % (e.mask + 1) = 0
       /\ (Pages32 \div 4) % (e.mask + 1) = 0

Trees == {"global", "asid"}
Nil == [global |-> GlobalNil, asid |-> AsidNil]
Nodes == Slots \cup {GlobalNil, AsidNil}

RED   == "red"
BLACK == "black"

VARIABLES
  tree,        \* the roots, and the pointers and colours of the nodes
  entries,     \* tlbEntryHi, tlbEntryLo0, tlbEntryLo1 and pageMask of a node
  regs,        \* EntryHi, EntryLo0, EntryLo1 and PageMask
  index        \* Index

vars == <<tree, entries, regs, index>>

-----------------------------------------------------------------------------
(* Entries *)

IsGlobalEntry(e) == e.lo0.global /\ e.lo1.global

(* No two slots for entries that are not global. *)
OneSpaceIn(uses) ==
  \A u, v \in uses : IsGlobalEntry(u[2]) \/ IsGlobalEntry(v[2]) \/ u[1] = v[1]

TreeOf(e) == IF IsGlobalEntry(e) THEN "global" ELSE "asid"

GetEntryEndAddress(e) == e.vpn2 + e.mask

DoASIDsMatch(x, y) == x.asid = y.asid

DoEntriesOverlap(x, y) ==
  /\ GetEntryEndAddress(x) >= GetEntryEndAddress(y)
  /\ x.vpn2 <= GetEntryEndAddress(y)

(* ~mask & vpn2, for the masks 2^k - 1 *)
Unmasked(vpn2, mask) == vpn2 - (vpn2 % (mask + 1))

-----------------------------------------------------------------------------
(* Loops *)

(* What a loop with these rounds makes of s.  A round changes nothing once  *)
(* the loop is over, and no loop here takes more rounds than there are      *)
(* slots.                                                                   *)
Loop(Round(_), s) ==
  LET after[i \in 0 .. Cardinality(Slots)] == IF i = 0 THEN s ELSE Round(after[i - 1])
  IN  after[Cardinality(Slots)]

(* The end of a walk from node n: next leads from slot to slot.             *)
Walk(next, n) == Loop(LAMBDA m : IF m \in Slots THEN next[m] ELSE m, n)

-----------------------------------------------------------------------------
(* Trees *)

Sides == {"left", "right"}

Other(side) == IF side = "left" THEN "right" ELSE "left"

Root(t, k) == t.root[k]

Child(t, n, side) == t.child[n][side]

Parent(t, n) == t.parent[n]

Color(t, n) == t.color[n]

SetRoot(t, k, n) == [t EXCEPT !.root[k] = n]

SetChild(t, n, side, m) == [t EXCEPT !.child[n][side] = m]

SetParent(t, n, m) == [t EXCEPT !.parent[n] = m]

Paint(t, n, color) == [t EXCEPT !.color[n] = color]

Transplant(t, k, u, v) ==
  LET p    == Parent(t, u)
      side == IF u = Child(t, p, "left") THEN "left" ELSE "right"
  IN  SetParent(IF p = Nil[k] THEN SetRoot(t, k, v) ELSE SetChild(t, p, side, v), v, p)

(* Mutant: the subtree that changes sides keeps its parent. *)
RotateForgetsParent(t, k, n, side) ==
  LET y == Child(t, n, Other(side))
      r == SetChild(t, n, Other(side), Child(t, y, side))
  IN  SetParent(SetChild(Transplant(r, k, n, y), y, side, n), n, y)

(* RotateLeft and RotateRight: n goes down to that side. *)
Rotate(t, k, n, side) ==
  LET y     == Child(t, n, Other(side))
      inner == Child(t, y, side)
      r     == SetChild(t, n, Other(side), inner)
      q     == IF inner = Nil[k] THEN r ELSE SetParent(r, inner, n)
  IN  SetParent(SetChild(Transplant(q, k, n, y), y, side, n), n, y)

(* The loop of TLBTreeFixup: x is the tree and the node that may be a red   *)
(* child of a red node.                                                     *)
FixupRound(k, x) ==
  LET t     == x.tree
      n     == x.node
      p     == Parent(t, n)
      g     == Parent(t, p)
      side  == IF p = Child(t, g, "left") THEN "left" ELSE "right"
      cur   == Child(t, g, Other(side))
      inner == n = Child(t, p, Other(side))
      low   == IF inner THEN p ELSE n
      r     == IF inner THEN Rotate(t, k, p, side) ELSE t
      top   == Parent(r, low)
  IN  IF Color(t, p) # RED THEN x
      ELSE IF Color(t, cur) = RED
           THEN [tree |-> Paint(Paint(Paint(t, p, BLACK), cur, BLACK), g, RED), node |-> g]
           ELSE [tree |-> Rotate(Paint(Paint(r, top, BLACK), g, RED), k, g, Other(side)),
                 node |-> low]

TLBTreeFixup(t, k, n) ==
  LET x == Loop(LAMBDA y : FixupRound(k, y), [tree |-> t, node |-> n])
  IN  Paint(x.tree, Root(x.tree, k), BLACK)

(* The sibling of the child of p on that side, and its children. *)
Sibling(t, p, side) == Child(t, p, Other(side))

Near(t, p, side) == Child(t, Sibling(t, p, side), side)

Far(t, p, side) == Child(t, Sibling(t, p, side), Other(side))

(* The rotations of the loop of TLBTreeEvict: of a red sibling over p, of a *)
(* sibling without a red far child under its near one, and of a sibling     *)
(* with a red far child over p.                                             *)
LiftSibling(t, k, p, side) ==
  IF Color(t, Sibling(t, p, side)) = RED
  THEN Rotate(Paint(Paint(t, Sibling(t, p, side), BLACK), p, RED), k, p, side)
  ELSE t

LiftNear(t, k, p, side) ==
  IF Color(t, Far(t, p, side)) = BLACK
  THEN Rotate(Paint(Paint(t, Near(t, p, side), BLACK), Sibling(t, p, side), RED),
              k, Sibling(t, p, side), Other(side))
  ELSE t

LiftFar(t, k, p, side) ==
  Rotate(Paint(Paint(Paint(t, Sibling(t, p, side), Color(t, p)), p, BLACK),
               Far(t, p, side), BLACK), k, p, side)

(* The loop of TLBTreeEvict that restores the colours from the node of x up. *)
EvictRound(k, x) ==
  LET t    == x.tree
      n    == x.node
      p    == Parent(t, n)
      side == IF n = Child(t, p, "left") THEN "left" ELSE "right"
      t1   == LiftSibling(t, k, p, side)
      t2   == LiftFar(LiftNear(t1, k, p, side), k, p, side)
  IN  IF n = Root(t, k) \/ Color(t, n) = RED THEN x
      ELSE IF Color(t1, Near(t1, p, side)) = BLACK /\ Color(t1, Far(t1, p, side)) = BLACK
           THEN [tree |-> Paint(t1, Sibling(t1, p, side), RED), node |-> p]
           ELSE [tree |-> t2, node |-> Root(t2, k)]

EvictFixup(t, k, n) ==
  LET x == Loop(LAMBDA y : EvictRound(k, y), [tree |-> t, node |-> n])
  IN  Paint(x.tree, x.node, BLACK)

Leftmost(t, k, n) ==
  Walk([m \in Slots |-> IF Child(t, m, "left") = Nil[k] THEN m ELSE Child(t, m, "left")], n)

(* A node with two children gives its place to its in-order successor; the *)
(* result is the tree, the node whose place was filled, and its colour.    *)
Unlink(t, k, n) ==
  LET left  == Child(t, n, "left")
      right == Child(t, n, "right")
      next  == Leftmost(t, k, right)
      fixup == Child(t, next, "right")
      r     == IF next = right THEN SetParent(t, fixup, next)
               ELSE SetParent(SetChild(Transplant(t, k, next, fixup), next, "right", right),
                              right, next)
      s     == SetParent(SetChild(Transplant(r, k, n, next), next, "left", left), left, next)
  IN  IF left = Nil[k]
      THEN [tree |-> Transplant(t, k, n, right), fixup |-> right, color |-> Color(t, n)]
      ELSE IF right = Nil[k]
      THEN [tree |-> Transplant(t, k, n, left), fixup |-> left, color |-> Color(t, n)]
      ELSE [tree |-> Paint(s, next, Color(t, n)), fixup |-> fixup, color |-> Color(t, next)]

Unused == [side \in Sides |-> NULL]

SetChildren(t, n, children) == [t EXCEPT !.child[n] = children]

(* The tree after slot i is taken out of use. *)
Free(t, k, i) ==
  SetParent(SetParent(Paint(SetChildren(t, i, Unused), i, BLACK), i, NULL), Nil[k], NULL)

(* Mutant: the fix-up is left out when the evicted node was red, though its *)
(* successor, which takes its place, was black.                             *)
EvictByOwnColor(t, i) ==
  LET k == TreeOf(entries[i])
      u == Unlink(t, k, i)
      s == IF u.color = BLACK /\ Color(t, i) = BLACK
           THEN EvictFixup(u.tree, k, u.fixup) ELSE u.tree
  IN  IF Parent(t, i) = NULL THEN t ELSE Free(s, k, i)

TLBTreeEvict(t, i) ==
  LET k == TreeOf(entries[i])
      u == Unlink(t, k, i)
      s == IF u.color = BLACK THEN EvictFixup(u.tree, k, u.fixup) ELSE u.tree
  IN  IF Parent(t, i) = NULL THEN t ELSE Free(s, k, i)

(* Two walks down tree k that look for the place of entry e; es are the     *)
(* entries of the nodes.  Each goes on while the child on Side's side is a  *)
(* slot (and, for the first, matches) and ends at the last node it visited. *)
SideOf(e, f) == IF GetEntryEndAddress(e) < GetEntryEndAddress(f) THEN "left" ELSE "right"

SideOfASID(e, f) == IF e.asid < f.asid THEN "left" ELSE "right"

WalkASIDs(t, es, e, n) ==
  Walk([m \in Slots |->
          LET c == Child(t, m, SideOfASID(e, es[m]))
          IN  IF c \in Slots /\ DoASIDsMatch(e, es[c]) THEN c ELSE m], n)

WalkEnds(t, es, e, n) ==
  Walk([m \in Slots |->
          LET c == Child(t, m, SideOf(e, es[m])) IN IF c \in Slots THEN c ELSE m], n)

(* The node below which the entry of node i belongs in its tree: the first  *)
(* walk ends at last, and the second starts at the child it stopped before. *)
PlaceOf(t, es, i) ==
  LET k     == TreeOf(es[i])
      root  == Root(t, k)
      last  == WalkASIDs(t, es, es[i], root)
      check == Child(t, last, SideOfASID(es[i], es[last]))
  IN  IF k = "asid" /\ root # Nil[k] /\ DoASIDsMatch(es[i], es[root])
      THEN IF check = Nil[k] THEN last ELSE WalkEnds(t, es, es[i], check)
      ELSE WalkEnds(t, es, es[i], root)

(* The overlaps TLBTreeInsert looks for: with the last node of each walk. *)
Refused(t, es, i) ==
  LET k   == TreeOf(es[i])
      cur == PlaceOf(t, es, i)
      g   == WalkEnds(t, es, es[i], Root(t, "global"))
  IN  \/ /\ k = "asid"
         /\ g # GlobalNil
         /\ DoEntriesOverlap(es[i], es[g])
      \/ /\ cur # Nil[k]
         /\ k = "global" \/ DoASIDsMatch(es[i], es[cur])
         /\ DoEntriesOverlap(es[i], es[cur])

(* The tree with i as a red leaf of tree k below cur. *)
Leaf(t, k, i, cur, side) ==
  LET r == SetParent(SetChildren(t, i, [s \in Sides |-> Nil[k]]), i, cur)
      s == IF cur = Nil[k] THEN SetRoot(r, k, i) ELSE SetChild(r, cur, side, i)
  IN  Paint(s, i, RED)

(* Mutant: the new node goes to the left of an equal or smaller one. *)
InsertMirrored(t, es, i) ==
  LET k   == TreeOf(es[i])
      cur == PlaceOf(t, es, i)
  IN  IF Refused(t, es, i) THEN t
      ELSE TLBTreeFixup(Leaf(t, k, i, cur, Other(SideOf(es[i], es[cur]))), k, i)

TLBTreeInsert(t, es, i) ==
  LET k   == TreeOf(es[i])
      cur == PlaceOf(t, es, i)
  IN  IF Refused(t, es, i) THEN t
      ELSE TLBTreeFixup(Leaf(t, k, i, cur, SideOf(es[i], es[cur])), k, i)

(* The slot below n in tree k whose entry maps a pair of pages, or NULL. *)
SearchTree(k, n, vpn2) ==
  LET next == [m \in Slots |->
                 IF entries[m].vpn2 = Unmasked(vpn2, entries[m].mask) THEN m
                 ELSE Child(tree, m, IF vpn2 < entries[m].vpn2 THEN "left" ELSE "right")]
      last == Walk(next, n)
  IN  IF last = Nil[k] THEN NULL ELSE last

FindASID(n, asid) ==
  Walk([m \in Slots |->
          IF entries[m].asid = asid THEN m
          ELSE Child(tree, m, IF asid < entries[m].asid THEN "left" ELSE "right")], n)

(* The region is the upper part of the number of a pair of pages. *)
Merge(region, vpn2) == region * RegionSize + vpn2

TLBTreeLookup(asid, region, vpn2) ==
  LET global == SearchTree("global", Root(tree, "global"), Merge(region, vpn2))
  IN  IF global # NULL THEN global
      ELSE SearchTree("asid", FindASID(Root(tree, "asid"), asid), Merge(region, vpn2))

-----------------------------------------------------------------------------
(* Instructions *)

(* MTC0 to EntryHi, EntryLo0, EntryLo1 and PageMask. *)
MTC0Entry ==
  /\ regs' \in Entries
  /\ UNCHANGED <<tree, entries, index>>

MTC0Index ==
  /\ \E i \in Slots : index' = [index EXCEPT !.index = i]
  /\ UNCHANGED <<tree, entries, regs>>

InTree(i) == Parent(tree, i) # NULL

Pairs(e) ==
  LET first == Merge(e.region, e.vpn2 % RegionSize) IN first .. first + e.mask

(* Entries one of which may translate a page of the other. *)
Clash(e, f) ==
  /\ IsGlobalEntry(e) \/ IsGlobalEntry(f) \/ e.asid = f.asid
  /\ Pairs(e) \cap Pairs(f) # {}

(* What software must see to, for the result of a clash is undefined.      *)
Disciplined ==
  \A i \in Slots \ {index.index} : InTree(i) => ~Clash(regs, entries[i])

TLBWI ==
  /\ <<index.index, regs>> \in Uses
  /\ Disciplined
  /\ entries' = [entries EXCEPT ![index.index] =
                   [regs EXCEPT !.vpn2 = Merge(regs.region, regs.vpn2)]]
  /\ tree' = TLBTreeInsert(TLBTreeEvict(tree, index.index), entries', index.index)
  /\ UNCHANGED <<regs, index>>

(* Mutant: the region stays folded into VPN2. *)
TLBRFolded ==
  /\ regs' = entries[index.index]
  /\ UNCHANGED <<tree, entries, index>>

TLBR ==
  /\ regs' = [entries[index.index] EXCEPT !.vpn2 = @ % RegionSize]
  /\ UNCHANGED <<tree, entries, index>>

TLBP ==
  LET n == TLBTreeLookup(regs.asid, regs.region, regs.vpn2)
  IN  /\ index' = IF n # NULL THEN [probe |-> TRUE, index |-> n]
                  ELSE [index EXCEPT !.probe = FALSE]
      /\ UNCHANGED <<tree, entries, regs>>

(* Mutant: the last page of the first half is taken for the second. *)
TranslateEarly(asid, page) ==
  LET n   == TLBTreeLookup(asid, page \div (2 * RegionSize), (page \div 2) % RegionSize)
      e   == entries[n]
      end == (2 * e.vpn2 + e.mask) % Pages32
      lo  == IF page >= end THEN e.lo1 ELSE e.lo0
  IN  IF n = NULL THEN NULL ELSE lo.pfn + (page % (e.mask + 1))

(* VR4300Translate.  The end of the first half is a number of 32 bits, and *)
(* a frame is aligned to the size of a half.                               *)
VR4300Translate(asid, page) ==
  LET n   == TLBTreeLookup(asid, page \div (2 * RegionSize), (page \div 2) % RegionSize)
      e   == entries[n]
      end == (2 * e.vpn2 + e.mask + 1) % Pages32
      lo  == IF page >= end THEN e.lo1 ELSE e.lo0
  IN  IF n = NULL THEN NULL ELSE lo.pfn + (page % (e.mask + 1))

Init ==
  /\ tree = [root   |-> Nil,
             child  |-> [n \in Nodes |-> Unused],
             parent |-> [n \in Nodes |-> NULL],
             color  |-> [n \in Nodes |-> BLACK]]
  /\ entries = [i \in Slots |-> Empty]
  /\ regs = Empty
  /\ index \in [probe : {FALSE}, index : Slots]

Next == MTC0Entry \/ MTC0Index \/ TLBWI \/ TLBR \/ TLBP

Spec == Init /\ [][Next]_vars

-----------------------------------------------------------------------------
(* Properties *)

Children(n) == {Child(tree, n, side) : side \in Sides} \ {GlobalNil, AsidNil}

(* Links agree: every slot in use is in the tree of its kind once, and its *)
(* parent points at it as a child.  TLBTreeEvict finds the tree and the    *)
(* place of a node by these links alone.                                   *)
LinksAgree ==
  /\ \A k \in Trees : Root(tree, k) # Nil[k] => Parent(tree, Root(tree, k)) = Nil[k]
  /\ \A i \in Slots : InTree(i) =>
       LET k == TreeOf(entries[i])
           p == Parent(tree, i)
       IN  /\ Children(i) \subseteq {j \in Slots : Parent(tree, j) = i}
           /\ p = Nil[k] => Root(tree, k) = i
           /\ p # Nil[k] => /\ TreeOf(entries[p]) = k
                            /\ i \in Children(p)

(* The black nodes on the way down from a node. *)
BlackHeight ==
  LET height[n \in Nodes] ==
        IF n \in Slots /\ InTree(n)
        THEN height[Child(tree, n, "left")] + (IF Color(tree, n) = BLACK THEN 1 ELSE 0)
        ELSE 0
  IN  height

(* The trees are red-black trees: the root is black, a red node has black  *)
(* children, and every path down has as many black nodes.  It is what the  *)
(* rebalancing of TLBTreeInsert and TLBTreeEvict is for ("lookup in        *)
(* O(lg n)", TLBTree.c).                                                   *)
RedBlack ==
  /\ \A k \in Trees : Color(tree, Root(tree, k)) = BLACK
  /\ \A i \in Slots : InTree(i) =>
       /\ Color(tree, i) = RED => \A j \in Children(i) : Color(tree, j) = BLACK
       /\ BlackHeight[Child(tree, i, "left")] = BlackHeight[Child(tree, i, "right")]

(* A user address is translated by the entry in use that maps it, from the *)
(* half of the pair it lies in, whatever has been written and evicted.     *)
UserTranslation ==
  \A page \in 0 .. Pages32 \div 2 - 1, asid \in {e.asid : e \in Entries} :
    LET holders == {i \in Slots : /\ InTree(i)
                                  /\ IsGlobalEntry(entries[i]) \/ entries[i].asid = asid
                                  /\ page \div 2 \in Pairs(entries[i])}
        Frame(e) == LET offset == page - 2 * e.vpn2
                    IN  IF offset <= e.mask THEN e.lo0.pfn + offset
                        ELSE e.lo1.pfn + offset - e.mask - 1
    IN  IF holders = {} THEN VR4300Translate(asid, page) = NULL
        ELSE \E i \in holders : VR4300Translate(asid, page) = Frame(entries[i])

(* The trees implement an array of entries that is searched as a set.      *)
Flat == INSTANCE FlatTLB WITH
  slots <- [i \in Slots |-> [entries[i] EXCEPT !.vpn2 = @ % RegionSize]],
  live  <- {i \in Slots : InTree(i)}

FlatSpec == Flat!Spec
=============================================================================
