---------------------------- MODULE CjsonProofs ----------------------------
(***************************************************************************)
(* The trees of cJSON stay whole, for every size of the heap, every        *)
(* nesting limit and every sequence of calls: the lists are closed rings,  *)
(* every allocated item has one owner, and a parse or a copy that fails    *)
(* anywhere frees what it built, once.                                     *)
(*                                                                         *)
(* The invariant names, for every item, the item in whose list it is (its  *)
(* home m), and says of next and child, the pointers cJSON_Delete follows, *)
(* that no set of items is followed in a circle.  From this the walks of   *)
(* the model, recursive functions, are determined: the number of items     *)
(* reached from an item falls along every pointer, and a least item or a   *)
(* least number of steps at which a walk went wrong cannot exist.          *)
(***************************************************************************)
EXTENDS CjsonTree, FiniteSetTheorems, SequenceTheorems, WellFoundedInduction, TLAPS

-----------------------------------------------------------------------------
(* What cJSON_Delete follows.                                              *)

\* The heaps the model can be in.
Heaps == [Items -> [next : 0 .. Size, prev : 0 .. Size, child : 0 .. Size, ref : BOOLEAN]]

\* The first item of a list x owns.
Kid(h, x) == IF h[x].ref THEN NULL ELSE h[x].child

\* cJSON_Delete goes on from x to y.
Follows(h, x, y) == y = h[x].next \/ y = Kid(h, x)

\* No item can be followed back for ever: there are no loops.
Grounded(h) ==
    \A S \in SUBSET Items : (\A y \in S : \E x \in S : Follows(h, x, y)) => S = {}

\* C holds everything a deletion of its items goes on to.
Sealed(h, C) == \A y \in C, z \in Items : Follows(h, y, z) => z \in C

\* What a deletion of x reaches.
Down(h, x) == {w \in Items : \A C \in SUBSET Items : x \in C /\ Sealed(h, C) => w \in C}

\* A deletion of x reaches x and, from there, only what it can go on to.
LEMMA DownFacts ==
  ASSUME NEW h, NEW x \in Items
  PROVE  /\ Down(h, x) \subseteq Items /\ x \in Down(h, x) /\ Sealed(h, Down(h, x))
         /\ \A C \in SUBSET Items : x \in C /\ Sealed(h, C) => Down(h, x) \subseteq C
         /\ \A y \in Down(h, x) : y = x \/ \E w \in Down(h, x) : Follows(h, w, y)
<1>1. Down(h, x) \subseteq Items /\ x \in Down(h, x)
  BY DEF Down
<1>2. \A C \in SUBSET Items : x \in C /\ Sealed(h, C) => Down(h, x) \subseteq C
  BY DEF Down
<1>3. Sealed(h, Down(h, x))
  <2> SUFFICES ASSUME NEW y \in Down(h, x), NEW z \in Items, Follows(h, y, z),
                      NEW C \in SUBSET Items, x \in C, Sealed(h, C)
               PROVE  z \in C
    BY Zenon DEF Sealed, Down
  <2>1. y \in C
    BY <1>2
  <2> QED BY <2>1, Zenon DEF Sealed
<1>4. ASSUME NEW y \in Down(h, x), y # x, \A w \in Down(h, x) : ~ Follows(h, w, y)
      PROVE  FALSE
  <2> DEFINE C == Down(h, x) \ {y}
  <2>1. C \in SUBSET Items /\ x \in C
    BY <1>1, <1>4
  <2>2. Sealed(h, C)
    BY <1>3, <1>4, Zenon DEF Sealed
  <2>3. Down(h, x) \subseteq C
    BY <1>2, <2>1, <2>2
  <2> QED BY <2>3
<1> QED BY <1>1, <1>2, <1>3, <1>4

-----------------------------------------------------------------------------
(* The shape of the heap, and what it implies about deletions.             *)

\* L is allocated, the tops T belong to no list, m gives every item its home.
Typed(h, L, T, m) == h \in Heaps /\ L \subseteq Items /\ T \subseteq L /\ m \in [Items -> 0 .. Size]

\* Free items are blank, and no list is theirs or holds them.
Dead(h, L, m) == \A x \in Items \ L : h[x] = Blank /\ m[x] = NULL

\* Pointers lead to live items that have no other owner.
Inside(h, L, T) == \A x, y \in Items : Follows(h, x, y) => x \in L /\ y \in L \ T

\* An item that is no top is in some list.
Reached(h, L, T) == \A y \in L \ T : \E x \in L : Follows(h, x, y)

\* m names the item in whose list an item is.
NextBack(h, m) == \A x, n \in Items : h[x].next = n => h[n].prev = x /\ m[n] = m[x]

\* child points at a first item: one of that list, which no next points at.
KidHome(h, m) == \A x, c \in Items : Kid(h, x) = c => m[c] = x /\ \A w \in Items : h[w].next # c

\* z is the last item of the list of p.
IsLast(h, m, p, z) == z \in Items /\ h[z].next = NULL /\ m[z] = p

\* The rings are closed, but for those of O.
Rings(h, O, m) ==
    \A x \in Items \ O, c \in Items : Kid(h, x) = c => IsLast(h, m, x, h[c].prev)

\* A top is no item of a list that already hangs from its owner.
TopsFree(h, T, m) == \A t \in T : m[t] = NULL \/ Kid(h, m[t]) = NULL

\* The pointers of cJSON items form disjoint trees of lists.
Shape(h, L, T, O, m) ==
    /\ Typed(h, L, T, m) /\ Grounded(h) /\ Dead(h, L, m) /\ Inside(h, L, T)
    /\ Reached(h, L, T) /\ NextBack(h, m) /\ KidHome(h, m) /\ Rings(h, O, m)
    /\ TopsFree(h, T, m)

\* An item is reached along one pointer only, so cJSON_Delete meets it once.
LEMMA OneBefore ==
  ASSUME NEW h, NEW m, NextBack(h, m), KidHome(h, m),
         NEW a \in Items, NEW b \in Items, NEW y \in Items, Follows(h, a, y), Follows(h, b, y)
  PROVE  a = b
  BY DEF NextBack, KidHome, Follows

\* D is what deletions of tops reach.
Span(h, T, D) ==
    /\ D \subseteq Items /\ Sealed(h, D)
    /\ \A y \in D : y \in T \/ \E w \in D : Follows(h, w, y)

\* The items a deletion of a top reaches are a span.
LEMMA DownSpan ==
  ASSUME NEW h, NEW T, NEW x \in Items, x \in T
  PROVE  Span(h, T, Down(h, x))
  BY DownFacts DEF Span

\* So are those that deletions of several tops reach.
LEMMA SpansJoin ==
  ASSUME NEW h, NEW T, NEW X, \A x \in X : Span(h, T, Down(h, x))
  PROVE  Span(h, T, UNION {Down(h, x) : x \in X})
<1> DEFINE U == UNION {Down(h, x) : x \in X}
<1>1. \A y \in U : \E x \in X : y \in Down(h, x)
  OBVIOUS
<1>2. \A x \in X : Down(h, x) \subseteq U
  OBVIOUS
<1> HIDE DEF U
<1>3. U \subseteq Items
  BY <1>1 DEF Span
<1>4. Sealed(h, U)
  BY <1>1, <1>2, Zenon DEF Span, Sealed
<1>5. ASSUME NEW y \in U PROVE y \in T \/ \E w \in U : Follows(h, w, y)
  BY <1>1, <1>2, Zenon DEF Span
<1> QED BY <1>3, <1>4, <1>5 DEF Span, U

\* No item of a list is deleted without its owner.
LEMMA HomeOutside ==
  ASSUME NEW h, NEW L, NEW T, NEW O, NEW m, Shape(h, L, T, O, m),
         NEW D, Span(h, T, D), NEW p \in Items \ D, Kid(h, p) # NULL
  PROVE  \A y \in D : m[y] # p
<1> DEFINE S == {y \in D : m[y] = p}
<1>1. S \in SUBSET Items
  BY DEF Span
<1>2. ASSUME NEW y \in S PROVE \E w \in S : Follows(h, w, y)
  <2>1. y \in Items /\ y \in D /\ m[y] = p /\ p # NULL
    BY <1>1 DEF Items, NULL
  <2>2. y \notin T
    BY <2>1 DEF Shape, TopsFree
  <2>3. PICK w \in D : Follows(h, w, y)
    BY <2>1, <2>2 DEF Span
  <2>4. w \in Items
    BY DEF Span
  <2>5. CASE y = h[w].next
    <3>1. m[w] = p
      BY <2>1, <2>4, <2>5 DEF Shape, NextBack
    <3> QED BY <2>3, <3>1
  <2>6. CASE y = Kid(h, w)
    <3>1. w = p
      BY <2>1, <2>4, <2>6 DEF Shape, KidHome
    <3> QED BY <2>3, <3>1
  <2> QED BY <2>3, <2>5, <2>6 DEF Follows
<1>3. S = {}
  BY <1>1, <1>2, Zenon DEF Shape, Grounded
<1> QED BY <1>3

\* Different owners reach different items.
LEMMA DownApart ==
  ASSUME NEW h, NEW L, NEW T, NEW O, NEW m, Shape(h, L, T, O, m),
         NEW a \in T, NEW b \in T, a # b
  PROVE  Down(h, a) \intersect Down(h, b) = {}
<1> DEFINE S == Down(h, a) \intersect Down(h, b)
<1>1. a \in Items /\ b \in Items
  BY DEF Shape, Typed
<1>2. /\ S \in SUBSET Items
      /\ \A y \in Down(h, a) : y = a \/ \E w \in Down(h, a) : Follows(h, w, y)
      /\ \A y \in Down(h, b) : y = b \/ \E w \in Down(h, b) : Follows(h, w, y)
      /\ Down(h, a) \subseteq Items /\ Down(h, b) \subseteq Items
  BY <1>1, DownFacts
<1>3. ASSUME NEW y \in S PROVE \E w \in S : Follows(h, w, y)
  <2>0. \A w \in Items : Follows(h, w, y) => y \notin T
    BY <1>2, Zenon DEF Shape, Inside
  <2>1. y # a /\ y # b
    BY <1>2, <2>0
  <2>2. PICK w \in Down(h, a) : Follows(h, w, y)
    BY <1>2, <2>1
  <2>3. PICK v \in Down(h, b) : Follows(h, v, y)
    BY <1>2, <2>1
  <2>4. w = v
    BY <1>2, <2>2, <2>3, OneBefore DEF Shape
  <2> QED BY <2>2, <2>3, <2>4
<1>4. S = {}
  BY <1>2, <1>3, Zenon DEF Shape, Grounded
<1> QED BY <1>4

\* A deletion of an allocated item reaches allocated items only.
LEMMA DownLive ==
  ASSUME NEW h, NEW L, NEW T, NEW O, NEW m, Shape(h, L, T, O, m), NEW x \in L
  PROVE  Down(h, x) \subseteq L
<1>1. Sealed(h, L) /\ L \in SUBSET Items /\ x \in Items
  BY DEF Shape, Inside, Typed, Sealed
<1> QED BY <1>1, DownFacts

\* Everything live is reached from some top.
LEMMA AllReached ==
  ASSUME NEW h, NEW L, NEW T, NEW O, NEW m, Shape(h, L, T, O, m)
  PROVE  L = UNION {Down(h, t) : t \in T}
<1> DEFINE U == UNION {Down(h, t) : t \in T}
           S == L \ U
<1>0. L \subseteq Items /\ T \subseteq L
  BY DEF Shape, Typed
<1>1. U \subseteq L
  BY <1>0, DownLive
<1>2. ASSUME NEW y \in S PROVE \E w \in S : Follows(h, w, y)
  <2>1. y \in L \ T /\ y \in Items
    BY <1>0, DownFacts
  <2>2. PICK w \in L : Follows(h, w, y)
    BY <2>1, Zenon DEF Shape, Reached
  <2>3. ASSUME w \in U PROVE FALSE
    <3>1. PICK t \in T : w \in Down(h, t)
      BY <2>3
    <3>2. t \in Items
      BY <1>0
    <3>3. y \in Down(h, t)
      BY <2>1, <2>2, <3>1, <3>2, DownFacts, Zenon DEF Sealed
    <3> QED BY <3>3
  <2> QED BY <2>2, <2>3
<1>3. S \in SUBSET Items
  BY <1>0
<1>4. S = {}
  BY <1>2, <1>3, Zenon DEF Shape, Grounded
<1> QED BY <1>1, <1>4

-----------------------------------------------------------------------------
(* Changing pointers without making a loop.                                *)

\* Removing pointers makes no loop.
LEMMA GroundedFewer ==
  ASSUME NEW h, NEW g, Grounded(h), \A x, y \in Items : Follows(g, x, y) => Follows(h, x, y)
  PROVE  Grounded(g)
<1> SUFFICES ASSUME NEW S \in SUBSET Items, \A y \in S : \E x \in S : Follows(g, x, y)
             PROVE  S = {}
  BY Zenon DEF Grounded
<1>1. \A y \in S : \E x \in S : Follows(h, x, y)
  BY Zenon
<1> QED BY <1>1, Zenon DEF Grounded

\* x, which nothing leads to, is put behind q, and a, which was there, behind x.
LEMMA GroundedGraft ==
  ASSUME NEW h, NEW g, Grounded(h), NEW D \in SUBSET Items, Sealed(h, D),
         NEW x \in D, \A w \in Items : ~ Follows(h, w, x),
         NEW q \in Items \ D, NEW a, a \in Items => Follows(h, q, a),
         \A w, y \in Items : Follows(g, w, y) =>
             Follows(h, w, y) \/ (w = q /\ y = x) \/ (w = x /\ y = a)
  PROVE  Grounded(g)
<1> SUFFICES ASSUME NEW S \in SUBSET Items, \A y \in S : \E w \in S : Follows(g, w, y)
             PROVE  S = {}
  BY Zenon DEF Grounded
<1>0. x \in Items /\ a # x
  BY Zenon
<1>1. x \in S => q \in S
  BY <1>0, Zenon
<1> DEFINE R == S \ D
<1>2. ASSUME NEW y \in R PROVE \E w \in R : Follows(h, w, y)
  <2>1. PICK w \in S : Follows(g, w, y)
    BY Zenon
  <2>2. CASE Follows(h, w, y)
    BY <2>2, Zenon DEF Sealed
  <2>3. CASE w = x /\ y = a
    BY <1>1, <2>3
  <2> QED BY <2>1, <2>2, <2>3
<1>3. R = {}
  BY <1>2, Zenon DEF Grounded
<1>4. x \notin S
  BY <1>1, <1>3
<1>5. ASSUME NEW y \in S PROVE \E w \in S : Follows(h, w, y)
  <2>1. PICK w \in S : Follows(g, w, y)
    BY Zenon
  <2>2. Follows(h, w, y)
    BY <1>4, <2>1
  <2> QED BY <2>2
<1> QED BY <1>5, Zenon DEF Grounded

\* x is taken out from between q and n.
LEMMA GroundedCut ==
  ASSUME NEW h, NEW g, Grounded(h), NEW x \in Items, NEW q \in Items, NEW n \in Items,
         Follows(h, q, x), Follows(h, x, n), \A w \in Items : Follows(h, w, n) => w = x,
         ~ Follows(g, x, n),
         \A w, y \in Items : Follows(g, w, y) => Follows(h, w, y) \/ (w = q /\ y = n)
  PROVE  Grounded(g)
<1> SUFFICES ASSUME NEW S \in SUBSET Items, \A y \in S : \E w \in S : Follows(g, w, y)
             PROVE  S = {}
  BY Zenon DEF Grounded
<1>1. n \in S => q \in S
  BY Zenon
<1> DEFINE R == S \union {y \in Items : y = x /\ n \in S}
<1>2. ASSUME NEW y \in R PROVE \E w \in R : Follows(h, w, y)
  <2>1. CASE y \in S
    <3>1. PICK w \in S : Follows(g, w, y)
      BY <2>1
    <3> QED BY <3>1
  <2>2. CASE y = x /\ n \in S
    BY <1>1, <2>2
  <2> QED BY <2>1, <2>2
<1>3. R = {}
  <2>1. R \in SUBSET Items
    OBVIOUS
  <2> HIDE DEF R
  <2> QED BY <1>2, <2>1, Zenon DEF Grounded
<1> QED BY <1>3

-----------------------------------------------------------------------------
(* What allocating, freeing and linking do to the shape.                   *)

\* A ring that may be open is not asked about.
LEMMA ShapeOpen ==
  ASSUME NEW h, NEW L, NEW T, NEW O, NEW P, NEW m, Shape(h, L, T, O, m), O \subseteq P
  PROVE  Shape(h, L, T, P, m)
  BY DEF Shape, Rings

\* An item without children has no ring to close.
LEMMA ShapeNoRing ==
  ASSUME NEW h, NEW L, NEW T, NEW O, NEW m, NEW p, Shape(h, L, T, O, m), Kid(h, p) = NULL
  PROVE  Shape(h, L, T, O \ {p}, m)
<1>1. NULL \notin Items
  BY DEF NULL, Items
<1>2. Rings(h, O \ {p}, m)
  BY <1>1 DEF Shape, Rings
<1> QED BY <1>2 DEF Shape

\* A new item, owned by the caller or the call in progress.
LEMMA ShapeNew ==
  ASSUME NEW h, NEW L, NEW T, NEW O, NEW m, Shape(h, L, T, O, m), NEW x \in Items \ L,
         NEW v \in 0 .. Size, v = NULL \/ Kid(h, v) = NULL
  PROVE  Shape(h, L \union {x}, T \union {x}, O, [m EXCEPT ![x] = v])
<1> DEFINE m2 == [m EXCEPT ![x] = v]
<1>0. m \in [Items -> 0 .. Size] /\ h[x] = Blank /\ NULL \notin Items
  BY DEF Shape, Typed, Dead, NULL, Items
<1>00. \A y \in Items : m2[y] = IF y = x THEN v ELSE m[y]
  BY <1>0
<1>000. m2 \in [Items -> 0 .. Size]
  BY <1>0
<1> HIDE DEF m2
<1>1. Typed(h, L \union {x}, T \union {x}, m2)
  BY <1>0, <1>000 DEF Shape, Typed
<1>2. Dead(h, L \union {x}, m2)
  BY <1>00 DEF Shape, Dead
<1>3. \A w \in Items : ~ Follows(h, w, x) /\ ~ Follows(h, x, w)
  BY Zenon DEF Shape, Inside
<1>4. Inside(h, L \union {x}, T \union {x})
  BY <1>3 DEF Shape, Inside
<1>5. Reached(h, L \union {x}, T \union {x})
  BY DEF Shape, Reached
<1>6. NextBack(h, m2)
  BY <1>3, <1>00 DEF Shape, NextBack, Follows
<1>7. KidHome(h, m2)
  BY <1>3, <1>00 DEF Shape, KidHome, Follows
<1>8. Rings(h, O, m2)
  <2> SUFFICES ASSUME NEW y \in Items \ O, NEW c \in Items, Kid(h, y) = c
               PROVE  IsLast(h, m2, y, h[c].prev)
    BY Zenon DEF Rings
  <2>1. IsLast(h, m, y, h[c].prev)
    BY DEF Shape, Rings
  <2>2. m[x] = NULL /\ y # NULL
    BY <1>0 DEF Shape, Dead
  <2> QED BY <2>1, <2>2, <1>00 DEF IsLast
<1>9. TopsFree(h, T \union {x}, m2)
  <2>1. \A t \in T : t # x /\ t \in Items
    BY DEF Shape, Typed
  <2> QED BY <2>1, <1>00, <1>0 DEF Shape, TopsFree
<1> QED BY <1>1, <1>2, <1>4, <1>5, <1>6, <1>7, <1>8, <1>9 DEF Shape, m2

\* Deleting what some tops reach.
LEMMA ShapeFree ==
  ASSUME NEW h, NEW L, NEW T, NEW O, NEW m, Shape(h, L, T, O, m),
         NEW D, Span(h, T, D)
  PROVE  Shape(Freed(h, D), L \ D, T \ D, O, [y \in Items |-> IF y \in D THEN NULL ELSE m[y]])
<1> DEFINE g == Freed(h, D)
           m2 == [y \in Items |-> IF y \in D THEN NULL ELSE m[y]]
<1>1. \A y \in Items : g[y] = IF y \in D THEN Blank ELSE h[y]
  BY DEF Freed
<1>2. \A y \in Items : m2[y] = IF y \in D THEN NULL ELSE m[y]
  OBVIOUS
<1>3. g \in Heaps /\ m2 \in [Items -> 0 .. Size]
  <2>0. Size \in Nat
    BY CjsonAssumption
  <2>1. Blank \in [next : 0 .. Size, prev : 0 .. Size, child : 0 .. Size, ref : BOOLEAN]
    BY <2>0 DEF Blank, NULL
  <2>2. h \in Heaps /\ m \in [Items -> 0 .. Size] /\ NULL \in 0 .. Size
    BY <2>0 DEF Shape, Typed, NULL
  <2> QED BY <2>1, <2>2 DEF Freed, Heaps
<1>4. Blank.next = NULL /\ Blank.child = NULL /\ NULL \notin Items
  BY DEF Blank, NULL, Items
<1> HIDE DEF g, m2
<1>5. \A x, y \in Items : Follows(g, x, y) <=> x \notin D /\ Follows(h, x, y)
  BY <1>1, <1>4 DEF Follows, Kid
<1>6. \A x, y \in Items : x \notin D /\ Follows(h, x, y) => y \notin D
  <2> SUFFICES ASSUME NEW x \in Items, NEW y \in D, x \notin D, Follows(h, x, y) PROVE FALSE
    OBVIOUS
  <2>1. y \in Items /\ y \notin T
    BY Zenon DEF Shape, Inside, Span
  <2>2. PICK w \in D : Follows(h, w, y)
    BY <2>1, Zenon DEF Span
  <2>3. w = x
    BY <2>1, <2>2, OneBefore DEF Shape, Span
  <2> QED BY <2>2, <2>3
<1>7. Typed(g, L \ D, T \ D, m2)
  BY <1>3 DEF Shape, Typed
<1>8. Grounded(g)
  BY <1>5, GroundedFewer DEF Shape
<1>9. Dead(g, L \ D, m2)
  BY <1>1, <1>2 DEF Shape, Dead
<1>10. Inside(g, L \ D, T \ D)
  BY <1>5, <1>6 DEF Shape, Inside
<1>11. Reached(g, L \ D, T \ D)
  <2> SUFFICES ASSUME NEW y \in (L \ D) \ (T \ D) PROVE \E x \in L \ D : Follows(g, x, y)
    BY DEF Reached
  <2>1. L \subseteq Items
    BY DEF Shape, Typed
  <2>2. PICK x \in L : Follows(h, x, y)
    BY DEF Shape, Reached
  <2>3. x \notin D
    BY <2>1, <2>2, Zenon DEF Span, Sealed
  <2> QED BY <2>1, <2>2, <2>3, <1>5
<1>12. NextBack(g, m2)
  <2> SUFFICES ASSUME NEW x \in Items, NEW n \in Items, g[x].next = n
               PROVE  g[n].prev = x /\ m2[n] = m2[x]
    BY DEF NextBack
  <2>1. x \notin D /\ n \notin D /\ h[x].next = n
    BY <1>1, <1>4, <1>6 DEF Follows
  <2> QED BY <1>1, <1>2, <2>1 DEF Shape, NextBack
<1>13. ASSUME NEW x \in Items, NEW c \in Items, Kid(g, x) = c
       PROVE  x \notin D /\ c \notin D /\ Kid(h, x) = c
  BY <1>1, <1>4, <1>6, <1>13 DEF Follows, Kid
<1>14. KidHome(g, m2)
  <2> SUFFICES ASSUME NEW x \in Items, NEW c \in Items, Kid(g, x) = c
               PROVE  m2[c] = x /\ \A w \in Items : g[w].next # c
    BY DEF KidHome
  <2>1. x \notin D /\ c \notin D /\ Kid(h, x) = c
    BY <1>13
  <2>2. m[c] = x /\ \A w \in Items : h[w].next # c
    BY <2>1 DEF Shape, KidHome
  <2> QED BY <1>1, <1>2, <1>4, <2>1, <2>2
<1>15. Rings(g, O, m2)
  <2> SUFFICES ASSUME NEW x \in Items \ O, NEW c \in Items, Kid(g, x) = c
               PROVE  IsLast(g, m2, x, g[c].prev)
    BY Zenon DEF Rings
  <2>1. x \notin D /\ c \notin D /\ Kid(h, x) = c
    BY <1>13
  <2>2. IsLast(h, m, x, h[c].prev)
    BY <2>1 DEF Shape, Rings
  <2>3. \A y \in D : m[y] # x
    <3>1. Kid(h, x) # NULL
      BY <1>4, <2>1
    <3> QED BY <2>1, <3>1, HomeOutside
  <2> QED BY <1>1, <1>2, <2>1, <2>2, <2>3 DEF IsLast
<1>16. TopsFree(g, T \ D, m2)
  <2> SUFFICES ASSUME NEW t \in T \ D, m2[t] # NULL PROVE Kid(g, m2[t]) = NULL
    BY DEF TopsFree
  <2>1. t \in Items /\ m2[t] = m[t]
    BY <1>2 DEF Shape, Typed
  <2>2. m[t] \in Items
    <3>1. Size \in Nat
      BY CjsonAssumption
    <3>2. m[t] \in 0 .. Size /\ m[t] # 0
      BY <2>1 DEF Shape, Typed, NULL
    <3> QED BY <3>1, <3>2 DEF Items
  <2>3. Kid(h, m[t]) = NULL
    BY <2>1 DEF Shape, TopsFree
  <2> QED BY <1>1, <1>4, <2>1, <2>2, <2>3 DEF Kid
<1> QED BY <1>7, <1>8, <1>9, <1>10, <1>11, <1>12, <1>14, <1>15, <1>16 DEF Shape, g, m2

\* NULL is no item.
LEMMA SizeNat == Size \in Nat /\ NULL \in 0 .. Size /\ NULL \notin Items /\ Items \subseteq 0 .. Size
                 /\ \A n \in 0 .. Size : n # NULL => n \in Items
  BY CjsonAssumption DEF NULL, Items

\* What an assignment to one field of one item changes.
LEMMA SetField ==
  ASSUME NEW h \in Heaps, NEW n \in Items, NEW v \in 0 .. Size
  PROVE  /\ Set(h, n, "next", v) \in Heaps /\ Set(h, n, "prev", v) \in Heaps
         /\ Set(h, n, "child", v) \in Heaps
         /\ \A y \in Items : Set(h, n, "next", v)[y].next = IF y = n THEN v ELSE h[y].next
         /\ \A y \in Items : /\ Set(h, n, "next", v)[y].prev = h[y].prev
                             /\ Set(h, n, "next", v)[y].child = h[y].child
                             /\ Set(h, n, "next", v)[y].ref = h[y].ref
         /\ \A y \in Items : Set(h, n, "prev", v)[y].prev = IF y = n THEN v ELSE h[y].prev
         /\ \A y \in Items : /\ Set(h, n, "prev", v)[y].next = h[y].next
                             /\ Set(h, n, "prev", v)[y].child = h[y].child
                             /\ Set(h, n, "prev", v)[y].ref = h[y].ref
         /\ \A y \in Items : Set(h, n, "child", v)[y].child = IF y = n THEN v ELSE h[y].child
         /\ \A y \in Items : /\ Set(h, n, "child", v)[y].next = h[y].next
                             /\ Set(h, n, "child", v)[y].prev = h[y].prev
                             /\ Set(h, n, "child", v)[y].ref = h[y].ref
  BY SizeNat DEF Set, Heaps

\* No item is its own neighbour or child.
LEMMA NoLoop ==
  ASSUME NEW h, Grounded(h), NEW x \in Items
  PROVE  ~ Follows(h, x, x)
<1> SUFFICES ASSUME Follows(h, x, x) PROVE FALSE
  OBVIOUS
<1>1. {x} \in SUBSET Items /\ \A y \in {x} : \E w \in {x} : Follows(h, w, y)
  OBVIOUS
<1>2. {x} = {}
  BY <1>1, Zenon DEF Grounded
<1> QED BY <1>2

\* m with x in the list of p.
Housed(m, x, p) == [m EXCEPT ![x] = p]

\* A top is nobody's.
LEMMA TopFacts ==
  ASSUME NEW h, NEW L, NEW T, NEW O, NEW m, Shape(h, L, T, O, m), NEW x \in T
  PROVE  /\ x \in Items /\ x \in L /\ h \in Heaps /\ m \in [Items -> 0 .. Size]
         /\ \A w \in Items : ~ Follows(h, w, x) /\ h[w].next # x /\ Kid(h, w) # x
         /\ \A p \in Items : Kid(h, p) # NULL => m[x] # p
<1>1. x \in Items /\ x \in L /\ h \in Heaps /\ m \in [Items -> 0 .. Size]
  BY DEF Shape, Typed
<1>2. \A w \in Items : ~ Follows(h, w, x) /\ h[w].next # x /\ Kid(h, w) # x
  BY <1>1 DEF Shape, Inside, Follows
<1>3. \A p \in Items : Kid(h, p) # NULL => m[x] # p
  BY SizeNat DEF Shape, TopsFree
<1> QED BY <1>1, <1>2, <1>3

\* Closing the ring of p: the first child's prev becomes the last child.
LEMMA ShapeClose ==
  ASSUME NEW h, NEW L, NEW T, NEW O, NEW m, Shape(h, L, T, O, m),
         NEW p \in Items, NEW c \in Items, Kid(h, p) = c, NEW z, IsLast(h, m, p, z),
         NEW g \in Heaps,
         \A y \in Items : /\ g[y].next = h[y].next /\ g[y].child = h[y].child
                          /\ g[y].ref = h[y].ref /\ g[y].prev = IF y = c THEN z ELSE h[y].prev
  PROVE  Shape(g, L, T, O \ {p}, m)
<1>1. \A y \in Items : Kid(g, y) = Kid(h, y)
  BY DEF Kid
<1>2. \A x, y \in Items : Follows(g, x, y) <=> Follows(h, x, y)
  BY <1>1 DEF Follows
<1>3. c \in L
  <2>1. Follows(h, p, c)
    BY DEF Follows
  <2> QED BY <2>1, Zenon DEF Shape, Inside
<1>4. Typed(g, L, T, m)
  BY DEF Shape, Typed
<1>5. Grounded(g)
  BY <1>2, GroundedFewer DEF Shape
<1>6. Dead(g, L, m)
  <2> SUFFICES ASSUME NEW x \in Items \ L PROVE g[x] = h[x]
    BY DEF Shape, Dead
  <2> QED BY <1>3 DEF Heaps, Shape, Typed
<1>7. Inside(g, L, T) /\ Reached(g, L, T)
  <2>1. L \subseteq Items
    BY DEF Shape, Typed
  <2> QED BY <1>2, <2>1 DEF Shape, Inside, Reached
<1>8. m[c] = p /\ \A w \in Items : h[w].next # c
  BY DEF Shape, KidHome
<1>9. NextBack(g, m)
  BY <1>8 DEF Shape, NextBack
<1>10. KidHome(g, m)
  BY <1>1 DEF Shape, KidHome
<1>11. Rings(g, O \ {p}, m)
  <2> SUFFICES ASSUME NEW x \in Items \ (O \ {p}), NEW d \in Items, Kid(g, x) = d
               PROVE  IsLast(g, m, x, g[d].prev)
    BY Zenon DEF Rings
  <2>1. CASE x = p
    <3>1. d = c
      BY <1>1, <2>1
    <3> QED BY <2>1, <3>1 DEF IsLast
  <2>2. CASE x # p
    <3>1. d # c
      BY <1>1, <1>8, <2>2 DEF Shape, KidHome
    <3>2. IsLast(h, m, x, h[d].prev)
      BY <1>1, <2>2 DEF Shape, Rings
    <3> QED BY <3>1, <3>2 DEF IsLast
  <2> QED BY <2>1, <2>2
<1>12. TopsFree(g, T, m)
  <2> SUFFICES ASSUME NEW t \in T, m[t] # NULL PROVE Kid(g, m[t]) = NULL
    BY DEF TopsFree
  <2>1. m[t] \in Items
    BY SizeNat DEF Shape, Typed
  <2> QED BY <1>1, <2>1 DEF Shape, TopsFree
<1> QED BY <1>4, <1>5, <1>6, <1>7, <1>9, <1>10, <1>11, <1>12 DEF Shape

\* x and what follows it become the list of p, which had none.
LEMMA ShapeLinkFirst ==
  ASSUME NEW h, NEW L, NEW T, NEW O, NEW m, Shape(h, L, T, O, m),
         NEW p \in L, Kid(h, p) = NULL, ~ h[p].ref,
         NEW x \in T, h[x].next = NULL \/ m[x] = p, p \notin Down(h, x),
         \A t \in T \ {x} : m[t] # p,
         NEW g \in Heaps,
         \A y \in Items : /\ g[y].next = h[y].next /\ g[y].prev = h[y].prev
                          /\ g[y].ref = h[y].ref /\ g[y].child = IF y = p THEN x ELSE h[y].child
  PROVE  Shape(g, L, T \ {x}, O \union {p}, Housed(m, x, p))
<1> DEFINE m2 == Housed(m, x, p)
<1>0. /\ x \in Items /\ x \in L /\ p \in Items /\ p \in 0 .. Size /\ m \in [Items -> 0 .. Size]
      /\ L \subseteq Items /\ T \subseteq L
      /\ \A w \in Items : ~ Follows(h, w, x) /\ h[w].next # x /\ Kid(h, w) # x
  <2>1. L \subseteq Items /\ T \subseteq L /\ p \in Items
    BY DEF Shape, Typed
  <2> QED BY <2>1, TopFacts, SizeNat
<1>1. m2 \in [Items -> 0 .. Size] /\ \A y \in Items : m2[y] = IF y = x THEN p ELSE m[y]
  BY <1>0 DEF Housed
<1> HIDE DEF m2
<1>2. \A y \in Items : Kid(g, y) = IF y = p THEN x ELSE Kid(h, y)
  BY DEF Kid
<1>3. \A v, y \in Items : Follows(g, v, y) <=> (Follows(h, v, y) \/ (v = p /\ y = x))
  BY <1>0, <1>2, SizeNat DEF Follows
<1>4. Typed(g, L, T \ {x}, m2)
  BY <1>1 DEF Shape, Typed
<1>5. Grounded(g)
  <2> DEFINE D == Down(h, x)
  <2>1. D \in SUBSET Items /\ x \in D /\ Sealed(h, D) /\ p \in Items \ D
    BY <1>0, DownFacts
  <2>2. NULL \in Items => Follows(h, p, NULL)
    BY SizeNat
  <2>3. \A w, y \in Items : Follows(g, w, y) =>
            Follows(h, w, y) \/ (w = p /\ y = x) \/ (w = x /\ y = NULL)
    BY <1>3
  <2>4. Grounded(h) /\ \A w \in Items : ~ Follows(h, w, x)
    BY <1>0 DEF Shape
  <2> HIDE DEF D
  <2> QED BY <2>1, <2>2, <2>3, <2>4, GroundedGraft
<1>6. Dead(g, L, m2)
  <2> SUFFICES ASSUME NEW y \in Items \ L PROVE g[y] = h[y] /\ m2[y] = m[y]
    BY DEF Shape, Dead
  <2> QED BY <1>0, <1>1 DEF Heaps, Shape, Typed
<1>7. Inside(g, L, T \ {x})
  BY <1>0, <1>3 DEF Shape, Inside
<1>8. Reached(g, L, T \ {x})
  BY <1>0, <1>3 DEF Shape, Reached
<1>9. NextBack(g, m2)
  <2> SUFFICES ASSUME NEW y \in Items, NEW n \in Items, g[y].next = n
               PROVE  g[n].prev = y /\ m2[n] = m2[y]
    BY DEF NextBack
  <2>1. h[y].next = n /\ n # x
    BY <1>0
  <2>2. h[n].prev = y /\ m[n] = m[y]
    BY <2>1 DEF Shape, NextBack
  <2> QED BY <1>1, <2>1, <2>2, SizeNat
<1>10. KidHome(g, m2)
  <2> SUFFICES ASSUME NEW y \in Items, NEW c \in Items, Kid(g, y) = c
               PROVE  m2[c] = y /\ \A w \in Items : g[w].next # c
    BY DEF KidHome
  <2>1. CASE y = p
    BY <1>0, <1>1, <1>2, <2>1
  <2>2. CASE y # p
    <3>1. Kid(h, y) = c /\ c # x
      BY <1>0, <1>2, <2>2
    <3>2. m[c] = y /\ \A w \in Items : h[w].next # c
      BY <3>1 DEF Shape, KidHome
    <3> QED BY <1>1, <3>1, <3>2
  <2> QED BY <2>1, <2>2
<1>11. Rings(g, O \union {p}, m2)
  <2> SUFFICES ASSUME NEW y \in Items \ (O \union {p}), NEW c \in Items, Kid(g, y) = c
               PROVE  IsLast(g, m2, y, g[c].prev)
    BY Zenon DEF Rings
  <2>1. Kid(h, y) = c
    BY <1>2
  <2>2. IsLast(h, m, y, h[c].prev)
    BY <2>1 DEF Shape, Rings
  <2>3. m[x] # y
    BY <2>1, TopFacts, SizeNat
  <2> QED BY <1>1, <2>2, <2>3 DEF IsLast
<1>12. TopsFree(g, T \ {x}, m2)
  <2> SUFFICES ASSUME NEW t \in T \ {x}, m2[t] # NULL PROVE Kid(g, m2[t]) = NULL
    BY DEF TopsFree
  <2>1. t \in Items /\ m2[t] = m[t] /\ m[t] \in Items
    BY <1>0, <1>1, SizeNat
  <2> QED BY <1>2, <2>1 DEF Shape, TopsFree
<1> QED BY <1>4, <1>5, <1>6, <1>7, <1>8, <1>9, <1>10, <1>11, <1>12 DEF Shape, m2

\* g is h with x linked after z.
LinkedAfter(h, g, z, x) ==
    /\ g \in Heaps
    /\ \A y \in Items : /\ g[y].next = IF y = z THEN x ELSE h[y].next
                        /\ g[y].prev = IF y = x THEN z ELSE h[y].prev
                        /\ g[y].ref = h[y].ref /\ g[y].child = h[y].child

\* x is put behind z, the last of a list.
LEMMA ShapeLinkLast ==
  ASSUME NEW h, NEW L, NEW T, NEW O, NEW m, Shape(h, L, T, O, m),
         NEW z \in L, h[z].next = NULL, NEW p, m[z] = p,
         NEW x \in T, h[x].next = NULL, z \notin Down(h, x),
         NEW g, LinkedAfter(h, g, z, x)
  PROVE  Shape(g, L, T \ {x}, O \union {p}, Housed(m, x, p))
<1>00. g \in Heaps /\ \A y \in Items :
          /\ g[y].next = IF y = z THEN x ELSE h[y].next
          /\ g[y].prev = IF y = x THEN z ELSE h[y].prev
          /\ g[y].ref = h[y].ref /\ g[y].child = h[y].child
  BY DEF LinkedAfter
<1> USE <1>00
<1> DEFINE m2 == Housed(m, x, p)
<1>0. /\ x \in Items /\ x \in L /\ z \in Items /\ p \in 0 .. Size /\ m \in [Items -> 0 .. Size]
      /\ L \subseteq Items /\ T \subseteq L
      /\ \A w \in Items : ~ Follows(h, w, x) /\ h[w].next # x /\ Kid(h, w) # x
  BY TopFacts, SizeNat DEF Shape, Typed
<1>1. m2 \in [Items -> 0 .. Size] /\ \A y \in Items : m2[y] = IF y = x THEN p ELSE m[y]
  BY <1>0 DEF Housed
<1> HIDE DEF m2
<1>2. \A y \in Items : Kid(g, y) = Kid(h, y)
  BY DEF Kid
<1>3. \A v, y \in Items : Follows(g, v, y) <=> (Follows(h, v, y) \/ (v = z /\ y = x))
  BY <1>0, <1>2, SizeNat DEF Follows
<1>4. Typed(g, L, T \ {x}, m2)
  BY <1>1 DEF Shape, Typed
<1>5. Grounded(g)
  <2> DEFINE D == Down(h, x)
  <2>1. D \in SUBSET Items /\ x \in D /\ Sealed(h, D) /\ z \in Items \ D
    BY <1>0, DownFacts
  <2>2. NULL \in Items => Follows(h, z, NULL)
    BY SizeNat
  <2>3. \A w, y \in Items : Follows(g, w, y) =>
            Follows(h, w, y) \/ (w = z /\ y = x) \/ (w = x /\ y = NULL)
    BY <1>3
  <2>4. Grounded(h) /\ \A w \in Items : ~ Follows(h, w, x)
    BY <1>0 DEF Shape
  <2> HIDE DEF D
  <2> QED BY <2>1, <2>2, <2>3, <2>4, GroundedGraft
<1>6. Dead(g, L, m2)
  <2> SUFFICES ASSUME NEW y \in Items \ L PROVE g[y] = h[y] /\ m2[y] = m[y]
    BY DEF Shape, Dead
  <2> QED BY <1>0, <1>1 DEF Heaps, Shape, Typed
<1>7. Inside(g, L, T \ {x})
  BY <1>0, <1>3 DEF Shape, Inside
<1>8. Reached(g, L, T \ {x})
  BY <1>0, <1>3 DEF Shape, Reached
<1>9. NextBack(g, m2)
  <2> SUFFICES ASSUME NEW y \in Items, NEW n \in Items, g[y].next = n
               PROVE  g[n].prev = y /\ m2[n] = m2[y]
    BY DEF NextBack
  <2>1. CASE y = z
    <3>1. n = x
      BY <2>1
    <3> QED BY <1>1, <2>1, <3>1
  <2>2. CASE y # z
    <3>1. h[y].next = n /\ n # x /\ y # x
      BY <1>0, <2>2, SizeNat
    <3>2. h[n].prev = y /\ m[n] = m[y]
      BY <3>1 DEF Shape, NextBack
    <3> QED BY <1>1, <3>1, <3>2
  <2> QED BY <2>1, <2>2
<1>10. KidHome(g, m2)
  <2> SUFFICES ASSUME NEW y \in Items, NEW c \in Items, Kid(g, y) = c
               PROVE  m2[c] = y /\ \A w \in Items : g[w].next # c
    BY DEF KidHome
  <2>1. Kid(h, y) = c /\ c # x
    BY <1>0, <1>2
  <2>2. m[c] = y /\ \A w \in Items : h[w].next # c
    BY <2>1 DEF Shape, KidHome
  <2> QED BY <1>1, <2>1, <2>2
<1>11. Rings(g, O \union {p}, m2)
  <2> SUFFICES ASSUME NEW y \in Items \ (O \union {p}), NEW c \in Items, Kid(g, y) = c
               PROVE  IsLast(g, m2, y, g[c].prev)
    BY Zenon DEF Rings
  <2>1. Kid(h, y) = c /\ c # x
    BY <1>0, <1>2
  <2>2. IsLast(h, m, y, h[c].prev)
    BY <2>1 DEF Shape, Rings
  <2>3. m[x] # y
    BY <2>1, TopFacts, SizeNat
  <2> QED BY <1>1, <2>1, <2>2, <2>3 DEF IsLast
<1>12. TopsFree(g, T \ {x}, m2)
  <2> SUFFICES ASSUME NEW t \in T \ {x}, m2[t] # NULL PROVE Kid(g, m2[t]) = NULL
    BY DEF TopsFree
  <2>1. t \in Items /\ m2[t] = m[t] /\ m[t] \in Items
    BY <1>0, <1>1, SizeNat
  <2> QED BY <1>2, <2>1 DEF Shape, TopsFree
<1> QED BY <1>4, <1>5, <1>6, <1>7, <1>8, <1>9, <1>10, <1>11, <1>12 DEF Shape, m2

\* x is put before a, the first child of p.
InsertedFirst(h, g, p, a, x) ==
    /\ g \in Heaps
    /\ \A y \in Items : /\ g[y].next = IF y = x THEN a ELSE h[y].next
                        /\ g[y].prev = IF y = x THEN h[a].prev ELSE IF y = a THEN x ELSE h[y].prev
                        /\ g[y].ref = h[y].ref /\ g[y].child = IF y = p THEN x ELSE h[y].child

\* cJSON_InsertItemInArray at the front, in which x takes over the ring of a.
LEMMA ShapeInsertFirst ==
  ASSUME NEW h, NEW L, NEW T, NEW O, NEW m, Shape(h, L, T, O, m),
         NEW p \in Items, NEW a \in Items, Kid(h, p) = a, p \notin O,
         NEW x \in T, h[x].next = NULL, p \notin Down(h, x),
         NEW g, InsertedFirst(h, g, p, a, x)
  PROVE  Shape(g, L, T \ {x}, O, Housed(m, x, p))
<1>gg. /\ g \in Heaps
       /\ \A y \in Items : /\ g[y].next = IF y = x THEN a ELSE h[y].next
                           /\ g[y].prev = IF y = x THEN h[a].prev ELSE IF y = a THEN x ELSE h[y].prev
                           /\ g[y].ref = h[y].ref /\ g[y].child = IF y = p THEN x ELSE h[y].child
  BY DEF InsertedFirst
<1> USE <1>gg
<1> DEFINE m2 == Housed(m, x, p)
<1>00. L \subseteq Items /\ T \subseteq L /\ p \in 0 .. Size /\ a # NULL
  BY SizeNat DEF Shape, Typed
<1>0. /\ x \in Items /\ x \in L /\ m \in [Items -> 0 .. Size]
      /\ \A w \in Items : ~ Follows(h, w, x) /\ h[w].next # x /\ Kid(h, w) # x
      /\ \A w \in Items : Kid(h, w) # NULL => m[x] # w
  BY TopFacts
<1>1. m2 \in [Items -> 0 .. Size] /\ \A y \in Items : m2[y] = IF y = x THEN p ELSE m[y]
  BY <1>00, <1>0 DEF Housed
<1> HIDE DEF m2
<1>2. a # x /\ a \in L \ T /\ p \in L /\ ~ h[p].ref /\ m[a] = p /\ \A w \in Items : h[w].next # a
  <2>1. Follows(h, p, a)
    BY DEF Follows
  <2>2. a \in L \ T /\ p \in L
    BY <2>1, Zenon DEF Shape, Inside
  <2>3. ~ h[p].ref
    BY <1>00 DEF Kid
  <2>4. m[a] = p /\ \A w \in Items : h[w].next # a
    BY DEF Shape, KidHome
  <2> QED BY <1>0, <2>2, <2>3, <2>4
<1>3. \A y \in Items : Kid(g, y) = IF y = p THEN x ELSE Kid(h, y)
  BY <1>2 DEF Kid
<1>4. \A v, y \in Items : Follows(g, v, y) <=>
          (Follows(h, v, y) /\ y # a) \/ (v = p /\ y = x) \/ (v = x /\ y = a)
  <2> SUFFICES ASSUME NEW v \in Items, NEW y \in Items
      PROVE Follows(g, v, y) <=> (Follows(h, v, y) /\ y # a) \/ (v = p /\ y = x) \/ (v = x /\ y = a)
    OBVIOUS
  <2>1. Kid(h, v) = a => v = p
    BY <1>2 DEF Shape, KidHome
  <2> QED BY <1>0, <1>2, <1>3, <2>1, SizeNat DEF Follows
<1>5. Typed(g, L, T \ {x}, m2)
  BY <1>1 DEF Shape, Typed
<1>6. Grounded(g)
  <2> DEFINE D == Down(h, x)
  <2>1. D \in SUBSET Items /\ x \in D /\ Sealed(h, D) /\ p \in Items \ D
    BY <1>0, DownFacts
  <2>2. a \in Items => Follows(h, p, a)
    BY DEF Follows
  <2>3. \A w, y \in Items : Follows(g, w, y) =>
            Follows(h, w, y) \/ (w = p /\ y = x) \/ (w = x /\ y = a)
    BY <1>4
  <2>4. Grounded(h) /\ \A w \in Items : ~ Follows(h, w, x)
    BY <1>0 DEF Shape
  <2> HIDE DEF D
  <2> QED BY <2>1, <2>2, <2>3, <2>4, GroundedGraft
<1>7. Dead(g, L, m2)
  <2> SUFFICES ASSUME NEW y \in Items \ L PROVE g[y] = h[y] /\ m2[y] = m[y]
    BY DEF Shape, Dead
  <2> QED BY <1>0, <1>1, <1>2 DEF Heaps, Shape, Typed
<1>8. Inside(g, L, T \ {x})
  BY <1>0, <1>2, <1>4 DEF Shape, Inside
<1>9. Reached(g, L, T \ {x})
  <2> SUFFICES ASSUME NEW y \in L \ (T \ {x}) PROVE \E w \in L : Follows(g, w, y)
    BY DEF Reached
  <2>1. CASE y = x
    BY <1>0, <1>2, <1>4, <2>1
  <2>2. CASE y = a
    BY <1>0, <1>2, <1>4, <2>2
  <2>3. CASE y # x /\ y # a
    <3>1. PICK w \in L : Follows(h, w, y)
      BY <2>3 DEF Shape, Reached
    <3> QED BY <1>00, <1>4, <2>3, <3>1
  <2> QED BY <2>1, <2>2, <2>3
<1>10. NextBack(g, m2)
  <2> SUFFICES ASSUME NEW y \in Items, NEW n \in Items, g[y].next = n
               PROVE  g[n].prev = y /\ m2[n] = m2[y]
    BY DEF NextBack
  <2>1. CASE y = x
    <3>1. n = a
      BY <2>1
    <3> QED BY <1>1, <1>2, <2>1, <3>1
  <2>2. CASE y # x
    <3>1. h[y].next = n /\ n # x /\ n # a
      BY <1>0, <1>2, <2>2
    <3>2. h[n].prev = y /\ m[n] = m[y]
      BY <3>1 DEF Shape, NextBack
    <3> QED BY <1>1, <2>2, <3>1, <3>2
  <2> QED BY <2>1, <2>2
<1>11. KidHome(g, m2)
  <2> SUFFICES ASSUME NEW y \in Items, NEW c \in Items, Kid(g, y) = c
               PROVE  m2[c] = y /\ \A w \in Items : g[w].next # c
    BY DEF KidHome
  <2>1. CASE y = p
    BY <1>0, <1>1, <1>2, <1>3, <2>1
  <2>2. CASE y # p
    <3>1. Kid(h, y) = c /\ c # x
      BY <1>0, <1>3, <2>2
    <3>2. m[c] = y /\ \A w \in Items : h[w].next # c
      BY <3>1 DEF Shape, KidHome
    <3> QED BY <1>1, <1>2, <2>2, <3>1, <3>2
  <2> QED BY <2>1, <2>2
<1>12. Rings(g, O, m2)
  <2> SUFFICES ASSUME NEW y \in Items \ O, NEW c \in Items, Kid(g, y) = c
               PROVE  IsLast(g, m2, y, g[c].prev)
    BY Zenon DEF Rings
  <2>1. CASE y = p
    <3>1. c = x
      BY <1>3, <2>1
    <3>2. IsLast(h, m, p, h[a].prev)
      BY <2>1 DEF Shape, Rings
    <3>3. m[x] # p
      BY <1>00, <1>0
    <3> QED BY <1>1, <2>1, <3>1, <3>2, <3>3 DEF IsLast
  <2>2. CASE y # p
    <3>1. Kid(h, y) = c /\ c # x
      BY <1>0, <1>3, <2>2
    <3>2. IsLast(h, m, y, h[c].prev)
      BY <3>1 DEF Shape, Rings
    <3>3. c # a
      BY <1>2, <2>2, <3>1 DEF Shape, KidHome
    <3>4. m[x] # y
      BY <1>0, <3>1, SizeNat
    <3> QED BY <1>1, <3>1, <3>2, <3>3, <3>4 DEF IsLast
  <2> QED BY <2>1, <2>2
<1>13. TopsFree(g, T \ {x}, m2)
  <2> SUFFICES ASSUME NEW t \in T \ {x}, m2[t] # NULL PROVE Kid(g, m2[t]) = NULL
    BY DEF TopsFree
  <2>1. t \in Items /\ m2[t] = m[t] /\ m[t] \in Items
    BY <1>00, <1>0, <1>1, SizeNat
  <2>2. m[t] # p
    BY <1>00, TopFacts
  <2> QED BY <1>3, <2>1, <2>2 DEF Shape, TopsFree
<1> QED BY <1>5, <1>6, <1>7, <1>8, <1>9, <1>10, <1>11, <1>12, <1>13 DEF Shape, m2

\* x is put between q and a, in the list of p.
InsertedLater(h, g, q, a, x) ==
    /\ g \in Heaps
    /\ \A y \in Items : /\ g[y].next = IF y = x THEN a ELSE IF y = q THEN x ELSE h[y].next
                        /\ g[y].prev = IF y = x THEN q ELSE IF y = a THEN x ELSE h[y].prev
                        /\ g[y].ref = h[y].ref /\ g[y].child = h[y].child

\* cJSON_InsertItemInArray in front of a, which q precedes.
LEMMA ShapeInsertLater ==
  ASSUME NEW h, NEW L, NEW T, NEW O, NEW m, Shape(h, L, T, O, m),
         NEW p \in Items, Kid(h, p) # NULL,
         NEW q \in Items, NEW a \in Items, h[q].next = a, m[a] = p,
         NEW x \in T, h[x].next = NULL, p \notin Down(h, x),
         NEW g, InsertedLater(h, g, q, a, x)
  PROVE  Shape(g, L, T \ {x}, O, Housed(m, x, p))
<1>gg. /\ g \in Heaps
       /\ \A y \in Items : /\ g[y].next = IF y = x THEN a ELSE IF y = q THEN x ELSE h[y].next
                           /\ g[y].prev = IF y = x THEN q ELSE IF y = a THEN x ELSE h[y].prev
                           /\ g[y].ref = h[y].ref /\ g[y].child = h[y].child
  BY DEF InsertedLater
<1> USE <1>gg
<1> DEFINE m2 == Housed(m, x, p)
<1>00. L \subseteq Items /\ T \subseteq L /\ p \in 0 .. Size /\ a # NULL
  BY SizeNat DEF Shape, Typed
<1>0. /\ x \in Items /\ x \in L /\ m \in [Items -> 0 .. Size]
      /\ \A w \in Items : ~ Follows(h, w, x) /\ h[w].next # x /\ Kid(h, w) # x
      /\ \A w \in Items : Kid(h, w) # NULL => m[x] # w
  BY TopFacts
<1>1. m2 \in [Items -> 0 .. Size] /\ \A y \in Items : m2[y] = IF y = x THEN p ELSE m[y]
  BY <1>00, <1>0 DEF Housed
<1> HIDE DEF m2
<1>2. a # x /\ q # x /\ a \in L \ T /\ q \in L /\ m[q] = p /\ h[a].prev = q /\ \A w \in Items : Kid(h, w) # a
  <2>1. Follows(h, q, a)
    BY DEF Follows
  <2>2. a \in L \ T /\ q \in L
    BY <2>1, Zenon DEF Shape, Inside
  <2>3. m[q] = p /\ h[a].prev = q
    BY DEF Shape, NextBack
  <2>4. \A w \in Items : Kid(h, w) # a
    BY DEF Shape, KidHome
  <2> QED BY <1>00, <1>0, <2>2, <2>3, <2>4
<1>3. \A y \in Items : Kid(g, y) = Kid(h, y)
  BY DEF Kid
<1>33. \A w \in Items : h[w].next = a => w = q
  BY <1>2 DEF Shape, NextBack
<1>4. \A v, y \in Items : Follows(g, v, y) <=>
          (Follows(h, v, y) /\ y # a) \/ (v = q /\ y = x) \/ (v = x /\ y = a)
  <2> SUFFICES ASSUME NEW v \in Items, NEW y \in Items
      PROVE Follows(g, v, y) <=> (Follows(h, v, y) /\ y # a) \/ (v = q /\ y = x) \/ (v = x /\ y = a)
    OBVIOUS
  <2> QED BY <1>0, <1>2, <1>3, <1>33, SizeNat DEF Follows
<1>5. Typed(g, L, T \ {x}, m2)
  BY <1>1 DEF Shape, Typed
<1>6. Grounded(g)
  <2> DEFINE D == Down(h, x)
  <2>1. D \in SUBSET Items /\ x \in D /\ Sealed(h, D) /\ q \in Items \ D
    <3>1. Span(h, T, D)
      BY <1>0, DownSpan
    <3>2. \A y \in D : m[y] # p
      BY <3>1, HomeOutside
    <3> QED BY <1>0, <1>2, <3>2, DownFacts
  <2>2. a \in Items => Follows(h, q, a)
    BY DEF Follows
  <2>3. \A w, y \in Items : Follows(g, w, y) =>
            Follows(h, w, y) \/ (w = q /\ y = x) \/ (w = x /\ y = a)
    BY <1>4
  <2>4. Grounded(h) /\ \A w \in Items : ~ Follows(h, w, x)
    BY <1>0 DEF Shape
  <2> HIDE DEF D
  <2> QED BY <2>1, <2>2, <2>3, <2>4, GroundedGraft
<1>7. Dead(g, L, m2)
  <2> SUFFICES ASSUME NEW y \in Items \ L PROVE g[y] = h[y] /\ m2[y] = m[y]
    BY DEF Shape, Dead
  <2> QED BY <1>0, <1>1, <1>2 DEF Heaps, Shape, Typed
<1>8. Inside(g, L, T \ {x})
  BY <1>0, <1>2, <1>4 DEF Shape, Inside
<1>9. Reached(g, L, T \ {x})
  <2> SUFFICES ASSUME NEW y \in L \ (T \ {x}) PROVE \E w \in L : Follows(g, w, y)
    BY DEF Reached
  <2>1. CASE y = x
    BY <1>0, <1>2, <1>4, <2>1
  <2>2. CASE y = a
    BY <1>0, <1>2, <1>4, <2>2
  <2>3. CASE y # x /\ y # a
    <3>1. PICK w \in L : Follows(h, w, y)
      BY <2>3 DEF Shape, Reached
    <3> QED BY <1>00, <1>4, <2>3, <3>1
  <2> QED BY <2>1, <2>2, <2>3
<1>10. NextBack(g, m2)
  <2> SUFFICES ASSUME NEW y \in Items, NEW n \in Items, g[y].next = n
               PROVE  g[n].prev = y /\ m2[n] = m2[y]
    BY DEF NextBack
  <2>1. CASE y = x
    <3>1. n = a
      BY <2>1
    <3> QED BY <1>1, <1>2, <2>1, <3>1
  <2>2. CASE y = q
    <3>1. n = x
      BY <1>2, <2>2
    <3> QED BY <1>1, <1>2, <2>2, <3>1
  <2>3. CASE y # x /\ y # q
    <3>1. h[y].next = n /\ n # x /\ n # a
      BY <1>0, <1>33, <2>3
    <3>2. h[n].prev = y /\ m[n] = m[y]
      BY <3>1 DEF Shape, NextBack
    <3> QED BY <1>1, <2>3, <3>1, <3>2
  <2> QED BY <2>1, <2>2, <2>3
<1>11. KidHome(g, m2)
  <2> SUFFICES ASSUME NEW y \in Items, NEW c \in Items, Kid(g, y) = c
               PROVE  m2[c] = y /\ \A w \in Items : g[w].next # c
    BY DEF KidHome
  <2>1. Kid(h, y) = c /\ c # x /\ c # a
    BY <1>0, <1>2, <1>3
  <2>2. m[c] = y /\ \A w \in Items : h[w].next # c
    BY <2>1 DEF Shape, KidHome
  <2> QED BY <1>1, <2>1, <2>2
<1>12. Rings(g, O, m2)
  <2> SUFFICES ASSUME NEW y \in Items \ O, NEW c \in Items, Kid(g, y) = c
               PROVE  IsLast(g, m2, y, g[c].prev)
    BY Zenon DEF Rings
  <2>1. Kid(h, y) = c /\ c # x /\ c # a
    BY <1>0, <1>2, <1>3
  <2>2. IsLast(h, m, y, h[c].prev)
    BY <2>1 DEF Shape, Rings
  <2>3. m[x] # y
    BY <1>0, <2>1, SizeNat
  <2>4. PICK e \in Items : e = h[c].prev /\ h[e].next = NULL /\ m[e] = y
    BY <2>2 DEF IsLast
  <2>5. e # q /\ e # x /\ g[c].prev = e
    BY <1>00, <2>1, <2>3, <2>4
  <2> QED BY <1>1, <2>4, <2>5 DEF IsLast
<1>13. TopsFree(g, T \ {x}, m2)
  <2> SUFFICES ASSUME NEW t \in T \ {x}, m2[t] # NULL PROVE Kid(g, m2[t]) = NULL
    BY DEF TopsFree
  <2>1. t \in Items /\ m2[t] = m[t] /\ m[t] \in Items
    BY <1>00, <1>0, <1>1, SizeNat
  <2> QED BY <1>3, <2>1 DEF Shape, TopsFree
<1> QED BY <1>5, <1>6, <1>7, <1>8, <1>9, <1>10, <1>11, <1>12, <1>13 DEF Shape, m2

\* x, the first child of p, is taken out.
DetachedFirst(h, g, p, x, n) ==
    /\ g \in Heaps
    /\ \A y \in Items : /\ g[y].next = IF y = x THEN NULL ELSE h[y].next
                        /\ g[y].prev = IF y = x THEN NULL ELSE IF y = n THEN h[x].prev ELSE h[y].prev
                        /\ g[y].ref = h[y].ref /\ g[y].child = IF y = p THEN n ELSE h[y].child

\* cJSON_DetachItemViaPointer of the first item: the next one becomes the first.
LEMMA ShapeDetachFirst ==
  ASSUME NEW h, NEW L, NEW T, NEW O, NEW m, Shape(h, L, T, O, m),
         NEW p \in Items, NEW x \in Items, Kid(h, p) = x, p \notin O,
         NEW n, n = h[x].next, NEW g, DetachedFirst(h, g, p, x, n)
  PROVE  Shape(g, L, T \union {x}, O, Housed(m, x, NULL))
<1>gg. /\ g \in Heaps
       /\ \A y \in Items : /\ g[y].next = IF y = x THEN NULL ELSE h[y].next
                           /\ g[y].prev = IF y = x THEN NULL ELSE IF y = n THEN h[x].prev ELSE h[y].prev
                           /\ g[y].ref = h[y].ref /\ g[y].child = IF y = p THEN n ELSE h[y].child
  BY DEF DetachedFirst
<1> USE <1>gg
<1> DEFINE m2 == Housed(m, x, NULL)
<1>00. L \subseteq Items /\ T \subseteq L /\ NULL \in 0 .. Size /\ x # NULL /\ m \in [Items -> 0 .. Size]
  BY SizeNat DEF Shape, Typed
<1>1. m2 \in [Items -> 0 .. Size] /\ \A y \in Items : m2[y] = IF y = x THEN NULL ELSE m[y]
  BY <1>00 DEF Housed
<1> HIDE DEF m2
<1>0. n \in 0 .. Size /\ (n # NULL => n \in Items) /\ h \in Heaps
  BY SizeNat DEF Shape, Typed, Heaps
<1>2. x \in L \ T /\ p \in L /\ ~ h[p].ref /\ m[x] = p /\ \A w \in Items : h[w].next # x
  <2>1. Follows(h, p, x)
    BY DEF Follows
  <2>2. x \in L \ T /\ p \in L
    BY <2>1, Zenon DEF Shape, Inside
  <2>3. ~ h[p].ref
    BY <1>00 DEF Kid
  <2>4. m[x] = p /\ \A w \in Items : h[w].next # x
    BY DEF Shape, KidHome
  <2> QED BY <2>2, <2>3, <2>4
<1>22. n # x /\ p # x
  <2>1. Follows(h, p, x)
    BY DEF Follows
  <2>2. p # x
    BY <2>1, NoLoop DEF Shape
  <2> QED BY <1>2, <2>2
<1>23. n \in Items =>
         /\ h[n].prev = x /\ m[n] = p
         /\ \A w \in Items : (h[w].next = n => w = x) /\ Kid(h, w) # n
         /\ n \in L \ T
  <2> SUFFICES ASSUME n \in Items
               PROVE  /\ h[n].prev = x /\ m[n] = p
                      /\ \A w \in Items : (h[w].next = n => w = x) /\ Kid(h, w) # n
                      /\ n \in L \ T
    OBVIOUS
  <2>1. h[n].prev = x /\ m[n] = p /\ \A w \in Items : (h[w].next = n => w = x)
    BY <1>2 DEF Shape, NextBack
  <2>2. \A w \in Items : Kid(h, w) # n
    BY DEF Shape, KidHome
  <2>3. Follows(h, x, n)
    BY DEF Follows
  <2>4. n \in L \ T
    BY <2>3, Zenon DEF Shape, Inside
  <2> QED BY <2>1, <2>2, <2>4
<1>24. \A w \in Items : Kid(h, w) = x => w = p
  BY <1>2 DEF Shape, KidHome
<1>3. \A y \in Items : Kid(g, y) = IF y = p THEN n ELSE Kid(h, y)
  BY <1>2 DEF Kid
<1>4. \A v, y \in Items : Follows(g, v, y) <=>
          (Follows(h, v, y) /\ y # x /\ y # n) \/ (v = p /\ y = n)
  <2> SUFFICES ASSUME NEW v \in Items, NEW y \in Items
      PROVE Follows(g, v, y) <=> (Follows(h, v, y) /\ y # x /\ y # n) \/ (v = p /\ y = n)
    OBVIOUS
  <2>1. CASE v = x
    BY <1>22, <1>23, <1>24, <1>3, <2>1, SizeNat DEF Follows
  <2>2. CASE v # x
    BY <1>2, <1>22, <1>23, <1>24, <1>3, <2>2, SizeNat DEF Follows
  <2> QED BY <2>1, <2>2
<1>5. Typed(g, L, T \union {x}, m2)
  BY <1>1, <1>2 DEF Shape, Typed
<1>6. Grounded(g)
  <2>1. CASE n = NULL
    <3>1. \A v, y \in Items : Follows(g, v, y) => Follows(h, v, y)
      BY <1>4, <2>1, SizeNat
    <3> QED BY <3>1, GroundedFewer DEF Shape
  <2>2. CASE n # NULL
    <3>1. n \in Items /\ Follows(h, p, x) /\ Follows(h, x, n)
      BY <1>0, <2>2 DEF Follows
    <3>2. \A w \in Items : Follows(h, w, n) => w = x
      BY <1>23, <3>1 DEF Follows
    <3>3. ~ Follows(g, x, n)
      BY <1>22, <1>4, <3>1
    <3>4. \A w, y \in Items : Follows(g, w, y) => Follows(h, w, y) \/ (w = p /\ y = n)
      BY <1>4
    <3>5. Grounded(h)
      BY DEF Shape
    <3> QED BY <3>1, <3>2, <3>3, <3>4, <3>5, GroundedCut
  <2> QED BY <2>1, <2>2
<1>7. Dead(g, L, m2)
  <2> SUFFICES ASSUME NEW y \in Items \ L PROVE g[y] = h[y] /\ m2[y] = m[y]
    BY DEF Shape, Dead
  <2>1. y # x /\ y # p /\ y # n
    BY <1>2, <1>23
  <2> QED BY <1>1, <2>1 DEF Heaps, Shape, Typed
<1>8. Inside(g, L, T \union {x})
  <2> SUFFICES ASSUME NEW v \in Items, NEW y \in Items, Follows(g, v, y)
               PROVE  v \in L /\ y \in L \ (T \union {x})
    BY Zenon DEF Inside
  <2>1. CASE Follows(h, v, y) /\ y # x /\ y # n
    BY <2>1 DEF Shape, Inside
  <2>2. CASE v = p /\ y = n
    BY <1>2, <1>22, <1>23, <2>2
  <2> QED BY <1>4, <2>1, <2>2
<1>9. Reached(g, L, T \union {x})
  <2> SUFFICES ASSUME NEW y \in L \ (T \union {x}) PROVE \E w \in L : Follows(g, w, y)
    BY DEF Reached
  <2>1. CASE y = n
    BY <1>00, <1>2, <1>4, <2>1
  <2>2. CASE y # n
    <3>1. PICK w \in L : Follows(h, w, y)
      BY DEF Shape, Reached
    <3> QED BY <1>00, <1>4, <2>2, <3>1
  <2> QED BY <2>1, <2>2
<1>10. NextBack(g, m2)
  <2> SUFFICES ASSUME NEW y \in Items, NEW k \in Items, g[y].next = k
               PROVE  g[k].prev = y /\ m2[k] = m2[y]
    BY DEF NextBack
  <2>1. y # x /\ h[y].next = k
    BY SizeNat
  <2>2. k # x /\ k # n
    BY <1>2, <1>23, <2>1
  <2>3. h[k].prev = y /\ m[k] = m[y]
    BY <2>1 DEF Shape, NextBack
  <2> QED BY <1>1, <2>1, <2>2, <2>3
<1>11. KidHome(g, m2)
  <2> SUFFICES ASSUME NEW y \in Items, NEW c \in Items, Kid(g, y) = c
               PROVE  m2[c] = y /\ \A w \in Items : g[w].next # c
    BY DEF KidHome
  <2>1. CASE y = p
    <3>1. c = n
      BY <1>3, <2>1
    <3> QED BY <1>1, <1>22, <1>23, <2>1, <3>1, SizeNat
  <2>2. CASE y # p
    <3>1. Kid(h, y) = c /\ c # x
      BY <1>24, <1>3, <2>2
    <3>2. m[c] = y /\ \A w \in Items : h[w].next # c
      BY <3>1 DEF Shape, KidHome
    <3> QED BY <1>1, <3>1, <3>2, SizeNat
  <2> QED BY <2>1, <2>2
<1>12. Rings(g, O, m2)
  <2> SUFFICES ASSUME NEW y \in Items \ O, NEW c \in Items, Kid(g, y) = c
               PROVE  IsLast(g, m2, y, g[c].prev)
    BY Zenon DEF Rings
  <2>1. CASE y = p
    <3>1. c = n /\ n # NULL
      BY <1>3, <2>1, SizeNat
    <3>2. IsLast(h, m, p, h[x].prev)
      BY <2>1 DEF Shape, Rings
    <3>3. PICK e \in Items : e = h[x].prev /\ h[e].next = NULL /\ m[e] = p
      BY <3>2 DEF IsLast
    <3>4. e # x /\ g[c].prev = e
      BY <1>22, <3>1, <3>3
    <3> QED BY <1>1, <2>1, <3>3, <3>4 DEF IsLast
  <2>2. CASE y # p
    <3>1. Kid(h, y) = c /\ c # x /\ c # n
      BY <1>23, <1>24, <1>3, <2>2
    <3>2. IsLast(h, m, y, h[c].prev)
      BY <3>1 DEF Shape, Rings
    <3>3. PICK e \in Items : e = h[c].prev /\ h[e].next = NULL /\ m[e] = y
      BY <3>2 DEF IsLast
    <3>4. e # x /\ g[c].prev = e
      BY <1>2, <2>2, <3>1, <3>3
    <3> QED BY <1>1, <3>3, <3>4 DEF IsLast
  <2> QED BY <2>1, <2>2
<1>13. TopsFree(g, T \union {x}, m2)
  <2> SUFFICES ASSUME NEW t \in T \union {x}, m2[t] # NULL PROVE Kid(g, m2[t]) = NULL
    BY DEF TopsFree
  <2>1. t # x /\ t \in T
    BY <1>1
  <2>2. t \in Items /\ m2[t] = m[t] /\ m[t] \in Items
    BY <1>00, <1>1, <2>1, SizeNat
  <2>3. m[t] # p
    BY <1>00, <2>1, TopFacts
  <2> QED BY <1>3, <2>1, <2>2, <2>3 DEF Shape, TopsFree
<1> QED BY <1>5, <1>6, <1>7, <1>8, <1>9, <1>10, <1>11, <1>12, <1>13 DEF Shape, m2

\* x, a later child of p, is taken out from behind q; c is the first child.
DetachedLater(h, g, c, q, x, n) ==
    /\ g \in Heaps
    /\ \A y \in Items :
          /\ g[y].next = IF y = x THEN NULL ELSE IF y = q THEN n ELSE h[y].next
          /\ g[y].prev = IF y = x THEN NULL ELSE IF y = n THEN q
                         ELSE IF y = c /\ n = NULL THEN q ELSE h[y].prev
          /\ g[y].ref = h[y].ref /\ g[y].child = h[y].child

\* cJSON_DetachItemViaPointer of a later item; the ring stays closed when it was the last.
LEMMA ShapeDetachLater ==
  ASSUME NEW h, NEW L, NEW T, NEW O, NEW m, Shape(h, L, T, O, m),
         NEW p \in Items, NEW c \in Items, Kid(h, p) = c,
         NEW q \in Items, NEW x \in Items, h[q].next = x, m[x] = p,
         NEW n, n = h[x].next, NEW g, DetachedLater(h, g, c, q, x, n)
  PROVE  Shape(g, L, T \union {x}, O, Housed(m, x, NULL))
<1>gg. /\ g \in Heaps
       /\ \A y \in Items :
             /\ g[y].next = IF y = x THEN NULL ELSE IF y = q THEN n ELSE h[y].next
             /\ g[y].prev = IF y = x THEN NULL ELSE IF y = n THEN q
                            ELSE IF y = c /\ n = NULL THEN q ELSE h[y].prev
             /\ g[y].ref = h[y].ref /\ g[y].child = h[y].child
  BY DEF DetachedLater
<1> USE <1>gg
<1> DEFINE m2 == Housed(m, x, NULL)
<1>00. L \subseteq Items /\ T \subseteq L /\ NULL \in 0 .. Size /\ x # NULL /\ m \in [Items -> 0 .. Size]
  BY SizeNat DEF Shape, Typed
<1>1. m2 \in [Items -> 0 .. Size] /\ \A y \in Items : m2[y] = IF y = x THEN NULL ELSE m[y]
  BY <1>00 DEF Housed
<1> HIDE DEF m2
<1>0. n \in 0 .. Size /\ (n # NULL => n \in Items) /\ h \in Heaps
  BY SizeNat DEF Shape, Typed, Heaps
<1>2. /\ x \in L \ T /\ q \in L /\ c \in L /\ m[q] = p /\ m[c] = p /\ q # x /\ c # x
      /\ \A w \in Items : (h[w].next = x => w = q) /\ Kid(h, w) # x /\ h[w].next # c
  <2>1. Follows(h, q, x) /\ Follows(h, p, c)
    BY DEF Follows
  <2>2. x \in L \ T /\ q \in L /\ c \in L
    BY <2>1, Zenon DEF Shape, Inside
  <2>3. m[q] = p /\ \A w \in Items : h[w].next = x => w = q
    BY DEF Shape, NextBack
  <2>4. m[c] = p /\ \A w \in Items : Kid(h, w) # x /\ h[w].next # c
    BY DEF Shape, KidHome
  <2>5. q # x
    BY <2>1, NoLoop DEF Shape
  <2> QED BY <2>2, <2>3, <2>4, <2>5
<1>23. n \in Items =>
         /\ h[n].prev = x /\ m[n] = p /\ n # x /\ n # q
         /\ \A w \in Items : (h[w].next = n => w = x) /\ Kid(h, w) # n
         /\ n \in L \ T
  <2> SUFFICES ASSUME n \in Items
               PROVE  /\ h[n].prev = x /\ m[n] = p /\ n # x /\ n # q
                      /\ \A w \in Items : (h[w].next = n => w = x) /\ Kid(h, w) # n
                      /\ n \in L \ T
    OBVIOUS
  <2>1. h[n].prev = x /\ m[n] = p /\ \A w \in Items : (h[w].next = n => w = x)
    BY <1>2 DEF Shape, NextBack
  <2>2. \A w \in Items : Kid(h, w) # n
    BY DEF Shape, KidHome
  <2>3. Follows(h, x, n) /\ Follows(h, q, x)
    BY DEF Follows
  <2>4. n \in L \ T
    BY <2>3, Zenon DEF Shape, Inside
  <2>5. n # x
    BY <2>3, NoLoop DEF Shape
  <2>6. n # q
    <3> SUFFICES ASSUME n = q PROVE FALSE
      OBVIOUS
    <3>1. {x, q} \in SUBSET Items /\ \A y \in {x, q} : \E w \in {x, q} : Follows(h, w, y)
      BY <2>3
    <3>2. {x, q} = {}
      BY <3>1, Zenon DEF Shape, Grounded
    <3> QED BY <3>2
  <2> QED BY <2>1, <2>2, <2>4, <2>5, <2>6
<1>3. \A y \in Items : Kid(g, y) = Kid(h, y)
  BY DEF Kid
<1>4. \A v, y \in Items : Follows(g, v, y) <=>
          (Follows(h, v, y) /\ y # x /\ y # n) \/ (v = q /\ y = n)
  <2> SUFFICES ASSUME NEW v \in Items, NEW y \in Items
      PROVE Follows(g, v, y) <=> (Follows(h, v, y) /\ y # x /\ y # n) \/ (v = q /\ y = n)
    OBVIOUS
  <2>1. CASE v = x
    BY <1>2, <1>23, <1>3, <2>1, SizeNat DEF Follows
  <2>2. CASE v = q
    BY <1>2, <1>23, <1>3, <2>2, SizeNat DEF Follows
  <2>3. CASE v # x /\ v # q
    BY <1>2, <1>23, <1>3, <2>3, SizeNat DEF Follows
  <2> QED BY <2>1, <2>2, <2>3
<1>5. Typed(g, L, T \union {x}, m2)
  BY <1>1, <1>2 DEF Shape, Typed
<1>6. Grounded(g)
  <2>1. CASE n = NULL
    <3>1. \A v, y \in Items : Follows(g, v, y) => Follows(h, v, y)
      BY <1>4, <2>1, SizeNat
    <3> QED BY <3>1, GroundedFewer DEF Shape
  <2>2. CASE n # NULL
    <3>1. n \in Items /\ Follows(h, q, x) /\ Follows(h, x, n)
      BY <1>0, <2>2 DEF Follows
    <3>2. \A w \in Items : Follows(h, w, n) => w = x
      BY <1>23, <3>1 DEF Follows
    <3>3. ~ Follows(g, x, n)
      BY <1>2, <1>4, <3>1
    <3>4. \A w, y \in Items : Follows(g, w, y) => Follows(h, w, y) \/ (w = q /\ y = n)
      BY <1>4
    <3>5. Grounded(h)
      BY DEF Shape
    <3> QED BY <3>1, <3>2, <3>3, <3>4, <3>5, GroundedCut
  <2> QED BY <2>1, <2>2
<1>7. Dead(g, L, m2)
  <2> SUFFICES ASSUME NEW y \in Items \ L PROVE g[y] = h[y] /\ m2[y] = m[y]
    BY DEF Shape, Dead
  <2>1. y # x /\ y # q /\ y # n /\ y # c
    BY <1>2, <1>23
  <2> QED BY <1>1, <2>1 DEF Heaps, Shape, Typed
<1>8. Inside(g, L, T \union {x})
  <2> SUFFICES ASSUME NEW v \in Items, NEW y \in Items, Follows(g, v, y)
               PROVE  v \in L /\ y \in L \ (T \union {x})
    BY Zenon DEF Inside
  <2>1. CASE Follows(h, v, y) /\ y # x /\ y # n
    BY <2>1 DEF Shape, Inside
  <2>2. CASE v = q /\ y = n
    BY <1>2, <1>23, <2>2
  <2> QED BY <1>4, <2>1, <2>2
<1>9. Reached(g, L, T \union {x})
  <2> SUFFICES ASSUME NEW y \in L \ (T \union {x}) PROVE \E w \in L : Follows(g, w, y)
    BY DEF Reached
  <2>1. CASE y = n
    BY <1>00, <1>2, <1>4, <2>1
  <2>2. CASE y # n
    <3>1. PICK w \in L : Follows(h, w, y)
      BY DEF Shape, Reached
    <3> QED BY <1>00, <1>4, <2>2, <3>1
  <2> QED BY <2>1, <2>2
<1>10. NextBack(g, m2)
  <2> SUFFICES ASSUME NEW y \in Items, NEW k \in Items, g[y].next = k
               PROVE  g[k].prev = y /\ m2[k] = m2[y]
    BY DEF NextBack
  <2>0. y # x
    BY SizeNat
  <2>1. CASE y = q
    <3>1. k = n
      BY <2>0, <2>1
    <3> QED BY <1>1, <1>2, <1>23, <2>1, <3>1
  <2>2. CASE y # q
    <3>1. h[y].next = k
      BY <2>0, <2>2
    <3>2. k # x /\ k # n /\ k # c
      BY <1>2, <1>23, <2>0, <2>2, <3>1
    <3>3. h[k].prev = y /\ m[k] = m[y]
      BY <3>1 DEF Shape, NextBack
    <3> QED BY <1>1, <2>0, <3>2, <3>3
  <2> QED BY <2>1, <2>2
<1>11. KidHome(g, m2)
  <2> SUFFICES ASSUME NEW y \in Items, NEW d \in Items, Kid(g, y) = d
               PROVE  m2[d] = y /\ \A w \in Items : g[w].next # d
    BY DEF KidHome
  <2>1. Kid(h, y) = d /\ d # x /\ d # n
    BY <1>2, <1>23, <1>3
  <2>2. m[d] = y /\ \A w \in Items : h[w].next # d
    BY <2>1 DEF Shape, KidHome
  <2> QED BY <1>1, <2>1, <2>2, SizeNat
<1>12. Rings(g, O, m2)
  <2> SUFFICES ASSUME NEW y \in Items \ O, NEW d \in Items, Kid(g, y) = d
               PROVE  IsLast(g, m2, y, g[d].prev)
    BY Zenon DEF Rings
  <2>0. Kid(h, y) = d /\ d # x /\ d # n /\ m[d] = y
    <3>1. Kid(h, y) = d /\ d # x /\ d # n
      BY <1>2, <1>23, <1>3
    <3> QED BY <3>1 DEF Shape, KidHome
  <2>1. CASE y = p /\ n = NULL
    <3>1. g[d].prev = q /\ g[q].next = NULL /\ m2[q] = y
      BY <1>1, <1>2, <2>0, <2>1
    <3> QED BY <3>1 DEF IsLast
  <2>2. CASE ~ (y = p /\ n = NULL)
    <3>2. IsLast(h, m, y, h[d].prev)
      BY <2>0 DEF Shape, Rings
    <3>3. PICK e \in Items : e = h[d].prev /\ h[e].next = NULL /\ m[e] = y
      BY <3>2 DEF IsLast
    <3>4. e # x /\ e # q /\ g[d].prev = e
      BY <1>2, <1>00, <2>0, <2>2, <3>3
    <3> QED BY <1>1, <3>3, <3>4 DEF IsLast
  <2> QED BY <2>1, <2>2
<1>13. TopsFree(g, T \union {x}, m2)
  <2> SUFFICES ASSUME NEW t \in T \union {x}, m2[t] # NULL PROVE Kid(g, m2[t]) = NULL
    BY DEF TopsFree
  <2>1. t # x /\ t \in T
    BY <1>1
  <2>2. t \in Items /\ m2[t] = m[t] /\ m[t] \in Items
    BY <1>00, <1>1, <2>1, SizeNat
  <2> QED BY <1>3, <2>1, <2>2 DEF Shape, TopsFree
<1> QED BY <1>5, <1>6, <1>7, <1>8, <1>9, <1>10, <1>11, <1>12, <1>13 DEF Shape, m2

-----------------------------------------------------------------------------
(* Recursive functions exist and unfold.                                   *)

\* A set of naturals that is not empty has a least member.
LEMMA Least ==
  ASSUME NEW T \in SUBSET Nat, T # {}
  PROVE  \E n \in T : \A i \in T : n <= i
<1>1. PICK n \in T : \A i \in T : ~ (<<i, n>> \in OpToRel(<, Nat))
  BY NatLessThanWellFounded, WFMin, Zenon
<1>2. \A i \in T : ~ (i < n)
  BY <1>1 DEF OpToRel
<1> QED BY <1>2

\* A function can be iterated.
Iterates(f, V, b, F, N) ==
    f \in [0 .. N -> V] /\ f[0] = b /\ \A k \in 1 .. N : f[k] = F[f[k - 1]]

\* A function iterated N times exists: by the least stage that lacks one.
LEMMA Iteration ==
  ASSUME NEW V, NEW b \in V, NEW F \in [V -> V], NEW N \in Nat
  PROVE  \E f : Iterates(f, V, b, F, N)
<1> DEFINE Good(n) == \E f \in [0 .. n -> V] : f[0] = b /\ \A k \in 1 .. n : f[k] = F[f[k - 1]]
           Bad == {n \in Nat : ~ Good(n)}
<1>1. ASSUME Bad # {} PROVE FALSE
  <2>0. Bad \in SUBSET Nat
    OBVIOUS
  <2>1. PICK n \in Bad : \A i \in Bad : n <= i
    <3> HIDE DEF Bad
    <3> QED BY <1>1, <2>0, Least
  <2>2. n \in Nat /\ ~ Good(n)
    BY <2>1
  <2>3. CASE n = 0
    <3> DEFINE f == [k \in 0 .. 0 |-> b]
    <3>1. f \in [0 .. 0 -> V] /\ f[0] = b /\ \A k \in 1 .. 0 : f[k] = F[f[k - 1]]
      OBVIOUS
    <3>2. Good(0)
      BY <3>1
    <3> QED BY <2>2, <2>3, <3>2
  <2>4. CASE n # 0
    <3>1. n - 1 \in Nat
      BY <2>2, <2>4
    <3>2. n - 1 \notin Bad
      <4>1. \A i \in Bad : ~ (i < n)
        BY <2>0, <2>1, <2>2
      <4>2. n - 1 < n
        BY <2>2
      <4> HIDE DEF Bad
      <4> QED BY <4>1, <4>2
    <3>3. Good(n - 1)
      BY <3>1, <3>2
    <3>4. PICK g \in [0 .. n - 1 -> V] : g[0] = b /\ \A k \in 1 .. n - 1 : g[k] = F[g[k - 1]]
      BY <3>3
    <3> DEFINE f == [k \in 0 .. n |-> IF k = n THEN F[g[n - 1]] ELSE g[k]]
    <3>5. f \in [0 .. n -> V]
      <4>1. g[n - 1] \in V
        BY <3>1
      <4>2. F[g[n - 1]] \in V
        BY <4>1
      <4>3. \A k \in 0 .. n : k # n => k \in 0 .. n - 1
        BY <2>2
      <4> QED BY <4>2, <4>3
    <3>6. f[0] = b
      BY <2>2, <2>4, <3>4
    <3>7. ASSUME NEW k \in 1 .. n PROVE f[k] = F[f[k - 1]]
      <4>1. f[k - 1] = g[k - 1]
        BY <2>2
      <4>2. CASE k = n
        BY <4>1, <4>2, <2>2
      <4>3. CASE k # n
        <5>1. k \in 1 .. n - 1
          BY <2>2, <4>3
        <5>2. f[k] = g[k]
          BY <4>3, <5>1, <2>2
        <5> QED BY <3>4, <4>1, <5>1, <5>2
      <4> QED BY <4>2, <4>3
    <3>8. Good(n)
      <4> HIDE DEF f
      <4> QED BY <3>5, <3>6, <3>7
    <3> QED BY <2>2, <3>8
  <2> QED BY <2>3, <2>4
<1>2. Good(N)
  BY <1>1
<1> QED BY <1>2 DEF Iterates

\* The walk along next that Chain makes.
Walk(h) == CHOOSE walk : walk = [k \in 0 .. Size + 1 |-> [x \in 0 .. Size |->
    IF x = NULL \/ k = 0 THEN <<>> ELSE <<x>> \o walk[k - 1][h[x].next]]]

\* Chain is the walk of Size + 1 steps.
LEMMA ChainIsWalk == \A h, n : Chain(h, n) = Walk(h)[Size + 1][n]
  BY Zenon DEF Chain, Walk

\* What one step of the walk adds.
LEMMA WalkUnfolds ==
  ASSUME NEW h \in Heaps
  PROVE  /\ \A k \in 0 .. Size + 1 : Walk(h)[k][NULL] = <<>>
         /\ \A k \in 1 .. Size + 1, x \in Items : Walk(h)[k][x] = <<x>> \o Walk(h)[k - 1][h[x].next]
<1> DEFINE V == [0 .. Size -> Seq(Items)]
           b == [x \in 0 .. Size |-> <<>>]
           F == [v \in V |-> [x \in 0 .. Size |-> IF x = NULL THEN <<>> ELSE <<x>> \o v[h[x].next]]]
           Is(f) == f = [k \in 0 .. Size + 1 |-> [x \in 0 .. Size |->
                          IF x = NULL \/ k = 0 THEN <<>> ELSE <<x>> \o f[k - 1][h[x].next]]]
<1>1. b \in V
  OBVIOUS
<1>2. F \in [V -> V]
  <2> SUFFICES ASSUME NEW v \in V, NEW x \in 0 .. Size
               PROVE  (IF x = NULL THEN <<>> ELSE <<x>> \o v[h[x].next]) \in Seq(Items)
    BY Zenon
  <2>1. CASE x = NULL
    BY <2>1
  <2>2. CASE x # NULL
    <3>1. x \in Items
      BY <2>2, SizeNat
    <3>2. h[x].next \in 0 .. Size
      BY <3>1 DEF Heaps
    <3>3. v[h[x].next] \in Seq(Items)
      BY <3>2
    <3>4. <<x>> \in Seq(Items)
      BY <3>1
    <3>5. <<x>> \o v[h[x].next] \in Seq(Items)
      BY <3>3, <3>4, ConcatProperties, Zenon
    <3> QED BY <2>2, <3>5
  <2> QED BY <2>1, <2>2
<1>3. Size + 1 \in Nat
  BY SizeNat
<1>4. PICK f \in [0 .. Size + 1 -> V] : f[0] = b /\ \A k \in 1 .. Size + 1 : f[k] = F[f[k - 1]]
  <2> DEFINE N == Size + 1
  <2> HIDE DEF V, b, F, N
  <2>1. N \in Nat
    BY <1>3 DEF N
  <2>2. \E f : Iterates(f, V, b, F, N)
    BY <1>1, <1>2, <2>1, Iteration, Zenon
  <2> QED BY <2>2 DEF N, Iterates
<1>5. Is(f)
  <2>1. ASSUME NEW k \in 0 .. Size + 1
        PROVE  f[k] = [x \in 0 .. Size |-> IF x = NULL \/ k = 0 THEN <<>> ELSE <<x>> \o f[k - 1][h[x].next]]
    <3>1. CASE k = 0
      BY <1>4, <3>1
    <3>2. CASE k # 0
      <4>1. k \in 1 .. Size + 1 /\ k - 1 \in 0 .. Size + 1
        BY <3>2, SizeNat
      <4>2. f[k] = F[f[k - 1]] /\ f[k - 1] \in V
        BY <1>4, <4>1
      <4>3. F[f[k - 1]] = [x \in 0 .. Size |-> IF x = NULL THEN <<>> ELSE <<x>> \o f[k - 1][h[x].next]]
        <5> HIDE DEF V
        <5> QED BY <4>2
      <4> HIDE DEF V, F
      <4> QED BY <3>2, <4>2, <4>3
    <3> QED BY <3>1, <3>2
  <2>2. f = [k \in 0 .. Size + 1 |-> f[k]]
    BY <1>4
  <2> QED BY <2>1, <2>2, Zenon
<1>6. Is(Walk(h))
  BY <1>5, Zenon DEF Walk
<1> DEFINE w == Walk(h)
<1>7. \A k \in 0 .. Size + 1 : w[k] = [x \in 0 .. Size |->
          IF x = NULL \/ k = 0 THEN <<>> ELSE <<x>> \o w[k - 1][h[x].next]]
  <2> HIDE DEF w
  <2>1. Is(w)
    BY <1>6 DEF w
  <2> QED BY <2>1, Zenon
<1>8. \A k \in 0 .. Size + 1 : w[k][NULL] = <<>>
  <2> HIDE DEF w
  <2> QED BY <1>7, SizeNat
<1>9. ASSUME NEW k \in 1 .. Size + 1, NEW x \in Items PROVE w[k][x] = <<x>> \o w[k - 1][h[x].next]
  <2>0. k \in 0 .. Size + 1 /\ k # 0
    BY SizeNat
  <2>1. x \in 0 .. Size /\ x # NULL
    BY SizeNat
  <2> HIDE DEF w
  <2> QED BY <1>7, <2>0, <2>1
<1> QED BY <1>8, <1>9

-----------------------------------------------------------------------------
(* Lists as the model walks them: Chain.                                   *)

\* How many items a deletion of x reaches.
Rank(h, x) == Cardinality(Down(h, x))

\* The heap is finite.
LEMMA ItemsFinite == IsFiniteSet(Items) /\ Cardinality(Items) = Size
<1>1. Size \in Int /\ 1 \in Int /\ Size \in Nat
  BY SizeNat
<1>2. IsFiniteSet(1 .. Size) /\ Cardinality(1 .. Size) = IF 1 > Size THEN 0 ELSE Size - 1 + 1
  BY <1>1, FS_Interval
<1> QED BY <1>1, <1>2, CjsonAssumption DEF Items

\* A rank is between one and the size of the heap.
LEMMA RankNat ==
  ASSUME NEW h, NEW x \in Items
  PROVE  Rank(h, x) \in 1 .. Size /\ IsFiniteSet(Down(h, x))
<1>1. Down(h, x) \in SUBSET Items /\ x \in Down(h, x)
  BY DownFacts
<1>2. IsFiniteSet(Down(h, x)) /\ Cardinality(Down(h, x)) <= Size
  BY <1>1, ItemsFinite, FS_Subset
<1>3. Cardinality(Down(h, x)) \in Nat
  BY <1>2, FS_CardinalityType
<1>4. Cardinality(Down(h, x)) # 0
  BY <1>1, <1>2, FS_EmptySet
<1> QED BY <1>2, <1>3, <1>4, SizeNat DEF Rank

\* What is reached from an item that x reaches, x reaches too.
LEMMA DownWithin ==
  ASSUME NEW h, NEW x \in Items, NEW y \in Down(h, x)
  PROVE  Down(h, y) \subseteq Down(h, x)
<1>1. y \in Items /\ Down(h, x) \in SUBSET Items /\ Sealed(h, Down(h, x))
  BY DownFacts
<1> QED BY <1>1, DownFacts

\* What follows reaches less.
LEMMA RankFalls ==
  ASSUME NEW h, Grounded(h), NEW x \in Items, NEW y \in Items, Follows(h, x, y)
  PROVE  Rank(h, y) < Rank(h, x) /\ y \in Down(h, x)
<1>1. y \in Down(h, x) /\ x \in Down(h, x) /\ Down(h, x) \in SUBSET Items
  BY DownFacts DEF Sealed
<1>2. Down(h, y) \subseteq Down(h, x)
  BY <1>1, DownWithin
<1>3. x \notin Down(h, y)
  <2> SUFFICES ASSUME x \in Down(h, y) PROVE FALSE
    OBVIOUS
  <2> DEFINE S == Down(h, y)
  <2>1. S \in SUBSET Items /\ y \in S /\ \A w \in S : w = y \/ \E v \in S : Follows(h, v, w)
    BY DownFacts
  <2> HIDE DEF S
  <2>2. \A w \in S : \E v \in S : Follows(h, v, w)
    BY <2>1 DEF S
  <2>3. S = {}
    BY <2>1, <2>2, Zenon DEF Grounded
  <2> QED BY <2>1, <2>3
<1>4. IsFiniteSet(Down(h, x)) /\ Cardinality(Down(h, x)) \in Nat
  BY RankNat DEF Rank
<1>5. IsFiniteSet(Down(h, x) \ {x}) /\ Cardinality(Down(h, x) \ {x}) = Cardinality(Down(h, x)) - 1
  BY <1>1, <1>4, FS_RemoveElement
<1>6. Down(h, y) \in SUBSET (Down(h, x) \ {x})
  BY <1>2, <1>3
<1>7. Cardinality(Down(h, y)) <= Cardinality(Down(h, x) \ {x})
  BY <1>5, <1>6, FS_Subset
<1>8. Cardinality(Down(h, y)) \in Nat
  BY RankNat DEF Rank
<1> QED BY <1>1, <1>4, <1>5, <1>7, <1>8 DEF Rank

\* s is the list from x to its end.
IsWalk(h, x, s) ==
    /\ s \in Seq(Items) /\ Len(s) >= 1 /\ s[1] = x
    /\ \A i \in 1 .. Len(s) - 1 : h[s[i]].next = s[i + 1]
    /\ h[s[Len(s)]].next = NULL

\* The walk from a last item is that item.
LEMMA WalkOne ==
  ASSUME NEW h, NEW x \in Items, h[x].next = NULL
  PROVE  IsWalk(h, x, <<x>>) /\ Len(<<x>>) = 1
  BY DEF IsWalk

\* The walk from x is x and the walk from the next item.
LEMMA WalkMore ==
  ASSUME NEW h, NEW x \in Items, NEW y, h[x].next = y, NEW s, IsWalk(h, y, s)
  PROVE  IsWalk(h, x, <<x>> \o s) /\ Len(<<x>> \o s) = Len(s) + 1
<1> DEFINE t == <<x>> \o s
<1>1. s \in Seq(Items) /\ <<x>> \in Seq(Items) /\ Len(s) \in Nat
  BY LenProperties DEF IsWalk
<1>2. t \in Seq(Items) /\ Len(t) = Len(s) + 1
  BY <1>1
<1>3. t[1] = x /\ \A i \in 1 .. Len(s) : t[i + 1] = s[i]
  BY <1>1
<1> HIDE DEF t
<1>4. ASSUME NEW i \in 1 .. Len(t) - 1 PROVE h[t[i]].next = t[i + 1]
  <2>1. CASE i = 1
    BY <1>1, <1>2, <1>3, <2>1 DEF IsWalk
  <2>2. CASE i # 1
    <3> DEFINE j == i - 1
    <3>1. j \in 1 .. Len(s) - 1 /\ j \in 1 .. Len(s) /\ j + 1 \in 1 .. Len(s) /\ i = j + 1
      BY <1>1, <1>2, <2>2
    <3> HIDE DEF j
    <3>2. t[i] = s[j] /\ t[i + 1] = s[j + 1]
      BY <1>3, <3>1
    <3> QED BY <3>1, <3>2 DEF IsWalk
  <2> QED BY <2>1, <2>2
<1>5. t[Len(t)] = s[Len(s)]
  BY <1>1, <1>2, <1>3 DEF IsWalk
<1> QED BY <1>1, <1>2, <1>3, <1>4, <1>5 DEF IsWalk, t

\* A walk with as many steps as the rank of x goes to the end of the list of x.
LEMMA WalkIsWalk ==
  ASSUME NEW h \in Heaps, Grounded(h)
  PROVE  \A k \in 0 .. Size + 1, x \in Items : Rank(h, x) <= k =>
             IsWalk(h, x, Walk(h)[k][x]) /\ Len(Walk(h)[k][x]) <= Rank(h, x)
<1> DEFINE w == Walk(h)
           Good(k) == \A x \in Items : Rank(h, x) <= k => IsWalk(h, x, w[k][x]) /\ Len(w[k][x]) <= Rank(h, x)
           Bad == {k \in Nat : k <= Size + 1 /\ ~ Good(k)}
<1>1. /\ \A k \in 0 .. Size + 1 : w[k][NULL] = <<>>
      /\ \A k \in 1 .. Size + 1, x \in Items : w[k][x] = <<x>> \o w[k - 1][h[x].next]
  BY WalkUnfolds
<1> HIDE DEF w
<1>2. ASSUME Bad # {} PROVE FALSE
  <2>0. Bad \in SUBSET Nat
    OBVIOUS
  <2>1. PICK k \in Bad : \A i \in Bad : k <= i
    <3> HIDE DEF Bad
    <3> QED BY <1>2, <2>0, Least
  <2>2. k \in Nat /\ k <= Size + 1 /\ ~ Good(k)
    BY <2>1
  <2>3. PICK x \in Items : Rank(h, x) <= k /\ ~ (IsWalk(h, x, w[k][x]) /\ Len(w[k][x]) <= Rank(h, x))
    BY <2>2
  <2>4. Rank(h, x) \in Nat /\ Rank(h, x) >= 1
    BY RankNat, SizeNat
  <2>5. k \in 1 .. Size + 1 /\ k - 1 \in Nat /\ k - 1 \in 0 .. Size + 1 /\ k - 1 <= Size + 1
    BY <2>2, <2>3, <2>4, SizeNat
  <2>6. k - 1 \notin Bad
    <3>1. \A i \in Bad : ~ (i < k)
      BY <2>0, <2>1, <2>2
    <3>2. k - 1 < k
      BY <2>2
    <3> HIDE DEF Bad
    <3> QED BY <3>1, <3>2
  <2>7. Good(k - 1)
    BY <2>5, <2>6
  <2>8. w[k][x] = <<x>> \o w[k - 1][h[x].next]
    BY <1>1, <2>5
  <2>9. CASE h[x].next = NULL
    <3>1. w[k][x] = <<x>> \o <<>>
      BY <1>1, <2>5, <2>8, <2>9
    <3>2. <<x>> \o <<>> = <<x>>
      OBVIOUS
    <3>3. IsWalk(h, x, w[k][x]) /\ Len(w[k][x]) = 1
      BY <2>9, <3>1, <3>2, WalkOne
    <3> QED BY <2>3, <2>4, <3>3
  <2>10. CASE h[x].next # NULL
    <3> DEFINE y == h[x].next  s == w[k - 1][y]
    <3>1. y \in Items
      BY <2>10, SizeNat DEF Heaps
    <3>2. Follows(h, x, y)
      BY DEF Follows
    <3>3. Rank(h, y) < Rank(h, x) /\ Rank(h, y) \in Nat
      <4>1. Rank(h, y) < Rank(h, x)
        BY <3>1, <3>2, RankFalls
      <4>2. Rank(h, y) \in 1 .. Size
        BY <3>1, RankNat
      <4> QED BY <4>1, <4>2, SizeNat
    <3>4. Rank(h, y) <= k - 1
      BY <2>2, <2>3, <2>4, <3>3
    <3>5. IsWalk(h, y, s) /\ Len(s) <= Rank(h, y)
      BY <2>7, <3>1, <3>4
    <3>6. Len(s) \in Nat
      BY <3>5, LenProperties DEF IsWalk
    <3> HIDE DEF s
    <3>7. IsWalk(h, x, <<x>> \o s) /\ Len(<<x>> \o s) = Len(s) + 1
      BY <3>5, WalkMore
    <3>8. w[k][x] = <<x>> \o s
      BY <2>8 DEF s
    <3>9. Len(s) + 1 <= Rank(h, x)
      BY <2>4, <3>3, <3>5, <3>6
    <3> QED BY <2>3, <3>7, <3>8, <3>9
  <2> QED BY <2>9, <2>10
<1>3. ASSUME NEW k \in 0 .. Size + 1 PROVE Good(k)
  <2>1. k \in Nat /\ k <= Size + 1
    BY SizeNat
  <2>2. k \notin Bad
    BY <1>2
  <2> QED BY <2>1, <2>2
<1> QED BY <1>3 DEF w

\* Chain goes to the end of the list, and is no longer than the heap.
LEMMA ChainFacts ==
  ASSUME NEW h \in Heaps, Grounded(h), NEW x \in Items
  PROVE  IsWalk(h, x, Chain(h, x)) /\ Len(Chain(h, x)) <= Size
<1>1. Size + 1 \in 0 .. Size + 1
  BY SizeNat
<1>2. Rank(h, x) \in 1 .. Size
  BY RankNat
<1>3. Rank(h, x) <= Size + 1 /\ Rank(h, x) <= Size /\ Rank(h, x) \in Nat
  BY <1>2, SizeNat
<1>4. IsWalk(h, x, Chain(h, x)) /\ Len(Chain(h, x)) <= Rank(h, x)
  BY <1>1, <1>3, WalkIsWalk, ChainIsWalk
<1>5. Len(Chain(h, x)) \in Nat
  BY <1>4, LenProperties DEF IsWalk
<1> QED BY <1>3, <1>4, <1>5, SizeNat

\* A walk from NULL is empty.
LEMMA ChainOfNone == ASSUME NEW h \in Heaps PROVE Chain(h, NULL) = <<>> /\ ToSet(Chain(h, NULL)) = {}
<1>1. Size + 1 \in 0 .. Size + 1
  BY SizeNat
<1>2. Chain(h, NULL) = <<>>
  BY <1>1, WalkUnfolds, ChainIsWalk
<1> QED BY <1>2 DEF ToSet

\* The members of the list from x.
Run(h, x) == ToSet(Chain(h, x))

\* Chain(h, x) holds x, the items after it and nothing else.
LEMMA RunFacts ==
  ASSUME NEW h \in Heaps, Grounded(h), NEW x \in Items
  PROVE  /\ Run(h, x) \subseteq Items /\ x \in Run(h, x)
         /\ \A w \in Run(h, x) : h[w].next # NULL => h[w].next \in Run(h, x)
         /\ \A w \in Run(h, x) : w = x \/ \E v \in Run(h, x) : h[v].next = w
         /\ \A C : x \in C /\ (\A w \in C : w \in Items /\ h[w].next # NULL => h[w].next \in C)
                     => Run(h, x) \subseteq C
         /\ Run(h, x) \subseteq Down(h, x)
<1> DEFINE s == Chain(h, x)
<1>0. s \in Seq(Items) /\ Len(s) \in Nat /\ Len(s) >= 1 /\ DOMAIN s = 1 .. Len(s) /\ s[1] = x
      /\ h[s[Len(s)]].next = NULL
  BY ChainFacts, LenProperties DEF IsWalk
<1>00. \A i \in 1 .. Len(s) - 1 : h[s[i]].next = s[i + 1]
  BY ChainFacts DEF IsWalk
<1>01. \A w \in Run(h, x) : \E i \in 1 .. Len(s) : w = s[i]
  BY <1>0 DEF Run, ToSet
<1>02. \A i \in 1 .. Len(s) : s[i] \in Run(h, x) /\ s[i] \in Items
  BY <1>0, ElementOfSeq DEF Run, ToSet
<1> HIDE DEF s
<1>03. Len(s) \in Nat /\ Len(s) >= 1
  BY <1>0
<1>1. Run(h, x) \subseteq Items /\ x \in Run(h, x)
  BY <1>0, <1>01, <1>02
<1>2. ASSUME NEW w \in Run(h, x), h[w].next # NULL PROVE h[w].next \in Run(h, x)
  <2>1. PICK i \in 1 .. Len(s) : w = s[i]
    BY <1>01
  <2>2. i # Len(s)
    BY <1>0, <1>2, <2>1
  <2>3. i \in 1 .. Len(s) - 1 /\ i + 1 \in 1 .. Len(s)
    BY <1>03, <2>2
  <2> QED BY <1>00, <1>02, <2>1, <2>3
<1>3. ASSUME NEW w \in Run(h, x), w # x PROVE \E v \in Run(h, x) : h[v].next = w
  <2>1. PICK i \in 1 .. Len(s) : w = s[i]
    BY <1>01
  <2>2. i # 1
    BY <1>0, <1>3, <2>1
  <2>3. i - 1 \in 1 .. Len(s) - 1 /\ i - 1 \in 1 .. Len(s) /\ (i - 1) + 1 = i
    BY <1>0, <2>2
  <2> DEFINE v == s[i - 1]
  <2>4. h[v].next = w
    BY <1>00, <2>1, <2>3
  <2>5. v \in Run(h, x)
    BY <1>02, <2>3
  <2> QED BY <2>4, <2>5
<1>4. ASSUME NEW C, x \in C, \A w \in C : w \in Items /\ h[w].next # NULL => h[w].next \in C
      PROVE  Run(h, x) \subseteq C
  <2> DEFINE Bad == {i \in Nat : i \in 1 .. Len(s) /\ s[i] \notin C}
  <2>1. ASSUME Bad # {} PROVE FALSE
    <3>0. Bad \in SUBSET Nat
      OBVIOUS
    <3>1. PICK i \in Bad : \A j \in Bad : i <= j
      <4> HIDE DEF Bad
      <4> QED BY <2>1, <3>0, Least
    <3>2. i \in Nat /\ i \in 1 .. Len(s) /\ s[i] \notin C
      BY <3>1
    <3>3. i # 1
      BY <1>0, <1>4, <3>2
    <3>4. i - 1 \in Nat /\ i - 1 \in 1 .. Len(s) - 1 /\ i - 1 \in 1 .. Len(s) /\ (i - 1) + 1 = i
      BY <1>0, <3>2, <3>3
    <3>5. i - 1 \notin Bad
      <4>1. \A j \in Bad : ~ (j < i)
        BY <3>0, <3>1, <3>2
      <4>2. i - 1 < i
        BY <3>2
      <4> HIDE DEF Bad
      <4> QED BY <4>1, <4>2
    <3>6. s[i - 1] \in C
      BY <3>4, <3>5
    <3>7. h[s[i - 1]].next = s[i] /\ s[i - 1] \in Items /\ s[i] \in Items
      BY <1>00, <1>02, <3>2, <3>4
    <3> QED BY <1>4, <3>2, <3>6, <3>7, SizeNat
  <2>2. \A i \in 1 .. Len(s) : s[i] \in C
    BY <1>0, <2>1
  <2> QED BY <1>01, <2>2
<1>5. Run(h, x) \subseteq Down(h, x)
  <2> DEFINE C == Down(h, x)
  <2>1. x \in C /\ C \subseteq Items /\ Sealed(h, C)
    BY DownFacts
  <2>2. ASSUME NEW w \in C, h[w].next # NULL PROVE h[w].next \in C
    <3>1. w \in Items /\ h[w].next \in Items
      BY <2>1, <2>2, SizeNat DEF Heaps
    <3>2. Follows(h, w, h[w].next)
      BY DEF Follows
    <3> HIDE DEF C
    <3> QED BY <2>1, <3>1, <3>2 DEF Sealed
  <2> HIDE DEF C
  <2> QED BY <1>4, <2>1, <2>2 DEF C
<1> QED BY <1>1, <1>2, <1>3, <1>4, <1>5

-----------------------------------------------------------------------------
(* Trees as the model walks them: Tree and Doomed.                         *)

\* The items of the list y owns.
Own(h, y) == ToSet(Owned(h, y))

\* They are those from its first child on.
LEMMA OwnFacts ==
  ASSUME NEW h \in Heaps, Grounded(h), NEW y \in Items
  PROVE  /\ Own(h, y) = IF Kid(h, y) = NULL THEN {} ELSE Run(h, Kid(h, y))
         /\ Kid(h, y) # NULL => Kid(h, y) \in Items /\ Follows(h, y, Kid(h, y))
<1>0. Kid(h, y) # NULL => Kid(h, y) \in Items
  BY SizeNat DEF Kid, Heaps
<1>1. CASE h[y].ref
  BY <1>1 DEF Own, Owned, Kid, ToSet
<1>2. CASE ~ h[y].ref
  <2>1. Kid(h, y) = h[y].child /\ Own(h, y) = Run(h, h[y].child)
    BY <1>2 DEF Own, Owned, Kid, Children, Run
  <2>2. h[y].child = NULL => Run(h, h[y].child) = {}
    BY ChainOfNone DEF Run
  <2> QED BY <1>0, <2>1, <2>2 DEF Follows
<1> QED BY <1>1, <1>2

\* They are below y.
LEMMA OwnBelow ==
  ASSUME NEW h \in Heaps, Grounded(h), NEW y \in Items
  PROVE  Own(h, y) \subseteq Down(h, y) /\ \A z \in Own(h, y) : z \in Items /\ Rank(h, z) < Rank(h, y)
<1>1. CASE Kid(h, y) = NULL
  BY <1>1, OwnFacts
<1>2. CASE Kid(h, y) # NULL
  <2> DEFINE c == Kid(h, y)
  <2>1. c \in Items /\ Follows(h, y, c) /\ Own(h, y) = Run(h, c)
    BY <1>2, OwnFacts
  <2> HIDE DEF c
  <2>2. Rank(h, c) < Rank(h, y) /\ c \in Down(h, y)
    BY <2>1, RankFalls
  <2>3. Run(h, c) \subseteq Down(h, c) /\ Run(h, c) \subseteq Items
    BY <2>1, RunFacts
  <2>4. Down(h, c) \subseteq Down(h, y)
    BY <2>2, DownWithin
  <2>5. ASSUME NEW z \in Run(h, c) PROVE Rank(h, z) < Rank(h, y)
    <3>1. z \in Items /\ z \in Down(h, c)
      BY <2>3
    <3>2. Down(h, z) \in SUBSET Down(h, c)
      BY <2>1, <3>1, DownWithin
    <3>3. Rank(h, z) <= Rank(h, c)
      BY <2>1, <3>2, RankNat, FS_Subset DEF Rank
    <3>4. Rank(h, z) \in 1 .. Size /\ Rank(h, c) \in 1 .. Size /\ Rank(h, y) \in 1 .. Size
      BY <2>1, <3>1, RankNat
    <3> QED BY <2>2, <3>3, <3>4, SizeNat
  <2> QED BY <2>1, <2>3, <2>4, <2>5
<1> QED BY <1>1, <1>2

\* The items below y in at most k levels, as Tree collects them.
Below(h) == CHOOSE below : below = [k \in 0 .. Size |-> [y \in Items |->
    {y} \union (IF k = 0 THEN {} ELSE UNION {below[k - 1][z] : z \in ToSet(Owned(h, y))})]]

\* Tree collects Size levels.
LEMMA TreeIsBelow == \A h, x : Tree(h, x) = Below(h)[Size][x]
  BY Zenon DEF Tree, Below

\* What one level adds.
LEMMA BelowUnfolds ==
  ASSUME NEW h \in Heaps, Grounded(h)
  PROVE  /\ \A y \in Items : Below(h)[0][y] = {y}
         /\ \A k \in 1 .. Size, y \in Items :
                Below(h)[k][y] = {y} \union UNION {Below(h)[k - 1][z] : z \in Own(h, y)}
<1> DEFINE V == [Items -> SUBSET Items]
           b == [y \in Items |-> {y}]
           F == [v \in V |-> [y \in Items |-> {y} \union UNION {v[z] : z \in Own(h, y)}]]
           Is(f) == f = [k \in 0 .. Size |-> [y \in Items |->
                          {y} \union (IF k = 0 THEN {} ELSE UNION {f[k - 1][z] : z \in ToSet(Owned(h, y))})]]
<1>1. b \in V
  OBVIOUS
<1>2. F \in [V -> V]
  <2> SUFFICES ASSUME NEW v \in V, NEW y \in Items
               PROVE  {y} \union UNION {v[z] : z \in Own(h, y)} \in SUBSET Items
    BY Zenon
  <2>1. Own(h, y) \subseteq Items
    BY OwnBelow
  <2> QED BY <2>1
<1>3. Size \in Nat
  BY SizeNat
<1>4. PICK f : Iterates(f, V, b, F, Size)
  <2> HIDE DEF V, b, F
  <2> QED BY <1>1, <1>2, <1>3, Iteration, Zenon
<1>5. Is(f)
  <2>1. ASSUME NEW k \in 0 .. Size
        PROVE  f[k] = [y \in Items |-> {y} \union (IF k = 0 THEN {} ELSE UNION {f[k - 1][z] : z \in ToSet(Owned(h, y))})]
    <3>1. CASE k = 0
      BY <1>4, <3>1 DEF Iterates
    <3>2. CASE k # 0
      <4>1. k \in 1 .. Size /\ k - 1 \in 0 .. Size
        BY <3>2, SizeNat
      <4>2. f[k] = F[f[k - 1]] /\ f[k - 1] \in V
        BY <1>4, <4>1 DEF Iterates
      <4>3. F[f[k - 1]] = [y \in Items |-> {y} \union UNION {f[k - 1][z] : z \in Own(h, y)}]
        <5> HIDE DEF V
        <5> QED BY <4>2
      <4> HIDE DEF V, F
      <4> QED BY <3>2, <4>2, <4>3 DEF Own
    <3> QED BY <3>1, <3>2
  <2>2. f = [k \in 0 .. Size |-> f[k]]
    BY <1>4 DEF Iterates
  <2> QED BY <2>1, <2>2, Zenon
<1>6. Is(Below(h))
  BY <1>5, Zenon DEF Below
<1> DEFINE w == Below(h)
<1>7. \A k \in 0 .. Size : w[k] = [y \in Items |->
          {y} \union (IF k = 0 THEN {} ELSE UNION {w[k - 1][z] : z \in ToSet(Owned(h, y))})]
  <2> HIDE DEF w
  <2>1. Is(w)
    BY <1>6 DEF w
  <2> QED BY <2>1, Zenon
<1>8. \A y \in Items : w[0][y] = {y}
  <2> HIDE DEF w
  <2>1. 0 \in 0 .. Size
    BY SizeNat
  <2>2. w[0] = [y \in Items |->
          {y} \union (IF 0 = 0 THEN {} ELSE UNION {w[0 - 1][z] : z \in ToSet(Owned(h, y))})]
    BY <1>7, <2>1, Zenon
  <2> QED BY <2>2, Zenon
<1>9. ASSUME NEW k \in 1 .. Size, NEW y \in Items
      PROVE w[k][y] = {y} \union UNION {w[k - 1][z] : z \in Own(h, y)}
  <2>0. k \in 0 .. Size /\ k # 0
    BY SizeNat
  <2> HIDE DEF w
  <2> QED BY <1>7, <2>0 DEF Own
<1> QED BY <1>8, <1>9

\* What is below y in k steps is y, what is below an item y owns in one step
\* less, and within what a deletion of y reaches.
LEMMA BelowFacts ==
  ASSUME NEW h \in Heaps, Grounded(h)
  PROVE  \A k \in 0 .. Size, y \in Items :
           /\ y \in Below(h)[k][y] /\ Below(h)[k][y] \subseteq Down(h, y)
           /\ \A w \in Below(h)[k][y] : w = y \/ \E u \in Below(h)[k][y] : w \in Own(h, u)
           /\ Rank(h, y) <= k + 1 => \A w \in Below(h)[k][y] : Own(h, w) \subseteq Below(h)[k][y]
<1> DEFINE B == Below(h)
           Good(k) == \A y \in Items :
             /\ y \in B[k][y] /\ B[k][y] \subseteq Down(h, y)
             /\ \A w \in B[k][y] : w = y \/ \E u \in B[k][y] : w \in Own(h, u)
             /\ Rank(h, y) <= k + 1 => \A w \in B[k][y] : Own(h, w) \subseteq B[k][y]
           Bad == {k \in Nat : k <= Size /\ ~ Good(k)}
<1>0. /\ \A y \in Items : B[0][y] = {y}
      /\ \A k \in 1 .. Size, y \in Items : B[k][y] = {y} \union UNION {B[k - 1][z] : z \in Own(h, y)}
  BY BelowUnfolds
<1> HIDE DEF B
<1>1. Good(0)
  <2> SUFFICES ASSUME NEW y \in Items
               PROVE  /\ y \in B[0][y] /\ B[0][y] \subseteq Down(h, y)
                      /\ \A w \in B[0][y] : w = y
                      /\ Rank(h, y) <= 0 + 1 => \A w \in B[0][y] : Own(h, w) \subseteq B[0][y]
    BY Zenon
  <2>1. B[0][y] = {y} /\ y \in Down(h, y)
    BY <1>0, DownFacts
  <2>2. ASSUME Rank(h, y) <= 1 PROVE Own(h, y) = {}
    <3>1. ASSUME NEW z \in Own(h, y) PROVE FALSE
      <4>1. z \in Items /\ Rank(h, z) < Rank(h, y)
        BY OwnBelow
      <4>2. Rank(h, z) \in 1 .. Size /\ Rank(h, y) \in 1 .. Size
        BY <4>1, RankNat
      <4> QED BY <2>2, <4>1, <4>2, SizeNat
    <3> QED BY <3>1
  <2> QED BY <2>1, <2>2
<1>2. ASSUME NEW k \in 1 .. Size, Good(k - 1), NEW y \in Items
      PROVE  /\ y \in B[k][y] /\ B[k][y] \subseteq Down(h, y)
             /\ \A w \in B[k][y] : w = y \/ \E u \in B[k][y] : w \in Own(h, u)
             /\ Rank(h, y) <= k + 1 => \A w \in B[k][y] : Own(h, w) \subseteq B[k][y]
  <2> DEFINE j == k - 1
  <2>0. Good(j) /\ j + 1 = k /\ k \in Nat
    BY <1>2, SizeNat
  <2>1. B[k][y] = {y} \union UNION {B[j][z] : z \in Own(h, y)}
    BY <1>0
  <2> HIDE DEF j
  <2>2. y \in B[k][y] /\ \A z \in Own(h, y) : B[j][z] \subseteq B[k][y]
    BY <2>1
  <2>3. \A w \in B[k][y] : w = y \/ \E z \in Own(h, y) : w \in B[j][z]
    BY <2>1
  <2>4. \A z \in Own(h, y) : z \in Items /\ Rank(h, z) < Rank(h, y) /\ z \in Down(h, y)
    BY OwnBelow
  <2>5. B[k][y] \subseteq Down(h, y)
    <3> SUFFICES ASSUME NEW w \in B[k][y] PROVE w \in Down(h, y)
      OBVIOUS
    <3>1. CASE w = y
      BY <3>1, DownFacts
    <3>2. CASE \E z \in Own(h, y) : w \in B[j][z]
      <4>1. PICK z \in Own(h, y) : w \in B[j][z]
        BY <3>2
      <4>2. w \in Down(h, z)
        BY <2>0, <2>4, <4>1
      <4> QED BY <2>4, <4>2, DownWithin
    <3> QED BY <2>3, <3>1, <3>2
  <2>6. ASSUME NEW w \in B[k][y], w # y PROVE \E u \in B[k][y] : w \in Own(h, u)
    <3>1. PICK z \in Own(h, y) : w \in B[j][z]
      BY <2>3, <2>6
    <3>2. CASE w = z
      BY <2>2, <3>2
    <3>3. CASE w # z
      <4>1. PICK u \in B[j][z] : w \in Own(h, u)
        BY <2>0, <2>4, <3>1, <3>3
      <4> QED BY <2>2, <4>1
    <3> QED BY <3>2, <3>3
  <2>7. ASSUME Rank(h, y) <= k + 1, NEW w \in B[k][y] PROVE Own(h, w) \subseteq B[k][y]
    <3>1. CASE w = y
      <4>1. \A z \in Own(h, y) : z \in B[j][z]
        BY <2>0, <2>4
      <4> QED BY <2>2, <3>1, <4>1
    <3>2. CASE w # y
      <4>1. PICK z \in Own(h, y) : w \in B[j][z]
        BY <2>3, <3>2
      <4>2. z \in Items /\ Rank(h, z) < Rank(h, y)
        BY <2>4
      <4>3. Rank(h, z) \in 1 .. Size /\ Rank(h, y) \in 1 .. Size
        BY <4>2, RankNat
      <4>4. Rank(h, z) <= j + 1
        BY <2>0, <2>7, <4>2, <4>3, SizeNat
      <4>5. Own(h, w) \subseteq B[j][z]
        BY <2>0, <4>1, <4>2, <4>4
      <4> QED BY <2>2, <4>5
    <3> QED BY <3>1, <3>2
  <2> QED BY <2>2, <2>5, <2>6, <2>7
<1>3. ASSUME Bad # {} PROVE FALSE
  <2>0. Bad \in SUBSET Nat
    OBVIOUS
  <2>1. PICK k \in Bad : \A i \in Bad : k <= i
    <3> HIDE DEF Bad
    <3> QED BY <1>3, <2>0, Least
  <2>2. k \in Nat /\ k <= Size /\ ~ Good(k)
    BY <2>1
  <2>3. k # 0
    <3> HIDE DEF Good
    <3> QED BY <1>1, <2>2
  <2>4. k \in 1 .. Size /\ k - 1 \in Nat /\ k - 1 <= Size
    BY <2>2, <2>3, SizeNat
  <2>5. k - 1 \notin Bad
    <3>1. \A i \in Bad : ~ (i < k)
      BY <2>0, <2>1, <2>2
    <3>2. k - 1 < k
      BY <2>2
    <3> HIDE DEF Bad
    <3> QED BY <3>1, <3>2
  <2>6. Good(k - 1)
    <3> HIDE DEF Good
    <3> QED BY <2>4, <2>5
  <2>7. Good(k)
    BY <1>2, <2>4, <2>6, Zenon
  <2> QED BY <2>2, <2>7
<1>4. ASSUME NEW k \in 0 .. Size PROVE Good(k)
  <2>1. k \in Nat /\ k <= Size
    BY SizeNat
  <2>2. k \notin Bad
    BY <1>3
  <2> HIDE DEF Good
  <2> QED BY <2>1, <2>2
<1> QED BY <1>4 DEF B

\* Tree(h, y) holds y, everything owned below it and nothing else.
LEMMA TreeFacts ==
  ASSUME NEW h \in Heaps, Grounded(h), NEW y \in Items
  PROVE  /\ y \in Tree(h, y) /\ Tree(h, y) \subseteq Down(h, y)
         /\ \A w \in Tree(h, y) : w = y \/ \E u \in Tree(h, y) : w \in Own(h, u)
         /\ \A w \in Tree(h, y) : Own(h, w) \subseteq Tree(h, y)
<1>1. Size \in 0 .. Size
  BY SizeNat
<1>2. Rank(h, y) \in 1 .. Size
  BY RankNat
<1>3. Rank(h, y) <= Size + 1
  BY <1>2, SizeNat
<1>4. Tree(h, y) = Below(h)[Size][y]
  BY TreeIsBelow
<1> DEFINE B == Below(h)[Size][y]
<1>5. /\ y \in B /\ B \subseteq Down(h, y)
      /\ \A w \in B : w = y \/ \E u \in B : w \in Own(h, u)
      /\ Rank(h, y) <= Size + 1 => \A w \in B : Own(h, w) \subseteq B
  BY <1>1, BelowFacts, Zenon
<1> QED BY <1>3, <1>4, <1>5, Zenon

\* What cJSON_Delete frees is what it reaches.
LEMMA DoomedIsDown ==
  ASSUME NEW h \in Heaps, Grounded(h), NEW x \in Items
  PROVE  Doomed(h, x) = Down(h, x)
<1> DEFINE U == Doomed(h, x)
<1>0. \A w \in U : \E y \in Run(h, x) : w \in Tree(h, y)
  BY DEF Doomed, Run
<1>00. \A y \in Run(h, x) : Tree(h, y) \subseteq U
  BY DEF Doomed, Run
<1> HIDE DEF U
<1>1. Run(h, x) \subseteq Items /\ x \in Run(h, x) /\ Run(h, x) \subseteq Down(h, x)
      /\ \A w \in Run(h, x) : h[w].next # NULL => h[w].next \in Run(h, x)
  BY RunFacts
<1>2. U \subseteq Down(h, x)
  <2> SUFFICES ASSUME NEW w \in U PROVE w \in Down(h, x)
    OBVIOUS
  <2>1. PICK y \in Run(h, x) : w \in Tree(h, y)
    BY <1>0
  <2>2. w \in Down(h, y)
    BY <1>1, <2>1, TreeFacts
  <2> QED BY <1>1, <2>2, DownWithin
<1>3. U \in SUBSET Items /\ x \in U
  <2>1. x \in Tree(h, x) /\ Down(h, x) \subseteq Items
    BY TreeFacts, DownFacts
  <2> QED BY <1>00, <1>1, <1>2, <2>1
<1>4. Sealed(h, U)
  <2> SUFFICES ASSUME NEW w \in U, NEW v \in Items, Follows(h, w, v) PROVE v \in U
    BY Zenon DEF Sealed
  <2>0. v # NULL /\ w \in Items
    BY <1>3, SizeNat
  <2>1. PICK y \in Run(h, x) : w \in Tree(h, y)
    BY <1>0
  <2>2. y \in Items /\ Tree(h, y) \subseteq Items
    BY <1>1, TreeFacts, DownFacts
  <2>3. CASE v = Kid(h, w)
    <3>1. v \in Own(h, w)
      BY <2>0, <2>3, OwnFacts, RunFacts
    <3>2. v \in Tree(h, y)
      BY <2>1, <2>2, <3>1, TreeFacts
    <3> QED BY <1>00, <3>2
  <2>4. CASE v = h[w].next /\ w = y
    <3>1. v \in Run(h, x)
      BY <1>1, <2>0, <2>4
    <3>2. v \in Tree(h, v)
      BY TreeFacts
    <3> QED BY <1>00, <3>1, <3>2
  <2>5. CASE v = h[w].next /\ w # y
    <3>1. PICK u \in Tree(h, y) : w \in Own(h, u)
      BY <2>1, <2>2, <2>5, TreeFacts
    <3>2. u \in Items
      BY <2>2, <3>1
    <3>3. Kid(h, u) # NULL /\ Own(h, u) = Run(h, Kid(h, u)) /\ Kid(h, u) \in Items
      BY <3>1, <3>2, OwnFacts
    <3>4. v \in Own(h, u)
      BY <2>0, <2>5, <3>1, <3>3, RunFacts
    <3>5. v \in Tree(h, y)
      BY <2>2, <3>1, <3>4, TreeFacts
    <3> QED BY <1>00, <3>5
  <2> QED BY <2>3, <2>4, <2>5 DEF Follows
<1>5. Down(h, x) \subseteq U
  BY <1>3, <1>4, DownFacts
<1> QED BY <1>2, <1>5 DEF U

\* An item in no list is deleted with its tree and nothing besides.
LEMMA TreeIsDown ==
  ASSUME NEW h \in Heaps, Grounded(h), NEW x \in Items, h[x].next = NULL
  PROVE  Tree(h, x) = Down(h, x)
<1>1. Run(h, x) = {x}
  <2>1. Run(h, x) \subseteq {x}
    <3>1. \A w \in {x} : w \in Items /\ h[w].next # NULL => h[w].next \in {x}
      OBVIOUS
    <3> QED BY <3>1, RunFacts
  <2> QED BY <2>1, RunFacts
<1>2. Doomed(h, x) = Tree(h, x)
  BY <1>1 DEF Doomed, Run
<1> QED BY <1>2, DoomedIsDown

\* cJSON_Delete(NULL) deletes nothing.
LEMMA DoomedNone == ASSUME NEW h \in Heaps PROVE Doomed(h, NULL) = {}
  BY ChainOfNone DEF Doomed

-----------------------------------------------------------------------------
(* The inductive invariant.                                                *)

\* x is in no list and has no neighbours.
Loose(h, m, x) == h[x].next = NULL /\ h[x].prev = NULL /\ m[x] = NULL

\* The items the call in progress owns, and those whose rings it has yet to close.
CallTops(c, f) ==
    CASE c = "parse" -> {f[1].item} \union {f[i].head : i \in 2 .. Len(f)}
      [] c = "duplicate" -> {f[i].item : i \in 1 .. Len(f)}
      [] OTHER -> {}
\* Those whose rings cJSON_Duplicate closes when it returns.
OpenTops(c, f) == IF c = "duplicate" THEN CallTops(c, f) ELSE {}

\* The pointers, and the owners: the caller R, nobody K, the call in progress C.
Base(h, L, R, K, C, O, m) ==
    /\ Shape(h, L, R \union K \union C, O, m)
    /\ R \intersect K = {} /\ (R \union K) \intersect C = {}
    /\ \A x \in R \union K : Loose(h, m, x)
    /\ \A x \in K : h[x].ref

\* A parse_array or parse_object, frame i: its list runs from head to last and
\* hangs from nothing yet.
ParseFrame(h, L, m, f, i) ==
    /\ f[i].item \in L /\ f[i].head \in L /\ f[i].last \in Down(h, f[i].head)
    /\ IsLast(h, m, f[i].item, f[i].last) /\ m[f[i].head] = f[i].item
    /\ ~ h[f[i].item].ref /\ h[f[i].item].child = NULL
    /\ f[i].item = IF i = 2 THEN f[1].item ELSE f[i - 1].last
    /\ f[i].head # f[1].item
    /\ \A j \in 2 .. Len(f) : j # i => f[j].item # f[i].item /\ f[j].head # f[i].head

\* The parser: frame 1 holds the outermost item, v is the item parse_value is to fill.
ParseInv(h, L, m, f, v) ==
    /\ Len(f) >= 1 /\ f[1].item \in L /\ f[1].head = NULL /\ Loose(h, m, f[1].item)
    /\ \A i \in 2 .. Len(f) : ParseFrame(h, L, m, f, i)
    /\ v # NULL =>
        /\ v \in L /\ ~ h[v].ref /\ h[v].child = NULL
        /\ v = IF Len(f) = 1 THEN f[1].item ELSE f[Len(f)].last
        /\ \A i \in 2 .. Len(f) : f[i].item # v

\* A Duplicate_rec, frame i: newitem is in no list yet, last ends the children it has.
DupFrame(h, L, m, f, i) ==
    /\ f[i].item \in L /\ ~ h[f[i].item].ref /\ Loose(h, m, f[i].item) /\ f[i].head = NULL
    /\ (f[i].last = NULL) <=> (h[f[i].item].child = NULL)
    /\ f[i].last # NULL => IsLast(h, m, f[i].item, f[i].last)
    /\ \A j \in 1 .. Len(f) : j # i => f[j].item # f[i].item

\* The copier: a frame that waits for the copy of a child has one to copy.
DupInv(h, L, m, f) ==
    /\ Len(f) >= 1 /\ \A i \in 1 .. Len(f) : DupFrame(h, L, m, f, i)
    /\ \A i \in 1 .. Len(f) - 1 : f[i].src # NULL

\* The inductive part of the invariant, for a given home of every item.
Sound(h, L, R, K, c, f, v, m) ==
    /\ Base(h, L, R, K, CallTops(c, f), OpenTops(c, f), m)
    /\ c = "parse" => ParseInv(h, L, m, f, v)
    /\ c = "duplicate" => DupInv(h, L, m, f)

\* The types of the call in progress.
CallTyped ==
    /\ call \in {"none", "parse", "duplicate"}
    /\ frames \in Seq(Frame)
    /\ call = "parse" => Len(frames) <= NestingLimit + 1
    /\ call = "duplicate" => Len(frames) <= CircularLimit + 1
    /\ call = "none" => frames = <<>> /\ value = NULL /\ origin = NULL
    /\ value \in Items \union {NULL} /\ origin \in Items \union {NULL}

\* The inductive invariant.
CjsonInv == CallTyped /\ \E m \in [Items -> 0 .. Size] : Sound(heap, live, roots, leaked, call, frames, value, m)

-----------------------------------------------------------------------------
(* It implies the properties.                                              *)

\* An item whose home is p is in the list of p.
LEMMA HomeInRun ==
  ASSUME NEW h, NEW L, NEW T, NEW O, NEW m, Shape(h, L, T, O, m),
         NEW p \in Items, NEW c \in Items, Kid(h, p) = c, NEW y \in Items, m[y] = p
  PROVE  y \in Run(h, c)
<1> DEFINE S == {w \in Items : m[w] = p} \ Run(h, c)
<1>0. h \in Heaps /\ Grounded(h) /\ p # NULL /\ c # NULL /\ L \subseteq Items
  BY SizeNat DEF Shape, Typed
<1>1. ASSUME NEW w \in S PROVE \E v \in S : Follows(h, v, w)
  <2>1. w \in L
    BY <1>0 DEF Shape, Dead
  <2>2. w \notin T
    BY <1>0, TopFacts
  <2>3. PICK v \in L : Follows(h, v, w)
    BY <2>1, <2>2 DEF Shape, Reached
  <2>4. v \in Items /\ w # NULL
    BY <1>0, SizeNat
  <2>5. CASE w = h[v].next
    <3>1. m[v] = p
      BY <2>4, <2>5 DEF Shape, NextBack
    <3>2. v \notin Run(h, c)
      BY <1>0, <2>4, <2>5, RunFacts
    <3> QED BY <2>3, <2>4, <3>1, <3>2
  <2>6. CASE w = Kid(h, v)
    <3>1. v = p
      BY <2>4, <2>6 DEF Shape, KidHome
    <3>2. w = c /\ c \in Run(h, c)
      BY <1>0, <2>6, <3>1, RunFacts
    <3> QED BY <3>2
  <2> QED BY <2>3, <2>5, <2>6 DEF Follows
<1>2. S \in SUBSET Items
  OBVIOUS
<1>3. S = {}
  <2> HIDE DEF S
  <2> QED BY <1>0, <1>1, <1>2, Zenon DEF Grounded
<1> QED BY <1>3

\* The items from the first child of p on have p as their home, and no other owner.
LEMMA RunInHome ==
  ASSUME NEW h, NEW L, NEW T, NEW O, NEW m, Shape(h, L, T, O, m),
         NEW p \in Items, NEW c \in Items, Kid(h, p) = c
  PROVE  /\ \A y \in Run(h, c) : m[y] = p /\ y \in L \ T
         /\ p \in L /\ Run(h, c) \subseteq Items
<1>0. h \in Heaps /\ Grounded(h) /\ p # NULL /\ c # NULL /\ L \subseteq Items
  BY SizeNat DEF Shape, Typed
<1>1. Follows(h, p, c)
  BY DEF Follows
<1>2. p \in L /\ c \in L \ T /\ m[c] = p
  BY <1>1 DEF Shape, Inside, KidHome
<1> DEFINE C == {y \in L \ T : m[y] = p}
<1>3. ASSUME NEW w \in C, h[w].next # NULL PROVE h[w].next \in C
  <2>1. w \in Items /\ h[w].next \in Items
    BY <1>0, <1>3, SizeNat DEF Heaps
  <2>2. Follows(h, w, h[w].next)
    BY DEF Follows
  <2>3. h[w].next \in L \ T
    BY <2>1, <2>2 DEF Shape, Inside
  <2>4. m[h[w].next] = m[w]
    BY <2>1 DEF Shape, NextBack
  <2> QED BY <2>3, <2>4
<1>4. c \in C
  BY <1>2
<1>5. Run(h, c) \subseteq C
  <2> HIDE DEF C
  <2> QED BY <1>0, <1>3, <1>4, RunFacts
<1> QED BY <1>0, <1>2, <1>5

\* What the caller holds is what deletions of its items would free.
LEMMA HeldIsDown ==
  ASSUME NEW C, NEW O, NEW m, Base(heap, live, roots, leaked, C, O, m)
  PROVE  /\ Held = UNION {Down(heap, x) : x \in roots} /\ Held \subseteq live
         /\ \A x \in roots : Tree(heap, x) = Down(heap, x) /\ Down(heap, x) \subseteq Held
<1>0. heap \in Heaps /\ Grounded(heap) /\ roots \subseteq Items /\ roots \subseteq live
      /\ \A x \in roots : heap[x].next = NULL
  BY DEF Base, Shape, Typed, Loose
<1>1. ASSUME NEW x \in roots PROVE Tree(heap, x) = Down(heap, x) /\ Down(heap, x) \subseteq live
  <2>1. Tree(heap, x) = Down(heap, x)
    BY <1>0, TreeIsDown
  <2>2. Down(heap, x) \subseteq live
    BY <1>0, DownLive DEF Base
  <2> QED BY <2>1, <2>2
<1> QED BY <1>1 DEF Held

\* What the roots, the leaked references and the call reach is apart.
LEMMA OwnersApart ==
  ASSUME NEW C, NEW O, NEW m, Base(heap, live, roots, leaked, C, O, m)
  PROVE  LET B == UNION {Down(heap, t) : t \in C} IN
         /\ live = Held \union leaked \union B
         /\ Held \intersect B = {} /\ leaked \intersect (Held \union B) = {}
<1> DEFINE B == UNION {Down(heap, t) : t \in C}
           T == roots \union leaked \union C
<1>0. Shape(heap, live, T, O, m) /\ live \subseteq Items /\ T \subseteq live
      /\ roots \intersect leaked = {} /\ (roots \union leaked) \intersect C = {}
  BY DEF Base, Shape, Typed
<1>1. \A x \in leaked : Down(heap, x) = {x}
  <2> SUFFICES ASSUME NEW x \in leaked PROVE Down(heap, x) \subseteq {x} /\ x \in Down(heap, x)
    OBVIOUS
  <2>1. x \in Items /\ heap[x].next = NULL /\ heap[x].ref
    BY <1>0 DEF Base, Loose
  <2>2. Sealed(heap, {x})
    BY <2>1, SizeNat DEF Sealed, Follows, Kid
  <2> QED BY <2>1, <2>2, DownFacts
<1>2. live = UNION {Down(heap, t) : t \in T}
  <2> HIDE DEF T
  <2> QED BY <1>0, AllReached
<1>3. \A s, t \in T : s # t => Down(heap, s) \intersect Down(heap, t) = {}
  <2> HIDE DEF T
  <2> QED BY <1>0, DownApart
<1>4. \A y \in Held : \E x \in roots : y \in Down(heap, x)
  BY HeldIsDown
<1>5. \A x \in roots : Down(heap, x) \subseteq Held
  BY HeldIsDown
<1>6. \A y \in B : \E t \in C : y \in Down(heap, t)
  OBVIOUS
<1>7. \A t \in C : Down(heap, t) \subseteq B
  OBVIOUS
<1> HIDE DEF B
<1>8. live = Held \union leaked \union B
  <2>1. ASSUME NEW y \in live PROVE y \in Held \union leaked \union B
    <3>1. PICK t \in T : y \in Down(heap, t)
      BY <1>2
    <3> QED BY <1>1, <1>5, <1>7, <3>1
  <2>2. ASSUME NEW y \in B PROVE y \in live
    BY <1>2, <1>6
  <2> QED BY <1>0, <2>1, <2>2, HeldIsDown
<1>9. Held \intersect B = {}
  <2> SUFFICES ASSUME NEW y \in Held, y \in B PROVE FALSE
    OBVIOUS
  <2>1. PICK x \in roots : y \in Down(heap, x)
    BY <1>4
  <2>2. PICK t \in C : y \in Down(heap, t)
    BY <1>6
  <2> QED BY <1>0, <1>3, <2>1, <2>2
<1>10. leaked \intersect (Held \union B) = {}
  <2> SUFFICES ASSUME NEW y \in leaked, y \in Held \union B PROVE FALSE
    OBVIOUS
  <2>0. y \in Down(heap, y)
    BY <1>1
  <2>1. CASE y \in Held
    <3>1. PICK x \in roots : y \in Down(heap, x)
      BY <1>4, <2>1
    <3> QED BY <1>0, <1>3, <2>0, <3>1
  <2>2. CASE y \in B
    <3>1. PICK t \in C : y \in Down(heap, t)
      BY <1>6, <2>2
    <3> QED BY <1>0, <1>3, <2>0, <3>1
  <2> QED BY <2>1, <2>2
<1> QED BY <1>8, <1>9, <1>10 DEF B

\* Each item of a tree that is not a root is in exactly one list.
LEMMA OneList ==
  ASSUME NEW C, NEW O, NEW m, Base(heap, live, roots, leaked, C, O, m), NEW x \in Held
  PROVE  Cardinality({p \in Held : x \in ToSet(Owned(heap, p))}) = (IF x \in roots THEN 0 ELSE 1)
<1> DEFINE T == roots \union leaked \union C
           P == {p \in Held : x \in Own(heap, p)}
<1>0. Shape(heap, live, T, O, m) /\ live \subseteq Items /\ T \subseteq live /\ heap \in Heaps /\ Grounded(heap)
  BY DEF Base, Shape, Typed
<1>1. Held \subseteq Items /\ Held \subseteq live /\ \A y \in Held : \E r \in roots : y \in Down(heap, r)
  BY <1>0, HeldIsDown
<1>2. ASSUME NEW p \in Items, NEW y \in Own(heap, p) PROVE m[y] = p /\ y \notin T
  <2>1. Kid(heap, p) # NULL /\ Kid(heap, p) \in Items /\ y \in Run(heap, Kid(heap, p))
    BY <1>0, OwnFacts
  <2> HIDE DEF T
  <2> QED BY <1>0, <2>1, RunInHome
<1>3. CASE x \in roots
  <2>1. P = {}
    BY <1>1, <1>2, <1>3
  <2> QED BY <1>3, <2>1, FS_EmptySet DEF Own
<1>4. CASE x \notin roots
  <2> DEFINE S == {y \in Held \ roots : \A p \in Held : y \notin Own(heap, p)}
  <2>1. ASSUME NEW y \in S PROVE \E v \in S : Follows(heap, v, y)
    <3>1. PICK r \in roots : y \in Down(heap, r)
      BY <1>1
    <3>2. r \in Items /\ y # r /\ y \in Items
      BY <1>0, <1>1
    <3>3. PICK v \in Down(heap, r) : Follows(heap, v, y)
      BY <3>1, <3>2, DownFacts
    <3>4. v \in Held /\ v \in Items /\ y # NULL
      BY <1>1, <3>2, HeldIsDown, SizeNat
    <3>5. CASE y = Kid(heap, v)
      <4>1. y \in Own(heap, v)
        BY <1>0, <3>2, <3>4, <3>5, OwnFacts, RunFacts
      <4> QED BY <3>4, <4>1
    <3>6. CASE y = heap[v].next
      <4>1. v \notin roots
        BY <3>4, <3>6 DEF Base, Loose
      <4>2. ASSUME NEW p \in Held, v \in Own(heap, p) PROVE FALSE
        <5>1. p \in Items
          BY <1>1
        <5>2. Kid(heap, p) \in Items /\ Own(heap, p) = Run(heap, Kid(heap, p))
          BY <1>0, <4>2, <5>1, OwnFacts
        <5>3. y \in Own(heap, p)
          BY <1>0, <3>4, <3>6, <4>2, <5>2, RunFacts
        <5> QED BY <5>3
      <4> QED BY <3>3, <3>4, <4>1, <4>2
    <3> QED BY <3>3, <3>5, <3>6 DEF Follows
  <2>2. S = {}
    <3>1. S \in SUBSET Items
      BY <1>1
    <3> HIDE DEF S
    <3> QED BY <1>0, <2>1, <3>1, Zenon DEF Grounded
  <2>3. PICK p \in Held : x \in Own(heap, p)
    BY <1>4, <2>2
  <2>4. P = {p}
    BY <1>1, <1>2, <2>3
  <2> QED BY <1>4, <2>4, FS_Singleton DEF Own
<1> QED BY <1>3, <1>4

\* Each list the caller can reach is a closed ring, whatever the call in progress is doing.
LEMMA BaseRings ==
  ASSUME NEW C, NEW O, NEW m, Base(heap, live, roots, leaked, C, O, m), O \subseteq C
  PROVE  RingsClosed
<1> DEFINE T == roots \union leaked \union C
<1>0. Shape(heap, live, T, O, m) /\ live \subseteq Items /\ T \subseteq live /\ heap \in Heaps /\ Grounded(heap)
  BY DEF Base, Shape, Typed
<1>1. ASSUME NEW p \in Containers
      PROVE  LET s == Children(heap, p) IN
             /\ Len(s) <= Size
             /\ \A i \in DOMAIN s : heap[s[i]].prev = s[IF i = 1 THEN Len(s) ELSE i - 1]
  <2> DEFINE s == Children(heap, p)  c == heap[p].child
  <2>1. p \in Held /\ ~ heap[p].ref /\ p \in Items /\ p \in live
    BY <1>0, HeldIsDown DEF Containers
  <2>2. Kid(heap, p) = c /\ s = Chain(heap, c)
    BY <2>1 DEF Kid, Children
  <2>3. p \notin C
    <3> SUFFICES ASSUME p \in C PROVE FALSE
      OBVIOUS
    <3>1. p \in Down(heap, p)
      BY <2>1, DownFacts
    <3>2. p \in UNION {Down(heap, t) : t \in C}
      BY <3>1
    <3> QED BY <2>1, <3>2, OwnersApart
  <2>4. CASE c = NULL
    <3>1. s = <<>>
      BY <1>0, <2>2, <2>4, ChainOfNone
    <3> QED BY <3>1, SizeNat
  <2>5. CASE c # NULL
    <3>1. c \in Items
      BY <1>0, <2>1, <2>5, SizeNat DEF Heaps
    <3>2. IsWalk(heap, c, s) /\ Len(s) <= Size
      BY <1>0, <2>2, <3>1, ChainFacts
    <3> HIDE DEF s
    <3>3. s \in Seq(Items) /\ Len(s) \in Nat /\ Len(s) >= 1 /\ DOMAIN s = 1 .. Len(s)
      BY <3>2, LenProperties DEF IsWalk
    <3>34. Len(s) \in Nat /\ Len(s) >= 1
      BY <3>3
    <3>33. \A i \in 1 .. Len(s) : s[i] \in Items
      BY <3>3, ElementOfSeq
    <3>4. \A i \in 1 .. Len(s) - 1 : heap[s[i]].next = s[i + 1]
      BY <3>2 DEF IsWalk
    <3>5. ASSUME NEW i \in 1 .. Len(s), i # 1 PROVE heap[s[i]].prev = s[i - 1]
      <4>1. i - 1 \in 1 .. Len(s) - 1 /\ i - 1 \in 1 .. Len(s) /\ (i - 1) + 1 = i
        BY <3>3, <3>5
      <4>2. heap[s[i - 1]].next = s[i]
        BY <3>4, <4>1
      <4>3. s[i] \in Items /\ s[i - 1] \in Items
        BY <3>33, <4>1
      <4> QED BY <1>0, <4>2, <4>3 DEF Shape, NextBack
    <3>6. heap[s[1]].prev = s[Len(s)]
      <4>1. s[1] = c
        BY <3>2 DEF IsWalk
      <4>2. IsLast(heap, m, p, heap[c].prev)
        BY <1>0, <2>1, <2>2, <2>3, <3>1 DEF Shape, Rings
      <4>3. PICK z \in Items : z = heap[c].prev /\ heap[z].next = NULL /\ m[z] = p
        BY <4>2 DEF IsLast
      <4>4. z \in Run(heap, c)
        <5> HIDE DEF T
        <5> QED BY <1>0, <2>1, <2>2, <3>1, <4>3, HomeInRun
      <4>5. PICK j \in 1 .. Len(s) : z = s[j]
        BY <2>2, <3>3, <4>4 DEF Run, ToSet, s
      <4>6. j = Len(s)
        <5> SUFFICES ASSUME j # Len(s) PROVE FALSE
          OBVIOUS
        <5>1. j \in 1 .. Len(s) - 1 /\ j + 1 \in 1 .. Len(s)
          BY <3>34
        <5>2. s[j + 1] = NULL
          BY <3>4, <4>3, <4>5, <5>1
        <5> QED BY <3>33, <5>1, <5>2, SizeNat
      <4> QED BY <4>1, <4>3, <4>5, <4>6
    <3>7. ASSUME NEW i \in DOMAIN s PROVE heap[s[i]].prev = s[IF i = 1 THEN Len(s) ELSE i - 1]
      <4>1. i \in 1 .. Len(s)
        BY <3>3
      <4> QED BY <3>5, <3>6, <4>1
    <3> QED BY <3>2, <3>7 DEF s
  <2> QED BY <2>4, <2>5
<1>2. \A x \in roots : heap[x].next = NULL /\ heap[x].prev = NULL
  BY DEF Base, Loose
<1> QED BY <1>1, <1>2, Zenon DEF RingsClosed

\* The fields of a frame.
LEMMA FrameFields ==
  ASSUME NEW f \in Seq(Frame)
  PROVE  /\ Len(f) \in Nat /\ DOMAIN f = 1 .. Len(f)
         /\ \A i \in 1 .. Len(f) : /\ f[i] \in Frame /\ f[i].item \in Items
                                   /\ f[i].head \in Items \union {NULL} /\ f[i].last \in Items \union {NULL}
                                   /\ f[i].src \in Items \union {NULL}
<1>1. Len(f) \in Nat /\ DOMAIN f = 1 .. Len(f)
  BY LenProperties
<1>2. ASSUME NEW i \in 1 .. Len(f) PROVE f[i] \in Frame
  BY ElementOfSeq
<1> QED BY <1>1, <1>2 DEF Frame

\* What the call in progress has allocated is what it will delete if it fails.
LEMMA BuildingIsDown ==
  ASSUME CallTyped, NEW m, Sound(heap, live, roots, leaked, call, frames, value, m)
  PROVE  Building = UNION {Down(heap, t) : t \in CallTops(call, frames)}
<1> DEFINE C == CallTops(call, frames)
           E(i) == Doomed(heap, frames[i].item) \union Doomed(heap, frames[i].head)
<1>0. /\ heap \in Heaps /\ Grounded(heap) /\ live \subseteq Items /\ C \subseteq Items
  BY DEF Sound, Base, Shape, Typed
<1>1. /\ Len(frames) \in Nat /\ DOMAIN frames = 1 .. Len(frames)
      /\ \A i \in 1 .. Len(frames) : frames[i].item \in Items /\ frames[i].head \in Items \union {NULL}
  BY FrameFields DEF CallTyped
<1>2. \A x \in Items : Doomed(heap, x) = Down(heap, x)
  BY <1>0, DoomedIsDown
<1>3. Doomed(heap, NULL) = {}
  BY <1>0, DoomedNone
<1>4. Building = UNION {E(i) : i \in 1 .. Len(frames)}
  BY <1>1 DEF Building
<1>5. CASE call = "none"
  <2>1. Len(frames) = 0
    BY <1>5 DEF CallTyped
  <2>2. Building = {}
    BY <1>4, <2>1
  <2>3. C = {}
    BY <1>5 DEF CallTops
  <2> QED BY <2>2, <2>3
<1>6. CASE call = "duplicate"
  <2>1. C = {frames[i].item : i \in 1 .. Len(frames)}
    BY <1>6 DEF CallTops
  <2>2. \A i \in 1 .. Len(frames) : frames[i].head = NULL
    BY <1>6 DEF Sound, DupInv, DupFrame
  <2>3. \A i \in 1 .. Len(frames) : E(i) = Down(heap, frames[i].item)
    BY <1>1, <1>2, <1>3, <2>2
  <2> HIDE DEF C, E
  <2>4. UNION {E(i) : i \in 1 .. Len(frames)} = UNION {Down(heap, frames[i].item) : i \in 1 .. Len(frames)}
    BY <2>3
  <2>5. UNION {Down(heap, t) : t \in C} = UNION {Down(heap, frames[i].item) : i \in 1 .. Len(frames)}
    BY <2>1
  <2> QED BY <1>4, <2>4, <2>5 DEF C
<1>7. CASE call = "parse"
  <2>1. C = {frames[1].item} \union {frames[i].head : i \in 2 .. Len(frames)}
    BY <1>7 DEF CallTops
  <2>2. Len(frames) >= 1 /\ frames[1].head = NULL
        /\ \A i \in 2 .. Len(frames) : ParseFrame(heap, live, m, frames, i)
    BY <1>7 DEF Sound, ParseInv
  <2>3. E(1) = Down(heap, frames[1].item)
    BY <1>1, <1>2, <1>3, <2>2
  <2> DEFINE U == UNION {Down(heap, t) : t \in C}
  <2>4. \A t \in C : Down(heap, t) \subseteq U
    OBVIOUS
  <2>5. \A y \in U : \E t \in C : y \in Down(heap, t)
    OBVIOUS
  <2>6. ASSUME NEW i \in 2 .. Len(frames)
        PROVE  E(i) \subseteq U /\ Down(heap, frames[i].head) \subseteq E(i)
    <3>1. i \in 1 .. Len(frames) /\ (i # 2 => i - 1 \in 2 .. Len(frames)) /\ 1 \in 1 .. Len(frames)
      BY <1>1, <2>2
    <3>2. frames[i].head \in Items /\ frames[i].head \in C
      BY <1>0, <2>1, <2>2 DEF ParseFrame
    <3>3. E(i) = Down(heap, frames[i].item) \union Down(heap, frames[i].head)
      BY <1>1, <1>2, <3>1, <3>2
    <3>4. \E t \in C : t \in Items /\ frames[i].item \in Down(heap, t)
      <4>1. CASE i = 2
        <5>1. frames[i].item = frames[1].item
          BY <2>2, <4>1 DEF ParseFrame
        <5>2. frames[1].item \in Items
          BY <1>1, <3>1
        <5>3. frames[1].item \in Down(heap, frames[1].item)
          BY <5>2, DownFacts
        <5> QED BY <2>1, <5>1, <5>2, <5>3
      <4>2. CASE i # 2
        <5>1. frames[i].item = frames[i - 1].last
          BY <2>2, <4>2 DEF ParseFrame
        <5>2. frames[i - 1].last \in Down(heap, frames[i - 1].head)
          BY <2>2, <3>1, <4>2 DEF ParseFrame
        <5>3. frames[i - 1].head \in C
          BY <2>1, <3>1, <4>2
        <5> QED BY <1>0, <5>1, <5>2, <5>3
      <4> QED BY <4>1, <4>2
    <3>5. PICK t \in C : t \in Items /\ frames[i].item \in Down(heap, t)
      BY <3>4
    <3>6. Down(heap, frames[i].item) \subseteq Down(heap, t)
      BY <3>5, DownWithin
    <3> HIDE DEF U, C, E
    <3> QED BY <2>4, <3>2, <3>3, <3>5, <3>6
  <2> HIDE DEF U, C, E
  <2>7. Building \subseteq U
    <3> SUFFICES ASSUME NEW i \in 1 .. Len(frames) PROVE E(i) \subseteq U
      BY <1>4
    <3>1. CASE i = 1
      BY <2>1, <2>3, <2>4, <3>1
    <3>2. CASE i # 1
      <4>1. i \in 2 .. Len(frames)
        BY <1>1, <3>2
      <4> QED BY <2>6, <4>1
    <3> QED BY <3>1, <3>2
  <2>8. U \subseteq Building
    <3> SUFFICES ASSUME NEW t \in C PROVE Down(heap, t) \subseteq Building
      BY <2>5
    <3>1. CASE t = frames[1].item
      <4>1. 1 \in 1 .. Len(frames)
        BY <1>1, <2>2
      <4> QED BY <1>4, <2>3, <3>1, <4>1
    <3>2. CASE t # frames[1].item
      <4>1. PICK i \in 2 .. Len(frames) : t = frames[i].head
        BY <2>1, <3>2
      <4>2. i \in 1 .. Len(frames)
        BY <1>1
      <4>3. Down(heap, t) \subseteq E(i)
        BY <2>6, <4>1
      <4> QED BY <1>4, <4>2, <4>3
    <3> QED BY <3>1, <3>2
  <2> QED BY <2>7, <2>8 DEF U, C
<1> QED BY <1>5, <1>6, <1>7 DEF CallTyped

\* The invariant closes the rings: next and prev agree, and the first prev is the last item.
LEMMA InvRings == CjsonInv => RingsClosed
<1> SUFFICES ASSUME CjsonInv PROVE RingsClosed
  OBVIOUS
<1>1. PICK m : Sound(heap, live, roots, leaked, call, frames, value, m)
  BY DEF CjsonInv
<1> DEFINE C == CallTops(call, frames)  O == OpenTops(call, frames)
<1>2. Base(heap, live, roots, leaked, C, O, m) /\ O \subseteq C
  BY <1>1 DEF Sound, OpenTops
<1> HIDE DEF C, O
<1> QED BY <1>2, BaseRings

\* The invariant gives each allocated item one owner.
LEMMA InvOwned == CjsonInv => OwnedOnce
<1> SUFFICES ASSUME CjsonInv PROVE OwnedOnce
  OBVIOUS
<1>1. PICK m : Sound(heap, live, roots, leaked, call, frames, value, m)
  BY DEF CjsonInv
<1> DEFINE C == CallTops(call, frames)  O == OpenTops(call, frames)
<1>2. Base(heap, live, roots, leaked, C, O, m)
  BY <1>1 DEF Sound
<1>3. Building = UNION {Down(heap, t) : t \in C}
  BY <1>1, BuildingIsDown DEF CjsonInv
<1> HIDE DEF C, O
<1>4. /\ live = Held \union leaked \union Building
      /\ Held \intersect Building = {} /\ leaked \intersect (Held \union Building) = {}
  BY <1>2, <1>3, OwnersApart
<1>5. \A x \in Held : Cardinality({p \in Held : x \in ToSet(Owned(heap, p))})
                         = (IF x \in roots THEN 0 ELSE 1)
  BY <1>2, OneList, Zenon
<1> QED BY <1>4, <1>5, Zenon DEF OwnedOnce

\* The invariant implies the types.
LEMMA InvTyped == CjsonInv => TypeOK
<1> SUFFICES ASSUME CjsonInv PROVE TypeOK
  OBVIOUS
<1>1. PICK m : Sound(heap, live, roots, leaked, call, frames, value, m)
  BY DEF CjsonInv
<1>2. /\ heap \in Heaps /\ live \subseteq Items /\ roots \subseteq live /\ leaked \subseteq live
      /\ \A x \in Free : heap[x] = Blank
  BY <1>1 DEF Sound, Base, Shape, Typed, Dead, Free
<1> QED BY <1>2 DEF TypeOK, CjsonInv, CallTyped, Heaps

-----------------------------------------------------------------------------
(* The calls that edit a tree, on any heap.                                *)

\* A change that no deletion sees.
LEMMA ShapeSame ==
  ASSUME NEW h, NEW L, NEW T, NEW O, NEW m, Shape(h, L, T, O, m), NEW g \in Heaps, Dead(g, L, m),
         \A y \in Items : g[y].next = h[y].next /\ g[y].prev = h[y].prev /\ Kid(g, y) = Kid(h, y)
  PROVE  Shape(g, L, T, O, m)
<1>1. \A x, y \in Items : Follows(g, x, y) <=> Follows(h, x, y)
  BY DEF Follows
<1>2. Typed(g, L, T, m) /\ L \subseteq Items
  BY DEF Shape, Typed
<1>3. Grounded(g)
  BY <1>1, GroundedFewer DEF Shape
<1>4. Inside(g, L, T)
  BY <1>1 DEF Shape, Inside
<1>5. Reached(g, L, T)
  BY <1>1, <1>2 DEF Shape, Reached
<1>6. NextBack(g, m)
  BY DEF Shape, NextBack
<1>7. KidHome(g, m)
  BY DEF Shape, KidHome
<1>8. Rings(g, O, m)
  <2> SUFFICES ASSUME NEW x \in Items \ O, NEW c \in Items, Kid(g, x) = c
               PROVE  IsLast(g, m, x, g[c].prev)
    BY Zenon DEF Rings
  <2>1. IsLast(h, m, x, h[c].prev)
    BY DEF Shape, Rings
  <2> QED BY <2>1 DEF IsLast
<1>9. TopsFree(g, T, m)
  <2> SUFFICES ASSUME NEW t \in T, m[t] # NULL PROVE Kid(g, m[t]) = NULL
    BY DEF TopsFree
  <2>1. m[t] \in Items
    BY SizeNat DEF Shape, Typed
  <2> QED BY <2>1 DEF Shape, TopsFree
<1> QED BY <1>2, <1>3, <1>4, <1>5, <1>6, <1>7, <1>8, <1>9 DEF Shape

\* Between calls.
Still(h, L, R, K, m) == Base(h, L, R, K, {}, {}, m)

\* The pointers while no call is in progress.
LEMMA StillShape ==
  ASSUME NEW h, NEW L, NEW R, NEW K, NEW m, Still(h, L, R, K, m)
  PROVE  Shape(h, L, R \union K, {}, m)
<1>1. (R \union K) \union {} = R \union K
  OBVIOUS
<1> QED BY <1>1 DEF Still, Base

\* The owners while no call is in progress.
LEMMA StillLoose ==
  ASSUME NEW h, NEW L, NEW R, NEW K, NEW m, Still(h, L, R, K, m)
  PROVE  /\ R \intersect K = {}
         /\ \A x \in R \union K : Loose(h, m, x)
         /\ \A x \in K : h[x].ref
BY DEF Still, Base

\* The two make up the invariant of a heap that no call works on.
LEMMA StillFrom ==
  ASSUME NEW h, NEW L, NEW R, NEW K, NEW m, Shape(h, L, R \union K, {}, m), R \intersect K = {},
         \A x \in R \union K : Loose(h, m, x), \A x \in K : h[x].ref
  PROVE  Still(h, L, R, K, m)
<1>1. (R \union K) \union {} = R \union K
  OBVIOUS
<1> QED BY <1>1 DEF Still, Base

\* cJSON_New_Item, for the caller.
LEMMA StillNew ==
  ASSUME NEW h, NEW L, NEW R, NEW K, NEW m, Still(h, L, R, K, m), NEW x \in Items \ L
  PROVE  Still(h, L \union {x}, R \union {x}, K, Housed(m, x, NULL))
<1> DEFINE m2 == Housed(m, x, NULL)
<1>000. R \intersect K = {} /\ (\A y \in R \union K : Loose(h, m, y)) /\ (\A y \in K : h[y].ref)
  BY StillLoose, Zenon
<1>001. Shape(h, L, R \union K, {}, m)
  BY StillShape, Zenon
<1>0. /\ Shape(h, L, R \union K, {}, m)
      /\ L \subseteq Items /\ R \subseteq L /\ K \subseteq L
      /\ m \in [Items -> 0 .. Size] /\ R \intersect K = {}
  BY <1>000, <1>001 DEF Shape, Typed
<1>00. (\A y \in R \union K : Loose(h, m, y)) /\ (\A y \in K : h[y].ref)
  BY <1>000
<1>1. NULL \in 0 .. Size
  BY SizeNat
<1>2. Shape(h, L \union {x}, (R \union K) \union {x}, {}, m2)
  BY <1>0, <1>1, ShapeNew DEF Housed
<1>3. (R \union K) \union {x} = (R \union {x}) \union K
  OBVIOUS
<1>4. h[x] = Blank /\ m2[x] = NULL /\ \A y \in Items : m2[y] = IF y = x THEN NULL ELSE m[y]
  BY <1>0, <1>1 DEF Shape, Dead, Housed
<1> HIDE DEF m2
<1>5. Loose(h, m2, x)
  BY <1>4 DEF Loose, Blank
<1>6. \A y \in (R \union {x}) \union K : Loose(h, m2, y)
  BY <1>0, <1>00, <1>4, <1>5 DEF Loose
<1>7. (R \union {x}) \intersect K = {}
  BY <1>0
<1>8. Shape(h, L \union {x}, (R \union {x}) \union K, {}, m2)
  BY <1>2, <1>3
<1> QED BY <1>00, <1>6, <1>7, <1>8, StillFrom DEF m2

\* A new item becomes a reference.
LEMMA StillReference ==
  ASSUME NEW h, NEW L, NEW R, NEW K, NEW m, Still(h, L, R, K, m), NEW x \in R, h[x] = Blank,
         NEW v \in 0 .. Size, NEW g, g = [h EXCEPT ![x] = [Blank EXCEPT !.child = v, !.ref = TRUE]]
  PROVE  Still(g, L, R, K, m)
<1>000. R \intersect K = {} /\ (\A y \in R \union K : Loose(h, m, y)) /\ (\A y \in K : h[y].ref)
  BY StillLoose, Zenon
<1>001. Shape(h, L, R \union K, {}, m)
  BY StillShape, Zenon
<1>0. /\ Shape(h, L, R \union K, {}, m) /\ h \in Heaps
      /\ L \subseteq Items /\ R \subseteq L /\ K \subseteq L
      /\ m \in [Items -> 0 .. Size] /\ R \intersect K = {}
  BY <1>000, <1>001 DEF Shape, Typed
<1>00. (\A y \in R \union K : Loose(h, m, y)) /\ (\A y \in K : h[y].ref)
  BY <1>000
<1>1. x \in Items
  BY <1>0
<1>2. g \in Heaps
  BY <1>0, <1>1, SizeNat DEF Heaps, Blank
<1>3. \A y \in Items : y # x => g[y] = h[y]
  BY <1>0 DEF Heaps
<1>4. g[x].next = NULL /\ g[x].prev = NULL /\ g[x].ref
  BY <1>0, <1>1 DEF Heaps, Blank
<1>5. h[x].next = NULL /\ h[x].prev = NULL /\ Kid(h, x) = NULL
  BY DEF Blank, Kid
<1>6. Kid(g, x) = NULL
  BY <1>4 DEF Kid
<1>7. \A y \in Items : g[y].next = h[y].next /\ g[y].prev = h[y].prev /\ Kid(g, y) = Kid(h, y)
  <2> SUFFICES ASSUME NEW y \in Items
               PROVE  g[y].next = h[y].next /\ g[y].prev = h[y].prev /\ Kid(g, y) = Kid(h, y)
    OBVIOUS
  <2>1. CASE y = x
    BY <1>4, <1>5, <1>6, <2>1
  <2>2. CASE y # x
    BY <1>3, <2>2 DEF Kid
  <2> QED BY <2>1, <2>2
<1>8. Dead(g, L, m)
  BY <1>0, <1>3 DEF Shape, Dead
<1>9. Shape(g, L, R \union K, {}, m)
  BY <1>0, <1>2, <1>7, <1>8, ShapeSame
<1>10. \A y \in R \union K : Loose(g, m, y)
  BY <1>0, <1>00, <1>7 DEF Loose
<1>11. \A y \in K : g[y].ref
  BY <1>0, <1>00, <1>3
<1> QED BY <1>0, <1>9, <1>10, <1>11, StillFrom

\* cJSON_Delete of a root.
LEMMA StillFree ==
  ASSUME NEW h, NEW L, NEW R, NEW K, NEW m, Still(h, L, R, K, m), NEW x \in R, NEW D, D = Doomed(h, x)
  PROVE  /\ \E n : Still(Freed(h, D), L \ D, R \ D, K, n)
         /\ \E n : Still(Freed(h, D), L \ D, R \ {x}, K, n)
<1> DEFINE m2 == [y \in Items |-> IF y \in D THEN NULL ELSE m[y]]
           T == R \union K
<1>000. R \intersect K = {} /\ (\A y \in R \union K : Loose(h, m, y)) /\ (\A y \in K : h[y].ref)
  BY StillLoose, Zenon
<1>001. Shape(h, L, R \union K, {}, m)
  BY StillShape, Zenon
<1>0. /\ Shape(h, L, T, {}, m) /\ h \in Heaps
      /\ L \subseteq Items /\ R \subseteq L /\ K \subseteq L
      /\ m \in [Items -> 0 .. Size] /\ R \intersect K = {}
  BY <1>000, <1>001 DEF Shape, Typed
<1>00. (\A y \in R \union K : Loose(h, m, y)) /\ (\A y \in K : h[y].ref)
  BY <1>000
<1>1. x \in Items /\ x \in T /\ Grounded(h)
  BY <1>0 DEF Shape
<1>2. D = Down(h, x)
  BY <1>0, <1>1, DoomedIsDown
<1>3. Span(h, T, D)
  BY <1>1, <1>2, DownSpan
<1>4. Shape(Freed(h, D), L \ D, T \ D, {}, m2)
  <2> HIDE DEF T
  <2> QED BY <1>0, <1>3, ShapeFree
<1>5. \A t \in T : t # x => t \notin D
  <2> SUFFICES ASSUME NEW t \in T, t # x PROVE t \notin Down(h, x)
    BY <1>2
  <2>1. t \in Items /\ t \in Down(h, t)
    BY <1>0, DownFacts
  <2>2. Down(h, t) \intersect Down(h, x) = {}
    <3> HIDE DEF T
    <3> QED BY <1>0, <1>1, DownApart
  <2> QED BY <2>1, <2>2
<1>6. x \in D
  BY <1>1, <1>2, DownFacts
<1>7. T \ D = (R \ {x}) \union K /\ R \ D = R \ {x}
  BY <1>0, <1>5, <1>6
<1>8. \A y \in (R \ {x}) \union K : y \in Items /\ Freed(h, D)[y] = h[y] /\ m2[y] = m[y]
  BY <1>0, <1>5 DEF Freed
<1> HIDE DEF m2
<1>9. \A y \in (R \ {x}) \union K : Loose(Freed(h, D), m2, y)
  BY <1>00, <1>8 DEF Loose
<1>10. \A y \in K : Freed(h, D)[y].ref
  BY <1>00, <1>8
<1>11. (R \ {x}) \intersect K = {}
  BY <1>0
<1>12. Shape(Freed(h, D), L \ D, (R \ {x}) \union K, {}, m2)
  BY <1>4, <1>7
<1>13. Still(Freed(h, D), L \ D, R \ {x}, K, m2)
  BY <1>9, <1>10, <1>11, <1>12, StillFrom
<1> QED BY <1>7, <1>13

\* What an edit of one list leaves of the items in no list.
LEMMA StillEdit ==
  ASSUME NEW h, NEW L, NEW R, NEW K, NEW m, Still(h, L, R, K, m),
         NEW g, NEW S, NEW n, Shape(g, L, S \union K, {}, n), S \intersect K = {},
         \A y \in Items : g[y].ref = h[y].ref,
         \A y \in S \union K : Loose(g, n, y)
  PROVE  Still(g, L, S, K, n)
<1>1. \A y \in K : h[y].ref
  BY StillLoose, Zenon
<1>2. K \subseteq Items
  BY DEF Shape, Typed
<1>3. \A y \in K : g[y].ref
  BY <1>1, <1>2
<1> QED BY <1>3, StillFrom, Zenon

\* add_item_to_array to an empty list.
LEMMA AppendFirst ==
  ASSUME NEW h, NEW L, NEW R, NEW K, NEW m, Still(h, L, R, K, m), NEW p \in L, ~ h[p].ref,
         NEW x \in R, p \notin Down(h, x), h[p].child = NULL
  PROVE  Still(add_item_to_array(h, p, x), L, R \ {x}, K, Housed(m, x, p))
<1> DEFINE g == add_item_to_array(h, p, x)
           g0 == Set(h, p, "child", x)
           m2 == Housed(m, x, p)
           T == R \union K
<1>000. R \intersect K = {} /\ (\A y \in R \union K : Loose(h, m, y))
  BY StillLoose, Zenon
<1>0. Shape(h, L, T, {}, m)
  BY StillShape, Zenon
<1>1. /\ h \in Heaps /\ L \subseteq Items /\ T \subseteq L /\ m \in [Items -> 0 .. Size]
      /\ p \in Items /\ x \in Items /\ x \in T /\ x # p /\ p # NULL
  <2>1. /\ h \in Heaps /\ L \subseteq Items /\ T \subseteq L /\ m \in [Items -> 0 .. Size]
    BY <1>0 DEF Shape, Typed
  <2>2. p \in Items /\ x \in Items /\ x \in T
    BY <2>1
  <2> QED BY <2>1, <2>2, DownFacts, SizeNat
<1>2. Kid(h, p) = NULL
  BY DEF Kid
<1>3. h[x].next = NULL /\ \A t \in T \ {x} : m[t] # p
  BY <1>000, <1>1 DEF Loose
<1>4. /\ g0 \in Heaps
      /\ \A y \in Items : /\ g0[y].next = h[y].next /\ g0[y].prev = h[y].prev
                          /\ g0[y].ref = h[y].ref /\ g0[y].child = IF y = p THEN x ELSE h[y].child
  BY <1>1, SetField, SizeNat
<1>5. /\ g \in Heaps
      /\ \A y \in Items : /\ g[y].next = h[y].next /\ g[y].prev = (IF y = x THEN x ELSE h[y].prev)
                          /\ g[y].ref = h[y].ref /\ g[y].child = IF y = p THEN x ELSE h[y].child
  <2> DEFINE g1 == Set(g0, x, "prev", x)
             g2 == Set(g1, x, "next", NULL)
  <2>1. g = g2
    BY <1>1, SizeNat DEF add_item_to_array, Set
  <2> HIDE DEF g0, g
  <2>2. /\ g1 \in Heaps
        /\ \A y \in Items : /\ g1[y].next = g0[y].next /\ g1[y].prev = (IF y = x THEN x ELSE g0[y].prev)
                            /\ g1[y].ref = g0[y].ref /\ g1[y].child = g0[y].child
    BY <1>1, <1>4, SetField, SizeNat
  <2> HIDE DEF g1
  <2>3. /\ g2 \in Heaps
        /\ \A y \in Items : /\ g2[y].next = (IF y = x THEN NULL ELSE g1[y].next) /\ g2[y].prev = g1[y].prev
                            /\ g2[y].ref = g1[y].ref /\ g2[y].child = g1[y].child
    BY <1>1, <2>2, SetField, SizeNat
  <2> HIDE DEF g2
  <2> QED BY <1>3, <1>4, <2>1, <2>2, <2>3
<1>6. m2 \in [Items -> 0 .. Size] /\ m2[x] = p /\ \A y \in Items : y # x => m2[y] = m[y]
  BY <1>1, SizeNat DEF Housed
<1> HIDE DEF g, g0, T
<1>7. Shape(g0, L, T \ {x}, {} \union {p}, m2)
  BY <1>0, <1>1, <1>2, <1>3, <1>4, ShapeLinkFirst
<1> HIDE DEF m2
<1>8. Kid(g0, p) = x /\ IsLast(g0, m2, p, x)
  BY <1>1, <1>3, <1>4, <1>6 DEF Kid, IsLast
<1>9. \A y \in Items : /\ g[y].next = g0[y].next /\ g[y].child = g0[y].child
                       /\ g[y].ref = g0[y].ref /\ g[y].prev = IF y = x THEN x ELSE g0[y].prev
  BY <1>4, <1>5
<1>10. Shape(g, L, T \ {x}, ({} \union {p}) \ {p}, m2)
  BY <1>1, <1>5, <1>7, <1>8, <1>9, ShapeClose
<1>11. ({} \union {p}) \ {p} = {} /\ T \ {x} = (R \ {x}) \union K /\ (R \ {x}) \intersect K = {}
  BY <1>000 DEF T
<1>12. Shape(g, L, (R \ {x}) \union K, {}, m2)
  BY <1>10, <1>11
<1>13. \A y \in (R \ {x}) \union K : Loose(g, m2, y)
  <2>1. ASSUME NEW y \in T \ {x} PROVE Loose(g, m2, y)
    <3>1. y \in Items /\ y # x
      BY <1>1
    <3>2. Loose(h, m, y)
      BY <1>000 DEF T
    <3> QED BY <1>5, <1>6, <3>1, <3>2 DEF Loose
  <2> QED BY <1>11, <2>1
<1>14. Still(g, L, R \ {x}, K, m2)
  <2>1. \A y \in Items : g[y].ref = h[y].ref
    BY <1>5
  <2> QED BY <1>11, <1>12, <1>13, <2>1, StillEdit
<1> QED BY <1>14 DEF g, m2

\* suffix_object links x after z.
LEMMA SuffixFields ==
  ASSUME NEW h \in Heaps, NEW z \in Items, NEW x \in Items
  PROVE  LinkedAfter(h, suffix_object(h, z, x), z, x)
<1> DEFINE g1 == Set(h, z, "next", x)
           g2 == Set(g1, x, "prev", z)
<1>1. /\ g1 \in Heaps
      /\ \A y \in Items : /\ g1[y].next = (IF y = z THEN x ELSE h[y].next) /\ g1[y].prev = h[y].prev
                          /\ g1[y].ref = h[y].ref /\ g1[y].child = h[y].child
  BY SetField, SizeNat
<1>2. suffix_object(h, z, x) = g2
  BY DEF suffix_object
<1> HIDE DEF g1
<1>3. /\ g2 \in Heaps
      /\ \A y \in Items : /\ g2[y].next = g1[y].next /\ g2[y].prev = (IF y = x THEN z ELSE g1[y].prev)
                          /\ g2[y].ref = g1[y].ref /\ g2[y].child = g1[y].child
  BY <1>1, SetField, SizeNat
<1> HIDE DEF g2
<1> QED BY <1>1, <1>2, <1>3 DEF LinkedAfter

\* add_item_to_array after the last item, which it finds at the prev of the first.
LEMMA AppendLast ==
  ASSUME NEW h, NEW L, NEW R, NEW K, NEW m, Still(h, L, R, K, m), NEW p \in L, ~ h[p].ref,
         NEW x \in R, p \notin Down(h, x), h[p].child # NULL
  PROVE  Still(add_item_to_array(h, p, x), L, R \ {x}, K, Housed(m, x, p))
<1> DEFINE g == add_item_to_array(h, p, x)
           c == h[p].child
           z == h[c].prev
           g0 == suffix_object(h, z, x)
           m2 == Housed(m, x, p)
           T == R \union K
<1>000. R \intersect K = {} /\ (\A y \in R \union K : Loose(h, m, y))
  BY StillLoose, Zenon
<1>0. Shape(h, L, T, {}, m)
  BY StillShape, Zenon
<1>1. /\ h \in Heaps /\ L \subseteq Items /\ T \subseteq L /\ m \in [Items -> 0 .. Size]
      /\ p \in Items /\ x \in Items /\ x \in T /\ p # NULL
  <2>1. /\ h \in Heaps /\ L \subseteq Items /\ T \subseteq L /\ m \in [Items -> 0 .. Size]
    BY <1>0 DEF Shape, Typed
  <2>2. p \in Items /\ x \in Items /\ x \in T
    BY <2>1
  <2> QED BY <2>1, <2>2, SizeNat
<1>2. Kid(h, p) = c /\ c \in Items
  <2>1. c \in 0 .. Size
    BY <1>1 DEF Heaps
  <2> QED BY <2>1, SizeNat DEF Kid
<1> HIDE DEF c
<1>3. IsLast(h, m, p, z) /\ m[c] = p
  BY <1>0, <1>1, <1>2 DEF Shape, Rings, KidHome
<1>4. z \in Items /\ h[z].next = NULL /\ m[z] = p /\ z # NULL /\ z \in L
  <2>1. z \in Items /\ h[z].next = NULL /\ m[z] = p
    BY <1>3 DEF IsLast
  <2> QED BY <1>0, <1>1, <2>1, SizeNat DEF Shape, Dead
<1>5. z \notin Down(h, x)
  <2> HIDE DEF T
  <2>1. Span(h, T, Down(h, x))
    BY <1>1, DownSpan
  <2>2. Kid(h, p) # NULL
    BY <1>2, SizeNat
  <2>3. \A y \in Down(h, x) : m[y] # p
    BY <1>0, <1>1, <2>1, <2>2, HomeOutside
  <2> QED BY <1>4, <2>3
<1>6. h[x].next = NULL /\ m[x] = NULL /\ x # z /\ x # c
  <2>1. Loose(h, m, x)
    BY <1>000
  <2> QED BY <1>1, <1>3, <1>4, <2>1 DEF Loose
<1>70. LinkedAfter(h, g0, z, x)
  <2> HIDE DEF z
  <2> QED BY <1>1, <1>4, SuffixFields
<1>7. /\ g0 \in Heaps
      /\ \A y \in Items : /\ g0[y].next = IF y = z THEN x ELSE h[y].next
                          /\ g0[y].prev = IF y = x THEN z ELSE h[y].prev
                          /\ g0[y].ref = h[y].ref /\ g0[y].child = h[y].child
  BY <1>70 DEF LinkedAfter
<1>8. g = Set(g0, c, "prev", x)
  BY <1>2, <1>4, SizeNat DEF add_item_to_array, Set, c
<1>9. /\ g \in Heaps
      /\ \A y \in Items : /\ g[y].next = g0[y].next /\ g[y].child = g0[y].child
                          /\ g[y].ref = g0[y].ref /\ g[y].prev = IF y = c THEN x ELSE g0[y].prev
  <2> HIDE DEF g, g0
  <2>1. /\ Set(g0, c, "prev", x) \in Heaps
        /\ \A y \in Items : /\ Set(g0, c, "prev", x)[y].next = g0[y].next
                            /\ Set(g0, c, "prev", x)[y].child = g0[y].child
                            /\ Set(g0, c, "prev", x)[y].ref = g0[y].ref
                            /\ Set(g0, c, "prev", x)[y].prev = IF y = c THEN x ELSE g0[y].prev
    BY <1>1, <1>2, <1>7, SetField, SizeNat
  <2> QED BY <1>8, <2>1
<1>10. m2 \in [Items -> 0 .. Size] /\ m2[x] = p /\ \A y \in Items : y # x => m2[y] = m[y]
  BY <1>1, SizeNat DEF Housed
<1> HIDE DEF g, g0, T, z
<1>11. Shape(g0, L, T \ {x}, {} \union {p}, m2)
  <2>1. x \in T /\ z \in L /\ h[z].next = NULL /\ m[z] = p /\ h[x].next = NULL /\ z \notin Down(h, x)
    BY <1>1, <1>4, <1>5, <1>6
  <2> QED BY <1>0, <1>70, <2>1, ShapeLinkLast
<1> HIDE DEF m2
<1>12. Kid(g0, p) = c /\ IsLast(g0, m2, p, x)
  BY <1>1, <1>2, <1>6, <1>7, <1>10 DEF Kid, IsLast
<1>13. Shape(g, L, T \ {x}, ({} \union {p}) \ {p}, m2)
  BY <1>1, <1>2, <1>9, <1>11, <1>12, ShapeClose
<1>14. ({} \union {p}) \ {p} = {} /\ T \ {x} = (R \ {x}) \union K /\ (R \ {x}) \intersect K = {}
  BY <1>000 DEF T
<1>15. Shape(g, L, (R \ {x}) \union K, {}, m2)
  BY <1>13, <1>14
<1>16. \A y \in (R \ {x}) \union K : Loose(g, m2, y)
  <2>1. ASSUME NEW y \in T \ {x} PROVE Loose(g, m2, y)
    <3>1. y \in Items /\ y # x
      BY <1>1
    <3>2. Loose(h, m, y)
      BY <1>000 DEF T
    <3>3. y # z /\ y # c
      BY <1>1, <1>3, <1>4, <3>2 DEF Loose
    <3> QED BY <1>7, <1>9, <1>10, <3>1, <3>2, <3>3 DEF Loose
  <2> QED BY <1>14, <2>1
<1>17. Still(g, L, R \ {x}, K, m2)
  <2>1. \A y \in Items : g[y].ref = h[y].ref
    BY <1>7, <1>9
  <2> QED BY <1>14, <1>15, <1>16, <2>1, StillEdit
<1> QED BY <1>17 DEF g, m2

\* add_item_to_array keeps the pointers sound.
LEMMA StillAdd ==
  ASSUME NEW h, NEW L, NEW R, NEW K, NEW m, Still(h, L, R, K, m), NEW p \in L, ~ h[p].ref,
         NEW x \in R, p \notin Down(h, x)
  PROVE  Still(add_item_to_array(h, p, x), L, R \ {x}, K, Housed(m, x, p))
<1>1. CASE h[p].child = NULL
  BY <1>1, AppendFirst
<1>2. CASE h[p].child # NULL
  BY <1>2, AppendLast
<1> QED BY <1>1, <1>2

\* g is h with one field assigned; an assignment through NULL is skipped.
NextSet(h, g, n, v) ==
    /\ g \in Heaps
    /\ \A y \in Items : /\ g[y].next = IF y = n THEN v ELSE h[y].next
                        /\ g[y].prev = h[y].prev /\ g[y].child = h[y].child /\ g[y].ref = h[y].ref
\* The same for prev,
PrevSet(h, g, n, v) ==
    /\ g \in Heaps
    /\ \A y \in Items : /\ g[y].prev = IF y = n THEN v ELSE h[y].prev
                        /\ g[y].next = h[y].next /\ g[y].child = h[y].child /\ g[y].ref = h[y].ref
\* and for child.
ChildSet(h, g, n, v) ==
    /\ g \in Heaps
    /\ \A y \in Items : /\ g[y].child = IF y = n THEN v ELSE h[y].child
                        /\ g[y].next = h[y].next /\ g[y].prev = h[y].prev /\ g[y].ref = h[y].ref

\* Set does that.
LEMMA SetIs ==
  ASSUME NEW h \in Heaps, NEW n \in 0 .. Size, NEW v \in 0 .. Size
  PROVE  /\ NextSet(h, Set(h, n, "next", v), n, v)
         /\ PrevSet(h, Set(h, n, "prev", v), n, v)
         /\ ChildSet(h, Set(h, n, "child", v), n, v)
<1>1. CASE n = NULL
  <2>1. \A y \in Items : y # n
    BY <1>1, SizeNat
  <2> QED BY <1>1, <2>1 DEF Set, NextSet, PrevSet, ChildSet
<1>2. CASE n \in Items
  BY <1>2, SetField DEF NextSet, PrevSet, ChildSet
<1> QED BY <1>1, <1>2, SizeNat

\* Set keeps the types.
LEMMA SetHeap ==
  ASSUME NEW h \in Heaps, NEW n \in 0 .. Size, NEW v \in 0 .. Size
  PROVE  Set(h, n, "next", v) \in Heaps /\ Set(h, n, "prev", v) \in Heaps /\ Set(h, n, "child", v) \in Heaps
  BY SetIs DEF NextSet, PrevSet, ChildSet

\* The pointers of an item are items or NULL.
LEMMA FieldTypes ==
  ASSUME NEW h \in Heaps, NEW x \in Items
  PROVE  h[x].next \in 0 .. Size /\ h[x].prev \in 0 .. Size /\ h[x].child \in 0 .. Size
  BY DEF Heaps

\* The two assignments that end cJSON_DetachItemViaPointer.
LEMMA Cleared ==
  ASSUME NEW g, NEW x, x # NULL
  PROVE  [g EXCEPT ![x].prev = NULL, ![x].next = NULL] = Set(Set(g, x, "prev", NULL), x, "next", NULL)
  BY DEF Set

\* What cJSON_DetachItemViaPointer does to the first item of a list,
LEMMA DetachFirstFields ==
  ASSUME NEW h \in Heaps, NEW p \in Items, NEW x \in Items, h[p].child = x, NEW n, h[x].next = n
  PROVE  LET g == DetachItemViaPointer(h, p, x) IN
         /\ g \in Heaps
         /\ \A y \in Items : /\ g[y].next = IF y = x THEN NULL ELSE h[y].next
                             /\ g[y].prev = IF y = x THEN NULL ELSE IF y = n THEN h[x].prev ELSE h[y].prev
                             /\ g[y].ref = h[y].ref /\ g[y].child = IF y = p THEN n ELSE h[y].child
<1> DEFINE v == h[x].prev
           g1 == Set(h, n, "prev", v)
           g2 == Set(g1, p, "child", n)
           g3 == Set(g2, x, "prev", NULL)
           g4 == Set(g3, x, "next", NULL)
<1>0. n \in 0 .. Size /\ v \in 0 .. Size /\ p \in 0 .. Size /\ x \in 0 .. Size /\ NULL \in 0 .. Size /\ x # NULL
  BY FieldTypes, SizeNat
<1>1. DetachItemViaPointer(h, p, x) = g4
  <2>1. DetachItemViaPointer(h, p, x) = [g2 EXCEPT ![x].prev = NULL, ![x].next = NULL]
    BY DEF DetachItemViaPointer
  <2> QED BY <1>0, <2>1, Cleared
<1> HIDE DEF v
<1>2. PrevSet(h, g1, n, v) /\ g1 \in Heaps
  BY <1>0, SetIs, SetHeap
<1> HIDE DEF g1
<1>3. ChildSet(g1, g2, p, n) /\ g2 \in Heaps
  BY <1>0, <1>2, SetIs, SetHeap
<1> HIDE DEF g2
<1>4. PrevSet(g2, g3, x, NULL) /\ g3 \in Heaps
  BY <1>0, <1>3, SetIs, SetHeap
<1> HIDE DEF g3
<1>5. NextSet(g3, g4, x, NULL) /\ g4 \in Heaps
  BY <1>0, <1>4, SetIs, SetHeap
<1> HIDE DEF g4
<1>6. \A y \in Items : /\ g4[y].next = IF y = x THEN NULL ELSE h[y].next
                       /\ g4[y].prev = IF y = x THEN NULL ELSE IF y = n THEN v ELSE h[y].prev
                       /\ g4[y].ref = h[y].ref /\ g4[y].child = IF y = p THEN n ELSE h[y].child
  BY <1>2, <1>3, <1>4, <1>5 DEF NextSet, PrevSet, ChildSet
<1> QED BY <1>1, <1>5, <1>6 DEF v

\* and to a later one.
LEMMA DetachLaterFields ==
  ASSUME NEW h \in Heaps, NEW p \in Items, NEW c \in Items, h[p].child = c, NEW x \in Items, x # c,
         NEW q \in Items, h[x].prev = q, NEW n, h[x].next = n
  PROVE  LET g == DetachItemViaPointer(h, p, x) IN
         /\ g \in Heaps
         /\ \A y \in Items : /\ g[y].next = IF y = x THEN NULL ELSE IF y = q THEN n ELSE h[y].next
                             /\ g[y].prev = IF y = x THEN NULL ELSE IF y = n THEN q
                                            ELSE IF y = c /\ n = NULL THEN q ELSE h[y].prev
                             /\ g[y].ref = h[y].ref /\ g[y].child = h[y].child
<1> DEFINE g1 == Set(h, q, "next", n)
           g2 == Set(g1, n, "prev", q)
           e == IF n = NULL THEN c ELSE NULL
           g3 == Set(g2, e, "prev", q)
           g4 == Set(g3, x, "prev", NULL)
           g5 == Set(g4, x, "next", NULL)
<1>0. n \in 0 .. Size /\ q \in 0 .. Size /\ c \in 0 .. Size /\ x \in 0 .. Size /\ NULL \in 0 .. Size /\ x # NULL
      /\ e \in 0 .. Size /\ q # NULL /\ c # NULL
  BY FieldTypes, SizeNat
<1>1. DetachItemViaPointer(h, p, x) = g5
  <2>1. g3 = IF n = NULL THEN Set(g2, c, "prev", q) ELSE g2
    BY <1>0 DEF Set
  <2> HIDE DEF g3
  <2>2. DetachItemViaPointer(h, p, x) = [g3 EXCEPT ![x].prev = NULL, ![x].next = NULL]
    BY <2>1 DEF DetachItemViaPointer
  <2> QED BY <1>0, <2>2, Cleared
<1>2. NextSet(h, g1, q, n) /\ g1 \in Heaps
  BY <1>0, SetIs, SetHeap
<1> HIDE DEF g1
<1>3. PrevSet(g1, g2, n, q) /\ g2 \in Heaps
  BY <1>0, <1>2, SetIs, SetHeap
<1> HIDE DEF g2
<1>4. PrevSet(g2, g3, e, q) /\ g3 \in Heaps
  BY <1>0, <1>3, SetIs, SetHeap
<1> HIDE DEF g3
<1>5. PrevSet(g3, g4, x, NULL) /\ g4 \in Heaps
  BY <1>0, <1>4, SetIs, SetHeap
<1> HIDE DEF g4
<1>6. NextSet(g4, g5, x, NULL) /\ g5 \in Heaps
  BY <1>0, <1>5, SetIs, SetHeap
<1> HIDE DEF g5
<1>70. \A y \in Items : y = e <=> (y = c /\ n = NULL)
  BY <1>0, SizeNat
<1> HIDE DEF e
<1>7. \A y \in Items : /\ g5[y].next = IF y = x THEN NULL ELSE IF y = q THEN n ELSE h[y].next
                       /\ g5[y].prev = IF y = x THEN NULL ELSE IF y = n THEN q
                                            ELSE IF y = c /\ n = NULL THEN q ELSE h[y].prev
                       /\ g5[y].ref = h[y].ref /\ g5[y].child = h[y].child
  BY <1>2, <1>3, <1>4, <1>5, <1>6, <1>70 DEF NextSet, PrevSet, ChildSet
<1> QED BY <1>1, <1>6, <1>7

\* What the members of a list are to their owner.
LEMMA InList ==
  ASSUME NEW h, NEW L, NEW R, NEW K, NEW m, Still(h, L, R, K, m), NEW p \in L, ~ h[p].ref,
         NEW x \in ToSet(Children(h, p))
  PROVE  /\ p \in Items /\ x \in Items /\ x \in L /\ x \notin R \union K /\ m[x] = p
         /\ h[p].child \in Items /\ Kid(h, p) = h[p].child
         /\ x # h[p].child => h[x].prev \in Items /\ h[h[x].prev].next = x
<1> DEFINE c == h[p].child
           T == R \union K
<1>0. Shape(h, L, T, {}, m)
  BY StillShape, Zenon
<1>1. h \in Heaps /\ L \subseteq Items /\ Grounded(h)
  BY <1>0 DEF Shape, Typed
<1>2. p \in Items /\ c \in 0 .. Size /\ Kid(h, p) = c
  BY <1>1, FieldTypes DEF Kid
<1>3. x \in Run(h, c)
  BY DEF Children, Run
<1> HIDE DEF c
<1>4. c \in Items
  <2>1. c # NULL
    BY <1>1, <1>3, ChainOfNone DEF Run
  <2> QED BY <1>2, <2>1, SizeNat
<1> HIDE DEF T
<1>5. m[x] = p /\ x \in L \ T /\ x \in Items
  BY <1>0, <1>2, <1>3, <1>4, RunInHome
<1>6. ASSUME x # c PROVE h[x].prev \in Items /\ h[h[x].prev].next = x
  <2>1. PICK q \in Run(h, c) : h[q].next = x
    BY <1>1, <1>3, <1>4, <1>6, RunFacts
  <2>2. q \in Items
    BY <1>1, <1>4, RunFacts
  <2>3. h[x].prev = q
    BY <1>0, <1>5, <2>1, <2>2 DEF Shape, NextBack
  <2> QED BY <2>1, <2>2, <2>3
<1> QED BY <1>2, <1>4, <1>5, <1>6 DEF c, T

\* An edit of the list of p keeps what is in no list as it was.
LEMMA StillDetach ==
  ASSUME NEW h, NEW L, NEW R, NEW K, NEW m, Still(h, L, R, K, m), NEW p \in L, ~ h[p].ref,
         NEW x \in ToSet(Children(h, p))
  PROVE  Still(DetachItemViaPointer(h, p, x), L, R \union {x}, K, Housed(m, x, NULL))
<1> DEFINE g == DetachItemViaPointer(h, p, x)
           c == h[p].child
           n == h[x].next
           m2 == Housed(m, x, NULL)
           T == R \union K
<1>000. R \intersect K = {} /\ (\A y \in R \union K : Loose(h, m, y))
  BY StillLoose, Zenon
<1>0. Shape(h, L, T, {}, m)
  BY StillShape, Zenon
<1>1. /\ h \in Heaps /\ L \subseteq Items /\ T \subseteq L /\ m \in [Items -> 0 .. Size]
  BY <1>0 DEF Shape, Typed
<1>2. /\ p \in Items /\ x \in Items /\ x \in L /\ x \notin T /\ m[x] = p
      /\ c \in Items /\ Kid(h, p) = c /\ p # NULL
      /\ x # c => h[x].prev \in Items /\ h[h[x].prev].next = x
  BY InList, SizeNat
<1>3. m2 \in [Items -> 0 .. Size] /\ m2[x] = NULL /\ \A y \in Items : y # x => m2[y] = m[y]
  BY <1>1, <1>2, SizeNat DEF Housed
<1>4. n \in 0 .. Size /\ (n \in Items => m[n] = p) /\ m[c] = p
  BY <1>0, <1>1, <1>2, FieldTypes DEF Shape, NextBack, KidHome
<1> DEFINE Result == /\ Shape(g, L, T \union {x}, {}, m2) /\ g[x].next = NULL /\ g[x].prev = NULL
                     /\ \A y \in Items : /\ g[y].ref = h[y].ref
                                         /\ y # x /\ m[y] # p => g[y].prev = h[y].prev /\ g[y].next = h[y].next
<1>5. ASSUME x = c PROVE Result
  <2>1. DetachedFirst(h, g, p, x, n)
    BY <1>1, <1>2, <1>5, DetachFirstFields DEF DetachedFirst
  <2> HIDE DEF g, m2, T, c, n
  <2>2. Shape(g, L, T \union {x}, {}, m2)
    <3>1. n = h[x].next /\ Kid(h, p) = x /\ p \notin {}
      BY <1>2, <1>5 DEF n
    <3> QED BY <1>0, <1>2, <2>1, <3>1, ShapeDetachFirst DEF m2
  <2>3. /\ g[x].next = NULL /\ g[x].prev = NULL
        /\ \A y \in Items : /\ g[y].ref = h[y].ref
                            /\ y # x /\ m[y] # p => g[y].prev = h[y].prev /\ g[y].next = h[y].next
    BY <1>2, <1>4, <2>1 DEF DetachedFirst
  <2> QED BY <2>2, <2>3
<1>6. ASSUME x # c PROVE Result
  <2> DEFINE q == h[x].prev
  <2>0. q \in Items /\ h[q].next = x /\ m[q] = p
    BY <1>0, <1>2, <1>6 DEF Shape, NextBack
  <2>1. DetachedLater(h, g, c, q, x, n)
    BY <1>1, <1>2, <1>6, <2>0, DetachLaterFields DEF DetachedLater
  <2> HIDE DEF g, m2, T, c, n, q
  <2>2. Shape(g, L, T \union {x}, {}, m2)
    <3>1. n = h[x].next
      BY DEF n
    <3> QED BY <1>0, <1>2, <2>0, <2>1, <3>1, ShapeDetachLater DEF m2
  <2>3. /\ g[x].next = NULL /\ g[x].prev = NULL
        /\ \A y \in Items : /\ g[y].ref = h[y].ref
                            /\ y # x /\ m[y] # p => g[y].prev = h[y].prev /\ g[y].next = h[y].next
    BY <1>2, <1>4, <2>0, <2>1 DEF DetachedLater
  <2> QED BY <2>2, <2>3
<1>7. Result
  BY <1>5, <1>6
<1> HIDE DEF g, m2
<1>8. \A y \in (R \union {x}) \union K : Loose(g, m2, y)
  <2>1. Loose(g, m2, x)
    BY <1>3, <1>7 DEF Loose
  <2>2. ASSUME NEW y \in R \union K PROVE Loose(g, m2, y)
    <3>1. Loose(h, m, y) /\ y \in Items /\ y # x
      BY <1>000, <1>1, <1>2
    <3> QED BY <1>2, <1>3, <1>7, <3>1 DEF Loose
  <2> QED BY <2>1, <2>2
<1>9. (R \union {x}) \intersect K = {} /\ T \union {x} = (R \union {x}) \union K
  BY <1>000, <1>2
<1>10. Shape(g, L, (R \union {x}) \union K, {}, m2)
  BY <1>7, <1>9
<1>11. Still(g, L, R \union {x}, K, m2)
  <2>1. \A y \in Items : g[y].ref = h[y].ref
    BY <1>7
  <2> QED BY <1>8, <1>9, <1>10, <2>1, StillEdit
<1> QED BY <1>11 DEF g, m2

\* What cJSON_InsertItemInArray does, at the front and further on.
LEMMA InsertFields ==
  ASSUME NEW h \in Heaps, NEW p \in Items, NEW c, h[p].child = c, NEW a \in Items, NEW x \in Items, a # x,
         NEW q, h[a].prev = q, q # x
  PROVE  /\ a = c => InsertedFirst(h, InsertBefore(h, p, a, x), p, a, x)
         /\ a # c /\ q \in Items => InsertedLater(h, InsertBefore(h, p, a, x), q, a, x)
<1> DEFINE g1 == Set(h, x, "next", a)
           g2 == Set(g1, x, "prev", q)
           g3 == Set(g2, a, "prev", x)
           k4 == Set(g3, p, "child", x)
           n4 == Set(g3, q, "next", x)
<1>0. a \in 0 .. Size /\ q \in 0 .. Size /\ p \in 0 .. Size /\ x \in 0 .. Size /\ x # NULL /\ a # NULL
  BY FieldTypes, SizeNat
<1>1. InsertBefore(h, p, a, x) = IF a = c THEN k4 ELSE n4
  <2> DEFINE e == [h EXCEPT ![x].next = a, ![x].prev = h[a].prev, ![a].prev = x]
  <2>1. e = g3
    BY <1>0 DEF Set
  <2>2. InsertBefore(h, p, a, x) = IF a = h[p].child THEN Set(e, p, "child", x) ELSE Set(e, h[a].prev, "next", x)
    BY DEF InsertBefore
  <2> HIDE DEF g3, e
  <2> QED BY <2>1, <2>2
<1>2. NextSet(h, g1, x, a) /\ g1 \in Heaps
  BY <1>0, SetIs, SetHeap
<1> HIDE DEF g1
<1>3. PrevSet(g1, g2, x, q) /\ g2 \in Heaps
  BY <1>0, <1>2, SetIs, SetHeap
<1> HIDE DEF g2
<1>4. PrevSet(g2, g3, a, x) /\ g3 \in Heaps
  BY <1>0, <1>3, SetIs, SetHeap
<1> HIDE DEF g3
<1>5. ChildSet(g3, k4, p, x) /\ NextSet(g3, n4, q, x)
  BY <1>0, <1>4, SetIs
<1> HIDE DEF k4, n4
<1>6. ASSUME a = c PROVE InsertedFirst(h, k4, p, a, x)
  BY <1>2, <1>3, <1>4, <1>5 DEF NextSet, PrevSet, ChildSet, InsertedFirst
<1>7. ASSUME q \in Items PROVE InsertedLater(h, n4, q, a, x)
  BY <1>2, <1>3, <1>4, <1>5 DEF NextSet, PrevSet, ChildSet, InsertedLater
<1> QED BY <1>1, <1>6, <1>7

\* cJSON_InsertItemInArray keeps the pointers sound.
LEMMA StillInsert ==
  ASSUME NEW h, NEW L, NEW R, NEW K, NEW m, Still(h, L, R, K, m), NEW p \in L, ~ h[p].ref,
         NEW a \in ToSet(Children(h, p)), NEW x \in R, p \notin Down(h, x)
  PROVE  Still(InsertBefore(h, p, a, x), L, R \ {x}, K, Housed(m, x, p))
<1> DEFINE g == InsertBefore(h, p, a, x)
           c == h[p].child
           q == h[a].prev
           m2 == Housed(m, x, p)
           T == R \union K
<1>000. R \intersect K = {} /\ (\A y \in R \union K : Loose(h, m, y))
  BY StillLoose, Zenon
<1>0. Shape(h, L, T, {}, m)
  BY StillShape, Zenon
<1>1. /\ h \in Heaps /\ L \subseteq Items /\ T \subseteq L /\ m \in [Items -> 0 .. Size]
  BY <1>0 DEF Shape, Typed
<1>2. /\ p \in Items /\ a \in Items /\ a \in L /\ a \notin T /\ m[a] = p
      /\ c \in Items /\ Kid(h, p) = c /\ p # NULL /\ c # NULL
      /\ a # c => q \in Items /\ h[q].next = a
  BY InList, SizeNat
<1>3. x \in T /\ x \in Items /\ h[x].next = NULL /\ m[x] = NULL /\ x # a
  <2>1. Loose(h, m, x)
    BY <1>000
  <2> QED BY <1>1, <1>2, <2>1 DEF Loose
<1>4. m2 \in [Items -> 0 .. Size] /\ m2[x] = p /\ \A y \in Items : y # x => m2[y] = m[y]
  BY <1>1, <1>2, <1>3, SizeNat DEF Housed
<1>5. m[q] = p /\ q # x /\ q \in Items
  <2>1. CASE a = c
    <3>1. IsLast(h, m, p, h[c].prev)
      BY <1>0, <1>2 DEF Shape, Rings
    <3> QED BY <1>2, <1>3, <2>1, <3>1 DEF IsLast
  <2>2. CASE a # c
    BY <1>0, <1>2, <1>3, <2>2 DEF Shape, NextBack
  <2> QED BY <2>1, <2>2
<1> DEFINE Result == /\ Shape(g, L, T \ {x}, {}, m2)
                     /\ \A y \in Items : /\ g[y].ref = h[y].ref
                                         /\ y # x /\ m[y] # p => g[y].prev = h[y].prev /\ g[y].next = h[y].next
<1>6. /\ a = c => InsertedFirst(h, g, p, a, x)
      /\ a # c => InsertedLater(h, g, q, a, x)
  <2> HIDE DEF q
  <2>1. h[a].prev = q
    BY DEF q
  <2> QED BY <1>1, <1>2, <1>3, <1>5, <2>1, InsertFields
<1> HIDE DEF g, m2, T, c, q
<1>7. ASSUME a = c PROVE Result
  <2>1. Shape(g, L, T \ {x}, {}, m2)
    <3>1. Kid(h, p) = a /\ p \notin {} /\ InsertedFirst(h, g, p, a, x)
      BY <1>2, <1>6, <1>7
    <3> QED BY <1>0, <1>2, <1>3, <3>1, ShapeInsertFirst DEF m2
  <2>2. \A y \in Items : /\ g[y].ref = h[y].ref
                         /\ y # x /\ m[y] # p => g[y].prev = h[y].prev /\ g[y].next = h[y].next
    BY <1>2, <1>6, <1>7 DEF InsertedFirst
  <2> QED BY <2>1, <2>2
<1>8. ASSUME a # c PROVE Result
  <2>1. Shape(g, L, T \ {x}, {}, m2)
    <3>1. Kid(h, p) # NULL /\ h[q].next = a /\ InsertedLater(h, g, q, a, x)
      BY <1>2, <1>6, <1>8
    <3> QED BY <1>0, <1>2, <1>3, <1>5, <3>1, ShapeInsertLater DEF m2
  <2>2. \A y \in Items : /\ g[y].ref = h[y].ref
                         /\ y # x /\ m[y] # p => g[y].prev = h[y].prev /\ g[y].next = h[y].next
    BY <1>2, <1>5, <1>6, <1>8 DEF InsertedLater
  <2> QED BY <2>1, <2>2
<1>9. Result
  BY <1>7, <1>8
<1>10. \A y \in (R \ {x}) \union K : Loose(g, m2, y)
  <2>1. ASSUME NEW y \in T \ {x} PROVE Loose(g, m2, y)
    <3>1. Loose(h, m, y) /\ y \in Items /\ y # x
      BY <1>000, <1>1 DEF T
    <3> QED BY <1>2, <1>4, <1>9, <3>1 DEF Loose
  <2> QED BY <1>000, <2>1, <1>3 DEF T
<1>11. (R \ {x}) \intersect K = {} /\ T \ {x} = (R \ {x}) \union K
  BY <1>000 DEF T
<1>12. Shape(g, L, (R \ {x}) \union K, {}, m2)
  BY <1>9, <1>11
<1>13. Still(g, L, R \ {x}, K, m2)
  <2>1. \A y \in Items : g[y].ref = h[y].ref
    BY <1>9
  <2> QED BY <1>10, <1>11, <1>12, <2>1, StillEdit
<1> QED BY <1>13 DEF g, m2

\* Heaps with equal fields are equal.
LEMMA HeapEqual ==
  ASSUME NEW g \in Heaps, NEW h \in Heaps,
         \A y \in Items : g[y].next = h[y].next /\ g[y].prev = h[y].prev /\ g[y].child = h[y].child /\ g[y].ref = h[y].ref
  PROVE  g = h
<1>1. \A y \in Items : g[y] = h[y]
  BY DEF Heaps
<1> QED BY <1>1 DEF Heaps

\* The two assignments that end cJSON_ReplaceItemViaPointer.
LEMMA ClearedOther ==
  ASSUME NEW g, NEW x, x # NULL
  PROVE  [g EXCEPT ![x].next = NULL, ![x].prev = NULL] = Set(Set(g, x, "next", NULL), x, "prev", NULL)
  BY DEF Set

\* What cJSON_ReplaceItemViaPointer does to the first item of a list,
LEMMA ReplaceFirstFields ==
  ASSUME NEW h \in Heaps, NEW p \in Items, NEW old \in Items, h[p].child = old, NEW x \in Items, x # old,
         NEW n, h[old].next = n, n # x, n # old, NEW v, h[old].prev = v, v = old <=> n = NULL
  PROVE  LET g == ReplaceItemViaPointer(h, p, old, x) IN
         /\ g \in Heaps
         /\ \A y \in Items :
              /\ g[y].next = IF y = old THEN NULL ELSE IF y = x THEN n ELSE h[y].next
              /\ g[y].prev = IF y = old THEN NULL ELSE IF y = x THEN (IF n = NULL THEN x ELSE v)
                             ELSE IF y = n THEN x ELSE h[y].prev
              /\ g[y].ref = h[y].ref /\ g[y].child = IF y = p THEN x ELSE h[y].child
<1> DEFINE g1 == Set(h, x, "next", n)
           g2 == Set(g1, x, "prev", v)
           g3 == Set(g2, n, "prev", x)
           e == IF g3[old].prev = old THEN x ELSE NULL
           g4 == Set(g3, e, "prev", x)
           g5 == Set(g4, p, "child", x)
           g6 == Set(g5, old, "next", NULL)
           g7 == Set(g6, old, "prev", NULL)
<1>0. n \in 0 .. Size /\ v \in 0 .. Size /\ p \in 0 .. Size /\ x \in 0 .. Size /\ old \in 0 .. Size
      /\ NULL \in 0 .. Size /\ x # NULL /\ old # NULL
  BY FieldTypes, SizeNat
<1>00. e \in 0 .. Size
  BY <1>0
<1>1. ReplaceItemViaPointer(h, p, old, x) = g7
  <2> DEFINE taken == [h EXCEPT ![x].next = n, ![x].prev = v]
             a3 == Set(taken, n, "prev", x)
             a5 == Set(IF a3[old].prev = old THEN Set(a3, x, "prev", x) ELSE a3, p, "child", x)
  <2>1. taken = g2
    BY <1>0 DEF Set
  <2>2. ReplaceItemViaPointer(h, p, old, x) = [a5 EXCEPT ![old].next = NULL, ![old].prev = NULL]
    BY DEF ReplaceItemViaPointer
  <2>3. a3 = g3
    BY <2>1
  <2>4. g4 = IF g3[old].prev = old THEN Set(g3, x, "prev", x) ELSE g3
    <3> HIDE DEF g3
    <3> QED BY <1>0 DEF Set
  <2>5. a5 = g5
    <3> HIDE DEF a3, g3, g4
    <3> QED BY <2>3, <2>4
  <2> HIDE DEF a5, g5
  <2> QED BY <1>0, <2>2, <2>5, ClearedOther
<1>2. NextSet(h, g1, x, n) /\ g1 \in Heaps
  BY <1>0, SetIs, SetHeap
<1> HIDE DEF g1
<1>3. PrevSet(g1, g2, x, v) /\ g2 \in Heaps
  BY <1>0, <1>2, SetIs, SetHeap
<1> HIDE DEF g2
<1>4. PrevSet(g2, g3, n, x) /\ g3 \in Heaps
  BY <1>0, <1>3, SetIs, SetHeap
<1> HIDE DEF g3
<1>40. g3[old].prev = v
  BY <1>2, <1>3, <1>4 DEF NextSet, PrevSet
<1>41. \A y \in Items : y = e <=> (y = x /\ n = NULL)
  BY <1>0, <1>40, SizeNat
<1> HIDE DEF e
<1>5. PrevSet(g3, g4, e, x) /\ g4 \in Heaps
  BY <1>0, <1>00, <1>4, SetIs, SetHeap
<1> HIDE DEF g4
<1>6. ChildSet(g4, g5, p, x) /\ g5 \in Heaps
  BY <1>0, <1>5, SetIs, SetHeap
<1> HIDE DEF g5
<1>7. NextSet(g5, g6, old, NULL) /\ g6 \in Heaps
  BY <1>0, <1>6, SetIs, SetHeap
<1> HIDE DEF g6
<1>8. PrevSet(g6, g7, old, NULL) /\ g7 \in Heaps
  BY <1>0, <1>7, SetIs, SetHeap
<1> HIDE DEF g7
<1>9. \A y \in Items :
              /\ g7[y].next = IF y = old THEN NULL ELSE IF y = x THEN n ELSE h[y].next
              /\ g7[y].prev = IF y = old THEN NULL ELSE IF y = x THEN (IF n = NULL THEN x ELSE v)
                             ELSE IF y = n THEN x ELSE h[y].prev
              /\ g7[y].ref = h[y].ref /\ g7[y].child = IF y = p THEN x ELSE h[y].child
  BY <1>2, <1>3, <1>4, <1>41, <1>5, <1>6, <1>7, <1>8 DEF NextSet, PrevSet, ChildSet
<1> QED BY <1>1, <1>8, <1>9

\* and to a later one.
LEMMA ReplaceLaterFields ==
  ASSUME NEW h \in Heaps, NEW p \in Items, NEW c \in Items, h[p].child = c, NEW old \in Items, c # old,
         NEW x \in Items, x # old, x # c,
         NEW n, h[old].next = n, n # x, n # old, NEW q \in Items, h[old].prev = q, q # x, q # old
  PROVE  LET g == ReplaceItemViaPointer(h, p, old, x) IN
         /\ g \in Heaps
         /\ \A y \in Items :
              /\ g[y].next = IF y = old THEN NULL ELSE IF y = x THEN n ELSE IF y = q THEN x ELSE h[y].next
              /\ g[y].prev = IF y = old THEN NULL ELSE IF y = x THEN q
                             ELSE IF y = n THEN x ELSE IF y = c /\ n = NULL THEN x ELSE h[y].prev
              /\ g[y].ref = h[y].ref /\ g[y].child = h[y].child
<1> DEFINE g1 == Set(h, x, "next", n)
           g2 == Set(g1, x, "prev", q)
           g3 == Set(g2, n, "prev", x)
           g4 == Set(g3, q, "next", x)
           e == IF n = NULL THEN c ELSE NULL
           g5 == Set(g4, e, "prev", x)
           g6 == Set(g5, old, "next", NULL)
           g7 == Set(g6, old, "prev", NULL)
<1>0. n \in 0 .. Size /\ q \in 0 .. Size /\ p \in 0 .. Size /\ x \in 0 .. Size /\ old \in 0 .. Size
      /\ NULL \in 0 .. Size /\ x # NULL /\ old # NULL /\ c # NULL /\ e \in 0 .. Size
  BY FieldTypes, SizeNat
<1>1. ReplaceItemViaPointer(h, p, old, x) = g7
  <2> DEFINE taken == [h EXCEPT ![x].next = n, ![x].prev = q]
             a3 == Set(taken, n, "prev", x)
             a4 == Set(a3, q, "next", x)
             a5 == IF n = NULL THEN Set(a4, c, "prev", x) ELSE a4
  <2>1. taken = g2
    BY <1>0 DEF Set
  <2>2. ReplaceItemViaPointer(h, p, old, x) = [a5 EXCEPT ![old].next = NULL, ![old].prev = NULL]
    BY DEF ReplaceItemViaPointer
  <2>3. a4 = g4
    BY <2>1
  <2>4. a5 = g5
    <3> HIDE DEF a4, g4
    <3> QED BY <1>0, <2>3 DEF Set
  <2> HIDE DEF a5, g5
  <2> QED BY <1>0, <2>2, <2>4, ClearedOther
<1>2. NextSet(h, g1, x, n) /\ g1 \in Heaps
  BY <1>0, SetIs, SetHeap
<1> HIDE DEF g1
<1>3. PrevSet(g1, g2, x, q) /\ g2 \in Heaps
  BY <1>0, <1>2, SetIs, SetHeap
<1> HIDE DEF g2
<1>4. PrevSet(g2, g3, n, x) /\ g3 \in Heaps
  BY <1>0, <1>3, SetIs, SetHeap
<1> HIDE DEF g3
<1>5. NextSet(g3, g4, q, x) /\ g4 \in Heaps
  BY <1>0, <1>4, SetIs, SetHeap
<1> HIDE DEF g4
<1>6. PrevSet(g4, g5, e, x) /\ g5 \in Heaps
  BY <1>0, <1>5, SetIs, SetHeap
<1> HIDE DEF g5
<1>7. NextSet(g5, g6, old, NULL) /\ g6 \in Heaps
  BY <1>0, <1>6, SetIs, SetHeap
<1> HIDE DEF g6
<1>8. PrevSet(g6, g7, old, NULL) /\ g7 \in Heaps
  BY <1>0, <1>7, SetIs, SetHeap
<1> HIDE DEF g7
<1>41. \A y \in Items : y = e <=> (y = c /\ n = NULL)
  BY <1>0, SizeNat
<1> HIDE DEF e
<1>9. \A y \in Items :
              /\ g7[y].next = IF y = old THEN NULL ELSE IF y = x THEN n ELSE IF y = q THEN x ELSE h[y].next
              /\ g7[y].prev = IF y = old THEN NULL ELSE IF y = x THEN q
                             ELSE IF y = n THEN x ELSE IF y = c /\ n = NULL THEN x ELSE h[y].prev
              /\ g7[y].ref = h[y].ref /\ g7[y].child = h[y].child
  BY <1>2, <1>3, <1>4, <1>41, <1>5, <1>6, <1>7, <1>8 DEF NextSet, PrevSet, ChildSet
<1> QED BY <1>1, <1>8, <1>9

\* Replacing the first item is inserting in front of it and detaching it;
LEMMA ReplaceFirstIs ==
  ASSUME NEW h \in Heaps, NEW p \in Items, NEW old \in Items, h[p].child = old, NEW x \in Items, x # old,
         NEW n, h[old].next = n, n # x, n # old, NEW v, h[old].prev = v, v # x, v = old <=> n = NULL
  PROVE  ReplaceItemViaPointer(h, p, old, x) = DetachItemViaPointer(InsertBefore(h, p, old, x), p, old)
<1> DEFINE g == InsertBefore(h, p, old, x)
           r == ReplaceItemViaPointer(h, p, old, x)
           d == DetachItemViaPointer(g, p, old)
<1>1. InsertedFirst(h, g, p, old, x)
  BY InsertFields
<1>2. r \in Heaps /\ \A y \in Items :
              /\ r[y].next = IF y = old THEN NULL ELSE IF y = x THEN n ELSE h[y].next
              /\ r[y].prev = IF y = old THEN NULL ELSE IF y = x THEN (IF n = NULL THEN x ELSE v)
                             ELSE IF y = n THEN x ELSE h[y].prev
              /\ r[y].ref = h[y].ref /\ r[y].child = IF y = p THEN x ELSE h[y].child
  BY ReplaceFirstFields
<1> HIDE DEF g
<1>3. g \in Heaps /\ g[p].child = x /\ g[old].prev = x /\ g[old].next = n
  BY <1>1 DEF InsertedFirst
<1>4. d \in Heaps /\ \A y \in Items :
             /\ d[y].next = IF y = old THEN NULL ELSE IF y = x THEN n ELSE g[y].next
             /\ d[y].prev = IF y = old THEN NULL ELSE IF y = n THEN x
                            ELSE IF y = x /\ n = NULL THEN x ELSE g[y].prev
             /\ d[y].ref = g[y].ref /\ d[y].child = g[y].child
  BY <1>3, DetachLaterFields
<1> HIDE DEF r, d
<1>5. \A y \in Items : r[y].next = d[y].next /\ r[y].prev = d[y].prev /\ r[y].child = d[y].child /\ r[y].ref = d[y].ref
  BY <1>1, <1>2, <1>4 DEF InsertedFirst
<1>6. r = d
  BY <1>2, <1>4, <1>5, HeapEqual
<1> QED BY <1>6 DEF r, d, g

\* so is replacing a later one.
LEMMA ReplaceLaterIs ==
  ASSUME NEW h \in Heaps, NEW p \in Items, NEW c \in Items, h[p].child = c, NEW old \in Items, c # old,
         NEW x \in Items, x # old, x # c,
         NEW n, h[old].next = n, n # x, n # old, NEW q \in Items, h[old].prev = q, q # x, q # old
  PROVE  ReplaceItemViaPointer(h, p, old, x) = DetachItemViaPointer(InsertBefore(h, p, old, x), p, old)
<1> DEFINE g == InsertBefore(h, p, old, x)
           r == ReplaceItemViaPointer(h, p, old, x)
           d == DetachItemViaPointer(g, p, old)
<1>1. InsertedLater(h, g, q, old, x)
  BY InsertFields
<1>2. r \in Heaps /\ \A y \in Items :
              /\ r[y].next = IF y = old THEN NULL ELSE IF y = x THEN n ELSE IF y = q THEN x ELSE h[y].next
              /\ r[y].prev = IF y = old THEN NULL ELSE IF y = x THEN q
                             ELSE IF y = n THEN x ELSE IF y = c /\ n = NULL THEN x ELSE h[y].prev
              /\ r[y].ref = h[y].ref /\ r[y].child = h[y].child
  BY ReplaceLaterFields
<1> HIDE DEF g
<1>3. g \in Heaps /\ g[p].child = c /\ g[old].prev = x /\ g[old].next = n
  BY <1>1 DEF InsertedLater
<1>4. d \in Heaps /\ \A y \in Items :
             /\ d[y].next = IF y = old THEN NULL ELSE IF y = x THEN n ELSE g[y].next
             /\ d[y].prev = IF y = old THEN NULL ELSE IF y = n THEN x
                            ELSE IF y = c /\ n = NULL THEN x ELSE g[y].prev
             /\ d[y].ref = g[y].ref /\ d[y].child = g[y].child
  BY <1>3, DetachLaterFields
<1> HIDE DEF r, d
<1>5. \A y \in Items : r[y].next = d[y].next /\ r[y].prev = d[y].prev /\ r[y].child = d[y].child /\ r[y].ref = d[y].ref
  BY <1>1, <1>2, <1>4 DEF InsertedLater
<1>6. r = d
  BY <1>2, <1>4, <1>5, HeapEqual
<1> QED BY <1>6 DEF r, d, g

\* A replacement is an insertion before the old item and its removal.
LEMMA ReplaceIs ==
  ASSUME NEW h, NEW L, NEW R, NEW K, NEW m, Still(h, L, R, K, m), NEW p \in L, ~ h[p].ref,
         NEW old \in ToSet(Children(h, p)), NEW x \in R, p \notin Down(h, x)
  PROVE  /\ ReplaceItemViaPointer(h, p, old, x) = DetachItemViaPointer(InsertBefore(h, p, old, x), p, old)
         /\ old \in ToSet(Children(InsertBefore(h, p, old, x), p)) /\ ~ InsertBefore(h, p, old, x)[p].ref
<1> DEFINE g == InsertBefore(h, p, old, x)
           c == h[p].child
           n == h[old].next
           q == h[old].prev
           T == R \union K
<1>0. Shape(h, L, T, {}, m)
  BY StillShape, Zenon
<1>1. h \in Heaps /\ L \subseteq Items /\ T \subseteq L /\ m \in [Items -> 0 .. Size] /\ Grounded(h)
  BY <1>0 DEF Shape, Typed
<1>2. /\ p \in Items /\ old \in Items /\ old \in L /\ old \notin T /\ m[old] = p
      /\ c \in Items /\ Kid(h, p) = c /\ p # NULL /\ c # NULL
      /\ old # c => q \in Items /\ h[q].next = old
  BY InList, SizeNat
<1>3. x \in Items /\ m[x] = NULL
  <2>1. Loose(h, m, x)
    BY StillLoose, Zenon
  <2> QED BY <1>1, <2>1 DEF Loose
<1>4. x # old /\ x # c /\ n # x /\ n # old /\ m[c] = p
  <2>1. m[c] = p
    BY <1>0, <1>2 DEF Shape, KidHome
  <2>2. n \in Items => m[n] = p
    BY <1>0, <1>2 DEF Shape, NextBack
  <2>3. n # old
    BY <1>1, <1>2, NoLoop DEF Follows
  <2> QED BY <1>2, <1>3, <2>1, <2>2, <2>3
<1>5. q \in Items /\ m[q] = p /\ q # x /\ (old # c => q # old) /\ (old = c => (q = old <=> n = NULL))
  <2>1. CASE old = c
    <3>1. IsLast(h, m, p, q)
      BY <1>0, <1>2, <2>1 DEF Shape, Rings
    <3>2. q \in Items /\ m[q] = p /\ h[q].next = NULL
      BY <3>1 DEF IsLast
    <3>3. ASSUME n = NULL PROVE q = old
      <4>1. Kid(h, p) = old
        BY <1>2, <2>1
      <4>2. q \in Run(h, old)
        <5> HIDE DEF T, q
        <5> QED BY <1>0, <1>2, <3>2, <4>1, HomeInRun
      <4>3. Run(h, old) \subseteq {old}
        <5>1. old \in {old} /\ \A w \in {old} : w \in Items /\ (h[w].next # NULL => h[w].next \in {old})
          BY <1>2, <3>3
        <5> QED BY <1>1, <1>2, <5>1, RunFacts
      <4> QED BY <4>2, <4>3
    <3> QED BY <1>2, <1>3, <2>1, <3>2, <3>3
  <2>2. CASE old # c
    <3>1. q \in Items /\ h[q].next = old /\ m[q] = p
      BY <1>0, <1>2, <2>2 DEF Shape, NextBack
    <3>2. q # old
      BY <1>1, <1>2, <3>1, NoLoop DEF Follows
    <3> QED BY <1>2, <1>3, <2>2, <3>1, <3>2
  <2> QED BY <2>1, <2>2
<1>6. ReplaceItemViaPointer(h, p, old, x) = DetachItemViaPointer(g, p, old)
  <2>0. h[old].next = n /\ h[old].prev = q /\ h[p].child = c
    OBVIOUS
  <2> HIDE DEF n, q, c
  <2>1. CASE old = c
    BY <1>1, <1>2, <1>3, <1>4, <1>5, <2>0, <2>1, ReplaceFirstIs
  <2>2. CASE old # c
    BY <1>1, <1>2, <1>3, <1>4, <1>5, <2>0, <2>2, ReplaceLaterIs
  <2> QED BY <2>1, <2>2
<1>7. /\ old = c => InsertedFirst(h, g, p, old, x)
      /\ old # c => InsertedLater(h, g, q, old, x)
  <2>0. h[old].prev = q
    OBVIOUS
  <2> HIDE DEF q
  <2> QED BY <1>1, <1>2, <1>3, <1>4, <1>5, <2>0, InsertFields
<1> DEFINE m2 == Housed(m, x, p)
<1>8. Still(g, L, R \ {x}, K, m2)
  BY StillInsert
<1>9. Shape(g, L, (R \ {x}) \union K, {}, m2)
  BY <1>8, StillShape
<1>10. m2[old] = p
  BY <1>1, <1>2, <1>3, <1>4 DEF Housed
<1> HIDE DEF m2, g
<1>11. g[p].child \in Items /\ ~ g[p].ref /\ Kid(g, p) = g[p].child
  BY <1>2, <1>3, <1>7 DEF InsertedFirst, InsertedLater, Kid
<1>12. old \in Run(g, g[p].child)
  <2> DEFINE S == (R \ {x}) \union K
             k == g[p].child
  <2>1. k \in Items /\ Kid(g, p) = k
    BY <1>11
  <2>2. Shape(g, L, S, {}, m2)
    BY <1>9
  <2> HIDE DEF S, k
  <2>3. old \in Run(g, k)
    BY <1>2, <1>10, <2>1, <2>2, HomeInRun
  <2> QED BY <2>3 DEF k
<1>13. old \in ToSet(Children(g, p))
  BY <1>12 DEF Run, Children
<1> QED BY <1>6, <1>11, <1>13 DEF g

\* cJSON_ReplaceItemViaPointer keeps the pointers sound.
LEMMA StillReplace ==
  ASSUME NEW h, NEW L, NEW R, NEW K, NEW m, Still(h, L, R, K, m), NEW p \in L, ~ h[p].ref,
         NEW old \in ToSet(Children(h, p)), NEW x \in R, p \notin Down(h, x)
  PROVE  Still(ReplaceItemViaPointer(h, p, old, x), L, (R \ {x}) \union {old}, K,
               Housed(Housed(m, x, p), old, NULL))
<1> DEFINE g == InsertBefore(h, p, old, x)
           m2 == Housed(m, x, p)
<1>1. Still(g, L, R \ {x}, K, m2)
  BY StillInsert
<1>2. ReplaceItemViaPointer(h, p, old, x) = DetachItemViaPointer(g, p, old)
      /\ old \in ToSet(Children(g, p)) /\ ~ g[p].ref
  BY ReplaceIs
<1> HIDE DEF g, m2
<1>3. Still(DetachItemViaPointer(g, p, old), L, (R \ {x}) \union {old}, K, Housed(m2, old, NULL))
  BY <1>1, <1>2, StillDetach
<1> QED BY <1>2, <1>3 DEF m2

-----------------------------------------------------------------------------
(* The calls that edit a tree, as actions.                                 *)

\* An allocation returns an item that was free.
LEMMA NewItemFree ==
  ASSUME Free # {}
  PROVE  NewItem \in Items \ live
<1>1. Free \in SUBSET Nat
  BY DEF Free, Items
<1>2. \E n \in Free : \A i \in Free : n <= i
  BY <1>1, Least
<1>3. NewItem \in Free
  BY <1>2, Zenon DEF NewItem
<1> QED BY <1>3 DEF Free

\* A heap the caller may allocate from has a free item.
LEMMA RoomIsFree ==
  ASSUME MayAllocate, live \subseteq Items
  PROVE  Free # {}
<1> SUFFICES ASSUME Free = {} PROVE FALSE
  OBVIOUS
<1>1. live = Items
  BY DEF Free
<1> QED BY <1>1, ItemsFinite, CjsonAssumption DEF MayAllocate

\* Without a call in progress no call owns anything.
LEMMA IdleTops == \A f : CallTops("none", f) = {} /\ OpenTops("none", f) = {}
  BY DEF CallTops, OpenTops

\* The invariant of a heap that no call works on,
LEMMA InvStill ==
  ASSUME CjsonInv, call = "none"
  PROVE  \E m : Still(heap, live, roots, leaked, m)
<1>1. PICK m : Sound(heap, live, roots, leaked, call, frames, value, m)
  BY Zenon DEF CjsonInv
<1>2. Base(heap, live, roots, leaked, CallTops(call, frames), OpenTops(call, frames), m)
  BY <1>1 DEF Sound
<1>3. Base(heap, live, roots, leaked, {}, {}, m)
  BY <1>2, IdleTops
<1> QED BY <1>3, Zenon DEF Still

\* and back.
LEMMA StillInv ==
  ASSUME CjsonInv, call = "none", idle, NEW m, Still(heap', live', roots', leaked', m)
  PROVE  CjsonInv'
<1>1. CallTyped' /\ call' = "none"
  BY DEF CjsonInv, CallTyped, idle
<1>2. Base(heap', live', roots', leaked', CallTops(call', frames'), OpenTops(call', frames'), m)
  BY <1>1, IdleTops DEF Still
<1>3. m \in [Items -> 0 .. Size]
  BY <1>2 DEF Base, Shape, Typed
<1>4. Sound(heap', live', roots', leaked', call', frames', value', m)
  BY <1>1, <1>2 DEF Sound
<1> QED BY <1>1, <1>3, <1>4, Zenon DEF CjsonInv

\* Between calls the caller holds live items only, and trees are what deletions free.
LEMMA HeldStill ==
  ASSUME NEW m, Still(heap, live, roots, leaked, m)
  PROVE  /\ Held \subseteq live
         /\ \A x \in roots : Tree(heap, x) = Down(heap, x)
         /\ \A p \in Containers : p \in live /\ ~ heap[p].ref
<1>1. Base(heap, live, roots, leaked, {}, {}, m)
  BY DEF Still
<1>2. Held \subseteq live /\ \A x \in roots : Tree(heap, x) = Down(heap, x)
  BY <1>1, HeldIsDown, Zenon
<1> QED BY <1>2 DEF Containers

\* The sets of owners are sets of live items.
LEMMA StillLive ==
  ASSUME NEW h, NEW L, NEW R, NEW K, NEW m, Still(h, L, R, K, m)
  PROVE  h \in Heaps /\ L \subseteq Items /\ R \subseteq L /\ K \subseteq L
<1>1. Shape(h, L, R \union K, {}, m)
  BY StillShape, Zenon
<1> QED BY <1>1 DEF Shape, Typed

\* Nothing hangs from an item without pointers.
LEMMA DownAlone ==
  ASSUME NEW h, NEW x \in Items, h[x].next = NULL, Kid(h, x) = NULL
  PROVE  Down(h, x) \subseteq {x}
<1>1. Sealed(h, {x})
  BY SizeNat DEF Sealed, Follows
<1> QED BY <1>1, DownFacts

\* A reference whose key cannot be copied is forgotten.
LEMMA StillForget ==
  ASSUME NEW h, NEW L, NEW R, NEW K, NEW m, Still(h, L, R, K, m), NEW x \in R, h[x].ref
  PROVE  Still(h, L, R \ {x}, K \union {x}, m)
<1>1. Shape(h, L, R \union K, {}, m)
  BY StillShape, Zenon
<1>2. R \intersect K = {} /\ (\A y \in R \union K : Loose(h, m, y)) /\ (\A y \in K : h[y].ref)
  BY StillLoose, Zenon
<1>3. (R \ {x}) \union (K \union {x}) = R \union K /\ (R \ {x}) \intersect (K \union {x}) = {}
  BY <1>2
<1>4. \A y \in (R \ {x}) \union (K \union {x}) : Loose(h, m, y)
  BY <1>2, <1>3
<1>5. \A y \in K \union {x} : h[y].ref
  BY <1>2
<1>6. Shape(h, L, (R \ {x}) \union (K \union {x}), {}, m)
  BY <1>1, <1>3
<1> QED BY <1>3, <1>4, <1>5, <1>6, StillFrom

\* cJSON_CreateNull and its kin keep the invariant.
LEMMA CreateInv == ASSUME CjsonInv, call = "none", Create PROVE CjsonInv'
<1> DEFINE x == NewItem
<1>1. PICK m : Still(heap, live, roots, leaked, m)
  BY InvStill
<1>2. live \subseteq Items
  BY <1>1, StillLive, Zenon
<1>3. x \in Items \ live
  BY <1>2, RoomIsFree, NewItemFree DEF Create
<1> HIDE DEF x
<1>4. Still(heap, live \union {x}, roots \union {x}, leaked, Housed(m, x, NULL))
  BY <1>1, <1>3, StillNew
<1>5. Still(heap', live', roots', leaked', Housed(m, x, NULL))
  BY <1>4 DEF Create, x
<1> QED BY <1>5, StillInv DEF Create

\* A new reference, before anyone else sees it.
LEMMA NewReference ==
  ASSUME NEW h, NEW L, NEW R, NEW K, NEW m, Still(h, L, R, K, m), NEW x \in Items \ L, NEW v \in 0 .. Size,
         NEW g, g = [h EXCEPT ![x] = [Blank EXCEPT !.child = v, !.ref = TRUE]]
  PROVE  h[x] = Blank /\ Still(g, L \union {x}, R \union {x}, K, Housed(m, x, NULL))
<1> DEFINE m2 == Housed(m, x, NULL)
           S == R \union {x}
           M == L \union {x}
<1>1. Still(h, M, S, K, m2)
  BY StillNew
<1>2. Shape(h, L, R \union K, {}, m)
  BY StillShape, Zenon
<1>3. h[x] = Blank /\ h \in Heaps
  BY <1>2 DEF Shape, Dead, Typed
<1>4. x \in S
  OBVIOUS
<1> HIDE DEF S, M, m2
<1>7. Still(g, M, S, K, m2)
  BY <1>1, <1>3, <1>4, StillReference
<1> QED BY <1>3, <1>7 DEF S, M, m2

\* The fields of a new reference; the other items keep theirs.
LEMMA NewReferenceFields ==
  ASSUME NEW h \in Heaps, NEW x \in Items, NEW v \in 0 .. Size,
         NEW g, g = [h EXCEPT ![x] = [Blank EXCEPT !.child = v, !.ref = TRUE]]
  PROVE  g[x].ref /\ g[x].next = NULL /\ \A y \in Items : y # x => g[y] = h[y]
BY DEF Heaps, Blank

\* cJSON_CreateArrayReference keeps the invariant.
LEMMA CreateReferenceInv == ASSUME CjsonInv, call = "none", CreateReference PROVE CjsonInv'
<1> DEFINE x == NewItem
<1>1. PICK m : Still(heap, live, roots, leaked, m)
  BY InvStill
<1>2. live \subseteq Items /\ heap \in Heaps
  BY <1>1, StillLive, Zenon
<1>3. PICK v \in Held : /\ MayAllocate
                        /\ live' = live \union {NewItem} /\ roots' = roots \union {NewItem}
                        /\ heap' = [heap EXCEPT ![NewItem].child = v, ![NewItem].ref = TRUE]
                        /\ leaked' = leaked /\ idle
  BY DEF CreateReference
<1>4. x \in Items \ live
  BY <1>2, <1>3, RoomIsFree, NewItemFree
<1>5. v \in 0 .. Size
  <2>1. v \in live
    BY <1>1, HeldStill
  <2> QED BY <1>2, <2>1, SizeNat
<1> DEFINE g == [heap EXCEPT ![x] = [Blank EXCEPT !.child = v, !.ref = TRUE]]
<1> HIDE DEF x
<1>6. heap[x] = Blank /\ Still(g, live \union {x}, roots \union {x}, leaked, Housed(m, x, NULL))
  BY <1>1, <1>4, <1>5, NewReference
<1>7. heap' = g
  <2>1. heap' = [heap EXCEPT ![x].child = v, ![x].ref = TRUE]
    BY <1>3 DEF x
  <2>2. heap' = [heap EXCEPT ![x] = [heap[x] EXCEPT !.child = v, !.ref = TRUE]]
    BY <1>2, <1>4, <2>1 DEF Heaps
  <2> QED BY <1>6, <2>2
<1> HIDE DEF g
<1>8. Still(heap', live', roots', leaked', Housed(m, x, NULL))
  BY <1>3, <1>6, <1>7 DEF x
<1> QED BY <1>3, <1>8, StillInv

\* cJSON_AddItemToArray keeps the invariant.
LEMMA AddItemInv == ASSUME CjsonInv, call = "none", AddItem PROVE CjsonInv'
<1>1. PICK m : Still(heap, live, roots, leaked, m)
  BY InvStill
<1>2. PICK p \in Containers, x \in roots : /\ p \notin Tree(heap, x)
                                           /\ heap' = add_item_to_array(heap, p, x)
                                           /\ roots' = roots \ {x}
                                           /\ UNCHANGED <<live, leaked>> /\ idle
  BY DEF AddItem
<1>3. p \in live /\ ~ heap[p].ref /\ p \notin Down(heap, x)
  BY <1>1, <1>2, HeldStill
<1>4. Still(add_item_to_array(heap, p, x), live, roots \ {x}, leaked, Housed(m, x, p))
  BY <1>1, <1>3, StillAdd
<1>5. Still(heap', live', roots', leaked', Housed(m, x, p))
  BY <1>2, <1>4
<1> QED BY <1>2, <1>5, StillInv

\* cJSON_AddNullToObject and its kin keep the invariant.
LEMMA AddNewItemInv == ASSUME CjsonInv, call = "none", AddNewItem PROVE CjsonInv'
<1> DEFINE x == NewItem
<1>1. PICK m : Still(heap, live, roots, leaked, m)
  BY InvStill
<1>2. live \subseteq Items /\ heap \in Heaps /\ roots \subseteq live
  BY <1>1, StillLive, Zenon
<1>3. PICK p \in Containers : /\ MayAllocate
                              /\ live' = live \union {NewItem}
                              /\ heap' = add_item_to_array(heap, p, NewItem)
                              /\ UNCHANGED <<roots, leaked>> /\ idle
  BY DEF AddNewItem
<1>4. x \in Items \ live
  BY <1>2, <1>3, RoomIsFree, NewItemFree
<1>5. p \in live /\ ~ heap[p].ref
  BY <1>1, <1>3, HeldStill
<1>6. heap' = add_item_to_array(heap, p, x) /\ live' = live \union {x}
  BY <1>3
<1> HIDE DEF x
<1>7. Still(heap, live \union {x}, roots \union {x}, leaked, Housed(m, x, NULL))
  BY <1>1, <1>4, StillNew
<1>8. p \notin Down(heap, x)
  <2>1. heap[x] = Blank
    <3>1. Shape(heap, live, roots \union leaked, {}, m)
      BY <1>1, StillShape, Zenon
    <3> QED BY <1>4, <3>1 DEF Shape, Dead
  <2>2. heap[x].next = NULL /\ Kid(heap, x) = NULL
    BY <2>1 DEF Blank, Kid
  <2>3. Down(heap, x) \subseteq {x}
    BY <1>4, <2>2, DownAlone
  <2> QED BY <1>4, <1>5, <2>3
<1>9. p \in live \union {x} /\ x \in roots \union {x} /\ (roots \union {x}) \ {x} = roots
  BY <1>2, <1>4, <1>5
<1>10. Still(add_item_to_array(heap, p, x), live \union {x}, (roots \union {x}) \ {x}, leaked,
             Housed(Housed(m, x, NULL), x, p))
  BY <1>5, <1>7, <1>8, <1>9, StillAdd
<1>11. Still(heap', live', roots', leaked', Housed(Housed(m, x, NULL), x, p))
  BY <1>3, <1>6, <1>9, <1>10
<1> QED BY <1>3, <1>11, StillInv

\* cJSON_AddItemReferenceToArray keeps the invariant.
LEMMA AddItemReferenceInv == ASSUME CjsonInv, call = "none", AddItemReference PROVE CjsonInv'
<1> DEFINE x == NewItem
<1>1. PICK m : Still(heap, live, roots, leaked, m)
  BY InvStill
<1>2. live \subseteq Items /\ heap \in Heaps /\ roots \subseteq live
  BY <1>1, StillLive, Zenon
<1>3. PICK p \in Containers, o \in Held :
         /\ MayAllocate
         /\ live' = live \union {NewItem}
         /\ heap' = add_item_to_array(create_reference(heap, o), p, NewItem)
         /\ UNCHANGED <<roots, leaked>> /\ idle
  BY DEF AddItemReference
<1>4. x \in Items \ live
  BY <1>2, <1>3, RoomIsFree, NewItemFree
<1>5. p \in live /\ ~ heap[p].ref /\ o \in Items
  BY <1>1, <1>2, <1>3, HeldStill
<1> DEFINE v == heap[o].child
<1>6. v \in 0 .. Size
  BY <1>2, <1>5, FieldTypes
<1>7. PICK g : g = create_reference(heap, o)
  OBVIOUS
<1>8. g = [heap EXCEPT ![x] = [Blank EXCEPT !.child = v, !.ref = TRUE]]
  BY <1>7 DEF create_reference
<1>9. heap' = add_item_to_array(g, p, x) /\ live' = live \union {x}
  BY <1>3, <1>7
<1> HIDE DEF x, v
<1>10. Still(g, live \union {x}, roots \union {x}, leaked, Housed(m, x, NULL))
  BY <1>1, <1>4, <1>6, <1>8, NewReference
<1>110. g[x].ref /\ g[x].next = NULL /\ \A y \in Items : y # x => g[y] = heap[y]
  BY <1>2, <1>4, <1>6, <1>8 DEF Heaps, Blank
<1>11. g[x].next = NULL /\ Kid(g, x) = NULL /\ \A y \in Items : y # x => g[y] = heap[y]
  BY <1>110 DEF Kid
<1>12. p \notin Down(g, x) /\ ~ g[p].ref
  <2>1. Down(g, x) \subseteq {x}
    BY <1>4, <1>11, DownAlone
  <2> QED BY <1>2, <1>4, <1>5, <1>11, <2>1
<1>13. p \in live \union {x} /\ x \in roots \union {x} /\ (roots \union {x}) \ {x} = roots
  BY <1>2, <1>4, <1>5
<1>14. Still(add_item_to_array(g, p, x), live \union {x}, (roots \union {x}) \ {x}, leaked,
             Housed(Housed(m, x, NULL), x, p))
  BY <1>10, <1>12, <1>13, StillAdd
<1>15. Still(heap', live', roots', leaked', Housed(Housed(m, x, NULL), x, p))
  BY <1>3, <1>9, <1>13, <1>14
<1> QED BY <1>3, <1>15, StillInv

\* cJSON_AddItemReferenceToObject keeps the invariant when it leaks its reference.
LEMMA AddItemReferenceFailsInv == ASSUME CjsonInv, call = "none", AddItemReferenceFails PROVE CjsonInv'
<1> DEFINE x == NewItem
<1>1. PICK m : Still(heap, live, roots, leaked, m)
  BY InvStill
<1>2. live \subseteq Items /\ heap \in Heaps /\ roots \subseteq live
  BY <1>1, StillLive, Zenon
<1>3. PICK o \in Held :
         /\ MayAllocate
         /\ live' = live \union {NewItem} /\ leaked' = leaked \union {NewItem}
         /\ heap' = create_reference(heap, o)
         /\ UNCHANGED roots /\ idle
  BY DEF AddItemReferenceFails
<1>4. x \in Items \ live
  BY <1>2, <1>3, RoomIsFree, NewItemFree
<1>5. o \in Items
  BY <1>1, <1>2, <1>3, HeldStill
<1> DEFINE v == heap[o].child
<1>6. v \in 0 .. Size
  BY <1>2, <1>5, FieldTypes
<1>7. PICK g : g = create_reference(heap, o)
  OBVIOUS
<1>8. g = [heap EXCEPT ![x] = [Blank EXCEPT !.child = v, !.ref = TRUE]]
  BY <1>7 DEF create_reference
<1>9. heap' = g /\ live' = live \union {x} /\ leaked' = leaked \union {x}
  BY <1>3, <1>7
<1> HIDE DEF x, v
<1>10. Still(g, live \union {x}, roots \union {x}, leaked, Housed(m, x, NULL))
  BY <1>1, <1>4, <1>6, <1>8, NewReference
<1>11. g[x].ref
  BY <1>2, <1>4, <1>6, <1>8, NewReferenceFields
<1>12. x \in roots \union {x} /\ (roots \union {x}) \ {x} = roots
  BY <1>2, <1>4
<1>13. Still(g, live \union {x}, (roots \union {x}) \ {x}, leaked \union {x}, Housed(m, x, NULL))
  BY <1>10, <1>11, <1>12, StillForget
<1>14. Still(heap', live', roots', leaked', Housed(m, x, NULL))
  BY <1>3, <1>9, <1>12, <1>13
<1> QED BY <1>3, <1>14, StillInv

\* cJSON_DetachItemFromArray keeps the invariant.
LEMMA DetachItemInv == ASSUME CjsonInv, call = "none", DetachItem PROVE CjsonInv'
<1>1. PICK m : Still(heap, live, roots, leaked, m)
  BY InvStill
<1>20. PICK p \in Containers : \E x \in ToSet(Children(heap, p)) :
         /\ heap' = DetachItemViaPointer(heap, p, x)
         /\ roots' = roots \union {x}
         /\ UNCHANGED <<live, leaked>> /\ idle
  BY Zenon DEF DetachItem
<1>2. PICK x \in ToSet(Children(heap, p)) :
         /\ heap' = DetachItemViaPointer(heap, p, x)
         /\ roots' = roots \union {x}
         /\ UNCHANGED <<live, leaked>> /\ idle
  BY <1>20, Zenon
<1>3. p \in live /\ ~ heap[p].ref
  BY <1>1, <1>2, HeldStill
<1>4. Still(DetachItemViaPointer(heap, p, x), live, roots \union {x}, leaked, Housed(m, x, NULL))
  BY <1>1, <1>3, StillDetach
<1>5. Still(heap', live', roots', leaked', Housed(m, x, NULL))
  BY <1>2, <1>4
<1> QED BY <1>2, <1>5, StillInv

\* cJSON_DeleteItemFromArray keeps the invariant.
LEMMA DeleteItemInv == ASSUME CjsonInv, call = "none", DeleteItem PROVE CjsonInv'
<1>1. PICK m : Still(heap, live, roots, leaked, m)
  BY InvStill
<1>20. PICK p \in Containers : \E x \in ToSet(Children(heap, p)) :
         LET detached == DetachItemViaPointer(heap, p, x)
             D == Doomed(detached, x)
         IN  /\ heap' = Freed(detached, D) /\ live' = live \ D
             /\ UNCHANGED <<roots, leaked>> /\ idle
  BY Zenon DEF DeleteItem
<1>2. PICK x \in ToSet(Children(heap, p)) :
         LET detached == DetachItemViaPointer(heap, p, x)
             D == Doomed(detached, x)
         IN  /\ heap' = Freed(detached, D) /\ live' = live \ D
             /\ UNCHANGED <<roots, leaked>> /\ idle
  BY <1>20, Zenon
<1>3. p \in live /\ ~ heap[p].ref
  BY <1>1, <1>2, HeldStill
<1>4. PICK g : g = DetachItemViaPointer(heap, p, x)
  OBVIOUS
<1>5. PICK D : D = Doomed(g, x)
  OBVIOUS
<1>6. heap' = Freed(g, D) /\ live' = live \ D /\ roots' = roots /\ leaked' = leaked /\ idle
  BY <1>2, <1>4, <1>5
<1>7. Still(g, live, roots \union {x}, leaked, Housed(m, x, NULL))
  BY <1>1, <1>3, <1>4, StillDetach
<1>8. x \in roots \union {x} /\ (roots \union {x}) \ {x} = roots
  <2>1. x \notin roots
    BY <1>1, <1>3, InList
  <2> QED BY <2>1
<1>9. \E n : Still(Freed(g, D), live \ D, (roots \union {x}) \ {x}, leaked, n)
  BY <1>5, <1>7, <1>8, StillFree
<1>10. PICK n : Still(Freed(g, D), live \ D, (roots \union {x}) \ {x}, leaked, n)
  BY <1>9
<1>11. Still(heap', live', roots', leaked', n)
  BY <1>6, <1>8, <1>10
<1> QED BY <1>6, <1>11, StillInv

\* cJSON_InsertItemInArray keeps the invariant.
LEMMA InsertItemInv == ASSUME CjsonInv, call = "none", InsertItemInArray PROVE CjsonInv'
<1>1. PICK m : Still(heap, live, roots, leaked, m)
  BY InvStill
<1>20. PICK p \in Containers, x \in roots : \E which \in 0 .. Len(Children(heap, p)) :
         /\ p \notin Tree(heap, x)
         /\ heap' = IF which = Len(Children(heap, p)) THEN add_item_to_array(heap, p, x)
                    ELSE InsertBefore(heap, p, Children(heap, p)[which + 1], x)
         /\ roots' = roots \ {x}
         /\ UNCHANGED <<live, leaked>> /\ idle
  BY Zenon DEF InsertItemInArray
<1>2. PICK which \in 0 .. Len(Children(heap, p)) :
         /\ p \notin Tree(heap, x)
         /\ heap' = IF which = Len(Children(heap, p)) THEN add_item_to_array(heap, p, x)
                    ELSE InsertBefore(heap, p, Children(heap, p)[which + 1], x)
         /\ roots' = roots \ {x}
         /\ UNCHANGED <<live, leaked>> /\ idle
  BY <1>20, Zenon
<1>3. p \in live /\ ~ heap[p].ref /\ p \notin Down(heap, x)
  BY <1>1, <1>2, HeldStill
<1>4. CASE which = Len(Children(heap, p))
  <2>1. Still(add_item_to_array(heap, p, x), live, roots \ {x}, leaked, Housed(m, x, p))
    BY <1>1, <1>3, StillAdd
  <2>2. Still(heap', live', roots', leaked', Housed(m, x, p))
    BY <1>2, <1>4, <2>1
  <2> QED BY <1>2, <2>2, StillInv
<1>5. CASE which # Len(Children(heap, p))
  <2> DEFINE s == Children(heap, p)
  <2>1. s \in Seq(Items) /\ Len(s) \in Nat
    <3>1. heap \in Heaps /\ live \subseteq Items
      BY <1>1, StillLive, Zenon
    <3>2. Shape(heap, live, roots \union leaked, {}, m)
      BY <1>1, StillShape, Zenon
    <3>3. Grounded(heap) /\ heap[p].child \in 0 .. Size
      BY <1>3, <3>1, <3>2, FieldTypes DEF Shape
    <3>4. CASE heap[p].child = NULL
      <4>1. s = <<>>
        BY <3>1, <3>4, ChainOfNone DEF Children
      <4> QED BY <4>1
    <3>5. CASE heap[p].child \in Items
      <4>1. IsWalk(heap, heap[p].child, s)
        BY <3>1, <3>3, <3>5, ChainFacts DEF Children
      <4>2. s \in Seq(Items)
        BY <4>1 DEF IsWalk
      <4> QED BY <4>2
    <3> QED BY <3>3, <3>4, <3>5, SizeNat
  <2> HIDE DEF s
  <2>2. which + 1 \in 1 .. Len(s)
    BY <1>5, <2>1 DEF s
  <2>3. PICK a : a = s[which + 1]
    OBVIOUS
  <2>4. a \in ToSet(Children(heap, p))
    BY <2>1, <2>2, <2>3 DEF s, ToSet
  <2>5. Still(InsertBefore(heap, p, a, x), live, roots \ {x}, leaked, Housed(m, x, p))
    BY <1>1, <1>3, <2>4, StillInsert
  <2>6. Still(heap', live', roots', leaked', Housed(m, x, p))
    BY <1>2, <1>5, <2>3, <2>5 DEF s
  <2> QED BY <1>2, <2>6, StillInv
<1> QED BY <1>4, <1>5

\* cJSON_ReplaceItemInArray, which deletes the old item, keeps the invariant.
LEMMA ReplaceItemInv == ASSUME CjsonInv, call = "none", ReplaceItem PROVE CjsonInv'
<1>1. PICK m : Still(heap, live, roots, leaked, m)
  BY InvStill
<1>20. PICK p \in Containers, x \in roots : \E old \in ToSet(Children(heap, p)) :
         LET replaced == ReplaceItemViaPointer(heap, p, old, x)
             D == Doomed(replaced, old)
         IN  /\ p \notin Tree(heap, x)
             /\ heap' = Freed(replaced, D) /\ live' = live \ D
             /\ roots' = roots \ {x}
             /\ UNCHANGED leaked /\ idle
  BY Zenon DEF ReplaceItem
<1>2. PICK old \in ToSet(Children(heap, p)) :
         LET replaced == ReplaceItemViaPointer(heap, p, old, x)
             D == Doomed(replaced, old)
         IN  /\ p \notin Tree(heap, x)
             /\ heap' = Freed(replaced, D) /\ live' = live \ D
             /\ roots' = roots \ {x}
             /\ UNCHANGED leaked /\ idle
  BY <1>20, Zenon
<1>3. p \in live /\ ~ heap[p].ref /\ p \notin Down(heap, x)
  BY <1>1, <1>2, HeldStill
<1>4. PICK g : g = ReplaceItemViaPointer(heap, p, old, x)
  OBVIOUS
<1>5. PICK D : D = Doomed(g, old)
  OBVIOUS
<1>6. heap' = Freed(g, D) /\ live' = live \ D /\ roots' = roots \ {x} /\ leaked' = leaked /\ idle
  BY <1>2, <1>4, <1>5
<1> DEFINE S == (roots \ {x}) \union {old}
<1>7. \E n : Still(g, live, S, leaked, n)
  BY <1>1, <1>3, <1>4, StillReplace
<1>8. old \in S /\ S \ {old} = roots \ {x}
  <2>1. old \notin roots
    BY <1>1, <1>3, InList
  <2> QED BY <2>1
<1> HIDE DEF S
<1>9. PICK n : Still(g, live, S, leaked, n)
  BY <1>7
<1>10. \E k : Still(Freed(g, D), live \ D, S \ {old}, leaked, k)
  BY <1>5, <1>8, <1>9, StillFree
<1>11. PICK k : Still(Freed(g, D), live \ D, S \ {old}, leaked, k)
  BY <1>10
<1>12. Still(heap', live', roots', leaked', k)
  BY <1>6, <1>8, <1>11
<1> QED BY <1>6, <1>12, StillInv

\* cJSON_Delete keeps the invariant.
LEMMA DeleteInv == ASSUME CjsonInv, call = "none", Delete PROVE CjsonInv'
<1>1. PICK m : Still(heap, live, roots, leaked, m)
  BY InvStill
<1>2. PICK x \in roots :
         LET D == Doomed(heap, x)
         IN  /\ heap' = Freed(heap, D) /\ live' = live \ D /\ roots' = roots \ D
             /\ UNCHANGED leaked /\ idle
  BY Zenon DEF Delete
<1>3. PICK D : D = Doomed(heap, x)
  OBVIOUS
<1>4. heap' = Freed(heap, D) /\ live' = live \ D /\ roots' = roots \ D /\ leaked' = leaked /\ idle
  BY <1>2, <1>3
<1>5. \E n : Still(Freed(heap, D), live \ D, roots \ D, leaked, n)
  BY <1>1, <1>3, StillFree
<1>6. PICK n : Still(Freed(heap, D), live \ D, roots \ D, leaked, n)
  BY <1>5
<1>7. Still(heap', live', roots', leaked', n)
  BY <1>4, <1>6
<1> QED BY <1>4, <1>7, StillInv

-----------------------------------------------------------------------------
(* cJSON_CreateIntArray and its kin.                                       *)

\* The least of some items.
LEMMA MinFacts ==
  ASSUME NEW N \in SUBSET Items, N # {}
  PROVE  Min(N) \in N /\ \A j \in N : Min(N) <= j
<1>1. N \in SUBSET Nat
  BY DEF Items
<1>2. \E n \in N : \A i \in N : n <= i
  BY <1>1, Least
<1> QED BY <1>2, Zenon DEF Min

\* The greatest of some items.
LEMMA MaxFacts ==
  ASSUME NEW N \in SUBSET Items, N # {}
  PROVE  Max(N) \in N /\ \A j \in N : Max(N) >= j
<1> DEFINE M == {k \in 0 .. Size : Size - k \in N}
<1>0. Size \in Nat
  BY SizeNat
<1>1. M \in SUBSET Nat
  OBVIOUS
<1>2. \A j \in N : j \in 1 .. Size /\ Size - j \in M
  BY <1>0 DEF Items
<1>3. M # {}
  BY <1>2
<1> HIDE DEF M
<1>4. PICK n \in M : \A i \in M : n <= i
  BY <1>1, <1>3, Least
<1>5. Size - n \in N /\ n \in 0 .. Size
  BY DEF M
<1>6. \A j \in N : Size - n >= j
  BY <1>0, <1>2, <1>4, <1>5
<1>7. \E x \in N : \A y \in N : x >= y
  BY <1>5, <1>6
<1> QED BY <1>7, Zenon DEF Max

\* The numbers of a new array, in the order of their places.
NextOf(N, i) == IF {j \in N : j > i} = {} THEN NULL ELSE Min({j \in N : j > i})
\* The number before i, or the last one.
PrevOf(N, i) == Max(IF {j \in N : j < i} = {} THEN N ELSE {j \in N : j < i})

\* The next one is the least of those after i.
LEMMA NextOfFacts ==
  ASSUME NEW N \in SUBSET Items, NEW i \in N
  PROVE  /\ NextOf(N, i) = NULL => \A j \in N : j <= i
         /\ NextOf(N, i) # NULL => NextOf(N, i) \in N /\ NextOf(N, i) > i /\ \A j \in N : j > i => NextOf(N, i) <= j
<1> DEFINE A == {j \in N : j > i}
<1>1. N \subseteq Nat
  BY DEF Items
<1>2. A \in SUBSET Items
  OBVIOUS
<1>3. NextOf(N, i) = IF A = {} THEN NULL ELSE Min(A)
  BY DEF NextOf
<1>4. CASE A = {}
  BY <1>1, <1>3, <1>4
<1>5. CASE A # {}
  <2> HIDE DEF A
  <2>1. Min(A) \in A /\ \A j \in A : Min(A) <= j
    BY <1>2, <1>5, MinFacts
  <2>2. Min(A) \in N /\ Min(A) > i /\ \A j \in N : j > i => Min(A) <= j
    BY <2>1 DEF A
  <2>3. Min(A) # NULL
    BY <2>2, SizeNat
  <2> QED BY <1>3, <1>5, <2>2, <2>3
<1> QED BY <1>4, <1>5

\* The one before is the greatest of those before i.
LEMMA PrevOfFacts ==
  ASSUME NEW N \in SUBSET Items, NEW i \in N
  PROVE  /\ PrevOf(N, i) \in N
         /\ (\A j \in N : i <= j) => \A j \in N : j <= PrevOf(N, i)
         /\ \A k \in N : k < i => PrevOf(N, i) < i /\ \A j \in N : j < i => j <= PrevOf(N, i)
<1> DEFINE B == {j \in N : j < i}
<1>1. N \subseteq Nat
  BY DEF Items
<1>2. B \in SUBSET Items
  OBVIOUS
<1>3. PrevOf(N, i) = Max(IF B = {} THEN N ELSE B)
  BY DEF PrevOf
<1>4. CASE B = {}
  <2>1. Max(N) \in N /\ \A j \in N : Max(N) >= j
    BY MaxFacts
  <2> QED BY <1>1, <1>3, <1>4, <2>1
<1>5. CASE B # {}
  <2>0. \E k \in N : k < i
    BY <1>5
  <2> HIDE DEF B
  <2>1. Max(B) \in B /\ \A j \in B : Max(B) >= j
    BY <1>2, <1>5, MaxFacts
  <2>2. Max(B) \in N /\ Max(B) < i /\ \A j \in N : j < i => j <= Max(B)
    BY <1>1, <2>1 DEF B
  <2>3. ~ (\A j \in N : i <= j)
    BY <1>1, <2>0
  <2> QED BY <1>3, <1>5, <2>2, <2>3
<1> QED BY <1>4, <1>5

\* Neighbours in the one direction are neighbours in the other.
LEMMA RowFacts ==
  ASSUME NEW N \in SUBSET Items, NEW i \in N
  PROVE  /\ NextOf(N, i) # NULL => PrevOf(N, NextOf(N, i)) = i
         /\ (\E j \in N : j < i) => NextOf(N, PrevOf(N, i)) = i
<1>1. N \subseteq Nat
  BY DEF Items
<1>2. ASSUME NextOf(N, i) # NULL PROVE PrevOf(N, NextOf(N, i)) = i
  <2> DEFINE n == NextOf(N, i)
             q == PrevOf(N, n)
  <2>1. n \in N /\ n > i /\ \A j \in N : j > i => n <= j
    BY <1>2, NextOfFacts
  <2> HIDE DEF n
  <2>2. q \in N /\ q < n /\ \A j \in N : j < n => j <= q
    BY <1>1, <2>1, PrevOfFacts
  <2> HIDE DEF q
  <2>3. q = i
    BY <1>1, <2>1, <2>2
  <2> QED BY <2>3 DEF q, n
<1>3. ASSUME \E j \in N : j < i PROVE NextOf(N, PrevOf(N, i)) = i
  <2> DEFINE q == PrevOf(N, i)
             n == NextOf(N, q)
  <2>1. q \in N /\ q < i /\ \A j \in N : j < i => j <= q
    BY <1>3, PrevOfFacts
  <2> HIDE DEF q
  <2>2. n # NULL
    BY <1>1, <2>1, NextOfFacts
  <2>3. n \in N /\ n > q /\ \A j \in N : j > q => n <= j
    BY <2>1, <2>2, NextOfFacts
  <2> HIDE DEF n
  <2>4. n = i
    BY <1>1, <2>1, <2>3
  <2> QED BY <2>4 DEF q, n
<1> QED BY <1>2, <1>3

\* An array a of numbers N, all new.
RowHeap(h, a, N) == [i \in Items |->
    IF i = a THEN [Blank EXCEPT !.child = Min(N)]
    ELSE IF i \notin N THEN h[i]
    ELSE [Blank EXCEPT !.next = NextOf(N, i), !.prev = PrevOf(N, i)]]

\* A new array a with the numbers N in its list is sound.
LEMMA StillRow ==
  ASSUME NEW h, NEW L, NEW R, NEW K, NEW m, Still(h, L, R, K, m),
         NEW a \in Items \ L, NEW N \in SUBSET (Items \ L), N # {}, a \notin N
  PROVE  Still(RowHeap(h, a, N), L \union {a} \union N, R \union {a}, K,
               [i \in Items |-> IF i \in N THEN a ELSE m[i]])
<1> DEFINE g == RowHeap(h, a, N)
           M == L \union {a} \union N
           S == R \union {a}
           T == R \union K
           U == S \union K
           n == [i \in Items |-> IF i \in N THEN a ELSE m[i]]
           c == Min(N)
<1>000. R \intersect K = {} /\ (\A y \in R \union K : Loose(h, m, y)) /\ (\A y \in K : h[y].ref)
  BY StillLoose, Zenon
<1>0. Shape(h, L, T, {}, m)
  BY StillShape, Zenon
<1>1. /\ h \in Heaps /\ L \subseteq Items /\ T \subseteq L /\ m \in [Items -> 0 .. Size]
      /\ N \in SUBSET Items /\ a \in Items /\ a # NULL /\ NULL \notin N /\ NULL \in 0 .. Size
  BY <1>0, SizeNat DEF Shape, Typed
<1>2. c \in N /\ c \in Items /\ c # NULL /\ \A j \in N : c <= j
  BY <1>1, MinFacts
<1>3. \A i \in N : /\ NextOf(N, i) \in 0 .. Size /\ PrevOf(N, i) \in 0 .. Size
                   /\ PrevOf(N, i) \in N /\ (NextOf(N, i) # NULL => NextOf(N, i) \in N)
  BY <1>1, NextOfFacts, PrevOfFacts, SizeNat
<1>4. /\ \A i \in N : g[i].next = NextOf(N, i) /\ g[i].prev = PrevOf(N, i) /\ g[i].child = NULL /\ ~ g[i].ref
      /\ g[a].next = NULL /\ g[a].prev = NULL /\ g[a].child = c /\ ~ g[a].ref
      /\ \A i \in Items : i # a /\ i \notin N => g[i] = h[i]
  BY <1>1 DEF RowHeap, Blank
<1>5. g \in Heaps
  <2> SUFFICES ASSUME NEW i \in Items
               PROVE  g[i] \in [next : 0 .. Size, prev : 0 .. Size, child : 0 .. Size, ref : BOOLEAN]
    BY DEF Heaps, RowHeap
  <2>1. CASE i = a
    <3>1. g[i] = [Blank EXCEPT !.child = c]
      BY <2>1 DEF RowHeap
    <3> QED BY <1>1, <1>2, <3>1, SizeNat DEF Blank
  <2>2. CASE i # a /\ i \in N
    <3>1. g[i] = [Blank EXCEPT !.next = NextOf(N, i), !.prev = PrevOf(N, i)]
      BY <2>2 DEF RowHeap
    <3> QED BY <1>1, <1>3, <2>2, <3>1 DEF Blank
  <2>3. CASE i # a /\ i \notin N
    BY <1>1, <1>4, <2>3 DEF Heaps
  <2> QED BY <2>1, <2>2, <2>3
<1>6. n \in [Items -> 0 .. Size] /\ \A i \in Items : n[i] = IF i \in N THEN a ELSE m[i]
  BY <1>1, SizeNat
<1>7. /\ \A x \in Items \ L : h[x] = Blank /\ m[x] = NULL
      /\ \A x, y \in Items : Follows(h, x, y) => x \in L /\ y \in L /\ y \notin T
  BY <1>0 DEF Shape, Dead, Inside
<1> HIDE DEF g, n, c
<1>8. /\ Kid(g, a) = c /\ \A i \in N : Kid(g, i) = NULL
      /\ \A i \in Items : i # a /\ i \notin N => Kid(g, i) = Kid(h, i)
  BY <1>4 DEF Kid
<1>9. ASSUME NEW x \in Items, NEW y \in Items
      PROVE  Follows(g, x, y) <=> (Follows(h, x, y) \/ (x = a /\ y = c) \/ (x \in N /\ y = NextOf(N, x)))
  <2>1. CASE x = a
    <3>1. ~ Follows(h, x, y)
      BY <1>7, <2>1
    <3>2. Follows(g, x, y) <=> y = c
      BY <1>4, <1>8, <2>1, SizeNat DEF Follows
    <3> QED BY <2>1, <3>1, <3>2
  <2>2. CASE x \in N
    <3>1. ~ Follows(h, x, y)
      BY <1>7, <2>2
    <3>2. Follows(g, x, y) <=> y = NextOf(N, x)
      BY <1>4, <1>8, <2>2, SizeNat DEF Follows
    <3> QED BY <2>2, <3>1, <3>2
  <2>3. CASE x # a /\ x \notin N
    BY <1>4, <1>8, <2>3 DEF Follows
  <2> QED BY <2>1, <2>2, <2>3
<1>10. Typed(g, M, U, n)
  BY <1>1, <1>5, <1>6 DEF Typed
<1>11. Grounded(g)
  <2> SUFFICES ASSUME NEW Z \in SUBSET Items, \A y \in Z : \E x \in Z : Follows(g, x, y) PROVE Z = {}
    BY DEF Grounded
  <2>1. a \notin Z
    <3> SUFFICES ASSUME a \in Z PROVE FALSE
      OBVIOUS
    <3>1. PICK x \in Z : Follows(g, x, a)
      OBVIOUS
    <3>2. x \in Items
      OBVIOUS
    <3>3. ~ Follows(h, x, a) /\ a # c /\ (x \in N => a # NextOf(N, x))
      BY <1>1, <1>2, <1>3, <1>7, <3>2
    <3> QED BY <1>1, <1>9, <3>1, <3>2, <3>3
  <2>2. Z \intersect N = {}
    <3> SUFFICES ASSUME Z \intersect N # {} PROVE FALSE
      OBVIOUS
    <3>1. Z \intersect N \in SUBSET Nat
      BY DEF Items
    <3>2. PICK y \in Z \intersect N : \A i \in Z \intersect N : y <= i
      BY <3>1, Least
    <3>3. PICK x \in Z : Follows(g, x, y)
      OBVIOUS
    <3>4. x \in Items /\ y \in Items /\ ~ Follows(h, x, y) /\ x # a
      BY <1>1, <1>7, <2>1
    <3>5. x \in N /\ y = NextOf(N, x)
      BY <1>9, <3>3, <3>4
    <3>6. y > x
      BY <1>1, <3>4, <3>5, NextOfFacts, SizeNat
    <3>7. x \in Nat /\ y \in Nat /\ y <= x
      BY <3>1, <3>2, <3>5
    <3> QED BY <3>6, <3>7
  <2>3. \A y \in Z : \E x \in Z : Follows(h, x, y)
    BY <1>9, <2>1, <2>2
  <2> QED BY <1>0, <2>3, Zenon DEF Shape, Grounded
<1>12. Dead(g, M, n)
  BY <1>4, <1>6, <1>7 DEF Dead
<1>13. Inside(g, M, U)
  <2> SUFFICES ASSUME NEW x \in Items, NEW y \in Items, Follows(g, x, y) PROVE x \in M /\ y \in M \ U
    BY DEF Inside
  <2>1. CASE Follows(h, x, y)
    BY <1>7, <2>1
  <2>2. CASE x = a /\ y = c
    BY <1>1, <1>2, <2>2
  <2>3. CASE x \in N /\ y = NextOf(N, x)
    <3>1. y # NULL
      BY SizeNat
    <3>2. y \in N
      BY <1>3, <2>3, <3>1
    <3> QED BY <1>1, <2>3, <3>2
  <2> QED BY <1>9, <2>1, <2>2, <2>3
<1>14. Reached(g, M, U)
  <2> SUFFICES ASSUME NEW y \in M \ U PROVE \E x \in M : Follows(g, x, y)
    BY DEF Reached
  <2>0. y \in Items
    BY <1>1
  <2>1. CASE y \in L
    <3>1. PICK x \in L : Follows(h, x, y)
      BY <1>0, <2>1 DEF Shape, Reached
    <3> QED BY <1>1, <1>9, <2>0, <3>1
  <2>2. CASE y \in N /\ y = c
    BY <1>1, <1>9, <2>0, <2>2
  <2>3. CASE y \in N /\ y # c
    <3>1. \E j \in N : j < y
      BY <1>1, <1>2, <2>3 DEF Items
    <3>2. NextOf(N, PrevOf(N, y)) = y /\ PrevOf(N, y) \in N /\ PrevOf(N, y) \in Items
      BY <1>1, <1>3, <2>3, <3>1, RowFacts
    <3>3. Follows(g, PrevOf(N, y), y)
      BY <1>9, <2>0, <3>2
    <3> QED BY <3>2, <3>3
  <2> QED BY <2>1, <2>2, <2>3
<1>15. NextBack(g, n)
  <2> SUFFICES ASSUME NEW x \in Items, NEW y \in Items, g[x].next = y PROVE g[y].prev = x /\ n[y] = n[x]
    BY DEF NextBack
  <2>1. CASE x = a
    BY <1>4, <2>1, SizeNat
  <2>2. CASE x \in N
    <3>1. y = NextOf(N, x) /\ y # NULL /\ y \in N
      BY <1>3, <1>4, <2>2, SizeNat
    <3>2. PrevOf(N, y) = x
      BY <1>1, <2>2, <3>1, RowFacts
    <3> QED BY <1>4, <1>6, <2>2, <3>1, <3>2
  <2>3. CASE x # a /\ x \notin N
    <3>1. h[x].next = y
      BY <1>4, <2>3
    <3>2. y \in L /\ x \in L
      BY <1>7, <3>1 DEF Follows
    <3>3. h[y].prev = x /\ m[y] = m[x]
      BY <1>0, <3>1 DEF Shape, NextBack
    <3> QED BY <1>4, <1>6, <3>2, <3>3
  <2> QED BY <2>1, <2>2, <2>3
<1>16. KidHome(g, n)
  <2> SUFFICES ASSUME NEW x \in Items, NEW k \in Items, Kid(g, x) = k
               PROVE  n[k] = x /\ \A w \in Items : g[w].next # k
    BY DEF KidHome
  <2>1. CASE x = a
    <3>1. k = c
      BY <1>8, <2>1
    <3>2. ASSUME NEW w \in Items, g[w].next = k PROVE FALSE
      <4>1. Follows(g, w, k)
        BY <3>2 DEF Follows
      <4>2. ~ Follows(h, w, k)
        BY <1>2, <1>7, <3>1
      <4>3. w # a
        BY <1>4, <3>2, SizeNat
      <4>4. w \in N /\ k = NextOf(N, w)
        BY <1>9, <4>1, <4>2, <4>3
      <4>5. k > w /\ k <= w /\ k \in Nat /\ w \in Nat
        BY <1>1, <1>2, <3>1, <4>4, NextOfFacts DEF Items
      <4> QED BY <4>5
    <3> QED BY <1>2, <1>6, <2>1, <3>1, <3>2
  <2>2. CASE x \in N
    BY <1>8, <2>2, SizeNat
  <2>3. CASE x # a /\ x \notin N
    <3>1. Kid(h, x) = k
      BY <1>8, <2>3
    <3>2. k \in L
      BY <1>7, <3>1 DEF Follows
    <3>3. m[k] = x /\ \A w \in Items : h[w].next # k
      BY <1>0, <3>1 DEF Shape, KidHome
    <3>4. ASSUME NEW w \in Items, g[w].next = k PROVE FALSE
      <4>1. CASE w = a
        BY <1>4, <3>4, <4>1, SizeNat
      <4>2. CASE w \in N
        BY <1>1, <1>3, <1>4, <3>2, <3>4, <4>2, SizeNat
      <4>3. CASE w # a /\ w \notin N
        BY <1>4, <3>3, <3>4, <4>3
      <4> QED BY <4>1, <4>2, <4>3
    <3> QED BY <1>6, <3>2, <3>3, <3>4
  <2> QED BY <2>1, <2>2, <2>3
<1>17. Rings(g, {}, n)
  <2> SUFFICES ASSUME NEW x \in Items, NEW k \in Items, Kid(g, x) = k PROVE IsLast(g, n, x, g[k].prev)
    BY DEF Rings
  <2>1. CASE x = a
    <3>1. k = c
      BY <1>8, <2>1
    <3> DEFINE z == PrevOf(N, c)
    <3>2. z \in N /\ \A j \in N : j <= z
      BY <1>1, <1>2, PrevOfFacts
    <3>3. g[k].prev = z
      BY <1>2, <1>4, <3>1
    <3> HIDE DEF z
    <3>4. NextOf(N, z) = NULL
      <4> SUFFICES ASSUME NextOf(N, z) # NULL PROVE FALSE
        OBVIOUS
      <4>1. NextOf(N, z) \in N /\ NextOf(N, z) > z
        BY <1>1, <3>2, NextOfFacts
      <4>2. NextOf(N, z) <= z
        BY <3>2, <4>1
      <4>3. z \in Nat /\ NextOf(N, z) \in Nat
        <5>1. N \subseteq Nat
          BY DEF Items
        <5> QED BY <3>2, <4>1, <5>1
      <4> QED BY <4>1, <4>2, <4>3
    <3> QED BY <1>1, <1>4, <1>6, <2>1, <3>2, <3>3, <3>4 DEF IsLast
  <2>2. CASE x \in N
    BY <1>8, <2>2, SizeNat
  <2>3. CASE x # a /\ x \notin N
    <3>1. Kid(h, x) = k
      BY <1>8, <2>3
    <3>2. k \in L /\ g[k] = h[k]
      BY <1>4, <1>7, <3>1 DEF Follows
    <3>3. IsLast(h, m, x, h[k].prev)
      BY <1>0, <3>1 DEF Shape, Rings
    <3>4. PICK z : z = h[k].prev
      OBVIOUS
    <3>5. z \in Items /\ h[z].next = NULL /\ m[z] = x /\ x # NULL
      BY <3>3, <3>4, SizeNat DEF IsLast
    <3>6. z \in L
      BY <1>7, <3>5
    <3>7. g[z] = h[z] /\ n[z] = x
      BY <1>4, <1>6, <3>5, <3>6
    <3> QED BY <3>2, <3>4, <3>5, <3>7 DEF IsLast
  <2> QED BY <2>1, <2>2, <2>3
<1>18. \A y \in U : Loose(g, n, y)
  <2>1. Loose(g, n, a)
    BY <1>1, <1>4, <1>6, <1>7 DEF Loose
  <2>2. ASSUME NEW y \in T PROVE Loose(g, n, y)
    <3>1. y \in L /\ Loose(h, m, y)
      BY <1>000, <1>1
    <3> QED BY <1>1, <1>4, <1>6, <3>1 DEF Loose
  <2> QED BY <2>1, <2>2
<1>19. TopsFree(g, U, n)
  BY <1>18 DEF TopsFree, Loose
<1>20. Shape(g, M, U, {}, n)
  BY <1>10, <1>11, <1>12, <1>13, <1>14, <1>15, <1>16, <1>17, <1>19 DEF Shape
<1>21. S \intersect K = {} /\ \A y \in K : g[y].ref
  BY <1>000, <1>1, <1>4
<1> HIDE DEF S, M
<1>22. Still(g, M, S, K, n)
  BY <1>18, <1>20, <1>21, StillFrom
<1> QED BY <1>22 DEF g, n, M, S

\* cJSON_CreateIntArray and its kin keep the invariant.
LEMMA CreateArrayOfInv == ASSUME CjsonInv, call = "none", CreateArrayOf PROVE CjsonInv'
<1>1. PICK m : Still(heap, live, roots, leaked, m)
  BY InvStill
<1>2. live \subseteq Items /\ heap \in Heaps /\ roots \subseteq live
  BY <1>1, StillLive, Zenon
<1>3. PICK taken \in SUBSET Free :
         LET a == Min(taken)
             N == taken \ {a}
         IN  /\ Cardinality(taken) \in 2 .. EditRoom - Cardinality(live)
             /\ live' = live \union taken /\ roots' = roots \union {a}
             /\ heap' = RowHeap(heap, a, N)
             /\ UNCHANGED leaked /\ idle
  BY Zenon DEF CreateArrayOf, RowHeap, NextOf, PrevOf
<1>4. taken \in SUBSET Items /\ taken \intersect live = {}
  BY DEF Free
<1>5. Cardinality(taken) >= 2
  BY <1>3
<1>6. taken # {} /\ \A x : taken # {x}
  <2>1. Cardinality({}) = 0
    BY FS_EmptySet
  <2>2. \A x : Cardinality({x}) = 1
    BY FS_Singleton
  <2>3. taken # {}
    BY <1>5, <2>1
  <2>4. ASSUME NEW x, taken = {x} PROVE FALSE
    <3>1. Cardinality(taken) = 1
      BY <2>2, <2>4, Zenon
    <3> QED BY <1>5, <3>1
  <2> QED BY <2>3, <2>4
<1>7. PICK a : a = Min(taken)
  OBVIOUS
<1>8. a \in taken
  BY <1>4, <1>6, <1>7, MinFacts
<1>9. PICK N : N = taken \ {a}
  OBVIOUS
<1>10. N # {} /\ a \notin N /\ a \in Items \ live /\ N \in SUBSET (Items \ live)
  BY <1>4, <1>6, <1>8, <1>9
<1>11. /\ live' = live \union {a} \union N /\ roots' = roots \union {a}
       /\ heap' = RowHeap(heap, a, N) /\ leaked' = leaked /\ idle
  BY <1>3, <1>7, <1>8, <1>9
<1>12. Still(RowHeap(heap, a, N), live \union {a} \union N, roots \union {a}, leaked,
             [i \in Items |-> IF i \in N THEN a ELSE m[i]])
  BY <1>1, <1>10, StillRow
<1>13. Still(heap', live', roots', leaked', [i \in Items |-> IF i \in N THEN a ELSE m[i]])
  BY <1>11, <1>12
<1> QED BY <1>11, <1>13, StillInv

-----------------------------------------------------------------------------
(* Parsing.                                                                *)

\* Items without children have no rings to close.
LEMMA ShapeNoRings ==
  ASSUME NEW h, NEW L, NEW T, NEW O, NEW m, Shape(h, L, T, O, m), \A x \in O : Kid(h, x) = NULL
  PROVE  Shape(h, L, T, {}, m)
<1>1. Rings(h, {}, m)
  <2> SUFFICES ASSUME NEW x \in Items, NEW c \in Items, Kid(h, x) = c PROVE IsLast(h, m, x, h[c].prev)
    BY DEF Rings
  <2>1. x \notin O
    BY SizeNat
  <2> QED BY <2>1 DEF Shape, Rings
<1> QED BY <1>1 DEF Shape

\* More pointers, more to delete.
LEMMA DownGrows ==
  ASSUME NEW h, NEW g, NEW a \in Items, \A x, y \in Items : Follows(h, x, y) => Follows(g, x, y)
  PROVE  Down(h, a) \subseteq Down(g, a)
<1>1. Sealed(g, Down(g, a)) /\ a \in Down(g, a) /\ Down(g, a) \subseteq Items
  BY DownFacts
<1>2. Sealed(h, Down(g, a))
  BY <1>1, Zenon DEF Sealed
<1>3. Down(g, a) \in SUBSET Items
  BY <1>1
<1> QED BY <1>1, <1>2, <1>3, DownFacts

\* What deletions of C reach.
Reach(h, C) == UNION {Down(h, t) : t \in C}

\* A call that fails deletes what it owns.
LEMMA FreeCall ==
  ASSUME NEW h, NEW L, NEW R, NEW K, NEW C, NEW O, NEW m, Base(h, L, R, K, C, O, m), O \subseteq C,
         NEW D, D = Reach(h, C)
  PROVE  \E n : Still(Freed(h, D), L \ D, R, K, n)
<1> DEFINE T == R \union K \union C
           n == [y \in Items |-> IF y \in D THEN NULL ELSE m[y]]
           g == Freed(h, D)
<1>0. Shape(h, L, T, O, m)
  BY DEF Base
<1>1. /\ R \intersect K = {} /\ (R \union K) \intersect C = {}
      /\ \A x \in R \union K : Loose(h, m, x)
      /\ \A x \in K : h[x].ref
  BY DEF Base
<1>2. L \subseteq Items /\ T \subseteq L
  BY <1>0 DEF Shape, Typed
<1>22. D = UNION {Down(h, t) : t \in C}
  BY DEF Reach
<1>3. Span(h, T, D)
  <2>1. \A t \in C : Span(h, T, Down(h, t))
    BY <1>2, DownSpan
  <2> HIDE DEF T
  <2> QED BY <1>22, <2>1, SpansJoin
<1>4. Shape(g, L \ D, T \ D, O, n)
  <2> HIDE DEF T
  <2> QED BY <1>0, <1>3, ShapeFree
<1>5. \A t \in C : t \in D
  BY <1>2, <1>22, DownFacts
<1>6. ASSUME NEW t \in R \union K PROVE t \notin D
  <2> SUFFICES ASSUME NEW u \in C, t \in Down(h, u) PROVE FALSE
    BY <1>22
  <2>1. t \in T /\ u \in T /\ t # u /\ t \in Items
    BY <1>1, <1>2
  <2> HIDE DEF T
  <2>2. Down(h, t) \intersect Down(h, u) = {}
    BY <1>0, <2>1, DownApart
  <2>3. t \in Down(h, t)
    BY <2>1, DownFacts
  <2> QED BY <2>2, <2>3
<1>7. T \ D = R \union K
  BY <1>5, <1>6
<1>8. \A x \in O : Kid(g, x) = NULL
  <2> SUFFICES ASSUME NEW x \in O PROVE Kid(g, x) = NULL
    OBVIOUS
  <2>1. x \in D /\ x \in Items
    BY <1>2, <1>5
  <2>2. g[x] = Blank
    BY <2>1 DEF Freed
  <2> QED BY <2>2 DEF Kid, Blank
<1>9. Shape(g, L \ D, R \union K, O, n)
  BY <1>4, <1>7
<1>10. \A y \in R \union K : g[y] = h[y] /\ n[y] = m[y]
  BY <1>2, <1>6 DEF Freed
<1> HIDE DEF g, n
<1>11. Shape(g, L \ D, R \union K, {}, n)
  BY <1>8, <1>9, ShapeNoRings
<1>12. (\A y \in R \union K : Loose(g, n, y)) /\ \A y \in K : g[y].ref
  BY <1>1, <1>10 DEF Loose
<1>13. Still(g, L \ D, R, K, n)
  BY <1>1, <1>11, <1>12, StillFrom
<1> QED BY <1>13 DEF g

\* A call that returns leaves a heap no call works on.
LEMMA ReturnInv ==
  ASSUME Return, NEW m, Still(heap', live', roots', leaked', m)
  PROVE  CjsonInv'
<1>1. call' = "none" /\ frames' = <<>> /\ value' = NULL /\ origin' = NULL
  BY DEF Return
<1>2. CallTyped'
  BY <1>1, SizeNat DEF CallTyped
<1>3. Base(heap', live', roots', leaked', CallTops(call', frames'), OpenTops(call', frames'), m)
  BY <1>1, IdleTops DEF Still
<1>4. m \in [Items -> 0 .. Size]
  BY <1>3 DEF Base, Shape, Typed
<1>5. Sound(heap', live', roots', leaked', call', frames', value', m)
  BY <1>1, <1>3 DEF Sound
<1> QED BY <1>2, <1>4, <1>5, Zenon DEF CjsonInv

\* The tops of the running call.
ParseTops(f) == {f[1].item} \union {f[i].head : i \in 2 .. Len(f)}
\* The items cJSON_Duplicate owns.
CopyTops(f) == {f[i].item : i \in 1 .. Len(f)}

\* These are the items of the call in progress.
LEMMA TopsAre == \A f : /\ CallTops("parse", f) = ParseTops(f) /\ OpenTops("parse", f) = {}
                        /\ CallTops("duplicate", f) = CopyTops(f) /\ OpenTops("duplicate", f) = CopyTops(f)
  BY DEF CallTops, OpenTops, ParseTops, CopyTops

\* The invariant while parsing,
LEMMA InvParse ==
  ASSUME CjsonInv, call = "parse"
  PROVE  /\ CallTyped
         /\ \E m : Base(heap, live, roots, leaked, ParseTops(frames), {}, m) /\ ParseInv(heap, live, m, frames, value)
<1>1. CallTyped /\ \E m : Sound(heap, live, roots, leaked, call, frames, value, m)
  BY Zenon DEF CjsonInv
<1>2. PICK m : Sound(heap, live, roots, leaked, call, frames, value, m)
  BY <1>1
<1>3. Base(heap, live, roots, leaked, ParseTops(frames), {}, m) /\ ParseInv(heap, live, m, frames, value)
  BY <1>2, TopsAre DEF Sound
<1> QED BY <1>1, <1>3

\* and while copying;
LEMMA InvCopy ==
  ASSUME CjsonInv, call = "duplicate"
  PROVE  /\ CallTyped
         /\ \E m : /\ Base(heap, live, roots, leaked, CopyTops(frames), CopyTops(frames), m)
                   /\ DupInv(heap, live, m, frames)
<1>1. CallTyped /\ \E m : Sound(heap, live, roots, leaked, call, frames, value, m)
  BY Zenon DEF CjsonInv
<1>2. PICK m : Sound(heap, live, roots, leaked, call, frames, value, m)
  BY <1>1
<1>3. /\ Base(heap, live, roots, leaked, CopyTops(frames), CopyTops(frames), m)
      /\ DupInv(heap, live, m, frames)
  BY <1>2, TopsAre DEF Sound
<1> QED BY <1>1, <1>3

\* the next state while parsing,
LEMMA ParseInvNext ==
  ASSUME CallTyped', call' = "parse", NEW m,
         Base(heap', live', roots', leaked', ParseTops(frames'), {}, m), ParseInv(heap', live', m, frames', value')
  PROVE  CjsonInv'
<1>1. Sound(heap', live', roots', leaked', call', frames', value', m)
  BY TopsAre DEF Sound
<1>2. m \in [Items -> 0 .. Size]
  BY DEF Base, Shape, Typed
<1> QED BY <1>1, <1>2, Zenon DEF CjsonInv

\* and while copying.
LEMMA CopyInvNext ==
  ASSUME CallTyped', call' = "duplicate", NEW m,
         Base(heap', live', roots', leaked', CopyTops(frames'), CopyTops(frames'), m), DupInv(heap', live', m, frames')
  PROVE  CjsonInv'
<1>1. Sound(heap', live', roots', leaked', call', frames', value', m)
  BY TopsAre DEF Sound
<1>2. m \in [Items -> 0 .. Size]
  BY DEF Base, Shape, Typed
<1> QED BY <1>1, <1>2, Zenon DEF CjsonInv

\* A new item of the call in progress.
LEMMA BaseNew ==
  ASSUME NEW h, NEW L, NEW R, NEW K, NEW C, NEW O, NEW m, Base(h, L, R, K, C, O, m), NEW x \in Items \ L,
         NEW v \in 0 .. Size, v = NULL \/ Kid(h, v) = NULL
  PROVE  /\ Base(h, L \union {x}, R, K, C \union {x}, O, Housed(m, x, v))
         /\ Base(h, L \union {x}, R, K, C \union {x}, O \union {x}, Housed(m, x, v))
<1> DEFINE T == R \union K \union C
           n == Housed(m, x, v)
<1>0. Shape(h, L, T, O, m)
  BY DEF Base
<1>1. /\ R \intersect K = {} /\ (R \union K) \intersect C = {}
      /\ \A y \in R \union K : Loose(h, m, y)
      /\ \A y \in K : h[y].ref
  BY DEF Base
<1>2. L \subseteq Items /\ T \subseteq L /\ m \in [Items -> 0 .. Size]
  BY <1>0 DEF Shape, Typed
<1>3. Shape(h, L \union {x}, T \union {x}, O, n)
  <2> HIDE DEF T
  <2> QED BY <1>0, ShapeNew DEF Housed
<1>4. T \union {x} = R \union K \union (C \union {x}) /\ (R \union K) \intersect (C \union {x}) = {}
  BY <1>1, <1>2
<1>5. \A y \in R \union K : n[y] = m[y]
  BY <1>2 DEF Housed
<1> HIDE DEF n
<1>6. \A y \in R \union K : Loose(h, n, y)
  BY <1>1, <1>5 DEF Loose
<1>7. Shape(h, L \union {x}, R \union K \union (C \union {x}), O, n)
  BY <1>3, <1>4
<1>8. Shape(h, L \union {x}, R \union K \union (C \union {x}), O \union {x}, n)
  <2> DEFINE U == R \union K \union (C \union {x})
             M == L \union {x}
             P == O \union {x}
  <2>1. O \subseteq P /\ Shape(h, M, U, O, n)
    BY <1>7
  <2> HIDE DEF U, M, P
  <2>2. Shape(h, M, U, P, n)
    BY <2>1, ShapeOpen
  <2> QED BY <2>2 DEF U, M, P
<1> QED BY <1>1, <1>4, <1>6, <1>7, <1>8 DEF Base, n

\* All owners own live items, and free items are blank.
LEMMA BaseLive ==
  ASSUME NEW h, NEW L, NEW R, NEW K, NEW C, NEW O, NEW m, Base(h, L, R, K, C, O, m)
  PROVE  /\ h \in Heaps /\ L \subseteq Items /\ R \subseteq L /\ K \subseteq L /\ C \subseteq L
         /\ m \in [Items -> 0 .. Size]
         /\ \A x \in Items \ L : h[x] = Blank /\ m[x] = NULL
<1>1. Shape(h, L, R \union K \union C, O, m)
  BY DEF Base
<1> QED BY <1>1 DEF Shape, Typed, Dead

\* The fields of a new frame.
LEMMA FreshFrame ==
  ASSUME NEW x \in Items
  PROVE  Fresh(x) \in Frame /\ Fresh(x).item = x /\ Fresh(x).head = NULL /\ Fresh(x).last = NULL /\ Fresh(x).src = NULL
  BY DEF Fresh, Frame

\* cJSON_Parse, called, keeps the invariant.
LEMMA ParseCallInv == ASSUME CjsonInv, Parse PROVE CjsonInv'
<1> DEFINE x == NewItem
<1>0. call = "none" /\ Free # {}
  BY DEF Parse
<1>1. PICK m : Still(heap, live, roots, leaked, m)
  BY <1>0, InvStill
<1>2. Base(heap, live, roots, leaked, {}, {}, m)
  BY <1>1 DEF Still
<1>3. x \in Items \ live
  BY <1>0, NewItemFree
<1>4. /\ live' = live \union {x} /\ call' = "parse" /\ frames' = <<Fresh(x)>> /\ value' = x
      /\ heap' = heap /\ roots' = roots /\ leaked' = leaked /\ origin' = origin
  BY DEF Parse
<1> HIDE DEF x
<1> DEFINE n == Housed(m, x, NULL)
<1>5. Base(heap, live \union {x}, roots, leaked, {} \union {x}, {}, n)
  BY <1>2, <1>3, SizeNat, BaseNew
<1>6. /\ frames' \in Seq(Frame) /\ Len(frames') = 1 /\ frames'[1].item = x
      /\ frames'[1].head = NULL
  BY <1>3, <1>4, FreshFrame
<1>7. CallTyped'
  <2>1. value' \in Items \union {NULL} /\ origin' \in Items \union {NULL}
    BY <1>3, <1>4 DEF CjsonInv, CallTyped
  <2>2. Len(frames') <= NestingLimit + 1
    BY <1>6, CjsonAssumption
  <2> QED BY <1>4, <1>6, <2>1, <2>2 DEF CallTyped
<1>8. ParseTops(frames') = {} \union {x}
  BY <1>6 DEF ParseTops
<1>9. Base(heap', live', roots', leaked', ParseTops(frames'), {}, n)
  BY <1>4, <1>5, <1>8
<1>10. heap[x] = Blank
  BY <1>2, <1>3, BaseLive
<1>11. n[x] = NULL
  <2>1. m \in [Items -> 0 .. Size]
    BY <1>2 DEF Base, Shape, Typed
  <2> QED BY <1>3, <2>1 DEF Housed
<1> HIDE DEF n
<1>12. Loose(heap, n, x) /\ ~ heap[x].ref /\ heap[x].child = NULL
  BY <1>10, <1>11 DEF Loose, Blank
<1>13. ParseInv(heap', live', n, frames', value')
  BY <1>4, <1>6, <1>12 DEF ParseInv
<1> QED BY <1>4, <1>7, <1>9, <1>13, ParseInvNext

\* parse_value keeps the invariant when the value is a scalar.
LEMMA ParseScalarInv == ASSUME CjsonInv, ParseScalar PROVE CjsonInv'
<1>0. call = "parse" /\ value' = NULL /\ UNCHANGED <<heap, live, roots, leaked, call, frames, origin>>
  BY DEF ParseScalar
<1>1. CallTyped /\ \E m : /\ Base(heap, live, roots, leaked, ParseTops(frames), {}, m)
                          /\ ParseInv(heap, live, m, frames, value)
  BY <1>0, InvParse
<1>2. PICK m : /\ Base(heap, live, roots, leaked, ParseTops(frames), {}, m)
               /\ ParseInv(heap, live, m, frames, value)
  BY <1>1
<1>3. CallTyped'
  BY <1>0, <1>1 DEF CallTyped
<1>4. Base(heap', live', roots', leaked', ParseTops(frames'), {}, m)
  BY <1>0, <1>2
<1>5. ParseInv(heap', live', m, frames', value')
  BY <1>0, <1>2 DEF ParseInv
<1> QED BY <1>0, <1>3, <1>4, <1>5, ParseInvNext

\* cJSON_Parse keeps the invariant when it returns the item.
LEMMA ParseDoneInv == ASSUME CjsonInv, ParseDone PROVE CjsonInv'
<1> DEFINE x == frames[1].item
<1>0. /\ call = "parse" /\ value = NULL /\ Len(frames) = 1
      /\ roots' = roots \union {x} /\ Return /\ heap' = heap /\ live' = live /\ leaked' = leaked
  BY DEF ParseDone, Top
<1>1. PICK m : /\ Base(heap, live, roots, leaked, ParseTops(frames), {}, m)
               /\ ParseInv(heap, live, m, frames, value)
  BY <1>0, InvParse
<1>2. ParseTops(frames) = {x}
  BY <1>0 DEF ParseTops
<1>3. Loose(heap, m, x)
  BY <1>1 DEF ParseInv
<1> HIDE DEF x
<1>4. /\ Shape(heap, live, roots \union leaked \union {x}, {}, m)
      /\ roots \intersect leaked = {} /\ (roots \union leaked) \intersect {x} = {}
      /\ \A y \in roots \union leaked : Loose(heap, m, y)
      /\ \A y \in leaked : heap[y].ref
  BY <1>1, <1>2 DEF Base
<1>5. roots \union leaked \union {x} = (roots \union {x}) \union leaked /\ (roots \union {x}) \intersect leaked = {}
  BY <1>4
<1>6. \A y \in (roots \union {x}) \union leaked : Loose(heap, m, y)
  BY <1>3, <1>4
<1>7. Shape(heap, live, (roots \union {x}) \union leaked, {}, m)
  BY <1>4, <1>5
<1>8. Still(heap, live, roots \union {x}, leaked, m)
  BY <1>4, <1>5, <1>6, <1>7, StillFrom
<1>9. Still(heap', live', roots', leaked', m)
  BY <1>0, <1>8
<1> QED BY <1>0, <1>9, ReturnInv

\* cJSON_Parse keeps the invariant when it fails: the lists of all its calls are freed, each once.
LEMMA ParseFailInv == ASSUME CjsonInv, ParseFail PROVE CjsonInv'
<1>0. /\ call = "parse" /\ live' = live \ ParseFrees /\ heap' = Freed(heap, ParseFrees)
      /\ Return /\ roots' = roots /\ leaked' = leaked
  BY DEF ParseFail
<1>1. PICK m : /\ Base(heap, live, roots, leaked, ParseTops(frames), {}, m)
               /\ ParseInv(heap, live, m, frames, value)
  BY <1>0, InvParse
<1>2. heap \in Heaps /\ live \subseteq Items /\ Grounded(heap) /\ ParseTops(frames) \subseteq Items
  BY <1>1 DEF Base, Shape, Typed
<1>3. \A t \in ParseTops(frames) : Doomed(heap, t) = Down(heap, t)
  BY <1>2, DoomedIsDown
<1>4. ParseFrees = UNION {Doomed(heap, t) : t \in ParseTops(frames)}
  <2>1. \A y : y \in ParseFrees <=> (\E i \in 2 .. Len(frames) : y \in Doomed(heap, frames[i].head))
                                      \/ y \in Doomed(heap, frames[1].item)
    BY DEF ParseFrees
  <2>2. \A t : t \in ParseTops(frames) <=> (\E i \in 2 .. Len(frames) : t = frames[i].head) \/ t = frames[1].item
    BY DEF ParseTops
  <2> QED BY <2>1, <2>2
<1>5. PICK D : D = ParseFrees
  OBVIOUS
<1>6. D = Reach(heap, ParseTops(frames))
  BY <1>3, <1>4, <1>5 DEF Reach
<1>7. \E n : Still(Freed(heap, D), live \ D, roots, leaked, n)
  <2> DEFINE C == ParseTops(frames)
  <2>1. {} \subseteq C /\ Base(heap, live, roots, leaked, C, {}, m) /\ D = Reach(heap, C)
    BY <1>1, <1>6
  <2> HIDE DEF C
  <2> QED BY <2>1, FreeCall
<1>8. PICK n : Still(Freed(heap, D), live \ D, roots, leaked, n)
  BY <1>7
<1>9. Still(heap', live', roots', leaked', n)
  BY <1>0, <1>5, <1>8
<1> QED BY <1>0, <1>9, ReturnInv

\* What a frame of the parser says does not depend on the other items' homes.
LEMMA ParseOpenFrames ==
  ASSUME NEW h, NEW L, NEW R, NEW K, NEW m, NEW f \in Seq(Frame), NEW v,
         Base(h, L, R, K, ParseTops(f), {}, m), ParseInv(h, L, m, f, v), v # NULL,
         NEW x \in Items \ L, NEW top, top.item = v, top.head = x, top.last = x,
         NEW n, n = Housed(m, x, v)
  PROVE  ParseInv(h, L \union {x}, n, Append(f, top), x)
<1> DEFINE g == Append(f, top)
           k == Len(f)
<1>0. Shape(h, L, R \union K \union ParseTops(f), {}, m)
  BY DEF Base
<1>1. /\ h \in Heaps /\ L \subseteq Items /\ m \in [Items -> 0 .. Size]
      /\ h[x] = Blank /\ m[x] = NULL
  BY <1>0 DEF Shape, Typed, Dead
<1>2. k \in Nat /\ k >= 1 /\ Len(g) = k + 1 /\ g[k + 1] = top /\ \A i \in 1 .. k : g[i] = f[i]
  BY DEF ParseInv
<1>3. /\ v \in L /\ ~ h[v].ref /\ h[v].child = NULL
      /\ v = (IF k = 1 THEN f[1].item ELSE f[k].last)
      /\ \A i \in 2 .. k : f[i].item # v
  BY DEF ParseInv
<1>4. n \in [Items -> 0 .. Size] /\ n[x] = v /\ \A y \in Items : y # x => n[y] = m[y]
  BY <1>1, <1>3, SizeNat DEF Housed
<1>5. /\ f[1].item \in L /\ f[1].head = NULL /\ Loose(h, m, f[1].item)
      /\ \A i \in 2 .. k : ParseFrame(h, L, m, f, i)
  BY DEF ParseInv
<1>50. g[1] = f[1]
  BY <1>2
<1> HIDE DEF g, k
<1>6. /\ g[1].item \in L \union {x} /\ g[1].head = NULL /\ Loose(h, n, g[1].item) /\ g[1].item \in L
  BY <1>1, <1>4, <1>5, <1>50 DEF Loose
<1>7. ASSUME NEW i \in 2 .. k PROVE ParseFrame(h, L \union {x}, n, g, i)
  <2>1. /\ f[i].item \in L /\ f[i].head \in L /\ f[i].last \in Down(h, f[i].head)
        /\ IsLast(h, m, f[i].item, f[i].last) /\ m[f[i].head] = f[i].item
        /\ ~ h[f[i].item].ref /\ h[f[i].item].child = NULL
        /\ f[i].item = (IF i = 2 THEN f[1].item ELSE f[i - 1].last)
        /\ f[i].head # f[1].item
        /\ \A j \in 2 .. k : j # i => f[j].item # f[i].item /\ f[j].head # f[i].head
    BY <1>5 DEF ParseFrame, k
  <2>2. g[i] = f[i] /\ i - 1 \in 1 .. k /\ g[i - 1] = f[i - 1]
    BY <1>2
  <2>3. f[i].last \in L
    <3> DEFINE T == R \union K \union ParseTops(f)
    <3> HIDE DEF T
    <3>1. Shape(h, L, T, {}, m)
      BY <1>0 DEF T
    <3>2. Down(h, f[i].head) \subseteq L
      BY <2>1, <3>1, DownLive
    <3> QED BY <2>1, <3>2
  <2>4. IsLast(h, n, f[i].item, f[i].last) /\ n[f[i].head] = f[i].item
    BY <1>1, <1>4, <2>1, <2>3 DEF IsLast
  <2>5. ASSUME NEW j \in 2 .. Len(g), j # i PROVE g[j].item # g[i].item /\ g[j].head # g[i].head
    <3>1. CASE j \in 2 .. k
      BY <1>2, <2>1, <2>2, <2>5, <3>1
    <3>2. CASE j = k + 1
      BY <1>2, <1>3, <2>1, <2>2, <3>2
    <3> QED BY <1>2, <3>1, <3>2
  <2>6. g[i].item = (IF i = 2 THEN g[1].item ELSE g[i - 1].last)
    BY <1>50, <2>1, <2>2
  <2>7. g[i].head # g[1].item
    BY <1>50, <2>1, <2>2
  <2> QED BY <2>1, <2>2, <2>4, <2>5, <2>6, <2>7 DEF ParseFrame
<1>8. ParseFrame(h, L \union {x}, n, g, k + 1)
  <2>1. h[x].next = NULL
    BY <1>1 DEF Blank
  <2>2. x \in Down(h, x) /\ IsLast(h, n, v, x)
    BY <1>4, <2>1, DownFacts DEF IsLast
  <2>3. g[k + 1].item = (IF k + 1 = 2 THEN g[1].item ELSE g[k].last)
    BY <1>2, <1>3
  <2>4. x # g[1].item
    BY <1>6
  <2>5. ASSUME NEW j \in 2 .. k + 1, j # k + 1 PROVE g[j].item # v /\ g[j].head # x
    <3>1. j \in 2 .. k
      BY <1>2, <2>5
    <3>2. g[j] = f[j] /\ f[j].head \in L
      BY <1>2, <1>5, <3>1 DEF ParseFrame
    <3> QED BY <1>3, <3>1, <3>2
  <2>6. k + 1 - 1 = k
    BY <1>2
  <2> QED BY <1>2, <1>3, <1>4, <2>2, <2>3, <2>4, <2>5, <2>6 DEF ParseFrame
<1>9. \A i \in 2 .. Len(g) : ParseFrame(h, L \union {x}, n, g, i)
  <2>1. \A i \in 2 .. Len(g) : i \in 2 .. k \/ i = k + 1
    BY <1>2
  <2> QED BY <1>7, <1>8, <2>1
<1>10. x # NULL /\ ~ h[x].ref /\ h[x].child = NULL
  BY <1>1, SizeNat DEF Blank
<1>11. x = (IF Len(g) = 1 THEN g[1].item ELSE g[Len(g)].last)
  BY <1>2
<1>12. \A i \in 2 .. Len(g) : g[i].item # x
  <2> SUFFICES ASSUME NEW i \in 2 .. Len(g) PROVE g[i].item \in L
    OBVIOUS
  <2>1. CASE i \in 2 .. k
    BY <1>2, <1>5, <2>1 DEF ParseFrame
  <2>2. CASE i = k + 1
    BY <1>2, <1>3, <2>2
  <2> QED BY <1>2, <2>1, <2>2
<1>13. ParseInv(h, L \union {x}, n, g, x)
  <2>1. Len(g) >= 1
    BY <1>2
  <2>2. x \in L \union {x}
    OBVIOUS
  <2> QED BY <1>6, <1>9, <1>10, <1>11, <1>12, <2>1, <2>2 DEF ParseInv
<1> QED BY <1>13 DEF g

\* A new parse_array owns the list it starts.
LEMMA ParseTopsGrow ==
  ASSUME NEW f \in Seq(Frame), Len(f) >= 1, NEW top
  PROVE  ParseTops(Append(f, top)) = ParseTops(f) \union {top.head}
<1> DEFINE g == Append(f, top)
           k == Len(f)
<1>1. k \in Nat /\ k >= 1 /\ Len(g) = k + 1 /\ g[k + 1] = top /\ \A i \in 1 .. k : g[i] = f[i]
  OBVIOUS
<1> HIDE DEF g, k
<1>2. g[1] = f[1]
  BY <1>1
<1>3. ASSUME NEW t \in ParseTops(g) PROVE t \in ParseTops(f) \union {top.head}
  <2>1. CASE t = g[1].item
    BY <1>2, <2>1 DEF ParseTops
  <2>2. ASSUME NEW i \in 2 .. k + 1, t = g[i].head PROVE t \in ParseTops(f) \union {top.head}
    <3>1. CASE i = k + 1
      BY <1>1, <2>2, <3>1
    <3>2. CASE i \in 2 .. k
      <4>1. g[i] = f[i]
        BY <1>1, <3>2
      <4> QED BY <2>2, <3>2, <4>1 DEF ParseTops, k
    <3> QED BY <1>1, <3>1, <3>2
  <2> QED BY <1>1, <2>1, <2>2 DEF ParseTops
<1>4. ParseTops(f) \subseteq ParseTops(g)
  <2>1. \A i \in 2 .. k : i \in 2 .. Len(g) /\ g[i] = f[i]
    BY <1>1
  <2> QED BY <1>2, <2>1 DEF ParseTops, k
<1>5. top.head \in ParseTops(g)
  <2>1. k + 1 \in 2 .. Len(g)
    BY <1>1
  <2> QED BY <1>1, <2>1 DEF ParseTops
<1> QED BY <1>3, <1>4, <1>5 DEF g

\* parse_array and parse_object keep the invariant when they start a list.
LEMMA ParseOpenInv == ASSUME CjsonInv, ParseOpen PROVE CjsonInv'
<1> DEFINE x == NewItem
           top == [Fresh(value) EXCEPT !.head = NewItem, !.last = NewItem]
<1>0. /\ call = "parse" /\ value # NULL /\ MayNest /\ Free # {}
      /\ live' = live \union {x} /\ frames' = Append(frames, top) /\ value' = x
      /\ heap' = heap /\ roots' = roots /\ leaked' = leaked /\ call' = call /\ origin' = origin
  BY DEF ParseOpen
<1>1. CallTyped
  BY <1>0, InvParse
<1>2. PICK m : /\ Base(heap, live, roots, leaked, ParseTops(frames), {}, m)
               /\ ParseInv(heap, live, m, frames, value)
  BY <1>0, InvParse
<1>3. x \in Items \ live
  BY <1>0, NewItemFree
<1>4. /\ frames \in Seq(Frame) /\ value \in Items /\ Len(frames) >= 1 /\ Kid(heap, value) = NULL
      /\ origin \in Items \union {NULL} /\ Len(frames) \in Nat
  BY <1>0, <1>1, <1>2 DEF CallTyped, ParseInv, Kid
<1>5. top \in Frame /\ top.item = value /\ top.head = x /\ top.last = x
  BY <1>3, <1>4 DEF Fresh, Frame
<1> HIDE DEF x, top
<1> DEFINE n == Housed(m, x, value)
<1>6. Base(heap, live \union {x}, roots, leaked, ParseTops(frames) \union {x}, {}, n)
  <2> DEFINE C == ParseTops(frames)
  <2>1. Base(heap, live, roots, leaked, C, {}, m) /\ value \in 0 .. Size
    BY <1>2, <1>4, SizeNat
  <2> HIDE DEF C
  <2>2. Base(heap, live \union {x}, roots, leaked, C \union {x}, {}, n)
    BY <1>3, <1>4, <2>1, BaseNew
  <2> QED BY <2>2 DEF C
<1>7. ParseTops(frames') = ParseTops(frames) \union {x}
  BY <1>0, <1>4, <1>5, ParseTopsGrow
<1>8. Base(heap', live', roots', leaked', ParseTops(frames'), {}, n)
  BY <1>0, <1>6, <1>7
<1>9. CallTyped'
  <2>1. frames' \in Seq(Frame) /\ Len(frames') = Len(frames) + 1
    BY <1>0, <1>4, <1>5
  <2>2. Len(frames') <= NestingLimit + 1
    BY <1>0, <1>4, <2>1, CjsonAssumption DEF MayNest
  <2> QED BY <1>0, <1>3, <1>4, <2>1, <2>2 DEF CallTyped
<1>10. ParseInv(heap, live \union {x}, n, Append(frames, top), x)
  <2>1. n = Housed(m, x, value)
    OBVIOUS
  <2> HIDE DEF n
  <2> QED BY <1>0, <1>2, <1>3, <1>4, <1>5, <2>1, ParseOpenFrames
<1>11. ParseInv(heap', live', n, frames', value')
  BY <1>0, <1>10
<1> QED BY <1>0, <1>8, <1>9, <1>11, ParseInvNext

\* A new item goes to the end of a list that hangs from nothing yet.
LEMMA BaseComma ==
  ASSUME NEW h, NEW L, NEW R, NEW K, NEW C, NEW m, Base(h, L, R, K, C, {}, m), NEW x \in Items \ L,
         NEW p \in Items, Kid(h, p) = NULL, NEW z, IsLast(h, m, p, z), NEW g, g = suffix_object(h, z, x)
  PROVE  Base(g, L \union {x}, R, K, C, {}, Housed(Housed(m, x, NULL), x, p))
<1> DEFINE n1 == Housed(m, x, NULL)
           n == Housed(n1, x, p)
           D == C \union {x}
           T == R \union K \union D
           M == L \union {x}
<1>1. Base(h, M, R, K, D, {}, n1)
  BY SizeNat, BaseNew
<1>2. Shape(h, M, T, {}, n1)
  BY <1>1 DEF Base
<1>3. /\ R \intersect K = {} /\ (R \union K) \intersect D = {}
      /\ \A y \in R \union K : Loose(h, n1, y)
      /\ \A y \in K : h[y].ref
  BY <1>1 DEF Base
<1>4. /\ h \in Heaps /\ L \subseteq Items /\ m \in [Items -> 0 .. Size] /\ R \union K \union C \subseteq L
      /\ h[x] = Blank /\ m[x] = NULL
  BY DEF Base, Shape, Typed, Dead
<1>5. z \in Items /\ h[z].next = NULL /\ m[z] = p /\ p # NULL /\ z # x
  BY <1>4, SizeNat DEF IsLast
<1>6. z \in L /\ n1[z] = p /\ z \in M
  <2>1. \A y \in Items \ L : m[y] = NULL
    BY DEF Base, Shape, Dead
  <2> QED BY <1>4, <1>5, <2>1 DEF Housed
<1>7. h[x].next = NULL /\ Kid(h, x) = NULL
  BY <1>4 DEF Blank, Kid
<1>8. z \notin Down(h, x)
  <2>1. Down(h, x) \subseteq {x}
    BY <1>7, DownAlone
  <2> QED BY <1>5, <2>1
<1>9. LinkedAfter(h, g, z, x)
  BY <1>4, <1>5, SuffixFields
<1>10. n[x] = p /\ \A y \in Items : y # x => n[y] = n1[y] /\ n1[y] = m[y]
  BY <1>4, SizeNat DEF Housed
<1>11. x \in T
  OBVIOUS
<1> HIDE DEF T, M, n1, D
<1>12. Shape(g, M, T \ {x}, {} \union {p}, n)
  BY <1>2, <1>6, <1>5, <1>7, <1>8, <1>9, <1>11, ShapeLinkLast
<1> HIDE DEF n
<1>13. /\ g \in Heaps
       /\ \A y \in Items : /\ g[y].next = IF y = z THEN x ELSE h[y].next
                           /\ g[y].prev = IF y = x THEN z ELSE h[y].prev
                           /\ g[y].ref = h[y].ref /\ g[y].child = h[y].child
  BY <1>9 DEF LinkedAfter
<1>14. Kid(g, p) = NULL
  BY <1>13 DEF Kid
<1>15. Shape(g, M, T \ {x}, {}, n)
  <2>1. \A y \in {} \union {p} : Kid(g, y) = NULL
    BY <1>14
  <2> QED BY <1>12, <2>1, ShapeNoRings
<1>16. T \ {x} = R \union K \union C
  BY <1>4 DEF T, D
<1>17. \A y \in R \union K : y \in Items /\ y # x /\ y # z
  <2>1. \A y \in R \union K : y \in Items /\ y # x
    BY <1>4
  <2> QED BY <1>3, <1>5, <1>6, <2>1 DEF Loose
<1>18. (\A y \in R \union K : Loose(g, n, y)) /\ \A y \in K : g[y].ref
  BY <1>3, <1>10, <1>13, <1>17 DEF Loose
<1>19. (R \union K) \intersect C = {}
  BY <1>3 DEF D
<1>20. Shape(g, M, R \union K \union C, {}, n)
  BY <1>15, <1>16
<1>21. Base(g, M, R, K, C, {}, n)
  BY <1>3, <1>18, <1>19, <1>20 DEF Base
<1> QED BY <1>21 DEF M, n, n1

\* e is f with x as the last item of its top frame.
LastSet(f, e, x) ==
    /\ Len(e) = Len(f)
    /\ \A i \in 1 .. Len(f) : /\ e[i].item = f[i].item /\ e[i].head = f[i].head
                              /\ e[i].last = IF i = Len(f) THEN x ELSE f[i].last

\* The calls of the parser after a comma.
LEMMA ParseCommaFrames ==
  ASSUME NEW h, NEW L, NEW T, NEW m, NEW f, NEW v, NEW x, NEW g, NEW n, NEW e,
         Shape(h, L, T, {}, m), ParseInv(h, L, m, f, v), Len(f) \in Nat, Len(f) > 1, x \in Items \ L,
         LinkedAfter(h, g, f[Len(f)].last, x), LastSet(f, e, x),
         n[x] = f[Len(f)].item, \A y \in Items : y # x => n[y] = m[y]
  PROVE  ParseInv(g, L \union {x}, n, e, x)
<1> DEFINE k == Len(f)
           z == f[k].last
           p == f[k].item
<1>1. /\ h \in Heaps /\ L \subseteq Items /\ m \in [Items -> 0 .. Size]
      /\ h[x] = Blank /\ m[x] = NULL /\ x # NULL
  BY SizeNat DEF Shape, Typed, Dead
<1>2. /\ f[1].item \in L /\ f[1].head = NULL /\ Loose(h, m, f[1].item)
      /\ \A i \in 2 .. k : ParseFrame(h, L, m, f, i)
  BY DEF ParseInv
<1>20. 1 \in 1 .. k /\ 1 # k /\ k \in 1 .. k /\ k \in 2 .. k
  OBVIOUS
<1>3. ASSUME NEW i \in 2 .. k
      PROVE /\ f[i].item \in L /\ f[i].head \in L /\ f[i].last \in Down(h, f[i].head)
            /\ f[i].last \in Items /\ h[f[i].last].next = NULL /\ m[f[i].last] = f[i].item
            /\ m[f[i].head] = f[i].item
            /\ ~ h[f[i].item].ref /\ h[f[i].item].child = NULL
            /\ f[i].item = (IF i = 2 THEN f[1].item ELSE f[i - 1].last)
            /\ f[i].head # f[1].item
            /\ \A j \in 2 .. k : j # i => f[j].item # f[i].item /\ f[j].head # f[i].head
            /\ f[i].item \in Items /\ f[i].item # NULL /\ f[i].last # x
  <2>1. ParseFrame(h, L, m, f, i)
    BY <1>2
  <2>2. f[i].item \in Items /\ f[i].item # NULL
    BY <1>1, <2>1, SizeNat DEF ParseFrame
  <2>3. f[i].last \in Items /\ h[f[i].last].next = NULL /\ m[f[i].last] = f[i].item
    BY <2>1 DEF ParseFrame, IsLast
  <2> QED BY <1>1, <2>1, <2>2, <2>3 DEF ParseFrame, IsLast
<1>4. z \in Items /\ m[z] = p /\ h[z].next = NULL /\ p # NULL /\ z # x
  BY <1>20, <1>3
<1>5. /\ g \in Heaps
      /\ \A y \in Items : /\ g[y].next = IF y = z THEN x ELSE h[y].next
                          /\ g[y].prev = IF y = x THEN z ELSE h[y].prev
                          /\ g[y].ref = h[y].ref /\ g[y].child = h[y].child
  BY DEF LinkedAfter
<1>6. /\ Len(e) = k
      /\ \A i \in 1 .. k : /\ e[i].item = f[i].item /\ e[i].head = f[i].head
                           /\ e[i].last = IF i = k THEN x ELSE f[i].last
  BY DEF LastSet
<1>7. e[1].item = f[1].item /\ e[1].head = NULL
  BY <1>2, <1>6, <1>20
<1> HIDE DEF z, p, k
<1>8. \A y, w \in Items : Follows(h, y, w) => Follows(g, y, w)
  <2> SUFFICES ASSUME NEW y \in Items, NEW w \in Items, Follows(h, y, w) PROVE Follows(g, y, w)
    OBVIOUS
  <2>1. Kid(g, y) = Kid(h, y)
    BY <1>5 DEF Kid
  <2>2. y = z => h[y].next # w
    BY <1>4, SizeNat
  <2> QED BY <1>5, <2>1, <2>2 DEF Follows
<1>9. Loose(g, n, f[1].item)
  <2>1. f[1].item \in Items /\ f[1].item # x /\ f[1].item # z
    BY <1>1, <1>2, <1>4 DEF Loose
  <2> QED BY <1>2, <1>5, <2>1 DEF Loose
<1>10. ASSUME NEW i \in 2 .. k PROVE ParseFrame(g, L \union {x}, n, e, i)
  <2>0. i \in 1 .. k /\ i - 1 \in 1 .. k /\ i - 1 # k
    BY DEF k
  <2>1. Down(h, f[i].head) \subseteq Down(g, f[i].head) /\ f[i].head \in Items
    BY <1>1, <1>3, <1>8, DownGrows
  <2>2. f[i].last \in Down(g, f[i].head)
    BY <1>3, <2>1
  <2>3. e[i].last \in Down(g, f[i].head) /\ IsLast(g, n, f[i].item, e[i].last)
    <3>1. CASE i = k
      <4>1. f[i].last = z /\ f[i].item = p /\ e[i].last = x
        BY <1>6, <2>0, <3>1 DEF z, p
      <4>2. Follows(g, z, x)
        BY <1>4, <1>5 DEF Follows
      <4>3. x \in Down(g, f[i].head)
        BY <2>1, <2>2, <4>1, <4>2, DownFacts DEF Sealed
      <4>4. g[x].next = NULL
        BY <1>1, <1>4, <1>5 DEF Blank
      <4> QED BY <4>1, <4>3, <4>4 DEF IsLast, p, k
    <3>2. CASE i # k
      <4>1. e[i].last = f[i].last
        BY <1>6, <2>0, <3>2
      <4>2. f[i].item # p
        BY <1>3, <1>20, <3>2 DEF p
      <4>3. f[i].last # z /\ f[i].last # x /\ f[i].last \in Items /\ h[f[i].last].next = NULL
            /\ m[f[i].last] = f[i].item
        BY <1>3, <1>4, <4>2
      <4>4. IsLast(g, n, f[i].item, f[i].last)
        BY <1>5, <4>3 DEF IsLast
      <4> QED BY <2>2, <4>1, <4>4
    <3> QED BY <3>1, <3>2
  <2>4. n[f[i].head] = f[i].item
    BY <1>1, <1>3
  <2>5. ~ g[f[i].item].ref /\ g[f[i].item].child = NULL
    BY <1>3, <1>5
  <2>6. e[i].item = f[i].item /\ e[i].head = f[i].head
    BY <1>6, <2>0
  <2>7. e[i].item = (IF i = 2 THEN e[1].item ELSE e[i - 1].last)
    <3>1. e[i - 1].last = f[i - 1].last
      BY <1>6, <2>0
    <3> QED BY <1>3, <1>7, <2>6, <3>1
  <2>8. \A j \in 2 .. Len(e) : j # i => e[j].item # e[i].item /\ e[j].head # e[i].head
    <3> SUFFICES ASSUME NEW j \in 2 .. k, j # i PROVE e[j].item # e[i].item /\ e[j].head # e[i].head
      BY <1>6
    <3>1. j \in 1 .. k
      BY DEF k
    <3>2. e[j].item = f[j].item /\ e[j].head = f[j].head
      BY <1>6, <3>1
    <3> QED BY <1>3, <2>6, <3>2
  <2>9. f[i].item \in L /\ f[i].head \in L /\ f[i].head # f[1].item
    BY <1>3
  <2> QED BY <1>7, <2>3, <2>4, <2>5, <2>6, <2>7, <2>8, <2>9 DEF ParseFrame
<1>11. ~ g[x].ref /\ g[x].child = NULL
  BY <1>1, <1>5 DEF Blank
<1>12. x = (IF Len(e) = 1 THEN e[1].item ELSE e[Len(e)].last)
  BY <1>6, <1>20 DEF k
<1>13. \A i \in 2 .. Len(e) : e[i].item # x
  <2> SUFFICES ASSUME NEW i \in 2 .. k PROVE e[i].item # x
    BY <1>6
  <2>1. i \in 1 .. k
    BY DEF k
  <2> QED BY <1>1, <1>3, <1>6, <2>1
<1>14. /\ Len(e) >= 1 /\ e[1].item \in L \union {x} /\ e[1].head = NULL /\ Loose(g, n, e[1].item)
       /\ \A i \in 2 .. Len(e) : ParseFrame(g, L \union {x}, n, e, i)
  <2>1. Len(e) >= 1
    BY <1>6 DEF k
  <2> QED BY <1>2, <1>6, <1>7, <1>9, <1>10, <2>1
<1>15. x \in L \union {x}
  OBVIOUS
<1> QED BY <1>11, <1>12, <1>13, <1>14, <1>15 DEF ParseInv

\* A comma starts no list.
LEMMA ParseTopsSame ==
  ASSUME NEW f, NEW e, NEW x, LastSet(f, e, x), Len(f) \in Nat, Len(f) >= 1
  PROVE  ParseTops(e) = ParseTops(f)
<1>1. /\ Len(e) = Len(f) /\ e[1].item = f[1].item
      /\ \A i \in 2 .. Len(f) : e[i].head = f[i].head
  BY DEF LastSet
<1> QED BY <1>1 DEF ParseTops

\* parse_array and parse_object keep the invariant when they go on to an element.
LEMMA ParseCommaInv == ASSUME CjsonInv, ParseComma PROVE CjsonInv'
<1> DEFINE x == NewItem
           k == Len(frames)
           z == Top.last
           p == Top.item
           e == SetTop([Top EXCEPT !.last = NewItem])
           g == suffix_object(heap, z, x)
<1>0. /\ call = "parse" /\ value = NULL /\ k > 1 /\ Free # {}
      /\ live' = live \union {x} /\ heap' = g /\ frames' = e /\ value' = x
      /\ roots' = roots /\ leaked' = leaked /\ call' = call /\ origin' = origin
  BY DEF ParseComma
<1>1. CallTyped
  BY <1>0, InvParse
<1>2. PICK m : /\ Base(heap, live, roots, leaked, ParseTops(frames), {}, m)
               /\ ParseInv(heap, live, m, frames, value)
  BY <1>0, InvParse
<1>3. x \in Items \ live
  BY <1>0, NewItemFree
<1>4. /\ frames \in Seq(Frame) /\ k \in Nat /\ origin \in Items \union {NULL} /\ k <= NestingLimit + 1
      /\ k \in 1 .. k /\ k \in 2 .. k
  BY <1>0, <1>1 DEF CallTyped
<1>5. Top = frames[k] /\ Top \in Frame
  BY <1>4 DEF Top
<1>6. e \in Seq(Frame) /\ Len(e) = k /\ LastSet(frames, e, x)
  <2>1. [Top EXCEPT !.last = x] \in Frame /\ [Top EXCEPT !.last = x].item = Top.item
        /\ [Top EXCEPT !.last = x].head = Top.head /\ [Top EXCEPT !.last = x].last = x
    BY <1>3, <1>5 DEF Frame
  <2>2. e = [frames EXCEPT ![k] = [Top EXCEPT !.last = x]]
    BY DEF SetTop
  <2>3. e \in Seq(Frame) /\ Len(e) = k
    BY <1>4, <2>1, <2>2
  <2>4. \A i \in 1 .. k : e[i] = IF i = k THEN [Top EXCEPT !.last = x] ELSE frames[i]
    BY <1>4, <2>2
  <2> HIDE DEF e
  <2> QED BY <1>5, <2>1, <2>3, <2>4 DEF LastSet
<1>7. ParseFrame(heap, live, m, frames, k)
  BY <1>2, <1>4 DEF ParseInv
<1>8. /\ IsLast(heap, m, p, z) /\ ~ heap[p].ref /\ heap[p].child = NULL /\ p \in live
  BY <1>5, <1>7 DEF ParseFrame
<1>9. /\ heap \in Heaps /\ live \subseteq Items /\ m \in [Items -> 0 .. Size]
      /\ Shape(heap, live, roots \union leaked \union ParseTops(frames), {}, m)
  BY <1>2 DEF Base, Shape, Typed
<1>10. p \in Items /\ Kid(heap, p) = NULL /\ z \in Items
  BY <1>8, <1>9 DEF Kid, IsLast
<1>11. g = suffix_object(heap, z, x) /\ p = frames[Len(frames)].item /\ z = frames[Len(frames)].last
  BY <1>5
<1> HIDE DEF x, e, g, p, z
<1> DEFINE n == Housed(Housed(m, x, NULL), x, p)
<1>12. Base(g, live \union {x}, roots, leaked, ParseTops(frames), {}, n)
  <2> DEFINE C == ParseTops(frames)
  <2>1. Base(heap, live, roots, leaked, C, {}, m)
    BY <1>2
  <2> HIDE DEF C
  <2>2. Base(g, live \union {x}, roots, leaked, C, {}, n)
    BY <1>3, <1>8, <1>10, <1>11, <2>1, BaseComma
  <2> QED BY <2>2 DEF C
<1>13. n[x] = p /\ \A y \in Items : y # x => n[y] = m[y]
  BY <1>3, <1>9, <1>10, SizeNat DEF Housed
<1>14. LinkedAfter(heap, g, z, x)
  BY <1>3, <1>9, <1>10, <1>11, SuffixFields
<1> HIDE DEF n
<1>15. ParseInv(g, live \union {x}, n, e, x)
  <2> DEFINE T == roots \union leaked \union ParseTops(frames)
  <2>1. Shape(heap, live, T, {}, m)
    BY <1>9
  <2> HIDE DEF T
  <2>2. LinkedAfter(heap, g, frames[Len(frames)].last, x) /\ n[x] = frames[Len(frames)].item
    BY <1>11, <1>13, <1>14
  <2>3. Len(frames) \in Nat /\ Len(frames) > 1
    BY <1>0, <1>4
  <2> QED BY <1>2, <1>3, <1>6, <1>13, <2>1, <2>2, <2>3, ParseCommaFrames
<1>16. ParseTops(e) = ParseTops(frames)
  BY <1>4, <1>6, ParseTopsSame
<1>17. Base(heap', live', roots', leaked', ParseTops(frames'), {}, n)
  BY <1>0, <1>12, <1>16
<1>18. ParseInv(heap', live', n, frames', value')
  BY <1>0, <1>15
<1>19. CallTyped'
  BY <1>0, <1>3, <1>4, <1>6 DEF CallTyped
<1> QED BY <1>0, <1>17, <1>18, <1>19, ParseInvNext

\* The stack without its top.
LEMMA FrontIs ==
  ASSUME NEW S, NEW f \in Seq(S), Len(f) >= 1
  PROVE  /\ Front(f) \in Seq(S) /\ Len(Front(f)) = Len(f) - 1
         /\ \A i \in 1 .. Len(f) - 1 : Front(f)[i] = f[i]
<1>1. Len(f) \in Nat /\ 1 \in Nat /\ Len(f) - 1 \in Nat
  OBVIOUS
<1>2. Front(f) = [i \in 1 .. Len(f) - 1 |-> f[i]]
  BY <1>1 DEF Front
<1>3. \A i \in 1 .. Len(f) - 1 : f[i] \in S
  OBVIOUS
<1> QED BY <1>1, <1>2, <1>3

\* The lists of the parser are apart, and none hangs below itself.
LEMMA ParseApart ==
  ASSUME NEW h, NEW L, NEW R, NEW K, NEW m, NEW f, NEW v, Base(h, L, R, K, ParseTops(f), {}, m),
         ParseInv(h, L, m, f, v), Len(f) \in Nat, Len(f) > 1
  PROVE  /\ f[Len(f)].item \notin Down(h, f[Len(f)].head)
         /\ \A t \in (R \union K \union ParseTops(f)) \ {f[Len(f)].head} : m[t] # f[Len(f)].item
<1> DEFINE k == Len(f)
           p == f[k].item
           c == f[k].head
           T == R \union K \union ParseTops(f)
<1>0. Shape(h, L, T, {}, m)
  BY DEF Base
<1>1. k \in 2 .. k /\ \A i \in 2 .. k : ParseFrame(h, L, m, f, i)
  BY DEF ParseInv
<1>2. /\ p \in L /\ c \in L /\ c # f[1].item /\ p = (IF k = 2 THEN f[1].item ELSE f[k - 1].last)
      /\ \A j \in 2 .. k : j # k => f[j].item # p /\ f[j].head # c
  BY <1>1 DEF ParseFrame
<1>3. f[1].item \in ParseTops(f) /\ \A i \in 2 .. k : f[i].head \in ParseTops(f)
  BY DEF ParseTops
<1>4. L \subseteq Items /\ T \subseteq L /\ Loose(h, m, f[1].item)
  BY <1>0 DEF Shape, Typed, ParseInv
<1>5. c \in T /\ p \in Items /\ p # NULL
  BY <1>1, <1>2, <1>3, <1>4, SizeNat
<1>6. p \notin Down(h, c)
  <2>1. \E t \in T : t # c /\ p \in Down(h, t)
    <3>1. CASE k = 2
      <4>1. p \in Down(h, p)
        BY <1>5, DownFacts
      <4> QED BY <1>2, <1>3, <3>1, <4>1
    <3>2. CASE k # 2
      <4>0. k \in Nat /\ k > 1
        OBVIOUS
      <4>1. k - 1 \in 2 .. k /\ k - 1 # k
        <5> HIDE DEF k
        <5> QED BY <3>2, <4>0
      <4>2. f[k - 1].last \in Down(h, f[k - 1].head)
        BY <1>1, <4>1 DEF ParseFrame
      <4>3. f[k - 1].head # c /\ f[k - 1].head \in T
        BY <1>2, <1>3, <4>1
      <4> QED BY <1>2, <3>2, <4>2, <4>3
    <3> QED BY <3>1, <3>2
  <2>2. PICK t \in T : t # c /\ p \in Down(h, t)
    BY <2>1
  <2> HIDE DEF T, c
  <2>3. Down(h, t) \intersect Down(h, c) = {}
    BY <1>0, <1>5, <2>2, DownApart
  <2> QED BY <2>2, <2>3
<1>7. ASSUME NEW t \in T, t # c PROVE m[t] # p
  <2>1. CASE t \in R \union K
    <3>1. Loose(h, m, t)
      BY <2>1 DEF Base
    <3> QED BY <1>5, <3>1 DEF Loose
  <2>2. CASE t = f[1].item
    BY <1>4, <1>5, <2>2 DEF Loose
  <2>3. ASSUME NEW i \in 2 .. k, t = f[i].head PROVE m[t] # p
    <3>1. i # k
      BY <1>7, <2>3
    <3>2. m[f[i].head] = f[i].item
      BY <1>1 DEF ParseFrame
    <3> QED BY <1>2, <2>3, <3>1, <3>2
  <2> QED BY <2>1, <2>2, <2>3 DEF ParseTops
<1> QED BY <1>6, <1>7

\* c, which ends in z, becomes the list of p.
Closing(h, g, p, c, z) ==
    /\ g \in Heaps
    /\ \A y \in Items : /\ g[y].next = h[y].next /\ g[y].ref = h[y].ref
                        /\ g[y].child = IF y = p THEN c ELSE h[y].child
                        /\ g[y].prev = IF y = c THEN z ELSE h[y].prev

\* The list is hung from its owner and its ring closed.
LEMMA ShapeHang ==
  ASSUME NEW h, NEW L, NEW T, NEW m, Shape(h, L, T, {}, m), NEW p \in L, Kid(h, p) = NULL, ~ h[p].ref,
         NEW c \in T, m[c] = p, p \notin Down(h, c), \A t \in T \ {c} : m[t] # p,
         NEW z, IsLast(h, m, p, z), NEW g, Closing(h, g, p, c, z)
  PROVE  Shape(g, L, T \ {c}, {}, m)
<1> DEFINE g0 == Set(h, p, "child", c)
<1>1. h \in Heaps /\ p \in Items /\ c \in Items /\ m \in [Items -> 0 .. Size] /\ c \in 0 .. Size /\ p \in 0 .. Size
  BY SizeNat DEF Shape, Typed
<1>2. ChildSet(h, g0, p, c)
  BY <1>1, SetIs
<1>3. /\ g0 \in Heaps
      /\ \A y \in Items : /\ g0[y].next = h[y].next /\ g0[y].prev = h[y].prev
                          /\ g0[y].ref = h[y].ref /\ g0[y].child = IF y = p THEN c ELSE h[y].child
  BY <1>2 DEF ChildSet
<1> HIDE DEF g0
<1>4. Shape(g0, L, T \ {c}, {} \union {p}, Housed(m, c, p))
  BY <1>3, ShapeLinkFirst
<1>5. Housed(m, c, p) = m
  BY <1>1 DEF Housed
<1>6. Shape(g0, L, T \ {c}, {} \union {p}, m)
  BY <1>4, <1>5
<1>7. Kid(g0, p) = c /\ IsLast(g0, m, p, z)
  BY <1>1, <1>3 DEF Kid, IsLast
<1>8. g \in Heaps /\ \A y \in Items : /\ g[y].next = g0[y].next /\ g[y].child = g0[y].child
                                      /\ g[y].ref = g0[y].ref /\ g[y].prev = IF y = c THEN z ELSE g0[y].prev
  BY <1>3 DEF Closing
<1>9. Shape(g, L, T \ {c}, ({} \union {p}) \ {p}, m)
  BY <1>1, <1>6, <1>7, <1>8, ShapeClose
<1>10. ({} \union {p}) \ {p} = {}
  OBVIOUS
<1> QED BY <1>9, <1>10

\* The same, for the owners.
LEMMA BaseHang ==
  ASSUME NEW h, NEW L, NEW R, NEW K, NEW C, NEW m, Base(h, L, R, K, C, {}, m),
         NEW p \in L, Kid(h, p) = NULL, ~ h[p].ref,
         NEW c \in C, m[c] = p, p \notin Down(h, c), \A t \in (R \union K \union C) \ {c} : m[t] # p,
         NEW z, IsLast(h, m, p, z), NEW g, Closing(h, g, p, c, z)
  PROVE  Base(g, L, R, K, C \ {c}, {}, m)
<1> DEFINE T == R \union K \union C
<1>0. Shape(h, L, T, {}, m)
  BY DEF Base
<1>1. /\ R \intersect K = {} /\ (R \union K) \intersect C = {}
      /\ \A y \in R \union K : Loose(h, m, y)
      /\ \A y \in K : h[y].ref
      /\ R \union K \subseteq Items
  BY <1>0 DEF Base, Shape, Typed
<1>2. c \in T
  OBVIOUS
<1>3. Shape(g, L, T \ {c}, {}, m)
  <2>1. \A t \in T \ {c} : m[t] # p
    OBVIOUS
  <2> HIDE DEF T
  <2> QED BY <1>0, <1>2, <2>1, ShapeHang
<1>4. T \ {c} = R \union K \union (C \ {c}) /\ (R \union K) \intersect (C \ {c}) = {}
  BY <1>1
<1>5. (\A y \in R \union K : Loose(g, m, y)) /\ \A y \in K : g[y].ref
  <2>1. \A y \in R \union K : y \in Items /\ y # c
    BY <1>1
  <2> QED BY <1>1, <2>1 DEF Closing, Loose
<1>6. Shape(g, L, R \union K \union (C \ {c}), {}, m)
  BY <1>3, <1>4
<1> QED BY <1>1, <1>4, <1>5, <1>6 DEF Base

\* e is f without its top frame.
Popped(f, e) == Len(e) = Len(f) - 1 /\ \A i \in 1 .. Len(f) - 1 : e[i] = f[i]

\* The calls of the parser when one returns.
LEMMA ParseCloseFrames ==
  ASSUME NEW h, NEW L, NEW m, NEW f, NEW v, NEW g, NEW e,
         h \in Heaps, L \subseteq Items, ParseInv(h, L, m, f, v), Len(f) \in Nat, Len(f) > 1,
         Closing(h, g, f[Len(f)].item, f[Len(f)].head, f[Len(f)].last), Popped(f, e)
  PROVE  ParseInv(g, L, m, e, NULL)
<1> DEFINE k == Len(f)
           p == f[k].item
           c == f[k].head
           z == f[k].last
<1>1. k \in Nat /\ k > 1 /\ k \in 2 .. k /\ Len(e) = k - 1 /\ \A i \in 1 .. k - 1 : e[i] = f[i]
  BY DEF Popped
<1>2. /\ f[1].item \in L /\ f[1].head = NULL /\ Loose(h, m, f[1].item)
      /\ \A i \in 2 .. k : ParseFrame(h, L, m, f, i)
  BY DEF ParseInv
<1>3. /\ g \in Heaps
      /\ \A y \in Items : /\ g[y].next = h[y].next /\ g[y].ref = h[y].ref
                          /\ g[y].child = IF y = p THEN c ELSE h[y].child
                          /\ g[y].prev = IF y = c THEN z ELSE h[y].prev
  BY DEF Closing
<1>4. /\ p \in L /\ c \in L /\ ~ h[p].ref /\ h[p].child = NULL /\ c # f[1].item
      /\ \A j \in 2 .. k : j # k => f[j].item # p
  BY <1>1, <1>2 DEF ParseFrame
<1>5. e[1] = f[1]
  BY <1>1
<1> HIDE DEF p, c, z, k
<1>6. \A y, w \in Items : Follows(h, y, w) => Follows(g, y, w)
  <2> SUFFICES ASSUME NEW y \in Items, NEW w \in Items, Follows(h, y, w) PROVE Follows(g, y, w)
    OBVIOUS
  <2>1. Kid(h, y) = w => Kid(g, y) = w
    BY <1>3, <1>4, SizeNat DEF Kid
  <2> QED BY <1>3, <2>1 DEF Follows
<1>7. Loose(g, m, f[1].item)
  <2>1. f[1].item \in Items /\ f[1].item # c
    BY <1>2, <1>4
  <2> QED BY <1>2, <1>3, <2>1 DEF Loose
<1>8. ASSUME NEW i \in 2 .. k - 1 PROVE ParseFrame(g, L, m, e, i)
  <2>1. i \in 2 .. k /\ i # k /\ i \in 1 .. k - 1 /\ i - 1 \in 1 .. k - 1
    BY <1>1
  <2>2. /\ f[i].item \in L /\ f[i].head \in L /\ f[i].last \in Down(h, f[i].head)
        /\ IsLast(h, m, f[i].item, f[i].last) /\ m[f[i].head] = f[i].item
        /\ ~ h[f[i].item].ref /\ h[f[i].item].child = NULL
        /\ f[i].item = (IF i = 2 THEN f[1].item ELSE f[i - 1].last)
        /\ f[i].head # f[1].item
        /\ \A j \in 2 .. k : j # i => f[j].item # f[i].item /\ f[j].head # f[i].head
    BY <1>2, <2>1 DEF ParseFrame, k
  <2>3. e[i] = f[i] /\ e[i - 1] = f[i - 1]
    BY <1>1, <2>1
  <2>4. f[i].last \in Down(g, f[i].head)
    BY <1>6, <2>2, DownGrows
  <2>5. IsLast(g, m, f[i].item, f[i].last)
    BY <1>3, <2>2 DEF IsLast
  <2>6. ~ g[f[i].item].ref /\ g[f[i].item].child = NULL
    BY <1>3, <1>4, <2>1, <2>2
  <2>7. \A j \in 2 .. Len(e) : j # i => e[j].item # e[i].item /\ e[j].head # e[i].head
    <3> SUFFICES ASSUME NEW j \in 2 .. k - 1, j # i PROVE e[j].item # e[i].item /\ e[j].head # e[i].head
      BY <1>1
    <3>1. j \in 2 .. k /\ j \in 1 .. k - 1
      BY <1>1
    <3>2. e[j] = f[j]
      BY <1>1, <3>1
    <3> QED BY <2>2, <2>3, <3>1, <3>2
  <2> QED BY <1>5, <2>2, <2>3, <2>4, <2>5, <2>6, <2>7 DEF ParseFrame
<1>9. Len(e) >= 1 /\ \A i \in 2 .. Len(e) : ParseFrame(g, L, m, e, i)
  BY <1>1, <1>8
<1> QED BY <1>2, <1>5, <1>7, <1>9 DEF ParseInv

\* The list it built is no longer its own.
LEMMA ParseTopsShrink ==
  ASSUME NEW h, NEW L, NEW m, NEW f, NEW v, NEW e, ParseInv(h, L, m, f, v), Len(f) \in Nat, Len(f) > 1, Popped(f, e)
  PROVE  ParseTops(e) = ParseTops(f) \ {f[Len(f)].head}
<1> DEFINE k == Len(f)
           c == f[k].head
<1>1. k \in Nat /\ k > 1 /\ k \in 2 .. k /\ Len(e) = k - 1 /\ \A i \in 1 .. k - 1 : e[i] = f[i]
  BY DEF Popped
<1>2. c # f[1].item /\ \A j \in 2 .. k : j # k => f[j].head # c
  BY <1>1 DEF ParseInv, ParseFrame
<1>3. e[1] = f[1]
  BY <1>1
<1> HIDE DEF k, c
<1>4. ASSUME NEW t \in ParseTops(e) PROVE t \in ParseTops(f) \ {c}
  <2>1. CASE t = e[1].item
    BY <1>2, <1>3, <2>1 DEF ParseTops
  <2>2. ASSUME NEW i \in 2 .. k - 1, t = e[i].head PROVE t \in ParseTops(f) \ {c}
    <3>1. i \in 2 .. k /\ i # k /\ e[i] = f[i]
      BY <1>1
    <3> QED BY <1>2, <2>2, <3>1 DEF ParseTops, k
  <2> QED BY <1>1, <2>1, <2>2 DEF ParseTops
<1>5. ASSUME NEW t \in ParseTops(f) \ {c} PROVE t \in ParseTops(e)
  <2>1. CASE t = f[1].item
    BY <1>3, <2>1 DEF ParseTops
  <2>2. ASSUME NEW i \in 2 .. k, t = f[i].head PROVE t \in ParseTops(e)
    <3>1. i # k
      BY <1>5, <2>2 DEF c
    <3>2. i \in 2 .. k - 1 /\ i \in 2 .. Len(e) /\ e[i] = f[i]
      BY <1>1, <3>1
    <3> QED BY <2>2, <3>2 DEF ParseTops
  <2> QED BY <2>1, <2>2 DEF ParseTops, k
<1> QED BY <1>4, <1>5 DEF c, k

\* parse_array and parse_object keep the invariant when they return.
LEMMA ParseCloseInv == ASSUME CjsonInv, ParseClose PROVE CjsonInv'
<1> DEFINE k == Len(frames)
           p == frames[Len(frames)].item
           c == frames[Len(frames)].head
           z == frames[Len(frames)].last
           C == ParseTops(frames)
<1>0. /\ call = "parse" /\ value = NULL /\ k > 1
      /\ heap' = [heap EXCEPT ![c].prev = z, ![p].child = c] /\ frames' = Front(frames)
      /\ live' = live /\ roots' = roots /\ leaked' = leaked /\ call' = call /\ value' = value /\ origin' = origin
  BY DEF ParseClose, Top
<1>1. CallTyped
  BY <1>0, InvParse
<1>2. PICK m : /\ Base(heap, live, roots, leaked, C, {}, m)
               /\ ParseInv(heap, live, m, frames, value)
  BY <1>0, InvParse
<1>4. /\ frames \in Seq(Frame) /\ k \in Nat /\ origin \in Items \union {NULL} /\ k <= NestingLimit + 1
      /\ k \in 1 .. k /\ k \in 2 .. k
  BY <1>0, <1>1 DEF CallTyped
<1>5. /\ heap \in Heaps /\ live \subseteq Items
  BY <1>2 DEF Base, Shape, Typed
<1>6. ParseFrame(heap, live, m, frames, k)
  BY <1>2, <1>4 DEF ParseInv
<1>7. /\ IsLast(heap, m, p, z) /\ m[c] = p /\ ~ heap[p].ref /\ heap[p].child = NULL /\ p \in live /\ c \in live
  BY <1>6 DEF ParseFrame
<1>8. Kid(heap, p) = NULL /\ z \in Items /\ p \in Items /\ c \in Items /\ p # NULL /\ c # NULL
  BY <1>5, <1>7, SizeNat DEF Kid, IsLast
<1>9. c \in C
  BY <1>4 DEF ParseTops
<1>10. p \notin Down(heap, c) /\ \A t \in (roots \union leaked \union C) \ {c} : m[t] # p
  <2>1. k \in Nat /\ k > 1
    BY <1>0, <1>4
  <2> QED BY <1>2, <2>1, ParseApart
<1>11. Closing(heap, heap', p, c, z)
  <2> DEFINE g1 == Set(heap, c, "prev", z)
             g2 == Set(g1, p, "child", c)
  <2>0. z \in 0 .. Size /\ c \in 0 .. Size /\ p \in 0 .. Size
    BY <1>8, SizeNat
  <2>1. heap' = g2
    <3>1. [heap EXCEPT ![c].prev = z, ![p].child = c] = g2
      <4> HIDE DEF c, p, z
      <4> QED BY <1>8 DEF Set
    <3> QED BY <1>0, <3>1
  <2> HIDE DEF c, p, z
  <2>2. PrevSet(heap, g1, c, z) /\ g1 \in Heaps
    BY <1>5, <2>0, SetIs, SetHeap
  <2> HIDE DEF g1
  <2>3. ChildSet(g1, g2, p, c)
    BY <2>0, <2>2, SetIs
  <2> HIDE DEF g2
  <2> QED BY <2>1, <2>2, <2>3 DEF PrevSet, ChildSet, Closing
<1>12. Popped(frames, frames') /\ frames' \in Seq(Frame)
  <2>1. Len(frames) >= 1
    BY <1>0, <1>4
  <2>2. Front(frames) \in Seq(Frame) /\ Len(Front(frames)) = Len(frames) - 1
        /\ \A i \in 1 .. Len(frames) - 1 : Front(frames)[i] = frames[i]
    BY <1>4, <2>1, FrontIs
  <2> QED BY <1>0, <2>2 DEF Popped
<1>13. Len(frames) \in Nat /\ Len(frames) > 1
  BY <1>0, <1>4
<1>14. ParseInv(heap', live, m, frames', NULL)
  BY <1>2, <1>5, <1>11, <1>12, <1>13, ParseCloseFrames
<1>15. ParseTops(frames') = C \ {c}
  BY <1>2, <1>12, <1>13, ParseTopsShrink
<1> HIDE DEF C, c, p, z
<1>16. Base(heap', live, roots, leaked, C \ {c}, {}, m)
  BY <1>2, <1>7, <1>8, <1>9, <1>10, <1>11, BaseHang
<1>17. Base(heap', live', roots', leaked', ParseTops(frames'), {}, m)
  BY <1>0, <1>15, <1>16
<1>18. ParseInv(heap', live', m, frames', value')
  BY <1>0, <1>14
<1>19. CallTyped'
  <2>1. Len(frames') <= NestingLimit + 1
    BY <1>4, <1>12, CjsonAssumption DEF Popped
  <2> QED BY <1>0, <1>4, <1>12, <2>1, SizeNat DEF CallTyped
<1> QED BY <1>0, <1>17, <1>18, <1>19, ParseInvNext

-----------------------------------------------------------------------------
(* Duplication.                                                            *)

\* z is the last item of the list that x owns, or NULL if x has none.
Ending(h, m, x, z) ==
    /\ ~ h[x].ref /\ ((z = NULL) <=> (h[x].child = NULL))
    /\ z # NULL => IsLast(h, m, x, z)

\* The ring of a copied item x is closed, if it has one.
LEMMA ShapeClosed ==
  ASSUME NEW h, NEW L, NEW T, NEW O, NEW m, Shape(h, L, T, O, m), NEW x \in Items,
         NEW z \in 0 .. Size, Ending(h, m, x, z), NEW c, c = h[x].child, NEW g, PrevSet(h, g, c, z)
  PROVE  Shape(g, L, T, O \ {x}, m)
<1>0. ~ h[x].ref /\ ((z = NULL) <=> (h[x].child = NULL)) /\ (z # NULL => IsLast(h, m, x, z))
  BY DEF Ending
<1>1. h \in Heaps /\ c \in 0 .. Size /\ Kid(h, x) = c
  BY <1>0, FieldTypes DEF Shape, Typed, Kid
<1>2. /\ g \in Heaps
      /\ \A y \in Items : /\ g[y].prev = IF y = c THEN z ELSE h[y].prev
                          /\ g[y].next = h[y].next /\ g[y].child = h[y].child /\ g[y].ref = h[y].ref
  BY DEF PrevSet
<1>3. CASE c = NULL
  <2>1. \A y \in Items : y # c
    BY <1>3, SizeNat
  <2>2. g = h
    BY <1>1, <1>2, <2>1, HeapEqual
  <2>3. Kid(h, x) = NULL
    BY <1>1, <1>3
  <2> QED BY <2>2, <2>3, ShapeNoRing
<1>4. CASE c # NULL
  <2>1. c \in Items /\ IsLast(h, m, x, z)
    BY <1>0, <1>1, <1>4, SizeNat
  <2>2. Kid(h, x) = c
    BY <1>1
  <2> QED BY <1>2, <2>1, <2>2, ShapeClose
<1> QED BY <1>3, <1>4

\* cJSON_Duplicate, called, keeps the invariant.
LEMMA DuplicateInv == ASSUME CjsonInv, Duplicate PROVE CjsonInv'
<1> DEFINE x == NewItem
<1>0. call = "none" /\ Free # {}
  BY DEF Duplicate
<1>1. PICK m : Still(heap, live, roots, leaked, m)
  BY <1>0, InvStill
<1>2. x \in Items \ live
  BY <1>0, NewItemFree
<1>3. PICK o \in Held, recurse \in BOOLEAN :
         /\ live' = live \union {NewItem}
         /\ \/ ~ recurse /\ roots' = roots \union {NewItem} /\ UNCHANGED <<call, frames, origin>>
            \/ /\ recurse /\ call' = "duplicate" /\ origin' = o
               /\ frames' = <<[Fresh(NewItem) EXCEPT !.src = heap[o].child]>> /\ UNCHANGED roots
         /\ UNCHANGED <<heap, leaked, value>>
  BY DEF Duplicate
<1>4. CASE ~ recurse
  <2>1. /\ live' = live \union {x} /\ roots' = roots \union {x} /\ heap' = heap /\ leaked' = leaked /\ idle
    BY <1>3, <1>4 DEF idle
  <2> HIDE DEF x
  <2>2. Still(heap, live \union {x}, roots \union {x}, leaked, Housed(m, x, NULL))
    BY <1>1, <1>2, StillNew
  <2>3. Still(heap', live', roots', leaked', Housed(m, x, NULL))
    BY <2>1, <2>2
  <2> QED BY <1>0, <2>1, <2>3, StillInv
<1>5. CASE recurse
  <2> DEFINE d == [Fresh(NewItem) EXCEPT !.src = heap[o].child]
             n == Housed(m, x, NULL)
  <2>1. /\ live' = live \union {x} /\ roots' = roots /\ heap' = heap /\ leaked' = leaked /\ value' = value
        /\ call' = "duplicate" /\ origin' = o /\ frames' = <<d>>
    BY <1>3, <1>5
  <2>2. Base(heap, live, roots, leaked, {}, {}, m)
    BY <1>1 DEF Still
  <2>3. heap \in Heaps /\ m \in [Items -> 0 .. Size] /\ heap[x] = Blank /\ live \subseteq Items
    BY <1>2, <2>2 DEF Base, Shape, Typed, Dead
  <2>4. o \in Items
    BY <1>1, <2>3, HeldStill
  <2>5. d \in Frame /\ d.item = x /\ d.head = NULL /\ d.last = NULL
    <3>1. heap[o].child \in Items \union {NULL}
      BY <2>3, <2>4, FieldTypes, SizeNat
    <3> QED BY <1>2, <3>1 DEF Fresh, Frame
  <2> HIDE DEF x, d
  <2>6. Base(heap, live \union {x}, roots, leaked, {} \union {x}, {} \union {x}, n)
    BY <1>2, <2>2, SizeNat, BaseNew
  <2>7. frames' \in Seq(Frame) /\ Len(frames') = 1 /\ frames'[1] = d
    BY <2>1, <2>5
  <2>8. CopyTops(frames') = {} \union {x}
    BY <2>5, <2>7 DEF CopyTops
  <2>9. Base(heap', live', roots', leaked', CopyTops(frames'), CopyTops(frames'), n)
    BY <2>1, <2>6, <2>8
  <2>10. n[x] = NULL
    BY <1>2, <2>3, SizeNat DEF Housed
  <2> HIDE DEF n
  <2>11. Loose(heap, n, x) /\ ~ heap[x].ref /\ heap[x].child = NULL
    BY <2>3, <2>10 DEF Loose, Blank
  <2>12. DupInv(heap', live', n, frames')
    BY <2>1, <2>5, <2>7, <2>11 DEF DupInv, DupFrame
  <2>13. CallTyped'
    <3>1. Len(frames') <= CircularLimit + 1
      BY <2>7, CjsonAssumption
    <3>2. value' \in Items \union {NULL}
      BY <2>1 DEF CjsonInv, CallTyped
    <3> QED BY <2>1, <2>4, <2>7, <3>1, <3>2 DEF CallTyped
  <2> QED BY <2>1, <2>9, <2>12, <2>13, CopyInvNext
<1> QED BY <1>4, <1>5

\* Duplicate_rec keeps the invariant when it fails: the copies made so far are freed, each once.
LEMMA DuplicateFailInv == ASSUME CjsonInv, DuplicateFail PROVE CjsonInv'
<1> DEFINE F == UNION {Doomed(heap, frames[i].item) : i \in DOMAIN frames}
<1>0. /\ call = "duplicate" /\ live' = live \ F /\ heap' = Freed(heap, F)
      /\ Return /\ roots' = roots /\ leaked' = leaked
  BY DEF DuplicateFail
<1>01. CallTyped
  BY <1>0, InvCopy
<1>1. PICK m : Base(heap, live, roots, leaked, CopyTops(frames), CopyTops(frames), m)
  BY <1>0, InvCopy
<1>2. heap \in Heaps /\ live \subseteq Items /\ Grounded(heap) /\ CopyTops(frames) \subseteq Items
  BY <1>1 DEF Base, Shape, Typed
<1>3. \A t \in CopyTops(frames) : Doomed(heap, t) = Down(heap, t)
  BY <1>2, DoomedIsDown
<1>4. F = UNION {Doomed(heap, t) : t \in CopyTops(frames)}
  <2>1. DOMAIN frames = 1 .. Len(frames)
    BY <1>01 DEF CallTyped
  <2>2. \A t : t \in CopyTops(frames) <=> \E i \in 1 .. Len(frames) : t = frames[i].item
    BY DEF CopyTops
  <2> QED BY <2>1, <2>2
<1>5. PICK D : D = F
  OBVIOUS
<1> HIDE DEF F
<1>6. D = Reach(heap, CopyTops(frames))
  BY <1>3, <1>4, <1>5 DEF Reach
<1>7. \E n : Still(Freed(heap, D), live \ D, roots, leaked, n)
  <2> DEFINE C == CopyTops(frames)
  <2>1. C \subseteq C /\ Base(heap, live, roots, leaked, C, C, m) /\ D = Reach(heap, C)
    BY <1>1, <1>6
  <2> HIDE DEF C
  <2> QED BY <2>1, FreeCall
<1>8. PICK n : Still(Freed(heap, D), live \ D, roots, leaked, n)
  BY <1>7
<1>9. Still(heap', live', roots', leaked', n)
  BY <1>0, <1>5, <1>8
<1> QED BY <1>0, <1>9, ReturnInv

\* cJSON_Duplicate keeps the invariant when it returns the copy.
LEMMA DuplicateDoneInv == ASSUME CjsonInv, DuplicateDone PROVE CjsonInv'
<1> DEFINE x == frames[1].item
           z == frames[1].last
           c == heap[x].child
<1>0. /\ call = "duplicate" /\ Len(frames) = 1 /\ heap' = Set(heap, c, "prev", z)
      /\ roots' = roots \union {x} /\ Return /\ live' = live /\ leaked' = leaked
  BY DEF DuplicateDone, Top, Closed
<1>01. CallTyped
  BY <1>0, InvCopy
<1>1. PICK m : /\ Base(heap, live, roots, leaked, CopyTops(frames), CopyTops(frames), m)
               /\ DupInv(heap, live, m, frames)
  BY <1>0, InvCopy
<1>2. CopyTops(frames) = {x}
  BY <1>0 DEF CopyTops
<1>3. DupFrame(heap, live, m, frames, 1)
  BY <1>0, <1>1 DEF DupInv
<1>4. /\ x \in live /\ ~ heap[x].ref /\ Loose(heap, m, x)
      /\ Ending(heap, m, x, z)
  BY <1>3 DEF DupFrame, Ending
<1>5. z \in 0 .. Size
  <2>1. frames \in Seq(Frame) /\ 1 \in 1 .. Len(frames)
    BY <1>0, <1>01 DEF CallTyped
  <2>2. z \in Items \union {NULL}
    BY <2>1, FrameFields
  <2> QED BY <2>2, SizeNat
<1> HIDE DEF x, z
<1>6. /\ Shape(heap, live, roots \union leaked \union {x}, {x}, m)
      /\ roots \intersect leaked = {} /\ (roots \union leaked) \intersect {x} = {}
      /\ \A y \in roots \union leaked : Loose(heap, m, y)
      /\ \A y \in leaked : heap[y].ref
  BY <1>1, <1>2 DEF Base
<1>7. heap \in Heaps /\ live \subseteq Items /\ roots \union leaked \subseteq Items
  BY <1>6 DEF Shape, Typed
<1>8. x \in Items /\ c \in 0 .. Size
  BY <1>4, <1>7, FieldTypes
<1>9. PrevSet(heap, heap', c, z)
  BY <1>0, <1>5, <1>7, <1>8, SetIs
<1>10. c \in Items => m[c] = x
  BY <1>4, <1>6, <1>8 DEF Shape, KidHome, Kid, Ending
<1>11. Shape(heap', live, roots \union leaked \union {x}, {x} \ {x}, m)
  <2> DEFINE T == roots \union leaked \union {x}
             O == {x}
             g == heap'
  <2>1. Shape(heap, live, T, O, m) /\ PrevSet(heap, g, c, z) /\ c = heap[x].child
    BY <1>6, <1>9
  <2> HIDE DEF T, O, c, g
  <2>2. Shape(g, live, T, O \ {x}, m)
    BY <1>4, <1>5, <1>8, <2>1, ShapeClosed
  <2> QED BY <2>2 DEF T, O, g
<1>12. {x} \ {x} = {} /\ roots \union leaked \union {x} = (roots \union {x}) \union leaked
       /\ (roots \union {x}) \intersect leaked = {}
  BY <1>6
<1>13. Shape(heap', live, (roots \union {x}) \union leaked, {}, m)
  BY <1>11, <1>12
<1>14. \A y \in Items : /\ heap'[y].ref = heap[y].ref /\ heap'[y].next = heap[y].next
                        /\ m[y] = NULL => heap'[y].prev = heap[y].prev
  <2>1. x # NULL
    BY <1>8, SizeNat
  <2>2. \A y \in Items : m[y] = NULL => y # c
    BY <1>10, <2>1
  <2> HIDE DEF c
  <2> QED BY <1>9, <2>2 DEF PrevSet
<1>15. \A y \in (roots \union {x}) \union leaked : Loose(heap', m, y)
  BY <1>4, <1>6, <1>7, <1>8, <1>14 DEF Loose
<1>16. \A y \in leaked : heap'[y].ref
  BY <1>6, <1>7, <1>14
<1>17. Still(heap', live, roots \union {x}, leaked, m)
  BY <1>12, <1>13, <1>15, <1>16, StillFrom
<1>18. Still(heap', live', roots', leaked', m)
  BY <1>0, <1>17
<1> QED BY <1>0, <1>18, ReturnInv

\* A new Duplicate_rec owns the item it fills.
LEMMA CopyTopsGrow ==
  ASSUME NEW f \in Seq(Frame), NEW top
  PROVE  CopyTops(Append(f, top)) = CopyTops(f) \union {top.item}
<1> DEFINE k == Len(f)
           e == Append(f, top)
<1>1. k \in Nat /\ Len(e) = k + 1 /\ e[k + 1] = top /\ \A i \in 1 .. k : e[i] = f[i]
  OBVIOUS
<1> HIDE DEF k, e
<1>2. \A i \in 1 .. k : i \in 1 .. k + 1
  BY <1>1
<1>3. k + 1 \in 1 .. k + 1 /\ \A i \in 1 .. k + 1 : i = k + 1 \/ i \in 1 .. k
  BY <1>1
<1>4. ASSUME NEW t \in CopyTops(e) PROVE t \in CopyTops(f) \union {top.item}
  <2>1. PICK i \in 1 .. k + 1 : t = e[i].item
    BY <1>1, <1>4 DEF CopyTops
  <2>2. i = k + 1 \/ i \in 1 .. k
    BY <1>3
  <2> QED BY <1>1, <2>1, <2>2 DEF CopyTops, k
<1>5. ASSUME NEW t \in CopyTops(f) \union {top.item} PROVE t \in CopyTops(e)
  <2>1. CASE t = top.item
    BY <1>1, <1>3, <2>1 DEF CopyTops
  <2>2. ASSUME NEW i \in 1 .. k, t = f[i].item PROVE t \in CopyTops(e)
    BY <1>1, <1>2, <2>2 DEF CopyTops
  <2> QED BY <2>1, <2>2 DEF CopyTops, k
<1> QED BY <1>4, <1>5 DEF e

\* The calls of the copier after one more.
LEMMA DuplicateChildFrames ==
  ASSUME NEW h, NEW L, NEW m, NEW f \in Seq(Frame), h \in Heaps, L \subseteq Items, m \in [Items -> 0 .. Size],
         DupInv(h, L, m, f), f[Len(f)].src # NULL,
         NEW x \in Items \ L, h[x] = Blank, m[x] = NULL, NEW top, top.item = x, top.head = NULL, top.last = NULL
  PROVE  DupInv(h, L \union {x}, Housed(m, x, NULL), Append(f, top))
<1> DEFINE k == Len(f)
           e == Append(f, top)
           n == Housed(m, x, NULL)
<1>1. k \in Nat /\ Len(e) = k + 1 /\ e[k + 1] = top /\ \A i \in 1 .. k : e[i] = f[i]
  OBVIOUS
<1>2. k >= 1 /\ (\A i \in 1 .. k : DupFrame(h, L, m, f, i)) /\ \A i \in 1 .. k - 1 : f[i].src # NULL
  BY DEF DupInv
<1>3. n[x] = NULL /\ \A y \in Items : y # x => n[y] = m[y]
  BY DEF Housed
<1>4. f[k].src # NULL
  OBVIOUS
<1> HIDE DEF e, n
<1>5. ASSUME NEW i \in 1 .. k PROVE DupFrame(h, L \union {x}, n, e, i)
  <2>1. /\ f[i].item \in L /\ ~ h[f[i].item].ref /\ Loose(h, m, f[i].item) /\ f[i].head = NULL
        /\ (f[i].last = NULL) <=> (h[f[i].item].child = NULL)
        /\ f[i].last # NULL => IsLast(h, m, f[i].item, f[i].last)
        /\ \A j \in 1 .. k : j # i => f[j].item # f[i].item
    BY <1>2 DEF DupFrame
  <2>2. e[i] = f[i]
    BY <1>1
  <2>3. Loose(h, n, f[i].item)
    BY <1>3, <2>1 DEF Loose
  <2>4. f[i].last # NULL => IsLast(h, n, f[i].item, f[i].last)
    <3> SUFFICES ASSUME f[i].last # NULL PROVE IsLast(h, n, f[i].item, f[i].last)
      OBVIOUS
    <3>1. f[i].last \in Items /\ h[f[i].last].next = NULL /\ m[f[i].last] = f[i].item
      BY <2>1 DEF IsLast
    <3>2. f[i].last # x
      BY <2>1, <3>1, SizeNat
    <3> QED BY <1>3, <3>1, <3>2 DEF IsLast
  <2>5. \A j \in 1 .. Len(e) : j # i => e[j].item # e[i].item
    <3> SUFFICES ASSUME NEW j \in 1 .. k + 1, j # i PROVE e[j].item # f[i].item
      BY <1>1, <2>2
    <3>1. CASE j = k + 1
      BY <1>1, <2>1, <3>1
    <3>2. CASE j # k + 1
      <4>1. j \in 1 .. k
        BY <1>1, <3>2
      <4> QED BY <1>1, <2>1, <4>1
    <3> QED BY <3>1, <3>2
  <2> QED BY <2>1, <2>2, <2>3, <2>4, <2>5 DEF DupFrame
<1>6. DupFrame(h, L \union {x}, n, e, k + 1)
  <2>1. Loose(h, n, x) /\ ~ h[x].ref /\ h[x].child = NULL
    BY <1>3 DEF Loose, Blank
  <2>2. \A j \in 1 .. Len(e) : j # k + 1 => e[j].item # x
    <3> SUFFICES ASSUME NEW j \in 1 .. k + 1, j # k + 1 PROVE e[j].item # x
      BY <1>1
    <3>1. j \in 1 .. k
      BY <1>1
    <3>2. e[j] = f[j] /\ f[j].item \in L
      BY <1>1, <1>2, <3>1 DEF DupFrame
    <3> QED BY <3>2
  <2> QED BY <1>1, <2>1, <2>2 DEF DupFrame
<1>7. \A i \in 1 .. Len(e) : DupFrame(h, L \union {x}, n, e, i)
  <2> SUFFICES ASSUME NEW i \in 1 .. k + 1 PROVE DupFrame(h, L \union {x}, n, e, i)
    BY <1>1
  <2>1. i = k + 1 \/ i \in 1 .. k
    BY <1>1
  <2> QED BY <1>5, <1>6, <2>1
<1>8. \A i \in 1 .. Len(e) - 1 : e[i].src # NULL
  <2> SUFFICES ASSUME NEW i \in 1 .. k PROVE e[i].src # NULL
    BY <1>1
  <2>1. i = k \/ i \in 1 .. k - 1
    BY <1>1
  <2> QED BY <1>1, <1>2, <1>4, <2>1
<1>9. Len(e) >= 1
  BY <1>1
<1> QED BY <1>7, <1>8, <1>9 DEF DupInv, e, n

\* Duplicate_rec keeps the invariant when it calls itself for a child.
LEMMA DuplicateChildInv == ASSUME CjsonInv, DuplicateChild PROVE CjsonInv'
<1> DEFINE x == NewItem
           k == Len(frames)
           d == [Fresh(NewItem) EXCEPT !.src = heap[frames[k].src].child]
           C == CopyTops(frames)
<1>0. /\ call = "duplicate" /\ frames[k].src # NULL /\ k - 1 < CircularLimit /\ Free # {}
      /\ live' = live \union {x} /\ frames' = Append(frames, d)
      /\ heap' = heap /\ roots' = roots /\ leaked' = leaked /\ call' = call /\ value' = value /\ origin' = origin
  BY DEF DuplicateChild, Top
<1>1. CallTyped
  BY <1>0, InvCopy
<1>2. PICK m : Base(heap, live, roots, leaked, C, C, m) /\ DupInv(heap, live, m, frames)
  BY <1>0, InvCopy
<1>3. x \in Items \ live
  BY <1>0, NewItemFree
<1>4. heap \in Heaps /\ live \subseteq Items /\ m \in [Items -> 0 .. Size] /\ heap[x] = Blank /\ m[x] = NULL
  BY <1>2, <1>3, BaseLive
<1>5. frames \in Seq(Frame) /\ k \in Nat /\ k >= 1 /\ k \in 1 .. k
  BY <1>1, <1>2 DEF CallTyped, DupInv
<1>6. frames[k].src \in Items
  BY <1>0, <1>5, FrameFields
<1>7. d \in Frame /\ d.item = x /\ d.head = NULL /\ d.last = NULL
  <2>1. heap[frames[k].src].child \in Items \union {NULL}
    BY <1>4, <1>6, FieldTypes, SizeNat
  <2> QED BY <1>3, <2>1 DEF Fresh, Frame
<1> HIDE DEF x, d
<1>8. DupInv(heap, live \union {x}, Housed(m, x, NULL), Append(frames, d))
  BY <1>0, <1>2, <1>3, <1>4, <1>5, <1>7, DuplicateChildFrames
<1>9. CopyTops(frames') = C \union {x}
  BY <1>0, <1>5, <1>7, CopyTopsGrow
<1> HIDE DEF C
<1>10. Base(heap, live \union {x}, roots, leaked, C \union {x}, C \union {x}, Housed(m, x, NULL))
  BY <1>2, <1>3, SizeNat, BaseNew
<1>11. Base(heap', live', roots', leaked', CopyTops(frames'), CopyTops(frames'), Housed(m, x, NULL))
  BY <1>0, <1>9, <1>10
<1>12. DupInv(heap', live', Housed(m, x, NULL), frames')
  BY <1>0, <1>8
<1>13. CallTyped'
  <2>1. frames' \in Seq(Frame) /\ Len(frames') = k + 1
    BY <1>0, <1>5, <1>7
  <2>2. Len(frames') <= CircularLimit + 1
    BY <1>0, <1>5, <2>1, CjsonAssumption
  <2> QED BY <1>0, <1>1, <2>1, <2>2 DEF CallTyped
<1> QED BY <1>0, <1>11, <1>12, <1>13, CopyInvNext

\* The same, for the owners.
LEMMA BaseClosed ==
  ASSUME NEW h, NEW L, NEW R, NEW K, NEW C, NEW O, NEW m, Base(h, L, R, K, C, O, m), NEW x \in C,
         NEW z \in 0 .. Size, Ending(h, m, x, z), NEW c, c = h[x].child, NEW g, PrevSet(h, g, c, z)
  PROVE  Base(g, L, R, K, C, O \ {x}, m)
<1> DEFINE T == R \union K \union C
<1>1. /\ Shape(h, L, T, O, m)
      /\ R \intersect K = {} /\ (R \union K) \intersect C = {}
      /\ \A y \in R \union K : Loose(h, m, y)
      /\ \A y \in K : h[y].ref
  BY DEF Base
<1>2. x \in Items /\ T \subseteq Items /\ h \in Heaps
  BY <1>1 DEF Shape, Typed
<1>3. Shape(g, L, T, O \ {x}, m)
  <2> HIDE DEF T
  <2> QED BY <1>1, <1>2, ShapeClosed
<1>4. c \in Items => m[c] = x
  BY <1>1, <1>2 DEF Ending, Shape, KidHome, Kid
<1>5. x # NULL
  BY <1>2, SizeNat
<1>6. ASSUME NEW y \in R \union K PROVE Loose(g, m, y) /\ g[y].ref = h[y].ref
  <2>1. y \in Items /\ y # c /\ Loose(h, m, y)
    BY <1>1, <1>2, <1>4, <1>5 DEF Loose
  <2> QED BY <2>1 DEF Loose, PrevSet
<1> QED BY <1>1, <1>3, <1>6 DEF Base

\* x is hung below u, after w if there is one.
Hung(h, g, u, w, x) == IF w = NULL THEN ChildSet(h, g, u, x) ELSE LinkedAfter(h, g, w, x)

\* The copied child x becomes the first or the last of the list of u.
LEMMA ShapeHung ==
  ASSUME NEW h, NEW L, NEW T, NEW O, NEW m, Shape(h, L, T, O, m), NEW u \in T, NEW x \in T, u # x,
         NEW w, Ending(h, m, u, w), Loose(h, m, x), \A t \in T : m[t] = NULL,
         NEW g, Hung(h, g, u, w, x)
  PROVE  Shape(g, L, T \ {x}, O \union {u}, Housed(m, x, u))
<1>1. /\ T \subseteq L /\ L \subseteq Items /\ u \in L /\ u \in Items /\ x \in Items /\ h \in Heaps
      /\ u # NULL /\ h[x].next = NULL
  BY SizeNat DEF Shape, Typed, Loose
<1>2. ~ h[u].ref /\ ((w = NULL) <=> (h[u].child = NULL)) /\ (w # NULL => IsLast(h, m, u, w))
  BY DEF Ending
<1>3. u \notin Down(h, x)
  <2>1. Down(h, u) \intersect Down(h, x) = {}
    BY DownApart
  <2>2. u \in Down(h, u)
    BY <1>1, DownFacts
  <2> QED BY <2>1, <2>2
<1>4. CASE w = NULL
  <2>1. Kid(h, u) = NULL
    BY <1>2, <1>4 DEF Kid
  <2>2. /\ g \in Heaps
        /\ \A y \in Items : /\ g[y].next = h[y].next /\ g[y].prev = h[y].prev
                            /\ g[y].ref = h[y].ref /\ g[y].child = IF y = u THEN x ELSE h[y].child
    BY <1>4 DEF Hung, ChildSet
  <2>3. \A t \in T \ {x} : m[t] # u
    BY <1>1
  <2> QED BY <1>1, <1>2, <1>3, <2>1, <2>2, <2>3, ShapeLinkFirst
<1>5. CASE w # NULL
  <2>1. w \in Items /\ h[w].next = NULL /\ m[w] = u
    BY <1>2, <1>5 DEF IsLast
  <2>2. w \in L
    BY <1>1, <2>1 DEF Shape, Dead
  <2>3. Kid(h, u) # NULL
    BY <1>2, <1>5 DEF Kid
  <2>4. w \notin Down(h, x)
    <3>1. PICK D : D = Down(h, x)
      OBVIOUS
    <3>2. Span(h, T, D) /\ u \in Items \ D
      BY <1>1, <1>3, <3>1, DownSpan
    <3>3. \A y \in D : m[y] # u
      BY <2>3, <3>2, HomeOutside
    <3> QED BY <2>1, <3>1, <3>3
  <2>5. LinkedAfter(h, g, w, x)
    BY <1>5 DEF Hung
  <2> QED BY <1>1, <2>1, <2>2, <2>4, <2>5, ShapeLinkLast
<1> QED BY <1>4, <1>5

\* What hanging x below u leaves alone.
Attached(h, g, m, u, w, x) ==
    /\ g \in Heaps
    /\ \A y \in Items : /\ g[y].ref = h[y].ref
                        /\ g[y].child = IF w = NULL /\ y = u THEN x ELSE h[y].child
                        /\ y # w => g[y].next = h[y].next
                        /\ m[y] = NULL /\ y # x => g[y].prev = h[y].prev

\* Hanging x leaves these alone.
LEMMA HungAttached ==
  ASSUME NEW h, NEW m, NEW u, NEW w, NEW x, NEW g, Hung(h, g, u, w, x)
  PROVE  Attached(h, g, m, u, w, x)
<1>1. CASE w = NULL
  BY <1>1, SizeNat DEF Hung, ChildSet, Attached
<1>2. CASE w # NULL
  BY <1>2 DEF Hung, LinkedAfter, Attached
<1> QED BY <1>1, <1>2

\* The same, for the owners.
LEMMA BaseHung ==
  ASSUME NEW h, NEW L, NEW R, NEW K, NEW C, NEW O, NEW m, Base(h, L, R, K, C, O, m), NEW u \in C, NEW x \in C,
         u # x, NEW w, Ending(h, m, u, w), \A t \in C : Loose(h, m, t),
         NEW g, Hung(h, g, u, w, x)
  PROVE  Base(g, L, R, K, C \ {x}, O \union {u}, Housed(m, x, u))
<1> DEFINE T == R \union K \union C
           n == Housed(m, x, u)
<1>1. /\ Shape(h, L, T, O, m)
      /\ R \intersect K = {} /\ (R \union K) \intersect C = {}
      /\ \A y \in R \union K : Loose(h, m, y)
      /\ \A y \in K : h[y].ref
  BY DEF Base
<1>2. \A t \in T : m[t] = NULL /\ Loose(h, m, t)
  BY <1>1 DEF Loose
<1>3. u \in T /\ x \in T
  OBVIOUS
<1>4. Shape(g, L, T \ {x}, O \union {u}, n)
  <2> HIDE DEF T, n
  <2>1. Loose(h, m, x) /\ \A t \in T : m[t] = NULL
    BY <1>2, <1>3
  <2>2. Shape(g, L, T \ {x}, O \union {u}, Housed(m, x, u))
    BY <1>1, <1>3, <2>1, ShapeHung
  <2> QED BY <2>2 DEF n
<1>5. T \ {x} = R \union K \union (C \ {x}) /\ (R \union K) \intersect (C \ {x}) = {}
  BY <1>1
<1>6. T \subseteq Items /\ m \in [Items -> 0 .. Size] /\ u # NULL
  BY <1>1, <1>3, SizeNat DEF Shape, Typed
<1>7. Attached(h, g, m, u, w, x)
  BY HungAttached
<1>8. ASSUME NEW y \in R \union K PROVE Loose(g, n, y) /\ g[y].ref = h[y].ref
  <2>1. y \in Items /\ y # x /\ Loose(h, m, y)
    BY <1>1, <1>6
  <2>2. y # w
    <3>1. w # NULL => m[w] = u
      BY DEF Ending, IsLast
    <3> QED BY <1>6, <2>1, <3>1, SizeNat DEF Loose
  <2>3. n[y] = m[y]
    BY <1>6, <2>1 DEF Housed
  <2> HIDE DEF n
  <2> QED BY <1>7, <2>1, <2>2, <2>3 DEF Loose, Attached
<1>9. Shape(g, L, R \union K \union (C \ {x}), O \union {u}, n)
  BY <1>4, <1>5
<1> HIDE DEF n
<1>10. Base(g, L, R, K, C \ {x}, O \union {u}, n)
  BY <1>1, <1>5, <1>8, <1>9 DEF Base
<1> QED BY <1>10 DEF n

\* Closing a ring disturbs no call of the copier.
LEMMA DupClosed ==
  ASSUME NEW h, NEW L, NEW m, NEW f, L \subseteq Items, DupInv(h, L, m, f),
         NEW c, c \in Items => m[c] # NULL, NEW z, NEW g, PrevSet(h, g, c, z)
  PROVE  DupInv(g, L, m, f)
<1>1. ASSUME NEW i \in 1 .. Len(f) PROVE DupFrame(g, L, m, f, i)
  <2>1. /\ f[i].item \in L /\ ~ h[f[i].item].ref /\ Loose(h, m, f[i].item) /\ f[i].head = NULL
        /\ (f[i].last = NULL) <=> (h[f[i].item].child = NULL)
        /\ f[i].last # NULL => IsLast(h, m, f[i].item, f[i].last)
        /\ \A j \in 1 .. Len(f) : j # i => f[j].item # f[i].item
    BY DEF DupInv, DupFrame
  <2>2. f[i].item \in Items /\ f[i].item # c
    BY <2>1 DEF Loose
  <2>3. Loose(g, m, f[i].item) /\ g[f[i].item].ref = h[f[i].item].ref /\ g[f[i].item].child = h[f[i].item].child
    BY <2>1, <2>2 DEF Loose, PrevSet
  <2>4. f[i].last # NULL => IsLast(g, m, f[i].item, f[i].last)
    BY <2>1 DEF IsLast, PrevSet
  <2> QED BY <2>1, <2>3, <2>4 DEF DupFrame
<1> QED BY <1>1 DEF DupInv

\* e is f after its top frame returned x to the one below.
Passed(f, e, x) ==
    /\ Len(e) = Len(f) - 1
    /\ \A i \in 1 .. Len(f) - 2 : e[i] = f[i]
    /\ e[Len(f) - 1].item = f[Len(f) - 1].item /\ e[Len(f) - 1].head = f[Len(f) - 1].head
    /\ e[Len(f) - 1].last = x

\* The calls of the copier when one returns.
LEMMA DuplicateReturnFrames ==
  ASSUME NEW h, NEW L, NEW m, NEW f, NEW k \in Nat, k = Len(f), k > 1, L \subseteq Items, m \in [Items -> 0 .. Size],
         DupInv(h, L, m, f), NEW x, x = f[k].item, NEW u, u = f[k - 1].item, NEW w, w = f[k - 1].last,
         NEW g, Attached(h, g, m, u, w, x), NEW e, Passed(f, e, x), NEW n, n = Housed(m, x, u)
  PROVE  DupInv(g, L, n, e)
<1>1. /\ Len(e) = k - 1 /\ (\A i \in 1 .. k - 2 : e[i] = f[i])
      /\ e[k - 1].item = u /\ e[k - 1].head = f[k - 1].head /\ e[k - 1].last = x
  BY DEF Passed
<1>2. (\A i \in 1 .. k : DupFrame(h, L, m, f, i)) /\ \A i \in 1 .. k - 1 : f[i].src # NULL
  BY DEF DupInv
<1>3. k \in 1 .. k /\ k - 1 \in 1 .. k /\ k - 1 # k
  OBVIOUS
<1>4. x \in L /\ Loose(h, m, x) /\ x \in Items /\ x # NULL
  BY <1>2, <1>3, SizeNat DEF DupFrame
<1>5. /\ u \in L /\ u \in Items /\ u # NULL /\ ~ h[u].ref /\ Loose(h, m, u) /\ f[k - 1].head = NULL
      /\ ((w = NULL) <=> (h[u].child = NULL)) /\ (w # NULL => IsLast(h, m, u, w))
      /\ \A j \in 1 .. k : j # k - 1 => f[j].item # u
  BY <1>2, <1>3, SizeNat DEF DupFrame
<1>6. u # x
  BY <1>3, <1>5
<1>7. n[x] = u /\ \A y \in Items : y # x => n[y] = m[y]
  BY <1>4, <1>5 DEF Housed
<1>8. /\ g \in Heaps
      /\ \A y \in Items : /\ g[y].ref = h[y].ref
                          /\ g[y].child = IF w = NULL /\ y = u THEN x ELSE h[y].child
                          /\ y # w => g[y].next = h[y].next
                          /\ m[y] = NULL /\ y # x => g[y].prev = h[y].prev
  BY DEF Attached
<1>9. w # NULL => w \in Items /\ m[w] = u
  BY <1>5 DEF IsLast
<1>10. \A y \in Items : Loose(h, m, y) /\ y # x => Loose(g, n, y)
  <2> SUFFICES ASSUME NEW y \in Items, Loose(h, m, y), y # x PROVE Loose(g, n, y)
    OBVIOUS
  <2>1. h[y].next = NULL /\ h[y].prev = NULL /\ m[y] = NULL
    BY DEF Loose
  <2>2. y # w
    BY <1>5, <1>9, <2>1, SizeNat
  <2> QED BY <1>7, <1>8, <2>1, <2>2 DEF Loose
<1>11. ASSUME NEW i \in 1 .. k - 2 PROVE DupFrame(g, L, n, e, i)
  <2>1. i \in 1 .. k /\ i # k /\ i # k - 1
    OBVIOUS
  <2>2. /\ f[i].item \in L /\ ~ h[f[i].item].ref /\ Loose(h, m, f[i].item) /\ f[i].head = NULL
        /\ (f[i].last = NULL) <=> (h[f[i].item].child = NULL)
        /\ f[i].last # NULL => IsLast(h, m, f[i].item, f[i].last)
        /\ \A j \in 1 .. k : j # i => f[j].item # f[i].item
    BY <1>2, <2>1 DEF DupFrame
  <2>3. e[i] = f[i] /\ f[i].item # x /\ f[i].item # u /\ f[i].item \in Items
    BY <1>1, <1>3, <2>1, <2>2
  <2>4. Loose(g, n, f[i].item)
    BY <1>10, <2>2, <2>3
  <2>5. ~ g[f[i].item].ref /\ g[f[i].item].child = h[f[i].item].child
    BY <1>8, <2>2, <2>3
  <2>6. f[i].last # NULL => IsLast(g, n, f[i].item, f[i].last)
    <3> SUFFICES ASSUME f[i].last # NULL PROVE IsLast(g, n, f[i].item, f[i].last)
      OBVIOUS
    <3>1. f[i].last \in Items /\ h[f[i].last].next = NULL /\ m[f[i].last] = f[i].item
      BY <2>2 DEF IsLast
    <3>2. f[i].last # x
      BY <1>4, <2>3, <3>1, SizeNat DEF Loose
    <3>3. f[i].last # w
      BY <1>9, <2>3, <3>1
    <3> QED BY <1>7, <1>8, <3>1, <3>2, <3>3 DEF IsLast
  <2>7. \A j \in 1 .. Len(e) : j # i => e[j].item # e[i].item
    <3> SUFFICES ASSUME NEW j \in 1 .. k - 1, j # i PROVE e[j].item # f[i].item
      BY <1>1, <2>3
    <3>1. CASE j = k - 1
      BY <1>1, <2>3, <3>1
    <3>2. CASE j # k - 1
      <4>1. j \in 1 .. k - 2 /\ j \in 1 .. k
        BY <3>2
      <4> QED BY <1>1, <2>2, <4>1
    <3> QED BY <3>1, <3>2
  <2> QED BY <2>2, <2>3, <2>4, <2>5, <2>6, <2>7 DEF DupFrame
<1>12. DupFrame(g, L, n, e, k - 1)
  <2>1. Loose(g, n, u) /\ ~ g[u].ref
    BY <1>5, <1>6, <1>8, <1>10
  <2>2. g[u].child # NULL
    BY <1>4, <1>5, <1>8
  <2>3. IsLast(g, n, u, x)
    <3>1. x # w
      BY <1>4, <1>5, <1>9 DEF Loose
    <3> QED BY <1>4, <1>7, <1>8, <3>1 DEF IsLast, Loose
  <2>4. \A j \in 1 .. Len(e) : j # k - 1 => e[j].item # u
    <3> SUFFICES ASSUME NEW j \in 1 .. k - 1, j # k - 1 PROVE e[j].item # u
      BY <1>1
    <3>1. j \in 1 .. k - 2 /\ j \in 1 .. k
      OBVIOUS
    <3> QED BY <1>1, <1>5, <3>1
  <2> QED BY <1>1, <1>4, <1>5, <2>1, <2>2, <2>3, <2>4 DEF DupFrame
<1>13. \A i \in 1 .. Len(e) : DupFrame(g, L, n, e, i)
  <2> SUFFICES ASSUME NEW i \in 1 .. k - 1 PROVE DupFrame(g, L, n, e, i)
    BY <1>1
  <2>1. i = k - 1 \/ i \in 1 .. k - 2
    OBVIOUS
  <2> QED BY <1>11, <1>12, <2>1
<1>14. \A i \in 1 .. Len(e) - 1 : e[i].src # NULL
  <2> SUFFICES ASSUME NEW i \in 1 .. k - 2 PROVE e[i].src # NULL
    BY <1>1
  <2>1. i \in 1 .. k - 1
    OBVIOUS
  <2> QED BY <1>1, <1>2, <2>1
<1>15. Len(e) >= 1
  BY <1>1
<1> QED BY <1>13, <1>14, <1>15 DEF DupInv

\* The item it filled is no longer its own.
LEMMA CopyTopsShrink ==
  ASSUME NEW h, NEW L, NEW m, NEW f, NEW k \in Nat, k = Len(f), k > 1, DupInv(h, L, m, f),
         NEW x, x = f[k].item, NEW e, Passed(f, e, x)
  PROVE  CopyTops(e) = CopyTops(f) \ {x}
<1>1. /\ Len(e) = k - 1 /\ (\A i \in 1 .. k - 2 : e[i] = f[i]) /\ e[k - 1].item = f[k - 1].item
  BY DEF Passed
<1>2. \A i \in 1 .. k - 1 : e[i].item = f[i].item
  <2> SUFFICES ASSUME NEW i \in 1 .. k - 1 PROVE e[i].item = f[i].item
    OBVIOUS
  <2>1. i = k - 1 \/ i \in 1 .. k - 2
    OBVIOUS
  <2> QED BY <1>1, <2>1
<1>3. k \in 1 .. k /\ \A i \in 1 .. k : i = k \/ i \in 1 .. k - 1
  OBVIOUS
<1>4. \A i \in 1 .. k - 1 : i \in 1 .. k /\ i # k
  OBVIOUS
<1>5. \A j \in 1 .. k : j # k => f[j].item # x
  BY <1>3 DEF DupInv, DupFrame
<1>6. ASSUME NEW t \in CopyTops(e) PROVE t \in CopyTops(f) \ {x}
  <2>1. PICK i \in 1 .. k - 1 : t = e[i].item
    BY <1>1, <1>6 DEF CopyTops
  <2> QED BY <1>2, <1>4, <1>5, <2>1 DEF CopyTops
<1>7. ASSUME NEW t \in CopyTops(f) \ {x} PROVE t \in CopyTops(e)
  <2>1. PICK i \in 1 .. k : t = f[i].item
    BY <1>7 DEF CopyTops
  <2>2. i \in 1 .. k - 1
    BY <1>3, <1>7, <2>1
  <2> QED BY <1>1, <1>2, <2>1, <2>2 DEF CopyTops
<1> QED BY <1>6, <1>7

\* The stack after a copied child returned.
LEMMA ReturnedFrames ==
  ASSUME NEW f \in Seq(Frame), NEW k \in Nat, k = Len(f), k > 1, NEW up \in Frame, NEW x,
         up.item = f[k - 1].item, up.head = f[k - 1].head, up.last = x,
         NEW e, e = [Front(f) EXCEPT ![k - 1] = up]
  PROVE  e \in Seq(Frame) /\ Passed(f, e, x)
<1>1. /\ Front(f) \in Seq(Frame) /\ Len(Front(f)) = k - 1
      /\ \A i \in 1 .. k - 1 : Front(f)[i] = f[i]
  BY FrontIs
<1>2. k - 1 \in 1 .. k - 1 /\ k - 1 \in Nat
  OBVIOUS
<1>3. PICK r : r = Front(f)
  OBVIOUS
<1>4. r \in Seq(Frame) /\ Len(r) = k - 1 /\ e = [r EXCEPT ![k - 1] = up]
  BY <1>1, <1>3
<1>5. e \in Seq(Frame) /\ Len(e) = k - 1 /\ e[k - 1] = up
  <2>1. DOMAIN r = 1 .. k - 1 /\ r \in [1 .. k - 1 -> Frame]
    BY <1>2, <1>4
  <2>2. e \in [1 .. k - 1 -> Frame]
    BY <1>4, <2>1
  <2>3. e[k - 1] = up
    BY <1>2, <1>4, <2>1
  <2>4. Len(e) = k - 1 /\ \E j \in Nat : j = k - 1 /\ e \in [1 .. j -> Frame]
    BY <1>2, <2>2
  <2>5. e \in Seq(Frame)
    BY <2>4, Zenon, SeqDef
  <2> QED BY <2>3, <2>4, <2>5
<1>6. \A i \in 1 .. k - 2 : e[i] = f[i]
  <2> SUFFICES ASSUME NEW i \in 1 .. k - 2 PROVE e[i] = f[i]
    OBVIOUS
  <2>1. i \in 1 .. k - 1 /\ i # k - 1
    OBVIOUS
  <2>2. e[i] = r[i]
    BY <1>4, <2>1
  <2> QED BY <1>1, <1>3, <2>1, <2>2
<1> QED BY <1>5, <1>6 DEF Passed

\* Duplicate_rec keeps the invariant when it returns a child to the call above.
LEMMA DuplicateReturnInv == ASSUME CjsonInv, DuplicateReturn PROVE CjsonInv'
<1> DEFINE k == Len(frames)
           x == frames[k].item
           z == frames[k].last
           u == frames[k - 1].item
           w == frames[k - 1].last
           c == heap[x].child
           g == Set(heap, c, "prev", z)
           C == CopyTops(frames)
           up == [frames[k - 1] EXCEPT !.last = x, !.src = heap[@].next]
<1>0. /\ call = "duplicate" /\ k > 1
      /\ heap' = (IF w = NULL THEN Set(g, u, "child", x) ELSE suffix_object(g, w, x))
      /\ frames' = [Front(frames) EXCEPT ![k - 1] = up]
      /\ live' = live /\ roots' = roots /\ leaked' = leaked /\ call' = call /\ value' = value /\ origin' = origin
  BY DEF DuplicateReturn, Top, Closed, AttachCopy
<1>1. CallTyped
  BY <1>0, InvCopy
<1>2. PICK m : Base(heap, live, roots, leaked, C, C, m) /\ DupInv(heap, live, m, frames)
  BY <1>0, InvCopy
<1>3. heap \in Heaps /\ live \subseteq Items /\ m \in [Items -> 0 .. Size]
  BY <1>2, BaseLive
<1>4. /\ frames \in Seq(Frame) /\ k \in Nat /\ k <= CircularLimit + 1
  BY <1>0, <1>1 DEF CallTyped
<1>5. k \in 1 .. k /\ k - 1 \in 1 .. k /\ k - 1 # k /\ k - 1 \in 1 .. k - 1
  BY <1>0, <1>4
<1>6. DupFrame(heap, live, m, frames, k) /\ DupFrame(heap, live, m, frames, k - 1) /\ frames[k - 1].src # NULL
  BY <1>2, <1>5 DEF DupInv
<1>7. /\ x \in live /\ u \in live /\ u # x /\ Ending(heap, m, x, z) /\ Ending(heap, m, u, w)
  BY <1>5, <1>6 DEF DupFrame, Ending
<1>8. /\ x \in Items /\ u \in Items /\ x # NULL /\ z \in 0 .. Size /\ w \in 0 .. Size
      /\ frames[k - 1] \in Frame /\ frames[k - 1].src \in Items
  <2>1. frames[k].last \in Items \union {NULL} /\ frames[k - 1].last \in Items \union {NULL}
        /\ frames[k - 1] \in Frame /\ frames[k - 1].src \in Items \union {NULL}
    BY <1>4, <1>5, FrameFields
  <2> QED BY <1>3, <1>6, <1>7, <2>1, SizeNat
<1>9. c \in 0 .. Size
  BY <1>3, <1>8, FieldTypes
<1>10. PrevSet(heap, g, c, z) /\ g \in Heaps
  <2> HIDE DEF c, z
  <2> QED BY <1>3, <1>8, <1>9, SetIs, SetHeap
<1>11. up \in Frame /\ up.item = u /\ up.head = frames[k - 1].head /\ up.last = x
  <2>1. heap[frames[k - 1].src].next \in Items \union {NULL}
    BY <1>3, <1>8, FieldTypes, SizeNat
  <2> QED BY <1>8, <2>1 DEF Frame
<1>12. frames' \in Seq(Frame) /\ Passed(frames, frames', x)
  <2> HIDE DEF up, x
  <2>1. k = Len(frames)
    OBVIOUS
  <2> HIDE DEF k
  <2> QED BY <1>0, <1>4, <1>11, <2>1, ReturnedFrames
<1>13. c \in Items => m[c] = x
  <2>1. KidHome(heap, m) /\ ~ heap[x].ref
    BY <1>2, <1>7 DEF Base, Shape, Ending
  <2> QED BY <1>8, <2>1 DEF KidHome, Kid
<1>14. c \in Items => m[c] # NULL
  BY <1>8, <1>13
<1>15. DupInv(g, live, m, frames)
  <2> HIDE DEF c, g, z
  <2> QED BY <1>2, <1>3, <1>10, <1>14, DupClosed
<1>16. x \in C /\ u \in C
  BY <1>5 DEF CopyTops
<1>17. Base(g, live, roots, leaked, C, C \ {x}, m)
  <2>1. c = heap[x].child
    OBVIOUS
  <2> HIDE DEF C, x, z, c, g
  <2> QED BY <1>2, <1>7, <1>8, <1>10, <1>16, <2>1, BaseClosed
<1>18. Ending(g, m, u, w) /\ \A t \in C : Loose(g, m, t)
  <2>1. DupFrame(g, live, m, frames, k - 1)
    BY <1>5, <1>15 DEF DupInv
  <2>2. \A i \in 1 .. k : Loose(g, m, frames[i].item)
    BY <1>15 DEF DupInv, DupFrame
  <2> QED BY <2>1, <2>2 DEF DupFrame, Ending, CopyTops
<1>19. Hung(g, heap', u, w, x)
  <2> HIDE DEF u, w, x, g
  <2>1. CASE w = NULL
    <3>1. u \in 0 .. Size /\ x \in 0 .. Size
      BY <1>8, SizeNat
    <3>2. ChildSet(g, Set(g, u, "child", x), u, x)
      BY <1>10, <3>1, SetIs
    <3> QED BY <1>0, <2>1, <3>2 DEF Hung
  <2>2. CASE w # NULL
    <3>1. w \in Items
      BY <1>8, <2>2, SizeNat
    <3>2. LinkedAfter(g, suffix_object(g, w, x), w, x)
      BY <1>8, <1>10, <3>1, SuffixFields
    <3> QED BY <1>0, <2>2, <3>2 DEF Hung
  <2> QED BY <2>1, <2>2
<1> DEFINE n == Housed(m, x, u)
<1>20. DupInv(heap', live, n, frames')
  <2>1. Attached(g, heap', m, u, w, x)
    BY <1>19, HungAttached
  <2>2. k = Len(frames) /\ x = frames[k].item /\ u = frames[k - 1].item /\ w = frames[k - 1].last /\ n = Housed(m, x, u)
    OBVIOUS
  <2>3. k \in Nat /\ k > 1
    BY <1>0, <1>4
  <2> HIDE DEF k, x, u, w, n, g
  <2> QED BY <1>3, <1>12, <1>15, <2>1, <2>2, <2>3, DuplicateReturnFrames
<1>21. CopyTops(frames') = C \ {x}
  <2>1. k = Len(frames) /\ x = frames[k].item /\ k \in Nat /\ k > 1
    BY <1>0, <1>4
  <2> HIDE DEF k, x
  <2> QED BY <1>2, <1>12, <2>1, CopyTopsShrink
<1>22. Base(heap', live, roots, leaked, C \ {x}, (C \ {x}) \union {u}, n)
  <2> DEFINE O == C \ {x}
  <2>1. Base(g, live, roots, leaked, C, O, m)
    BY <1>17
  <2> HIDE DEF C, O, x, u, w, g
  <2>2. Base(heap', live, roots, leaked, C \ {x}, O \union {u}, Housed(m, x, u))
    BY <1>7, <1>16, <1>18, <1>19, <2>1, BaseHung
  <2> QED BY <2>2 DEF O
<1>23. (C \ {x}) \union {u} = C \ {x}
  BY <1>7, <1>16
<1>24. Base(heap', live', roots', leaked', CopyTops(frames'), CopyTops(frames'), n)
  BY <1>0, <1>21, <1>22, <1>23
<1>25. DupInv(heap', live', n, frames')
  BY <1>0, <1>20
<1>26. CallTyped'
  <2>1. Len(frames') <= CircularLimit + 1
    BY <1>4, <1>12, CjsonAssumption DEF Passed
  <2> QED BY <1>0, <1>1, <1>12, <2>1 DEF CallTyped
<1> QED BY <1>0, <1>24, <1>25, <1>26, CopyInvNext

-----------------------------------------------------------------------------
(* The theorems.                                                           *)

\* An empty heap is sound.
LEMMA CjsonInit == Init => CjsonInv
<1> SUFFICES ASSUME Init PROVE CjsonInv
  OBVIOUS
<1> DEFINE m == [x \in Items |-> NULL]
<1>0. /\ heap = [x \in Items |-> Blank] /\ live = {} /\ roots = {} /\ leaked = {}
      /\ call = "none" /\ frames = <<>> /\ value = NULL /\ origin = NULL
  BY DEF Init
<1>1. m \in [Items -> 0 .. Size] /\ heap \in Heaps
  BY <1>0, SizeNat DEF Heaps, Blank
<1>2. \A x \in Items : /\ heap[x] = Blank /\ m[x] = NULL /\ heap[x].next = NULL /\ Kid(heap, x) = NULL
  BY <1>0 DEF Blank, Kid
<1> HIDE DEF m
<1>3. \A x, y \in Items : ~ Follows(heap, x, y)
  BY <1>2, SizeNat DEF Follows
<1>4. Typed(heap, {}, {}, m) /\ Dead(heap, {}, m) /\ Inside(heap, {}, {}) /\ Reached(heap, {}, {})
  BY <1>1, <1>2, <1>3 DEF Typed, Dead, Inside, Reached
<1>5. NextBack(heap, m) /\ KidHome(heap, m) /\ Rings(heap, {}, m) /\ TopsFree(heap, {}, m)
  BY <1>2, SizeNat DEF NextBack, KidHome, Rings, TopsFree
<1>6. Grounded(heap)
  BY <1>3, Zenon DEF Grounded
<1>7. Shape(heap, {}, {}, {}, m)
  BY <1>4, <1>5, <1>6 DEF Shape
<1>8. CallTops("none", frames) = {} /\ OpenTops("none", frames) = {}
  BY IdleTops
<1>9. Base(heap, live, roots, leaked, CallTops(call, frames), OpenTops(call, frames), m)
  <2>1. Base(heap, {}, {}, {}, {}, {}, m)
    BY <1>7 DEF Base
  <2> QED BY <1>0, <1>8, <2>1
<1>10. Sound(heap, live, roots, leaked, call, frames, value, m)
  BY <1>0, <1>9 DEF Sound
<1>11. CallTyped
  BY <1>0 DEF CallTyped
<1> QED BY <1>1, <1>10, <1>11 DEF CjsonInv

\* What changes nothing keeps the invariant.
LEMMA CjsonStutter == ASSUME CjsonInv, UNCHANGED vars PROVE CjsonInv'
  BY DEF vars, CjsonInv, CallTyped

\* Every call of the caller that runs in one step keeps the invariant.
LEMMA EditInv == ASSUME CjsonInv, call = "none", Edit PROVE CjsonInv'
<1>1. CASE Create
  BY <1>1, CreateInv
<1>2. CASE CreateReference
  BY <1>2, CreateReferenceInv
<1>3. CASE CreateArrayOf
  BY <1>3, CreateArrayOfInv
<1>4. CASE AddItem
  BY <1>4, AddItemInv
<1>5. CASE AddNewItem
  BY <1>5, AddNewItemInv
<1>6. CASE AddItemReference
  BY <1>6, AddItemReferenceInv
<1>7. CASE AddItemReferenceFails
  BY <1>7, AddItemReferenceFailsInv
<1>8. CASE DetachItem
  BY <1>8, DetachItemInv
<1>9. CASE DeleteItem
  BY <1>9, DeleteItemInv
<1>10. CASE InsertItemInArray
  BY <1>10, InsertItemInv
<1>11. CASE ReplaceItem
  BY <1>11, ReplaceItemInv
<1>12. CASE Delete
  BY <1>12, DeleteInv
<1> QED BY <1>1, <1>2, <1>3, <1>4, <1>5, <1>6, <1>7, <1>8, <1>9, <1>10, <1>11, <1>12 DEF Edit

\* Every step keeps the invariant.
LEMMA CjsonNext == ASSUME CjsonInv, [Next]_vars PROVE CjsonInv'
<1>1. CASE call = "none" /\ Editable /\ Edit
  BY <1>1, EditInv
<1>2. CASE Parse
  BY <1>2, ParseCallInv
<1>3. CASE ParseScalar
  BY <1>3, ParseScalarInv
<1>4. CASE ParseOpen
  BY <1>4, ParseOpenInv
<1>5. CASE ParseComma
  BY <1>5, ParseCommaInv
<1>6. CASE ParseClose
  BY <1>6, ParseCloseInv
<1>7. CASE ParseDone
  BY <1>7, ParseDoneInv
<1>8. CASE ParseFail
  BY <1>8, ParseFailInv
<1>9. CASE Duplicate
  BY <1>9, DuplicateInv
<1>10. CASE DuplicateChild
  BY <1>10, DuplicateChildInv
<1>11. CASE DuplicateReturn
  BY <1>11, DuplicateReturnInv
<1>12. CASE DuplicateDone
  BY <1>12, DuplicateDoneInv
<1>13. CASE DuplicateFail
  BY <1>13, DuplicateFailInv
<1>14. CASE UNCHANGED vars
  BY <1>14, CjsonStutter
<1> QED BY <1>1, <1>2, <1>3, <1>4, <1>5, <1>6, <1>7, <1>8, <1>9, <1>10, <1>11, <1>12, <1>13, <1>14 DEF Next

\* At all times, whatever calls built and changed the trees, the pointers between cJSON items
\* form disjoint trees of doubly linked lists, the rings are closed but for the lists a copy
\* is building, and the calls on the stack of parse_value or Duplicate_rec own what they build.
THEOREM CjsonInvariant == Spec => []CjsonInv
<1>1. Init => CjsonInv
  BY CjsonInit
<1>2. CjsonInv /\ [Next]_vars => CjsonInv'
  BY CjsonNext
<1> QED BY <1>1, <1>2, PTL DEF Spec

\* The state keeps its types: the stacks stay below CJSON_NESTING_LIMIT and CJSON_CIRCULAR_LIMIT,
\* and free items are blank.
THEOREM CjsonTyped == Spec => []TypeOK
  BY CjsonInvariant, InvTyped, PTL

\* Every list the caller can reach is whole: next and prev are inverse, the walk along next
\* ends, and the prev of the first child is the last one, where add_item_to_array appends.
THEOREM CjsonRingsClosed == Spec => []RingsClosed
  BY CjsonInvariant, InvRings, PTL

\* Every allocated item has exactly one owner, so cJSON_Delete frees nothing twice, and a
\* parse or a copy that fails part of the way loses nothing.
THEOREM CjsonOwnedOnce == Spec => []OwnedOnce
  BY CjsonInvariant, InvOwned, PTL
=============================================================================
