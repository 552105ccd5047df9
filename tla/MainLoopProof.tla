---------------------------- MODULE MainLoopProof -----------------------------
(***************************************************************************)
(* Proofs about the parts of the main loop: the user interface, the keys   *)
(* of the terminal, the linked list, the circular buffer, the calendar,    *)
(* the terminal as a line editor, and the global variables, in this order. *)
(* Each part has an inductive invariant of its own, which a run of another *)
(* part leaves alone, and so the last theorem joins them.  The provers     *)
(* have no induction: where one is needed, the least number at which a     *)
(* fact fails is shown not to exist, and a recursive function is shown to  *)
(* exist up to each number.                                                *)
(*   The snake stays one path because a path is kept by each of the two    *)
(* ways its head moves; so its invariant has the path itself, as a         *)
(* function from 0 .. n to points, where the model follows the steps.      *)
(***************************************************************************)
EXTENDS MainLoop, CircularBufferProof, FiniteSetTheorems, SequenceTheorems,
        WellFoundedInduction, TLAPS

Coordinates == (0 .. 255) \X (0 .. 255)
Marks == {"Unknown", "Gift"} \cup Steps
Matrices == [Points -> Marks]

\* q leads in n steps from e to s without meeting a point twice, makes the step
\* that m holds for each point, and m holds no other steps.
PathOf(m, e, s, n, q) ==
    /\ q \in [0 .. n -> Points] /\ q[0] = e /\ q[n] = s
    /\ \A j, k \in 0 .. n : q[j] = q[k] => j = k
    /\ \A k \in 0 .. n - 1 : m[q[k]] \in Steps /\ q[k + 1] = Moved(q[k], m[q[k]])
    /\ \A p \in Points : m[p] \in Steps /\ p # s => \E k \in 0 .. n - 1 : p = q[k]

OneGift(m) == \A p1, p2 \in Points : m[p1] = "Gift" /\ m[p2] = "Gift" => p1 = p2

GameOK(g) ==
    g \in [matrix : Matrices, startPoint : Coordinates, endPoint : Coordinates,
           lastStep : Steps \cup {"Unknown"}, score : Nat, inProgress : BOOLEAN]

\* While the game is played its snake is a path, three points long at first.
GamePath(g) ==
    g.inProgress =>
        /\ g.lastStep \in Steps /\ OneGift(g.matrix)
        /\ \E q : PathOf(g.matrix, g.endPoint, g.startPoint, g.score + 2, q)
-----------------------------------------------------------------------------
(* What the model's IsAPath computes.                                      *)

\* The least number of a set of natural numbers.
LEMMA LeastNumber ==
  ASSUME NEW T, T \subseteq Nat, T # {}
  PROVE  \E x \in T : \A y \in T : x <= y
<1> DEFINE R == {ss \in Nat \X Nat : ss[1] < ss[2]}
<1>0. IsWellFoundedOn(R, Nat)
  BY NatLessThanWellFounded, Zenon DEF OpToRel
<1>1. \E x \in T : \A y \in T : ~(<<y, x>> \in R)
  <2> HIDE DEF R
  <2> QED BY <1>0, WFMin
<1>2. PICK x \in T : \A y \in T : ~(<<y, x>> \in R)
  BY <1>1
<1>3. ASSUME NEW y \in T PROVE x <= y
  <2>1. x \in Nat /\ y \in Nat
    OBVIOUS
  <2>2. y < x => <<y, x>> \in R
    BY <2>1
  <2> QED BY <1>2, <2>1, <2>2
<1> QED BY <1>3

\* A function that starts where a path starts and makes its steps is the path.
LEMMA SamePath ==
  ASSUME NEW n \in Nat, NEW p, NEW q, p[0] = q[0],
         \A k \in 0 .. n - 1 : p[k] = q[k] => p[k + 1] = q[k + 1]
  PROVE  \A k \in 0 .. n : p[k] = q[k]
<1> DEFINE T == {k \in 0 .. n : p[k] # q[k]}
<1>1. SUFFICES ASSUME T # {} PROVE FALSE
  OBVIOUS
<1>2. T \subseteq Nat
  OBVIOUS
<1>3. PICK x \in T : \A y \in T : x <= y
  BY <1>1, <1>2, LeastNumber
<1>4. x \in 0 .. n /\ p[x] # q[x] /\ x # 0
  OBVIOUS
<1>5. x - 1 \in 0 .. n - 1 /\ x - 1 \in 0 .. n /\ ~(x <= x - 1)
  BY <1>4
<1>6. p[x - 1] = q[x - 1]
  BY <1>3, <1>5
<1>7. p[x - 1 + 1] = q[x - 1 + 1]
  BY <1>5, <1>6
<1>8. x - 1 + 1 = x
  BY <1>4
<1> QED BY <1>4, <1>7, <1>8

\* The steps followed from the end point lead along the path.
LEMMA FollowedIsPath ==
  ASSUME NEW g, NEW n \in Nat, NEW q,
         PathOf(g.matrix, g.endPoint, g.startPoint, n, q)
  PROVE  \A k \in 0 .. n : FollowedTo(g, n)[k] = q[k]
<1> DEFINE NextPoint(p) ==
             IF p \in Points /\ g.matrix[p] \in Steps THEN Moved(p, g.matrix[p]) ELSE p
           Follows(f) == f = [k \in 0 .. n |-> IF k = 0 THEN g.endPoint
                                               ELSE NextPoint(f[k - 1])]
           point == FollowedTo(g, n)
<1>1. point = CHOOSE f : Follows(f)
  BY DEF FollowedTo
<1>2. ASSUME NEW k \in 0 .. n - 1 PROVE q[k + 1] = NextPoint(q[k])
  <2>1. k \in 0 .. n
    OBVIOUS
  <2> QED BY <2>1 DEF PathOf
<1>3. Follows(q)
  <2>1. q = [k \in 0 .. n |-> q[k]]
    BY DEF PathOf
  <2>2. ASSUME NEW k \in 0 .. n
        PROVE  q[k] = IF k = 0 THEN g.endPoint ELSE NextPoint(q[k - 1])
    <3>1. CASE k = 0
      BY <3>1 DEF PathOf
    <3>2. CASE k # 0
      <4>1. k - 1 \in 0 .. n - 1 /\ k - 1 + 1 = k
        BY <3>2
      <4>2. q[k - 1 + 1] = NextPoint(q[k - 1])
        BY <1>2, <4>1
      <4> QED BY <3>2, <4>1, <4>2
    <3> QED BY <3>1, <3>2
  <2> HIDE DEF NextPoint
  <2> QED BY <2>1, <2>2
<1>4. Follows(point)
  <2> HIDE DEF Follows, point
  <2> QED BY <1>1, <1>3
<1> HIDE DEF point, NextPoint
<1>5. point[0] = q[0]
  BY <1>4 DEF PathOf
<1>6. ASSUME NEW k \in 0 .. n - 1, point[k] = q[k] PROVE point[k + 1] = q[k + 1]
  <2>1. k + 1 \in 0 .. n /\ k + 1 # 0 /\ k + 1 - 1 = k
    OBVIOUS
  <2>2. point[k + 1] = NextPoint(point[k])
    BY <1>4, <2>1
  <2> QED BY <1>2, <1>6, <2>2
<1>7. \A k \in 0 .. n : point[k] = q[k]
  BY <1>5, <1>6, SamePath
<1> QED BY <1>7 DEF point

\* A path of n steps has n + 1 points.
LEMMA PathLength ==
  ASSUME NEW n \in Nat, NEW q, DOMAIN q = 0 .. n, q = [k \in 0 .. n |-> q[k]],
         \A j, k \in 0 .. n : q[j] = q[k] => j = k
  PROVE  Cardinality({q[k] : k \in 0 .. n}) = n + 1
<1> DEFINE S == {q[k] : k \in 0 .. n}
<1>1. q \in Bijection(0 .. n, S)
  BY DEF Bijection, Injection, Surjection, IsInjective
<1>2. ExistsBijection(0 .. n, S)
  BY <1>1 DEF ExistsBijection
<1>3. IsFiniteSet(0 .. n) /\ Cardinality(0 .. n) = n + 1
  <2>1. 0 \in Int /\ n \in Int
    OBVIOUS
  <2>2. /\ IsFiniteSet(0 .. n)
        /\ Cardinality(0 .. n) = IF 0 > n THEN 0 ELSE n - 0 + 1
    BY <2>1, FS_Interval, Zenon
  <2> QED BY <2>2
<1>4. Cardinality(S) = n + 1
  <2> HIDE DEF S
  <2>1. Cardinality(S) = Cardinality(0 .. n)
    BY <1>2, <1>3, FS_Bijection
  <2> QED BY <1>3, <2>1
<1> QED BY <1>4

\* Two points that hold a gift are one.
LEMMA GiftCount ==
  ASSUME NEW g, OneGift(g.matrix)
  PROVE  Cardinality(Gifts(g)) <= 1
<1>1. CASE Gifts(g) = {}
  BY <1>1, FS_EmptySet
<1>2. CASE Gifts(g) # {}
  <2>1. PICK p : Gifts(g) = {p}
    BY <1>2 DEF Gifts, OneGift
  <2>2. Cardinality({p}) = 1
    BY FS_Singleton
  <2> QED BY <2>1, <2>2
<1> QED BY <1>1, <1>2

\* What the invariant says of the path is what IsAPath asks for.
LEMMA PathIsAPath ==
  ASSUME NEW g, GameOK(g), GamePath(g), g.inProgress
  PROVE  IsAPath(g)
<1> DEFINE n == g.score + 2
           point == FollowedTo(g, n)
           body == {point[k] : k \in 0 .. n - 1}
<1>1. n \in Nat /\ n >= 2
  BY DEF GameOK
<1>2. PICK q : PathOf(g.matrix, g.endPoint, g.startPoint, n, q)
  BY DEF GamePath
<1> HIDE DEF n
<1>3. \A k \in 0 .. n : point[k] = q[k]
  BY <1>1, <1>2, FollowedIsPath
<1> HIDE DEF point
<1>4. n \in 0 .. n /\ \A k \in 0 .. n - 1 : k \in 0 .. n
  BY <1>1
<1>5. point[n] = g.startPoint
  BY <1>2, <1>3, <1>4 DEF PathOf
<1>6. body = {q[k] : k \in 0 .. n - 1}
  BY <1>3, <1>4
<1>7. body \cup {g.startPoint} = {q[k] : k \in 0 .. n}
  <2>1. \A k \in 0 .. n : k \in 0 .. n - 1 \/ k = n
    BY <1>1
  <2>2. q[n] = g.startPoint
    BY <1>2 DEF PathOf
  <2> QED BY <1>4, <1>6, <2>1, <2>2
<1>8. Cardinality(body \cup {g.startPoint}) = n + 1
  <2>1. q \in [0 .. n -> Points] /\ \A j, k \in 0 .. n : q[j] = q[k] => j = k
    BY <1>2 DEF PathOf
  <2>2. Cardinality({q[k] : k \in 0 .. n}) = n + 1
    BY <1>1, <2>1, PathLength
  <2> QED BY <1>7, <2>2
<1>9. {p \in Points : g.matrix[p] \in Steps} \ {g.startPoint} = body
  <2>1. ASSUME NEW k \in 0 .. n - 1
        PROVE  q[k] \in Points /\ g.matrix[q[k]] \in Steps /\ q[k] # g.startPoint
    <3>1. k # n
      BY <1>1
    <3> QED BY <1>2, <1>4, <3>1 DEF PathOf
  <2>2. \A p \in Points : g.matrix[p] \in Steps /\ p # g.startPoint => p \in body
    BY <1>2, <1>6 DEF PathOf
  <2> QED BY <1>6, <2>1, <2>2
<1>10. Cardinality(Gifts(g)) <= 1
  BY GiftCount DEF GamePath
<1> QED BY <1>5, <1>8, <1>9, <1>10 DEF IsAPath, n, point
-----------------------------------------------------------------------------
(* The ways a path changes.                                                *)

\* A step goes to another point, and its coordinates are bytes.
LEMMA MovedElsewhere ==
  ASSUME NEW p \in Points, NEW step \in Steps
  PROVE  Moved(p, step) \in Coordinates /\ Moved(p, step) # p
<1>1. p = <<p[1], p[2]>> /\ p[1] \in 0 .. 255 /\ p[2] \in 0 .. 255
  BY SnakeAssumption DEF Points
<1>2. ASSUME NEW x \in 0 .. 255
      PROVE  /\ (x + 0) % 256 \in 0 .. 255
             /\ (x + 1) % 256 \in 0 .. 255 /\ (x + 1) % 256 # x
             /\ (x + -1) % 256 \in 0 .. 255 /\ (x + -1) % 256 # x
  OBVIOUS
<1>3. CASE step = "Up"
  <2>1. Moved(p, step) = <<(p[1] + 0) % 256, (p[2] + 1) % 256>>
    BY <1>3 DEF Moved
  <2> QED BY <1>1, <1>2, <2>1 DEF Coordinates
<1>4. CASE step = "Down"
  <2>1. Moved(p, step) = <<(p[1] + 0) % 256, (p[2] + -1) % 256>>
    BY <1>4 DEF Moved
  <2> QED BY <1>1, <1>2, <2>1 DEF Coordinates
<1>5. CASE step = "Left"
  <2>1. Moved(p, step) = <<(p[1] + -1) % 256, (p[2] + 0) % 256>>
    BY <1>5 DEF Moved
  <2> QED BY <1>1, <1>2, <2>1 DEF Coordinates
<1>6. CASE step = "Right"
  <2>1. Moved(p, step) = <<(p[1] + 1) % 256, (p[2] + 0) % 256>>
    BY <1>6 DEF Moved
  <2> QED BY <1>1, <1>2, <2>1 DEF Coordinates
<1> QED BY <1>3, <1>4, <1>5, <1>6 DEF Steps

\* Marks that are no steps may change.
LEMMA PathMarks ==
  ASSUME NEW m, NEW m2, NEW e, NEW s, NEW n \in Nat, NEW q, PathOf(m, e, s, n, q),
         \A p \in Points : m[p] \in Steps \/ m2[p] \in Steps => m[p] = m2[p]
  PROVE  PathOf(m2, e, s, n, q)
<1>1. \A k \in 0 .. n - 1 : k \in 0 .. n
  OBVIOUS
<1>2. ASSUME NEW k \in 0 .. n - 1 PROVE q[k] \in Points /\ m2[q[k]] = m[q[k]]
  BY <1>1 DEF PathOf
<1>3. \A k \in 0 .. n - 1 : m2[q[k]] \in Steps /\ q[k + 1] = Moved(q[k], m2[q[k]])
  BY <1>2 DEF PathOf
<1>4. \A p \in Points : m2[p] \in Steps /\ p # s => \E k \in 0 .. n - 1 : p = q[k]
  BY DEF PathOf
<1> QED BY <1>3, <1>4 DEF PathOf

\* The path that goes on by one step from the head to a free point.
LEMMA PathGrows ==
  ASSUME NEW m \in Matrices, NEW e, NEW s, NEW n \in Nat, NEW q, PathOf(m, e, s, n, q),
         NEW step \in Steps, NEW pt \in Points, pt = Moved(s, step), m[pt] \notin Steps
  PROVE  PathOf([m EXCEPT ![s] = step], e, pt, n + 1,
                [k \in 0 .. n + 1 |-> IF k = n + 1 THEN pt ELSE q[k]])
<1> DEFINE m2 == [m EXCEPT ![s] = step]
           q2 == [k \in 0 .. n + 1 |-> IF k = n + 1 THEN pt ELSE q[k]]
<1>1. s \in Points /\ s = q[n] /\ pt # s
  <2>1. n \in 0 .. n
    OBVIOUS
  <2>2. s \in Points /\ s = q[n]
    BY <2>1 DEF PathOf
  <2> QED BY <2>2, MovedElsewhere
<1>2. ASSUME NEW k \in 0 .. n + 1
      PROVE  (k = n + 1 /\ q2[k] = pt) \/ (k \in 0 .. n /\ k # n + 1 /\ q2[k] = q[k])
  OBVIOUS
<1>3. ASSUME NEW k \in 0 .. n PROVE q[k] \in Points /\ q[k] # pt
  <2>1. k \in 0 .. n - 1 \/ k = n
    OBVIOUS
  <2>2. q[k] \in Points
    BY DEF PathOf
  <2>3. k \in 0 .. n - 1 => m[q[k]] \in Steps
    BY DEF PathOf
  <2> QED BY <1>1, <2>1, <2>2, <2>3
<1>4. \A p \in Points : m2[p] = IF p = s THEN step ELSE m[p]
  BY DEF Matrices
<1> HIDE DEF m2
<1>5. q2 \in [0 .. n + 1 -> Points]
  <2> QED BY <1>3
<1>6. q2[0] = e /\ q2[n + 1] = pt
  <2>1. 0 \in 0 .. n + 1 /\ n + 1 \in 0 .. n + 1 /\ 0 # n + 1
    OBVIOUS
  <2> QED BY <2>1 DEF PathOf
<1>7. ASSUME NEW k \in 0 .. n
      PROVE  /\ k \in 0 .. n + 1 /\ k + 1 \in 0 .. n + 1 /\ q2[k] = q[k]
             /\ q2[k + 1] = IF k = n THEN pt ELSE q[k + 1]
  OBVIOUS
<1> HIDE DEF q2
<1>8. \A j, k \in 0 .. n + 1 : q2[j] = q2[k] => j = k
  BY <1>2, <1>3 DEF PathOf
<1>9. ASSUME NEW k \in 0 .. n
      PROVE  m2[q2[k]] \in Steps /\ q2[k + 1] = Moved(q2[k], m2[q2[k]])
  <2>1. CASE k = n
    BY <1>1, <1>4, <1>7, <2>1
  <2>2. CASE k # n
    <3>1. k \in 0 .. n - 1 /\ n \in 0 .. n
      BY <2>2
    <3>2. q[k] # s
      BY <1>1, <2>2, <3>1 DEF PathOf
    <3>3. m2[q[k]] = m[q[k]]
      BY <1>3, <1>4, <3>2
    <3>4. m[q[k]] \in Steps /\ q[k + 1] = Moved(q[k], m[q[k]])
      BY <3>1 DEF PathOf
    <3> QED BY <1>7, <2>2, <3>3, <3>4
  <2> QED BY <2>1, <2>2
<1>10. ASSUME NEW p \in Points, m2[p] \in Steps, p # pt PROVE \E k \in 0 .. n : p = q2[k]
  <2>1. CASE p = s
    <3>1. n \in 0 .. n
      OBVIOUS
    <3> QED BY <1>1, <1>7, <2>1, <3>1
  <2>2. CASE p # s
    <3>1. m[p] \in Steps
      BY <1>4, <1>10, <2>2
    <3>2. PICK k \in 0 .. n - 1 : p = q[k]
      BY <2>2, <3>1 DEF PathOf
    <3>3. k \in 0 .. n
      OBVIOUS
    <3> QED BY <1>7, <3>2, <3>3
  <2> QED BY <2>1, <2>2
<1>11. n + 1 - 1 = n
  OBVIOUS
<1> QED BY <1>5, <1>6, <1>8, <1>9, <1>10, <1>11 DEF PathOf, m2, q2

\* The path without its last point.
LEMMA PathShrinks ==
  ASSUME NEW m \in Matrices, NEW e, NEW s, NEW n \in Nat \ {0}, NEW q, PathOf(m, e, s, n, q)
  PROVE  /\ e \in Points /\ m[e] \in Steps
         /\ \E q2 : PathOf([m EXCEPT ![e] = "Unknown"], Moved(e, m[e]), s, n - 1, q2)
<1> DEFINE m2 == [m EXCEPT ![e] = "Unknown"]
           q2 == [k \in 0 .. n - 1 |-> q[k + 1]]
<1>1. e \in Points /\ e = q[0] /\ m[e] \in Steps /\ q[1] = Moved(e, m[e])
  <2>1. 0 \in 0 .. n /\ 0 \in 0 .. n - 1 /\ 0 + 1 = 1
    OBVIOUS
  <2> QED BY <2>1 DEF PathOf
<1>2. \A p \in Points : m2[p] = IF p = e THEN "Unknown" ELSE m[p]
  BY DEF Matrices
<1>3. ASSUME NEW k \in 0 .. n - 1
      PROVE  k + 1 \in 0 .. n /\ k + 1 # 0 /\ q2[k] = q[k + 1] /\ q[k + 1] \in Points
  <2>1. k + 1 \in 0 .. n /\ k + 1 # 0 /\ q2[k] = q[k + 1]
    OBVIOUS
  <2> QED BY <2>1 DEF PathOf
<1>4. q2 \in [0 .. n - 1 -> Points]
  BY <1>3
<1> HIDE DEF m2, q2
<1>5. q2[0] = q[1] /\ q2[n - 1] = s
  <2>1. 0 \in 0 .. n - 1 /\ n - 1 \in 0 .. n - 1 /\ 0 + 1 = 1 /\ n - 1 + 1 = n
    OBVIOUS
  <2> QED BY <1>3, <2>1 DEF PathOf
<1>6. ASSUME NEW j \in 0 .. n - 1, NEW k \in 0 .. n - 1, q2[j] = q2[k] PROVE j = k
  <2>1. j + 1 = k + 1
    BY <1>3, <1>6 DEF PathOf
  <2> QED BY <2>1
<1>7. ASSUME NEW k \in 0 .. n - 1 - 1
      PROVE  m2[q2[k]] \in Steps /\ q2[k + 1] = Moved(q2[k], m2[q2[k]])
  <2>1. k \in 0 .. n - 1 /\ k + 1 \in 0 .. n - 1 /\ 0 \in 0 .. n
    OBVIOUS
  <2>2. q2[k] = q[k + 1] /\ q2[k + 1] = q[k + 1 + 1] /\ q[k + 1] # e /\ q[k + 1] \in Points
    BY <1>1, <1>3, <2>1 DEF PathOf
  <2>3. m[q[k + 1]] \in Steps /\ q[k + 1 + 1] = Moved(q[k + 1], m[q[k + 1]])
    BY <2>1 DEF PathOf
  <2> QED BY <1>2, <2>2, <2>3
<1>8. ASSUME NEW p \in Points, m2[p] \in Steps, p # s
      PROVE  \E k \in 0 .. n - 1 - 1 : p = q2[k]
  <2>1. p # e /\ m[p] \in Steps
    BY <1>2, <1>8 DEF Steps
  <2>2. PICK k \in 0 .. n - 1 : p = q[k]
    BY <1>8, <2>1 DEF PathOf
  <2>3. k # 0
    BY <1>1, <2>1, <2>2
  <2>4. k - 1 \in 0 .. n - 1 - 1 /\ k - 1 \in 0 .. n - 1 /\ k - 1 + 1 = k
    BY <2>3
  <2> QED BY <1>3, <2>2, <2>4
<1>9. PathOf(m2, q[1], s, n - 1, q2)
  BY <1>4, <1>5, <1>6, <1>7, <1>8 DEF PathOf
<1> QED BY <1>1, <1>9 DEF m2
-----------------------------------------------------------------------------
(* The steps of the game.                                                  *)

\* A gift is put on a free point of a matrix without one.
LEMMA GiftIsPut ==
  ASSUME NEW m \in Matrices, \A p \in Points : m[p] # "Gift", NEW m2 \in WithGift(m)
  PROVE  /\ m2 \in Matrices /\ OneGift(m2)
         /\ \A p \in Points : m[p] \in Steps \/ m2[p] \in Steps => m[p] = m2[p]
<1>1. PICK p \in Points : m[p] = "Unknown" /\ m2 = [m EXCEPT ![p] = "Gift"]
  BY DEF WithGift
<1>2. \A p2 \in Points : m2[p2] = IF p2 = p THEN "Gift" ELSE m[p2]
  BY <1>1 DEF Matrices
<1>3. m2 \in Matrices
  BY <1>1 DEF Matrices, Marks
<1>4. OneGift(m2)
  BY <1>2 DEF OneGift
<1>5. "Gift" \notin Steps /\ "Unknown" \notin Steps
  BY DEF Steps
<1>6. \A p2 \in Points : m[p2] \in Steps \/ m2[p2] \in Steps => m[p2] = m2[p2]
  BY <1>1, <1>2, <1>5
<1> QED BY <1>3, <1>4, <1>6

\* The three points of a new game, two steps to the right, are inside.
LEMMA NewGamePath ==
  ASSUME NEW g \in NewGames
  PROVE  GameOK(g) /\ GamePath(g)
<1> DEFINE x == (SizeX \div 2) - 1
           y == SizeY \div 2
           body == {<<x + 2 - k, y>> : k \in 0 .. 2}
           m == [p \in Points |-> IF p \in body THEN "Right" ELSE "Unknown"]
           q == [k \in 0 .. 2 |-> <<x + k, y>>]
<1>1. x \in 0 .. SizeX - 3 /\ y \in 0 .. SizeY - 1 /\ (SizeX \div 2) + 1 = x + 2
      /\ x + 2 <= 255 /\ y <= 255
  BY SnakeAssumption
<1>2. PICK m2 \in WithGift(m) :
         g = [matrix |-> m2, startPoint |-> <<x + 2, y>>, endPoint |-> <<x + 2 - 2, y>>,
              lastStep |-> "Right", score |-> 0, inProgress |-> TRUE]
  BY <1>1 DEF NewGames
<1> HIDE DEF x, y
<1>3. m \in Matrices /\ (\A p \in Points : m[p] # "Gift")
  BY DEF Matrices, Marks, Steps
<1>4. m2 \in Matrices /\ OneGift(m2)
      /\ \A p \in Points : m[p] \in Steps \/ m2[p] \in Steps => m[p] = m2[p]
  <2> HIDE DEF m
  <2> QED BY <1>3, GiftIsPut
<1>5. \A k \in 0 .. 2 : q[k] = <<x + k, y>> /\ q[k] \in Points /\ q[k] \in body /\ m[q[k]] = "Right"
  <2>1. ASSUME NEW k \in 0 .. 2 PROVE q[k] = <<x + k, y>> /\ q[k] \in Points
    <3>1. x + k \in 0 .. SizeX - 1
      BY <1>1, SnakeAssumption
    <3> QED BY <1>1, <3>1 DEF Points
  <2>2. ASSUME NEW k \in 0 .. 2 PROVE <<x + k, y>> \in body
    <3>1. 2 - k \in 0 .. 2 /\ x + 2 - (2 - k) = x + k
      BY <1>1
    <3> QED BY <3>1
  <2> QED BY <2>1, <2>2
<1>6. PathOf(m, <<x, y>>, <<x + 2, y>>, 2, q)
  <2>1. q \in [0 .. 2 -> Points]
    BY <1>5
  <2>2. q[0] = <<x, y>> /\ q[2] = <<x + 2, y>>
    BY <1>1
  <2>3. ASSUME NEW j \in 0 .. 2, NEW k \in 0 .. 2, q[j] = q[k] PROVE j = k
    BY <1>1, <1>5, <2>3
  <2>4. ASSUME NEW k \in 0 .. 2 - 1
        PROVE  m[q[k]] \in Steps /\ q[k + 1] = Moved(q[k], m[q[k]])
    <3>1. k \in 0 .. 2 /\ k + 1 \in 0 .. 2
      OBVIOUS
    <3>2. m[q[k]] = "Right" /\ q[k] = <<x + k, y>> /\ q[k + 1] = <<x + (k + 1), y>>
      BY <1>5, <3>1
    <3>3. Moved(<<x + k, y>>, "Right") = <<(x + k + 1) % 256, (y + 0) % 256>>
      BY DEF Moved
    <3>4. (x + k + 1) % 256 = x + (k + 1) /\ (y + 0) % 256 = y
      <4>1. x + k + 1 \in 0 .. 255 /\ x + k + 1 = x + (k + 1) /\ y + 0 = y /\ y \in 0 .. 255
        BY <1>1, <3>1
      <4> QED BY <4>1
    <3> QED BY <3>2, <3>3, <3>4 DEF Steps
  <2>5. ASSUME NEW p \in Points, m[p] \in Steps, p # <<x + 2, y>>
        PROVE  \E k \in 0 .. 2 - 1 : p = q[k]
    <3>1. p \in body
      BY <2>5 DEF Steps
    <3>2. PICK k \in 0 .. 2 : p = <<x + 2 - k, y>>
      BY <3>1
    <3>3. k # 0
      BY <1>1, <2>5, <3>2
    <3>4. 2 - k \in 0 .. 2 - 1 /\ 2 - k \in 0 .. 2 /\ x + (2 - k) = x + 2 - k
      BY <1>1, <3>3
    <3> QED BY <1>5, <3>2, <3>4
  <2> HIDE DEF m, q
  <2> QED BY <2>1, <2>2, <2>3, <2>4, <2>5 DEF PathOf
<1>7. PathOf(m2, <<x, y>>, <<x + 2, y>>, 2, q)
  <2> HIDE DEF m, q
  <2> QED BY <1>4, <1>6, PathMarks
<1>8. x + 2 - 2 = x /\ 0 + 2 = 2 /\ <<x, y>> \in Coordinates /\ <<x + 2, y>> \in Coordinates
  BY <1>1 DEF Coordinates
<1> HIDE DEF q
<1>9. GameOK(g)
  BY <1>2, <1>4, <1>8 DEF GameOK, Steps
<1>10. PathOf(g.matrix, g.endPoint, g.startPoint, g.score + 2, q)
  BY <1>2, <1>7, <1>8
<1>11. g.lastStep \in Steps /\ OneGift(g.matrix)
  BY <1>2, <1>4 DEF Steps
<1> QED BY <1>9, <1>10, <1>11 DEF GamePath

\* The head moves to a free point and the end leaves its own.
LEMMA MovedGamePath ==
  ASSUME NEW g, GameOK(g), GamePath(g), g.inProgress, NEW step \in Steps,
         Moved(g.startPoint, step) \in Points,
         g.matrix[Moved(g.startPoint, step)] = "Unknown",
         NEW h, h = [WithoutLast(Advanced(g, step)) EXCEPT !.lastStep = step]
  PROVE  GameOK(h) /\ GamePath(h)
<1> DEFINE m == g.matrix
           e == g.endPoint
           s == g.startPoint
           n == g.score + 2
           pt == Moved(s, step)
           m1 == [m EXCEPT ![s] = step]
           m2 == [m1 EXCEPT ![e] = "Unknown"]
<1>1. /\ m \in Matrices /\ n \in Nat /\ n + 1 \in Nat \ {0} /\ n + 1 - 1 = n
      /\ g.score \in Nat /\ n \in Nat \ {0} /\ pt \in Points
  BY DEF GameOK
<1>2. PICK q : PathOf(m, e, s, n, q)
  BY DEF GamePath
<1>3. h = [g EXCEPT !.matrix = m2, !.startPoint = pt, !.endPoint = Moved(e, m1[e]),
                    !.lastStep = step]
  BY DEF Advanced, WithoutLast, GameOK
<1> HIDE DEF m, e, s, n, pt
<1>4. m[pt] \notin Steps
  BY DEF Steps, m, pt, s
<1>5. \E q1 : PathOf(m1, e, pt, n + 1, q1)
  BY <1>1, <1>2, <1>4, PathGrows DEF pt
<1>6. PICK q1 : PathOf(m1, e, pt, n + 1, q1)
  BY <1>5
<1>7. s \in Points
  <2>1. n \in 0 .. n /\ s = q[n]
    BY <1>1, <1>2 DEF PathOf
  <2> QED BY <1>2, <2>1 DEF PathOf
<1>8. m1 \in Matrices /\ \A p \in Points : m1[p] = IF p = s THEN step ELSE m[p]
  BY <1>1, <1>7 DEF Matrices, Marks
<1> HIDE DEF m1
<1>9. e \in Points /\ m1[e] \in Steps
      /\ \E q2 : PathOf(m2, Moved(e, m1[e]), pt, n + 1 - 1, q2)
  BY <1>1, <1>6, <1>8, PathShrinks
<1>10. \E q2 : PathOf(m2, Moved(e, m1[e]), pt, n, q2)
  BY <1>1, <1>9
<1>11. m2 \in Matrices /\ \A p \in Points : m2[p] = IF p = e THEN "Unknown" ELSE m1[p]
  BY <1>8, <1>9 DEF Matrices, Marks
<1>12. OneGift(m2)
  <2>1. \A p \in Points : m2[p] = "Gift" => m[p] = "Gift"
    BY <1>8, <1>11 DEF Steps
  <2>2. OneGift(m)
    BY DEF GamePath, m
  <2> QED BY <2>1, <2>2 DEF OneGift
<1>13. pt \in Coordinates /\ Moved(e, m1[e]) \in Coordinates
  BY <1>7, <1>9, MovedElsewhere DEF pt
<1> HIDE DEF m2
<1>14. GameOK(h)
  BY <1>3, <1>11, <1>13 DEF GameOK
<1>15. /\ h.matrix = m2 /\ h.startPoint = pt /\ h.endPoint = Moved(e, m1[e])
       /\ h.lastStep = step /\ h.score + 2 = n
  BY <1>3 DEF GameOK, n
<1> QED BY <1>10, <1>12, <1>14, <1>15 DEF GamePath

\* The head moves to the gift, another gift may be put, and the end stays.
LEMMA CapturedGamePath ==
  ASSUME NEW g, GameOK(g), GamePath(g), g.inProgress, NEW step \in Steps,
         Moved(g.startPoint, step) \in Points,
         g.matrix[Moved(g.startPoint, step)] = "Gift",
         NEW h \in Captured(g, step)
  PROVE  GameOK(h) /\ GamePath(h)
<1> DEFINE m == g.matrix
           e == g.endPoint
           s == g.startPoint
           n == g.score + 2
           pt == Moved(s, step)
           m0 == [m EXCEPT ![pt] = "Unknown"]
<1>1. /\ m \in Matrices /\ n \in Nat /\ g.score \in Nat /\ g.score + 1 \in Nat
      /\ n + 1 = g.score + 1 + 2 /\ pt \in Points
  BY DEF GameOK
<1>2. PICK q : PathOf(m, e, s, n, q)
  BY DEF GamePath
<1>3. PICK m1 \in WithGift(m0) \cup {m0} :
         h = [Advanced([g EXCEPT !.matrix = m1], step) EXCEPT !.score = @ + 1, !.lastStep = step]
  BY DEF Captured
<1> DEFINE m2 == [m1 EXCEPT ![s] = step]
<1>4. h = [g EXCEPT !.matrix = m2, !.startPoint = pt, !.score = g.score + 1, !.lastStep = step]
  BY <1>3 DEF Advanced, GameOK
<1> HIDE DEF m, e, s, n, pt
<1>5. m[pt] = "Gift" /\ OneGift(m)
  BY DEF m, pt, s, GamePath
<1>6. m0 \in Matrices /\ \A p \in Points : m0[p] = IF p = pt THEN "Unknown" ELSE m[p]
  BY <1>1 DEF Matrices, Marks
<1> HIDE DEF m0
<1>7. \A p \in Points : m0[p] # "Gift" /\ (m[p] \in Steps \/ m0[p] \in Steps => m[p] = m0[p])
  BY <1>1, <1>5, <1>6 DEF OneGift, Steps
<1>8. m1 \in Matrices /\ OneGift(m1)
      /\ \A p \in Points : m0[p] \in Steps \/ m1[p] \in Steps => m0[p] = m1[p]
  <2>1. CASE m1 \in WithGift(m0)
    BY <1>6, <1>7, <2>1, GiftIsPut
  <2>2. CASE m1 = m0
    BY <1>6, <1>7, <2>2 DEF OneGift
  <2> QED BY <1>3, <2>1, <2>2
<1>9. PathOf(m1, e, s, n, q)
  BY <1>1, <1>2, <1>7, <1>8, PathMarks
<1>10. m1[pt] \notin Steps
  <2>1. m0[pt] \notin Steps
    BY <1>1, <1>6 DEF Steps
  <2> QED BY <1>1, <1>8, <2>1
<1>11. \E q2 : PathOf(m2, e, pt, n + 1, q2)
  BY <1>1, <1>8, <1>9, <1>10, PathGrows DEF pt
<1>12. s \in Points
  <2>1. n \in 0 .. n /\ s = q[n]
    BY <1>1, <1>2 DEF PathOf
  <2> QED BY <1>2, <2>1 DEF PathOf
<1>13. m2 \in Matrices /\ \A p \in Points : m2[p] = IF p = s THEN step ELSE m1[p]
  BY <1>8, <1>12 DEF Matrices, Marks
<1> HIDE DEF m2
<1>14. OneGift(m2)
  BY <1>8, <1>13 DEF OneGift, Steps
<1>15. pt \in Coordinates
  BY <1>12, MovedElsewhere DEF pt
<1>16. GameOK(h)
  BY <1>1, <1>4, <1>13, <1>15 DEF GameOK
<1>17. /\ h.matrix = m2 /\ h.startPoint = pt /\ h.endPoint = e
       /\ h.lastStep = step /\ h.score + 2 = n + 1
  BY <1>1, <1>4 DEF GameOK, e
<1> QED BY <1>11, <1>14, <1>16, <1>17 DEF GamePath

\* Whatever the step, and a collision ends the game.
LEMMA SteppedGamePath ==
  ASSUME NEW g, GameOK(g), GamePath(g), NEW step \in Steps, NEW h \in Stepped(g, step)
  PROVE  GameOK(h) /\ GamePath(h) /\ (h.inProgress => g.inProgress)
<1> DEFINE pt == Moved(g.startPoint, step)
<1>1. CASE h = g
  BY <1>1
<1>2. CASE g.inProgress /\ pt \in Points /\ g.matrix[pt] = "Gift" /\ h \in Captured(g, step)
  BY <1>2, CapturedGamePath
<1>3. CASE /\ g.inProgress /\ pt \in Points /\ g.matrix[pt] = "Unknown"
           /\ h = [WithoutLast(Advanced(g, step)) EXCEPT !.lastStep = step]
  BY <1>3, MovedGamePath
<1>4. CASE g.inProgress /\ h = [Advanced(g, step) EXCEPT !.inProgress = FALSE]
  <2>1. PICK q : PathOf(g.matrix, g.endPoint, g.startPoint, g.score + 2, q)
    BY <1>4 DEF GamePath
  <2>2. g.startPoint \in Points
    <3>1. g.score + 2 \in 0 .. g.score + 2
      BY DEF GameOK
    <3> QED BY <2>1, <3>1 DEF PathOf
  <2>3. Moved(g.startPoint, step) \in Coordinates
    BY <2>2, MovedElsewhere
  <2>4. h = [g EXCEPT !.matrix = [g.matrix EXCEPT ![g.startPoint] = step],
                      !.startPoint = Moved(g.startPoint, step), !.inProgress = FALSE]
    BY <1>4 DEF Advanced, GameOK
  <2>5. [g.matrix EXCEPT ![g.startPoint] = step] \in Matrices
    BY <2>2 DEF GameOK, Matrices, Marks
  <2>6. GameOK(h) /\ h.inProgress = FALSE
    BY <2>3, <2>4, <2>5 DEF GameOK
  <2> QED BY <2>6 DEF GamePath
<1> QED BY <1>1, <1>2, <1>3, <1>4 DEF Stepped
-----------------------------------------------------------------------------
(* The user interface.                                                     *)

Uis ==
    [actual : Apps \cup {Menu}, selected : 0 .. Len(AppList), changed : BOOLEAN,
     requested : BOOLEAN, runOnce : BOOLEAN, disabled : BOOLEAN]
AppStates ==
    [snakeMenu : BOOLEAN, menuItem : {"NewGame", "Exit"}, clock : DOMAIN ClockStates,
     position : 0 .. MaxPosition, period : 0 .. MaxPeriod + MinPeriod,
     mode : DOMAIN LightModes]

\* DisplayRunsAgain of the state u of the display task.
RunsAgain(u) ==
    /\ u.changed => u.requested /\ (u.disabled => u.actual = "Elevator")
    /\ u.actual \in Animated => ~u.disabled

\* A game that is played is shown.
IsPlayed(u, a, g) == g.inProgress => u.actual = "Snake" /\ ~a.snakeMenu /\ ~u.changed

UiOK(u, a, g) ==
    /\ u \in Uis /\ a \in AppStates /\ GameOK(g)
    /\ GamePath(g) /\ IsPlayed(u, a, g) /\ RunsAgain(u)

UiInv == UiOK(ui, apps, game) /\ at \in 1 .. SystemTime

LEMMA AppNames ==
  /\ Apps = {"Snake", "Input", "CarAnimation", "Clock", "TrafficLight", "Elevator"}
  /\ Len(AppList) = 6 /\ Menu \notin Apps
  /\ \A k \in 0 .. Len(AppList) : AppOf(k) \in Apps \cup {Menu}
<1>1. Len(AppList) = 6 /\ DOMAIN AppList = 1 .. 6
  BY DEF AppList
<1>2. /\ AppList[1] = "Snake" /\ AppList[2] = "Input" /\ AppList[3] = "CarAnimation"
      /\ AppList[4] = "Clock" /\ AppList[5] = "TrafficLight" /\ AppList[6] = "Elevator"
  BY DEF AppList
<1>3. \A k \in 1 .. 6 : k = 1 \/ k = 2 \/ k = 3 \/ k = 4 \/ k = 5 \/ k = 6
  OBVIOUS
<1>4. Apps = {"Snake", "Input", "CarAnimation", "Clock", "TrafficLight", "Elevator"}
  BY <1>1, <1>2, <1>3 DEF Apps
<1>5. \A k \in 0 .. 6 : k # 0 => k \in 1 .. 6
  OBVIOUS
<1>6. \A k \in 0 .. 6 : AppOf(k) \in Apps \cup {Menu}
  BY <1>1, <1>5 DEF AppOf, Apps
<1> QED BY <1>1, <1>4, <1>6 DEF Menu

\* The functions of the task handler on the display task.
LEMMA TaskFunctions ==
  ASSUME NEW u \in Uis
  PROVE  /\ Request(u) = [u EXCEPT !.requested = TRUE, !.disabled = FALSE]
         /\ Request(u) \in Uis /\ RunsAgain(Request(u))
         /\ SetOnceRun(u) = [u EXCEPT !.runOnce = TRUE, !.disabled = FALSE]
         /\ SetOnceRun(u) \in Uis /\ (RunsAgain(u) => RunsAgain(SetOnceRun(u)))
         /\ Disable(u) = [u EXCEPT !.disabled = TRUE] /\ Disable(u) \in Uis
         /\ (RunsAgain(u) /\ u.actual = "Elevator") => RunsAgain(Disable(u))
BY DEF Uis, Request, SetOnceRun, Disable, RunsAgain, Animated

LEMMA ChangeStateRequests ==
  ASSUME NEW u \in Uis, NEW app \in Apps \cup {Menu}
  PROVE  /\ ChangeState(u, app) = [u EXCEPT !.changed = TRUE, !.actual = app,
                                           !.requested = TRUE, !.disabled = FALSE]
         /\ ChangeState(u, app) \in Uis /\ RunsAgain(ChangeState(u, app))
BY DEF Uis, ChangeState, Request, RunsAgain

\* What an event may do to the display task.
LEMMA EventRequests ==
  ASSUME NEW u \in Uis, RunsAgain(u), NEW u2,
         \/ u2 = u \/ u2 = Request(u) \/ u2 = SetOnceRun(u) \/ u2 = ChangeState(u, Menu)
         \/ u2 = Disable(u) /\ u.actual = "Elevator"
  PROVE  u2 \in Uis /\ RunsAgain(u2)
<1>1. CASE u2 = u
  BY <1>1
<1>2. CASE u2 = Request(u)
  BY <1>2, TaskFunctions
<1>3. CASE u2 = SetOnceRun(u)
  BY <1>3, TaskFunctions
<1>4. CASE u2 = ChangeState(u, Menu)
  BY <1>4, ChangeStateRequests
<1>5. CASE u2 = Disable(u) /\ u.actual = "Elevator"
  BY <1>5, TaskFunctions
<1> QED BY <1>1, <1>2, <1>3, <1>4, <1>5

\* Without a game that is played the display task may change as it likes.
LEMMA WithoutGame ==
  ASSUME NEW u, NEW a, NEW g, UiOK(u, a, g), ~g.inProgress,
         NEW u2 \in Uis, RunsAgain(u2), NEW a2 \in AppStates
  PROVE  UiOK(u2, a2, g)
BY DEF UiOK, IsPlayed

LEMMA MenuEventKeeps ==
  ASSUME UiOK(ui, apps, game), NEW button, MenuEvent(button), ui.actual = Menu,
         button \in {"Up", "Down", "Right", "Left"}
  PROVE  UiOK(ui', apps', game')
<1>1. ~game.inProgress /\ ui \in Uis /\ apps \in AppStates
  BY DEF UiOK, IsPlayed, Menu
<1>2. ui' \in Uis /\ RunsAgain(ui')
  <2>1. CASE button \in {"Right", "Left"}
    <3>1. AppOf(ui.selected) \in Apps \cup {Menu}
      BY <1>1, AppNames DEF Uis
    <3>2. ui' = ChangeState(ui, AppOf(ui.selected))
      BY <2>1 DEF MenuEvent
    <3> QED BY <1>1, <3>1, <3>2, ChangeStateRequests
  <2>2. CASE button = "Up"
    <3> DEFINE u == [ui EXCEPT !.selected = IF @ > 0 THEN @ - 1 ELSE @]
    <3>1. u \in Uis
      BY <1>1, AppNames DEF Uis
    <3>2. ui' = Request(u)
      BY <2>2 DEF MenuEvent
    <3> HIDE DEF u
    <3> QED BY <3>1, <3>2, TaskFunctions
  <2>3. CASE button = "Down"
    <3> DEFINE u == [ui EXCEPT !.selected = IF @ < Len(AppList) THEN @ + 1 ELSE @]
    <3>1. u \in Uis
      BY <1>1, AppNames DEF Uis
    <3>2. ui' = Request(u)
      BY <2>3 DEF MenuEvent
    <3> HIDE DEF u
    <3> QED BY <3>1, <3>2, TaskFunctions
  <2> QED BY <2>1, <2>2, <2>3
<1>3. apps' = apps /\ game' = game
  BY DEF MenuEvent
<1> QED BY <1>1, <1>2, <1>3, WithoutGame

LEMMA SnakeEventKeeps ==
  ASSUME UiOK(ui, apps, game), NEW button \in {"Up", "Down", "Right", "Left"}, NEW type,
         Snake_Event(button, type), ui.actual = "Snake"
  PROVE  UiOK(ui', apps', game')
<1>1. ui \in Uis /\ apps \in AppStates /\ "Snake" \in Apps
  BY AppNames DEF UiOK
<1>2. CASE apps.snakeMenu
  <2>1. ~game.inProgress /\ SnakeMenuEvent(button)
    BY <1>2 DEF UiOK, IsPlayed, Snake_Event
  <2>2. ui' \in Uis /\ RunsAgain(ui') /\ apps' \in AppStates
    <3>1. CASE button \in {"Right", "Left"}
      <4>1. /\ ui' = ChangeState(ui, IF apps.menuItem = "NewGame" THEN "Snake" ELSE Menu)
            /\ apps' = [apps EXCEPT !.snakeMenu = FALSE]
        BY <2>1, <3>1 DEF SnakeMenuEvent
      <4>2. apps' \in AppStates
        BY <1>1, <4>1 DEF AppStates
      <4> QED BY <1>1, <4>1, <4>2, ChangeStateRequests
    <3>2. CASE button \in {"Up", "Down"}
      <4>1. /\ ui' = Request(ui)
            /\ apps' = [apps EXCEPT !.menuItem = IF button = "Up" THEN "NewGame" ELSE "Exit"]
        BY <2>1, <3>2 DEF SnakeMenuEvent
      <4>2. apps' \in AppStates
        BY <1>1, <4>1 DEF AppStates
      <4> QED BY <1>1, <4>1, <4>2, TaskFunctions
    <3> QED BY <3>1, <3>2
  <2>3. game' = game
    BY <2>1 DEF SnakeMenuEvent
  <2> QED BY <2>1, <2>2, <2>3, WithoutGame
<1>3. CASE ~apps.snakeMenu /\ type = "ReleasedContinuous"
  <2>1. ui' = ui /\ apps' = apps /\ game' = game
    BY <1>3 DEF Snake_Event
  <2> QED BY <2>1
<1>4. CASE ~apps.snakeMenu /\ type # "ReleasedContinuous"
  <2>1. PICK after \in Stepped(game, button) :
           /\ game' = after
           /\ ui' = AfterStep(ui, game, after) /\ apps' = MenuAfterStep(game, after)
    BY <1>4 DEF Snake_Event
  <2>2. GameOK(after) /\ GamePath(after) /\ (after.inProgress => game.inProgress)
    BY SteppedGamePath DEF UiOK, Steps
  <2>3. CASE game.inProgress /\ ~after.inProgress
    <3>1. ui' = ChangeState(ui, "Snake") /\ apps' = [apps EXCEPT !.snakeMenu = TRUE]
      BY <1>1, <2>1, <2>3 DEF AfterStep, MenuAfterStep, AppStates
    <3>2. ui' \in Uis /\ RunsAgain(ui') /\ apps' \in AppStates
      BY <1>1, <3>1, ChangeStateRequests DEF AppStates
    <3> QED BY <2>1, <2>2, <2>3, <3>2 DEF UiOK, IsPlayed
  <2>4. CASE ~(game.inProgress /\ ~after.inProgress)
    <3>1. ui' = ui /\ apps' = apps
      BY <1>1, <2>1, <2>4 DEF AfterStep, MenuAfterStep, AppStates
    <3> QED BY <2>1, <2>2, <3>1 DEF UiOK, IsPlayed
  <2> QED BY <2>3, <2>4
<1> QED BY <1>2, <1>3, <1>4

LEMMA InputEventKeeps ==
  ASSUME UiOK(ui, apps, game), NEW button, NEW type, Input_Event(button, type),
         ui.actual = "Input"
  PROVE  UiOK(ui', apps', game')
<1>1. ~game.inProgress /\ ui \in Uis /\ apps \in AppStates /\ RunsAgain(ui)
  BY DEF UiOK, IsPlayed
<1>2. ui' \in Uis /\ RunsAgain(ui')
  <2>1. ui' = ui \/ ui' = Request(ui) \/ ui' = ChangeState(ui, Menu)
    BY DEF Input_Event
  <2> QED BY <1>1, <2>1, EventRequests
<1>3. apps' \in AppStates
  <2>1. \A step \in Int : Position(step) \in 0 .. MaxPosition
    BY UserInterfaceAssumption DEF Position
  <2> DEFINE size == IF type \in {"Short", "Continuous"} THEN 1 ELSE 3
  <2>2. size \in Int /\ -size \in Int
    OBVIOUS
  <2>3. \/ apps' = apps
        \/ apps' = [apps EXCEPT !.position = Position(size)]
        \/ apps' = [apps EXCEPT !.position = Position(-size)]
    BY DEF Input_Event
  <2> HIDE DEF size
  <2> QED BY <1>1, <2>1, <2>2, <2>3 DEF AppStates
<1>4. game' = game
  BY DEF Input_Event
<1> QED BY <1>1, <1>2, <1>3, <1>4, WithoutGame

LEMMA CarAnimationEventKeeps ==
  ASSUME UiOK(ui, apps, game), NEW button, NEW type, CarAnimation_Event(button, type),
         ui.actual = "CarAnimation"
  PROVE  UiOK(ui', apps', game')
<1>1. ~game.inProgress /\ ui \in Uis /\ apps \in AppStates /\ RunsAgain(ui)
  BY DEF UiOK, IsPlayed
<1>2. ui' \in Uis /\ RunsAgain(ui')
  <2>1. ui' = ui \/ ui' = SetOnceRun(ui) \/ ui' = ChangeState(ui, Menu)
    BY DEF CarAnimation_Event
  <2> QED BY <1>1, <2>1, EventRequests
<1>3. apps' \in AppStates
  <2>1. apps.period \in 0 .. MaxPeriod + MinPeriod
    BY <1>1 DEF AppStates
  <2>2. /\ apps.period <= MaxPeriod => apps.period + MinPeriod \in 0 .. MaxPeriod + MinPeriod
        /\ apps.period >= MinPeriod => apps.period - MinPeriod \in 0 .. MaxPeriod + MinPeriod
    BY <2>1, UserInterfaceAssumption
  <2>3. \/ apps' = apps
        \/ apps.period <= MaxPeriod /\ apps' = [apps EXCEPT !.period = apps.period + MinPeriod]
        \/ apps.period >= MinPeriod /\ apps' = [apps EXCEPT !.period = apps.period - MinPeriod]
    BY DEF CarAnimation_Event
  <2> QED BY <1>1, <2>2, <2>3 DEF AppStates
<1>4. game' = game
  BY DEF CarAnimation_Event
<1> QED BY <1>1, <1>2, <1>3, <1>4, WithoutGame

LEMMA ClockEventKeeps ==
  ASSUME UiOK(ui, apps, game), NEW button, Clock_Event(button), ui.actual = "Clock"
  PROVE  UiOK(ui', apps', game')
<1>1. ~game.inProgress /\ ui \in Uis /\ apps \in AppStates /\ RunsAgain(ui)
  BY DEF UiOK, IsPlayed
<1>2. Len(ClockStates) = 4 /\ DOMAIN ClockStates = 1 .. 4
  BY DEF ClockStates
<1>3. \A k \in 1 .. 4 : ClockStates[k] \in {"HourAndMinute", "Hour", "Minute", "AMPM"}
  BY DEF ClockStates
<1>4. apps.clock \in 1 .. 4
  BY <1>1, <1>2 DEF AppStates
<1>5. ui' \in {ui, Request(ui), ChangeState(ui, Menu)}
  BY <1>3, <1>4 DEF Clock_Event
<1>6. apps' \in AppStates
  BY <1>1, <1>2 DEF Clock_Event, AppStates
<1>7. game' = game
  BY DEF Clock_Event
<1>8. ui' \in Uis /\ RunsAgain(ui')
  BY <1>1, <1>5, EventRequests
<1> QED BY <1>1, <1>6, <1>7, <1>8, WithoutGame

LEMMA TrafficLightEventKeeps ==
  ASSUME UiOK(ui, apps, game), NEW button, TrafficLight_Event(button),
         ui.actual = "TrafficLight"
  PROVE  UiOK(ui', apps', game')
<1>1. ~game.inProgress /\ ui \in Uis /\ apps \in AppStates /\ RunsAgain(ui)
  BY DEF UiOK, IsPlayed
<1>2. Len(LightModes) = 3 /\ DOMAIN LightModes = 1 .. 3
  BY DEF LightModes
<1>3. ui' = ui /\ game' = game
  BY DEF TrafficLight_Event
<1>4. apps' \in AppStates
  BY <1>1, <1>2 DEF TrafficLight_Event, AppStates
<1> QED BY <1>1, <1>3, <1>4, WithoutGame

LEMMA ElevatorEventKeeps ==
  ASSUME UiOK(ui, apps, game), NEW button, NEW type, Elevator_Event(button, type),
         ui.actual = "Elevator"
  PROVE  UiOK(ui', apps', game')
<1>1. ~game.inProgress /\ ui \in Uis /\ apps \in AppStates /\ RunsAgain(ui)
  BY DEF UiOK, IsPlayed
<1>2. ui' \in {ui, Disable(ui), ChangeState(ui, Menu)}
  BY DEF Elevator_Event
<1>3. apps' = apps /\ game' = game
  BY DEF Elevator_Event
<1>4. ui' \in Uis /\ RunsAgain(ui')
  BY <1>1, <1>2, EventRequests
<1> QED BY <1>1, <1>3, <1>4, WithoutGame

LEMMA ButtonTaskKeeps ==
  ASSUME UiInv, ButtonTask
  PROVE  UiOK(ui', apps', game') /\ at' \in 1 .. SystemTime
<1>1. UiOK(ui, apps, game) /\ Len(Buttons) = 4 /\ at \in 1 .. 4 /\ at' = at + 1
      /\ SystemTime = 6
  BY DEF UiInv, ButtonTask, Buttons, Display, SystemTime
<1>2. CASE ui' = ui /\ apps' = apps /\ game' = game
  BY <1>1, <1>2
<1>3. ASSUME NEW type \in PressTypes, ButtonEventHandler(Buttons[at], type)
      PROVE  UiOK(ui', apps', game')
  <2> DEFINE button == Buttons[at]
  <2>1. button \in {"Up", "Down", "Right", "Left"}
    BY <1>1 DEF Buttons
  <2>2. ui.actual \in {Menu, "Snake", "Input", "CarAnimation", "Clock", "TrafficLight", "Elevator"}
    BY <1>1, AppNames DEF UiOK, Uis
  <2> HIDE DEF button
  <2>3. \/ ui.actual = Menu /\ MenuEvent(button)
        \/ ui.actual = "Snake" /\ Snake_Event(button, type)
        \/ ui.actual = "Input" /\ Input_Event(button, type)
        \/ ui.actual = "CarAnimation" /\ CarAnimation_Event(button, type)
        \/ ui.actual = "Clock" /\ Clock_Event(button)
        \/ ui.actual = "TrafficLight" /\ TrafficLight_Event(button)
        \/ ui.actual = "Elevator" /\ Elevator_Event(button, type)
    BY <1>3, <2>2 DEF ButtonEventHandler, button, Menu
  <2> QED BY <1>1, <2>1, <2>3, MenuEventKeeps, SnakeEventKeeps, InputEventKeeps,
             CarAnimationEventKeeps, ClockEventKeeps, TrafficLightEventKeeps,
             ElevatorEventKeeps
<1>4. UiOK(ui', apps', game')
  BY <1>2, <1>3 DEF ButtonTask
<1> QED BY <1>1, <1>4

\* The display task's state after the update of what it shows.
LEMMA UpdatedRunsAgain ==
  ASSUME NEW u \in Uis, NEW timeout, u.changed => u.requested /\ u.actual = "Snake"
  PROVE  /\ Updated(u, timeout) \in Uis /\ RunsAgain(Updated(u, timeout))
         /\ Updated(u, timeout).actual = u.actual /\ Updated(u, timeout).changed = u.changed
<1> DEFINE w == Updated(u, timeout)
<1>1. u.actual \in {Menu, "Snake", "Input", "CarAnimation", "Clock", "TrafficLight", "Elevator"}
  BY AppNames DEF Uis
<1>2. /\ Disable(u) \in Uis /\ Disable(u).actual = u.actual /\ Disable(u).changed = u.changed
      /\ SetOnceRun(u) \in Uis /\ SetOnceRun(u).actual = u.actual
      /\ SetOnceRun(u).changed = u.changed /\ SetOnceRun(u).requested = u.requested
      /\ SetOnceRun(u).disabled = FALSE
  BY DEF Uis, Disable, SetOnceRun
<1>3. CASE u.actual \in {Menu, "Elevator"}
  <2>1. w = Disable(u)
    BY <1>3 DEF Updated, Menu
  <2> HIDE DEF w
  <2>2. u.actual \notin Animated /\ u.actual # "Snake"
    BY <1>3 DEF Animated, Menu
  <2> QED BY <1>2, <2>1, <2>2 DEF RunsAgain, w
<1>4. CASE u.actual \in {"Snake", "Input", "CarAnimation", "Clock"}
  <2>1. w = SetOnceRun(u)
    BY <1>4 DEF Updated, Menu
  <2> HIDE DEF w
  <2> QED BY <1>2, <2>1 DEF RunsAgain, w
<1>5. CASE u.actual = "TrafficLight"
  <2>1. w = SetOnceRun(u) \/ w = u
    BY <1>5 DEF Updated, Menu
  <2> HIDE DEF w
  <2>2. u.actual \notin Animated /\ u.actual # "Snake"
    BY <1>5 DEF Animated
  <2> QED BY <1>2, <2>1, <2>2 DEF RunsAgain, w
<1> QED BY <1>1, <1>3, <1>4, <1>5

LEMMA DisplayHandlerKeeps ==
  ASSUME UiOK(ui, apps, game), NEW timeout, DisplayHandler(timeout)
  PROVE  UiOK(ui', apps', game')
<1> DEFINE u == RunTask(ui)
           shown == IF u.changed THEN Initialised([u EXCEPT !.changed = FALSE]) ELSE u
<1>1. ui \in Uis /\ apps \in AppStates /\ GameOK(game) /\ GamePath(game)
      /\ IsPlayed(ui, apps, game)
  BY DEF UiOK
<1>2. u \in Uis /\ u.actual = ui.actual /\ u.changed = ui.changed
  BY <1>1 DEF RunTask, Uis
<1>3. PICK before \in IF u.changed THEN InitialisedGames(u) ELSE {game} :
         \E after \in UpdatedGames(u, before) :
            /\ game' = after
            /\ ui' = Updated(AfterStep(shown, before, after), timeout)
            /\ apps' = IF u.changed /\ u.actual = "TrafficLight"
                       THEN [apps EXCEPT !.mode = 1] ELSE MenuAfterStep(before, after)
  BY DEF DisplayHandler
<1>4. PICK after \in UpdatedGames(u, before) :
         /\ game' = after
         /\ ui' = Updated(AfterStep(shown, before, after), timeout)
         /\ apps' = IF u.changed /\ u.actual = "TrafficLight"
                    THEN [apps EXCEPT !.mode = 1] ELSE MenuAfterStep(before, after)
  BY <1>3
<1> HIDE DEF u
<1>5. shown \in Uis /\ shown.actual = ui.actual /\ shown.changed = FALSE
  <2>1. CASE u.changed
    <3> DEFINE v == [u EXCEPT !.changed = FALSE]
    <3>1. v \in Uis /\ v.actual = ui.actual /\ v.changed = FALSE
      BY <1>2 DEF Uis
    <3>2. shown = Initialised(v)
      BY <2>1
    <3> HIDE DEF v, shown
    <3>3. shown = SetOnceRun(v) \/ shown = Disable(v) \/ shown = v
      BY <3>2 DEF Initialised
    <3> QED BY <3>1, <3>3 DEF SetOnceRun, Disable, Uis
  <2>2. CASE ~u.changed
    BY <1>2, <2>2 DEF Uis
  <2> QED BY <2>1, <2>2
<1> HIDE DEF shown
<1>6. GameOK(before) /\ GamePath(before)
      /\ (before.inProgress => ui.actual = "Snake" /\ ~apps.snakeMenu)
  <2>1. CASE before \in NewGames /\ u.actual = "Snake" /\ ~apps.snakeMenu
    BY <1>2, <2>1, NewGamePath
  <2>2. CASE before = game
    BY <1>1, <2>2 DEF IsPlayed
  <2> QED BY <1>3, <2>1, <2>2 DEF InitialisedGames
<1>7. GameOK(after) /\ GamePath(after) /\ (after.inProgress => before.inProgress)
  <2>1. CASE before.inProgress /\ after \in Stepped(before, before.lastStep)
    <3>1. before.lastStep \in Steps
      BY <1>6, <2>1 DEF GamePath
    <3> QED BY <1>6, <2>1, <3>1, SteppedGamePath
  <2>2. CASE after = before
    BY <1>6, <2>2
  <2> QED BY <1>4, <2>1, <2>2 DEF UpdatedGames
<1> DEFINE w == AfterStep(shown, before, after)
<1>8. CASE before.inProgress /\ ~after.inProgress
  <2>1. w = ChangeState(shown, "Snake") /\ ui.actual = "Snake" /\ "Snake" \in Apps \cup {Menu}
    BY <1>6, <1>8, AppNames DEF AfterStep
  <2>2. w \in Uis /\ w.requested /\ w.actual = "Snake"
    BY <1>5, <2>1 DEF ChangeState, Request, Uis
  <2>3. ui' \in Uis /\ RunsAgain(ui')
    <3> HIDE DEF w
    <3>1. ui' = Updated(w, timeout)
      BY <1>4 DEF w
    <3> QED BY <2>2, <3>1, UpdatedRunsAgain
  <2>4. apps' \in AppStates
    <3>1. apps' = [apps EXCEPT !.mode = 1]
          \/ apps' = [apps EXCEPT !.snakeMenu = apps.snakeMenu \/ TRUE]
      BY <1>4, <1>8 DEF MenuAfterStep
    <3>2. 1 \in DOMAIN LightModes
      BY DEF LightModes
    <3> QED BY <1>1, <3>1, <3>2 DEF AppStates
  <2> QED BY <1>4, <1>7, <1>8, <2>3, <2>4 DEF UiOK, IsPlayed
<1>9. CASE ~(before.inProgress /\ ~after.inProgress)
  <2>1. w = shown
    BY <1>9 DEF AfterStep
  <2>2. ui' \in Uis /\ RunsAgain(ui') /\ ui'.actual = ui.actual /\ ui'.changed = FALSE
    <3> HIDE DEF w
    <3>1. ui' = Updated(shown, timeout)
      BY <1>4, <2>1 DEF w
    <3> QED BY <1>5, <3>1, UpdatedRunsAgain
  <2>3. apps' \in AppStates /\ apps'.snakeMenu = apps.snakeMenu
    <3>1. apps' = [apps EXCEPT !.mode = 1]
          \/ apps' = [apps EXCEPT !.snakeMenu = apps.snakeMenu \/ FALSE]
      BY <1>4, <1>9 DEF MenuAfterStep
    <3>2. 1 \in DOMAIN LightModes
      BY DEF LightModes
    <3> QED BY <1>1, <3>1, <3>2 DEF AppStates
  <2>4. IsPlayed(ui', apps', after)
    BY <1>6, <1>7, <2>2, <2>3 DEF IsPlayed
  <2> QED BY <1>4, <1>7, <2>2, <2>3, <2>4 DEF UiOK
<1> QED BY <1>8, <1>9

LEMMA UiNextKeeps ==
  ASSUME UiInv, UiNext
  PROVE  UiInv'
<1>1. UiOK(ui, apps, game) /\ Display = 5 /\ SystemTime = 6
  BY DEF UiInv, Buttons, Display, SystemTime
<1>2. CASE ButtonTask
  BY <1>2, ButtonTaskKeeps DEF UiInv, SystemTime, Display
<1>3. CASE DisplayTask
  <2>1. at' \in 1 .. SystemTime
    BY <1>1, <1>3 DEF DisplayTask
  <2>2. UiOK(ui', apps', game')
    <3>1. \/ DisplayHandler(TRUE) \/ DisplayHandler(FALSE)
          \/ ui' = ui /\ apps' = apps /\ game' = game
      BY <1>3 DEF DisplayTask
    <3> QED BY <1>1, <3>1, DisplayHandlerKeeps
  <2> QED BY <2>1, <2>2 DEF UiInv, SystemTime, Display
<1>4. CASE SystemTimeTask
  <2>1. at' \in 1 .. SystemTime /\ apps' = apps /\ game' = game
        /\ (ui' = Request(ui) \/ ui' = ui)
    BY <1>1, <1>4 DEF SystemTimeTask
  <2>2. UiOK(ui', apps', game')
    <3>1. CASE ui' = ui
      BY <1>1, <2>1, <3>1
    <3>2. CASE ui' = Request(ui)
      <4>1. ui \in Uis /\ RunsAgain(ui)
        BY <1>1 DEF UiOK
      <4>2. ui' \in Uis /\ RunsAgain(ui')
        BY <3>2, <4>1, EventRequests
      <4>3. ui'.actual = ui.actual /\ ui'.changed = ui.changed
        BY <3>2, <4>1 DEF Request, Uis
      <4> QED BY <1>1, <2>1, <4>2, <4>3 DEF UiOK, IsPlayed
    <3> QED BY <2>1, <3>1, <3>2
  <2> QED BY <2>1, <2>2 DEF UiInv, SystemTime, Display
<1> QED BY <1>2, <1>3, <1>4 DEF UiNext

LEMMA UiInitOK ==
  ASSUME UiInit
  PROVE  UiInv
<1>1. ui \in Uis /\ RunsAgain(ui)
  BY AppNames DEF UiInit, Uis, RunsAgain, Animated, Menu
<1>2. apps \in AppStates
  <2>1. 0 \in 0 .. MaxPosition /\ 1 \in DOMAIN ClockStates /\ 1 \in DOMAIN LightModes
    BY UserInterfaceAssumption DEF ClockStates, LightModes
  <2> QED BY <2>1, UserInterfaceAssumption DEF UiInit, AppStates
<1>3. GameOK(game) /\ ~game.inProgress
  <2>1. [p \in Points |-> "Unknown"] \in Matrices
    BY DEF Matrices, Marks
  <2> QED BY <2>1 DEF UiInit, NoGame, GameOK, Coordinates
<1>4. at \in 1 .. SystemTime
  BY DEF UiInit, SystemTime, Display, Buttons
<1> QED BY <1>1, <1>2, <1>3, <1>4 DEF UiInv, UiOK, GamePath, IsPlayed

\* The inductive invariant of the user interface, as the main loop runs it.
THEOREM UiInvariance == MainLoopSpec => []UiInv
<1>1. MainLoopInit => UiInv
  BY UiInitOK DEF MainLoopInit
<1>2. UiInv /\ [MainLoopNext]_mainLoopVars => UiInv'
  <2>1. CASE UiInv /\ RunUserInterface
    BY <2>1, UiNextKeeps DEF RunUserInterface
  <2>2. CASE UiInv /\ UNCHANGED uiVars
    BY <2>2 DEF uiVars, UiInv, SystemTime, Display
  <2>3. [MainLoopNext]_mainLoopVars => RunUserInterface \/ UNCHANGED uiVars
    BY DEF MainLoopNext, mainLoopVars, RunCircularBuffer, RunTerminal, RunLinkedList,
           RunCalendar, RunGlobalVariables
  <2> QED BY <2>1, <2>2, <2>3
<1> QED BY <1>1, <1>2, PTL DEF MainLoopSpec

\* The fields of the menu, its applications and the game keep their types
\* (Logic.c, SmallApps.c, Snake.c).
THEOREM UiTypeCorrect == MainLoopSpec => []UiTypeOK
<1>1. ASSUME UiInv PROVE UiTypeOK
  <2>1. ui \in Uis /\ apps \in AppStates /\ game.matrix \in Matrices /\ at \in 1 .. SystemTime
    BY <1>1 DEF UiInv, UiOK, GameOK
  <2>2. DOMAIN game.matrix = Points
    BY <2>1 DEF Matrices
  <2> QED BY <2>1, <2>2 DEF Uis, AppStates, UiTypeOK
<1> QED BY <1>1, UiInvariance, PTL

\* While a game is played it is shown, and its snake is one path from its end
\* to its head, whatever the size of the display (Snake_Step, Snake_AddNewCoord
\* and Snake_DeleteLastPoint in Snake.c).
THEOREM SnakeStaysAPath == MainLoopSpec => []SnakeIsAPath
<1>1. UiInv => SnakeIsAPath
  BY PathIsAPath DEF UiInv, UiOK, IsPlayed, SnakeIsAPath
<1> QED BY <1>1, UiInvariance, PTL

\* A chosen application will be drawn and an animation goes on, whatever the
\* buttons and the clock ask of Task_Display (Logic_DisplayHandler in Logic.c).
THEOREM DisplayKeepsRunning == MainLoopSpec => []DisplayRunsAgain
<1>1. UiInv => DisplayRunsAgain
  BY DEF UiInv, UiOK, RunsAgain, DisplayRunsAgain
<1> QED BY <1>1, UiInvariance, PTL
-----------------------------------------------------------------------------
(* The terminal: what a batch of characters leaves in the flags.           *)

Fields ==
    {"line", "length", "cursor", "flags", "escape", "actualEscape", "event", "returned"}
IsState(st) == st = [field \in Fields |-> st[field]]

KeyFlags == {"Backspace", "Delete", "EscapeSequence", "Tab", "Enter"}

\* The loop without a flag from before: it goes on until the first key, so at
\* most one flag of a key is set, and an event is reported if any flag is.
LoopInv(st) ==
    /\ IsState(st) /\ st.event \in BOOLEAN /\ st.returned \in BOOLEAN
    /\ ~st.returned => st.flags \subseteq {"NotLastChar"}
    /\ st.returned => \E key \in KeyFlags : key \in st.flags /\ st.flags \subseteq {"NotLastChar", key}
    /\ st.event <=> st.flags # {}

LEMMA ReceiveKeyKeeps ==
  ASSUME NEW st, LoopInv(st), ~st.returned, NEW key \in KeyFlags, NEW st0, IsState(st0),
         st0.flags = st.flags
  PROVE  LoopInv(ReceiveKey(st0, key))
<1> DEFINE r == ReceiveKey(st0, key)
<1>1. IsState(r) /\ r.flags = st.flags \cup {key} /\ r.event = TRUE /\ r.returned = TRUE
  BY DEF ReceiveKey, IsState, Fields
<1> HIDE DEF r
<1>2. LoopInv(r)
  BY <1>1 DEF LoopInv
<1> QED BY <1>2 DEF r

\* A state with the same flags.
LEMMA SameFlags ==
  ASSUME NEW st, LoopInv(st), NEW r, IsState(r), r.flags = st.flags, r.event = st.event,
         r.returned = st.returned
  PROVE  LoopInv(r)
BY Zenon DEF LoopInv

LEMMA ReceiveEscapeKeeps ==
  ASSUME NEW st, LoopInv(st), ~st.returned, NEW c
  PROVE  LoopInv(ReceiveEscape(st, c))
<1> DEFINE r == ReceiveEscape(st, c)
<1>1. IsState(st)
  BY DEF LoopInv
<1>2. CASE st.escape = 2 /\ c # "3"
  <2> DEFINE st0 == [st EXCEPT !.escape = 0, !.actualEscape = c]
  <2>1. r = ReceiveKey(st0, "EscapeSequence")
    BY <1>2 DEF ReceiveEscape
  <2>2. IsState(st0) /\ st0.flags = st.flags
    BY <1>1 DEF IsState, Fields
  <2> HIDE DEF st0
  <2> QED BY <2>1, <2>2, ReceiveKeyKeeps DEF KeyFlags
<1>3. CASE st.escape = 3 /\ c = "~"
  <2> DEFINE st0 == [st EXCEPT !.escape = 0]
  <2>1. r = ReceiveKey(st0, "Delete")
    BY <1>3 DEF ReceiveEscape
  <2>2. IsState(st0) /\ st0.flags = st.flags
    BY <1>1 DEF IsState, Fields
  <2> HIDE DEF st0
  <2> QED BY <2>1, <2>2, ReceiveKeyKeeps DEF KeyFlags
<1>4. CASE ~(st.escape = 2 /\ c # "3") /\ ~(st.escape = 3 /\ c = "~")
  <2>1. \/ r = [st EXCEPT !.escape = IF c = "[" THEN 2 ELSE 0]
        \/ r = [st EXCEPT !.escape = 3, !.actualEscape = c]
        \/ r = [st EXCEPT !.escape = 4] \/ r = st
    <3>1. CASE st.escape = 1
      BY <3>1 DEF ReceiveEscape
    <3>2. CASE st.escape = 2 /\ c = "3"
      BY <3>2 DEF ReceiveEscape
    <3>3. CASE st.escape = 3 /\ c # "~"
      BY <3>3 DEF ReceiveEscape
    <3>4. CASE st.escape \notin {1, 2, 3}
      BY <3>4 DEF ReceiveEscape
    <3> QED BY <1>4, <3>1, <3>2, <3>3, <3>4
  <2> HIDE DEF r
  <2>2. IsState(r) /\ r.flags = st.flags /\ r.event = st.event /\ r.returned = st.returned
    BY <1>1, <2>1 DEF IsState, Fields
  <2>3. LoopInv(r)
    BY <2>2, SameFlags
  <2> QED BY <2>3 DEF r
<1> QED BY <1>2, <1>3, <1>4

LEMMA ReceiveLetterKeeps ==
  ASSUME NEW st, LoopInv(st), ~st.returned, NEW c
  PROVE  LoopInv(ReceiveLetter(st, c))
<1> DEFINE r == ReceiveLetter(st, c)
<1>1. IsState(st)
  BY DEF LoopInv
<1>2. CASE r = st
  BY <1>2
<1>3. CASE r = AppendLetter(st, c)
  <2>1. IsState(r) /\ r.flags = st.flags /\ r.event = st.event /\ r.returned = st.returned
    BY <1>1, <1>3 DEF IsState, Fields, AppendLetter
  <2> QED BY <2>1, SameFlags
<1>4. CASE r = InsertLetter(st, c)
  <2>1. /\ IsState(r) /\ r.flags = st.flags \cup {"NotLastChar"} /\ r.event = TRUE
        /\ r.returned = st.returned
    BY <1>1, <1>4 DEF IsState, Fields, InsertLetter
  <2> HIDE DEF r
  <2>2. LoopInv(r)
    BY <2>1 DEF LoopInv
  <2> QED BY <2>2 DEF r
<1> QED BY <1>2, <1>3, <1>4 DEF ReceiveLetter

LEMMA ReceiveCharKeeps ==
  ASSUME NEW st, LoopInv(st), NEW c
  PROVE  LoopInv(ReceiveChar(st, c))
<1> DEFINE r == ReceiveChar(st, c)
<1>1. IsState(st)
  BY DEF LoopInv
<1>2. CASE st.returned
  BY <1>2 DEF ReceiveChar
<1>3. CASE ~st.returned /\ st.escape # 0
  BY <1>3, ReceiveEscapeKeeps DEF ReceiveChar
<1>4. CASE ~st.returned /\ st.escape = 0 /\ c = ESC
  <2>1. r = [st EXCEPT !.escape = 1]
    BY <1>4 DEF ReceiveChar
  <2> HIDE DEF r
  <2>2. IsState(r) /\ r.flags = st.flags /\ r.event = st.event /\ r.returned = st.returned
    BY <1>1, <2>1 DEF IsState, Fields
  <2>3. LoopInv(r)
    BY <2>2, SameFlags
  <2> QED BY <2>3 DEF r
<1>5. CASE ~st.returned /\ st.escape = 0 /\ c = "Enter"
  <2> DEFINE st0 == [st EXCEPT !.line[st.length] = EndOfString]
  <2>1. r = ReceiveKey(st0, "Enter")
    BY <1>5 DEF ReceiveChar, ESC
  <2>2. IsState(st0) /\ st0.flags = st.flags
    BY <1>1 DEF IsState, Fields
  <2> HIDE DEF st0
  <2> QED BY <1>5, <2>1, <2>2, ReceiveKeyKeeps DEF KeyFlags
<1>6. CASE ~st.returned /\ st.escape = 0 /\ c # ESC /\ c # "Enter" /\ c \in Keys
  <2>1. r = ReceiveKey(st, c) /\ c \in KeyFlags
    BY <1>6 DEF ReceiveChar, Keys, KeyFlags
  <2> QED BY <1>1, <1>6, <2>1, ReceiveKeyKeeps
<1>7. CASE ~st.returned /\ st.escape = 0 /\ c # ESC /\ c # "Enter" /\ c \notin Keys
  BY <1>7, ReceiveLetterKeeps DEF ReceiveChar
<1> QED BY <1>2, <1>3, <1>4, <1>5, <1>6, <1>7

\* The loop of ProcessReceivedCharacter, over the first n characters of a batch.
Looped(f, start, batch, n) ==
    f = [k \in 0 .. n |-> IF k = 0 THEN start ELSE ReceiveChar(f[k - 1], batch[k])]

LEMMA LoopEnds ==
  ASSUME NEW start, NEW batch, NEW n \in Nat
  PROVE  \E f : Looped(f, start, batch, n)
<1> DEFINE T == {m \in Nat : ~ \E f : Looped(f, start, batch, m)}
<1>1. SUFFICES ASSUME T # {} PROVE FALSE
  OBVIOUS
<1>2. T \subseteq Nat
  OBVIOUS
<1>3. PICK x \in T : \A y \in T : x <= y
  BY <1>1, <1>2, LeastNumber
<1>4. x \in Nat /\ ~ \E f : Looped(f, start, batch, x)
  OBVIOUS
<1>5. x # 0
  <2>1. Looped([k \in 0 .. 0 |-> start], start, batch, 0)
    BY DEF Looped
  <2> QED BY <1>4, <2>1
<1>6. x - 1 \in Nat /\ ~(x <= x - 1)
  BY <1>4, <1>5
<1>7. PICK f : Looped(f, start, batch, x - 1)
  BY <1>3, <1>6
<1> DEFINE g == [k \in 0 .. x |-> IF k = x THEN ReceiveChar(f[x - 1], batch[x]) ELSE f[k]]
<1>8. Looped(g, start, batch, x)
  <2>1. ASSUME NEW k \in 0 .. x
        PROVE  g[k] = IF k = 0 THEN start ELSE ReceiveChar(g[k - 1], batch[k])
    <3>1. CASE k = 0
      <4>1. 0 \in 0 .. x - 1 /\ k # x
        BY <1>4, <1>5, <3>1
      <4> QED BY <1>7, <3>1, <4>1 DEF Looped
    <3>2. CASE k = x
      <4>1. x - 1 \in 0 .. x /\ x - 1 # x
        BY <1>6
      <4>2. g[k - 1] = f[x - 1]
        BY <3>2, <4>1
      <4> QED BY <1>5, <3>2, <4>2
    <3>3. CASE k # 0 /\ k # x
      <4>1. k \in 0 .. x - 1 /\ k - 1 \in 0 .. x /\ k - 1 # x
        BY <1>4, <3>3
      <4>2. g[k] = f[k] /\ g[k - 1] = f[k - 1]
        BY <3>3, <4>1
      <4>3. f[k] = ReceiveChar(f[k - 1], batch[k])
        BY <1>7, <3>3, <4>1 DEF Looped
      <4> QED BY <3>3, <4>2, <4>3
    <3> QED BY <3>1, <3>2, <3>3
  <2>2. g = [k \in 0 .. x |-> g[k]]
    OBVIOUS
  <2> HIDE DEF g
  <2> QED BY <2>1, <2>2 DEF Looped
<1> QED BY <1>4, <1>8

LEMMA LoopKeeps ==
  ASSUME received = {}, NEW batch, Len(batch) \in Nat
  PROVE  LoopInv(ProcessReceivedCharacter(batch)[Len(batch)])
<1> DEFINE start == [line |-> line, length |-> actualLength, cursor |-> cursorPosition,
                     flags |-> received, escape |-> escape, actualEscape |-> actualEscape,
                     event |-> FALSE, returned |-> FALSE]
           n == Len(batch)
           st == CHOOSE f : Looped(f, start, batch, n)
<1>1. ProcessReceivedCharacter(batch)[Len(batch)] = st[n]
  BY DEF ProcessReceivedCharacter, Looped
<1>2. LoopInv(start)
  <2>1. IsState(start)
    BY DEF IsState, Fields
  <2>2. start.flags = {} /\ start.event = FALSE /\ start.returned = FALSE
    OBVIOUS
  <2> HIDE DEF start
  <2> QED BY <2>1, <2>2 DEF LoopInv
<1> HIDE DEF start, n
<1>3. n \in Nat
  BY DEF n
<1>4. Looped(st, start, batch, n)
  BY <1>3, LoopEnds
<1> HIDE DEF st
<1> DEFINE T == {k \in 0 .. n : ~LoopInv(st[k])}
<1>5. SUFFICES ASSUME T # {} PROVE FALSE
  BY <1>1, <1>3
<1>6. T \subseteq Nat
  BY <1>3
<1>7. PICK x \in T : \A y \in T : x <= y
  BY <1>5, <1>6, LeastNumber
<1>8. x \in 0 .. n /\ ~LoopInv(st[x])
  OBVIOUS
<1>9. st[x] = IF x = 0 THEN start ELSE ReceiveChar(st[x - 1], batch[x])
  BY <1>4, <1>8 DEF Looped
<1>10. x # 0
  BY <1>2, <1>8, <1>9
<1>11. x - 1 \in 0 .. n /\ ~(x <= x - 1)
  BY <1>3, <1>8, <1>10
<1>12. LoopInv(st[x - 1])
  BY <1>7, <1>11
<1> QED BY <1>8, <1>9, <1>10, <1>12, ReceiveCharKeeps

LEMMA OneFlagIsHandled ==
  ASSUME NEW flag \in KeyFlags \cup {"NotLastChar"}
  PROVE  HandledFlag({flag}) = flag
<1> DEFINE First(k) == /\ Priority[k] \in {flag}
                       /\ \A j \in 1 .. k - 1 : Priority[j] \notin {flag}
<1>1. DOMAIN Priority = 1 .. 6
  BY DEF Priority
<1>2. /\ Priority[1] = "Backspace" /\ Priority[2] = "Delete" /\ Priority[3] = "NotLastChar"
      /\ Priority[4] = "EscapeSequence" /\ Priority[5] = "Tab" /\ Priority[6] = "Enter"
  BY DEF Priority
<1>3. \A j \in 1 .. 6 : j = 1 \/ j = 2 \/ j = 3 \/ j = 4 \/ j = 5 \/ j = 6
  OBVIOUS
<1>4. \E k \in 1 .. 6 : Priority[k] = flag
  BY <1>2 DEF KeyFlags
<1>5. PICK k \in 1 .. 6 : Priority[k] = flag
  BY <1>4
<1>6. \A j \in 1 .. 6 : Priority[j] = flag => j = k
  BY <1>2, <1>3, <1>5
<1>7. First(k)
  <2>1. \A j \in 1 .. k - 1 : j \in 1 .. 6 /\ j # k
    BY <1>5
  <2> QED BY <1>5, <1>6, <2>1
<1>8. Priority[CHOOSE i \in DOMAIN Priority : First(i)] = flag
  BY <1>1, <1>7
<1> QED BY <1>8 DEF HandledFlag

LEMMA BatchLength ==
  ASSUME NEW batch \in Batches \cup RestBatches
  PROVE  Len(batch) \in Nat /\ DOMAIN batch = 1 .. Len(batch)
<1> DEFINE Bytes == Letters \cup Keys \cup Arrows \cup {ESC, "[", "3", "~"}
<1>1. /\ Letters \subseteq Bytes /\ Keys \subseteq Bytes /\ Arrows \subseteq Bytes
      /\ ESC \in Bytes /\ "[" \in Bytes /\ "3" \in Bytes /\ "~" \in Bytes
      /\ "Backspace" \in Bytes /\ "Enter" \in Bytes /\ "D" \in Bytes
  BY DEF Keys, Arrows
<1> HIDE DEF Bytes
<1>2. \A b1 \in Bytes : <<b1>> \in Seq(Bytes)
  OBVIOUS
<1>3. \A b1, b2 \in Bytes : <<b1, b2>> \in Seq(Bytes)
  OBVIOUS
<1>4. \A b1, b2, b3 \in Bytes : <<b1, b2, b3>> \in Seq(Bytes)
  OBVIOUS
<1>5. \A b1, b2, b3, b4 \in Bytes : <<b1, b2, b3, b4>> \in Seq(Bytes)
  OBVIOUS
<1>6. \A s1, s2 \in Seq(Bytes) : s1 \o s2 \in Seq(Bytes)
  OBVIOUS
<1>7. \A s \in KeyBatches : s \in Seq(Bytes)
  <2>1. ASSUME NEW s \in EscapeKeys PROVE s \in Seq(Bytes)
    <3>1. CASE s = <<ESC, "[", "3", "~">>
      BY <1>1, <1>5, <3>1
    <3>2. CASE \E d \in Arrows : s = <<ESC, "[", d>>
      <4>1. PICK d \in Arrows : s = <<ESC, "[", d>>
        BY <3>2
      <4>2. ESC \in Bytes /\ "[" \in Bytes /\ d \in Bytes
        BY <1>1
      <4> QED BY <1>4, <4>1, <4>2
    <3> QED BY <3>1, <3>2 DEF EscapeKeys
  <2> QED BY <1>1, <1>2, <2>1 DEF KeyBatches
<1>8. \A s \in LetterBatches : s \in Seq(Bytes)
  BY <1>1, <1>2 DEF LetterBatches
<1>9. \A s \in Single : s \in Seq(Bytes)
  BY <1>1, <1>2, <1>4, <1>7, <1>8 DEF Single, CutBatches
<1>10. CASE batch \in RestBatches
  <2>1. batch \in Seq(Bytes)
    BY <1>1, <1>2, <1>3, <1>8, <1>10 DEF RestBatches
  <2> QED BY <2>1
<1>11. CASE batch \in Batches
  <2>1. CASE batch \in Single
    BY <1>9, <2>1
  <2>2. CASE batch \in {l \o s : l \in LetterBatches, s \in Single}
    <3>1. PICK l \in LetterBatches, s \in Single : batch = l \o s
      BY <2>2
    <3>2. batch \in Seq(Bytes)
      BY <1>6, <1>8, <1>9, <3>1
    <3> QED BY <3>2
  <2>3. CASE batch \in {k \o s : k \in KeyBatches, s \in LetterBatches \cup {<<"Backspace">>}}
    <3>1. PICK k \in KeyBatches, s \in LetterBatches \cup {<<"Backspace">>} : batch = k \o s
      BY <2>3
    <3>2. s \in Seq(Bytes)
      BY <1>1, <1>2, <1>8
    <3>3. batch \in Seq(Bytes)
      BY <1>6, <1>7, <3>1, <3>2
    <3> QED BY <3>3
  <2> QED BY <1>11, <2>1, <2>2, <2>3 DEF Batches
<1> QED BY <1>10, <1>11

KeysInv == mixed \in BOOLEAN /\ KeysAreHandled

LEMMA CheckCommandKeeps ==
  ASSUME KeysInv, NEW batch, Len(batch) \in Nat, CheckCommand(batch)
  PROVE  KeysInv'
<1> DEFINE st == ProcessReceivedCharacter(batch)[Len(batch)]
<1>0. HandleEvent(st) \/ UNCHANGED <<editVars, historyVars, mixed>>
  BY DEF CheckCommand
<1> SUFFICES ASSUME HandleEvent(st) PROVE KeysInv'
  BY <1>0 DEF KeysInv, KeysAreHandled, editVars
<1>1. mixed' = (mixed \/ ("NotLastChar" \in st.flags /\ st.flags # {"NotLastChar"}))
  BY DEF HandleEvent
<1>2. mixed' \in BOOLEAN
  BY <1>1
<1>3. ASSUME ~mixed' PROVE received' = {}
  <2>1. ~mixed /\ received = {}
    BY <1>1, <1>3 DEF KeysInv, KeysAreHandled
  <2>2. LoopInv(st)
    BY <2>1, LoopKeeps
  <2>3. "NotLastChar" \in st.flags => st.flags = {"NotLastChar"}
    BY <1>1, <1>3
  <2>4. st.flags = {} \/ \E flag \in KeyFlags \cup {"NotLastChar"} : st.flags = {flag}
    BY <2>2, <2>3 DEF LoopInv
  <2>5. IF st.event THEN HandleFlag(st, HandledFlag(st.flags)) ELSE SetReceived(st, "None")
    BY DEF HandleEvent
  <2>6. st.event <=> st.flags # {}
    BY <2>2 DEF LoopInv
  <2> HIDE DEF st
  <2>7. CASE st.flags = {}
    BY <2>5, <2>6, <2>7 DEF SetReceived
  <2>8. CASE st.flags # {}
    <3>1. PICK flag \in KeyFlags \cup {"NotLastChar"} : st.flags = {flag}
      BY <2>4, <2>8
    <3>2. HandledFlag(st.flags) = flag
      BY <3>1, OneFlagIsHandled
    <3>3. SetReceived(st, flag)
      BY <2>5, <2>6, <2>8, <3>2 DEF HandleFlag
    <3> QED BY <3>1, <3>3 DEF SetReceived
  <2> QED BY <2>7, <2>8
<1> QED BY <1>2, <1>3 DEF KeysInv, KeysAreHandled

\* A key takes effect in the run of Terminal_CheckCommand that receives it,
\* unless a letter inside the line came together with a key; not only for the
\* batches of the bound, but for any.
THEOREM KeysTakeEffect == MainLoopSpec => []KeysAreHandled
<1>1. MainLoopInit => KeysInv
  BY DEF MainLoopInit, TerminalInit, KeysInv, KeysAreHandled
<1>2. KeysInv /\ [MainLoopNext]_mainLoopVars => KeysInv'
  <2>1. CASE KeysInv /\ RunTerminal
    <3>1. CASE Overrun
      BY <2>1, <3>1 DEF Overrun, terminalVars, editVars, KeysInv, KeysAreHandled
    <3>2. CASE ReceiveBatch
      <4>1. PICK batch \in Batches \cup RestBatches : CheckCommand(batch)
        BY <3>2 DEF ReceiveBatch
      <4> QED BY <2>1, <4>1, BatchLength, CheckCommandKeeps
    <3> QED BY <2>1, <3>1, <3>2 DEF RunTerminal, TerminalNext
  <2>2. CASE KeysInv /\ UNCHANGED terminalVars
    BY <2>2 DEF terminalVars, editVars, historyVars, KeysInv, KeysAreHandled
  <2>3. [MainLoopNext]_mainLoopVars => RunTerminal \/ UNCHANGED terminalVars
    BY DEF MainLoopNext, mainLoopVars, RunCircularBuffer, RunUserInterface, RunLinkedList,
           RunCalendar, RunGlobalVariables
  <2> QED BY <2>1, <2>2, <2>3
<1>3. KeysInv => KeysAreHandled
  BY DEF KeysInv
<1> QED BY <1>1, <1>2, <1>3, PTL DEF MainLoopSpec
-----------------------------------------------------------------------------
(* The linked list implements the list of values.                          *)

\* s has the n busy items in the order of the list: nx and pv join neighbours
\* and end in Null, f and l are its ends, and item 0, if it is busy, is the first.
IsList(s, n, nx, pv, bz, f, l) ==
    /\ n \in Nat /\ s \in [1 .. n -> Items]
    /\ \A j, k \in 1 .. n : s[j] = s[k] => j = k
    /\ \A k \in 1 .. n : bz[s[k]]
    /\ \A i \in Items : bz[i] => \E k \in 1 .. n : s[k] = i
    /\ f = IF n = 0 THEN Null ELSE s[1]
    /\ l = IF n = 0 THEN Null ELSE s[n]
    /\ \A k \in 1 .. n : nx[s[k]] = IF k = n THEN Null ELSE s[k + 1]
    /\ \A k \in 1 .. n : pv[s[k]] = IF k = 1 THEN Null ELSE s[k - 1]
    /\ bz[0] => n # 0 /\ s[1] = 0

\* The n values that are met when the pointers p are followed from item i.
Followed(p, i, n) ==
    CHOOSE met : met = [k \in 1 .. n |-> IF k = 1 THEN i ELSE p[met[k - 1]]]

LEMMA FollowedOnly ==
  ASSUME NEW n \in Nat, NEW s \in [1 .. n -> Items], NEW p, NEW i,
         \A k \in 1 .. n : s[k] = IF k = 1 THEN i ELSE p[s[k - 1]]
  PROVE  Followed(p, i, n) = s
<1> DEFINE Is(met) == met = [k \in 1 .. n |-> IF k = 1 THEN i ELSE p[met[k - 1]]]
           met == Followed(p, i, n)
<1>1. Is(s)
  OBVIOUS
<1>2. Is(met)
  <2>1. met = CHOOSE m : Is(m)
    BY DEF Followed
  <2> HIDE DEF Is, met
  <2> QED BY <1>1, <2>1
<1> HIDE DEF met
<1>3. met = [k \in 1 .. n |-> met[k]]
      /\ \A k \in 1 .. n : met[k] = IF k = 1 THEN i ELSE p[met[k - 1]]
  BY <1>2
<1> DEFINE T == {k \in 1 .. n : met[k] # s[k]}
<1>4. CASE T = {}
  <2>1. \A k \in 1 .. n : met[k] = s[k]
    BY <1>4
  <2>2. met = s
    BY <1>3, <2>1
  <2> QED BY <2>2 DEF met
<1>5. CASE T # {}
  <2>1. T \subseteq Nat
    OBVIOUS
  <2>2. PICK x \in T : \A y \in T : x <= y
    BY <1>5, <2>1, LeastNumber
  <2>3. x \in 1 .. n /\ met[x] # s[x] /\ x # 1
    BY <1>3
  <2>4. x - 1 \in 1 .. n /\ ~(x <= x - 1)
    BY <2>3
  <2>5. met[x - 1] = s[x - 1]
    BY <2>2, <2>4
  <2>6. met[x] = p[met[x - 1]] /\ s[x] = p[s[x - 1]]
    BY <1>3, <2>3
  <2> QED BY <2>3, <2>5, <2>6
<1> QED BY <1>4, <1>5

\* A list has as many items as are busy, and both directions give them.
LEMMA ListIsFollowed ==
  ASSUME NEW s, NEW n, NEW nx, NEW pv, NEW bz, NEW f, NEW l, IsList(s, n, nx, pv, bz, f, l)
  PROVE  /\ Cardinality({i \in Items : bz[i]}) = n /\ n <= StoreLength
         /\ (\A i \in Items : bz[i]) <=> n = StoreLength
         /\ Followed(nx, f, n) = s
         /\ Followed(pv, l, n) \in [1 .. n -> Items]
         /\ \A k \in 1 .. n : Followed(pv, l, n)[k] = s[n - k + 1]
<1> DEFINE B == {i \in Items : bz[i]}
<1>1. n \in Nat /\ s \in [1 .. n -> Items] /\ StoreLength \in Nat \ {0}
  BY LinkedListAssumption DEF IsList
<1>2. s \in Bijection(1 .. n, B)
  <2>1. \A k \in 1 .. n : s[k] \in B
    BY <1>1 DEF IsList
  <2>2. s \in [1 .. n -> B]
    BY <1>1, <2>1
  <2>3. \A i \in B : \E k \in 1 .. n : s[k] = i
    BY DEF IsList
  <2>4. \A j, k \in 1 .. n : s[j] = s[k] => j = k
    BY DEF IsList
  <2> HIDE DEF B
  <2> QED BY <2>2, <2>3, <2>4 DEF Bijection, Injection, Surjection, IsInjective
<1>3. IsFiniteSet(1 .. n) /\ Cardinality(1 .. n) = n
  <2>1. 1 \in Int /\ n \in Int
    BY <1>1
  <2>2. IsFiniteSet(1 .. n) /\ Cardinality(1 .. n) = IF 1 > n THEN 0 ELSE n - 1 + 1
    BY <2>1, FS_Interval, Zenon
  <2> QED BY <1>1, <2>2
<1>4. Cardinality(B) = n
  <2> HIDE DEF B
  <2>1. ExistsBijection(1 .. n, B)
    BY <1>2 DEF ExistsBijection
  <2>2. Cardinality(B) = Cardinality(1 .. n)
    BY <1>3, <2>1, FS_Bijection
  <2> QED BY <1>3, <2>2
<1>5. IsFiniteSet(Items) /\ Cardinality(Items) = StoreLength
  <2>1. 0 \in Int /\ StoreLength - 1 \in Int
    BY <1>1
  <2>2. /\ IsFiniteSet(0 .. StoreLength - 1)
        /\ Cardinality(0 .. StoreLength - 1)
             = IF 0 > StoreLength - 1 THEN 0 ELSE StoreLength - 1 - 0 + 1
    BY <2>1, FS_Interval, Zenon
  <2> QED BY <1>1, <2>2 DEF Items
<1>6. n <= StoreLength /\ (n = StoreLength => B = Items)
  <2>1. B \in SUBSET Items
    OBVIOUS
  <2> HIDE DEF B
  <2> QED BY <1>4, <1>5, <2>1, FS_Subset
<1>7. (\A i \in Items : bz[i]) <=> n = StoreLength
  <2>1. (\A i \in Items : bz[i]) => B = Items
    OBVIOUS
  <2>2. B = Items => \A i \in Items : bz[i]
    OBVIOUS
  <2> QED BY <1>4, <1>5, <1>6, <2>1, <2>2
<1>8. Followed(nx, f, n) = s
  <2>1. ASSUME NEW k \in 1 .. n PROVE s[k] = IF k = 1 THEN f ELSE nx[s[k - 1]]
    <3>1. n # 0 /\ (k # 1 => k - 1 \in 1 .. n /\ k - 1 # n /\ k - 1 + 1 = k)
      BY <1>1
    <3> QED BY <3>1 DEF IsList
  <2> QED BY <1>1, <2>1, FollowedOnly
<1>9. /\ Followed(pv, l, n) \in [1 .. n -> Items]
      /\ \A k \in 1 .. n : Followed(pv, l, n)[k] = s[n - k + 1]
  <2>0. PICK r : r = [k \in 1 .. n |-> s[n - k + 1]]
    OBVIOUS
  <2>3. ASSUME NEW k \in 1 .. n PROVE r[k] = IF k = 1 THEN l ELSE pv[r[k - 1]]
    <3>1. n # 0 /\ n - 1 + 1 = n /\ r[k] = s[n - k + 1]
      BY <1>1, <2>0
    <3>2. CASE k = 1
      BY <3>1, <3>2 DEF IsList
    <3>3. CASE k # 1
      <4>1. /\ k - 1 \in 1 .. n /\ n - (k - 1) + 1 \in 1 .. n /\ n - (k - 1) + 1 # 1
            /\ n - (k - 1) + 1 - 1 = n - k + 1
        BY <1>1, <3>3
      <4>2. r[k - 1] = s[n - (k - 1) + 1]
        BY <2>0, <4>1
      <4>3. pv[s[n - (k - 1) + 1]] = s[n - (k - 1) + 1 - 1]
        BY <4>1 DEF IsList
      <4> QED BY <3>1, <3>3, <4>1, <4>2, <4>3
    <3> QED BY <3>2, <3>3
  <2>4. r \in [1 .. n -> Items]
    BY <1>1, <2>0
  <2>5. \A k \in 1 .. n : r[k] = IF k = 1 THEN l ELSE pv[r[k - 1]]
    BY <2>3
  <2>6. Followed(pv, l, n) = r
    BY <1>1, <2>4, <2>5, FollowedOnly
  <2> QED BY <2>0, <2>4, <2>6
<1> QED BY <1>4, <1>6, <1>7, <1>8, <1>9

\* The fields of the items once item i is behind the last one, l.
PutBehind(i, l, nx, pv, bz, nx2, pv2, bz2) ==
    /\ \A j \in Items : nx2[j] = IF j = l THEN i ELSE IF j = i THEN Null ELSE nx[j]
    /\ \A j \in Items : pv2[j] = IF j = i THEN l ELSE pv[j]
    /\ \A j \in Items : bz2[j] = IF j = i THEN TRUE ELSE bz[j]

GrownBy(i, n, s, s2) ==
    /\ \A k \in 1 .. n + 1 : s2[k] = IF k = n + 1 THEN i ELSE s[k]
    /\ \A k \in 1 .. n : s[k] # i

\* A free item, not item 0, becomes the last one.
LEMMA ListGrows ==
  ASSUME NEW s, NEW n, NEW nx, NEW pv, NEW bz, NEW f, NEW l, IsList(s, n, nx, pv, bz, f, l),
         n # 0, NEW i \in Items, i # 0, \A k \in 1 .. n : s[k] # i,
         NEW nx2, NEW pv2, NEW bz2, PutBehind(i, l, nx, pv, bz, nx2, pv2, bz2)
  PROVE  \E s2 : IsList(s2, n + 1, nx2, pv2, bz2, f, i) /\ GrownBy(i, n, s, s2)
<1> DEFINE s2 == [k \in 1 .. n + 1 |-> IF k = n + 1 THEN i ELSE s[k]]
<1>1. n \in Nat \ {0} /\ n + 1 \in Nat /\ s \in [1 .. n -> Items] /\ 1 \in 1 .. n /\ n \in 1 .. n
  BY DEF IsList
<1>2. \A k \in 1 .. n : s[k] \in Items /\ s[k] # i
  BY <1>1 DEF IsList
<1>3. l = s[n] /\ f = s[1] /\ l \in Items /\ l # i
  BY <1>1, <1>2 DEF IsList
<1>4. /\ \A j \in Items : nx2[j] = IF j = l THEN i ELSE IF j = i THEN Null ELSE nx[j]
      /\ \A j \in Items : pv2[j] = IF j = i THEN l ELSE pv[j]
      /\ \A j \in Items : bz2[j] = IF j = i THEN TRUE ELSE bz[j]
  BY DEF PutBehind
<1>5. /\ s2 \in [1 .. n + 1 -> Items]
      /\ \A k \in 1 .. n + 1 : s2[k] = IF k = n + 1 THEN i ELSE s[k]
  <2>1. \A k \in 1 .. n + 1 : k # n + 1 => k \in 1 .. n
    BY <1>1
  <2> QED BY <1>2, <2>1
<1> HIDE DEF s2
<1>6. \A k \in 1 .. n + 1 : \/ k = n + 1 /\ s2[k] = i
                            \/ k # n + 1 /\ k \in 1 .. n /\ s2[k] = s[k]
  BY <1>1, <1>5
<1>7. \A j, k \in 1 .. n + 1 : s2[j] = s2[k] => j = k
  BY <1>2, <1>6 DEF IsList
<1>8. ASSUME NEW k \in 1 .. n + 1 PROVE bz2[s2[k]]
  <2>1. CASE s2[k] = i
    BY <1>4, <2>1
  <2>2. CASE s2[k] # i
    <3>1. k \in 1 .. n /\ s2[k] = s[k]
      BY <1>6, <2>2
    <3>2. bz[s[k]] /\ s[k] \in Items
      BY <1>2, <3>1 DEF IsList
    <3> QED BY <1>4, <2>2, <3>1, <3>2
  <2> QED BY <2>1, <2>2
<1>9. ASSUME NEW j \in Items, bz2[j] PROVE \E k \in 1 .. n + 1 : s2[k] = j
  <2>1. CASE j = i
    <3>1. n + 1 \in 1 .. n + 1
      BY <1>1
    <3> QED BY <1>5, <2>1, <3>1
  <2>2. CASE j # i
    <3>1. PICK k \in 1 .. n : s[k] = j
      BY <1>4, <1>9, <2>2 DEF IsList
    <3>2. k \in 1 .. n + 1 /\ k # n + 1
      BY <1>1
    <3> QED BY <1>5, <3>1, <3>2
  <2> QED BY <2>1, <2>2
<1>10. n + 1 # 0 /\ s2[1] = f /\ s2[n + 1] = i
  BY <1>1, <1>3, <1>5
<1>11. ASSUME NEW k \in 1 .. n + 1
       PROVE  nx2[s2[k]] = IF k = n + 1 THEN Null ELSE s2[k + 1]
  <2>1. CASE k = n + 1
    BY <1>3, <1>4, <1>6, <2>1
  <2>2. CASE k = n
    <3>1. k # n + 1 /\ s2[k] = l /\ s2[k + 1] = i
      BY <1>1, <1>3, <1>5, <2>2
    <3> QED BY <1>3, <1>4, <3>1
  <2>3. CASE k # n /\ k # n + 1
    <3>1. k \in 1 .. n /\ k + 1 \in 1 .. n + 1 /\ k + 1 # n + 1
      BY <1>1, <2>3
    <3>2. s2[k] = s[k] /\ s2[k + 1] = s[k + 1]
      BY <1>5, <2>3, <3>1
    <3>3. s[k] # l /\ s[k] # i /\ s[k] \in Items /\ nx[s[k]] = s[k + 1]
      BY <1>1, <1>2, <1>3, <2>3, <3>1 DEF IsList
    <3> QED BY <1>4, <2>3, <3>2, <3>3
  <2> QED BY <2>1, <2>2, <2>3
<1>12. ASSUME NEW k \in 1 .. n + 1
       PROVE  pv2[s2[k]] = IF k = 1 THEN Null ELSE s2[k - 1]
  <2>1. CASE k = n + 1
    <3>1. k # 1 /\ k - 1 = n /\ n \in 1 .. n + 1 /\ n # n + 1
      BY <1>1, <2>1
    <3>2. s2[k - 1] = l /\ s2[k] = i
      BY <1>3, <1>5, <2>1, <3>1
    <3> QED BY <1>4, <3>1, <3>2
  <2>2. CASE k # n + 1
    <3>1. k \in 1 .. n /\ s2[k] = s[k] /\ s[k] # i /\ s[k] \in Items
      BY <1>2, <1>6, <2>2
    <3>2. k # 1 => k - 1 \in 1 .. n + 1 /\ k - 1 # n + 1 /\ s2[k - 1] = s[k - 1]
      BY <1>1, <1>5, <2>2
    <3>3. pv[s[k]] = IF k = 1 THEN Null ELSE s[k - 1]
      BY <3>1 DEF IsList
    <3> QED BY <1>4, <3>1, <3>2, <3>3
  <2> QED BY <2>1, <2>2
<1>13. bz2[0] => s2[1] = 0
  <2>1. 0 \in Items
    BY LinkedListAssumption DEF Items
  <2>2. f = s[1] /\ (bz[0] => s[1] = 0)
    BY <1>3 DEF IsList
  <2> QED BY <1>4, <1>10, <2>1, <2>2
<1>14. IsList(s2, n + 1, nx2, pv2, bz2, f, i)
  BY <1>1, <1>5, <1>7, <1>8, <1>9, <1>10, <1>11, <1>12, <1>13 DEF IsList
<1> QED BY <1>2, <1>5, <1>14 DEF GrownBy

\* The fields of the items once the item is out and its neighbours are joined.
TakenOut(item, nx, pv, bz, f, l, nx2, pv2, bz2, f2, l2) ==
    /\ \A i \in Items : nx2[i] = IF i = item THEN Null
                                ELSE IF i = pv[item] THEN nx[item] ELSE nx[i]
    /\ \A i \in Items : pv2[i] = IF i = item THEN Null
                                ELSE IF i = nx[item] THEN pv[item] ELSE pv[i]
    /\ \A i \in Items : bz2[i] = IF i = item THEN FALSE ELSE bz[i]
    /\ f2 = IF pv[item] = Null THEN nx[item] ELSE f
    /\ l2 = IF nx[item] = Null THEN pv[item] ELSE l

ShrunkAt(j, n, s, s2) ==
    \A k \in 1 .. n - 1 : s2[k] = IF k < j THEN s[k] ELSE s[k + 1]

\* The j-th item is taken out.
LEMMA ListShrinks ==
  ASSUME NEW s, NEW n, NEW nx, NEW pv, NEW bz, NEW f, NEW l, IsList(s, n, nx, pv, bz, f, l),
         NEW j \in 1 .. n, NEW item, item = s[j], NEW nx2, NEW pv2, NEW bz2, NEW f2, NEW l2,
         TakenOut(item, nx, pv, bz, f, l, nx2, pv2, bz2, f2, l2)
  PROVE  \E s2 : IsList(s2, n - 1, nx2, pv2, bz2, f2, l2) /\ ShrunkAt(j, n, s, s2)
<1>0. /\ \A i \in Items : nx2[i] = IF i = item THEN Null
                                   ELSE IF i = pv[item] THEN nx[item] ELSE nx[i]
      /\ \A i \in Items : pv2[i] = IF i = item THEN Null
                                   ELSE IF i = nx[item] THEN pv[item] ELSE pv[i]
      /\ \A i \in Items : bz2[i] = IF i = item THEN FALSE ELSE bz[i]
      /\ f2 = IF pv[item] = Null THEN nx[item] ELSE f
      /\ l2 = IF nx[item] = Null THEN pv[item] ELSE l
  BY DEF TakenOut
<1> DEFINE s2 == [k \in 1 .. n - 1 |-> IF k < j THEN s[k] ELSE s[k + 1]]
<1>1. n \in Nat \ {0} /\ n - 1 \in Nat /\ s \in [1 .. n -> Items] /\ j \in Nat
  BY DEF IsList
<1>2. \A k \in 1 .. n : s[k] \in Items /\ s[k] # Null
  BY <1>1, LinkedListAssumption DEF Items, Null
<1>3. item \in Items
  BY <1>2
<1>4. ASSUME NEW k \in 1 .. n - 1
      PROVE  /\ k \in 1 .. n /\ k + 1 \in 1 .. n
             /\ (k < j /\ s2[k] = s[k]) \/ (~(k < j) /\ s2[k] = s[k + 1] /\ k + 1 # j)
  BY <1>1
<1>5. s2 \in [1 .. n - 1 -> Items]
  BY <1>2, <1>4
<1>6. \A i \in Items : bz2[i] = IF i = item THEN FALSE ELSE bz[i]
  BY <1>0
<1>7. /\ pv[item] = (IF j = 1 THEN Null ELSE s[j - 1])
      /\ nx[item] = (IF j = n THEN Null ELSE s[j + 1])
  BY DEF IsList
<1>8. /\ j # 1 => j - 1 \in 1 .. n
      /\ j # n => j + 1 \in 1 .. n
  BY <1>1
<1>9. \A i \in 1 .. n : s[i] = item => i = j
  BY DEF IsList
<1>10. pv[item] = Null <=> j = 1
  BY <1>2, <1>7, <1>8
<1>11. nx[item] = Null <=> j = n
  BY <1>2, <1>7, <1>8
<1> HIDE DEF s2
<1>12. \A i, k \in 1 .. n - 1 : s2[i] = s2[k] => i = k
  <2> SUFFICES ASSUME NEW i \in 1 .. n - 1, NEW k \in 1 .. n - 1, s2[i] = s2[k] PROVE i = k
    OBVIOUS
  <2>1. PICK a \in 1 .. n : /\ s2[i] = s[a]
                            /\ (i < j /\ a = i) \/ (~(i < j) /\ a = i + 1)
    BY <1>4
  <2>2. PICK b \in 1 .. n : /\ s2[k] = s[b]
                            /\ (k < j /\ b = k) \/ (~(k < j) /\ b = k + 1)
    BY <1>4
  <2>3. s[a] = s[b] /\ \A x, y \in 1 .. n : s[x] = s[y] => x = y
    BY <2>1, <2>2 DEF IsList
  <2>4. a = b
    BY <2>3
  <2> QED BY <1>1, <2>1, <2>2, <2>4
<1>13. \A k \in 1 .. n - 1 : bz2[s2[k]]
  <2> SUFFICES ASSUME NEW k \in 1 .. n - 1 PROVE bz2[s2[k]]
    OBVIOUS
  <2> DEFINE a == IF k < j THEN k ELSE k + 1
  <2>1. a \in 1 .. n /\ s2[k] = s[a] /\ a # j
    BY <1>1, <1>4
  <2> HIDE DEF a
  <2>2. s[a] # item /\ bz[s[a]] /\ s[a] \in Items
    BY <1>2, <1>9, <2>1 DEF IsList
  <2> QED BY <1>6, <2>1, <2>2
<1>14. ASSUME NEW i \in Items, bz2[i] PROVE \E k \in 1 .. n - 1 : s2[k] = i
  <2>1. PICK a \in 1 .. n : s[a] = i
    BY <1>6, <1>14 DEF IsList
  <2>2. a # j
    BY <1>6, <1>14, <2>1
  <2>3. CASE a < j
    <3>1. a \in 1 .. n - 1
      BY <1>1, <2>3
    <3> QED BY <1>4, <2>1, <2>3, <3>1
  <2>4. CASE ~(a < j)
    <3>1. a - 1 \in 1 .. n - 1 /\ ~(a - 1 < j) /\ a - 1 + 1 = a
      BY <1>1, <2>2, <2>4
    <3> QED BY <1>4, <2>1, <3>1
  <2> QED BY <2>3, <2>4
<1>15. f2 = IF n - 1 = 0 THEN Null ELSE s2[1]
  <2>1. CASE j = 1
    <3>1. f2 = nx[item]
      BY <1>0, <1>10, <2>1
    <3>2. n - 1 = 0 <=> j = n
      BY <1>1, <2>1
    <3>3. n - 1 # 0 => 1 \in 1 .. n - 1 /\ ~(1 < j) /\ s2[1] = s[1 + 1]
      BY <1>1, <1>4, <2>1
    <3> QED BY <1>7, <2>1, <3>1, <3>2, <3>3
  <2>2. CASE j # 1
    <3>1. f2 = f /\ f = s[1]
      BY <1>0, <1>1, <1>10, <2>2 DEF IsList
    <3>2. n - 1 # 0 /\ 1 \in 1 .. n - 1 /\ 1 < j
      BY <1>1, <2>2
    <3> QED BY <1>4, <3>1, <3>2
  <2> QED BY <2>1, <2>2
<1>16. l2 = IF n - 1 = 0 THEN Null ELSE s2[n - 1]
  <2>1. CASE j = n
    <3>1. l2 = pv[item]
      BY <1>0, <1>11, <2>1
    <3>2. n - 1 = 0 <=> j = 1
      BY <1>1, <2>1
    <3>3. n - 1 # 0 => n - 1 \in 1 .. n - 1 /\ n - 1 < j /\ s2[n - 1] = s[n - 1]
      BY <1>1, <1>4, <2>1
    <3> QED BY <1>7, <2>1, <3>1, <3>2, <3>3
  <2>2. CASE j # n
    <3>1. l2 = l /\ l = s[n]
      BY <1>0, <1>1, <1>11, <2>2 DEF IsList
    <3>2. n - 1 # 0 /\ n - 1 \in 1 .. n - 1 /\ ~(n - 1 < j) /\ n - 1 + 1 = n
      BY <1>1, <2>2
    <3> QED BY <1>4, <3>1, <3>2
  <2> QED BY <2>1, <2>2
<1>17. ASSUME NEW k \in 1 .. n - 1
       PROVE  nx2[s2[k]] = IF k = n - 1 THEN Null ELSE s2[k + 1]
  <2>1. CASE k < j - 1
    <3>1. k + 1 \in 1 .. n - 1 /\ k + 1 < j /\ k < j /\ k # n - 1 /\ k # n /\ k # j /\ k \in 1 .. n
      BY <1>1, <2>1
    <3>2. s2[k] = s[k] /\ s2[k + 1] = s[k + 1]
      BY <1>4, <3>1
    <3>3. s[k] # item /\ s[k] \in Items /\ nx[s[k]] = s[k + 1]
      BY <1>2, <1>9, <3>1 DEF IsList
    <3>4. s[k] # pv[item]
      <4>1. j # 1 /\ k # j - 1
        BY <1>1, <2>1
      <4> QED BY <1>7, <1>8, <3>1, <4>1 DEF IsList
    <3> QED BY <1>0, <3>1, <3>2, <3>3, <3>4
  <2>2. CASE k = j - 1
    <3>1. j # 1 /\ k \in 1 .. n /\ k < j /\ k # j
      BY <1>1, <2>2
    <3>2. s2[k] = s[k] /\ s[k] = pv[item] /\ s[k] # item /\ s[k] \in Items
      BY <1>2, <1>4, <1>7, <1>9, <2>2, <3>1
    <3>3. nx2[s2[k]] = nx[item]
      BY <1>0, <3>2
    <3>4. CASE j = n
      BY <1>1, <1>7, <2>2, <3>3, <3>4
    <3>5. CASE j # n
      <4>1. k # n - 1 /\ k + 1 \in 1 .. n - 1 /\ ~(k + 1 < j) /\ k + 1 + 1 = j + 1
        BY <1>1, <2>2, <3>5
      <4>2. s2[k + 1] = s[j + 1]
        BY <1>4, <4>1
      <4> QED BY <1>7, <3>3, <3>5, <4>1, <4>2
    <3> QED BY <3>4, <3>5
  <2>3. CASE ~(k < j)
    <3>1. k + 1 \in 1 .. n /\ k + 1 # j /\ s2[k] = s[k + 1]
      BY <1>1, <1>4, <2>3
    <3>2. s[k + 1] # item /\ s[k + 1] \in Items
      BY <1>2, <1>9, <3>1
    <3>3. s[k + 1] # pv[item]
      <4>1. j # 1 => k + 1 # j - 1
        BY <1>1, <2>3
      <4> QED BY <1>2, <1>7, <1>8, <3>1, <4>1 DEF IsList
    <3>4. nx2[s2[k]] = IF k + 1 = n THEN Null ELSE s[k + 1 + 1]
      BY <1>0, <3>1, <3>2, <3>3 DEF IsList
    <3>5. k # n - 1 => k + 1 \in 1 .. n - 1 /\ ~(k + 1 < j)
      BY <1>1, <2>3
    <3>6. k # n - 1 => s2[k + 1] = s[k + 1 + 1]
      BY <1>4, <3>5
    <3>7. k + 1 = n <=> k = n - 1
      BY <1>1
    <3> QED BY <3>4, <3>6, <3>7
  <2> QED BY <1>1, <2>1, <2>2, <2>3
<1>18. ASSUME NEW k \in 1 .. n - 1
       PROVE  pv2[s2[k]] = IF k = 1 THEN Null ELSE s2[k - 1]
  <2>1. CASE k < j
    <3>1. k \in 1 .. n /\ k # j /\ s2[k] = s[k]
      BY <1>4, <2>1
    <3>2. s[k] # item /\ s[k] \in Items /\ pv[s[k]] = IF k = 1 THEN Null ELSE s[k - 1]
      BY <1>2, <1>9, <3>1 DEF IsList
    <3>3. s[k] # nx[item]
      <4>1. j # n => k # j + 1
        BY <1>1, <2>1
      <4> QED BY <1>2, <1>7, <1>8, <3>1, <4>1 DEF IsList
    <3>4. k # 1 => k - 1 \in 1 .. n - 1 /\ k - 1 < j /\ s2[k - 1] = s[k - 1]
      BY <1>1, <1>4, <2>1
    <3> QED BY <1>0, <3>1, <3>2, <3>3, <3>4
  <2>2. CASE k = j
    <3>1. j # n /\ k \in 1 .. n - 1 /\ ~(k < j) /\ k + 1 \in 1 .. n /\ k + 1 # j
      BY <1>1, <2>2
    <3>2. s2[k] = s[j + 1] /\ s[j + 1] = nx[item] /\ s[j + 1] # item /\ s[j + 1] \in Items
      BY <1>2, <1>4, <1>7, <1>9, <2>2, <3>1
    <3>3. pv2[s2[k]] = pv[item]
      BY <1>0, <3>2
    <3>4. k # 1 => k - 1 \in 1 .. n - 1 /\ k - 1 < j /\ s2[k - 1] = s[k - 1]
      BY <1>1, <1>4, <2>2
    <3> QED BY <1>7, <2>2, <3>3, <3>4
  <2>3. CASE k > j
    <3>1. k + 1 \in 1 .. n /\ k + 1 # j /\ s2[k] = s[k + 1] /\ k # 1 /\ k + 1 # 1 /\ k + 1 - 1 = k
      BY <1>1, <1>4, <2>3
    <3>2. s[k + 1] # item /\ s[k + 1] \in Items /\ pv[s[k + 1]] = s[k]
      BY <1>2, <1>9, <3>1 DEF IsList
    <3>3. s[k + 1] # nx[item]
      <4>1. j # n => k + 1 # j + 1
        BY <1>1, <2>3
      <4> QED BY <1>2, <1>7, <1>8, <3>1, <4>1 DEF IsList
    <3>4. k - 1 \in 1 .. n - 1 /\ ~(k - 1 < j) /\ k - 1 + 1 = k
      BY <1>1, <2>3
    <3>5. s2[k - 1] = s[k]
      BY <1>4, <3>4
    <3> QED BY <1>0, <3>1, <3>2, <3>3, <3>5
  <2> QED BY <1>1, <2>1, <2>2, <2>3
<1>19. bz2[0] => n - 1 # 0 /\ s2[1] = 0
  <2>1. 0 \in Items
    BY LinkedListAssumption DEF Items
  <2>2. SUFFICES ASSUME bz2[0] PROVE n - 1 # 0 /\ s2[1] = 0
    OBVIOUS
  <2>3. item # 0 /\ bz[0]
    BY <1>6, <2>1, <2>2
  <2>4. s[1] = 0 /\ j # 1
    BY <2>3 DEF IsList
  <2>5. n - 1 # 0 /\ 1 \in 1 .. n - 1 /\ 1 < j
    BY <1>1, <2>4
  <2> QED BY <1>4, <2>4, <2>5
<1>20. IsList(s2, n - 1, nx2, pv2, bz2, f2, l2)
  BY <1>1, <1>5, <1>12, <1>13, <1>14, <1>15, <1>16, <1>17, <1>18, <1>19 DEF IsList
<1>21. \A k \in 1 .. n - 1 : s2[k] = IF k < j THEN s[k] ELSE s[k + 1]
  BY DEF s2
<1> QED BY <1>20, <1>21 DEF ShrunkAt
\* What is left of a sequence whose j-th element is removed.
RemovedFrom(r, q, n, j) ==
    r = [k \in 1 .. n - 1 |-> IF k < j THEN q[k] ELSE q[k + 1]]

LEMMA RemovedElement ==
  ASSUME NEW S, NEW n \in Nat, NEW q, q \in [1 .. n -> S], NEW j \in 1 .. n
  PROVE  RemovedFrom(RemoveAt(q, j), q, n, j)
<1> DEFINE a == SubSeq(q, 1, j - 1)
           b == SubSeq(q, j + 1, n)
           r == [k \in 1 .. n - 1 |-> IF k < j THEN q[k] ELSE q[k + 1]]
<1>1. n - 1 \in Nat /\ j \in Nat /\ j + 1 \in Int /\ j - 1 \in Int /\ 1 \in Int /\ n \in Int
      /\ Len(q) = n
  OBVIOUS
<1>2. /\ a \in Seq(S) /\ Len(a) = j - 1
      /\ \A i \in 1 .. j - 1 : a[i] = q[i]
  <2>1. \A i \in 1 .. j - 1 : q[i] \in S
    BY <1>1
  <2>2. /\ a \in Seq(S) /\ Len(a) = IF 1 <= j - 1 THEN j - 1 - 1 + 1 ELSE 0
        /\ \A i \in 1 .. j - 1 - 1 + 1 : a[i] = q[1 + i - 1]
    <3> HIDE DEF a
    <3>1. a = SubSeq(q, 1, j - 1)
      BY DEF a
    <3> QED BY <1>1, <2>1, <3>1, SubSeqProperties
  <2> HIDE DEF a
  <2> QED BY <1>1, <2>2
<1>3. /\ b \in Seq(S) /\ Len(b) = n - j
      /\ \A i \in 1 .. n - j : b[i] = q[i + j]
  <2>1. \A i \in j + 1 .. n : q[i] \in S
    BY <1>1
  <2>2. /\ b \in Seq(S) /\ Len(b) = IF j + 1 <= n THEN n - (j + 1) + 1 ELSE 0
        /\ \A i \in 1 .. n - (j + 1) + 1 : b[i] = q[j + 1 + i - 1]
    <3> HIDE DEF b
    <3>1. b = SubSeq(q, j + 1, n)
      BY DEF b
    <3> QED BY <1>1, <2>1, <3>1, SubSeqProperties
  <2> HIDE DEF b
  <2> QED BY <1>1, <2>2
<1>4. r \in Seq(S) /\ Len(r) = n - 1 /\ r \in [1 .. n - 1 -> S]
  <2>1. \A k \in 1 .. n - 1 : k \in 1 .. n /\ k + 1 \in 1 .. n
    BY <1>1
  <2>2. r \in [1 .. n - 1 -> S]
    BY <2>1
  <2> HIDE DEF r
  <2>3. r \in Seq(S) /\ Len(r) = n - 1
    BY <1>1, <2>2
  <2> QED BY <2>2, <2>3
<1> HIDE DEF a, b
<1>5. /\ a \o b \in Seq(S) /\ Len(a \o b) = n - 1
      /\ \A i \in 1 .. n - 1 : (a \o b)[i] = IF i <= j - 1 THEN a[i] ELSE b[i - (j - 1)]
  <2>1. /\ a \o b \in Seq(S) /\ Len(a \o b) = Len(a) + Len(b)
        /\ \A i \in 1 .. Len(a) + Len(b) :
             (a \o b)[i] = IF i <= Len(a) THEN a[i] ELSE b[i - Len(a)]
    BY <1>2, <1>3, ConcatProperties
  <2>2. Len(a) + Len(b) = n - 1
    BY <1>1, <1>2, <1>3
  <2> QED BY <1>2, <2>1, <2>2
<1>6. ASSUME NEW i \in 1 .. n - 1 PROVE (a \o b)[i] = r[i]
  <2>1. CASE i <= j - 1
    <3>1. i \in 1 .. j - 1 /\ i < j
      BY <1>1, <2>1
    <3> QED BY <1>2, <1>5, <2>1, <3>1
  <2>2. CASE ~(i <= j - 1)
    <3>1. i - (j - 1) \in 1 .. n - j /\ ~(i < j) /\ i - (j - 1) + j = i + 1
      BY <1>1, <2>2
    <3> QED BY <1>3, <1>5, <2>2, <3>1
  <2> QED BY <2>1, <2>2
<1> HIDE DEF r
<1>7. a \o b = r
  BY <1>4, <1>5, <1>6, SeqEqual
<1>8. RemoveAt(q, j) = r
  BY <1>1, <1>7 DEF RemoveAt, a, b
<1> QED BY <1>8 DEF r, RemovedFrom

\* The listed values, from the items of the list.
LEMMA ListNow ==
  ASSUME NEW s, NEW n, IsList(s, n, next, prev, isBusy, first, last)
  PROVE  /\ Busy = n /\ Forward = s /\ Backward = Reverse(s)
         /\ [k \in 1 .. Busy |-> val[Forward[k]]] = [k \in 1 .. n |-> val[s[k]]]
<1>1. Busy = n
  BY ListIsFollowed DEF Busy
<1>2. Forward = s
  <2>1. Forward = Followed(next, first, Busy)
    BY DEF Forward, Followed
  <2> QED BY <1>1, <2>1, ListIsFollowed
<1>3. Backward = Reverse(s)
  <2>1. Backward = Followed(prev, last, Busy)
    BY DEF Backward, Followed
  <2>2. Backward \in [1 .. n -> Items] /\ \A k \in 1 .. n : Backward[k] = s[n - k + 1]
    <3>1. Backward = Followed(prev, last, n)
      BY <1>1, <2>1
    <3>2. /\ Followed(prev, last, n) \in [1 .. n -> Items]
          /\ \A k \in 1 .. n : Followed(prev, last, n)[k] = s[n - k + 1]
      BY ListIsFollowed
    <3> QED BY <3>1, <3>2
  <2>3. n \in Nat /\ s \in [1 .. n -> Items]
    BY DEF IsList
  <2>4. Len(s) = n
    BY <2>3
  <2> QED BY <2>2, <2>4 DEF Reverse
<1> QED BY <1>1, <1>2, <1>3

LEMMA ListNext ==
  ASSUME NEW s, NEW n, IsList(s, n, next', prev', isBusy', first', last')
  PROVE  /\ Busy' = n /\ Forward' = s
         /\ [k \in 1 .. Busy' |-> val'[Forward'[k]]] = [k \in 1 .. n |-> val'[s[k]]]
<1>1. Busy' = n
  BY ListIsFollowed DEF Busy
<1>2. Forward' = s
  <2>1. Forward' = Followed(next', first', Busy')
    BY DEF Forward, Followed
  <2> QED BY <1>1, <2>1, ListIsFollowed
<1> QED BY <1>1, <1>2

ListInv ==
    /\ LinkedListTypeOK
    /\ \E s, n : IsList(s, n, next, prev, isBusy, first, last)

\* The values of the list, as ValueList has them.
ListValues == [k \in 1 .. Busy |-> val[Forward[k]]]

LEMMA ListInitOK ==
  ASSUME LinkedListInit
  PROVE  ListInv /\ List!Init
<1>1. 0 \in Items /\ StoreLength \in Nat
  BY LinkedListAssumption DEF Items
<1>2. LinkedListTypeOK
  BY LinkedListAssumption DEF LinkedListInit, LinkedListTypeOK, Pointers
<1> DEFINE s == [k \in 1 .. 0 |-> 0]
<1>3. IsList(s, 0, next, prev, isBusy, first, last)
  BY <1>1 DEF LinkedListInit, IsList
<1> HIDE DEF s
<1>4. ListValues = [k \in 1 .. 0 |-> val[s[k]]]
  BY <1>3, ListNow DEF ListValues
<1>5. ListValues = <<>>
  BY <1>4
<1>6. List!Init
  BY <1>1, <1>5 DEF List!Init, ListValues, LinkedListInit
<1> QED BY <1>2, <1>3, <1>6 DEF ListInv

LEMMA AddFirstItemKeeps ==
  ASSUME ListInv, NEW value \in Values, AddFirstItem(value)
  PROVE  ListInv' /\ List!Taken(value)
<1>1. 0 \in Items /\ StoreLength \in Nat /\ Null \notin Items
  BY LinkedListAssumption DEF Items, Null
<1>2. PICK s, n : IsList(s, n, next, prev, isBusy, first, last)
  BY DEF ListInv
<1>3. n = 0
  <2>1. n # 0 => s[1] \in Items
    BY <1>2 DEF IsList
  <2> QED BY <1>1, <1>2, <2>1 DEF IsList, AddFirstItem
<1>4. LinkedListTypeOK'
  BY <1>1 DEF ListInv, LinkedListTypeOK, AddFirstItem, Pointers
<1>5. \A i \in Items : ~isBusy[i]
  BY <1>2, <1>3 DEF IsList
<1> DEFINE s2 == [k \in 1 .. 1 |-> 0]
<1>6. /\ \A i \in Items : isBusy'[i] <=> i = 0
      /\ next'[0] = Null /\ prev'[0] = Null /\ val'[0] = value
  BY <1>1, <1>5 DEF ListInv, LinkedListTypeOK, AddFirstItem
<1>7. /\ s2 \in [1 .. 1 -> Items] /\ 1 \in 1 .. 1
      /\ \A k \in 1 .. 1 : s2[k] = 0 /\ k = 1
  BY <1>1
<1> HIDE DEF s2
<1>8. IsList(s2, 1, next', prev', isBusy', first', last')
  BY <1>1, <1>6, <1>7 DEF IsList, AddFirstItem
<1>9. ListValues = [k \in 1 .. n |-> val[s[k]]] /\ ListValues' = [k \in 1 .. 1 |-> val'[s2[k]]]
  BY <1>2, <1>8, ListNow, ListNext DEF ListValues
<1>10. ListValues = <<>> /\ ListValues' = Append(ListValues, value)
  <2>1. ListValues = <<>>
    BY <1>3, <1>9
  <2>2. ListValues' = <<value>>
    BY <1>6, <1>7, <1>9
  <2> QED BY <2>1, <2>2
<1>11. Len(ListValues) < StoreLength
  <2>1. StoreLength \in Nat \ {0} /\ Len(ListValues) = 0
    BY <1>10, LinkedListAssumption
  <2> QED BY <2>1
<1>12. List!Taken(value)
  BY <1>10, <1>11 DEF List!Taken, ListValues, AddFirstItem
<1> QED BY <1>4, <1>8, <1>12 DEF ListInv

\* The place of an item that LinkedList_SearchFreeSpace gives.
LEMMA FreeItem ==
  ASSUME isBusy \in [Items -> BOOLEAN], ~ \A i \in Items : isBusy[i]
  PROVE  FreePos \in Items /\ ~isBusy[FreePos]
<1> DEFINE T == {i \in Items : ~isBusy[i]}
           P(i) == ~isBusy[i] /\ \A j \in 0 .. i - 1 : isBusy[j]
<1>1. StoreLength \in Nat \ {0} /\ Items \subseteq Nat /\ 0 \in Items
  BY LinkedListAssumption DEF Items
<1>2. T \subseteq Nat /\ T # {}
  BY <1>1
<1>3. PICK x \in T : \A y \in T : x <= y
  <2> HIDE DEF T
  <2> QED BY <1>2, LeastNumber
<1>4. x \in Items /\ P(x)
  <2>1. ASSUME NEW j \in 0 .. x - 1 PROVE isBusy[j]
    <3>1. j \in Items /\ ~(x <= j)
      BY <1>1, <1>3 DEF Items
    <3> QED BY <1>3, <3>1
  <2> QED BY <1>3, <2>1
<1>5. FreePos = CHOOSE i \in Items : P(i)
  BY DEF FreePos
<1>6. FreePos \in Items /\ P(FreePos)
  <2> HIDE DEF P
  <2> QED BY <1>4, <1>5
<1> QED BY <1>6

LEMMA AddItemKeeps ==
  ASSUME ListInv, NEW value \in Values, AddItem(value)
  PROVE  ListInv' /\ (List!Taken(value) \/ List!Refused)
<1>1. 0 \in Items /\ StoreLength \in Nat /\ Items \subseteq Int
  BY LinkedListAssumption DEF Items
<1>2. PICK s, n : IsList(s, n, next, prev, isBusy, first, last)
  BY DEF ListInv
<1>3. /\ n \in Nat \ {0} /\ s \in [1 .. n -> Items]
      /\ 1 \in 1 .. n /\ n \in 1 .. n
  BY <1>2 DEF IsList, AddItem
<1>4. ListValues = [k \in 1 .. n |-> val[s[k]]] /\ Len(ListValues) = n /\ ListValues # <<>>
  <2>1. ListValues = [k \in 1 .. n |-> val[s[k]]]
    BY <1>2, ListNow DEF ListValues
  <2> QED BY <1>3, <2>1
<1>5. n <= StoreLength /\ ((\A i \in Items : isBusy[i]) <=> n = StoreLength)
  BY <1>2, ListIsFollowed
<1>6. CASE FreePos > 0
  <2> DEFINE i == FreePos
  <2>1. ~ \A k \in Items : isBusy[k]
    BY <1>6 DEF FreePos
  <2>2. i \in Items /\ ~isBusy[i] /\ i # 0
    BY <1>6, <2>1, FreeItem DEF ListInv, LinkedListTypeOK
  <2>3. /\ val' = [val EXCEPT ![i] = value] /\ isBusy' = [isBusy EXCEPT ![i] = TRUE]
        /\ next' = [next EXCEPT ![i] = Null, ![last] = i] /\ prev' = [prev EXCEPT ![i] = last]
        /\ last' = i /\ first' = first /\ added' = TRUE
    BY <1>6 DEF AddItem
  <2> HIDE DEF i
  <2>4. /\ next \in [Items -> Pointers] /\ prev \in [Items -> Pointers]
        /\ isBusy \in [Items -> BOOLEAN] /\ val \in [Items -> Values]
    BY DEF ListInv, LinkedListTypeOK
  <2>5. PICK s2 : /\ IsList(s2, n + 1, next', prev', isBusy', first', last')
                  /\ GrownBy(i, n, s, s2)
    <3>1. /\ last \in Items /\ last # i
          /\ n # 0
      <4>1. last = s[n] /\ isBusy[s[n]] /\ s[n] \in Items
        BY <1>2, <1>3 DEF IsList
      <4> QED BY <1>3, <2>2, <4>1
    <3>2. \A k \in Items : next'[k] = IF k = last THEN i ELSE IF k = i THEN Null ELSE next[k]
      BY <2>3, <2>4, <3>1
    <3>3. \A k \in Items : prev'[k] = IF k = i THEN last ELSE prev[k]
      BY <2>3, <2>4
    <3>4. \A k \in Items : isBusy'[k] = IF k = i THEN TRUE ELSE isBusy[k]
      BY <2>3, <2>4
    <3>5. PutBehind(i, last, next, prev, isBusy, next', prev', isBusy')
      BY <3>2, <3>3, <3>4 DEF PutBehind
    <3>6. \A k \in 1 .. n : s[k] # i
      BY <1>2, <2>2 DEF IsList
    <3>7. first' = first /\ last' = i
      BY <2>3
    <3> QED BY <1>2, <2>2, <3>1, <3>5, <3>6, <3>7, ListGrows
  <2>6. LinkedListTypeOK'
    BY <2>2, <2>3 DEF ListInv, LinkedListTypeOK, Pointers
  <2>7. ListValues' = [k \in 1 .. n + 1 |-> val'[s2[k]]]
    BY <2>5, ListNext DEF ListValues
  <2>8. ListValues' = Append(ListValues, value)
    <3>2. ASSUME NEW k \in 1 .. n + 1
          PROVE  val'[s2[k]] = IF k = n + 1 THEN value ELSE val[s[k]]
      <4>1. CASE k = n + 1
        BY <2>2, <2>3, <2>4, <2>5, <4>1 DEF GrownBy
      <4>2. CASE k # n + 1
        <5>1. k \in 1 .. n /\ s2[k] = s[k] /\ s[k] # i /\ s[k] \in Items
          BY <1>3, <2>5, <4>2 DEF GrownBy
        <5> QED BY <2>3, <2>4, <4>2, <5>1
      <4> QED BY <4>1, <4>2
    <3>3. ListValues' = [k \in 1 .. n + 1 |-> IF k = n + 1 THEN value ELSE val[s[k]]]
      BY <2>7, <3>2
    <3>4. ListValues \in Seq(Values)
      <4>1. \A k \in 1 .. n : val[s[k]] \in Values
        BY <1>3, <2>4
      <4> QED BY <1>3, <1>4, <4>1
    <3>5. ListValues' \in Seq(Values) /\ Len(ListValues') = n + 1
      <4>1. \A k \in 1 .. n + 1 : (IF k = n + 1 THEN value ELSE val[s[k]]) \in Values
        BY <1>3, <2>4
      <4> QED BY <1>3, <3>3, <4>1
    <3>6. /\ Append(ListValues, value) \in Seq(Values)
          /\ Len(Append(ListValues, value)) = n + 1
          /\ \A k \in 1 .. n + 1 : Append(ListValues, value)[k]
                                     = IF k = n + 1 THEN value ELSE ListValues[k]
      BY <1>3, <1>4, <3>4
    <3>7. \A k \in 1 .. n + 1 : ListValues'[k] = Append(ListValues, value)[k]
      <4>1. \A k \in 1 .. n + 1 : k # n + 1 => k \in 1 .. n
        BY <1>3
      <4> QED BY <1>4, <3>3, <3>6, <4>1
    <3> QED BY <3>5, <3>6, <3>7, SeqEqual
  <2>9. n < StoreLength
    BY <1>3, <1>5, <2>1, <1>1
  <2>11. List!Taken(value)
    BY <1>4, <2>3, <2>8, <2>9 DEF List!Taken, ListValues
  <2> QED BY <2>5, <2>6, <2>11 DEF ListInv
<1>7. CASE ~(FreePos > 0)
  <2>1. /\ UNCHANGED <<val, next, prev, isBusy, last, first>> /\ added' = FALSE
    BY <1>7 DEF AddItem
  <2>2. ListInv'
    BY <2>1 DEF ListInv, LinkedListTypeOK
  <2>4. ListValues' = ListValues
    BY <2>1 DEF ListValues, Forward, Busy
  <2>5. List!Refused
    BY <1>4, <2>1, <2>4 DEF List!Refused, ListValues
  <2> QED BY <2>2, <2>5
<1> QED BY <1>6, <1>7

LEMMA RemoveItemKeeps ==
  ASSUME ListInv, NEW item \in Items, isBusy[item], RemoveItem(item)
  PROVE  ListInv' /\ \E j \in DOMAIN ListValues : List!RemoveItem(j)
<1>1. 0 \in Items /\ StoreLength \in Nat
  BY LinkedListAssumption DEF Items
<1>2. PICK s, n : IsList(s, n, next, prev, isBusy, first, last)
  BY DEF ListInv
<1>3. PICK j \in 1 .. n : s[j] = item
  BY <1>2 DEF IsList
<1>4. n \in Nat \ {0} /\ s \in [1 .. n -> Items] /\ 1 \in 1 .. n
  BY <1>2, <1>3 DEF IsList
<1>5. /\ next \in [Items -> Pointers] /\ prev \in [Items -> Pointers]
      /\ isBusy \in [Items -> BOOLEAN] /\ val \in [Items -> Values]
      /\ first \in Pointers /\ last \in Pointers /\ added \in BOOLEAN
  BY DEF ListInv, LinkedListTypeOK
<1>6. PICK s2 : /\ IsList(s2, n - 1, next', prev', isBusy', first', last')
                /\ ShrunkAt(j, n, s, s2)
  <2>1. /\ \A i \in Items : isBusy'[i] = IF i = item THEN FALSE ELSE isBusy[i]
        /\ \A i \in Items : next'[i] = IF i = item THEN Null
                                       ELSE IF i = prev[item] THEN next[item] ELSE next[i]
        /\ \A i \in Items : prev'[i] = IF i = item THEN Null
                                       ELSE IF i = next[item] THEN prev[item] ELSE prev[i]
        /\ first' = IF prev[item] = Null THEN next[item] ELSE first
        /\ last' = IF next[item] = Null THEN prev[item] ELSE last
    BY <1>5 DEF RemoveItem
  <2>2. TakenOut(item, next, prev, isBusy, first, last, next', prev', isBusy', first', last')
    BY <2>1 DEF TakenOut
  <2> QED BY <1>2, <1>3, <2>2, ListShrinks
<1>7. LinkedListTypeOK'
  <2>1. isBusy' \in [Items -> BOOLEAN] /\ val' = val /\ added' = added
    BY <1>5 DEF RemoveItem
  <2>2. Null \in Pointers /\ next[item] \in Pointers /\ prev[item] \in Pointers
    BY <1>5 DEF Pointers
  <2>3. next' \in [Items -> Pointers] /\ prev' \in [Items -> Pointers]
    BY <1>5, <2>2 DEF RemoveItem
  <2>4. first' \in Pointers /\ last' \in Pointers
    BY <1>5, <2>2 DEF RemoveItem
  <2> QED BY <1>5, <2>1, <2>3, <2>4 DEF LinkedListTypeOK
<1>8. ListValues = [k \in 1 .. n |-> val[s[k]]] /\ ListValues \in [1 .. n -> Values]
  <2>1. ListValues = [k \in 1 .. n |-> val[s[k]]]
    BY <1>2, ListNow DEF ListValues
  <2>2. \A k \in 1 .. n : val[s[k]] \in Values
    BY <1>4, <1>5
  <2> QED BY <2>1, <2>2
<1>9. ListValues' = [k \in 1 .. n - 1 |-> val'[s2[k]]]
  BY <1>6, ListNext DEF ListValues
<1>10. ListValues' = RemoveAt(ListValues, j)
  <2>1. RemovedFrom(RemoveAt(ListValues, j), ListValues, n, j)
    BY <1>3, <1>4, <1>8, RemovedElement
  <2>2. ASSUME NEW k \in 1 .. n - 1
        PROVE  val'[s2[k]] = IF k < j THEN ListValues[k] ELSE ListValues[k + 1]
    <3>1. k \in 1 .. n /\ k + 1 \in 1 .. n
      BY <1>4
    <3>2. val' = val
      BY DEF RemoveItem
    <3> QED BY <1>6, <1>8, <3>1, <3>2 DEF ShrunkAt
  <2> DEFINE r == RemoveAt(ListValues, j)
  <2> HIDE DEF r
  <2>3. r = [k \in 1 .. n - 1 |-> IF k < j THEN ListValues[k] ELSE ListValues[k + 1]]
    BY <2>1 DEF r, RemovedFrom
  <2>4. r = ListValues'
    BY <1>9, <2>2, <2>3
  <2> QED BY <2>4 DEF r
<1>12. j \in DOMAIN ListValues
  BY <1>3, <1>8
<1>13. List!RemoveItem(j)
  <2>1. added' = added
    BY DEF RemoveItem
  <2>2. ListValues' = SubSeq(ListValues, 1, j - 1) \o SubSeq(ListValues, j + 1, Len(ListValues))
    BY <1>10 DEF RemoveAt
  <2> QED BY <2>1, <2>2 DEF List!RemoveItem, ListValues
<1> QED BY <1>6, <1>7, <1>12, <1>13 DEF ListInv

\* The joined pointers, from the list.
LEMMA ListIsJoined ==
  ASSUME ListInv
  PROVE  /\ IsInjective(Forward) /\ Backward = Reverse(Forward)
         /\ IF Busy = 0 THEN first = Null /\ last = Null
            ELSE prev[first] = Null /\ next[last] = Null
<1>1. PICK s, n : IsList(s, n, next, prev, isBusy, first, last)
  BY DEF ListInv
<1>2. Busy = n /\ Forward = s /\ Backward = Reverse(s)
  BY <1>1, ListNow
<1>3. n \in Nat /\ DOMAIN s = 1 .. n
  BY <1>1 DEF IsList
<1>4. IsInjective(Forward)
  BY <1>1, <1>2, <1>3 DEF IsList, IsInjective
<1>5. IF n = 0 THEN first = Null /\ last = Null ELSE prev[first] = Null /\ next[last] = Null
  <2>1. n # 0 => 1 \in 1 .. n /\ n \in 1 .. n
    BY <1>3
  <2> QED BY <1>1, <2>1 DEF IsList
<1> QED BY <1>2, <1>4, <1>5

LEMMA ListTurn ==
  ListInv /\ [MainLoopNext]_mainLoopVars => ListInv' /\ [List!Next]_List!vars
<1>1. CASE ListInv /\ RunLinkedList
  <2>1. LinkedListNext
    BY <1>1 DEF RunLinkedList
  <2>2. CASE \E value \in Values : AddFirstItem(value) \/ AddItem(value)
    BY <1>1, <2>2, AddFirstItemKeeps, AddItemKeeps DEF List!Next
  <2>3. CASE \E item \in {i \in Items : isBusy[i]} : RemoveItem(item)
    <3>1. PICK item \in Items : isBusy[item] /\ RemoveItem(item)
      BY <2>3
    <3>2. ListInv' /\ \E j \in DOMAIN ListValues : List!RemoveItem(j)
      BY <1>1, <3>1, RemoveItemKeeps
    <3> QED BY <3>2 DEF List!Next, ListValues
  <2> QED BY <2>1, <2>2, <2>3 DEF LinkedListNext
<1>2. CASE ListInv /\ UNCHANGED linkedListVars
  <2>1. ListInv'
    BY <1>2 DEF linkedListVars, ListInv, LinkedListTypeOK
  <2>2. UNCHANGED List!vars
    BY <1>2 DEF linkedListVars, List!vars, Forward, Busy
  <2> QED BY <2>1, <2>2
<1>3. [MainLoopNext]_mainLoopVars => RunLinkedList \/ UNCHANGED linkedListVars
  BY DEF MainLoopNext, mainLoopVars, RunCircularBuffer, RunUserInterface, RunTerminal,
         RunCalendar, RunGlobalVariables
<1> QED BY <1>1, <1>2, <1>3

\* The linked list is the list of values ValueList states, whatever is added
\* and removed, in a store of any size: an item that is taken out leaves the
\* others in their order, a free item is not met on the way, and both
\* directions give the same items (LinkedList_AddItem and LinkedList_RemoveItem
\* in LinkedList.c).
THEOREM ListKeepsItsOrder == MainLoopSpec => ImplementsList
<1> DEFINE Joined == /\ IsInjective(Forward) /\ Backward = Reverse(Forward)
                     /\ IF Busy = 0 THEN first = Null /\ last = Null
                        ELSE prev[first] = Null /\ next[last] = Null
<1>1. MainLoopInit => ListInv /\ List!Init
  BY ListInitOK DEF MainLoopInit
<1>2. ListInv /\ [MainLoopNext]_mainLoopVars => ListInv' /\ [List!Next]_List!vars
  BY ListTurn
<1>3. ListInv => Joined
  BY ListIsJoined
<1> HIDE DEF Joined
<1>4. MainLoopSpec => List!Spec /\ []Joined
  BY <1>1, <1>2, <1>3, PTL DEF MainLoopSpec, List!Spec
<1> QED BY <1>4 DEF ImplementsList, Joined
-----------------------------------------------------------------------------
(* The circular buffer implements the queue of characters.                 *)

\* The characters between the counters r and w of the buffer b.
Unread(b, r, w) == [k \in 1 .. Used(r, w) |-> b[SlotAfter(r, k - 1)]]

\* What a put of the characters of str has made of the buffer after n of them.
PutSoFar(st, str, n) ==
    /\ st = [buffer |-> st.buffer, writeCnt |-> st.writeCnt, count |-> st.count]
    /\ st.buffer \in [Slots -> Chars \cup {NUL}] /\ st.writeCnt \in Slots
    /\ st.count = Lesser(n, Size - 1 - Used(readCnt, writeCnt))
    /\ Used(readCnt, st.writeCnt) = Used(readCnt, writeCnt) + st.count
    /\ \A j \in 1 .. Used(readCnt, writeCnt) + st.count :
          st.buffer[SlotAfter(readCnt, j - 1)]
            = IF j <= Used(readCnt, writeCnt) THEN buffer[SlotAfter(readCnt, j - 1)]
              ELSE str[j - Used(readCnt, writeCnt)]

LEMMA UsedNow ==
  ASSUME TypeOK
  PROVE  /\ Used(readCnt, writeCnt) \in 0 .. Size - 1 /\ Size \in Nat /\ Size >= 2
         /\ Content = Unread(buffer, readCnt, writeCnt)
         /\ Content \in Seq(Chars \cup {NUL}) /\ Len(Content) = Used(readCnt, writeCnt)
         /\ \A k \in 1 .. Used(readCnt, writeCnt) : Content[k] = buffer[SlotAfter(readCnt, k - 1)]
<1>1. Used(readCnt, writeCnt) \in 0 .. Size - 1 /\ Size \in Nat /\ Size >= 2
  BY UsedType, SizeAssumption DEF TypeOK
<1>2. ASSUME NEW k \in 1 .. Used(readCnt, writeCnt)
      PROVE  buffer[SlotAfter(readCnt, k - 1)] \in Chars \cup {NUL}
  <2>1. k - 1 \in 0 .. Size - 1
    BY <1>1
  <2> QED BY <2>1, SlotAfterType DEF TypeOK
<1>3. Content = Unread(buffer, readCnt, writeCnt)
  BY DEF Content, Unread
<1>4. Content = [k \in 1 .. Used(readCnt, writeCnt) |-> buffer[SlotAfter(readCnt, k - 1)]]
  BY DEF Content
<1>5. Content \in [1 .. Used(readCnt, writeCnt) -> Chars \cup {NUL}]
  BY <1>2, <1>4
<1> QED BY <1>1, <1>3, <1>4, <1>5

\* One more character is put behind, or none because the buffer is full.
LEMMA PutOneKeeps ==
  ASSUME TypeOK, NEW st, NEW str, NEW n \in Nat, PutSoFar(st, str, n),
         str[n + 1] \in Chars \cup {NUL}
  PROVE  PutSoFar(PutOne(st, str[n + 1]), str, n + 1)
<1> DEFINE used == Used(readCnt, writeCnt)
           w == st.writeCnt
           c == st.count
<1>1. used \in 0 .. Size - 1 /\ Size \in Nat /\ Size >= 2 /\ readCnt \in Slots /\ w \in Slots
  BY UsedNow DEF TypeOK, PutSoFar
<1>2. c \in Nat /\ c = Lesser(n, Size - 1 - used) /\ Used(readCnt, w) = used + c
  <2> HIDE DEF used
  <2>1. c = Lesser(n, Size - 1 - used) /\ Used(readCnt, w) = used + c
    BY DEF PutSoFar, used
  <2> QED BY <1>1, <2>1 DEF Lesser
<1>3. IsFull(readCnt, w) <=> used + c = Size - 1
  BY <1>1, <1>2, IsFullExact
<1>4. CASE IsFull(readCnt, w)
  <2>1. PutOne(st, str[n + 1]) = st
    BY <1>4 DEF PutOne
  <2>2. Lesser(n + 1, Size - 1 - used) = c
    <3> HIDE DEF used, c
    <3> QED BY <1>1, <1>2, <1>3, <1>4 DEF Lesser
  <2> QED BY <2>1, <2>2 DEF PutSoFar
<1>5. CASE ~IsFull(readCnt, w)
  <2> DEFINE w2 == Wrap(w + 1)
             b2 == [st.buffer EXCEPT ![w] = str[n + 1]]
             st2 == [buffer |-> b2, writeCnt |-> w2, count |-> c + 1]
  <2>1. PutOne(st, str[n + 1]) = st2
    BY <1>5 DEF PutOne
  <2>2. w2 \in Slots /\ Used(readCnt, w2) = used + (c + 1) /\ SlotAfter(readCnt, used + c) = w
    <3>1. w2 \in Slots /\ Used(readCnt, w2) = Used(readCnt, w) + 1
          /\ SlotAfter(readCnt, Used(readCnt, w)) = w
      BY <1>1, <1>5, PutAdds
    <3> HIDE DEF used, c, w2, w
    <3> QED BY <1>1, <1>2, <3>1
  <2>3. c + 1 = Lesser(n + 1, Size - 1 - used)
    <3> HIDE DEF used, c
    <3>1. used + c # Size - 1
      BY <1>3, <1>5
    <3> QED BY <1>1, <1>2, <3>1 DEF Lesser
  <2>4. st.buffer \in [Slots -> Chars \cup {NUL}]
    BY DEF PutSoFar
  <2>5. b2 \in [Slots -> Chars \cup {NUL}] /\ b2[w] = str[n + 1]
        /\ \A i \in Slots : i # w => b2[i] = st.buffer[i]
    BY <1>1, <2>4
  <2>6. ASSUME NEW j \in 1 .. used + (c + 1)
        PROVE  b2[SlotAfter(readCnt, j - 1)]
                 = IF j <= used THEN buffer[SlotAfter(readCnt, j - 1)] ELSE str[j - used]
    <3>1. CASE j = used + c + 1
      <4>1. j - 1 = used + c /\ j - used = c + 1 /\ ~(j <= used)
        <5> HIDE DEF used, c
        <5> QED BY <1>1, <1>2, <3>1
      <4>2. c = n
        <5> HIDE DEF used, c
        <5>1. used + c # Size - 1
          BY <1>3, <1>5
        <5> QED BY <1>1, <1>2, <5>1 DEF Lesser
      <4> HIDE DEF used, c, b2, w
      <4> QED BY <2>2, <2>5, <4>1, <4>2
    <3>2. CASE j # used + c + 1
      <4>1. j \in 1 .. used + c /\ j - 1 \in 0 .. Used(readCnt, w) - 1 /\ j - 1 \in 0 .. Size - 1
        <5>1. used + c <= Size - 1
          BY <1>1, <1>2, UsedType
        <5> HIDE DEF used, c
        <5> QED BY <1>1, <1>2, <3>2, <5>1
      <4>2. SlotAfter(readCnt, j - 1) \in Slots /\ SlotAfter(readCnt, j - 1) # w
        BY <1>1, <4>1, PutSpares, SlotAfterType
      <4>3. st.buffer[SlotAfter(readCnt, j - 1)]
              = IF j <= used THEN buffer[SlotAfter(readCnt, j - 1)] ELSE str[j - used]
        BY <4>1 DEF PutSoFar
      <4> QED BY <2>5, <4>2, <4>3
    <3> QED BY <3>1, <3>2
  <2> HIDE DEF b2, w2, c, used
  <2>7. /\ st2 = [buffer |-> st2.buffer, writeCnt |-> st2.writeCnt, count |-> st2.count]
        /\ st2.buffer = b2 /\ st2.writeCnt = w2 /\ st2.count = c + 1
    OBVIOUS
  <2> HIDE DEF st2
  <2> QED BY <2>1, <2>2, <2>3, <2>5, <2>6, <2>7 DEF PutSoFar, used
<1> QED BY <1>4, <1>5

\* f has, in its first n + 1 elements, what a put of the string makes of the buffer.
Putting(f, str, n) ==
    f = [k \in 0 .. n |-> IF k = 0 THEN Unwritten ELSE PutOne(f[k - 1], str[k])]

LEMMA PuttingExists ==
  ASSUME NEW str, NEW n \in Nat
  PROVE  \E f : Putting(f, str, n)
<1> DEFINE T == {m \in Nat : ~ \E f : Putting(f, str, m)}
<1>1. SUFFICES ASSUME T # {} PROVE FALSE
  OBVIOUS
<1>2. T \subseteq Nat
  OBVIOUS
<1>3. PICK x \in T : \A y \in T : x <= y
  BY <1>1, <1>2, LeastNumber
<1>4. x \in Nat /\ ~ \E f : Putting(f, str, x)
  OBVIOUS
<1>5. x # 0
  <2>1. Putting([k \in 0 .. 0 |-> Unwritten], str, 0)
    BY DEF Putting
  <2> QED BY <1>4, <2>1
<1>6. x - 1 \in Nat /\ ~(x <= x - 1)
  BY <1>4, <1>5
<1>7. PICK f : Putting(f, str, x - 1)
  BY <1>3, <1>6
<1> DEFINE g == [k \in 0 .. x |-> IF k = x THEN PutOne(f[x - 1], str[x]) ELSE f[k]]
<1>8. Putting(g, str, x)
  <2>1. ASSUME NEW k \in 0 .. x
        PROVE  g[k] = IF k = 0 THEN Unwritten ELSE PutOne(g[k - 1], str[k])
    <3>1. CASE k = 0
      <4>1. 0 \in 0 .. x - 1 /\ k # x
        BY <1>4, <1>5, <3>1
      <4> QED BY <1>7, <3>1, <4>1 DEF Putting
    <3>2. CASE k = x
      <4>1. x - 1 \in 0 .. x /\ x - 1 # x
        BY <1>6
      <4>2. g[k - 1] = f[x - 1]
        BY <3>2, <4>1
      <4> QED BY <1>5, <3>2, <4>2
    <3>3. CASE k # 0 /\ k # x
      <4>1. k \in 0 .. x - 1 /\ k - 1 \in 0 .. x /\ k - 1 # x
        BY <1>4, <3>3
      <4>2. g[k] = f[k] /\ g[k - 1] = f[k - 1]
        BY <3>3, <4>1
      <4>3. f[k] = PutOne(f[k - 1], str[k])
        BY <1>7, <3>3, <4>1 DEF Putting
      <4> QED BY <3>3, <4>2, <4>3
    <3> QED BY <3>1, <3>2, <3>3
  <2>2. g = [k \in 0 .. x |-> g[k]]
    OBVIOUS
  <2> HIDE DEF g
  <2> QED BY <2>1, <2>2 DEF Putting
<1> QED BY <1>4, <1>8

LEMMA UnwrittenIsPut ==
  ASSUME TypeOK, NEW str
  PROVE  PutSoFar(Unwritten, str, 0)
<1> DEFINE used == Used(readCnt, writeCnt)
<1>1. used \in 0 .. Size - 1 /\ Size \in Nat
  BY UsedNow
<1>2. Lesser(0, Size - 1 - used) = 0
  BY <1>1 DEF Lesser
<1>3. /\ Unwritten.buffer = buffer /\ Unwritten.writeCnt = writeCnt /\ Unwritten.count = 0
      /\ Unwritten = [buffer |-> Unwritten.buffer, writeCnt |-> Unwritten.writeCnt,
                      count |-> Unwritten.count]
  BY DEF Unwritten
<1> QED BY <1>1, <1>2, <1>3 DEF PutSoFar, TypeOK

\* What the loop over the characters of a string ends with.
LEMMA StringIsPut ==
  ASSUME TypeOK, NEW str \in Seq(Chars), NEW put, Putting(put, str, Len(str))
  PROVE  PutSoFar(put[Len(str)], str, Len(str))
<1> DEFINE n == Len(str)
           T == {k \in 0 .. n : ~PutSoFar(put[k], str, k)}
<1>1. n \in Nat /\ \A k \in 1 .. n : str[k] \in Chars \cup {NUL}
  OBVIOUS
<1>2. Putting(put, str, n)
  OBVIOUS
<1> HIDE DEF n
<1>3. CASE T = {}
  BY <1>1, <1>3 DEF n
<1>4. CASE T # {}
  <2>1. T \subseteq Nat
    BY <1>1
  <2>2. PICK x \in T : \A y \in T : x <= y
    BY <1>4, <2>1, LeastNumber
  <2>3. x \in 0 .. n /\ ~PutSoFar(put[x], str, x)
    OBVIOUS
  <2>4. put[x] = IF x = 0 THEN Unwritten ELSE PutOne(put[x - 1], str[x])
    BY <1>2, <2>3 DEF Putting
  <2>5. x # 0
    BY <2>3, <2>4, UnwrittenIsPut
  <2>6. x - 1 \in 0 .. n /\ ~(x <= x - 1) /\ x - 1 \in Nat /\ x - 1 + 1 = x /\ x \in 1 .. n
    BY <1>1, <2>3, <2>5
  <2>7. PutSoFar(put[x - 1], str, x - 1)
    BY <2>2, <2>6
  <2>8. PutSoFar(PutOne(put[x - 1], str[x - 1 + 1]), str, x - 1 + 1)
    BY <1>1, <2>6, <2>7, PutOneKeeps
  <2> QED BY <2>3, <2>4, <2>5, <2>6, <2>8
<1> QED BY <1>3, <1>4

\* The lesser of two numbers, as the queue says it.
LEMMA AtMostIsLesser ==
  ASSUME NEW m \in Int, NEW n \in Int
  PROVE  Fifo!AtMost(m, n) = Lesser(m, n)
BY DEF Fifo!AtMost, Lesser

IsBuffer(b, r, w) == b \in [Slots -> Chars \cup {NUL}] /\ r \in Slots /\ w \in Slots

LEMMA UnreadIs ==
  ASSUME NEW b, NEW r, NEW w, IsBuffer(b, r, w)
  PROVE  /\ Unread(b, r, w) \in Seq(Chars \cup {NUL}) /\ Len(Unread(b, r, w)) = Used(r, w)
         /\ \A k \in 1 .. Used(r, w) : Unread(b, r, w)[k] = b[SlotAfter(r, k - 1)]
<1>1. Used(r, w) \in 0 .. Size - 1 /\ Size \in Nat
  BY UsedType, SizeAssumption DEF IsBuffer
<1>2. ASSUME NEW k \in 1 .. Used(r, w) PROVE b[SlotAfter(r, k - 1)] \in Chars \cup {NUL}
  <2>1. k - 1 \in 0 .. Size - 1
    BY <1>1
  <2> QED BY <2>1, SlotAfterType DEF IsBuffer
<1>3. Unread(b, r, w) = [k \in 1 .. Used(r, w) |-> b[SlotAfter(r, k - 1)]]
  BY DEF Unread
<1>4. Unread(b, r, w) \in [1 .. Used(r, w) -> Chars \cup {NUL}]
  BY <1>2, <1>3
<1> QED BY <1>1, <1>3, <1>4

\* After a put the content has the accepted characters at its end.
LEMMA PutAppends ==
  ASSUME TypeOK, NEW str \in Seq(Chars), NEW st, PutSoFar(st, str, Len(str)),
         buffer' = st.buffer, writeCnt' = st.writeCnt, readCnt' = readCnt
  PROVE  /\ TypeOK' /\ Content' = Content \o SubSeq(str, 1, st.count)
         /\ st.count = Lesser(Len(str), Size - 1 - Len(Content))
         /\ st.count \in 0 .. Len(str)
<1> DEFINE used == Used(readCnt, writeCnt)
           c == st.count
           old == Content
           sub == SubSeq(str, 1, c)
           both == old \o sub
<1>1. used \in 0 .. Size - 1 /\ Size \in Nat
      /\ old \in Seq(Chars \cup {NUL}) /\ Len(old) = used
      /\ \A k \in 1 .. used : old[k] = buffer[SlotAfter(readCnt, k - 1)]
  BY UsedNow
<1>2. c = Lesser(Len(str), Size - 1 - used) /\ Used(readCnt, writeCnt') = used + c
  BY DEF PutSoFar
<1>3. c \in 0 .. Len(str)
  <2> HIDE DEF c, used
  <2> QED BY <1>1, <1>2 DEF Lesser
<1>4. TypeOK'
  BY DEF TypeOK, PutSoFar
<1>5. /\ Content' \in Seq(Chars \cup {NUL}) /\ Len(Content') = used + c
      /\ \A k \in 1 .. used + c : Content'[k] = buffer'[SlotAfter(readCnt, k - 1)]
  <2>1. Content' = Unread(buffer', readCnt', writeCnt')
    BY DEF Content, Unread
  <2>2. IsBuffer(buffer', readCnt', writeCnt')
    BY <1>4 DEF TypeOK, IsBuffer
  <2>3. /\ Content' \in Seq(Chars \cup {NUL}) /\ Len(Content') = Used(readCnt', writeCnt')
        /\ \A k \in 1 .. Used(readCnt', writeCnt') :
              Content'[k] = buffer'[SlotAfter(readCnt', k - 1)]
    BY <2>1, <2>2, UnreadIs
  <2> HIDE DEF used, c
  <2> QED BY <1>2, <2>3
<1>6. \A k \in 1 .. used + c : buffer'[SlotAfter(readCnt, k - 1)]
                                 = IF k <= used THEN buffer[SlotAfter(readCnt, k - 1)]
                                   ELSE str[k - used]
  BY DEF PutSoFar
<1>7. /\ sub \in Seq(Chars \cup {NUL}) /\ Len(sub) = c
      /\ \A k \in 1 .. c : sub[k] = str[k]
  <2> HIDE DEF c
  <2>1. \A k \in 1 .. c : str[k] \in Chars \cup {NUL}
    BY <1>3
  <2>2. 1 \in Int /\ c \in Int
    BY <1>3
  <2> HIDE DEF sub
  <2>3. /\ sub \in Seq(Chars \cup {NUL}) /\ Len(sub) = IF 1 <= c THEN c - 1 + 1 ELSE 0
        /\ \A k \in 1 .. c - 1 + 1 : sub[k] = str[1 + k - 1]
    BY <2>1, <2>2, SubSeqProperties DEF sub
  <2> QED BY <1>3, <2>3
<1> HIDE DEF used, c, old, sub
<1>8. /\ both \in Seq(Chars \cup {NUL}) /\ Len(both) = used + c
      /\ \A k \in 1 .. used + c : both[k] = IF k <= used THEN old[k] ELSE sub[k - used]
  BY <1>1, <1>7, ConcatProperties
<1> HIDE DEF both
<1>9. ASSUME NEW k \in 1 .. used + c PROVE Content'[k] = both[k]
  <2>1. CASE k <= used
    <3>1. k \in 1 .. used
      BY <1>1, <1>3, <2>1
    <3> QED BY <1>1, <1>5, <1>6, <1>8, <2>1, <3>1
  <2>2. CASE ~(k <= used)
    <3>1. k - used \in 1 .. c
      BY <1>1, <1>3, <2>2
    <3> QED BY <1>5, <1>6, <1>7, <1>8, <2>2, <3>1
  <2> QED BY <2>1, <2>2
<1>10. Content' = both
  <2> DEFINE new == Content'
  <2>1. new \in Seq(Chars \cup {NUL}) /\ Len(new) = used + c
    BY <1>5
  <2>2. \A k \in 1 .. used + c : new[k] = both[k]
    BY <1>9
  <2> HIDE DEF new
  <2>3. new = both
    BY <1>8, <2>1, <2>2, SeqEqual
  <2> QED BY <2>3 DEF new
<1> QED BY <1>1, <1>2, <1>3, <1>4, <1>10 DEF used, c, old, sub, both

LEMMA PutCharKeeps ==
  ASSUME TypeOK, NEW ch \in Chars, PutChar(ch)
  PROVE  TypeOK' /\ Fifo!PutChar(ch)
<1> DEFINE str == <<ch>>
           st == PutOne(Unwritten, ch)
<1>1. str \in Seq(Chars) /\ Len(str) = 1 /\ str[1] = ch
  OBVIOUS
<1>2. PutSoFar(PutOne(Unwritten, str[0 + 1]), str, 0 + 1)
  BY <1>1, UnwrittenIsPut, PutOneKeeps
<1> HIDE DEF str
<1>3. PutSoFar(st, str, Len(str))
  BY <1>1, <1>2
<1>4. /\ buffer' = st.buffer /\ writeCnt' = st.writeCnt /\ readCnt' = readCnt
      /\ reply' = [op |-> "PutChar", value |-> st.count = 1]
  BY DEF PutChar
<1> HIDE DEF st
<1>5. /\ TypeOK' /\ Content' = Content \o SubSeq(str, 1, st.count)
      /\ st.count = Lesser(Len(str), Size - 1 - Len(Content))
  BY <1>1, <1>3, <1>4, PutAppends
<1>6. Content \in Seq(Chars \cup {NUL}) /\ Len(Content) \in 0 .. Size - 1 /\ Size \in Nat
  BY UsedNow
<1>7. CASE Len(Content) < Size - 1
  <2>1. st.count = 1
    BY <1>1, <1>5, <1>6, <1>7 DEF Lesser
  <2>2. SubSeq(str, 1, 1) = str
    BY <1>1, SubSeqFull
  <2>3. ch \in Chars \cup {NUL}
    OBVIOUS
  <2>4. Append(Content, ch) = Content \o <<ch>>
    BY <1>6, <2>3, AppendIsConcat
  <2>5. Content' = Append(Content, ch)
    BY <1>5, <2>1, <2>2, <2>4 DEF str
  <2> QED BY <1>4, <1>5, <1>7, <2>1, <2>5 DEF Fifo!PutChar
<1>8. CASE ~(Len(Content) < Size - 1)
  <2>1. st.count = 0
    BY <1>1, <1>5, <1>6, <1>8 DEF Lesser
  <2>2. SubSeq(str, 1, 0) = <<>>
    BY DEF str
  <2>3. Content' = Content
    BY <1>5, <1>6, <2>1, <2>2, ConcatEmptySeq
  <2> QED BY <1>4, <1>5, <1>8, <2>1, <2>3 DEF Fifo!PutChar
<1> QED BY <1>7, <1>8

LEMMA PutStringKeeps ==
  ASSUME TypeOK, NEW str \in Strings, PutString(str)
  PROVE  TypeOK' /\ Fifo!PutString(str)
<1>1. str \in Seq(Chars) /\ Len(str) \in Nat
  BY DEF Strings, SeqOf
<1> DEFINE put == CHOOSE f : Putting(f, str, Len(str))
           st == put[Len(str)]
<1>2. /\ buffer' = st.buffer /\ writeCnt' = st.writeCnt /\ readCnt' = readCnt
      /\ reply' = [op |-> "PutString", value |-> st.count]
  BY DEF PutString, Putting
<1>3. Putting(put, str, Len(str))
  BY <1>1, PuttingExists
<1> HIDE DEF put
<1>4. PutSoFar(st, str, Len(str))
  BY <1>1, <1>3, StringIsPut
<1> HIDE DEF st
<1>5. /\ TypeOK' /\ Content' = Content \o SubSeq(str, 1, st.count)
      /\ st.count = Lesser(Len(str), Size - 1 - Len(Content))
  BY <1>1, <1>2, <1>4, PutAppends
<1>6. Len(Content) \in Int /\ Size - 1 - Len(Content) \in Int
  BY UsedNow
<1>7. Fifo!AtMost(Len(str), Size - 1 - Len(Content)) = st.count
  BY <1>1, <1>5, <1>6, AtMostIsLesser
<1> QED BY <1>2, <1>5, <1>7 DEF Fifo!PutString

LEMMA GetCharKeeps ==
  ASSUME TypeOK, GetChar
  PROVE  TypeOK' /\ Fifo!GetChar
<1> DEFINE used == Used(readCnt, writeCnt)
<1>1. /\ used \in 0 .. Size - 1 /\ Size \in Nat /\ Content \in Seq(Chars \cup {NUL})
      /\ Len(Content) = used
      /\ \A k \in 1 .. used : Content[k] = buffer[SlotAfter(readCnt, k - 1)]
  BY UsedNow
<1>2. readCnt \in Slots /\ writeCnt \in Slots
  BY DEF TypeOK
<1>3. IsNotEmpty(readCnt, writeCnt) <=> used > 0
  BY <1>2, IsNotEmptyExact
<1> HIDE DEF used
<1>4. CASE ~IsNotEmpty(readCnt, writeCnt)
  <2>1. UNCHANGED <<buffer, readCnt, writeCnt>> /\ reply' = [op |-> "GetChar", value |-> <<>>]
    BY <1>4 DEF GetChar
  <2>2. Content = <<>>
    BY <1>1, <1>3, <1>4
  <2>3. Content' = Content
    BY <2>1 DEF Content
  <2> QED BY <2>1, <2>2, <2>3 DEF Fifo!GetChar, TypeOK
<1>5. CASE IsNotEmpty(readCnt, writeCnt)
  <2>1. /\ readCnt' = Wrap(readCnt + 1) /\ buffer' = buffer /\ writeCnt' = writeCnt
        /\ reply' = [op |-> "GetChar", value |-> <<buffer[readCnt]>>]
    BY <1>5 DEF GetChar
  <2>2. used \in 1 .. Size - 1 /\ 1 \in 0 .. used
    BY <1>1, <1>3, <1>5
  <2>3. SlotAfter(readCnt, 1) = readCnt'
    BY <1>2, <2>1, SizeAssumption DEF Slots, Wrap, SlotAfter
  <2>4. /\ readCnt' \in Slots /\ Used(readCnt', writeCnt) = used - 1
        /\ \A k \in 0 .. used - 1 - 1 : SlotAfter(readCnt', k) = SlotAfter(readCnt, 1 + k)
    BY <1>2, <2>2, <2>3, DropRemoves DEF used
  <2>5. TypeOK'
    BY <2>1, <2>4 DEF TypeOK
  <2>6. IsBuffer(buffer', readCnt', writeCnt') /\ Content' = Unread(buffer', readCnt', writeCnt')
    BY <2>5 DEF TypeOK, IsBuffer, Content, Unread
  <2>7. /\ Content' \in Seq(Chars \cup {NUL}) /\ Len(Content') = Used(readCnt', writeCnt')
        /\ \A k \in 1 .. Used(readCnt', writeCnt') :
              Content'[k] = buffer'[SlotAfter(readCnt', k - 1)]
    BY <2>6, UnreadIs
  <2>8. Content # <<>> /\ Head(Content) = buffer[readCnt]
    <3>1. SlotAfter(readCnt, 0) = readCnt
      BY <1>2, SizeAssumption DEF Slots, SlotAfter
    <3>2. 1 \in 1 .. used /\ 1 - 1 = 0
      BY <2>2
    <3>3. Content[1] = buffer[readCnt]
      BY <1>1, <3>1, <3>2
    <3> QED BY <1>1, <2>2, <3>3
  <2> DEFINE new == Content'
             rest == Tail(Content)
  <2>9. /\ rest \in Seq(Chars \cup {NUL}) /\ Len(rest) = used - 1
        /\ \A k \in 1 .. used - 1 : rest[k] = Content[k + 1]
    BY <1>1, <2>8, HeadTailProperties
  <2>10. /\ new \in Seq(Chars \cup {NUL}) /\ Len(new) = used - 1
         /\ \A k \in 1 .. used - 1 : new[k] = buffer[SlotAfter(readCnt', k - 1)]
    BY <2>1, <2>4, <2>7
  <2>11. ASSUME NEW k \in 1 .. used - 1 PROVE new[k] = rest[k]
    <3>1. k - 1 \in 0 .. used - 1 - 1 /\ 1 + (k - 1) = k /\ k + 1 \in 1 .. used /\ k + 1 - 1 = k
      BY <2>2
    <3>2. SlotAfter(readCnt', k - 1) = SlotAfter(readCnt, k)
      BY <2>4, <3>1
    <3>3. new[k] = buffer[SlotAfter(readCnt, k)]
      BY <2>10, <3>2
    <3>4. Content[k + 1] = buffer[SlotAfter(readCnt, k)]
      BY <1>1, <3>1
    <3> QED BY <2>9, <3>3, <3>4
  <2> HIDE DEF new, rest
  <2>12. new = rest
    BY <2>9, <2>10, <2>11, SeqEqual
  <2> QED BY <2>1, <2>5, <2>8, <2>12 DEF Fifo!GetChar, new, rest
<1> QED BY <1>4, <1>5

\* The checks of the counters change nothing between calls.
LEMMA CheckedSlot ==
  ASSUME NEW cnt \in Slots
  PROVE  Checked(cnt) = cnt
  BY SizeAssumption DEF Slots, Checked

LEMMA CopiedLength ==
  ASSUME NEW r \in Slots, NEW w \in Slots, NEW n \in Nat
  PROVE  GetStringLength(r, w, n + 1) = Lesser(n, Used(r, w))
<1>1. r \in Int /\ w \in Int /\ Size \in Int /\ 0 <= r /\ r < Size /\ 0 <= w /\ w < Size
  BY SizeAssumption DEF Slots
<1>2. CASE n = 0
  BY <1>1, <1>2 DEF GetStringLength, Lesser, Used
<1>3. CASE n # 0 /\ r <= w
  BY <1>1, <1>3 DEF GetStringLength, Lesser, Used
<1>4. CASE n # 0 /\ ~(r <= w)
  BY <1>1, <1>4 DEF GetStringLength, Lesser, Used
<1> QED BY <1>2, <1>3, <1>4

LEMMA GetStringKeeps ==
  ASSUME TypeOK, NEW n \in Nat, GetString(n + 1)
  PROVE  TypeOK' /\ Fifo!GetString(n + 1)
<1> DEFINE used == Used(readCnt, writeCnt)
           c == Lesser(n, used)
           got == [k \in 1 .. c |-> buffer[SlotAfter(readCnt, k - 1)]]
           sub == SubSeq(Content, 1, c)
<1>1. /\ used \in 0 .. Size - 1 /\ Size \in Nat /\ Content \in Seq(Chars \cup {NUL})
      /\ Len(Content) = used
      /\ \A k \in 1 .. used : Content[k] = buffer[SlotAfter(readCnt, k - 1)]
  BY UsedNow
<1>2. readCnt \in Slots /\ writeCnt \in Slots
  BY DEF TypeOK
<1>3. GetStringLength(readCnt, writeCnt, n + 1) = c
  BY <1>2, CopiedLength
<1>4. Checked(readCnt) = readCnt /\ Checked(writeCnt) = writeCnt
  BY <1>2, CheckedSlot
<1>5. /\ UNCHANGED <<buffer, readCnt, writeCnt>>
      /\ reply' = [op |-> "GetString", value |-> got]
  BY <1>3, <1>4 DEF GetString
<1>6. c \in 0 .. used
  <2> HIDE DEF used
  <2> QED BY <1>1 DEF Lesser
<1> HIDE DEF used, c
<1>7. /\ sub \in Seq(Chars \cup {NUL}) /\ Len(sub) = c
      /\ \A k \in 1 .. c : sub[k] = Content[k]
  <2>1. \A k \in 1 .. c : Content[k] \in Chars \cup {NUL}
    BY <1>1, <1>6
  <2>2. 1 \in Int /\ c \in Int
    BY <1>6
  <2> HIDE DEF sub
  <2>3. /\ sub \in Seq(Chars \cup {NUL}) /\ Len(sub) = IF 1 <= c THEN c - 1 + 1 ELSE 0
        /\ \A k \in 1 .. c - 1 + 1 : sub[k] = Content[1 + k - 1]
    BY <2>1, <2>2, SubSeqProperties DEF sub
  <2> QED BY <1>6, <2>3
<1>8. ASSUME NEW k \in 1 .. c
      PROVE  buffer[SlotAfter(readCnt, k - 1)] \in Chars \cup {NUL} /\ got[k] = Content[k]
  <2>1. k \in 1 .. used
    BY <1>1, <1>6
  <2> QED BY <1>1, <2>1
<1>9. got \in Seq(Chars \cup {NUL}) /\ Len(got) = c
  <2>1. got \in [1 .. c -> Chars \cup {NUL}]
    BY <1>8
  <2> HIDE DEF got
  <2> QED BY <1>6, <2>1
<1> HIDE DEF got, sub
<1>10. got = sub
  BY <1>7, <1>8, <1>9, SeqEqual
<1>11. Fifo!AtMost(n + 1 - 1, Len(Content)) = c
  BY <1>1, AtMostIsLesser DEF c
<1>12. Content' = Content /\ TypeOK'
  BY <1>5 DEF Content, TypeOK
<1> QED BY <1>5, <1>10, <1>11, <1>12 DEF Fifo!GetString, sub

\* More than there is may be said to be dropped, by a drop across the end.
LEMMA DroppedLength ==
  ASSUME NEW r \in Slots, NEW w \in Slots, NEW n \in Nat, n >= Used(r, w)
  PROVE  Drop(r, w, n).length \in {Used(r, w), n}
<1>1. r \in Int /\ w \in Int /\ Size \in Int /\ 0 <= r /\ r < Size /\ 0 <= w /\ w < Size
  BY SizeAssumption DEF Slots
<1>2. CASE r < w
  BY <1>1, <1>2 DEF Drop, DropStraight, Lesser, U16Sub, Used
<1>3. CASE r > w
  BY <1>1, <1>3 DEF Drop, DropWrapped
<1>4. CASE r = w
  BY <1>1, <1>4 DEF Drop, Used
<1> QED BY <1>1, <1>2, <1>3, <1>4

LEMMA DropCharactersKeeps ==
  ASSUME TypeOK, NEW n \in Nat, DropCharacters(n)
  PROVE  TypeOK' /\ Fifo!DropCharacters(n)
<1> DEFINE used == Used(readCnt, writeCnt)
           c == Lesser(n, used)
           dropped == Drop(readCnt, writeCnt, n)
           sub == SubSeq(Content, c + 1, Len(Content))
<1>1. /\ used \in 0 .. Size - 1 /\ Size \in Nat /\ Content \in Seq(Chars \cup {NUL})
      /\ Len(Content) = used
      /\ \A k \in 1 .. used : Content[k] = buffer[SlotAfter(readCnt, k - 1)]
  BY UsedNow
<1>2. readCnt \in Slots /\ writeCnt \in Slots
  BY DEF TypeOK
<1>3. Checked(readCnt) = readCnt /\ Checked(writeCnt) = writeCnt
  BY <1>2, CheckedSlot
<1>4. /\ readCnt' = Checked(dropped.readCnt) /\ UNCHANGED <<buffer, writeCnt>>
      /\ reply' = [op |-> "DropCharacters", value |-> dropped.length]
  BY <1>3 DEF DropCharacters
<1>5. c \in 0 .. used /\ c \in Int
  <2> HIDE DEF used
  <2> QED BY <1>1 DEF Lesser
<1>6. /\ SlotAfter(readCnt, c) \in Slots /\ Used(SlotAfter(readCnt, c), writeCnt) = used - c
      /\ \A k \in 0 .. used - c - 1 :
            SlotAfter(SlotAfter(readCnt, c), k) = SlotAfter(readCnt, c + k)
  BY <1>2, <1>5, DropRemoves
<1>7. /\ readCnt' = SlotAfter(readCnt, c)
      /\ dropped.length \in {c, n}
  <2>1. CASE n <= used
    <3>1. c = n /\ n \in 0 .. used
      <4> HIDE DEF used
      <4> QED BY <1>1, <2>1 DEF Lesser
    <3>2. dropped = [readCnt |-> SlotAfter(readCnt, n), length |-> n]
      BY <1>2, <3>1, DropExact
    <3>3. dropped.readCnt = SlotAfter(readCnt, c) /\ dropped.length = n
      BY <3>1, <3>2
    <3> QED BY <1>4, <1>6, <3>3, CheckedSlot
  <2>2. CASE ~(n <= used)
    <3>1. c = used /\ n >= used
      <4> HIDE DEF used
      <4> QED BY <1>1, <2>2 DEF Lesser
    <3>2. dropped.readCnt = writeCnt /\ dropped.length \in {used, n}
      BY <1>2, <3>1, DropAll, DroppedLength
    <3>3. SlotAfter(readCnt, used) = writeCnt
      BY <1>2, SizeAssumption DEF Slots, SlotAfter, Used
    <3> QED BY <1>2, <1>4, <3>1, <3>2, <3>3, CheckedSlot
  <2> QED BY <2>1, <2>2
<1>8. TypeOK'
  BY <1>4, <1>6, <1>7 DEF TypeOK
<1> HIDE DEF used, c, dropped
<1>9. /\ sub \in Seq(Chars \cup {NUL}) /\ Len(sub) = used - c
      /\ \A k \in 1 .. used - c : sub[k] = Content[c + k]
  <2>1. \A k \in c + 1 .. used : Content[k] \in Chars \cup {NUL}
    BY <1>1, <1>5
  <2>2. c + 1 \in Int /\ used \in Int
    BY <1>1, <1>5
  <2>3. sub = SubSeq(Content, c + 1, used)
    BY <1>1
  <2> HIDE DEF sub
  <2>4. /\ sub \in Seq(Chars \cup {NUL})
        /\ Len(sub) = IF c + 1 <= used THEN used - (c + 1) + 1 ELSE 0
        /\ \A k \in 1 .. used - (c + 1) + 1 : sub[k] = Content[c + 1 + k - 1]
    BY <2>1, <2>2, <2>3, SubSeqProperties
  <2>5. ASSUME NEW k \in 1 .. used - c PROVE sub[k] = Content[c + k]
    <3>1. k \in 1 .. used - (c + 1) + 1 /\ c + 1 + k - 1 = c + k
      BY <1>1, <1>5
    <3> QED BY <2>4, <3>1
  <2>6. Len(sub) = used - c
    BY <1>1, <1>5, <2>4
  <2> QED BY <2>4, <2>5, <2>6
<1>10. /\ Content' \in Seq(Chars \cup {NUL}) /\ Len(Content') = Used(readCnt', writeCnt')
       /\ \A k \in 1 .. Used(readCnt', writeCnt') :
             Content'[k] = buffer'[SlotAfter(readCnt', k - 1)]
  <2>1. IsBuffer(buffer', readCnt', writeCnt') /\ Content' = Unread(buffer', readCnt', writeCnt')
    BY <1>8 DEF TypeOK, IsBuffer, Content, Unread
  <2> QED BY <2>1, UnreadIs
<1> DEFINE new == Content'
<1>11. /\ new \in Seq(Chars \cup {NUL}) /\ Len(new) = used - c
       /\ \A k \in 1 .. used - c : new[k] = buffer[SlotAfter(readCnt', k - 1)]
  BY <1>4, <1>6, <1>7, <1>10
<1> HIDE DEF sub, new
<1>12. ASSUME NEW k \in 1 .. used - c PROVE new[k] = sub[k]
  <2>1. k - 1 \in 0 .. used - c - 1 /\ c + (k - 1) = c + k - 1 /\ c + k \in 1 .. used
    BY <1>1, <1>5
  <2>2. SlotAfter(readCnt', k - 1) = SlotAfter(readCnt, c + k - 1)
    BY <1>6, <1>7, <2>1
  <2>3. Content[c + k] = buffer[SlotAfter(readCnt, c + k - 1)]
    BY <1>1, <1>5, <2>1
  <2> QED BY <1>9, <1>11, <2>2, <2>3
<1>13. new = sub
  BY <1>9, <1>11, <1>12, SeqEqual
<1>14. Fifo!AtMost(n, Len(Content)) = c
  BY <1>1, AtMostIsLesser DEF c
<1> QED BY <1>4, <1>7, <1>8, <1>13, <1>14 DEF Fifo!DropCharacters, new, sub

LEMMA ClearKeeps ==
  ASSUME TypeOK, Clear
  PROVE  TypeOK' /\ Fifo!Clear
<1>1. readCnt' = writeCnt /\ writeCnt' = writeCnt /\ reply' = [op |-> "Clear", value |-> 0]
  BY DEF Clear
<1>2. TypeOK'
  BY DEF Clear, TypeOK
<1>3. Used(readCnt', writeCnt') = 0
  BY <1>1, SizeAssumption DEF Used, TypeOK, Slots
<1>4. Content' = <<>>
  BY <1>3 DEF Content
<1> QED BY <1>1, <1>2, <1>4 DEF Fifo!Clear

LEMMA BufferInitOK ==
  ASSUME Init
  PROVE  TypeOK /\ Fifo!Init
<1>1. TypeOK
  BY SizeAssumption DEF Init, TypeOK, Slots
<1>2. Used(readCnt, writeCnt) = 0
  BY SizeAssumption DEF Init, Used
<1>3. Content = <<>>
  BY <1>2 DEF Content
<1> QED BY <1>1, <1>3 DEF Init, Fifo!Init

LEMMA BufferNextKeeps ==
  ASSUME TypeOK, Next
  PROVE  TypeOK' /\ Fifo!Next
<1>1. CASE \E ch \in Chars : PutChar(ch)
  BY <1>1, PutCharKeeps DEF Fifo!Next
<1>2. CASE \E str \in Strings : PutString(str)
  <2>1. Strings \subseteq Fifo!Strings
    <3>1. ASSUME NEW str \in Strings
          PROVE  str \in Fifo!Strings
      <4>1. PICK n \in 0 .. MaxString : str \in [1 .. n -> Chars]
        BY <3>1 DEF Strings, SeqOf
      <4>2. n # 0
        BY <3>1, <4>1 DEF Strings
      <4> QED BY <4>1, <4>2, MaxStringAssumption DEF Fifo!Strings
    <3> QED BY <3>1
  <2> QED BY <1>2, <2>1, PutStringKeeps DEF Fifo!Next
<1>3. CASE GetChar
  BY <1>3, GetCharKeeps DEF Fifo!Next
<1>4. CASE \E n \in Lengths : GetString(n + 1) \/ DropCharacters(n)
  <2>1. PICK n \in Lengths : GetString(n + 1) \/ DropCharacters(n)
    BY <1>4
  <2>2. n \in Nat /\ n \in 0 .. MaxString + (Size - 1)
    BY SizeAssumption, MaxStringAssumption DEF Lengths
  <2> QED BY <2>1, <2>2, GetStringKeeps, DropCharactersKeeps DEF Fifo!Next
<1>5. CASE Clear
  BY <1>5, ClearKeeps DEF Fifo!Next
<1> QED BY <1>1, <1>2, <1>3, <1>4, <1>5 DEF Next

LEMMA BufferTurn ==
  TypeOK /\ [MainLoopNext]_mainLoopVars => TypeOK' /\ [Fifo!Next]_<<Content, reply>>
<1>1. CASE TypeOK /\ RunCircularBuffer
  BY <1>1, BufferNextKeeps DEF RunCircularBuffer
<1>2. CASE TypeOK /\ UNCHANGED vars
  <2>1. TypeOK'
    BY <1>2 DEF vars, TypeOK
  <2>2. UNCHANGED <<Content, reply>>
    BY <1>2 DEF vars, Content
  <2> QED BY <2>1, <2>2
<1>3. [MainLoopNext]_mainLoopVars => RunCircularBuffer \/ UNCHANGED vars
  BY DEF MainLoopNext, mainLoopVars, RunLinkedList, RunUserInterface, RunTerminal,
         RunCalendar, RunGlobalVariables
<1> QED BY <1>1, <1>2, <1>3

\* Every call of the circular buffer does what it does to a queue of Size - 1
\* characters and answers what the queue answers, for any size and any strings
\* (CircularBuffer.c): nothing is lost, repeated or reordered where the counters
\* wrap, a string is accepted up to the free space, and only what is dropped
\* beyond the content may be reported wrongly.
THEOREM BufferIsAQueue == MainLoopSpec => ImplementsFifo
<1>1. MainLoopInit => TypeOK /\ Fifo!Init
  BY BufferInitOK DEF MainLoopInit
<1>2. TypeOK /\ [MainLoopNext]_mainLoopVars => TypeOK' /\ [Fifo!Next]_<<Content, reply>>
  BY BufferTurn
<1>3. MainLoopSpec => Fifo!Spec
  BY <1>1, <1>2, PTL DEF MainLoopSpec, Fifo!Spec
<1> QED BY <1>3 DEF ImplementsFifo
-----------------------------------------------------------------------------
(* The calendar counts its seconds.                                        *)

IsSum(s, terms, n) == s = [k \in 0 .. n |-> IF k = 0 THEN 0 ELSE s[k - 1] + terms[k]]

\* The sums that SumTo is the last of; the same whatever terms follow.
LEMMA SumsExist ==
  ASSUME NEW terms, NEW n \in Nat
  PROVE  \E s : IsSum(s, terms, n)
<1> DEFINE T == {m \in Nat : ~ \E s : IsSum(s, terms, m)}
<1>1. SUFFICES ASSUME T # {} PROVE FALSE
  OBVIOUS
<1>2. T \subseteq Nat
  OBVIOUS
<1>3. PICK x \in T : \A y \in T : x <= y
  BY <1>1, <1>2, LeastNumber
<1>4. x \in Nat /\ ~ \E s : IsSum(s, terms, x)
  OBVIOUS
<1>5. x # 0
  <2>1. IsSum([k \in 0 .. 0 |-> 0], terms, 0)
    BY DEF IsSum
  <2> QED BY <1>4, <2>1
<1>6. x - 1 \in Nat /\ ~(x <= x - 1)
  BY <1>4, <1>5
<1>7. PICK s : IsSum(s, terms, x - 1)
  BY <1>3, <1>6
<1> DEFINE g == [k \in 0 .. x |-> IF k = x THEN s[x - 1] + terms[x] ELSE s[k]]
<1>8. IsSum(g, terms, x)
  <2>1. ASSUME NEW k \in 0 .. x
        PROVE  g[k] = IF k = 0 THEN 0 ELSE g[k - 1] + terms[k]
    <3>1. CASE k = 0
      <4>1. 0 \in 0 .. x - 1 /\ k # x
        BY <1>4, <1>5, <3>1
      <4> QED BY <1>7, <3>1, <4>1 DEF IsSum
    <3>2. CASE k = x
      <4>1. x - 1 \in 0 .. x /\ x - 1 # x
        BY <1>6
      <4>2. g[k - 1] = s[x - 1]
        BY <3>2, <4>1
      <4> QED BY <1>5, <3>2, <4>2
    <3>3. CASE k # 0 /\ k # x
      <4>1. k \in 0 .. x - 1 /\ k - 1 \in 0 .. x /\ k - 1 # x
        BY <1>4, <3>3
      <4>2. g[k] = s[k] /\ g[k - 1] = s[k - 1]
        BY <3>3, <4>1
      <4>3. s[k] = s[k - 1] + terms[k]
        BY <1>7, <3>3, <4>1 DEF IsSum
      <4> QED BY <3>3, <4>2, <4>3
    <3> QED BY <3>1, <3>2, <3>3
  <2>2. g = [k \in 0 .. x |-> g[k]]
    OBVIOUS
  <2> HIDE DEF g
  <2> QED BY <2>1, <2>2 DEF IsSum
<1> QED BY <1>4, <1>8

LEMMA SumIs ==
  ASSUME NEW terms, NEW n \in Nat, NEW s, IsSum(s, terms, n), NEW m \in 0 .. n
  PROVE  SumTo(m, terms) = s[m]
<1>1. m \in Nat
  OBVIOUS
<1> DEFINE r == CHOOSE f : IsSum(f, terms, m)
<1>2. SumTo(m, terms) = r[m]
  BY DEF SumTo, IsSum
<1>3. IsSum(r, terms, m)
  BY <1>1, SumsExist
<1> HIDE DEF r
<1>4. r[0] = s[0]
  BY <1>3 DEF IsSum
<1>5. ASSUME NEW k \in 0 .. m - 1, r[k] = s[k] PROVE r[k + 1] = s[k + 1]
  <2>1. k + 1 \in 0 .. m /\ k + 1 \in 0 .. n /\ k + 1 # 0 /\ k + 1 - 1 = k
    OBVIOUS
  <2>2. r[k + 1] = r[k] + terms[k + 1] /\ s[k + 1] = s[k] + terms[k + 1]
    BY <1>3, <2>1 DEF IsSum
  <2> QED BY <1>5, <2>2
<1>6. \A k \in 0 .. m : r[k] = s[k]
  <2>1. \A k \in 0 .. m - 1 : r[k] = s[k] => r[k + 1] = s[k + 1]
    BY <1>5
  <2> QED BY <1>1, <1>4, <2>1, SamePath
<1> QED BY <1>2, <1>6

\* A sum begins with 0, and one more term is added.
LEMMA SumSteps ==
  ASSUME NEW terms
  PROVE  /\ SumTo(0, terms) = 0
         /\ \A n \in Nat : SumTo(n + 1, terms) = SumTo(n, terms) + terms[n + 1]
<1>1. SumTo(0, terms) = 0
  <2>1. PICK s : IsSum(s, terms, 0)
    BY SumsExist
  <2>2. SumTo(0, terms) = s[0]
    BY <2>1, SumIs
  <2> QED BY <2>1, <2>2 DEF IsSum
<1>2. ASSUME NEW n \in Nat PROVE SumTo(n + 1, terms) = SumTo(n, terms) + terms[n + 1]
  <2>1. PICK s : IsSum(s, terms, n + 1)
    BY SumsExist
  <2>2. SumTo(n + 1, terms) = s[n + 1] /\ SumTo(n, terms) = s[n]
    BY <2>1, SumIs
  <2>3. s[n + 1] = s[n] + terms[n + 1]
    BY <2>1 DEF IsSum
  <2> QED BY <2>2, <2>3
<1> QED BY <1>1, <1>2

OneDiffers(m, a, b, place, d) ==
    \A k \in 1 .. m : a[k] \in Int /\ b[k] = a[k] + (IF k = place THEN d ELSE 0)

\* Sums of integers are integers, and differ by the one term that differs.
LEMMA SumsDiffer ==
  ASSUME NEW m \in Nat, NEW a, NEW b, NEW place \in Nat, NEW d \in Int,
         OneDiffers(m, a, b, place, d)
  PROVE  /\ SumTo(m, a) \in Int
         /\ SumTo(m, b) = SumTo(m, a) + (IF place \in 1 .. m THEN d ELSE 0)
<1> DEFINE Holds(n) == /\ SumTo(n, a) \in Int
                       /\ SumTo(n, b) = SumTo(n, a) + (IF place \in 1 .. n THEN d ELSE 0)
           T == {n \in 0 .. m : ~Holds(n)}
<1>1. SUFFICES ASSUME T # {} PROVE FALSE
  OBVIOUS
<1>2. T \subseteq Nat
  OBVIOUS
<1>3. PICK x \in T : \A y \in T : x <= y
  BY <1>1, <1>2, LeastNumber
<1>4. x \in 0 .. m /\ ~Holds(x)
  OBVIOUS
<1>5. x # 0
  <2>1. Holds(0)
    BY SumSteps
  <2> QED BY <1>4, <2>1
<1>6. x - 1 \in 0 .. m /\ ~(x <= x - 1) /\ x - 1 \in Nat /\ x - 1 + 1 = x /\ x \in 1 .. m
  BY <1>4, <1>5
<1>7. Holds(x - 1)
  BY <1>3, <1>6
<1>8. SumTo(x, a) = SumTo(x - 1, a) + a[x] /\ SumTo(x, b) = SumTo(x - 1, b) + b[x]
  <2>1. SumTo(x - 1 + 1, a) = SumTo(x - 1, a) + a[x - 1 + 1]
        /\ SumTo(x - 1 + 1, b) = SumTo(x - 1, b) + b[x - 1 + 1]
    BY <1>6, SumSteps
  <2> QED BY <1>6, <2>1
<1>9. a[x] \in Int /\ b[x] = a[x] + (IF x = place THEN d ELSE 0)
  BY <1>6 DEF OneDiffers
<1>10. Holds(x)
  BY <1>6, <1>7, <1>8, <1>9
<1> QED BY <1>4, <1>10

Times ==
    [year : 0 .. LastYear, month : 0 .. LastMonth, day : 0 .. MaxDay,
     hour : 0 .. MaxHour, minute : 0 .. MaxMinute, second : 0 .. MaxSecond]

LEMMA MonthLength ==
  ASSUME NEW year \in 0 .. LastYear, NEW month \in 1 .. LastMonth
  PROVE  /\ GetDaysOfMonth(year, month) \in 1 .. MaxDay
         /\ DaysOfMonth[month] \in Int
         /\ GetDaysOfMonth(year, month)
              = DaysOfMonth[month] + (IF month = February /\ ~IsLeapYear(year) THEN 1 ELSE 0)
<1>1. LastYear \in Nat /\ MaxDay \in Nat /\ LastMonth \in Nat /\ LastMonth >= 2
      /\ DaysOfMonth[2] < MaxDay
      /\ \A k \in 1 .. LastMonth : DaysOfMonth[k] \in 1 .. MaxDay
  BY CalendarAssumption DEF LastMonth
<1>2. DaysOfMonth[month] \in 1 .. MaxDay
  BY <1>1
<1>3. ~(year > LastYear)
  BY <1>1
<1>4. CASE month = February /\ ~IsLeapYear(year)
  BY <1>1, <1>2, <1>3, <1>4 DEF GetDaysOfMonth, February
<1>5. CASE ~(month = February /\ ~IsLeapYear(year))
  BY <1>1, <1>2, <1>3, <1>5 DEF GetDaysOfMonth
<1> QED BY <1>4, <1>5

\* What a step of one second does: the second, minute, hour, day, month or year
\* steps and what is below it starts again.
At(y, mo, d, h, mi, s) ==
    [year |-> y, month |-> mo, day |-> d, hour |-> h, minute |-> mi, second |-> s]

SecondSteps(t, u) ==
    \/ /\ t.second < MaxSecond
       /\ u = At(t.year, t.month, t.day, t.hour, t.minute, t.second + 1)
    \/ /\ t.second = MaxSecond /\ t.minute < MaxMinute
       /\ u = At(t.year, t.month, t.day, t.hour, t.minute + 1, 0)
    \/ /\ t.second = MaxSecond /\ t.minute = MaxMinute /\ t.hour < MaxHour
       /\ u = At(t.year, t.month, t.day, t.hour + 1, 0, 0)

MidnightPasses(t) ==
    t.second = MaxSecond /\ t.minute = MaxMinute /\ t.hour = MaxHour

DaySteps(t, u) ==
    /\ MidnightPasses(t)
    /\ \/ /\ t.day < GetDaysOfMonth(t.year, t.month)
          /\ u = At(t.year, t.month, t.day + 1, 0, 0, 0)
       \/ /\ ~(t.day < GetDaysOfMonth(t.year, t.month)) /\ t.month < LastMonth
          /\ u = At(t.year, t.month + 1, 1, 0, 0, 0)

YearSteps(t, u) ==
    /\ MidnightPasses(t)
    /\ ~(t.day < GetDaysOfMonth(t.year, t.month)) /\ t.month = LastMonth
    /\ u = At(IF t.year < LastYear THEN t.year + 1 ELSE 0, 1, 1, 0, 0, 0)

LEMMA StepIs ==
  ASSUME systemTime \in Times, StepOneSecond
  PROVE  \/ SecondSteps(systemTime, systemTime')
         \/ DaySteps(systemTime, systemTime')
         \/ YearSteps(systemTime, systemTime')
<1> DEFINE t == systemTime
<1>1. /\ t.second \in 0 .. MaxSecond /\ t.minute \in 0 .. MaxMinute /\ t.hour \in 0 .. MaxHour
      /\ t.month \in 0 .. LastMonth /\ t.day \in 0 .. MaxDay /\ t.year \in 0 .. LastYear
      /\ t = At(t.year, t.month, t.day, t.hour, t.minute, t.second)
  BY DEF Times, At
<1>2. /\ MaxSecond \in Nat /\ MaxMinute \in Nat /\ MaxHour \in Nat /\ LastMonth \in Nat
      /\ LastYear \in Nat
  BY CalendarAssumption DEF LastMonth
<1> HIDE DEF t
<1>3. systemTime' = IF t.second < MaxSecond THEN [t EXCEPT !.second = @ + 1] ELSE StepMinute(t)
  BY DEF StepOneSecond, t
<1>4. CASE t.second < MaxSecond
  <2>1. systemTime' = At(t.year, t.month, t.day, t.hour, t.minute, t.second + 1)
    BY <1>1, <1>3, <1>4 DEF At
  <2> QED BY <1>4, <2>1 DEF SecondSteps, t
<1>5. CASE ~(t.second < MaxSecond) /\ t.minute < MaxMinute
  <2>1. systemTime' = At(t.year, t.month, t.day, t.hour, t.minute + 1, 0)
    BY <1>1, <1>3, <1>5 DEF At, StepMinute
  <2>2. t.second = MaxSecond
    BY <1>1, <1>2, <1>5
  <2> QED BY <1>5, <2>1, <2>2 DEF SecondSteps, t
<1>6. CASE ~(t.second < MaxSecond) /\ ~(t.minute < MaxMinute)
  <2>1. t.second = MaxSecond /\ t.minute = MaxMinute
    BY <1>1, <1>2, <1>6
  <2> DEFINE t1 == [t EXCEPT !.second = 0]
  <2>2. systemTime' = StepHour(t1)
    BY <1>3, <1>6 DEF StepMinute
  <2>3. t1 = At(t.year, t.month, t.day, t.hour, t.minute, 0)
    BY <1>1 DEF At
  <2> HIDE DEF t1
  <2>4. CASE t.hour < MaxHour
    <3>1. systemTime' = At(t.year, t.month, t.day, t.hour + 1, 0, 0)
      BY <2>2, <2>3, <2>4 DEF StepHour, At
    <3> QED BY <2>1, <2>4, <3>1 DEF SecondSteps, t
  <2>5. CASE ~(t.hour < MaxHour)
    <3>1. t.hour = MaxHour
      BY <1>1, <1>2, <2>5
    <3> DEFINE t2 == [t1 EXCEPT !.minute = 0]
    <3>2. systemTime' = StepDay(t2)
      BY <2>2, <2>3, <2>5 DEF StepHour, At
    <3>3. t2 = At(t.year, t.month, t.day, t.hour, 0, 0)
      BY <2>3 DEF At
    <3> HIDE DEF t2
    <3>4. CASE t.day < GetDaysOfMonth(t.year, t.month)
      <4>1. systemTime' = At(t.year, t.month, t.day + 1, 0, 0, 0)
        BY <3>2, <3>3, <3>4 DEF StepDay, At
      <4> QED BY <2>1, <3>1, <3>4, <4>1 DEF DaySteps, MidnightPasses, t
    <3>5. CASE ~(t.day < GetDaysOfMonth(t.year, t.month))
      <4> DEFINE t3 == [t2 EXCEPT !.hour = 0]
      <4>1. systemTime' = StepMonth(t3)
        BY <3>2, <3>3, <3>5 DEF StepDay, At
      <4>2. t3 = At(t.year, t.month, t.day, 0, 0, 0)
        BY <3>3 DEF At
      <4> HIDE DEF t3
      <4>3. CASE t.month < LastMonth
        <5>1. systemTime' = At(t.year, t.month + 1, 1, 0, 0, 0)
          BY <4>1, <4>2, <4>3 DEF StepMonth, At
        <5> QED BY <2>1, <3>1, <3>5, <4>3, <5>1 DEF DaySteps, MidnightPasses, t
      <4>4. CASE ~(t.month < LastMonth)
        <5>1. t.month = LastMonth
          BY <1>1, <1>2, <4>4
        <5> DEFINE t4 == [t3 EXCEPT !.day = 1]
        <5>2. systemTime' = StepYear(t4)
          BY <4>1, <4>2, <4>4 DEF StepMonth, At
        <5>3. t4 = At(t.year, t.month, 1, 0, 0, 0)
          BY <4>2 DEF At
        <5> HIDE DEF t4
        <5>4. systemTime' = At(IF t.year < LastYear THEN t.year + 1 ELSE 0, 1, 1, 0, 0, 0)
          BY <5>2, <5>3 DEF StepYear, At
        <5> QED BY <2>1, <3>1, <3>5, <5>1, <5>4 DEF YearSteps, MidnightPasses, t
      <4> QED BY <4>3, <4>4
    <3> QED BY <3>4, <3>5
  <2> QED BY <2>4, <2>5
<1> QED BY <1>4, <1>5, <1>6

LEMMA StepStaysInRange ==
  ASSUME systemTime \in Times, StepOneSecond
  PROVE  systemTime' \in Times
<1> DEFINE t == systemTime
<1>1. /\ t.second \in 0 .. MaxSecond /\ t.minute \in 0 .. MaxMinute /\ t.hour \in 0 .. MaxHour
      /\ t.month \in 0 .. LastMonth /\ t.day \in 0 .. MaxDay /\ t.year \in 0 .. LastYear
  BY DEF Times
<1>2. /\ MaxSecond \in Nat /\ MaxMinute \in Nat /\ MaxHour \in Nat /\ LastYear \in Nat
      /\ LastMonth \in Nat /\ LastMonth >= 2 /\ MaxDay \in Nat /\ MaxDay >= 1
  BY CalendarAssumption DEF LastMonth
<1>3. t.day < GetDaysOfMonth(t.year, t.month) => t.day + 1 \in 0 .. MaxDay
  <2>1. CASE t.month \in 1 .. LastMonth
    <3>1. GetDaysOfMonth(t.year, t.month) \in 1 .. MaxDay
      BY <1>1, <2>1, MonthLength
    <3> QED BY <1>1, <1>2, <3>1
  <2>2. CASE t.month \notin 1 .. LastMonth
    <3>1. GetDaysOfMonth(t.year, t.month) = 0
      BY <2>2 DEF GetDaysOfMonth
    <3> QED BY <1>1, <1>2, <3>1
  <2> QED BY <2>1, <2>2
<1>4. SecondSteps(t, systemTime') \/ DaySteps(t, systemTime') \/ YearSteps(t, systemTime')
  BY StepIs
<1> HIDE DEF t
<1>5. CASE SecondSteps(t, systemTime')
  BY <1>1, <1>2, <1>5 DEF SecondSteps, At, Times
<1>6. CASE DaySteps(t, systemTime')
  BY <1>1, <1>2, <1>3, <1>6 DEF DaySteps, At, Times
<1>7. CASE YearSteps(t, systemTime')
  BY <1>1, <1>2, <1>7 DEF YearSteps, At, Times
<1> QED BY <1>4, <1>5, <1>6, <1>7

LEMMA CalendarStaysInRange ==
  ASSUME systemTime \in Times, CalendarNext
  PROVE  systemTime' \in Times
<1>1. /\ MaxSecond \in Nat /\ MaxMinute \in Nat /\ MaxHour \in Nat /\ LastYear \in Nat
      /\ LastMonth \in Nat /\ MaxDay \in Nat /\ YearMin \in Nat /\ YearMax \in Nat
      /\ YearMax < LastYear
  BY CalendarAssumption DEF LastMonth
<1>2. CASE StepOneSecond
  BY <1>2, StepStaysInRange
<1>3. ASSUME NEW year \in YearMin .. YearMax, NEW month \in 1 .. LastMonth,
             NEW day \in 1 .. MaxDay, SetDate(year, month, day)
      PROVE  systemTime' \in Times
  <2>1. year \in 0 .. LastYear /\ month \in 0 .. LastMonth /\ day \in 0 .. MaxDay
    BY <1>1
  <2> QED BY <1>3, <2>1 DEF SetDate, Times
<1>4. ASSUME NEW hour \in 0 .. MaxHour, NEW minute \in 0 .. MaxMinute,
             NEW second \in 0 .. MaxSecond, SetTime(hour, minute, second)
      PROVE  systemTime' \in Times
  BY <1>4 DEF SetTime, Times
<1>5. \A max \in Nat : \A value \in 0 .. max :
         Up(value, max) \in 0 .. max /\ Down(value, max) \in 0 .. max
  BY DEF Up, Down
<1>6. systemTime.hour \in 0 .. MaxHour /\ systemTime.minute \in 0 .. MaxMinute
  BY DEF Times
<1>7. /\ Up(systemTime.hour, MaxHour) \in 0 .. MaxHour
      /\ Down(systemTime.hour, MaxHour) \in 0 .. MaxHour
      /\ Up(systemTime.minute, MaxMinute) \in 0 .. MaxMinute
      /\ Down(systemTime.minute, MaxMinute) \in 0 .. MaxMinute
  BY <1>1, <1>5, <1>6
<1>8. CASE AddHour \/ SubHour \/ AddMinute \/ SubMinute
  BY <1>7, <1>8 DEF AddHour, SubHour, AddMinute, SubMinute, Times
<1> QED BY <1>2, <1>3, <1>4, <1>8 DEF CalendarNext

\* The days before a time's own.
DaysBefore(t) == SumTo(t.year, YearDays) + SumTo(t.month - 1, MonthDays(t.year)) + t.day - 1

\* The months of a year are one day longer than DaysOfMonth unless it is a leap year.
LEMMA MonthsAddUp ==
  ASSUME NEW year \in 0 .. LastYear, NEW n \in 0 .. LastMonth
  PROVE  /\ SumTo(n, DaysOfMonth) \in Int /\ SumTo(n, MonthDays(year)) \in Int
         /\ n = LastMonth =>
               SumTo(n, MonthDays(year))
                 = SumTo(n, DaysOfMonth) + (IF IsLeapYear(year) THEN 0 ELSE 1)
<1> DEFINE d == IF IsLeapYear(year) THEN 0 ELSE 1
           a == DaysOfMonth
           b == MonthDays(year)
<1>1. LastMonth \in Nat /\ LastMonth >= 2 /\ n \in Nat /\ February \in Nat /\ d \in Int
  BY CalendarAssumption DEF LastMonth, February
<1>2. ASSUME NEW k \in 1 .. n
      PROVE  a[k] \in Int /\ b[k] = a[k] + (IF k = February THEN d ELSE 0)
  <2>1. k \in 1 .. LastMonth
    BY <1>1
  <2>2. b[k] = GetDaysOfMonth(year, k)
    BY <2>1 DEF MonthDays
  <2>3. /\ DaysOfMonth[k] \in Int
        /\ GetDaysOfMonth(year, k)
             = DaysOfMonth[k] + (IF k = February /\ ~IsLeapYear(year) THEN 1 ELSE 0)
    BY <2>1, MonthLength
  <2> QED BY <2>2, <2>3
<1> HIDE DEF a, b, d
<1>3. OneDiffers(n, a, b, February, d)
  BY <1>2 DEF OneDiffers
<1>4. /\ SumTo(n, a) \in Int
      /\ SumTo(n, b) = SumTo(n, a) + (IF February \in 1 .. n THEN d ELSE 0)
  BY <1>1, <1>3, SumsDiffer
<1>5. n = LastMonth => February \in 1 .. n
  BY <1>1 DEF February
<1> QED BY <1>1, <1>4, <1>5 DEF a, b, d

LEMMA YearsAddUp ==
  ASSUME NEW year \in 0 .. LastYear
  PROVE  /\ SumTo(year, YearDays) \in Int
         /\ DaysOfYear(year) \in Int
         /\ year < LastYear =>
               SumTo(year + 1, YearDays) = SumTo(year, YearDays) + DaysOfYear(year)
<1>1. LastYear \in Nat /\ LastMonth \in Nat /\ year \in Nat
  BY CalendarAssumption DEF LastMonth
<1>2. \A y : DaysOfYear(y) \in Int
  BY <1>1, MonthsAddUp DEF DaysOfYear
<1>3. OneDiffers(year, YearDays, YearDays, 0, 0)
  <2>1. ASSUME NEW k \in 1 .. year
        PROVE  YearDays[k] \in Int /\ YearDays[k] = YearDays[k] + (IF k = 0 THEN 0 ELSE 0)
    <3>1. k \in 1 .. LastYear
      BY <1>1
    <3>2. YearDays[k] = DaysOfYear(k - 1)
      BY <3>1 DEF YearDays
    <3> QED BY <1>2, <3>2
  <2> QED BY <2>1 DEF OneDiffers
<1>4. SumTo(year, YearDays) \in Int
  BY <1>1, <1>3, SumsDiffer
<1>5. ASSUME year < LastYear
      PROVE  SumTo(year + 1, YearDays) = SumTo(year, YearDays) + DaysOfYear(year)
  <2>1. SumTo(year + 1, YearDays) = SumTo(year, YearDays) + YearDays[year + 1]
    BY <1>1, SumSteps
  <2>2. year + 1 \in 1 .. LastYear /\ year + 1 - 1 = year
    BY <1>1, <1>5
  <2>3. YearDays[year + 1] = DaysOfYear(year)
    BY <2>2 DEF YearDays
  <2> QED BY <2>1, <2>3
<1> QED BY <1>2, <1>4, <1>5

\* The days before grow by one a day, from month to month.
LEMMA DaysAddUp ==
  ASSUME systemTime \in Times, systemTime' \in Times,
         systemTime.year \in YearMin .. YearMax, systemTime.month \in 1 .. LastMonth,
         systemTime.day <= GetDaysOfMonth(systemTime.year, systemTime.month)
  PROVE  /\ DaysBefore(systemTime) \in Int
         /\ DaySteps(systemTime, systemTime') =>
               DaysBefore(systemTime') = DaysBefore(systemTime) + 1
<1> DEFINE t == systemTime
           u == systemTime'
           months(n) == SumTo(n, MonthDays(t.year))
           years == SumTo(t.year, YearDays)
<1>1. /\ t.month \in 1 .. LastMonth /\ t.day \in 0 .. MaxDay /\ t.year \in 0 .. LastYear
      /\ t.year < LastYear /\ u.day \in 0 .. MaxDay
      /\ t.day <= GetDaysOfMonth(t.year, t.month)
  BY CalendarAssumption DEF Times
<1>2. LastMonth \in Nat /\ LastYear \in Nat /\ LastMonth >= 2 /\ MaxDay \in Nat
  BY CalendarAssumption DEF LastMonth
<1>3. t.month - 1 \in 0 .. LastMonth /\ t.month - 1 \in Nat /\ LastMonth \in 0 .. LastMonth
  BY <1>1, <1>2
<1>4. years \in Int /\ months(t.month - 1) \in Int
  BY <1>1, <1>3, MonthsAddUp, YearsAddUp
<1>5. months(t.month) = months(t.month - 1) + GetDaysOfMonth(t.year, t.month)
  <2>1. months(t.month - 1 + 1) = months(t.month - 1) + MonthDays(t.year)[t.month - 1 + 1]
    BY <1>3, SumSteps
  <2>2. t.month - 1 + 1 = t.month
    BY <1>1, <1>2
  <2>3. MonthDays(t.year)[t.month] = GetDaysOfMonth(t.year, t.month)
    BY <1>1 DEF MonthDays
  <2> QED BY <2>1, <2>2, <2>3
<1>6. GetDaysOfMonth(t.year, t.month) \in Int
  BY <1>1, MonthLength
<1>7. DaysBefore(t) = years + months(t.month - 1) + t.day - 1
  BY DEF DaysBefore
<1>8. ASSUME DaySteps(t, u) PROVE DaysBefore(u) = DaysBefore(t) + 1
  <2>1. CASE u = At(t.year, t.month, t.day + 1, 0, 0, 0)
    <3>1. u.year = t.year /\ u.month = t.month /\ u.day = t.day + 1
      BY <2>1 DEF At
    <3>2. DaysBefore(u) = years + months(t.month - 1) + (t.day + 1) - 1
      BY <3>1 DEF DaysBefore
    <3> HIDE DEF t, u, years, months
    <3> QED BY <1>1, <1>2, <1>4, <1>7, <3>2
  <2>2. CASE /\ ~(t.day < GetDaysOfMonth(t.year, t.month))
             /\ u = At(t.year, t.month + 1, 1, 0, 0, 0)
    <3>1. u.year = t.year /\ u.month = t.month + 1 /\ u.day = 1
      BY <2>2 DEF At
    <3>2. t.month + 1 - 1 = t.month
      BY <1>1, <1>2
    <3>3. DaysBefore(u) = years + months(t.month) + 1 - 1
      BY <3>1, <3>2 DEF DaysBefore
    <3>4. t.day = GetDaysOfMonth(t.year, t.month)
      BY <1>1, <1>2, <1>6, <2>2
    <3> HIDE DEF t, u, years, months
    <3> QED BY <1>1, <1>2, <1>4, <1>5, <1>6, <1>7, <3>3, <3>4
  <2> QED BY <1>8, <2>1, <2>2 DEF DaySteps
<1> QED BY <1>4, <1>7, <1>8, <1>1, <1>2

\* A minute, an hour and a day are what the unit below counts to.
LEMMA UnitsAddUp ==
  ASSUME NEW S \in Nat, NEW M \in Nat, NEW H \in Nat
  PROVE  /\ \A m \in Nat : (m + 1) * (S + 1) = m * (S + 1) + S + 1
         /\ \A h \in Nat : (h + 1) * (M + 1) * (S + 1)
                             = h * (M + 1) * (S + 1) + M * (S + 1) + S + 1
         /\ \A d, e \in Int : ((H + 1) * (M + 1) * (S + 1)) * (d + e)
                 = ((H + 1) * (M + 1) * (S + 1)) * d + ((H + 1) * (M + 1) * (S + 1)) * e
<1>1. \A m \in Nat : (m + 1) * (S + 1) = m * (S + 1) + S + 1
  OBVIOUS
<1>2. \A x, y, z \in Int : x * (y + z) = x * y + x * z /\ (y + z) * x = y * x + z * x
  OBVIOUS
<1>3. ASSUME NEW h \in Nat
      PROVE  (h + 1) * (M + 1) * (S + 1) = h * (M + 1) * (S + 1) + M * (S + 1) + S + 1
  <2>1. (h + 1) * (M + 1) = h * (M + 1) + 1 * (M + 1)
    BY <1>2
  <2>2. h * (M + 1) \in Int /\ 1 * (M + 1) = M + 1
    OBVIOUS
  <2>3. (h * (M + 1) + (M + 1)) * (S + 1) = h * (M + 1) * (S + 1) + (M + 1) * (S + 1)
    BY <1>2, <2>2
  <2>4. (M + 1) * (S + 1) = M * (S + 1) + S + 1
    BY <1>1
  <2>5. h * (M + 1) * (S + 1) \in Int /\ M * (S + 1) \in Int
    BY <2>2
  <2> QED BY <2>1, <2>2, <2>3, <2>4, <2>5
<1>4. (H + 1) * (M + 1) * (S + 1) \in Int
  <2>1. (H + 1) * (M + 1) \in Int
    OBVIOUS
  <2> QED BY <2>1
<1> QED BY <1>1, <1>2, <1>3, <1>4

SecondOfDay(t) == HoursToSeconds(t.hour) + t.minute * (MaxSecond + 1) + t.second

\* Within a day the seconds of the day step by one; the last of them is followed by 0.
LEMMA SecondsAddUp ==
  ASSUME systemTime \in Times, systemTime' \in Times
  PROVE  /\ SecondOfDay(systemTime) \in Int
         /\ SecondSteps(systemTime, systemTime') =>
               SecondOfDay(systemTime') = SecondOfDay(systemTime) + 1
         /\ MidnightPasses(systemTime) => SecondOfDay(systemTime) = DaySeconds - 1
         /\ systemTime'.hour = 0 /\ systemTime'.minute = 0 /\ systemTime'.second = 0 =>
               SecondOfDay(systemTime') = 0
<1> DEFINE t == systemTime
           u == systemTime'
           h == t.hour
           m == t.minute
           S == MaxSecond
           M == MaxMinute
           H == MaxHour
<1>1. h \in Nat /\ m \in Nat /\ t.second \in Nat
  BY CalendarAssumption DEF Times
<1>2. S \in Nat /\ M \in Nat /\ H \in Nat
  BY CalendarAssumption
<1>3. SecondOfDay(t) = h * (M + 1) * (S + 1) + m * (S + 1) + t.second
  BY DEF SecondOfDay, HoursToSeconds
<1>4. SecondOfDay(u) = u.hour * (M + 1) * (S + 1) + u.minute * (S + 1) + u.second
  BY DEF SecondOfDay, HoursToSeconds
<1>5. DaySeconds = (H + 1) * (M + 1) * (S + 1)
  BY DEF DaySeconds, HoursToSeconds
<1>9. h * (M + 1) * (S + 1) \in Int /\ m * (S + 1) \in Int /\ M * (S + 1) \in Int
  <2>1. h * (M + 1) \in Int
    BY <1>1, <1>2
  <2> QED BY <1>1, <1>2, <2>1
<1>6. ASSUME SecondSteps(t, u) PROVE SecondOfDay(u) = SecondOfDay(t) + 1
  <2>1. CASE u = At(t.year, t.month, t.day, t.hour, t.minute, t.second + 1)
    <3>1. u.hour = h /\ u.minute = m /\ u.second = t.second + 1
      BY <2>1 DEF At
    <3> HIDE DEF t, u, h, m
    <3> QED BY <1>1, <1>3, <1>4, <1>9, <3>1
  <2>2. CASE t.second = S /\ u = At(t.year, t.month, t.day, t.hour, t.minute + 1, 0)
    <3>1. u.hour = h /\ u.minute = m + 1 /\ u.second = 0
      BY <2>2 DEF At
    <3>2. (m + 1) * (S + 1) = m * (S + 1) + S + 1
      BY <1>1, <1>2, UnitsAddUp
    <3>3. t.second = S
      BY <2>2
    <3>4. SecondOfDay(u) = h * (M + 1) * (S + 1) + (m + 1) * (S + 1) + 0
      BY <1>4, <3>1
    <3> HIDE DEF t, u, h, m
    <3> QED BY <1>1, <1>2, <1>3, <1>9, <3>2, <3>3, <3>4
  <2>3. CASE t.second = S /\ t.minute = M /\ u = At(t.year, t.month, t.day, t.hour + 1, 0, 0)
    <3>1. u.hour = h + 1 /\ u.minute = 0 /\ u.second = 0
      BY <2>3 DEF At
    <3>2. (h + 1) * (M + 1) * (S + 1) = h * (M + 1) * (S + 1) + M * (S + 1) + S + 1
      BY <1>1, <1>2, UnitsAddUp
    <3>3. m = M /\ t.second = S /\ 0 * (S + 1) = 0
      BY <1>2, <2>3
    <3> HIDE DEF t, u, h, m
    <3> QED BY <1>1, <1>2, <1>3, <1>4, <1>9, <3>1, <3>2, <3>3
  <2> QED BY <1>6, <2>1, <2>2, <2>3 DEF SecondSteps
<1>7. ASSUME MidnightPasses(t) PROVE SecondOfDay(t) = DaySeconds - 1
  <2>1. h = H /\ m = M /\ t.second = S
    BY <1>7 DEF MidnightPasses
  <2>2. (H + 1) * (M + 1) * (S + 1) = H * (M + 1) * (S + 1) + M * (S + 1) + S + 1
    BY <1>2, UnitsAddUp
  <2>3. H * (M + 1) * (S + 1) \in Int
    BY <1>9, <2>1
  <2> HIDE DEF t, u, h, m
  <2> QED BY <1>1, <1>2, <1>3, <1>5, <1>9, <2>1, <2>2, <2>3
<1>8. ASSUME u.hour = 0, u.minute = 0, u.second = 0 PROVE SecondOfDay(u) = 0
  <2>1. 0 * (M + 1) * (S + 1) = 0 /\ 0 * (S + 1) = 0
    <3>1. 0 * (M + 1) = 0
      BY <1>2
    <3> QED BY <1>2, <3>1
  <2> QED BY <1>4, <1>8, <2>1
<1>10. SecondOfDay(t) \in Int
  BY <1>1, <1>3, <1>9
<1> QED BY <1>6, <1>7, <1>8, <1>10

\* Within a year a checked time lasts one second more after a step.
LEMMA StepIsOneSecond ==
  ASSUME systemTime \in Times, StepOneSecond,
         Calculated(systemTime, systemTime'), systemTime'.year = systemTime.year
  PROVE  Difference(systemTime, systemTime') = 1
<1> DEFINE t == systemTime
           u == systemTime'
           B == DaysBefore(t)
           C == DaysBefore(u)
           X == SecondOfDay(t)
           Y == SecondOfDay(u)
<1>1. systemTime' \in Times
  BY StepStaysInRange
<1>2. /\ t.year \in YearMin .. YearMax /\ t.month \in 1 .. LastMonth
      /\ t.day <= GetDaysOfMonth(t.year, t.month)
      /\ t.year \in 0 .. LastYear /\ t.year < LastYear
  BY CalendarAssumption DEF Calculated, CheckDateTime, DayExists, Times
<1>3. MaxSecond \in Nat /\ MaxMinute \in Nat /\ MaxHour \in Nat
  BY CalendarAssumption
<1>4. B \in Int /\ X \in Int
  BY <1>1, <1>2, DaysAddUp, SecondsAddUp
<1>5. DaySeconds = (MaxHour + 1) * (MaxMinute + 1) * (MaxSecond + 1) /\ DaySeconds \in Int
  <2>1. (MaxHour + 1) * (MaxMinute + 1) \in Int
    BY <1>3
  <2>2. (MaxHour + 1) * (MaxMinute + 1) * (MaxSecond + 1) \in Int
    BY <1>3, <2>1
  <2> QED BY <2>2 DEF DaySeconds, HoursToSeconds
<1>6. \A d, e \in Int : DaySeconds * (d + e) = DaySeconds * d + DaySeconds * e
  BY <1>3, <1>5, UnitsAddUp
<1>7. CalculateDateTimeSecond(t) = DaySeconds * B + X
  <2>1. CalculateDateTimeSecond(t)
          = DaySeconds * B + HoursToSeconds(t.hour) + t.minute * (MaxSecond + 1) + t.second
    BY DEF Calculated, CalculateDateTimeSecond, DaysBefore
  <2>2. t.hour \in Nat /\ t.minute \in Nat /\ t.second \in Nat
    BY <1>3 DEF Times
  <2>3. t.hour * (MaxMinute + 1) \in Int
    BY <1>3, <2>2
  <2>4. HoursToSeconds(t.hour) \in Int /\ t.minute * (MaxSecond + 1) \in Int
    BY <1>3, <2>2, <2>3 DEF HoursToSeconds
  <2>5. DaySeconds * B \in Int
    BY <1>4, <1>5
  <2>6. X = HoursToSeconds(t.hour) + t.minute * (MaxSecond + 1) + t.second
    BY DEF SecondOfDay
  <2>7. DaySeconds * B + HoursToSeconds(t.hour) + t.minute * (MaxSecond + 1) + t.second
          = DaySeconds * B + (HoursToSeconds(t.hour) + t.minute * (MaxSecond + 1) + t.second)
    <3> DEFINE d == DaySeconds * B
               n == HoursToSeconds(t.hour)
               o == t.minute * (MaxSecond + 1)
               r == t.second
    <3>1. d \in Int /\ n \in Int /\ o \in Int /\ r \in Int
      BY <2>2, <2>4, <2>5
    <3> HIDE DEF d, n, o, r
    <3>2. d + n + o + r = d + (n + o + r)
      BY <3>1
    <3> QED BY <3>2 DEF d, n, o, r
  <2> QED BY <2>1, <2>6, <2>7, Zenon
<1>8. C \in Int => CalculateDateTimeSecond(u) = DaySeconds * C + Y
  <2>0. SUFFICES ASSUME C \in Int PROVE CalculateDateTimeSecond(u) = DaySeconds * C + Y
    OBVIOUS
  <2>1. CalculateDateTimeSecond(u)
          = DaySeconds * C + HoursToSeconds(u.hour) + u.minute * (MaxSecond + 1) + u.second
    BY DEF Calculated, CalculateDateTimeSecond, DaysBefore
  <2>2. u.hour \in Nat /\ u.minute \in Nat /\ u.second \in Nat
    BY <1>1, <1>3 DEF Times
  <2>3. u.hour * (MaxMinute + 1) \in Int
    BY <1>3, <2>2
  <2>4. HoursToSeconds(u.hour) \in Int /\ u.minute * (MaxSecond + 1) \in Int
    BY <1>3, <2>2, <2>3 DEF HoursToSeconds
  <2>5. DaySeconds * C \in Int
    BY <2>0, <1>5
  <2>6. Y = HoursToSeconds(u.hour) + u.minute * (MaxSecond + 1) + u.second
    BY DEF SecondOfDay
  <2>7. DaySeconds * C + HoursToSeconds(u.hour) + u.minute * (MaxSecond + 1) + u.second
          = DaySeconds * C + (HoursToSeconds(u.hour) + u.minute * (MaxSecond + 1) + u.second)
    <3> DEFINE d == DaySeconds * C
               n == HoursToSeconds(u.hour)
               o == u.minute * (MaxSecond + 1)
               r == u.second
    <3>1. d \in Int /\ n \in Int /\ o \in Int /\ r \in Int
      BY <2>2, <2>4, <2>5
    <3> HIDE DEF d, n, o, r
    <3>2. d + n + o + r = d + (n + o + r)
      BY <3>1
    <3> QED BY <3>2 DEF d, n, o, r
  <2> QED BY <2>1, <2>6, <2>7, Zenon
<1>9. CASE SecondSteps(t, u)
  <2>1. u.year = t.year /\ u.month = t.month /\ u.day = t.day
    BY <1>9 DEF SecondSteps, At
  <2>2. C = B
    BY <2>1 DEF DaysBefore
  <2>3. Y = X + 1
    BY <1>1, <1>9, SecondsAddUp
  <2>4. DaySeconds * B \in Int
    BY <1>4, <1>5
  <2>5. CalculateDateTimeSecond(u) - CalculateDateTimeSecond(t) = 1
    <3> HIDE DEF t, u, B, C, X, Y
    <3> QED BY <1>4, <1>7, <1>8, <2>2, <2>3, <2>4
  <2> QED BY <2>5 DEF Difference
<1>10. CASE DaySteps(t, u)
  <2>1. u.year = t.year /\ u.hour = 0 /\ u.minute = 0 /\ u.second = 0
    BY <1>10 DEF DaySteps, At
  <2>2. C = B + 1
    BY <1>1, <1>2, <1>10, DaysAddUp
  <2>3. X = DaySeconds - 1 /\ Y = 0
    BY <1>1, <1>10, <2>1, SecondsAddUp DEF DaySteps
  <2>4. DaySeconds * B \in Int
    BY <1>4, <1>5
  <2>5. CalculateDateTimeSecond(u) - CalculateDateTimeSecond(t) = 1
    <3> HIDE DEF t, u, B, C, X, Y
    <3>1. DaySeconds * C = DaySeconds * B + DaySeconds
      <4>1. DaySeconds * (B + 1) = DaySeconds * B + DaySeconds * 1
        BY <1>4, <1>6
      <4> QED BY <1>5, <2>2, <4>1
    <3>2. C \in Int
      BY <1>4, <2>2
    <3> QED BY <1>4, <1>5, <1>7, <1>8, <2>3, <2>4, <3>1, <3>2
  <2> QED BY <2>5 DEF Difference
<1>11. CASE YearSteps(t, u)
  <2>1. u.year = t.year + 1
    BY <1>2, <1>11 DEF YearSteps, At
  <2> QED BY <1>2, <2>1
<1> QED BY <1>9, <1>10, <1>11, StepIs

\* The system time's fields stay in their ranges (DateTime.c, SysTime.c), whatever is
\* set and however the seconds roll over.
THEOREM CalendarTypeCorrect == MainLoopSpec => []CalendarTypeOK
<1>1. MainLoopInit => CalendarTypeOK
  <2>1. {MaxSecond, MaxMinute, MaxHour, MaxDay, LastYear, LastMonth} \subseteq Nat
    BY CalendarAssumption DEF LastMonth
  <2> QED BY <2>1 DEF MainLoopInit, CalendarInit, CalendarTypeOK
<1>2. CalendarTypeOK /\ [MainLoopNext]_mainLoopVars => CalendarTypeOK'
  <2>1. CASE CalendarTypeOK /\ RunCalendar
    BY <2>1, CalendarStaysInRange DEF RunCalendar, CalendarTypeOK, Times
  <2>2. CASE CalendarTypeOK /\ UNCHANGED calendarVars
    BY <2>2 DEF calendarVars, CalendarTypeOK
  <2>3. [MainLoopNext]_mainLoopVars => RunCalendar \/ UNCHANGED calendarVars
    BY DEF MainLoopNext, mainLoopVars, RunLinkedList, RunUserInterface, RunTerminal,
           RunCircularBuffer, RunGlobalVariables
  <2> QED BY <2>1, <2>2, <2>3
<1> QED BY <1>1, <1>2, PTL DEF MainLoopSpec

\* Within a year the difference of two times is the number of seconds the clock was stepped
\* between them, for units and months of any length (DateTime_CalculateDateTimeSecond and
\* DateTime_StepOneSecond): the clock and the calculation take the same lengths.  At the
\* turn of a year the calculation is wrong by a day, see DifferenceIsElapsed.
THEOREM CalendarCountsSeconds == MainLoopSpec => DifferenceWithinYear
<1>1. ASSUME CalendarTypeOK, StepOneSecond, Calculated(systemTime, systemTime'),
             systemTime'.year = systemTime.year
      PROVE  Difference(systemTime, systemTime') = 1
  <2>1. systemTime \in Times
    BY <1>1 DEF CalendarTypeOK, Times
  <2> QED BY <1>1, <2>1, StepIsOneSecond
<1> QED BY <1>1, CalendarTypeCorrect, PTL DEF DifferenceWithinYear

-----------------------------------------------------------------------------
(* The terminal is a line editor.                                          *)

\* The numbers up to twice the size wrap once.
LEMMA Wraps ==
  ASSUME NEW n \in Nat \ {0}, NEW x \in Int
  PROVE  /\ x \in 0 .. n - 1 => x % n = x
         /\ x \in n .. 2 * n - 1 => x % n = x - n
         /\ x \in -n .. -1 => x % n = x + n
<1> DEFINE q == x \div n
           r == x % n
<1>1. q \in Int /\ r \in 0 .. n - 1 /\ x = n * q + r /\ n * q \in Int
  OBVIOUS
<1> HIDE DEF q, r
<1>2. ASSUME NEW p \in Int PROVE n * p \in Int /\ n * (p + 1) = n * p + n
  OBVIOUS
<1>3. ASSUME NEW p \in Nat PROVE n * p >= 0
  OBVIOUS
<1>4. n * 0 = 0 /\ n * 1 = n /\ n * (-1) = -n
  OBVIOUS
<1>5. q >= 1 => n * q >= n
  <2>1. q >= 1 => q - 1 \in Nat /\ q - 1 + 1 = q
    BY <1>1
  <2> QED BY <1>2, <1>3, <2>1
<1>6. q >= 2 => n * q >= n + n
  <2>1. q >= 2 => q - 2 \in Nat /\ q - 2 + 1 = q - 1 /\ q - 1 + 1 = q /\ q - 1 \in Int /\ q - 2 \in Int
    BY <1>1
  <2> QED BY <1>2, <1>3, <2>1
<1>7. ASSUME NEW p \in Nat PROVE n * (-p) <= 0
  OBVIOUS
<1>8. q <= -1 => n * q <= -n
  <2>1. q <= -1 => -(q + 1) \in Nat /\ -(-(q + 1)) = q + 1
    BY <1>1
  <2>2. q <= -1 => n * (q + 1) <= 0
    BY <1>7, <2>1
  <2> QED BY <1>1, <1>2, <2>2
<1>9. q <= -2 => n * q <= -n - n
  <2>1. q <= -2 => -(q + 2) \in Nat /\ -(-(q + 2)) = q + 2
    BY <1>1
  <2>2. q <= -2 => n * (q + 2) <= 0
    BY <1>7, <2>1
  <2>3. n * (q + 1) = n * q + n /\ n * (q + 1 + 1) = n * (q + 1) + n /\ q + 1 + 1 = q + 2
    BY <1>1, <1>2
  <2> QED BY <1>1, <1>2, <2>2, <2>3
<1>10. ASSUME x \in 0 .. n - 1 PROVE r = x
  <2>1. q = 0
    BY <1>1, <1>5, <1>8, <1>10
  <2> QED BY <1>1, <1>4, <2>1, <1>10
<1>11. ASSUME x \in n .. 2 * n - 1 PROVE r = x - n
  <2>1. q = 1
    <3>1. ~(q >= 2)
      BY <1>1, <1>6, <1>11
    <3>2. ~(q <= -1)
      BY <1>1, <1>8, <1>11
    <3>3. q # 0
      BY <1>1, <1>4, <1>11
    <3> QED BY <1>1, <3>1, <3>2, <3>3
  <2> QED BY <1>1, <1>4, <2>1, <1>11
<1>12. ASSUME x \in -n .. -1 PROVE r = x + n
  <2>1. q = -1
    <3>1. ~(q <= -2)
      BY <1>1, <1>9, <1>12
    <3>2. ~(q >= 1)
      BY <1>1, <1>5, <1>12
    <3>3. q # 0
      BY <1>1, <1>4, <1>12
    <3> QED BY <1>1, <3>1, <3>2, <3>3
  <2> QED BY <1>1, <1>4, <2>1, <1>12
<1> QED BY <1>10, <1>11, <1>12 DEF r

InsertedInto(r, q, n, j, e) ==
    r = [k \in 1 .. n + 1 |-> IF k < j THEN q[k] ELSE IF k = j THEN e ELSE q[k - 1]]

LEMMA InsertedElement ==
  ASSUME NEW S, NEW n \in Nat, NEW q, q \in [1 .. n -> S], NEW j \in 1 .. n + 1, NEW e \in S
  PROVE  InsertedInto(InsertAt(q, j, e), q, n, j, e)
<1> DEFINE a == SubSeq(q, 1, j - 1)
           b == SubSeq(q, j, n)
           r == [k \in 1 .. n + 1 |-> IF k < j THEN q[k] ELSE IF k = j THEN e ELSE q[k - 1]]
<1>1. n + 1 \in Nat /\ j \in Nat /\ j \in Int /\ j - 1 \in Int /\ 1 \in Int /\ n \in Int
      /\ Len(q) = n
  OBVIOUS
<1>2. /\ a \in Seq(S) /\ Len(a) = j - 1
      /\ \A i \in 1 .. j - 1 : a[i] = q[i]
  <2>1. \A i \in 1 .. j - 1 : q[i] \in S
    BY <1>1
  <2>2. /\ a \in Seq(S) /\ Len(a) = IF 1 <= j - 1 THEN j - 1 - 1 + 1 ELSE 0
        /\ \A i \in 1 .. j - 1 - 1 + 1 : a[i] = q[1 + i - 1]
    <3> HIDE DEF a
    <3>1. a = SubSeq(q, 1, j - 1)
      BY DEF a
    <3> QED BY <1>1, <2>1, <3>1, SubSeqProperties
  <2> HIDE DEF a
  <2> QED BY <1>1, <2>2
<1>3. /\ b \in Seq(S) /\ Len(b) = n - j + 1
      /\ \A i \in 1 .. n - j + 1 : b[i] = q[i + j - 1]
  <2>1. \A i \in j .. n : q[i] \in S
    BY <1>1
  <2>2. /\ b \in Seq(S) /\ Len(b) = IF j <= n THEN n - j + 1 ELSE 0
        /\ \A i \in 1 .. n - j + 1 : b[i] = q[j + i - 1]
    <3> HIDE DEF b
    <3>1. b = SubSeq(q, j, n)
      BY DEF b
    <3> QED BY <1>1, <2>1, <3>1, SubSeqProperties
  <2> HIDE DEF b
  <2> QED BY <1>1, <2>2
<1>4. r \in Seq(S) /\ Len(r) = n + 1 /\ r \in [1 .. n + 1 -> S]
  <2>1. \A k \in 1 .. n + 1 : (k < j => k \in 1 .. n) /\ (~(k < j) /\ k # j => k - 1 \in 1 .. n)
    BY <1>1
  <2>2. r \in [1 .. n + 1 -> S]
    BY <2>1
  <2> HIDE DEF r
  <2>3. r \in Seq(S) /\ Len(r) = n + 1
    BY <1>1, <2>2
  <2> QED BY <2>2, <2>3
<1> HIDE DEF a, b
<1> DEFINE c == a \o <<e>>
<1>5. /\ c \in Seq(S) /\ Len(c) = j
      /\ \A i \in 1 .. j : c[i] = IF i <= j - 1 THEN a[i] ELSE e
  <2>1. <<e>> \in Seq(S) /\ Len(<<e>>) = 1 /\ <<e>>[1] = e
    OBVIOUS
  <2>2. /\ c \in Seq(S) /\ Len(c) = Len(a) + 1
        /\ \A i \in 1 .. Len(a) + 1 : c[i] = IF i <= Len(a) THEN a[i] ELSE <<e>>[i - Len(a)]
    <3> DEFINE one == <<e>>
    <3>1. one \in Seq(S) /\ Len(one) = 1
      BY <2>1
    <3> HIDE DEF one
    <3>2. /\ a \o one \in Seq(S) /\ Len(a \o one) = Len(a) + Len(one)
          /\ \A i \in 1 .. Len(a) + Len(one) :
               (a \o one)[i] = IF i <= Len(a) THEN a[i] ELSE one[i - Len(a)]
      BY <1>2, <3>1, ConcatProperties
    <3> QED BY <3>1, <3>2 DEF one
  <2> HIDE DEF c
  <2>3. ASSUME NEW i \in 1 .. j PROVE c[i] = IF i <= j - 1 THEN a[i] ELSE e
    <3>1. CASE i <= j - 1
      BY <1>1, <1>2, <2>2, <3>1
    <3>2. CASE ~(i <= j - 1)
      <4>1. i - Len(a) = 1 /\ i \in 1 .. Len(a) + 1 /\ ~(i <= Len(a))
        BY <1>1, <1>2, <3>2
      <4> QED BY <2>1, <2>2, <3>2, <4>1
    <3> QED BY <3>1, <3>2
  <2> QED BY <1>1, <1>2, <2>2, <2>3
<1> HIDE DEF c
<1>6. /\ c \o b \in Seq(S) /\ Len(c \o b) = n + 1
      /\ \A i \in 1 .. n + 1 : (c \o b)[i] = IF i <= j THEN c[i] ELSE b[i - j]
  <2>1. /\ c \o b \in Seq(S) /\ Len(c \o b) = Len(c) + Len(b)
        /\ \A i \in 1 .. Len(c) + Len(b) :
             (c \o b)[i] = IF i <= Len(c) THEN c[i] ELSE b[i - Len(c)]
    BY <1>3, <1>5, ConcatProperties
  <2>2. Len(c) + Len(b) = n + 1
    BY <1>1, <1>3, <1>5
  <2> QED BY <1>5, <2>1, <2>2
<1>7. ASSUME NEW i \in 1 .. n + 1 PROVE (c \o b)[i] = r[i]
  <2>1. CASE i < j
    <3>1. i \in 1 .. j /\ i \in 1 .. j - 1 /\ i <= j /\ i <= j - 1
      BY <1>1, <2>1
    <3> QED BY <1>2, <1>5, <1>6, <2>1, <3>1
  <2>2. CASE i = j
    <3>1. i \in 1 .. j /\ i <= j /\ ~(i <= j - 1) /\ ~(i < j)
      BY <1>1, <2>2
    <3> QED BY <1>5, <1>6, <2>2, <3>1
  <2>3. CASE ~(i < j) /\ i # j
    <3>1. i - j \in 1 .. n - j + 1 /\ ~(i <= j) /\ i - j + j - 1 = i - 1
      BY <1>1, <2>3
    <3> QED BY <1>3, <1>6, <2>3, <3>1
  <2> QED BY <2>1, <2>2, <2>3
<1> HIDE DEF r
<1>8. c \o b = r
  BY <1>4, <1>6, <1>7, SeqEqual
<1>9. InsertAt(q, j, e) = r
  BY <1>1, <1>8 DEF InsertAt, a, b, c
<1> QED BY <1>9 DEF r, InsertedInto

AllFlags == KeyFlags \cup {"NotLastChar"}

Edited(st) ==
    /\ st.line \in [Cells -> Letters \cup {EndOfString}]
    /\ st.length \in 0 .. MaxLength /\ st.cursor \in 0 .. st.length
    /\ \A i \in 0 .. st.length - 1 : st.line[i] \in Letters

\* A state of the loop: Enter is the only flag after an event only in the turn
\* that received it, and then the line has just been terminated.
Flagged(st) ==
    /\ st.flags \subseteq AllFlags /\ st.escape \in 0 .. 4
    /\ st.event \in BOOLEAN /\ st.returned \in BOOLEAN
    /\ st.event => st.flags # {}
    /\ st.event /\ ~st.returned => "NotLastChar" \in st.flags
    /\ st.event /\ st.flags = {"Enter"} => st.length \in Cells /\ st.line[st.length] = EndOfString
StateOK(st) == IsState(st) /\ Edited(st) /\ Flagged(st)

LettersOf(st) == [k \in 1 .. st.length |-> st.line[k - 1]]
History == [k \in 1 .. HistorySize |-> historyList[(saveCnt + k) % HistorySize]]
Recall == IF loadCnt = saveCnt THEN HistorySize ELSE (loadCnt - saveCnt) % HistorySize
LineOf(st) ==
    [text |-> LettersOf(st), cursor |-> st.cursor, history |-> History, recall |-> Recall]

\* The keys that flags say, with the last byte of a sequence.
WaitsFor(flags, byte) ==
    (flags \ {"NotLastChar", "EscapeSequence"})
      \cup IF "EscapeSequence" \in flags /\ byte \in Arrows THEN {ArrowName[byte]} ELSE {}
Waits(st) == WaitsFor(st.flags, st.actualEscape)

ForgottenSets == {{}, Editor!CursorKeys}
TypedSets == {{}} \cup {{key} : key \in Editor!EditKeys}

\* What a key, or a part of one, makes of the loop's state: the line stays, a key
\* is added, and a cursor key that waited may be forgotten.
KeyTyped(s, t, forgotten, keysTyped) ==
    /\ StateOK(t) /\ t.length = s.length /\ t.cursor = s.cursor /\ LettersOf(t) = LettersOf(s)
    /\ Waits(t) = (Waits(s) \ forgotten) \cup keysTyped

Outcome(s, t) ==
    \E forgotten \in ForgottenSets : \E keysTyped \in TypedSets : KeyTyped(s, t, forgotten, keysTyped)
Quiet(s, t) ==
    ~t.returned /\ \E forgotten \in ForgottenSets : KeyTyped(s, t, forgotten, {})

LEMMA TerminalConstants ==
  /\ MaxLength \in Nat /\ MaxLength >= 2 /\ HistorySize \in Nat /\ HistorySize >= 1
  /\ Cells = 0 .. MaxLength - 1 /\ Entries = 0 .. HistorySize - 1
  /\ EndOfString \notin Letters /\ ESC \notin Letters
  /\ \A key \in Keys : key \notin Letters
BY TerminalAssumption DEF Cells, Entries

LEMMA QuietThenOutcome ==
  ASSUME NEW s, NEW t, NEW u, Quiet(s, t), Outcome(t, u)
  PROVE  Outcome(s, u)
<1>1. PICK f1 \in ForgottenSets : KeyTyped(s, t, f1, {})
  BY DEF Quiet
<1>2. PICK f2 \in ForgottenSets, keysTyped \in TypedSets : KeyTyped(t, u, f2, keysTyped)
  BY DEF Outcome
<1>3. f1 \cup f2 \in ForgottenSets
  BY DEF ForgottenSets
<1>4. Waits(u) = (((Waits(s) \ f1) \cup {}) \ f2) \cup keysTyped
  BY <1>1, <1>2 DEF KeyTyped
<1>5. Waits(u) = (Waits(s) \ (f1 \cup f2)) \cup keysTyped
  BY <1>4
<1>6. KeyTyped(s, u, f1 \cup f2, keysTyped)
  <2>1. /\ StateOK(u) /\ u.length = t.length /\ u.cursor = t.cursor /\ LettersOf(u) = LettersOf(t)
        /\ t.length = s.length /\ t.cursor = s.cursor /\ LettersOf(t) = LettersOf(s)
    BY <1>1, <1>2, Zenon DEF KeyTyped
  <2> QED BY <1>5, <2>1, Zenon DEF KeyTyped
<1> QED BY <1>3, <1>6 DEF Outcome

LEMMA QuietTwice ==
  ASSUME NEW s, NEW t, NEW u, Quiet(s, t), Quiet(t, u)
  PROVE  Quiet(s, u)
<1>1. PICK f1 \in ForgottenSets : KeyTyped(s, t, f1, {})
  BY DEF Quiet
<1>2. PICK f2 \in ForgottenSets : KeyTyped(t, u, f2, {})
  BY DEF Quiet
<1>3. f1 \cup f2 \in ForgottenSets
  BY DEF ForgottenSets
<1>4. Waits(u) = (((Waits(s) \ f1) \cup {}) \ f2) \cup {}
  BY <1>1, <1>2 DEF KeyTyped
<1>5. Waits(u) = (Waits(s) \ (f1 \cup f2)) \cup {}
  BY <1>4
<1>6. KeyTyped(s, u, f1 \cup f2, {})
  <2>1. /\ StateOK(u) /\ u.length = t.length /\ u.cursor = t.cursor /\ LettersOf(u) = LettersOf(t)
        /\ t.length = s.length /\ t.cursor = s.cursor /\ LettersOf(t) = LettersOf(s)
    BY <1>1, <1>2, Zenon DEF KeyTyped
  <2> QED BY <1>5, <2>1, Zenon DEF KeyTyped
<1>7. ~u.returned
  BY DEF Quiet
<1> QED BY <1>3, <1>6, <1>7 DEF Quiet

LEMMA QuietIsOutcome ==
  ASSUME NEW s, NEW t, Quiet(s, t)
  PROVE  Outcome(s, t) /\ StateOK(t)
<1>1. {} \in TypedSets
  BY DEF TypedSets
<1> QED BY <1>1 DEF Quiet, Outcome, KeyTyped

\* A state that differs in the escape sequence only.
LEMMA OnlyEscape ==
  ASSUME NEW s, StateOK(s), ~s.returned, NEW e \in 0 .. 4, NEW t,
         IsState(t), t.line = s.line, t.length = s.length, t.cursor = s.cursor,
         t.flags = s.flags, t.event = s.event, t.returned = s.returned, t.escape = e,
         t.actualEscape = s.actualEscape \/ t.actualEscape \notin Arrows
  PROVE  Quiet(s, t)
<1>1. LettersOf(t) = LettersOf(s)
  BY DEF LettersOf
<1>2. StateOK(t)
  <2>1. Edited(t)
    BY Zenon DEF StateOK, Edited
  <2>2. Flagged(t)
    BY DEF StateOK, Flagged
  <2> QED BY <2>1, <2>2 DEF StateOK
<1>3. CASE t.actualEscape = s.actualEscape
  <2>1. Waits(t) = (Waits(s) \ {}) \cup {}
    BY <1>3 DEF Waits, WaitsFor
  <2>2. KeyTyped(s, t, {}, {})
    BY <1>1, <1>2, <2>1 DEF KeyTyped
  <2> QED BY <2>2 DEF Quiet, ForgottenSets
<1>4. CASE t.actualEscape \notin Arrows
  <2>1. /\ \A key \in KeyFlags \ {"EscapeSequence"} : key \notin Editor!CursorKeys
        /\ \A byte \in Arrows : ArrowName[byte] \in Editor!CursorKeys
    BY DEF KeyFlags, Editor!CursorKeys, Arrows, ArrowName
  <2>2. s.flags \ {"NotLastChar", "EscapeSequence"} \subseteq KeyFlags \ {"EscapeSequence"}
    BY DEF StateOK, Flagged, AllFlags
  <2>3. Waits(t) = s.flags \ {"NotLastChar", "EscapeSequence"}
    BY <1>4 DEF Waits, WaitsFor
  <2>4. Waits(s) \ Editor!CursorKeys = s.flags \ {"NotLastChar", "EscapeSequence"}
    BY <2>1, <2>2 DEF Waits, WaitsFor
  <2>5. KeyTyped(s, t, Editor!CursorKeys, {})
    BY <1>1, <1>2, <2>3, <2>4 DEF KeyTyped
  <2> QED BY <2>5 DEF Quiet, ForgottenSets
<1> QED BY <1>3, <1>4

\* A key is received on a state that has the same line.
KeyFlagSet(s, t, key) ==
    /\ IsState(t) /\ Edited(t) /\ t.length = s.length /\ t.cursor = s.cursor
    /\ LettersOf(t) = LettersOf(s) /\ t.flags = s.flags \cup {key}
    /\ t.event = TRUE /\ t.returned = TRUE /\ t.escape \in 0 .. 4
    /\ key = "Enter" => t.length \in Cells /\ t.line[t.length] = EndOfString
    /\ key = "EscapeSequence" \/ t.actualEscape = s.actualEscape \/ t.actualEscape \notin Arrows

LEMMA KeyReceived ==
  ASSUME NEW s, StateOK(s), ~s.returned, NEW key \in KeyFlags, NEW t, KeyFlagSet(s, t, key)
  PROVE  Outcome(s, t)
<1>0. /\ IsState(t) /\ Edited(t) /\ t.length = s.length /\ t.cursor = s.cursor
      /\ LettersOf(t) = LettersOf(s) /\ t.flags = s.flags \cup {key}
      /\ t.event = TRUE /\ t.returned = TRUE /\ t.escape \in 0 .. 4
      /\ key = "Enter" => t.length \in Cells /\ t.line[t.length] = EndOfString
      /\ key = "EscapeSequence" \/ t.actualEscape = s.actualEscape \/ t.actualEscape \notin Arrows
  BY DEF KeyFlagSet
<1>1. StateOK(t)
  <2>1. t.flags \subseteq AllFlags
    BY <1>0 DEF StateOK, Flagged, AllFlags
  <2>2. t.flags = {"Enter"} => key = "Enter"
    BY <1>0
  <2>3. Flagged(t)
    BY <1>0, <2>1, <2>2 DEF Flagged
  <2> QED BY <1>0, <2>3 DEF StateOK
<1>2. /\ \A k1 \in KeyFlags \ {"EscapeSequence"} : k1 \notin Editor!CursorKeys /\ k1 \in Editor!EditKeys
      /\ \A byte \in Arrows : /\ ArrowName[byte] \in Editor!CursorKeys
                              /\ ArrowName[byte] \in Editor!EditKeys
  BY DEF KeyFlags, Editor!CursorKeys, Editor!EditKeys, Arrows, ArrowName
<1> DEFINE plain == s.flags \ {"NotLastChar", "EscapeSequence"}
<1>3. plain \subseteq KeyFlags \ {"EscapeSequence"}
  BY DEF StateOK, Flagged, AllFlags
<1>4. Waits(s) \ Editor!CursorKeys = plain
  BY <1>2, <1>3 DEF Waits, WaitsFor
<1>5. key # "NotLastChar"
  BY DEF KeyFlags
<1>6. CASE key = "EscapeSequence"
  <2> DEFINE keysTyped == IF t.actualEscape \in Arrows THEN {ArrowName[t.actualEscape]} ELSE {}
  <2>1. Waits(t) = plain \cup keysTyped
    BY <1>0, <1>6 DEF Waits, WaitsFor
  <2>2. keysTyped \in TypedSets
    BY <1>2 DEF TypedSets
  <2> HIDE DEF keysTyped, plain
  <2>3. KeyTyped(s, t, Editor!CursorKeys, keysTyped)
    BY <1>0, <1>1, <1>4, <2>1 DEF KeyTyped
  <2> QED BY <2>2, <2>3 DEF Outcome, ForgottenSets
<1>7. CASE key # "EscapeSequence" /\ t.actualEscape = s.actualEscape
  <2>1. Waits(t) = (Waits(s) \ {}) \cup {key}
    BY <1>0, <1>5, <1>7 DEF Waits, WaitsFor
  <2>2. {key} \in TypedSets
    BY <1>2, <1>7 DEF TypedSets
  <2>3. KeyTyped(s, t, {}, {key})
    BY <1>0, <1>1, <2>1 DEF KeyTyped
  <2> QED BY <2>2, <2>3 DEF Outcome, ForgottenSets
<1>8. CASE key # "EscapeSequence" /\ t.actualEscape \notin Arrows
  <2>1. Waits(t) = plain \cup {key}
    BY <1>0, <1>5, <1>8 DEF Waits, WaitsFor
  <2>2. {key} \in TypedSets
    BY <1>2, <1>8 DEF TypedSets
  <2> HIDE DEF plain
  <2>3. KeyTyped(s, t, Editor!CursorKeys, {key})
    BY <1>0, <1>1, <1>4, <2>1 DEF KeyTyped
  <2> QED BY <2>2, <2>3 DEF Outcome, ForgottenSets
<1> QED BY <1>0, <1>6, <1>7, <1>8

LEMMA EscapeOutcome ==
  ASSUME NEW s, StateOK(s), ~s.returned, s.escape # 0, NEW c
  PROVE  /\ Outcome(s, ReceiveChar(s, c))
         /\ ReceiveChar(s, c).returned \/ Quiet(s, ReceiveChar(s, c))
         /\ s.escape = 1 /\ c = "[" => /\ Quiet(s, ReceiveChar(s, c))
                                       /\ ReceiveChar(s, c).escape = 2
         /\ s.escape = 2 /\ c = "3" => /\ Quiet(s, ReceiveChar(s, c))
                                       /\ ReceiveChar(s, c).escape = 3
         /\ s.escape = 2 /\ c # "3" => ReceiveChar(s, c).returned
         /\ s.escape = 3 /\ c = "~" => ReceiveChar(s, c).returned
         /\ c = "[" /\ ~ReceiveChar(s, c).returned => ReceiveChar(s, c).escape # 0
<1> DEFINE t == ReceiveChar(s, c)
<1>1. IsState(s) /\ s.escape \in 0 .. 4
  BY DEF StateOK, Flagged
<1>2. t = ReceiveEscape(s, c)
  BY DEF ReceiveChar
<1> HIDE DEF t
<1>3. CASE s.escape = 2 /\ c # "3"
  <2> DEFINE s0 == [s EXCEPT !.escape = 0, !.actualEscape = c]
  <2>1. t = ReceiveKey(s0, "EscapeSequence")
    BY <1>2, <1>3 DEF ReceiveEscape
  <2>2. /\ IsState(s0) /\ s0.line = s.line /\ s0.length = s.length /\ s0.cursor = s.cursor
        /\ s0.flags = s.flags /\ s0.escape = 0
    BY <1>1 DEF IsState, Fields
  <2> HIDE DEF s0
  <2>3. /\ IsState(t) /\ t.line = s.line /\ t.length = s.length /\ t.cursor = s.cursor
        /\ t.flags = s.flags \cup {"EscapeSequence"} /\ t.event = TRUE /\ t.returned = TRUE
        /\ t.escape = 0
    BY <2>1, <2>2 DEF ReceiveKey, IsState, Fields
  <2>4. Edited(t) /\ LettersOf(t) = LettersOf(s)
    BY <2>3, Zenon DEF StateOK, Edited, LettersOf
  <2>5. "EscapeSequence" \in KeyFlags /\ "EscapeSequence" # "Enter"
    BY DEF KeyFlags
  <2>6. KeyFlagSet(s, t, "EscapeSequence")
    BY <2>3, <2>4, <2>5 DEF KeyFlagSet
  <2>7. Outcome(s, t)
    BY <2>5, <2>6, KeyReceived
  <2> QED BY <1>3, <2>3, <2>7 DEF t
<1>4. CASE s.escape = 3 /\ c = "~"
  <2> DEFINE s0 == [s EXCEPT !.escape = 0]
  <2>1. t = ReceiveKey(s0, "Delete")
    BY <1>2, <1>4 DEF ReceiveEscape
  <2>2. /\ IsState(s0) /\ s0.line = s.line /\ s0.length = s.length /\ s0.cursor = s.cursor
        /\ s0.flags = s.flags /\ s0.escape = 0 /\ s0.actualEscape = s.actualEscape
    BY <1>1 DEF IsState, Fields
  <2> HIDE DEF s0
  <2>3. /\ IsState(t) /\ t.line = s.line /\ t.length = s.length /\ t.cursor = s.cursor
        /\ t.flags = s.flags \cup {"Delete"} /\ t.event = TRUE /\ t.returned = TRUE
        /\ t.escape = 0 /\ t.actualEscape = s.actualEscape
    BY <2>1, <2>2 DEF ReceiveKey, IsState, Fields
  <2>4. Edited(t) /\ LettersOf(t) = LettersOf(s)
    BY <2>3, Zenon DEF StateOK, Edited, LettersOf
  <2>5. "Delete" \in KeyFlags /\ "Delete" # "Enter"
    BY DEF KeyFlags
  <2>6. KeyFlagSet(s, t, "Delete")
    BY <2>3, <2>4, <2>5 DEF KeyFlagSet
  <2>7. Outcome(s, t)
    BY <2>5, <2>6, KeyReceived
  <2> QED BY <1>4, <2>3, <2>7 DEF t
<1>5. CASE ~(s.escape = 2 /\ c # "3") /\ ~(s.escape = 3 /\ c = "~")
  <2>1. \E e \in 0 .. 4, byte \in {"3", s.actualEscape} :
            /\ t = [s EXCEPT !.escape = e, !.actualEscape = byte]
            /\ s.escape = 1 /\ c = "[" => e = 2
            /\ s.escape = 2 /\ c = "3" => e = 3
            /\ c = "[" => e # 0
    <3>1. s = [s EXCEPT !.escape = s.escape, !.actualEscape = s.actualEscape]
          /\ \A e : [s EXCEPT !.escape = e] = [s EXCEPT !.escape = e, !.actualEscape = s.actualEscape]
      BY <1>1 DEF IsState, Fields
    <3>2. CASE s.escape = 1
      <4>1. t = [s EXCEPT !.escape = IF c = "[" THEN 2 ELSE 0]
        BY <1>2, <3>2 DEF ReceiveEscape
      <4>2. t = [s EXCEPT !.escape = IF c = "[" THEN 2 ELSE 0, !.actualEscape = s.actualEscape]
        BY <3>1, <4>1
      <4>3. CASE c = "["
        <5>1. t = [s EXCEPT !.escape = 2, !.actualEscape = s.actualEscape]
          BY <4>2, <4>3
        <5> QED BY <3>2, <5>1
      <4>4. CASE c # "["
        <5>1. t = [s EXCEPT !.escape = 0, !.actualEscape = s.actualEscape]
          BY <4>2, <4>4
        <5> QED BY <3>2, <4>4, <5>1
      <4> QED BY <4>3, <4>4
    <3>3. CASE s.escape = 2 /\ c = "3"
      <4>1. t = [s EXCEPT !.escape = 3, !.actualEscape = "3"]
        BY <1>2, <3>3 DEF ReceiveEscape
      <4> QED BY <3>3, <4>1
    <3>4. CASE s.escape = 3 /\ c # "~"
      <4>1. t = [s EXCEPT !.escape = 4]
        BY <1>2, <3>4 DEF ReceiveEscape
      <4>2. t = [s EXCEPT !.escape = 4, !.actualEscape = s.actualEscape]
        BY <3>1, <4>1
      <4> QED BY <3>4, <4>2
    <3>5. CASE s.escape \notin {1, 2, 3}
      <4>1. t = s
        BY <1>2, <3>5 DEF ReceiveEscape
      <4> QED BY <1>1, <3>1, <3>5, <4>1
    <3> QED BY <1>5, <3>2, <3>3, <3>4, <3>5
  <2>2. PICK e \in 0 .. 4, byte \in {"3", s.actualEscape} :
            /\ t = [s EXCEPT !.escape = e, !.actualEscape = byte]
            /\ s.escape = 1 /\ c = "[" => e = 2
            /\ s.escape = 2 /\ c = "3" => e = 3
            /\ c = "[" => e # 0
    BY <2>1
  <2>3. /\ IsState(t) /\ t.line = s.line /\ t.length = s.length /\ t.cursor = s.cursor
        /\ t.flags = s.flags /\ t.event = s.event /\ t.returned = s.returned /\ t.escape = e
        /\ t.actualEscape = byte
    BY <1>1, <2>2 DEF IsState, Fields
  <2>4. "3" \notin Arrows
    BY DEF Arrows
  <2>5. Quiet(s, t)
    BY <2>3, <2>4, OnlyEscape
  <2>6. Outcome(s, t)
    BY <2>5, QuietIsOutcome
  <2> QED BY <1>5, <2>2, <2>3, <2>5, <2>6 DEF t
<1> QED BY <1>3, <1>4, <1>5

LEMMA KeyOutcome ==
  ASSUME NEW s, StateOK(s), ~s.returned, s.escape = 0, NEW c \in Keys, ~WritesBehind(s, c)
  PROVE  Outcome(s, ReceiveChar(s, c)) /\ ReceiveChar(s, c).returned
<1> DEFINE t == ReceiveChar(s, c)
<1>1. IsState(s) /\ c \in KeyFlags /\ c # ESC /\ c # "EscapeSequence"
  BY DEF StateOK, Keys, KeyFlags, ESC
<1> DEFINE s0 == IF c = "Enter" THEN [s EXCEPT !.line[s.length] = EndOfString] ELSE s
<1>2. t = ReceiveKey(s0, c)
  BY <1>1 DEF ReceiveChar
<1> HIDE DEF t
<1>3. /\ IsState(s0) /\ s0.length = s.length /\ s0.cursor = s.cursor
      /\ s0.flags = s.flags /\ s0.escape = 0 /\ s0.actualEscape = s.actualEscape
      /\ s0.line = IF c = "Enter" THEN [s.line EXCEPT ![s.length] = EndOfString] ELSE s.line
  BY <1>1 DEF IsState, Fields
<1> HIDE DEF s0
<1>4. /\ IsState(t) /\ t.line = s0.line /\ t.length = s.length /\ t.cursor = s.cursor
      /\ t.flags = s.flags \cup {c} /\ t.event = TRUE /\ t.returned = TRUE
      /\ t.escape = 0 /\ t.actualEscape = s.actualEscape
  BY <1>2, <1>3 DEF ReceiveKey, IsState, Fields
<1>5. /\ s.line \in [Cells -> Letters \cup {EndOfString}] /\ s.length \in 0 .. MaxLength
      /\ s.cursor \in 0 .. s.length /\ \A i \in 0 .. s.length - 1 : s.line[i] \in Letters
      /\ s.length \in Nat /\ (c = "Enter" => s.length \in Cells)
  <2>1. c = "Enter" => s.length # MaxLength
    BY DEF WritesBehind
  <2> QED BY <2>1, TerminalConstants DEF StateOK, Edited
<1>6. /\ t.line \in [Cells -> Letters \cup {EndOfString}]
      /\ \A i \in 0 .. s.length - 1 : t.line[i] = s.line[i]
      /\ c = "Enter" => t.length \in Cells /\ t.line[t.length] = EndOfString
  <2>1. \A i \in 0 .. s.length - 1 : i # s.length /\ i \in Cells
    BY <1>5, TerminalConstants
  <2> QED BY <1>3, <1>4, <1>5, <2>1
<1>7. Edited(t)
  BY <1>4, <1>5, <1>6 DEF Edited
<1>8. LettersOf(t) = LettersOf(s)
  <2>1. \A k \in 1 .. s.length : k - 1 \in 0 .. s.length - 1
    BY <1>5
  <2> QED BY <1>4, <1>6, <2>1 DEF LettersOf
<1>9. Outcome(s, t)
  <2>1. KeyFlagSet(s, t, c)
    BY <1>4, <1>6, <1>7, <1>8 DEF KeyFlagSet
  <2> QED BY <1>1, <2>1, KeyReceived
<1> QED BY <1>4, <1>9 DEF t

LEMMA EscapeStarts ==
  ASSUME NEW s, StateOK(s), ~s.returned, s.escape = 0
  PROVE  Quiet(s, ReceiveChar(s, ESC)) /\ ReceiveChar(s, ESC).escape = 1
<1> DEFINE t == ReceiveChar(s, ESC)
<1>1. IsState(s)
  BY DEF StateOK
<1>2. t = [s EXCEPT !.escape = 1]
  BY DEF ReceiveChar
<1> HIDE DEF t
<1>3. /\ IsState(t) /\ t.line = s.line /\ t.length = s.length /\ t.cursor = s.cursor
      /\ t.flags = s.flags /\ t.event = s.event /\ t.returned = s.returned /\ t.escape = 1
      /\ t.actualEscape = s.actualEscape
  BY <1>1, <1>2 DEF IsState, Fields
<1>4. Quiet(s, t)
  BY <1>3, OnlyEscape
<1> QED BY <1>3, <1>4 DEF t

LEMMA LineLength ==
  ASSUME NEW s, Edited(s)
  PROVE  /\ LettersOf(s) \in [1 .. s.length -> Letters] /\ LettersOf(s) \in Seq(Letters)
         /\ Len(LettersOf(s)) = s.length /\ s.length \in Nat
         /\ \A k \in 1 .. s.length : LettersOf(s)[k] = s.line[k - 1]
<1>1. s.length \in Nat /\ \A i \in 0 .. s.length - 1 : s.line[i] \in Letters
  BY TerminalConstants DEF Edited
<1>2. \A k \in 1 .. s.length : k - 1 \in 0 .. s.length - 1
  BY <1>1
<1>3. LettersOf(s) \in [1 .. s.length -> Letters]
  BY <1>1, <1>2 DEF LettersOf
<1>4. \A k \in 1 .. s.length : LettersOf(s)[k] = s.line[k - 1]
  BY DEF LettersOf
<1> QED BY <1>1, <1>3, <1>4

\* A letter that came when no sequence was in progress.
LetterDone(s, t, c) ==
    /\ StateOK(t) /\ ~t.returned /\ t.escape = 0 /\ Waits(t) = Waits(s)
    /\ LineOf(t) = Editor!Typed(LineOf(s), c)

\* Lines of the editor that differ in some fields.
EditorLine(x1, x2, x3, x4) == [text |-> x1, cursor |-> x2, history |-> x3, recall |-> x4]

\* A letter that was put to the cursor.
LetterPut(s, t, c) ==
    /\ IsState(t) /\ t.line \in [Cells -> Letters \cup {EndOfString}]
    /\ t.length = s.length + 1 /\ t.cursor = s.cursor + 1
    /\ \A k \in 1 .. s.length + 1 :
         t.line[k - 1] = IF k < s.cursor + 1 THEN s.line[k - 1]
                         ELSE IF k = s.cursor + 1 THEN c ELSE s.line[k - 2]
    /\ t.escape = 0 /\ t.returned = FALSE /\ t.actualEscape = s.actualEscape
    /\ \/ t.flags = s.flags /\ t.event = s.event
       \/ t.flags = s.flags \cup {"NotLastChar"} /\ t.event = TRUE

LEMMA PutIsTyped ==
  ASSUME NEW s, StateOK(s), ~s.returned, s.escape = 0, s.length < MaxLength, NEW c \in Letters,
         NEW t, LetterPut(s, t, c)
  PROVE  LetterDone(s, t, c)
<1>0. /\ IsState(t) /\ t.line \in [Cells -> Letters \cup {EndOfString}]
      /\ t.length = s.length + 1 /\ t.cursor = s.cursor + 1
      /\ \A k \in 1 .. s.length + 1 :
           t.line[k - 1] = IF k < s.cursor + 1 THEN s.line[k - 1]
                           ELSE IF k = s.cursor + 1 THEN c ELSE s.line[k - 2]
      /\ t.escape = 0 /\ t.returned = FALSE /\ t.actualEscape = s.actualEscape
      /\ \/ t.flags = s.flags /\ t.event = s.event
         \/ t.flags = s.flags \cup {"NotLastChar"} /\ t.event = TRUE
  BY DEF LetterPut
<1>1. /\ s.line \in [Cells -> Letters \cup {EndOfString}] /\ s.length \in Nat /\ s.cursor \in Nat
      /\ s.cursor <= s.length /\ \A i \in 0 .. s.length - 1 : s.line[i] \in Letters
      /\ s.length \in Int /\ s.cursor \in Int
  BY TerminalConstants DEF StateOK, Edited
<1>2. Edited(s)
  BY DEF StateOK
<1> DEFINE q == LettersOf(s)
           n == s.length
           j == s.cursor + 1
<1>3. /\ q \in [1 .. n -> Letters] /\ Len(q) = n /\ n \in Nat
      /\ \A k \in 1 .. n : q[k] = s.line[k - 1]
  BY <1>2, LineLength
<1>4. j \in 1 .. n + 1
  BY <1>1
<1> HIDE DEF q
<1>5. ASSUME NEW k \in 1 .. n + 1
      PROVE  t.line[k - 1] = IF k < j THEN q[k] ELSE IF k = j THEN c ELSE q[k - 1]
  <2>1. CASE k < j
    <3>1. k \in 1 .. n
      BY <1>1, <1>4, <2>1
    <3> QED BY <1>0, <1>3, <2>1, <3>1
  <2>2. CASE k = j
    <3>1. ~(k < j)
      BY <1>1, <2>2
    <3> QED BY <1>0, <2>2, <3>1
  <2>3. CASE ~(k < j) /\ k # j
    <3>1. k - 1 \in 1 .. n /\ k - 1 - 1 = k - 2
      BY <1>1, <2>3
    <3> QED BY <1>0, <1>3, <2>3, <3>1
  <2> QED BY <2>1, <2>2, <2>3
<1>6. LettersOf(t) = InsertAt(q, j, c)
  <2>1. InsertedInto(InsertAt(q, j, c), q, n, j, c)
    BY <1>3, <1>4, InsertedElement
  <2>2. LettersOf(t) = [k \in 1 .. n + 1 |-> IF k < j THEN q[k] ELSE IF k = j THEN c ELSE q[k - 1]]
    BY <1>0, <1>5 DEF LettersOf
  <2> QED BY <2>1, <2>2 DEF InsertedInto
<1>7. Edited(t)
  <2>1. t.length \in 0 .. MaxLength /\ t.cursor \in 0 .. t.length
    BY <1>0, <1>1, TerminalConstants
  <2>2. ASSUME NEW i \in 0 .. t.length - 1 PROVE t.line[i] \in Letters
    <3> DEFINE k == i + 1
    <3>1. k \in 1 .. n + 1 /\ k - 1 = i
      BY <1>0, <1>1
    <3>2. /\ k < j => k \in 1 .. n
          /\ ~(k < j) /\ k # j => k - 1 \in 1 .. n
      BY <1>1, <1>4, <3>1
    <3> HIDE DEF k
    <3>3. t.line[i] = IF k < j THEN q[k] ELSE IF k = j THEN c ELSE q[k - 1]
      BY <1>5, <3>1
    <3> QED BY <1>3, <3>2, <3>3
  <2> QED BY <1>0, <2>1, <2>2 DEF Edited
<1>8. StateOK(t) /\ Waits(t) = Waits(s)
  <2>1. t.flags \subseteq AllFlags
    BY <1>0 DEF StateOK, Flagged, AllFlags
  <2>2. s.event => "NotLastChar" \in s.flags
    BY DEF StateOK, Flagged
  <2>3. t.event => "NotLastChar" \in t.flags
    BY <1>0, <2>2
  <2>4. t.event \in BOOLEAN
    BY <1>0 DEF StateOK, Flagged
  <2>5. Flagged(t)
    <3>1. ~(t.event /\ t.flags = {"Enter"}) /\ (t.event => t.flags # {})
      BY <2>3
    <3>2. t.returned = FALSE /\ t.escape \in 0 .. 4
      BY <1>0
    <3> QED BY <2>1, <2>3, <2>4, <3>1, <3>2 DEF Flagged
  <2>6. /\ t.flags \ {"NotLastChar", "EscapeSequence"} = s.flags \ {"NotLastChar", "EscapeSequence"}
        /\ "EscapeSequence" \in t.flags <=> "EscapeSequence" \in s.flags
    BY <1>0
  <2>7. Waits(t) = Waits(s)
    BY <1>0, <2>6 DEF Waits, WaitsFor
  <2> QED BY <1>0, <1>7, <2>5, <2>7 DEF StateOK
<1>9. LineOf(t) = Editor!Typed(LineOf(s), c)
  <2>1. /\ LineOf(s).text = q /\ LineOf(s).cursor = s.cursor
        /\ Len(LineOf(s).text) # MaxLength
    BY <1>1, <1>3, TerminalConstants DEF LineOf, q
  <2>2. Editor!Typed(LineOf(s), c) =
          [LineOf(s) EXCEPT !.text = Editor!Before(q, j) \o <<c>> \o Editor!From(q, j),
                            !.cursor = j]
    BY <2>1 DEF Editor!Typed
  <2>3. Editor!Before(q, j) \o <<c>> \o Editor!From(q, j) = InsertAt(q, j, c)
    BY DEF Editor!Before, Editor!From, InsertAt
  <2>4. LineOf(t) = EditorLine(InsertAt(q, j, c), j, History, Recall)
    BY <1>0, <1>6 DEF LineOf, EditorLine
  <2>5. LineOf(s) = EditorLine(q, s.cursor, History, Recall)
    BY DEF LineOf, EditorLine, q
  <2> DEFINE ins == InsertAt(q, j, c)
  <2> HIDE DEF j, ins
  <2>6. [LineOf(s) EXCEPT !.text = ins, !.cursor = j]
          = EditorLine(ins, j, History, Recall)
    <3>1. [EditorLine(q, s.cursor, History, Recall) EXCEPT !.text = ins]
            = EditorLine(ins, s.cursor, History, Recall)
      BY DEF EditorLine
    <3>2. [EditorLine(ins, s.cursor, History, Recall) EXCEPT !.cursor = j]
            = EditorLine(ins, j, History, Recall)
      BY DEF EditorLine
    <3> QED BY <2>5, <3>1, <3>2
  <2> QED BY <2>2, <2>3, <2>4, <2>6 DEF ins
<1> QED BY <1>0, <1>8, <1>9 DEF LetterDone

LEMMA LetterTyped ==
  ASSUME NEW s, StateOK(s), ~s.returned, s.escape = 0, NEW c \in Letters, ~WritesBehind(s, c)
  PROVE  LetterDone(s, ReceiveChar(s, c), c)
<1> DEFINE t == ReceiveChar(s, c)
<1>1. c # ESC /\ c \notin Keys /\ c # "Enter"
  BY TerminalConstants DEF Keys
<1>2. t = ReceiveLetter(s, c)
  BY <1>1 DEF ReceiveChar
<1> HIDE DEF t
<1>3. /\ s.line \in [Cells -> Letters \cup {EndOfString}] /\ s.length \in Nat /\ s.cursor \in Nat
      /\ s.cursor <= s.length /\ s.length <= MaxLength
      /\ \A i \in 0 .. s.length - 1 : s.line[i] \in Letters
      /\ IsState(s) /\ Edited(s) /\ s.returned = FALSE
  BY TerminalConstants DEF StateOK, Edited, Flagged
<1>4. CASE s.length >= MaxLength
  <2>1. t = s
    BY <1>2, <1>4 DEF ReceiveLetter
  <2>2. Len(LineOf(s).text) = MaxLength
    <3>1. s.length = MaxLength
      BY <1>3, <1>4, TerminalConstants
    <3> QED BY <1>3, <3>1, LineLength DEF LineOf
  <2>3. Editor!Typed(LineOf(s), c) = LineOf(s)
    BY <2>2 DEF Editor!Typed
  <2>4. LetterDone(s, t, c)
    BY <2>1, <2>3 DEF LetterDone
  <2> QED BY <2>4 DEF t
<1>5. CASE ~(s.length >= MaxLength) /\ s.cursor = s.length
  <2>1. t = AppendLetter(s, c)
    BY <1>2, <1>5 DEF ReceiveLetter
  <2>2. /\ IsState(t) /\ t.line = [s.line EXCEPT ![s.length] = c] /\ t.length = s.length + 1
        /\ t.cursor = s.cursor + 1 /\ t.escape = 0 /\ t.returned = FALSE
        /\ t.actualEscape = s.actualEscape /\ t.flags = s.flags /\ t.event = s.event
    BY <1>3, <2>1 DEF AppendLetter, IsState, Fields
  <2>3. s.length \in Cells /\ s.length < MaxLength /\ s.cursor + 1 = s.length + 1
    BY <1>3, <1>5, TerminalConstants
  <2>4. t.line \in [Cells -> Letters \cup {EndOfString}]
    BY <1>3, <2>2, <2>3
  <2>5. ASSUME NEW k \in 1 .. s.length + 1
        PROVE  t.line[k - 1] = IF k < s.cursor + 1 THEN s.line[k - 1]
                               ELSE IF k = s.cursor + 1 THEN c ELSE s.line[k - 2]
    <3>1. CASE k < s.cursor + 1
      <4>1. k - 1 # s.length /\ k - 1 \in Cells
        BY <1>3, <1>5, <2>3, <3>1, TerminalConstants
      <4> QED BY <1>3, <2>2, <3>1, <4>1
    <3>2. CASE k = s.cursor + 1
      <4>1. k - 1 = s.length /\ ~(k < s.cursor + 1)
        BY <1>3, <1>5, <3>2
      <4> QED BY <1>3, <2>2, <2>3, <3>2, <4>1
    <3>3. k < s.cursor + 1 \/ k = s.cursor + 1
      BY <1>3, <1>5
    <3> QED BY <3>1, <3>2, <3>3
  <2>6. LetterPut(s, t, c)
    BY <2>2, <2>4, <2>5 DEF LetterPut
  <2> QED BY <2>3, <2>6, PutIsTyped DEF t
<1>6. CASE ~(s.length >= MaxLength) /\ s.cursor # s.length
  <2> DEFINE length == s.length + 1
             moved == [i \in Cells |-> IF i \in s.cursor + 1 .. length THEN s.line[i - 1]
                                       ELSE s.line[i]]
             new == [[moved EXCEPT ![s.cursor] = c] EXCEPT ![length] = EndOfString]
  <2>1. t = InsertLetter(s, c)
    BY <1>2, <1>6 DEF ReceiveLetter
  <2>2. /\ IsState(t) /\ t.line = [moved EXCEPT ![s.cursor] = c, ![length] = EndOfString]
        /\ t.length = s.length + 1
        /\ t.cursor = s.cursor + 1 /\ t.escape = 0 /\ t.returned = FALSE
        /\ t.actualEscape = s.actualEscape /\ t.flags = s.flags \cup {"NotLastChar"}
        /\ t.event = TRUE
    BY <1>3, <2>1 DEF InsertLetter, IsState, Fields
  <2>3. /\ s.length < MaxLength /\ s.cursor < s.length /\ s.cursor \in Cells /\ length \in Cells
        /\ length # s.cursor /\ length \in Nat
    <3>1. s.cursor < s.length
      BY <1>3, <1>6
    <3>2. s.length # MaxLength - 1
      BY <3>1 DEF WritesBehind
    <3> QED BY <1>3, <1>6, <3>1, <3>2, TerminalConstants
  <2>4. \A i \in Cells : i \in s.cursor + 1 .. length => i - 1 \in Cells
    BY <1>3, TerminalConstants
  <2>5. moved \in [Cells -> Letters \cup {EndOfString}]
    BY <1>3, <2>4
  <2>6. t.line = new
    BY <2>2
  <2>7. /\ \A i \in Cells : i \in s.cursor + 1 .. length => moved[i] = s.line[i - 1]
        /\ \A i \in Cells : i \notin s.cursor + 1 .. length => moved[i] = s.line[i]
    OBVIOUS
  <2> HIDE DEF moved
  <2>8. /\ new \in [Cells -> Letters \cup {EndOfString}] /\ new[s.cursor] = c
        /\ \A i \in Cells : i # s.cursor /\ i # length => new[i] = moved[i]
    BY <2>3, <2>5
  <2> HIDE DEF new
  <2>9. ASSUME NEW k \in 1 .. s.length + 1
        PROVE  t.line[k - 1] = IF k < s.cursor + 1 THEN s.line[k - 1]
                               ELSE IF k = s.cursor + 1 THEN c ELSE s.line[k - 2]
    <3>0. k - 1 \in Cells /\ k - 1 # length /\ k \in Int /\ k - 1 - 1 = k - 2
      BY <1>3, <2>3, TerminalConstants
    <3>1. CASE k < s.cursor + 1
      <4>1. k - 1 # s.cursor /\ k - 1 \notin s.cursor + 1 .. length
        BY <1>3, <3>0, <3>1
      <4> QED BY <2>6, <2>7, <2>8, <3>0, <3>1, <4>1
    <3>2. CASE k = s.cursor + 1
      <4>1. k - 1 = s.cursor /\ ~(k < s.cursor + 1)
        BY <1>3, <3>2
      <4> QED BY <2>6, <2>8, <3>2, <4>1
    <3>3. CASE k > s.cursor + 1
      <4>1. k - 1 # s.cursor /\ k - 1 \in s.cursor + 1 .. length /\ ~(k < s.cursor + 1) /\ k # s.cursor + 1
        BY <1>3, <3>0, <3>3
      <4> QED BY <2>6, <2>7, <2>8, <3>0, <4>1
    <3> QED BY <1>3, <3>1, <3>2, <3>3
  <2>10. LetterPut(s, t, c)
    BY <2>2, <2>6, <2>8, <2>9 DEF LetterPut
  <2> QED BY <2>3, <2>10, PutIsTyped DEF t
<1> QED BY <1>4, <1>5, <1>6

\* The loop on a batch leads from s to t, and writes nothing behind the line.
Within(f, batch, n) == \A k \in 1 .. n : ~WritesBehind(f[k - 1], batch[k])
Ends(s, batch, t) ==
    \E f : Looped(f, s, batch, Len(batch)) /\ Within(f, batch, Len(batch)) /\ t = f[Len(batch)]

LEMMA OneByte ==
  ASSUME NEW s, NEW c1, NEW t, Ends(s, <<c1>>, t)
  PROVE  t = ReceiveChar(s, c1) /\ ~WritesBehind(s, c1)
<1> DEFINE b == <<c1>>
<1>1. Len(b) = 1 /\ b[1] = c1
  OBVIOUS
<1> HIDE DEF b
<1>2. PICK f : Looped(f, s, b, 1) /\ Within(f, b, 1) /\ t = f[1]
  BY <1>1 DEF Ends, b
<1>3. f[1] = ReceiveChar(f[0], c1) /\ f[0] = s
  BY <1>1, <1>2 DEF Looped
<1>4. ~WritesBehind(f[0], c1)
  BY <1>1, <1>2 DEF Within
<1> QED BY <1>2, <1>3, <1>4

LEMMA TwoBytes ==
  ASSUME NEW s, NEW c1, NEW c2, NEW t, Ends(s, <<c1, c2>>, t)
  PROVE  t = ReceiveChar(ReceiveChar(s, c1), c2)
<1> DEFINE b == <<c1, c2>>
<1>1. Len(b) = 2 /\ b[1] = c1 /\ b[2] = c2
  OBVIOUS
<1> HIDE DEF b
<1>2. PICK f : Looped(f, s, b, 2) /\ t = f[2]
  BY <1>1 DEF Ends, b
<1>3. f[2] = ReceiveChar(f[1], c2) /\ f[1] = ReceiveChar(f[0], c1) /\ f[0] = s
  BY <1>1, <1>2 DEF Looped
<1> QED BY <1>2, <1>3

LEMMA ThreeBytes ==
  ASSUME NEW s, NEW c1, NEW c2, NEW c3, NEW t, Ends(s, <<c1, c2, c3>>, t)
  PROVE  t = ReceiveChar(ReceiveChar(ReceiveChar(s, c1), c2), c3)
<1> DEFINE b == <<c1, c2, c3>>
<1>1. Len(b) = 3 /\ b[1] = c1 /\ b[2] = c2 /\ b[3] = c3
  OBVIOUS
<1> HIDE DEF b
<1>2. PICK f : Looped(f, s, b, 3) /\ t = f[3]
  BY <1>1 DEF Ends, b
<1>3. /\ f[3] = ReceiveChar(f[2], c3) /\ f[2] = ReceiveChar(f[1], c2)
      /\ f[1] = ReceiveChar(f[0], c1) /\ f[0] = s
  BY <1>1, <1>2 DEF Looped
<1> QED BY <1>2, <1>3

LEMMA FourBytes ==
  ASSUME NEW s, NEW c1, NEW c2, NEW c3, NEW c4, NEW t, Ends(s, <<c1, c2, c3, c4>>, t)
  PROVE  t = ReceiveChar(ReceiveChar(ReceiveChar(ReceiveChar(s, c1), c2), c3), c4)
<1> DEFINE b == <<c1, c2, c3, c4>>
<1>1. Len(b) = 4 /\ b[1] = c1 /\ b[2] = c2 /\ b[3] = c3 /\ b[4] = c4
  OBVIOUS
<1> HIDE DEF b
<1>2. PICK f : Looped(f, s, b, 4) /\ t = f[4]
  BY <1>1 DEF Ends, b
<1>3. /\ f[4] = ReceiveChar(f[3], c4) /\ f[3] = ReceiveChar(f[2], c3)
      /\ f[2] = ReceiveChar(f[1], c2) /\ f[1] = ReceiveChar(f[0], c1) /\ f[0] = s
  BY <1>1, <1>2 DEF Looped
<1> QED BY <1>2, <1>3

\* A batch that is one after another one.
LEMMA EndsTwice ==
  ASSUME NEW S, NEW b1 \in Seq(S), NEW b2 \in Seq(S), NEW s, NEW t, Ends(s, b1 \o b2, t)
  PROVE  \E u : Ends(s, b1, u) /\ Ends(u, b2, t)
<1> DEFINE b == b1 \o b2
           n1 == Len(b1)
           n2 == Len(b2)
<1>1. /\ n1 \in Nat /\ n2 \in Nat /\ Len(b) = n1 + n2
      /\ \A i \in 1 .. n1 + n2 : b[i] = IF i <= n1 THEN b1[i] ELSE b2[i - n1]
  BY ConcatProperties
<1> HIDE DEF b, n1, n2
<1>2. PICK f : Looped(f, s, b, n1 + n2) /\ Within(f, b, n1 + n2) /\ t = f[n1 + n2]
  BY <1>1 DEF Ends, b
<1>3. \A k \in 0 .. n1 + n2 : f[k] = IF k = 0 THEN s ELSE ReceiveChar(f[k - 1], b[k])
  BY <1>2 DEF Looped
<1> DEFINE g == [k \in 0 .. n1 |-> f[k]]
           h == [k \in 0 .. n2 |-> f[n1 + k]]
<1>4. Looped(g, s, b1, n1) /\ Within(g, b1, n1) /\ g[n1] = f[n1]
  <2>1. ASSUME NEW k \in 0 .. n1
        PROVE  g[k] = IF k = 0 THEN s ELSE ReceiveChar(g[k - 1], b1[k])
    <3>1. CASE k = 0
      BY <1>1, <1>3, <3>1
    <3>2. CASE k # 0
      <4>1. k \in 0 .. n1 + n2 /\ k \in 1 .. n1 + n2 /\ k <= n1 /\ k - 1 \in 0 .. n1
        BY <1>1, <3>2
      <4> QED BY <1>1, <1>3, <3>2, <4>1
    <3> QED BY <3>1, <3>2
  <2>2. g = [k \in 0 .. n1 |-> g[k]] /\ n1 \in 0 .. n1
    BY <1>1
  <2>3. g[n1] = f[n1]
    BY <2>2
  <2>4. ASSUME NEW k \in 1 .. n1 PROVE ~WritesBehind(g[k - 1], b1[k])
    <3>1. k \in 1 .. n1 + n2 /\ k <= n1 /\ k - 1 \in 0 .. n1
      BY <1>1
    <3>2. ~WritesBehind(f[k - 1], b[k]) /\ g[k - 1] = f[k - 1] /\ b[k] = b1[k]
      BY <1>1, <1>2, <3>1 DEF Within
    <3> QED BY <3>2
  <2> HIDE DEF g
  <2>5. Within(g, b1, n1)
    BY <2>4 DEF Within
  <2> QED BY <2>1, <2>2, <2>3, <2>5 DEF Looped
<1>5. Looped(h, f[n1], b2, n2) /\ Within(h, b2, n2) /\ h[n2] = f[n1 + n2]
  <2>1. ASSUME NEW k \in 0 .. n2
        PROVE  h[k] = IF k = 0 THEN f[n1] ELSE ReceiveChar(h[k - 1], b2[k])
    <3>1. CASE k = 0
      BY <1>1, <3>1
    <3>2. CASE k # 0
      <4>1. /\ n1 + k \in 0 .. n1 + n2 /\ n1 + k \in 1 .. n1 + n2 /\ ~(n1 + k <= n1)
            /\ n1 + k - n1 = k /\ n1 + k - 1 = n1 + (k - 1) /\ k - 1 \in 0 .. n2 /\ n1 + k # 0
        BY <1>1, <3>2
      <4>2. f[n1 + k] = ReceiveChar(f[n1 + (k - 1)], b2[k])
        BY <1>1, <1>3, <4>1
      <4> QED BY <3>2, <4>1, <4>2
    <3> QED BY <3>1, <3>2
  <2>2. h = [k \in 0 .. n2 |-> h[k]] /\ n2 \in 0 .. n2
    BY <1>1
  <2>3. h[n2] = f[n1 + n2]
    BY <2>2
  <2>4. ASSUME NEW k \in 1 .. n2 PROVE ~WritesBehind(h[k - 1], b2[k])
    <3>1. /\ n1 + k \in 1 .. n1 + n2 /\ ~(n1 + k <= n1)
          /\ n1 + k - n1 = k /\ n1 + k - 1 = n1 + (k - 1) /\ k - 1 \in 0 .. n2
      BY <1>1
    <3>2. /\ ~WritesBehind(f[n1 + (k - 1)], b[n1 + k]) /\ h[k - 1] = f[n1 + (k - 1)]
          /\ b[n1 + k] = b2[k]
      BY <1>1, <1>2, <3>1 DEF Within
    <3> QED BY <3>2
  <2> HIDE DEF h
  <2>5. Within(h, b2, n2)
    BY <2>4 DEF Within
  <2> QED BY <2>1, <2>2, <2>3, <2>5 DEF Looped
<1> HIDE DEF g, h
<1>6. Ends(s, b1, f[n1])
  BY <1>4 DEF Ends, n1
<1>7. Ends(f[n1], b2, t)
  BY <1>2, <1>5 DEF Ends, n2
<1> QED BY <1>6, <1>7

LEMMA KeyBatchOutcome ==
  ASSUME NEW s, StateOK(s), ~s.returned, s.escape = 0, NEW b \in KeyBatches, NEW t, Ends(s, b, t)
  PROVE  Outcome(s, t) /\ t.returned
<1>1. CASE b \in {<<k>> : k \in Keys}
  <2>1. PICK k \in Keys : b = <<k>>
    BY <1>1
  <2>2. t = ReceiveChar(s, k) /\ ~WritesBehind(s, k)
    BY <2>1, OneByte
  <2> QED BY <2>2, KeyOutcome
<1> DEFINE s1 == ReceiveChar(s, ESC)
           s2 == ReceiveChar(s1, "[")
           s3 == ReceiveChar(s2, "3")
<1>2. Quiet(s, s1) /\ s1.escape = 1 /\ StateOK(s1) /\ ~s1.returned
  BY EscapeStarts, QuietIsOutcome DEF Quiet
<1> HIDE DEF s1
<1>3. Quiet(s, s2) /\ s2.escape = 2 /\ StateOK(s2) /\ ~s2.returned
  <2>1. Quiet(s1, s2) /\ s2.escape = 2
    BY <1>2, EscapeOutcome
  <2>2. Quiet(s, s2)
    BY <1>2, <2>1, QuietTwice
  <2> QED BY <2>1, <2>2, QuietIsOutcome DEF Quiet
<1> HIDE DEF s2
<1>4. Quiet(s, s3) /\ s3.escape = 3 /\ StateOK(s3) /\ ~s3.returned
  <2>1. Quiet(s2, s3) /\ s3.escape = 3
    BY <1>3, EscapeOutcome
  <2>2. Quiet(s, s3)
    BY <1>3, <2>1, QuietTwice
  <2> QED BY <2>1, <2>2, QuietIsOutcome DEF Quiet
<1> HIDE DEF s3
<1>5. CASE \E d \in Arrows : b = <<ESC, "[", d>>
  <2>1. PICK d \in Arrows : b = <<ESC, "[", d>>
    BY <1>5
  <2>2. t = ReceiveChar(s2, d)
    BY <2>1, ThreeBytes DEF s1, s2
  <2>3. Outcome(s2, t) /\ t.returned
    <3>1. d # "3"
      BY DEF Arrows
    <3> QED BY <1>3, <2>2, <3>1, EscapeOutcome
  <2> QED BY <1>3, <2>3, QuietThenOutcome
<1>6. CASE b = <<ESC, "[", "3", "~">>
  <2>1. t = ReceiveChar(s3, "~")
    BY <1>6, FourBytes DEF s1, s2, s3
  <2>2. Outcome(s3, t) /\ t.returned
    BY <1>4, <2>1, EscapeOutcome
  <2> QED BY <1>4, <2>2, QuietThenOutcome
<1> QED BY <1>1, <1>5, <1>6 DEF KeyBatches, EscapeKeys

LEMMA CutBatchOutcome ==
  ASSUME NEW s, StateOK(s), ~s.returned, s.escape = 0, NEW b \in CutBatches, NEW t, Ends(s, b, t)
  PROVE  Outcome(s, t)
<1> DEFINE s1 == ReceiveChar(s, ESC)
           s2 == ReceiveChar(s1, "[")
           s3 == ReceiveChar(s2, "3")
<1>1. Quiet(s, s1) /\ s1.escape = 1 /\ StateOK(s1) /\ ~s1.returned
  BY EscapeStarts, QuietIsOutcome DEF Quiet
<1> HIDE DEF s1
<1>2. Quiet(s1, s2) /\ s2.escape = 2 /\ StateOK(s2) /\ ~s2.returned
  <2>1. Quiet(s1, s2) /\ s2.escape = 2
    BY <1>1, EscapeOutcome
  <2> QED BY <2>1, QuietIsOutcome DEF Quiet
<1> HIDE DEF s2
<1>3. Quiet(s2, s3)
  BY <1>2, EscapeOutcome
<1> HIDE DEF s3
<1>4. Quiet(s, s3)
  BY <1>1, <1>2, <1>3, QuietTwice
<1>5. CASE b = <<ESC>>
  <2>1. t = s1
    BY <1>5, OneByte DEF s1
  <2> QED BY <1>1, <2>1, QuietIsOutcome
<1>6. CASE b = <<ESC, "[", "3">>
  <2>1. t = s3
    BY <1>6, ThreeBytes DEF s1, s2, s3
  <2> QED BY <1>4, <2>1, QuietIsOutcome
<1> QED BY <1>5, <1>6 DEF CutBatches

\* What is behind an unfinished sequence.
LEMMA RestOutcome ==
  ASSUME NEW s, StateOK(s), ~s.returned, s.escape # 0, NEW b \in RestBatches, NEW t, Ends(s, b, t)
  PROVE  Outcome(s, t)
<1>1. CASE \E c : b = <<c>>
  <2>1. PICK c : b = <<c>>
    BY <1>1
  <2>2. t = ReceiveChar(s, c)
    BY <2>1, OneByte
  <2> QED BY <2>2, EscapeOutcome
<1>2. CASE b = <<"[", "D">>
  <2> DEFINE u == ReceiveChar(s, "[")
  <2>1. t = ReceiveChar(u, "D")
    BY <1>2, TwoBytes
  <2>2. Outcome(s, u) /\ (u.returned \/ Quiet(s, u)) /\ (~u.returned => u.escape # 0)
    BY EscapeOutcome
  <2> HIDE DEF u
  <2>3. CASE u.returned
    <3>1. t = u
      BY <2>1, <2>3 DEF ReceiveChar
    <3> QED BY <2>2, <3>1
  <2>4. CASE ~u.returned
    <3>1. Quiet(s, u) /\ StateOK(u) /\ u.escape # 0
      BY <2>2, <2>4, QuietIsOutcome
    <3>2. Outcome(u, t)
      BY <2>1, <2>4, <3>1, EscapeOutcome
    <3> QED BY <3>1, <3>2, QuietThenOutcome
  <2> QED BY <2>3, <2>4
<1> QED BY <1>1, <1>2 DEF RestBatches, LetterBatches

\* The function that TypedAll chooses.
Typing(f, edited, b, n) ==
    f = [k \in 0 .. n |-> IF k = 0 THEN edited ELSE Editor!Typed(f[k - 1], b[k])]

LEMMA TypingEnds ==
  ASSUME NEW edited, NEW b, NEW f, Typing(f, edited, b, Len(b))
  PROVE  \E g : Typing(g, edited, b, Len(b)) /\ Editor!TypedAll(edited, b) = g[Len(b)]
<1> DEFINE g == CHOOSE h : Typing(h, edited, b, Len(b))
<1>1. Typing(g, edited, b, Len(b))
  OBVIOUS
<1>2. Editor!TypedAll(edited, b) = g[Len(b)]
  BY DEF Editor!TypedAll, Typing
<1> HIDE DEF g
<1> QED BY <1>1, <1>2

LEMMA TypedAllIs ==
  ASSUME NEW edited, NEW c1
  PROVE  /\ Editor!TypedAll(edited, <<>>) = edited
         /\ Editor!TypedAll(edited, <<c1>>) = Editor!Typed(edited, c1)
<1>1. Editor!TypedAll(edited, <<>>) = edited
  <2> DEFINE b == <<>>
             f == [k \in 0 .. 0 |-> edited]
  <2>1. Len(b) = 0
    OBVIOUS
  <2>2. Typing(f, edited, b, 0)
    BY DEF Typing
  <2> HIDE DEF b, f
  <2>3. PICK g : Typing(g, edited, b, 0) /\ Editor!TypedAll(edited, b) = g[0]
    BY <2>1, <2>2, TypingEnds
  <2>4. g[0] = edited
    BY <2>3 DEF Typing
  <2> QED BY <2>3, <2>4 DEF b
<1>2. Editor!TypedAll(edited, <<c1>>) = Editor!Typed(edited, c1)
  <2> DEFINE b == <<c1>>
             f == [k \in 0 .. 1 |-> IF k = 0 THEN edited ELSE Editor!Typed(edited, c1)]
  <2>1. Len(b) = 1 /\ b[1] = c1
    OBVIOUS
  <2> HIDE DEF b
  <2>2. Typing(f, edited, b, 1)
    <3>1. ASSUME NEW k \in 0 .. 1
          PROVE  f[k] = IF k = 0 THEN edited ELSE Editor!Typed(f[k - 1], b[k])
      <4>1. CASE k = 0
        BY <4>1
      <4>2. CASE k = 1
        BY <2>1, <4>2
      <4> QED BY <4>1, <4>2
    <3>2. f = [k \in 0 .. 1 |-> f[k]]
      OBVIOUS
    <3> HIDE DEF f
    <3> QED BY <3>1, <3>2 DEF Typing
  <2> HIDE DEF f
  <2>3. PICK g : Typing(g, edited, b, 1) /\ Editor!TypedAll(edited, b) = g[1]
    BY <2>1, <2>2, TypingEnds
  <2>4. g[0] = edited /\ g[1] = Editor!Typed(g[0], c1)
    BY <2>1, <2>3 DEF Typing
  <2> QED BY <2>3, <2>4 DEF b
<1> QED BY <1>1, <1>2

LEMMA TwoTyped ==
  ASSUME NEW edited, NEW c1, NEW c2
  PROVE  Editor!TypedAll(edited, <<c1, c2>>) = Editor!Typed(Editor!Typed(edited, c1), c2)
<1> DEFINE b == <<c1, c2>>
           e1 == Editor!Typed(edited, c1)
           e2 == Editor!Typed(e1, c2)
           f == [k \in 0 .. 2 |-> IF k = 0 THEN edited ELSE IF k = 1 THEN e1 ELSE e2]
<1>1. Len(b) = 2 /\ b[1] = c1 /\ b[2] = c2
  OBVIOUS
<1> HIDE DEF b
<1>2. Typing(f, edited, b, 2)
  <2>1. ASSUME NEW k \in 0 .. 2
        PROVE  f[k] = IF k = 0 THEN edited ELSE Editor!Typed(f[k - 1], b[k])
    <3>1. f[0] = edited /\ f[1] = e1 /\ f[2] = e2
      OBVIOUS
    <3> HIDE DEF f
    <3>2. CASE k = 0
      BY <3>1, <3>2
    <3>3. CASE k = 1
      BY <1>1, <3>1, <3>3
    <3>4. CASE k = 2
      BY <1>1, <3>1, <3>4
    <3> QED BY <3>2, <3>3, <3>4
  <2>2. f = [k \in 0 .. 2 |-> f[k]]
    OBVIOUS
  <2> HIDE DEF f
  <2> QED BY <2>1, <2>2 DEF Typing
<1> HIDE DEF f
<1>3. PICK g : Typing(g, edited, b, 2) /\ Editor!TypedAll(edited, b) = g[2]
  BY <1>1, <1>2, TypingEnds
<1>4. g[0] = edited /\ g[1] = Editor!Typed(g[0], c1) /\ g[2] = Editor!Typed(g[1], c2)
  BY <1>1, <1>3 DEF Typing
<1> QED BY <1>3, <1>4 DEF b

BatchDone(s, t) ==
    \E letters \in SeqOf(Letters, 2), forgotten \in ForgottenSets, keysTyped \in TypedSets :
        /\ StateOK(t) /\ LineOf(t) = Editor!TypedAll(LineOf(s), letters)
        /\ Waits(t) = (Waits(s) \ forgotten) \cup keysTyped

LEMMA FewLetters ==
  ASSUME NEW c1 \in Letters, NEW c2 \in Letters
  PROVE  /\ <<>> \in SeqOf(Letters, 2) /\ <<c1>> \in SeqOf(Letters, 2)
         /\ <<c1, c2>> \in SeqOf(Letters, 2)
<1>1. <<>> \in SeqOf(Letters, 2)
  <2>1. <<>> \in [1 .. 0 -> Letters]
    OBVIOUS
  <2> QED BY <2>1 DEF SeqOf
<1>2. <<c1>> \in SeqOf(Letters, 2)
  <2>1. <<c1>> \in [1 .. 1 -> Letters]
    OBVIOUS
  <2> QED BY <2>1 DEF SeqOf
<1>3. <<c1, c2>> \in SeqOf(Letters, 2)
  <2>1. <<c1, c2>> \in [1 .. 2 -> Letters]
    OBVIOUS
  <2> QED BY <2>1 DEF SeqOf
<1> QED BY <1>1, <1>2, <1>3

\* No letters, and perhaps a key.
LEMMA OutcomeIsDone ==
  ASSUME NEW s, NEW t, Outcome(s, t)
  PROVE  BatchDone(s, t)
<1>1. PICK forgotten \in ForgottenSets, keysTyped \in TypedSets : KeyTyped(s, t, forgotten, keysTyped)
  BY DEF Outcome
<1>2. LineOf(t) = LineOf(s)
  BY <1>1 DEF KeyTyped, LineOf
<1>3. Editor!TypedAll(LineOf(s), <<>>) = LineOf(s)
  BY TypedAllIs
<1>4. <<>> \in SeqOf(Letters, 2)
  <2>1. <<>> \in [1 .. 0 -> Letters]
    OBVIOUS
  <2> QED BY <2>1 DEF SeqOf
<1> QED BY <1>1, <1>2, <1>3, <1>4 DEF BatchDone, KeyTyped

\* A letter, and perhaps a key.
LEMMA LetterAndOutcome ==
  ASSUME NEW s, NEW u, NEW t, NEW c \in Letters, LetterDone(s, u, c), Outcome(u, t)
  PROVE  BatchDone(s, t)
<1>1. PICK forgotten \in ForgottenSets, keysTyped \in TypedSets : KeyTyped(u, t, forgotten, keysTyped)
  BY DEF Outcome
<1>2. LineOf(t) = LineOf(u)
  BY <1>1 DEF KeyTyped, LineOf
<1>3. Editor!TypedAll(LineOf(s), <<c>>) = LineOf(t)
  BY <1>2, TypedAllIs DEF LetterDone
<1>4. <<c>> \in SeqOf(Letters, 2)
  BY FewLetters
<1>5. Waits(t) = (Waits(s) \ forgotten) \cup keysTyped
  BY <1>1 DEF KeyTyped, LetterDone
<1> QED BY <1>1, <1>3, <1>4, <1>5 DEF BatchDone, KeyTyped

LEMMA TwoLetters ==
  ASSUME NEW s, NEW u, NEW t, NEW c \in Letters, NEW d \in Letters,
         LetterDone(s, u, c), LetterDone(u, t, d)
  PROVE  BatchDone(s, t)
<1>1. Editor!TypedAll(LineOf(s), <<c, d>>) = LineOf(t)
  <2>1. Editor!TypedAll(LineOf(s), <<c, d>>) = Editor!Typed(Editor!Typed(LineOf(s), c), d)
    BY TwoTyped
  <2> QED BY <2>1, Zenon DEF LetterDone
<1>2. <<c, d>> \in SeqOf(Letters, 2)
  BY FewLetters
<1>3. Waits(t) = (Waits(s) \ {}) \cup {}
  BY DEF LetterDone
<1>4. {} \in ForgottenSets /\ {} \in TypedSets
  BY DEF ForgottenSets, TypedSets
<1>5. StateOK(t)
  BY DEF LetterDone
<1> QED BY <1>1, <1>2, <1>3, <1>4, <1>5 DEF BatchDone

LEMMA NothingIsOutcome ==
  ASSUME NEW s, NEW t, StateOK(s), s = t
  PROVE  Outcome(s, t)
<1>1. Waits(t) = (Waits(s) \ {}) \cup {}
  OBVIOUS
<1>2. KeyTyped(s, t, {}, {})
  BY <1>1 DEF KeyTyped
<1> QED BY <1>2 DEF Outcome, ForgottenSets, TypedSets

Bytes == Letters \cup Keys \cup Arrows \cup {ESC, "[", "3", "~"}

LEMMA BatchBytes ==
  ASSUME NEW b \in Single \cup {<<"Backspace">>}
  PROVE  b \in Seq(Bytes)
<1>1. /\ Letters \subseteq Bytes /\ Keys \subseteq Bytes /\ Arrows \subseteq Bytes
      /\ ESC \in Bytes /\ "[" \in Bytes /\ "3" \in Bytes /\ "~" \in Bytes /\ "Backspace" \in Bytes
  BY DEF Bytes, Keys, Arrows
<1>2. \A b1 \in Bytes : <<b1>> \in Seq(Bytes)
  OBVIOUS
<1>3. \A b1, b2, b3 \in Bytes : <<b1, b2, b3>> \in Seq(Bytes)
  OBVIOUS
<1>4. \A b1, b2, b3, b4 \in Bytes : <<b1, b2, b3, b4>> \in Seq(Bytes)
  OBVIOUS
<1>5. CASE b = <<ESC, "[", "3", "~">>
  BY <1>1, <1>4, <1>5
<1>6. CASE \E d \in Arrows : b = <<ESC, "[", d>>
  <2>1. PICK d \in Arrows : b = <<ESC, "[", d>>
    BY <1>6
  <2>2. d \in Bytes
    BY <1>1
  <2> QED BY <1>1, <1>3, <2>1, <2>2
<1>7. CASE b = <<ESC, "[", "3">>
  BY <1>1, <1>3, <1>7
<1>8. CASE \E c \in Letters \cup Keys \cup {ESC, "Backspace"} : b = <<c>>
  BY <1>1, <1>2, <1>8
<1> QED BY <1>5, <1>6, <1>7, <1>8
        DEF Single, KeyBatches, EscapeKeys, LetterBatches, CutBatches

LEMMA BatchIsDone ==
  ASSUME NEW s, StateOK(s), ~s.returned,
         NEW b \in IF s.escape = 0 THEN Batches ELSE RestBatches, NEW t, Ends(s, b, t)
  PROVE  BatchDone(s, t)
<1>1. CASE s.escape # 0
  BY <1>1, RestOutcome, OutcomeIsDone
<1>2. CASE s.escape = 0 /\ b \in KeyBatches
  BY <1>2, KeyBatchOutcome, OutcomeIsDone
<1>3. CASE s.escape = 0 /\ b \in CutBatches
  BY <1>3, CutBatchOutcome, OutcomeIsDone
<1>4. CASE s.escape = 0 /\ b \in LetterBatches
  <2>1. PICK c \in Letters : b = <<c>>
    BY <1>4 DEF LetterBatches
  <2>2. t = ReceiveChar(s, c) /\ ~WritesBehind(s, c)
    BY <2>1, OneByte
  <2>3. LetterDone(s, t, c)
    BY <1>4, <2>2, LetterTyped
  <2>4. Outcome(t, t)
    BY <2>3, NothingIsOutcome DEF LetterDone
  <2> QED BY <2>3, <2>4, LetterAndOutcome
<1>5. CASE s.escape = 0 /\ \E l \in LetterBatches, r \in Single : b = l \o r
  <2>1. PICK l \in LetterBatches, r \in Single : b = l \o r
    BY <1>5
  <2>2. PICK c \in Letters : l = <<c>>
    BY DEF LetterBatches
  <2>3. l \in Seq(Bytes) /\ r \in Seq(Bytes)
    BY BatchBytes DEF Single
  <2>4. PICK u : Ends(s, l, u) /\ Ends(u, r, t)
    BY <2>1, <2>3, EndsTwice
  <2>5. u = ReceiveChar(s, c) /\ ~WritesBehind(s, c)
    BY <2>2, <2>4, OneByte
  <2>6. LetterDone(s, u, c)
    BY <1>5, <2>5, LetterTyped
  <2>7. StateOK(u) /\ ~u.returned /\ u.escape = 0
    BY <2>6 DEF LetterDone
  <2>8. CASE r \in KeyBatches
    <3>1. Outcome(u, t)
      BY <2>4, <2>7, <2>8, KeyBatchOutcome
    <3> QED BY <2>6, <3>1, LetterAndOutcome
  <2>9. CASE r \in CutBatches
    <3>1. Outcome(u, t)
      BY <2>4, <2>7, <2>9, CutBatchOutcome
    <3> QED BY <2>6, <3>1, LetterAndOutcome
  <2>10. CASE r \in LetterBatches
    <3>1. PICK d \in Letters : r = <<d>>
      BY <2>10 DEF LetterBatches
    <3>2. t = ReceiveChar(u, d) /\ ~WritesBehind(u, d)
      BY <2>4, <3>1, OneByte
    <3>3. LetterDone(u, t, d)
      BY <2>7, <3>2, LetterTyped
    <3> QED BY <2>6, <3>3, TwoLetters
  <2> QED BY <2>8, <2>9, <2>10 DEF Single
<1>6. CASE s.escape = 0 /\ \E k \in KeyBatches, r \in LetterBatches \cup {<<"Backspace">>} : b = k \o r
  <2>1. PICK k \in KeyBatches, r \in LetterBatches \cup {<<"Backspace">>} : b = k \o r
    BY <1>6
  <2>2. k \in Seq(Bytes) /\ r \in Seq(Bytes)
    BY BatchBytes DEF Single
  <2>3. PICK u : Ends(s, k, u) /\ Ends(u, r, t)
    BY <2>1, <2>2, EndsTwice
  <2>4. Outcome(s, u) /\ u.returned
    BY <1>6, <2>3, KeyBatchOutcome
  <2>5. PICK c : r = <<c>>
    BY DEF LetterBatches
  <2>6. t = ReceiveChar(u, c)
    BY <2>3, <2>5, OneByte
  <2>7. t = u
    BY <2>4, <2>6 DEF ReceiveChar
  <2> QED BY <2>4, <2>7, OutcomeIsDone
<1> QED BY <1>1, <1>2, <1>3, <1>4, <1>5, <1>6 DEF Batches, Single

\* What the keys do to a line of the editor, field by field.
LEMMA LineFields ==
  ASSUME NEW x1, NEW x2, NEW x3, NEW x4
  PROVE  /\ EditorLine(x1, x2, x3, x4).text = x1 /\ EditorLine(x1, x2, x3, x4).cursor = x2
         /\ EditorLine(x1, x2, x3, x4).history = x3 /\ EditorLine(x1, x2, x3, x4).recall = x4
BY DEF EditorLine

LEMMA NothingPressed ==
  ASSUME NEW edited, NEW key,
         \/ key = "None"
         \/ key = "Backspace" /\ ~(edited.cursor > 0)
         \/ key = "Delete" /\ edited.cursor \notin 1 .. Len(edited.text) - 1
         \/ key = "Tab" /\ Editor!Completions(edited) = {}
         \/ key = "Left" /\ ~(edited.cursor > 0)
         \/ key = "Right" /\ ~(edited.cursor < Len(edited.text))
  PROVE  Editor!Pressed(edited, key) = edited
<1>1. CASE key = "None"
  BY <1>1 DEF Editor!Pressed
<1>2. CASE key = "Backspace" /\ ~(edited.cursor > 0)
  BY <1>2 DEF Editor!Pressed
<1>3. CASE key = "Delete" /\ edited.cursor \notin 1 .. Len(edited.text) - 1
  BY <1>3 DEF Editor!Pressed
<1>4. CASE key = "Tab" /\ Editor!Completions(edited) = {}
  BY <1>4 DEF Editor!Pressed
<1>5. CASE key = "Left" /\ ~(edited.cursor > 0)
  BY <1>5 DEF Editor!Pressed
<1>6. CASE key = "Right" /\ ~(edited.cursor < Len(edited.text))
  BY <1>6 DEF Editor!Pressed
<1> QED BY <1>1, <1>2, <1>3, <1>4, <1>5, <1>6

LEMMA BackspacePressed ==
  ASSUME NEW x1, NEW x2, NEW x3, NEW x4, x2 > 0
  PROVE  Editor!Pressed(EditorLine(x1, x2, x3, x4), "Backspace")
           = EditorLine(RemoveAt(x1, x2), x2 - 1, x3, x4)
<1> DEFINE old == EditorLine(x1, x2, x3, x4)
           new == RemoveAt(x1, x2)
<1>1. old.text = x1 /\ old.cursor = x2
  BY LineFields
<1>2. Editor!Without(x1, x2) = new
  BY DEF Editor!Without, Editor!Before, Editor!From, RemoveAt
<1> HIDE DEF new
<1>3. [EditorLine(x1, x2, x3, x4) EXCEPT !.text = new] = EditorLine(new, x2, x3, x4)
  BY DEF EditorLine
<1>4. [EditorLine(new, x2, x3, x4) EXCEPT !.cursor = x2 - 1] = EditorLine(new, x2 - 1, x3, x4)
  BY DEF EditorLine
<1> HIDE DEF old
<1>5. Editor!Pressed(old, "Backspace") = [old EXCEPT !.text = new, !.cursor = x2 - 1]
  BY <1>1, <1>2 DEF Editor!Pressed
<1> QED BY <1>3, <1>4, <1>5 DEF old, new

LEMMA DeletePressed ==
  ASSUME NEW x1, NEW x2, NEW x3, NEW x4, x2 \in 1 .. Len(x1) - 1
  PROVE  Editor!Pressed(EditorLine(x1, x2, x3, x4), "Delete")
           = EditorLine(RemoveAt(x1, x2 + 1), x2, x3, x4)
<1> DEFINE old == EditorLine(x1, x2, x3, x4)
           new == RemoveAt(x1, x2 + 1)
<1>1. old.text = x1 /\ old.cursor = x2
  BY LineFields
<1>2. Editor!Without(x1, x2 + 1) = new
  BY DEF Editor!Without, Editor!Before, Editor!From, RemoveAt
<1> HIDE DEF new
<1>3. [EditorLine(x1, x2, x3, x4) EXCEPT !.text = new] = EditorLine(new, x2, x3, x4)
  BY DEF EditorLine
<1> HIDE DEF old
<1>4. Editor!Pressed(old, "Delete") = [old EXCEPT !.text = new]
  BY <1>1, <1>2 DEF Editor!Pressed
<1> QED BY <1>3, <1>4 DEF old, new

LEMMA ArrowPressed ==
  ASSUME NEW x1, NEW x2, NEW x3, NEW x4
  PROVE  /\ x2 > 0 => Editor!Pressed(EditorLine(x1, x2, x3, x4), "Left")
                        = EditorLine(x1, x2 - 1, x3, x4)
         /\ x2 < Len(x1) => Editor!Pressed(EditorLine(x1, x2, x3, x4), "Right")
                              = EditorLine(x1, x2 + 1, x3, x4)
<1> DEFINE old == EditorLine(x1, x2, x3, x4)
<1>1. old.text = x1 /\ old.cursor = x2
  BY LineFields
<1>2. ASSUME NEW y
      PROVE  [EditorLine(x1, x2, x3, x4) EXCEPT !.cursor = y] = EditorLine(x1, y, x3, x4)
  BY DEF EditorLine
<1>3. [old EXCEPT !.cursor = x2 - 1] = EditorLine(x1, x2 - 1, x3, x4)
  BY DEF EditorLine
<1>4. [old EXCEPT !.cursor = x2 + 1] = EditorLine(x1, x2 + 1, x3, x4)
  BY DEF EditorLine
<1> HIDE DEF old
<1>5. ASSUME x2 > 0 PROVE Editor!Pressed(old, "Left") = [old EXCEPT !.cursor = x2 - 1]
  BY <1>1, <1>5 DEF Editor!Pressed
<1>6. ASSUME x2 < Len(x1) PROVE Editor!Pressed(old, "Right") = [old EXCEPT !.cursor = x2 + 1]
  BY <1>1, <1>6 DEF Editor!Pressed
<1> QED BY <1>3, <1>4, <1>5, <1>6 DEF old

\* A line that another text replaces.
LEMMA LineReplaced ==
  ASSUME NEW x1, NEW x2, NEW x3, NEW x4, NEW y1
  PROVE  Editor!AtEnd(EditorLine(x1, x2, x3, x4), y1) = EditorLine(y1, Len(y1), x3, x4)
<1>1. [EditorLine(x1, x2, x3, x4) EXCEPT !.text = y1] = EditorLine(y1, x2, x3, x4)
  BY DEF EditorLine
<1>2. [EditorLine(y1, x2, x3, x4) EXCEPT !.cursor = Len(y1)] = EditorLine(y1, Len(y1), x3, x4)
  BY DEF EditorLine
<1>3. Editor!AtEnd(EditorLine(x1, x2, x3, x4), y1)
        = [EditorLine(x1, x2, x3, x4) EXCEPT !.text = y1, !.cursor = Len(y1)]
  BY DEF Editor!AtEnd
<1> QED BY <1>1, <1>2, <1>3

LEMMA TabPressed ==
  ASSUME NEW edited, NEW k, Editor!Completions(edited) # {},
         k = CHOOSE i \in Editor!Completions(edited) : \A j \in Editor!Completions(edited) : i <= j
  PROVE  Editor!Pressed(edited, "Tab") = Editor!AtEnd(edited, CommandNames[k])
BY DEF Editor!Pressed

LEMMA RecallPressed ==
  ASSUME NEW x1, NEW x2, NEW x3, NEW x4
  PROVE  /\ Editor!Pressed(EditorLine(x1, x2, x3, x4), "Up")
              = EditorLine(x3[x4], Len(x3[x4]), x3, IF x4 = 1 THEN Len(x3) ELSE x4 - 1)
         /\ Editor!Pressed(EditorLine(x1, x2, x3, x4), "Down")
              = EditorLine(x3[IF x4 = Len(x3) THEN 1 ELSE x4 + 1],
                           Len(x3[IF x4 = Len(x3) THEN 1 ELSE x4 + 1]), x3,
                           IF x4 = Len(x3) THEN 1 ELSE x4 + 1)
<1> DEFINE old == EditorLine(x1, x2, x3, x4)
           older == IF x4 = 1 THEN Len(x3) ELSE x4 - 1
           newer == IF x4 = Len(x3) THEN 1 ELSE x4 + 1
<1>1. old.history = x3 /\ old.recall = x4
  BY LineFields
<1>2. Editor!Older(old) = older /\ Editor!Newer(old) = newer
  BY <1>1 DEF Editor!Older, Editor!Newer
<1> HIDE DEF older, newer
<1>3. /\ Editor!AtEnd(old, x3[x4]) = EditorLine(x3[x4], Len(x3[x4]), x3, x4)
      /\ Editor!AtEnd(old, x3[newer]) = EditorLine(x3[newer], Len(x3[newer]), x3, x4)
  BY LineReplaced
<1>4. /\ [EditorLine(x3[x4], Len(x3[x4]), x3, x4) EXCEPT !.recall = older]
           = EditorLine(x3[x4], Len(x3[x4]), x3, older)
      /\ [EditorLine(x3[newer], Len(x3[newer]), x3, x4) EXCEPT !.recall = newer]
           = EditorLine(x3[newer], Len(x3[newer]), x3, newer)
  BY DEF EditorLine
<1> HIDE DEF old
<1>5. Editor!Pressed(old, "Up") = [Editor!AtEnd(old, x3[x4]) EXCEPT !.recall = older]
  BY <1>1, <1>2 DEF Editor!Pressed
<1>6. Editor!Pressed(old, "Down") = [Editor!AtEnd(old, x3[newer]) EXCEPT !.recall = newer]
  BY <1>1, <1>2 DEF Editor!Pressed
<1> QED BY <1>3, <1>4, <1>5, <1>6 DEF old, older, newer

LEMMA EnterPressed ==
  ASSUME NEW x1, NEW x2, NEW x3, NEW x4
  PROVE  /\ x1 \in {<<>>} \cup ToSet(x3) =>
              Editor!Pressed(EditorLine(x1, x2, x3, x4), "Enter") = EditorLine(<<>>, 0, x3, x4)
         /\ x1 \notin {<<>>} \cup ToSet(x3) =>
              Editor!Pressed(EditorLine(x1, x2, x3, x4), "Enter")
                = EditorLine(<<>>, 0, Append(Tail(x3), x1), Len(x3))
<1> DEFINE old == EditorLine(x1, x2, x3, x4)
           empty == [old EXCEPT !.text = <<>>, !.cursor = 0]
           saved == Append(Tail(x3), x1)
<1>1. old.text = x1 /\ old.history = x3
  BY LineFields
<1>2. [EditorLine(x1, x2, x3, x4) EXCEPT !.text = <<>>] = EditorLine(<<>>, x2, x3, x4)
  BY DEF EditorLine
<1>3. [EditorLine(<<>>, x2, x3, x4) EXCEPT !.cursor = 0] = EditorLine(<<>>, 0, x3, x4)
  BY DEF EditorLine
<1>4. empty = EditorLine(<<>>, 0, x3, x4)
  BY <1>2, <1>3
<1> HIDE DEF saved
<1>5. [EditorLine(<<>>, 0, x3, x4) EXCEPT !.history = saved] = EditorLine(<<>>, 0, saved, x4)
  BY DEF EditorLine
<1>6. [EditorLine(<<>>, 0, saved, x4) EXCEPT !.recall = Len(x3)]
        = EditorLine(<<>>, 0, saved, Len(x3))
  BY DEF EditorLine
<1>7. (\E k \in DOMAIN x3 : x3[k] = x1) <=> x1 \in ToSet(x3)
  BY DEF ToSet
<1>8. Editor!Pressed(old, "Enter") = Editor!Entered(old)
  <2> HIDE DEF old
  <2> QED BY DEF Editor!Pressed
<1>9. Editor!Entered(old) = IF x1 \in {<<>>} \cup ToSet(x3) THEN empty
                            ELSE [empty EXCEPT !.history = saved, !.recall = Len(x3)]
  <2> HIDE DEF old
  <2> QED BY <1>1, <1>7 DEF Editor!Entered, saved
<1> HIDE DEF old, empty
<1>10. [empty EXCEPT !.history = saved, !.recall = Len(x3)] = EditorLine(<<>>, 0, saved, Len(x3))
  BY <1>4, <1>5, <1>6
<1> QED BY <1>4, <1>8, <1>9, <1>10 DEF old, saved

\* The line on the variables, and what the history may hold.
EditedNow ==
    /\ line \in [Cells -> Letters \cup {EndOfString}]
    /\ actualLength \in 0 .. MaxLength /\ cursorPosition \in 0 .. actualLength
    /\ \A i \in 0 .. actualLength - 1 : line[i] \in Letters
HistoryOK ==
    /\ historyList \in [Entries -> Seq(Letters)]
    /\ \A e \in Entries : Len(historyList[e]) \in 1 .. MaxLength - 1
    /\ saveCnt \in Entries /\ loadCnt \in Entries
LineNow == EditorLine([k \in 1 .. actualLength |-> line[k - 1]], cursorPosition, History, Recall)

Carried(st, key) == EditedNow' /\ HistoryOK' /\ LineNow' = Editor!Pressed(LineOf(st), key)

LEMMA LineOfIs ==
  ASSUME NEW st
  PROVE  LineOf(st) = EditorLine(LettersOf(st), st.cursor, History, Recall)
BY DEF LineOf, EditorLine

\* A key that leaves the history alone.
LEMMA EditIsCarried ==
  ASSUME HistoryOK, UNCHANGED historyVars, NEW st, NEW key, NEW u, Edited(u), SetEdit(u),
         LineOf(u) = Editor!Pressed(LineOf(st), key)
  PROVE  Carried(st, key)
<1>1. History' = History /\ Recall' = Recall
  BY DEF History, Recall, historyVars
<1>2. HistoryOK'
  BY DEF HistoryOK, historyVars
<1>3. EditedNow'
  BY Zenon DEF EditedNow, Edited, SetEdit
<1>4. [k \in 1 .. actualLength' |-> line'[k - 1]] = LettersOf(u) /\ cursorPosition' = u.cursor
  BY DEF LettersOf, SetEdit
<1>5. LineNow' = LineOf(u)
  BY <1>1, <1>4, LineOfIs DEF LineNow
<1> QED BY <1>2, <1>3, <1>5 DEF Carried

LEMMA LetterRemoved ==
  ASSUME NEW st, IsState(st), NEW position \in 0 .. st.length - 1, st.length \in 0 .. MaxLength,
         st.line \in [Cells -> Letters \cup {EndOfString}], st.cursor \in 0 .. st.length - 1,
         \A i \in 0 .. st.length - 1 : st.line[i] \in Letters
  PROVE  /\ Edited(RemoveLetter(st, position))
         /\ LettersOf(RemoveLetter(st, position)) = RemoveAt(LettersOf(st), position + 1)
         /\ RemoveLetter(st, position).cursor = st.cursor
<1> DEFINE u == RemoveLetter(st, position)
           new == [i \in Cells |-> IF i = st.length - 1 THEN EndOfString
                                   ELSE IF i \in position .. st.length - 2 THEN st.line[i + 1]
                                   ELSE st.line[i]]
           n == st.length
           q == LettersOf(st)
           j == position + 1
<1>1. u.line = new /\ u.length = n - 1 /\ u.cursor = st.cursor
  BY DEF RemoveLetter, IsState, Fields
<1> HIDE DEF u
<1>2. /\ n \in Nat /\ n >= 1 /\ n <= MaxLength /\ position \in Nat /\ position < n /\ n - 1 \in Nat
      /\ st.cursor \in Nat /\ n \in Int /\ j \in 1 .. n
  BY TerminalConstants
<1>3. new \in [Cells -> Letters \cup {EndOfString}]
  <2>1. \A i \in Cells : i \in position .. n - 2 => i + 1 \in Cells
    BY <1>2, TerminalConstants
  <2> QED BY <2>1
<1>4. /\ q \in [1 .. n -> Letters]
      /\ \A k \in 1 .. n : q[k] = st.line[k - 1]
  <2>1. \A k \in 1 .. n : k - 1 \in 0 .. n - 1
    BY <1>2
  <2> QED BY <2>1 DEF LettersOf
<1>5. RemovedFrom(RemoveAt(q, j), q, n, j)
  BY <1>2, <1>4, RemovedElement
<1>6. ASSUME NEW k \in 1 .. n - 1
      PROVE  new[k - 1] = IF k < j THEN q[k] ELSE q[k + 1]
  <2>1. k - 1 \in Cells /\ k - 1 # n - 1 /\ k \in 1 .. n /\ k + 1 \in 1 .. n /\ k + 1 - 1 = k
        /\ k - 1 + 1 = k
    BY <1>2, TerminalConstants
  <2>2. k < j => k - 1 \notin position .. n - 2
    BY <1>2
  <2>3. ~(k < j) => k - 1 \in position .. n - 2
    BY <1>2
  <2> QED BY <1>4, <2>1, <2>2, <2>3
<1> HIDE DEF new, q
<1>7. LettersOf(u) = [k \in 1 .. n - 1 |-> IF k < j THEN q[k] ELSE q[k + 1]]
  BY <1>1, <1>6 DEF LettersOf
<1>8. LettersOf(u) = RemoveAt(q, j)
  BY <1>5, <1>7 DEF RemovedFrom
<1>9. Edited(u)
  <2>1. u.length \in 0 .. MaxLength /\ u.cursor \in 0 .. u.length
    BY <1>1, <1>2, TerminalConstants
  <2>2. ASSUME NEW i \in 0 .. u.length - 1 PROVE u.line[i] \in Letters
    <3> DEFINE k == i + 1
    <3>1. k \in 1 .. n - 1 /\ k - 1 = i /\ k \in 1 .. n /\ k + 1 \in 1 .. n
      BY <1>1, <1>2
    <3> HIDE DEF k
    <3>2. new[i] = IF k < j THEN q[k] ELSE q[k + 1]
      BY <1>6, <3>1
    <3> QED BY <1>1, <1>4, <3>1, <3>2
  <2> QED BY <1>1, <1>3, <2>1, <2>2 DEF Edited
<1> QED BY <1>1, <1>8, <1>9 DEF u, q

LEMMA BackspaceCarried ==
  ASSUME HistoryOK, UNCHANGED historyVars, NEW st, IsState(st), Edited(st),
         SetEdit(CommandBackspace(st))
  PROVE  Carried(st, "Backspace")
<1> DEFINE u == CommandBackspace(st)
<1>1. /\ st.line \in [Cells -> Letters \cup {EndOfString}] /\ st.length \in 0 .. MaxLength
      /\ st.length \in Nat /\ st.cursor \in 0 .. st.length
      /\ \A i \in 0 .. st.length - 1 : st.line[i] \in Letters
  BY TerminalConstants DEF Edited
<1>2. CASE st.cursor = 0
  <2>1. u = st
    BY <1>2 DEF CommandBackspace
  <2>2. LineOf(st).cursor = 0
    BY <1>2 DEF LineOf
  <2>3. Editor!Pressed(LineOf(st), "Backspace") = LineOf(st)
    <3>1. ~(LineOf(st).cursor > 0)
      BY <2>2
    <3> QED BY <3>1, NothingPressed
  <2> QED BY <2>1, <2>3, EditIsCarried
<1>3. CASE st.cursor # 0
  <2> DEFINE s0 == [st EXCEPT !.cursor = @ - 1]
  <2>1. u = RemoveLetter(s0, st.cursor - 1)
    BY <1>3 DEF CommandBackspace
  <2>2. /\ IsState(s0) /\ s0.line = st.line /\ s0.length = st.length
        /\ s0.cursor = st.cursor - 1
    BY DEF IsState, Fields
  <2> HIDE DEF s0
  <2>3. LettersOf(s0) = LettersOf(st)
    BY <2>2 DEF LettersOf
  <2>4. st.cursor - 1 \in 0 .. st.length - 1 /\ st.cursor - 1 + 1 = st.cursor /\ st.cursor > 0
    BY <1>1, <1>3
  <2>5. /\ Edited(u) /\ LettersOf(u) = RemoveAt(LettersOf(s0), st.cursor - 1 + 1)
        /\ u.cursor = s0.cursor
    <3> DEFINE position == st.cursor - 1
    <3>1. /\ position \in 0 .. s0.length - 1 /\ s0.length \in 0 .. MaxLength
          /\ s0.line \in [Cells -> Letters \cup {EndOfString}] /\ s0.cursor \in 0 .. s0.length - 1
          /\ \A i \in 0 .. s0.length - 1 : s0.line[i] \in Letters
      BY <1>1, <2>2, <2>4
    <3> HIDE DEF position
    <3>2. /\ Edited(RemoveLetter(s0, position))
          /\ LettersOf(RemoveLetter(s0, position)) = RemoveAt(LettersOf(s0), position + 1)
          /\ RemoveLetter(s0, position).cursor = s0.cursor
      BY <2>2, <3>1, LetterRemoved
    <3> QED BY <2>1, <3>2 DEF position
  <2>6. LineOf(u) = EditorLine(RemoveAt(LettersOf(st), st.cursor), st.cursor - 1, History, Recall)
    BY <2>2, <2>3, <2>4, <2>5, LineOfIs
  <2>7. Editor!Pressed(LineOf(st), "Backspace")
          = EditorLine(RemoveAt(LettersOf(st), st.cursor), st.cursor - 1, History, Recall)
    BY <2>4, LineOfIs, BackspacePressed
  <2> QED BY <2>5, <2>6, <2>7, EditIsCarried
<1> QED BY <1>2, <1>3

LEMMA DeleteCarried ==
  ASSUME HistoryOK, UNCHANGED historyVars, NEW st, IsState(st), Edited(st),
         SetEdit(CommandDelete(st))
  PROVE  Carried(st, "Delete")
<1> DEFINE u == CommandDelete(st)
<1>1. /\ st.line \in [Cells -> Letters \cup {EndOfString}] /\ st.length \in 0 .. MaxLength
      /\ st.length \in Nat /\ st.cursor \in 0 .. st.length
      /\ \A i \in 0 .. st.length - 1 : st.line[i] \in Letters
  BY TerminalConstants DEF Edited
<1>2. Len(LettersOf(st)) = st.length
  BY LineLength
<1>3. CASE st.cursor \notin 1 .. st.length - 1
  <2>1. u = st
    BY <1>3 DEF CommandDelete
  <2>2. LineOf(st).cursor = st.cursor /\ Len(LineOf(st).text) = st.length
    BY <1>2 DEF LineOf
  <2>3. Editor!Pressed(LineOf(st), "Delete") = LineOf(st)
    <3>1. LineOf(st).cursor \notin 1 .. Len(LineOf(st).text) - 1
      BY <1>3, <2>2
    <3> QED BY <3>1, NothingPressed
  <2> QED BY <2>1, <2>3, EditIsCarried
<1>4. CASE st.cursor \in 1 .. st.length - 1
  <2>1. u = RemoveLetter(st, st.cursor)
    BY <1>4 DEF CommandDelete
  <2>2. st.cursor \in 0 .. st.length - 1
    BY <1>1, <1>4
  <2>3. /\ Edited(u) /\ LettersOf(u) = RemoveAt(LettersOf(st), st.cursor + 1)
        /\ u.cursor = st.cursor
    <3> HIDE DEF u
    <3> QED BY <1>1, <2>1, <2>2, LetterRemoved
  <2>4. LineOf(u) = EditorLine(RemoveAt(LettersOf(st), st.cursor + 1), st.cursor, History, Recall)
    BY <2>3, LineOfIs
  <2>5. Editor!Pressed(LineOf(st), "Delete")
          = EditorLine(RemoveAt(LettersOf(st), st.cursor + 1), st.cursor, History, Recall)
    <3>1. st.cursor \in 1 .. Len(LettersOf(st)) - 1
      BY <1>2, <1>4
    <3> QED BY <3>1, LineOfIs, DeletePressed
  <2> QED BY <2>3, <2>4, <2>5, EditIsCarried
<1> QED BY <1>3, <1>4

LEMMA StringCopied ==
  ASSUME NEW st, IsState(st), st.line \in [Cells -> Letters \cup {EndOfString}],
         NEW string \in Seq(Letters), Len(string) <= MaxLength - 1
  PROVE  /\ Edited(CopyToLine(st, string)) /\ LettersOf(CopyToLine(st, string)) = string
         /\ CopyToLine(st, string).cursor = Len(string)
<1> DEFINE u == CopyToLine(st, string)
           n == Len(string)
           new == [i \in Cells |-> IF i < n THEN string[i + 1]
                                   ELSE IF i = n THEN EndOfString ELSE st.line[i]]
<1>1. u.line = new /\ u.length = n /\ u.cursor = n
  BY DEF CopyToLine, IsState, Fields
<1> HIDE DEF u
<1>2. n \in Nat /\ n <= MaxLength - 1 /\ string \in [1 .. n -> Letters]
  OBVIOUS
<1>3. string = [k \in 1 .. n |-> string[k]]
  BY <1>2
<1> HIDE DEF n
<1>4. \A i \in Cells : i < n => i + 1 \in 1 .. n
  BY <1>2, TerminalConstants
<1>5. new \in [Cells -> Letters \cup {EndOfString}]
  BY <1>2, <1>4
<1>6. \A i \in 0 .. n - 1 : i \in Cells /\ i < n
  BY <1>2, TerminalConstants
<1>7. \A i \in 0 .. n - 1 : new[i] = string[i + 1] /\ new[i] \in Letters
  BY <1>2, <1>4, <1>6
<1> HIDE DEF new
<1>8. Edited(u)
  <2>1. n \in 0 .. MaxLength /\ n \in 0 .. n
    BY <1>2, TerminalConstants
  <2> QED BY <1>1, <1>5, <1>7, <2>1 DEF Edited
<1>9. LettersOf(u) = string
  <2>1. \A k \in 1 .. n : new[k - 1] = string[k]
    <3>1. \A k \in 1 .. n : k - 1 \in 0 .. n - 1 /\ k - 1 + 1 = k
      BY <1>2
    <3> QED BY <1>7, <3>1
  <2> QED BY <1>1, <1>3, <2>1 DEF LettersOf
<1> QED BY <1>1, <1>8, <1>9 DEF u, n

LEMMA FirstPart ==
  ASSUME NEW S, NEW q \in Seq(S), NEW n \in Nat, n <= Len(q)
  PROVE  /\ SubSeq(q, 1, n) \in Seq(S) /\ Len(SubSeq(q, 1, n)) = n
         /\ \A i \in 1 .. n : SubSeq(q, 1, n)[i] = q[i]
<1> DEFINE a == SubSeq(q, 1, n)
<1>1. a = SubSeq(q, 1, n) /\ n - 1 + 1 = n /\ \A i \in 1 .. n : q[i] \in S
  OBVIOUS
<1> HIDE DEF a
<1>2. /\ a \in Seq(S) /\ Len(a) = IF 1 <= n THEN n - 1 + 1 ELSE 0
      /\ \A i \in 1 .. n - 1 + 1 : a[i] = q[1 + i - 1]
  BY <1>1, SubSeqProperties
<1>3. Len(a) = n
  BY <1>2
<1>4. ASSUME NEW i \in 1 .. n PROVE a[i] = q[i]
  <2>1. i \in 1 .. n - 1 + 1 /\ 1 + i - 1 = i
    OBVIOUS
  <2> QED BY <1>2, <2>1
<1> QED BY <1>2, <1>3, <1>4 DEF a

LEMMA PrefixIs ==
  ASSUME NEW S, NEW p \in Seq(S), NEW q \in Seq(S)
  PROVE  IsPrefix(p, q) <=> Len(p) <= Len(q) /\ \A i \in 1 .. Len(p) : q[i] = p[i]
<1> DEFINE n == Len(p)
<1>1. n \in Nat
  OBVIOUS
<1> SUFFICES ASSUME n <= Len(q)
             PROVE  SubSeq(p, 1, n) = SubSeq(q, 1, n) <=> \A i \in 1 .. n : q[i] = p[i]
  BY DEF IsPrefix
<1>2. /\ SubSeq(p, 1, n) \in Seq(S) /\ Len(SubSeq(p, 1, n)) = n
      /\ \A i \in 1 .. n : SubSeq(p, 1, n)[i] = p[i]
  <2>1. n <= Len(p)
    BY <1>1
  <2> HIDE DEF n
  <2> QED BY <1>1, <2>1, FirstPart
<1>3. /\ SubSeq(q, 1, n) \in Seq(S) /\ Len(SubSeq(q, 1, n)) = n
      /\ \A i \in 1 .. n : SubSeq(q, 1, n)[i] = q[i]
  <2> HIDE DEF n
  <2> QED BY <1>1, FirstPart
<1> HIDE DEF n
<1>4. ASSUME \A i \in 1 .. n : q[i] = p[i] PROVE SubSeq(p, 1, n) = SubSeq(q, 1, n)
  BY <1>2, <1>3, <1>4, SeqEqual
<1>5. ASSUME SubSeq(p, 1, n) = SubSeq(q, 1, n), NEW i \in 1 .. n PROVE q[i] = p[i]
  BY <1>2, <1>3, <1>5
<1> QED BY <1>4, <1>5

LEMMA TabCarried ==
  ASSUME HistoryOK, UNCHANGED historyVars, NEW st, IsState(st), Edited(st),
         SetEdit(CommandTabulator(st))
  PROVE  Carried(st, "Tab")
<1> DEFINE u == CommandTabulator(st)
           matching == {k \in DOMAIN CommandNames : Matches(st, CommandNames[k])}
           completions == Editor!Completions(LineOf(st))
           text == LettersOf(st)
<1>1. /\ text \in Seq(Letters) /\ Len(text) = st.length /\ st.length \in Nat
      /\ \A k \in 1 .. st.length : text[k] = st.line[k - 1]
  BY LineLength
<1>2. DOMAIN CommandNames = 1 .. Len(CommandNames) /\ Len(CommandNames) \in Nat
      /\ \A k \in DOMAIN CommandNames : /\ CommandNames[k] \in Seq(Letters)
                                        /\ Len(CommandNames[k]) \in 1 .. MaxLength - 1
  BY TerminalAssumption
<1>3. ASSUME NEW name \in Seq(Letters)
      PROVE  Matches(st, name) <=> text # <<>> /\ Editor!StartsWith(name, text)
  <2>1. Editor!StartsWith(name, text) <=> IsPrefix(text, name)
    <3>1. text \in Seq(Letters) /\ SubSeq(text, 1, Len(text)) = text
      BY <1>1, SubSeqFull
    <3> QED BY <3>1 DEF Editor!StartsWith, IsPrefix
  <2>2. IsPrefix(text, name)
          <=> st.length <= Len(name) /\ \A i \in 1 .. st.length : name[i] = text[i]
    BY <1>1, PrefixIs
  <2>3. text # <<>> <=> st.length # 0
    BY <1>1
  <2>4. (\A i \in 0 .. st.length - 1 : name[i + 1] = st.line[i])
          <=> \A i \in 1 .. st.length : name[i] = text[i]
    <3>1. ASSUME \A i \in 0 .. st.length - 1 : name[i + 1] = st.line[i], NEW i \in 1 .. st.length
          PROVE  name[i] = text[i]
      <4>1. i - 1 \in 0 .. st.length - 1 /\ i - 1 + 1 = i
        BY <1>1
      <4> QED BY <1>1, <3>1, <4>1
    <3>2. ASSUME \A i \in 1 .. st.length : name[i] = text[i], NEW i \in 0 .. st.length - 1
          PROVE  name[i + 1] = st.line[i]
      <4>1. i + 1 \in 1 .. st.length /\ i + 1 - 1 = i
        BY <1>1
      <4> QED BY <1>1, <3>2, <4>1
    <3> QED BY <3>1, <3>2
  <2> HIDE DEF text
  <2> QED BY <2>1, <2>2, <2>3, <2>4 DEF Matches
<1>4. completions = matching
  <2>1. LineOf(st).text = text
    BY DEF LineOf
  <2>2. completions = {k \in 1 .. Len(CommandNames) :
                          text # <<>> /\ Editor!StartsWith(CommandNames[k], text)}
    BY <2>1 DEF Editor!Completions
  <2> HIDE DEF text
  <2> QED BY <1>2, <1>3, <2>2
<1> HIDE DEF text
<1>5. CASE matching = {}
  <2>1. u = st
    BY <1>5 DEF CommandTabulator
  <2>2. Editor!Pressed(LineOf(st), "Tab") = LineOf(st)
    BY <1>4, <1>5, NothingPressed
  <2> QED BY <2>1, <2>2, EditIsCarried
<1>6. CASE matching # {}
  <2> DEFINE k == CHOOSE i \in matching : \A j \in matching : i <= j
  <2>1. u = CopyToLine(st, CommandNames[k])
    BY <1>6 DEF CommandTabulator
  <2>2. k \in matching
    <3>1. matching \subseteq Nat
      BY <1>2
    <3> HIDE DEF matching
    <3>2. \E i \in matching : \A j \in matching : i <= j
      BY <1>6, <3>1, LeastNumber
    <3> QED BY <3>2
  <2>3. CommandNames[k] \in Seq(Letters) /\ Len(CommandNames[k]) <= MaxLength - 1
    <3>1. k \in DOMAIN CommandNames
      BY <2>2
    <3> HIDE DEF k
    <3>2. CommandNames[k] \in Seq(Letters) /\ Len(CommandNames[k]) \in 1 .. MaxLength - 1
      BY <1>2, <3>1
    <3> QED BY <3>2, TerminalConstants
  <2>4. k = CHOOSE i \in completions : \A j \in completions : i <= j
    BY <1>4
  <2> HIDE DEF k, u
  <2>5. Edited(u) /\ LettersOf(u) = CommandNames[k] /\ u.cursor = Len(CommandNames[k])
    <3>1. st.line \in [Cells -> Letters \cup {EndOfString}]
      BY DEF Edited
    <3> DEFINE string == CommandNames[k]
    <3>2. string \in Seq(Letters) /\ Len(string) <= MaxLength - 1
      BY <2>3
    <3> HIDE DEF string
    <3>3. /\ Edited(CopyToLine(st, string)) /\ LettersOf(CopyToLine(st, string)) = string
          /\ CopyToLine(st, string).cursor = Len(string)
      BY <3>1, <3>2, StringCopied
    <3> QED BY <2>1, <3>3 DEF string
  <2>6. LineOf(u) = EditorLine(CommandNames[k], Len(CommandNames[k]), History, Recall)
    BY <2>5, LineOfIs
  <2>7. Editor!Pressed(LineOf(st), "Tab")
          = EditorLine(CommandNames[k], Len(CommandNames[k]), History, Recall)
    <3>1. LineOf(st) = EditorLine(LettersOf(st), st.cursor, History, Recall)
      BY LineOfIs
    <3>2. completions # {}
      BY <1>4, <1>6
    <3>3. Editor!Pressed(LineOf(st), "Tab") = Editor!AtEnd(LineOf(st), CommandNames[k])
      <4> DEFINE edited == LineOf(st)
      <4> HIDE DEF edited
      <4>1. /\ Editor!Completions(edited) # {}
            /\ k = CHOOSE i \in Editor!Completions(edited) :
                      \A j \in Editor!Completions(edited) : i <= j
        BY <2>4, <3>2 DEF edited
      <4>2. Editor!Pressed(edited, "Tab") = Editor!AtEnd(edited, CommandNames[k])
        BY <4>1, TabPressed
      <4> QED BY <4>2 DEF edited
    <3> QED BY <3>1, <3>3, LineReplaced
  <2> QED BY <2>5, <2>6, <2>7, EditIsCarried DEF u
<1> QED BY <1>5, <1>6

\* The history as a ring: its k-th oldest entry, and the entry that is recalled next.
Slot(save, k) == IF save + k < HistorySize THEN save + k ELSE save + k - HistorySize
HistoryOf(list, save) == [k \in 1 .. HistorySize |-> list[(save + k) % HistorySize]]
RecallOf(save, load) == IF load = save THEN HistorySize ELSE (load - save) % HistorySize

LEMMA HistoryEntries ==
  ASSUME NEW list, list \in [Entries -> Seq(Letters)], NEW save \in Entries
  PROVE  /\ HistoryOf(list, save) \in Seq(Seq(Letters))
         /\ Len(HistoryOf(list, save)) = HistorySize
         /\ \A k \in 1 .. HistorySize : /\ Slot(save, k) \in Entries
                                        /\ HistoryOf(list, save)[k] = list[Slot(save, k)]
<1> DEFINE n == HistorySize
           h == HistoryOf(list, save)
<1>1. n \in Nat \ {0} /\ save \in 0 .. n - 1 /\ Entries = 0 .. n - 1 /\ save \in Int /\ n \in Nat
  BY TerminalConstants
<1>2. ASSUME NEW k \in 1 .. n
      PROVE  Slot(save, k) \in Entries /\ (save + k) % n = Slot(save, k)
  <2>1. k \in Int
    OBVIOUS
  <2>2. CASE save + k < n
    <3>1. save + k \in 0 .. n - 1 /\ save + k \in Int
      BY <1>1, <2>2
    <3> HIDE DEF n
    <3>2. (save + k) % n = save + k
      BY <1>1, <3>1, Wraps
    <3> QED BY <1>1, <2>2, <3>1, <3>2 DEF Slot, n
  <2>3. CASE ~(save + k < n)
    <3>1. save + k \in n .. 2 * n - 1 /\ save + k \in Int /\ save + k - n \in 0 .. n - 1
      BY <1>1, <2>3
    <3> HIDE DEF n
    <3>2. (save + k) % n = save + k - n
      <4> DEFINE x == save + k
      <4>1. x \in Int /\ x \in n .. 2 * n - 1
        BY <3>1
      <4> HIDE DEF x
      <4>2. x % n = x - n
        BY <1>1, <4>1, Wraps
      <4> QED BY <1>1, <2>1, <4>2 DEF x
    <3> QED BY <1>1, <2>3, <3>1, <3>2 DEF Slot, n
  <2> QED BY <2>2, <2>3
<1>3. ASSUME NEW k \in 1 .. n PROVE h[k] = list[Slot(save, k)]
  BY <1>2 DEF HistoryOf
<1>4. h \in [1 .. n -> Seq(Letters)]
  <2>1. h = [k \in 1 .. n |-> h[k]]
    BY DEF HistoryOf
  <2>2. \A k \in 1 .. n : h[k] \in Seq(Letters)
    BY <1>2, <1>3
  <2> HIDE DEF h, n
  <2> QED BY <2>1, <2>2
<1> HIDE DEF h
<1>5. h \in Seq(Seq(Letters)) /\ Len(h) = n
  <2> HIDE DEF n
  <2> QED BY <1>1, <1>4
<1> QED BY <1>2, <1>3, <1>5 DEF h

LEMMA RecallIs ==
  ASSUME NEW save \in Entries, NEW load \in Entries
  PROVE  /\ RecallOf(save, load) = IF load > save THEN load - save
                                   ELSE load - save + HistorySize
         /\ RecallOf(save, load) \in 1 .. HistorySize
<1> DEFINE n == HistorySize
<1>1. n \in Nat \ {0} /\ save \in 0 .. n - 1 /\ load \in 0 .. n - 1 /\ save \in Int /\ load \in Int
      /\ n \in Nat
  BY TerminalConstants
<1>2. CASE load = save
  BY <1>1, <1>2 DEF RecallOf
<1>3. CASE load > save
  <2>1. load - save \in 0 .. n - 1 /\ load - save \in Int /\ load # save
    BY <1>1, <1>3
  <2> HIDE DEF n
  <2>2. (load - save) % n = load - save
    BY <1>1, <2>1, Wraps
  <2> QED BY <1>1, <1>3, <2>1, <2>2 DEF RecallOf, n
<1>4. CASE load < save
  <2>1. load - save \in -n .. -1 /\ load - save \in Int /\ load # save
    BY <1>1, <1>4
  <2> HIDE DEF n
  <2>2. (load - save) % n = load - save + n
    BY <1>1, <2>1, Wraps
  <2> QED BY <1>1, <1>4, <2>1, <2>2 DEF RecallOf, n
<1> QED BY <1>1, <1>2, <1>3, <1>4

\* What the steps of the counter for loading do to the entry that is recalled.
LEMMA RecallSteps ==
  ASSUME NEW save \in Entries, NEW load \in Entries
  PROVE  /\ Slot(save, RecallOf(save, load)) = load
         /\ StepUp(load) \in Entries /\ StepDown(load) \in Entries
         /\ RecallOf(save, StepDown(load)) = IF RecallOf(save, load) = 1 THEN HistorySize
                                             ELSE RecallOf(save, load) - 1
         /\ RecallOf(save, StepUp(load)) = IF RecallOf(save, load) = HistorySize THEN 1
                                           ELSE RecallOf(save, load) + 1
<1> DEFINE n == HistorySize
           r == RecallOf(save, load)
           down == StepDown(load)
           up == StepUp(load)
<1>1. n \in Nat \ {0} /\ save \in 0 .. n - 1 /\ load \in 0 .. n - 1 /\ Entries = 0 .. n - 1
      /\ save \in Int /\ load \in Int /\ n \in Int
  BY TerminalConstants
<1>2. r = IF load > save THEN load - save ELSE load - save + n
  BY RecallIs
<1>3. Slot(save, r) = load
  <2> HIDE DEF r
  <2> QED BY <1>1, <1>2 DEF Slot
<1>4. down = (IF load <= 0 THEN n - 1 ELSE load - 1) /\ up = (IF load >= n - 1 THEN 0 ELSE load + 1)
  BY DEF StepDown, StepUp
<1> HIDE DEF r, down, up
<1>5. down \in Entries /\ up \in Entries
  BY <1>1, <1>4
<1>6. RecallOf(save, down) = IF down > save THEN down - save ELSE down - save + n
  BY <1>5, RecallIs
<1>7. RecallOf(save, up) = IF up > save THEN up - save ELSE up - save + n
  BY <1>5, RecallIs
<1>8. RecallOf(save, down) = IF r = 1 THEN n ELSE r - 1
  <2> HIDE DEF n
  <2> QED BY <1>1, <1>2, <1>4, <1>6
<1>9. RecallOf(save, up) = IF r = n THEN 1 ELSE r + 1
  <2> HIDE DEF n
  <2> QED BY <1>1, <1>2, <1>4, <1>7
<1> QED BY <1>3, <1>5, <1>8, <1>9 DEF r, down, up

LEMMA HistoryNow ==
  /\ History = HistoryOf(historyList, saveCnt) /\ Recall = RecallOf(saveCnt, loadCnt)
  /\ History' = HistoryOf(historyList', saveCnt') /\ Recall' = RecallOf(saveCnt', loadCnt')
BY DEF History, Recall, HistoryOf, RecallOf

LEMMA RecallCarried ==
  ASSUME HistoryOK, NEW st, IsState(st), Edited(st), NEW up \in BOOLEAN, HistoryLoad(st, up)
  PROVE  Carried(st, IF up THEN "Up" ELSE "Down")
<1> DEFINE loaded == IF up THEN loadCnt ELSE StepUp(loadCnt)
           new == CopyToLine(st, historyList[loaded])
           r == RecallOf(saveCnt, loadCnt)
           h == HistoryOf(historyList, saveCnt)
           n == HistorySize
<1>1. /\ historyList \in [Entries -> Seq(Letters)] /\ saveCnt \in Entries /\ loadCnt \in Entries
      /\ \A e \in Entries : Len(historyList[e]) \in 1 .. MaxLength - 1
  BY DEF HistoryOK
<1>2. /\ loadCnt' = IF up THEN StepDown(loadCnt) ELSE loaded
      /\ historyList' = historyList /\ saveCnt' = saveCnt
      /\ line' = new.line /\ actualLength' = new.length /\ cursorPosition' = new.cursor
  BY DEF HistoryLoad
<1>3. StepUp(loadCnt) \in Entries /\ StepDown(loadCnt) \in Entries /\ Slot(saveCnt, r) = loadCnt
  BY <1>1, RecallSteps
<1>4. loaded \in Entries /\ loadCnt' \in Entries
  BY <1>1, <1>2, <1>3
<1>5. HistoryOK'
  BY <1>1, <1>2, <1>4 DEF HistoryOK
<1> HIDE DEF loaded
<1> DEFINE string == historyList[loaded]
<1>6. string \in Seq(Letters) /\ Len(string) <= MaxLength - 1
  <2>1. Len(string) \in 1 .. MaxLength - 1 /\ string \in Seq(Letters)
    BY <1>1, <1>4
  <2> HIDE DEF string
  <2> QED BY <2>1, TerminalConstants
<1>7. Edited(new) /\ LettersOf(new) = string /\ new.cursor = Len(string)
  <2>1. st.line \in [Cells -> Letters \cup {EndOfString}]
    BY DEF Edited
  <2> HIDE DEF string
  <2>2. /\ Edited(CopyToLine(st, string)) /\ LettersOf(CopyToLine(st, string)) = string
        /\ CopyToLine(st, string).cursor = Len(string)
    BY <1>6, <2>1, StringCopied
  <2> QED BY <2>2 DEF string
<1> HIDE DEF new
<1>8. EditedNow'
  BY <1>2, <1>7, Zenon DEF EditedNow, Edited
<1>9. LineNow' = EditorLine(string, Len(string), h, RecallOf(saveCnt, loadCnt'))
  <2>1. [k \in 1 .. actualLength' |-> line'[k - 1]] = string
    BY <1>2, <1>7 DEF LettersOf
  <2>2. History' = h /\ Recall' = RecallOf(saveCnt, loadCnt')
    BY <1>2, HistoryNow
  <2> HIDE DEF h, string
  <2> QED BY <1>2, <1>7, <2>1, <2>2 DEF LineNow
<1>10. LineOf(st) = EditorLine(LettersOf(st), st.cursor, h, r)
  BY LineOfIs, HistoryNow
<1>11. /\ Len(h) = n
       /\ \A k \in 1 .. n : h[k] = historyList[Slot(saveCnt, k)]
  BY <1>1, HistoryEntries
<1>12. r \in 1 .. n
  BY <1>1, RecallIs
<1>13. CASE up
  <2>1. loaded = loadCnt
    BY <1>13 DEF loaded
  <2>2. h[r] = string
    BY <1>3, <1>11, <1>12, <2>1
  <2>3. RecallOf(saveCnt, loadCnt') = IF r = 1 THEN n ELSE r - 1
    BY <1>1, <1>2, <1>13, RecallSteps
  <2> HIDE DEF h, r, string, n
  <2>4. Editor!Pressed(EditorLine(LettersOf(st), st.cursor, h, r), "Up")
          = EditorLine(h[r], Len(h[r]), h, IF r = 1 THEN Len(h) ELSE r - 1)
    BY RecallPressed
  <2>5. LineNow' = Editor!Pressed(LineOf(st), "Up")
    BY <1>9, <1>10, <1>11, <2>2, <2>3, <2>4
  <2> QED BY <1>5, <1>8, <1>13, <2>5 DEF Carried
<1>14. CASE ~up
  <2> DEFINE newer == IF r = Len(h) THEN 1 ELSE r + 1
  <2>1. loaded = StepUp(loadCnt) /\ loadCnt' = StepUp(loadCnt)
    BY <1>2, <1>14 DEF loaded
  <2>2. RecallOf(saveCnt, loadCnt') = newer
    BY <1>1, <1>11, <2>1, RecallSteps
  <2>3. newer \in 1 .. n /\ Slot(saveCnt, newer) = loaded
    <3>1. RecallOf(saveCnt, loadCnt') \in 1 .. n
      BY <1>1, <1>4, RecallIs
    <3>2. Slot(saveCnt, RecallOf(saveCnt, loadCnt')) = loadCnt'
      BY <1>1, <1>4, RecallSteps
    <3> HIDE DEF newer
    <3> QED BY <2>1, <2>2, <3>1, <3>2
  <2>4. h[newer] = string
    <3> HIDE DEF newer
    <3> QED BY <1>11, <2>3
  <2> HIDE DEF h, r, string, n
  <2>5. Editor!Pressed(EditorLine(LettersOf(st), st.cursor, h, r), "Down")
          = EditorLine(h[newer], Len(h[newer]), h, newer)
    BY RecallPressed
  <2> HIDE DEF newer
  <2>6. LineNow' = Editor!Pressed(LineOf(st), "Down")
    BY <1>9, <1>10, <2>2, <2>4, <2>5
  <2> QED BY <1>5, <1>8, <1>14, <2>6 DEF Carried
<1> QED BY <1>13, <1>14

LEMMA StringOfLine ==
  ASSUME NEW st, Edited(st), st.length \in Cells, st.line[st.length] = EndOfString
  PROVE  LineString(st) = LettersOf(st)
<1> DEFINE Ends0(e) == st.line[e] = EndOfString /\ \A i \in 0 .. e - 1 : st.line[i] # EndOfString
<1>1. /\ st.length \in Cells /\ st.length \in Nat /\ \A c \in Cells : c \in Nat
      /\ \A i \in 0 .. st.length - 1 : st.line[i] \in Letters
  BY TerminalConstants DEF Edited
<1>2. \A i \in 0 .. st.length - 1 : st.line[i] # EndOfString
  BY <1>1, TerminalConstants
<1>3. Ends0(st.length)
  BY <1>2
<1>4. ASSUME NEW e \in Cells, Ends0(e) PROVE e = st.length
  <2>1. ~(e < st.length)
    <3>1. e < st.length => e \in 0 .. st.length - 1
      BY <1>1
    <3> QED BY <1>2, <1>4, <3>1
  <2>2. ~(st.length < e)
    <3>1. st.length < e => st.length \in 0 .. e - 1
      BY <1>1
    <3> QED BY <1>4, <3>1
  <2> QED BY <1>1, <2>1, <2>2
<1> HIDE DEF Ends0
<1>5. (CHOOSE e \in Cells : Ends0(e)) = st.length
  BY <1>1, <1>3, <1>4
<1>6. LineString(st) = [k \in 1 .. (CHOOSE e \in Cells : Ends0(e)) |-> st.line[k - 1]]
  BY DEF LineString, Ends0
<1> QED BY <1>5, <1>6 DEF LettersOf

\* The ring with a new entry is the history without its oldest one and with the new one.
LEMMA RingSaves ==
  ASSUME NEW list, list \in [Entries -> Seq(Letters)], NEW save \in Entries,
         NEW string \in Seq(Letters)
  PROVE  HistoryOf([list EXCEPT ![StepUp(save)] = string], StepUp(save))
           = Append(Tail(HistoryOf(list, save)), string)
<1> DEFINE n == HistorySize
           up == StepUp(save)
           new == [list EXCEPT ![up] = string]
           h == HistoryOf(list, save)
           g == HistoryOf(new, up)
           t == Tail(h)
           s == Append(t, string)
<1>1. n \in Nat /\ n >= 1 /\ save \in 0 .. n - 1 /\ Entries = 0 .. n - 1 /\ save \in Int
  BY TerminalConstants
<1>2. up = IF save >= n - 1 THEN 0 ELSE save + 1
  BY DEF StepUp
<1> HIDE DEF up
<1>3. up \in Entries
  BY <1>1, <1>2
<1>4. /\ new \in [Entries -> Seq(Letters)] /\ new[up] = string
      /\ \A e \in Entries : e # up => new[e] = list[e]
  BY <1>3
<1> HIDE DEF new
<1>5. /\ h \in Seq(Seq(Letters)) /\ Len(h) = n
      /\ \A k \in 1 .. n : Slot(save, k) \in Entries /\ h[k] = list[Slot(save, k)]
  BY HistoryEntries
<1>6. /\ g \in Seq(Seq(Letters)) /\ Len(g) = n
      /\ \A k \in 1 .. n : Slot(up, k) \in Entries /\ g[k] = new[Slot(up, k)]
  BY <1>3, <1>4, HistoryEntries
<1> HIDE DEF h, g, n
<1>7. /\ t \in Seq(Seq(Letters)) /\ Len(t) = n - 1
      /\ \A k \in 1 .. n - 1 : t[k] = h[k + 1]
  <2>1. h # <<>>
    BY <1>1, <1>5
  <2> QED BY <1>1, <1>5, <2>1
<1> HIDE DEF t
<1>8. /\ s \in Seq(Seq(Letters)) /\ Len(s) = n /\ s[n] = string
      /\ \A k \in 1 .. n - 1 : s[k] = t[k]
  <2>1. Len(t) + 1 = n
    BY <1>1, <1>7
  <2> QED BY <1>1, <1>7, <2>1
<1> HIDE DEF s
<1>9. ASSUME NEW k \in 1 .. n PROVE g[k] = s[k]
  <2>1. CASE k = n
    <3>1. Slot(up, k) = up
      BY <1>1, <1>3, <2>1 DEF Slot, n
    <3> QED BY <1>4, <1>6, <1>8, <2>1, <3>1
  <2>2. CASE k # n
    <3>1. k \in 1 .. n - 1 /\ k + 1 \in 1 .. n
      BY <1>1, <2>2
    <3>2. Slot(up, k) = Slot(save, k + 1) /\ Slot(up, k) # up
      BY <1>1, <1>2, <3>1 DEF Slot, n
    <3>3. g[k] = list[Slot(save, k + 1)]
      BY <1>4, <1>6, <3>2
    <3> QED BY <1>5, <1>7, <1>8, <3>1, <3>3
  <2> QED BY <2>1, <2>2
<1>10. g = s
  BY <1>6, <1>8, <1>9, SeqEqual
<1> QED BY <1>10 DEF g, s, t, h, new, up

LEMMA EnterCarried ==
  ASSUME HistoryOK, NEW st, IsState(st), Edited(st), st.length \in Cells,
         st.line[st.length] = EndOfString, CommandReadable(st)
  PROVE  Carried(st, "Enter")
<1> DEFINE text == LettersOf(st)
           h == HistoryOf(historyList, saveCnt)
           r == RecallOf(saveCnt, loadCnt)
           n == HistorySize
<1>1. /\ historyList \in [Entries -> Seq(Letters)] /\ saveCnt \in Entries /\ loadCnt \in Entries
      /\ \A e \in Entries : Len(historyList[e]) \in 1 .. MaxLength - 1
  BY DEF HistoryOK
<1>2. line' = st.line /\ actualLength' = 0 /\ cursorPosition' = 0
  BY DEF CommandReadable
<1>3. EditedNow'
  <2>1. st.line \in [Cells -> Letters \cup {EndOfString}] /\ 0 \in 0 .. MaxLength
        /\ 0 \in 0 .. 0 /\ 0 .. 0 - 1 = {}
    BY TerminalConstants DEF Edited
  <2> QED BY <1>2, <2>1 DEF EditedNow
<1>4. LineNow' = EditorLine(<<>>, 0, HistoryOf(historyList', saveCnt'), RecallOf(saveCnt', loadCnt'))
  <2>1. [k \in 1 .. actualLength' |-> line'[k - 1]] = <<>>
    BY <1>2
  <2> QED BY <1>2, <2>1, HistoryNow DEF LineNow
<1>5. LineOf(st) = EditorLine(text, st.cursor, h, r)
  BY LineOfIs, HistoryNow
<1>6. /\ text \in Seq(Letters) /\ Len(text) = st.length /\ st.length \in Nat
      /\ st.length \in 0 .. MaxLength - 1
  BY LineLength, TerminalConstants
<1>7. /\ h \in Seq(Seq(Letters)) /\ Len(h) = n
      /\ \A k \in 1 .. n : Slot(saveCnt, k) \in Entries /\ h[k] = historyList[Slot(saveCnt, k)]
  BY <1>1, HistoryEntries
<1> HIDE DEF h, r, text
<1>8. text \in ToSet(h) <=> \E e \in Entries : historyList[e] = text
  <2>1. DOMAIN h = 1 .. n
    BY <1>7
  <2>2. ASSUME NEW e \in Entries PROVE \E k \in 1 .. n : h[k] = historyList[e]
    <3>1. RecallOf(saveCnt, e) \in 1 .. n /\ Slot(saveCnt, RecallOf(saveCnt, e)) = e
      BY <1>1, RecallIs, RecallSteps
    <3> QED BY <1>7, <3>1
  <2>3. ASSUME text \in ToSet(h) PROVE \E e \in Entries : historyList[e] = text
    <3>1. PICK k \in 1 .. n : text = h[k]
      BY <2>1, <2>3 DEF ToSet
    <3> QED BY <1>7, <3>1
  <2>4. ASSUME NEW e \in Entries, historyList[e] = text PROVE text \in ToSet(h)
    <3>1. PICK k \in 1 .. n : h[k] = historyList[e]
      BY <2>2
    <3> QED BY <2>1, <2>4, <3>1 DEF ToSet
  <2> QED BY <2>3, <2>4
<1>9. text = <<>> <=> ~(st.length > 0)
  BY <1>6
<1>10. LineString(st) = text
  BY StringOfLine DEF text
<1>11. CASE text \in {<<>>} \cup ToSet(h)
  <2>1. UNCHANGED historyVars
    BY <1>8, <1>9, <1>10, <1>11 DEF CommandReadable, HistorySave
  <2>2. historyList' = historyList /\ saveCnt' = saveCnt /\ loadCnt' = loadCnt
    BY <2>1 DEF historyVars
  <2>3. HistoryOK'
    BY <1>1, <2>2 DEF HistoryOK
  <2>4. LineNow' = EditorLine(<<>>, 0, h, r)
    BY <1>4, <2>2 DEF h, r
  <2>5. Editor!Pressed(EditorLine(text, st.cursor, h, r), "Enter") = EditorLine(<<>>, 0, h, r)
    BY <1>11, EnterPressed
  <2> QED BY <1>3, <1>5, <2>3, <2>4, <2>5 DEF Carried
<1>12. CASE text \notin {<<>>} \cup ToSet(h)
  <2> DEFINE up == StepUp(saveCnt)
  <2>1. /\ saveCnt' = up /\ loadCnt' = up
        /\ historyList' = [historyList EXCEPT ![up] = text]
    BY <1>8, <1>9, <1>10, <1>12 DEF CommandReadable, HistorySave
  <2>2. up \in Entries
    BY <1>1, RecallSteps
  <2>3. Len(text) \in 1 .. MaxLength - 1
    BY <1>6, <1>9, <1>12
  <2>4. HistoryOf([historyList EXCEPT ![up] = text], up) = Append(Tail(h), text)
    BY <1>1, <1>6, RingSaves DEF h
  <2> HIDE DEF up
  <2>5. HistoryOK'
    <3>1. historyList' \in [Entries -> Seq(Letters)]
      BY <1>1, <1>6, <2>1, <2>2
    <3>2. \A e \in Entries : historyList'[e] = IF e = up THEN text ELSE historyList[e]
      BY <1>1, <2>1
    <3> QED BY <1>1, <2>1, <2>2, <2>3, <3>1, <3>2 DEF HistoryOK
  <2>6. RecallOf(up, up) = Len(h)
    BY <1>7 DEF RecallOf
  <2>7. LineNow' = EditorLine(<<>>, 0, Append(Tail(h), text), Len(h))
    <3>1. HistoryOf(historyList', saveCnt') = Append(Tail(h), text)
      BY <2>1, <2>4
    <3>2. RecallOf(saveCnt', loadCnt') = Len(h)
      BY <2>1, <2>6
    <3> QED BY <1>4, <3>1, <3>2
  <2>8. Editor!Pressed(EditorLine(text, st.cursor, h, r), "Enter")
          = EditorLine(<<>>, 0, Append(Tail(h), text), Len(h))
    BY <1>12, <2>3, EnterPressed
  <2> QED BY <1>3, <1>5, <2>5, <2>7, <2>8 DEF Carried
<1> QED BY <1>11, <1>12

\* The flag that is handled is one of those that are set, and Enter is the last.
LEMMA HandledIsSet ==
  ASSUME NEW flags, flags \subseteq AllFlags, flags # {}
  PROVE  HandledFlag(flags) \in flags /\ (HandledFlag(flags) = "Enter" => flags = {"Enter"})
<1> DEFINE First(k) == Priority[k] \in flags /\ \A j \in 1 .. k - 1 : Priority[j] \notin flags
           T == {k \in 1 .. 6 : Priority[k] \in flags}
<1>1. DOMAIN Priority = 1 .. 6
  BY DEF Priority
<1>2. /\ Priority[1] = "Backspace" /\ Priority[2] = "Delete" /\ Priority[3] = "NotLastChar"
      /\ Priority[4] = "EscapeSequence" /\ Priority[5] = "Tab" /\ Priority[6] = "Enter"
  BY DEF Priority
<1>3. \A flag \in AllFlags : \E k \in 1 .. 6 : Priority[k] = flag
  BY <1>2 DEF AllFlags, KeyFlags
<1>4. T # {} /\ T \subseteq Nat
  BY <1>3
<1>5. PICK x \in T : \A y \in T : x <= y
  BY <1>4, LeastNumber
<1>6. x \in 1 .. 6 /\ First(x)
  <2>1. \A j \in 1 .. x - 1 : j \in 1 .. 6 /\ ~(x <= j)
    BY <1>5
  <2> QED BY <1>5, <2>1
<1> DEFINE k == CHOOSE i \in DOMAIN Priority : First(i)
<1>7. k \in 1 .. 6 /\ First(k)
  BY <1>1, <1>6
<1>8. HandledFlag(flags) = Priority[k]
  BY DEF HandledFlag
<1> HIDE DEF k
<1>9. ASSUME Priority[k] = "Enter" PROVE flags = {"Enter"}
  <2>1. \A j \in 1 .. 6 : j = 1 \/ j = 2 \/ j = 3 \/ j = 4 \/ j = 5 \/ j = 6
    OBVIOUS
  <2>2. k = 6
    <3>1. k = 1 \/ k = 2 \/ k = 3 \/ k = 4 \/ k = 5 \/ k = 6
      BY <1>7, <2>1
    <3> QED BY <1>2, <1>9, <3>1
  <2>3. \A j \in 1 .. 5 : Priority[j] \notin flags
    BY <1>7, <2>2
  <2>4. ASSUME NEW flag \in flags PROVE flag = "Enter"
    <3>1. PICK j \in 1 .. 6 : Priority[j] = flag
      BY <1>3
    <3>2. j = 6
      <4>1. j \in 1 .. 5 \/ j = 6
        OBVIOUS
      <4> QED BY <2>3, <3>1, <4>1
    <3> QED BY <1>2, <3>1, <3>2
  <2> QED BY <2>4
<1> QED BY <1>7, <1>8, <1>9

LEMMA WaitsAfter ==
  ASSUME NEW st, st.flags \subseteq AllFlags, NEW flag \in AllFlags \cup {"None"},
         SetReceived(st, flag)
  PROVE  /\ received' \subseteq AllFlags
         /\ flag # "EscapeSequence" => WaitingKeys' = Waits(st) \ {flag}
         /\ flag \in {"None", "NotLastChar"} => Waits(st) \ {flag} = Waits(st) \ {"None"}
         /\ flag = "EscapeSequence" /\ flag \in st.flags =>
              WaitingKeys' = Waits(st) \ {IF st.actualEscape \in Arrows THEN ArrowName[st.actualEscape]
                                          ELSE "None"}
<1> DEFINE plain == st.flags \ {"NotLastChar", "EscapeSequence"}
           arrow == IF "EscapeSequence" \in st.flags /\ st.actualEscape \in Arrows
                    THEN {ArrowName[st.actualEscape]} ELSE {}
<1>1. received' = st.flags \ {flag}
  BY DEF SetReceived
<1>2. "EscapeSequence" \in received' => actualEscape' = st.actualEscape
  BY DEF SetReceived
<1>3. Waits(st) = plain \cup arrow
  BY DEF Waits, WaitsFor
<1>4. arrow \cap (AllFlags \cup {"None"}) = {}
  <2>1. \A byte \in Arrows : ArrowName[byte] \notin AllFlags \cup {"None"}
    BY DEF Arrows, ArrowName, AllFlags, KeyFlags
  <2> QED BY <2>1
<1>5. plain \cap {"None", "NotLastChar", "EscapeSequence"} = {}
  BY DEF AllFlags, KeyFlags
<1>6. WaitingKeys' = (received' \ {"NotLastChar", "EscapeSequence"})
                       \cup IF "EscapeSequence" \in received' /\ actualEscape' \in Arrows
                            THEN {ArrowName[actualEscape']} ELSE {}
  BY DEF WaitingKeys
<1>7. ASSUME flag # "EscapeSequence" PROVE WaitingKeys' = Waits(st) \ {flag}
  <2>1. "EscapeSequence" \in received' <=> "EscapeSequence" \in st.flags
    BY <1>1, <1>7
  <2>2. (IF "EscapeSequence" \in received' /\ actualEscape' \in Arrows
         THEN {ArrowName[actualEscape']} ELSE {}) = arrow
    BY <1>2, <2>1
  <2>3. received' \ {"NotLastChar", "EscapeSequence"} = plain \ {flag}
    BY <1>1
  <2> HIDE DEF plain, arrow
  <2> QED BY <1>3, <1>4, <1>6, <2>2, <2>3
<1>8. ASSUME flag \in {"None", "NotLastChar"} PROVE Waits(st) \ {flag} = Waits(st) \ {"None"}
  <2> HIDE DEF plain, arrow
  <2>1. flag \notin plain \cup arrow /\ "None" \notin plain \cup arrow
    BY <1>4, <1>5, <1>8
  <2> QED BY <1>3, <2>1
<1>9. ASSUME flag = "EscapeSequence", flag \in st.flags
      PROVE  WaitingKeys' = Waits(st) \ {IF st.actualEscape \in Arrows THEN ArrowName[st.actualEscape]
                                          ELSE "None"}
  <2>1. "EscapeSequence" \notin received'
    BY <1>1, <1>9
  <2>2. WaitingKeys' = plain
    BY <1>1, <1>6, <1>9, <2>1
  <2>3. CASE st.actualEscape \in Arrows
    <3>1. arrow = {ArrowName[st.actualEscape]}
      BY <1>9, <2>3
    <3>2. ArrowName[st.actualEscape] \notin plain
      <4>1. ArrowName[st.actualEscape] \notin AllFlags
        BY <1>4, <3>1
      <4> QED BY <4>1
    <3> HIDE DEF plain, arrow
    <3> QED BY <1>3, <2>2, <2>3, <3>1, <3>2
  <2>4. CASE st.actualEscape \notin Arrows
    <3>1. arrow = {}
      BY <2>4
    <3> HIDE DEF plain, arrow
    <3> QED BY <1>3, <1>5, <2>2, <2>4, <3>1
  <2> QED BY <2>3, <2>4
<1> QED BY <1>1, <1>7, <1>8, <1>9

\* What an escape sequence says, after the history or the cursor followed it.
LEMMA SequenceCarried ==
  ASSUME HistoryOK, NEW st, IsState(st), Edited(st), EscapeCharValidation(st)
  PROVE  Carried(st, IF st.actualEscape \in Arrows THEN ArrowName[st.actualEscape] ELSE "None")
<1>1. /\ ArrowName["A"] = "Up" /\ ArrowName["B"] = "Down" /\ ArrowName["C"] = "Right"
      /\ ArrowName["D"] = "Left"
  BY DEF ArrowName
<1>2. /\ st.cursor \in 0 .. st.length /\ st.length \in Nat /\ st.cursor \in Nat
      /\ Len(LettersOf(st)) = st.length
  BY LineLength DEF Edited
<1>3. LineOf(st).cursor = st.cursor /\ Len(LineOf(st).text) = st.length
  BY <1>2 DEF LineOf
<1>4. CASE st.actualEscape = "A"
  <2>1. HistoryLoad(st, TRUE)
    BY <1>4 DEF EscapeCharValidation
  <2>2. Carried(st, "Up")
    BY <2>1, RecallCarried
  <2> QED BY <1>1, <1>4, <2>2 DEF Arrows
<1>5. CASE st.actualEscape = "B"
  <2>1. HistoryLoad(st, FALSE)
    BY <1>5 DEF EscapeCharValidation
  <2>2. Carried(st, "Down")
    BY <2>1, RecallCarried
  <2> QED BY <1>1, <1>5, <2>2 DEF Arrows
<1>6. CASE st.actualEscape = "C" /\ st.cursor < st.length
  <2> DEFINE u == [st EXCEPT !.cursor = @ + 1]
  <2>1. SetEdit(u) /\ UNCHANGED historyVars
    BY <1>6 DEF EscapeCharValidation
  <2>2. u.line = st.line /\ u.length = st.length /\ u.cursor = st.cursor + 1
    BY DEF IsState, Fields
  <2> HIDE DEF u
  <2>3. Edited(u)
    BY <1>2, <1>6, <2>2 DEF Edited
  <2>4. LettersOf(u) = LettersOf(st)
    BY <2>2 DEF LettersOf
  <2>5. LineOf(u) = EditorLine(LettersOf(st), st.cursor + 1, History, Recall)
    BY <2>2, <2>4, LineOfIs
  <2>6. Editor!Pressed(EditorLine(LettersOf(st), st.cursor, History, Recall), "Right")
          = EditorLine(LettersOf(st), st.cursor + 1, History, Recall)
    BY <1>2, <1>6, ArrowPressed
  <2>7. LineOf(u) = Editor!Pressed(LineOf(st), "Right")
    BY <2>5, <2>6, LineOfIs
  <2>8. Carried(st, "Right")
    BY <2>1, <2>3, <2>7, EditIsCarried
  <2> QED BY <1>1, <1>6, <2>8 DEF Arrows
<1>7. CASE st.actualEscape = "D" /\ st.cursor > 0
  <2> DEFINE u == [st EXCEPT !.cursor = @ - 1]
  <2>1. SetEdit(u) /\ UNCHANGED historyVars
    BY <1>7 DEF EscapeCharValidation
  <2>2. u.line = st.line /\ u.length = st.length /\ u.cursor = st.cursor - 1
    BY DEF IsState, Fields
  <2> HIDE DEF u
  <2>3. Edited(u)
    BY <1>2, <1>7, <2>2 DEF Edited
  <2>4. LettersOf(u) = LettersOf(st)
    BY <2>2 DEF LettersOf
  <2>5. LineOf(u) = EditorLine(LettersOf(st), st.cursor - 1, History, Recall)
    BY <2>2, <2>4, LineOfIs
  <2>6. Editor!Pressed(EditorLine(LettersOf(st), st.cursor, History, Recall), "Left")
          = EditorLine(LettersOf(st), st.cursor - 1, History, Recall)
    BY <1>7, ArrowPressed
  <2>7. LineOf(u) = Editor!Pressed(LineOf(st), "Left")
    BY <2>5, <2>6, LineOfIs
  <2>8. Carried(st, "Left")
    BY <2>1, <2>3, <2>7, EditIsCarried
  <2> QED BY <1>1, <1>7, <2>8 DEF Arrows
<1>8. CASE /\ st.actualEscape \notin {"A", "B"}
           /\ ~(st.actualEscape = "C" /\ st.cursor < st.length)
           /\ ~(st.actualEscape = "D" /\ st.cursor > 0)
  <2>1. SetEdit(st) /\ UNCHANGED historyVars
    BY <1>8 DEF EscapeCharValidation
  <2> DEFINE key == IF st.actualEscape \in Arrows THEN ArrowName[st.actualEscape] ELSE "None"
  <2>2. Editor!Pressed(LineOf(st), key) = LineOf(st)
    <3>1. CASE st.actualEscape = "C"
      <4>1. key = "Right" /\ ~(LineOf(st).cursor < Len(LineOf(st).text))
        BY <1>1, <1>3, <1>8, <3>1 DEF Arrows
      <4> QED BY <4>1, NothingPressed
    <3>2. CASE st.actualEscape = "D"
      <4>1. key = "Left" /\ ~(LineOf(st).cursor > 0)
        BY <1>1, <1>3, <1>8, <3>2 DEF Arrows
      <4> QED BY <4>1, NothingPressed
    <3>3. CASE st.actualEscape \notin {"C", "D"}
      <4>1. key = "None"
        BY <1>8, <3>3 DEF Arrows
      <4> QED BY <4>1, NothingPressed
    <3> QED BY <3>1, <3>2, <3>3
  <2> HIDE DEF key
  <2>3. Carried(st, key)
    BY <2>1, <2>2, EditIsCarried
  <2> QED BY <2>3 DEF key
<1> QED BY <1>4, <1>5, <1>6, <1>7, <1>8

\* One of the waiting keys is carried out, or none.
KeyTakesEffect(st) ==
    /\ received' \subseteq AllFlags /\ escape' = st.escape
    /\ \E key \in Waits(st) \cup {"None"} : Carried(st, key) /\ WaitingKeys' = Waits(st) \ {key}

LEMMA FlagTakesEffect ==
  ASSUME HistoryOK, NEW st, StateOK(st), st.event, HandleFlag(st, HandledFlag(st.flags))
  PROVE  KeyTakesEffect(st)
<1> DEFINE flag == HandledFlag(st.flags)
<1>1. /\ IsState(st) /\ Edited(st) /\ st.flags \subseteq AllFlags /\ st.flags # {}
      /\ st.flags = {"Enter"} => st.length \in Cells /\ st.line[st.length] = EndOfString
  BY DEF StateOK, Flagged
<1>2. flag \in st.flags /\ (flag = "Enter" => st.flags = {"Enter"})
  BY <1>1, HandledIsSet
<1>3. SetReceived(st, flag)
  BY DEF HandleFlag
<1>4. \/ flag = "Backspace" /\ SetEdit(CommandBackspace(st)) /\ UNCHANGED historyVars
      \/ flag = "Delete" /\ SetEdit(CommandDelete(st)) /\ UNCHANGED historyVars
      \/ flag = "NotLastChar" /\ SetEdit(st) /\ UNCHANGED historyVars
      \/ flag = "EscapeSequence" /\ EscapeCharValidation(st)
      \/ flag = "Tab" /\ SetEdit(CommandTabulator(st)) /\ UNCHANGED historyVars
      \/ flag = "Enter" /\ CommandReadable(st)
  BY DEF HandleFlag
<1> HIDE DEF flag
<1>5. flag \in AllFlags
  BY <1>1, <1>2
<1>6. /\ received' \subseteq AllFlags
      /\ flag # "EscapeSequence" => WaitingKeys' = Waits(st) \ {flag}
      /\ flag \in {"None", "NotLastChar"} => Waits(st) \ {flag} = Waits(st) \ {"None"}
      /\ flag = "EscapeSequence" =>
           WaitingKeys' = Waits(st) \ {IF st.actualEscape \in Arrows THEN ArrowName[st.actualEscape]
                                       ELSE "None"}
  BY <1>1, <1>2, <1>3, <1>5, WaitsAfter
<1>7. escape' = st.escape
  BY <1>3 DEF SetReceived
<1>8. flag \notin {"NotLastChar", "EscapeSequence"} => flag \in Waits(st)
  BY <1>2 DEF Waits, WaitsFor
<1>9. CASE flag = "Backspace"
  <2>1. Carried(st, "Backspace")
    BY <1>1, <1>4, <1>9, BackspaceCarried
  <2> QED BY <1>6, <1>7, <1>8, <1>9, <2>1 DEF KeyTakesEffect
<1>10. CASE flag = "Delete"
  <2>1. Carried(st, "Delete")
    BY <1>1, <1>4, <1>10, DeleteCarried
  <2> QED BY <1>6, <1>7, <1>8, <1>10, <2>1 DEF KeyTakesEffect
<1>11. CASE flag = "NotLastChar"
  <2>1. Editor!Pressed(LineOf(st), "None") = LineOf(st)
    BY NothingPressed
  <2>2. Carried(st, "None")
    BY <1>1, <1>4, <1>11, <2>1, EditIsCarried
  <2> QED BY <1>6, <1>7, <1>11, <2>2 DEF KeyTakesEffect
<1>12. CASE flag = "EscapeSequence"
  <2> DEFINE key == IF st.actualEscape \in Arrows THEN ArrowName[st.actualEscape] ELSE "None"
  <2>1. Carried(st, key)
    BY <1>1, <1>4, <1>12, SequenceCarried
  <2>2. key \in Waits(st) \cup {"None"}
    BY <1>2, <1>12 DEF Waits, WaitsFor
  <2> HIDE DEF key
  <2>3. WaitingKeys' = Waits(st) \ {key}
    BY <1>6, <1>12 DEF key
  <2> QED BY <1>6, <1>7, <2>1, <2>2, <2>3 DEF KeyTakesEffect
<1>13. CASE flag = "Tab"
  <2>1. Carried(st, "Tab")
    BY <1>1, <1>4, <1>13, TabCarried
  <2> QED BY <1>6, <1>7, <1>8, <1>13, <2>1 DEF KeyTakesEffect
<1>14. CASE flag = "Enter"
  <2>1. Carried(st, "Enter")
    BY <1>1, <1>2, <1>4, <1>14, EnterCarried
  <2> QED BY <1>6, <1>7, <1>8, <1>14, <2>1 DEF KeyTakesEffect
<1> QED BY <1>4, <1>9, <1>10, <1>11, <1>12, <1>13, <1>14

LEMMA NoFlagHandled ==
  ASSUME HistoryOK, UNCHANGED historyVars, NEW st, StateOK(st), SetEdit(st),
         SetReceived(st, "None")
  PROVE  KeyTakesEffect(st)
<1>1. IsState(st) /\ Edited(st) /\ st.flags \subseteq AllFlags
  BY DEF StateOK, Flagged
<1>2. Editor!Pressed(LineOf(st), "None") = LineOf(st)
  BY NothingPressed
<1>3. Carried(st, "None")
  BY <1>1, <1>2, EditIsCarried
<1>4. received' \subseteq AllFlags /\ WaitingKeys' = Waits(st) \ {"None"}
  BY <1>1, WaitsAfter
<1>5. escape' = st.escape
  BY DEF SetReceived
<1> QED BY <1>3, <1>4, <1>5 DEF KeyTakesEffect

\* The inductive invariant of the terminal: it adds to the type that the places of the line
\* hold letters, and that no entry of the history is as long as a full line.
TerminalInv ==
    /\ EditedNow /\ HistoryOK /\ received \subseteq AllFlags /\ escape \in 0 .. 4
    /\ mixed \in BOOLEAN /\ overrun \in BOOLEAN

\* The state of the loop before the first character.
Start ==
    [line |-> line, length |-> actualLength, cursor |-> cursorPosition,
     flags |-> received, escape |-> escape, actualEscape |-> actualEscape,
     event |-> FALSE, returned |-> FALSE]

LEMMA StartIsOK ==
  ASSUME TerminalInv
  PROVE  /\ StateOK(Start) /\ Start.returned = FALSE /\ Start.escape = escape
         /\ LineOf(Start) = LineNow /\ Waits(Start) = WaitingKeys
<1>1. /\ Start.line = line /\ Start.length = actualLength /\ Start.cursor = cursorPosition
      /\ Start.flags = received /\ Start.escape = escape /\ Start.actualEscape = actualEscape
      /\ Start.event = FALSE /\ Start.returned = FALSE
  BY DEF Start
<1>2. IsState(Start)
  BY DEF Start, IsState, Fields
<1>3. Edited(Start)
  BY <1>1, Zenon DEF TerminalInv, EditedNow, Edited
<1>4. Flagged(Start)
  BY <1>1 DEF TerminalInv, Flagged
<1>5. LineOf(Start) = LineNow
  BY <1>1 DEF LineOf, LettersOf, LineNow, EditorLine
<1>6. Waits(Start) = WaitingKeys
  BY <1>1 DEF Waits, WaitsFor, WaitingKeys
<1> QED BY <1>1, <1>2, <1>3, <1>4, <1>5, <1>6 DEF StateOK

LEMMA LoopIsDone ==
  ASSUME NEW batch, Len(batch) \in Nat, NEW st, st = ProcessReceivedCharacter(batch),
         \A k \in 1 .. Len(batch) : ~WritesBehind(st[k - 1], batch[k])
  PROVE  Ends(Start, batch, st[Len(batch)])
<1> DEFINE n == Len(batch)
           f == CHOOSE g : Looped(g, Start, batch, n)
<1>1. st = f
  BY DEF ProcessReceivedCharacter, Looped, Start
<1>2. Looped(f, Start, batch, n)
  BY LoopEnds
<1> HIDE DEF f
<1> QED BY <1>1, <1>2 DEF Ends, Within

\* A turn that writes nothing behind the line.
Bounded(batch) ==
    LET st == ProcessReceivedCharacter(batch)
    IN \A k \in DOMAIN batch : ~WritesBehind(st[k - 1], batch[k])

LEMMA TurnIsDone ==
  ASSUME TerminalInv, NEW batch \in IF escape = 0 THEN Batches ELSE RestBatches,
         CheckCommand(batch), Bounded(batch)
  PROVE  \E st : BatchDone(Start, st) /\ KeyTakesEffect(st) /\ mixed' \in BOOLEAN
                 /\ st.escape \in 0 .. 4
<1> DEFINE loop == ProcessReceivedCharacter(batch)
           st == loop[Len(batch)]
<1>1. Len(batch) \in Nat /\ DOMAIN batch = 1 .. Len(batch)
  BY BatchLength
<1>2. Ends(Start, batch, st)
  <2>1. \A k \in 1 .. Len(batch) : ~WritesBehind(loop[k - 1], batch[k])
    BY <1>1 DEF Bounded
  <2> HIDE DEF loop
  <2> QED BY <1>1, <2>1, LoopIsDone DEF loop
<1>3. HandleEvent(st)
  BY DEF CheckCommand, Bounded
<1> HIDE DEF st
<1>4. /\ IF st.event THEN HandleFlag(st, HandledFlag(st.flags))
         ELSE SetEdit(st) /\ SetReceived(st, "None") /\ UNCHANGED historyVars
      /\ mixed' = (mixed \/ ("NotLastChar" \in st.flags /\ st.flags # {"NotLastChar"}))
  BY <1>3 DEF HandleEvent
<1>5. BatchDone(Start, st)
  BY <1>2, StartIsOK, BatchIsDone
<1>6. StateOK(st)
  BY <1>5 DEF BatchDone
<1>7. HistoryOK
  BY DEF TerminalInv
<1>8. KeyTakesEffect(st)
  <2>1. CASE st.event
    BY <1>4, <1>6, <1>7, <2>1, FlagTakesEffect
  <2>2. CASE ~st.event
    BY <1>4, <1>6, <1>7, <2>2, NoFlagHandled
  <2> QED BY <2>1, <2>2
<1>9. mixed' \in BOOLEAN
  BY <1>4
<1>10. st.escape \in 0 .. 4
  BY <1>6 DEF StateOK, Flagged
<1> QED BY <1>5, <1>8, <1>9, <1>10

\* Nothing of the terminal changes, or only the record of the write behind the line.
LEMMA TerminalRests ==
  ASSUME UNCHANGED <<editVars, historyVars, mixed>>
  PROVE  /\ TerminalInv /\ overrun' \in BOOLEAN => TerminalInv'
         /\ UNCHANGED Editor!vars
<1>1. /\ line' = line /\ actualLength' = actualLength /\ cursorPosition' = cursorPosition
      /\ received' = received /\ escape' = escape /\ actualEscape' = actualEscape
      /\ historyList' = historyList /\ saveCnt' = saveCnt /\ loadCnt' = loadCnt /\ mixed' = mixed
  BY DEF editVars, historyVars
<1>2. TerminalInv /\ overrun' \in BOOLEAN => TerminalInv'
  BY <1>1 DEF TerminalInv, EditedNow, HistoryOK
<1>3. WaitingKeys' = WaitingKeys
  BY <1>1 DEF WaitingKeys
<1> QED BY <1>1, <1>2, <1>3 DEF Editor!vars

LEMMA TurnIsBoundedOrNot ==
  ASSUME NEW batch, CheckCommand(batch)
  PROVE  overrun' \in BOOLEAN /\ (~Bounded(batch) => UNCHANGED <<editVars, historyVars, mixed>>)
BY DEF CheckCommand, Bounded

LEMMA TurnKeepsInv ==
  ASSUME TerminalInv, NEW batch \in IF escape = 0 THEN Batches ELSE RestBatches,
         CheckCommand(batch)
  PROVE  TerminalInv'
<1>1. overrun' \in BOOLEAN
  BY TurnIsBoundedOrNot
<1>2. CASE Bounded(batch)
  <2>1. PICK st : KeyTakesEffect(st) /\ mixed' \in BOOLEAN /\ st.escape \in 0 .. 4
    BY <1>2, TurnIsDone
  <2>2. PICK key : Carried(st, key)
    BY <2>1 DEF KeyTakesEffect
  <2> QED BY <1>1, <2>1, <2>2 DEF KeyTakesEffect, Carried, TerminalInv
<1>3. CASE ~Bounded(batch)
  BY <1>1, <1>3, TurnIsBoundedOrNot, TerminalRests
<1> QED BY <1>2, <1>3

\* The editor's variables, one by one.
LEMMA EditorVariables ==
  /\ LineNow.text = [k \in 1 .. actualLength |-> line[k - 1]] /\ LineNow.cursor = cursorPosition
  /\ LineNow.history = [k \in 1 .. HistorySize |-> historyList[(saveCnt + k) % HistorySize]]
  /\ LineNow.recall = IF loadCnt = saveCnt THEN HistorySize ELSE (loadCnt - saveCnt) % HistorySize
  /\ Editor!Line = LineNow
BY DEF LineNow, EditorLine, History, Recall, Editor!Line

LEMMA TurnIsReceived ==
  ASSUME TerminalInv, NEW batch \in IF escape = 0 THEN Batches ELSE RestBatches,
         CheckCommand(batch)
  PROVE  Editor!Next \/ UNCHANGED Editor!vars
<1>0. CASE ~Bounded(batch)
  BY <1>0, TurnIsBoundedOrNot, TerminalRests
<1> SUFFICES ASSUME Bounded(batch) PROVE Editor!Next
  BY <1>0
<1>1. PICK st : BatchDone(Start, st) /\ KeyTakesEffect(st)
  BY TurnIsDone
<1>2. PICK letters \in SeqOf(Letters, 2), forgotten \in ForgottenSets, keysTyped \in TypedSets :
        /\ LineOf(st) = Editor!TypedAll(LineOf(Start), letters)
        /\ Waits(st) = (Waits(Start) \ forgotten) \cup keysTyped
  BY <1>1 DEF BatchDone
<1>3. PICK key \in Waits(st) \cup {"None"} : Carried(st, key) /\ WaitingKeys' = Waits(st) \ {key}
  BY <1>1 DEF KeyTakesEffect
<1>4. LineOf(Start) = Editor!Line /\ Waits(Start) = WaitingKeys
  BY StartIsOK, EditorVariables
<1>5. key \in WaitingKeys \cup keysTyped \cup {"None"}
  BY <1>2, <1>3, <1>4
<1> DEFINE new == Editor!Pressed(Editor!TypedAll(Editor!Line, letters), key)
<1>6. LineNow' = new
  BY <1>2, <1>3, <1>4 DEF Carried
<1>7. Editor!Becomes(new)
  <2> HIDE DEF new
  <2>1. /\ LineNow'.text = [k \in 1 .. actualLength' |-> line'[k - 1]]
        /\ LineNow'.cursor = cursorPosition'
        /\ LineNow'.history = [k \in 1 .. HistorySize |-> historyList'[(saveCnt' + k) % HistorySize]]
        /\ LineNow'.recall = IF loadCnt' = saveCnt' THEN HistorySize
                             ELSE (loadCnt' - saveCnt') % HistorySize
    BY DEF LineNow, EditorLine, History, Recall
  <2> QED BY <1>6, <2>1 DEF Editor!Becomes
<1>8. Editor!Receive(letters, keysTyped, forgotten, key)
  <2>1. WaitingKeys' = ((WaitingKeys \ forgotten) \cup keysTyped) \ {key}
    BY <1>2, <1>3, <1>4
  <2> QED BY <1>7, <2>1 DEF Editor!Receive
<1>9. letters \in UNION {[1 .. n -> Letters] : n \in 0 .. 2}
  BY <1>2 DEF SeqOf
<1> QED BY <1>2, <1>5, <1>8, <1>9 DEF Editor!Next, ForgottenSets, TypedSets

LEMMA TerminalStarts ==
  ASSUME TerminalInit
  PROVE  TerminalInv /\ Editor!Init
<1>1. HistoryOK
  <2>1. 0 \in Entries
    BY TerminalConstants
  <2> QED BY <2>1, TerminalAssumption DEF TerminalInit, HistoryOK, Entries
<1>2. EditedNow
  <2>1. 0 \in 0 .. MaxLength /\ 0 \in 0 .. 0 /\ 0 .. 0 - 1 = {}
    BY TerminalConstants
  <2> QED BY <2>1 DEF TerminalInit, EditedNow
<1>3. TerminalInv
  <2>1. /\ received = {} /\ escape = 0 /\ mixed = FALSE /\ overrun = FALSE
    BY DEF TerminalInit
  <2>2. received \subseteq AllFlags
    BY <2>1
  <2>3. escape \in 0 .. 4
    BY <2>1
  <2>4. mixed \in BOOLEAN /\ overrun \in BOOLEAN
    BY <2>1
  <2> QED BY <1>1, <1>2, <2>2, <2>3, <2>4 DEF TerminalInv
<1>4. /\ History \in Seq(Seq(Letters)) /\ Len(History) = HistorySize
  BY <1>1, HistoryEntries, HistoryNow DEF HistoryOK
<1>5. Editor!Init
  <2>1. [k \in 1 .. actualLength |-> line[k - 1]] = <<>>
    BY DEF TerminalInit
  <2>2. WaitingKeys = {} /\ cursorPosition = 0
    BY DEF TerminalInit, WaitingKeys
  <2>3. Recall = HistorySize
    BY DEF TerminalInit, Recall
  <2>4. /\ [k \in 1 .. HistorySize |-> historyList[(saveCnt + k) % HistorySize]] = History
        /\ (IF loadCnt = saveCnt THEN HistorySize ELSE (loadCnt - saveCnt) % HistorySize) = Recall
    BY DEF History, Recall
  <2> QED BY <1>4, <2>1, <2>2, <2>3, <2>4 DEF Editor!Init
<1> QED BY <1>3, <1>5

LEMMA TerminalInvIsTyped == TerminalInv => TerminalTypeOK
<1> SUFFICES ASSUME TerminalInv PROVE TerminalTypeOK
  OBVIOUS
<1>1. AllFlags \subseteq ToSet(Priority)
  <2>1. DOMAIN Priority = 1 .. 6
    BY DEF Priority
  <2>2. /\ Priority[1] = "Backspace" /\ Priority[2] = "Delete" /\ Priority[3] = "NotLastChar"
        /\ Priority[4] = "EscapeSequence" /\ Priority[5] = "Tab" /\ Priority[6] = "Enter"
    BY DEF Priority
  <2>3. \A flag \in AllFlags : \E k \in 1 .. 6 : Priority[k] = flag
    BY <2>2 DEF AllFlags, KeyFlags
  <2> QED BY <2>1, <2>3 DEF ToSet
<1>2. DOMAIN historyList = Entries /\ \A e \in Entries : historyList[e] # <<>>
  <2>1. \A e \in Entries : Len(historyList[e]) \in 1 .. MaxLength - 1 /\ historyList[e] \in Seq(Letters)
    BY DEF TerminalInv, HistoryOK
  <2>2. \A e \in Entries : Len(historyList[e]) # 0
    BY <2>1, TerminalConstants
  <2> QED BY <2>2 DEF TerminalInv, HistoryOK
<1> QED BY <1>1, <1>2 DEF TerminalInv, TerminalTypeOK, EditedNow, HistoryOK

LEMMA TerminalTurns ==
  [MainLoopNext]_mainLoopVars =>
     \/ \E batch \in IF escape = 0 THEN Batches ELSE RestBatches : CheckCommand(batch)
     \/ UNCHANGED terminalVars
<1>1. RunTerminal => \/ \E batch \in IF escape = 0 THEN Batches ELSE RestBatches : CheckCommand(batch)
                     \/ UNCHANGED terminalVars
  BY DEF RunTerminal, TerminalNext, ReceiveBatch, Overrun
<1>2. [MainLoopNext]_mainLoopVars => RunTerminal \/ UNCHANGED terminalVars
  BY DEF MainLoopNext, mainLoopVars, RunCircularBuffer, RunUserInterface, RunLinkedList,
         RunCalendar, RunGlobalVariables
<1> QED BY <1>1, <1>2

LEMMA TerminalSteps ==
  ASSUME TerminalInv, [MainLoopNext]_mainLoopVars
  PROVE  TerminalInv' /\ [Editor!Next]_(Editor!vars)
<1>1. CASE \E batch \in IF escape = 0 THEN Batches ELSE RestBatches : CheckCommand(batch)
  BY <1>1, TurnKeepsInv, TurnIsReceived
<1>2. CASE UNCHANGED terminalVars
  <2>1. UNCHANGED <<editVars, historyVars, mixed>> /\ overrun' = overrun
    BY <1>2 DEF terminalVars
  <2>2. overrun' \in BOOLEAN
    BY <2>1 DEF TerminalInv
  <2> QED BY <2>1, <2>2, TerminalRests
<1> QED BY <1>1, <1>2, TerminalTurns

\* What the terminal keeps is of its type: until a turn writes the byte behind
\* the line's array, which overrun records and which ends the model's
\* terminal, the line's length is at most the array's size, the cursor is
\* within it, and no entry of the history is empty or too long.
THEOREM TerminalTypeCorrect == MainLoopSpec => []TerminalTypeOK
<1>1. MainLoopInit => TerminalInv
  BY TerminalStarts DEF MainLoopInit
<1>2. TerminalInv /\ [MainLoopNext]_mainLoopVars => TerminalInv'
  BY TerminalSteps
<1> QED BY <1>1, <1>2, TerminalInvIsTyped, PTL DEF MainLoopSpec

\* The command line implements the line editor as long as it stays within its
\* array: every run of Terminal_CheckCommand types the letters it received at
\* the cursor, of a full line none, and carries out at most one of the keys
\* that wait, as the editor does; the other tasks of the main loop touch none
\* of it.  A run that writes the byte behind the array is the last one.
THEOREM TerminalIsAnEditor == MainLoopSpec => ImplementsEditor
<1>1. MainLoopInit => TerminalInv /\ Editor!Init
  BY TerminalStarts DEF MainLoopInit
<1>2. TerminalInv /\ [MainLoopNext]_mainLoopVars => TerminalInv' /\ [Editor!Next]_(Editor!vars)
  BY TerminalSteps
<1> QED BY <1>1, <1>2, PTL DEF MainLoopSpec, Editor!Spec, ImplementsEditor

-----------------------------------------------------------------------------
(* The global variables keep the values of their types.                    *)

\* The function that PowerOfTwo chooses, up to n.
Powers(f, n) == f = [k \in 0 .. n |-> IF k = 0 THEN 1 ELSE 2 * f[k - 1]]

LEMMA PowersEnd ==
  ASSUME NEW n \in Nat
  PROVE  \E f : Powers(f, n)
<1> DEFINE T == {m \in Nat : ~ \E f : Powers(f, m)}
<1>1. SUFFICES ASSUME T # {} PROVE FALSE
  OBVIOUS
<1>2. T \subseteq Nat
  OBVIOUS
<1>3. PICK x \in T : \A y \in T : x <= y
  BY <1>1, <1>2, LeastNumber
<1>4. x \in Nat /\ ~ \E f : Powers(f, x)
  OBVIOUS
<1>5. x # 0
  <2>1. Powers([k \in 0 .. 0 |-> 1], 0)
    BY DEF Powers
  <2> QED BY <1>4, <2>1
<1>6. x - 1 \in Nat /\ ~(x <= x - 1)
  BY <1>4, <1>5
<1>7. PICK f : Powers(f, x - 1)
  BY <1>3, <1>6
<1> DEFINE g == [k \in 0 .. x |-> IF k = x THEN 2 * f[x - 1] ELSE f[k]]
<1>8. Powers(g, x)
  <2>1. ASSUME NEW k \in 0 .. x PROVE g[k] = IF k = 0 THEN 1 ELSE 2 * g[k - 1]
    <3>1. CASE k = 0
      <4>1. 0 \in 0 .. x - 1 /\ k # x
        BY <1>4, <1>5, <3>1
      <4> QED BY <1>7, <3>1, <4>1 DEF Powers
    <3>2. CASE k = x
      <4>1. x - 1 \in 0 .. x /\ x - 1 # x
        BY <1>6
      <4>2. g[k - 1] = f[x - 1]
        BY <3>2, <4>1
      <4> QED BY <1>5, <3>2, <4>2
    <3>3. CASE k # 0 /\ k # x
      <4>1. k \in 0 .. x - 1 /\ k - 1 \in 0 .. x /\ k - 1 # x
        BY <1>4, <3>3
      <4>2. g[k] = f[k] /\ g[k - 1] = f[k - 1]
        BY <3>3, <4>1
      <4>3. f[k] = 2 * f[k - 1]
        BY <1>7, <3>3, <4>1 DEF Powers
      <4> QED BY <3>3, <4>2, <4>3
    <3> QED BY <3>1, <3>2, <3>3
  <2>2. g = [k \in 0 .. x |-> g[k]]
    OBVIOUS
  <2> HIDE DEF g
  <2> QED BY <2>1, <2>2 DEF Powers
<1> QED BY <1>4, <1>8

LEMMA PowerSteps ==
  /\ PowerOfTwo[0] = 1
  /\ \A k \in 1 .. Width : k - 1 \in 0 .. Width /\ PowerOfTwo[k] = 2 * PowerOfTwo[k - 1]
<1>0. Width \in Nat \ {0}
  BY GlobalVariablesAssumption
<1> DEFINE p == CHOOSE f : Powers(f, Width)
<1>1. Powers(p, Width)
  BY <1>0, PowersEnd
<1>2. PowerOfTwo = p
  BY DEF PowerOfTwo, Powers
<1> HIDE DEF p
<1> QED BY <1>0, <1>1, <1>2 DEF Powers

LEMMA PowersArePositive == \A k \in 0 .. Width : PowerOfTwo[k] \in Nat \ {0}
<1> DEFINE T == {k \in 0 .. Width : PowerOfTwo[k] \notin Nat \ {0}}
<1>1. SUFFICES ASSUME T # {} PROVE FALSE
  OBVIOUS
<1>2. Width \in Nat /\ T \subseteq Nat
  BY GlobalVariablesAssumption
<1>3. PICK x \in T : \A y \in T : x <= y
  BY <1>1, <1>2, LeastNumber
<1>4. x \in 1 .. Width
  BY <1>2, PowerSteps
<1>5. x - 1 \in 0 .. Width /\ ~(x <= x - 1)
  BY <1>2, <1>4
<1>6. PowerOfTwo[x - 1] \in Nat \ {0}
  BY <1>3, <1>5
<1>7. PowerOfTwo[x] \in Nat \ {0}
  BY <1>4, <1>6, PowerSteps
<1> QED BY <1>7

LEMMA PowersGrow ==
  ASSUME NEW j \in 0 .. Width, NEW k \in 0 .. Width, j <= k
  PROVE  PowerOfTwo[j] <= PowerOfTwo[k]
<1> DEFINE T == {x \in j .. Width : ~(PowerOfTwo[j] <= PowerOfTwo[x])}
<1>1. SUFFICES ASSUME T # {} PROVE FALSE
  OBVIOUS
<1>2. Width \in Nat /\ T \subseteq Nat
  BY GlobalVariablesAssumption
<1>3. PICK x \in T : \A y \in T : x <= y
  BY <1>1, <1>2, LeastNumber
<1>4. x \in 1 .. Width /\ x - 1 \in j .. Width /\ x - 1 \in 0 .. Width /\ ~(x <= x - 1)
  <2>1. PowerOfTwo[j] \in Nat
    BY PowersArePositive
  <2>2. x # j
    BY <2>1
  <2> QED BY <1>2, <2>2
<1>5. PowerOfTwo[j] <= PowerOfTwo[x - 1]
  BY <1>3, <1>4
<1>6. /\ PowerOfTwo[j] \in Nat /\ PowerOfTwo[x - 1] \in Nat /\ PowerOfTwo[x] = 2 * PowerOfTwo[x - 1]
  BY <1>4, PowersArePositive, PowerSteps
<1> QED BY <1>5, <1>6

LEMMA PowersMultiply ==
  ASSUME NEW b \in 0 .. Width, NEW c \in 0 .. Width, b + c <= Width
  PROVE  PowerOfTwo[b + c] = PowerOfTwo[b] * PowerOfTwo[c]
<1> DEFINE T == {x \in 0 .. Width : b + x <= Width
                     /\ PowerOfTwo[b + x] # PowerOfTwo[b] * PowerOfTwo[x]}
<1>1. SUFFICES ASSUME T # {} PROVE FALSE
  OBVIOUS
<1>2. Width \in Nat /\ T \subseteq Nat
  BY GlobalVariablesAssumption
<1>3. PICK x \in T : \A y \in T : x <= y
  BY <1>1, <1>2, LeastNumber
<1>4. PowerOfTwo[b] \in Nat
  BY PowersArePositive
<1>5. x # 0
  <2>1. b + 0 = b /\ PowerOfTwo[b] * 1 = PowerOfTwo[b]
    BY <1>4
  <2> QED BY <2>1, PowerSteps
<1>6. /\ x \in 1 .. Width /\ x - 1 \in 0 .. Width /\ b + (x - 1) <= Width /\ ~(x <= x - 1)
      /\ b + x \in 1 .. Width /\ b + x - 1 = b + (x - 1)
  BY <1>2, <1>5
<1>7. PowerOfTwo[b + (x - 1)] = PowerOfTwo[b] * PowerOfTwo[x - 1]
  BY <1>3, <1>6
<1>8. PowerOfTwo[b + x] = 2 * PowerOfTwo[b + (x - 1)] /\ PowerOfTwo[x] = 2 * PowerOfTwo[x - 1]
  BY <1>6, PowerSteps
<1>9. PowerOfTwo[x - 1] \in Nat
  BY <1>6, PowersArePositive
<1>10. 2 * (PowerOfTwo[b] * PowerOfTwo[x - 1]) = PowerOfTwo[b] * (2 * PowerOfTwo[x - 1])
  BY <1>4, <1>9
<1> QED BY <1>7, <1>8, <1>10

\* A remainder is what is left below the divisor, and there is one only.
LEMMA OneRemainder ==
  ASSUME NEW a \in Int, NEW m \in Nat \ {0}, NEW q \in Int, NEW r \in 0 .. m - 1, a = q * m + r
  PROVE  a % m = r
<1>1. a % m \in 0 .. m - 1 /\ a = ((a \div m) * m) + (a % m) /\ a \div m \in Int
  OBVIOUS
<1> DEFINE e == a \div m
           s == a % m
<1>2. e \in Int /\ s \in 0 .. m - 1 /\ e * m + s = q * m + r
  BY <1>1
<1> HIDE DEF e, s
<1>3. (q - e) * m = s - r
  BY <1>2
<1>4. q - e = 0
  <2>1. CASE q - e >= 1
    <3>1. (q - e) * m >= m
      BY <1>2, <2>1
    <3> QED BY <1>2, <1>3, <3>1
  <2>2. CASE q - e <= -1
    <3>1. (q - e) * m <= -m
      BY <1>2, <2>2
    <3> QED BY <1>2, <1>3, <3>1
  <2> QED BY <1>2, <2>1, <2>2
<1>5. s = r
  BY <1>2, <1>3, <1>4
<1> QED BY <1>5 DEF s

LEMMA DivisionLeaves ==
  ASSUME NEW a \in Int, NEW m \in Nat \ {0}
  PROVE  a % m \in 0 .. m - 1 /\ a = ((a \div m) * m) + (a % m) /\ a \div m \in Int
OBVIOUS

\* A number that has the bits of the type after it was cut to a word has them uncut.
LEMMA CutToType ==
  ASSUME NEW a \in Nat, NEW b \in 1 .. Width, Word(a) <= PowerOfTwo[b] - 1
  PROVE  a % PowerOfTwo[b] = Word(a)
<1>0. Width \in Nat
  BY GlobalVariablesAssumption
<1>1. b \in 0 .. Width /\ Width - b \in 0 .. Width /\ b + (Width - b) = Width /\ Width \in 0 .. Width
  BY <1>0
<1>2. /\ PowerOfTwo[b] \in Nat \ {0} /\ PowerOfTwo[Width - b] \in Nat \ {0}
      /\ PowerOfTwo[Width] \in Nat \ {0}
      /\ PowerOfTwo[Width] = PowerOfTwo[b] * PowerOfTwo[Width - b]
  BY <1>1, PowersArePositive, PowersMultiply
<1> DEFINE p == PowerOfTwo[b]
           m == PowerOfTwo[Width - b]
           n == PowerOfTwo[Width]
           q == a \div n
           r == a % n
<1>3. /\ p \in Nat \ {0} /\ m \in Nat \ {0} /\ n \in Nat \ {0} /\ n = p * m
  BY <1>2
<1>4. r <= p - 1
  BY DEF Word
<1> HIDE DEF p, m, n
<1>5. r \in 0 .. n - 1 /\ q \in Int /\ a = (q * n) + r
  <2>1. a \in Int
    OBVIOUS
  <2>2. a % n \in 0 .. n - 1 /\ a = ((a \div n) * n) + (a % n) /\ a \div n \in Int
    BY <1>3, <2>1, DivisionLeaves
  <2> QED BY <2>2
<1> HIDE DEF q, r
<1>6. r \in 0 .. p - 1 /\ q * m \in Int
  BY <1>3, <1>4, <1>5
<1>7. a = (q * m) * p + r
  <2>1. q * (p * m) = (q * m) * p
    BY <1>3, <1>5
  <2> QED BY <1>3, <1>5, <2>1
<1>8. a % p = r
  BY <1>3, <1>6, <1>7, OneRemainder
<1> QED BY <1>8 DEF p, r, n, Word

\* The function that WordOf chooses, up to n.
Sums(f, bits, n) ==
    f = [k \in 0 .. n |-> IF k = 0 THEN 0
                          ELSE f[k - 1] + IF k - 1 \in bits THEN PowerOfTwo[k - 1] ELSE 0]

LEMMA SumsEnd ==
  ASSUME NEW bits, NEW n \in Nat
  PROVE  \E f : Sums(f, bits, n)
<1> DEFINE T == {m \in Nat : ~ \E f : Sums(f, bits, m)}
           Bits(k) == IF k - 1 \in bits THEN PowerOfTwo[k - 1] ELSE 0
<1>1. SUFFICES ASSUME T # {} PROVE FALSE
  OBVIOUS
<1>2. T \subseteq Nat
  OBVIOUS
<1>3. PICK x \in T : \A y \in T : x <= y
  BY <1>1, <1>2, LeastNumber
<1>4. x \in Nat /\ ~ \E f : Sums(f, bits, x)
  OBVIOUS
<1>5. x # 0
  <2>1. Sums([k \in 0 .. 0 |-> 0], bits, 0)
    BY DEF Sums
  <2> QED BY <1>4, <2>1
<1>6. x - 1 \in Nat /\ ~(x <= x - 1)
  BY <1>4, <1>5
<1>7. PICK f : Sums(f, bits, x - 1)
  BY <1>3, <1>6
<1> DEFINE g == [k \in 0 .. x |-> IF k = x THEN f[x - 1] + Bits(x) ELSE f[k]]
<1>8. Sums(g, bits, x)
  <2>1. ASSUME NEW k \in 0 .. x PROVE g[k] = IF k = 0 THEN 0 ELSE g[k - 1] + Bits(k)
    <3> HIDE DEF Bits
    <3>1. CASE k = 0
      <4>1. 0 \in 0 .. x - 1 /\ k # x
        BY <1>4, <1>5, <3>1
      <4> QED BY <1>7, <3>1, <4>1 DEF Sums
    <3>2. CASE k = x
      <4>1. x - 1 \in 0 .. x /\ x - 1 # x
        BY <1>6
      <4>2. g[k - 1] = f[x - 1]
        BY <3>2, <4>1
      <4> QED BY <1>5, <3>2, <4>2
    <3>3. CASE k # 0 /\ k # x
      <4>1. k \in 0 .. x - 1 /\ k - 1 \in 0 .. x /\ k - 1 # x
        BY <1>4, <3>3
      <4>2. g[k] = f[k] /\ g[k - 1] = f[k - 1]
        BY <3>3, <4>1
      <4>3. f[k] = f[k - 1] + Bits(k)
        BY <1>7, <3>3, <4>1 DEF Sums, Bits
      <4> QED BY <3>3, <4>2, <4>3
    <3> QED BY <3>1, <3>2, <3>3
  <2>2. g = [k \in 0 .. x |-> g[k]]
    OBVIOUS
  <2> HIDE DEF g
  <2> QED BY <2>1, <2>2 DEF Sums
<1> QED BY <1>4, <1>8

LEMMA WordFits ==
  ASSUME NEW bits
  PROVE  WordOf(bits) \in 0 .. PowerOfTwo[Width] - 1
<1>0. Width \in Nat
  BY GlobalVariablesAssumption
<1> DEFINE sum == CHOOSE f : Sums(f, bits, Width)
           T == {k \in 0 .. Width : sum[k] \notin 0 .. PowerOfTwo[k] - 1}
<1>1. Sums(sum, bits, Width)
  BY <1>0, SumsEnd
<1>2. WordOf(bits) = sum[Width]
  BY DEF WordOf, Sums
<1> HIDE DEF sum
<1>3. ASSUME T # {} PROVE FALSE
  <2>0. T \subseteq Nat
    BY <1>0
  <2>1. PICK x \in T : \A y \in T : x <= y
    <3> HIDE DEF T
    <3> QED BY <1>3, <2>0, LeastNumber
  <2>2. x # 0
    <3>1. sum[0] = 0
      BY <1>0, <1>1 DEF Sums
    <3> QED BY <3>1, PowerSteps
  <2>3. x \in 1 .. Width /\ x - 1 \in 0 .. Width /\ ~(x <= x - 1)
    BY <1>0, <2>2
  <2>4. sum[x - 1] \in 0 .. PowerOfTwo[x - 1] - 1
    BY <2>1, <2>3
  <2>5. sum[x] = sum[x - 1] + IF x - 1 \in bits THEN PowerOfTwo[x - 1] ELSE 0
    BY <1>1, <2>3 DEF Sums
  <2>6. PowerOfTwo[x] = 2 * PowerOfTwo[x - 1] /\ PowerOfTwo[x - 1] \in Nat \ {0}
    BY <2>3, PowerSteps, PowersArePositive
  <2>7. sum[x] \in 0 .. PowerOfTwo[x] - 1
    BY <2>4, <2>5, <2>6
  <2> QED BY <2>7
<1> QED BY <1>0, <1>2, <1>3

\* What the third word of a command may be.
LEMMA ParamForms ==
  ASSUME NEW p \in Params
  PROVE  \/ p.form \in {"decimal", "negative", "hex"} /\ p.number \in Nat /\ p # EmptyText
         \/ p.form = "binary" /\ p.number \in Nat /\ p # EmptyText
         \/ p.form = "word" /\ p.word \in Words /\ p # EmptyText
<1>1. CASE p \in [form : {"decimal", "negative", "hex"}, number : 0 .. MaxNumber, long : BOOLEAN]
  <2>1. p.form \in {"decimal", "negative", "hex"} /\ p.number \in 0 .. MaxNumber
    BY <1>1
  <2>2. p # EmptyText
    BY <2>1 DEF EmptyText
  <2> QED BY <2>1, <2>2, GlobalVariablesAssumption
<1>2. ASSUME NEW k \in 1 .. Width,
             p \in [form : {"binary"}, length : {k}, number : 0 .. PowerOfTwo[k] - 1]
      PROVE  p.form = "binary" /\ p.number \in Nat /\ p # EmptyText
  <2>1. p.form = "binary" /\ p.number \in 0 .. PowerOfTwo[k] - 1
    BY <1>2
  <2>2. PowerOfTwo[k] \in Nat
    BY GlobalVariablesAssumption, PowersArePositive
  <2>3. p # EmptyText
    BY <2>1 DEF EmptyText
  <2> QED BY <2>1, <2>2, <2>3
<1>3. CASE p \in [form : {"word"}, word : Words]
  <2>1. p.form = "word" /\ p.word \in Words
    BY <1>3
  <2>2. p # EmptyText
    BY <2>1 DEF EmptyText
  <2> QED BY <2>1, <2>2
<1>4. CASE p \in UNION {[form : {"binary"}, length : {k}, number : 0 .. PowerOfTwo[k] - 1] :
                           k \in 1 .. Width}
  <2>1. PICK k \in 1 .. Width :
              p \in [form : {"binary"}, length : {k}, number : 0 .. PowerOfTwo[k] - 1]
    BY <1>4
  <2> QED BY <1>2, <2>1
<1> DEFINE numbers == [form : {"decimal", "negative", "hex"}, number : 0 .. MaxNumber, long : BOOLEAN]
           binaries == UNION {[form : {"binary"}, length : {k}, number : 0 .. PowerOfTwo[k] - 1] :
                                k \in 1 .. Width}
           words == [form : {"word"}, word : Words]
<1>5. Params = numbers \cup binaries \cup words
  BY Zenon DEF Params
<1>6. p \in numbers \/ p \in binaries \/ p \in words
  <2> HIDE DEF numbers, binaries, words
  <2> QED BY <1>5
<1> QED BY <1>1, <1>3, <1>4, <1>6

\* What SetVariable needs to know of the parameter.
IsParam(v, p) ==
    /\ \/ p = EmptyText
       \/ p.form \in {"decimal", "negative", "hex", "binary"} /\ p.number \in Nat /\ p # EmptyText
       \/ p.form = "word" /\ p.word \in Words /\ p # EmptyText
    /\ v.type = "String" => p = EmptyText \/ p.form = "word"

LEMMA WordIsFit ==
  ASSUME NEW n \in Int, NEW b \in 0 .. Width
  PROVE  /\ Word(n) \in 0 .. PowerOfTwo[Width] - 1
         /\ n % PowerOfTwo[b] \in 0 .. PowerOfTwo[b] - 1
<1>1. Width \in 0 .. Width
  BY GlobalVariablesAssumption
<1>2. PowerOfTwo[Width] \in Nat \ {0} /\ PowerOfTwo[b] \in Nat \ {0}
  BY <1>1, PowersArePositive
<1> QED BY <1>2, DivisionLeaves DEF Word

\* What a number that is accepted has to be, for each of the types that hold one.
LEMMA CheckedValue ==
  ASSUME NEW v, CheckGlobalVar(v), NEW num \in Nat, CheckValue(v, num) = "Ok"
  PROVE  /\ v.type = "Unsigned" => num <= PowerOfTwo[v.bits] - 1
         /\ v.type = "Enumerator" => num < v.maxValue
         /\ v.type # "Bits" /\ v.maxValue # v.minValue => num \in v.minValue .. v.maxValue
<1>1. ~TypeTooMuch(v, num)
  BY DEF CheckValue
<1>2. /\ v.maxValue # v.minValue /\ v.type # "Bits" => ~(num > v.maxValue) /\ ~(num < v.minValue)
  BY DEF CheckValue
<1>3. v.bits \in 0 .. Width /\ v.minValue \in Nat /\ v.maxValue \in Nat
  BY GlobalVariablesAssumption DEF CheckGlobalVar
<1>4. PowerOfTwo[v.bits] \in Nat
  BY <1>3, PowersArePositive
<1>5. v.type = "Unsigned" => ~(num > PowerOfTwo[v.bits] - 1)
  BY <1>1 DEF TypeTooMuch
<1>6. v.type = "Enumerator" => ~(num >= v.maxValue)
  BY <1>1 DEF TypeTooMuch
<1> QED BY <1>2, <1>3, <1>4, <1>5, <1>6

LEMMA StoredKeepsType ==
  ASSUME NEW v, CheckGlobalVar(v), HasType(v, varValue), NEW num, NEW word,
         CheckValue(v, num) = "Ok" => HasType(v, word)
  PROVE  HasType(v, StoreChecked(v, num, word).value)
<1>1. CASE CheckValue(v, num) = "Ok"
  <2>1. StoreChecked(v, num, word).value = word
    BY <1>1 DEF StoreChecked, Accepted
  <2> QED BY <1>1, <2>1
<1>2. CASE CheckValue(v, num) # "Ok"
  <2>1. StoreChecked(v, num, word).value = varValue
    BY <1>2 DEF StoreChecked, Refused
  <2> QED BY <2>1
<1> QED BY <1>1, <1>2

LEMMA RefusedKeeps == ASSUME NEW result PROVE Refused(result).value = varValue
BY DEF Refused

LEMMA AcceptedStores == ASSUME NEW word PROVE Accepted(word).value = word
BY DEF Accepted

LEMMA SetBoolKeepsType ==
  ASSUME NEW v, CheckGlobalVar(v), HasType(v, varValue), v.type = "Bool", NEW p, IsParam(v, p)
  PROVE  HasType(v, SetBool(p).value)
<1>1. \A value : value \in {0, 1} => HasType(v, value)
  <2>1. v.bits \in 1 .. Width /\ 1 \in 1 .. Width /\ 1 <= v.bits
    BY GlobalVariablesAssumption DEF CheckGlobalVar
  <2>2. PowerOfTwo[1] = 2 /\ PowerOfTwo[1] <= PowerOfTwo[v.bits] /\ PowerOfTwo[v.bits] \in Nat
    <3>1. 1 - 1 = 0 /\ v.bits \in 0 .. Width /\ 1 \in 0 .. Width
      BY <2>1
    <3>2. PowerOfTwo[1] = 2 * 1
      BY <2>1, <3>1, PowerSteps
    <3> QED BY <2>1, <3>1, <3>2, PowersGrow, PowersArePositive
  <2>3. {0, 1} \subseteq 0 .. PowerOfTwo[v.bits] - 1
    BY <2>2
  <2> QED BY <2>3 DEF HasType
<1>2. CASE IsDecimal(p) /\ Word(Decimal(p)) \in {0, 1}
  BY <1>1, <1>2, AcceptedStores DEF SetBool
<1>3. CASE ~(IsDecimal(p) /\ Word(Decimal(p)) \in {0, 1})
  <2>1. SetBool(p).value \in {0, 1, varValue}
    BY <1>3, AcceptedStores, RefusedKeeps DEF SetBool
  <2> QED BY <1>1, <2>1
<1> QED BY <1>2, <1>3

LEMMA SetHexKeepsType ==
  ASSUME NEW v, CheckGlobalVar(v), HasType(v, varValue), v.type = "Unsigned", v.isHex,
         NEW p, IsParam(v, p)
  PROVE  HasType(v, SetHex(v, p).value)
<1>1. CASE p.form # "hex"
  BY <1>1, RefusedKeeps DEF SetHex
<1>2. CASE p.form = "hex"
  <2>1. p.number \in Nat
    BY <1>2 DEF IsParam, EmptyText
  <2>2. v.bits = Width /\ Width \in 0 .. Width
    BY GlobalVariablesAssumption DEF CheckGlobalVar
  <2>3. Word(p.number) \in 0 .. PowerOfTwo[Width] - 1
    BY <2>1, <2>2, WordIsFit
  <2>4. p.number % PowerOfTwo[v.bits] = Word(p.number) /\ Word(p.number) \in Nat
    BY <2>2, <2>3 DEF Word
  <2>5. ASSUME CheckValue(v, Word(p.number)) = "Ok" PROVE HasType(v, Word(p.number))
    BY <2>2, <2>3, <2>4, <2>5, CheckedValue DEF HasType
  <2>6. HasType(v, StoreChecked(v, Word(p.number), p.number % PowerOfTwo[v.bits]).value)
    BY <2>4, <2>5, StoredKeepsType
  <2> QED BY <1>2, <2>6 DEF SetHex
<1> QED BY <1>1, <1>2

LEMMA DecimalIsNumber ==
  ASSUME NEW v, NEW p, IsParam(v, p), IsDecimal(p)
  PROVE  Decimal(p) \in Nat
BY DEF IsParam, IsDecimal, Decimal, EmptyText

LEMMA SetUnsignedKeepsType ==
  ASSUME NEW v, CheckGlobalVar(v), HasType(v, varValue), v.type = "Unsigned",
         NEW p, IsParam(v, p)
  PROVE  HasType(v, SetUnsigned(v, p).value)
<1>1. CASE ~IsDecimal(p)
  BY <1>1, RefusedKeeps DEF SetUnsigned
<1>2. CASE IsDecimal(p)
  <2> DEFINE d == Decimal(p)
             word == d % PowerOfTwo[v.bits]
  <2>1. d \in Nat
    BY <1>2, DecimalIsNumber
  <2>2. v.bits \in 1 .. Width /\ v.bits \in 0 .. Width
    BY GlobalVariablesAssumption DEF CheckGlobalVar
  <2> HIDE DEF d
  <2>3. Word(d) \in Nat /\ word \in 0 .. PowerOfTwo[v.bits] - 1
    <3>1. Word(d) \in 0 .. PowerOfTwo[Width] - 1 /\ word \in 0 .. PowerOfTwo[v.bits] - 1
      BY <2>1, <2>2, WordIsFit
    <3> QED BY <3>1
  <2>4. ASSUME CheckValue(v, Word(d)) = "Ok" PROVE HasType(v, word)
    <3>1. Word(d) <= PowerOfTwo[v.bits] - 1
          /\ (v.maxValue # v.minValue => Word(d) \in v.minValue .. v.maxValue)
      BY <2>3, <2>4, CheckedValue
    <3>2. word = Word(d)
      BY <2>1, <2>2, <3>1, CutToType
    <3> QED BY <2>3, <3>1, <3>2 DEF HasType
  <2>5. HasType(v, StoreChecked(v, Word(d), word).value)
    <3> HIDE DEF word
    <3> QED BY <2>4, StoredKeepsType
  <2> QED BY <1>2, <2>5 DEF SetUnsigned, d, word
<1> QED BY <1>1, <1>2

LEMMA SetSignedKeepsType ==
  ASSUME NEW v, CheckGlobalVar(v), HasType(v, varValue), v.type = "Signed", NEW p, IsParam(v, p)
  PROVE  HasType(v, SetSigned(v, p).value)
<1>1. CASE ~IsDecimal(p) /\ ~(p.form = "negative" /\ ~p.long)
  BY <1>1, RefusedKeeps DEF SetSigned
<1>2. CASE IsDecimal(p) \/ (p.form = "negative" /\ ~p.long)
  <2> DEFINE num == IF IsDecimal(p) THEN Decimal(p) ELSE -p.number
             word == num % PowerOfTwo[v.bits]
  <2>1. num \in Int
    <3>1. CASE IsDecimal(p)
      BY <3>1, DecimalIsNumber
    <3>2. CASE ~IsDecimal(p)
      <4>1. p.number \in Nat
        BY <1>2, <3>2 DEF IsParam, EmptyText
      <4> QED BY <3>2, <4>1
    <3> QED BY <3>1, <3>2
  <2> HIDE DEF num
  <2>2. v.bits \in 0 .. Width
    BY GlobalVariablesAssumption DEF CheckGlobalVar
  <2>3. word \in 0 .. PowerOfTwo[v.bits] - 1
    BY <2>1, <2>2, WordIsFit
  <2>4. HasType(v, word)
    BY <2>3 DEF HasType
  <2>5. HasType(v, StoreChecked(v, Word(num), word).value)
    <3> HIDE DEF word
    <3> QED BY <2>4, StoredKeepsType
  <2> QED BY <1>2, <2>5 DEF SetSigned, num, word
<1> QED BY <1>1, <1>2

LEMMA SetBitsKeepsType ==
  ASSUME NEW v, CheckGlobalVar(v), HasType(v, varValue), v.type = "Bits", NEW p, IsParam(v, p)
  PROVE  HasType(v, SetBits(v, p).value)
<1> DEFINE num == p.number * PowerOfTwo[v.minValue]
           kept == BitsOf(varValue) \ (v.minValue .. v.maxValue - 1)
           word == WordOf(BitsOf(num) \cup kept)
<1>1. HasType(v, word)
  <2>1. v.bits = Width
    BY DEF CheckGlobalVar
  <2>2. word \in 0 .. PowerOfTwo[Width] - 1
    BY WordFits
  <2> HIDE DEF word
  <2> QED BY <2>1, <2>2 DEF HasType
<1>2. HasType(v, StoreChecked(v, num, word).value)
  <2> HIDE DEF word, num
  <2> QED BY <1>1, StoredKeepsType
<1>3. SetBits(v, p) \in {Refused("NotBinary"), Refused("TooLongBinary"), StoreChecked(v, num, word)}
  BY DEF SetBits
<1> HIDE DEF num, word
<1> QED BY <1>2, <1>3, RefusedKeeps

LEMMA SetStringKeepsType ==
  ASSUME NEW v, CheckGlobalVar(v), HasType(v, varValue), v.type = "String", NEW p, IsParam(v, p)
  PROVE  HasType(v, SetString(v, p).value)
<1>1. CASE TextLength(p) >= v.maxValue - 1
  BY <1>1, RefusedKeeps DEF SetString
<1>2. CASE ~(TextLength(p) >= v.maxValue - 1) /\ p = EmptyText
  BY <1>2, AcceptedStores DEF SetString
<1>3. CASE ~(TextLength(p) >= v.maxValue - 1) /\ p # EmptyText
  <2>1. p.word.length \in Nat /\ TextLength(p) = p.word.length
    <3>1. p.word \in Words
      BY <1>3 DEF IsParam
    <3> QED BY <1>3, <3>1, GlobalVariablesAssumption DEF TextLength
  <2>2. p.word.length < v.maxValue
    <3>1. v.maxValue \in Nat
      BY DEF CheckGlobalVar
    <3> QED BY <1>3, <2>1, <3>1
  <2>3. SetString(v, p).value = p.word
    BY <1>3, AcceptedStores DEF SetString
  <2> QED BY <2>2, <2>3 DEF HasType
<1> QED BY <1>1, <1>2, <1>3

LEMMA SetEnumeratorKeepsType ==
  ASSUME NEW v, CheckGlobalVar(v), HasType(v, varValue), v.type = "Enumerator",
         NEW p, IsParam(v, p)
  PROVE  HasType(v, SetEnumerator(v, p).value)
<1>1. /\ v.maxValue \in Nat /\ v.maxValue <= PowerOfTwo[v.bits] /\ PowerOfTwo[v.bits] \in Nat
  <2>1. v.bits \in 0 .. Width
    BY GlobalVariablesAssumption DEF CheckGlobalVar
  <2> QED BY <2>1, PowersArePositive DEF CheckGlobalVar
<1>2. ASSUME NEW value \in Nat, value < v.maxValue PROVE HasType(v, value)
  BY <1>1, <1>2 DEF HasType
<1>3. CASE p.form = "decimal"
  <2>1. p.number \in Nat
    BY <1>3 DEF IsParam, EmptyText
  <2>2. Word(p.number) \in Nat
    <3>1. 0 \in 0 .. Width
      BY GlobalVariablesAssumption
    <3>2. Word(p.number) \in 0 .. PowerOfTwo[Width] - 1
      BY <2>1, <3>1, WordIsFit
    <3> QED BY <3>2
  <2>3. CASE ~p.long /\ CheckValue(v, Word(p.number)) = "Ok"
    BY <1>2, <1>3, <2>2, <2>3, CheckedValue, AcceptedStores DEF SetEnumerator
  <2>4. CASE p.long \/ CheckValue(v, Word(p.number)) # "Ok"
    BY <1>3, <2>4, RefusedKeeps DEF SetEnumerator
  <2> QED BY <2>3, <2>4
<1> DEFINE named(i) == v.enumList[i] = p.word.name
           found == CHOOSE i \in 1 .. v.maxValue : named(i)
<1>4. CASE p.form = "word" /\ \E i \in 1 .. v.maxValue : named(i)
  <2>1. found \in 1 .. v.maxValue
    <3> HIDE DEF named
    <3> QED BY <1>4
  <2>2. SetEnumerator(v, p).value = found - 1
    BY <1>4, AcceptedStores DEF SetEnumerator
  <2> HIDE DEF found
  <2>3. found - 1 \in Nat /\ found - 1 < v.maxValue
    BY <1>1, <2>1
  <2> QED BY <1>2, <2>2, <2>3
<1>5. CASE p.form # "decimal" /\ ~(p.form = "word" /\ \E i \in 1 .. v.maxValue : named(i))
  BY <1>5, RefusedKeeps DEF SetEnumerator
<1> QED BY <1>3, <1>4, <1>5

LEMMA SetKeepsType ==
  ASSUME NEW v \in VarList, HasType(v, varValue), NEW p, IsParam(v, p)
  PROVE  HasType(v, SetVariable(v, p).value)
<1>1. CheckGlobalVar(v)
  BY GlobalVariablesAssumption
<1>2. CASE v.type = "Bool"
  BY <1>1, <1>2, SetBoolKeepsType DEF SetVariable
<1>3. CASE v.type = "Unsigned" /\ v.isHex
  BY <1>1, <1>3, SetHexKeepsType DEF SetVariable
<1>4. CASE v.type = "Unsigned" /\ ~v.isHex
  BY <1>1, <1>4, SetUnsignedKeepsType DEF SetVariable
<1>5. CASE v.type = "Signed"
  BY <1>1, <1>5, SetSignedKeepsType DEF SetVariable
<1>6. CASE v.type = "Bits"
  BY <1>1, <1>6, SetBitsKeepsType DEF SetVariable
<1>7. CASE v.type = "String"
  BY <1>1, <1>7, SetStringKeepsType DEF SetVariable
<1>8. CASE v.type = "Enumerator"
  BY <1>1, <1>8, SetEnumeratorKeepsType DEF SetVariable
<1>9. v.type \in {"Bool", "Unsigned", "Signed", "Bits", "String", "Enumerator"}
  BY <1>1 DEF CheckGlobalVar
<1> QED BY <1>2, <1>3, <1>4, <1>5, <1>6, <1>7, <1>8, <1>9

ArgPlaces == 0 .. CMDH_COMMAND_ARG_MAX_COUNT - 1
WordsOf(text) == {EmptyText} \cup (ToSet(text) \ {Space})

\* The words that were found are words of the line, no more than there are places.
IsSplit(st, text) ==
    /\ st.n \in 0 .. CMDH_COMMAND_ARG_MAX_COUNT /\ st.open \in BOOLEAN
    /\ st.open => st.n < CMDH_COMMAND_ARG_MAX_COUNT /\ st.args[st.n] \in WordsOf(text)
    /\ DOMAIN st.args = ArgPlaces
    /\ \A k \in 0 .. st.n - 1 : st.args[k] \in WordsOf(text)

LEMMA BeginSplit ==
  ASSUME NEW text, NEW st, IsSplit(st, text), st.n < CMDH_COMMAND_ARG_MAX_COUNT,
         NEW word \in WordsOf(text)
  PROVE  /\ IsSplit(Begin(st, word), text)
         /\ Begin(st, word).n = st.n /\ Begin(st, word).open = TRUE
<1> DEFINE u == Begin(st, word)
<1>1. u.n = st.n /\ u.open = TRUE /\ u.args = [st.args EXCEPT ![st.n] = word]
  BY DEF Begin
<1> HIDE DEF u
<1>0. st.n \in Nat /\ CMDH_COMMAND_ARG_MAX_COUNT \in Nat
  BY CommandHandlerAssumption DEF IsSplit
<1>2. st.n \in ArgPlaces
  BY <1>0 DEF ArgPlaces
<1>3. DOMAIN u.args = ArgPlaces /\ u.args[st.n] = word
  BY <1>1, <1>2 DEF IsSplit
<1>4. \A k \in 0 .. st.n - 1 : u.args[k] = st.args[k]
  <2> SUFFICES ASSUME NEW k \in 0 .. st.n - 1 PROVE u.args[k] = st.args[k]
    OBVIOUS
  <2>1. k \in ArgPlaces /\ k # st.n
    BY <1>0, <1>2 DEF ArgPlaces
  <2> QED BY <1>1, <2>1 DEF IsSplit
<1>5. IsSplit(u, text)
  BY <1>1, <1>3, <1>4 DEF IsSplit
<1> QED BY <1>1, <1>5 DEF u

LEMMA FinishSplit ==
  ASSUME NEW text, NEW st, IsSplit(st, text), st.open
  PROVE  /\ IsSplit(Finish(st), text)
         /\ Finish(st).n = st.n + 1 /\ Finish(st).open = FALSE
<1> DEFINE u == Finish(st)
<1>1. /\ u.n = st.n + 1 /\ u.open = FALSE
      /\ u.args = IF st.n + 1 < CMDH_COMMAND_ARG_MAX_COUNT
                  THEN [st.args EXCEPT ![st.n + 1] = NoText] ELSE st.args
  BY DEF Finish
<1> HIDE DEF u
<1>0. st.n \in Nat /\ CMDH_COMMAND_ARG_MAX_COUNT \in Nat
  BY CommandHandlerAssumption DEF IsSplit
<1>2. st.n \in ArgPlaces /\ st.n + 1 \in 0 .. CMDH_COMMAND_ARG_MAX_COUNT
  BY <1>0 DEF IsSplit, ArgPlaces
<1>3. DOMAIN u.args = ArgPlaces
  BY <1>1 DEF IsSplit
<1>4. \A k \in 0 .. st.n : u.args[k] = st.args[k]
  <2> SUFFICES ASSUME NEW k \in 0 .. st.n PROVE u.args[k] = st.args[k]
    OBVIOUS
  <2>1. k \in ArgPlaces /\ k # st.n + 1
    BY <1>0, <1>2 DEF ArgPlaces
  <2> QED BY <1>1, <2>1 DEF IsSplit
<1>5. \A k \in 0 .. st.n : st.args[k] \in WordsOf(text)
  <2> SUFFICES ASSUME NEW k \in 0 .. st.n PROVE st.args[k] \in WordsOf(text)
    OBVIOUS
  <2>1. k = st.n \/ k \in 0 .. st.n - 1
    BY <1>2 DEF ArgPlaces
  <2> QED BY <2>1 DEF IsSplit
<1>6. \A k \in 0 .. u.n - 1 : k \in 0 .. st.n
  BY <1>0, <1>1
<1>7. IsSplit(u, text)
  <2>1. \A k \in 0 .. u.n - 1 : u.args[k] \in WordsOf(text)
    BY <1>4, <1>5, <1>6
  <2> QED BY <1>1, <1>2, <1>3, <2>1 DEF IsSplit
<1> QED BY <1>1, <1>7 DEF u

LEMMA FinishWordSplit ==
  ASSUME NEW text, NEW st, IsSplit(st, text), st.n < CMDH_COMMAND_ARG_MAX_COUNT
  PROVE  IsSplit(FinishWord(st), text) /\ FinishWord(st).n = st.n + 1
<1>1. CASE st.open
  BY <1>1, FinishSplit DEF FinishWord
<1>2. CASE ~st.open
  <2>1. EmptyText \in WordsOf(text)
    BY DEF WordsOf
  <2> DEFINE u == Begin(st, EmptyText)
  <2>2. IsSplit(u, text) /\ u.n = st.n /\ u.open = TRUE
    BY <2>1, BeginSplit
  <2> HIDE DEF u
  <2>3. IsSplit(Finish(u), text) /\ Finish(u).n = st.n + 1
    BY <2>2, FinishSplit
  <2> QED BY <1>2, <2>3 DEF FinishWord, u
<1> QED BY <1>1, <1>2

LEMMA StepSplits ==
  ASSUME NEW text, NEW st, IsSplit(st, text), NEW i \in DOMAIN text,
         text[i] = Space /\ i = Len(text) => st.n + 1 < CMDH_COMMAND_ARG_MAX_COUNT
  PROVE  IsSplit(SplitStep(text, st, i), text)
<1> DEFINE ended == IF text[i] = Space THEN FinishWord(st) ELSE Begin(st, text[i])
<1>0. st.n \in Nat /\ CMDH_COMMAND_ARG_MAX_COUNT \in Nat
  BY CommandHandlerAssumption DEF IsSplit
<1>1. CASE st.n >= CMDH_COMMAND_ARG_MAX_COUNT
  BY <1>1 DEF SplitStep
<1>2. CASE st.n < CMDH_COMMAND_ARG_MAX_COUNT
  <2>1. /\ IsSplit(ended, text)
        /\ i = Len(text) => ended.n < CMDH_COMMAND_ARG_MAX_COUNT
    <3>1. CASE text[i] = Space
      <4>1. IsSplit(FinishWord(st), text) /\ FinishWord(st).n = st.n + 1
        BY <1>2, FinishWordSplit
      <4> QED BY <3>1, <4>1
    <3>2. CASE text[i] # Space
      <4>1. text[i] \in WordsOf(text)
        BY <3>2 DEF WordsOf, ToSet
      <4>2. IsSplit(Begin(st, text[i]), text) /\ Begin(st, text[i]).n = st.n
        BY <1>2, <4>1, BeginSplit
      <4> QED BY <1>2, <3>2, <4>2
    <3> QED BY <3>1, <3>2
  <2>2. SplitStep(text, st, i) = IF i = Len(text) THEN FinishWord(ended) ELSE ended
    BY <1>0, <1>2 DEF SplitStep
  <2> HIDE DEF ended
  <2>3. i = Len(text) => IsSplit(FinishWord(ended), text)
    BY <2>1, FinishWordSplit
  <2> QED BY <2>1, <2>2, <2>3
<1> QED BY <1>0, <1>1, <1>2

\* The function that CommandParser chooses, up to n.
NothingSplit == [n |-> 0, open |-> FALSE, args |-> [arguments EXCEPT ![0] = NoText]]
Splits(f, text, n) ==
    f = [i \in 0 .. n |-> IF i = 0 THEN NothingSplit ELSE SplitStep(text, f[i - 1], i)]

LEMMA SplitsEnd ==
  ASSUME NEW text, NEW n \in Nat
  PROVE  \E f : Splits(f, text, n)
<1> DEFINE T == {m \in Nat : ~ \E f : Splits(f, text, m)}
<1>1. SUFFICES ASSUME T # {} PROVE FALSE
  OBVIOUS
<1>2. T \subseteq Nat
  OBVIOUS
<1>3. PICK x \in T : \A y \in T : x <= y
  BY <1>1, <1>2, LeastNumber
<1>4. x \in Nat /\ ~ \E f : Splits(f, text, x)
  OBVIOUS
<1>5. x # 0
  <2>1. Splits([i \in 0 .. 0 |-> NothingSplit], text, 0)
    BY DEF Splits
  <2> QED BY <1>4, <2>1
<1>6. x - 1 \in Nat /\ ~(x <= x - 1)
  BY <1>4, <1>5
<1>7. PICK f : Splits(f, text, x - 1)
  BY <1>3, <1>6
<1> DEFINE g == [i \in 0 .. x |-> IF i = x THEN SplitStep(text, f[x - 1], x) ELSE f[i]]
<1>8. Splits(g, text, x)
  <2>1. ASSUME NEW i \in 0 .. x
        PROVE  g[i] = IF i = 0 THEN NothingSplit ELSE SplitStep(text, g[i - 1], i)
    <3>1. CASE i = 0
      <4>1. 0 \in 0 .. x - 1 /\ i # x
        BY <1>4, <1>5, <3>1
      <4> QED BY <1>7, <3>1, <4>1 DEF Splits
    <3>2. CASE i = x
      <4>1. x - 1 \in 0 .. x /\ x - 1 # x
        BY <1>6
      <4>2. g[i - 1] = f[x - 1]
        BY <3>2, <4>1
      <4> QED BY <1>5, <3>2, <4>2
    <3>3. CASE i # 0 /\ i # x
      <4>1. i \in 0 .. x - 1 /\ i - 1 \in 0 .. x /\ i - 1 # x
        BY <1>4, <3>3
      <4>2. g[i] = f[i] /\ g[i - 1] = f[i - 1]
        BY <3>3, <4>1
      <4>3. f[i] = SplitStep(text, f[i - 1], i)
        BY <1>7, <3>3, <4>1 DEF Splits
      <4> QED BY <3>3, <4>2, <4>3
    <3> QED BY <3>1, <3>2, <3>3
  <2>2. g = [i \in 0 .. x |-> g[i]]
    OBVIOUS
  <2> HIDE DEF g
  <2> QED BY <2>1, <2>2 DEF Splits
<1> QED BY <1>4, <1>8

LEMMA ParserSplits ==
  ASSUME DOMAIN arguments = ArgPlaces, NEW text, Len(text) \in Nat \ {0},
         DOMAIN text = 1 .. Len(text), text[Len(text)] = Space => Len(text) = 1
  PROVE  IsSplit(CommandParser(text), text)
<1> DEFINE n == Len(text)
           f == CHOOSE h : Splits(h, text, n)
           T == {i \in 0 .. n : ~IsSplit(f[i], text)}
<1>0. CMDH_COMMAND_ARG_MAX_COUNT \in Nat \ {0, 1}
  BY CommandHandlerAssumption
<1>1. Splits(f, text, n)
  BY SplitsEnd
<1>2. CommandParser(text) = f[n]
  BY DEF CommandParser, Splits, NothingSplit
<1>n. n \in Nat \ {0}
  OBVIOUS
<1> HIDE DEF f, n
<1>3. f[0] = NothingSplit
  BY <1>1, <1>n DEF Splits
<1>4. IsSplit(NothingSplit, text)
  <2>1. /\ NothingSplit.n = 0 /\ NothingSplit.open = FALSE
        /\ DOMAIN NothingSplit.args = ArgPlaces
    BY DEF NothingSplit
  <2>2. 0 .. 0 - 1 = {} /\ 0 \in 0 .. CMDH_COMMAND_ARG_MAX_COUNT
    BY <1>0
  <2> QED BY <2>1, <2>2 DEF IsSplit
<1>5. ASSUME T # {} PROVE FALSE
  <2>1. T \subseteq Nat
    BY <1>n
  <2>2. PICK x \in T : \A y \in T : x <= y
    <3> HIDE DEF T
    <3> QED BY <1>5, <2>1, LeastNumber
  <2>3. x \in 1 .. n /\ x - 1 \in 0 .. n /\ ~(x <= x - 1)
    BY <1>3, <1>4, <1>n
  <2>4. IsSplit(f[x - 1], text)
    BY <2>2, <2>3
  <2>5. f[x] = SplitStep(text, f[x - 1], x)
    BY <1>1, <2>3 DEF Splits
  <2>6. x \in DOMAIN text
    BY <2>3 DEF n
  <2>7. text[x] = Space /\ x = Len(text) => f[x - 1].n + 1 < CMDH_COMMAND_ARG_MAX_COUNT
    <3> SUFFICES ASSUME text[x] = Space, x = Len(text)
                 PROVE  f[x - 1].n + 1 < CMDH_COMMAND_ARG_MAX_COUNT
      OBVIOUS
    <3>1. x - 1 = 0
      BY <2>3
    <3>2. f[x - 1].n = 0
      BY <1>3, <3>1 DEF NothingSplit
    <3> QED BY <1>0, <3>2
  <2>8. IsSplit(f[x], text)
    BY <2>4, <2>5, <2>6, <2>7, StepSplits
  <2> QED BY <2>8
<1>6. IsSplit(f[n], text)
  BY <1>5, <1>n
<1> QED BY <1>2, <1>6

LEMMA LeastIn ==
  ASSUME NEW T, T \subseteq Nat, T # {}
  PROVE  Min(T) \in T /\ \A y \in T : Min(T) <= y
<1>1. PICK x \in T : \A y \in T : x <= y
  BY LeastNumber
<1> QED BY <1>1 DEF Min

LEMMA GreatestIn ==
  ASSUME NEW n \in Nat, NEW T, T \subseteq 0 .. n, T # {}
  PROVE  Max(T) \in T /\ \A y \in T : y <= Max(T)
<1> DEFINE S == {n - y : y \in T}
<1>0. \A y \in T : y \in Nat /\ n - y \in Nat
  <2> SUFFICES ASSUME NEW y \in T PROVE y \in Nat /\ n - y \in Nat
    OBVIOUS
  <2>1. y \in 0 .. n
    OBVIOUS
  <2> QED BY <2>1
<1>1. S \subseteq Nat /\ S # {}
  BY <1>0
<1>2. PICK z \in S : \A y \in S : z <= y
  <2> HIDE DEF S
  <2> QED BY <1>1, LeastNumber
<1>3. PICK x \in T : z = n - x
  OBVIOUS
<1>4. \A y \in T : x >= y
  <2> SUFFICES ASSUME NEW y \in T PROVE x >= y
    OBVIOUS
  <2>1. n - x <= n - y
    BY <1>2, <1>3
  <2>2. x \in Nat /\ y \in Nat
    OBVIOUS
  <2> QED BY <2>1, <2>2
<1>5. Max(T) \in T /\ \A y \in T : Max(T) >= y
  BY <1>3, <1>4 DEF Max
<1> HIDE DEF S
<1> QED BY <1>0, <1>5

\* The part of a line that is split: words and spaces, with a space at its end
\* only where it is the only character.
LEMMA LineIsTrimmed ==
  ASSUME NEW S, NEW text \in Seq(S), BeforeNewLine(text) # <<>>
  PROVE  LET t == StrTrim(BeforeNewLine(text)) IN
         /\ Len(t) \in Nat \ {0} /\ DOMAIN t = 1 .. Len(t)
         /\ t[Len(t)] = Space => Len(t) = 1
         /\ \A i \in 1 .. Len(t) : t[i] # NewLine /\ \E j \in DOMAIN text : t[i] = text[j]
         /\ Len(t) <= Len(text) /\ \A i \in 1 .. Len(t) : t[i] = text[i]
         /\ \A k : WordIn(t, k) = WordOfLine(text, k)
<1> DEFINE ends == {i \in DOMAIN text : text[i] = NewLine}
           b == BeforeNewLine(text)
<1>1. Len(text) \in Nat /\ DOMAIN text = 1 .. Len(text)
  OBVIOUS
<1>2. /\ b \in Seq(S) /\ Len(b) \in Nat \ {0} /\ DOMAIN b = 1 .. Len(b) /\ Len(b) <= Len(text)
      /\ \A i \in 1 .. Len(b) : b[i] # NewLine /\ b[i] = text[i]
  <2>1. CASE ends = {}
    <3>1. b = text
      BY <2>1 DEF BeforeNewLine
    <3>2. \A i \in 1 .. Len(b) : b[i] # NewLine
      BY <1>1, <2>1, <3>1
    <3>3. Len(text) # 0
      BY <3>1
    <3> QED BY <1>1, <3>1, <3>2, <3>3
  <2>2. CASE ends # {}
    <3> DEFINE m == Min(ends)
               n == m - 1
    <3>1. m \in ends /\ \A i \in ends : m <= i
      <4>1. ends \subseteq Nat
        BY <1>1
      <4> HIDE DEF ends
      <4> QED BY <2>2, <4>1, LeastIn
    <3>2. b = SubSeq(text, 1, n)
      BY <2>2 DEF BeforeNewLine
    <3>3. m \in 1 .. Len(text)
      BY <1>1, <3>1
    <3>4. \A i \in 1 .. Len(text) : i < m => text[i] # NewLine
      <4> SUFFICES ASSUME NEW i \in 1 .. Len(text), i < m, text[i] = NewLine PROVE FALSE
        OBVIOUS
      <4>1. i \in ends
        BY <1>1
      <4>2. m <= i
        BY <3>1, <4>1
      <4> HIDE DEF m
      <4> QED BY <1>1, <3>3, <4>2
    <3> HIDE DEF m, b
    <3>5. n \in Nat /\ n <= Len(text) /\ \A i \in 1 .. n : i \in 1 .. Len(text) /\ i < m
      BY <1>1, <3>3
    <3> HIDE DEF n
    <3>6. b \in Seq(S) /\ Len(b) = n /\ \A i \in 1 .. n : b[i] = text[i]
      BY <3>2, <3>5, FirstPart
    <3>7. b # <<>>
      BY DEF b
    <3>8. n # 0 /\ DOMAIN b = 1 .. Len(b)
      BY <3>6, <3>7
    <3> QED BY <3>4, <3>5, <3>6, <3>8
  <2> QED BY <2>1, <2>2
<1> DEFINE words == {1} \cup {i \in DOMAIN b : b[i] # Space}
           n == Max(words)
           t == StrTrim(b)
<1>3. t = SubSeq(b, 1, n)
  BY DEF StrTrim
<1> HIDE DEF b
<1>4. n \in words /\ \A i \in words : i <= n
  <2>1. words \subseteq 0 .. Len(b) /\ words # {} /\ Len(b) \in Nat
    BY <1>2
  <2> HIDE DEF words
  <2> QED BY <2>1, GreatestIn
<1>5. n \in 1 .. Len(b) /\ (n = 1 \/ b[n] # Space)
  BY <1>2, <1>4
<1> HIDE DEF n, t
<1>6. n \in Nat /\ n <= Len(b) /\ n # 0
  BY <1>2, <1>5
<1>7. t \in Seq(S) /\ Len(t) = n /\ \A i \in 1 .. n : t[i] = b[i]
  BY <1>2, <1>3, <1>6, FirstPart
<1>8. DOMAIN t = 1 .. Len(t)
  BY <1>7
<1>9. t[Len(t)] = Space => Len(t) = 1
  BY <1>5, <1>6, <1>7
<1>10. \A i \in 1 .. n : i \in 1 .. Len(b) /\ i \in 1 .. Len(text)
  BY <1>1, <1>2, <1>6
<1>11. \A i \in 1 .. Len(t) : t[i] # NewLine /\ \E j \in DOMAIN text : t[i] = text[j]
  BY <1>1, <1>2, <1>7, <1>10
<1>12. Len(t) <= Len(text) /\ \A i \in 1 .. Len(t) : t[i] = text[i]
  BY <1>1, <1>2, <1>6, <1>7, <1>10
<1>13. ASSUME NEW k PROVE WordIn(t, k) = WordIn(b, k)
  <2> DEFINE Spaces(q, i) == {j \in 1 .. i : q[j] = Space}
             Inside(q) == {i \in DOMAIN q : q[i] # Space /\ Cardinality(Spaces(q, i)) = k - 1}
             Taken(q) == IF Inside(q) = {} THEN EmptyText ELSE q[CHOOSE i \in Inside(q) : TRUE]
  <2>1. \A i \in DOMAIN b : i \in 1 .. n \/ b[i] = Space
    BY <1>2, <1>4, <1>6
  <2>2. \A i \in 1 .. n : Spaces(t, i) = Spaces(b, i)
    <3> SUFFICES ASSUME NEW i \in 1 .. n PROVE Spaces(t, i) = Spaces(b, i)
      OBVIOUS
    <3>1. \A j \in 1 .. i : j \in 1 .. n
      BY <1>6
    <3> QED BY <1>7, <3>1
  <2>3. Inside(t) = Inside(b)
    <3> HIDE DEF Spaces
    <3>1. DOMAIN t = 1 .. n /\ \A i \in 1 .. n : i \in DOMAIN b /\ t[i] = b[i]
      BY <1>2, <1>7, <1>8, <1>10
    <3> QED BY <2>1, <2>2, <3>1
  <2>4. \A i \in Inside(t) : t[i] = b[i]
    BY <1>7, <1>8
  <2>5. Taken(t) = Taken(b)
    <3> HIDE DEF Inside
    <3> QED BY <2>3, <2>4
  <2>6. WordIn(t, k) = Taken(t) /\ WordIn(b, k) = Taken(b)
    BY DEF WordIn
  <2> QED BY <2>5, <2>6
<1>14. \A k : WordIn(t, k) = WordOfLine(text, k)
  BY <1>13 DEF WordOfLine, b
<1> QED BY <1>6, <1>7, <1>8, <1>9, <1>11, <1>12, <1>14 DEF t, b

\* The inductive invariant: the arguments keep their places.
GlobalVariablesInv == GlobalVariablesTypeOK /\ DOMAIN arguments = ArgPlaces

LEMMA SetIsKept ==
  ASSUME GlobalVariablesInv, NEW args, IsParam(varRecord, args[2]), SetCommand(args)
  PROVE  HasType(varRecord, varValue')
<1>1. HasType(varRecord, varValue) /\ varRecord \in VarList
  BY DEF GlobalVariablesInv, GlobalVariablesTypeOK
<1> DEFINE set == SetVariable(varRecord, args[2])
<1>2. varValue' = varValue \/ varValue' = set.value
  BY Zenon DEF SetCommand, Answer
<1>3. HasType(varRecord, set.value)
  BY <1>1, SetKeepsType
<1> HIDE DEF set
<1> QED BY <1>1, <1>2, <1>3

LEMMA WordsAreParams ==
  ASSUME NEW text \in Lines, NEW t, NEW p \in WordsOf(t), DOMAIN t = 1 .. Len(t),
         \A i \in 1 .. Len(t) : t[i] # NewLine /\ \E j \in DOMAIN text : t[i] = text[j],
         NEW v, v.type = "String" =>
                   \A i \in DOMAIN text : text[i].form \in {"word", "space", "newline"}
  PROVE  IsParam(v, p)
<1>1. CASE p = EmptyText
  BY <1>1 DEF IsParam
<1>2. CASE p # EmptyText
  <2>1. p \in ToSet(t) /\ p # Space
    BY <1>2 DEF WordsOf
  <2>2. PICK i \in 1 .. Len(t) : p = t[i]
    BY <2>1 DEF ToSet
  <2>3. p # NewLine /\ \E j \in DOMAIN text : p = text[j]
    BY <2>2
  <2>4. PICK j \in DOMAIN text : p = text[j]
    BY <2>3
  <2>5. p \in Params
    <3>1. text \in Seq(Params \cup {Space, NewLine})
      BY GlobalVariablesAssumption
    <3>2. text[j] \in Params \cup {Space, NewLine}
      BY <3>1
    <3> QED BY <2>1, <2>3, <2>4, <3>2
  <2>6. \/ p.form \in {"decimal", "negative", "hex"} /\ p.number \in Nat /\ p # EmptyText
        \/ p.form = "binary" /\ p.number \in Nat /\ p # EmptyText
        \/ p.form = "word" /\ p.word \in Words /\ p # EmptyText
    BY <2>5, ParamForms
  <2>7. v.type = "String" => p.form \in {"word", "space", "newline"}
    BY <2>4
  <2> QED BY <2>6, <2>7 DEF IsParam
<1> QED BY <1>1, <1>2

LEMMA SetTakesThree ==
  ASSUME NEW split, SearchCommand(split) = "Ok", split.args[0] = SetName
  PROVE  split.n = 3
<1> DEFINE found == {command \in CmdH_CommandList : command.name = split.args[0]}
           c == CHOOSE command \in found : TRUE
<1>1. found # {} /\ CheckArgumentNum(c.commandArgNum, split.n) = "Ok"
  BY DEF SearchCommand
<1>2. c \in found
  BY <1>1
<1>3. c \in CmdH_CommandList /\ c.name = SetName
  BY <1>2
<1> HIDE DEF c
<1>4. c.commandArgNum = {3}
  BY <1>3, GlobalVariablesAssumption
<1>5. split.n \in c.commandArgNum
  BY <1>1 DEF CheckArgumentNum
<1> QED BY <1>4, <1>5

LEMMA LineIsKept ==
  ASSUME GlobalVariablesInv, NEW text \in Lines, ReceiveLine(text)
  PROVE  GlobalVariablesInv'
<1> DEFINE t == StrTrim(BeforeNewLine(text))
           split == CommandParser(t)
<1>1. /\ varRecord' = varRecord /\ typed' = text /\ BeforeNewLine(text) # <<>>
      /\ arguments' = split.args /\ argCount' = split.n
      /\ varRecord.type = "String" =>
            \A i \in DOMAIN text : text[i].form \in {"word", "space", "newline"}
      /\ (CommandFunction(split.args) /\ SearchCommand(split) = "Ok") \/ UNCHANGED varValue
  BY DEF ReceiveLine, ExecuteCommand, Answer
<1>2. /\ Len(t) \in Nat \ {0} /\ DOMAIN t = 1 .. Len(t)
      /\ t[Len(t)] = Space => Len(t) = 1
      /\ \A i \in 1 .. Len(t) : t[i] # NewLine /\ \E j \in DOMAIN text : t[i] = text[j]
  <2>1. text \in Seq(Params \cup {Space, NewLine})
    BY GlobalVariablesAssumption
  <2> QED BY <1>1, <2>1, LineIsTrimmed
<1> HIDE DEF t
<1>3. IsSplit(split, t)
  BY <1>2, ParserSplits DEF GlobalVariablesInv
<1> HIDE DEF split
<1>4. HasType(varRecord, varValue')
  <2>1. CASE UNCHANGED varValue
    BY <2>1 DEF GlobalVariablesInv, GlobalVariablesTypeOK
  <2>2. CASE CommandFunction(split.args) /\ SearchCommand(split) = "Ok"
    <3>1. CASE GetCommand(split.args)
      <4>1. UNCHANGED varValue
        BY <3>1 DEF GetCommand, Answer
      <4> QED BY <2>1, <4>1
    <3>2. CASE split.args[0] = SetName /\ SetCommand(split.args)
      <4>1. split.n = 3
        BY <2>2, <3>2, SetTakesThree
      <4>2. split.args[2] \in WordsOf(t)
        BY <1>3, <4>1 DEF IsSplit
      <4>3. IsParam(varRecord, split.args[2])
        BY <1>1, <1>2, <4>2, WordsAreParams
      <4> QED BY <3>2, <4>3, SetIsKept
    <3> QED BY <2>2, <3>1, <3>2 DEF CommandFunction
  <2> QED BY <1>1, <2>1, <2>2
<1>5. argCount' \in 0 .. CMDH_COMMAND_ARG_MAX_COUNT /\ DOMAIN arguments' = ArgPlaces
  BY <1>1, <1>3 DEF IsSplit
<1>6. varRecord' \in VarList /\ typed' \in Lines
  BY <1>1 DEF GlobalVariablesInv, GlobalVariablesTypeOK
<1>7. HasType(varRecord', varValue')
  BY <1>1, <1>4
<1> QED BY <1>5, <1>6, <1>7 DEF GlobalVariablesInv, GlobalVariablesTypeOK, HasType

LEMMA GlobalVariablesStart ==
  ASSUME GlobalVariablesInit
  PROVE  GlobalVariablesInv
<1>1. /\ varRecord \in VarList /\ varValue = varRecord.initValue /\ typed = <<>>
      /\ argCount = 0 /\ DOMAIN arguments = ArgPlaces
  BY DEF GlobalVariablesInit, CmdInit, ArgPlaces
<1>2. HasType(varRecord, varRecord.initValue)
  BY <1>1, GlobalVariablesAssumption DEF CheckGlobalVar
<1>3. argCount \in 0 .. CMDH_COMMAND_ARG_MAX_COUNT
  BY <1>1, CommandHandlerAssumption
<1>4. HasType(varRecord, varValue)
  BY <1>1, <1>2
<1> QED BY <1>1, <1>3, <1>4 DEF GlobalVariablesInv, GlobalVariablesTypeOK

-----------------------------------------------------------------------------
(* A word that is set is shown: what a command line stores is what its     *)
(* third word says.                                                        *)

\* A quotient is what is left beside a remainder below the divisor.
LEMMA OneQuotient ==
  ASSUME NEW a \in Int, NEW m \in Nat \ {0}, NEW q \in Int, NEW r \in 0 .. m - 1, a = q * m + r
  PROVE  a \div m = q
<1>1. a % m = r
  BY OneRemainder
<1> DEFINE e == a \div m
<1>2. e \in Int /\ a = (e * m) + r
  BY <1>1, DivisionLeaves
<1> HIDE DEF e
<1>3. (q - e) * m = 0
  BY <1>2
<1>4. q - e = 0
  <2>1. CASE q - e >= 1
    <3>1. (q - e) * m >= m
      BY <1>2, <2>1
    <3> QED BY <1>2, <1>3, <3>1
  <2>2. CASE q - e <= -1
    <3>1. (q - e) * m <= -m
      BY <1>2, <2>2
    <3> QED BY <1>2, <1>3, <3>1
  <2> QED BY <1>2, <2>1, <2>2
<1>5. e = q
  BY <1>2, <1>4
<1> QED BY <1>5 DEF e

LEMMA QuotientIsNat ==
  ASSUME NEW a \in Nat, NEW m \in Nat \ {0}
  PROVE  a \div m \in Nat
<1> DEFINE e == a \div m
           r == a % m
<1>1. e \in Int /\ r \in 0 .. m - 1 /\ a = (e * m) + r
  BY DivisionLeaves
<1> HIDE DEF e, r
<1>2. ~(e <= -1)
  <2>1. e <= -1 => e * m <= -m
    BY <1>1
  <2> QED BY <1>1, <2>1
<1>3. e \in Nat
  BY <1>1, <1>2
<1> QED BY <1>3 DEF e

LEMMA QuotientOfSum ==
  ASSUME NEW a \in Nat, NEW c \in Nat, NEW m \in Nat \ {0}
  PROVE  (a + c * m) \div m = (a \div m) + c
<1> DEFINE q == a \div m
           r == a % m
<1>1. q \in Int /\ r \in 0 .. m - 1 /\ a = (q * m) + r
  BY DivisionLeaves
<1> HIDE DEF q, r
<1>2. (q + c) * m = q * m + c * m
  BY <1>1
<1>3. a + c * m = (q + c) * m + r /\ a + c * m \in Int /\ q + c \in Int
  <2>1. q * m \in Int /\ c * m \in Int
    BY <1>1
  <2> QED BY <1>1, <1>2, <2>1
<1>4. (a + c * m) \div m = q + c
  BY <1>1, <1>3, OneQuotient
<1> QED BY <1>4 DEF q

\* Dividing twice.
LEMMA QuotientOfQuotient ==
  ASSUME NEW a \in Nat, NEW m \in Nat \ {0}, NEW n \in Nat \ {0}
  PROVE  (a \div m) \div n = a \div (m * n)
<1> DEFINE q == a \div m
           r == a % m
           q2 == q \div n
           r2 == q % n
<1>1. q \in Int /\ r \in 0 .. m - 1 /\ a = (q * m) + r
  BY DivisionLeaves
<1>2. q2 \in Int /\ r2 \in 0 .. n - 1 /\ q = (q2 * n) + r2
  <2> HIDE DEF q
  <2> QED BY <1>1, DivisionLeaves
<1> DEFINE rest == r2 * m + r
<1> HIDE DEF q, r, q2, r2
<1>3. m * n \in Nat \ {0}
  OBVIOUS
<1>4. rest \in 0 .. m * n - 1
  <2>1. r2 * m <= (n - 1) * m /\ r2 * m >= 0 /\ (n - 1) * m = m * n - m
    BY <1>2
  <2> QED BY <1>1, <1>2, <1>3, <2>1
<1>5. a = q2 * (m * n) + rest
  <2>1. q * m = (q2 * n) * m + r2 * m
    BY <1>1, <1>2
  <2>2. (q2 * n) * m = q2 * (m * n)
    BY <1>2
  <2>3. r2 * m \in Int /\ q2 * (m * n) \in Int /\ (q2 * n) * m \in Int
    BY <1>2
  <2> QED BY <1>1, <2>1, <2>2, <2>3
<1>6. a \div (m * n) = q2
  <2> HIDE DEF rest
  <2> QED BY <1>2, <1>3, <1>4, <1>5, OneQuotient
<1> QED BY <1>6 DEF q2, q

\* One more bit of a remainder.
LEMMA RemainderGrows ==
  ASSUME NEW a \in Nat, NEW m \in Nat \ {0}
  PROVE  a % (2 * m) = (a % m) + m * ((a \div m) % 2)
<1> DEFINE q == a \div m
           r == a % m
           h == q \div 2
           e == q % 2
<1>1. q \in Int /\ r \in 0 .. m - 1 /\ a = (q * m) + r
  BY DivisionLeaves
<1>2. h \in Int /\ e \in 0 .. 1 /\ q = (h * 2) + e
  <2> HIDE DEF q
  <2> QED BY <1>1, DivisionLeaves
<1> DEFINE rest == r + m * e
<1> HIDE DEF q, r, h, e
<1>3. rest \in 0 .. 2 * m - 1 /\ 2 * m \in Nat \ {0}
  <2>1. CASE e = 0
    BY <1>1, <2>1
  <2>2. CASE e = 1
    BY <1>1, <2>2
  <2> QED BY <1>2, <2>1, <2>2
<1>4. a = h * (2 * m) + rest
  <2>1. q * m = (h * 2) * m + e * m
    BY <1>1, <1>2
  <2>2. (h * 2) * m = h * (2 * m) /\ e * m = m * e
    BY <1>2
  <2>3. h * (2 * m) \in Int /\ m * e \in Int /\ (h * 2) * m \in Int /\ e * m \in Int
    BY <1>2
  <2> QED BY <1>1, <2>1, <2>2, <2>3
<1>5. a % (2 * m) = rest
  <2> HIDE DEF rest
  <2> QED BY <1>2, <1>3, <1>4, OneRemainder
<1> QED BY <1>5 DEF rest, r, e, q

\* An even number more does not change the lowest bit.
LEMMA EvenMore ==
  ASSUME NEW a \in Nat, NEW c \in Nat
  PROVE  (a + 2 * c) % 2 = a % 2
<1> DEFINE q == a \div 2
           r == a % 2
<1>1. q \in Int /\ r \in 0 .. 1 /\ a = (q * 2) + r
  BY DivisionLeaves
<1> HIDE DEF q, r
<1>2. a + 2 * c = (q + c) * 2 + r /\ q + c \in Int /\ a + 2 * c \in Int
  BY <1>1
<1>3. (a + 2 * c) % 2 = r
  BY <1>1, <1>2, OneRemainder
<1> QED BY <1>3 DEF r

\* A power less than another divides it, and the rest is even.
LEMMA PowersApart ==
  ASSUME NEW i \in 0 .. Width, NEW j \in 0 .. Width, i < j
  PROVE  \E c \in Nat : PowerOfTwo[j] = (2 * c) * PowerOfTwo[i]
<1>0. Width \in Nat
  BY GlobalVariablesAssumption
<1>1. j - i \in 1 .. Width /\ j - i \in 0 .. Width /\ j - i - 1 \in 0 .. Width /\ i + (j - i) = j
  BY <1>0
<1>2. PowerOfTwo[j] = PowerOfTwo[i] * PowerOfTwo[j - i]
  BY <1>0, <1>1, PowersMultiply
<1>3. PowerOfTwo[j - i] = 2 * PowerOfTwo[j - i - 1]
  BY <1>1, PowerSteps
<1>4. PowerOfTwo[i] \in Nat /\ PowerOfTwo[j - i - 1] \in Nat
  BY <1>1, PowersArePositive
<1>5. PowerOfTwo[j] = (2 * PowerOfTwo[j - i - 1]) * PowerOfTwo[i]
  BY <1>2, <1>3, <1>4
<1> QED BY <1>4, <1>5

\* The bits of a word are those it was put together from.
LEMMA BitsOfWord ==
  ASSUME NEW bits, NEW i \in 0 .. Width - 1
  PROVE  Bit(WordOf(bits), i) <=> i \in bits
<1>0. Width \in Nat \ {0} /\ i \in 0 .. Width
  BY GlobalVariablesAssumption
<1> DEFINE sum == CHOOSE f : Sums(f, bits, Width)
           T == {k \in 0 .. Width : \/ sum[k] \notin 0 .. PowerOfTwo[k] - 1
                                    \/ i < k /\ ~(Bit(sum[k], i) <=> i \in bits)}
<1>1. Sums(sum, bits, Width)
  BY <1>0, SumsEnd
<1>2. WordOf(bits) = sum[Width]
  BY DEF WordOf, Sums
<1> HIDE DEF sum
<1>3. ASSUME T # {} PROVE FALSE
  <2>0. T \subseteq Nat
    BY <1>0
  <2>1. PICK x \in T : \A y \in T : x <= y
    <3> HIDE DEF T
    <3> QED BY <1>3, <2>0, LeastNumber
  <2>2. x # 0
    <3>1. sum[0] = 0 /\ ~(i < 0)
      BY <1>0, <1>1 DEF Sums
    <3> QED BY <3>1, PowerSteps
  <2>3. x \in 1 .. Width /\ x - 1 \in 0 .. Width /\ ~(x <= x - 1)
    BY <1>0, <2>2
  <2>4. sum[x - 1] \in 0 .. PowerOfTwo[x - 1] - 1 /\ (i < x - 1 => (Bit(sum[x - 1], i) <=> i \in bits))
    BY <2>1, <2>3
  <2> DEFINE more == IF x - 1 \in bits THEN PowerOfTwo[x - 1] ELSE 0
  <2>5. sum[x] = sum[x - 1] + more
    BY <1>1, <2>3 DEF Sums
  <2>6. PowerOfTwo[x] = 2 * PowerOfTwo[x - 1] /\ PowerOfTwo[x - 1] \in Nat \ {0}
    BY <2>3, PowerSteps, PowersArePositive
  <2>7. sum[x] \in 0 .. PowerOfTwo[x] - 1
    BY <2>4, <2>5, <2>6
  <2>8. sum[x - 1] \in Nat /\ PowerOfTwo[i] \in Nat \ {0}
    BY <1>0, <2>4, <2>6, PowersArePositive
  <2> DEFINE low == sum[x - 1] \div PowerOfTwo[i]
  <2>9. low \in Nat
    BY <2>8, QuotientIsNat
  <2>10. ASSUME i < x - 1 PROVE Bit(sum[x], i) <=> i \in bits
    <3>1. \E c \in Nat : more = (2 * c) * PowerOfTwo[i]
      <4>1. PICK c \in Nat : PowerOfTwo[x - 1] = (2 * c) * PowerOfTwo[i]
        BY <1>0, <2>3, <2>10, PowersApart
      <4>2. 0 = (2 * 0) * PowerOfTwo[i]
        BY <2>8
      <4> QED BY <4>1, <4>2
    <3>2. PICK c \in Nat : more = (2 * c) * PowerOfTwo[i]
      BY <3>1
    <3> HIDE DEF more
    <3>3. sum[x] \div PowerOfTwo[i] = low + 2 * c
      <4>1. 2 * c \in Nat
        OBVIOUS
      <4>2. (sum[x - 1] + (2 * c) * PowerOfTwo[i]) \div PowerOfTwo[i] = low + 2 * c
        BY <2>8, <4>1, QuotientOfSum
      <4> QED BY <2>5, <3>2, <4>2
    <3>4. (low + 2 * c) % 2 = low % 2
      <4> HIDE DEF low
      <4> QED BY <2>9, EvenMore
    <3>5. Bit(sum[x], i) <=> Bit(sum[x - 1], i)
      BY <3>3, <3>4 DEF Bit
    <3> QED BY <2>4, <2>10, <3>5
  <2>11. ASSUME i = x - 1 PROVE Bit(sum[x], i) <=> i \in bits
    <3>1. low = 0
      <4>1. sum[x - 1] = 0 * PowerOfTwo[i] + sum[x - 1] /\ sum[x - 1] \in 0 .. PowerOfTwo[i] - 1
            /\ sum[x - 1] \in Int /\ 0 \in Int
        BY <2>4, <2>8, <2>11
      <4> QED BY <2>8, <4>1, OneQuotient
    <3>2. CASE i \in bits
      <4>1. more = 1 * PowerOfTwo[i]
        BY <2>8, <2>11, <3>2
      <4>2. (sum[x - 1] + 1 * PowerOfTwo[i]) \div PowerOfTwo[i] = low + 1
        BY <2>8, QuotientOfSum
      <4>3. sum[x] \div PowerOfTwo[i] = 1
        BY <2>5, <3>1, <4>1, <4>2
      <4>4. 1 % 2 = 1
        OBVIOUS
      <4> QED BY <3>2, <4>3, <4>4 DEF Bit
    <3>3. CASE i \notin bits
      <4>1. more = 0 * PowerOfTwo[i]
        BY <2>8, <2>11, <3>3
      <4>2. (sum[x - 1] + 0 * PowerOfTwo[i]) \div PowerOfTwo[i] = low + 0
        BY <2>8, QuotientOfSum
      <4>3. sum[x] \div PowerOfTwo[i] = 0
        BY <2>5, <3>1, <4>1, <4>2
      <4>4. 0 % 2 = 0
        OBVIOUS
      <4> QED BY <3>3, <4>3, <4>4 DEF Bit
    <3> QED BY <3>2, <3>3
  <2>12. i < x => i < x - 1 \/ i = x - 1
    BY <2>3
  <2> QED BY <2>1, <2>7, <2>10, <2>11, <2>12
<1> QED BY <1>0, <1>2, <1>3

\* Words with the same bits between lo and hi have the same number there.
LEMMA SameField ==
  ASSUME NEW x \in Nat, NEW y \in Nat, NEW lo \in 0 .. Width, NEW n \in Nat, lo + n <= Width,
         \A i \in lo .. lo + n - 1 : Bit(x, i) <=> Bit(y, i)
  PROVE  (x \div PowerOfTwo[lo]) % PowerOfTwo[n] = (y \div PowerOfTwo[lo]) % PowerOfTwo[n]
<1>0. Width \in Nat
  BY GlobalVariablesAssumption
<1> DEFINE a == x \div PowerOfTwo[lo]
           b == y \div PowerOfTwo[lo]
           T == {k \in 0 .. n : a % PowerOfTwo[k] # b % PowerOfTwo[k]}
<1>1. a \in Nat /\ b \in Nat /\ PowerOfTwo[lo] \in Nat \ {0}
  BY PowersArePositive, QuotientIsNat
<1>2. ASSUME T # {} PROVE FALSE
  <2>0. T \subseteq Nat
    OBVIOUS
  <2>1. PICK k \in T : \A z \in T : k <= z
    <3> HIDE DEF T
    <3> QED BY <1>2, <2>0, LeastNumber
  <2>2. k # 0
    <3>1. a % 1 = 0 /\ b % 1 = 0
      <4> HIDE DEF a, b
      <4>1. a = a * 1 + 0 /\ b = b * 1 + 0 /\ 0 \in 0 .. 1 - 1
        BY <1>1
      <4> QED BY <1>1, <4>1, OneRemainder
    <3> QED BY <3>1, PowerSteps
  <2> DEFINE j == k - 1
  <2>3. /\ k \in 1 .. Width /\ j \in 0 .. n /\ j \in 0 .. Width /\ ~(k <= j)
        /\ lo + j \in lo .. lo + n - 1 /\ lo + j <= Width
    BY <1>0, <2>2
  <2>4. a % PowerOfTwo[j] = b % PowerOfTwo[j]
    BY <2>1, <2>3
  <2>5. PowerOfTwo[k] = 2 * PowerOfTwo[j] /\ PowerOfTwo[j] \in Nat \ {0}
    BY <2>3, PowerSteps, PowersArePositive
  <2>6. a \div PowerOfTwo[j] = x \div PowerOfTwo[lo + j] /\ b \div PowerOfTwo[j] = y \div PowerOfTwo[lo + j]
    <3>1. PowerOfTwo[lo + j] = PowerOfTwo[lo] * PowerOfTwo[j]
      BY <2>3, PowersMultiply
    <3> QED BY <1>1, <2>5, <3>1, QuotientOfQuotient
  <2> HIDE DEF j
  <2>7. Bit(x, lo + j) <=> Bit(y, lo + j)
    BY <2>3
  <2>8. (a \div PowerOfTwo[j]) % 2 = (b \div PowerOfTwo[j]) % 2
    <3> DEFINE u == a \div PowerOfTwo[j]
               v == b \div PowerOfTwo[j]
    <3>1. u \in Nat /\ v \in Nat
      <4> HIDE DEF a, b
      <4> QED BY <1>1, <2>5, QuotientIsNat
    <3>2. u % 2 = 1 <=> v % 2 = 1
      BY <2>6, <2>7 DEF Bit
    <3> HIDE DEF u, v
    <3>3. u % 2 \in 0 .. 1 /\ v % 2 \in 0 .. 1
      BY <3>1
    <3>4. u % 2 = v % 2
      BY <3>2, <3>3
    <3> QED BY <3>4 DEF u, v
  <2> HIDE DEF a, b
  <2>9. /\ a % (2 * PowerOfTwo[j]) = (a % PowerOfTwo[j]) + PowerOfTwo[j] * ((a \div PowerOfTwo[j]) % 2)
        /\ b % (2 * PowerOfTwo[j]) = (b % PowerOfTwo[j]) + PowerOfTwo[j] * ((b \div PowerOfTwo[j]) % 2)
    BY <1>1, <2>5, RemainderGrows
  <2>10. a % PowerOfTwo[k] = b % PowerOfTwo[k]
    BY <2>4, <2>5, <2>8, <2>9
  <2> QED BY <2>1, <2>10
<1> QED BY <1>2

\* A number moved up to the place lo has no bits below it, and is there again.
LEMMA MovedUp ==
  ASSUME NEW a \in Nat, NEW lo \in 0 .. Width
  PROVE  /\ (a * PowerOfTwo[lo]) \div PowerOfTwo[lo] = a
         /\ \A i \in 0 .. Width : i < lo => ~Bit(a * PowerOfTwo[lo], i)
<1>1. PowerOfTwo[lo] \in Nat \ {0}
  BY PowersArePositive
<1>2. (a * PowerOfTwo[lo]) \div PowerOfTwo[lo] = a
  <2>1. a * PowerOfTwo[lo] = a * PowerOfTwo[lo] + 0 /\ a * PowerOfTwo[lo] \in Int
        /\ 0 \in 0 .. PowerOfTwo[lo] - 1 /\ a \in Int
    BY <1>1
  <2> QED BY <1>1, <2>1, OneQuotient
<1>3. ASSUME NEW i \in 0 .. Width, i < lo PROVE ~Bit(a * PowerOfTwo[lo], i)
  <2>1. PICK c \in Nat : PowerOfTwo[lo] = (2 * c) * PowerOfTwo[i]
    BY <1>3, PowersApart
  <2>2. PowerOfTwo[i] \in Nat \ {0}
    BY PowersArePositive
  <2> DEFINE d == a * c
             m == PowerOfTwo[i]
  <2>3. a * PowerOfTwo[lo] = (0 + 2 * d) * m
    BY <2>1, <2>2
  <2>4. d \in Nat
    OBVIOUS
  <2> HIDE DEF d, m
  <2>5. (0 + 2 * d) * m = (0 + 2 * d) * m + 0 /\ 0 + 2 * d \in Int /\ 0 \in 0 .. m - 1
        /\ (0 + 2 * d) * m \in Int
    BY <2>2, <2>4 DEF m
  <2>6. ((0 + 2 * d) * m) \div m = 0 + 2 * d
    BY <2>2, <2>5, OneQuotient DEF m
  <2>7. (0 + 2 * d) % 2 = 0
    <3>1. 0 % 2 = 0
      OBVIOUS
    <3> QED BY <2>4, <3>1, EvenMore
  <2> QED BY <2>3, <2>6, <2>7 DEF Bit, m
<1> QED BY <1>2, <1>3

LEMMA NoBitsAbove ==
  ASSUME NEW a \in Nat, NEW i \in 0 .. Width, a < PowerOfTwo[i]
  PROVE  ~Bit(a, i)
<1>1. PowerOfTwo[i] \in Nat \ {0}
  BY PowersArePositive
<1>2. a = 0 * PowerOfTwo[i] + a /\ a \in 0 .. PowerOfTwo[i] - 1 /\ a \in Int /\ 0 \in Int
  BY <1>1
<1>3. a \div PowerOfTwo[i] = 0
  BY <1>1, <1>2, OneQuotient
<1>4. 0 % 2 = 0
  OBVIOUS
<1> QED BY <1>3, <1>4 DEF Bit

\* A number that a signed type can hold is itself again after it was cut to its bits.
LEMMA SignedBack ==
  ASSUME NEW b \in 1 .. Width, NEW n \in -PowerOfTwo[b - 1] .. PowerOfTwo[b - 1] - 1
  PROVE  AsSigned(n % PowerOfTwo[b], b) = n
<1>0. Width \in Nat
  BY GlobalVariablesAssumption
<1>1. b - 1 \in 0 .. Width /\ b \in 0 .. Width
  BY <1>0
<1>2. PowerOfTwo[b] = 2 * PowerOfTwo[b - 1] /\ PowerOfTwo[b - 1] \in Nat \ {0} /\ PowerOfTwo[b] \in Nat \ {0}
  BY <1>1, PowerSteps, PowersArePositive
<1> DEFINE m == PowerOfTwo[b]
           h == PowerOfTwo[b - 1]
<1>3. m = 2 * h /\ h \in Nat \ {0} /\ m \in Nat \ {0} /\ n \in -h .. h - 1 /\ n \in Int
  BY <1>2
<1> HIDE DEF m, h
<1>4. CASE n >= 0
  <2>1. n = 0 * m + n /\ n \in 0 .. m - 1 /\ 0 \in Int
    BY <1>3, <1>4
  <2>2. n % m = n
    BY <1>3, <2>1, OneRemainder
  <2>3. AsSigned(n, b) = n
    BY <1>3, <1>4 DEF AsSigned, h
  <2> QED BY <2>2, <2>3 DEF m
<1>5. CASE n < 0
  <2>1. n = (-1) * m + (n + m) /\ n + m \in 0 .. m - 1 /\ -1 \in Int
    BY <1>3, <1>5
  <2>2. n % m = n + m
    BY <1>3, <2>1, OneRemainder
  <2>3. ~(n + m < h) /\ n + m - m = n
    BY <1>3
  <2> DEFINE w == n + m
  <2>4. ~(w < h) /\ w - m = n
    BY <1>3, <2>3
  <2> HIDE DEF w
  <2>5. AsSigned(w, b) = n
    BY <2>4 DEF AsSigned, m, h
  <2> QED BY <2>2, <2>5 DEF m, w
<1> QED BY <1>3, <1>4, <1>5

\* What ShowsWhatIsSet asks of a value that was stored.
IsStored(v, p, word) ==
    IF v.type = "Bits"
    THEN /\ p.form = "binary"
         /\ Shown(v, word) = p.number % PowerOfTwo[v.maxValue - v.minValue]
         /\ \A i \in (0 .. Width - 1) \ (v.minValue .. v.maxValue) : Bit(word, i) = Bit(varValue, i)
    ELSE HoldsNumber(v, p) => Shown(v, word) = Denotes(v, p)

IsAnswered(v, p, set) ==
    IF set.result # "Ok" \/ (v.type = "String" /\ p = EmptyText) THEN set.value = varValue
    ELSE IsStored(v, p, set.value)

LEMMA StoredIsAnswered ==
  ASSUME NEW v, v.type # "String", NEW p, NEW num, NEW word,
         CheckValue(v, num) = "Ok" => IsStored(v, p, word)
  PROVE  IsAnswered(v, p, StoreChecked(v, num, word))
<1>1. CASE CheckValue(v, num) = "Ok"
  <2>1. StoreChecked(v, num, word).value = word /\ StoreChecked(v, num, word).result = "Ok"
    BY <1>1 DEF StoreChecked, Accepted
  <2> QED BY <1>1, <2>1 DEF IsAnswered
<1>2. CASE CheckValue(v, num) # "Ok"
  <2>1. /\ StoreChecked(v, num, word).value = varValue
        /\ StoreChecked(v, num, word).result = CheckValue(v, num)
    BY <1>2 DEF StoreChecked, Refused
  <2> QED BY <1>2, <2>1 DEF IsAnswered
<1> QED BY <1>1, <1>2

LEMMA RefusedIsAnswered ==
  ASSUME NEW v, NEW p, NEW result, result # "Ok"
  PROVE  IsAnswered(v, p, Refused(result))
BY DEF IsAnswered, Refused

LEMMA AcceptedIsAnswered ==
  ASSUME NEW v, NEW p, v.type # "String" \/ p # EmptyText, NEW word, IsStored(v, p, word)
  PROVE  IsAnswered(v, p, Accepted(word))
BY DEF IsAnswered, Accepted

\* What is stored of a type that is printed as it is.
LEMMA PlainIsStored ==
  ASSUME NEW v, v.type \notin {"Bits", "Signed"}, NEW p, NEW word,
         HoldsNumber(v, p) => word = Denotes(v, p)
  PROVE  IsStored(v, p, word)
<1>1. Shown(v, word) = word
  BY DEF Shown
<1> QED BY <1>1 DEF IsStored

\* A number that 32 bits hold is not changed by cutting it to them.
LEMMA WordIsSame ==
  ASSUME NEW n \in 0 .. PowerOfTwo[Width] - 1
  PROVE  Word(n) = n
<1>1. Width \in 0 .. Width
  BY GlobalVariablesAssumption
<1>2. PowerOfTwo[Width] \in Nat \ {0}
  BY <1>1, PowersArePositive
<1>3. n = 0 * PowerOfTwo[Width] + n /\ n \in Int /\ 0 \in Int
  BY <1>2
<1> QED BY <1>2, <1>3, OneRemainder DEF Word

\* What a decimal says.
LEMMA DecimalDenotes ==
  ASSUME NEW v, v.type \notin {"String", "Signed"}, NEW p, IsParam(v, p), IsDecimal(p), HoldsNumber(v, p)
  PROVE  Denotes(v, p) = Decimal(p) /\ Decimal(p) \in 0 .. PowerOfTwo[Width] - 1
<1>1. Width \in 0 .. Width
  BY GlobalVariablesAssumption
<1>2. PowerOfTwo[Width] \in Nat \ {0}
  BY <1>1, PowersArePositive
<1>3. CASE p = EmptyText
  <2>1. Denotes(v, p) = 0 /\ Decimal(p) = 0
    BY <1>3 DEF Denotes, Decimal, EmptyText
  <2> QED BY <1>2, <2>1
<1>4. CASE p # EmptyText
  <2>1. p.form = "decimal"
    BY <1>4 DEF IsParam, IsDecimal
  <2>2. Denotes(v, p) = p.number /\ Decimal(p) = p.number
    BY <1>4, <2>1 DEF Denotes, Decimal
  <2>3. Denotes(v, p) \in 0 .. PowerOfTwo[Width] - 1
    BY <2>1 DEF HoldsNumber
  <2> QED BY <2>2, <2>3
<1> QED BY <1>3, <1>4

LEMMA SetBoolAnswers ==
  ASSUME NEW v, CheckGlobalVar(v), v.type = "Bool", NEW p, IsParam(v, p)
  PROVE  IsAnswered(v, p, SetBool(p))
<1>1. CASE IsDecimal(p) /\ Word(Decimal(p)) \in {0, 1}
  <2>1. IsStored(v, p, Word(Decimal(p)))
    BY <1>1, DecimalDenotes, WordIsSame, PlainIsStored
  <2> QED BY <1>1, <2>1, AcceptedIsAnswered DEF SetBool
<1>2. CASE ~(IsDecimal(p) /\ Word(Decimal(p)) \in {0, 1})
  <2>1. CASE p.form = "word" /\ p.word.name = "true"
    <3>1. p # EmptyText
      BY <2>1 DEF EmptyText
    <3>2. Denotes(v, p) = 1
      BY <2>1, <3>1 DEF Denotes
    <3>3. IsStored(v, p, 1)
      BY <3>2, PlainIsStored
    <3> QED BY <1>2, <2>1, <3>3, AcceptedIsAnswered DEF SetBool
  <2>2. CASE p.form = "word" /\ p.word.name = "false"
    <3>1. p # EmptyText
      BY <2>2 DEF EmptyText
    <3>2. Denotes(v, p) = 0
      BY <2>2, <3>1 DEF Denotes
    <3>3. IsStored(v, p, 0)
      BY <3>2, PlainIsStored
    <3> QED BY <1>2, <2>2, <3>3, AcceptedIsAnswered DEF SetBool
  <2>3. CASE ~(p.form = "word" /\ p.word.name \in {"true", "false"})
    BY <1>2, <2>3, RefusedIsAnswered DEF SetBool
  <2> QED BY <2>1, <2>2, <2>3
<1> QED BY <1>1, <1>2

LEMMA SetHexAnswers ==
  ASSUME NEW v, CheckGlobalVar(v), v.type = "Unsigned", v.isHex, NEW p, IsParam(v, p)
  PROVE  IsAnswered(v, p, SetHex(v, p))
<1>1. CASE p.form # "hex"
  BY <1>1, RefusedIsAnswered DEF SetHex
<1>2. CASE p.form = "hex"
  <2> DEFINE word == p.number % PowerOfTwo[v.bits]
  <2>1. v.bits = Width
    BY DEF CheckGlobalVar
  <2>2. ASSUME HoldsNumber(v, p) PROVE word = Denotes(v, p)
    <3>1. p # EmptyText
      BY <1>2 DEF EmptyText
    <3>2. Denotes(v, p) = p.number
      BY <1>2, <3>1 DEF Denotes
    <3>3. p.number \in 0 .. PowerOfTwo[Width] - 1
      BY <1>2, <2>2, <3>2 DEF HoldsNumber
    <3> QED BY <2>1, <3>2, <3>3, WordIsSame DEF Word
  <2>3. IsStored(v, p, word)
    BY <2>2, PlainIsStored
  <2> HIDE DEF word
  <2>4. IsAnswered(v, p, StoreChecked(v, Word(p.number), word))
    BY <2>3, StoredIsAnswered
  <2> QED BY <1>2, <2>4 DEF SetHex, word
<1> QED BY <1>1, <1>2

LEMMA SetUnsignedAnswers ==
  ASSUME NEW v, CheckGlobalVar(v), v.type = "Unsigned", NEW p, IsParam(v, p)
  PROVE  IsAnswered(v, p, SetUnsigned(v, p))
<1>1. CASE ~IsDecimal(p)
  BY <1>1, RefusedIsAnswered DEF SetUnsigned
<1>2. CASE IsDecimal(p)
  <2> DEFINE d == Decimal(p)
             word == d % PowerOfTwo[v.bits]
  <2>1. d \in Nat
    BY <1>2, DecimalIsNumber
  <2>2. v.bits \in 1 .. Width /\ v.bits \in 0 .. Width
    BY GlobalVariablesAssumption DEF CheckGlobalVar
  <2>3. HoldsNumber(v, p) => Denotes(v, p) = d /\ d \in 0 .. PowerOfTwo[Width] - 1
    BY <1>2, DecimalDenotes
  <2> HIDE DEF d
  <2>4. Word(d) \in Nat
    <3>1. Word(d) \in 0 .. PowerOfTwo[Width] - 1
      BY <2>1, <2>2, WordIsFit
    <3> QED BY <3>1
  <2>5. ASSUME CheckValue(v, Word(d)) = "Ok" PROVE IsStored(v, p, word)
    <3>1. Word(d) <= PowerOfTwo[v.bits] - 1
      BY <2>4, <2>5, CheckedValue
    <3>2. word = Word(d)
      BY <2>1, <2>2, <3>1, CutToType
    <3>3. HoldsNumber(v, p) => word = Denotes(v, p)
      BY <2>3, <3>2, WordIsSame
    <3> QED BY <3>3, PlainIsStored
  <2>6. IsAnswered(v, p, StoreChecked(v, Word(d), word))
    <3> HIDE DEF word
    <3> QED BY <2>5, StoredIsAnswered
  <2> QED BY <1>2, <2>6 DEF SetUnsigned, d, word
<1> QED BY <1>1, <1>2

LEMMA SetSignedAnswers ==
  ASSUME NEW v, CheckGlobalVar(v), v.type = "Signed", NEW p, IsParam(v, p)
  PROVE  IsAnswered(v, p, SetSigned(v, p))
<1>1. CASE ~IsDecimal(p) /\ ~(p.form = "negative" /\ ~p.long)
  BY <1>1, RefusedIsAnswered DEF SetSigned
<1>2. CASE IsDecimal(p) \/ (p.form = "negative" /\ ~p.long)
  <2> DEFINE num == IF IsDecimal(p) THEN Decimal(p) ELSE -p.number
             word == num % PowerOfTwo[v.bits]
             half == PowerOfTwo[Width - 1]
  <2>1. v.bits \in 1 .. Width /\ Width \in 1 .. Width /\ Width - 1 \in 0 .. Width /\ v.bits - 1 \in 0 .. Width
    BY GlobalVariablesAssumption DEF CheckGlobalVar
  <2>2. half \in Nat \ {0} /\ PowerOfTwo[v.bits - 1] \in Nat
    BY <2>1, PowersArePositive
  <2>3. ASSUME HoldsNumber(v, p) PROVE Denotes(v, p) = num /\ num \in -half .. half - 1
    <3>1. CASE p = EmptyText
      <4>1. Denotes(v, p) = 0 /\ num = 0
        BY <3>1 DEF Denotes, IsDecimal, Decimal, EmptyText
      <4> QED BY <2>2, <4>1
    <3>2. CASE p # EmptyText
      <4>1. (p.form = "decimal" /\ IsDecimal(p)) \/ (p.form = "negative" /\ ~IsDecimal(p))
        BY <1>2, <3>2 DEF IsDecimal
      <4>2. Denotes(v, p) = num
        BY <3>2, <4>1 DEF Denotes, Decimal
      <4>3. Denotes(v, p) \in -half .. half - 1
        BY <2>3, <4>1 DEF HoldsNumber
      <4> QED BY <4>2, <4>3
    <3> QED BY <3>1, <3>2
  <2> HIDE DEF num
  <2>4. ASSUME CheckValue(v, Word(num)) = "Ok", HoldsNumber(v, p)
        PROVE  AsSigned(word, v.bits) = num
    <3>1. num \in -half .. half - 1
      BY <2>3, <2>4
    <3>2. AsSigned(Word(num), Width) = num
      BY <2>1, <3>1, SignedBack DEF Word
    <3>3. /\ ~(AsSigned(Word(num), Width) > PowerOfTwo[v.bits - 1] - 1)
          /\ ~(AsSigned(Word(num), Width) < -PowerOfTwo[v.bits - 1])
      BY <2>4, Zenon DEF CheckValue, TypeTooMuch
    <3>4. num \in -PowerOfTwo[v.bits - 1] .. PowerOfTwo[v.bits - 1] - 1
      BY <2>2, <3>1, <3>2, <3>3
    <3> QED BY <2>1, <3>4, SignedBack
  <2> HIDE DEF word
  <2>5. ASSUME CheckValue(v, Word(num)) = "Ok" PROVE IsStored(v, p, word)
    <3>1. Shown(v, word) = AsSigned(word, v.bits)
      BY DEF Shown
    <3> QED BY <2>3, <2>4, <2>5, <3>1 DEF IsStored
  <2>6. IsAnswered(v, p, StoreChecked(v, Word(num), word))
    BY <2>5, StoredIsAnswered
  <2> QED BY <1>2, <2>6 DEF SetSigned, num, word
<1> QED BY <1>1, <1>2

LEMMA SetStringAnswers ==
  ASSUME NEW v, CheckGlobalVar(v), v.type = "String", NEW p, IsParam(v, p)
  PROVE  IsAnswered(v, p, SetString(v, p))
<1>1. CASE TextLength(p) >= v.maxValue - 1
  BY <1>1, RefusedIsAnswered DEF SetString
<1>2. CASE ~(TextLength(p) >= v.maxValue - 1) /\ p = EmptyText
  <2>1. SetString(v, p).value = varValue
    BY <1>2, AcceptedStores DEF SetString
  <2> QED BY <1>2, <2>1 DEF IsAnswered
<1>3. CASE ~(TextLength(p) >= v.maxValue - 1) /\ p # EmptyText
  <2>1. p.word = Denotes(v, p)
    <3>1. p.form = "word"
      BY <1>3 DEF IsParam
    <3> QED BY <1>3, <3>1 DEF Denotes
  <2>2. IsStored(v, p, p.word)
    BY <2>1, PlainIsStored
  <2>3. SetString(v, p) = Accepted(p.word)
    BY <1>3 DEF SetString
  <2> QED BY <1>3, <2>2, <2>3, AcceptedIsAnswered
<1> QED BY <1>1, <1>2, <1>3

LEMMA SetEnumeratorAnswers ==
  ASSUME NEW v, CheckGlobalVar(v), v.type = "Enumerator", NEW p, IsParam(v, p)
  PROVE  IsAnswered(v, p, SetEnumerator(v, p))
<1>1. CASE p.form = "decimal"
  <2>1. CASE ~p.long /\ CheckValue(v, Word(p.number)) = "Ok"
    <3>1. p # EmptyText
      BY <1>1 DEF EmptyText
    <3>2. IsDecimal(p) /\ Decimal(p) = p.number
      BY <1>1, <2>1, <3>1 DEF IsDecimal, Decimal
    <3>3. HoldsNumber(v, p) => Word(p.number) = Denotes(v, p)
      BY <3>2, DecimalDenotes, WordIsSame
    <3>4. IsStored(v, p, Word(p.number))
      BY <3>3, PlainIsStored
    <3> QED BY <1>1, <2>1, <3>4, AcceptedIsAnswered DEF SetEnumerator
  <2>2. CASE p.long \/ CheckValue(v, Word(p.number)) # "Ok"
    BY <1>1, <2>2, RefusedIsAnswered DEF SetEnumerator
  <2> QED BY <2>1, <2>2
<1> DEFINE named == \E i \in 1 .. v.maxValue : v.enumList[i] = p.word.name
           found == (CHOOSE i \in 1 .. v.maxValue : v.enumList[i] = p.word.name) - 1
<1>2. CASE p.form = "word" /\ named
  <2>1. p # EmptyText
    BY <1>2 DEF EmptyText
  <2>2. Denotes(v, p) = found
    <3>1. v.type # "Bool" /\ p.form # "negative"
      BY <1>2
    <3> QED BY <1>2, <2>1, <3>1 DEF Denotes
  <2>3. IsStored(v, p, found)
    <3> HIDE DEF found
    <3> QED BY <2>2, PlainIsStored
  <2>4. SetEnumerator(v, p) = Accepted(found)
    BY <1>2 DEF SetEnumerator
  <2> HIDE DEF found
  <2> QED BY <2>3, <2>4, AcceptedIsAnswered
<1>3. CASE p.form # "decimal" /\ ~(p.form = "word" /\ named)
  BY <1>3, RefusedIsAnswered DEF SetEnumerator
<1> QED BY <1>1, <1>2, <1>3

LEMMA SetBitsAnswers ==
  ASSUME NEW v, CheckGlobalVar(v), v.type = "Bits", NEW p, IsParam(v, p)
  PROVE  IsAnswered(v, p, SetBits(v, p))
<1>1. CASE p.form # "binary"
  BY <1>1, RefusedIsAnswered DEF SetBits
<1>2. CASE p.form = "binary"
  <2> DEFINE lo == v.minValue
             hi == v.maxValue
             n == p.number
             num == n * PowerOfTwo[lo]
             kept == BitsOf(varValue) \ (lo .. hi - 1)
             word == WordOf(BitsOf(num) \cup kept)
  <2>1. /\ lo \in 0 .. Width /\ hi \in 0 .. Width - 1 /\ lo <= hi /\ hi + 1 \in 0 .. Width /\ hi - lo \in Nat
        /\ lo + (hi - lo) = hi /\ Width \in Nat \ {0}
    BY GlobalVariablesAssumption DEF CheckGlobalVar
  <2>2. n \in Nat
    BY <1>2 DEF IsParam, EmptyText
  <2> HIDE DEF n
  <2>3. PowerOfTwo[lo] \in Nat \ {0} /\ PowerOfTwo[hi + 1] \in Nat \ {0}
    BY <2>1, PowersArePositive
  <2>4. num \in Nat
    BY <2>2, <2>3
  <2>5. word \in Nat
    <3>1. word \in 0 .. PowerOfTwo[Width] - 1
      BY WordFits
    <3> HIDE DEF word
    <3> QED BY <3>1
  <2>6. ASSUME NEW i \in 0 .. Width - 1 PROVE Bit(word, i) <=> Bit(num, i) \/ i \in kept
    <3>1. Bit(word, i) <=> i \in BitsOf(num) \cup kept
      <4> DEFINE bits == BitsOf(num) \cup kept
      <4> HIDE DEF bits
      <4>1. Bit(WordOf(bits), i) <=> i \in bits
        BY BitsOfWord
      <4> QED BY <4>1 DEF bits
    <3> QED BY <3>1 DEF BitsOf
  <2> HIDE DEF word
  <2>7. Shown(v, word) = n % PowerOfTwo[hi - lo]
    <3>1. \A i \in lo .. lo + (hi - lo) - 1 : Bit(word, i) <=> Bit(num, i)
      <4> SUFFICES ASSUME NEW i \in lo .. lo + (hi - lo) - 1 PROVE Bit(word, i) <=> Bit(num, i)
        OBVIOUS
      <4>1. i \in 0 .. Width - 1 /\ i \in lo .. hi - 1
        BY <2>1
      <4> QED BY <2>6, <4>1
    <3>2. (word \div PowerOfTwo[lo]) % PowerOfTwo[hi - lo] = (num \div PowerOfTwo[lo]) % PowerOfTwo[hi - lo]
      <4> HIDE DEF lo, hi, num
      <4>1. lo + (hi - lo) <= Width
        BY <2>1
      <4> QED BY <2>1, <2>4, <2>5, <3>1, <4>1, SameField
    <3>3. num \div PowerOfTwo[lo] = n
      BY <2>1, <2>2, MovedUp
    <3>4. Shown(v, word) = (word \div PowerOfTwo[lo]) % PowerOfTwo[hi - lo]
      BY DEF Shown, GetBits
    <3> QED BY <3>2, <3>3, <3>4
  <2>8. ASSUME CheckValue(v, num) = "Ok", NEW i \in (0 .. Width - 1) \ (lo .. hi)
        PROVE  Bit(word, i) = Bit(varValue, i)
    <3>1. i \in 0 .. Width /\ i \notin lo .. hi - 1 /\ (i < lo \/ (i > hi /\ hi + 1 <= i))
      BY <2>1
    <3>2. ~Bit(num, i)
      <4>1. CASE i < lo
        BY <2>1, <2>2, <3>1, <4>1, MovedUp
      <4>2. CASE hi + 1 <= i
        <5>1. ~(num > Word(PowerOfTwo[hi + 1] - 1))
          BY <2>8, Zenon DEF CheckValue, TypeTooMuch
        <5>2. PowerOfTwo[hi + 1] - 1 \in 0 .. PowerOfTwo[Width] - 1
          <6>1. PowerOfTwo[hi + 1] <= PowerOfTwo[Width] /\ PowerOfTwo[Width] \in Nat
            BY <2>1, PowersGrow, PowersArePositive
          <6> QED BY <2>3, <6>1
        <5>3. Word(PowerOfTwo[hi + 1] - 1) = PowerOfTwo[hi + 1] - 1
          BY <5>2, WordIsSame
        <5>4. PowerOfTwo[hi + 1] <= PowerOfTwo[i] /\ PowerOfTwo[i] \in Nat
          BY <2>1, <3>1, <4>2, PowersGrow, PowersArePositive
        <5>5. num < PowerOfTwo[i]
          <6> HIDE DEF num, hi
          <6> QED BY <2>3, <2>4, <5>1, <5>3, <5>4
        <5> HIDE DEF num
        <5> QED BY <2>4, <3>1, <5>5, NoBitsAbove
      <4> QED BY <3>1, <4>1, <4>2
    <3>3. i \in kept <=> Bit(varValue, i)
      BY <3>1 DEF BitsOf
    <3>4. Bit(word, i) <=> Bit(varValue, i)
      <4> HIDE DEF kept, num
      <4> QED BY <2>6, <3>2, <3>3
    <3> QED BY <3>4 DEF Bit
  <2>9. CheckValue(v, num) = "Ok" => IsStored(v, p, word)
    <3> HIDE DEF num
    <3> QED BY <1>2, <2>7, <2>8 DEF IsStored, n
  <2>10. IsAnswered(v, p, StoreChecked(v, num, word))
    <3> HIDE DEF num
    <3> QED BY <2>9, StoredIsAnswered
  <2>11. SetBits(v, p) \in {Refused("TooLongBinary"), StoreChecked(v, num, word)}
    BY <1>2 DEF SetBits, word, n
  <2> HIDE DEF num
  <2> QED BY <2>10, <2>11, RefusedIsAnswered
<1> QED BY <1>1, <1>2

LEMMA SetAnswers ==
  ASSUME NEW v \in VarList, NEW p, IsParam(v, p)
  PROVE  IsAnswered(v, p, SetVariable(v, p))
<1>1. CheckGlobalVar(v)
  BY GlobalVariablesAssumption
<1>2. CASE v.type = "Bool"
  BY <1>1, <1>2, SetBoolAnswers DEF SetVariable
<1>3. CASE v.type = "Unsigned" /\ v.isHex
  BY <1>1, <1>3, SetHexAnswers DEF SetVariable
<1>4. CASE v.type = "Unsigned" /\ ~v.isHex
  BY <1>1, <1>4, SetUnsignedAnswers DEF SetVariable
<1>5. CASE v.type = "Signed"
  BY <1>1, <1>5, SetSignedAnswers DEF SetVariable
<1>6. CASE v.type = "Bits"
  BY <1>1, <1>6, SetBitsAnswers DEF SetVariable
<1>7. CASE v.type = "String"
  BY <1>1, <1>7, SetStringAnswers DEF SetVariable
<1>8. CASE v.type = "Enumerator"
  BY <1>1, <1>8, SetEnumeratorAnswers DEF SetVariable
<1>9. v.type \in {"Bool", "Unsigned", "Signed", "Bits", "String", "Enumerator"}
  BY <1>1 DEF CheckGlobalVar
<1> QED BY <1>2, <1>3, <1>4, <1>5, <1>6, <1>7, <1>8, <1>9

\* Which words a step of the splitter leaves in their places.
LEMMA BeginArgs ==
  ASSUME NEW text, NEW st, IsSplit(st, text), st.n < CMDH_COMMAND_ARG_MAX_COUNT, NEW word
  PROVE  /\ Begin(st, word).n = st.n /\ Begin(st, word).open = TRUE
         /\ Begin(st, word).args[st.n] = word
         /\ DOMAIN Begin(st, word).args = ArgPlaces
         /\ \A k \in ArgPlaces : k # st.n => Begin(st, word).args[k] = st.args[k]
<1> DEFINE u == Begin(st, word)
<1>1. u.n = st.n /\ u.open = TRUE /\ u.args = [st.args EXCEPT ![st.n] = word]
  BY DEF Begin
<1> HIDE DEF u
<1>2. DOMAIN st.args = ArgPlaces /\ st.n \in ArgPlaces
  BY CommandHandlerAssumption DEF IsSplit, ArgPlaces
<1>3. /\ DOMAIN u.args = ArgPlaces /\ u.args[st.n] = word
      /\ \A k \in ArgPlaces : k # st.n => u.args[k] = st.args[k]
  BY <1>1, <1>2
<1> QED BY <1>1, <1>3 DEF u

LEMMA FinishArgs ==
  ASSUME NEW st, st.n \in ArgPlaces, DOMAIN st.args = ArgPlaces
  PROVE  /\ Finish(st).n = st.n + 1 /\ Finish(st).open = FALSE
         /\ \A k \in 0 .. st.n : Finish(st).args[k] = st.args[k]
<1> DEFINE u == Finish(st)
<1>1. /\ u.n = st.n + 1 /\ u.open = FALSE
      /\ u.args = IF st.n + 1 < CMDH_COMMAND_ARG_MAX_COUNT
                  THEN [st.args EXCEPT ![st.n + 1] = NoText] ELSE st.args
  BY DEF Finish
<1> HIDE DEF u
<1>2. \A k \in 0 .. st.n : k \in ArgPlaces /\ k # st.n + 1
  BY CommandHandlerAssumption DEF ArgPlaces
<1>3. \A k \in 0 .. st.n : u.args[k] = st.args[k]
  BY <1>1, <1>2
<1> QED BY <1>1, <1>3 DEF u

LEMMA FinishWordArgs ==
  ASSUME NEW text, NEW st, IsSplit(st, text), st.n < CMDH_COMMAND_ARG_MAX_COUNT
  PROVE  /\ FinishWord(st).n = st.n + 1 /\ FinishWord(st).open = FALSE
         /\ FinishWord(st).args[st.n] = IF st.open THEN st.args[st.n] ELSE EmptyText
         /\ \A k \in 0 .. st.n - 1 : FinishWord(st).args[k] = st.args[k]
<1>0. /\ st.n \in ArgPlaces /\ st.n \in 0 .. st.n /\ DOMAIN st.args = ArgPlaces
      /\ \A k \in 0 .. st.n - 1 : k \in 0 .. st.n /\ k \in ArgPlaces /\ k # st.n
  BY CommandHandlerAssumption DEF IsSplit, ArgPlaces
<1>1. CASE st.open
  <2>1. FinishWord(st) = Finish(st)
    BY <1>1 DEF FinishWord
  <2>2. /\ Finish(st).n = st.n + 1 /\ Finish(st).open = FALSE
        /\ \A k \in 0 .. st.n : Finish(st).args[k] = st.args[k]
    BY <1>0, FinishArgs, Zenon
  <2> QED BY <1>0, <1>1, <2>1, <2>2
<1>2. CASE ~st.open
  <2> DEFINE u == Begin(st, EmptyText)
  <2>1. u.n = st.n /\ u.args = [st.args EXCEPT ![st.n] = EmptyText]
    BY DEF Begin
  <2>2. FinishWord(st) = Finish(u)
    BY <1>2 DEF FinishWord
  <2> HIDE DEF u
  <2>3. /\ u.args[st.n] = EmptyText /\ DOMAIN u.args = ArgPlaces
        /\ \A k \in 0 .. st.n - 1 : u.args[k] = st.args[k]
    BY <1>0, <2>1
  <2>4. u.n \in ArgPlaces
    BY <1>0, <2>1
  <2>5. /\ Finish(u).n = u.n + 1 /\ Finish(u).open = FALSE
        /\ \A k \in 0 .. u.n : Finish(u).args[k] = u.args[k]
    BY <2>3, <2>4, FinishArgs, Zenon
  <2> QED BY <1>0, <1>2, <2>1, <2>2, <2>3, <2>5
<1> QED BY <1>1, <1>2

\* The number of spaces up to a place of a line.
SpacesTo(t, i) == Cardinality({j \in 1 .. i : t[j] = Space})

LEMMA SpacesCount ==
  ASSUME NEW t, NEW i \in Nat
  PROVE  /\ SpacesTo(t, i) \in Nat /\ SpacesTo(t, 0) = 0
         /\ SpacesTo(t, i + 1) = IF t[i + 1] = Space THEN SpacesTo(t, i) + 1 ELSE SpacesTo(t, i)
<1> DEFINE S(k) == {j \in 1 .. k : t[j] = Space}
<1>1. IsFiniteSet(S(i)) /\ Cardinality(S(i)) \in Nat
  <2>1. IsFiniteSet(1 .. i)
    BY FS_Interval
  <2>2. S(i) \in SUBSET (1 .. i)
    OBVIOUS
  <2> HIDE DEF S
  <2> QED BY <2>1, <2>2, FS_Subset, FS_CardinalityType
<1>2. Cardinality(S(0)) = 0
  <2>1. S(0) = {}
    OBVIOUS
  <2> QED BY <2>1, FS_EmptySet
<1>3. CASE t[i + 1] = Space
  <2>1. S(i + 1) = S(i) \cup {i + 1} /\ i + 1 \notin S(i)
    BY <1>3
  <2> HIDE DEF S
  <2>2. Cardinality(S(i + 1)) = Cardinality(S(i)) + 1
    BY <1>1, <2>1, FS_AddElement
  <2> QED BY <1>1, <1>2, <1>3, <2>2 DEF SpacesTo, S
<1>4. CASE t[i + 1] # Space
  <2>1. S(i + 1) = S(i)
    BY <1>4
  <2> HIDE DEF S
  <2> QED BY <1>1, <1>2, <1>4, <2>1 DEF SpacesTo, S
<1> QED BY <1>3, <1>4

LEMMA SpacesGrow ==
  ASSUME NEW t, NEW i \in Nat, NEW j \in Nat, i <= j
  PROVE  SpacesTo(t, i) <= SpacesTo(t, j)
<1> DEFINE S(k) == {x \in 1 .. k : t[x] = Space}
<1>1. S(i) \in SUBSET S(j)
  OBVIOUS
<1>2. IsFiniteSet(S(j))
  <2>1. IsFiniteSet(1 .. j) /\ S(j) \in SUBSET (1 .. j)
    BY FS_Interval
  <2> HIDE DEF S
  <2> QED BY <2>1, FS_Subset
<1> HIDE DEF S
<1>3. Cardinality(S(i)) <= Cardinality(S(j))
  BY <1>1, <1>2, FS_Subset
<1> QED BY <1>3 DEF SpacesTo, S

\* A line as it is split: no two words side by side.
IsLine(t) ==
    /\ Len(t) \in Nat /\ DOMAIN t = 1 .. Len(t)
    /\ \A i \in 2 .. Len(t) : t[i - 1] = Space \/ t[i] = Space

\* What stands after k - 1 spaces is the k-th word, and there is one only.
LEMMA WordAt ==
  ASSUME NEW t, IsLine(t), NEW i \in 1 .. Len(t), t[i] # Space
  PROVE  WordIn(t, SpacesTo(t, i) + 1) = t[i]
<1> DEFINE c == SpacesTo(t, i)
           Inside == {j \in DOMAIN t : t[j] # Space /\ SpacesTo(t, j) = (c + 1) - 1}
           x == CHOOSE j \in Inside : TRUE
<1>0. c \in Nat /\ Len(t) \in Nat /\ DOMAIN t = 1 .. Len(t)
  BY SpacesCount DEF IsLine
<1>1. WordIn(t, c + 1) = IF Inside = {} THEN EmptyText ELSE t[x]
  BY DEF WordIn, SpacesTo
<1>2. i \in Inside
  BY <1>0
<1>3. x \in Inside
  <2> HIDE DEF Inside
  <2> QED BY <1>2
<1> HIDE DEF x
<1>4. x \in 1 .. Len(t) /\ t[x] # Space /\ SpacesTo(t, x) = SpacesTo(t, i)
  BY <1>0, <1>3
<1>5. ASSUME NEW j \in 1 .. Len(t), NEW k \in 1 .. Len(t), j < k,
             t[j] # Space, t[k] # Space, SpacesTo(t, j) = SpacesTo(t, k)
      PROVE  FALSE
  <2>1. j \in Nat /\ j + 1 \in Nat /\ k \in Nat /\ j + 1 \in 2 .. Len(t) /\ j + 1 <= k /\ (j + 1) - 1 = j
    BY <1>0, <1>5
  <2>2. t[j + 1] = Space
    BY <1>5, <2>1 DEF IsLine
  <2>3. SpacesTo(t, j + 1) = SpacesTo(t, j) + 1 /\ SpacesTo(t, j) \in Nat
    BY <2>1, <2>2, SpacesCount
  <2>4. SpacesTo(t, j + 1) <= SpacesTo(t, k)
    BY <2>1, SpacesGrow
  <2> QED BY <1>5, <2>3, <2>4
<1>6. x = i
  <2>1. x < i \/ i < x \/ x = i
    BY <1>4
  <2> QED BY <1>4, <1>5, <2>1
<1> HIDE DEF Inside
<1> QED BY <1>1, <1>2, <1>6 DEF c

\* Two spaces side by side, or one at the start, have an empty word before the second.
LEMMA NoWordAt ==
  ASSUME NEW t, IsLine(t), NEW i \in 0 .. Len(t), i = 0 \/ t[i] = Space,
         i < Len(t) => t[i + 1] = Space
  PROVE  WordIn(t, SpacesTo(t, i) + 1) = EmptyText
<1> DEFINE c == SpacesTo(t, i)
           Inside == {j \in DOMAIN t : t[j] # Space /\ SpacesTo(t, j) = (c + 1) - 1}
<1>0. c \in Nat /\ Len(t) \in Nat /\ DOMAIN t = 1 .. Len(t) /\ i \in Nat
  <2>1. i \in Nat /\ Len(t) \in Nat /\ DOMAIN t = 1 .. Len(t)
    BY DEF IsLine
  <2> QED BY <2>1, SpacesCount
<1>1. ASSUME NEW j \in 1 .. Len(t), t[j] # Space, SpacesTo(t, j) = SpacesTo(t, i) PROVE FALSE
  <2>1. CASE j <= i
    <3>1. i # 0 /\ t[i] = Space /\ i # j /\ i - 1 \in Nat /\ j \in Nat /\ j <= i - 1 /\ (i - 1) + 1 = i
      BY <1>0, <1>1, <2>1
    <3>2. SpacesTo(t, j) <= SpacesTo(t, i - 1)
      BY <3>1, SpacesGrow
    <3>3. SpacesTo(t, i) = SpacesTo(t, i - 1) + 1 /\ SpacesTo(t, i - 1) \in Nat /\ SpacesTo(t, j) \in Nat
      BY <3>1, SpacesCount
    <3> QED BY <1>1, <3>2, <3>3
  <2>2. CASE i < j
    <3>1. t[i + 1] = Space /\ i + 1 \in Nat /\ j \in Nat /\ i + 1 <= j
      BY <1>0, <2>2
    <3>2. SpacesTo(t, i + 1) <= SpacesTo(t, j) /\ SpacesTo(t, i + 1) = SpacesTo(t, i) + 1
      BY <1>0, <3>1, SpacesGrow, SpacesCount
    <3> QED BY <1>0, <1>1, <3>2
  <2> QED BY <1>0, <2>1, <2>2
<1>2. Inside = {}
  BY <1>0, <1>1
<1>3. WordIn(t, c + 1) = IF Inside = {} THEN EmptyText ELSE t[CHOOSE j \in Inside : TRUE]
  BY DEF WordIn, SpacesTo
<1> HIDE DEF Inside
<1> QED BY <1>2, <1>3 DEF c

\* The words that were found are those of the line, in their order.
Reads(st, t) == \A k \in 0 .. st.n - 1 : st.args[k] = WordIn(t, k + 1)

\* What is so before place i + 1 of a line, until the places are full.
Follows(st, t, i) ==
    /\ IsSplit(st, t) /\ Reads(st, t)
    /\ st.n < CMDH_COMMAND_ARG_MAX_COUNT =>
          /\ st.n = SpacesTo(t, i)
          /\ IF st.open THEN i # 0 /\ t[i] # Space /\ st.args[st.n] = t[i] ELSE i = 0 \/ t[i] = Space

LEMMA FinishReads ==
  ASSUME NEW t, IsLine(t), NEW i \in 0 .. Len(t), i < Len(t) => t[i + 1] = Space,
         NEW st, Follows(st, t, i), st.n < CMDH_COMMAND_ARG_MAX_COUNT
  PROVE  Reads(FinishWord(st), t)
<1> DEFINE u == FinishWord(st)
<1>0. st.n \in Nat /\ i \in Nat /\ Len(t) \in Nat
  BY DEF Follows, IsSplit, IsLine
<1>1. IsSplit(st, t)
  BY DEF Follows
<1>2. /\ u.n = st.n + 1 /\ u.args[st.n] = IF st.open THEN st.args[st.n] ELSE EmptyText
      /\ \A k \in 0 .. st.n - 1 : u.args[k] = st.args[k]
  BY <1>1, FinishWordArgs, Zenon
<1> HIDE DEF u
<1>3. u.args[st.n] = WordIn(t, st.n + 1)
  <2>1. CASE st.open
    <3>1. i \in 1 .. Len(t) /\ t[i] # Space /\ st.args[st.n] = t[i] /\ st.n = SpacesTo(t, i)
      BY <1>0, <2>1 DEF Follows
    <3>2. WordIn(t, SpacesTo(t, i) + 1) = t[i]
      BY <3>1, WordAt
    <3> QED BY <1>2, <2>1, <3>1, <3>2
  <2>2. CASE ~st.open
    <3>1. (i = 0 \/ t[i] = Space) /\ st.n = SpacesTo(t, i)
      BY <2>2 DEF Follows
    <3>2. WordIn(t, SpacesTo(t, i) + 1) = EmptyText
      BY <3>1, NoWordAt
    <3> QED BY <1>2, <2>2, <3>1, <3>2
  <2> QED BY <2>1, <2>2
<1>4. ASSUME NEW k \in 0 .. u.n - 1 PROVE u.args[k] = WordIn(t, k + 1)
  <2>1. k = st.n \/ k \in 0 .. st.n - 1
    BY <1>0, <1>2
  <2>2. \A j \in 0 .. st.n - 1 : st.args[j] = WordIn(t, j + 1)
    BY Zenon DEF Follows, Reads
  <2> QED BY <1>2, <1>3, <2>1, <2>2
<1> QED BY <1>4 DEF Reads, u

LEMMA StepFollows ==
  ASSUME NEW t, IsLine(t), NEW i \in 1 .. Len(t), NEW st, Follows(st, t, i - 1),
         t[i] = Space /\ i = Len(t) => st.n + 1 < CMDH_COMMAND_ARG_MAX_COUNT
  PROVE  /\ Reads(SplitStep(t, st, i), t)
         /\ i < Len(t) => Follows(SplitStep(t, st, i), t, i)
<1> DEFINE ended == IF t[i] = Space THEN FinishWord(st) ELSE Begin(st, t[i])
<1>0. st.n \in Nat /\ CMDH_COMMAND_ARG_MAX_COUNT \in Nat
  BY CommandHandlerAssumption DEF Follows, IsSplit
<1>d. Len(t) \in Nat /\ DOMAIN t = 1 .. Len(t)
  BY DEF IsLine
<1>n. Len(t) \in Nat
  BY <1>d
<1>i. /\ i \in Nat /\ i - 1 \in 0 .. Len(t) /\ i \in 0 .. Len(t) /\ (i - 1) + 1 = i
      /\ i - 1 \in Nat /\ i # 0 /\ i \in DOMAIN t
  <2>1. i \in Nat /\ i <= Len(t) /\ i # 0
    BY <1>n
  <2>3. (i - 1) + 1 = i
    BY <2>1
  <2>4. i - 1 \in Nat /\ i - 1 <= Len(t)
    BY <1>n, <2>1
  <2>2. i \in DOMAIN t
    BY <1>d
  <2> QED BY <1>n, <2>1, <2>2, <2>3, <2>4
<1>1. IsSplit(st, t) /\ Reads(st, t)
  BY DEF Follows
<1>2. CASE st.n >= CMDH_COMMAND_ARG_MAX_COUNT
  <2>1. SplitStep(t, st, i) = st /\ ~(st.n < CMDH_COMMAND_ARG_MAX_COUNT)
    BY <1>0, <1>2 DEF SplitStep
  <2> QED BY <1>1, <2>1 DEF Follows
<1>3. CASE st.n < CMDH_COMMAND_ARG_MAX_COUNT
  <2>1. st.n = SpacesTo(t, i - 1) /\ SpacesTo(t, i) = IF t[i] = Space THEN st.n + 1 ELSE st.n
    <3>1. st.n = SpacesTo(t, i - 1)
      BY <1>3 DEF Follows
    <3>2. SpacesTo(t, (i - 1) + 1) =
             IF t[(i - 1) + 1] = Space THEN SpacesTo(t, i - 1) + 1 ELSE SpacesTo(t, i - 1)
      BY <1>i, SpacesCount
    <3> QED BY <1>i, <3>1, <3>2
  <2>2. Follows(ended, t, i) /\ (i = Len(t) => ended.n < CMDH_COMMAND_ARG_MAX_COUNT)
    <3>1. CASE t[i] = Space
      <4> DEFINE u == FinishWord(st)
      <4>1. u.n = st.n + 1 /\ u.open = FALSE
        BY <1>1, <1>3, FinishWordArgs
      <4>2. IsSplit(u, t)
        BY <1>1, <1>3, FinishWordSplit
      <4>3. Reads(u, t)
        BY <1>i, <1>3, <3>1, FinishReads
      <4> HIDE DEF u
      <4>4. Follows(u, t, i)
        BY <2>1, <3>1, <4>1, <4>2, <4>3 DEF Follows
      <4> QED BY <3>1, <4>1, <4>4 DEF u
    <3>2. CASE t[i] # Space
      <4> DEFINE u == Begin(st, t[i])
      <4>1. t[i] \in WordsOf(t)
        BY <1>i, <3>2 DEF WordsOf, ToSet
      <4>2. IsSplit(u, t) /\ u.n = st.n /\ u.open = TRUE
        BY <1>1, <1>3, <4>1, BeginSplit
      <4>3. u.args = [st.args EXCEPT ![st.n] = t[i]]
        BY DEF Begin
      <4> HIDE DEF u
      <4>4. /\ DOMAIN st.args = ArgPlaces /\ st.n \in ArgPlaces
            /\ \A k \in 0 .. st.n - 1 : k \in ArgPlaces /\ k # st.n
        <5>1. DOMAIN st.args = ArgPlaces
          BY <1>1 DEF IsSplit
        <5>2. st.n \in ArgPlaces
          BY <1>0, <1>3 DEF ArgPlaces
        <5>3. \A k \in 0 .. st.n - 1 : k \in ArgPlaces /\ k # st.n
          BY <1>0, <1>3 DEF ArgPlaces
        <5> QED BY <5>1, <5>2, <5>3
      <4>5. u.args[st.n] = t[i] /\ \A k \in 0 .. st.n - 1 : u.args[k] = st.args[k]
        BY <4>3, <4>4
      <4>6. Reads(u, t)
        BY <1>1, <4>2, <4>5 DEF Reads
      <4>7. Follows(u, t, i)
        BY <1>i, <2>1, <3>2, <4>2, <4>5, <4>6 DEF Follows
      <4> QED BY <1>3, <3>2, <4>2, <4>7 DEF u
    <3> QED BY <3>1, <3>2
  <2>3. SplitStep(t, st, i) = IF i = Len(t) THEN FinishWord(ended) ELSE ended
    BY <1>0, <1>3 DEF SplitStep
  <2> HIDE DEF ended
  <2>4. i = Len(t) => Reads(FinishWord(ended), t)
    BY <1>i, <2>2, FinishReads
  <2>5. Reads(ended, t)
    BY <2>2 DEF Follows
  <2>6. CASE i = Len(t)
    <3>1. ~(i < Len(t))
      BY <1>d, <2>6
    <3> QED BY <2>3, <2>4, <2>6, <3>1
  <2>7. CASE i # Len(t)
    BY <2>2, <2>3, <2>5, <2>7
  <2> QED BY <2>6, <2>7
<1> QED BY <1>0, <1>2, <1>3

LEMMA ParserReads ==
  ASSUME DOMAIN arguments = ArgPlaces, NEW t, IsLine(t), Len(t) # 0,
         t[Len(t)] = Space => Len(t) = 1
  PROVE  Reads(CommandParser(t), t)
<1> DEFINE n == Len(t)
           f == CHOOSE h : Splits(h, t, n)
           T == {i \in 0 .. n : ~(Reads(f[i], t) /\ (i < n => Follows(f[i], t, i)))}
<1>0. CMDH_COMMAND_ARG_MAX_COUNT \in Nat \ {0, 1} /\ n \in Nat \ {0}
  BY CommandHandlerAssumption DEF IsLine
<1>1. Splits(f, t, n)
  BY <1>0, SplitsEnd
<1>2. CommandParser(t) = f[n]
  BY DEF CommandParser, Splits, NothingSplit
<1> HIDE DEF f
<1>3. f[0] = NothingSplit
  BY <1>0, <1>1 DEF Splits
<1>4. Reads(NothingSplit, t) /\ Follows(NothingSplit, t, 0)
  <2>1. NothingSplit.n = 0 /\ NothingSplit.open = FALSE /\ DOMAIN NothingSplit.args = ArgPlaces
    BY DEF NothingSplit
  <2>2. 0 .. 0 - 1 = {} /\ 0 \in 0 .. CMDH_COMMAND_ARG_MAX_COUNT
    BY <1>0
  <2>3. IsSplit(NothingSplit, t) /\ Reads(NothingSplit, t)
    BY <2>1, <2>2 DEF IsSplit, Reads
  <2>4. SpacesTo(t, 0) = 0
    BY <1>0, SpacesCount
  <2> QED BY <2>1, <2>3, <2>4 DEF Follows
<1>5. ASSUME T # {} PROVE FALSE
  <2>1. T \subseteq Nat
    BY <1>0
  <2>2. PICK x \in T : \A y \in T : x <= y
    <3> HIDE DEF T
    <3> QED BY <1>5, <2>1, LeastNumber
  <2>3. x # 0
    BY <1>3, <1>4
  <2>4. x \in 1 .. n /\ x - 1 \in 0 .. n /\ ~(x <= x - 1) /\ x - 1 < n
    BY <1>0, <2>3
  <2>5. Follows(f[x - 1], t, x - 1)
    BY <2>2, <2>4
  <2>6. f[x] = SplitStep(t, f[x - 1], x)
    BY <1>1, <2>4 DEF Splits
  <2>7. t[x] = Space /\ x = Len(t) => f[x - 1].n + 1 < CMDH_COMMAND_ARG_MAX_COUNT
    <3> SUFFICES ASSUME t[x] = Space, x = Len(t)
                 PROVE  f[x - 1].n + 1 < CMDH_COMMAND_ARG_MAX_COUNT
      OBVIOUS
    <3>1. x - 1 = 0
      BY <2>4
    <3>2. f[x - 1].n = 0
      BY <1>3, <3>1 DEF NothingSplit
    <3> QED BY <1>0, <3>2
  <2>8. Reads(f[x], t) /\ (x < n => Follows(f[x], t, x))
    BY <2>4, <2>5, <2>6, <2>7, StepFollows
  <2> QED BY <2>2, <2>8
<1>6. Reads(f[n], t)
  BY <1>0, <1>5
<1> QED BY <1>2, <1>6

LEMMA LineIsLine ==
  ASSUME NEW text \in Lines, BeforeNewLine(text) # <<>>
  PROVE  IsLine(StrTrim(BeforeNewLine(text)))
<1> DEFINE t == StrTrim(BeforeNewLine(text))
<1>1. text \in Seq(Params \cup {Space, NewLine})
  BY GlobalVariablesAssumption
<1>2. /\ Len(t) \in Nat \ {0} /\ DOMAIN t = 1 .. Len(t)
      /\ \A i \in 1 .. Len(t) : t[i] # NewLine
      /\ Len(t) <= Len(text) /\ \A i \in 1 .. Len(t) : t[i] = text[i]
  BY <1>1, LineIsTrimmed
<1>3. Len(text) \in Nat
  BY <1>1
<1> HIDE DEF t
<1>4. ASSUME NEW i \in 2 .. Len(t) PROVE t[i - 1] = Space \/ t[i] = Space
  <2>1. i \in 2 .. Len(text) /\ i \in 1 .. Len(t) /\ i - 1 \in 1 .. Len(t)
    BY <1>2, <1>3
  <2>2. {text[i - 1], text[i]} \cap {Space, NewLine} # {}
    BY <2>1, GlobalVariablesAssumption
  <2>3. text[i - 1] = t[i - 1] /\ text[i] = t[i] /\ t[i - 1] # NewLine /\ t[i] # NewLine
    BY <1>2, <2>1
  <2> QED BY <2>2, <2>3
<1>5. IsLine(t)
  BY <1>2, <1>4 DEF IsLine
<1> QED BY <1>5 DEF t

LEMMA LineShows ==
  ASSUME GlobalVariablesInv, NEW text \in Lines, ReceiveLine(text)
  PROVE  ShowsWhatIsSet
<1> DEFINE t == StrTrim(BeforeNewLine(text))
           split == CommandParser(t)
           args == split.args
           p == args[2]
           set == SetVariable(varRecord, p)
<1>1. /\ varRecord' = varRecord /\ typed' = text /\ BeforeNewLine(text) # <<>>
      /\ varRecord.type = "String" =>
            \A i \in DOMAIN text : text[i].form \in {"word", "space", "newline"}
      /\ IF SearchCommand(split) = "Ok" THEN CommandFunction(args) ELSE Answer(SearchCommand(split))
  BY DEF ReceiveLine, ExecuteCommand
<1>2. varRecord \in VarList /\ DOMAIN arguments = ArgPlaces
  BY DEF GlobalVariablesInv, GlobalVariablesTypeOK
<1>3. /\ Len(t) \in Nat \ {0} /\ DOMAIN t = 1 .. Len(t)
      /\ t[Len(t)] = Space => Len(t) = 1
      /\ \A i \in 1 .. Len(t) : t[i] # NewLine /\ \E j \in DOMAIN text : t[i] = text[j]
  <2>1. text \in Seq(Params \cup {Space, NewLine})
    BY GlobalVariablesAssumption
  <2> QED BY <1>1, <2>1, LineIsTrimmed
<1>4. \A k : WordIn(t, k) = WordOfLine(text, k)
  <2>1. text \in Seq(Params \cup {Space, NewLine})
    BY GlobalVariablesAssumption
  <2> QED BY <1>1, <2>1, LineIsTrimmed
<1>5. IsLine(t)
  BY <1>1, LineIsLine
<1> HIDE DEF t
<1>6. IsSplit(split, t) /\ Reads(split, t)
  BY <1>2, <1>3, <1>5, ParserSplits, ParserReads
<1> HIDE DEF split
<1>7. ASSUME UNCHANGED varValue, answer'.result # "Ok" PROVE ShowsWhatIsSet
  BY <1>7 DEF ShowsWhatIsSet
<1>8. CASE SearchCommand(split) # "Ok"
  <2>1. UNCHANGED varValue /\ answer'.result = SearchCommand(split)
    BY <1>1, <1>8 DEF Answer
  <2> QED BY <1>7, <1>8, <2>1
<1>9. CASE SearchCommand(split) = "Ok" /\ GetCommand(args)
  <2>1. UNCHANGED varValue /\ answer'.result \in {"NameNotFind", "Answered"}
    BY <1>9 DEF GetCommand, Answer
  <2> QED BY <1>7, <2>1
<1>10. CASE SearchCommand(split) = "Ok" /\ args[0] = SetName /\ SetCommand(args)
  <2>1. CASE args[1] # VarName
    <3>1. UNCHANGED varValue /\ answer'.result = "NameNotFind"
      BY <1>10, <2>1 DEF SetCommand, Answer
    <3> QED BY <1>7, <3>1
  <2>2. CASE args[1] = VarName /\ varRecord.isReadOnly
    <3>1. UNCHANGED varValue /\ answer'.result = "IsReadOnly"
      BY <1>10, <2>2 DEF SetCommand, Answer
    <3> QED BY <1>7, <3>1
  <2>3. CASE args[1] = VarName /\ ~varRecord.isReadOnly
    <3>1. /\ varValue' = set.value /\ answer'.result = set.result
          /\ answer'.shown = Shown(varRecord, set.value)
      BY <1>10, <2>3 DEF SetCommand
    <3>2. split.n = 3
      BY <1>10, SetTakesThree
    <3>3. args[0] = WordOfLine(text, 1) /\ args[1] = WordOfLine(text, 2) /\ p = WordOfLine(text, 3)
      <4>1. \A k \in 0 .. 2 : args[k] = WordIn(t, k + 1)
        BY <1>6, <3>2 DEF Reads
      <4>2. args[0] = WordIn(t, 0 + 1) /\ args[1] = WordIn(t, 1 + 1) /\ args[2] = WordIn(t, 2 + 1)
        BY <4>1
      <4> QED BY <1>4, <4>2
    <3>4. p \in WordsOf(t)
      BY <1>6, <3>2 DEF IsSplit
    <3>5. IsParam(varRecord, p)
      BY <1>1, <1>3, <3>4, WordsAreParams
    <3>6. IsAnswered(varRecord, p, set)
      BY <1>2, <3>5, SetAnswers
    <3>7. WordOfLine(text, 1).word.name = "set"
      BY <1>10, <3>3 DEF SetName
    <3> HIDE DEF set, p, args
    <3>8. CASE set.result = "Ok" /\ ~(varRecord.type = "String" /\ p = EmptyText)
      <4>1. /\ answer'.result = "Ok" /\ IsStored(varRecord, p, varValue')
            /\ answer'.shown = Shown(varRecord, varValue')
        BY <3>1, <3>6, <3>8 DEF IsAnswered
      <4>2. CASE varRecord.type = "Bits"
        BY <1>1, <2>3, <3>3, <3>7, <3>8, <4>1, <4>2 DEF ShowsWhatIsSet, IsStored
      <4>3. CASE varRecord.type # "Bits"
        BY <1>1, <2>3, <3>3, <3>7, <3>8, <4>1, <4>3 DEF ShowsWhatIsSet, IsStored
      <4> QED BY <4>2, <4>3
    <3>9. CASE set.result # "Ok" \/ (varRecord.type = "String" /\ p = EmptyText)
      <4>1. UNCHANGED varValue
        BY <3>1, <3>6, <3>9 DEF IsAnswered
      <4>2. answer'.result # "Ok" \/ (varRecord.type = "String" /\ WordOfLine(typed', 3) = EmptyText)
        BY <1>1, <3>1, <3>3, <3>9
      <4> QED BY <4>1, <4>2, Zenon DEF ShowsWhatIsSet
    <3> QED BY <3>8, <3>9
  <2> QED BY <2>1, <2>2, <2>3
<1> QED BY <1>1, <1>8, <1>9, <1>10 DEF CommandFunction

LEMMA GlobalVariablesKept ==
  ASSUME GlobalVariablesInv, [MainLoopNext]_mainLoopVars
  PROVE  GlobalVariablesInv'
<1>1. CASE RunGlobalVariables
  <2>1. PICK text \in Lines : ReceiveLine(text)
    BY <1>1 DEF RunGlobalVariables, GlobalVariablesNext
  <2> QED BY <2>1, LineIsKept
<1>2. CASE UNCHANGED globalVars
  <2>1. /\ varRecord' = varRecord /\ varValue' = varValue /\ typed' = typed
        /\ arguments' = arguments /\ argCount' = argCount
    BY <1>2 DEF globalVars, cmdVars
  <2> QED BY <2>1 DEF GlobalVariablesInv, GlobalVariablesTypeOK, HasType
<1>3. RunGlobalVariables \/ UNCHANGED globalVars
  BY DEF MainLoopNext, mainLoopVars, RunCircularBuffer, RunUserInterface, RunTerminal,
         RunLinkedList, RunCalendar
<1> QED BY <1>1, <1>2, <1>3
-----------------------------------------------------------------------------
(* All parts of the main loop together.                                    *)

\* A global variable holds a value of its type, a limited one within its limits,
\* a string that ends inside its array, and a command never has more arguments
\* than there are places, whatever lines are typed.
THEOREM GlobalVariablesTypeCorrect == MainLoopSpec => []GlobalVariablesTypeOK
<1>1. MainLoopInit => GlobalVariablesInv
  BY GlobalVariablesStart DEF MainLoopInit
<1>2. GlobalVariablesInv /\ [MainLoopNext]_mainLoopVars => GlobalVariablesInv'
  BY GlobalVariablesKept
<1>3. GlobalVariablesInv => GlobalVariablesTypeOK
  BY DEF GlobalVariablesInv
<1> QED BY <1>1, <1>2, <1>3, PTL DEF MainLoopSpec

\* A line that is answered with success stored what its third word says in the
\* variable its second names, and get shows it; a bit group's neighbours keep
\* their bits, and every other line leaves the value as it was, whatever the
\* types, limits and lines are.  Numbers that do not fit their conversion are
\* left out, and a string that is set to an empty third word keeps its text.
THEOREM SetShowsWhatItStored == MainLoopSpec => SetIsShown
<1>1. MainLoopInit => GlobalVariablesInv
  BY GlobalVariablesStart DEF MainLoopInit
<1>2. GlobalVariablesInv /\ [MainLoopNext]_mainLoopVars => GlobalVariablesInv'
  BY GlobalVariablesKept
<1>3. GlobalVariablesInv /\ [MainLoopNext]_mainLoopVars => [ShowsWhatIsSet]_globalVars
  <2> SUFFICES ASSUME GlobalVariablesInv, [MainLoopNext]_mainLoopVars
               PROVE  [ShowsWhatIsSet]_globalVars
    OBVIOUS
  <2>1. CASE RunGlobalVariables
    <3>1. PICK text \in Lines : ReceiveLine(text)
      BY <2>1 DEF RunGlobalVariables, GlobalVariablesNext
    <3> QED BY <3>1, LineShows
  <2>2. RunGlobalVariables \/ UNCHANGED globalVars
    BY DEF MainLoopNext, mainLoopVars, RunCircularBuffer, RunUserInterface, RunTerminal,
           RunLinkedList, RunCalendar
  <2> QED BY <2>1, <2>2
<1> QED BY <1>1, <1>2, <1>3, PTL DEF MainLoopSpec, SetIsShown

\* The counters, indices and flags of all parts stay in their ranges, in
\* particular the buffer's counters below its size, the cursor within the line,
\* until the terminal writes behind the line's array and ends, and the pointers
\* of the list within the store.
THEOREM MainLoopTypeCorrect == MainLoopSpec => []MainLoopTypeOK
<1>1. MainLoopInit => TypeOK /\ ListInv
  BY BufferInitOK, ListInitOK DEF MainLoopInit
<1>2. TypeOK /\ [MainLoopNext]_mainLoopVars => TypeOK'
  BY BufferTurn
<1>3. ListInv /\ [MainLoopNext]_mainLoopVars => ListInv'
  BY ListTurn
<1>4. MainLoopSpec => []TypeOK /\ []ListInv
  BY <1>1, <1>2, <1>3, PTL DEF MainLoopSpec
<1>5. ListInv => LinkedListTypeOK
  BY DEF ListInv
<1>6. /\ TypeOK /\ TerminalTypeOK /\ LinkedListTypeOK /\ CalendarTypeOK /\ UiTypeOK
      /\ GlobalVariablesTypeOK
      => MainLoopTypeOK
  BY DEF MainLoopTypeOK
<1> QED BY <1>4, <1>5, <1>6, TerminalTypeCorrect, CalendarTypeCorrect, UiTypeCorrect,
           GlobalVariablesTypeCorrect, PTL
=============================================================================
