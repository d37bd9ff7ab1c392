-------------------------- MODULE Position_proofs --------------------------
(***************************************************************************)
(* What a fill does to a position, for every price and quantity.           *)
(***************************************************************************)
EXTENDS Position, TLAPS

(* A flat position carries no cost.                                        *)
FlatIsFree(p) == IsFlat(p) => p.cost = 0

LEMMA ExactDivision ==
  ASSUME NEW a \in Int, NEW b \in Nat \ {0}
  PROVE  (b * a) \div b = a
  BY SMT

(* A part of a position that is carried at the price costs that price.     *)
LEMMA CostAtAverage ==
  ASSUME NEW q \in Int \ {0}, NEW price \in Int, NEW m \in Nat
  PROVE  (q * price * m) \div MagnitudeOf(q) = IF q < 0 THEN -(price * m) ELSE price * m
  <1>1. CASE q > 0
    <2>1. q * price * m = q * (price * m) BY <1>1
    <2>2. q \in Nat \ {0} /\ price * m \in Int BY <1>1
    <2> QED BY <1>1, <2>1, <2>2, ExactDivision DEF MagnitudeOf
  <1>2. CASE q < 0
    <2> DEFINE b == -q
    <2>1. q * price * m = b * (-(price * m)) BY <1>2
    <2>2. b \in Nat \ {0} /\ -(price * m) \in Int BY <1>2
    <2>3. (b * (-(price * m))) \div b = -(price * m) BY <2>2, ExactDivision
    <2> QED BY <1>2, <2>1, <2>3 DEF MagnitudeOf
  <1> QED BY <1>1, <1>2

(* The one fact about apply_fill the books need: what it adds to the       *)
(* realised PnL and to the cost is what the fill moved in cash.            *)
LEMMA FillKeepsBooks ==
  ASSUME NEW p \in Position, FlatIsFree(p),
         NEW side \in Sides, NEW qty \in Nat \ {0}, NEW price \in Int
  PROVE  LET n == ApplyFill(p, side, qty, price)
         IN  /\ n \in Position /\ FlatIsFree(n)
             /\ KeepsBooks(p, side, qty, price) =>
                  n.realised - n.cost
                    = p.realised - p.cost - Signed(side, qty) * price
  <1> DEFINE n == ApplyFill(p, side, qty, price)
             s == Signed(side, qty)
             q == p.quantity
  <1>0. /\ s \in Int /\ s # 0 /\ MagnitudeOf(s) = qty
        /\ q \in Int /\ p.cost \in Int /\ p.realised \in Int /\ p.last \in Int
        /\ p = [quantity |-> q, cost |-> p.cost, realised |-> p.realised,
                last |-> p.last]
        /\ s * price \in Int
    BY DEF Signed, Sides, Position, MagnitudeOf
  <1> HIDE DEF s
  <1>1. CASE q = 0
    <2>1. n = [quantity |-> s, cost |-> s * price, realised |-> p.realised,
               last |-> price]
      BY <1>0, <1>1 DEF ApplyFill, IsFlat, s
    <2>2. p.cost = 0 BY <1>1 DEF FlatIsFree, IsFlat
    <2> QED BY <1>0, <2>1, <2>2 DEF Position, FlatIsFree, IsFlat, s
  <1>2. CASE q # 0 /\ SameDirection(q, s)
    <2>1. n = [quantity |-> q + s, cost |-> p.cost + s * price,
               realised |-> p.realised, last |-> price]
      BY <1>0, <1>2 DEF ApplyFill, IsFlat, s
    <2>2. q + s # 0 BY <1>0, <1>2 DEF SameDirection
    <2> QED BY <1>0, <2>1, <2>2 DEF Position, FlatIsFree, IsFlat, s
  <1>3. CASE q # 0 /\ ~SameDirection(q, s) /\ ~(qty < MagnitudeOf(q))
    <2>1. Closed(q, s) = q BY <1>0, <1>3 DEF Closed
    <2>2. n = [quantity |-> q + s, cost |-> (q + s) * price,
               realised |-> p.realised + q * price - p.cost, last |-> price]
      BY <1>0, <1>3, <2>1 DEF ApplyFill, IsFlat, CostOf, s
    <2>3. (q + s) * price = q * price + s * price BY <1>0
    <2>4. q * price \in Int BY <1>0
    <2>5. q + s = 0 => (q + s) * price = 0 BY <1>0
    <2> QED BY <1>0, <2>2, <2>3, <2>4, <2>5 DEF Position, FlatIsFree, IsFlat, s
  <1>4. CASE q # 0 /\ ~SameDirection(q, s) /\ qty < MagnitudeOf(q)
    <2>1. Closed(q, s) = -s /\ -s # q /\ MagnitudeOf(-s) = qty
      BY <1>0, <1>4 DEF Closed, MagnitudeOf
    <2> DEFINE part == (p.cost * qty) \div MagnitudeOf(q)
    <2>2. MagnitudeOf(q) \in Nat \ {0} BY <1>0, <1>4 DEF MagnitudeOf
    <2>3. part \in Int BY <1>0, <2>2
    <2>4. n = [quantity |-> q + s, cost |-> (q + s) * price,
               realised |-> p.realised + (-s) * price - part, last |-> price]
      BY <1>0, <1>4, <2>1 DEF ApplyFill, IsFlat, CostOf, s
    <2>5. n \in Position /\ FlatIsFree(n)
      <3>1. (q + s) * price \in Int /\ (-s) * price \in Int BY <1>0
      <3>2. q + s # 0 BY <1>0, <2>1
      <3> QED BY <1>0, <2>3, <2>4, <3>1, <3>2 DEF Position, FlatIsFree, IsFlat
    <2>6. ASSUME p.cost = q * price
          PROVE  n.realised - n.cost = p.realised - p.cost - s * price
      <3>1. part = IF q < 0 THEN -(price * qty) ELSE price * qty
        BY <1>0, <1>4, <2>6, CostAtAverage
      <3>2. s = IF q < 0 THEN qty ELSE -qty
        BY <1>0, <1>4 DEF SameDirection, MagnitudeOf
      <3>3. part = -(s * price) BY <1>0, <3>1, <3>2
      <3>4. (q + s) * price = q * price + s * price /\ (-s) * price = -(s * price)
        BY <1>0
      <3> HIDE DEF part
      <3> QED BY <1>0, <2>4, <2>6, <3>3, <3>4
    <2>7. KeepsBooks(p, side, qty, price) => p.cost = q * price
      BY <1>4 DEF KeepsBooks, Reduces, IsFlat, s
    <2> QED BY <2>5, <2>6, <2>7 DEF s
  <1> QED BY <1>1, <1>2, <1>3, <1>4

(* A fill of any size leaves a position.                                   *)
LEMMA FillType ==
  ASSUME NEW p \in Position, NEW side \in Sides, NEW qty \in Int, NEW price \in Int
  PROVE  ApplyFill(p, side, qty, price) \in Position
  <1> DEFINE s == Signed(side, qty)
             q == p.quantity
             c == Closed(q, s)
  <1>1. /\ s \in Int /\ q \in Int /\ p.cost \in Int /\ p.realised \in Int
        /\ p = [quantity |-> q, cost |-> p.cost, realised |-> p.realised,
                last |-> p.last]
    BY DEF Signed, Position
  <1>2. c \in Int BY <1>1 DEF Closed
  <1>3. MagnitudeOf(c) \in Nat /\ (q # 0 => MagnitudeOf(q) \in Nat \ {0})
    BY <1>1, <1>2 DEF MagnitudeOf
  <1>4. q # 0 => CostOf(p, c) \in Int
    <2> DEFINE m == MagnitudeOf(q)  x == p.cost * MagnitudeOf(c)
    <2>1. x \in Int BY <1>1, <1>3
    <2>2. ASSUME q # 0 PROVE x \div m \in Int
      <3> HIDE DEF x
      <3> QED BY <1>3, <2>1, <2>2
    <2> QED BY <1>1, <2>2 DEF CostOf
  <1>5. s * price \in Int /\ c * price \in Int /\ (q + s) * price \in Int
    BY <1>1, <1>2
  <1>6. CASE q = 0
    <2>1. ApplyFill(p, side, qty, price) =
            [quantity |-> s, cost |-> s * price, realised |-> p.realised, last |-> price]
      BY <1>1, <1>6 DEF ApplyFill, IsFlat
    <2> HIDE DEF s
    <2> QED BY <1>1, <1>5, <2>1 DEF Position
  <1>7. CASE q # 0 /\ SameDirection(q, s)
    <2>1. ApplyFill(p, side, qty, price) =
            [quantity |-> q + s, cost |-> p.cost + s * price,
             realised |-> p.realised, last |-> price]
      BY <1>1, <1>7 DEF ApplyFill, IsFlat
    <2> HIDE DEF s
    <2> QED BY <1>1, <1>5, <2>1 DEF Position
  <1>8. CASE q # 0 /\ ~SameDirection(q, s)
    <2>1. ApplyFill(p, side, qty, price) =
            [quantity |-> q + s, cost |-> (q + s) * price,
             realised |-> p.realised + c * price - CostOf(p, c), last |-> price]
      BY <1>1, <1>8 DEF ApplyFill, IsFlat
    <2> HIDE DEF s, c
    <2> QED BY <1>1, <1>4, <1>5, <1>8, <2>1 DEF Position
  <1> QED BY <1>6, <1>7, <1>8
=============================================================================
