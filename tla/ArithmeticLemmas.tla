-------------------------- MODULE ArithmeticLemmas --------------------------
(***************************************************************************)
(* What the proofs of several components need to know of numbers: least    *)
(* and greatest elements of sets of them, and division.                    *)
(***************************************************************************)
EXTENDS Integers, WellFoundedInduction, TLAPS

(***************************************************************************)
(* Least and greatest elements.                                            *)
(***************************************************************************)
\* The order of the naturals as a well-founded relation.
LEMMA NatOrder ==
  \E R : /\ IsWellFoundedOn(R, Nat)
         /\ \A x, y \in Nat : (<<y, x>> \in R) <=> (y < x)
PROOF
  <1> DEFINE R == OpToRel(<, Nat)
  <1>1. IsWellFoundedOn(R, Nat)
    BY NatLessThanWellFounded
  <1>2. \A x, y \in Nat : (<<y, x>> \in R) <=> (y < x)
    BY DEF OpToRel
  <1> HIDE DEF R
  <1>3. QED
    BY <1>1, <1>2

\* Every non-empty set of naturals has a least element.
LEMMA LeastElement ==
  ASSUME NEW T, T \subseteq Nat, T # {}
  PROVE  \E x \in T : \A y \in T : x <= y
PROOF
  <1>1. PICK R : /\ IsWellFoundedOn(R, Nat)
                 /\ \A x, y \in Nat : (<<y, x>> \in R) <=> (y < x)
    BY NatOrder
  <1>2. PICK x \in T : \A y \in T : ~ (<<y, x>> \in R)
    BY <1>1, WFMin
  <1>3. ASSUME NEW y \in T PROVE x <= y
    <2>1. x \in Nat /\ y \in Nat
      OBVIOUS
    <2>2. ~ (y < x)
      BY <1>1, <1>2, <2>1
    <2>3. QED
      BY <2>1, <2>2
  <1>4. QED
    BY <1>3


\* Every non-empty set of naturals below a bound has a greatest element.
LEMMA GreatestElement ==
  ASSUME NEW B \in Nat, NEW T, T \subseteq 0 .. B, T # {}
  PROVE  \E x \in T : \A y \in T : y <= x
PROOF
  <1> DEFINE U == {B - y : y \in T}
  <1>1. U \subseteq Nat /\ U # {}
    <2>1. \A y \in T : y \in 0 .. B /\ B - y \in Nat
      OBVIOUS
    <2>2. QED
      BY <2>1
  <1>2. PICK u \in U : \A v \in U : u <= v
    <2> HIDE DEF U
    <2> QED
      BY <1>1, LeastElement
  <1>3. PICK x \in T : u = B - x
    OBVIOUS
  <1>4. ASSUME NEW y \in T PROVE y <= x
    <2>1. B - y \in U
      OBVIOUS
    <2>2. B - x <= B - y
      BY <1>2, <1>3, <2>1
    <2>3. x \in Int /\ y \in Int
      OBVIOUS
    <2>4. QED
      BY <2>2, <2>3
  <1>5. QED
    BY <1>4

(***************************************************************************)
(* Division.                                                               *)
(***************************************************************************)
\* Quotient and remainder.
LEMMA DivMod ==
  ASSUME NEW n \in Nat, NEW d \in Nat \ {0}
  PROVE  n \div d \in Nat /\ n % d \in 0 .. d - 1 /\ n = d * (n \div d) + (n % d)
PROOF
  OBVIOUS

\* There is one quotient and one remainder.
LEMMA DivUnique ==
  ASSUME NEW n \in Nat, NEW d \in Nat \ {0}, NEW q \in Nat, NEW r \in 0 .. d - 1,
         n = d * q + r
  PROVE  n \div d = q /\ n % d = r
PROOF
  <1> DEFINE p == n \div d
             s == n % d
  <1>1. p \in Nat /\ s \in 0 .. d - 1 /\ n = d * p + s
    BY DivMod
  <1> HIDE DEF p, s
  <1>2. ASSUME NEW x \in Nat, NEW y \in Nat, x < y PROVE d * x + d <= d * y
    <2>1. y - x - 1 \in Nat /\ y = x + 1 + (y - x - 1)
      BY <1>2
    <2>2. PICK k \in Nat : y = x + 1 + k
      BY <2>1
    <2>3. d * y = d * x + d + d * k /\ d * k \in Nat /\ d * x \in Nat
      BY <2>2
    <2>4. QED
      BY <2>3
  <1>3. d * p \in Nat /\ d * q \in Nat
    BY <1>1
  <1>4. ~ (p < q) /\ ~ (q < p)
    BY <1>1, <1>2, <1>3
  <1>5. p = q
    BY <1>1, <1>4
  <1>6. s = r
    BY <1>1, <1>3, <1>5
  <1>7. QED
    BY <1>5, <1>6 DEF p, s

\* Numbers below the divisor.
LEMMA DivSmall ==
  ASSUME NEW d \in Nat \ {0}, NEW r \in 0 .. d - 1
  PROVE  r \div d = 0 /\ r % d = r
PROOF
  <1>1. r \in Nat /\ r = d * 0 + r /\ 0 \in Nat
    OBVIOUS
  <1>2. QED
    BY <1>1, DivUnique

\* Dividing by a product is dividing by one factor after the other.
LEMMA DivDiv ==
  ASSUME NEW n \in Nat, NEW d \in Nat \ {0}, NEW e \in Nat \ {0}
  PROVE  n \div (d * e) = (n \div d) \div e
PROOF
  <1> DEFINE a == n \div d
             r == n % d
             b == a \div e
             s == a % e
  <1>1. a \in Nat /\ r \in 0 .. d - 1 /\ n = d * a + r
    BY DivMod
  <1>2. b \in Nat /\ s \in 0 .. e - 1 /\ a = e * b + s
    BY <1>1, DivMod
  <1> HIDE DEF a, b, r, s
  <1>3. d * a = d * (e * b) + d * s /\ d * (e * b) = (d * e) * b
    BY <1>1, <1>2
  <1>4. d * s \in Nat /\ d * s <= d * (e - 1)
    BY <1>2
  <1>5. d * e \in Nat \ {0} /\ d * e = d * (e - 1) + d
    OBVIOUS
  <1>6. n = (d * e) * b + (d * s + r)
    BY <1>1, <1>2, <1>3, <1>4, <1>5
  <1>7. d * s + r \in 0 .. d * e - 1
    BY <1>1, <1>4, <1>5
  <1>8. n \div (d * e) = b
    BY <1>2, <1>5, <1>6, <1>7, DivUnique
  <1>9. QED
    BY <1>8 DEF b, a

\* The quotient of a number below a product.
LEMMA DivBound ==
  ASSUME NEW n \in Nat, NEW d \in Nat \ {0}, NEW e \in Nat, n < d * e
  PROVE  n \div d < e
PROOF
  <1> DEFINE a == n \div d
             r == n % d
  <1>1. a \in Nat /\ r \in 0 .. d - 1 /\ n = d * a + r
    BY DivMod
  <1> HIDE DEF a, r
  <1>2. SUFFICES ASSUME e <= a PROVE FALSE
    BY <1>1 DEF a
  <1>3. d * e <= d * a /\ d * a \in Nat /\ d * e \in Nat
    BY <1>1, <1>2
  <1>4. QED
    BY <1>1, <1>3

\* The four digits of a number with at most four digits.
LEMMA FourDigits ==
  ASSUME NEW F \in Nat \ {0}, NEW n \in Nat, n < F * F * F * F
  PROVE  /\ n % F \in 0 .. F - 1
         /\ (n \div F) % F \in 0 .. F - 1
         /\ (n \div (F * F)) % F \in 0 .. F - 1
         /\ (n \div (F * F * F)) % F \in 0 .. F - 1
         /\ n = F * (F * (F * ((n \div (F * F * F)) % F) + ((n \div (F * F)) % F))
                       + ((n \div F) % F)) + (n % F)
PROOF
  <1> DEFINE q1 == n \div F
             q2 == q1 \div F
             q3 == q2 \div F
             d1 == n % F
             d2 == q1 % F
             d3 == q2 % F
  <1>1. q1 \in Nat /\ d1 \in 0 .. F - 1 /\ n = F * q1 + d1
    BY DivMod
  <1>2. q2 \in Nat /\ d2 \in 0 .. F - 1 /\ q1 = F * q2 + d2
    BY <1>1, DivMod
  <1>3. q3 \in Nat /\ d3 \in 0 .. F - 1 /\ q2 = F * q3 + d3
    BY <1>2, DivMod
  <1>4. F * F \in Nat \ {0} /\ F * F * F \in Nat \ {0}
    OBVIOUS
  <1>5. n \div (F * F) = q2
    BY DivDiv
  <1>6. n \div (F * F * F) = q3
    <2>1. n \div ((F * F) * F) = (n \div (F * F)) \div F
      BY <1>4, DivDiv
    <2>2. QED
      BY <2>1, <1>5
  <1>7. q3 < F
    BY <1>4, <1>6, DivBound
  <1>8. q3 % F = q3
    <2> HIDE DEF q3
    <2>1. q3 \in 0 .. F - 1
      BY <1>3, <1>7
    <2>2. QED
      BY <2>1, DivSmall
  <1> HIDE DEF q1, q2, q3, d1, d2, d3
  <1>9. n = F * (F * (F * q3 + d3) + d2) + d1
    BY <1>1, <1>2, <1>3
  <1>10. QED
    BY <1>1, <1>2, <1>3, <1>5, <1>6, <1>7, <1>8, <1>9 DEF q1, q2, d1, d2, d3

\* Every leading digit occurs.
LEMMA LeadingDigit ==
  ASSUME NEW F \in Nat \ {0}, NEW i \in 0 .. F - 1
  PROVE  \E n \in 0 .. F * F * F * F - 1 : (n \div (F * F * F)) % F = i
PROOF
  <1> DEFINE G == F * F * F
  <1>1. G \in Nat \ {0} /\ F * F * F * F = F * G
    OBVIOUS
  <1> HIDE DEF G
  <1>2. i * G \in Nat /\ i * G = G * i + 0 /\ 0 \in 0 .. G - 1
    BY <1>1
  <1>3. /\ i * G <= (F - 1) * G
        /\ F * G = (F - 1) * G + G
        /\ (F - 1) * G \in Nat
    BY <1>1
  <1>4. i * G \in 0 .. F * G - 1
    BY <1>1, <1>2, <1>3
  <1>5. (i * G) \div G = i
    BY <1>1, <1>2, DivUnique
  <1>6. ((i * G) \div G) % F = i
    BY <1>5, DivSmall
  <1>7. QED
    BY <1>1, <1>4, <1>6 DEF G
=============================================================================
