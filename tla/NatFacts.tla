------------------------------- MODULE NatFacts -------------------------------
(***************************************************************************)
(* Facts that the proofs of several components cite: least elements of     *)
(* sets of natural numbers, which stand in for induction, quotients, and   *)
(* sequences that grow by an element.                                      *)
(***************************************************************************)
EXTENDS Naturals, Sequences, WellFoundedInduction, TLAPS

(* A set of natural numbers has a least element.                           *)
LEMMA LeastNat ==
  ASSUME NEW T, T \subseteq Nat, T # {}
  PROVE  \E n \in T : \A m \in T : n <= m
<1>1. PICK n \in T : \A m \in T : <<m, n>> \notin OpToRel(<, Nat)
  BY WFMin, NatLessThanWellFounded, Zenon
<1>2. n \in Nat /\ \A m \in T : m \in Nat /\ ~(m < n)
  BY <1>1 DEF OpToRel
<1> QED
  BY <1>2

(* A natural number is its quotient and its remainder, of two digits as of *)
(* one.                                                                    *)
LEMMA DivMod ==
  ASSUME NEW n \in Nat, NEW d \in Nat \ {0}
  PROVE  /\ n \div d \in Nat /\ n % d \in 0 .. (d - 1)
         /\ n = d * (n \div d) + (n % d)
OBVIOUS

(* A quotient below its divisor is its own remainder.                      *)
LEMMA SmallMod ==
  ASSUME NEW d \in Nat \ {0}, NEW n \in 0 .. (d - 1)
  PROVE  n % d = n /\ n \div d = 0
OBVIOUS

(* Quotient and remainder are determined by what they add up to.           *)
LEMMA QuotientUnique ==
  ASSUME NEW d \in Nat \ {0}, NEW n \in Nat, NEW q \in Nat, NEW r \in 0 .. (d - 1),
         n = d * q + r
  PROVE  n \div d = q /\ n % d = r
<1>1. /\ n \div d \in Nat /\ n % d \in 0 .. (d - 1)
      /\ n = d * (n \div d) + (n % d)
  BY DivMod
<1> DEFINE p == n \div d
           s == n % d
<1>2. d * p + s = d * q + r /\ p \in Nat /\ s \in 0 .. (d - 1)
  BY <1>1
<1> HIDE DEF p, s
<1>3. ~(p < q)
  <2>1. SUFFICES ASSUME p + 1 <= q PROVE FALSE
    BY <1>2
  <2>2. d * (p + 1) <= d * q
    BY <1>2, <2>1
  <2> QED
    BY <1>2, <2>2
<1>4. ~(q < p)
  <2>1. SUFFICES ASSUME q + 1 <= p PROVE FALSE
    BY <1>2
  <2>2. d * (q + 1) <= d * p
    BY <1>2, <2>1
  <2> QED
    BY <1>2, <2>2
<1>5. p = q /\ s = r
  BY <1>2, <1>3, <1>4
<1> QED
  BY <1>5 DEF p, s

(* Taking the least element off a range that may be used up.               *)
LEMMA RangeWithoutLeast ==
  ASSUME NEW lo \in Nat, NEW top \in Nat, NEW F, F = {} \/ F = lo .. top,
         NEW b, F # {} => b \in F /\ \A f \in F : b <= f
  PROVE  /\ F # {} => F = lo .. top /\ b = lo
         /\ F \ {b} = {} \/ F \ {b} = (lo + 1) .. top
<1>1. CASE F = {}
  BY <1>1
<1>2. CASE F # {}
  <2>1. F = lo .. top /\ b \in lo .. top /\ lo <= top
    BY <1>2
  <2>2. lo \in F
    BY <2>1
  <2>3. b = lo
    BY <1>2, <2>1, <2>2
  <2>4. F \ {b} = (lo + 1) .. top
    BY <2>1, <2>3
  <2> QED BY <2>1, <2>3, <2>4
<1> QED BY <1>1, <1>2

(* A sequence with one element more.                                       *)
LEMMA OneMore ==
  ASSUME NEW S, NEW s \in Seq(S), NEW e \in S, NEW n \in Nat, Len(s) = n
  PROVE  /\ Append(s, e) \in Seq(S) /\ Len(Append(s, e)) = n + 1
         /\ \A j \in 1 .. n : Append(s, e)[j] = s[j]
         /\ Append(s, e)[n + 1] = e
<1>1. Append(s, e) \in Seq(S) /\ Len(Append(s, e)) = Len(s) + 1
  OBVIOUS
<1>2. \A j \in 1 .. Len(s) : Append(s, e)[j] = s[j]
  OBVIOUS
<1>3. Append(s, e)[Len(s) + 1] = e
  OBVIOUS
<1> QED BY <1>1, <1>2, <1>3
=============================================================================
