----------------------------- MODULE ChainProofs ------------------------------
(***************************************************************************)
(* Totals, parts and transfers: what the proofs about the Solana programs  *)
(* need of them.  A total is the number of its units, so that what changes *)
(* it by one summand changes it by that summand.                           *)
(***************************************************************************)
EXTENDS Chain, FiniteSetTheorems, TLAPS

\* The units of one summand.
LEMMA UnitsOfOne ==
  ASSUME NEW x, NEW n \in Nat
  PROVE  IsFiniteSet({x} \X (1 .. n)) /\ Cardinality({x} \X (1 .. n)) = n
  <1>1. IsFiniteSet(1 .. n) /\ Cardinality(1 .. n) = n
    <2>1. /\ IsFiniteSet(1 .. n)
          /\ Cardinality(1 .. n) = IF 1 > n THEN 0 ELSE n - 1 + 1
      BY FS_Interval
    <2>2. QED
      BY <2>1
  <1>2. IsFiniteSet({x}) /\ Cardinality({x}) = 1
    BY FS_Singleton
  <1>3. IsFiniteSet({x} \X (1 .. n)) /\ Cardinality({x} \X (1 .. n)) = 1 * n
    <2>1. PICK S : S = {x}
      OBVIOUS
    <2>2. PICK T : T = 1 .. n
      OBVIOUS
    <2>3. IsFiniteSet(S) /\ Cardinality(S) = 1 /\ IsFiniteSet(T) /\ Cardinality(T) = n
      BY <1>1, <1>2, <2>1, <2>2
    <2>4. IsFiniteSet(S \X T) /\ Cardinality(S \X T) = 1 * n
      BY <2>3, FS_Product, Zenon
    <2>5. QED
      BY <2>1, <2>2, <2>4, Zenon
  <1>4. QED
    BY <1>3

\* A total over a finite set is a number.
LEMMA TotalType ==
  ASSUME NEW S, IsFiniteSet(S), NEW f, \A x \in S : f[x] \in Nat
  PROVE  /\ IsFiniteSet(UNION {{x} \X (1 .. f[x]) : x \in S})
         /\ Total(f, S) \in Nat
  <1> DEFINE T == {{x} \X (1 .. f[x]) : x \in S}
             g == [x \in S |-> {x} \X (1 .. f[x])]
  <1>1. g \in Surjection(S, T)
    BY DEF Surjection
  <1>2. IsFiniteSet(T)
    BY <1>1, FS_Surjection
  <1>3. ASSUME NEW t \in T PROVE IsFiniteSet(t)
    <2>1. PICK x \in S : t = {x} \X (1 .. f[x])
      OBVIOUS
    <2>2. PICK n \in Nat : n = f[x]
      OBVIOUS
    <2>3. IsFiniteSet({x} \X (1 .. n))
      BY UnitsOfOne
    <2>4. QED
      BY <2>1, <2>2, <2>3
  <1>4. IsFiniteSet(UNION T)
    BY <1>2, <1>3, FS_UNION
  <1>5. QED
    BY <1>4, FS_CardinalityType DEF Total

\* One summand more.
LEMMA TotalOneMore ==
  ASSUME NEW S, IsFiniteSet(S), NEW f, NEW e, e \notin S,
         \A x \in S : f[x] \in Nat, f[e] \in Nat
  PROVE  Total(f, S \cup {e}) = Total(f, S) + f[e]
  <1> DEFINE U == UNION {{x} \X (1 .. f[x]) : x \in S}
             new == {e} \X (1 .. f[e])
  <1>1. UNION {{x} \X (1 .. f[x]) : x \in S \cup {e}} = U \cup new
    OBVIOUS
  <1>2. U \cap new = {}
    OBVIOUS
  <1>3. IsFiniteSet(U) /\ Cardinality(U) = Total(f, S) /\ Total(f, S) \in Nat
    BY TotalType DEF Total
  <1>4. IsFiniteSet(new) /\ Cardinality(new) = f[e]
    BY UnitsOfOne
  <1> HIDE DEF U, new
  <1>5. Cardinality(U \cap new) = 0
    BY <1>2, FS_EmptySet
  <1>6. Cardinality(U \cup new) = Cardinality(U) + Cardinality(new) - Cardinality(U \cap new)
    BY <1>3, <1>4, FS_Union
  <1>7. Total(f, S \cup {e}) = Cardinality(U \cup new)
    BY <1>1 DEF Total
  <1>8. QED
    BY <1>3, <1>4, <1>5, <1>6, <1>7

\* The total of nothing.
LEMMA TotalOfNone ==
  ASSUME NEW f
  PROVE  Total(f, {}) = 0
  <1>1. UNION {{x} \X (1 .. f[x]) : x \in {}} = {}
    OBVIOUS
  <1>2. QED
    BY <1>1, FS_EmptySet DEF Total

\* The same summands.
LEMMA TotalSame ==
  ASSUME NEW S, NEW f, NEW g, \A x \in S : f[x] = g[x]
  PROVE  Total(f, S) = Total(g, S)
  <1>1. {{x} \X (1 .. f[x]) : x \in S} = {{x} \X (1 .. g[x]) : x \in S}
    OBVIOUS
  <1>2. QED
    BY <1>1 DEF Total

\* Summands that are all zero.
LEMMA TotalOfZeros ==
  ASSUME NEW S, NEW f, \A x \in S : f[x] = 0
  PROVE  Total(f, S) = 0
  <1>1. \A x \in S : 1 .. f[x] = {}
    OBVIOUS
  <1>2. UNION {{x} \X (1 .. f[x]) : x \in S} = {}
    BY <1>1
  <1>3. QED
    BY <1>2, FS_EmptySet DEF Total

\* Summands that are zero do not count.
LEMMA TotalIgnoresZeros ==
  ASSUME NEW S, NEW T, NEW f, \A x \in T : f[x] = 0
  PROVE  Total(f, S \cup T) = Total(f, S)
  <1>1. \A x \in T : {x} \X (1 .. f[x]) = {}
    OBVIOUS
  <1>2. UNION {{x} \X (1 .. f[x]) : x \in S \cup T} = UNION {{x} \X (1 .. f[x]) : x \in S}
    BY <1>1
  <1>3. QED
    BY <1>2 DEF Total

\* One summand changes.
LEMMA TotalChanges ==
  ASSUME NEW S, IsFiniteSet(S), NEW f, NEW g, NEW e \in S,
         \A x \in S : f[x] \in Nat /\ g[x] \in Nat,
         \A x \in S : x # e => g[x] = f[x]
  PROVE  Total(g, S) = Total(f, S) - f[e] + g[e]
  <1> DEFINE R == S \ {e}
  <1>1. IsFiniteSet(R) /\ S = R \cup {e} /\ e \notin R
    BY FS_Subset
  <1>2. Total(f, R) = Total(g, R)
    BY TotalSame
  <1> HIDE DEF R
  <1>3. Total(f, R) \in Nat
    BY <1>1, TotalType
  <1>4. Total(f, R \cup {e}) = Total(f, R) + f[e]
    BY <1>1, TotalOneMore
  <1>5. Total(g, R \cup {e}) = Total(g, R) + g[e]
    BY <1>1, TotalOneMore, SMTT(60)
  <1>6. QED
    BY <1>1, <1>2, <1>3, <1>4, <1>5

\* A summand is not greater than the total.
LEMMA TotalBounds ==
  ASSUME NEW S, IsFiniteSet(S), NEW f, NEW e \in S, \A x \in S : f[x] \in Nat
  PROVE  f[e] <= Total(f, S)
  <1> DEFINE R == S \ {e}
  <1>1. IsFiniteSet(R) /\ S = R \cup {e} /\ e \notin R
    BY FS_Subset
  <1> HIDE DEF R
  <1>2. Total(f, R) \in Nat
    BY <1>1, TotalType
  <1>3. Total(f, R \cup {e}) = Total(f, R) + f[e]
    BY <1>1, TotalOneMore
  <1>4. QED
    BY <1>1, <1>2, <1>3

\* A part of an amount is a number.
LEMMA PartOfType ==
  ASSUME NEW amount \in Nat, NEW part \in Nat
  PROVE  PartOf(amount, part) \in Nat
  <1>1. amount * part \in Nat /\ Whole \in Nat \ {0}
    BY ChainAssumption
  <1>2. QED
    BY <1>1, SMT DEF PartOf

\* Two parts that are not more than the whole together take no more than the amount.
LEMMA PartsFit ==
  ASSUME NEW a \in Nat, NEW p \in Nat, NEW q \in Nat, p + q <= Whole
  PROVE  PartOf(a, p) \in Nat /\ PartOf(a, q) \in Nat /\ PartOf(a, p) + PartOf(a, q) <= a
  <1>1. Whole \in Nat /\ Whole > 0
    BY ChainAssumption
  <1>2. PICK x \in Nat : x = a * p
    OBVIOUS
  <1>3. PICK y \in Nat : y = a * q
    OBVIOUS
  <1>4. x + y <= a * Whole
    <2>1. PICK s \in Nat : s = p + q
      OBVIOUS
    <2>2. PICK r \in Nat : r = Whole - s
      BY <1>1, <2>1
    <2>3. a * (p + q) = a * p + a * q
      OBVIOUS
    <2>4. a * (s + r) = a * s + a * r /\ a * r \in Nat /\ a * s \in Nat
      OBVIOUS
    <2>5. s + r = Whole
      BY <1>1, <2>1, <2>2
    <2>6. a * Whole = a * s + a * r
      BY <2>4, <2>5
    <2>7. a * s = x + y
      BY <1>2, <1>3, <2>1, <2>3
    <2>8. QED
      BY <2>4, <2>6, <2>7
  <1>5. PICK h : h = x \div Whole
    OBVIOUS
  <1>6. PICK b : b = y \div Whole
    OBVIOUS
  <1>7. h \in Nat /\ Whole * h <= x /\ b \in Nat /\ Whole * b <= y
    BY <1>1, <1>5, <1>6
  <1>8. Whole * h + Whole * b <= a * Whole
    <2>1. Whole * h \in Nat /\ Whole * b \in Nat /\ a * Whole \in Nat
      BY <1>1, <1>7
    <2>2. QED
      BY <1>4, <1>7, <2>1
  <1>9. h + b <= a
    <2>1. SUFFICES ASSUME h + b >= a + 1 PROVE FALSE
      BY <1>7
    <2>2. PICK e \in Nat : h + b = a + 1 + e
      <3>1. h + b - a - 1 \in Nat
        BY <1>7, <2>1
      <3>2. QED
        BY <1>7, <3>1
    <2>3. Whole * (h + b) = Whole * h + Whole * b
      BY <1>1, <1>7
    <2>4. Whole * (a + 1 + e) = Whole * a + Whole + Whole * e /\ Whole * e \in Nat
      BY <1>1
    <2>5. Whole * a = a * Whole /\ a * Whole \in Nat
      BY <1>1
    <2>6. Whole * h + Whole * b = a * Whole + Whole + Whole * e
      BY <2>2, <2>3, <2>4, <2>5
    <2>7. Whole * h \in Nat /\ Whole * b \in Nat
      BY <1>1, <1>7
    <2>8. QED
      BY <1>1, <1>8, <2>4, <2>5, <2>6, <2>7
  <1>10. QED
    BY <1>2, <1>3, <1>5, <1>6, <1>7, <1>9 DEF PartOf

-----------------------------------------------------------------------------
(* Tokens that move. *)

LEMMA HoldersAreFinite ==
  IsFiniteSet(Holders) /\ Users \subseteq Holders /\ Vaults \subseteq Holders
  BY ChainAssumption, FS_Union DEF Holders

\* What one mint's accounts hold after a transfer between two of them.
LEMMA MovedHolds ==
  ASSUME NEW held \in [Holders -> Nat], NEW from \in Holders, NEW to \in Holders, from # to,
         NEW amount \in Nat, held[from] >= amount
  PROVE  /\ Moved(held, from, to, amount) \in [Holders -> Nat]
         /\ Moved(held, from, to, amount)[from] = held[from] - amount
         /\ Moved(held, from, to, amount)[to] = held[to] + amount
         /\ \A h \in Holders : h # from /\ h # to => Moved(held, from, to, amount)[h] = held[h]
         /\ TotalHeld(Moved(held, from, to, amount)) = TotalHeld(held)
  <1>1. PICK new : new = Moved(held, from, to, amount)
    OBVIOUS
  <1>2. ASSUME NEW h \in Holders
        PROVE  /\ h = from => new[h] = held[h] - amount
               /\ h = to => new[h] = held[h] + amount
               /\ h # from /\ h # to => new[h] = held[h]
    <2>1. held[h] \in Nat
      OBVIOUS
    <2>2. new[h] = held[h] - (IF h = from THEN amount ELSE 0) + (IF h = to THEN amount ELSE 0)
      BY <1>1 DEF Moved
    <2>3. QED
      BY <2>1, <2>2
  <1>3. \A h \in Holders : new[h] \in Nat
    <2>1. ASSUME NEW h \in Holders PROVE new[h] \in Nat
      <3>1. held[h] \in Nat
        OBVIOUS
      <3>2. QED
        BY <1>2, <3>1
    <2>2. QED
      BY <2>1
  <1>4. new \in [Holders -> Nat]
    <2>1. new = [h \in Holders |-> new[h]]
      BY <1>1 DEF Moved
    <2>2. QED
      BY <1>3, <2>1
  <1>5. PICK mid : mid = [held EXCEPT ![from] = @ - amount]
    OBVIOUS
  <1>6. mid \in [Holders -> Nat] /\ mid[from] = held[from] - amount
        /\ \A h \in Holders : h # from => mid[h] = held[h]
    BY <1>5
  <1>7. Total(mid, Holders) = Total(held, Holders) - held[from] + mid[from]
    BY <1>6, HoldersAreFinite, TotalChanges
  <1>8. Total(new, Holders) = Total(mid, Holders) - mid[to] + new[to]
    BY <1>2, <1>3, <1>6, HoldersAreFinite, TotalChanges
  <1>9. Total(held, Holders) \in Nat /\ Total(mid, Holders) \in Nat
    BY <1>6, HoldersAreFinite, TotalType
  <1>10. mid[to] = held[to] /\ new[to] = held[to] + amount
    BY <1>2, <1>6
  <1>11. Total(new, Holders) = Total(held, Holders)
    BY <1>6, <1>7, <1>8, <1>9, <1>10
  <1>12. QED
    BY <1>1, <1>2, <1>4, <1>11 DEF TotalHeld

\* The same of a transfer that may be from an account to itself.
LEMMA MovedAny ==
  ASSUME NEW held \in [Holders -> Nat], NEW from \in Holders, NEW to \in Holders,
         NEW amount \in Nat, held[from] >= amount
  PROVE  /\ Moved(held, from, to, amount) \in [Holders -> Nat]
         /\ \A h \in Holders :
              Moved(held, from, to, amount)[h]
                = held[h] - (IF h = from THEN amount ELSE 0) + (IF h = to THEN amount ELSE 0)
         /\ TotalHeld(Moved(held, from, to, amount)) = TotalHeld(held)
  <1>1. PICK new : new = Moved(held, from, to, amount)
    OBVIOUS
  <1>2. new = [h \in Holders |->
                 held[h] - (IF h = from THEN amount ELSE 0) + (IF h = to THEN amount ELSE 0)]
    BY <1>1 DEF Moved
  <1>3. CASE from # to
    <2>1. new \in [Holders -> Nat] /\ TotalHeld(new) = TotalHeld(held)
      BY <1>1, <1>3, MovedHolds
    <2>2. QED
      BY <1>1, <1>2, <2>1
  <1>4. CASE from = to
    <2>1. \A h \in Holders : new[h] = held[h]
      BY <1>2, <1>4
    <2>2. new = held
      BY <1>2, <2>1
    <2>3. QED
      BY <1>1, <1>2, <2>2
  <1>5. QED
    BY <1>3, <1>4
=============================================================================
