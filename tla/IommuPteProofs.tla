--------------------------- MODULE IommuPteProofs ---------------------------
(***************************************************************************)
(* Proofs about IommuPte: the words of the page tables round-trip for all  *)
(* widths.  The argument is arithmetic: powers of two that divide one      *)
(* another, fields that do not overlap, a chunk that stays within one      *)
(* word's range of addresses, and the wrap of DRAM above the range.        *)
(***************************************************************************)
EXTENDS IommuPte, FiniteSetTheorems, WellFoundedInduction, TLAPS

-----------------------------------------------------------------------------
(* Powers of two.                                                          *)

\* Powers of two, through the number of subsets of an interval.
LEMMA PowTyped == \A n \in Nat : 2^n \in Nat /\ Cardinality(SUBSET (1 .. n)) = 2^n /\ IsFiniteSet(SUBSET (1 .. n))
  <1> SUFFICES ASSUME NEW n \in Nat
               PROVE  2^n \in Nat /\ Cardinality(SUBSET (1 .. n)) = 2^n /\ IsFiniteSet(SUBSET (1 .. n))
    OBVIOUS
  <1>1. 1 \in Int /\ n \in Int
    OBVIOUS
  <1>2. IsFiniteSet(1 .. n)
    BY <1>1, FS_Interval
  <1>3. Cardinality(1 .. n) = n
    <2>1. Cardinality(1 .. n) = IF 1 > n THEN 0 ELSE n - 1 + 1
      BY <1>1, FS_Interval
    <2>2. QED
      BY <2>1
  <1>4. Cardinality(SUBSET (1 .. n)) = 2^Cardinality(1 .. n) /\ IsFiniteSet(SUBSET (1 .. n))
    BY <1>2, FS_SUBSET
  <1>5. QED
    BY <1>3, <1>4, FS_CardinalityType

LEMMA PowNext == \A n \in Nat : 2^(n + 1) = 2 * 2^n
  <1> SUFFICES ASSUME NEW n \in Nat PROVE 2^(n + 1) = 2 * 2^n
    OBVIOUS
  <1> DEFINE A == SUBSET (1 .. n)
             B == {s \cup {n + 1} : s \in A}
             f == [s \in A |-> s \cup {n + 1}]
  <1>1. SUBSET (1 .. n + 1) = A \cup B
    <2>1. 1 .. n + 1 = (1 .. n) \cup {n + 1}
      OBVIOUS
    <2>2. ASSUME NEW s \in SUBSET (1 .. n + 1) PROVE s \in A \cup B
      <3>1. CASE n + 1 \in s
        <4>1. s \ {n + 1} \in A /\ s = (s \ {n + 1}) \cup {n + 1}
          BY <2>1, <3>1
        <4>2. QED
          BY <4>1
      <3>2. CASE n + 1 \notin s
        BY <2>1, <3>2
      <3>3. QED
        BY <3>1, <3>2
    <2>3. A \cup B \subseteq SUBSET (1 .. n + 1)
      BY <2>1
    <2>4. QED
      BY <2>2, <2>3
  <1>2. n + 1 \notin 1 .. n
    OBVIOUS
  <1>3. A \cap B = {}
    BY <1>2
  <1>4. f \in Bijection(A, B)
    <2>1. f \in [A -> B]
      OBVIOUS
    <2>2. \A b \in B : \E s \in A : f[s] = b
      OBVIOUS
    <2>3. ASSUME NEW s \in A, NEW u \in A, f[s] = f[u] PROVE s = u
      <3>1. s \cup {n + 1} = u \cup {n + 1}
        BY <2>3
      <3>2. n + 1 \notin s /\ n + 1 \notin u
        BY <1>2
      <3>3. QED
        BY <3>1, <3>2
    <2> HIDE DEF f, A, B
    <2>4. f \in Injection(A, B)
      BY <2>1, <2>3 DEF Injection, IsInjective
    <2>5. f \in Surjection(A, B)
      BY <2>1, <2>2 DEF Surjection
    <2>6. QED
      BY <2>4, <2>5 DEF Bijection
  <1>5. Cardinality(A) = 2^n /\ IsFiniteSet(A) /\ Cardinality(SUBSET (1 .. n + 1)) = 2^(n + 1) /\ 2^n \in Nat
    <2>1. n + 1 \in Nat
      OBVIOUS
    <2>2. QED
      BY <2>1, PowTyped
  <1> HIDE DEF f, A, B
  <1>6. IsFiniteSet(B) /\ Cardinality(B) = Cardinality(A)
    <2>1. ExistsBijection(A, B)
      BY <1>4 DEF ExistsBijection
    <2>2. QED
      BY <1>5, <2>1, FS_Bijection
  <1>7. Cardinality(A \cup B) = Cardinality(A) + Cardinality(B) - Cardinality(A \cap B)
    BY <1>5, <1>6, FS_Union
  <1>8. Cardinality(A \cap B) = 0
    BY <1>3, FS_EmptySet
  <1>9. Cardinality(A \cup B) = 2^(n + 1)
    BY <1>1, <1>5
  <1>10. \A x \in Nat : \A y : y = x + x - 0 => y = 2 * x
    OBVIOUS
  <1>11. 2^(n + 1) = 2^n + 2^n - 0
    BY <1>5, <1>6, <1>7, <1>8, <1>9, Zenon
  <1>12. QED
    BY <1>5, <1>10, <1>11

LEMMA PowAdd == \A a, b \in Nat : 2^(a + b) = 2^a * 2^b
  <1> SUFFICES ASSUME NEW a \in Nat PROVE \A b \in Nat : 2^(a + b) = 2^a * 2^b
    OBVIOUS
  <1> DEFINE T == {b \in Nat : 2^(a + b) # 2^a * 2^b}
  <1>1. SUFFICES ASSUME T # {} PROVE FALSE
    OBVIOUS
  <1>2. PICK m \in T : \A k \in T : ~(<<k, m>> \in OpToRel(<, Nat))
    BY <1>1, WFMin, NatLessThanWellFounded
  <1>3. m \in Nat /\ 2^(a + m) # 2^a * 2^m
    BY <1>2
  <1>4. m # 0
    <2>1. 2^0 = 1 /\ a + 0 = a
      OBVIOUS
    <2>2. 2^a \in Nat
      BY PowTyped
    <2>3. \A x \in Nat : x * 1 = x
      OBVIOUS
    <2>4. 2^(a + 0) = 2^a * 2^0
      BY <2>1, <2>2, <2>3, Zenon
    <2>5. QED
      BY <1>3, <2>4
  <1> DEFINE k == m - 1
  <1>5. k \in Nat /\ m = k + 1 /\ a + m = (a + k) + 1 /\ a + k \in Nat
    BY <1>3, <1>4
  <1>6. k \notin T
    <2>1. <<k, m>> \in OpToRel(<, Nat)
      BY <1>3, <1>5 DEF OpToRel
    <2>2. QED
      BY <1>2, <2>1
  <1>7. 2^(a + k) = 2^a * 2^k
    BY <1>5, <1>6
  <1> HIDE DEF k, T
  <1>8. 2^(a + m) = 2 * 2^(a + k) /\ 2^m = 2 * 2^k
    BY <1>5, PowNext
  <1>9. 2^a \in Nat /\ 2^k \in Nat
    BY <1>5, PowTyped
  <1>10. \A x, y \in Nat : 2 * (x * y) = x * (2 * y)
    OBVIOUS
  <1>11. QED
    BY <1>3, <1>7, <1>8, <1>9, <1>10

-----------------------------------------------------------------------------
(* Quotients, remainders and products.                                     *)

LEMMA DivMod ==
    ASSUME NEW n \in Nat, n > 0, NEW q \in Int, NEW r \in Nat, r < n, NEW p \in Int, p = q * n + r
    PROVE  p \div n = q /\ p % n = r
  OBVIOUS

LEMMA Split ==
    ASSUME NEW n \in Nat, n > 0, NEW p \in Nat
    PROVE  \E q \in Nat, r \in Nat : r < n /\ p = q * n + r /\ p \div n = q /\ p % n = r
  <1>1. \E q, r \in Int : p = q * n + r /\ q = p \div n /\ r = p % n
    OBVIOUS
  <1>2. p % n >= 0 /\ p % n < n /\ p \div n \in Int
    OBVIOUS
  <1>3. p \div n >= 0
    OBVIOUS
  <1>4. QED
    BY <1>1, <1>2, <1>3

LEMMA MulMono == \A x, y, z \in Nat : x <= y => x * z <= y * z
  OBVIOUS

LEMMA MulLess == \A x, y, z \in Nat : x * z < y * z => x + 1 <= y
  <1> SUFFICES ASSUME NEW x \in Nat, NEW y \in Nat, NEW z \in Nat, x * z < y * z, y <= x PROVE FALSE
    OBVIOUS
  <1>1. y * z <= x * z
    BY MulMono
  <1>2. QED
    BY <1>1

LEMMA MulTyped == \A x, y \in Nat : x * y \in Nat
  OBVIOUS

\* A multiple of d below a multiple of d leaves room for d.
LEMMA Room == \A x, y, d, r \in Nat : x * d < y * d /\ r < d => x * d + r < y * d
  <1> SUFFICES ASSUME NEW x \in Nat, NEW y \in Nat, NEW d \in Nat, NEW r \in Nat, x * d < y * d, r < d
               PROVE x * d + r < y * d
    OBVIOUS
  <1>1. x + 1 <= y
    BY MulLess
  <1>2. (x + 1) * d <= y * d
    BY <1>1, MulMono
  <1>3. (x + 1) * d = x * d + d
    OBVIOUS
  <1>4. QED
    BY <1>2, <1>3, MulTyped

\* A page number above the high bits above the flags: every field reads back.
Fields(HS, HB, k, S, j, h, f, e) ==
    S = (HS * HB) * k /\ k > 0 /\ h < HB /\ f < HS /\ e = j * S + (h * HS + f)

ReadBack(HS, HB, S, j, h, f, e) ==
    /\ h * HS + f < S /\ e - (e % S) = j * S /\ (e \div HS) % HB = h /\ e % HS = f

LEMMA FieldsRead ==
    \A HS, HB, k, S, j, h, f, e \in Nat :
      Fields(HS, HB, k, S, j, h, f, e) => ReadBack(HS, HB, S, j, h, f, e)
  <1> TAKE HS, HB, k, S, j, h, f, e \in Nat
  <1>00. HAVE Fields(HS, HB, k, S, j, h, f, e)
  <1>0. S = (HS * HB) * k /\ k > 0 /\ h < HB /\ f < HS /\ e = j * S + (h * HS + f)
    BY <1>00 DEF Fields
  <1>1. h * HS + f < HB * HS
    <2>1. (h + 1) * HS <= HB * HS
      BY <1>0, MulMono
    <2>2. (h + 1) * HS = h * HS + HS
      OBVIOUS
    <2>3. h * HS \in Nat /\ HB * HS \in Nat
      BY MulTyped
    <2>4. QED
      BY <1>0, <2>1, <2>2, <2>3
  <1>2. HB * HS <= S
    <2>1. 1 * (HS * HB) <= k * (HS * HB)
      BY <1>0, MulMono, MulTyped
    <2>2. QED
      BY <1>0, <2>1
  <1>3. h * HS + f \in Nat /\ HB * HS \in Nat
    BY MulTyped
  <1>4. h * HS + f < S /\ S > 0
    BY <1>1, <1>2, <1>3
  <1>5. e % S = h * HS + f /\ e - (e % S) = j * S
    <2> DEFINE g == h * HS + f
    <2>1. g \in Nat /\ g < S /\ e = j * S + g /\ S > 0
      BY <1>0, <1>3, <1>4
    <2> HIDE DEF g
    <2>2. e % S = g
      BY <2>1, DivMod
    <2>3. e - g = j * S
      BY <2>1, MulTyped
    <2>4. QED
      BY <2>2, <2>3 DEF g
  <1> DEFINE u == (j * k) * HB + h
  <1>6. e = u * HS + f
    BY <1>0
  <1>7. u \in Nat /\ (j * k) \in Nat
    BY MulTyped
  <1> HIDE DEF u
  <1>8. e \div HS = u /\ e % HS = f
    BY <1>0, <1>6, <1>7, DivMod
  <1>9. u % HB = h
    BY <1>0, <1>7, DivMod DEF u
  <1>10. QED
    BY <1>4, <1>5, <1>8, <1>9 DEF ReadBack

\* A chunk of c pages that starts at a multiple of its size stays in one word's
\* range of addresses.
InChunk(c, S, D, w, W, r) == D = c * S /\ W = w * D /\ W > 0 /\ r < c

OneWord(S, D, W, m, r) ==
    /\ (m * D + r * S) \div W = (m * D) \div W
    /\ (m * D + r * S) % W = ((m * D) % W) + r * S
    /\ \E j \in Nat : ((m * D) % W) + r * S = j * S

LEMMA WithinWord ==
    \A c, S, D, w, W, m, r \in Nat : InChunk(c, S, D, w, W, r) => OneWord(S, D, W, m, r)
  <1> TAKE c, S, D, w, W, m, r \in Nat
  <1>00. HAVE InChunk(c, S, D, w, W, r)
  <1>0. D = c * S /\ W = w * D /\ W > 0 /\ r < c
    BY <1>00 DEF InChunk
  <1>1. m * D \in Nat /\ r * S \in Nat
    BY MulTyped
  <1>2. PICK q \in Nat, z \in Nat : z < W /\ m * D = q * W + z /\ (m * D) \div W = q /\ (m * D) % W = z
    BY <1>0, <1>1, Split
  <1>3. PICK y \in Nat : z = y * D
    <2>1. m * D - q * (w * D) = z /\ q * w \in Nat /\ q * (w * D) = (q * w) * D
      BY <1>0, <1>1, <1>2, MulTyped
    <2>2. (q * w) * D <= m * D /\ (q * w) * D \in Nat
      BY <1>1, <1>2, <2>1, MulTyped
    <2>3. z = (m - q * w) * D
      BY <2>1
    <2>4. m - q * w >= 0 \/ z = 0
      <3>1. CASE m < q * w
        <4>1. m * D <= (q * w) * D
          BY <2>1, <3>1, MulMono
        <4>2. QED
          BY <1>1, <2>1, <2>2, <4>1
      <3>2. QED
        BY <2>1, <3>1
    <2>5. CASE z = 0
      <3>1. z = 0 * D
        BY <2>5
      <3>2. QED
        BY <3>1
    <2>6. CASE m - q * w >= 0
      <3>1. m - q * w \in Nat
        BY <2>1, <2>6
      <3>2. QED
        BY <2>3, <3>1
    <2>7. QED
      BY <2>4, <2>5, <2>6
  <1>4. r * S < D
    <2>1. (r + 1) * S <= c * S
      BY <1>0, MulMono
    <2>2. (r + 1) * S = r * S + S
      OBVIOUS
    <2>3. S > 0
      <3>1. CASE S = 0
        <4>1. D = 0
          BY <1>0, <3>1
        <4>2. W = 0
          BY <1>0, <4>1
        <4>3. QED
          BY <1>0, <4>2
      <3>2. QED
        BY <3>1
    <2>4. QED
      BY <1>0, <1>1, <2>1, <2>2, <2>3
  <1>5. z + r * S < W
    <2>1. y * D < w * D
      BY <1>0, <1>2, <1>3
    <2>2. y * D + r * S < w * D
      BY <1>1, <1>4, <2>1, Room
    <2>3. QED
      BY <1>0, <1>3, <2>2
  <1>6. (m * D + r * S) \div W = q /\ (m * D + r * S) % W = z + r * S
    <2> DEFINE x == m * D + r * S
               g == z + r * S
    <2>1. x \in Nat /\ g \in Nat /\ g < W /\ x = q * W + g
      <3>1. q * W \in Nat
        BY MulTyped
      <3>2. QED
        BY <1>1, <1>2, <1>5, <3>1
    <2> HIDE DEF x, g
    <2>2. x \div W = q /\ x % W = g
      BY <1>0, <2>1, DivMod
    <2>3. QED
      BY <2>2 DEF x, g
  <1>7. \E j \in Nat : z + r * S = j * S
    <2>1. y * D = y * (c * S) /\ y * (c * S) = (y * c) * S
      BY <1>0
    <2>2. z + r * S = (y * c + r) * S
      BY <1>3, <2>1
    <2>3. y * c + r \in Nat
      BY MulTyped
    <2>4. QED
      BY <2>2, <2>3
  <1>8. QED
    BY <1>2, <1>6, <1>7 DEF OneWord

\* The address modulo the range leads back, above the offset.
Wraps(O, V, W, HB, P, x) ==
    V = HB * W /\ W > 0 /\ HB > 0 /\ O <= P /\ P < O + V /\ O <= V /\ (x = P \/ x + V = P)

Unwrapped(u, O, V) == IF u < O THEN u + V ELSE u

LEMMA WrapReads ==
    \A O, V, W, HB, P, x \in Nat :
      Wraps(O, V, W, HB, P, x) => P = Unwrapped((x % W) + ((x \div W) % HB) * W, O, V)
  <1> TAKE O, V, W, HB, P, x \in Nat
  <1>00. HAVE Wraps(O, V, W, HB, P, x)
  <1>0. V = HB * W /\ W > 0 /\ HB > 0 /\ O <= P /\ P < O + V /\ O <= V /\ (x = P \/ x + V = P)
    BY <1>00 DEF Wraps
  <1>1. PICK q \in Nat, z \in Nat : z < W /\ x = q * W + z /\ x \div W = q /\ x % W = z
    BY <1>0, Split
  <1>2. PICK p \in Nat, h \in Nat : h < HB /\ q = p * HB + h /\ q \div HB = p /\ q % HB = h
    BY <1>0, Split
  <1> DEFINE u == h * W + z
  <1>3. u \in Nat /\ u < V
    <2>1. (h + 1) * W <= HB * W
      BY <1>2, MulMono
    <2>2. (h + 1) * W = h * W + W
      OBVIOUS
    <2>3. h * W \in Nat
      BY MulTyped
    <2>4. QED
      BY <1>0, <1>1, <2>1, <2>2, <2>3
  <1>4. x = p * V + u
    <2>1. q * W = (p * HB + h) * W /\ (p * HB + h) * W = p * (HB * W) + h * W
      BY <1>2
    <2>2. QED
      BY <1>0, <1>1, <2>1
  <1>5. (x % W) + ((x \div W) % HB) * W = u
    <2>1. h * W \in Nat
      BY MulTyped
    <2>2. z + h * W = u
      BY <2>1
    <2>3. QED
      BY <1>1, <1>2, <2>2
  <1> HIDE DEF u
  <1>6. p = 0 \/ p = 1
    <2>1. CASE p >= 2
      <3>1. 2 * V <= p * V
        BY <2>1, MulMono
      <3>2. p * V \in Nat
        BY MulTyped
      <3>3. QED
        BY <1>0, <1>3, <1>4, <3>1, <3>2
    <2>2. QED
      BY <2>1
  <1>7. P = IF u < O THEN u + V ELSE u
    <2>1. CASE p = 0
      <3>1. x = u
        BY <1>3, <1>4, <2>1
      <3>2. QED
        BY <1>0, <1>3, <3>1
    <2>2. CASE p = 1
      <3>1. x = V + u
        BY <1>3, <1>4, <2>2
      <3>2. QED
        BY <1>0, <1>3, <3>1
    <2>3. QED
      BY <1>6, <2>1, <2>2
  <1>8. QED
    BY <1>5, <1>7 DEF Unwrapped

-----------------------------------------------------------------------------
(* The widths.                                                             *)

\* Every width is a power of two, and the smaller ones divide the larger ones.
Divides(d, n) == \E k \in Nat \ {0} : n = k * d

LEMMA PowPositive == \A n \in Nat : 2^n \in Nat \ {0}
  <1> SUFFICES ASSUME NEW n \in Nat PROVE 2^n \in Nat \ {0}
    OBVIOUS
  <1>1. 2^n \in Nat /\ Cardinality(SUBSET (1 .. n)) = 2^n /\ IsFiniteSet(SUBSET (1 .. n))
    BY PowTyped
  <1>2. SUBSET (1 .. n) # {}
    OBVIOUS
  <1>3. Cardinality(SUBSET (1 .. n)) # 0
    BY <1>1, <1>2, FS_EmptySet
  <1>4. QED
    BY <1>1, <1>3

LEMMA PowDivides == \A a, b \in Nat : a <= b => Divides(2^a, 2^b)
  <1> SUFFICES ASSUME NEW a \in Nat, NEW b \in Nat, a <= b PROVE Divides(2^a, 2^b)
    OBVIOUS
  <1> DEFINE c == b - a
  <1>1. c \in Nat /\ b = c + a
    OBVIOUS
  <1> HIDE DEF c
  <1>2. 2^b = 2^c * 2^a /\ 2^c \in Nat \ {0}
    BY <1>1, PowAdd, PowPositive
  <1>3. QED
    BY <1>2 DEF Divides

\* The widths of one format.
LEMMA Widths ==
    ASSUME format \in Formats
    PROVE  /\ {PhysOffset, Word, SPAGE_SIZE, 2^HighShift, 2^HighBits, 2^VaBits, 2^TabShift} \subseteq Nat \ {0}
           /\ Word = 4 * PhysOffset
           /\ 2^VaBits = 2^HighBits * Word
           /\ Divides(SPAGE_SIZE, PhysOffset) /\ Divides(SPAGE_SIZE, Word)
           /\ Divides(2^HighShift * 2^HighBits, SPAGE_SIZE)
           /\ Divides(16, 2^HighShift)
           /\ Divides(4, 2^TabShift) /\ Divides(2^TabShift, Word)
           /\ SPAGE_SIZE = 2^(PtShift - TabShift) * 2^TabShift /\ 2^(PtShift - TabShift) \in Nat \ {0}
           /\ 2^HighBits = 1 \/ Divides(2^HighShift * 2^HighBits, 2^TabShift)
  <1> DEFINE hb == format.high
             tb == format.tab
  <1>1. /\ WordBits \in Nat /\ PtShift \in Nat /\ HighShift \in Nat /\ 4 <= HighShift /\ PtShift + 2 < WordBits
        /\ hb \in Nat /\ HighShift + hb <= PtShift /\ tb \in 2 .. PtShift /\ (hb = 0 \/ tb >= HighShift + hb)
    BY WidthAssumption
  <1> HIDE DEF hb, tb
  <1> DEFINE o == WordBits - 2
             d == PtShift - tb
             g == HighShift + hb
  <1>2. /\ o \in Nat /\ WordBits = 2 + o /\ PtShift <= o /\ PtShift <= WordBits /\ d \in Nat /\ PtShift = d + tb
        /\ g \in Nat /\ g <= PtShift /\ tb \in Nat /\ 2 <= tb /\ tb <= WordBits /\ (hb = 0 \/ g <= tb)
        /\ hb + WordBits \in Nat /\ WordBits + hb = hb + WordBits
    BY <1>1
  <1>3. HighBits = hb /\ TabShift = tb /\ VaBits = hb + WordBits /\ PhysOffset = 2^o /\ Word = 2^WordBits /\ SPAGE_SIZE = 2^PtShift
    BY <1>2 DEF HighBits, TabShift, VaBits, PhysOffset, Word, SPAGE_SIZE, hb, tb
  <1> HIDE DEF o, d, g
  <1>4. {2^o, 2^WordBits, 2^PtShift, 2^HighShift, 2^hb, 2^(hb + WordBits), 2^tb, 2^d} \subseteq Nat \ {0}
    BY <1>1, <1>2, PowPositive
  <1>5. 2^2 = 4 /\ 2^0 = 1
    OBVIOUS
  <1>6. 2^4 = 16
    OBVIOUS
  <1>7. 2^WordBits = 2^2 * 2^o /\ 2^(hb + WordBits) = 2^hb * 2^WordBits /\ 2^PtShift = 2^d * 2^tb
    BY <1>1, <1>2, PowAdd
  <1>8. 2^g = 2^HighShift * 2^hb
    BY <1>1, PowAdd DEF g
  <1>9. /\ Divides(2^PtShift, 2^o) /\ Divides(2^PtShift, 2^WordBits) /\ Divides(2^g, 2^PtShift)
        /\ Divides(2^tb, 2^WordBits) /\ (hb = 0 \/ Divides(2^g, 2^tb))
    BY <1>1, <1>2, PowDivides
  <1>10. Divides(2^4, 2^HighShift) /\ Divides(2^2, 2^tb)
    BY <1>1, <1>2, PowDivides
  <1>11. 2^hb = 1 \/ Divides(2^g, 2^tb)
    BY <1>5, <1>9
  <1>12. PtShift - tb = d
    BY DEF d
  <1>13. {PhysOffset, Word, SPAGE_SIZE, 2^HighShift, 2^HighBits, 2^VaBits, 2^TabShift} \subseteq Nat \ {0}
    BY <1>3, <1>4
  <1>14. Word = 4 * PhysOffset /\ 2^VaBits = 2^HighBits * Word
    BY <1>3, <1>5, <1>7, Zenon
  <1>15. Divides(SPAGE_SIZE, PhysOffset) /\ Divides(SPAGE_SIZE, Word) /\ Divides(2^HighShift * 2^HighBits, SPAGE_SIZE)
    BY <1>3, <1>8, <1>9, Zenon
  <1>16. Divides(16, 2^HighShift) /\ Divides(4, 2^TabShift) /\ Divides(2^TabShift, Word)
    BY <1>3, <1>5, <1>6, <1>9, <1>10, Zenon
  <1>17. SPAGE_SIZE = 2^(PtShift - TabShift) * 2^TabShift /\ 2^(PtShift - TabShift) \in Nat \ {0}
    <2>1. 2^d \in Nat \ {0} /\ 2^PtShift = 2^d * 2^tb
      BY <1>4, <1>7
    <2>2. QED
      BY <1>3, <1>12, <2>1, Zenon
  <1>18. 2^HighBits = 1 \/ Divides(2^HighShift * 2^HighBits, 2^TabShift)
    BY <1>3, <1>8, <1>11, Zenon
  <1>19. QED
    BY <1>13, <1>14, <1>15, <1>16, <1>17, <1>18

-----------------------------------------------------------------------------
(* Chunks and entries.                                                     *)

\* The chunks of prepare_l2_tables divide the block.
LEMMA Chunks ==
    ASSUME NEW n \in PgSizes, NEW first \in 0 .. NPte - 1, first % n = 0, NEW i \in 0 .. n - 1
    PROVE  \E c \in Nat, k \in Nat, g \in Nat, r \in Nat :
             n = k * c /\ ChunkStart(first, i) = g * c /\ i = g * c + r /\ r < c
  <1>1. NPte \in Nat /\ NPte > 0 /\ n \in Nat /\ n > 0 /\ (NPte % n = 0 \/ n % NPte = 0)
    BY WidthAssumption
  <1>2. first \in Nat /\ first < NPte /\ i \in Nat /\ i < n
    BY <1>1
  <1>3. PICK u \in Nat : first = u * n
    <2>1. PICK q \in Nat, r \in Nat : r < n /\ first = q * n + r /\ first \div n = q /\ first % n = r
      BY <1>1, <1>2, Split
    <2>2. r = 0 /\ q * n \in Nat
      BY <2>1, <1>1, MulTyped
    <2>3. first = q * n
      BY <2>1, <2>2
    <2>4. QED
      BY <2>3
  <1>4. CASE NPte % n = 0
    <2>1. PICK w \in Nat : NPte = w * n
      <3>1. PICK q \in Nat, r \in Nat : r < n /\ NPte = q * n + r /\ NPte \div n = q /\ NPte % n = r
        BY <1>1, Split
      <3>2. r = 0 /\ q * n \in Nat
        BY <1>1, <1>4, <3>1, MulTyped
      <3>3. NPte = q * n
        BY <3>1, <3>2
      <3>4. QED
        BY <3>3
    <2>2. u * n + i < w * n
      <3>1. u * n < w * n
        BY <1>2, <1>3, <2>1
      <3>2. QED
        BY <1>1, <1>2, <3>1, Room
    <2>3. i < NPte - first
      BY <1>1, <1>2, <1>3, <2>1, <2>2
    <2>4. ChunkStart(first, i) = 0
      BY <2>3 DEF ChunkStart
    <2>5. n = 1 * n /\ 0 = 0 * n /\ i = 0 * n + i
      BY <1>1, <1>2
    <2>6. QED
      BY <1>1, <1>2, <2>4, <2>5
  <1>5. CASE n % NPte = 0
    <2>1. PICK k \in Nat : n = k * NPte
      <3>1. PICK q \in Nat, r \in Nat : r < NPte /\ n = q * NPte + r /\ n \div NPte = q /\ n % NPte = r
        BY <1>1, Split
      <3>2. r = 0 /\ q * NPte \in Nat
        BY <1>1, <1>5, <3>1, MulTyped
      <3>3. n = q * NPte
        BY <3>1, <3>2
      <3>4. QED
        BY <3>3
    <2>2. first = 0
      <3>1. k # 0
        BY <1>1, <2>1
      <3>2. 1 * NPte <= k * NPte
        BY <1>1, <3>1, MulMono
      <3>3. NPte <= n
        BY <1>1, <2>1, <3>2
      <3>4. CASE u = 0
        BY <1>1, <1>3, <3>4
      <3>5. CASE u # 0
        <4>1. 1 * n <= u * n
          BY <1>1, <3>5, MulMono
        <4>2. QED
          BY <1>1, <1>2, <1>3, <3>3, <4>1
      <3>6. QED
        BY <3>4, <3>5
    <2>3. CASE i < NPte
      <3>1. ChunkStart(first, i) = 0
        BY <1>1, <2>2, <2>3 DEF ChunkStart
      <3>2. 0 = 0 * NPte /\ i = 0 * NPte + i
        BY <1>1, <1>2
      <3>3. QED
        BY <1>1, <1>2, <2>1, <2>3, <3>1, <3>2
    <2>4. CASE ~(i < NPte)
      <3> DEFINE j == i - NPte
      <3>1. j \in Nat /\ i = NPte + j
        BY <1>1, <1>2, <2>4
      <3>2. NPte - first = NPte /\ ~(i < NPte - first)
        BY <1>1, <2>2, <2>4
      <3>3. ChunkStart(first, i) = NPte + (j \div NPte) * NPte
        BY <3>2 DEF ChunkStart
      <3> HIDE DEF j
      <3>4. PICK q \in Nat, r \in Nat : r < NPte /\ j = q * NPte + r /\ j \div NPte = q /\ j % NPte = r
        BY <1>1, <3>1, Split
      <3>5. (q + 1) * NPte = NPte + q * NPte
        BY <1>1
      <3>6. ChunkStart(first, i) = (q + 1) * NPte
        BY <3>3, <3>4, <3>5
      <3>7. i = (q + 1) * NPte + r
        <4>1. q * NPte \in Nat
          BY <1>1, MulTyped
        <4>2. QED
          BY <1>1, <3>1, <3>4, <3>5, <4>1
      <3>8. q + 1 \in Nat
        OBVIOUS
      <3>9. QED
        BY <1>1, <2>1, <3>4, <3>6, <3>7, <3>8
    <2>5. QED
      BY <2>3, <2>4
  <1>6. QED
    BY <1>1, <1>4, <1>5

\* The control bits of an entry lie below the high address bits.
LEMMA FlagsSmall == \A prot : Flags(prot) + ValidBit \in Nat /\ Flags(prot) + ValidBit < 16
  BY DEF Flags, ValidBit, ReadBit, WriteBit

\* What sunxi_mk_pte and IOPTE_TO_PFN make of an address.
LEMMA EntryReads ==
    ASSUME format \in Formats, NEW prot
    PROVE  \A x, j, e \in Nat :
             x % Word = j * SPAGE_SIZE /\ e = (x % Word) + High(x) + Flags(prot) + ValidBit
             => /\ e < Word /\ IOPTE_TO_PFN(e) = (x % Word) + ((x \div Word) % 2^HighBits) * Word
                /\ e % 2^HighShift = Flags(prot) + ValidBit
  <1> TAKE x, j, e \in Nat
  <1>0. HAVE x % Word = j * SPAGE_SIZE /\ e = (x % Word) + High(x) + Flags(prot) + ValidBit
  <1> DEFINE W == Word
             S == SPAGE_SIZE
             HS == 2^HighShift
             HB == 2^HighBits
             h == (x \div W) % HB
             f == Flags(prot) + ValidBit
  <1>1. /\ W \in Nat /\ W > 0 /\ S \in Nat /\ S > 0 /\ HS \in Nat /\ HS > 0 /\ HB \in Nat /\ HB > 0
    BY Widths
  <1>2. PICK k \in Nat : k > 0 /\ S = (HS * HB) * k
    <2>1. Divides(HS * HB, S)
      BY Widths
    <2>2. PICK k \in Nat \ {0} : S = k * (HS * HB)
      BY <2>1 DEF Divides
    <2>3. k * (HS * HB) = (HS * HB) * k
      BY <1>1, MulTyped
    <2>4. QED
      BY <2>2, <2>3
  <1>3. PICK l \in Nat : W = l * S
    <2>1. Divides(S, W)
      BY Widths
    <2>2. QED
      BY <2>1 DEF Divides
  <1>4. f \in Nat /\ f < HS
    <2>1. PICK m \in Nat \ {0} : HS = m * 16
      <3>1. Divides(16, HS)
        BY Widths
      <3>2. QED
        BY <3>1 DEF Divides
    <2>2. f \in Nat /\ f < 16
      BY FlagsSmall
    <2> HIDE DEF f, HS
    <2>3. QED
      BY <2>1, <2>2
  <1>5. x \div W \in Nat /\ x % W \in Nat /\ x % W < W
    BY <1>1, Split
  <1>6. h \in Nat /\ h < HB
    <2> DEFINE q == x \div W
    <2>1. q \in Nat
      BY <1>5
    <2> HIDE DEF q
    <2>2. q % HB \in Nat /\ q % HB < HB
      BY <1>1, <2>1, Split
    <2>3. QED
      BY <2>2 DEF q
  <1>7. High(x) = h * HS
    BY DEF High
  <1>8. IOPTE_TO_PFN(e) = (e - (e % S)) + ((e \div HS) % HB) * W
    BY DEF IOPTE_TO_PFN
  <1>9. e = j * S + (h * HS + f)
    <2>1. e = j * S + h * HS + Flags(prot) + ValidBit
      BY <1>0, <1>7
    <2>2. Flags(prot) \in Nat /\ ValidBit \in Nat
      BY DEF Flags, ReadBit, WriteBit, ValidBit
    <2>3. j * S \in Nat /\ h * HS \in Nat
      BY <1>1, <1>6, MulTyped
    <2> DEFINE js == j * S
               hh == h * HS
    <2>4. js \in Nat /\ hh \in Nat /\ e = js + hh + Flags(prot) + ValidBit
      BY <2>1, <2>3
    <2> HIDE DEF js, hh
    <2>5. e = js + (hh + (Flags(prot) + ValidBit))
      BY <2>2, <2>4
    <2>6. QED
      BY <2>5 DEF js, hh
  <1> HIDE DEF W, S, HS, HB, h, f
  <1>10. /\ h * HS + f < S /\ e - (e % S) = j * S /\ (e \div HS) % HB = h /\ e % HS = f
    <2>1. HS \in Nat /\ HB \in Nat /\ S \in Nat /\ h \in Nat /\ f \in Nat
      BY <1>1, <1>4, <1>6
    <2>2. S = (HS * HB) * k /\ k > 0 /\ h < HB /\ f < HS /\ e = j * S + (h * HS + f)
      BY <1>2, <1>4, <1>6, <1>9
    <2>3. ReadBack(HS, HB, S, j, h, f, e)
      <3>1. Fields(HS, HB, k, S, j, h, f, e)
        BY <2>2 DEF Fields
      <3>2. QED
        BY <2>1, <3>1, FieldsRead
    <2>4. QED
      BY <2>3 DEF ReadBack
  <1>11. x % W = j * S
    BY <1>0 DEF W, S
  <1>12. e < W
    <2>1. j * S < l * S
      BY <1>3, <1>5, <1>11
    <2>2. h * HS + f \in Nat
      BY <1>1, <1>4, <1>6, MulTyped
    <2>3. j * S + (h * HS + f) < l * S
      BY <1>1, <1>10, <2>1, <2>2, Room
    <2>4. QED
      BY <1>3, <1>9, <2>3
  <1>13. IOPTE_TO_PFN(e) = (x % W) + h * W
    BY <1>8, <1>10, <1>11
  <1>14. QED
    BY <1>10, <1>12, <1>13 DEF W, HS, HB, h, f

-----------------------------------------------------------------------------
(* Blocks.                                                                 *)

\* An address and the block size: what cpu_phy_to_iommu_phy returns.
Aligned(a, b, V, v) == b > 0 /\ a % b = 0 /\ V = v * b
Wrapped(a, V) == IF a > V THEN a - V ELSE a
IsMultiple(x, b) == \E m \in Nat : x = m * b

LEMMA BlockStart ==
    \A a, b, V, v \in Nat : Aligned(a, b, V, v) => IsMultiple(Wrapped(a, V), b)
  <1> TAKE a, b, V, v \in Nat
  <1>00. HAVE Aligned(a, b, V, v)
  <1>0. b > 0 /\ a % b = 0 /\ V = v * b
    BY <1>00 DEF Aligned
  <1>1. PICK q \in Nat, r \in Nat : r < b /\ a = q * b + r /\ a \div b = q /\ a % b = r
    BY <1>0, Split
  <1>2. r = 0 /\ q * b \in Nat
    BY <1>0, <1>1, MulTyped
  <1>3. a = q * b
    BY <1>1, <1>2
  <1>4. CASE a > V
    <2>1. v * b < q * b
      BY <1>0, <1>3, <1>4
    <2>2. v + 1 <= q
      BY <2>1, MulLess
    <2>3. q - v \in Nat
      BY <2>2
    <2>4. a - V = (q - v) * b
      BY <1>0, <1>3
    <2>5. QED
      BY <1>4, <2>3, <2>4 DEF Wrapped, IsMultiple
  <1>5. QED
    BY <1>3, <1>4 DEF Wrapped, IsMultiple

LEMMA MultipleMod == \A q, n \in Nat : n > 0 => (q * n) % n = 0
  <1> TAKE q, n \in Nat
  <1>1. HAVE n > 0
  <1>2. 0 \in Nat /\ 0 < n /\ q * n \in Int /\ q * n = q * n + 0 /\ q \in Int
    BY <1>1, MulTyped
  <1>3. QED
    BY <1>1, <1>2, DivMod

\* What the core guarantees of a block of n pages at a, from entry first on.
Block(a, n, first) ==
    /\ a % (n * SPAGE_SIZE) = 0 /\ first % n = 0
    /\ a + n * SPAGE_SIZE <= PhysOffset + 2^VaBits

\* A page of a block reads back as the physical page it was mapped to.
LEMMA EntryRoundTrip ==
    ASSUME format \in Formats, NEW n \in PgSizes, NEW first \in 0 .. NPte - 1, NEW prot,
           NEW a \in CpuPages, Block(a, n, first), NEW i \in 0 .. n - 1
    PROVE  /\ EntryToCpu(L2Entry(a, first, i, prot)) = a + i * SPAGE_SIZE
           /\ L2Entry(a, first, i, prot) % 2^HighShift = Flags(prot) + ValidBit
  <1> DEFINE W == Word
             S == SPAGE_SIZE
             HB == 2^HighBits
             V == 2^VaBits
             O == PhysOffset
             x0 == cpu_phy_to_iommu_phy(a)
             cs == ChunkStart(first, i)
             x == x0 + i * S
             f == Flags(prot) + ValidBit
             e == (x % W) + High(x) + Flags(prot) + ValidBit
  <1>1. /\ W \in Nat /\ W > 0 /\ S \in Nat /\ S > 0 /\ HB \in Nat /\ HB > 0 /\ V \in Nat /\ O \in Nat
        /\ V = HB * W /\ W = 4 * O
    BY Widths
  <1>2. n \in Nat /\ n > 0 /\ i \in Nat /\ i < n /\ W % (n * S) = 0
    BY WidthAssumption DEF Word, SPAGE_SIZE
  <1>3. a \in Nat /\ O <= a /\ a < O + V
    <2>1. a \in O .. O + V - 1
      BY DEF CpuPages
    <2> HIDE DEF O, V
    <2>2. QED
      BY <1>1, <2>1
  <1>4. /\ a % (n * S) = 0 /\ a + n * S <= O + V /\ x0 = IF a > V THEN a - V ELSE a
    BY DEF Block, cpu_phy_to_iommu_phy
  <1>5. PICK c \in Nat, k \in Nat, g \in Nat, r \in Nat :
          n = k * c /\ cs = g * c /\ i = g * c + r /\ r < c
    <2>1. first % n = 0
      BY DEF Block
    <2>2. QED
      BY <2>1, Chunks
  <1>6. L2Entry(a, first, i, prot) = (sunxi_mk_pte(x0 + cs * S, prot) + S * (i - cs)) % W
    BY DEF L2Entry
  <1>7. \A y : sunxi_mk_pte(y, prot) = ((y - (y % S)) % W) + High(y) + Flags(prot) + ValidBit
    BY DEF sunxi_mk_pte
  <1>8. \A y, z : y \div W = z \div W => High(y) = High(z)
    BY DEF High
  <1>9. \A y : EntryToCpu(y) = Unwrapped(IOPTE_TO_PFN(y), O, V)
    BY DEF EntryToCpu, iommu_phy_to_cpu_phy, Unwrapped
  <1>10. \A y, j, d \in Nat : y % W = j * S /\ d = (y % W) + High(y) + Flags(prot) + ValidBit
           => /\ d < W /\ IOPTE_TO_PFN(d) = (y % W) + ((y \div W) % HB) * W
              /\ d % 2^HighShift = f
    BY EntryReads
  <1>11. \A y : High(y) = ((y \div W) % HB) * 2^HighShift
    BY DEF High
  <1>12. 2^HighShift \in Nat
    BY Widths
  <1> HIDE DEF W, S, HB, V, O, x0, cs
  <1> DEFINE D == c * S
             nS == n * S
  <1>13. D \in Nat /\ nS \in Nat /\ nS = k * D /\ nS > 0
    <2>1. nS = (k * c) * S /\ (k * c) * S = k * (c * S)
      BY <1>1, <1>5
    <2>2. c * S \in Nat /\ n * S \in Nat
      BY <1>1, <1>2, MulTyped
    <2>3. 1 * S <= n * S
      BY <1>1, <1>2, MulMono
    <2>4. QED
      BY <1>1, <2>1, <2>2, <2>3
  <1>14. PICK l \in Nat : W = l * nS
    <2>1. PICK q \in Nat, z \in Nat : z < nS /\ W = q * nS + z /\ W \div nS = q /\ W % nS = z
      BY <1>1, <1>13, Split
    <2>2. z = 0 /\ q * nS \in Nat
      BY <1>2, <1>13, <2>1, MulTyped
    <2>3. W = q * nS
      BY <2>1, <2>2
    <2>4. QED
      BY <2>3
  <1>15. PICK m0 \in Nat : x0 = m0 * nS
    <2>1. V = (HB * l) * nS /\ HB * l \in Nat
      <3>1. HB * (l * nS) = (HB * l) * nS
        BY <1>1, <1>13
      <3>2. QED
        BY <1>1, <1>14, <3>1, MulTyped
    <2>2. a % nS = 0
      BY <1>4
    <2> HIDE DEF nS
    <2>3. IsMultiple(Wrapped(a, V), nS)
      <3> DEFINE v == HB * l
      <3>1. V \in Nat /\ v \in Nat /\ nS \in Nat /\ a \in Nat /\ nS > 0 /\ V = v * nS
        BY <1>1, <1>3, <1>13, <2>1
      <3> HIDE DEF v
      <3>2. Aligned(a, nS, V, v)
        BY <2>2, <3>1 DEF Aligned
      <3>3. QED
        <4>1. V \in Nat /\ v \in Nat /\ nS \in Nat /\ a \in Nat
          BY <3>1
        <4>2. QED
          BY <3>2, <4>1, BlockStart
    <2>4. QED
      BY <1>4, <2>3 DEF Wrapped, IsMultiple
  <1>16. cs \in Nat /\ i - cs = r
    BY <1>2, <1>5, MulTyped
  <1> DEFINE m == m0 * k + g
  <1>17. m \in Nat /\ x0 + cs * S = m * D /\ x0 \in Nat
    <2>1. m0 * k \in Nat /\ m0 * nS \in Nat
      BY <1>13, MulTyped
    <2>2. m0 * nS = (m0 * k) * D
      BY <1>13
    <2>3. cs * S = g * D
      BY <1>1, <1>5
    <2>4. (m0 * k) * D + g * D = m * D
      BY <1>13, <2>1
    <2>5. QED
      BY <1>15, <2>1, <2>2, <2>3, <2>4
  <1>18. x = m * D + r * S
    <2>1. i * S = cs * S + r * S
      BY <1>1, <1>5
    <2>2. cs * S \in Nat /\ r * S \in Nat
      BY <1>1, <1>16, MulTyped
    <2>3. QED
      BY <1>17, <2>1, <2>2
  <1>19. x \in Nat
    BY <1>1, <1>2, <1>17, MulTyped
  <1> DEFINE s == m * D
  <1>20. s \in Nat
    BY <1>13, <1>17, MulTyped
  <1>21. OneWord(S, D, W, m, r)
    <2>1. W = (l * k) * D /\ l * k \in Nat
      <3>1. l * (k * D) = (l * k) * D
        BY <1>13
      <3>2. QED
        BY <1>13, <1>14, <3>1, MulTyped
    <2>2. InChunk(c, S, D, l * k, W, r)
      BY <1>1, <1>5, <2>1 DEF InChunk
    <2> HIDE DEF D, m
    <2>3. QED
      BY <1>1, <1>13, <1>17, <2>1, <2>2, WithinWord
  <1>22. s % S = 0
    <2> DEFINE mc == m * c
    <2>1. mc \in Nat /\ s = mc * S
      BY <1>1, <1>17, MulTyped
    <2> HIDE DEF s, mc
    <2>2. QED
      BY <1>1, <2>1, MultipleMod
  <1> HIDE DEF x, D, m, nS
  <1>23. /\ x \div W = s \div W /\ x % W = (s % W) + r * S /\ \E j \in Nat : x % W = j * S
    BY <1>18, <1>21 DEF OneWord
  <1>24. s = x0 + cs * S
    BY <1>17
  <1> HIDE DEF s
  <1>25. PICK j \in Nat : x % W = j * S
    BY <1>23
  <1>26. /\ x % W \in Nat /\ s % W \in Nat /\ r * S \in Nat /\ S * r = r * S
    BY <1>1, <1>19, <1>20, Split, MulTyped
  <1>27. High(x) \in Nat
    <2>1. x \div W \in Nat
      BY <1>1, <1>19, Split
    <2>2. (x \div W) % HB \in Nat
      <3> DEFINE q == x \div W
      <3>1. q \in Nat
        BY <2>1
      <3> HIDE DEF q
      <3>2. q % HB \in Nat
        BY <1>1, <3>1, Split
      <3>3. QED
        BY <3>2 DEF q
    <2>3. QED
      BY <1>11, <1>12, <2>2, MulTyped
  <1>28. Flags(prot) \in Nat /\ ValidBit \in Nat
    BY DEF Flags, ReadBit, WriteBit, ValidBit
  <1>29. e \in Nat
    BY <1>26, <1>27, <1>28
  <1>30. e < W /\ IOPTE_TO_PFN(e) = (x % W) + ((x \div W) % HB) * W /\ e % 2^HighShift = f
    BY <1>10, <1>19, <1>25, <1>29
  <1>31. L2Entry(a, first, i, prot) = e % W
    <2>1. sunxi_mk_pte(s, prot) = (s % W) + High(s) + Flags(prot) + ValidBit
      <3>1. s - (s % S) = s
        BY <1>20, <1>22
      <3>2. QED
        BY <1>7, <3>1
    <2>2. High(s) = High(x)
      BY <1>8, <1>23
    <2>3. L2Entry(a, first, i, prot) = (sunxi_mk_pte(s, prot) + S * r) % W
      BY <1>6, <1>16, <1>24
    <2>4. ((s % W) + High(x) + Flags(prot) + ValidBit) + r * S = e
      BY <1>23, <1>26, <1>27, <1>28
    <2>5. QED
      BY <1>26, <2>1, <2>2, <2>3, <2>4
  <1> HIDE DEF e, f
  <1>32. L2Entry(a, first, i, prot) = e
    <2>1. e = 0 * W + e
      BY <1>1, <1>29
    <2>2. e % W = e
      BY <1>1, <1>29, <1>30, <2>1, DivMod
    <2>3. QED
      BY <1>31, <2>2
  <1>33. EntryToCpu(e) = a + i * S
    <2> DEFINE P == a + i * S
    <2>1. i * S \in Nat /\ i * S < n * S
      <3>1. (i + 1) * S <= n * S
        BY <1>1, <1>2, MulMono
      <3>2. (i + 1) * S = i * S + S
        BY <1>1, <1>2
      <3>3. QED
        BY <1>1, <1>2, <3>1, <3>2, MulTyped
    <2>2. P \in Nat /\ O <= P /\ P < O + V
      <3> DEFINE t == i * S
                 ns == n * S
      <3>1. t \in Nat /\ ns \in Nat /\ t < ns /\ P = a + t /\ a + ns <= O + V
        BY <1>1, <1>2, <1>4, <2>1, MulTyped
      <3> HIDE DEF t, ns, P
      <3>2. QED
        BY <1>1, <1>3, <3>1
    <2>3. x = P \/ x + V = P
      <3> DEFINE t == i * S
      <3>1. t \in Nat /\ x = x0 + t /\ P = a + t
        BY <2>1 DEF x
      <3> HIDE DEF t, P
      <3>2. CASE a > V
        BY <1>1, <1>3, <1>4, <3>1, <3>2
      <3>3. CASE ~(a > V)
        BY <1>3, <1>4, <3>1, <3>3
      <3>4. QED
        BY <3>2, <3>3
    <2>4. O <= V
      <3>1. 1 * W <= HB * W
        BY <1>1, MulMono
      <3>2. QED
        BY <1>1, <3>1
    <2> HIDE DEF P
    <2>5. Wraps(O, V, W, HB, P, x)
      BY <1>1, <2>2, <2>3, <2>4 DEF Wraps
    <2>6. P = Unwrapped((x % W) + ((x \div W) % HB) * W, O, V)
      BY <1>1, <1>19, <2>2, <2>5, WrapReads
    <2>7. QED
      BY <1>9, <1>30, <2>6 DEF P
  <1>34. QED
    BY <1>30, <1>32, <1>33 DEF f, S

-----------------------------------------------------------------------------
(* Directory words.                                                        *)

LEMMA IsMultipleOf == \A x, b \in Nat : b > 0 /\ x % b = 0 => IsMultiple(x, b)
  <1> TAKE x, b \in Nat
  <1>1. HAVE b > 0 /\ x % b = 0
  <1>2. PICK q \in Nat, r \in Nat : r < b /\ x = q * b + r /\ x \div b = q /\ x % b = r
    BY <1>1, Split
  <1>3. x = q * b
    BY <1>1, <1>2, MulTyped
  <1>4. QED
    BY <1>3 DEF IsMultiple

\* A table in a page of DRAM.
TableAt(a, k) == a + k * 2^TabShift

LEMMA TablesInRange ==
    ASSUME format \in Formats, NEW a \in CpuPages, NEW k \in 0 .. 2^(PtShift - TabShift) - 1
    PROVE  /\ TableAt(a, k) \in Nat /\ PhysOffset <= TableAt(a, k) /\ TableAt(a, k) < PhysOffset + 2^VaBits
           /\ IsMultiple(TableAt(a, k), 2^TabShift)
  <1> DEFINE T == 2^TabShift
             S == SPAGE_SIZE
             O == PhysOffset
             V == 2^VaBits
             HB == 2^HighBits
             d == 2^(PtShift - TabShift)
             W == Word
  <1>1. /\ T \in Nat /\ T > 0 /\ S \in Nat /\ S > 0 /\ O \in Nat /\ V \in Nat /\ d \in Nat /\ d > 0
        /\ W \in Nat /\ HB \in Nat /\ S = d * T /\ V = HB * W
    BY Widths
  <1>2. (\E o \in Nat : O = o * S) /\ \E l \in Nat : W = l * S
    <2>1. Divides(S, O) /\ Divides(S, W)
      BY Widths
    <2>2. QED
      BY <2>1 DEF Divides
  <1>3. a \in O .. O + V - 1 /\ a % S = 0
    BY DEF CpuPages
  <1>4. k \in 0 .. d - 1
    OBVIOUS
  <1>5. TableAt(a, k) = a + k * T
    BY DEF TableAt
  <1> HIDE DEF T, S, O, V, HB, d, W
  <1>6. PICK o \in Nat, l \in Nat : O = o * S /\ W = l * S
    BY <1>2
  <1>7. a \in Nat /\ O <= a /\ a < O + V /\ k \in Nat /\ k < d
    BY <1>1, <1>3, <1>4
  <1>8. PICK q \in Nat : a = q * S
    <2>1. IsMultiple(a, S)
      BY <1>1, <1>3, <1>7, IsMultipleOf
    <2>2. QED
      BY <2>1 DEF IsMultiple
  <1>9. k * T < S /\ k * T \in Nat
    <2>1. (k + 1) * T <= d * T
      BY <1>1, <1>7, MulMono
    <2>2. (k + 1) * T = k * T + T
      BY <1>1, <1>7
    <2>3. k * T \in Nat
      BY <1>1, <1>7, MulTyped
    <2>4. QED
      BY <1>1, <2>1, <2>2, <2>3
  <1> DEFINE b == o + HB * l
  <1>10. b \in Nat /\ O + V = b * S
    <2>1. HB * l \in Nat
      BY <1>1, MulTyped
    <2>2. V = (HB * l) * S
      BY <1>1, <1>6
    <2>3. b * S = o * S + (HB * l) * S
      BY <1>1, <2>1
    <2>4. QED
      BY <1>6, <2>1, <2>2, <2>3
  <1> HIDE DEF b
  <1>11. a + k * T < O + V
    <2>1. q * S < b * S
      BY <1>7, <1>8, <1>10
    <2>2. q * S + k * T < b * S
      BY <1>1, <1>9, <1>10, <2>1, Room
    <2>3. QED
      BY <1>8, <1>10, <2>2
  <1>12. IsMultiple(a + k * T, T)
    <2>1. q * d \in Nat /\ q * d + k \in Nat
      BY <1>1, <1>7, MulTyped
    <2>2. q * (d * T) = (q * d) * T
      BY <1>1
    <2>3. (q * d + k) * T = (q * d) * T + k * T
      BY <1>1, <1>7, <2>1
    <2>4. a + k * T = (q * d + k) * T
      BY <1>1, <1>8, <2>2, <2>3
    <2>5. QED
      BY <2>1, <2>4 DEF IsMultiple
  <1> DEFINE kT == k * T
  <1>13. kT \in Nat /\ a + kT < O + V
    BY <1>9, <1>11
  <1> HIDE DEF kT
  <1>14. a + kT \in Nat /\ O <= a + kT
    BY <1>1, <1>7, <1>13
  <1>15. QED
    BY <1>5, <1>12, <1>13, <1>14 DEF kT, T, O, V

\* The two cases of a directory word: with and without high address bits.
DentFields(HS, HB, T, j, h, w) ==
    w - (w % T) = j * T /\ (w \div HS) % HB = h /\ h * HS + 1 < T

LEMMA DentReads ==
    \A HS, HB, T, j, h, w \in Nat :
      /\ HS > 1 /\ HB > 0 /\ T > 1 /\ h < HB /\ w = j * T + (h * HS + 1)
      /\ HB = 1 \/ IsMultiple(T, HS * HB)
      => DentFields(HS, HB, T, j, h, w)
  <1> TAKE HS, HB, T, j, h, w \in Nat
  <1>0. HAVE /\ HS > 1 /\ HB > 0 /\ T > 1 /\ h < HB /\ w = j * T + (h * HS + 1)
             /\ HB = 1 \/ IsMultiple(T, HS * HB)
  <1>1. CASE HB = 1
    <2>1. h = 0
      BY <1>0, <1>1
    <2>2. h * HS = 0
      BY <2>1
    <2>3. w = j * T + 1
      BY <1>0, <2>2
    <2>4. w % T = 1
      <3>1. 1 \in Nat /\ 1 < T /\ T > 0 /\ j \in Int /\ w \in Int
        BY <1>0
      <3>2. QED
        BY <2>3, <3>1, DivMod
    <2>5. w - (w % T) = j * T
      BY <2>3, <2>4, MulTyped
    <2>6. (w \div HS) % HB = 0
      <3>1. w \div HS \in Nat
        BY <1>0, Split
      <3> DEFINE q == w \div HS
      <3>2. q \in Nat
        BY <3>1
      <3> HIDE DEF q
      <3>3. q % 1 = 0
        BY <3>2
      <3>4. QED
        BY <1>1, <3>3 DEF q
    <2>7. QED
      BY <1>0, <2>1, <2>2, <2>5, <2>6 DEF DentFields
  <1>2. CASE HB # 1
    <2>1. PICK k \in Nat : T = k * (HS * HB)
      BY <1>0, <1>2 DEF IsMultiple
    <2>2. k > 0 /\ T = (HS * HB) * k
      <3>1. HS * HB \in Nat
        BY MulTyped
      <3> DEFINE G == HS * HB
      <3>2. G \in Nat /\ T = k * G
        BY <2>1, <3>1
      <3> HIDE DEF G
      <3>3. k # 0 /\ T = G * k
        BY <1>0, <3>2
      <3>4. QED
        BY <3>3 DEF G
    <2>3. Fields(HS, HB, k, T, j, h, 1, w)
      BY <1>0, <2>2 DEF Fields
    <2>4. ReadBack(HS, HB, T, j, h, 1, w)
      <3>1. 1 \in Nat
        OBVIOUS
      <3>2. QED
        BY <2>3, <3>1, FieldsRead
    <2>5. QED
      BY <2>4 DEF ReadBack, DentFields
  <1>3. QED
    BY <1>1, <1>2

\* The directory word leads back to the table it was made for.
LEMMA DentRoundTrip ==
    ASSUME format \in Formats, NEW t \in Nat, PhysOffset <= t, t < PhysOffset + 2^VaBits,
           IsMultiple(t, 2^TabShift)
    PROVE  Dent(t) % 4 = 1 /\ DentToTable(Dent(t)) = t
  <1> DEFINE W == Word
             T == 2^TabShift
             HS == 2^HighShift
             HB == 2^HighBits
             V == 2^VaBits
             O == PhysOffset
             h == (t \div W) % HB
             z == t % W
             w == z + h * HS + 1
  <1>1. /\ W \in Nat /\ W > 0 /\ T \in Nat /\ T > 0 /\ HS \in Nat /\ HB \in Nat /\ HB > 0 /\ V \in Nat /\ O \in Nat
        /\ V = HB * W /\ W = 4 * O
    BY Widths
  <1>2. /\ \E b \in Nat : W = b * T
        /\ \E b \in Nat : T = b * 4
        /\ \E b \in Nat : HS = b * 16
        /\ HB = 1 \/ IsMultiple(T, HS * HB)
    BY Widths DEF Divides, IsMultiple
  <1>3. Dent(t) = (((IF t > V THEN t - V ELSE t) % W) + h * HS + 1) % W
    BY DEF Dent, High, cpu_phy_to_iommu_phy
  <1>4. \A y : DentToTable(y) = Unwrapped((y - (y % T)) + ((y \div HS) % HB) * W, O, V)
    BY DEF DentToTable, iommu_phy_to_cpu_phy, Unwrapped
  <1>5. O <= t /\ t < O + V /\ IsMultiple(t, T)
    OBVIOUS
  <1> HIDE DEF W, T, HS, HB, V, O
  <1>6. PICK l \in Nat, k4 \in Nat, k16 \in Nat : W = l * T /\ T = k4 * 4 /\ HS = k16 * 16
    BY <1>2
  <1>7. PICK y \in Nat : t = y * T
    BY <1>5 DEF IsMultiple
  <1>8. PICK q \in Nat : t \div W = q /\ z \in Nat /\ z < W /\ t = q * W + z
    BY <1>1, Split
  <1>9. h \in Nat /\ h < HB
    <2>1. \E p \in Nat, r \in Nat : r < HB /\ q = p * HB + r /\ q \div HB = p /\ q % HB = r
      BY <1>1, Split
    <2>2. QED
      BY <1>8, <2>1
  <1>10. PICK j \in Nat : z = j * T
    <2>1. InChunk(1, T, T, l, W, 0)
      BY <1>1, <1>6 DEF InChunk
    <2>2. OneWord(T, T, W, y, 0)
      <3>1. 0 \in Nat /\ 1 \in Nat
        OBVIOUS
      <3>2. QED
        BY <1>1, <2>1, <3>1, WithinWord
    <2>3. PICK j \in Nat : ((y * T) % W) + 0 * T = j * T
      BY <2>2 DEF OneWord
    <2>4. (y * T) % W = z
      BY <1>7
    <2>5. z + 0 * T = z
      BY <1>1, <1>8
    <2>6. QED
      BY <2>3, <2>4, <2>5
  <1>11. (IF t > V THEN t - V ELSE t) % W = z
    <2>1. CASE t > V
      <3>1. (q - HB) * W = q * W - HB * W
        BY <1>1
      <3>2. q * W \in Nat /\ HB * W \in Nat
        BY <1>1, MulTyped
      <3>3. t - V = (q - HB) * W + z
        BY <1>1, <1>8, <3>1, <3>2
      <3>4. q - HB \in Int /\ t - V \in Int
        BY <1>1
      <3> DEFINE p == q - HB
                 s == t - V
      <3>5. p \in Int /\ s \in Int /\ s = p * W + z
        BY <3>3, <3>4
      <3> HIDE DEF p, s, z
      <3>6. s % W = z
        BY <1>1, <1>8, <3>5, DivMod
      <3>7. QED
        BY <2>1, <3>6 DEF s
    <2>2. QED
      BY <2>1
  <1>12. Dent(t) = w % W
    BY <1>3, <1>11
  <1> HIDE DEF h, z
  <1> DEFINE hh == h * HS
  <1>13. hh \in Nat /\ w \in Nat /\ w = j * T + (hh + 1)
    <2>1. hh \in Nat
      BY <1>1, <1>9, MulTyped
    <2>2. w = z + hh + 1
      OBVIOUS
    <2> HIDE DEF hh, w
    <2>3. w = z + (hh + 1) /\ w \in Nat
      BY <1>8, <2>1, <2>2
    <2>4. QED
      BY <1>10, <2>1, <2>3
  <1>14. HS > 1 /\ T > 1
    BY <1>1, <1>6, Widths DEF HS
  <1>15. DentFields(HS, HB, T, j, h, w)
    <2>1. w = j * T + (h * HS + 1)
      BY <1>13
    <2> HIDE DEF w
    <2>2. QED
      BY <1>1, <1>2, <1>9, <1>13, <1>14, <2>1, DentReads
  <1> HIDE DEF w
  <1>16. w < W
    <2>1. j * T < l * T
      BY <1>6, <1>8, <1>10
    <2>2. hh + 1 < T
      BY <1>15 DEF DentFields
    <2> HIDE DEF hh
    <2>3. j * T + (hh + 1) < l * T
      BY <1>1, <1>13, <2>1, <2>2, Room
    <2>4. QED
      BY <1>6, <1>13, <2>3
  <1>17. Dent(t) = w
    <2>1. w = 0 * W + w
      BY <1>1, <1>13
    <2>2. w % W = w
      BY <1>1, <1>13, <1>16, <2>1, DivMod
    <2>3. QED
      BY <1>12, <2>2
  <1>18. w % 4 = 1
    <2> DEFINE u == j * k4 + 4 * (h * k16)
    <2>1. j * k4 \in Nat /\ h * k16 \in Nat
      BY <1>9, MulTyped
    <2>2. u \in Nat
      BY <2>1
    <2>3. j * (k4 * 4) = 4 * (j * k4) /\ h * (k16 * 16) = 16 * (h * k16)
      BY <1>9
    <2>4. hh = 16 * (h * k16) /\ j * T = 4 * (j * k4)
      BY <1>6, <2>3
    <2>5. w = 4 * (j * k4) + (16 * (h * k16) + 1)
      BY <1>13, <2>4
    <2> DEFINE A == j * k4
               B == h * k16
    <2>6. A \in Nat /\ B \in Nat /\ w = 4 * A + (16 * B + 1)
      BY <2>1, <2>5
    <2> HIDE DEF A, B
    <2>7. QED
      BY <2>6
  <1>19. DentToTable(w) = t
    <2>1. w - (w % T) = z /\ (w \div HS) % HB = h
      BY <1>10, <1>15 DEF DentFields
    <2>2. O <= V
      <3>1. 1 * W <= HB * W
        BY <1>1, MulMono
      <3>2. QED
        BY <1>1, <3>1
    <2>3. Wraps(O, V, W, HB, t, t)
      BY <1>1, <1>5, <2>2 DEF Wraps
    <2>4. t = Unwrapped((t % W) + ((t \div W) % HB) * W, O, V)
      BY <1>1, <2>3, WrapReads
    <2>5. t = Unwrapped(z + h * W, O, V)
      BY <2>4 DEF z, h
    <2>6. QED
      BY <1>4, <2>1, <2>5
  <1>20. QED
    BY <1>17, <1>18, <1>19

-----------------------------------------------------------------------------
WordsInv == format \in Formats /\ WordsRoundTrip

LEMMA WordsNext == WordsInv /\ [PteNext]_pteVars => WordsInv'
  <1> SUFFICES ASSUME WordsInv, [PteNext]_pteVars PROVE WordsInv'
    OBVIOUS
  <1>1. format \in Formats /\ WordsRoundTrip
    BY DEF WordsInv
  <1>2. UNCHANGED format
    BY DEF PteNext, MapBlock, UnmapBlock, pteVars
  <1>3. \A y : /\ EntryToCpu(y)' = EntryToCpu(y) /\ DentToTable(y)' = DentToTable(y)
    BY <1>2 DEF EntryToCpu, DentToTable, IOPTE_TO_PFN, iommu_phy_to_cpu_phy, HighBits, TabShift, VaBits
  <1> DEFINE Good(I, p, d) ==
        /\ \A i \in 0 .. I.n - 1 : EntryToCpu(p[i]) = I.paddr + i * SPAGE_SIZE /\ p[i] % 2^HighShift = Flags(I.prot) + ValidBit
        /\ I # NoBlock => d % 4 = 1 /\ DentToTable(d) = I.table
  <1>4. WordsRoundTrip' <=> Good(in', pte', dent')
    BY <1>3 DEF WordsRoundTrip
  <1>5. CASE UNCHANGED pteVars
    <2>1. UNCHANGED <<in, pte, dent>> /\ Good(in, pte, dent)
      BY <1>1, <1>5 DEF pteVars, WordsRoundTrip
    <2> HIDE DEF Good
    <2>2. QED
      BY <1>1, <1>2, <1>4, <2>1 DEF WordsInv
  <1>6. CASE UnmapBlock
    <2>1. in' = NoBlock /\ NoBlock.n = 0 /\ 0 .. 0 - 1 = {}
      BY <1>6 DEF UnmapBlock, NoBlock
    <2>2. Good(in', pte', dent')
      BY <2>1
    <2>3. QED
      BY <1>1, <1>2, <1>4, <2>2 DEF WordsInv
  <1>7. CASE MapBlock
    <2>1. PICK n \in PgSizes, first \in 0 .. NPte - 1, prot \in SUBSET {"r", "w"},
               a \in CpuPages, k \in 0 .. 2^(PtShift - TabShift) - 1 :
            /\ a % (n * SPAGE_SIZE) = 0 /\ first % n = 0
            /\ a + n * SPAGE_SIZE <= PhysOffset + 2^VaBits
            /\ in' = [paddr |-> a, n |-> n, first |-> first, prot |-> prot, table |-> a + k * 2^TabShift]
            /\ pte' = [i \in 0 .. n - 1 |-> L2Entry(a, first, i, prot)]
            /\ dent' = Dent(in'.table)
      BY <1>7 DEF MapBlock
    <2>2. in'.n = n /\ in'.paddr = a /\ in'.prot = prot /\ in'.table = TableAt(a, k)
      BY <2>1 DEF TableAt
    <2>3. Block(a, n, first)
      BY <2>1 DEF Block
    <2>4. ASSUME NEW i \in 0 .. n - 1
          PROVE  /\ EntryToCpu(pte'[i]) = a + i * SPAGE_SIZE
                 /\ pte'[i] % 2^HighShift = Flags(prot) + ValidBit
      <3>1. pte'[i] = L2Entry(a, first, i, prot)
        BY <2>1
      <3>2. /\ EntryToCpu(L2Entry(a, first, i, prot)) = a + i * SPAGE_SIZE
            /\ L2Entry(a, first, i, prot) % 2^HighShift = Flags(prot) + ValidBit
        BY <1>1, <2>3, EntryRoundTrip
      <3>3. QED
        BY <3>1, <3>2
    <2>5. dent' % 4 = 1 /\ DentToTable(dent') = TableAt(a, k)
      <3>1. dent' = Dent(TableAt(a, k))
        BY <2>1, <2>2
      <3>2. Dent(TableAt(a, k)) % 4 = 1 /\ DentToTable(Dent(TableAt(a, k))) = TableAt(a, k)
        BY <1>1, TablesInRange, DentRoundTrip
      <3>3. QED
        BY <3>1, <3>2
    <2>6. Good(in', pte', dent')
      BY <2>2, <2>4, <2>5
    <2> HIDE DEF Good
    <2>7. QED
      BY <1>1, <1>2, <1>4, <2>6 DEF WordsInv
  <1>8. QED
    BY <1>5, <1>6, <1>7 DEF PteNext

(***************************************************************************)
(* A physical page stored by prepare_l2_tables is the one iova_to_phys     *)
(* reads back, with the control bits of its protection, and a directory    *)
(* word made by sunxi_alloc_iopte leads iopte_offset back to its table:    *)
(* for every width of the word, of the page and of the high address bits,  *)
(* every size of a block and of a table, DRAM that wraps included.         *)
(***************************************************************************)
THEOREM WordsAlwaysRoundTrip == PteSpec => []WordsRoundTrip
  <1>1. PteInit => WordsInv
    <2> SUFFICES ASSUME PteInit PROVE WordsInv
      OBVIOUS
    <2>1. in = NoBlock /\ format \in Formats /\ NoBlock.n = 0 /\ 0 .. 0 - 1 = {}
      BY DEF PteInit, NoBlock
    <2>2. QED
      BY <2>1 DEF WordsInv, WordsRoundTrip
  <1>2. WordsInv => WordsRoundTrip
    BY DEF WordsInv
  <1>3. QED
    BY <1>1, <1>2, WordsNext, PTL DEF PteSpec
=============================================================================
