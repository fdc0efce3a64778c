-------------------------- MODULE ChainArrayProofs --------------------------
(***************************************************************************)
(* Lemmas about the path of a packet: prefixes and shifts, for addresses   *)
(* of any width; the lookup of hosts, for any chains (what HostChain_find  *)
(* and HostChainArray_find return); and the answers of hosts, for any      *)
(* packet and any host (what FakeHost_reply and FakeHost6_reply return,    *)
(* and what its checksums are worth to a receiver).                        *)
(***************************************************************************)
EXTENDS ChainArray, WellFoundedInduction, TLAPS

\* Every set of natural numbers has a least element.
LEMMA LeastElement ==
  ASSUME NEW S \in SUBSET Nat, S # {}
  PROVE  \E x \in S : \A y \in S : x <= y
<1> DEFINE less == {ss \in Nat \X Nat : ss[1] < ss[2]}
<1>1. IsWellFoundedOn(less, Nat)
  BY NatLessThanWellFounded, Zenon DEF OpToRel
<1>2. PICK x \in S : \A y \in S : <<y, x>> \notin less
  <2> HIDE DEF less
  <2>1. QED
    BY <1>1, WFMin
<1>3. ASSUME NEW y \in S PROVE x <= y
  <2>1. x \in Nat /\ y \in Nat /\ <<y, x>> \in Nat \X Nat
    OBVIOUS
  <2>2. ~(y < x)
    BY <1>2, <2>1
  <2>3. QED
    BY <2>1, <2>2
<1>4. QED
  BY <1>3

\* A bounded one has a greatest.
LEMMA GreatestElement ==
  ASSUME NEW n \in Nat, NEW S \in SUBSET (0 .. n), S # {}
  PROVE  \E x \in S : \A y \in S : y <= x
<1> DEFINE T == {n - x : x \in S}
<1>1. T \in SUBSET Nat /\ T # {}
  <2>1. ASSUME NEW x \in S PROVE n - x \in Nat
    OBVIOUS
  <2>2. QED
    BY <2>1
<1> HIDE DEF T
<1>2. PICK t \in T : \A u \in T : t <= u
  BY <1>1, LeastElement
<1>3. PICK x \in S : t = n - x
  BY DEF T
<1>4. ASSUME NEW y \in S PROVE y <= x
  <2>1. n - y \in T
    BY DEF T
  <2>2. t <= n - y
    BY <1>2, <2>1
  <2>3. QED
    BY <1>3, <2>2
<1>5. QED
  BY <1>4
-----------------------------------------------------------------------------
(* Division *)

\* A number is what divides it times the quotient, and the remainder.
LEMMA Division ==
  ASSUME NEW x, x \in Int, NEW d, d \in Nat \ {0}
  PROVE  /\ x \div d \in Int /\ x % d \in Nat /\ x % d < d
         /\ x = d * (x \div d) + (x % d)
         /\ x \in Nat => x \div d \in Nat
OBVIOUS

\* There is one way to divide.
LEMMA DivisionUnique ==
  ASSUME NEW d, d \in Nat \ {0}, NEW q, q \in Int, NEW r, r \in Nat, r < d,
         NEW x, x = d * q + r
  PROVE  x \div d = q /\ x % d = r
<1>1. x \in Int
  OBVIOUS
<1>2. PICK k : k = x \div d
  OBVIOUS
<1>3. PICK s : s = x % d
  OBVIOUS
<1>4. k \in Int /\ s \in Nat /\ s < d /\ d * q + r = d * k + s
  BY <1>1, <1>2, <1>3, Division
<1>5. ~(k < q)
  <2>1. SUFFICES ASSUME k < q PROVE FALSE
    OBVIOUS
  <2>2. PICK e \in Nat : q = k + 1 + e
    <3>1. q - k - 1 \in Nat /\ q = k + 1 + (q - k - 1)
      BY <1>4, <2>1
    <3>2. QED
      BY <3>1
  <2>3. d * q = d * k + d + d * e /\ d * e \in Nat /\ d * k \in Int
    BY <1>4, <2>2
  <2>4. QED
    BY <1>4, <2>3
<1>6. ~(q < k)
  <2>1. SUFFICES ASSUME q < k PROVE FALSE
    OBVIOUS
  <2>2. PICK e \in Nat : k = q + 1 + e
    <3>1. k - q - 1 \in Nat /\ k = q + 1 + (k - q - 1)
      BY <1>4, <2>1
    <3>2. QED
      BY <3>1
  <2>3. d * k = d * q + d + d * e /\ d * e \in Nat /\ d * q \in Int
    BY <1>4, <2>2
  <2>4. QED
    BY <1>4, <2>3
<1>7. k = q
  BY <1>4, <1>5, <1>6
<1>8. s = r
  <2>1. d * q \in Int /\ d * k = d * q
    BY <1>7
  <2>2. QED
    BY <1>4, <2>1
<1>9. QED
  BY <1>2, <1>3, <1>7, <1>8

\* Dividing by a product.
DividesTwice(x, a, b) ==
  /\ x \div (a * b) = (x \div a) \div b
  /\ x % (a * b) = 0 <=> x % a = 0 /\ (x \div a) % b = 0
  /\ (x % (a * b)) % a = x % a
  /\ (x % (a * b)) \div a = (x \div a) % b

\* It does, for any integer.
LEMMA DivisionTwiceInt ==
  ASSUME NEW x, x \in Int, NEW a, a \in Nat \ {0}, NEW b, b \in Nat \ {0}
  PROVE  DividesTwice(x, a, b)
<1>1. PICK q : q = x \div a
  OBVIOUS
<1>2. PICK r : r = x % a
  OBVIOUS
<1>3. q \in Int /\ r \in Nat /\ r < a /\ x = a * q + r
  BY <1>1, <1>2, Division
<1>4. PICK s : s = q \div b
  OBVIOUS
<1>5. PICK t : t = q % b
  OBVIOUS
<1>6. s \in Int /\ t \in Nat /\ t < b /\ q = b * s + t
  BY <1>3, <1>4, <1>5, Division
<1>7. PICK d : d = a * b
  OBVIOUS
<1>8. d \in Nat \ {0}
  BY <1>7
<1>9. a * q = d * s + a * t
  <2>1. a * (b * s + t) = (a * b) * s + a * t
    BY <1>6
  <2>2. QED
    BY <1>6, <1>7, <2>1
<1>10. PICK u : u = a * t + r
  OBVIOUS
<1>11. u \in Nat /\ u < d /\ (u = 0 <=> r = 0 /\ t = 0)
  <2>1. PICK e \in Nat : b = t + 1 + e
    <3>1. b - t - 1 \in Nat /\ b = t + 1 + (b - t - 1)
      BY <1>6
    <3>2. QED
      BY <3>1
  <2>2. d = a * t + a + a * e /\ a * e \in Nat /\ a * t \in Nat
    BY <1>6, <1>7, <2>1
  <2>3. t # 0 => a * t # 0
    BY <1>6
  <2>4. t = 0 => a * t = 0
    OBVIOUS
  <2>5. QED
    BY <1>3, <1>10, <2>2, <2>3, <2>4
<1>12. x = d * s + u
  <2>1. a * t \in Nat /\ d * s \in Int
    BY <1>6, <1>8
  <2>2. a * q + r = d * s + (a * t + r)
    BY <1>3, <1>9, <2>1
  <2>3. QED
    BY <1>3, <1>10, <2>2
<1>13. x \div d = s /\ x % d = u
  BY <1>6, <1>8, <1>11, <1>12, DivisionUnique
<1>14. u \div a = t /\ u % a = r
  BY <1>3, <1>6, <1>10, DivisionUnique
<1>15. QED
  BY <1>1, <1>2, <1>4, <1>5, <1>7, <1>11, <1>13, <1>14 DEF DividesTwice

\* It does, for a natural number.
LEMMA DivisionTwice ==
  ASSUME NEW x, x \in Nat, NEW a, a \in Nat \ {0}, NEW b, b \in Nat \ {0}
  PROVE  DividesTwice(x, a, b)
<1>1. x \in Int /\ a \in Nat \ {0} /\ b \in Nat \ {0}
  OBVIOUS
<1>2. QED
  BY ONLY <1>1, DivisionTwiceInt

-----------------------------------------------------------------------------
(* Powers *)

\* The widths that addresses, words and bytes have.
Widths == 0 .. 4 * WordBits

\* They are positive.
LEMMA PowerPositive ==
  ASSUME NEW n, n \in Widths
  PROVE  2 ^ n \in Nat \ {0}
<1> DEFINE bad == {k \in Widths : 2 ^ k \notin Nat \ {0}}
<1>1. WordBits \in Nat
  BY WidthAssumption
<1>2. SUFFICES ASSUME bad # {} PROVE FALSE
  BY <1>2
<1>3. bad \in SUBSET Nat
  BY <1>1 DEF Widths
<1>4. PICK k \in bad : \A j \in bad : k <= j
  <2> HIDE DEF bad
  <2>1. QED
    BY <1>2, <1>3, LeastElement
<1>5. k # 0
  <2>1. SUFFICES ASSUME k = 0 PROVE FALSE
    OBVIOUS
  <2>2. 2 ^ k = 1
    BY <2>1, PowerAssumption
  <2>3. 2 ^ k \notin Nat \ {0}
    BY <1>4
  <2>4. QED
    BY <2>2, <2>3
<1>6. PICK j : j = k - 1
  OBVIOUS
<1>7. j \in 0 .. 4 * WordBits - 1 /\ j + 1 = k /\ j \in Widths /\ ~(k <= j)
  BY <1>1, <1>3, <1>5, <1>6 DEF Widths
<1>8. 2 ^ j \in Nat \ {0}
  BY <1>4, <1>7
<1>9. 2 ^ k = 2 * 2 ^ j
  BY <1>7, PowerAssumption
<1>10. 2 ^ k \in Nat \ {0}
  <2>1. PICK x : x = 2 ^ j
    OBVIOUS
  <2>2. x \in Nat \ {0} /\ 2 ^ k = 2 * x
    BY <1>8, <1>9, <2>1
  <2>3. QED
    BY <2>2
<1>11. QED
  BY <1>4, <1>10

\* And multiply as they should.
LEMMA PowerSum ==
  ASSUME NEW a, a \in Nat, NEW b, b \in Nat, a + b \in Widths
  PROVE  2 ^ (a + b) = 2 ^ a * 2 ^ b
<1> DEFINE bad == {k \in Nat : a + k \in Widths /\ 2 ^ (a + k) # 2 ^ a * 2 ^ k}
<1>1. WordBits \in Nat
  BY WidthAssumption
<1>2. SUFFICES ASSUME bad # {} PROVE FALSE
  BY <1>2
<1>3. bad \in SUBSET Nat
  OBVIOUS
<1>4. PICK k \in bad : \A j \in bad : k <= j
  <2> HIDE DEF bad
  <2>1. QED
    BY <1>2, <1>3, LeastElement
<1>5. k # 0
  <2>1. SUFFICES ASSUME k = 0 PROVE FALSE
    OBVIOUS
  <2>2. a \in Widths /\ a + 0 = a
    BY <1>1, <1>4, <2>1 DEF Widths
  <2>3. PICK x : x = 2 ^ a
    OBVIOUS
  <2>4. x \in Nat
    BY <2>2, <2>3, PowerPositive
  <2>5. 2 ^ (a + 0) = x /\ 2 ^ a * 2 ^ 0 = x
    BY <2>2, <2>3, <2>4, PowerAssumption
  <2>6. QED
    BY <1>4, <2>1, <2>5
<1>6. PICK j : j = k - 1
  OBVIOUS
<1>7. /\ j \in Nat /\ j + 1 = k /\ ~(k <= j) /\ a + j \in 0 .. 4 * WordBits - 1
      /\ j \in 0 .. 4 * WordBits - 1
      /\ a + k = (a + j) + 1 /\ a \in Widths /\ a + j \in Widths /\ j \in Widths
  BY <1>1, <1>3, <1>4, <1>5, <1>6 DEF Widths
<1>8. PICK x : x = 2 ^ a
  OBVIOUS
<1>9. PICK y : y = 2 ^ j
  OBVIOUS
<1>10. x \in Nat /\ y \in Nat
  BY <1>7, <1>8, <1>9, PowerPositive
<1>11. 2 ^ (a + j) = x * y
  BY <1>4, <1>7, <1>8, <1>9
<1>12. 2 ^ (a + k) = 2 * (x * y)
  BY <1>7, <1>11, PowerAssumption
<1>13. 2 ^ k = 2 * y
  BY <1>7, <1>9, PowerAssumption
<1>14. x * (2 * y) = 2 * (x * y)
  BY <1>10
<1>15. QED
  BY <1>4, <1>8, <1>12, <1>13, <1>14

-----------------------------------------------------------------------------
(* Prefixes *)

\* The widths of addresses.
LEMMA SizeType ==
  ASSUME NEW v6, v6 \in BOOLEAN
  PROVE  /\ inet_size(v6) \in Widths /\ inet_size(v6) \in Nat \ {0}
         /\ \E z \in Nat : inet_size(v6) = ByteBits * z
<1>1. PICK z : z = WordBits \div ByteBits
  OBVIOUS
<1>2. ByteBits \in Nat \ {0} /\ WordBits \in Nat \ {0} /\ WordBits % ByteBits = 0
  BY WidthAssumption
<1>3. z \in Nat /\ WordBits = ByteBits * z
  <2>1. z \in Nat /\ WordBits = ByteBits * z + (WordBits % ByteBits)
    BY <1>1, <1>2, Division
  <2>2. ByteBits * z \in Nat
    BY <1>2, <2>1
  <2>3. QED
    BY <1>2, <2>1, <2>2
<1>4. 4 * WordBits = ByteBits * (4 * z)
  BY <1>2, <1>3
<1>5. 4 * z \in Nat
  BY <1>3
<1>6. inet_size(v6) = IF v6 THEN 4 * WordBits ELSE WordBits
  BY DEF inet_size
<1>7. CASE v6 = TRUE
  <2>1. inet_size(v6) = 4 * WordBits
    BY <1>6, <1>7
  <2>2. QED
    BY <1>2, <1>4, <1>5, <2>1 DEF Widths
<1>8. CASE v6 = FALSE
  <2>1. inet_size(v6) = WordBits
    BY <1>6, <1>8
  <2>2. QED
    BY <1>2, <1>3, <2>1 DEF Widths
<1>9. QED
  BY <1>7, <1>8

\* The power of what is left of a width, split where the rest is.
LEMMA PowerSplit ==
  ASSUME NEW n, n \in Widths, NEW m, m \in 0 .. n
  PROVE  /\ m \in Widths /\ n - m \in Widths
         /\ 2 ^ n = 2 ^ m * 2 ^ (n - m) /\ 2 ^ n = 2 ^ (n - m) * 2 ^ m
         /\ 2 ^ n \in Nat \ {0} /\ 2 ^ m \in Nat \ {0} /\ 2 ^ (n - m) \in Nat \ {0}
<1>1. WordBits \in Nat
  BY WidthAssumption
<1>2. PICK k : k = n - m
  OBVIOUS
<1>3. n \in Widths /\ m \in Widths /\ k \in Widths /\ k \in Nat /\ m \in Nat /\ n = m + k
      /\ n = k + m
  BY <1>1, <1>2 DEF Widths
<1>4. 2 ^ (m + k) = 2 ^ m * 2 ^ k /\ 2 ^ (k + m) = 2 ^ k * 2 ^ m
  BY <1>3, PowerSum
<1>5. 2 ^ n \in Nat \ {0} /\ 2 ^ m \in Nat \ {0} /\ 2 ^ k \in Nat \ {0}
  BY <1>3, PowerPositive
<1>6. 2 ^ n = 2 ^ m * 2 ^ k /\ 2 ^ n = 2 ^ k * 2 ^ m
  BY <1>3, <1>4
<1>7. QED
  BY <1>2, <1>3, <1>5, <1>6

\* The first m of the bits of an address.
First(addr, m, size) == addr \div 2 ^ (size - m)

\* Addresses have the same first m + w bits if the first m are the same and the w
\* behind them are.
SameLast(s1, s2, n, w, size) == First(s1, n, size) % 2 ^ w = First(s2, n, size) % 2 ^ w
SameFirst(s1, s2, m, w, size) ==
  First(s1, m + w, size) = First(s2, m + w, size)
    <=> First(s1, m, size) = First(s2, m, size) /\ SameLast(s1, s2, m + w, w, size)

\* They do.
LEMMA FirstBits ==
  ASSUME NEW size, size \in Widths, NEW m, m \in Nat, NEW w, w \in Nat, m + w <= size,
         NEW s1, s1 \in Nat, NEW s2, s2 \in Nat
  PROVE  SameFirst(s1, s2, m, w, size)
<1>1. WordBits \in Nat /\ size \in Nat
  BY WidthAssumption DEF Widths
<1>2. PICK n : n = size - m
  OBVIOUS
<1>3. n \in Widths /\ w \in 0 .. n /\ n - w = size - (m + w)
  BY <1>1, <1>2 DEF Widths
<1>4. 2 ^ n = 2 ^ (n - w) * 2 ^ w /\ 2 ^ (n - w) \in Nat \ {0} /\ 2 ^ w \in Nat \ {0}
  BY <1>3, PowerSplit
<1>5. PICK a : a = 2 ^ (n - w)
  OBVIOUS
<1>6. PICK b : b = 2 ^ w
  OBVIOUS
<1>7. a \in Nat \ {0} /\ b \in Nat \ {0} /\ 2 ^ n = a * b
  BY <1>4, <1>5, <1>6
<1>8. ASSUME NEW s, s \in Nat
      PROVE  /\ First(s, m + w, size) \in Nat
             /\ First(s, m, size) = First(s, m + w, size) \div b
  <2>1. First(s, m, size) = s \div (a * b)
    BY <1>2, <1>7 DEF First
  <2>2. First(s, m + w, size) = s \div a
    BY <1>3, <1>5 DEF First
  <2>3. s \div a \in Nat
    BY <1>7, <1>8, Division
  <2>4. DividesTwice(s, a, b)
    BY <1>7, <1>8, DivisionTwice
  <2>5. s \div (a * b) = (s \div a) \div b
    BY <2>4 DEF DividesTwice
  <2>6. QED
    BY <2>1, <2>2, <2>3, <2>5
<1>9. PICK x : x = First(s1, m + w, size)
  OBVIOUS
<1>10. PICK y : y = First(s2, m + w, size)
  OBVIOUS
<1>11. x \in Nat /\ y \in Nat /\ First(s1, m, size) = x \div b /\ First(s2, m, size) = y \div b
  BY <1>8, <1>9, <1>10
<1>12. x = b * (x \div b) + (x % b) /\ y = b * (y \div b) + (y % b)
  BY <1>7, <1>11, Division
<1>13. x = y <=> x \div b = y \div b /\ x % b = y % b
  BY <1>12
<1>14. QED
  BY <1>6, <1>9, <1>10, <1>11, <1>13 DEF SameFirst, SameLast

\* The units of an address behind its first bits.
LEMMA UnitBehind ==
  ASSUME NEW addr, NEW k, k \in Nat, NEW w, w \in Nat, NEW size, size \in Nat
  PROVE  Unit(addr, k, w, size) = First(addr, w * k + w, size) % 2 ^ w
<1>1. w * (k + 1) = w * k + w
  OBVIOUS
<1>2. QED
  BY <1>1 DEF Unit, First

\* The bytes of addresses are the same up to some byte if the first bits are.
LEMMA SameBytes ==
  ASSUME NEW v6, v6 \in BOOLEAN, NEW s1, s1 \in Addrs(v6), NEW s2, s2 \in Addrs(v6),
         NEW b, b \in Nat, ByteBits * b <= inet_size(v6)
  PROVE  (\A k \in 0 .. b - 1 : Unit(s1, k, ByteBits, inet_size(v6))
                                  = Unit(s2, k, ByteBits, inet_size(v6)))
           <=> First(s1, ByteBits * b, inet_size(v6)) = First(s2, ByteBits * b, inet_size(v6))
<1>1. PICK size : size = inet_size(v6)
  OBVIOUS
<1>2. /\ size \in Widths /\ size \in Nat \ {0} /\ ByteBits \in Nat \ {0}
      /\ s1 \in Nat /\ s2 \in Nat /\ s1 < 2 ^ size /\ s2 < 2 ^ size /\ 2 ^ size \in Nat \ {0}
  BY <1>1, SizeType, PowerPositive, WidthAssumption DEF Addrs
<1> DEFINE Same(k) == Unit(s1, k, ByteBits, size) = Unit(s2, k, ByteBits, size)
           SameTo(n) == First(s1, ByteBits * n, size) = First(s2, ByteBits * n, size)
           bad == {n \in 0 .. b : ~((\A k \in 0 .. n - 1 : Same(k)) <=> SameTo(n))}
<1>3. SUFFICES ASSUME bad # {} PROVE FALSE
  BY <1>1
<1>4. PICK n \in bad : \A m \in bad : n <= m
  <2>1. bad \in SUBSET Nat
    OBVIOUS
  <2> HIDE DEF bad
  <2>2. QED
    BY <1>3, <2>1, LeastElement
<1>5. n # 0
  <2>1. SUFFICES ASSUME n = 0 PROVE FALSE
    OBVIOUS
  <2>2. First(s1, 0, size) = 0 /\ First(s2, 0, size) = 0
    <3>1. size - 0 = size
      BY <1>2
    <3>2. ASSUME NEW s, s \in Nat, s < 2 ^ size PROVE s \div 2 ^ size = 0
      <4>1. PICK d : d = 2 ^ size
        OBVIOUS
      <4>2. d \in Nat \ {0} /\ s < d /\ s = d * 0 + s
        BY <1>2, <3>2, <4>1
      <4>3. s \div d = 0
        BY <3>2, <4>2, DivisionUnique
      <4>4. QED
        BY <4>1, <4>3
    <3>3. QED
      BY <1>2, <3>1, <3>2 DEF First
  <2>3. ByteBits * 0 = 0
    BY <1>2
  <2>4. SameTo(0)
    BY <2>2, <2>3
  <2>5. \A k \in 0 .. 0 - 1 : Same(k)
    OBVIOUS
  <2> HIDE DEF Same, SameTo
  <2>6. QED
    BY <1>4, <2>1, <2>4, <2>5
<1>6. PICK m : m = n - 1
  OBVIOUS
<1>7. m \in Nat /\ n = m + 1 /\ m \in 0 .. b /\ n \in 0 .. b /\ ~(n <= m)
  BY <1>4, <1>5, <1>6
<1>8. (\A k \in 0 .. m - 1 : Same(k)) <=> SameTo(m)
  <2> HIDE DEF Same, SameTo
  <2>1. QED
    BY <1>4, <1>7
<1>9. (\A k \in 0 .. n - 1 : Same(k)) <=> (\A k \in 0 .. m - 1 : Same(k)) /\ Same(m)
  <2> HIDE DEF Same
  <2>1. QED
    BY <1>7
<1>10. SameTo(n) <=> SameTo(m) /\ Same(m)
  <2>1. PICK c : c = ByteBits * m
    OBVIOUS
  <2>2. PICK k : k = c + ByteBits
    OBVIOUS
  <2>3. c \in Nat /\ ByteBits * n = k /\ k <= size
    <3>1. PICK e \in Nat : b = n + e
      <4>1. b - n \in Nat /\ b = n + (b - n)
        BY <1>7
      <4>2. QED
        BY <4>1
    <3>2. ByteBits * b = ByteBits * m + ByteBits + ByteBits * e /\ ByteBits * e \in Nat
      BY <1>2, <1>7, <3>1
    <3>3. ByteBits * m \in Nat /\ ByteBits * n = ByteBits * m + ByteBits
      BY <1>2, <1>7
    <3>4. QED
      BY <1>1, <1>2, <2>1, <2>2, <3>2, <3>3
  <2>4. SameFirst(s1, s2, c, ByteBits, size)
    BY <1>2, <2>2, <2>3, FirstBits
  <2>5. Same(m) <=> SameLast(s1, s2, k, ByteBits, size)
    BY <1>2, <1>7, <2>1, <2>2, UnitBehind DEF SameLast
  <2>6. QED
    BY <2>1, <2>2, <2>3, <2>4, <2>5 DEF SameFirst
<1> HIDE DEF Same, SameTo
<1>11. QED
  BY <1>4, <1>8, <1>9, <1>10

\* membcmp compares the first n bits.
LEMMA ComparesFirst ==
  ASSUME NEW v6, v6 \in BOOLEAN, NEW s1, s1 \in Addrs(v6), NEW s2, s2 \in Addrs(v6),
         NEW n, n \in 0 .. inet_size(v6)
  PROVE  membcmpEq(s1, s2, n, inet_size(v6))
           <=> First(s1, n, inet_size(v6)) = First(s2, n, inet_size(v6))
<1>1. PICK size : size = inet_size(v6)
  OBVIOUS
<1>2. PICK bytes : bytes = n \div ByteBits
  OBVIOUS
<1>3. PICK bits : bits = n % ByteBits
  OBVIOUS
<1>4. /\ size \in Widths /\ size \in Nat \ {0} /\ ByteBits \in Nat \ {0}
      /\ s1 \in Nat /\ s2 \in Nat /\ 2 ^ size \in Nat \ {0} /\ n \in Nat /\ n <= size
  BY <1>1, SizeType, PowerPositive, WidthAssumption DEF Addrs
<1>5. bytes \in Nat /\ bits \in Nat /\ bits < ByteBits /\ n = ByteBits * bytes + bits
  BY <1>2, <1>3, <1>4, Division
<1>6. PICK c : c = ByteBits * bytes
  OBVIOUS
<1>7. c \in Nat /\ n = c + bits /\ c <= size
  BY <1>4, <1>5, <1>6
<1>8. (\A k \in 0 .. bytes - 1 : Unit(s1, k, ByteBits, size) = Unit(s2, k, ByteBits, size))
        <=> First(s1, c, size) = First(s2, c, size)
  BY <1>1, <1>5, <1>6, <1>7, SameBytes
<1> DEFINE masked(s) == Unit(s, bytes, ByteBits, size) \div 2 ^ (ByteBits - bits)
<1>9. membcmpEq(s1, s2, n, size)
        <=> /\ First(s1, c, size) = First(s2, c, size)
            /\ bits # 0 => masked(s1) = masked(s2)
  BY <1>2, <1>3, <1>8 DEF membcmpEq
<1>10. CASE bits = 0
  <2>1. n = c
    BY <1>7, <1>10
  <2> HIDE DEF masked
  <2>2. QED
    BY <1>1, <1>9, <1>10, <2>1
<1>11. CASE bits # 0
  <2>1. c + ByteBits <= size
    <3>1. PICK z \in Nat : size = ByteBits * z
      BY <1>1, SizeType
    <3>2. ~(z <= bytes)
      <4>1. SUFFICES ASSUME z <= bytes PROVE FALSE
        OBVIOUS
      <4>2. PICK e \in Nat : bytes = z + e
        <5>1. bytes - z \in Nat /\ bytes = z + (bytes - z)
          BY <1>5, <4>1
        <5>2. QED
          BY <5>1
      <4>3. ByteBits * bytes = ByteBits * z + ByteBits * e /\ ByteBits * e \in Nat
        BY <1>4, <4>2
      <4>4. QED
        BY <1>4, <1>5, <1>11, <3>1, <4>3
    <3>3. PICK e \in Nat : z = bytes + 1 + e
      <4>1. z - bytes - 1 \in Nat /\ z = bytes + 1 + (z - bytes - 1)
        BY <1>5, <3>2
      <4>2. QED
        BY <4>1
    <3>4. ByteBits * z = ByteBits * bytes + ByteBits + ByteBits * e /\ ByteBits * e \in Nat
      BY <1>4, <1>5, <3>3
    <3>5. QED
      BY <1>4, <1>6, <1>7, <3>1, <3>4
  <2>2. PICK w : w = ByteBits - bits
    OBVIOUS
  <2>3. w \in Nat /\ ByteBits = w + bits /\ w \in 0 .. ByteBits /\ ByteBits - w = bits
    BY <1>4, <1>5, <2>2
  <2>4. ByteBits \in Widths
    BY <1>4, <1>7, <2>1, WidthAssumption DEF Widths
  <2>5. 2 ^ ByteBits = 2 ^ w * 2 ^ bits /\ 2 ^ w \in Nat \ {0} /\ 2 ^ bits \in Nat \ {0}
    BY <2>3, <2>4, PowerSplit
  <2>6. ASSUME NEW s, s \in Nat
        PROVE  masked(s) = First(s, c + bits, size) % 2 ^ bits
    <3>1. Unit(s, bytes, ByteBits, size) = First(s, c + ByteBits, size) % 2 ^ ByteBits
      BY <1>4, <1>5, <1>6, UnitBehind
    <3>2. PICK k : k = size - (c + ByteBits)
      OBVIOUS
    <3>3. k \in Nat /\ k + w = size - (c + bits) /\ k + w \in Widths /\ k \in Widths
      <4>1. WordBits \in Nat /\ size <= 4 * WordBits
        BY <1>4, WidthAssumption DEF Widths
      <4>2. k \in Nat /\ k + w = size - (c + bits) /\ k + w \in Nat /\ k + w <= size
        BY <1>4, <1>5, <1>7, <2>1, <2>3, <3>2
      <4>3. QED
        BY <1>4, <2>3, <4>1, <4>2 DEF Widths
    <3>4. 2 ^ (k + w) = 2 ^ k * 2 ^ w /\ 2 ^ k \in Nat \ {0}
      BY <2>3, <3>3, PowerSum, PowerPositive
    <3>5. PICK a : a = 2 ^ k
      OBVIOUS
    <3>6. PICK d : d = 2 ^ w
      OBVIOUS
    <3>7. PICK e : e = 2 ^ bits
      OBVIOUS
    <3>8. PICK q : q = s \div a
      OBVIOUS
    <3>9. a \in Nat \ {0} /\ d \in Nat \ {0} /\ e \in Nat \ {0} /\ q \in Nat
      BY <2>5, <2>6, <3>4, <3>5, <3>6, <3>7, <3>8, Division
    <3>10. PICK f : f = d * e
      OBVIOUS
    <3>11. Unit(s, bytes, ByteBits, size) = q % f
      <4>1. First(s, c + ByteBits, size) = q
        BY <3>2, <3>5, <3>8 DEF First
      <4>2. 2 ^ ByteBits = f
        BY <2>5, <3>6, <3>7, <3>10
      <4>3. QED
        BY <3>1, <4>1, <4>2
    <3>12. (q % f) \div d = (q \div d) % e
      <4>1. DividesTwice(q, d, e)
        BY <3>9, DivisionTwice
      <4>2. QED
        BY <3>10, <4>1 DEF DividesTwice
    <3>13. q \div d = First(s, c + bits, size)
      <4>1. DividesTwice(s, a, d)
        BY <2>6, <3>9, DivisionTwice
      <4>2. s \div (a * d) = (s \div a) \div d
        BY <4>1 DEF DividesTwice
      <4>3. QED
        BY <3>3, <3>4, <3>5, <3>6, <3>8, <4>2 DEF First
    <3>14. QED
      BY <2>2, <3>6, <3>7, <3>11, <3>12, <3>13
  <2> HIDE DEF masked
  <2>7. SameFirst(s1, s2, c, bits, size)
    BY <1>4, <1>5, <1>7, FirstBits
  <2>8. masked(s1) = masked(s2) <=> SameLast(s1, s2, c + bits, bits, size)
    BY <1>4, <2>6 DEF SameLast
  <2>9. QED
    BY <1>1, <1>7, <1>9, <1>11, <2>7, <2>8 DEF SameFirst
<1>12. QED
  BY <1>10, <1>11

\* No bit is set behind the first m of an address, in steps.
Clear(addr, m, size) == addr % 2 ^ (size - m) = 0
ClearStep(addr, m, w, size) ==
  Clear(addr, m, size) <=> Clear(addr, m + w, size) /\ First(addr, m + w, size) % 2 ^ w = 0

\* They do, for any step.
LEMMA ClearBits ==
  ASSUME NEW size, size \in Widths, NEW m, m \in Nat, NEW w, w \in Nat, m + w <= size,
         NEW addr, addr \in Nat
  PROVE  ClearStep(addr, m, w, size)
<1>1. WordBits \in Nat /\ size \in Nat
  BY WidthAssumption DEF Widths
<1>2. PICK n : n = size - m
  OBVIOUS
<1>3. n \in Widths /\ w \in 0 .. n /\ n - w = size - (m + w)
  BY <1>1, <1>2 DEF Widths
<1>4. 2 ^ n = 2 ^ (n - w) * 2 ^ w /\ 2 ^ (n - w) \in Nat \ {0} /\ 2 ^ w \in Nat \ {0}
  BY <1>3, PowerSplit
<1>5. PICK a : a = 2 ^ (n - w)
  OBVIOUS
<1>6. PICK b : b = 2 ^ w
  OBVIOUS
<1>7. a \in Nat \ {0} /\ b \in Nat \ {0} /\ 2 ^ n = a * b
  BY <1>4, <1>5, <1>6
<1>8. DividesTwice(addr, a, b)
  BY <1>7, DivisionTwice
<1>9. addr % (a * b) = 0 <=> addr % a = 0 /\ (addr \div a) % b = 0
  BY <1>8 DEF DividesTwice
<1>10. Clear(addr, m, size) <=> addr % (a * b) = 0
  BY <1>2, <1>7 DEF Clear
<1>11. Clear(addr, m + w, size) <=> addr % a = 0
  BY <1>3, <1>5 DEF Clear
<1>12. First(addr, m + w, size) = addr \div a
  BY <1>3, <1>5 DEF First
<1>13. QED
  BY <1>6, <1>9, <1>10, <1>11, <1>12 DEF ClearStep

\* The words of an IPv6 address from the f-th on.
LEMMA ClearWords ==
  ASSUME NEW addr, addr \in Nat, NEW f, f \in Nat, f <= 4
  PROVE  (\A k \in 0 .. 3 : k >= f => Unit(addr, k, WordBits, 4 * WordBits) = 0)
           <=> Clear(addr, WordBits * f, 4 * WordBits)
<1> DEFINE zero(k) == Unit(addr, k, WordBits, 4 * WordBits) = 0
<1>1. PICK size : size = 4 * WordBits
  OBVIOUS
<1>2. PICK W : W = WordBits
  OBVIOUS
<1>3. W \in Nat \ {0} /\ size = 4 * W /\ size \in Widths /\ size \in Nat
  BY <1>1, <1>2, WidthAssumption DEF Widths
<1>4. Clear(addr, 4 * W, size)
  <2>1. size - 4 * W = 0
    BY <1>3
  <2>2. 2 ^ (size - 4 * W) = 1
    BY <2>1, PowerAssumption
  <2>3. addr % 1 = 0
    OBVIOUS
  <2>4. QED
    BY <2>2, <2>3 DEF Clear
<1>5. ASSUME NEW k, k \in 0 .. 3
      PROVE  Clear(addr, W * k, size) <=> Clear(addr, W * k + W, size) /\ zero(k)
  <2>1. W * k \in Nat /\ W * k + W <= size
    <3>1. PICK e \in Nat : 4 = k + 1 + e
      <4>1. 3 - k \in Nat /\ 4 = k + 1 + (3 - k)
        BY <1>5
      <4>2. QED
        BY <4>1
    <3>2. W * 4 = W * k + W + W * e /\ W * e \in Nat /\ W * k \in Nat
      BY <1>3, <1>5, <3>1
    <3>3. QED
      BY <1>3, <3>2
  <2>2. ClearStep(addr, W * k, W, size)
    BY <1>3, <2>1, ClearBits
  <2>3. Unit(addr, k, W, size) = First(addr, W * k + W, size) % 2 ^ W
    <3>1. W * (k + 1) = W * k + W
      BY <1>3, <1>5
    <3>2. QED
      BY <3>1 DEF Unit, First
  <2>4. QED
    BY <1>1, <1>2, <2>2, <2>3 DEF ClearStep
<1>6. W * 0 = 0 /\ W * 1 = W /\ W * 2 = 2 * W /\ W * 3 = 3 * W /\ W * 4 = 4 * W
  BY <1>3
<1>7. 0 + W = W /\ W + W = 2 * W /\ 2 * W + W = 3 * W /\ 3 * W + W = 4 * W
  BY <1>3
<1>8. PICK zeros : zeros = [k \in 0 .. 3 |-> zero(k)]
  OBVIOUS
<1>9. \A k \in 0 .. 3 : zeros[k] <=> zero(k)
  BY <1>8
<1>10. /\ Clear(addr, 3 * W, size) <=> zero(3)
       /\ Clear(addr, 2 * W, size) <=> Clear(addr, 3 * W, size) /\ zero(2)
       /\ Clear(addr, W, size) <=> Clear(addr, 2 * W, size) /\ zero(1)
       /\ Clear(addr, 0, size) <=> Clear(addr, W, size) /\ zero(0)
  <2>1. Clear(addr, W * 3, size) <=> Clear(addr, W * 3 + W, size) /\ zero(3)
    BY <1>5
  <2>2. Clear(addr, W * 2, size) <=> Clear(addr, W * 2 + W, size) /\ zero(2)
    BY <1>5
  <2>3. Clear(addr, W * 1, size) <=> Clear(addr, W * 1 + W, size) /\ zero(1)
    BY <1>5
  <2>4. Clear(addr, W * 0, size) <=> Clear(addr, W * 0 + W, size) /\ zero(0)
    BY <1>5
  <2> HIDE DEF zero
  <2>5. QED
    BY <1>4, <1>6, <1>7, <2>1, <2>2, <2>3, <2>4
<1> HIDE DEF zero
<1>11. \A k \in 0 .. 3 : k = 0 \/ k = 1 \/ k = 2 \/ k = 3
  OBVIOUS
<1>12. f = 0 \/ f = 1 \/ f = 2 \/ f = 3 \/ f = 4
  OBVIOUS
<1>13. (\A k \in 0 .. 3 : k >= f => zero(k)) <=> Clear(addr, W * f, size)
  <2>1. CASE f = 0
    BY <1>6, <1>10, <1>11, <2>1
  <2>2. CASE f = 1
    BY <1>6, <1>10, <1>11, <2>2
  <2>3. CASE f = 2
    BY <1>6, <1>10, <1>11, <2>3
  <2>4. CASE f = 3
    BY <1>6, <1>10, <1>11, <2>4
  <2>5. CASE f = 4
    BY <1>4, <1>6, <2>5
  <2>6. QED
    BY <1>12, <2>1, <2>2, <2>3, <2>4, <2>5
<1>14. QED
  BY <1>1, <1>2, <1>13 DEF zero

\* The route check: with a prefix, it tells whether a bit is set behind it.
LEMMA ChecksClear ==
  ASSUME NEW v6, v6 \in BOOLEAN, NEW network, network \in Nat,
         NEW prefix, prefix \in Nat \ {0}, prefix <= inet_size(v6)
  PROVE  inet_isnetwork(v6, network, prefix) = {Clear(network, prefix, inet_size(v6))}
<1>1. CASE v6 = FALSE
  <2>1. inet_isnetwork(v6, network, prefix) = isnetwork4(network, prefix)
    BY <1>1 DEF inet_isnetwork
  <2>2. isnetwork4(network, prefix) = {network % 2 ^ (WordBits - prefix) = 0}
    BY DEF isnetwork4
  <2>3. inet_size(v6) = WordBits
    BY <1>1 DEF inet_size
  <2>4. QED
    BY <2>1, <2>2, <2>3 DEF Clear
<1>2. CASE v6 = TRUE
  <2> DEFINE word(k) == Unit(network, k, WordBits, 4 * WordBits)
  <2>1. PICK full : full = prefix \div WordBits
    OBVIOUS
  <2>2. PICK rem : rem = prefix % WordBits
    OBVIOUS
  <2>3. PICK W : W = WordBits
    OBVIOUS
  <2>4. PICK size : size = 4 * W
    OBVIOUS
  <2>5. /\ W \in Nat \ {0} /\ size \in Widths /\ size \in Nat /\ inet_size(v6) = size
        /\ 4 * WordBits = size
    BY <1>2, <2>3, <2>4, WidthAssumption DEF Widths, inet_size
  <2>6. full \in Nat /\ rem \in Nat /\ rem < W /\ prefix = W * full + rem
    BY <2>1, <2>2, <2>3, <2>5, Division
  <2>7. full <= 4 /\ (rem # 0 => full <= 3) /\ (rem = 0 => full >= 1)
    <3>1. ASSUME NEW e \in Nat, full = 4 + e PROVE e = 0 /\ rem = 0
      <4>1. W * full = W * 4 + W * e /\ W * e \in Nat
        BY <2>5, <3>1
      <4>2. W * e = 0 /\ rem = 0
        BY <2>4, <2>5, <2>6, <4>1
      <4>3. QED
        BY <2>5, <4>2
    <3>2. full >= 4 => full = 4 /\ rem = 0
      <4>1. SUFFICES ASSUME full >= 4 PROVE full = 4 /\ rem = 0
        OBVIOUS
      <4>2. full - 4 \in Nat /\ full = 4 + (full - 4)
        BY <2>6, <4>1
      <4>3. QED
        BY <2>6, <3>1, <4>2
    <3>3. rem = 0 => full # 0
      BY <2>5, <2>6
    <3>4. QED
      BY <2>6, <3>2, <3>3
  <2>8. PICK f : f = full + (IF rem = 0 THEN 0 ELSE 1)
    OBVIOUS
  <2>9. f \in Nat /\ f <= 4
    BY <2>6, <2>7, <2>8
  <2>10. (\E k \in 0 .. 3 : k > full - (IF rem = 0 THEN 1 ELSE 0) /\ word(k) # 0)
           <=> ~Clear(network, W * f, size)
    <3>1. (\A k \in 0 .. 3 : k >= f => word(k) = 0) <=> Clear(network, W * f, size)
      BY <2>3, <2>5, <2>9, ClearWords
    <3> HIDE DEF word
    <3>2. \A k \in 0 .. 3 : k > full - (IF rem = 0 THEN 1 ELSE 0) <=> k >= f
      BY <2>6, <2>8
    <3>3. QED
      BY <3>1, <3>2
  <2>11. inet_isnetwork(v6, network, prefix) = isnetwork6(network, prefix)
    BY <1>2 DEF inet_isnetwork
  <2>12. isnetwork6(network, prefix)
           = IF ~Clear(network, W * f, size) THEN {FALSE}
             ELSE IF rem = 0 THEN {TRUE} ELSE isnetwork4(word(full), rem)
    <3>1. isnetwork6(network, prefix)
            = IF \E k \in 0 .. 3 : k > full - (IF rem = 0 THEN 1 ELSE 0) /\ word(k) # 0
              THEN {FALSE}
              ELSE IF rem = 0 THEN {TRUE} ELSE isnetwork4(word(full), rem)
      BY <2>1, <2>2 DEF isnetwork6
    <3> HIDE DEF word
    <3>2. QED
      BY <2>10, <3>1
  <2>13. CASE rem = 0
    <3>1. f = full /\ prefix = W * f
      BY <2>5, <2>6, <2>8, <2>13
    <3>2. isnetwork6(network, prefix) = IF ~Clear(network, prefix, size) THEN {FALSE} ELSE {TRUE}
      BY <2>12, <2>13, <3>1
    <3>3. Clear(network, prefix, size) \in BOOLEAN
      BY DEF Clear
    <3>4. QED
      BY <2>5, <2>11, <3>2, <3>3
  <2>14. CASE rem # 0
    <3>1. PICK w : w = W - rem
      OBVIOUS
    <3>2. PICK c : c = W * f
      OBVIOUS
    <3>3. /\ w \in Nat /\ w \in 0 .. W /\ W - w = rem /\ prefix + w = c /\ c <= size
          /\ c = W * full + W /\ W \in Widths
      <4>1. f = full + 1 /\ full <= 3
        BY <2>7, <2>8, <2>14
      <4>2. W * f = W * full + W /\ W * full \in Nat
        BY <2>5, <2>6, <4>1
      <4>3. PICK e \in Nat : 4 = f + e
        <5>1. 4 - f \in Nat /\ 4 = f + (4 - f)
          BY <2>9
        <5>2. QED
          BY <5>1
      <4>4. W * 4 = W * f + W * e /\ W * e \in Nat
        BY <2>5, <2>9, <4>3
      <4>5. W \in Widths
        BY <2>3, WidthAssumption DEF Widths
      <4>6. QED
        BY <2>4, <2>5, <2>6, <3>1, <3>2, <4>2, <4>4, <4>5
    <3>4. PICK q : q = First(network, c, size)
      OBVIOUS
    <3>5. q \in Nat
      <4>1. size - c \in Widths
        BY <2>5, <2>6, <3>3, WidthAssumption DEF Widths
      <4>2. 2 ^ (size - c) \in Nat \ {0}
        BY <4>1, PowerPositive
      <4>3. QED
        BY <3>4, <4>2, Division DEF First
    <3>6. ClearStep(network, prefix, w, size)
      BY <2>5, <3>3, ClearBits
    <3>7. Clear(network, prefix, size) <=> Clear(network, c, size) /\ q % 2 ^ w = 0
      BY <3>3, <3>4, <3>6 DEF ClearStep
    <3>8. word(full) = q % 2 ^ W
      BY <2>3, <2>5, <2>6, <3>3, <3>4, UnitBehind
    <3>9. word(full) % 2 ^ w = q % 2 ^ w
      <4>1. 2 ^ W = 2 ^ w * 2 ^ rem /\ 2 ^ w \in Nat \ {0} /\ 2 ^ rem \in Nat \ {0}
        BY <3>3, PowerSplit
      <4>2. PICK a : a = 2 ^ w
        OBVIOUS
      <4>3. PICK b : b = 2 ^ rem
        OBVIOUS
      <4>4. DividesTwice(q, a, b)
        BY <3>5, <4>1, <4>2, <4>3, DivisionTwice
      <4>5. (q % (a * b)) % a = q % a
        BY <4>4 DEF DividesTwice
      <4>6. 2 ^ W = a * b
        BY <4>1, <4>2, <4>3
      <4> HIDE DEF word
      <4>7. QED
        BY <3>8, <4>2, <4>5, <4>6
    <3> HIDE DEF word
    <3>10. isnetwork4(word(full), rem) = {word(full) % 2 ^ (WordBits - rem) = 0}
      BY <2>14 DEF isnetwork4
    <3>11. isnetwork4(word(full), rem) = {q % 2 ^ w = 0}
      BY <2>3, <3>1, <3>9, <3>10
    <3>12. isnetwork6(network, prefix)
             = IF ~Clear(network, c, size) THEN {FALSE} ELSE {q % 2 ^ w = 0}
      BY <2>12, <2>14, <3>2, <3>11
    <3>13. CASE Clear(network, c, size)
      <4>1. Clear(network, prefix, size) = (q % 2 ^ w = 0)
        BY <3>7, <3>13 DEF Clear
      <4>2. QED
        BY <2>5, <2>11, <3>12, <3>13, <4>1
    <3>14. CASE ~Clear(network, c, size)
      <4>1. Clear(network, prefix, size) = FALSE
        BY <3>7, <3>14 DEF Clear
      <4>2. QED
        BY <2>5, <2>11, <3>12, <3>14, <4>1
    <3>15. QED
      BY <3>13, <3>14
  <2>15. QED
    BY <2>13, <2>14
<1>3. QED
  BY <1>1, <1>2

\* A route covers one interval of addresses and starts it.
LEMMA CoversInterval ==
  ASSUME NEW v6, v6 \in BOOLEAN, NEW network, network \in Addrs(v6),
         NEW prefix, prefix \in 0 .. inet_size(v6), Clear(network, prefix, inet_size(v6)),
         NEW addr, addr \in Addrs(v6)
  PROVE  membcmpEq(network, addr, prefix, inet_size(v6))
           <=> addr \in network .. network + 2 ^ (inet_size(v6) - prefix) - 1
<1>1. PICK size : size = inet_size(v6)
  OBVIOUS
<1>2. PICK d : d = 2 ^ (size - prefix)
  OBVIOUS
<1>3. d \in Nat \ {0} /\ network \in Nat /\ addr \in Nat
  <2>1. size \in Widths /\ size \in Nat
    BY <1>1, SizeType
  <2>2. size - prefix \in Widths
    BY <1>1, <2>1, WidthAssumption DEF Widths
  <2>3. 2 ^ (size - prefix) \in Nat \ {0} /\ 2 ^ size \in Nat \ {0}
    BY <2>1, <2>2, PowerPositive
  <2>4. QED
    BY <1>1, <1>2, <2>3 DEF Addrs
<1>4. membcmpEq(network, addr, prefix, size) <=> network \div d = addr \div d
  BY <1>1, <1>2, ComparesFirst DEF First
<1>5. PICK q : q = network \div d
  OBVIOUS
<1>6. PICK k : k = addr \div d
  OBVIOUS
<1>7. PICK r : r = addr % d
  OBVIOUS
<1>8. network % d = 0
  BY <1>1, <1>2 DEF Clear
<1>9. /\ q \in Nat /\ k \in Nat /\ r \in Nat /\ r < d
      /\ network = d * q /\ addr = d * k + r
  BY <1>3, <1>5, <1>6, <1>7, <1>8, Division
<1>10. ASSUME q = k PROVE addr >= network /\ addr <= network + d - 1
  <2>1. PICK p : p = d * q
    OBVIOUS
  <2>2. p \in Nat /\ network = p /\ addr = p + r
    BY <1>3, <1>9, <1>10, <2>1
  <2>3. QED
    BY <1>3, <1>9, <2>2
<1>11. ASSUME addr >= network, addr <= network + d - 1 PROVE q = k
  <2>1. PICK s : s = addr - network
    OBVIOUS
  <2>2. s \in Nat /\ s < d /\ addr = d * q + s
    BY <1>3, <1>9, <1>11, <2>1
  <2>3. addr \div d = q
    BY <1>3, <1>9, <2>2, DivisionUnique
  <2>4. QED
    BY <1>6, <2>3
<1>12. addr \in network .. network + d - 1 <=> addr >= network /\ addr <= network + d - 1
  BY <1>3
<1>13. QED
  BY <1>1, <1>2, <1>4, <1>5, <1>6, <1>10, <1>11, <1>12

-----------------------------------------------------------------------------
(* Shifts *)

\* Numbers below m stay apart when they are moved modulo m.
Apart(u, v, c, m) == (u + c) % m = (v + c) % m <=> u = v

\* They do.
LEMMA MovedApart ==
  ASSUME NEW m, m \in Nat \ {0}, NEW u, u \in Nat, u < m, NEW v, v \in Nat, v < m,
         NEW c, c \in Int
  PROVE  Apart(u, v, c, m)
<1>1. SUFFICES ASSUME (u + c) % m = (v + c) % m PROVE u = v
  BY DEF Apart
<1>2. PICK x : x = u + c
  OBVIOUS
<1>3. PICK y : y = v + c
  OBVIOUS
<1>4. PICK j : j = x \div m
  OBVIOUS
<1>5. PICK k : k = y \div m
  OBVIOUS
<1>6. PICK r : r = x % m
  OBVIOUS
<1>7. r = y % m
  BY <1>1, <1>2, <1>3, <1>6
<1>8. j \in Int /\ k \in Int /\ x = m * j + r /\ y = m * k + r /\ r \in Nat
  BY <1>2, <1>3, <1>4, <1>5, <1>6, <1>7, Division
<1>9. u - v = m * j - m * k
  <2>1. m * j \in Int /\ m * k \in Int
    BY <1>8
  <2>2. QED
    BY <1>2, <1>3, <1>8, <2>1
<1>10. ~(j < k)
  <2>1. SUFFICES ASSUME j < k PROVE FALSE
    OBVIOUS
  <2>2. PICK e \in Nat : k = j + 1 + e
    <3>1. k - j - 1 \in Nat /\ k = j + 1 + (k - j - 1)
      BY <1>8, <2>1
    <3>2. QED
      BY <3>1
  <2>3. m * k = m * j + m + m * e /\ m * e \in Nat /\ m * j \in Int
    BY <1>8, <2>2
  <2>4. QED
    BY <1>9, <2>3
<1>11. ~(k < j)
  <2>1. SUFFICES ASSUME k < j PROVE FALSE
    OBVIOUS
  <2>2. PICK e \in Nat : j = k + 1 + e
    <3>1. j - k - 1 \in Nat /\ j = k + 1 + (j - k - 1)
      BY <1>8, <2>1
    <3>2. QED
      BY <3>1
  <2>3. m * j = m * k + m + m * e /\ m * e \in Nat /\ m * k \in Int
    BY <1>8, <2>2
  <2>4. QED
    BY <1>9, <2>3
<1>12. j = k
  BY <1>8, <1>10, <1>11
<1>13. x = y
  BY <1>8, <1>12
<1>14. QED
  BY <1>2, <1>3, <1>13

\* A multiple of the divisor moves the quotient only.
Added(x, c, d) == (x + c * d) % d = x % d /\ (x + c * d) \div d = x \div d + c

\* It does, for any integers.
LEMMA MultipleAdded ==
  ASSUME NEW x, x \in Int, NEW c, c \in Int, NEW d, d \in Nat \ {0}
  PROVE  Added(x, c, d)
<1>0. PICK y : y = x + c * d
  OBVIOUS
<1>1. PICK q : q = x \div d
  OBVIOUS
<1>2. PICK r : r = x % d
  OBVIOUS
<1>3. q \in Int /\ r \in Nat /\ r < d /\ x = d * q + r
  BY <1>1, <1>2, Division
<1>4. PICK k : k = q + c
  OBVIOUS
<1>5. y = d * k + r
  <2>1. d * k = d * q + c * d /\ d * q \in Int /\ c * d \in Int
    BY <1>3, <1>4
  <2>2. QED
    BY <1>0, <1>3, <2>1
<1>6. y \div d = k /\ y % d = r
  BY <1>3, <1>4, <1>5, DivisionUnique
<1>7. QED
  BY <1>0, <1>1, <1>2, <1>4, <1>6 DEF Added

\* A shift by blocks of a prefix moves the bits of a longer one and no other.
Moves(addr, to, c, prefix, size) ==
  /\ Clear(to, prefix, size) <=> Clear(addr, prefix, size)
  /\ First(to, prefix, size) = (First(addr, prefix, size) + c) % 2 ^ prefix

\* inet_shift does.
LEMMA ShiftMoves ==
  ASSUME NEW v6, v6 \in BOOLEAN, NEW addr, addr \in Addrs(v6), NEW offset, offset \in Int,
         NEW prefix, prefix \in Nat, prefix <= inet_size(v6), NEW by, by \in 0 .. prefix
  PROVE  /\ inet_shift(v6, addr, offset, by) \in Addrs(v6)
         /\ offset * 2 ^ (prefix - by) \in Int
         /\ Moves(addr, inet_shift(v6, addr, offset, by), offset * 2 ^ (prefix - by),
                  prefix, inet_size(v6))
<1>1. PICK size : size = inet_size(v6)
  OBVIOUS
<1>2. PICK to : to = inet_shift(v6, addr, offset, by)
  OBVIOUS
<1>3. size \in Widths /\ size \in Nat /\ 4 * WordBits \in Nat
  BY <1>1, SizeType, WidthAssumption
<1>4. PICK n : n = size - by
  OBVIOUS
<1>5. PICK h : h = prefix - by
  OBVIOUS
<1>6. n \in Widths /\ h \in 0 .. n /\ n - h = size - prefix /\ prefix \in 0 .. size
  BY <1>1, <1>3, <1>4, <1>5 DEF Widths
<1>7. /\ 2 ^ n = 2 ^ (n - h) * 2 ^ h
      /\ 2 ^ size = 2 ^ (size - prefix) * 2 ^ prefix
      /\ 2 ^ h \in Nat \ {0} /\ 2 ^ (size - prefix) \in Nat \ {0} /\ 2 ^ prefix \in Nat \ {0}
      /\ 2 ^ size \in Nat \ {0}
  BY <1>3, <1>6, PowerSplit
<1>8. PICK d : d = 2 ^ (size - prefix)
  OBVIOUS
<1>9. PICK g : g = 2 ^ h
  OBVIOUS
<1>10. PICK m : m = 2 ^ prefix
  OBVIOUS
<1>11. PICK c : c = offset * g
  OBVIOUS
<1>12. PICK y : y = addr + c * d
  OBVIOUS
<1>13. /\ d \in Nat \ {0} /\ g \in Nat \ {0} /\ m \in Nat \ {0} /\ c \in Int /\ addr \in Int
       /\ y \in Int
  <2>1. addr \in Int
    BY <1>1, <1>7 DEF Addrs
  <2>2. d \in Nat \ {0} /\ g \in Nat \ {0} /\ m \in Nat \ {0}
    BY <1>7, <1>8, <1>9, <1>10
  <2>3. c \in Int
    BY <1>11, <2>2
  <2>4. y \in Int
    BY <1>12, <2>1, <2>2, <2>3
  <2>5. QED
    BY <2>1, <2>2, <2>3, <2>4
<1>14. to = y % 2 ^ size
  <2>1. 2 ^ n = d * g
    BY <1>6, <1>7, <1>8, <1>9
  <2>2. offset * (d * g) = c * d
    BY <1>11, <1>13
  <2>3. to = (addr + offset * 2 ^ n) % 2 ^ size
    BY <1>1, <1>2, <1>4 DEF inet_shift
  <2>4. QED
    BY <1>12, <2>1, <2>2, <2>3
<1>15. to \in Addrs(v6)
  <2>1. to \in Nat /\ to < 2 ^ size
    BY <1>7, <1>13, <1>14, Division
  <2>2. QED
    BY <1>1, <1>7, <2>1 DEF Addrs
<1>16. to = y % (d * m)
  BY <1>7, <1>8, <1>10, <1>14
<1>17. DividesTwice(y, d, m)
  BY <1>13, DivisionTwiceInt
<1>18. to % d = y % d /\ to \div d = (y \div d) % m
  BY <1>16, <1>17 DEF DividesTwice
<1>19. y % d = addr % d /\ y \div d = addr \div d + c
  <2>1. Added(addr, c, d)
    BY <1>13, MultipleAdded
  <2>2. QED
    BY <1>12, <2>1 DEF Added
<1>20. Clear(to, prefix, size) <=> Clear(addr, prefix, size)
  BY <1>8, <1>18, <1>19 DEF Clear
<1>21. First(to, prefix, size) = (First(addr, prefix, size) + c) % m
  BY <1>8, <1>18, <1>19 DEF First
<1>22. QED
  BY <1>1, <1>2, <1>5, <1>9, <1>10, <1>11, <1>13, <1>15, <1>20, <1>21 DEF Moves

\* A route and an address that are shifted alike match afterwards if they did before.
LEMMA ShiftKeepsMatch ==
  ASSUME NEW v6, v6 \in BOOLEAN, NEW network, network \in Addrs(v6),
         NEW addr, addr \in Addrs(v6), NEW offset, offset \in Int,
         NEW prefix, prefix \in Nat, prefix <= inet_size(v6), NEW by, by \in 0 .. prefix
  PROVE  membcmpEq(inet_shift(v6, network, offset, by), inet_shift(v6, addr, offset, by),
                   prefix, inet_size(v6))
           <=> membcmpEq(network, addr, prefix, inet_size(v6))
<1>1. PICK size : size = inet_size(v6)
  OBVIOUS
<1>2. PICK c : c = offset * 2 ^ (prefix - by)
  OBVIOUS
<1>3. PICK n : n = inet_shift(v6, network, offset, by)
  OBVIOUS
<1>4. PICK a : a = inet_shift(v6, addr, offset, by)
  OBVIOUS
<1>5. /\ n \in Addrs(v6) /\ a \in Addrs(v6) /\ c \in Int
      /\ Moves(network, n, c, prefix, size) /\ Moves(addr, a, c, prefix, size)
  BY <1>1, <1>2, <1>3, <1>4, ShiftMoves
<1>6. PICK u : u = First(network, prefix, size)
  OBVIOUS
<1>7. PICK v : v = First(addr, prefix, size)
  OBVIOUS
<1>8. PICK m : m = 2 ^ prefix
  OBVIOUS
<1>9. m \in Nat \ {0} /\ u \in Nat /\ u < m /\ v \in Nat /\ v < m
  <2>1. size \in Widths /\ prefix \in 0 .. size
    BY <1>1, SizeType, WidthAssumption DEF Widths
  <2>2. PICK d : d = 2 ^ (size - prefix)
    OBVIOUS
  <2>3. d \in Nat \ {0} /\ m \in Nat \ {0} /\ 2 ^ size = d * m
    BY <1>8, <2>1, <2>2, PowerSplit
  <2>4. ASSUME NEW x, x \in Addrs(v6)
        PROVE  First(x, prefix, size) \in Nat /\ First(x, prefix, size) < m
    <3>1. d * m \in Nat /\ x \in Nat /\ x < d * m
      BY <1>1, <2>3, <2>4 DEF Addrs
    <3>2. PICK q : q = x \div d
      OBVIOUS
    <3>3. PICK r : r = x % d
      OBVIOUS
    <3>4. q \in Nat /\ r \in Nat /\ x = d * q + r
      BY <2>3, <3>1, <3>2, <3>3, Division
    <3>5. ~(q >= m)
      <4>1. SUFFICES ASSUME q >= m PROVE FALSE
        OBVIOUS
      <4>2. PICK e \in Nat : q = m + e
        <5>1. q - m \in Nat /\ q = m + (q - m)
          BY <2>3, <3>4, <4>1
        <5>2. QED
          BY <5>1
      <4>3. d * q = d * m + d * e /\ d * e \in Nat
        BY <2>3, <4>2
      <4>4. QED
        BY <3>1, <3>4, <4>3
    <3>6. QED
      BY <2>2, <2>3, <3>2, <3>4, <3>5 DEF First
  <2>5. QED
    BY <1>6, <1>7, <2>3, <2>4
<1>10. First(n, prefix, size) = (u + c) % m /\ First(a, prefix, size) = (v + c) % m
  BY <1>5, <1>6, <1>7, <1>8 DEF Moves
<1>11. (u + c) % m = (v + c) % m <=> u = v
  <2>1. Apart(u, v, c, m)
    BY <1>5, <1>9, MovedApart
  <2>2. QED
    BY <2>1 DEF Apart
<1>12. membcmpEq(n, a, prefix, size) <=> First(n, prefix, size) = First(a, prefix, size)
  BY <1>1, <1>5, ComparesFirst
<1>13. membcmpEq(network, addr, prefix, size) <=> u = v
  BY <1>1, <1>6, <1>7, ComparesFirst
<1>14. QED
  BY <1>1, <1>3, <1>4, <1>10, <1>11, <1>12, <1>13

-----------------------------------------------------------------------------
(* Chains *)

\* The terminator of a chain is at its first null host, or behind its last.
LEMMA NitemIsTerminator ==
  ASSUME NEW c, NEW H, c.hosts \in Seq(H)
  PROVE  LET n == HostChain_nitem(c)
         IN  /\ n \in 0 .. Len(c.hosts)
             /\ n < Len(c.hosts) => c.hosts[n + 1].addr = Null
             /\ \A i \in 1 .. n : c.hosts[i].addr # Null
<1> DEFINE Ends(n) == /\ n < Len(c.hosts) => c.hosts[n + 1].addr = Null
                      /\ \A i \in 1 .. n : c.hosts[i].addr # Null
           nulls == {k \in 0 .. Len(c.hosts) - 1 : c.hosts[k + 1].addr = Null}
<1>1. Len(c.hosts) \in Nat
  OBVIOUS
<1>2. \E n \in 0 .. Len(c.hosts) : Ends(n)
  <2>1. CASE nulls = {}
    <3>1. Ends(Len(c.hosts))
      <4>1. ASSUME NEW i \in 1 .. Len(c.hosts) PROVE c.hosts[i].addr # Null
        <5>1. i - 1 \in 0 .. Len(c.hosts) - 1 /\ (i - 1) + 1 = i
          BY <1>1
        <5>2. QED
          BY <2>1, <5>1
      <4>2. QED
        BY <1>1, <4>1
    <3>2. QED
      BY <1>1, <3>1
  <2>2. CASE nulls # {}
    <3>1. nulls \in SUBSET Nat
      BY <1>1
    <3> HIDE DEF nulls
    <3>2. PICK n \in nulls : \A k \in nulls : n <= k
      BY <2>2, <3>1, LeastElement
    <3>3. n \in 0 .. Len(c.hosts) - 1 /\ c.hosts[n + 1].addr = Null
      BY DEF nulls
    <3>4. ASSUME NEW i \in 1 .. n PROVE c.hosts[i].addr # Null
      <4>1. i - 1 \in 0 .. Len(c.hosts) - 1 /\ (i - 1) + 1 = i /\ ~(n <= i - 1)
        BY <1>1, <3>3
      <4>2. i - 1 \notin nulls
        BY <3>2, <4>1
      <4>3. QED
        BY <4>1, <4>2 DEF nulls
    <3>5. QED
      BY <1>1, <3>3, <3>4
  <2>3. QED
    BY <2>1, <2>2
<1>3. HostChain_nitem(c) = CHOOSE n \in 0 .. Len(c.hosts) : Ends(n)
  BY DEF HostChain_nitem
<1> HIDE DEF Ends
<1>4. HostChain_nitem(c) \in 0 .. Len(c.hosts) /\ Ends(HostChain_nitem(c))
  BY <1>2, <1>3
<1>5. QED
  BY <1>4 DEF Ends

\* What is found among the first n hosts: the first of the address sought, or the
\* last of them.
LEMMA FindAmongFirst ==
  ASSUME NEW c, NEW addr, NEW n \in Nat
  PROVE  LET r == FindAmong(c, addr, n)
             at(i, found) == [host |-> c.hosts[i + 1], index |-> i, found |-> found]
         IN  IF n = 0 THEN r = NoHost
             ELSE \/ \E i \in 0 .. n - 1 : r = at(i, TRUE) /\ c.hosts[i + 1].addr = addr
                  \/ r = at(n - 1, FALSE) /\ \A k \in 1 .. n : c.hosts[k].addr # addr
<1> DEFINE hits == {i \in 0 .. n - 1 : c.hosts[i + 1].addr = addr}
           at(i, found) == [host |-> c.hosts[i + 1], index |-> i, found |-> found]
           first == CHOOSE i \in hits : \A j \in hits : i <= j
<1>1. FindAmong(c, addr, n) = IF hits # {} THEN at(first, TRUE)
                              ELSE IF n <= 0 THEN NoHost ELSE at(n - 1, FALSE)
  BY DEF FindAmong
<1>0. n <= 0 <=> n = 0
  OBVIOUS
<1> HIDE DEF at
<1>2. CASE hits # {}
  <2>1. \E i \in hits : \A j \in hits : i <= j
    <3>1. hits \in SUBSET Nat
      OBVIOUS
    <3> HIDE DEF hits
    <3>2. QED
      BY <1>2, <3>1, LeastElement
  <2>2. first \in hits
    <3> HIDE DEF hits
    <3>1. QED
      BY <2>1
  <2>3. first \in 0 .. n - 1 /\ c.hosts[first + 1].addr = addr /\ n # 0
    <3> HIDE DEF first
    <3>1. QED
      BY <2>2
  <2> HIDE DEF hits, first
  <2>4. QED
    BY <1>1, <1>2, <2>3 DEF at
<1>3. CASE hits = {} /\ n # 0
  <2>1. ASSUME NEW k \in 1 .. n PROVE c.hosts[k].addr # addr
    <3>1. k - 1 \in 0 .. n - 1 /\ (k - 1) + 1 = k
      OBVIOUS
    <3>2. QED
      BY <1>3, <3>1
  <2> HIDE DEF hits, first
  <2>2. FindAmong(c, addr, n) = at(n - 1, FALSE)
    BY <1>0, <1>1, <1>3, Zenon
  <2>3. QED
    BY <1>3, <2>1, <2>2 DEF at
<1>4. CASE hits = {} /\ n = 0
  <2> HIDE DEF hits, first
  <2>1. QED
    BY <1>1, <1>4
<1>5. QED
  BY <1>2, <1>3, <1>4
-----------------------------------------------------------------------------
\* A chain whose hosts are a sequence, and the hosts of a packet's way along it:
\* what is found is the first of them with the address sought, or the last; none
\* only where the packet may pass none.
Found(c, addr, ttl, r) ==
  LET n == HostChain_nitem(c)
  IN  /\ r.index \in 0 .. n - 1 /\ r.index < ttl
      /\ r.host = c.hosts[r.index + 1]
      /\ \/ r.found = TRUE /\ r.host.addr = addr
         \/ /\ r.found = FALSE
            /\ \A k \in 1 .. n : k <= ttl => c.hosts[k].addr # addr
            /\ r.index = IF ttl < n THEN ttl - 1 ELSE n - 1

\* What HostChain_find returns.
LEMMA FindWithinReach ==
  ASSUME NEW c, NEW H, c.hosts \in Seq(H), NEW addr, NEW ttl \in Nat
  PROVE  LET r == HostChain_find(c, addr, ttl)
         IN  IF ttl = 0 \/ HostChain_nitem(c) = 0 THEN r = NoHost
             ELSE r # NoHost /\ Found(c, addr, ttl, r)
<1> DEFINE n == HostChain_nitem(c)
           m == Reach(c, ttl)
           r == HostChain_find(c, addr, ttl)
           at(i, found) == [host |-> c.hosts[i + 1], index |-> i, found |-> found]
<1>1. n \in Nat /\ \A i \in 1 .. n : c.hosts[i].addr # Null
  BY NitemIsTerminator
<1>2. m \in Nat /\ m = IF ttl < n THEN ttl ELSE n
  BY <1>1 DEF Reach
<1>3. r = FindAmong(c, addr, m)
  BY DEF HostChain_find
<1>4. IF m = 0 THEN r = NoHost
      ELSE \/ \E i \in 0 .. m - 1 : r = at(i, TRUE) /\ c.hosts[i + 1].addr = addr
           \/ r = at(m - 1, FALSE) /\ \A k \in 1 .. m : c.hosts[k].addr # addr
  <2> HIDE DEF m, r
  <2>1. QED
    BY <1>2, <1>3, FindAmongFirst
<1> HIDE DEF n, m, r
<1>5. CASE m = 0
  <2>1. ttl = 0 \/ n = 0
    BY <1>1, <1>2, <1>5
  <2>2. r = NoHost
    BY <1>4, <1>5
  <2>3. QED
    BY <2>1, <2>2 DEF n, r
<1>6. CASE m # 0
  <2>1. ~(ttl = 0 \/ n = 0)
    BY <1>1, <1>2, <1>6
  <2>2. CASE \E i \in 0 .. m - 1 : r = at(i, TRUE) /\ c.hosts[i + 1].addr = addr
    <3>1. PICK i \in 0 .. m - 1 : r = at(i, TRUE) /\ c.hosts[i + 1].addr = addr
      BY <2>2
    <3>2. r.index = i /\ r.host = c.hosts[i + 1] /\ r.found = TRUE /\ r.host.addr = addr
      BY <3>1
    <3>3. i \in 0 .. n - 1 /\ i < ttl
      BY <1>1, <1>2, <1>6
    <3>4. r # NoHost
      <4>1. NoHost.found = FALSE
        BY DEF NoHost
      <4>2. QED
        BY <3>2, <4>1
    <3>5. QED
      BY <2>1, <3>2, <3>3, <3>4 DEF Found, n, r
  <2>3. CASE r = at(m - 1, FALSE) /\ \A k \in 1 .. m : c.hosts[k].addr # addr
    <3>1. r.index = m - 1 /\ r.host = c.hosts[(m - 1) + 1] /\ r.found = FALSE
      BY <2>3
    <3>2. m - 1 \in 0 .. n - 1 /\ m - 1 < ttl /\ (m - 1) + 1 = m /\ m \in 1 .. n
      BY <1>1, <1>2, <1>6
    <3>3. r # NoHost
      <4>1. NoHost.host.addr = Null
        BY DEF NoHost
      <4>2. r.host.addr # Null
        BY <1>1, <3>1, <3>2
      <4>3. QED
        BY <4>1, <4>2
    <3>4. \A k \in 1 .. n : k <= ttl => c.hosts[k].addr # addr
      BY <1>1, <1>2, <2>3
    <3>5. m - 1 = IF ttl < n THEN ttl - 1 ELSE n - 1
      BY <1>2
    <3>6. Found(c, addr, ttl, r)
      BY <3>1, <3>2, <3>4, <3>5 DEF Found, n
    <3>7. QED
      BY <2>1, <3>3, <3>6 DEF n, r
  <2>4. QED
    BY <1>4, <1>6, <2>2, <2>3
<1>7. QED
  BY <1>5, <1>6
-----------------------------------------------------------------------------
\* The chains an address is looked up in, by their place in the array.
Matching(v6, chains, addr) == {j \in DOMAIN chains : HostChain_in(v6, chains[j], addr)}

\* What the search of an array finds, it finds in one of the chains that match:
\* in the last one tried that has hosts in reach.
LEMMA ArrayFindsInChain ==
  ASSUME NEW v6, NEW R, NEW chains \in Seq(R), NEW addr, NEW ttl
  PROVE  LET r == HostChainArray_find(v6, chains, addr, ttl)
             find(j) == HostChain_find(chains[j], addr, ttl)
         IN  \/ r = NoHost
             \/ \E j \in Matching(v6, chains, addr) : r = find(j) /\ r # NoHost
<1> DEFINE matching == Matching(v6, chains, addr)
           find(j)  == HostChain_find(chains[j], addr, ttl)
           tried    == {j \in matching : \A k \in matching :
                          k < j => find(k) # NoHost /\ ~find(k).found}
           hosts    == {j \in tried : find(j) # NoHost}
           last == CHOOSE j \in hosts : \A k \in hosts : k <= j
<1>1. HostChainArray_find(v6, chains, addr, ttl) = IF hosts = {} THEN NoHost ELSE find(last)
  BY DEF HostChainArray_find, Matching
<1>2. hosts \in SUBSET (0 .. Len(chains)) /\ Len(chains) \in Nat
  BY DEF Matching
<1>3. CASE hosts # {}
  <2>1. \E j \in hosts : \A k \in hosts : k <= j
    <3> HIDE DEF hosts
    <3>1. QED
      BY <1>2, <1>3, GreatestElement
  <2>2. last \in hosts
    <3> HIDE DEF hosts
    <3>1. QED
      BY <2>1
  <2> HIDE DEF last
  <2>3. last \in matching /\ find(last) # NoHost
    BY <2>2
  <2> HIDE DEF hosts, matching
  <2>4. QED
    BY <1>1, <1>3, <2>3 DEF matching
<1>4. QED
  BY <1>1, <1>3

\* Where all chains that match are the same, that chain decides.
LEMMA ArrayFindsInRoute ==
  ASSUME NEW v6, NEW R, NEW chains \in Seq(R), NEW addr, NEW ttl, NEW c,
         Matching(v6, chains, addr) # {},
         \A j \in Matching(v6, chains, addr) : chains[j] = c
  PROVE  HostChainArray_find(v6, chains, addr, ttl) = HostChain_find(c, addr, ttl)
<1> DEFINE matching == Matching(v6, chains, addr)
           find(j)  == HostChain_find(chains[j], addr, ttl)
           tried    == {j \in matching : \A k \in matching :
                          k < j => find(k) # NoHost /\ ~find(k).found}
           hosts    == {j \in tried : find(j) # NoHost}
           last == CHOOSE j \in hosts : \A k \in hosts : k <= j
<1>1. HostChainArray_find(v6, chains, addr, ttl) = IF hosts = {} THEN NoHost ELSE find(last)
  BY DEF HostChainArray_find, Matching
<1>2. matching \in SUBSET Nat
  BY DEF Matching
<1>3. PICK first \in matching : \A k \in matching : first <= k
  <2> HIDE DEF matching
  <2>1. QED
    BY <1>2, LeastElement DEF matching
<1>4. first \in tried
  BY <1>2, <1>3
<1>5. CASE HostChain_find(c, addr, ttl) = NoHost
  <2>1. hosts = {}
    BY <1>5
  <2>2. QED
    BY <1>1, <1>5, <2>1
<1>6. CASE HostChain_find(c, addr, ttl) # NoHost
  <2>1. hosts # {}
    BY <1>4, <1>6
  <2>3. hosts \in SUBSET (0 .. Len(chains)) /\ Len(chains) \in Nat
    BY DEF Matching
  <2>4. last \in hosts
    <3> HIDE DEF hosts
    <3>1. \E j \in hosts : \A k \in hosts : k <= j
      BY <2>1, <2>3, GreatestElement
    <3>2. QED
      BY <3>1
  <2> HIDE DEF last
  <2>5. find(last) = HostChain_find(c, addr, ttl)
    BY <2>4
  <2> HIDE DEF hosts, find
  <2>6. QED
    BY <1>1, <2>1, <2>5
<1>7. QED
  BY <1>5, <1>6

\* Where every chain that matches finds a host and one finds the address sought,
\* so does the array.
LEMMA ArrayFindsTarget ==
  ASSUME NEW v6, NEW R, NEW chains \in Seq(R), NEW addr, NEW ttl,
         \A j \in Matching(v6, chains, addr) : HostChain_find(chains[j], addr, ttl) # NoHost,
         \E j \in Matching(v6, chains, addr) : HostChain_find(chains[j], addr, ttl).found
  PROVE  \E j \in Matching(v6, chains, addr) :
           /\ HostChainArray_find(v6, chains, addr, ttl) = HostChain_find(chains[j], addr, ttl)
           /\ HostChain_find(chains[j], addr, ttl).found
<1> DEFINE matching == Matching(v6, chains, addr)
           find(j)  == HostChain_find(chains[j], addr, ttl)
           targets  == {j \in matching : find(j).found}
           tried    == {j \in matching : \A k \in matching :
                          k < j => find(k) # NoHost /\ ~find(k).found}
           hosts    == {j \in tried : find(j) # NoHost}
           last == CHOOSE j \in hosts : \A k \in hosts : k <= j
<1>1. HostChainArray_find(v6, chains, addr, ttl) = IF hosts = {} THEN NoHost ELSE find(last)
  BY DEF HostChainArray_find, Matching
<1>2. matching \in SUBSET Nat
  BY DEF Matching
<1>3. PICK t \in targets : \A k \in targets : t <= k
  <2>1. targets \in SUBSET Nat /\ targets # {}
    BY <1>2
  <2> HIDE DEF targets
  <2>2. QED
    BY <2>1, LeastElement
<1>4. t \in matching /\ find(t).found /\ find(t) # NoHost
  OBVIOUS
<1>5. t \in hosts
  <2>1. ASSUME NEW k \in matching, k < t PROVE find(k) # NoHost /\ ~find(k).found
    <3>1. k \notin targets
      BY <1>2, <1>3, <1>4, <2>1
    <3>2. QED
      BY <3>1
  <2>2. QED
    BY <1>4, <2>1
<1>6. ASSUME NEW k \in hosts PROVE k <= t
  <2>1. k \in matching /\ (t < k => ~find(t).found)
    BY <1>4
  <2>2. QED
    BY <1>2, <1>4, <2>1
<1>7. last = t
  <2>1. \A k \in hosts : k <= t
    BY <1>6
  <2>2. hosts \in SUBSET Nat
    BY <1>2
  <2> HIDE DEF hosts
  <2>3. ASSUME NEW j \in hosts, \A k \in hosts : k <= j PROVE j = t
    <3>1. j \in Nat /\ t \in Nat /\ t <= j /\ j <= t
      BY <1>5, <2>1, <2>2, <2>3
    <3>2. QED
      BY <3>1
  <2>4. last \in hosts /\ \A k \in hosts : k <= last
    BY <1>5, <2>1
  <2> HIDE DEF last
  <2>5. QED
    BY <2>3, <2>4
<1> HIDE DEF last, hosts
<1>8. HostChainArray_find(v6, chains, addr, ttl) = find(t)
  BY <1>1, <1>5, <1>7
<1>9. QED
  BY <1>4, <1>8

-----------------------------------------------------------------------------
\* The path a chain stands for ends at the host that the lookup finds in it.
LEMMA PathEndsAtHost ==
  ASSUME NEW c, NEW H, c.hosts \in Seq(H), NEW dst, NEW ttl, ttl \in Nat,
         NEW hop, hop = HostChain_find(c, dst, ttl), hop # NoHost
  PROVE  /\ hop.found <=> hop.host.addr = dst
         /\ Path(c, dst, ttl) =
              <<hop.host.addr, IF hop.host.addr = dst THEN "target"
                               ELSE IF ttl = hop.index + 1 THEN "transit" ELSE "astray">>
<1>1. PICK n : n = HostChain_nitem(c)
  OBVIOUS
<1>2. n \in Nat
  BY <1>1, NitemIsTerminator
<1>3. Found(c, dst, ttl, hop)
  BY FindWithinReach
<1>4. PICK i : i = hop.index + 1
  OBVIOUS
<1>5. /\ hop.index = i - 1 /\ i \in 1 .. n /\ i <= ttl /\ hop.host = c.hosts[i]
  BY <1>1, <1>2, <1>3, <1>4 DEF Found
<1>6. CASE hop.found = TRUE
  <2>1. hop.host.addr = dst
    BY <1>3, <1>6 DEF Found
  <2>2. \E k \in 1 .. n : k <= ttl /\ c.hosts[k].addr = dst
    BY <1>5, <2>1
  <2>3. Path(c, dst, ttl) = <<dst, "target">>
    BY <1>1, <2>2 DEF Path
  <2>4. QED
    BY <1>6, <2>1, <2>3
<1>7. CASE hop.found = FALSE
  <2>1. /\ \A k \in 1 .. n : k <= ttl => c.hosts[k].addr # dst
        /\ i - 1 = IF ttl < n THEN ttl - 1 ELSE n - 1
    BY <1>1, <1>3, <1>5, <1>7 DEF Found
  <2>2. hop.host.addr # dst
    BY <1>5, <2>1
  <2>3. IF ttl <= n THEN i = ttl ELSE i = n /\ ttl # i
    BY <1>2, <1>5, <2>1
  <2>4. Path(c, dst, ttl) = IF ttl <= n THEN <<c.hosts[ttl].addr, "transit">>
                            ELSE <<c.hosts[n].addr, "astray">>
    BY <1>1, <2>1 DEF Path
  <2>5. Path(c, dst, ttl) = <<hop.host.addr, IF ttl = i THEN "transit" ELSE "astray">>
    BY <1>5, <2>3, <2>4
  <2>6. QED
    BY <1>4, <1>7, <2>2, <2>5
<1>8. QED
  BY <1>3, <1>6, <1>7 DEF Found

-----------------------------------------------------------------------------
(* Numbers.  Every set of them is cited by these bounds: the provers take an   *)
(* interval between two numerals apart into its elements.                      *)

\* What n words may sum to.
LEMMA WordSumsBounds ==
  ASSUME NEW n, n \in Nat, NEW x
  PROVE  x \in WordSums(n) <=> x \in Nat /\ x <= 65535 * n
BY SMT DEF WordSums

\* What 16 bits hold.
LEMMA HalfWordBounds ==
  ASSUME NEW x
  PROVE  x \in HalfWord <=> x \in Nat /\ x <= 65535
BY SMT, WordSumsBounds DEF HalfWord

\* What 8 bits hold.
LEMMA ByteBounds ==
  ASSUME NEW x
  PROVE  x \in Byte <=> x \in Nat /\ x <= 255
BY SMT DEF Byte

\* Words that are all zero.
LEMMA NoWords ==
  ASSUME NEW n, n \in Nat
  PROVE  0 \in WordSums(n)
BY SMT, WordSumsBounds
-----------------------------------------------------------------------------
(* Checksums *)

\* A sum of 32 bits and its checksum add up to nothing in ones' complement: two
\* folds are enough.
LEMMA FinishVerifies ==
  ASSUME NEW s, s \in Nat, s <= 4294967295
  PROVE  inet_cksum_finish(s) \in HalfWord /\ Verifies(s + inet_cksum_finish(s))
<1> DEFINE hi    == s \div 65536
           lo    == s % 65536
           once  == hi + lo
           twice == once + (once \div 65536)
           low   == twice % 65536
<1>1. hi \in Nat /\ hi <= 65535 /\ lo \in Nat /\ lo <= 65535 /\ s = 65536 * hi + lo
  BY SMT
<1> HIDE DEF hi, lo
<1>2. once \in Nat /\ once <= 131070 /\ s = 65535 * hi + once
  BY SMT, <1>1
<1>3. \/ once < 65536 /\ low = once
      \/ once >= 65536 /\ low = once - 65535
  <2> HIDE DEF once
  <2>1. CASE once < 65536
    BY SMT, <1>2, <2>1
  <2>2. CASE once >= 65536
    <3>1. once \div 65536 = 1
      BY SMT, <1>2, <2>2
    <3>2. (once + 1) % 65536 = once - 65535
      BY SMT, <1>2, <2>2
    <3>3. QED
      BY SMT, <2>2, <3>1, <3>2
  <2>3. QED
    BY SMT, <1>2, <2>1, <2>2
<1>4. inet_cksum_finish(s) = 65535 - low
  BY SMT DEF inet_cksum_finish, hi, lo
<1> HIDE DEF once, low
<1>5. low \in Nat /\ low <= 65535 /\ (s = 0 => low = 0)
  BY SMT, <1>1, <1>2, <1>3 DEF once
<1>6. \E k \in Nat : s + 65535 - low = 65535 * k
  <2>1. CASE low = once
    <3>1. s + 65535 - low = 65535 * (hi + 1) /\ hi + 1 \in Nat
      BY SMT, <1>1, <1>2, <2>1
    <3>2. QED
      BY SMT, <3>1
  <2>2. CASE low = once - 65535
    <3>1. s + 65535 - low = 65535 * (hi + 2) /\ hi + 2 \in Nat
      BY SMT, <1>1, <1>2, <2>2
    <3>2. QED
      BY SMT, <3>1
  <2>3. QED
    BY SMT, <1>3, <2>1, <2>2
<1>7. s + 65535 - low > 0
  BY SMT, <1>5
<1>8. QED
  <2>1. inet_cksum_finish(s) \in HalfWord
    BY SMT, <1>4, <1>5, HalfWordBounds
  <2>2. (s + 65535 - low) % 65535 = 0
    BY SMT, <1>6
  <2>3. s + inet_cksum_finish(s) = s + 65535 - low
    BY SMT, <1>4, <1>5
  <2>4. QED
    BY SMT, <1>7, <2>1, <2>2, <2>3 DEF Verifies

\* So do the words of a header, whose sum starts at 0xffff, if one of them is not
\* zero.
LEMMA HeaderVerifies ==
  ASSUME NEW s, s \in Nat, s > 0, s <= 4294900000
  PROVE  inet_cksum_header(s) \in HalfWord /\ Verifies(s + inet_cksum_header(s))
<1> DEFINE c == inet_cksum_finish(65535 + s)
<1>1. 65535 + s \in Nat /\ 65535 + s <= 4294967295
  BY SMT
<1>2. c \in HalfWord /\ Verifies(65535 + s + c)
  BY SMT, <1>1, FinishVerifies
<1>3. inet_cksum_header(s) = c
  BY SMT DEF inet_cksum_header, inet_cksum_continue
<1> HIDE DEF c
<1>4. c \in Nat
  BY SMT, <1>2, HalfWordBounds
<1>5. s + c > 0 /\ (s + c) % 65535 = 0
  BY SMT, <1>2, <1>4 DEF Verifies
<1>6. QED
  BY SMT, <1>2, <1>3, <1>5 DEF Verifies

\* A checksum of words of sum s, updated for a type that is less by change, is the
\* checksum of the words after the change.
LEMMA UpdateVerifies ==
  ASSUME NEW c, c \in HalfWord, NEW change \in {8, -1}, NEW s, s \in Nat, s >= change,
         Verifies(s + c)
  PROVE  /\ cksum_update(c, change) \in HalfWord
         /\ Verifies(s - change + cksum_update(c, change))
<1>1. c \in Nat /\ c <= 65535
  BY SMT, HalfWordBounds
<1>2. \/ cksum_update(c, change) = c + change /\ c + change \in Nat /\ c + change <= 65535
      \/ /\ change = 8 /\ c + change >= 65536
         /\ cksum_update(c, change) = c + change - 65535
      \/ change = -1 /\ c = 0 /\ cksum_update(c, change) = 65534
  BY SMT, <1>1 DEF cksum_update
<1>3. s + c > 0 /\ (s + c) % 65535 = 0
  BY SMT DEF Verifies
<1>4. cksum_update(c, change) \in HalfWord
  BY SMT, <1>1, <1>2, HalfWordBounds
<1>5. QED
  BY SMT, <1>1, <1>2, <1>3, <1>4 DEF Verifies
-----------------------------------------------------------------------------
(* Sums of words: far below 2^32, whatever a packet holds. *)

\* A 16-bit field is a word in either byte order.
LEMMA HtonsWord ==
  ASSUME NEW n, n \in HalfWord
  PROVE  htons(n) \in HalfWord
<1>1. n \in Nat /\ n <= 65535
  BY SMT, HalfWordBounds
<1>2. htons(n) \in Nat /\ htons(n) <= 65535
  BY SMT, <1>1 DEF htons
<1>3. QED
  BY SMT, <1>2, HalfWordBounds

\* The words of a header, and of a pseudo header.
LEMMA IpWordsBound ==
  ASSUME NEW ip, ip \in IpHeader
  PROVE  /\ IpWords(ip) \in Nat /\ IpWords(ip) <= 1400000
         /\ Ip6Words(ip) \in Nat /\ Ip6Words(ip) <= 1400000
         /\ PseudoWords(ip) \in Nat /\ PseudoWords(ip) <= 1400000
         /\ IpWords(ip) >= 256 * ip.proto
<1>1. /\ ip.ttl \in Byte /\ ip.proto \in Byte /\ ip.len \in HalfWord
      /\ ip.src \in Addr /\ ip.dst \in Addr /\ ip.other \in WordSums(3)
  BY SMT DEF IpHeader
<1>2. /\ ip.ttl \in Nat /\ ip.ttl <= 255 /\ ip.proto \in Nat /\ ip.proto <= 255
      /\ ip.other \in Nat /\ ip.other <= 196605
  BY SMT, <1>1, ByteBounds, WordSumsBounds
<1>3. /\ htons(ip.len) \in Nat /\ htons(ip.len) <= 65535
      /\ htons(ip.proto) \in Nat /\ htons(ip.proto) <= 65535
  <2>1. ip.proto \in HalfWord
    BY SMT, <1>2, HalfWordBounds
  <2>2. htons(ip.len) \in HalfWord /\ htons(ip.proto) \in HalfWord
    BY <1>1, <2>1, HtonsWord
  <2>3. QED
    BY SMT, <2>2, HalfWordBounds
<1>4. /\ AddrSum[ip.src] \in Nat /\ AddrSum[ip.src] <= 524280
      /\ AddrSum[ip.dst] \in Nat /\ AddrSum[ip.dst] <= 524280
  <2>1. AddrSum[ip.src] \in WordSums(8) /\ AddrSum[ip.dst] \in WordSums(8)
    BY <1>1, AddrAssumption
  <2>2. QED
    BY SMT, <2>1, WordSumsBounds
<1>5. QED
  BY SMT, <1>2, <1>3, <1>4 DEF IpWords, Ip6Words, PseudoWords

\* The words of an ICMP header.
LEMMA DataWordsBound ==
  ASSUME NEW d, d \in Data
  PROVE  /\ DataWords(d) \in Nat /\ DataWords(d) <= 300000
         /\ DataWords(d) >= d.type + d.cksum
<1>1. d.type \in Byte /\ d.code \in Byte /\ d.cksum \in HalfWord /\ d.un \in WordSums(2)
  BY SMT DEF Data
<1>2. /\ d.type \in Nat /\ d.type <= 255 /\ d.code \in Nat /\ d.code <= 255
      /\ d.cksum \in Nat /\ d.cksum <= 65535 /\ d.un \in Nat /\ d.un <= 131070
  BY SMT, <1>1, ByteBounds, HalfWordBounds, WordSumsBounds
<1>3. QED
  BY SMT, <1>2 DEF DataWords

\* The words of a quoted packet.
LEMMA QuoteWordsBound ==
  ASSUME NEW q, q \in Quote
  PROVE  /\ QuoteWords(q) \in Nat /\ QuoteWords(q) <= 2000000
         /\ Quote6Words(q) \in Nat /\ Quote6Words(q) <= 2000000
<1>1. q.ip \in IpHeader /\ q.data \in Data
  BY SMT DEF Quote
<1>2. q.ip.sum \in Nat /\ q.ip.sum <= 65535
  <2>1. q.ip.sum \in HalfWord
    BY SMT, <1>1 DEF IpHeader
  <2>2. QED
    BY SMT, <2>1, HalfWordBounds
<1>3. /\ IpWords(q.ip) \in Nat /\ IpWords(q.ip) <= 1400000
      /\ Ip6Words(q.ip) \in Nat /\ Ip6Words(q.ip) <= 1400000
  BY SMT, <1>1, IpWordsBound
<1>4. DataWords(q.data) \in Nat /\ DataWords(q.data) <= 300000
  BY SMT, <1>1, DataWordsBound
<1>5. QED
  BY SMT, <1>2, <1>3, <1>4 DEF QuoteWords, Quote6Words
-----------------------------------------------------------------------------
(* Updates of one field of a packet *)

\* The length of a packet set, and what that leaves as it was.
LEMMA SetLen ==
  ASSUME NEW p, p \in Packet, NEW n, n \in HalfWord,
         NEW q, q = [p EXCEPT !.len = n]
  PROVE  /\ q \in Packet /\ q.len = n
         /\ q.ip = p.ip /\ q.data = p.data /\ q.quote = p.quote /\ q.rest = p.rest
         /\ q.cut = p.cut
BY DEF Packet

\* The rest of a packet.
LEMMA SetRest ==
  ASSUME NEW p, p \in Packet, NEW n, n \in WordSums(32768),
         NEW q, q = [p EXCEPT !.rest = n]
  PROVE  /\ q \in Packet /\ q.rest = n
         /\ q.len = p.len /\ q.ip = p.ip /\ q.data = p.data /\ q.quote = p.quote
         /\ q.cut = p.cut
BY DEF Packet

\* The protocol in its header.
LEMMA SetIpProto ==
  ASSUME NEW p, p \in Packet, NEW n, n \in Byte,
         NEW q, q = [p EXCEPT !.ip.proto = n]
  PROVE  /\ q \in Packet /\ q.ip = [p.ip EXCEPT !.proto = n]
         /\ q.len = p.len /\ q.data = p.data /\ q.quote = p.quote /\ q.rest = p.rest
         /\ q.cut = p.cut
         /\ q.ip.proto = n /\ q.ip.ttl = p.ip.ttl /\ q.ip.src = p.ip.src
         /\ q.ip.dst = p.ip.dst /\ q.ip.len = p.ip.len /\ q.ip.sum = p.ip.sum
         /\ q.ip.other = p.ip.other
<1>1. q.ip = [p.ip EXCEPT !.proto = n] /\ p.ip \in IpHeader
  BY DEF Packet
<1>2. /\ q.ip.proto = n /\ q.ip.ttl = p.ip.ttl /\ q.ip.src = p.ip.src
      /\ q.ip.dst = p.ip.dst /\ q.ip.len = p.ip.len /\ q.ip.sum = p.ip.sum
      /\ q.ip.other = p.ip.other
  BY <1>1 DEF IpHeader
<1>3. q \in Packet
  BY DEF IpHeader, Packet
<1>4. /\ q.len = p.len /\ q.data = p.data /\ q.quote = p.quote /\ q.rest = p.rest
      /\ q.cut = p.cut
  BY DEF Packet
<1>5. QED
  BY <1>1, <1>2, <1>3, <1>4

\* The length in its header.
LEMMA SetIpLen ==
  ASSUME NEW p, p \in Packet, NEW n, n \in HalfWord,
         NEW q, q = [p EXCEPT !.ip.len = n]
  PROVE  /\ q \in Packet /\ q.ip = [p.ip EXCEPT !.len = n]
         /\ q.len = p.len /\ q.data = p.data /\ q.quote = p.quote /\ q.rest = p.rest
         /\ q.cut = p.cut
         /\ q.ip.len = n /\ q.ip.ttl = p.ip.ttl /\ q.ip.src = p.ip.src
         /\ q.ip.dst = p.ip.dst /\ q.ip.proto = p.ip.proto /\ q.ip.sum = p.ip.sum
         /\ q.ip.other = p.ip.other
<1>1. q.ip = [p.ip EXCEPT !.len = n] /\ p.ip \in IpHeader
  BY DEF Packet
<1>2. /\ q.ip.len = n /\ q.ip.ttl = p.ip.ttl /\ q.ip.src = p.ip.src
      /\ q.ip.dst = p.ip.dst /\ q.ip.proto = p.ip.proto /\ q.ip.sum = p.ip.sum
      /\ q.ip.other = p.ip.other
  BY <1>1 DEF IpHeader
<1>3. q \in Packet
  BY DEF IpHeader, Packet
<1>4. /\ q.len = p.len /\ q.data = p.data /\ q.quote = p.quote /\ q.rest = p.rest
      /\ q.cut = p.cut
  BY DEF Packet
<1>5. QED
  BY <1>1, <1>2, <1>3, <1>4

\* The checksum of its header.
LEMMA SetIpSum ==
  ASSUME NEW p, p \in Packet, NEW n, n \in HalfWord,
         NEW q, q = [p EXCEPT !.ip.sum = n]
  PROVE  /\ q \in Packet /\ q.ip = [p.ip EXCEPT !.sum = n]
         /\ q.len = p.len /\ q.data = p.data /\ q.quote = p.quote /\ q.rest = p.rest
         /\ q.cut = p.cut
         /\ q.ip.sum = n /\ q.ip.ttl = p.ip.ttl /\ q.ip.src = p.ip.src
         /\ q.ip.dst = p.ip.dst /\ q.ip.proto = p.ip.proto /\ q.ip.len = p.ip.len
         /\ q.ip.other = p.ip.other
<1>1. q.ip = [p.ip EXCEPT !.sum = n] /\ p.ip \in IpHeader
  BY DEF Packet
<1>2. /\ q.ip.sum = n /\ q.ip.ttl = p.ip.ttl /\ q.ip.src = p.ip.src
      /\ q.ip.dst = p.ip.dst /\ q.ip.proto = p.ip.proto /\ q.ip.len = p.ip.len
      /\ q.ip.other = p.ip.other
  BY <1>1 DEF IpHeader
<1>3. q \in Packet
  BY DEF IpHeader, Packet
<1>4. /\ q.len = p.len /\ q.data = p.data /\ q.quote = p.quote /\ q.rest = p.rest
      /\ q.cut = p.cut
  BY DEF Packet
<1>5. QED
  BY <1>1, <1>2, <1>3, <1>4

\* The type in its ICMP header.
LEMMA SetDataType ==
  ASSUME NEW p, p \in Packet, NEW n, n \in Byte,
         NEW q, q = [p EXCEPT !.data.type = n]
  PROVE  /\ q \in Packet /\ q.data = [p.data EXCEPT !.type = n]
         /\ q.len = p.len /\ q.ip = p.ip /\ q.quote = p.quote /\ q.rest = p.rest
         /\ q.cut = p.cut
         /\ q.data.type = n /\ q.data.code = p.data.code /\ q.data.cksum = p.data.cksum
         /\ q.data.un = p.data.un
<1>1. q.data = [p.data EXCEPT !.type = n] /\ p.data \in Data
  BY DEF Packet
<1>2. /\ q.data.type = n /\ q.data.code = p.data.code /\ q.data.cksum = p.data.cksum
      /\ q.data.un = p.data.un
  BY <1>1 DEF Data
<1>3. q \in Packet
  BY DEF Data, Packet
<1>4. /\ q.len = p.len /\ q.ip = p.ip /\ q.quote = p.quote /\ q.rest = p.rest
      /\ q.cut = p.cut
  BY DEF Packet
<1>5. QED
  BY <1>1, <1>2, <1>3, <1>4

\* The code there.
LEMMA SetDataCode ==
  ASSUME NEW p, p \in Packet, NEW n, n \in Byte,
         NEW q, q = [p EXCEPT !.data.code = n]
  PROVE  /\ q \in Packet /\ q.data = [p.data EXCEPT !.code = n]
         /\ q.len = p.len /\ q.ip = p.ip /\ q.quote = p.quote /\ q.rest = p.rest
         /\ q.cut = p.cut
         /\ q.data.code = n /\ q.data.type = p.data.type /\ q.data.cksum = p.data.cksum
         /\ q.data.un = p.data.un
<1>1. q.data = [p.data EXCEPT !.code = n] /\ p.data \in Data
  BY DEF Packet
<1>2. /\ q.data.code = n /\ q.data.type = p.data.type /\ q.data.cksum = p.data.cksum
      /\ q.data.un = p.data.un
  BY <1>1 DEF Data
<1>3. q \in Packet
  BY DEF Data, Packet
<1>4. /\ q.len = p.len /\ q.ip = p.ip /\ q.quote = p.quote /\ q.rest = p.rest
      /\ q.cut = p.cut
  BY DEF Packet
<1>5. QED
  BY <1>1, <1>2, <1>3, <1>4

\* The checksum there.
LEMMA SetDataCksum ==
  ASSUME NEW p, p \in Packet, NEW n, n \in HalfWord,
         NEW q, q = [p EXCEPT !.data.cksum = n]
  PROVE  /\ q \in Packet /\ q.data = [p.data EXCEPT !.cksum = n]
         /\ q.len = p.len /\ q.ip = p.ip /\ q.quote = p.quote /\ q.rest = p.rest
         /\ q.cut = p.cut
         /\ q.data.cksum = n /\ q.data.type = p.data.type /\ q.data.code = p.data.code
         /\ q.data.un = p.data.un
<1>1. q.data = [p.data EXCEPT !.cksum = n] /\ p.data \in Data
  BY DEF Packet
<1>2. /\ q.data.cksum = n /\ q.data.type = p.data.type /\ q.data.code = p.data.code
      /\ q.data.un = p.data.un
  BY <1>1 DEF Data
<1>3. q \in Packet
  BY DEF Data, Packet
<1>4. /\ q.len = p.len /\ q.ip = p.ip /\ q.quote = p.quote /\ q.rest = p.rest
      /\ q.cut = p.cut
  BY DEF Packet
<1>5. QED
  BY <1>1, <1>2, <1>3, <1>4

-----------------------------------------------------------------------------
(* Packets *)

\* The header and the fields of a packet after readdress.
LEMMA ReaddressFields ==
  ASSUME NEW p, p \in Packet, NEW self, self.addr \in Addr, self.ttl \in Int, NEW ttl, ttl \in Int,
         NEW a, a = readdress(self, ttl, p)
  PROVE  /\ a \in Packet
         /\ a.len = p.len /\ a.data = p.data /\ a.quote = p.quote
         /\ a.rest = p.rest /\ a.cut = p.cut
         /\ a.ip.src = self.addr /\ a.ip.dst = p.ip.src
         /\ a.ip.ttl = (self.ttl - ttl) % 256
         /\ a.ip.proto = p.ip.proto /\ a.ip.len = p.ip.len /\ a.ip.sum = p.ip.sum
         /\ a.ip.other = p.ip.other
<1>1. PICK t : t = (self.ttl - ttl) % 256
  OBVIOUS
<1>2. t \in Byte
  BY <1>1 DEF Byte
<1>3. PICK src : src = self.addr
  OBVIOUS
<1>4. src \in Addr
  BY <1>3
<1>5. a = [p EXCEPT !.ip.ttl = t, !.ip.dst = p.ip.src, !.ip.src = src]
  BY <1>1, <1>3 DEF readdress
<1>6. p.ip \in IpHeader
  BY DEF Packet
<1>7. /\ a.len = p.len /\ a.data = p.data /\ a.quote = p.quote
      /\ a.rest = p.rest /\ a.cut = p.cut
      /\ a.ip = [p.ip EXCEPT !.ttl = t, !.dst = p.ip.src, !.src = src]
  BY <1>5 DEF Packet, IpHeader
<1>8. /\ a.ip \in IpHeader
      /\ a.ip.src = src /\ a.ip.dst = p.ip.src /\ a.ip.ttl = t
      /\ a.ip.proto = p.ip.proto /\ a.ip.len = p.ip.len /\ a.ip.sum = p.ip.sum
      /\ a.ip.other = p.ip.other
  BY <1>2, <1>4, <1>6, <1>7 DEF IpHeader
<1>9. a \in Packet
  <2>1. PICK p1 : p1 = [p EXCEPT !.ip.ttl = t]
    OBVIOUS
  <2>2. p1 \in Packet
    BY <1>2, <2>1 DEF IpHeader, Packet
  <2>3. PICK p2 : p2 = [p1 EXCEPT !.ip.dst = p.ip.src]
    OBVIOUS
  <2>4. p2 \in Packet
    BY <1>6, <2>2, <2>3 DEF IpHeader, Packet
  <2>5. a = [p2 EXCEPT !.ip.src = src]
    BY <1>5, <2>1, <2>3
  <2>6. QED
    BY <1>4, <2>4, <2>5 DEF IpHeader, Packet
<1>10. QED
  BY <1>1, <1>3, <1>7, <1>8, <1>9

\* An ICMP header in front of a quoted packet.
LEMMA AppendFields ==
  ASSUME NEW p, p \in Packet, NEW size, size \in HalfWord, NEW type, type \in Byte,
         NEW code, code \in Byte
  PROVE  LET a == append(p, size, type, code)
         IN  /\ a \in Packet
             /\ a.len = size /\ a.ip = p.ip /\ a.rest = 0 /\ a.cut = p.cut
             /\ a.quote = [ip |-> p.ip, data |-> p.data]
             /\ a.data = [type |-> type, code |-> code, cksum |-> 0, un |-> 0]
<1> DEFINE a    == append(p, size, type, code)
<1>1. PICK data : data = [type |-> type, code |-> code, cksum |-> 0, un |-> 0]
  OBVIOUS
<1>2. PICK quote : quote = [ip |-> p.ip, data |-> p.data]
  OBVIOUS
<1>3. data \in Data
  <2>1. 0 \in HalfWord /\ 0 \in WordSums(2)
    BY NoWords DEF HalfWord
  <2>2. QED
    BY <1>1, <2>1 DEF Data
<1>4. quote \in Quote
  BY <1>2 DEF Packet, Quote
<1>5. a = [p EXCEPT !.len = size, !.rest = 0, !.quote = quote, !.data = data]
  BY <1>1, <1>2 DEF append
<1> HIDE DEF a
<1>6. /\ a.len = size /\ a.ip = p.ip /\ a.rest = 0 /\ a.cut = p.cut
      /\ a.quote = quote /\ a.data = data
  BY <1>5 DEF Packet
<1>7. a \in Packet
  <2>1. PICK p1 : p1 = [p EXCEPT !.len = size]
    OBVIOUS
  <2>2. p1 \in Packet
    BY <2>1 DEF Packet
  <2>3. PICK p2 : p2 = [p1 EXCEPT !.rest = 0]
    OBVIOUS
  <2>4. p2 \in Packet
    <3>1. 0 \in WordSums(32768)
      BY NoWords
    <3>2. QED
      BY <2>2, <2>3, <3>1 DEF Packet
  <2>5. PICK p3 : p3 = [p2 EXCEPT !.quote = quote]
    OBVIOUS
  <2>6. p3 \in Packet
    BY <1>4, <2>4, <2>5 DEF Packet
  <2>7. a = [p3 EXCEPT !.data = data]
    BY <1>5, <2>1, <2>3, <2>5
  <2>8. QED
    BY <1>3, <2>6, <2>7 DEF Packet
<1>8. QED
  BY <1>1, <1>2, <1>6, <1>7 DEF a
-----------------------------------------------------------------------------
(* Answers in IPv4 *)

\* A quote is not the absence of one.
LEMMA QuoteIsQuote ==
  ASSUME NEW ip, NEW data
  PROVE  [ip |-> ip, data |-> data] # NoQuote
<1>1. DOMAIN [ip |-> ip, data |-> data] = {"ip", "data"}
  OBVIOUS
<1>2. DOMAIN NoQuote = 1 .. 0
  BY DEF NoQuote
<1>3. QED
  BY <1>1, <1>2

\* What icmp_error makes of a packet.
LEMMA IcmpErrorFields ==
  ASSUME NEW p, p \in Packet, NEW type, type \in Byte, NEW code, code \in Byte
  PROVE  LET a == icmp_error(p, type, code)
         IN  /\ a \in Packet
             /\ a.len = IpIcmpSize /\ a.ip.len = IpIcmpSize /\ a.ip.proto = IPPROTO_ICMP
             /\ a.ip.src = p.ip.src
             /\ a.quote = [ip |-> p.ip, data |-> p.data]
             /\ a.data.type = type /\ a.data.code = code
             /\ Verifies(IcmpWords(a))
<1> DEFINE b == append(p, IpIcmpSize, type, code)
           a == icmp_error(p, type, code)
           words == DataWords(b.data) + QuoteWords(b.quote)
<1>1. /\ b \in Packet
      /\ b.len = IpIcmpSize /\ b.ip = p.ip
      /\ b.quote = [ip |-> p.ip, data |-> p.data]
      /\ b.data = [type |-> type, code |-> code, cksum |-> 0, un |-> 0]
  <2>1. IpIcmpSize \in HalfWord
    BY SMT, HalfWordBounds DEF IpIcmpSize
  <2>2. QED
    BY <2>1, AppendFields
<1>2. PICK c : c = inet_cksum(words)
  OBVIOUS
<1>3. PICK icmp : icmp = IPPROTO_ICMP
  OBVIOUS
<1>4. PICK size : size = IpIcmpSize
  OBVIOUS
<1>5. a = [b EXCEPT !.data.cksum = c, !.ip.proto = icmp, !.ip.len = size]
  BY <1>2, <1>3, <1>4 DEF icmp_error
<1> HIDE DEF a, b, words
<1>6. b.data \in Data /\ b.quote \in Quote /\ b.ip \in IpHeader
  BY <1>1 DEF Packet, Quote
<1>7. c \in HalfWord /\ Verifies(words + c)
  <2>1. words \in Nat /\ words <= 4294967295
    BY SMT, <1>6, DataWordsBound, QuoteWordsBound DEF words
  <2>2. c = inet_cksum_finish(words)
    BY SMT, <1>2, <2>1 DEF inet_cksum, inet_cksum_continue
  <2>3. QED
    BY SMT, <2>1, <2>2, FinishVerifies
<1>8. icmp \in Byte /\ size \in HalfWord
  BY SMT, <1>3, <1>4, ByteBounds, HalfWordBounds DEF IPPROTO_ICMP, IpIcmpSize
<1>9. PICK p1 : p1 = [b EXCEPT !.data.cksum = c]
  OBVIOUS
<1>10. /\ p1 \in Packet /\ p1.len = b.len /\ p1.ip = b.ip /\ p1.quote = b.quote
       /\ p1.data = [b.data EXCEPT !.cksum = c]
  BY <1>1, <1>7, <1>9 DEF Data, Packet
<1>11. PICK p2 : p2 = [p1 EXCEPT !.ip.proto = icmp]
  OBVIOUS
<1>12. /\ p2 \in Packet /\ p2.len = b.len /\ p2.quote = b.quote /\ p2.data = p1.data
       /\ p2.ip.proto = icmp /\ p2.ip.src = b.ip.src
  BY <1>8, <1>10, <1>11 DEF IpHeader, Packet
<1>13. /\ a \in Packet /\ a.len = b.len /\ a.quote = b.quote /\ a.data = p1.data
       /\ a.ip.proto = icmp /\ a.ip.src = b.ip.src /\ a.ip.len = size
  <2>1. a = [p2 EXCEPT !.ip.len = size]
    BY <1>5, <1>9, <1>11
  <2>2. QED
    BY <1>8, <1>12, <2>1 DEF IpHeader, Packet
<1>14. a.data.type = type /\ a.data.code = code /\ a.data.cksum = c /\ a.data.un = 0
  BY <1>1, <1>6, <1>10, <1>13 DEF Data
<1>15. Verifies(IcmpWords(a))
  <2>1. a.quote # NoQuote
    BY <1>1, <1>13, QuoteIsQuote
  <2>2. DataWords(a.data) = DataWords(b.data) + c
    <3>1. DataWords(a.data) = (type + 256 * code) + c + 0
      BY <1>14 DEF DataWords
    <3>2. DataWords(b.data) = (type + 256 * code) + 0 + 0
      BY <1>1 DEF DataWords
    <3>3. type \in Int /\ code \in Int /\ c \in Int
      BY SMT, <1>7, ByteBounds, HalfWordBounds
    <3>4. QED
      BY <3>1, <3>2, <3>3
  <2>3. IcmpWords(a) = words + c
    <3>1. IcmpWords(a) = DataWords(b.data) + c + QuoteWords(b.quote)
      BY <1>13, <2>1, <2>2 DEF IcmpWords
    <3>2. DataWords(b.data) \in Int /\ QuoteWords(b.quote) \in Int /\ c \in Int
      BY SMT, <1>6, <1>7, DataWordsBound, QuoteWordsBound, HalfWordBounds
    <3>3. QED
      BY <3>1, <3>2 DEF words
  <2>4. QED
    BY <1>7, <2>3
<1>16. QED
  BY <1>1, <1>3, <1>4, <1>13, <1>14, <1>15 DEF a

\* What icmp_echo_reply makes of one.
LEMMA EchoReplyFields ==
  ASSUME NEW p, p \in Packet, NEW self, self.mtu \in HalfWord
  PROVE  LET a == icmp_echo_reply(self, p)
         IN  /\ a \in Packet
             /\ a.ip.src = p.ip.src /\ a.ip.proto = p.ip.proto /\ a.quote = p.quote
             /\ a.data.type = ICMP_ECHOREPLY /\ a.data.un = p.data.un
             /\ IF p.len <= self.mtu
                THEN /\ a.len = p.len /\ a.ip.len = p.ip.len
                     /\ p.data.type = ICMP_ECHO /\ p.quote = NoQuote /\ Verifies(IcmpWords(p))
                          => Verifies(256 * p.data.code + IcmpWords(a))
                ELSE /\ a.len = self.mtu /\ a.ip.len = self.mtu
                     /\ p.quote = NoQuote => Verifies(IcmpWords(a))
<1> DEFINE reply == [p EXCEPT !.data.type = ICMP_ECHOREPLY, !.data.code = 0]
           words == DataWords([reply.data EXCEPT !.cksum = 0])
           a     == icmp_echo_reply(self, p)
<1>1. 0 \in Byte /\ ICMP_ECHOREPLY = 0
  BY SMT, ByteBounds DEF ICMP_ECHOREPLY
<1>2. PICK p1 : p1 = [p EXCEPT !.data.type = ICMP_ECHOREPLY]
  OBVIOUS
<1>3. /\ p1 \in Packet /\ p1.len = p.len /\ p1.ip = p.ip /\ p1.quote = p.quote
      /\ p1.rest = p.rest /\ p1.cut = p.cut
      /\ p1.data.type = 0 /\ p1.data.code = p.data.code
      /\ p1.data.cksum = p.data.cksum /\ p1.data.un = p.data.un
  BY <1>1, <1>2, SetDataType
<1>4. reply = [p1 EXCEPT !.data.code = 0]
  BY <1>2
<1>5. /\ reply \in Packet /\ reply.len = p.len /\ reply.ip = p.ip /\ reply.quote = p.quote
      /\ reply.rest = p.rest /\ reply.cut = p.cut
      /\ reply.data.type = 0 /\ reply.data.code = 0
      /\ reply.data.cksum = p.data.cksum /\ reply.data.un = p.data.un
  <2> HIDE DEF reply
  <2>1. QED
    BY <1>1, <1>3, <1>4, SetDataCode
<1>6. a = IF p.len <= self.mtu
          THEN [reply EXCEPT !.data.cksum =
                  cksum_update(p.data.cksum, ICMP_ECHO - ICMP_ECHOREPLY)]
          ELSE [reply EXCEPT !.len = self.mtu, !.ip.len = self.mtu, !.rest = p.cut,
                             !.data.cksum = inet_cksum(words + p.cut)]
  BY DEF icmp_echo_reply
<1> HIDE DEF reply, words, a
<1>7. /\ p.data \in Data /\ p.ip \in IpHeader /\ reply.data \in Data
      /\ p.rest \in WordSums(32768) /\ p.cut \in WordSums(32768)
  BY <1>5 DEF Packet
<1>8. /\ p.data.type \in Nat /\ p.data.code \in Nat /\ p.data.cksum \in HalfWord
      /\ p.data.cksum \in Nat /\ p.data.un \in Nat /\ p.data.un <= 131070
      /\ p.rest \in Nat /\ p.cut \in Nat /\ p.cut <= 2147450880
  <2>1. /\ p.data.type \in Byte /\ p.data.code \in Byte /\ p.data.cksum \in HalfWord
        /\ p.data.un \in WordSums(2)
    BY <1>7 DEF Data
  <2>2. QED
    BY SMT, <1>7, <2>1, ByteBounds, HalfWordBounds, WordSumsBounds
<1>9. CASE p.len <= self.mtu
  <2>1. PICK c : c = cksum_update(p.data.cksum, 8)
    OBVIOUS
  <2>2. c \in HalfWord
    <3>1. PICK s \in Nat : s >= 8 /\ Verifies(s + p.data.cksum)
      <4>1. PICK s : s = 131070 - p.data.cksum
        OBVIOUS
      <4>2. s \in Nat /\ s >= 8 /\ s + p.data.cksum = 131070
        BY SMT, <1>8, <4>1, HalfWordBounds
      <4>3. Verifies(131070)
        BY SMT DEF Verifies
      <4>4. QED
        BY <4>2, <4>3
    <3>2. QED
      BY SMT, <1>8, <2>1, <3>1, UpdateVerifies
  <2>3. a = [reply EXCEPT !.data.cksum = c]
    BY <1>6, <1>9, <2>1 DEF ICMP_ECHO, ICMP_ECHOREPLY
  <2>4. /\ a \in Packet /\ a.len = p.len /\ a.ip = p.ip /\ a.quote = p.quote /\ a.rest = p.rest
        /\ a.data.type = 0 /\ a.data.code = 0 /\ a.data.cksum = c /\ a.data.un = p.data.un
    BY <1>5, <2>2, <2>3, SetDataCksum
  <2>5. ASSUME p.data.type = ICMP_ECHO, p.quote = NoQuote, Verifies(IcmpWords(p))
        PROVE  Verifies(256 * p.data.code + IcmpWords(a))
    <3>1. PICK s : s = 8 + 256 * p.data.code + p.data.un + p.rest
      OBVIOUS
    <3>2. IcmpWords(p) = s + p.data.cksum
      BY SMT, <1>8, <2>5, <3>1 DEF IcmpWords, DataWords, ICMP_ECHO
    <3>3. s \in Nat /\ s >= 8
      BY SMT, <1>8, <3>1
    <3>4. Verifies(s - 8 + c)
      BY SMT, <1>8, <2>1, <2>5, <3>2, <3>3, UpdateVerifies
    <3>5. c \in Nat
      BY SMT, <2>2, HalfWordBounds
    <3>6. 256 * p.data.code + IcmpWords(a) = s - 8 + c
      BY SMT, <1>8, <2>4, <2>5, <3>1, <3>5 DEF IcmpWords, DataWords
    <3>7. QED
      BY <3>4, <3>6
  <2>6. QED
    BY <1>1, <1>9, <2>4, <2>5 DEF a
<1>10. CASE ~(p.len <= self.mtu)
  <2>1. PICK c : c = inet_cksum(words + p.cut)
    OBVIOUS
  <2>2. words \in Nat /\ words = p.data.un
    <3>1. [reply.data EXCEPT !.cksum = 0].type = 0 /\ [reply.data EXCEPT !.cksum = 0].code = 0
      BY <1>5, <1>7 DEF Data
    <3>2. /\ [reply.data EXCEPT !.cksum = 0].cksum = 0
          /\ [reply.data EXCEPT !.cksum = 0].un = p.data.un
      BY <1>5, <1>7 DEF Data
    <3>3. words = (0 + 256 * 0) + 0 + p.data.un
      BY <3>1, <3>2 DEF words, DataWords
    <3>4. QED
      BY SMT, <1>8, <3>3
  <2>3. c \in HalfWord /\ Verifies(words + p.cut + c)
    <3>1. words + p.cut \in Nat /\ words + p.cut <= 4294967295
      BY SMT, <1>8, <2>2
    <3>2. c = inet_cksum_finish(words + p.cut)
      BY SMT, <2>1, <3>1 DEF inet_cksum, inet_cksum_continue
    <3>3. QED
      BY SMT, <3>1, <3>2, FinishVerifies
  <2>4. a = [reply EXCEPT !.len = self.mtu, !.ip.len = self.mtu, !.rest = p.cut,
                          !.data.cksum = c]
    BY <1>6, <1>10, <2>1
  <2>5. PICK q1 : q1 = [reply EXCEPT !.len = self.mtu]
    OBVIOUS
  <2>6. /\ q1 \in Packet /\ q1.len = self.mtu /\ q1.ip = p.ip /\ q1.quote = p.quote
        /\ q1.data = reply.data
    BY <1>5, <2>5, SetLen
  <2>7. PICK q2 : q2 = [q1 EXCEPT !.ip.len = self.mtu]
    OBVIOUS
  <2>8. /\ q2 \in Packet /\ q2.len = self.mtu /\ q2.quote = p.quote /\ q2.data = reply.data
        /\ q2.ip.len = self.mtu /\ q2.ip.src = p.ip.src /\ q2.ip.proto = p.ip.proto
    BY <2>6, <2>7, SetIpLen
  <2>9. PICK q3 : q3 = [q2 EXCEPT !.rest = p.cut]
    OBVIOUS
  <2>10. /\ q3 \in Packet /\ q3.len = self.mtu /\ q3.quote = p.quote /\ q3.data = reply.data
         /\ q3.ip = q2.ip /\ q3.rest = p.cut
    BY <1>7, <2>8, <2>9, SetRest
  <2>11. a = [q3 EXCEPT !.data.cksum = c]
    BY <2>4, <2>5, <2>7, <2>9
  <2>12. /\ a \in Packet /\ a.len = self.mtu /\ a.quote = p.quote /\ a.ip = q2.ip
         /\ a.rest = p.cut
         /\ a.data.type = 0 /\ a.data.code = 0 /\ a.data.cksum = c /\ a.data.un = p.data.un
    BY <1>5, <2>3, <2>10, <2>11, SetDataCksum
  <2>13. ASSUME p.quote = NoQuote PROVE Verifies(IcmpWords(a))
    <3>1. c \in Nat
      BY SMT, <2>3, HalfWordBounds
    <3>2. IcmpWords(a) = words + p.cut + c
      BY SMT, <1>8, <2>2, <2>12, <2>13, <3>1 DEF IcmpWords, DataWords
    <3>3. QED
      BY <2>3, <3>2
  <2>14. QED
    BY <1>1, <1>10, <2>8, <2>12, <2>13 DEF a
<1>11. QED
  BY <1>9, <1>10

\* A packet that is not answered.
LEMMA IgnoredFields ==
  ASSUME NEW p, p \in Packet, NEW r, r = Ignored(p)
  PROVE  r.ret = 0 /\ r.pkt \in Packet /\ r.pkt.len = 0 /\ r.pkt.ip = p.ip
<1>1. PICK q : q = [p EXCEPT !.len = 0]
  OBVIOUS
<1>2. 0 \in HalfWord
  BY SMT, HalfWordBounds
<1>3. q \in Packet /\ q.len = 0 /\ q.ip = p.ip
  BY <1>1, <1>2, SetLen
<1>4. r = [ret |-> 0, pkt |-> q]
  BY <1>1 DEF Ignored
<1>5. QED
  BY ONLY <1>3, <1>4

\* The fields of a host that the parser let pass.
LEMMA HostFields ==
  ASSUME NEW minmtu, minmtu \in Nat, NEW h, h \in Hosts(minmtu)
  PROVE  /\ h.addr \in Addr /\ h.ttl \in Byte /\ h.ttl \in Nat /\ h.ttl <= 255
         /\ h.mtu \in Nat /\ h.mtu >= minmtu /\ h.mtu <= 65535 /\ h.mtu \in HalfWord
<1>1. h.addr \in Addr /\ h.ttl \in Byte /\ h.mtu \in minmtu .. 65535
  BY DEF Hosts
<1>2. h.ttl \in Nat /\ h.ttl <= 255
  BY SMT, <1>1, ByteBounds
<1>3. h.mtu \in Nat /\ h.mtu >= minmtu /\ h.mtu <= 65535
  BY SMT, <1>1
<1>4. QED
  BY <1>1, <1>2, <1>3, HalfWordBounds

\* A packet with the checksum of its IPv4 header, as FakeHost_reply ends an answer.
Signed(b) == [b EXCEPT !.ip.sum = inet_cksum_header(IpWords(b.ip))]

\* Addresses and checksum of an ICMP packet, set at the end of an answer.
LEMMA AnswerHeader ==
  ASSUME NEW r, r \in Packet, r.ip.proto = IPPROTO_ICMP,
         NEW self, self.addr \in Addr, self.ttl \in Int, NEW ttl, ttl \in Int,
         NEW a, a = Signed(readdress(self, ttl, r))
  PROVE  /\ a \in Packet
         /\ a.len = r.len /\ a.ip.len = r.ip.len
         /\ a.data = r.data /\ a.quote = r.quote /\ a.rest = r.rest
         /\ a.ip.src = self.addr /\ a.ip.dst = r.ip.src
         /\ a.ip.ttl = (self.ttl - ttl) % 256
         /\ Verifies(IpWords(a.ip) + a.ip.sum)
<1>0. PICK b : b = readdress(self, ttl, r)
  OBVIOUS
<1>1. /\ b \in Packet
      /\ b.len = r.len /\ b.data = r.data /\ b.quote = r.quote /\ b.rest = r.rest
      /\ b.ip.src = self.addr /\ b.ip.dst = r.ip.src
      /\ b.ip.ttl = (self.ttl - ttl) % 256
      /\ b.ip.proto = r.ip.proto /\ b.ip.len = r.ip.len
  <2>1. r \in Packet /\ self.addr \in Addr /\ self.ttl \in Int /\ ttl \in Int
    OBVIOUS
  <2>2. QED
    BY ONLY <1>0, <2>1, ReaddressFields
<1>2. b.ip \in IpHeader
  BY <1>1 DEF Packet
<1>3. PICK s : s = IpWords(b.ip)
  OBVIOUS
<1>4. s \in Nat /\ s > 0 /\ s <= 4294900000
  <2>1. s \in Nat /\ s <= 1400000 /\ s >= 256 * b.ip.proto
    BY SMT, <1>2, <1>3, IpWordsBound
  <2>2. b.ip.proto = 1
    BY <1>1 DEF IPPROTO_ICMP
  <2>3. QED
    BY SMT, <2>1, <2>2
<1>5. PICK sum : sum = inet_cksum_header(s)
  OBVIOUS
<1>6. sum \in HalfWord /\ Verifies(s + sum)
  BY <1>4, <1>5, HeaderVerifies
<1>7. a = [b EXCEPT !.ip.sum = sum]
  BY <1>0, <1>3, <1>5 DEF Signed
<1>8. /\ a \in Packet
      /\ a.len = b.len /\ a.data = b.data /\ a.quote = b.quote /\ a.rest = b.rest
      /\ a.ip.sum = sum /\ a.ip.ttl = b.ip.ttl /\ a.ip.src = b.ip.src /\ a.ip.dst = b.ip.dst
      /\ a.ip.proto = b.ip.proto /\ a.ip.len = b.ip.len /\ a.ip.other = b.ip.other
  <2>1. b \in Packet /\ sum \in HalfWord
    BY <1>1, <1>6
  <2>2. QED
    BY <1>7, <2>1, SetIpSum
<1>9. IpWords(a.ip) = s
  BY <1>3, <1>8 DEF IpWords
<1>10. QED
  BY <1>1, <1>6, <1>8, <1>9

\* What a host whose index in the chain is ttl answers to p, whose TTL reaches it.
Answers4(self, ttl, p, a) ==
  /\ a \in Packet /\ a.len > 0
  /\ p.len = p.ip.len => a.len = a.ip.len
  /\ a.ip.src = self.addr /\ a.ip.dst = p.ip.src /\ a.ip.ttl = (self.ttl - ttl) % 256
  /\ Kind4(a) = IF self.addr = p.ip.dst THEN "target"
                ELSE IF p.ip.ttl = ttl + 1 THEN "transit" ELSE "astray"
  /\ a.quote = NoQuote \/ a.quote = [ip |-> p.ip, data |-> p.data]
  /\ Verifies(IpWords(a.ip) + a.ip.sum)
  /\ a.quote # NoQuote => Verifies(IcmpWords(a))
  /\ a.quote = NoQuote =>
       /\ p.ip.proto = IPPROTO_ICMP /\ p.data.type = ICMP_ECHO
       /\ a.data.type = ICMP_ECHOREPLY /\ a.data.un = p.data.un
       /\ Verifies(IcmpWords(p)) =>
            Verifies((IF a.len = p.len THEN 256 * p.data.code ELSE 0) + IcmpWords(a))

\* An ICMP error is such an answer if it is of the right kind.
LEMMA ErrorAnswers4 ==
  ASSUME NEW p, p \in Packet, NEW self, self.addr \in Addr, self.ttl \in Int, NEW ttl, ttl \in Int,
         NEW type, type \in Byte, NEW code, code \in Byte,
         NEW a, a = Signed(readdress(self, ttl, icmp_error(p, type, code))),
         \/ /\ self.addr = p.ip.dst
            /\ type = ICMP_UNREACH /\ code = ICMP_UNREACH_PORT
         \/ /\ self.addr # p.ip.dst /\ p.ip.ttl = ttl + 1
            /\ type = ICMP_TIMXCEED
         \/ /\ self.addr # p.ip.dst /\ p.ip.ttl # ttl + 1
            /\ type = ICMP_UNREACH /\ code = ICMP_UNREACH_HOST
  PROVE  Answers4(self, ttl, p, a)
<1>0. PICK r : r = icmp_error(p, type, code)
  OBVIOUS
<1>1. /\ r \in Packet
      /\ r.len = IpIcmpSize /\ r.ip.len = IpIcmpSize /\ r.ip.proto = IPPROTO_ICMP
      /\ r.ip.src = p.ip.src
      /\ r.quote = [ip |-> p.ip, data |-> p.data]
      /\ r.data.type = type /\ r.data.code = code
      /\ Verifies(IcmpWords(r))
  BY <1>0, IcmpErrorFields
<1>2. /\ a \in Packet
      /\ a.len = r.len /\ a.ip.len = r.ip.len
      /\ a.data = r.data /\ a.quote = r.quote /\ a.rest = r.rest
      /\ a.ip.src = self.addr /\ a.ip.dst = r.ip.src
      /\ a.ip.ttl = (self.ttl - ttl) % 256
      /\ Verifies(IpWords(a.ip) + a.ip.sum)
  BY <1>0, <1>1, AnswerHeader
<1>3. IcmpWords(a) = IcmpWords(r)
  BY <1>2 DEF IcmpWords
<1>4. Kind4(a) = IF self.addr = p.ip.dst THEN "target"
                 ELSE IF p.ip.ttl = ttl + 1 THEN "transit" ELSE "astray"
  <2>1. a.data.type = type /\ a.data.code = code
    BY <1>1, <1>2
  <2>2. CASE type = 11
    BY <2>1, <2>2 DEF Kind4, ICMP_UNREACH, ICMP_UNREACH_PORT, ICMP_UNREACH_HOST,
                    ICMP_TIMXCEED, ICMP_ECHOREPLY
  <2>3. CASE type = 3 /\ code = 1
    BY <2>1, <2>3 DEF Kind4, ICMP_UNREACH, ICMP_UNREACH_PORT, ICMP_UNREACH_HOST,
                    ICMP_TIMXCEED, ICMP_ECHOREPLY
  <2>4. CASE type = 3 /\ code = 3
    BY <2>1, <2>4 DEF Kind4, ICMP_UNREACH, ICMP_UNREACH_PORT, ICMP_UNREACH_HOST,
                    ICMP_TIMXCEED, ICMP_ECHOREPLY
  <2>5. QED
    BY <2>2, <2>3, <2>4
       DEF ICMP_UNREACH, ICMP_UNREACH_PORT, ICMP_UNREACH_HOST, ICMP_TIMXCEED
<1>5. a.quote # NoQuote
  BY <1>1, <1>2, QuoteIsQuote
<1>6. a.len > 0
  BY <1>1, <1>2 DEF IpIcmpSize
<1>7. QED
  BY <1>1, <1>2, <1>3, <1>4, <1>5, <1>6 DEF Answers4

\* So is the reply to an echo request.
LEMMA EchoAnswers4 ==
  ASSUME NEW p, p \in Packet, p.quote = NoQuote, p.len > 0,
         p.ip.proto = IPPROTO_ICMP, p.data.type = ICMP_ECHO,
         NEW minmtu, minmtu \in Nat, minmtu > 0,
         NEW self, self \in Hosts(minmtu), self.addr = p.ip.dst, NEW ttl, ttl \in Int,
         NEW a, a = Signed(readdress(self, ttl, icmp_echo_reply(self, p)))
  PROVE  Answers4(self, ttl, p, a)
<1>0. PICK r : r = icmp_echo_reply(self, p)
  OBVIOUS
<1>1. /\ self.addr \in Addr /\ self.ttl \in Int
      /\ self.mtu \in HalfWord /\ self.mtu \in Nat /\ self.mtu > 0
  BY SMT, HostFields
<1>2. /\ r \in Packet
      /\ r.ip.src = p.ip.src /\ r.ip.proto = p.ip.proto /\ r.quote = p.quote
      /\ r.data.type = ICMP_ECHOREPLY /\ r.data.un = p.data.un
      /\ IF p.len <= self.mtu
         THEN /\ r.len = p.len /\ r.ip.len = p.ip.len
              /\ Verifies(IcmpWords(p)) => Verifies(256 * p.data.code + IcmpWords(r))
         ELSE /\ r.len = self.mtu /\ r.ip.len = self.mtu
              /\ Verifies(IcmpWords(r))
  BY <1>0, <1>1, EchoReplyFields
<1>3. /\ a \in Packet
      /\ a.len = r.len /\ a.ip.len = r.ip.len
      /\ a.data = r.data /\ a.quote = r.quote /\ a.rest = r.rest
      /\ a.ip.src = self.addr /\ a.ip.dst = r.ip.src
      /\ a.ip.ttl = (self.ttl - ttl) % 256
      /\ Verifies(IpWords(a.ip) + a.ip.sum)
  BY <1>0, <1>1, <1>2, AnswerHeader
<1>4. IcmpWords(a) = IcmpWords(r)
  BY <1>3 DEF IcmpWords
<1>5. Kind4(a) = "target"
  <2>1. a.data.type = 0
    BY <1>2, <1>3 DEF ICMP_ECHOREPLY
  <2>2. QED
    BY <2>1 DEF Kind4, ICMP_UNREACH, ICMP_UNREACH_PORT, ICMP_UNREACH_HOST,
                ICMP_TIMXCEED, ICMP_ECHOREPLY
<1>6. a.len > 0 /\ (p.len = p.ip.len => a.len = a.ip.len)
  BY <1>1, <1>2, <1>3
<1>7. Verifies(IcmpWords(p)) =>
        Verifies((IF a.len = p.len THEN 256 * p.data.code ELSE 0) + IcmpWords(a))
  <2>1. CASE p.len <= self.mtu
    BY <1>2, <1>3, <1>4, <2>1
  <2>2. CASE ~(p.len <= self.mtu)
    <3>1. a.len # p.len
      <4>1. p.len \in Nat
        <5>1. p.len \in HalfWord
          BY DEF Packet
        <5>2. QED
          BY SMT, <5>1, HalfWordBounds
      <4>2. QED
        BY <1>1, <1>2, <1>3, <2>2, <4>1
    <3>2. IcmpWords(a) \in Int
      <4>1. a.data \in Data /\ a.rest \in WordSums(32768) /\ a.quote = NoQuote
        BY <1>2, <1>3 DEF Packet
      <4>2. DataWords(a.data) \in Nat /\ a.rest \in Nat
        BY SMT, <4>1, DataWordsBound, WordSumsBounds
      <4>3. QED
        BY <4>1, <4>2 DEF IcmpWords
    <3>3. 0 + IcmpWords(a) = IcmpWords(a)
      BY <3>2
    <3>4. Verifies(IcmpWords(a))
      BY <1>2, <1>4, <2>2
    <3>5. QED
      BY <3>1, <3>3, <3>4
  <2>3. QED
    BY <2>1, <2>2
<1>8. QED
  BY <1>2, <1>3, <1>5, <1>6, <1>7 DEF Answers4

\* What FakeHost_reply returns for any packet: not reached, no answer, or one.
LEMMA FakeHostReplies ==
  ASSUME NEW p, p \in Packet, p.quote = NoQuote, p.len > 0,
         NEW minmtu, minmtu \in Nat, minmtu > 0,
         NEW self, self \in Hosts(minmtu), NEW ttl, ttl \in Nat,
         NEW r, r = FakeHost_reply(self, ttl, p)
  PROVE  IF p.ip.ttl <= ttl THEN r = TooFar(p)
         ELSE IF self.addr = p.ip.dst /\ p.ip.proto = IPPROTO_ICMP /\ p.data.type # ICMP_ECHO
         THEN r = Ignored(p)
         ELSE r.ret = 0 /\ Answers4(self, ttl, p, r.pkt)
<1>1. self.addr \in Addr /\ self.ttl \in Int
  BY SMT, HostFields
<1>2. p.ip.ttl \in Nat
  <2>1. p.ip.ttl \in Byte
    BY DEF Packet, IpHeader
  <2>2. QED
    BY SMT, <2>1, ByteBounds
<1> DEFINE answer(b) == [ret |-> 0, pkt |-> Signed(readdress(self, ttl, b))]
           left == p.ip.ttl - ttl
           target == self.addr = p.ip.dst
           ping   == p.ip.proto = IPPROTO_ICMP
<1>3. r = CASE p.ip.ttl <= ttl -> TooFar(p)
            [] left = 1 /\ ~target ->
                 answer(icmp_error(p, ICMP_TIMXCEED, ICMP_TIMXCEED_INTRANS))
            [] left > 1 /\ ~target ->
                 answer(icmp_error(p, ICMP_UNREACH, ICMP_UNREACH_HOST))
            [] left > 0 /\ target /\ ~ping ->
                 answer(icmp_error(p, ICMP_UNREACH, ICMP_UNREACH_PORT))
            [] left > 0 /\ target /\ ping /\ p.data.type = ICMP_ECHO ->
                 answer(icmp_echo_reply(self, p))
            [] OTHER -> Ignored(p)
  BY Zenon DEF FakeHost_reply, Signed
<1>4. /\ ICMP_TIMXCEED \in Byte /\ ICMP_TIMXCEED_INTRANS \in Byte /\ ICMP_UNREACH \in Byte
      /\ ICMP_UNREACH_HOST \in Byte /\ ICMP_UNREACH_PORT \in Byte
  BY SMT, ByteBounds DEF ICMP_TIMXCEED, ICMP_TIMXCEED_INTRANS, ICMP_UNREACH,
     ICMP_UNREACH_HOST, ICMP_UNREACH_PORT
<1> HIDE DEF answer
<1>5. CASE p.ip.ttl <= ttl
  <2>1. r = TooFar(p)
    BY <1>2, <1>3, <1>5
  <2>2. QED
    BY <1>5, <2>1
<1>6. CASE left = 1 /\ ~target
  <2>1. r = answer(icmp_error(p, ICMP_TIMXCEED, ICMP_TIMXCEED_INTRANS))
    BY <1>2, <1>3, <1>6
  <2>2. p.ip.ttl = ttl + 1
    BY <1>2, <1>6
  <2>3. /\ r.ret = 0
        /\ r.pkt = Signed(readdress(self, ttl, icmp_error(p, ICMP_TIMXCEED, ICMP_TIMXCEED_INTRANS)))
    BY <2>1 DEF answer
  <2>4. Answers4(self, ttl, p, r.pkt)
    <3>1. self.addr # p.ip.dst /\ ttl \in Int
      BY <1>6
    <3>2. QED
      BY ONLY <1>1, <1>4, <2>2, <2>3, <3>1, p \in Packet, ErrorAnswers4
  <2>5. QED
    BY <1>2, <1>6, <2>3, <2>4
<1>7. CASE left > 1 /\ ~target
  <2>1. r = answer(icmp_error(p, ICMP_UNREACH, ICMP_UNREACH_HOST))
    BY <1>2, <1>3, <1>7
  <2>2. p.ip.ttl # ttl + 1
    BY <1>2, <1>7
  <2>3. /\ r.ret = 0
        /\ r.pkt = Signed(readdress(self, ttl, icmp_error(p, ICMP_UNREACH, ICMP_UNREACH_HOST)))
    BY <2>1 DEF answer
  <2>4. Answers4(self, ttl, p, r.pkt)
    <3>1. self.addr # p.ip.dst /\ ttl \in Int
      BY <1>7
    <3>2. QED
      BY ONLY <1>1, <1>4, <2>2, <2>3, <3>1, p \in Packet, ErrorAnswers4
  <2>5. QED
    BY <1>2, <1>7, <2>3, <2>4
<1>8. CASE left > 0 /\ target /\ ~ping
  <2>1. r = answer(icmp_error(p, ICMP_UNREACH, ICMP_UNREACH_PORT))
    BY <1>2, <1>3, <1>8
  <2>2. /\ r.ret = 0
        /\ r.pkt = Signed(readdress(self, ttl, icmp_error(p, ICMP_UNREACH, ICMP_UNREACH_PORT)))
    BY <2>1 DEF answer
  <2>3. Answers4(self, ttl, p, r.pkt)
    <3>1. self.addr = p.ip.dst /\ ttl \in Int
      BY <1>8
    <3>2. QED
      BY ONLY <1>1, <1>4, <2>2, <3>1, p \in Packet, ErrorAnswers4
  <2>4. QED
    BY <1>2, <1>8, <2>2, <2>3
<1>9. CASE left > 0 /\ target /\ ping /\ p.data.type = ICMP_ECHO
  <2>1. r = answer(icmp_echo_reply(self, p))
    BY <1>2, <1>3, <1>9
  <2>2. r.ret = 0 /\ r.pkt = Signed(readdress(self, ttl, icmp_echo_reply(self, p)))
    BY <2>1 DEF answer
  <2>3. Answers4(self, ttl, p, r.pkt)
    BY <1>9, <2>2, EchoAnswers4
  <2>4. QED
    BY <1>2, <1>9, <2>2, <2>3
<1>10. CASE left > 0 /\ target /\ ping /\ p.data.type # ICMP_ECHO
  <2>1. r = Ignored(p)
    BY <1>2, <1>3, <1>10
  <2>2. QED
    BY <1>2, <1>10, <2>1
<1>11. QED
  BY <1>2, <1>5, <1>6, <1>7, <1>8, <1>9, <1>10
-----------------------------------------------------------------------------
(* Answers in IPv6 *)

\* What icmp6_error makes of a packet; the checksum comes last.
LEMMA Icmp6ErrorFields ==
  ASSUME NEW p, p \in Packet, NEW type, type \in Byte, NEW code, code \in Byte,
         NEW a, a = icmp6_error(p, type, code)
  PROVE  /\ a \in Packet
         /\ a.len = IpIcmp6Size /\ a.ip.len = IpIcmp6Size - Ip6Size
         /\ a.ip.src = p.ip.src
         /\ a.quote = [ip |-> p.ip, data |-> p.data]
         /\ a.data.type = type /\ a.data.code = code
<1>1. PICK b : b = append(p, IpIcmp6Size, type, code)
  OBVIOUS
<1>2. /\ b \in Packet
      /\ b.len = IpIcmp6Size /\ b.ip = p.ip
      /\ b.quote = [ip |-> p.ip, data |-> p.data]
      /\ b.data = [type |-> type, code |-> code, cksum |-> 0, un |-> 0]
  <2>1. IpIcmp6Size \in HalfWord
    BY SMT, HalfWordBounds DEF IpIcmp6Size
  <2>2. QED
    BY <1>1, <2>1, AppendFields
<1>3. PICK size : size = IpIcmp6Size - Ip6Size
  OBVIOUS
<1>4. size \in HalfWord /\ IPPROTO_ICMPV6 \in Byte
  BY SMT, <1>3, ByteBounds, HalfWordBounds DEF IPPROTO_ICMPV6, IpIcmp6Size, Ip6Size
<1>5. PICK p1 : p1 = [b EXCEPT !.ip.len = size]
  OBVIOUS
<1>6. /\ p1 \in Packet /\ p1.len = b.len /\ p1.quote = b.quote /\ p1.data = b.data
      /\ p1.ip.len = size /\ p1.ip.src = b.ip.src
  BY <1>2, <1>4, <1>5, SetIpLen
<1>7. a = [p1 EXCEPT !.ip.proto = IPPROTO_ICMPV6]
  BY <1>1, <1>3, <1>5 DEF icmp6_error
<1>8. /\ a \in Packet /\ a.len = p1.len /\ a.quote = p1.quote /\ a.data = p1.data
      /\ a.ip.len = p1.ip.len /\ a.ip.src = p1.ip.src
  BY <1>4, <1>6, <1>7, SetIpProto
<1>9. a.data.type = type /\ a.data.code = code
  BY <1>2, <1>6, <1>8
<1>10. QED
  BY <1>2, <1>3, <1>6, <1>8, <1>9

\* The words an ICMPv6 checksum is computed over, but for itself.
Covered(a) ==
  PseudoWords(a.ip)
    + (DataWords(a.data) + IF a.quote = NoQuote THEN a.rest ELSE Quote6Words(a.quote))

\* A packet with its ICMPv6 checksum, as FakeHost6_reply ends an answer.
Signed6(b) ==
  LET a == [b EXCEPT !.data.cksum = 0]
  IN  [a EXCEPT !.data.cksum = inet_cksum_finish(Covered(a))]

\* Addresses and checksum of an ICMPv6 packet, set at the end of an answer.
LEMMA AnswerHeader6 ==
  ASSUME NEW r, r \in Packet,
         NEW self, self.addr \in Addr, self.ttl \in Int, NEW ttl, ttl \in Int,
         NEW a, a = Signed6(readdress(self, ttl, r))
  PROVE  /\ a \in Packet
         /\ a.len = r.len /\ a.ip.len = r.ip.len
         /\ a.data.type = r.data.type /\ a.data.code = r.data.code
         /\ a.quote = r.quote /\ a.rest = r.rest
         /\ a.ip.src = self.addr /\ a.ip.dst = r.ip.src
         /\ a.ip.ttl = (self.ttl - ttl) % 256
         /\ Verifies(Icmp6Words(a))
<1>1. PICK b : b = readdress(self, ttl, r)
  OBVIOUS
<1>2. /\ b \in Packet
      /\ b.len = r.len /\ b.data = r.data /\ b.quote = r.quote /\ b.rest = r.rest
      /\ b.ip.src = self.addr /\ b.ip.dst = r.ip.src
      /\ b.ip.ttl = (self.ttl - ttl) % 256
      /\ b.ip.proto = r.ip.proto /\ b.ip.len = r.ip.len
  BY <1>1, ReaddressFields
<1>3. PICK z : z = [b EXCEPT !.data.cksum = 0]
  OBVIOUS
<1>4. /\ z \in Packet /\ z.len = b.len /\ z.ip = b.ip /\ z.quote = b.quote /\ z.rest = b.rest
      /\ z.data.cksum = 0 /\ z.data.type = b.data.type /\ z.data.code = b.data.code
      /\ z.data.un = b.data.un
  <2>1. 0 \in HalfWord
    BY SMT, HalfWordBounds
  <2>2. QED
    BY <1>2, <1>3, <2>1, SetDataCksum
<1>5. PICK words : words = IF z.quote = NoQuote THEN z.rest ELSE Quote6Words(z.quote)
  OBVIOUS
<1>6. /\ z.ip \in IpHeader /\ z.data \in Data /\ z.rest \in WordSums(32768)
      /\ z.quote \in Quote \cup {NoQuote}
  BY <1>4 DEF Packet
<1>7. words \in Nat /\ words <= 2147450880
  <2>1. CASE z.quote = NoQuote
    <3>1. z.rest \in Nat /\ z.rest <= 2147450880
      BY SMT, <1>6, WordSumsBounds
    <3>2. QED
      BY SMT, <1>5, <2>1, <3>1
  <2>2. CASE z.quote # NoQuote
    <3>1. Quote6Words(z.quote) \in Nat /\ Quote6Words(z.quote) <= 2000000
      BY SMT, <1>6, <2>2, QuoteWordsBound
    <3>2. QED
      BY SMT, <1>5, <2>2, <3>1
  <2>3. QED
    BY <2>1, <2>2
<1>8. /\ PseudoWords(z.ip) \in Nat /\ PseudoWords(z.ip) <= 1400000
      /\ DataWords(z.data) \in Nat /\ DataWords(z.data) <= 300000
  BY SMT, <1>6, IpWordsBound, DataWordsBound
<1>9. PICK s : s = PseudoWords(z.ip) + (DataWords(z.data) + words)
  OBVIOUS
<1>10. s \in Nat /\ s <= 4294967295
  BY SMT, <1>7, <1>8, <1>9
<1>11. PICK c : c = inet_cksum_finish(s)
  OBVIOUS
<1>12. c \in HalfWord /\ Verifies(s + c)
  BY <1>10, <1>11, FinishVerifies
<1>13. a = [z EXCEPT !.data.cksum = c]
  BY <1>1, <1>3, <1>5, <1>9, <1>11 DEF Signed6, Covered
<1>14. /\ a \in Packet /\ a.len = z.len /\ a.ip = z.ip /\ a.quote = z.quote /\ a.rest = z.rest
       /\ a.data.cksum = c /\ a.data.type = z.data.type /\ a.data.code = z.data.code
       /\ a.data.un = z.data.un
  <2>1. z \in Packet /\ c \in HalfWord
    BY <1>4, <1>12
  <2>2. QED
    BY <1>13, <2>1, SetDataCksum
<1>15. Icmp6Words(a) = s + c
  <2>1. c \in Nat
    BY SMT, <1>12, HalfWordBounds
  <2>2. DataWords(a.data) = DataWords(z.data) + c
    <3>1. z.data.type \in Nat /\ z.data.code \in Nat /\ z.data.un \in Nat
      <4>1. z.data.type \in Byte /\ z.data.code \in Byte /\ z.data.un \in WordSums(2)
        BY <1>6 DEF Data
      <4>2. QED
        BY SMT, <4>1, ByteBounds, WordSumsBounds
    <3>2. QED
      BY <1>4, <1>14, <2>1, <3>1 DEF DataWords
  <2>3. Icmp6Words(a) = PseudoWords(z.ip) + (DataWords(z.data) + c) + words
    BY <1>5, <1>14, <2>2 DEF Icmp6Words
  <2>4. QED
    BY <1>7, <1>8, <1>9, <2>1, <2>3
<1>16. QED
  BY <1>2, <1>4, <1>12, <1>14, <1>15

\* What a host whose index in the chain is ttl answers to p, whose hop limit
\* reaches it.
Answers6(self, ttl, p, a) ==
  /\ a \in Packet /\ a.len > 0
  /\ p.len = p.ip.len + Ip6Size => a.len = a.ip.len + Ip6Size
  /\ a.ip.src = self.addr /\ a.ip.dst = p.ip.src /\ a.ip.ttl = (self.ttl - ttl) % 256
  /\ Kind6(a) = IF self.addr = p.ip.dst THEN "target"
                ELSE IF p.ip.ttl = ttl + 1 THEN "transit" ELSE "astray"
  /\ a.quote = NoQuote \/ a.quote = [ip |-> p.ip, data |-> p.data]
  /\ a.quote # NoQuote => Verifies(Icmp6Words(a))
  /\ a.quote = NoQuote =>
       /\ p.ip.proto = IPPROTO_ICMPV6 /\ p.data.type = ICMP6_ECHO_REQUEST
       /\ Verifies(Icmp6Words(p)) =>
            Verifies((IF a.len = p.len THEN 256 * p.data.code ELSE 0) + Icmp6Words(a))

\* An ICMPv6 error is such an answer if it is of the right kind.
LEMMA ErrorAnswers6 ==
  ASSUME NEW p, p \in Packet, NEW self, self.addr \in Addr, self.ttl \in Int,
         NEW ttl, ttl \in Int, NEW type, type \in Byte, NEW code, code \in Byte,
         NEW a, a = Signed6(readdress(self, ttl, icmp6_error(p, type, code))),
         \/ /\ self.addr = p.ip.dst
            /\ type = ICMP6_DST_UNREACH /\ code = ICMP6_DST_UNREACH_NOPORT
         \/ /\ self.addr # p.ip.dst /\ p.ip.ttl = ttl + 1
            /\ type = ICMP6_TIME_EXCEEDED
         \/ /\ self.addr # p.ip.dst /\ p.ip.ttl # ttl + 1
            /\ type = ICMP6_DST_UNREACH /\ code = ICMP6_DST_UNREACH_ADDR
  PROVE  Answers6(self, ttl, p, a)
<1>1. PICK r : r = icmp6_error(p, type, code)
  OBVIOUS
<1>2. /\ r \in Packet
      /\ r.len = IpIcmp6Size /\ r.ip.len = IpIcmp6Size - Ip6Size
      /\ r.ip.src = p.ip.src
      /\ r.quote = [ip |-> p.ip, data |-> p.data]
      /\ r.data.type = type /\ r.data.code = code
  BY <1>1, Icmp6ErrorFields
<1>3. /\ a \in Packet
      /\ a.len = r.len /\ a.ip.len = r.ip.len
      /\ a.data.type = r.data.type /\ a.data.code = r.data.code
      /\ a.quote = r.quote /\ a.rest = r.rest
      /\ a.ip.src = self.addr /\ a.ip.dst = r.ip.src
      /\ a.ip.ttl = (self.ttl - ttl) % 256
      /\ Verifies(Icmp6Words(a))
  BY <1>1, <1>2, AnswerHeader6
<1>4. Kind6(a) = IF self.addr = p.ip.dst THEN "target"
                 ELSE IF p.ip.ttl = ttl + 1 THEN "transit" ELSE "astray"
  <2>1. a.data.type = type /\ a.data.code = code
    BY <1>2, <1>3
  <2> USE DEF ICMP6_DST_UNREACH, ICMP6_DST_UNREACH_NOPORT, ICMP6_DST_UNREACH_ADDR,
              ICMP6_TIME_EXCEEDED, ICMP6_ECHO_REPLY
  <2>2. CASE type = 3
    BY <2>1, <2>2 DEF Kind6
  <2>3. CASE type = 1 /\ code = 3
    BY <2>1, <2>3 DEF Kind6
  <2>4. CASE type = 1 /\ code = 4
    BY <2>1, <2>4 DEF Kind6
  <2>5. QED
    BY <2>2, <2>3, <2>4
<1>5. a.quote # NoQuote
  BY <1>2, <1>3, QuoteIsQuote
<1>6. a.len > 0 /\ a.len = a.ip.len + Ip6Size
  BY <1>2, <1>3 DEF IpIcmp6Size, Ip6Size
<1>7. QED
  BY <1>2, <1>3, <1>4, <1>5, <1>6 DEF Answers6

\* An echo request answered uncut: its checksum is updated for the type, which is
\* right because the swapped addresses add up to the same.
LEMMA EchoAnswers6 ==
  ASSUME NEW p, p \in Packet, p.quote = NoQuote, p.len > 0,
         p.ip.proto = IPPROTO_ICMPV6, p.data.type = ICMP6_ECHO_REQUEST,
         NEW self, self.addr \in Addr, self.ttl \in Int, self.addr = p.ip.dst,
         NEW ttl, ttl \in Int,
         NEW change, change = ICMP6_ECHO_REQUEST - ICMP6_ECHO_REPLY,
         NEW r, r = [p EXCEPT !.data.type = ICMP6_ECHO_REPLY, !.data.code = 0,
                              !.data.cksum = cksum_update(p.data.cksum, change)],
         NEW a, a = readdress(self, ttl, r)
  PROVE  Answers6(self, ttl, p, a)
<1>1. /\ ICMP6_ECHO_REPLY \in Byte /\ 0 \in Byte /\ change = -1
      /\ ICMP6_ECHO_REPLY = 129 /\ ICMP6_ECHO_REQUEST = 128
  BY SMT, ByteBounds DEF ICMP6_ECHO_REPLY, ICMP6_ECHO_REQUEST
<1>2. p.data \in Data /\ p.ip \in IpHeader /\ p.rest \in WordSums(32768)
  BY DEF Packet
<1>3. /\ p.data.code \in Nat /\ p.data.cksum \in HalfWord
      /\ p.data.cksum \in Nat /\ p.data.cksum <= 65535 /\ p.data.un \in Nat
      /\ p.rest \in Nat /\ PseudoWords(p.ip) \in Nat
  <2>1. /\ p.data.code \in Byte /\ p.data.cksum \in HalfWord
        /\ p.data.un \in WordSums(2)
    BY <1>2 DEF Data
  <2>2. QED
    BY SMT, <1>2, <2>1, ByteBounds, HalfWordBounds, WordSumsBounds, IpWordsBound
<1>4. PICK c : c = cksum_update(p.data.cksum, -1)
  OBVIOUS
<1>5. c \in HalfWord
  <2>1. PICK s : s = 131070 - p.data.cksum
    OBVIOUS
  <2>2. s \in Nat /\ s >= -1 /\ s + p.data.cksum = 131070
    BY SMT, <1>3, <2>1
  <2>3. Verifies(131070)
    BY SMT DEF Verifies
  <2>4. QED
    BY SMT, <1>3, <1>4, <2>2, <2>3, UpdateVerifies
<1>6. PICK p1 : p1 = [p EXCEPT !.data.type = ICMP6_ECHO_REPLY]
  OBVIOUS
<1>7. /\ p1 \in Packet /\ p1.len = p.len /\ p1.ip = p.ip /\ p1.quote = p.quote
      /\ p1.rest = p.rest
      /\ p1.data.type = ICMP6_ECHO_REPLY /\ p1.data.un = p.data.un
  BY <1>1, <1>6, SetDataType
<1>8. PICK p2 : p2 = [p1 EXCEPT !.data.code = 0]
  OBVIOUS
<1>9. /\ p2 \in Packet /\ p2.len = p.len /\ p2.ip = p.ip /\ p2.quote = p.quote
      /\ p2.rest = p.rest
      /\ p2.data.type = ICMP6_ECHO_REPLY /\ p2.data.code = 0 /\ p2.data.un = p.data.un
  BY <1>1, <1>7, <1>8, SetDataCode
<1>10. r = [p2 EXCEPT !.data.cksum = c]
  BY <1>1, <1>4, <1>6, <1>8
<1>11. /\ r \in Packet /\ r.len = p.len /\ r.ip = p.ip /\ r.quote = p.quote
       /\ r.rest = p.rest /\ r.data.cksum = c
       /\ r.data.type = ICMP6_ECHO_REPLY /\ r.data.code = 0 /\ r.data.un = p.data.un
  BY ONLY <1>5, <1>9, <1>10, SetDataCksum
<1>12. /\ a \in Packet
       /\ a.len = p.len /\ a.data = r.data /\ a.quote = p.quote /\ a.rest = p.rest
       /\ a.ip.src = self.addr /\ a.ip.dst = p.ip.src
       /\ a.ip.ttl = (self.ttl - ttl) % 256
       /\ a.ip.proto = p.ip.proto /\ a.ip.len = p.ip.len
  <2>1. /\ r \in Packet /\ self.addr \in Addr /\ self.ttl \in Int /\ ttl \in Int
        /\ a = readdress(self, ttl, r)
    BY <1>11
  <2>2. /\ a \in Packet
        /\ a.len = r.len /\ a.data = r.data /\ a.quote = r.quote /\ a.rest = r.rest
        /\ a.ip.src = self.addr /\ a.ip.dst = r.ip.src
        /\ a.ip.ttl = (self.ttl - ttl) % 256
        /\ a.ip.proto = r.ip.proto /\ a.ip.len = r.ip.len
    BY ONLY <2>1, ReaddressFields
  <2>3. QED
    BY <1>11, <2>2
<1>13. PseudoWords(a.ip) = PseudoWords(p.ip)
  <2>1. AddrSum[p.ip.src] \in Nat /\ AddrSum[p.ip.dst] \in Nat
    <3>1. p.ip.src \in Addr /\ p.ip.dst \in Addr
      BY <1>2 DEF IpHeader
    <3>2. AddrSum[p.ip.src] \in WordSums(8) /\ AddrSum[p.ip.dst] \in WordSums(8)
      BY <3>1, AddrAssumption
    <3>3. QED
      BY SMT, <3>2, WordSumsBounds
  <2>2. AddrSum[a.ip.src] = AddrSum[p.ip.dst] /\ AddrSum[a.ip.dst] = AddrSum[p.ip.src]
    BY <1>12
  <2>3. htons(p.ip.len) \in Int /\ htons(p.ip.proto) \in Int
    <3>1. p.ip.len \in HalfWord /\ p.ip.proto \in Byte
      BY <1>2 DEF IpHeader
    <3>2. p.ip.len \in Nat /\ p.ip.proto \in Nat
      BY SMT, <3>1, HalfWordBounds, ByteBounds
    <3>3. QED
      BY SMT, <3>2 DEF htons
  <2>4. QED
    BY <1>12, <2>1, <2>2, <2>3 DEF PseudoWords
<1>14. Kind6(a) = "target"
  <2>1. a.data.type = 129
    BY ONLY <1>11, <1>12 DEF ICMP6_ECHO_REPLY
  <2>2. QED
    BY <2>1 DEF Kind6, ICMP6_DST_UNREACH, ICMP6_DST_UNREACH_NOPORT,
                ICMP6_DST_UNREACH_ADDR, ICMP6_TIME_EXCEEDED, ICMP6_ECHO_REPLY
<1>15. ASSUME Verifies(Icmp6Words(p)) PROVE Verifies(256 * p.data.code + Icmp6Words(a))
  <2>1. PICK s : s = PseudoWords(p.ip) + 128 + 256 * p.data.code + p.data.un + p.rest
    OBVIOUS
  <2>2. Icmp6Words(p) = s + p.data.cksum
    BY SMT, <1>1, <1>3, <2>1 DEF Icmp6Words, DataWords
  <2>3. s \in Nat /\ s >= -1
    BY SMT, <1>3, <2>1
  <2>4. Verifies(s - (-1) + c)
    BY SMT, <1>3, <1>4, <1>15, <2>2, <2>3, UpdateVerifies
  <2>5. c \in Nat
    BY SMT, <1>5, HalfWordBounds
  <2>6. 256 * p.data.code + Icmp6Words(a) = s - (-1) + c
    <3>1. Icmp6Words(a) = PseudoWords(p.ip) + ((129 + 256 * 0) + c + p.data.un) + p.rest
      <4>1. /\ a.data.type = 129 /\ a.data.code = 0 /\ a.data.cksum = c
            /\ a.data.un = p.data.un
        BY <1>1, <1>11, <1>12
      <4>2. a.quote = NoQuote /\ a.rest = p.rest
        BY <1>12
      <4>3. QED
        BY ONLY <1>13, <4>1, <4>2 DEF Icmp6Words, DataWords
    <3>2. QED
      BY SMT, <1>3, <2>1, <2>5, <3>1
  <2>7. QED
    BY <2>4, <2>6
<1>16. QED
  BY <1>12, <1>14, <1>15 DEF Answers6

\* One that is cut to the MTU has its checksum computed again.
LEMMA CutAnswers6 ==
  ASSUME NEW p, p \in Packet, p.quote = NoQuote,
         p.ip.proto = IPPROTO_ICMPV6, p.data.type = ICMP6_ECHO_REQUEST,
         NEW minmtu, minmtu \in Nat, minmtu >= 40,
         NEW self, self \in Hosts(minmtu), self.addr = p.ip.dst, ~(p.len <= self.mtu),
         NEW ttl, ttl \in Int,
         NEW a, a = Signed6(readdress(self, ttl, icmp6_cut(self, p)))
  PROVE  Answers6(self, ttl, p, a)
<1>1. /\ self.addr \in Addr /\ self.ttl \in Int
      /\ self.mtu \in HalfWord /\ self.mtu \in Nat /\ self.mtu >= 40 /\ self.mtu <= 65535
  BY SMT, HostFields
<1>2. /\ ICMP6_ECHO_REPLY \in Byte /\ 0 \in Byte
      /\ ICMP6_ECHO_REPLY = 129 /\ Ip6Size = 40
  BY SMT, ByteBounds DEF ICMP6_ECHO_REPLY, Ip6Size
<1>3. PICK n : n = self.mtu - Ip6Size
  OBVIOUS
<1>4. n \in HalfWord
  BY SMT, <1>1, <1>2, <1>3, HalfWordBounds
<1>5. p.cut \in WordSums(32768)
  BY DEF Packet
<1>6. PICK r : r = icmp6_cut(self, p)
  OBVIOUS
<1>7. PICK p1 : p1 = [p EXCEPT !.len = self.mtu]
  OBVIOUS
<1>8. p1 \in Packet /\ p1.len = self.mtu /\ p1.ip = p.ip /\ p1.quote = p.quote
  BY <1>1, <1>7, SetLen
<1>9. PICK p2 : p2 = [p1 EXCEPT !.ip.len = n]
  OBVIOUS
<1>10. /\ p2 \in Packet /\ p2.len = self.mtu /\ p2.quote = p.quote
       /\ p2.ip.len = n /\ p2.ip.src = p.ip.src
  BY <1>4, <1>8, <1>9, SetIpLen
<1>11. PICK p3 : p3 = [p2 EXCEPT !.rest = p.cut]
  OBVIOUS
<1>12. p3 \in Packet /\ p3.len = self.mtu /\ p3.quote = p.quote /\ p3.ip = p2.ip
  BY <1>5, <1>10, <1>11, SetRest
<1>13. PICK p4 : p4 = [p3 EXCEPT !.data.type = ICMP6_ECHO_REPLY]
  OBVIOUS
<1>14. /\ p4 \in Packet /\ p4.len = self.mtu /\ p4.quote = p.quote /\ p4.ip = p2.ip
       /\ p4.data.type = ICMP6_ECHO_REPLY
  BY <1>2, <1>12, <1>13, SetDataType
<1>15. r = [p4 EXCEPT !.data.code = 0]
  BY <1>3, <1>6, <1>7, <1>9, <1>11, <1>13 DEF icmp6_cut
<1>16. /\ r \in Packet /\ r.len = self.mtu /\ r.quote = p.quote /\ r.ip = p2.ip
       /\ r.data.type = ICMP6_ECHO_REPLY
  BY <1>2, <1>14, <1>15, SetDataCode
<1>17. /\ a \in Packet
       /\ a.len = r.len /\ a.ip.len = r.ip.len
       /\ a.data.type = r.data.type
       /\ a.quote = r.quote
       /\ a.ip.src = self.addr /\ a.ip.dst = r.ip.src
       /\ a.ip.ttl = (self.ttl - ttl) % 256
       /\ Verifies(Icmp6Words(a))
  <2>1. /\ r \in Packet /\ self.addr \in Addr /\ self.ttl \in Int /\ ttl \in Int
        /\ a = Signed6(readdress(self, ttl, r))
    BY <1>1, <1>6, <1>16
  <2>2. QED
    BY ONLY <2>1, AnswerHeader6
<1>18. Kind6(a) = "target"
  <2>1. a.data.type = 129
    BY <1>2, <1>16, <1>17
  <2>2. QED
    BY <2>1 DEF Kind6, ICMP6_DST_UNREACH, ICMP6_DST_UNREACH_NOPORT,
                ICMP6_DST_UNREACH_ADDR, ICMP6_TIME_EXCEEDED, ICMP6_ECHO_REPLY
<1>19. a.len > 0 /\ a.len = a.ip.len + Ip6Size
  <2>1. a.len = self.mtu /\ a.ip.len = n
    BY <1>10, <1>16, <1>17
  <2>2. QED
    BY <1>1, <1>2, <1>3, <2>1
<1>20. (IF a.len = p.len THEN 256 * p.data.code ELSE 0) + Icmp6Words(a) = Icmp6Words(a)
  <2>1. a.len # p.len
    <3>1. p.len \in HalfWord
      BY DEF Packet
    <3>2. p.len \in Nat
      BY SMT, <3>1, HalfWordBounds
    <3>3. QED
      BY <1>1, <1>16, <1>17, <3>2
  <2>2. Icmp6Words(a) \in Int
    <3>1. a.ip \in IpHeader /\ a.data \in Data /\ a.rest \in WordSums(32768)
      BY <1>17 DEF Packet
    <3>2. PseudoWords(a.ip) \in Nat /\ DataWords(a.data) \in Nat /\ a.rest \in Nat
      BY SMT, <3>1, IpWordsBound, DataWordsBound, WordSumsBounds
    <3>3. a.quote = NoQuote
      BY <1>16, <1>17
    <3>4. QED
      BY <3>2, <3>3 DEF Icmp6Words
  <2>3. QED
    BY <2>1, <2>2
<1>21. QED
  BY <1>10, <1>16, <1>17, <1>18, <1>19, <1>20 DEF Answers6

\* What FakeHost6_reply returns for any packet: not reached, no answer, or one.
LEMMA FakeHost6Replies ==
  ASSUME NEW p, p \in Packet, p.quote = NoQuote, p.len > 0,
         NEW minmtu, minmtu \in Nat, minmtu >= 40,
         NEW self, self \in Hosts(minmtu), NEW ttl, ttl \in Nat,
         NEW r, r = FakeHost6_reply(self, ttl, p)
  PROVE  IF p.ip.ttl <= ttl THEN r = TooFar(p)
         ELSE IF /\ self.addr = p.ip.dst /\ p.ip.proto = IPPROTO_ICMPV6
                 /\ p.data.type # ICMP6_ECHO_REQUEST
         THEN r = Ignored(p)
         ELSE r.ret = 0 /\ Answers6(self, ttl, p, r.pkt)
<1>1. self.addr \in Addr /\ self.ttl \in Int
  BY SMT, HostFields
<1>2. p.ip.ttl \in Nat
  <2>1. p.ip.ttl \in Byte
    BY DEF Packet, IpHeader
  <2>2. QED
    BY SMT, <2>1, ByteBounds
<1> DEFINE answer(b) == [ret |-> 0, pkt |-> Signed6(readdress(self, ttl, b))]
           update == cksum_update(p.data.cksum, ICMP6_ECHO_REQUEST - ICMP6_ECHO_REPLY)
           uncut  == [p EXCEPT !.data.type = ICMP6_ECHO_REPLY, !.data.code = 0,
                               !.data.cksum = update]
           left   == p.ip.ttl - ttl
           target == self.addr = p.ip.dst
           ping   == p.ip.proto = IPPROTO_ICMPV6
<1>3. r = CASE p.ip.ttl <= ttl -> TooFar(p)
            [] left = 1 /\ ~target ->
                 answer(icmp6_error(p, ICMP6_TIME_EXCEEDED, ICMP6_TIME_EXCEED_TRANSIT))
            [] left > 1 /\ ~target ->
                 answer(icmp6_error(p, ICMP6_DST_UNREACH, ICMP6_DST_UNREACH_ADDR))
            [] left > 0 /\ target /\ ~ping ->
                 answer(icmp6_error(p, ICMP6_DST_UNREACH, ICMP6_DST_UNREACH_NOPORT))
            [] left > 0 /\ target /\ ping /\ p.data.type = ICMP6_ECHO_REQUEST ->
                 IF p.len <= self.mtu
                 THEN [ret |-> 0, pkt |-> readdress(self, ttl, uncut)]
                 ELSE answer(icmp6_cut(self, p))
            [] OTHER -> Ignored(p)
  BY Zenon DEF FakeHost6_reply, Signed6, Covered, inet_cksum_continue
<1>4. /\ ICMP6_TIME_EXCEEDED \in Byte /\ ICMP6_TIME_EXCEED_TRANSIT \in Byte
      /\ ICMP6_DST_UNREACH \in Byte
      /\ ICMP6_DST_UNREACH_ADDR \in Byte /\ ICMP6_DST_UNREACH_NOPORT \in Byte
  BY SMT, ByteBounds DEF ICMP6_TIME_EXCEEDED, ICMP6_TIME_EXCEED_TRANSIT,
     ICMP6_DST_UNREACH, ICMP6_DST_UNREACH_ADDR, ICMP6_DST_UNREACH_NOPORT
<1> HIDE DEF answer, uncut
<1>5. CASE p.ip.ttl <= ttl
  <2>1. r = TooFar(p)
    BY <1>2, <1>3, <1>5
  <2>2. QED
    BY <1>5, <2>1
<1>6. CASE left = 1 /\ ~target
  <2>1. r = answer(icmp6_error(p, ICMP6_TIME_EXCEEDED, ICMP6_TIME_EXCEED_TRANSIT))
    BY <1>2, <1>3, <1>6
  <2>2. p.ip.ttl = ttl + 1
    BY <1>2, <1>6
  <2>3. /\ r.ret = 0
        /\ r.pkt = Signed6(readdress(self, ttl, icmp6_error(p, ICMP6_TIME_EXCEEDED,
                                                            ICMP6_TIME_EXCEED_TRANSIT)))
    BY <2>1 DEF answer
  <2>4. Answers6(self, ttl, p, r.pkt)
    <3>1. self.addr # p.ip.dst /\ ttl \in Int
      BY <1>6
    <3>2. QED
      BY ONLY <1>1, <1>4, <2>2, <2>3, <3>1, p \in Packet, ErrorAnswers6
  <2>5. QED
    BY <1>2, <1>6, <2>3, <2>4
<1>7. CASE left > 1 /\ ~target
  <2>1. r = answer(icmp6_error(p, ICMP6_DST_UNREACH, ICMP6_DST_UNREACH_ADDR))
    BY <1>2, <1>3, <1>7
  <2>2. p.ip.ttl # ttl + 1
    BY <1>2, <1>7
  <2>3. /\ r.ret = 0
        /\ r.pkt = Signed6(readdress(self, ttl, icmp6_error(p, ICMP6_DST_UNREACH,
                                                            ICMP6_DST_UNREACH_ADDR)))
    BY <2>1 DEF answer
  <2>4. Answers6(self, ttl, p, r.pkt)
    <3>1. self.addr # p.ip.dst /\ ttl \in Int
      BY <1>7
    <3>2. QED
      BY ONLY <1>1, <1>4, <2>2, <2>3, <3>1, p \in Packet, ErrorAnswers6
  <2>5. QED
    BY <1>2, <1>7, <2>3, <2>4
<1>8. CASE left > 0 /\ target /\ ~ping
  <2>1. r = answer(icmp6_error(p, ICMP6_DST_UNREACH, ICMP6_DST_UNREACH_NOPORT))
    BY <1>2, <1>3, <1>8
  <2>2. /\ r.ret = 0
        /\ r.pkt = Signed6(readdress(self, ttl, icmp6_error(p, ICMP6_DST_UNREACH,
                                                            ICMP6_DST_UNREACH_NOPORT)))
    BY <2>1 DEF answer
  <2>3. Answers6(self, ttl, p, r.pkt)
    <3>1. self.addr = p.ip.dst /\ ttl \in Int
      BY <1>8
    <3>2. QED
      BY ONLY <1>1, <1>4, <2>2, <3>1, p \in Packet, ErrorAnswers6
  <2>4. QED
    BY <1>2, <1>8, <2>2, <2>3
<1>9. CASE left > 0 /\ target /\ ping /\ p.data.type = ICMP6_ECHO_REQUEST
  <2>1. r = IF p.len <= self.mtu
            THEN [ret |-> 0, pkt |-> readdress(self, ttl, uncut)]
            ELSE answer(icmp6_cut(self, p))
    BY <1>2, <1>3, <1>9
  <2>2. self.addr = p.ip.dst /\ ttl \in Int
    BY <1>9
  <2>3. CASE p.len <= self.mtu
    <3>1. r.ret = 0 /\ r.pkt = readdress(self, ttl, uncut)
      BY <2>1, <2>3
    <3>2. PICK change : change = ICMP6_ECHO_REQUEST - ICMP6_ECHO_REPLY
      OBVIOUS
    <3>3. PICK e : e = uncut
      OBVIOUS
    <3>4. e = [p EXCEPT !.data.type = ICMP6_ECHO_REPLY, !.data.code = 0,
                        !.data.cksum = cksum_update(p.data.cksum, change)]
      BY <3>2, <3>3 DEF uncut
    <3>5. PICK a : a = readdress(self, ttl, e)
      OBVIOUS
    <3>6. Answers6(self, ttl, p, a)
      <4>1. /\ p \in Packet /\ p.quote = NoQuote /\ p.len > 0
            /\ p.ip.proto = IPPROTO_ICMPV6 /\ p.data.type = ICMP6_ECHO_REQUEST
        BY <1>9
      <4>2. QED
        BY ONLY <1>1, <2>2, <3>2, <3>4, <3>5, <4>1, EchoAnswers6
    <3>7. QED
      BY <1>2, <1>9, <3>1, <3>3, <3>5, <3>6
  <2>4. CASE ~(p.len <= self.mtu)
    <3>1. r.ret = 0 /\ r.pkt = Signed6(readdress(self, ttl, icmp6_cut(self, p)))
      BY <2>1, <2>4 DEF answer
    <3>2. Answers6(self, ttl, p, r.pkt)
      BY <1>9, <2>2, <2>4, <3>1, CutAnswers6
    <3>3. QED
      BY <1>2, <1>9, <3>1, <3>2
  <2>5. QED
    BY <2>3, <2>4
<1>10. CASE left > 0 /\ target /\ ping /\ p.data.type # ICMP6_ECHO_REQUEST
  <2>1. r = Ignored(p)
    BY <1>2, <1>3, <1>10
  <2>2. QED
    BY <1>2, <1>10, <2>1
<1>11. QED
  BY <1>2, <1>5, <1>6, <1>7, <1>8, <1>9, <1>10
-----------------------------------------------------------------------------
(* Answers from chains *)

\* The fields of a chain array that concern a lookup.
LEMMA ChainArraysHosts ==
  ASSUME NEW v6, NEW chains, chains \in ChainArrays(v6)
  PROVE  /\ \E R : chains \in Seq(R)
         /\ \A j \in DOMAIN chains : chains[j].hosts \in Seq(Hosts(MinMtu(v6)))
<1> DEFINE R == [hosts : Seq(Hosts(MinMtu(v6))), network : Nat, prefix : 0 .. inet_size(v6)]
<1>1. chains \in Seq(R)
  BY DEF ChainArrays
<1>2. ASSUME NEW j \in DOMAIN chains PROVE chains[j] \in R
  <2> HIDE DEF R
  <2>1. QED
    BY <1>1
<1>3. QED
  BY <1>1, <1>2

\* The host that the lookup of p's destination finds.
HopFor(v6, chains, p) == HostChainArray_find(v6, chains, p.ip.dst, p.ip.ttl)

\* It is a host of one of the chains that match, and p reaches it.
LEMMA HopWithinReach ==
  ASSUME NEW v6, NEW chains, chains \in ChainArrays(v6),
         NEW p, p \in Packet, NEW hop, hop = HopFor(v6, chains, p), hop # NoHost
  PROVE  /\ hop.host \in Hosts(MinMtu(v6)) /\ hop.index \in Nat
         /\ p.ip.ttl \in Nat /\ ~(p.ip.ttl <= hop.index)
<1>1. p.ip.ttl \in Nat
  <2>1. p.ip.ttl \in Byte
    BY DEF Packet, IpHeader
  <2>2. QED
    BY SMT, <2>1, ByteBounds
<1>2. PICK R : chains \in Seq(R)
  BY ChainArraysHosts
<1>3. PICK j \in Matching(v6, chains, p.ip.dst) :
        hop = HostChain_find(chains[j], p.ip.dst, p.ip.ttl)
  BY <1>2, ArrayFindsInChain DEF HopFor
<1>4. chains[j].hosts \in Seq(Hosts(MinMtu(v6)))
  BY ChainArraysHosts DEF Matching
<1>5. Found(chains[j], p.ip.dst, p.ip.ttl, hop)
  BY <1>1, <1>3, <1>4, FindWithinReach
<1>6. PICK n : n = HostChain_nitem(chains[j])
  OBVIOUS
<1>7. n \in 0 .. Len(chains[j].hosts)
  BY <1>4, <1>6, NitemIsTerminator
<1>8. /\ hop.index \in 0 .. n - 1 /\ hop.index < p.ip.ttl
      /\ hop.host = chains[j].hosts[hop.index + 1]
  BY <1>5, <1>6 DEF Found
<1>9. hop.index + 1 \in 1 .. Len(chains[j].hosts) /\ hop.index \in Nat
  BY <1>4, <1>7, <1>8
<1>10. hop.host \in Hosts(MinMtu(v6))
  BY <1>4, <1>8, <1>9
<1>11. QED
  BY <1>1, <1>8, <1>9, <1>10

\* The answer of a host that a lookup has found.
Answers(v6, hop, p, a) ==
  IF v6 THEN Answers6(hop.host, hop.index, p, a) ELSE Answers4(hop.host, hop.index, p, a)

\* What comes of a packet p for whose destination the lookup found hop.
Outcome(v6, hop, p, r) ==
  \/ r.ret \in {17, 18} /\ r.pkt = p
  \/ r = Ignored(p)
  \/ r.ret = 0 /\ hop # NoHost /\ Answers(v6, hop, p, r.pkt)

\* What HostChain4Array_reply returns: an error of the lookup, nothing, or the
\* answer of the host found.
LEMMA ChainsReply4 ==
  ASSUME NEW chains, chains \in ChainArrays(FALSE),
         NEW p, p \in Packet, p.quote = NoQuote, p.len > 0,
         NEW r, r = HostChain4Array_reply(chains, p)
  PROVE  Outcome(FALSE, HopFor(FALSE, chains, p), p, r)
<1>0. PICK hop : hop = HopFor(FALSE, chains, p)
  OBVIOUS
<1>1. CASE p.ip.ttl = 0
  BY <1>0, <1>1 DEF HostChain4Array_reply, Refused, Outcome
<1>2. CASE p.ip.ttl # 0 /\ hop = NoHost
  BY <1>0, <1>2 DEF HostChain4Array_reply, Refused, HopFor, Outcome
<1>3. CASE p.ip.ttl # 0 /\ hop # NoHost
  <2>1. PICK f : f = FakeHost_reply(hop.host, hop.index, p)
    OBVIOUS
  <2>2. r = Numbered(f)
    BY <1>0, <1>3, <2>1 DEF HostChain4Array_reply, HopFor
  <2>3. PICK minmtu : minmtu = MinMtu(FALSE)
    OBVIOUS
  <2>4. minmtu \in Nat /\ minmtu > 0
    BY <2>3 DEF MinMtu
  <2>5. /\ hop.host \in Hosts(minmtu) /\ hop.index \in Nat
        /\ ~(p.ip.ttl <= hop.index)
    BY <1>0, <1>3, <2>3, HopWithinReach
  <2>6. \/ f = Ignored(p)
        \/ (f.ret = 0 /\ Answers4(hop.host, hop.index, p, f.pkt))
    <3>1. PICK self : self = hop.host
      OBVIOUS
    <3>2. PICK k : k = hop.index
      OBVIOUS
    <3>3. /\ p \in Packet /\ p.quote = NoQuote /\ p.len > 0
          /\ minmtu \in Nat /\ minmtu > 0
          /\ self \in Hosts(minmtu) /\ k \in Nat /\ ~(p.ip.ttl <= k)
          /\ f = FakeHost_reply(self, k, p)
      BY <2>1, <2>4, <2>5, <3>1, <3>2
    <3>4. f = Ignored(p) \/ (f.ret = 0 /\ Answers4(self, k, p, f.pkt))
      BY ONLY <3>3, FakeHostReplies
    <3>5. QED
      BY <3>1, <3>2, <3>4
  <2>7. f.ret = 0
    BY <2>6, IgnoredFields
  <2>8. r = f
    BY <2>2, <2>7 DEF Numbered
  <2>9. QED
    BY <1>0, <1>3, <2>6, <2>7, <2>8 DEF Outcome, Answers
<1>4. QED
  BY <1>1, <1>2, <1>3

\* And HostChain6Array_reply.
LEMMA ChainsReply6 ==
  ASSUME NEW chains, chains \in ChainArrays(TRUE),
         NEW p, p \in Packet, p.quote = NoQuote, p.len > 0,
         NEW r, r = HostChain6Array_reply(chains, p)
  PROVE  Outcome(TRUE, HopFor(TRUE, chains, p), p, r)
<1>0. PICK hop : hop = HopFor(TRUE, chains, p)
  OBVIOUS
<1>1. CASE p.ip.ttl = 0
  BY <1>0, <1>1 DEF HostChain6Array_reply, Refused, Outcome
<1>2. CASE p.ip.ttl # 0 /\ hop = NoHost
  BY <1>0, <1>2 DEF HostChain6Array_reply, Refused, HopFor, Outcome
<1>3. CASE p.ip.ttl # 0 /\ hop # NoHost
  <2>1. PICK f : f = FakeHost6_reply(hop.host, hop.index, p)
    OBVIOUS
  <2>2. r = Numbered(f)
    BY <1>0, <1>3, <2>1 DEF HostChain6Array_reply, HopFor
  <2>3. PICK minmtu : minmtu = MinMtu(TRUE)
    OBVIOUS
  <2>4. minmtu \in Nat /\ minmtu >= 40
    BY <2>3 DEF MinMtu
  <2>5. /\ hop.host \in Hosts(minmtu) /\ hop.index \in Nat
        /\ ~(p.ip.ttl <= hop.index)
    BY <1>0, <1>3, <2>3, HopWithinReach
  <2>6. \/ f = Ignored(p)
        \/ (f.ret = 0 /\ Answers6(hop.host, hop.index, p, f.pkt))
    <3>1. PICK self : self = hop.host
      OBVIOUS
    <3>2. PICK k : k = hop.index
      OBVIOUS
    <3>3. /\ p \in Packet /\ p.quote = NoQuote /\ p.len > 0
          /\ minmtu \in Nat /\ minmtu >= 40
          /\ self \in Hosts(minmtu) /\ k \in Nat /\ ~(p.ip.ttl <= k)
          /\ f = FakeHost6_reply(self, k, p)
      BY <2>1, <2>4, <2>5, <3>1, <3>2
    <3>4. f = Ignored(p) \/ (f.ret = 0 /\ Answers6(self, k, p, f.pkt))
      BY ONLY <3>3, FakeHost6Replies
    <3>5. QED
      BY <3>1, <3>2, <3>4
  <2>7. f.ret = 0
    BY <2>6, IgnoredFields
  <2>8. r = f
    BY <2>2, <2>7 DEF Numbered
  <2>9. QED
    BY <1>0, <1>3, <2>6, <2>7, <2>8 DEF Outcome, Answers
<1>4. QED
  BY <1>1, <1>2, <1>3

-----------------------------------------------------------------------------
(* The way of a packet along its routes *)

\* The kind of answer that the host found gives to a packet for dst.
KindOf(hop, dst, ttl) ==
  IF hop.host.addr = dst THEN "target" ELSE IF ttl = hop.index + 1 THEN "transit" ELSE "astray"

\* Where only the chain c matches, its path ends at the host found.
LEMMA RouteEndsAtHop ==
  ASSUME NEW v6, NEW chains, chains \in ChainArrays(v6), NEW dst, NEW ttl, ttl \in Nat,
         NEW hop, hop = HostChainArray_find(v6, chains, dst, ttl), hop # NoHost,
         NEW c, Matching(v6, chains, dst) # {},
         \A j \in Matching(v6, chains, dst) : chains[j] = c
  PROVE  Path(c, dst, ttl) = <<hop.host.addr, KindOf(hop, dst, ttl)>>
<1>1. PICK R : chains \in Seq(R)
  BY ChainArraysHosts
<1>2. hop = HostChain_find(c, dst, ttl)
  BY <1>1, ArrayFindsInRoute
<1>3. PICK j \in Matching(v6, chains, dst) : chains[j] = c
  OBVIOUS
<1>4. PICK H : c.hosts \in Seq(H)
  BY <1>3, ChainArraysHosts DEF Matching
<1>5. QED
  BY <1>2, <1>4, PathEndsAtHost DEF KindOf

\* Where chains overlap and none is empty, the host found is the destination if the
\* path of any of them ends there.
LEMMA TargetIsHop ==
  ASSUME NEW v6, NEW chains, chains \in ChainArrays(v6), NEW dst, NEW ttl, ttl \in Nat, ttl # 0,
         NEW hop, hop = HostChainArray_find(v6, chains, dst, ttl),
         \A j \in Matching(v6, chains, dst) : HostChain_nitem(chains[j]) # 0,
         \E j \in Matching(v6, chains, dst) : Path(chains[j], dst, ttl)[2] = "target"
  PROVE  hop.host.addr = dst
<1>1. PICK R : chains \in Seq(R)
  BY ChainArraysHosts
<1>2. ASSUME NEW j \in Matching(v6, chains, dst), NEW h, h = HostChain_find(chains[j], dst, ttl)
      PROVE  /\ h # NoHost
             /\ h.found <=> h.host.addr = dst
             /\ Path(chains[j], dst, ttl)[2] = "target" => h.host.addr = dst
  <2>1. PICK c : c = chains[j]
    OBVIOUS
  <2>2. PICK H : c.hosts \in Seq(H)
    BY <2>1, ChainArraysHosts DEF Matching
  <2>3. h # NoHost
    BY <1>2, <2>1, <2>2, FindWithinReach
  <2>4. /\ h.found <=> h.host.addr = dst
        /\ Path(c, dst, ttl) = <<h.host.addr, KindOf(h, dst, ttl)>>
    BY <1>2, <2>1, <2>2, <2>3, PathEndsAtHost DEF KindOf
  <2>5. QED
    BY <2>1, <2>3, <2>4 DEF KindOf
<1>3. \E j \in Matching(v6, chains, dst) :
        /\ hop = HostChain_find(chains[j], dst, ttl)
        /\ HostChain_find(chains[j], dst, ttl).found
  BY <1>1, <1>2, ArrayFindsTarget
<1>4. QED
  BY <1>2, <1>3
=============================================================================
