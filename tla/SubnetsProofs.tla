---------------------------- MODULE SubnetsProofs ----------------------------
(***************************************************************************)
(* Subnets and their reverse zones, for addresses of any width: the        *)
(* program's 4 and 16 octets of 8 bits are the instances, where TLC        *)
(* checks short addresses only.  A power of two counts the subsets of a    *)
(* set, which gives the laws of exponents that the sizes of subnets and    *)
(* zones need; the names of zones are told apart digit by digit.           *)
(* SubnetsInv, below, is inductive; Partitioned, Coarsest and Routed       *)
(* follow from it.                                                         *)
(***************************************************************************)
EXTENDS Subnets, FiniteSetTheorems, WellFoundedInduction, TLAPS

\* What the SMT solver knows of \div and %, stated once.
LEMMA Division ==
    ASSUME NEW a \in Nat, NEW b \in Nat, b > 0
    PROVE  /\ a \div b \in Nat
           /\ a = b * (a \div b) + (a % b)
           /\ a % b \in 0 .. b - 1
  OBVIOUS

\* Quotient and remainder are determined by a = b * q + r.
LEMMA DivisionIs ==
    ASSUME NEW a \in Nat, NEW b \in Nat, b > 0, NEW q \in Nat, NEW r \in 0 .. b - 1,
           a = b * q + r
    PROVE  a \div b = q /\ a % b = r
<1> DEFINE d == a \div b
           m == a % b
<1>1. d \in Nat /\ a = b * d + m /\ m \in 0 .. b - 1
  BY Division
<1> HIDE DEF d, m
<1>2. ASSUME NEW x \in Nat, NEW y \in Nat, x < y PROVE b * x + b <= b * y
  <2>1. y - x - 1 \in Nat
    BY <1>2
  <2>2. b * (y - x - 1) \in Nat
    BY <2>1
  <2>3. b * (y - x - 1) = b * y - b * x - b
    OBVIOUS
  <2>4. b * x \in Nat /\ b * y \in Nat
    OBVIOUS
  <2> DEFINE bx == b * x
             by == b * y
             c == b * (y - x - 1)
  <2> HIDE DEF bx, by, c
  <2>5. c \in Nat /\ c = by - bx - b /\ bx \in Nat /\ by \in Nat
    BY <2>2, <2>3, <2>4 DEF bx, by, c
  <2>6. bx + b <= by
    BY <2>5
  <2> QED  BY <2>6 DEF bx, by
<1>3. b * d \in Nat /\ b * q \in Nat
  BY <1>1
<1>4. ~(d < q)
  BY <1>1, <1>2, <1>3
<1>5. ~(q < d)
  BY <1>1, <1>2, <1>3
<1>6. d = q
  BY <1>1, <1>4, <1>5
<1> QED  BY <1>1, <1>3, <1>6 DEF d, m

\* Dividing twice.
LEMMA DivDiv ==
    ASSUME NEW a \in Nat, NEW s \in Nat, s > 0, NEW q \in Nat, q > 0
    PROVE  /\ s * q \in Nat /\ s * q > 0
           /\ (a \div s) \div q = a \div (s * q)
           /\ (a \div s) % q = (a % (s * q)) \div s
           /\ (a % (s * q)) % s = a % s
<1> DEFINE e == a \div s
           r == a % s
           d == e \div q
           k == e % q
<1>1. e \in Nat /\ a = s * e + r /\ r \in 0 .. s - 1
  BY Division
<1>2. d \in Nat /\ e = q * d + k /\ k \in 0 .. q - 1
  BY <1>1, Division
<1> HIDE DEF e, r, d, k
<1>3. s * q \in Nat /\ s * q > 0
  OBVIOUS
<1>4. a = (s * q) * d + (s * k + r)
  <2>1. s * (q * d + k) = (s * q) * d + s * k
    BY <1>2
  <2> QED  BY <1>1, <1>2, <2>1
<1>5. s * k + r \in 0 .. (s * q) - 1
  <2>1. s * (q - 1 - k) \in Nat
    BY <1>2
  <2>2. s * (q - 1 - k) = s * q - s - s * k
    BY <1>2
  <2>3. s * k \in Nat
    BY <1>2
  <2> DEFINE sk == s * k
             sq == s * q
  <2>4. sk \in Nat /\ sq \in Nat /\ sq - s - sk \in Nat
    BY <1>3, <2>1, <2>2, <2>3
  <2> HIDE DEF sk, sq
  <2>5. sk + r \in 0 .. sq - 1
    BY <1>1, <2>4
  <2> QED  BY <2>5 DEF sk, sq
<1> DEFINE sq == s * q
           low == s * k + r
<1>6. sq \in Nat /\ sq > 0 /\ low \in 0 .. sq - 1 /\ a = sq * d + low
  BY <1>3, <1>4, <1>5
<1>7. low = s * k + r
  OBVIOUS
<1> HIDE DEF sq, low
<1>8. a \div sq = d /\ a % sq = low
  BY <1>2, <1>6, DivisionIs
<1>9. low \div s = k /\ low % s = r
  BY <1>1, <1>2, <1>6, <1>7, DivisionIs
<1> QED  BY <1>3, <1>8, <1>9 DEF sq, e, r, d, k

\* A multiple leaves no remainder.
LEMMA Multiple ==
    ASSUME NEW b \in Nat, b > 0, NEW q \in Nat
    PROVE  (q * b) % b = 0
<1> DEFINE d == (q * b) \div b
           m == (q * b) % b
<1>1. q * b \in Nat  OBVIOUS
<1>2. d \in Nat /\ q * b = b * d + m /\ m \in 0 .. b - 1
  BY <1>1, Division
<1> HIDE DEF d, m
<1>3. b * q < b * (d + 1)
  BY <1>2
<1>4. q < d + 1
  BY <1>3, <1>2
<1>5. b * d <= b * q
  BY <1>2
<1>6. ~(d > q)
  <2> SUFFICES ASSUME d >= q + 1 PROVE FALSE  BY <1>2
  <2>1. b * d >= b * (q + 1)  BY <1>2
  <2>2. b * (q + 1) = b * q + b  BY <1>2
  <2> QED BY <2>1, <2>2, <1>5, <1>2
<1>7. d = q
  BY <1>4, <1>6, <1>2
<1> QED BY <1>2, <1>7 DEF m

\* Every set of numbers has a least one: finite intervals are well-founded under inclusion.
LEMMA Least ==
    ASSUME NEW T \in SUBSET Nat, T # {}
    PROVE  \E x \in T : \A y \in T : x <= y
  <1> DEFINE U == {0 .. x : x \in T}
             R == StrictSubsetOrdering(Nat)
             F == FiniteSubsetsOf(Nat)
  <1>1. IsWellFoundedOn(R, F)
    BY FS_StrictSubsetOrderingWellFounded
  <1>2. U \subseteq F /\ U # {}
    <2>1. \A x \in T : 0 .. x \in SUBSET Nat /\ IsFiniteSet(0 .. x)
      BY FS_Interval
    <2> QED  BY <2>1 DEF FiniteSubsetsOf
  <1> HIDE DEF U, R, F
  <1>3. PICK u \in U : \A v \in U : ~ (<<v, u>> \in R)
    BY <1>1, <1>2, WFMin
  <1>4. PICK x \in T : u = 0 .. x
    BY DEF U
  <1>5. ASSUME NEW y \in T, y < x PROVE FALSE
    <2>1. 0 .. y \in U /\ <<0 .. y, u>> \notin R
      BY <1>3 DEF U
    <2>2. 0 .. y \in SUBSET Nat /\ 0 .. x \in SUBSET Nat /\ 0 .. y \subseteq 0 .. x /\ 0..y # 0 .. x
      <3>1. x \in 0 .. x /\ x \notin 0 .. y BY <1>5
      <3> QED  BY <1>5, <3>1
    <2> QED  BY <2>1, <2>2, <1>4 DEF R, StrictSubsetOrdering
  <1> QED  BY <1>5

\* Induction, for a set.
LEMMA Induction ==
    ASSUME NEW S, 0 \in S, \A n \in Nat : n \in S => n + 1 \in S
    PROVE  Nat \subseteq S
  <1> SUFFICES ASSUME Nat \ S # {} PROVE FALSE
    OBVIOUS
  <1>1. PICK m \in Nat \ S : \A n \in Nat \ S : m <= n
    BY Least
  <1>2. m # 0 OBVIOUS
  <1>3. m - 1 \in Nat /\ m - 1 \in S
    BY <1>1, <1>2
  <1>4. (m - 1) + 1 \in S
    BY <1>3
  <1>5. (m - 1) + 1 = m
    OBVIOUS
  <1> QED  BY <1>4, <1>5

\* 2^n counts subsets.
LEMMA PowerSet ==
    ASSUME NEW n \in Nat
    PROVE  IsFiniteSet(SUBSET (1 .. n)) /\ Cardinality(SUBSET (1 .. n)) = 2^n
  <1>1. IsFiniteSet(1 .. n) /\ Cardinality(1 .. n) = n
    BY FS_Interval
  <1> QED  BY <1>1, FS_SUBSET

\* Sizes are positive.
LEMMA PowerPositive ==
    ASSUME NEW n \in Nat
    PROVE  2^n \in Nat /\ 2^n > 0
  <1>1. SUBSET (1 .. n) # {}
    BY {} \in SUBSET (1 .. n)
  <1>2. 2^n \in Nat
    BY PowerSet, FS_CardinalityType
  <1>3. 2^n # 0
    <2> DEFINE P == SUBSET (1 .. n)
    <2>1. P # {} /\ IsFiniteSet(P) /\ Cardinality(P) = 2^n
      BY <1>1, PowerSet
    <2> HIDE DEF P
    <2> QED  BY <2>1, FS_EmptySet
  <1> QED  BY <1>2, <1>3

\* One more bit doubles a size: subsets with and without the new element.
LEMMA PowerStep ==
    ASSUME NEW n \in Nat
    PROVE  2^(n + 1) = 2 * 2^n
  <1> DEFINE A == SUBSET (1 .. n)
             e == n + 1
             B == {X \cup {e} : X \in A}
  <1>1. SUBSET (1 .. n + 1) = A \cup B
    <2>1. 1 .. n + 1 = (1 .. n) \cup {e}
      OBVIOUS
    <2>2. \A Y \in SUBSET ((1 .. n) \cup {e}) : e \in Y => Y \in B
      <3> SUFFICES ASSUME NEW Y \in SUBSET ((1 .. n) \cup {e}), e \in Y PROVE Y \in B
        OBVIOUS
      <3>1. Y \ {e} \in A /\ Y = (Y \ {e}) \cup {e}
        OBVIOUS
      <3> QED  BY <3>1
    <2>3. \A Y \in SUBSET ((1 .. n) \cup {e}) : e \notin Y => Y \in A
      OBVIOUS
    <2>4. A \cup B \subseteq SUBSET ((1 .. n) \cup {e})
      OBVIOUS
    <2> QED  BY <2>1, <2>2, <2>3, <2>4
  <1>2. A \cap B = {}
    <2>1. e \notin 1 .. n
      OBVIOUS
    <2> QED  BY <2>1
  <1>3. IsFiniteSet(A) /\ Cardinality(A) = 2^n /\ 2^n \in Nat
    BY PowerSet, PowerPositive
  <1>4. IsFiniteSet(B) /\ Cardinality(B) = 2^n
    <2> DEFINE f == [X \in A |-> X \cup {e}]
    <2>1. f \in Bijection(A, B)
      <3>1. e \notin 1 .. n
        OBVIOUS
      <3>2. \A X, Y \in A : X \cup {e} = Y \cup {e} => X = Y
        BY <3>1
      <3>3. f \in [A -> B] /\ \A y \in B : \E x \in A : f[x] = y
        OBVIOUS
      <3> QED  BY <3>2, <3>3 DEF Bijection, Injection, Surjection, IsInjective
    <2> QED  BY <1>3, <2>1, FS_Bijection DEF ExistsBijection
  <1> HIDE DEF A, B
  <1>5. Cardinality(A \cup B) = 2^n + 2^n - 0
    BY <1>2, <1>3, <1>4, FS_Union, FS_EmptySet
  <1>6. Cardinality(A \cup B) = 2^(n + 1)
    BY <1>1, PowerSet
  <1> QED  BY <1>3, <1>5, <1>6

\* No bits, one address.
LEMMA PowerZero == 2^0 = 1
  <1>1. 1 .. 0 = {}  OBVIOUS
  <1>2. SUBSET (1 .. 0) = {{}}  BY <1>1
  <1> QED  BY <1>2, PowerSet, FS_Singleton

\* Bits add up where sizes multiply.
LEMMA PowerSum ==
    ASSUME NEW m \in Nat, NEW n \in Nat
    PROVE  2^(m + n) = 2^m * 2^n
  <1> DEFINE S == {k \in Nat : 2^(m + k) = 2^m * 2^k}
  <1>1. 0 \in S
    BY PowerZero, PowerPositive
  <1>2. ASSUME NEW k \in Nat, k \in S PROVE k + 1 \in S
    <2>1. 2^(m + k + 1) = 2 * 2^(m + k) /\ 2^(k + 1) = 2 * 2^k
      BY PowerStep
    <2>2. 2^m \in Nat /\ 2^k \in Nat
      BY PowerPositive
    <2>3. 2^(m + (k + 1)) = 2^m * 2^(k + 1)
      BY <1>2, <2>1, <2>2
    <2> QED  BY <2>3
  <1>3. Nat \subseteq S
    <2> HIDE DEF S
    <2> QED  BY <1>1, <1>2, Induction
  <1> QED  BY <1>3

\* The two halves of an octet.
LEMMA Halves ==
    ASSUME NEW a \in Nat, NEW b \in Nat, b > 0
    PROVE  (a % (b * b)) \div b = (a \div b) % b /\ (a % (b * b)) % b = a % b
  BY DivDiv, ZenonT(30)

\* Nothing is left over where the remainder is 0.
LEMMA WholeMultiple ==
    ASSUME NEW a \in Nat, NEW b \in Nat, b > 0, a % b = 0
    PROVE  a \div b \in Nat /\ a = b * (a \div b)
<1> DEFINE d == a \div b
           m == a % b
<1>1. d \in Nat /\ a = b * d + m /\ m = 0
  BY Division
<1> HIDE DEF d, m
<1>2. b * d \in Nat
  BY <1>1
<1> QED  BY <1>1, <1>2 DEF d

\* div_ceil(p) * b is the first multiple of b at or after p, and not past the last.
LEMMA RoundUp ==
    ASSUME NEW b \in Nat, b > 0, NEW n \in Nat, NEW p \in 1 .. b * n
    PROVE  /\ DivCeil(p, b) \in 1 .. n
           /\ DivCeil(p, b) * b \in p .. b * n
           /\ DivCeil(p, b) * b - b < p
           /\ (DivCeil(p, b) * b) % b = 0
<1> DEFINE q == DivCeil(p, b)
           r == (p + b - 1) % b
<1>1. p + b - 1 \in Nat  OBVIOUS
<1>2. q \in Nat /\ p + b - 1 = b * q + r /\ r \in 0 .. b - 1
  BY <1>1, Division DEF DivCeil
<1> HIDE DEF q, r
<1>3. p <= b * q /\ b * q < p + b
  BY <1>2
<1>4. b * q < b * (n + 1)
  BY <1>3, <1>2
<1>5. q < n + 1
  BY <1>4, <1>2
<1>6. q # 0
  BY <1>3, <1>2
<1>7. (q * b) % b = 0
  BY <1>2, Multiple
<1> QED BY <1>2, <1>3, <1>5, <1>6, <1>7 DEF q

\* The boundary that parse_subnet computes is the next one for every prefix length,
\* 0 and the full width included (monitor.rs:159, 168).
LEMMA BoundaryIsNext ==
    ASSUME NEW f \in Family, NEW p \in 0 .. Width(f)
    PROVE  NextBoundary(f, p)
<1> DEFINE b == LabelBits(f)
<1>1. f \in {"v4", "v6"} /\ Octets[f] \in Nat /\ Octets[f] > 0 /\ OctetBits \in Nat
  BY SubnetsAssumption
<1>2. OctetBits \div 2 \in Nat /\ OctetBits = 2 * (OctetBits \div 2) /\ OctetBits \div 2 > 0
  BY SubnetsAssumption, <1>1, Division
<1>3. PICK n \in Nat : n > 0 /\ Width(f) = b * n
  <2>1. CASE f = "v4"
    <3>1. b = OctetBits  BY <2>1 DEF LabelBits
    <3> QED BY <3>1, <1>1 DEF Width
  <2>2. CASE f = "v6"
    <3> DEFINE h == OctetBits \div 2
    <3>1. b = h  BY <2>2 DEF LabelBits
    <3>2. 2 * Octets[f] \in Nat /\ 2 * Octets[f] > 0  BY <1>1
    <3>3. h \in Nat /\ OctetBits = 2 * h  BY <1>2
    <3> HIDE DEF h
    <3>4. Width(f) = h * (2 * Octets[f])  BY <3>3, <1>1 DEF Width
    <3> HIDE DEF b
    <3> QED BY <3>1, <3>2, <3>4
  <2> QED BY <1>1, <2>1, <2>2
<1>4. b \in Nat /\ b > 0
  BY <1>1, <1>2, SubnetsAssumption DEF LabelBits
<1>5. AtLeastOne(p) \in 1 .. Width(f)
  <2>1. Width(f) \in Nat /\ Width(f) >= 1
    BY <1>1, SubnetsAssumption DEF Width
  <2> QED BY <2>1 DEF AtLeastOne
<1> HIDE DEF b
<1>6. AtLeastOne(p) \in 1 .. b * n
  BY <1>5, <1>3
<1>7. DivCeil(AtLeastOne(p), b) * b = Boundary(f, p)
  BY DEF Boundary, b
<1>8. /\ Boundary(f, p) \in AtLeastOne(p) .. Width(f)
      /\ Boundary(f, p) - b < AtLeastOne(p)
      /\ Boundary(f, p) % b = 0
  BY <1>3, <1>4, <1>6, <1>7, RoundUp
<1> QED BY <1>8 DEF NextBoundary, b

-----------------------------------------------------------------------------
(***************************************************************************)
(* Subnets and the addresses in them.                                      *)
(***************************************************************************)
\* The addresses are as many as prefixes of p bits and hosts of the rest.
LEMMA HostSizeFacts ==
    ASSUME NEW f \in Family, NEW net \in IpNet(f)
    PROVE  /\ Width(f) \in Nat /\ net.family = f
           /\ net.addr \in Nat /\ net.addr < 2 ^ Width(f) /\ net.prefix_len \in 0 .. Width(f)
           /\ HostSize(net) \in Nat /\ HostSize(net) > 0
           /\ 2 ^ net.prefix_len \in Nat
           /\ 2 ^ Width(f) = HostSize(net) * 2 ^ net.prefix_len
<1>1. Width(f) \in Nat
  BY SubnetsAssumption DEF Width
<1>2. net.family = f /\ net.addr \in Address(f) /\ net.prefix_len \in 0 .. Width(f)
  BY DEF IpNet
<1>3. net.prefix_len \in Nat /\ Width(f) - net.prefix_len \in Nat
  BY <1>1, <1>2
<1>4. 2 ^ Width(f) \in Nat
  BY <1>1, PowerPositive
<1>5. net.addr \in Nat /\ net.addr < 2 ^ Width(f)
  BY <1>2, <1>4 DEF Address
<1>6. HostSize(net) \in Nat /\ HostSize(net) > 0 /\ 2 ^ net.prefix_len \in Nat
  BY <1>2, <1>3, PowerPositive DEF HostSize
<1>7. 2 ^ Width(f) = HostSize(net) * 2 ^ net.prefix_len
  <2> DEFINE h == Width(f) - net.prefix_len
  <2>1. 2 ^ (h + net.prefix_len) = 2 ^ h * 2 ^ net.prefix_len
    BY <1>3, PowerSum
  <2>2. h + net.prefix_len = Width(f)
    BY <1>1, <1>3
  <2> QED  BY <1>2, <2>1, <2>2 DEF HostSize
<1> QED  BY <1>1, <1>2, <1>5, <1>6, <1>7

\* A number and its multiple of b at or before it have the same quotient.
LEMMA RoundDown ==
    ASSUME NEW a \in Nat, NEW b \in Nat, b > 0
    PROVE  /\ a - (a % b) \in Nat /\ a - (a % b) = b * (a \div b) /\ a - (a % b) <= a
           /\ (a - (a % b)) \div b = a \div b
           /\ (a - (a % b)) % b = 0
<1> DEFINE d == a \div b
           m == a % b
<1>1. d \in Nat /\ a = b * d + m /\ m \in 0 .. b - 1
  BY Division
<1> HIDE DEF d, m
<1>2. a - m = b * d /\ a - m \in Nat /\ a - m <= a
  BY <1>1
<1>3. a - m = b * d + 0 /\ 0 \in 0 .. b - 1
  BY <1>1, <1>2
<1>4. (a - m) \div b = d /\ (a - m) % b = 0
  BY <1>1, <1>2, <1>3, DivisionIs
<1> QED  BY <1>2, <1>4 DEF d, m

\* IpNet::trunc clears the host part and nothing else.
LEMMA TruncFacts ==
    ASSUME NEW f \in Family, NEW net \in IpNet(f)
    PROVE  /\ Trunc(net) \in IpNet(f)
           /\ Trunc(net).prefix_len = net.prefix_len /\ HostSize(Trunc(net)) = HostSize(net)
           /\ Trunc(net).addr = HostSize(net) * (net.addr \div HostSize(net))
           /\ Trunc(net).addr \div HostSize(net) = net.addr \div HostSize(net)
           /\ Trunc(Trunc(net)) = Trunc(net)
           /\ \A a : InNet(Trunc(net), a) <=> InNet(net, a)
<1> DEFINE t == Trunc(net)
           h == HostSize(net)
<1>1. /\ net.addr \in Nat /\ net.addr < 2 ^ Width(f) /\ h \in Nat /\ h > 0
      /\ 2 ^ Width(f) \in Nat
  BY HostSizeFacts, PowerPositive
<1> HIDE DEF h
<1>2. net = [family |-> net.family, addr |-> net.addr, prefix_len |-> net.prefix_len]
  BY DEF IpNet
<1>3. t = [family |-> net.family, addr |-> net.addr - (net.addr % h), prefix_len |-> net.prefix_len]
  BY <1>2 DEF Trunc, h
<1>4. /\ t.addr \in Nat /\ t.addr = h * (net.addr \div h) /\ t.addr <= net.addr
      /\ t.addr \div h = net.addr \div h /\ t.addr % h = 0
  BY <1>1, <1>3, RoundDown, SMTT(30)
<1>5. t \in IpNet(f)
  <2>1. t.addr \in Address(f)
    BY <1>1, <1>4 DEF Address
  <2>2. net.family \in {f} /\ net.prefix_len \in 0 .. Width(f)
    BY DEF IpNet
  <2> QED  BY <1>3, <2>1, <2>2 DEF IpNet
<1>6. t.prefix_len = net.prefix_len /\ t.family = net.family /\ HostSize(t) = h
  BY <1>3 DEF HostSize, h
<1>7. Trunc(t) = t
  <2>1. Trunc(t) = [t EXCEPT !.addr = t.addr - (t.addr % h)]
    BY <1>6 DEF Trunc
  <2>2. t.addr - (t.addr % h) = t.addr
    BY <1>4
  <2> QED  BY <1>3, <2>1, <2>2
<1>8. \A a : InNet(t, a) <=> InNet(net, a)
  BY <1>4, <1>6 DEF InNet, h
<1> QED  BY <1>4, <1>5, <1>6, <1>7, <1>8 DEF t, h

\* Two subnets overlap if and only if they have an address in common.
LEMMA OverlapIsCommon ==
    ASSUME NEW f \in Family, NEW m \in IpNet(f), NEW n \in IpNet(f)
    PROVE  Overlap(m, n) <=> \E a \in Nat : InNet(m, a) /\ InNet(n, a)
<1>0. m.family = n.family /\ m.addr \in Nat /\ n.addr \in Nat
  BY HostSizeFacts
<1>1. Overlap(m, n) => \E a \in Nat : InNet(m, a) /\ InNet(n, a)
  BY <1>0 DEF Overlap, InNet
<1>2. ASSUME NEW x \in IpNet(f), NEW y \in IpNet(f), x.prefix_len >= y.prefix_len,
             NEW a \in Nat, InNet(x, a), InNet(y, a)
      PROVE  InNet(y, x.addr)
  <2> DEFINE p == x.prefix_len - y.prefix_len
             s == HostSize(x)
             q == 2 ^ p
  <2>1. /\ Width(f) \in Nat /\ x.prefix_len \in 0 .. Width(f) /\ y.prefix_len \in 0 .. Width(f)
        /\ x.family = f /\ y.family = f /\ s \in Nat /\ s > 0 /\ x.addr \in Nat /\ y.addr \in Nat
    BY HostSizeFacts
  <2>2. p \in Nat
    BY <1>2, <2>1
  <2>3. q \in Nat /\ q > 0
    BY <2>2, PowerPositive
  <2>4. HostSize(y) = s * q
    <3> DEFINE w == Width(f) - x.prefix_len
    <3>1. w \in Nat /\ w + p = Width(f) - y.prefix_len
      BY <2>1
    <3>2. 2 ^ (w + p) = 2 ^ w * 2 ^ p
      BY <2>2, <3>1, PowerSum
    <3> QED  BY <2>1, <3>1, <3>2 DEF HostSize
  <2>5. a \div s = x.addr \div s /\ a \div (s * q) = y.addr \div (s * q)
    BY <1>2, <2>4 DEF InNet
  <2> HIDE DEF s, q
  <2>6. (a \div s) \div q = a \div (s * q) /\ (x.addr \div s) \div q = x.addr \div (s * q)
    BY <2>1, <2>3, DivDiv
  <2>7. x.addr \div (s * q) = y.addr \div (s * q)
    BY <2>5, <2>6
  <2> QED  BY <2>4, <2>7 DEF InNet
<1>3. ASSUME NEW a \in Nat, InNet(m, a), InNet(n, a) PROVE Overlap(m, n)
  <2>1. CASE m.prefix_len >= n.prefix_len
    BY <1>0, <1>2, <1>3, <2>1 DEF Overlap
  <2>2. CASE ~(m.prefix_len >= n.prefix_len)
    <3>1. n.prefix_len >= m.prefix_len
      BY <2>2, HostSizeFacts
    <3> QED  BY <1>0, <1>2, <1>3, <3>1 DEF Overlap
  <2> QED  BY <2>1, <2>2
<1> QED  BY <1>1, <1>3

\* An address is in one subnet of a given size.
LEMMA SameNet ==
    ASSUME NEW f \in Family, NEW y \in IpNet(f), NEW z \in IpNet(f),
           y = Trunc(y), z = Trunc(z), y.prefix_len = z.prefix_len,
           NEW a, InNet(y, a), InNet(z, a)
    PROVE  y = z
<1>1. HostSize(y) = HostSize(z) /\ y.family = z.family
  BY DEF HostSize, IpNet
<1>2. y.addr \div HostSize(y) = z.addr \div HostSize(z)
  BY <1>1 DEF InNet
<1>3. y.addr = HostSize(y) * (y.addr \div HostSize(y)) /\ z.addr = HostSize(z) * (z.addr \div HostSize(z))
  BY TruncFacts
<1>4. y.addr = z.addr
  BY <1>1, <1>2, <1>3
<1> QED  BY <1>1, <1>4 DEF IpNet

-----------------------------------------------------------------------------
(***************************************************************************)
(* The zones of a subnet.                                                  *)
(***************************************************************************)
ZoneAt(f, addr, b) == [family |-> f, addr |-> addr, prefix_len |-> b]

\* IpNet::subnets, for a prefix length that it accepts.
LEMMA SubnetsForm ==
    ASSUME NEW f \in Family, NEW net \in IpNet(f), NEW b \in net.prefix_len .. Width(f)
    PROVE  LET size == 2 ^ (Width(f) - b)
           IN  SubnetsOf(net, b) = {ZoneAt(f, Trunc(net).addr + k * size, b) :
                                        k \in 0 .. HostSize(net) \div size - 1}
<1>1. \A x : [net EXCEPT !.addr = x, !.prefix_len = b] = ZoneAt(f, x, b)
  <2> TAKE x
  <2>1. PICK a, p : net = [family |-> f, addr |-> a, prefix_len |-> p]
    BY DEF IpNet
  <2> DEFINE one == [net EXCEPT !.addr = x]
  <2>2. one = [family |-> f, addr |-> x, prefix_len |-> p]
    BY <2>1
  <2>3. [net EXCEPT !.addr = x, !.prefix_len = b] = [one EXCEPT !.prefix_len = b]
    OBVIOUS
  <2> HIDE DEF one
  <2>4. [one EXCEPT !.prefix_len = b] = [family |-> f, addr |-> x, prefix_len |-> b]
    BY <2>2
  <2> QED  BY <2>3, <2>4 DEF ZoneAt
<1>2. HostSize([net EXCEPT !.prefix_len = b]) = 2 ^ (Width(f) - b)
  BY DEF IpNet, HostSize
<1>3. net.family = f
  BY DEF IpNet
<1> DEFINE first == Trunc(net).addr
           size == HostSize([net EXCEPT !.prefix_len = b])
           last == HostSize(net) \div size - 1
<1>4. SubnetsOf(net, b) = {[net EXCEPT !.addr = first + k * size, !.prefix_len = b] : k \in 0 .. last}
  BY <1>3 DEF SubnetsOf
<1> HIDE DEF first, size, last
<1>5. {[net EXCEPT !.addr = first + k * size, !.prefix_len = b] : k \in 0 .. last}
          = {ZoneAt(f, first + k * size, b) : k \in 0 .. last}
  <2> DEFINE N(k) == [net EXCEPT !.addr = first + k * size, !.prefix_len = b]
             Z(k) == ZoneAt(f, first + k * size, b)
  <2>1. \A k : N(k) = Z(k)
    BY <1>1
  <2> HIDE DEF N, Z
  <2>2. {N(k) : k \in 0 .. last} = {Z(k) : k \in 0 .. last}
    BY <2>1
  <2> QED  BY <2>2 DEF N, Z
<1> QED  BY <1>2, <1>4, <1>5 DEF first, size, last

\* A prefix length that IpNet::subnets accepts, of the family's labels.
LEMMA BoundaryAccepted ==
    ASSUME NEW f \in Family, NEW net \in IpNet(f)
    PROVE  LET b == Boundary(f, net.prefix_len)
           IN  /\ b \in net.prefix_len .. Width(f)
               /\ b \in Nat /\ b > 0 /\ b % LabelBits(f) = 0
               /\ b - LabelBits(f) < AtLeastOne(net.prefix_len)
<1>1. net.prefix_len \in 0 .. Width(f) /\ Width(f) \in Nat
  BY HostSizeFacts
<1>2. NextBoundary(f, net.prefix_len)
  BY <1>1, BoundaryIsNext
<1>3. AtLeastOne(net.prefix_len) >= net.prefix_len /\ AtLeastOne(net.prefix_len) >= 1
      /\ AtLeastOne(net.prefix_len) \in Nat
  BY <1>1 DEF AtLeastOne
<1> QED  BY <1>1, <1>2, <1>3 DEF NextBoundary

\* The zones of a subnet are its subnets of one size, each of them without a
\* host part, and an address is in one of them if and only if it is in the subnet.
LEMMA ZonesCover ==
    ASSUME NEW f \in Family, NEW net \in IpNet(f)
    PROVE  /\ \A z \in ParseSubnet(net) :
                 /\ z \in IpNet(f) /\ z = Trunc(z)
                 /\ z.prefix_len = Boundary(f, net.prefix_len)
                 /\ \A a \in Nat : InNet(z, a) => InNet(net, a)
           /\ \A a \in Nat : InNet(net, a) => \E z \in ParseSubnet(net) : InNet(z, a)
<1> DEFINE b == Boundary(f, net.prefix_len)
           s == 2 ^ (Width(f) - b)
           q == 2 ^ (b - net.prefix_len)
           h == HostSize(net)
           d == net.addr \div h
           n == 2 ^ net.prefix_len
           first == Trunc(net).addr
<1>1. b \in net.prefix_len .. Width(f) /\ b \in Nat
  BY BoundaryAccepted
<1>2. /\ Width(f) \in Nat /\ net.family = f /\ net.prefix_len \in 0 .. Width(f)
      /\ net.addr \in Nat /\ net.addr < 2 ^ Width(f)
      /\ h \in Nat /\ h > 0 /\ n \in Nat /\ 2 ^ Width(f) = h * n
  BY HostSizeFacts
<1> DEFINE low == Width(f) - b
           mid == b - net.prefix_len
<1>3. low \in Nat /\ mid \in Nat /\ low + mid = Width(f) - net.prefix_len
  BY <1>1, <1>2
<1>4. s \in Nat /\ s > 0 /\ q \in Nat /\ q > 0
  BY <1>3, PowerPositive
<1>5. h = s * q
  <2>1. 2 ^ (low + mid) = 2 ^ low * 2 ^ mid
    BY <1>3, PowerSum
  <2> QED  BY <1>2, <1>3, <2>1 DEF HostSize
<1>6. ParseSubnet(net) = {ZoneAt(f, first + k * s, b) : k \in 0 .. h \div s - 1}
  BY <1>1, <1>2, SubnetsForm DEF ParseSubnet
<1>7. first = h * d /\ d \in Nat
  <2>1. first = h * d
    BY TruncFacts
  <2> QED  BY <1>2, <2>1, Division
<1>8. \A z : HostSize(ZoneAt(f, z, b)) = s
  BY DEF HostSize, ZoneAt
<1> HIDE DEF b, s, q, h, d, n, first
<1>9. h \div s = q
  <2>1. h = s * q + 0 /\ 0 \in 0 .. s - 1
    BY <1>4, <1>5
  <2> QED  BY <1>2, <1>4, <2>1, DivisionIs
<1>10. \A k \in 0 .. q - 1 : first + k * s = s * (q * d + k) /\ q * d + k \in Nat
  <2> TAKE k \in 0 .. q - 1
  <2>1. k \in Nat /\ q * d \in Nat
    BY <1>4, <1>7
  <2>2. (s * q) * d = s * (q * d)
    BY <1>4, <1>7
  <2>3. s * (q * d + k) = s * (q * d) + k * s
    BY <1>4, <2>1
  <2> QED  BY <1>5, <1>7, <2>1, <2>2, <2>3
<1>11. ASSUME NEW k \in 0 .. q - 1, NEW z, z = ZoneAt(f, first + k * s, b)
       PROVE  /\ z \in IpNet(f) /\ z = Trunc(z) /\ z.prefix_len = b
              /\ \A a \in Nat : InNet(z, a) <=> a \div s = q * d + k
  <2> DEFINE e == q * d + k
  <2>1. z.addr = s * e /\ e \in Nat /\ z.family = f /\ z.prefix_len = b
    BY <1>10, <1>11 DEF ZoneAt
  <2>2. e < q * (d + 1)
    <3>1. q * (d + 1) = q * d + q /\ q * d \in Nat
      BY <1>4, <1>7
    <3> QED  BY <1>4, <3>1
  <2> HIDE DEF e
  <2>3. z.addr \in Nat
    BY <1>4, <2>1
  <2>4. z.addr = s * e + 0 /\ 0 \in 0 .. s - 1
    BY <1>4, <2>1
  <2>5. z.addr \div s = e /\ z.addr % s = 0
    BY <1>4, <2>1, <2>3, <2>4, DivisionIs
  <2>6. z.addr < 2 ^ Width(f)
    <3>1. d + 1 <= n
      <4> SUFFICES ASSUME n <= d PROVE FALSE
        BY <1>2, <1>7
      <4>1. h * d <= net.addr
        BY <1>2, Division DEF d
      <4>2. h * n <= h * d
        BY <1>2, <1>7
      <4>3. h * n \in Nat /\ h * d \in Nat
        BY <1>2, <1>7
      <4> QED  BY <1>2, <4>1, <4>2, <4>3
    <3>2. s * e < s * (q * (d + 1))
      <4> DEFINE y == q * (d + 1)
      <4>1. y \in Nat /\ e < y
        BY <1>4, <1>7, <2>2
      <4> HIDE DEF y
      <4>2. s * e < s * y
        BY <1>4, <2>1, <4>1
      <4> QED  BY <4>2 DEF y
    <3>3. s * (q * (d + 1)) = h * (d + 1)
      BY <1>4, <1>5, <1>7
    <3>4. h * (d + 1) <= h * n
      BY <1>2, <1>7, <3>1
    <3>5. h * (d + 1) \in Nat /\ h * n \in Nat /\ s * e \in Nat
      BY <1>2, <1>4, <1>7, <2>1
    <3> QED  BY <1>2, <2>1, <3>2, <3>3, <3>4, <3>5
  <2>7. z \in IpNet(f)
    <3>1. z.addr \in Address(f)
      BY <1>2, <2>3, <2>6, PowerPositive DEF Address
    <3>2. b \in 0 .. Width(f)
      BY <1>1, <1>2 DEF b
    <3> QED  BY <1>11, <3>1, <3>2 DEF ZoneAt, IpNet
  <2>8. HostSize(z) = s
    BY <1>8, <1>11
  <2>9. z = Trunc(z)
    <3>1. z.addr - (z.addr % HostSize(z)) = z.addr
      BY <2>3, <2>5, <2>8
    <3>2. Trunc(z) = [z EXCEPT !.addr = z.addr - (z.addr % HostSize(z))]
      BY DEF Trunc
    <3>3. z = [z EXCEPT !.addr = z.addr]
      BY <1>11 DEF ZoneAt
    <3> QED  BY <3>1, <3>2, <3>3
  <2>10. \A a \in Nat : InNet(z, a) <=> a \div s = e
    BY <2>5, <2>8 DEF InNet
  <2> QED  BY <2>1, <2>7, <2>9, <2>10 DEF e
<1>12. \A a \in Nat : InNet(net, a) <=> (a \div s) \div q = d
  <2> TAKE a \in Nat
  <2>1. InNet(net, a) <=> a \div h = d
    BY DEF InNet, h, d
  <2>2. (a \div s) \div q = a \div (s * q)
    BY <1>4, DivDiv
  <2> QED  BY <1>5, <2>1, <2>2
<1>13. ASSUME NEW z \in ParseSubnet(net)
       PROVE  /\ z \in IpNet(f) /\ z = Trunc(z) /\ z.prefix_len = b
              /\ \A a \in Nat : InNet(z, a) => InNet(net, a)
  <2>1. PICK k \in 0 .. q - 1 : z = ZoneAt(f, first + k * s, b)
    BY <1>6, <1>9
  <2>2. /\ z \in IpNet(f) /\ z = Trunc(z) /\ z.prefix_len = b
        /\ \A a \in Nat : InNet(z, a) <=> a \div s = q * d + k
    BY <1>11, <2>1
  <2>3. (q * d + k) \div q = d
    <3>1. k \in 0 .. q - 1 /\ q * d + k \in Nat
      BY <1>4, <1>7
    <3> QED  BY <1>4, <1>7, <3>1, DivisionIs
  <2> QED  BY <1>12, <2>2, <2>3
<1>14. ASSUME NEW a \in Nat, InNet(net, a) PROVE \E z \in ParseSubnet(net) : InNet(z, a)
  <2> DEFINE e == a \div s
             k == e % q
             z == ZoneAt(f, first + k * s, b)
  <2>1. e \in Nat
    BY <1>4, Division
  <2>2. e = q * (e \div q) + k /\ k \in 0 .. q - 1
    BY <1>4, <2>1, Division
  <2>3. e = q * d + k
    BY <1>12, <1>14, <2>2
  <2>4. z \in ParseSubnet(net)
    BY <1>6, <1>9, <2>2
  <2> HIDE DEF k
  <2>5. InNet(z, a)
    BY <1>11, <2>2, <2>3
  <2> QED  BY <2>4, <2>5
<1> QED  BY <1>13, <1>14 DEF b

\* The zones do not depend on the host part.
LEMMA TruncZones ==
    ASSUME NEW f \in Family, NEW net \in IpNet(f)
    PROVE  ParseSubnet(Trunc(net)) = ParseSubnet(net)
<1> DEFINE t == Trunc(net)
           b == Boundary(f, net.prefix_len)
<1>1. /\ t \in IpNet(f) /\ t.prefix_len = net.prefix_len /\ HostSize(t) = HostSize(net)
      /\ Trunc(t) = t /\ t.family = f /\ net.family = f
  BY TruncFacts, HostSizeFacts
<1>2. b \in net.prefix_len .. Width(f)
  BY BoundaryAccepted
<1> DEFINE s == 2 ^ (Width(f) - b)
           Zones(first, h) == {ZoneAt(f, first + k * s, b) : k \in 0 .. h \div s - 1}
<1> HIDE DEF b
<1>3. SubnetsOf(net, b) = Zones(Trunc(net).addr, HostSize(net))
  BY <1>2, SubnetsForm
<1>4. SubnetsOf(t, b) = Zones(Trunc(t).addr, HostSize(t))
  <2> HIDE DEF t
  <2> QED  BY <1>1, <1>2, SubnetsForm
<1>5. SubnetsOf(t, b) = SubnetsOf(net, b)
  <2> HIDE DEF Zones
  <2> QED  BY <1>1, <1>3, <1>4
<1> HIDE DEF t
<1> QED  BY <1>1, <1>5 DEF ParseSubnet, t, b

-----------------------------------------------------------------------------
(***************************************************************************)
(* Labels: the digits of an address.                                       *)
(***************************************************************************)
LabelCount(f) == Width(f) \div LabelBits(f)

\* Digit k of an address, least significant first.
Digit(f, addr, k) == (addr \div 2 ^ (LabelBits(f) * k)) % 2 ^ LabelBits(f)

\* An address has a whole number of labels: an octet each, or two to an octet.
LEMMA LabelFacts ==
    ASSUME NEW f \in Family
    PROVE  /\ LabelBits(f) \in Nat /\ LabelBits(f) > 0
           /\ LabelCount(f) \in Nat /\ LabelCount(f) > 0
           /\ Width(f) = LabelBits(f) * LabelCount(f)
           /\ Octets[f] \in Nat /\ Octets[f] > 0
           /\ f = "v4" => LabelBits(f) = OctetBits /\ LabelCount(f) = Octets[f]
           /\ f # "v4" => OctetBits = 2 * LabelBits(f) /\ LabelCount(f) = 2 * Octets[f]
<1>1. f \in {"v4", "v6"} /\ Octets[f] \in Nat /\ Octets[f] > 0 /\ OctetBits \in Nat /\ OctetBits >= 2
  BY SubnetsAssumption
<1> DEFINE h == OctetBits \div 2
<1>2. h \in Nat /\ OctetBits = 2 * h /\ h > 0
  BY SubnetsAssumption, <1>1, Division
<1> HIDE DEF h
<1>3. ASSUME NEW b \in Nat, b > 0, NEW n \in Nat, n > 0, Width(f) = b * n, LabelBits(f) = b
      PROVE  LabelCount(f) = n
  <2>1. b * n \in Nat /\ b * n = b * n + 0 /\ 0 \in 0 .. b - 1
    BY <1>3
  <2>2. (b * n) \div b = n
    BY <1>3, <2>1, DivisionIs
  <2> QED  BY <1>3, <2>2 DEF LabelCount
<1>4. CASE f = "v4"
  <2>1. LabelBits(f) = OctetBits /\ Width(f) = OctetBits * Octets[f]
    BY <1>4 DEF LabelBits, Width
  <2>2. LabelCount(f) = Octets[f]
    BY <1>1, <1>3, <2>1
  <2> QED  BY <1>1, <1>4, <2>1, <2>2
<1>5. CASE f # "v4"
  <2>1. LabelBits(f) = h /\ Width(f) = OctetBits * Octets[f]
    BY <1>5 DEF LabelBits, Width, h
  <2>2. Width(f) = h * (2 * Octets[f]) /\ 2 * Octets[f] \in Nat /\ 2 * Octets[f] > 0
    BY <1>1, <1>2, <2>1
  <2>3. LabelCount(f) = 2 * Octets[f]
    BY <1>2, <1>3, <2>1, <2>2
  <2> QED  BY <1>1, <1>2, <1>5, <2>1, <2>2, <2>3
<1> QED  BY <1>4, <1>5

\* zone_name writes the digits of the address from its octets.
LEMMA LabelIsDigit ==
    ASSUME NEW f \in Family, NEW x \in Nat, NEW i \in 0 .. LabelCount(f) - 1
    PROVE  Label(f, x, i) = Digit(f, x, LabelCount(f) - 1 - i)
<1>1. /\ LabelBits(f) \in Nat /\ LabelBits(f) > 0 /\ LabelCount(f) \in Nat /\ Octets[f] \in Nat
      /\ f = "v4" => LabelBits(f) = OctetBits /\ LabelCount(f) = Octets[f]
      /\ f # "v4" => OctetBits = 2 * LabelBits(f) /\ LabelCount(f) = 2 * Octets[f]
  BY LabelFacts
<1>2. CASE f = "v4"
  BY <1>1, <1>2 DEF Label, Octet, Digit
<1>3. CASE f # "v4"
  <2> DEFINE h == LabelBits(f)
             B == 2 ^ h
             k == i \div 2
             r == i % 2
             m == 2 * (Octets[f] - 1 - k)
             p == 2 ^ (h * m)
             y == x \div p
  <2>1. OctetBits = 2 * h /\ LabelCount(f) = 2 * Octets[f] /\ h \in Nat
    BY <1>1, <1>3
  <2>2. k \in Nat /\ i = 2 * k + r /\ r \in 0 .. 1
    BY <1>1, Division
  <2>3. OctetBits \div 2 = h
    BY <1>3 DEF LabelBits
  <2>4. 2 ^ OctetBits = B * B
    <3>1. h + h = OctetBits
      BY <2>1
    <3>2. 2 ^ (h + h) = 2 ^ h * 2 ^ h
      BY <2>1, PowerSum
    <3> QED  BY <3>1, <3>2
  <2> HIDE DEF k, r
  <2>5. m \in Nat
    BY <1>1, <2>1, <2>2
  <2>6. OctetBits * (Octets[f] - 1 - k) = h * m /\ h * m \in Nat
    <3> HIDE DEF h
    <3> QED  BY <1>1, <2>1, <2>2, <2>5
  <2>7. Octet(f, x, k) = y % (B * B)
    BY <2>4, <2>6 DEF Octet
  <2>8. Label(f, x, i) = IF r = 0 THEN (y % (B * B)) \div B ELSE (y % (B * B)) % B
    BY <1>3, <2>3, <2>7 DEF Label, k, r
  <2>9. B \in Nat /\ B > 0 /\ p \in Nat /\ p > 0
    BY <2>1, <2>6, PowerPositive
  <2>10. p * B = 2 ^ (h * (m + 1))
    <3>1. 2 ^ (h * m + h) = 2 ^ (h * m) * 2 ^ h
      BY <2>1, <2>6, PowerSum
    <3>2. h * m + h = h * (m + 1)
      <4> HIDE DEF h, m
      <4> QED  BY <2>1, <2>5
    <3> QED  BY <3>1, <3>2
  <2>11. Digit(f, x, m) = y % B /\ Digit(f, x, m + 1) = (x \div (p * B)) % B
    BY <2>10 DEF Digit
  <2> HIDE DEF h, B, m, p, y
  <2>12. y \in Nat /\ y \div B = x \div (p * B)
    BY <2>9, DivDiv, Division DEF y
  <2>13. (y % (B * B)) \div B = (y \div B) % B /\ (y % (B * B)) % B = y % B
    <3>1. y \in Nat /\ B \in Nat /\ B > 0
      BY <2>9, <2>12
    <3> QED  BY <3>1, Halves
  <2>14. LabelCount(f) - 1 - i = IF r = 0 THEN m + 1 ELSE m
    BY <1>1, <2>1, <2>2 DEF m
  <2>15. CASE r = 0
    BY <2>8, <2>11, <2>12, <2>13, <2>14, <2>15
  <2>16. CASE r # 0
    BY <2>8, <2>11, <2>13, <2>14, <2>16
  <2> QED  BY <2>15, <2>16
<1> QED  BY <1>2, <1>3

\* Two addresses agree in their n most significant digits if and only if they
\* agree in what is left when the others are divided away.
LEMMA SameDigits ==
    ASSUME NEW f \in Family, NEW x \in Nat, NEW y \in Nat,
           x < 2 ^ Width(f), y < 2 ^ Width(f), NEW n \in 0 .. LabelCount(f)
    PROVE  LET size == 2 ^ (LabelBits(f) * (LabelCount(f) - n))
           IN  (\A k \in LabelCount(f) - n .. LabelCount(f) - 1 : Digit(f, x, k) = Digit(f, y, k))
                   <=> x \div size = y \div size
<1> DEFINE L == LabelBits(f)
           N == LabelCount(f)
           B == 2 ^ L
           Size(i) == 2 ^ (L * (N - i))
           Agree(i) == (\A k \in N - i .. N - 1 : Digit(f, x, k) = Digit(f, y, k))
                           <=> x \div Size(i) = y \div Size(i)
           S == {i \in Nat : i <= N => Agree(i)}
<1>1. L \in Nat /\ L > 0 /\ N \in Nat /\ N > 0 /\ Width(f) = L * N
  BY LabelFacts
<1>2. B \in Nat /\ B > 0
  BY <1>1, PowerPositive
<1>3. \A i \in 0 .. N : Size(i) \in Nat /\ Size(i) > 0
  <2> TAKE i \in 0 .. N
  <2>1. L * (N - i) \in Nat
    <3>1. N - i \in Nat
      BY <1>1
    <3> HIDE DEF L, N
    <3> QED  BY <1>1, <3>1
  <2> QED  BY <2>1, PowerPositive
<1>4. \A i \in 0 .. N : \A z : Digit(f, z, N - i) = (z \div Size(i)) % B
  BY DEF Digit
<1>5. \A i \in 0 .. N : i + 1 <= N => Size(i + 1) * B = Size(i)
  <2> SUFFICES ASSUME NEW i \in 0 .. N, i + 1 <= N PROVE Size(i + 1) * B = Size(i)
    OBVIOUS
  <2> DEFINE e == L * (N - (i + 1))
  <2>1. N - (i + 1) \in Nat
    BY <1>1
  <2> HIDE DEF L, N
  <2>2. e \in Nat
    BY <1>1, <2>1
  <2>3. e + L = L * (N - i)
    BY <1>1
  <2>4. 2 ^ (e + L) = 2 ^ e * 2 ^ L
    BY <1>1, <2>2, PowerSum
  <2> QED  BY <2>3, <2>4
<1>6. 0 \in S
  <2>1. Size(0) = 2 ^ Width(f)
    BY <1>1
  <2>2. x \div Size(0) = 0 /\ y \div Size(0) = 0
    <3> DEFINE s == Size(0)
    <3>1. s \in Nat /\ s > 0 /\ x \in 0 .. s - 1 /\ y \in 0 .. s - 1
      BY <1>1, <1>3, <2>1
    <3> HIDE DEF s
    <3>2. x = s * 0 + x /\ y = s * 0 + y
      BY <3>1
    <3>3. x \div s = 0 /\ y \div s = 0
      BY <3>1, <3>2, DivisionIs
    <3> QED  BY <3>3 DEF s
  <2>3. N - 0 .. N - 1 = {}
    BY <1>1
  <2> QED  BY <2>2, <2>3
<1> HIDE DEF L, N, B, Size
<1>7. ASSUME NEW i \in Nat, i \in S PROVE i + 1 \in S
  <2> SUFFICES ASSUME i + 1 <= N PROVE Agree(i + 1)
    OBVIOUS
  <2> DEFINE j == i + 1
             s == Size(j)
             a == x \div s
             b == y \div s
  <2>1. i \in 0 .. N /\ j \in 0 .. N
    BY <1>1
  <2>2. s \in Nat /\ s > 0 /\ s * B = Size(i)
    BY <1>3, <1>5, <2>1
  <2>3. a \in Nat /\ b \in Nat
    BY <2>2, Division
  <2>4. a \div B = x \div Size(i) /\ b \div B = y \div Size(i)
    <3> HIDE DEF s
    <3> QED  BY <1>2, <2>2, DivDiv
  <2>5. Digit(f, x, N - j) = a % B /\ Digit(f, y, N - j) = b % B
    BY <1>4, <2>1
  <2>6. Agree(i)
    BY <1>7, <2>1
  <2>7. N - j .. N - 1 = {N - j} \cup (N - i .. N - 1)
    BY <1>1, <2>1
  <2> HIDE DEF a, b, s
  <2>8. a = b <=> a \div B = b \div B /\ a % B = b % B
    BY <1>2, <2>3, Division
  <2> QED  BY <2>4, <2>5, <2>6, <2>7, <2>8 DEF a, b, s
<1>8. n \in S
  <2>1. Nat \subseteq S
    <3> HIDE DEF S
    <3> QED  BY <1>6, <1>7, Induction
  <2>2. n \in Nat
    BY <1>1 DEF N
  <2> QED  BY <2>1, <2>2
<1>9. n <= N
  BY <1>1 DEF N
<1> QED  BY <1>8, <1>9 DEF Size, L, N

\* The m elements of t end in the n elements of s.
EndsIn(t, m, s, n) == n <= m /\ \A i \in 1 .. n : s[i] = t[m - n + i]

\* A sequence is a suffix of another one if that one ends in it.
LEMMA SuffixFacts ==
    ASSUME NEW S, NEW n \in Nat, NEW m \in Nat, NEW s \in [1 .. n -> S], NEW t \in [1 .. m -> S]
    PROVE  IsSuffix(s, t) <=> EndsIn(t, m, s, n)
<1>2. Len(s) = n /\ Len(t) = m
  OBVIOUS
<1> DEFINE rs == [i \in 1 .. n |-> s[n - i + 1]]
           rt == [i \in 1 .. m |-> t[m - i + 1]]
<1>3. Reverse(s) = rs /\ Reverse(t) = rt
  BY <1>2 DEF Reverse
<1>4. Len(rs) = n /\ Len(rt) = m
  <2>1. rs \in [1 .. n -> {rs[i] : i \in 1 .. n}] /\ rt \in [1 .. m -> {rt[i] : i \in 1 .. m}]
    OBVIOUS
  <2> QED  BY <2>1
<1>5. IsSuffix(s, t) <=> n <= m /\ SubSeq(rs, 1, n) = SubSeq(rt, 1, n)
  BY <1>3, <1>4 DEF IsSuffix, IsPrefix
<1>6. ASSUME n <= m
      PROVE  SubSeq(rs, 1, n) = SubSeq(rt, 1, n) <=> \A i \in 1 .. n : rs[i] = rt[i]
  <2>1. \A i \in 1 .. n : i \in 1 .. m
    BY <1>6
  <2>2. SubSeq(rs, 1, n) = [i \in 1 .. n |-> rs[i]] /\ SubSeq(rt, 1, n) = [i \in 1 .. n |-> rt[i]]
    BY <1>6
  <2> QED  BY <2>2
<1>7. ASSUME n <= m
      PROVE  (\A i \in 1 .. n : rs[i] = rt[i]) <=> \A i \in 1 .. n : s[i] = t[m - n + i]
  <2>1. ASSUME \A i \in 1 .. n : rs[i] = rt[i], NEW i \in 1 .. n PROVE s[i] = t[m - n + i]
    <3> DEFINE j == n - i + 1
    <3>1. j \in 1 .. n /\ j \in 1 .. m /\ n - j + 1 = i /\ m - j + 1 = m - n + i
      BY <1>7
    <3>2. rs[j] = s[n - j + 1] /\ rt[j] = t[m - j + 1]
      BY <3>1
    <3> QED  BY <2>1, <3>1, <3>2
  <2>2. ASSUME \A i \in 1 .. n : s[i] = t[m - n + i], NEW i \in 1 .. n PROVE rs[i] = rt[i]
    <3> DEFINE j == n - i + 1
    <3>1. j \in 1 .. n /\ i \in 1 .. m /\ m - n + j = m - i + 1
      BY <1>7
    <3> QED  BY <2>2, <3>1
  <2> QED  BY <2>1, <2>2
<1> QED  BY <1>5, <1>6, <1>7 DEF EndsIn

\* What zones have in common: a family, no host part, a prefix of whole labels.
IsZone(z) ==
    /\ z.family \in Family /\ z \in IpNet(z.family) /\ z = Trunc(z)
    /\ z.prefix_len % LabelBits(z.family) = 0

\* The catalog finds a zone for a reverse name if and only if the zone contains
\* the address.
LEMMA ZoneAnswers ==
    ASSUME NEW f \in Family, NEW a \in Address(f), NEW z, IsZone(z)
    PROVE  ZoneOf(ReverseName(f, a), ZoneName(z)) <=> z.family = f /\ InNet(z, a)
<1> DEFINE L == LabelBits(f)
           N == LabelCount(f)
           n == z.prefix_len \div L
           rev == ReverseName(f, a).labels
           lab == ZoneName(z).labels
<1>1. z.family \in Family /\ z \in IpNet(z.family)
  BY DEF IsZone
<1>2. ReverseName(f, a).domain = f /\ ZoneName(z).domain = z.family
  BY DEF ReverseName, ZoneName, NameOf
<1>3. CASE z.family # f
  BY <1>2, <1>3 DEF ZoneOf
<1>4. CASE z.family = f
  <2>1. L \in Nat /\ L > 0 /\ N \in Nat /\ N > 0 /\ Width(f) = L * N
    BY LabelFacts
  <2>2. z.prefix_len \in 0 .. Width(f) /\ z.addr \in Nat /\ z.addr < 2 ^ Width(f)
    BY <1>1, <1>4, HostSizeFacts
  <2>3. a \in Nat /\ a < 2 ^ Width(f)
    <3>1. Width(f) \in Nat
      BY SubnetsAssumption DEF Width
    <3>2. 2 ^ Width(f) \in Nat
      BY <3>1, PowerPositive
    <3> QED  BY <3>2 DEF Address
  <2>4. n \in Nat /\ z.prefix_len = L * n
    <3>1. z.prefix_len \in Nat /\ z.prefix_len % L = 0
      BY <1>4, <2>2 DEF IsZone
    <3> HIDE DEF L
    <3> QED  BY <2>1, <3>1, WholeMultiple
  <2>5. rev = [i \in 1 .. N |-> Digit(f, a, i - 1)]
    BY DEF ReverseName, LabelCount, Digit
  <2>6. lab = [i \in 1 .. n |-> Label(f, z.addr, n - i)]
    BY <1>4 DEF ZoneName, NameOf
  <2> HIDE DEF L, N, n, rev, lab
  <2>7. n \in 0 .. N
    <3>1. L * n <= L * N
      BY <2>1, <2>2, <2>4
    <3> SUFFICES ASSUME n >= N + 1 PROVE FALSE
      BY <2>1, <2>4
    <3>2. L * n >= L * (N + 1) /\ L * (N + 1) = L * N + L
      BY <2>1, <2>4
    <3>3. L * N \in Nat /\ L * n \in Nat
      BY <2>1, <2>4
    <3> QED  BY <2>1, <3>1, <3>2, <3>3
  <2>8. HostSize(z) = 2 ^ (L * (N - n))
    <3>1. L * N - L * n = L * (N - n)
      BY <2>1, <2>4
    <3> QED  BY <1>4, <2>1, <2>4, <3>1 DEF HostSize
  <2>9. \A i \in 1 .. n : lab[i] = Digit(f, z.addr, N - n + i - 1)
    <3> TAKE i \in 1 .. n
    <3>1. n - i \in 0 .. N - 1 /\ N - 1 - (n - i) = N - n + i - 1
      BY <2>1, <2>4, <2>7
    <3>2. Label(f, z.addr, n - i) = Digit(f, z.addr, N - 1 - (n - i))
      BY <2>2, <3>1, LabelIsDigit DEF N
    <3> QED  BY <2>6, <3>1, <3>2
  <2>10. \A i \in 1 .. n : rev[N - n + i] = Digit(f, a, N - n + i - 1)
    <3> TAKE i \in 1 .. n
    <3> DEFINE j == N - n + i
    <3>1. j \in 1 .. N
      BY <2>1, <2>4, <2>7
    <3> HIDE DEF j
    <3>2. rev[j] = Digit(f, a, j - 1)
      BY <2>5, <3>1
    <3>3. j - 1 = N - n + i - 1
      BY <2>1, <2>4 DEF j
    <3> QED  BY <3>2, <3>3 DEF j
  <2>11. IsSuffix(lab, rev) <=> \A i \in 1 .. n : lab[i] = rev[N - n + i]
    <3> DEFINE S == {lab[i] : i \in 1 .. n} \cup {rev[i] : i \in 1 .. N}
    <3>1. lab \in [1 .. n -> S]
      BY <2>6
    <3>2. rev \in [1 .. N -> S]
      BY <2>5
    <3> HIDE DEF S
    <3>3. IsSuffix(lab, rev) <=> EndsIn(rev, N, lab, n)
      BY <2>1, <2>4, <3>1, <3>2, SuffixFacts
    <3> QED  BY <2>1, <2>7, <3>3 DEF EndsIn
  <2>12. (\A i \in 1 .. n : lab[i] = rev[N - n + i])
            <=> \A k \in N - n .. N - 1 : Digit(f, z.addr, k) = Digit(f, a, k)
    <3>1. ASSUME \A i \in 1 .. n : lab[i] = rev[N - n + i], NEW k \in N - n .. N - 1
          PROVE  Digit(f, z.addr, k) = Digit(f, a, k)
      <4> DEFINE i == k - (N - n) + 1
      <4>1. i \in 1 .. n /\ N - n + i - 1 = k
        BY <2>1, <2>4, <2>7
      <4> HIDE DEF i
      <4> QED  BY <2>9, <2>10, <3>1, <4>1
    <3>2. ASSUME \A k \in N - n .. N - 1 : Digit(f, z.addr, k) = Digit(f, a, k), NEW i \in 1 .. n
          PROVE  lab[i] = rev[N - n + i]
      <4>1. N - n + i - 1 \in N - n .. N - 1
        BY <2>1, <2>4, <2>7
      <4> QED  BY <2>9, <2>10, <3>2, <4>1
    <3> QED  BY <3>1, <3>2
  <2>13. (\A k \in N - n .. N - 1 : Digit(f, z.addr, k) = Digit(f, a, k))
            <=> z.addr \div HostSize(z) = a \div HostSize(z)
    BY <2>2, <2>3, <2>7, <2>8, SameDigits DEF L, N
  <2>14. ZoneOf(ReverseName(f, a), ZoneName(z)) <=> IsSuffix(lab, rev)
    BY <1>2, <1>4 DEF ZoneOf, lab, rev
  <2> QED  BY <1>4, <2>11, <2>12, <2>13, <2>14 DEF InNet
<1> QED  BY <1>3, <1>4

\* Two zones have two names.
LEMMA ZoneNamesDiffer ==
    ASSUME NEW y, NEW z, IsZone(y), IsZone(z), ZoneName(y) = ZoneName(z)
    PROVE  y = z
<1> DEFINE f == y.family
           L == LabelBits(f)
           m == y.prefix_len \div L
           n == z.prefix_len \div L
<1>1. f \in Family /\ z.family = f /\ y \in IpNet(f) /\ z \in IpNet(f)
  BY DEF ZoneName, NameOf, IsZone
<1>2. L \in Nat /\ L > 0
  BY <1>1, LabelFacts
<1>3. y.prefix_len \in Nat /\ z.prefix_len \in Nat /\ y.addr \in Address(f)
  BY <1>1, HostSizeFacts DEF IpNet
<1>4. m \in Nat /\ y.prefix_len = L * m /\ n \in Nat /\ z.prefix_len = L * n
  <2>1. y.prefix_len % L = 0 /\ z.prefix_len % L = 0
    BY <1>1 DEF IsZone
  <2> HIDE DEF L
  <2> QED  BY <1>2, <1>3, <2>1, WholeMultiple
<1>5. m = n
  <2>1. DOMAIN ZoneName(y).labels = 1 .. m /\ DOMAIN ZoneName(z).labels = 1 .. n
    BY <1>1 DEF ZoneName, NameOf
  <2> HIDE DEF m, n
  <2>2. 1 .. m = 1 .. n
    BY <2>1
  <2> QED  BY <1>4, <2>2
<1>6. y.prefix_len = z.prefix_len
  BY <1>4, <1>5
<1>7. InNet(y, y.addr)
  BY DEF InNet
<1>8. InNet(z, y.addr)
  BY <1>1, <1>3, <1>7, ZoneAnswers
<1> QED  BY <1>1, <1>6, <1>7, <1>8, SameNet DEF IsZone

-----------------------------------------------------------------------------
(***************************************************************************)
(* Subnets in use do not overlap, and the reverse zones are theirs.        *)
(***************************************************************************)
IsNet(n) == n.family \in Family /\ n \in IpNet(n.family) /\ n = Trunc(n)

SubnetsInv ==
    /\ \A n \in subnets : IsNet(n)
    /\ \A m, n \in subnets : m # n => ~Overlap(m, n)
    /\ zones = UNION {ParseSubnet(n) : n \in subnets}
    /\ catalog = {ZoneName(z) : z \in zones}

\* The zones of a subnet, and where they are.
LEMMA ZonesOfNet ==
    ASSUME NEW n, IsNet(n), NEW z \in ParseSubnet(n)
    PROVE  /\ IsZone(z) /\ z.family = n.family /\ z.prefix_len = Boundary(n.family, n.prefix_len)
           /\ z.addr \in Nat /\ InNet(n, z.addr)
           /\ \A a \in Nat : InNet(z, a) => InNet(n, a)
<1> DEFINE f == n.family
<1>1. f \in Family /\ n \in IpNet(f)
  BY DEF IsNet
<1>2. /\ z \in IpNet(f) /\ z = Trunc(z) /\ z.prefix_len = Boundary(f, n.prefix_len)
      /\ \A a \in Nat : InNet(z, a) => InNet(n, a)
  BY <1>1, ZonesCover
<1>3. z.family = f /\ z.addr \in Nat
  BY <1>1, <1>2, HostSizeFacts
<1>4. Boundary(f, n.prefix_len) % LabelBits(f) = 0
  BY <1>1, BoundaryAccepted
<1>5. InNet(z, z.addr)
  BY DEF InNet
<1> QED  BY <1>1, <1>2, <1>3, <1>4, <1>5 DEF IsZone

\* Two subnets with an address in common overlap.
LEMMA CommonOverlaps ==
    ASSUME NEW m, NEW n, IsNet(m), IsNet(n), m.family = n.family,
           NEW a \in Nat, InNet(m, a), InNet(n, a)
    PROVE  Overlap(m, n)
  BY OverlapIsCommon DEF IsNet

\* The invariant holds initially, without subnets and zones.
LEMMA SubnetsInit == Init => SubnetsInv
  BY DEF Init, SubnetsInv

\* Docker accepts a subnet that overlaps none; it gets its zones.
LEMMA CreateKeeps ==
    ASSUME SubnetsInv, NEW f \in Family, NEW net \in Written(f), Create(net)
    PROVE  SubnetsInv'
<1> DEFINE t == Trunc(net)
<1>1. net \in IpNet(f) /\ net.family = f
  BY DEF Written, IpNet
<1>2. t \in IpNet(f) /\ t = Trunc(t) /\ ParseSubnet(t) = ParseSubnet(net)
      /\ \A a : InNet(t, a) <=> InNet(net, a)
  BY <1>1, TruncFacts, TruncZones
<1> HIDE DEF t
<1>3. IsNet(t) /\ t.family = f
  BY <1>2, HostSizeFacts DEF IsNet
<1>4. /\ subnets' = subnets \cup {t} /\ zones' = zones \cup ParseSubnet(t)
      /\ catalog' = catalog \cup {ZoneName(z) : z \in ParseSubnet(t)}
  BY <1>2 DEF Create, t
<1>5. ASSUME NEW n \in subnets PROVE ~Overlap(n, t) /\ ~Overlap(t, n)
  <2>1. IsNet(n) /\ ~Overlap(n, net)
    BY DEF SubnetsInv, Create
  <2>2. CASE n.family # f
    BY <1>3, <2>2 DEF Overlap
  <2>3. CASE n.family = f
    <3>1. n \in IpNet(f)
      BY <2>1, <2>3 DEF IsNet
    <3>2. ~\E a \in Nat : InNet(n, a) /\ InNet(net, a)
      BY <1>1, <2>1, <3>1, OverlapIsCommon
    <3> QED  BY <1>2, <3>1, <3>2, OverlapIsCommon
  <2> QED  BY <2>2, <2>3
<1>6. \A m, n \in subnets' : IsNet(n) /\ (m # n => ~Overlap(m, n))
  BY <1>3, <1>4, <1>5 DEF SubnetsInv
<1>7. zones' = UNION {ParseSubnet(n) : n \in subnets'}
  BY <1>4 DEF SubnetsInv
<1>8. catalog' = {ZoneName(z) : z \in zones'}
  BY <1>4 DEF SubnetsInv
<1> QED  BY <1>6, <1>7, <1>8 DEF SubnetsInv

\* A zone belongs to one subnet in use.
LEMMA ZoneOfOne ==
    ASSUME SubnetsInv, NEW m \in subnets, NEW n \in subnets,
           NEW y \in ParseSubnet(m), NEW z \in ParseSubnet(n), NEW a \in Nat,
           y.family = z.family, InNet(y, a), InNet(z, a)
    PROVE  m = n /\ y = z
<1>1. IsNet(m) /\ IsNet(n)
  BY DEF SubnetsInv
<1>2. /\ y.family = m.family /\ z.family = n.family /\ IsZone(y) /\ IsZone(z)
      /\ InNet(m, a) /\ InNet(n, a)
  BY <1>1, ZonesOfNet
<1>3. m = n
  BY <1>1, <1>2, CommonOverlaps DEF SubnetsInv
<1>4. y.prefix_len = z.prefix_len
  BY <1>1, <1>3, ZonesOfNet
<1> QED  BY <1>2, <1>3, <1>4, SameNet DEF IsZone

\* A destroyed network takes its zones with it, and no others.
LEMMA DestroyKeeps ==
    ASSUME SubnetsInv, NEW net \in subnets, Destroy(net)
    PROVE  SubnetsInv'
<1>1. /\ subnets' = subnets \ {net} /\ zones' = zones \ ParseSubnet(net)
      /\ catalog' = catalog \ {ZoneName(z) : z \in ParseSubnet(net)}
  BY DEF Destroy
<1>2. \A z \in zones : IsZone(z)
  BY ZonesOfNet DEF SubnetsInv
<1>3. ASSUME NEW n \in subnets, n # net, NEW z \in ParseSubnet(n), z \in ParseSubnet(net)
      PROVE  FALSE
  <2>1. z.addr \in Nat /\ InNet(z, z.addr)
    BY ZonesOfNet DEF SubnetsInv, InNet
  <2> QED  BY <1>3, <2>1, ZoneOfOne
<1>4. zones' = UNION {ParseSubnet(n) : n \in subnets'}
  BY <1>1, <1>3 DEF SubnetsInv
<1>5. catalog' = {ZoneName(z) : z \in zones'}
  <2>1. ParseSubnet(net) \subseteq zones
    BY DEF SubnetsInv
  <2>2. \A y, z \in zones : ZoneName(y) = ZoneName(z) => y = z
    BY <1>2, ZoneNamesDiffer
  <2> QED  BY <1>1, <2>1, <2>2 DEF SubnetsInv
<1> QED  BY <1>1, <1>4, <1>5 DEF SubnetsInv

(***************************************************************************)
(* monitor.rs:130-180.  Whatever subnets Docker hands out, as long as none *)
(* overlaps one in use, reverse_zones holds the zones of the subnets in    *)
(* use and the catalog holds their names.                                  *)
(***************************************************************************)
THEOREM SubnetsInvariant == Spec => []SubnetsInv
<1>1. SubnetsInv /\ [Next]_vars => SubnetsInv'
  <2> SUFFICES ASSUME SubnetsInv, [Next]_vars PROVE SubnetsInv'
    OBVIOUS
  <2>1. ASSUME NEW f \in Family, NEW net \in Written(f), Create(net) PROVE SubnetsInv'
    BY <2>1, CreateKeeps
  <2>2. ASSUME NEW net \in subnets, Destroy(net) PROVE SubnetsInv'
    BY <2>2, DestroyKeeps
  <2>3. CASE UNCHANGED vars
    BY <2>3 DEF vars, SubnetsInv
  <2> QED  BY <2>1, <2>2, <2>3 DEF Next
<1> QED  BY <1>1, SubnetsInit, PTL DEF Spec

(***************************************************************************)
(* Subnets and zones are networks of their family without a host part: the *)
(* subnets that IpNet::subnets lists have addresses, and truncating one    *)
(* changes nothing.                                                        *)
(***************************************************************************)
THEOREM TypeCorrect == Spec => []TypeOK
<1>1. SubnetsInv => TypeOK
  <2> SUFFICES ASSUME SubnetsInv PROVE TypeOK
    OBVIOUS
  <2>1. \A z \in zones : IsZone(z)
    BY ZonesOfNet DEF SubnetsInv
  <2>2. \A n \in catalog : n.domain \in Family
    BY <2>1 DEF SubnetsInv, ZoneName, NameOf, IsZone
  <2> QED  BY <2>1, <2>2 DEF TypeOK, SubnetsInv, IsNet, IsZone
<1> QED  BY <1>1, SubnetsInvariant, PTL

(***************************************************************************)
(* Whatever subnets Docker hands out, the rounded prefix length is one     *)
(* that IpNet::subnets accepts: no subnet is left without a zone because   *)
(* parse_subnet flattens an error away.                                    *)
(***************************************************************************)
THEOREM BoundariesAlwaysFit == Spec => []BoundariesFit
<1>1. SubnetsInv => BoundariesFit
  <2> SUFFICES ASSUME SubnetsInv, NEW n \in subnets PROVE NextBoundary(n.family, n.prefix_len)
    BY DEF BoundariesFit
  <2>1. n.family \in Family /\ n.prefix_len \in 0 .. Width(n.family)
    BY HostSizeFacts DEF SubnetsInv, IsNet
  <2> QED  BY <2>1, BoundaryIsNext
<1> QED  BY <1>1, SubnetsInvariant, PTL

(***************************************************************************)
(* table.rs:86-89.  Every address of a subnet in use has one reverse zone, *)
(* and no other address has any: find_reverse_authority has one answer,    *)
(* whatever the order of the HashMap.  The other modules assume this of    *)
(* the zones of a network (AddressingAssumption).                          *)
(***************************************************************************)
THEOREM PartitionedHolds == Spec => []Partitioned
<1>1. SubnetsInv => Partitioned
  <2> SUFFICES ASSUME SubnetsInv, NEW f \in Family, NEW a \in Address(f)
               PROVE  Cardinality({z \in zones : z.family = f /\ InNet(z, a)})
                          = Cardinality({n \in subnets : n.family = f /\ InNet(n, a)})
    BY DEF Partitioned
  <2> DEFINE S == {n \in subnets : n.family = f /\ InNet(n, a)}
             Z == {z \in zones : z.family = f /\ InNet(z, a)}
  <2>1. a \in Nat
    <3>1. Width(f) \in Nat
      BY SubnetsAssumption DEF Width
    <3> QED  BY <3>1, PowerPositive DEF Address
  <2>2. \A z \in Z : \E n \in S : z \in ParseSubnet(n)
    BY <2>1, ZonesOfNet DEF SubnetsInv
  <2>3. CASE S = {}
    <3>1. Z = {}
      BY <2>2, <2>3
    <3> QED  BY <2>3, <3>1
  <2>4. CASE S # {}
    <3>1. PICK n \in S : TRUE
      BY <2>4
    <3>2. n \in subnets /\ IsNet(n) /\ n.family = f /\ InNet(n, a)
      BY <3>1 DEF SubnetsInv
    <3>3. S = {n}
      BY <2>1, <3>1, <3>2, CommonOverlaps DEF SubnetsInv
    <3>4. PICK z \in ParseSubnet(n) : InNet(z, a)
      BY <2>1, <3>2, ZonesCover DEF IsNet
    <3>5. z \in Z
      BY <3>2, <3>4, ZonesOfNet DEF SubnetsInv
    <3>6. \A y \in Z : y = z
      <4> TAKE y \in Z
      <4>1. y \in ParseSubnet(n)
        BY <2>2, <3>3
      <4> QED  BY <2>1, <3>2, <3>4, <3>5, <4>1, ZoneOfOne
    <3>7. Z = {z}
      BY <3>5, <3>6
    <3> HIDE DEF S, Z
    <3>8. Cardinality(S) = 1 /\ Cardinality(Z) = 1
      BY <3>3, <3>7, FS_Singleton
    <3> QED  BY <3>8 DEF S, Z
  <2> QED  BY <2>3, <2>4
<1> QED  BY <1>1, SubnetsInvariant, PTL

(***************************************************************************)
(* No subnet has more zones than it needs: with a prefix one label shorter *)
(* a zone would reach beyond the subnet, or be the root of the family.     *)
(***************************************************************************)
THEOREM CoarsestHolds == Spec => []Coarsest
<1>1. SubnetsInv => Coarsest
  <2> SUFFICES ASSUME SubnetsInv, NEW n \in subnets, NEW z \in zones, Overlap(n, z),
                      z.prefix_len > LabelBits(z.family)
               PROVE  n.prefix_len > z.prefix_len - LabelBits(z.family)
    BY DEF Coarsest
  <2>1. PICK m \in subnets : z \in ParseSubnet(m)
    BY DEF SubnetsInv
  <2> DEFINE f == m.family
  <2>2. IsNet(m) /\ IsNet(n)
    BY DEF SubnetsInv
  <2>3. IsZone(z) /\ z.family = f /\ z.prefix_len = Boundary(f, m.prefix_len)
        /\ \A a \in Nat : InNet(z, a) => InNet(m, a)
    BY <2>1, <2>2, ZonesOfNet
  <2>4. n.family = f
    BY <2>3 DEF Overlap
  <2>5. PICK a \in Nat : InNet(n, a) /\ InNet(z, a)
    BY <2>2, <2>3, <2>4, OverlapIsCommon DEF IsNet, IsZone
  <2>6. m = n
    BY <2>2, <2>3, <2>4, <2>5, CommonOverlaps DEF SubnetsInv
  <2>7. n.prefix_len \in Nat /\ LabelBits(f) \in Nat /\ z.prefix_len \in Nat
    BY <2>2, <2>3, <2>4, HostSizeFacts, LabelFacts DEF IsNet, IsZone
  <2>8. z.prefix_len - LabelBits(f) < AtLeastOne(n.prefix_len)
    BY <2>2, <2>3, <2>6, BoundaryAccepted DEF IsNet
  <2> QED  BY <2>3, <2>7, <2>8 DEF AtLeastOne
<1> QED  BY <1>1, SubnetsInvariant, PTL

(***************************************************************************)
(* A reverse query is answered by the zone that the PTR record of the      *)
(* address is in: zone_name and the name of the query are written by two   *)
(* libraries, from octets and nibbles, and both are the digits of the      *)
(* address.                                                                *)
(***************************************************************************)
THEOREM RoutedHolds == Spec => []Routed
<1>1. SubnetsInv => Routed
  <2> SUFFICES ASSUME SubnetsInv, NEW f \in Family, NEW a \in Address(f)
               PROVE  {n \in catalog : ZoneOf(ReverseName(f, a), n)} =
                          {ZoneName(z) : z \in {y \in zones : y.family = f /\ InNet(y, a)}}
    BY DEF Routed
  <2>1. \A z \in zones : IsZone(z)
    BY ZonesOfNet DEF SubnetsInv
  <2>2. \A z \in zones : ZoneOf(ReverseName(f, a), ZoneName(z)) <=> z.family = f /\ InNet(z, a)
    BY <2>1, ZoneAnswers
  <2> QED  BY <2>2 DEF SubnetsInv
<1> QED  BY <1>1, SubnetsInvariant, PTL
=============================================================================
