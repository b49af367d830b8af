----------------------------- MODULE TsimProofs -----------------------------
(***************************************************************************)
(* Proofs about Tsim.tla and Devices.tla, for any command lines, plugins,  *)
(* programs, sizes of devices and users.                                   *)
(*                                                                         *)
(* The argument: from devices_finalise on the devices are in the order of  *)
(* their bases and do not change, devices that overlap cover the same      *)
(* addresses, and so a binary search finds a device wherever there is one. *)
(* The search has no state, so that an address has one device for good,    *)
(* and a cell is written under its own address only.                       *)
(*                                                                         *)
(* The binary search and the list of plugins are recursive functions.      *)
(* That their equations have solutions, and what those are, is shown by    *)
(* induction over sets of natural numbers.                                 *)
(***************************************************************************)
EXTENDS Tsim, FiniteSetTheorems, SequenceTheorems, WellFoundedInduction, TLAPS

-----------------------------------------------------------------------------
(* Induction over the natural numbers, for a set of them.                  *)

LEMMA NatSetInduction ==
  ASSUME NEW T, \A n \in Nat : (\A m \in 0 .. n - 1 : m \in T) => n \in T
  PROVE  Nat \subseteq T
<1> SUFFICES ASSUME Nat \ T # {} PROVE FALSE
  OBVIOUS
<1>1. IsWellFoundedOn(OpToRel(<, Nat), Nat)
  BY NatLessThanWellFounded
<1>2. PICK n \in Nat \ T : \A m \in Nat \ T : ~(<<m, n>> \in OpToRel(<, Nat))
  <2>1. Nat \ T \subseteq Nat
    OBVIOUS
  <2>2. QED
    BY <1>1, <2>1, WFMin, Zenon
<1>3. \A m \in 0 .. n - 1 : m \in T
  <2> SUFFICES ASSUME NEW m \in 0 .. n - 1, m \notin T PROVE FALSE
    OBVIOUS
  <2>1. m \in Nat /\ m < n
    OBVIOUS
  <2>2. <<m, n>> \in OpToRel(<, Nat)
    BY <2>1 DEF OpToRel
  <2>3. QED
    BY <1>2, <2>1, <2>2
<1>4. QED
  BY <1>2, <1>3

-----------------------------------------------------------------------------
(* Binary search.  Ranges(n) are the parts of n devices it may look at.    *)

Ranges(n) == (0 .. n) \X (0 .. n)
Mid(r)    == (r[1] + r[2]) \div 2

\* A part of more than no devices is divided into two smaller ones.
LEMMA Halves ==
  ASSUME NEW n \in Nat, NEW r \in Ranges(n), r[1] < r[2]
  PROVE  /\ Mid(r) \in Nat /\ Mid(r) + 1 \in 1 .. n
         /\ r[1] <= Mid(r) /\ Mid(r) < r[2]
         /\ <<r[1], Mid(r)>> \in Ranges(n) /\ <<Mid(r) + 1, r[2]>> \in Ranges(n)
<1>1. r[1] \in 0 .. n /\ r[2] \in 0 .. n
  BY DEF Ranges
<1> DEFINE a == r[1]
           b == r[2]
<1>2. a \in Nat /\ b \in Nat /\ a < b /\ b <= n
  BY <1>1
<1> HIDE DEF a, b
<1>3. (a + b) \div 2 \in Nat /\ a <= (a + b) \div 2 /\ (a + b) \div 2 < b
  BY <1>2
<1>4. Mid(r) \in Nat /\ a <= Mid(r) /\ Mid(r) < b
  BY <1>3 DEF Mid, a, b
<1>5. Mid(r) + 1 \in 1 .. n /\ Mid(r) \in 0 .. n /\ Mid(r) + 1 \in 0 .. n
  BY <1>2, <1>4
<1>6. <<a, Mid(r)>> \in Ranges(n) /\ <<Mid(r) + 1, b>> \in Ranges(n)
  BY <1>1, <1>5 DEF Ranges, a, b
<1>7. QED
  BY <1>4, <1>5, <1>6 DEF a, b

\* A comparison has three results.
LEMMA Compared ==
  ASSUME NEW addr, NEW d
  PROVE  find_device_by_addr(addr, d) \in {-1, 0, 1}
BY DEF find_device_by_addr

\* What a probe finds, by the result of its comparison.
Compare(ds, addr, r) == find_device_by_addr(addr, ds[Mid(r) + 1])

LEMMA ProbeNothing ==
  ASSUME NEW ds, NEW addr, NEW f, NEW r, r[1] >= r[2]
  PROVE  Probe(ds, addr, f, r) = 0
BY DEF Probe

LEMMA ProbeSomething ==
  ASSUME NEW ds, NEW addr, NEW f, NEW r, ~(r[1] >= r[2])
  PROVE  /\ Compare(ds, addr, r) = 0 => Probe(ds, addr, f, r) = Mid(r) + 1
         /\ Compare(ds, addr, r) = -1 => Probe(ds, addr, f, r) = f[<<r[1], Mid(r)>>]
         /\ Compare(ds, addr, r) = 1 => Probe(ds, addr, f, r) = f[<<Mid(r) + 1, r[2]>>]
<1> DEFINE c == Compare(ds, addr, r)
<1>1. Probe(ds, addr, f, r) =
        IF r[1] >= r[2] THEN 0
        ELSE CASE c = 0 -> Mid(r) + 1
               [] c < 0 -> f[<<r[1], Mid(r)>>]
               [] c > 0 -> f[<<Mid(r) + 1, r[2]>>]
  BY Zenon DEF Probe, Mid, Compare
<1> HIDE DEF c
<1>2. ASSUME c = 0 PROVE Probe(ds, addr, f, r) = Mid(r) + 1
  BY <1>1, <1>2
<1>3. ASSUME c = -1 PROVE Probe(ds, addr, f, r) = f[<<r[1], Mid(r)>>]
  <2>1. ~(c = 0) /\ c < 0 /\ ~(c > 0)
    BY <1>3
  <2>2. QED
    BY <1>1, <2>1
<1>4. ASSUME c = 1 PROVE Probe(ds, addr, f, r) = f[<<Mid(r) + 1, r[2]>>]
  <2>1. ~(c = 0) /\ ~(c < 0) /\ c > 0
    BY <1>4
  <2>2. QED
    BY <1>1, <2>1
<1>5. QED
  BY <1>2, <1>3, <1>4 DEF c

\* A probe uses what was found in smaller parts only.
LEMMA ProbeLocal ==
  ASSUME NEW ds, NEW addr, NEW n \in Nat, NEW f, NEW g, NEW r \in Ranges(n),
         \A q \in Ranges(n) : q[2] - q[1] < r[2] - r[1] => f[q] = g[q]
  PROVE  Probe(ds, addr, f, r) = Probe(ds, addr, g, r)
<1>1. r[1] \in Nat /\ r[2] \in Nat
  BY DEF Ranges
<1>2. CASE r[1] >= r[2]
  BY <1>2, ProbeNothing
<1>3. CASE ~(r[1] >= r[2])
  <2>1. r[1] < r[2]
    BY <1>1, <1>3
  <2> DEFINE low == <<r[1], Mid(r)>>
             high == <<Mid(r) + 1, r[2]>>
  <2>2. /\ Mid(r) \in Nat /\ r[1] <= Mid(r) /\ Mid(r) < r[2]
        /\ low \in Ranges(n) /\ high \in Ranges(n)
    BY <2>1, Halves
  <2>3. low[1] = r[1] /\ low[2] = Mid(r) /\ high[1] = Mid(r) + 1 /\ high[2] = r[2]
    OBVIOUS
  <2>4. Compare(ds, addr, r) \in {-1, 0, 1}
    BY Compared DEF Compare
  <2>5. /\ Compare(ds, addr, r) = 0 => Probe(ds, addr, f, r) = Mid(r) + 1
        /\ Compare(ds, addr, r) = -1 => Probe(ds, addr, f, r) = f[low]
        /\ Compare(ds, addr, r) = 1 => Probe(ds, addr, f, r) = f[high]
    BY <1>3, ProbeSomething
  <2>6. /\ Compare(ds, addr, r) = 0 => Probe(ds, addr, g, r) = Mid(r) + 1
        /\ Compare(ds, addr, r) = -1 => Probe(ds, addr, g, r) = g[low]
        /\ Compare(ds, addr, r) = 1 => Probe(ds, addr, g, r) = g[high]
    BY <1>3, ProbeSomething
  <2> HIDE DEF low, high
  <2>7. low[2] - low[1] < r[2] - r[1] /\ high[2] - high[1] < r[2] - r[1]
    BY <1>1, <2>2, <2>3
  <2>8. f[low] = g[low] /\ f[high] = g[high]
    BY <2>2, <2>7
  <2>9. QED
    BY <2>4, <2>5, <2>6, <2>8
<1>4. QED
  BY <1>2, <1>3

\* The equation of a search has a solution on the parts of at most k devices.
Solves(ds, addr, f, k) ==
  f = [r \in {q \in Ranges(Len(ds)) : q[2] - q[1] <= k} |-> Probe(ds, addr, f, r)]

LEMMA SearchesExist ==
  ASSUME NEW ds, Len(ds) \in Nat, NEW addr
  PROVE  \A k \in Nat : \E f : Solves(ds, addr, f, k)
<1> DEFINE Small(k) == {q \in Ranges(Len(ds)) : q[2] - q[1] <= k}
           T == {k \in Nat : \E f : Solves(ds, addr, f, k)}
<1> SUFFICES Nat \subseteq T
  OBVIOUS
<1>1. ASSUME NEW n \in Nat, \A m \in 0 .. n - 1 : m \in T PROVE n \in T
  <2>1. CASE n = 0
    <3> DEFINE g == [r \in Small(0) |-> 0]
    <3>1. ASSUME NEW r \in Small(0) PROVE Probe(ds, addr, g, r) = 0
      <4>1. r[1] \in Nat /\ r[2] \in Nat /\ r[2] - r[1] <= 0
        BY DEF Ranges
      <4>2. r[1] >= r[2]
        BY <4>1
      <4>3. QED
        BY <4>2, ProbeNothing
    <3>2. g = [r \in Small(0) |-> Probe(ds, addr, g, r)]
      BY <3>1
    <3>3. Solves(ds, addr, g, 0)
      BY <3>2 DEF Solves
    <3>4. QED
      BY <2>1, <3>3
  <2>2. CASE n # 0
    <3>1. n - 1 \in Nat /\ n - 1 \in T
      BY <1>1, <2>2
    <3>2. PICK f : Solves(ds, addr, f, n - 1)
      BY <3>1
    <3> DEFINE g == [r \in Small(n) |-> Probe(ds, addr, f, r)]
    <3>3. ASSUME NEW r \in Small(n) PROVE g[r] = Probe(ds, addr, g, r)
      <4>1. r \in Ranges(Len(ds)) /\ r[2] - r[1] <= n /\ r[1] \in Int /\ r[2] \in Int
        BY DEF Ranges
      <4>2. ASSUME NEW q \in Ranges(Len(ds)), q[2] - q[1] < r[2] - r[1] PROVE f[q] = g[q]
        <5>1. q[1] \in Int /\ q[2] \in Int
          BY DEF Ranges
        <5>2. q[2] - q[1] <= n - 1 /\ q[2] - q[1] <= n
          BY <4>1, <4>2, <5>1, SMTT(30)
        <5>3. q \in Small(n - 1) /\ q \in Small(n)
          BY <5>2
        <5>4. f[q] = Probe(ds, addr, f, q)
          BY <3>2, <5>3, Zenon DEF Solves
        <5>5. QED
          BY <5>3, <5>4
      <4> HIDE DEF g
      <4>3. Probe(ds, addr, f, r) = Probe(ds, addr, g, r)
        BY <4>1, <4>2, ProbeLocal
      <4>4. g[r] = Probe(ds, addr, f, r)
        BY DEF g
      <4>5. QED
        BY <4>3, <4>4
    <3>4. g = [r \in Small(n) |-> Probe(ds, addr, g, r)]
      <4>1. g = [r \in Small(n) |-> g[r]]
        OBVIOUS
      <4> HIDE DEF g
      <4>2. QED
        BY <3>3, <4>1
    <3>5. Solves(ds, addr, g, n)
      BY <3>4, Zenon DEF Solves
    <3>6. QED
      BY <3>5
  <2>3. QED
    BY <2>1, <2>2
<1>2. QED
  <2> HIDE DEF T
  <2>1. QED
    BY <1>1, NatSetInduction

\* The search is the solution of its equation on all the parts.
LEMMA SearchEquation ==
  ASSUME NEW ds, Len(ds) \in Nat, NEW addr
  PROVE  \E f : /\ f = [r \in Ranges(Len(ds)) |-> Probe(ds, addr, f, r)]
                /\ bsearch(ds, addr) = f[<<0, Len(ds)>>]
<1>1. PICK g : Solves(ds, addr, g, Len(ds))
  BY SearchesExist
<1>2. {q \in Ranges(Len(ds)) : q[2] - q[1] <= Len(ds)} = Ranges(Len(ds))
  <2>1. ASSUME NEW q \in Ranges(Len(ds)) PROVE q[2] - q[1] <= Len(ds)
    <3>1. q[1] \in 0 .. Len(ds) /\ q[2] \in 0 .. Len(ds)
      BY DEF Ranges
    <3>2. QED
      BY <3>1
  <2>2. QED
    BY <2>1
<1>3. g = [r \in Ranges(Len(ds)) |-> Probe(ds, addr, g, r)]
  BY <1>1, <1>2 DEF Solves
<1>4. QED
  BY <1>3 DEF bsearch, Ranges

-----------------------------------------------------------------------------
(* The devices in order.                                                   *)

Dev == [kind : Kinds, cookie : Nat]

Covers(d, addr) == addr \in Span(d.kind)
Ordered(ds) == \A i, j \in DOMAIN ds : i < j => Base(ds[i].kind) <= Base(ds[j].kind)

LEMMA Extents ==
  ASSUME NEW k \in Kinds
  PROVE  /\ Base(k) \in Nat /\ Top(k) \in Nat /\ Base(k) <= Top(k) /\ Top(k) < Limit
         /\ 2 * Base(k) < Limit /\ Limit \in Nat
         /\ Span(k) \subseteq Address
BY BoundsAssumption DEF Address, Span

\* What a comparison says of the device.
LEMMA ComparedWith ==
  ASSUME NEW d \in Dev, NEW addr \in Address
  PROVE  /\ find_device_by_addr(addr, d) = 0 <=> Covers(d, addr)
         /\ find_device_by_addr(addr, d) = 1 => addr > Top(d.kind)
         /\ find_device_by_addr(addr, d) = -1 => addr < Base(d.kind)
<1>1. d.kind \in Kinds
  BY DEF Dev
<1>2. /\ Base(d.kind) \in Nat /\ Top(d.kind) \in Nat /\ Base(d.kind) <= Top(d.kind)
  BY <1>1, Extents
<1>3. addr \in Int
  BY Extents, BoundsAssumption DEF Address
<1>4. Covers(d, addr) <=> addr >= Base(d.kind) /\ addr <= Top(d.kind)
  BY <1>2, <1>3 DEF Covers, Span
<1>5. QED
  BY <1>2, <1>3, <1>4 DEF find_device_by_addr

\* A device with a base no lower than another's is behind it, or with it.
LEMMA Behind ==
  ASSUME NEW d \in Dev, NEW e \in Dev, Base(d.kind) <= Base(e.kind), NEW addr \in Address
  PROVE  /\ addr > Top(e.kind) => ~Covers(d, addr)
         /\ addr < Base(d.kind) => ~Covers(e, addr)
<1>1. d.kind \in Kinds /\ e.kind \in Kinds
  BY DEF Dev
<1>2. /\ Base(d.kind) \in Nat /\ Top(d.kind) \in Nat /\ Base(d.kind) <= Top(d.kind)
      /\ Base(e.kind) \in Nat /\ Top(e.kind) \in Nat /\ Base(e.kind) <= Top(e.kind)
  BY <1>1, Extents
<1>3. addr \in Int
  BY BoundsAssumption DEF Address
<1>4. Span(d.kind) = Span(e.kind) \/ Span(d.kind) \cap Span(e.kind) = {}
  BY <1>1, BoundsAssumption
<1>5. ASSUME addr > Top(e.kind), Covers(d, addr) PROVE FALSE
  <2>1. addr \in Span(d.kind) /\ addr \notin Span(e.kind)
    BY <1>2, <1>3, <1>5 DEF Covers, Span
  <2>2. Base(e.kind) \in Span(d.kind) /\ Base(e.kind) \in Span(e.kind)
    BY <1>2, <1>3, <1>5 DEF Covers, Span
  <2>3. QED
    BY <1>4, <2>1, <2>2
<1>6. ASSUME addr < Base(d.kind), Covers(e, addr) PROVE FALSE
  BY <1>2, <1>3, <1>6 DEF Covers, Span
<1>7. QED
  BY <1>5, <1>6

LEMMA OrderedFrom ==
  ASSUME NEW ds \in Seq(Dev), Ordered(ds), NEW i \in DOMAIN ds, NEW j \in DOMAIN ds,
         i = j \/ i < j
  PROVE  Base(ds[i].kind) <= Base(ds[j].kind)
<1>1. CASE i = j
  <2>1. ds[j] \in Dev
    OBVIOUS
  <2>2. ds[j].kind \in Kinds
    BY <2>1 DEF Dev
  <2>3. Base(ds[j].kind) \in Nat
    BY <2>2, Extents
  <2>4. QED
    BY <1>1, <2>3
<1>2. CASE i < j
  BY <1>2 DEF Ordered
<1>3. QED
  BY <1>1, <1>2

\* What a search finds in a part of the devices that are in order.
FindsIn(ds, addr, r, x) ==
  /\ x \in 0 .. Len(ds)
  /\ x # 0 => Covers(ds[x], addr)
  /\ x = 0 => \A i \in r[1] + 1 .. r[2] : ~Covers(ds[i], addr)

LEMMA SearchInPart ==
  ASSUME NEW ds \in Seq(Dev), Ordered(ds), NEW addr \in Address, NEW f,
         f = [r \in Ranges(Len(ds)) |-> Probe(ds, addr, f, r)]
  PROVE  \A r \in Ranges(Len(ds)) : FindsIn(ds, addr, r, f[r])
<1> DEFINE n == Len(ds)
           T == {k \in Nat : \A r \in Ranges(n) : r[2] - r[1] <= k => FindsIn(ds, addr, r, f[r])}
<1>0. n \in Nat /\ DOMAIN ds = 1 .. n /\ \A i \in 1 .. n : ds[i] \in Dev
  OBVIOUS
<1>1. ASSUME NEW k \in Nat, \A m \in 0 .. k - 1 : m \in T PROVE k \in T
  <2> SUFFICES ASSUME NEW r \in Ranges(n), r[2] - r[1] <= k PROVE FindsIn(ds, addr, r, f[r])
    OBVIOUS
  <2>1. r[1] \in 0 .. n /\ r[2] \in 0 .. n /\ r[1] \in Nat /\ r[2] \in Nat
    BY <1>0 DEF Ranges
  <2>2. f[r] = Probe(ds, addr, f, r)
    BY Zenon
  <2>3. CASE r[1] >= r[2]
    <3>1. f[r] = 0
      BY <2>2, <2>3, ProbeNothing
    <3>2. r[1] + 1 .. r[2] = {}
      BY <2>1, <2>3
    <3>3. QED
      BY <1>0, <3>1, <3>2 DEF FindsIn
  <2>4. CASE ~(r[1] >= r[2])
    <3>1. r[1] < r[2]
      BY <2>1, <2>4
    <3> DEFINE low == <<r[1], Mid(r)>>
               high == <<Mid(r) + 1, r[2]>>
               c == Compare(ds, addr, r)
    <3>2. /\ Mid(r) \in Nat /\ r[1] <= Mid(r) /\ Mid(r) < r[2] /\ Mid(r) + 1 \in 1 .. n
          /\ low \in Ranges(n) /\ high \in Ranges(n)
      BY <1>0, <3>1, Halves
    <3>3. low[1] = r[1] /\ low[2] = Mid(r) /\ high[1] = Mid(r) + 1 /\ high[2] = r[2]
      OBVIOUS
    <3>4. c \in {-1, 0, 1}
      BY Compared DEF Compare
    <3>5. /\ c = 0 => f[r] = Mid(r) + 1
          /\ c = -1 => f[r] = f[low]
          /\ c = 1 => f[r] = f[high]
      BY <2>2, <2>4, ProbeSomething
    <3>6. ds[Mid(r) + 1] \in Dev
      BY <1>0, <3>2
    <3>7. /\ c = 0 => Covers(ds[Mid(r) + 1], addr)
          /\ c = 1 => addr > Top(ds[Mid(r) + 1].kind)
          /\ c = -1 => addr < Base(ds[Mid(r) + 1].kind)
      BY <3>6, ComparedWith DEF Compare
    <3> HIDE DEF low, high, c
    <3>8. FindsIn(ds, addr, low, f[low]) /\ FindsIn(ds, addr, high, f[high])
      <4>1. k - 1 \in 0 .. k - 1 /\ low[2] - low[1] <= k - 1 /\ high[2] - high[1] <= k - 1
        BY <2>1, <3>1, <3>2, <3>3, SMTT(30)
      <4>2. k - 1 \in T
        BY <1>1, <4>1
      <4>3. QED
        BY <3>2, <4>1, <4>2
    <3>9. CASE c = 0
      <4>1. f[r] = Mid(r) + 1 /\ f[r] \in 0 .. n /\ f[r] # 0
        BY <1>0, <3>2, <3>5, <3>9
      <4>2. QED
        BY <3>7, <3>9, <4>1 DEF FindsIn
    <3>10. CASE c = -1
      <4>1. ASSUME NEW i \in Mid(r) + 1 .. r[2] PROVE ~Covers(ds[i], addr)
        <5>1. i \in 1 .. n /\ (i = Mid(r) + 1 \/ Mid(r) + 1 < i)
          BY <1>0, <2>1, <3>2
        <5>2. Base(ds[Mid(r) + 1].kind) <= Base(ds[i].kind)
          BY <1>0, <3>2, <5>1, OrderedFrom
        <5>3. QED
          BY <1>0, <3>6, <3>7, <3>10, <5>1, <5>2, Behind
      <4>2. ASSUME f[r] = 0, NEW i \in r[1] + 1 .. r[2] PROVE ~Covers(ds[i], addr)
        <5>1. i \in low[1] + 1 .. low[2] \/ i \in Mid(r) + 1 .. r[2]
          BY <2>1, <3>2, <3>3
        <5>2. f[low] = 0
          BY <3>5, <3>10, <4>2
        <5>3. QED
          BY <3>8, <4>1, <5>1, <5>2 DEF FindsIn
      <4>3. QED
        BY <3>5, <3>8, <3>10, <4>2 DEF FindsIn
    <3>11. CASE c = 1
      <4>1. ASSUME NEW i \in r[1] + 1 .. Mid(r) + 1 PROVE ~Covers(ds[i], addr)
        <5>1. i \in 1 .. n /\ (i = Mid(r) + 1 \/ i < Mid(r) + 1)
          BY <1>0, <2>1, <3>2, SMTT(30)
        <5>2. Base(ds[i].kind) <= Base(ds[Mid(r) + 1].kind)
          BY <1>0, <3>2, <5>1, OrderedFrom
        <5>3. QED
          BY <1>0, <3>6, <3>7, <3>11, <5>1, <5>2, Behind
      <4>2. ASSUME f[r] = 0, NEW i \in r[1] + 1 .. r[2] PROVE ~Covers(ds[i], addr)
        <5>1. i \in r[1] + 1 .. Mid(r) + 1 \/ i \in high[1] + 1 .. high[2]
          BY <2>1, <3>2, <3>3
        <5>2. f[high] = 0
          BY <3>5, <3>11, <4>2
        <5>3. QED
          BY <3>8, <4>1, <5>1, <5>2 DEF FindsIn
      <4>3. QED
        BY <3>5, <3>8, <3>11, <4>2 DEF FindsIn
    <3>12. QED
      BY <3>4, <3>9, <3>10, <3>11
  <2>5. QED
    BY <2>3, <2>4
<1>2. Nat \subseteq T
  <2> HIDE DEF T
  <2>1. QED
    BY <1>1, NatSetInduction
<1>3. ASSUME NEW r \in Ranges(n) PROVE FindsIn(ds, addr, r, f[r])
  <2>1. r[1] \in 0 .. n /\ r[2] \in 0 .. n
    BY DEF Ranges
  <2>2. r[2] - r[1] <= n
    BY <1>0, <2>1
  <2>3. n \in T
    BY <1>0, <1>2
  <2>4. QED
    BY <2>2, <2>3
<1>4. QED
  BY <1>3

\* bsearch finds a device that covers the address, or there is none: for any
\* number of devices in order.
LEMMA SearchFinds ==
  ASSUME NEW ds \in Seq(Dev), Ordered(ds), NEW addr \in Address
  PROVE  /\ bsearch(ds, addr) \in 0 .. Len(ds)
         /\ bsearch(ds, addr) # 0 => Covers(ds[bsearch(ds, addr)], addr)
         /\ bsearch(ds, addr) = 0 => \A i \in DOMAIN ds : ~Covers(ds[i], addr)
<1>1. Len(ds) \in Nat /\ DOMAIN ds = 1 .. Len(ds)
  OBVIOUS
<1>2. PICK f : /\ f = [r \in Ranges(Len(ds)) |-> Probe(ds, addr, f, r)]
               /\ bsearch(ds, addr) = f[<<0, Len(ds)>>]
  BY <1>1, SearchEquation
<1>3. <<0, Len(ds)>> \in Ranges(Len(ds))
  BY <1>1 DEF Ranges
<1>4. FindsIn(ds, addr, <<0, Len(ds)>>, bsearch(ds, addr))
  BY <1>2, <1>3, SearchInPart
<1>5. <<0, Len(ds)>>[1] + 1 .. <<0, Len(ds)>>[2] = DOMAIN ds
  BY <1>1
<1>6. QED
  BY <1>4, <1>5 DEF FindsIn

-----------------------------------------------------------------------------
(* Sorting.                                                                *)

\* The comparison of qsort is that of the bases, although it is made on
\* differences of words.
LEMMA ComparesBases ==
  ASSUME NEW d \in Dev, NEW e \in Dev, compare_devices_by_base(d, e) <= 0
  PROVE  Base(d.kind) <= Base(e.kind)
<1> DEFINE a == Base(d.kind)
           b == Base(e.kind)
<1>1. d.kind \in Kinds /\ e.kind \in Kinds
  BY DEF Dev
<1>2. a \in Nat /\ b \in Nat /\ 2 * a < Limit /\ 2 * b < Limit /\ Limit \in Nat
  BY <1>1, Extents
<1>3. compare_devices_by_base(d, e) =
        IF 2 * ((a - b) % Limit) >= Limit THEN ((a - b) % Limit) - Limit ELSE (a - b) % Limit
  BY DEF compare_devices_by_base
<1> HIDE DEF a, b
<1>4. ASSUME a > b PROVE FALSE
  <2>1. a - b \in Nat /\ a - b < Limit /\ 2 * (a - b) < Limit
    BY <1>2, <1>4
  <2>2. (a - b) % Limit = a - b
    BY <1>2, <2>1
  <2>3. compare_devices_by_base(d, e) = a - b
    BY <1>2, <1>3, <2>1, <2>2
  <2>4. QED
    BY <1>2, <1>4, <2>3
<1>5. QED
  BY <1>2, <1>4 DEF a, b

\* How qsort moved the devices ds to es.
Moves(p, ds, es) ==
  p \in Bijection(DOMAIN ds, DOMAIN ds) /\ es = [i \in DOMAIN ds |-> ds[p[i]]]

LEMMA SortedOrders ==
  ASSUME devices \in Seq(Dev), NEW es \in Sorted
  PROVE  es \in Seq(Dev) /\ Len(es) = Len(devices) /\ Ordered(es) /\ \E p : Moves(p, devices, es)
<1>1. PICK p \in Bijection(DOMAIN devices, DOMAIN devices) :
        es = [i \in DOMAIN devices |-> devices[p[i]]]
  BY DEF Sorted
<1>2. \A i, j \in DOMAIN es : i < j => compare_devices_by_base(es[i], es[j]) <= 0
  BY DEF Sorted
<1>3. p \in [DOMAIN devices -> DOMAIN devices]
  BY <1>1 DEF Bijection, Injection
<1>4. DOMAIN devices = 1 .. Len(devices) /\ Len(devices) \in Nat
  OBVIOUS
<1>5. \A i \in 1 .. Len(devices) : es[i] \in Dev
  BY <1>1, <1>3, <1>4
<1>6. es \in Seq(Dev) /\ Len(es) = Len(devices) /\ DOMAIN es = 1 .. Len(devices)
  <2>1. es \in [1 .. Len(devices) -> Dev]
    BY <1>1, <1>4, <1>5
  <2>2. QED
    BY <1>4, <2>1
<1>7. Ordered(es)
  BY <1>2, <1>5, <1>6, ComparesBases DEF Ordered
<1>8. Moves(p, devices, es)
  BY <1>1 DEF Moves
<1>9. QED
  BY <1>6, <1>7, <1>8

\* Every device is somewhere in the new order.
LEMMA MovesAll ==
  ASSUME NEW ds \in Seq(Dev), NEW es, NEW p, Moves(p, ds, es)
  PROVE  /\ \A i \in DOMAIN es : \E j \in DOMAIN ds : es[i] = ds[j]
         /\ \A j \in DOMAIN ds : \E i \in DOMAIN es : es[i] = ds[j]
<1>1. p \in [DOMAIN ds -> DOMAIN ds] /\ \A t \in DOMAIN ds : \E s \in DOMAIN ds : p[s] = t
  BY DEF Moves, Bijection, Injection, Surjection
<1>2. DOMAIN es = DOMAIN ds /\ \A i \in DOMAIN ds : es[i] = ds[p[i]]
  BY DEF Moves
<1>3. QED
  BY <1>1, <1>2

-----------------------------------------------------------------------------
(* The invariant.                                                          *)

Names       == {o.name : o \in {q \in Options : q.opt = "p"}}
PluginLists == UNION {[D -> Seq(Names)] : D \in {E \in SUBSET Nat : IsFiniteSet(E)}}
Conf        == [run_defaults : BOOLEAN, recipes : Seq(Recipes), plugins : PluginLists,
                load_addr : Address, start_addr : Address]

Places ==
  /\ stage \in {"args", "recipes", "load", "run", "close"} \cup Final
  /\ runner \in {"interp", "jit"} /\ at \in {"block", "fetch", "exec", "pump", "last"}
Amounts  == libs \in Nat /\ P \in Address /\ input \in Nat
Settings ==
  /\ conf \in Conf /\ loaded \in BOOLEAN /\ args \in Seq(Options)
  /\ image \in Seq([reladdr : Nat, word : Word])
Queue ==
  /\ events \in Seq({"quit", "other"}) /\ Len(events) <= MaxEvents
  /\ IsFiniteSet(DOMAIN cycles)

Registry ==
  /\ devices \in Seq(Dev) /\ \A i \in DOMAIN devices : devices[i].cookie \in 1 .. Len(devices)
  /\ devices_max \in Nat /\ devices_max > 0 /\ Len(devices) <= devices_max
  /\ Operating => Ordered(devices)

Lifetime ==
  /\ live \subseteq 1 .. Len(devices)
  /\ stage \in {"args", "recipes"} => live = {} /\ store = <<>> /\ last = <<>>
  /\ Operating => live = Cookies(Kinds)
  /\ stage = "done" => live = {} /\ store = <<>> /\ libs = 0

Contents ==
  /\ store \in [DOMAIN store -> Word] /\ DOMAIN store \subseteq live \X Address
  /\ Operating => \A i \in DOMAIN devices : DOMAIN Fresh(devices[i]) \subseteq DOMAIN store

\* The device of an address still has what was last written there.
Cell(ds, a) == <<ds[bsearch(ds, a)].cookie, a>>
Remains(ds, s, a, w) ==
  /\ bsearch(ds, a) # 0 /\ Cell(ds, a) \in DOMAIN s /\ s[Cell(ds, a)] = w
  /\ LET k == ds[bsearch(ds, a)].kind IN k # "serial"

History ==
  /\ last \in [DOMAIN last -> Word] /\ DOMAIN last \subseteq Address
  /\ Operating => \A a \in DOMAIN last : Remains(devices, store, a, last[a])

Inv == /\ Places /\ Amounts /\ Settings /\ Queue
       /\ Registry /\ Lifetime /\ Contents /\ History

-----------------------------------------------------------------------------
(* What the devices hold.                                                  *)

LEMMA KindsAre == Kinds = {"prealloc", "sparse", "serial", "sdlled", "sdlvga"}
BY DEF Kinds, Device

LEMMA FillsWords ==
  ASSUME NEW c, NEW A, NEW w
  PROVE  /\ Filled(c, A, w) \in [{c} \X A -> {w}]
         /\ DOMAIN Filled(c, A, w) = {c} \X A
         /\ \A x \in {c} \X A : Filled(c, A, w)[x] = w
BY DEF Filled

LEMMA VgaInSpan == VgaCells \subseteq Span("sdlvga")
<1>1. Base("sdlvga") = SDLVGA_BASE /\ Top("sdlvga") = SDLVGA_BASE + VgaLength - 1
  BY DEF Base, Top, Device, sdlvga_add_device
<1>2. "sdlvga" \in Kinds
  BY KindsAre
<1>3. SDLVGA_BASE \in Nat /\ SDLVGA_BASE + VgaLength - 1 \in Nat
  BY <1>1, <1>2, Extents
<1>4. Cells \in Int /\ 0 <= Cells /\ Cells <= VgaLength /\ VgaLength \in Int
  BY SizeAssumption
<1>5. QED
  BY <1>1, <1>3, <1>4 DEF VgaCells, Span

\* The device of an operation, when there is one.
LEMMA Found ==
  ASSUME Registry, Operating, NEW a \in Address
  PROVE  /\ Find(a) \in 0 .. Len(devices)
         /\ Find(a) # 0 => /\ Find(a) \in DOMAIN devices /\ Owner(a) \in Dev
                           /\ a \in Span(Owner(a).kind)
                           /\ Owner(a).kind \in Kinds
         /\ Find(a) = 0 => \A i \in DOMAIN devices : a \notin Span(devices[i].kind)
<1>1. devices \in Seq(Dev) /\ Ordered(devices)
  BY DEF Registry
<1>2. /\ Find(a) \in 0 .. Len(devices)
      /\ Find(a) # 0 => Covers(devices[Find(a)], a)
      /\ Find(a) = 0 => \A i \in DOMAIN devices : ~Covers(devices[i], a)
  BY <1>1, SearchFinds DEF Find
<1>3. Len(devices) \in Nat /\ DOMAIN devices = 1 .. Len(devices)
  BY <1>1
<1>4. ASSUME Find(a) # 0 PROVE Find(a) \in DOMAIN devices /\ Owner(a) \in Dev
  <2>1. Find(a) \in DOMAIN devices
    BY <1>2, <1>3, <1>4
  <2>2. QED
    BY <1>1, <2>1 DEF Owner
<1>5. QED
  BY <1>2, <1>4 DEF Covers, Owner, Dev

LEMMA OwnerLives ==
  ASSUME Registry, Operating, Lifetime, NEW a \in Address, Find(a) # 0
  PROVE  Owner(a).cookie \in live
<1>1. Find(a) \in DOMAIN devices /\ devices[Find(a)].kind \in Kinds
  BY Found DEF Owner
<1>2. devices[Find(a)].cookie \in Cookies(Kinds)
  BY <1>1 DEF Cookies
<1>3. QED
  BY <1>2 DEF Lifetime, Owner

\* What a device holds from the start.
LEMMA FreshIs ==
  ASSUME NEW d
  PROVE  /\ d.kind = "prealloc" => Fresh(d) = Filled(d.cookie, Span("prealloc"), RamFill)
         /\ d.kind = "sdlled"   => Fresh(d) = Filled(d.cookie, Span("sdlled"), 0)
         /\ d.kind = "sdlvga"   => Fresh(d) = Filled(d.cookie, VgaCells, 0)
         /\ d.kind \in {"sparse", "serial"} => Fresh(d) = <<>>
BY DEF Fresh, ram_init, sdlled_init, sdlvga_init, sparseram_init

LEMMA FreshWords ==
  ASSUME NEW d \in Dev
  PROVE  Fresh(d) \in [DOMAIN Fresh(d) -> Word] /\ DOMAIN Fresh(d) \subseteq {d.cookie} \X Address
<1>1. /\ d.kind = "prealloc" => Fresh(d) = Filled(d.cookie, Span("prealloc"), RamFill)
      /\ d.kind = "sdlled"   => Fresh(d) = Filled(d.cookie, Span("sdlled"), 0)
      /\ d.kind = "sdlvga"   => Fresh(d) = Filled(d.cookie, VgaCells, 0)
      /\ d.kind \in {"sparse", "serial"} => Fresh(d) = <<>>
  BY FreshIs
<1>2. RamFill \in Word /\ 0 \in Word
  BY SizeAssumption
<1>3. ASSUME NEW A, A \subseteq Address, NEW w \in Word, Fresh(d) = Filled(d.cookie, A, w)
      PROVE  Fresh(d) \in [DOMAIN Fresh(d) -> Word] /\ DOMAIN Fresh(d) \subseteq {d.cookie} \X Address
  BY <1>3 DEF Filled
<1>4. /\ Span("prealloc") \subseteq Address /\ Span("sdlled") \subseteq Address
      /\ Span("sdlvga") \subseteq Address /\ VgaCells \subseteq Address
  BY KindsAre, Extents, VgaInSpan
<1>5. d.kind \in {"prealloc", "sparse", "serial", "sdlled", "sdlvga"}
  BY KindsAre DEF Dev
<1>6. CASE d.kind \in {"sparse", "serial"}
  <2>1. Fresh(d) = <<>> /\ DOMAIN <<>> = {}
    BY <1>1, <1>6
  <2>2. <<>> \in [DOMAIN <<>> -> Word]
    OBVIOUS
  <2>3. QED
    BY <2>1, <2>2
<1>7. CASE d.kind = "prealloc"
  BY <1>1, <1>2, <1>3, <1>4, <1>7
<1>8. CASE d.kind = "sdlled"
  BY <1>1, <1>2, <1>3, <1>4, <1>8
<1>9. CASE d.kind = "sdlvga"
  BY <1>1, <1>2, <1>3, <1>4, <1>9
<1>10. QED
  BY <1>5, <1>6, <1>7, <1>8, <1>9

\* The store s is the store t with cells of live devices added.
Grown(t, s) ==
  /\ s \in [DOMAIN s -> Word] /\ DOMAIN t \subseteq DOMAIN s /\ DOMAIN s \subseteq live \X Address

LEMMA Paged ==
  ASSUME Contents, NEW c \in live, NEW a \in Address
  PROVE  /\ Grown(store, sparseram_page(c, a)) /\ <<c, a>> \in DOMAIN sparseram_page(c, a)
         /\ \A x \in DOMAIN store : sparseram_page(c, a)[x] = store[x]
<1> DEFINE F == Filled(c, Page(a), SparseFill)
           s == sparseram_page(c, a)
<1>1. SparseFill \in Word /\ a \in Page(a) /\ Page(a) \subseteq Address
  BY SizeAssumption DEF Page
<1>2. DOMAIN F = {c} \X Page(a) /\ \A x \in {c} \X Page(a) : F[x] = SparseFill
  BY FillsWords
<1> HIDE DEF F
<1>3. s = [x \in DOMAIN store \cup DOMAIN F |-> IF x \in DOMAIN store THEN store[x] ELSE F[x]]
  BY DEF sparseram_page, Extend, F
<1>4. store \in [DOMAIN store -> Word] /\ DOMAIN store \subseteq live \X Address
  BY DEF Contents
<1>5. DOMAIN s = DOMAIN store \cup DOMAIN F
  BY <1>3
<1>6. \A x \in DOMAIN s : s[x] \in Word
  BY <1>1, <1>2, <1>3, <1>4
<1>7. s \in [DOMAIN s -> Word]
  BY <1>3, <1>5, <1>6
<1>8. \A x \in DOMAIN store : s[x] = store[x]
  BY <1>3
<1>9. DOMAIN F \subseteq live \X Address /\ <<c, a>> \in DOMAIN F
  BY <1>1, <1>2
<1>10. QED
  BY <1>4, <1>5, <1>7, <1>8, <1>9 DEF Grown

\* What a read leaves.
LEMMA ReadKeeps ==
  ASSUME Inv, Operating, NEW a \in Address, Find(a) # 0
  PROVE  /\ Grown(store, AfterRead(a))
         /\ \A x \in DOMAIN store : AfterRead(a)[x] = store[x]
<1>1. Owner(a).cookie \in live
  BY OwnerLives DEF Inv
<1>2. CASE Owner(a).kind = "sparse"
  <2>1. AfterRead(a) = sparseram_page(Owner(a).cookie, a)
    BY <1>2 DEF AfterRead
  <2>2. QED
    BY <1>1, <2>1, Paged DEF Inv
<1>3. CASE Owner(a).kind # "sparse"
  <2>1. AfterRead(a) = store
    BY <1>3 DEF AfterRead
  <2>2. QED
    BY <2>1 DEF Inv, Contents, Grown
<1>4. QED
  BY <1>2, <1>3

LEMMA Written ==
  ASSUME NEW s, Grown(store, s), \A x \in DOMAIN store : s[x] = store[x],
         NEW o \in DOMAIN s, NEW w \in Word
  PROVE  /\ Grown(store, [s EXCEPT ![o] = w])
         /\ o \in DOMAIN [s EXCEPT ![o] = w] /\ [s EXCEPT ![o] = w][o] = w
         /\ \A x \in DOMAIN store : x # o => [s EXCEPT ![o] = w][x] = store[x]
BY DEF Grown

\* What a write leaves: a device that keeps it has it, and nothing else changed.
LEMMA WriteKeeps ==
  ASSUME Inv, Operating, NEW a \in Address, Find(a) # 0, NEW w \in Word
  PROVE  LET o == <<Owner(a).cookie, a>>
             s == AfterWrite(a, w)
         IN  /\ Grown(store, s)
             /\ \A x \in DOMAIN store : x # o => s[x] = store[x]
             /\ Keeps(a) => o \in DOMAIN s /\ s[o] = w
             /\ ~Keeps(a) => s = store
<1> DEFINE d == Owner(a)
           o == <<d.cookie, a>>
<1>1. d.cookie \in live
  BY OwnerLives DEF Inv
<1>2. d \in Dev /\ d.kind \in Kinds /\ a \in Span(d.kind) /\ d = devices[Find(a)] /\ Find(a) \in DOMAIN devices
  BY Found DEF Inv, Owner
<1>3. DOMAIN Fresh(d) \subseteq DOMAIN store
  BY <1>2 DEF Inv, Contents
<1>4. Grown(store, store)
  BY DEF Inv, Contents, Grown
<1>5. Keeps(a) <=> d.kind # "serial" /\ (d.kind = "sdlvga" => a \in VgaCells)
  BY DEF Keeps
<1>6. /\ d.kind \in {"prealloc", "sdlled"} => AfterWrite(a, w) = [store EXCEPT ![o] = w]
      /\ d.kind = "sparse" => AfterWrite(a, w) = [sparseram_page(d.cookie, a) EXCEPT ![o] = w]
      /\ d.kind = "sdlvga" /\ a \in VgaCells => AfterWrite(a, w) = [store EXCEPT ![o] = w]
      /\ d.kind = "sdlvga" /\ a \notin VgaCells => AfterWrite(a, w) = store
      /\ d.kind = "serial" => AfterWrite(a, w) = store
  BY DEF AfterWrite, ram_write, sparseram_write, sdlvga_write
<1> HIDE DEF d
<1>7. CASE d.kind = "serial" \/ (d.kind = "sdlvga" /\ a \notin VgaCells)
  BY <1>4, <1>5, <1>6, <1>7 DEF d
<1>8. CASE d.kind \in {"prealloc", "sdlled"} \/ (d.kind = "sdlvga" /\ a \in VgaCells)
  <2>1. o \in DOMAIN Fresh(d)
    <3>1. ASSUME NEW A, NEW v, Fresh(d) = Filled(d.cookie, A, v), a \in A
          PROVE  o \in DOMAIN Fresh(d)
      <4>1. DOMAIN Fresh(d) = {d.cookie} \X A
        BY <3>1, FillsWords
      <4>2. QED
        BY <3>1, <4>1
    <3>2. CASE d.kind = "prealloc"
      BY <1>2, <3>1, <3>2, FreshIs
    <3>3. CASE d.kind = "sdlled"
      BY <1>2, <3>1, <3>3, FreshIs
    <3>4. CASE d.kind = "sdlvga" /\ a \in VgaCells
      BY <3>1, <3>4, FreshIs
    <3>5. QED
      BY <1>8, <3>2, <3>3, <3>4
  <2>2. o \in DOMAIN store /\ AfterWrite(a, w) = [store EXCEPT ![o] = w]
    BY <1>3, <1>6, <1>8, <2>1
  <2>3. Keeps(a)
    BY <1>5, <1>8
  <2> DEFINE t == [store EXCEPT ![o] = w]
  <2>4. Grown(store, t) /\ o \in DOMAIN t /\ t[o] = w /\ \A x \in DOMAIN store : x # o => t[x] = store[x]
    BY <1>4, <2>2, Written
  <2>5. AfterWrite(a, w) = t
    BY <2>2
  <2> HIDE DEF t
  <2>6. QED
    BY <2>3, <2>4, <2>5 DEF d
<1>9. CASE d.kind = "sparse"
  <2> DEFINE s == sparseram_page(d.cookie, a)
  <2>1. Grown(store, s) /\ o \in DOMAIN s /\ \A x \in DOMAIN store : s[x] = store[x]
    BY <1>1, Paged DEF Inv
  <2>2. AfterWrite(a, w) = [s EXCEPT ![o] = w]
    BY <1>6, <1>9
  <2>3. Keeps(a)
    BY <1>5, <1>9
  <2> HIDE DEF s
  <2> DEFINE t == [s EXCEPT ![o] = w]
  <2>4. Grown(store, t) /\ o \in DOMAIN t /\ t[o] = w /\ \A x \in DOMAIN store : x # o => t[x] = store[x]
    BY <2>1, Written
  <2>5. AfterWrite(a, w) = t
    BY <2>2
  <2> HIDE DEF t
  <2>6. QED
    BY <2>3, <2>4, <2>5 DEF d
<1>10. QED
  BY <1>2, <1>7, <1>8, <1>9, KindsAre

-----------------------------------------------------------------------------
(* An access, by the loader or by the program.                             *)

Access == NoAccess \/ \E a \in Address : Load(a) \/ \E w \in Word : Store(a, w)

\* A word remains where it was when its cell did not change.
LEMMA RemainsThere ==
  ASSUME NEW ds, NEW s, NEW t, NEW a, NEW w, Remains(ds, s, a, w),
         DOMAIN s \subseteq DOMAIN t, t[Cell(ds, a)] = s[Cell(ds, a)]
  PROVE  Remains(ds, t, a, w)
BY DEF Remains

LEMMA AccessKeeps ==
  ASSUME Inv, Operating, Access
  PROVE  /\ Grown(store, store') /\ input' \in Nat
         /\ last' \in [DOMAIN last' -> Word] /\ DOMAIN last' \subseteq Address
         /\ \A a \in DOMAIN last' : Remains(devices, store', a, last'[a])
<1>1. /\ last \in [DOMAIN last -> Word] /\ DOMAIN last \subseteq Address
      /\ \A a \in DOMAIN last : Remains(devices, store, a, last[a])
  BY DEF Inv, History
<1>2. input \in Nat
  BY DEF Inv, Amounts
<1>3. Grown(store, store)
  BY DEF Inv, Contents, Grown
<1>4. CASE NoAccess
  BY <1>1, <1>2, <1>3, <1>4 DEF NoAccess
<1>5. ASSUME NEW a \in Address, Load(a)
      PROVE  /\ Grown(store, store') /\ input' \in Nat /\ last' = last
             /\ \A b \in DOMAIN last : Remains(devices, store', b, last[b])
  <2>1. last' = last
    BY <1>5 DEF Load
  <2>2. CASE ReadFails(a)
    BY <1>1, <1>2, <1>3, <1>5, <2>1, <2>2 DEF Load
  <2>3. CASE ~ReadFails(a)
    <3>1. Find(a) # 0 /\ ~(Owner(a).kind = "serial" /\ input = 0)
      BY <2>3 DEF ReadFails
    <3>2. store' = AfterRead(a) /\ input' = serial_read(Owner(a).kind)
      BY <1>5, <2>3 DEF Load, InputAfterRead
    <3>3. input' \in Nat
      BY <1>2, <3>1, <3>2 DEF serial_read
    <3>4. Grown(store, store') /\ \A x \in DOMAIN store : store'[x] = store[x]
      BY <3>1, <3>2, ReadKeeps
    <3>5. ASSUME NEW b \in DOMAIN last PROVE Remains(devices, store', b, last[b])
      <4>1. Remains(devices, store, b, last[b])
        BY <1>1
      <4>2. store'[Cell(devices, b)] = store[Cell(devices, b)] /\ DOMAIN store \subseteq DOMAIN store'
        BY <3>4, <4>1 DEF Remains, Grown
      <4>3. QED
        BY <4>1, <4>2, RemainsThere
    <3>6. QED
      BY <2>1, <3>3, <3>4, <3>5
  <2>4. QED
    BY <2>2, <2>3
<1>6. ASSUME NEW a \in Address, NEW w \in Word, Store(a, w)
      PROVE  /\ Grown(store, store') /\ input' \in Nat
             /\ last' \in [DOMAIN last' -> Word] /\ DOMAIN last' \subseteq Address
             /\ \A b \in DOMAIN last' : Remains(devices, store', b, last'[b])
  <2>1. input' = input
    BY <1>6 DEF Store
  <2>2. CASE WriteFails(a)
    <3>1. store' = store /\ last' = last
      BY <1>6, <2>2 DEF Store
    <3>2. QED
      BY <1>1, <1>2, <1>3, <2>1, <3>1
  <2>3. CASE ~WriteFails(a)
    <3> DEFINE o == <<Owner(a).cookie, a>>
    <3>1. Find(a) # 0
      BY <2>3 DEF WriteFails
    <3>2. store' = AfterWrite(a, w) /\ last' = IF Keeps(a) THEN Extend([b \in {a} |-> w], last) ELSE last
      BY <1>6, <2>3 DEF Store
    <3>3. /\ Grown(store, store')
          /\ \A x \in DOMAIN store : x # o => store'[x] = store[x]
          /\ Keeps(a) => o \in DOMAIN store' /\ store'[o] = w
          /\ ~Keeps(a) => store' = store
      BY <3>1, <3>2, WriteKeeps
    <3>4. o = Cell(devices, a)
      BY DEF Cell, Owner, Find
    <3> HIDE DEF o
    <3>5. CASE ~Keeps(a)
      <4>1. last' = last /\ store' = store
        BY <3>2, <3>3, <3>5
      <4>2. QED
        BY <1>1, <1>2, <1>3, <2>1, <4>1
    <3>6. CASE Keeps(a)
      <4>1. last' = [b \in {a} \cup DOMAIN last |-> IF b \in {a} THEN w ELSE last[b]]
        <5>1. DOMAIN [b \in {a} |-> w] = {a} /\ \A b \in {a} : [c \in {a} |-> w][b] = w
          OBVIOUS
        <5>2. QED
          BY <3>2, <3>6, <5>1 DEF Extend
      <4>2. DOMAIN last' = {a} \cup DOMAIN last /\ \A b \in DOMAIN last' : last'[b] \in Word
        BY <1>1, <4>1
      <4>3. last' \in [DOMAIN last' -> Word]
        BY <4>1, <4>2
      <4>4. Remains(devices, store', a, w)
        <5>1. Owner(a).kind # "serial"
          BY <3>6 DEF Keeps
        <5>2. QED
          BY <3>1, <3>3, <3>4, <3>6, <5>1 DEF Remains, Owner, Find
      <4>5. ASSUME NEW b \in DOMAIN last, b # a PROVE Remains(devices, store', b, last[b])
        <5>1. Remains(devices, store, b, last[b])
          BY <1>1
        <5>2. Cell(devices, b) # o
          BY <3>4, <4>5 DEF Cell
        <5>3. Cell(devices, b) \in DOMAIN store
          BY <5>1 DEF Remains
        <5>4. store'[Cell(devices, b)] = store[Cell(devices, b)] /\ DOMAIN store \subseteq DOMAIN store'
          BY <3>3, <5>2, <5>3 DEF Grown
        <5>5. QED
          BY <5>1, <5>4, RemainsThere
      <4>6. ASSUME NEW b \in DOMAIN last' PROVE Remains(devices, store', b, last'[b])
        <5>1. CASE b = a
          BY <4>1, <4>4, <5>1
        <5>2. CASE b # a
          <6>1. b \in DOMAIN last /\ last'[b] = last[b]
            BY <4>1, <4>2, <5>2
          <6>2. QED
            BY <4>5, <5>2, <6>1
        <5>3. QED
          BY <5>1, <5>2
      <4>7. QED
        BY <1>1, <1>2, <2>1, <3>3, <4>2, <4>3, <4>6
    <3>7. QED
      BY <3>5, <3>6
  <2>4. QED
    BY <2>2, <2>3
<1>7. QED
  BY <1>1, <1>4, <1>5, <1>6 DEF Access

\* What an access leaves of the invariant, when the devices stay.
LEMMA AccessInv ==
  ASSUME Inv, Operating, Access, UNCHANGED <<devices, live>>
  PROVE  Contents' /\ History' /\ input' \in Nat
<1>1. /\ Grown(store, store') /\ input' \in Nat
      /\ last' \in [DOMAIN last' -> Word] /\ DOMAIN last' \subseteq Address
      /\ \A a \in DOMAIN last' : Remains(devices, store', a, last'[a])
  BY AccessKeeps
<1>2. \A i \in DOMAIN devices : DOMAIN Fresh(devices[i]) \subseteq DOMAIN store'
  BY <1>1 DEF Inv, Contents, Grown
<1>3. devices' = devices /\ live' = live
  OBVIOUS
<1>4. Contents'
  BY <1>1, <1>2, <1>3 DEF Contents, Grown
<1>5. History'
  BY <1>1, <1>3 DEF History
<1>6. QED
  BY <1>1, <1>4, <1>5

-----------------------------------------------------------------------------
(* The steps.                                                              *)

LEMMA ConstantsOK ==
  /\ RAM_BASE \in Address /\ Characters \in Nat /\ MaxEvents \in Nat
  /\ Accesses \subseteq Address /\ Targets \subseteq Address /\ Values \subseteq Word
  /\ Libraries \subseteq Kinds /\ Slots \in Nat /\ Slots > 0
  /\ Limit \in Nat /\ Limit > 0
<1>1. Sdl \subseteq Kinds
  BY DEF Sdl
<1>2. Limit \in Nat /\ Limit > 0
  BY MachineAssumption, BoundsAssumption DEF Address
<1>3. QED
  BY <1>1, <1>2, MachineAssumption, SizeAssumption

LEMMA Wraps == \A n \in Int : n % Limit \in Address
BY ConstantsOK DEF Address

LEMMA NoWords == <<>> \in [DOMAIN <<>> -> Word] /\ DOMAIN <<>> = {}
OBVIOUS

LEMMA InitInv == Init => Inv
<1> SUFFICES ASSUME Init PROVE Inv
  OBVIOUS
<1>1. Places /\ Amounts
  <2>1. 0 \in Address
    BY ConstantsOK DEF Address
  <2>2. QED
    BY <2>1, ConstantsOK DEF Init, Places, Amounts
<1>2. Settings
  <2>1. <<>> \in PluginLists
    <3>1. <<>> \in [{} -> Seq(Names)] /\ {} \in {E \in SUBSET Nat : IsFiniteSet(E)}
      BY FS_EmptySet
    <3>2. QED
      BY <3>1 DEF PluginLists
  <2>2. conf \in Conf
    BY <2>1, ConstantsOK DEF Init, Conf
  <2>3. PICK cl \in CommandLines : args = cl.options /\ image = cl.image
    BY DEF Init
  <2>4. QED
    BY <2>2, <2>3, OptionsAssumption DEF Init, Settings
<1>3. Queue
  <2>1. IsFiniteSet(DOMAIN cycles)
    BY FS_EmptySet, NoWords DEF Init, devices_setup
  <2>2. QED
    BY <2>1, ConstantsOK DEF Init, Queue
<1>4. Registry
  BY ConstantsOK DEF Init, devices_setup, Registry, Operating
<1>5. Lifetime /\ Contents /\ History
  BY NoWords DEF Init, devices_setup, Lifetime, Contents, History, Operating
<1>6. QED
  BY <1>1, <1>2, <1>3, <1>4, <1>5 DEF Inv

\* Steps that leave the devices alone.
LEMMA Quiet ==
  ASSUME Inv, UNCHANGED deviceVars, UNCHANGED last,
         Operating' => Operating,
         stage' \in {"args", "recipes"} => stage \in {"args", "recipes"},
         stage' = "done" => stage = "done" /\ UNCHANGED libs
  PROVE  Queue' /\ Registry' /\ Lifetime' /\ Contents' /\ History' /\ input' = input
<1>1. /\ devices' = devices /\ devices_max' = devices_max /\ live' = live /\ store' = store
      /\ input' = input /\ events' = events /\ cycles' = cycles /\ last' = last
  BY DEF deviceVars
<1>2. Queue'
  BY <1>1 DEF Inv, Queue
<1>3. Registry'
  BY <1>1 DEF Inv, Registry
<1>4. Lifetime'
  BY <1>1 DEF Inv, Lifetime, Cookies
<1>5. Contents'
  BY <1>1 DEF Inv, Contents
<1>6. History'
  BY <1>1 DEF Inv, History
<1>7. QED
  BY <1>1, <1>2, <1>3, <1>4, <1>5, <1>6

\* An option changes the configuration within its type.
LEMMA PluginSet ==
  ASSUME NEW f \in PluginLists, NEW o \in Options, o.opt = "p"
  PROVE  SetPlugin(f, o) \in PluginLists
<1>1. PICK D \in SUBSET Nat : IsFiniteSet(D) /\ f \in [D -> Seq(Names)]
  BY DEF PluginLists
<1>2. o.inst \in Nat /\ o.name \in Names
  BY OptionsAssumption DEF Names
<1> DEFINE old == IF o.inst \in DOMAIN f THEN f[o.inst] ELSE <<>>
           E == D \cup {o.inst}
<1>3. old \in Seq(Names)
  <2>1. CASE o.inst \in DOMAIN f
    <3>1. old = f[o.inst] /\ o.inst \in D
      BY <1>1, <2>1
    <3>2. QED
      BY <1>1, <3>1, Zenon
  <2>2. CASE o.inst \notin DOMAIN f
    <3>1. old = <<>>
      BY <2>2
    <3> HIDE DEF old
    <3>2. QED
      BY <3>1
  <2>3. QED
    BY <2>1, <2>2
<1>4. Append(old, o.name) \in Seq(Names) /\ <<o.name>> \in Seq(Names)
  <2> HIDE DEF old
  <2>1. QED
    BY <1>2, <1>3
<1>5. DOMAIN f = D
  BY <1>1
<1>6. SetPlugin(f, o) =
        [i \in E |-> IF i # o.inst THEN f[i] ELSE IF o.plus THEN Append(old, o.name) ELSE <<o.name>>]
  BY <1>5 DEF SetPlugin
<1> HIDE DEF old
<1>7. SetPlugin(f, o) \in [E -> Seq(Names)]
  <2> DEFINE new == IF o.plus THEN Append(old, o.name) ELSE <<o.name>>
  <2>1. new \in Seq(Names)
    BY <1>4, Zenon
  <2>2. SetPlugin(f, o) = [i \in E |-> IF i # o.inst THEN f[i] ELSE new]
    BY <1>6
  <2>3. \A i \in E : i # o.inst => f[i] \in Seq(Names)
    BY <1>1
  <2> HIDE DEF new, E
  <2>4. QED
    BY <2>1, <2>2, <2>3
<1>8. E \in SUBSET Nat /\ IsFiniteSet(E)
  BY <1>1, <1>2, FS_AddElement
<1> HIDE DEF E
<1>9. QED
  BY <1>7, <1>8 DEF PluginLists

LEMMA ConfSet ==
  ASSUME conf \in Conf, NEW o \in Options, ~Refused(o)
  PROVE  NewConf(o) \in Conf
<1>1. CASE o.opt = "n"
  <2>1. NewConf(o) = [conf EXCEPT !.run_defaults = FALSE]
    BY <1>1 DEF NewConf
  <2>2. QED
    BY <2>1 DEF Conf
<1>2. CASE o.opt = "r"
  <2>1. o.name \in Recipes
    BY <1>2 DEF Refused
  <2>2. NewConf(o) = [conf EXCEPT !.recipes = <<o.name>> \o @]
    BY <1>2 DEF NewConf
  <2>3. conf.recipes \in Seq(Recipes)
    BY DEF Conf
  <2>4. <<o.name>> \o conf.recipes \in Seq(Recipes)
    BY <2>1, <2>3
  <2>5. QED
    BY <2>2, <2>4 DEF Conf
<1>3. CASE o.opt = "p"
  <2>1. NewConf(o) = [conf EXCEPT !.plugins = SetPlugin(conf.plugins, o)]
    BY <1>3 DEF NewConf
  <2>2. SetPlugin(conf.plugins, o) \in PluginLists
    BY <1>3, PluginSet DEF Conf
  <2>3. QED
    BY <2>1, <2>2 DEF Conf
<1>4. CASE o.opt = "a"
  <2>1. NewConf(o) = [conf EXCEPT !.load_addr = o.addr] /\ o.addr \in Address
    BY <1>4, OptionsAssumption DEF NewConf
  <2>2. QED
    BY <2>1 DEF Conf
<1>5. CASE o.opt = "s"
  <2>1. NewConf(o) = [conf EXCEPT !.start_addr = o.addr] /\ o.addr \in Address
    BY <1>5, OptionsAssumption DEF NewConf
  <2>2. QED
    BY <2>1 DEF Conf
<1>6. CASE o.opt \notin {"n", "r", "p", "a", "s"}
  <2>1. NewConf(o) = conf
    BY <1>6 DEF NewConf
  <2>2. QED
    BY <2>1
<1>7. QED
  BY <1>1, <1>2, <1>3, <1>4, <1>5, <1>6

LEMMA OptionStep == Inv /\ parse_args => Inv'
<1> SUFFICES ASSUME Inv, parse_args PROVE Inv'
  OBVIOUS
<1> DEFINE o == Head(args)
<1>1. /\ stage = "args" /\ args # <<>>
      /\ conf' = IF Refused(o) THEN conf ELSE NewConf(o)
      /\ stage' \in {"args", "exit", "failed"}
      /\ args' = (IF o.opt = "@" THEN o.lines ELSE <<>>) \o Tail(args)
      /\ UNCHANGED <<inputs, todo, loaded, runner, libs, image, P, at, last>>
      /\ UNCHANGED deviceVars
  BY DEF parse_args
<1>2. args \in Seq(Options) /\ o \in Options /\ Tail(args) \in Seq(Options)
  BY <1>1 DEF Inv, Settings
<1> HIDE DEF o
<1>3. args' \in Seq(Options)
  <2>1. (IF o.opt = "@" THEN o.lines ELSE <<>>) \in Seq(Options)
    BY <1>2, OptionsAssumption
  <2>2. QED
    BY <1>1, <1>2, <2>1
<1>4. conf' \in Conf
  BY <1>1, <1>2, ConfSet DEF Inv, Settings
<1>5. Settings'
  BY <1>1, <1>3, <1>4 DEF Inv, Settings
<1>6. Queue' /\ Registry' /\ Lifetime' /\ Contents' /\ History' /\ input' = input
  BY <1>1, Quiet DEF Operating
<1>7. Places' /\ Amounts'
  BY <1>1, <1>6 DEF Inv, Places, Amounts, Final
<1>8. QED
  BY <1>5, <1>6, <1>7 DEF Inv

LEMMA QuietSteps == Inv /\ (OpenInput \/ recipe_plugin \/ recipe_jit \/ Start \/ Stopped) => Inv'
<1>1. ASSUME Inv, OpenInput PROVE Inv'
  <2>1. /\ stage = "args" /\ stage' \in {"recipes", "failed"}
        /\ UNCHANGED <<args, inputs, conf, loaded, runner, libs, image, P, at, last, deviceVars>>
    BY <1>1 DEF OpenInput
  <2>2. Queue' /\ Registry' /\ Lifetime' /\ Contents' /\ History' /\ input' = input
    BY <1>1, <2>1, Quiet DEF Operating
  <2>3. QED
    BY <1>1, <2>1, <2>2 DEF Inv, Places, Amounts, Settings, Final
<1>2. ASSUME Inv, recipe_plugin PROVE Inv'
  <2>1. /\ stage = "recipes" /\ stage' \in {"recipes", "crashed"} /\ loaded' = TRUE
        /\ UNCHANGED <<args, inputs, conf, runner, libs, image, P, at, last, deviceVars>>
    BY <1>2 DEF recipe_plugin, Running
  <2>2. Queue' /\ Registry' /\ Lifetime' /\ Contents' /\ History' /\ input' = input
    BY <1>2, <2>1, Quiet DEF Operating
  <2>3. QED
    BY <1>2, <2>1, <2>2 DEF Inv, Places, Amounts, Settings, Final
<1>3. ASSUME Inv, recipe_jit PROVE Inv'
  <2>1. /\ stage = "recipes" /\ stage' \in {"recipes", "crashed", "failed"}
        /\ runner' \in {runner, "jit"} /\ at' \in {at, "block"} /\ libs' \in {libs, libs + 1}
        /\ UNCHANGED <<args, inputs, conf, loaded, image, P, last, deviceVars>>
    BY <1>3 DEF recipe_jit, Running
  <2>2. Queue' /\ Registry' /\ Lifetime' /\ Contents' /\ History' /\ input' = input
    BY <1>3, <2>1, Quiet DEF Operating
  <2>3. QED
    BY <1>3, <2>1, <2>2 DEF Inv, Places, Amounts, Settings, Final
<1>4. ASSUME Inv, Start PROVE Inv'
  <2>1. /\ stage = "load" /\ stage' = "run" /\ P' = conf.start_addr
        /\ UNCHANGED <<args, inputs, conf, todo, loaded, runner, libs, image, at, last, deviceVars>>
    BY <1>4 DEF Start
  <2>2. Queue' /\ Registry' /\ Lifetime' /\ Contents' /\ History' /\ input' = input
    BY <1>4, <2>1, Quiet DEF Operating
  <2>3. P' \in Address
    BY <1>4, <2>1 DEF Inv, Settings, Conf
  <2>4. QED
    BY <1>4, <2>1, <2>2, <2>3 DEF Inv, Places, Amounts, Settings, Final
<1>5. ASSUME Inv, Stopped PROVE Inv'
  <2>1. UNCHANGED vars
    BY <1>5 DEF Stopped
  <2>2. Queue' /\ Registry' /\ Lifetime' /\ Contents' /\ History' /\ input' = input
    BY <1>5, <2>1, Quiet DEF vars, mainVars, Operating
  <2>3. QED
    BY <1>5, <2>1, <2>2 DEF Inv, Places, Amounts, Settings, vars, mainVars
<1>6. QED
  BY <1>1, <1>2, <1>3, <1>4, <1>5

\* next_device always has a slot to give.
LEMMA AddDevice ==
  ASSUME Inv, stage = "recipes", NEW k \in Kinds, add_device(k), UNCHANGED <<stage, last>>
  PROVE  Queue' /\ Registry' /\ Lifetime' /\ Contents' /\ History' /\ input' = input
<1> DEFINE d == [kind |-> k, cookie |-> Len(devices) + 1]
<1>1. devices \in Seq(Dev) /\ Len(devices) \in Nat /\ devices_max \in Nat /\ devices_max > 0
  BY DEF Inv, Registry
<1>2. /\ devices' = Append(devices, d) /\ devices_max' = Capacity
      /\ live' = live /\ store' = store /\ input' = input /\ events' = events /\ cycles' = cycles
  BY DEF add_device
<1>3. d \in Dev /\ d.cookie = Len(devices) + 1
  BY <1>1 DEF Dev
<1> HIDE DEF d
<1>4. /\ devices' \in Seq(Dev) /\ Len(devices') = Len(devices) + 1
      /\ \A i \in 1 .. Len(devices) : devices'[i] = devices[i]
      /\ devices'[Len(devices) + 1] = d /\ DOMAIN devices' = 1 .. Len(devices) + 1
  BY <1>1, <1>2, <1>3
<1>5. \A i \in DOMAIN devices' : devices'[i].cookie \in 1 .. Len(devices')
  <2>1. ASSUME NEW i \in 1 .. Len(devices) PROVE devices'[i].cookie \in 1 .. Len(devices')
    <3>1. devices[i].cookie \in 1 .. Len(devices)
      BY <1>1 DEF Inv, Registry
    <3>2. QED
      BY <1>1, <1>4, <3>1
  <2>2. devices'[Len(devices) + 1].cookie \in 1 .. Len(devices')
    BY <1>1, <1>3, <1>4
  <2>3. QED
    BY <1>1, <1>4, <2>1, <2>2
<1>6. devices_max' \in Nat /\ devices_max' > 0 /\ Len(devices') <= devices_max'
  <2>1. Len(devices) <= devices_max
    BY DEF Inv, Registry
  <2>2. QED
    BY <1>1, <1>2, <1>4, <2>1 DEF Capacity
<1>7. ~Operating' /\ stage' = "recipes" /\ last' = last
  BY DEF Operating
<1>8. Registry'
  BY <1>4, <1>5, <1>6, <1>7 DEF Registry
<1>9. Lifetime'
  <2>1. live = {} /\ store = <<>> /\ last = <<>>
    BY DEF Inv, Lifetime
  <2>2. QED
    BY <1>2, <1>7, <2>1 DEF Lifetime
<1>10. Contents' /\ History' /\ Queue'
  BY <1>2, <1>7 DEF Inv, Contents, History, Queue
<1>11. QED
  BY <1>2, <1>8, <1>9, <1>10

LEMMA DeviceStep == Inv /\ (recipe_device \/ plugin_success) => Inv'
<1>1. ASSUME Inv, recipe_device PROVE Inv'
  <2>1. PICK r \in {"prealloc", "sparse", "serial"} : Running(r) /\ add_device(r)
    BY <1>1 DEF recipe_device
  <2>2. r \in Kinds /\ stage = "recipes"
    BY <2>1, KindsAre DEF Running
  <2>3. UNCHANGED <<stage, args, inputs, conf, loaded, runner, libs, image, P, at, last>>
    BY <1>1 DEF recipe_device
  <2>4. Queue' /\ Registry' /\ Lifetime' /\ Contents' /\ History' /\ input' = input
    BY <1>1, <2>1, <2>2, <2>3, AddDevice
  <2>5. QED
    BY <1>1, <2>3, <2>4 DEF Inv, Places, Amounts, Settings
<1>2. ASSUME Inv, plugin_success PROVE Inv'
  <2>1. /\ stage = "recipes"
        /\ UNCHANGED <<stage, args, inputs, conf, loaded, runner, libs, image, P, at, last>>
    BY <1>2 DEF plugin_success
  <2>2. Queue' /\ Registry' /\ Lifetime' /\ Contents' /\ History' /\ input' = input
    <3>1. CASE Head(todo) \in Libraries
      <4>1. add_device(Head(todo)) /\ Head(todo) \in Kinds
        BY <1>2, <3>1, ConstantsOK DEF plugin_success
      <4>2. QED
        BY <1>2, <2>1, <4>1, AddDevice
    <3>2. CASE Head(todo) \notin Libraries
      <4>1. UNCHANGED deviceVars
        BY <1>2, <3>2 DEF plugin_success
      <4>2. QED
        BY <1>2, <2>1, <4>1, Quiet DEF Operating
    <3>3. QED
      BY <3>1, <3>2
  <2>3. QED
    BY <1>2, <2>1, <2>2 DEF Inv, Places, Amounts, Settings
<1>3. QED
  BY <1>1, <1>2

\* The cookies of a kind, by the devices: an order does not change them.
LEMMA CookiesMoved ==
  ASSUME devices \in Seq(Dev), NEW p, Moves(p, devices, devices')
  PROVE  Cookies(Kinds)' = Cookies(Kinds)
<1>1. /\ \A i \in DOMAIN devices' : \E j \in DOMAIN devices : devices'[i] = devices[j]
      /\ \A j \in DOMAIN devices : \E i \in DOMAIN devices' : devices'[i] = devices[j]
  BY MovesAll
<1>2. Cookies(Kinds)' = {devices'[i].cookie : i \in {j \in DOMAIN devices' : devices'[j].kind \in Kinds}}
  BY DEF Cookies, Kinds, Device
<1>3. Cookies(Kinds) = {devices[i].cookie : i \in {j \in DOMAIN devices : devices[j].kind \in Kinds}}
  BY DEF Cookies
<1>4. QED
  BY <1>1, <1>2, <1>3

\* All devices together, when each has its cells.
LEMMA AllFreshCells ==
  ASSUME NEW ds \in Seq(Dev), NEW C, \A i \in DOMAIN ds : ds[i].cookie \in C
  PROVE  /\ AllFresh(ds) \in [DOMAIN AllFresh(ds) -> Word]
         /\ DOMAIN AllFresh(ds) \subseteq C \X Address
         /\ \A i \in DOMAIN ds : DOMAIN Fresh(ds[i]) \subseteq DOMAIN AllFresh(ds)
<1> DEFINE parts == {Fresh(ds[i]) : i \in DOMAIN ds}
           D == UNION {DOMAIN f : f \in parts}
<1>1. AllFresh(ds) = [c \in D |-> (CHOOSE f \in parts : c \in DOMAIN f)[c]]
  BY DEF AllFresh
<1>2. ASSUME NEW f \in parts
      PROVE  f \in [DOMAIN f -> Word] /\ DOMAIN f \subseteq C \X Address
  <2>1. PICK i \in DOMAIN ds : f = Fresh(ds[i])
    OBVIOUS
  <2>2. ds[i] \in Dev /\ ds[i].cookie \in C
    OBVIOUS
  <2>3. f \in [DOMAIN f -> Word] /\ DOMAIN f \subseteq {ds[i].cookie} \X Address
    BY <2>1, <2>2, FreshWords
  <2>4. QED
    BY <2>2, <2>3
<1>3. \A i \in DOMAIN ds : Fresh(ds[i]) \in parts
  OBVIOUS
<1> HIDE DEF parts
<1>4. ASSUME NEW c \in D PROVE (CHOOSE f \in parts : c \in DOMAIN f)[c] \in Word
  <2>1. \E f \in parts : c \in DOMAIN f
    OBVIOUS
  <2>2. PICK f : f = CHOOSE g \in parts : c \in DOMAIN g
    OBVIOUS
  <2>3. f \in parts /\ c \in DOMAIN f
    BY <2>1, <2>2
  <2>4. f[c] \in Word
    BY <1>2, <2>3
  <2>5. QED
    BY <2>2, <2>4
<1>5. D \subseteq C \X Address /\ \A i \in DOMAIN ds : DOMAIN Fresh(ds[i]) \subseteq D
  BY <1>2, <1>3
<1> HIDE DEF D
<1>6. DOMAIN AllFresh(ds) = D /\ AllFresh(ds) \in [D -> Word]
  BY <1>1, <1>4
<1>7. QED
  BY <1>5, <1>6

\* After sorting and initialising, everything is in its place.
LEMMA FinaliseStep == Inv /\ Finalise => Inv'
<1> SUFFICES ASSUME Inv, Finalise PROVE Inv'
  OBVIOUS
<1>1. /\ stage = "recipes" /\ stage' \in {"load", "failed"}
      /\ devices' \in Sorted /\ live' = Cookies(Kinds) /\ store' = AllFresh(devices)
      /\ cycles' = [c \in Cookies(Sdl) |-> 0]
      /\ UNCHANGED <<devices_max, input, events>>
      /\ UNCHANGED <<args, inputs, conf, todo, loaded, runner, libs, image, P, at, last>>
  BY DEF Finalise, devices_finalise
<1>2. /\ devices \in Seq(Dev) /\ Len(devices) \in Nat /\ DOMAIN devices = 1 .. Len(devices)
      /\ \A i \in DOMAIN devices : devices[i].cookie \in 1 .. Len(devices)
  BY DEF Inv, Registry
<1>3. /\ devices' \in Seq(Dev) /\ Len(devices') = Len(devices) /\ Ordered(devices')
      /\ \E p : Moves(p, devices, devices')
  BY <1>1, <1>2, SortedOrders
<1>4. PICK p : Moves(p, devices, devices')
  BY <1>3
<1>5. \A i \in DOMAIN devices' : \E j \in DOMAIN devices : devices'[i] = devices[j]
  BY <1>2, <1>4, MovesAll
<1>6. Registry'
  <2>1. \A i \in DOMAIN devices' : devices'[i].cookie \in 1 .. Len(devices')
    BY <1>2, <1>3, <1>5
  <2>2. devices_max' = devices_max
    BY <1>1
  <2>3. QED
    BY <1>3, <2>1, <2>2 DEF Inv, Registry
<1>7. Cookies(Kinds) \subseteq 1 .. Len(devices) /\ Cookies(Sdl) \subseteq 1 .. Len(devices)
  BY <1>2 DEF Cookies
<1>8. Lifetime'
  <2>1. live' = Cookies(Kinds)'
    BY <1>1, <1>2, <1>4, CookiesMoved
  <2>2. QED
    BY <1>1, <1>3, <1>7, <2>1 DEF Lifetime, Operating
<1>9. Contents'
  <2>1. \A i \in DOMAIN devices : devices[i].cookie \in live'
    <3>1. \A i \in DOMAIN devices : devices[i].kind \in Kinds
      <4>1. \A i \in DOMAIN devices : devices[i] \in Dev
        BY <1>2
      <4>2. QED
        BY <4>1 DEF Dev
    <3>2. QED
      BY <1>1, <3>1 DEF Cookies
  <2>2. /\ store' \in [DOMAIN store' -> Word] /\ DOMAIN store' \subseteq live' \X Address
        /\ \A i \in DOMAIN devices : DOMAIN Fresh(devices[i]) \subseteq DOMAIN store'
    BY <1>1, <1>2, <2>1, AllFreshCells
  <2>3. \A i \in DOMAIN devices' : DOMAIN Fresh(devices'[i]) \subseteq DOMAIN store'
    BY <1>5, <2>2
  <2>4. QED
    BY <2>2, <2>3 DEF Contents
<1>10. History'
  <2>1. last' = <<>>
    BY <1>1 DEF Inv, Lifetime
  <2>2. QED
    BY <2>1, NoWords DEF History
<1>11. Queue'
  <2>1. IsFiniteSet(Cookies(Sdl))
    <3>1. 1 \in Int /\ Len(devices) \in Int
      BY <1>2
    <3>2. IsFiniteSet(1 .. Len(devices))
      BY <3>1, FS_Interval
    <3>3. QED
      BY <1>7, <3>2, FS_Subset
  <2>2. DOMAIN cycles' = Cookies(Sdl)
    BY <1>1
  <2>3. QED
    BY <1>1, <2>1, <2>2 DEF Inv, Queue
<1>12. Places' /\ Amounts' /\ Settings'
  BY <1>1 DEF Inv, Places, Amounts, Settings, Final
<1>13. QED
  BY <1>6, <1>8, <1>9, <1>10, <1>11, <1>12 DEF Inv

\* Steps of the loader and of the runner.
LEMMA AccessStep ==
  ASSUME Inv, Operating, Access, UNCHANGED <<devices, devices_max, live, libs>>,
         stage' \in {"load", "run", "close", "exit", "failed"}
  PROVE  Registry' /\ Lifetime' /\ Contents' /\ History' /\ input' \in Nat
<1>1. Contents' /\ History' /\ input' \in Nat
  BY AccessInv
<1>2. devices' = devices /\ devices_max' = devices_max /\ live' = live
  OBVIOUS
<1>3. Registry'
  BY <1>2 DEF Inv, Registry
<1>4. Lifetime'
  <2>1. Cookies(Kinds)' = Cookies(Kinds)
    BY <1>2 DEF Cookies, Kinds, Device
  <2>2. QED
    BY <1>2, <2>1 DEF Inv, Lifetime, Operating
<1>5. QED
  BY <1>1, <1>3, <1>4

\* A cycle of the devices takes events from the queue.
LEMMA CycleQueue ==
  ASSUME Queue, devices_dispatch_cycle
  PROVE  Queue'
<1> DEFINE n == Cardinality(Polling)
           m == Len(Polled)
<1>1. events \in Seq({"quit", "other"}) /\ Len(events) <= MaxEvents /\ Len(events) \in Nat
  BY DEF Queue
<1>2. n \in Nat
  <2>1. Polling \in SUBSET (DOMAIN cycles)
    BY DEF Polling
  <2>2. QED
    BY <2>1, FS_Subset, FS_CardinalityType DEF Queue
<1>3. m \in Nat /\ m <= Len(events)
  <2> DEFINE e == IF n < Len(events) THEN n ELSE Len(events)
  <2>1. e \in Nat /\ e <= Len(events)
    BY <1>1, <1>2
  <2>2. Polled = SubSeq(events, 1, e)
    BY DEF Polled
  <2> HIDE DEF e
  <2>3. QED
    BY <1>1, <2>1, <2>2
<1>4. events' = SubSeq(events, m + 1, Len(events)) /\ DOMAIN cycles' = DOMAIN cycles
  BY DEF devices_dispatch_cycle
<1> HIDE DEF m
<1>5. events' \in Seq({"quit", "other"}) /\ Len(events') <= Len(events) /\ Len(events') \in Nat
  BY <1>1, <1>3, <1>4
<1>6. QED
  BY <1>1, <1>4, <1>5, ConstantsOK DEF Queue

LEMMA HeadAndTail ==
  ASSUME NEW S, NEW s \in Seq(S), s # <<>>
  PROVE  Head(s) \in S /\ Tail(s) \in Seq(S)
OBVIOUS

LEMMA LoadStep == Inv /\ load_sim => Inv'
<1> SUFFICES ASSUME Inv, load_sim PROVE Inv'
  OBVIOUS
<1>1. /\ stage = "load" /\ image # <<>> /\ stage' \in {"load", "failed"}
      /\ Store(LoadAddress, Head(image).word)
      /\ image' \in {image, Tail(image)}
      /\ UNCHANGED <<args, inputs, conf, todo, loaded, runner, libs, P, at,
                     devices, devices_max, live, events, cycles>>
  BY DEF load_sim
<1>2. image \in Seq([reladdr : Nat, word : Word])
  BY DEF Inv, Settings
<1>3. Head(image) \in [reladdr : Nat, word : Word] /\ Tail(image) \in Seq([reladdr : Nat, word : Word])
  BY <1>1, <1>2, HeadAndTail
<1>4. Head(image).word \in Word /\ Head(image).reladdr \in Int
  BY <1>3
<1>5. LoadAddress \in Address
  <2>1. conf.load_addr \in Address
    BY DEF Inv, Settings, Conf
  <2>2. conf.load_addr \in Int
    BY <2>1, ConstantsOK DEF Address
  <2>3. conf.load_addr + Head(image).reladdr \in Int
    BY <1>4, <2>2
  <2>4. QED
    BY <2>3, Wraps DEF LoadAddress
<1>6. Access
  BY <1>1, <1>4, <1>5 DEF Access
<1>7. Registry' /\ Lifetime' /\ Contents' /\ History' /\ input' \in Nat
  BY <1>1, <1>6, AccessStep DEF Operating
<1>8. Queue' /\ Settings'
  BY <1>1, <1>2, <1>3 DEF Inv, Queue, Settings
<1>9. Places' /\ Amounts'
  BY <1>1, <1>7 DEF Inv, Places, Amounts, Final
<1>10. QED
  BY <1>7, <1>8, <1>9 DEF Inv

\* What the steps of the runner have in common.
LEMMA RunnerStep ==
  ASSUME Inv, stage = "run", Access, UNCHANGED frozen,
         stage' \in {"run", "close", "exit"}, P' \in Address,
         at' \in {"block", "fetch", "exec", "pump", "last"}, Queue'
  PROVE  Inv'
<1>1. UNCHANGED <<args, inputs, conf, todo, loaded, runner, libs, image, devices, devices_max, live>>
  BY DEF frozen
<1>2. Registry' /\ Lifetime' /\ Contents' /\ History' /\ input' \in Nat
  BY <1>1, AccessStep DEF Operating
<1>3. Settings'
  BY <1>1 DEF Inv, Settings
<1>4. Places' /\ Amounts'
  BY <1>1, <1>2 DEF Inv, Places, Amounts, Final
<1>5. QED
  BY <1>2, <1>3, <1>4 DEF Inv

LEMMA AnyAccess ==
  ASSUME \/ NoAccess
         \/ \E a \in Accesses : Load(a) \/ \E w \in Values : Store(a, w)
  PROVE  Access
BY ConstantsOK DEF Access

LEMMA SameQueue == ASSUME Inv, UNCHANGED <<events, cycles>> PROVE Queue'
BY DEF Inv, Queue

LEMMA RunStep == Inv /\ Run => Inv'
<1>0. ASSUME Inv PROVE P \in Address /\ (P + 1) % Limit \in Address /\ Targets \subseteq Address
  <2>1. P \in Address /\ P \in Int
    BY <1>0, ConstantsOK DEF Inv, Amounts, Address
  <2>2. P + 1 \in Int
    BY <2>1
  <2>3. QED
    BY <2>1, <2>2, Wraps, ConstantsOK
<1>1. ASSUME Inv, Block PROVE Inv'
  <2>1. /\ stage = "run" /\ stage' = "run" /\ at' = "fetch" /\ UNCHANGED frozen
        /\ UNCHANGED <<events, cycles>> /\ (P' = P \/ P' \in Targets)
    BY <1>1 DEF Block, At
  <2>2. Access
    BY <1>1, AnyAccess DEF Block
  <2>3. QED
    BY <1>0, <1>1, <2>1, <2>2, SameQueue, RunnerStep
<1>2. ASSUME Inv, Fetch PROVE Inv'
  <2>1. stage = "run" /\ UNCHANGED frozen /\ UNCHANGED <<events, cycles>> /\ P' = P
    BY <1>2 DEF Fetch, At
  <2>2. /\ stage' \in {"run", "close"}
        /\ at' \in {"block", "fetch", "exec", "pump", "last"}
    BY <1>2, <2>1 DEF Fetch, Return, Inv, Places
  <2>3. Access
    BY <1>0, <1>2 DEF Fetch, Access
  <2>4. QED
    BY <1>0, <1>2, <2>1, <2>2, <2>3, SameQueue, RunnerStep
<1>3. ASSUME Inv, Fails PROVE Inv'
  <2>1. /\ stage = "run" /\ UNCHANGED frozen /\ UNCHANGED <<events, cycles>>
        /\ P' = (P + 1) % Limit /\ NoAccess
    BY <1>3 DEF Fails, At
  <2>2. /\ stage' \in {"run", "close"}
        /\ at' \in {"block", "fetch", "exec", "pump", "last"}
    BY <1>3, <2>1 DEF Fails, Return, Inv, Places
  <2>3. Access
    BY <2>1 DEF Access
  <2>4. QED
    BY <1>0, <1>3, <2>1, <2>2, <2>3, SameQueue, RunnerStep
<1>4. ASSUME Inv, Insn PROVE Inv'
  <2>1. /\ stage = "run" /\ UNCHANGED frozen /\ devices_dispatch_cycle
        /\ stage' \in {"run", "exit"} /\ at' \in {"fetch", "pump"}
        /\ (P' = (P + 1) % Limit \/ P' \in Targets)
    BY <1>4 DEF Insn, At
  <2>2. Access
    BY <1>4, AnyAccess DEF Insn
  <2>3. Queue'
    BY <1>4, <2>1, CycleQueue DEF Inv
  <2>4. QED
    BY <1>0, <1>4, <2>1, <2>2, <2>3, RunnerStep
<1>5. ASSUME Inv, Pump PROVE Inv'
  <2>1. /\ stage = "run" /\ UNCHANGED frozen /\ devices_dispatch_cycle /\ P' = P
        /\ stage' \in {"run", "close", "exit"} /\ at' = "block" /\ NoAccess
    BY <1>5 DEF Pump, At
  <2>2. Access
    BY <2>1 DEF Access
  <2>3. Queue'
    BY <1>5, <2>1, CycleQueue DEF Inv
  <2>4. QED
    BY <1>0, <1>5, <2>1, <2>2, <2>3, RunnerStep
<1>6. QED
  BY <1>1, <1>2, <1>3, <1>4, <1>5 DEF Run

LEMMA LastSteps == Inv /\ (Close \/ Event) => Inv'
<1>1. ASSUME Inv, Close PROVE Inv'
  <2>1. /\ stage' = "done" /\ live' = {} /\ store' = <<>> /\ libs' = 0
        /\ UNCHANGED <<args, inputs, conf, todo, loaded, runner, image, P, at, last,
                       devices, devices_max, input, events, cycles>>
    BY <1>1 DEF Close, devices_teardown
  <2>2. Places' /\ Amounts'
    BY <1>1, <2>1 DEF Inv, Places, Amounts, Final
  <2>3. Settings' /\ Queue'
    BY <1>1, <2>1 DEF Inv, Settings, Queue
  <2>4. Registry'
    BY <1>1, <2>1 DEF Inv, Registry, Operating
  <2>5. Lifetime' /\ Contents' /\ History'
    BY <1>1, <2>1, NoWords DEF Inv, Lifetime, Contents, History, Operating
  <2>6. QED
    BY <2>2, <2>3, <2>4, <2>5 DEF Inv
<1>2. ASSUME Inv, Event PROVE Inv'
  <2>1. /\ stage = "run" /\ stage' = stage /\ Len(events) < MaxEvents
        /\ UNCHANGED <<devices, devices_max, live, store, input, cycles>>
        /\ UNCHANGED <<args, inputs, conf, todo, loaded, runner, libs, image, P, at, last>>
    BY <1>2 DEF Event, mainVars
  <2>2. PICK e \in {"quit", "other"} : events' = Append(events, e)
    BY <1>2 DEF Event
  <2>3. Queue'
    <3>1. events \in Seq({"quit", "other"}) /\ Len(events) \in Nat
      BY <1>2 DEF Inv, Queue
    <3>2. events' \in Seq({"quit", "other"}) /\ Len(events') = Len(events) + 1
      BY <2>2, <3>1
    <3>3. Len(events') <= MaxEvents
      BY <2>1, <3>1, <3>2, ConstantsOK
    <3>4. QED
      BY <1>2, <2>1, <3>2, <3>3 DEF Inv, Queue
  <2>4. Access /\ stage' = "run" /\ UNCHANGED frozen
    BY <2>1 DEF Access, NoAccess, frozen
  <2>5. P' \in Address /\ at' \in {"block", "fetch", "exec", "pump", "last"}
    BY <1>2, <2>1 DEF Inv, Amounts, Places
  <2>6. QED
    BY <1>2, <2>1, <2>3, <2>4, <2>5, RunnerStep
<1>3. QED
  BY <1>1, <1>2

LEMMA NextInv == Inv /\ [Next]_vars => Inv'
<1>1. ASSUME Inv, UNCHANGED vars PROVE Inv'
  <2>1. UNCHANGED deviceVars /\ UNCHANGED mainVars
    BY <1>1 DEF vars
  <2>2. Queue' /\ Registry' /\ Lifetime' /\ Contents' /\ History' /\ input' = input
    BY <1>1, <2>1, Quiet DEF mainVars, Operating
  <2>3. QED
    BY <1>1, <2>1, <2>2 DEF Inv, Places, Amounts, Settings, mainVars
<1>2. QED
  BY <1>1, OptionStep, QuietSteps, DeviceStep, FinaliseStep, LoadStep, RunStep, LastSteps DEF Next

LEMMA Invariance == Spec => []Inv
BY InitInv, NextInv, PTL DEF Spec

-----------------------------------------------------------------------------
(* The theorems.                                                           *)

LEMMA InvTypes == Inv => TypeOK
<1> SUFFICES ASSUME Inv PROVE TypeOK
  OBVIOUS
<1>1. conf \in Conf /\ loaded \in BOOLEAN
  BY DEF Inv, Settings
<1>2. Range(conf.recipes) \subseteq Recipes
  <2>1. conf.recipes \in Seq(Recipes)
    BY <1>1 DEF Conf
  <2>2. QED
    BY <2>1 DEF Range
<1>3. conf.run_defaults \in BOOLEAN /\ conf.load_addr \in Address /\ conf.start_addr \in Address
  BY <1>1 DEF Conf
<1>4. \A i \in DOMAIN devices : devices[i] \in [kind : Kinds, cookie : 1 .. Len(devices)]
  <2>1. \A i \in DOMAIN devices : devices[i] \in Dev /\ devices[i].cookie \in 1 .. Len(devices)
    BY DEF Inv, Registry
  <2>2. QED
    BY <2>1 DEF Dev
<1>5. live \subseteq 1 .. Len(devices) /\ devices_max \in Nat
  BY DEF Inv, Lifetime, Registry
<1>6. \A c \in DOMAIN store : c \in live \X Address /\ store[c] \in Word
  BY DEF Inv, Contents
<1>7. \A a \in DOMAIN last : a \in Address /\ last[a] \in Word
  BY DEF Inv, History
<1>8. input \in Nat /\ Len(events) <= MaxEvents /\ libs \in Nat /\ P \in Address
  BY DEF Inv, Amounts, Queue
<1>9. /\ stage \in {"args", "recipes", "load", "run", "close"} \cup Final
      /\ runner \in {"interp", "jit"} /\ at \in {"block", "fetch", "exec", "pump", "last"}
  BY DEF Inv, Places
<1>10. QED
  BY <1>1, <1>2, <1>3, <1>4, <1>5, <1>6, <1>7, <1>8, <1>9 DEF TypeOK

LEMMA InvReaches == Inv => Reachable
<1> SUFFICES ASSUME Inv PROVE Reachable
  OBVIOUS
<1>1. Len(devices) <= devices_max
  BY DEF Inv, Registry
<1>2. ASSUME Operating, NEW a \in Address, NEW i \in DOMAIN devices, a \in Span(devices[i].kind)
      PROVE  Find(a) # 0 /\ a \in Span(Owner(a).kind) /\ Owner(a).cookie \in live
  <2>1. Find(a) # 0
    BY <1>2, Found DEF Inv
  <2>2. a \in Span(Owner(a).kind)
    BY <1>2, <2>1, Found DEF Inv
  <2>3. QED
    BY <1>2, <2>1, <2>2, OwnerLives DEF Inv
<1>3. ASSUME Operating, NEW a \in Address, ~\E i \in DOMAIN devices : a \in Span(devices[i].kind)
      PROVE  Find(a) = 0
  <2>1. ASSUME Find(a) # 0 PROVE FALSE
    BY <1>3, <2>1, Found DEF Inv, Owner
  <2>2. QED
    BY <2>1
<1>4. QED
  BY <1>1, <1>2, <1>3, Zenon DEF Reachable

LEMMA InvCoheres == Inv => Coherent
<1> SUFFICES ASSUME Inv, Operating, NEW a \in DOMAIN last
             PROVE  Value(a) = IF Owner(a).kind = "sdlled" THEN last[a] % LedValues ELSE last[a]
  BY DEF Coherent
<1> DEFINE o == <<Owner(a).cookie, a>>
<1>1. a \in Address /\ Remains(devices, store, a, last[a])
  BY DEF Inv, History
<1>2. Find(a) # 0 /\ o \in DOMAIN store /\ store[o] = last[a]
  BY <1>1 DEF Remains, Cell, Find, Owner
<1>3. AfterRead(a)[o] = store[o]
  BY <1>1, <1>2, ReadKeeps
<1>4. Value(a) = IF Owner(a).kind = "sdlled" THEN store[o] % LedValues ELSE AfterRead(a)[o]
  BY DEF Value, sdlled_read
<1>5. QED
  BY <1>2, <1>3, <1>4

\* Every variable of tsim and of its devices keeps its type, for any command
\* lines and options files, any program, and displays that ask for events.
THEOREM TsimTypes == Spec => []TypeOK
BY Invariance, InvTypes, PTL

\* For any recipes and plugins, in any number and order, dispatch_op finds a
\* device for an address exactly when one covers it, and an initialised one.
THEOREM DispatchReaches == Spec => []Reachable
BY Invariance, InvReaches, PTL

\* Whatever is loaded and whatever the program does, a read gives what was
\* last stored at the address.
THEOREM MemoryCoheres == Spec => []Coherent
BY Invariance, InvCoheres, PTL

-----------------------------------------------------------------------------
(* Counting: names in a sequence, and devices of a kind.                   *)

Count(s, k) == Cardinality({i \in DOMAIN s : s[i] = k})
Kin(ds, k)  == Cardinality({i \in DOMAIN ds : ds[i].kind = k})

LEMMA FiniteParts ==
  ASSUME NEW n \in Nat, NEW A \in SUBSET (1 .. n)
  PROVE  IsFiniteSet(A) /\ Cardinality(A) \in Nat
<1>1. IsFiniteSet(1 .. n)
  BY FS_Interval
<1>2. QED
  BY <1>1, FS_Subset, FS_CardinalityType

LEMMA Counts ==
  ASSUME NEW S, NEW s \in Seq(S), NEW k
  PROVE  Count(s, k) \in Nat /\ IsFiniteSet({i \in DOMAIN s : s[i] = k})
<1>1. Len(s) \in Nat /\ {i \in DOMAIN s : s[i] = k} \in SUBSET (1 .. Len(s))
  OBVIOUS
<1>2. QED
  BY <1>1, FiniteParts DEF Count

LEMMA CountNone == ASSUME NEW k PROVE Count(<<>>, k) = 0
<1>1. {i \in DOMAIN <<>> : <<>>[i] = k} = {}
  OBVIOUS
<1>2. QED
  BY <1>1, FS_EmptySet DEF Count

\* A shifted set has as many elements.
LEMMA Shifted ==
  ASSUME NEW A, A \subseteq Nat, IsFiniteSet(A), NEW m \in Nat,
         NEW B, B = {j \in Nat : j >= m /\ j - m \in A}
  PROVE  IsFiniteSet(B) /\ Cardinality(B) = Cardinality(A)
<1> DEFINE f == [i \in A |-> i + m]
<1>1. f \in [A -> B]
  OBVIOUS
<1>2. \A i, j \in A : f[i] = f[j] => i = j
  OBVIOUS
<1>3. \A b \in B : \E a \in A : f[a] = b
  <2> SUFFICES ASSUME NEW b \in B PROVE b - m \in A /\ f[b - m] = b
    OBVIOUS
  <2>1. QED
    OBVIOUS
<1>4. f \in Bijection(A, B)
  BY <1>1, <1>2, <1>3 DEF Bijection, Injection, Surjection, IsInjective
<1>5. ExistsBijection(A, B)
  BY <1>4 DEF ExistsBijection
<1>6. QED
  BY <1>5, FS_Bijection

LEMMA CountConcat ==
  ASSUME NEW S, NEW s \in Seq(S), NEW t \in Seq(S), NEW k
  PROVE  Count(s \o t, k) = Count(s, k) + Count(t, k)
<1> DEFINE m == Len(s)
           n == Len(t)
           u == s \o t
           A == {i \in DOMAIN s : s[i] = k}
           B == {i \in DOMAIN t : t[i] = k}
           C == {j \in Nat : j >= m /\ j - m \in B}
           D == {i \in DOMAIN u : u[i] = k}
<1>1. m \in Nat /\ n \in Nat /\ DOMAIN s = 1 .. m /\ DOMAIN t = 1 .. n
  OBVIOUS
<1>2. DOMAIN u = 1 .. m + n /\ \A i \in 1 .. m + n : u[i] = IF i <= m THEN s[i] ELSE t[i - m]
  OBVIOUS
<1> HIDE DEF u
<1>3. D = A \cup C
  <2>1. ASSUME NEW i \in D PROVE i \in A \cup C
    <3>1. i \in 1 .. m + n /\ u[i] = k
      BY <1>2
    <3>2. CASE i <= m
      <4>1. i \in 1 .. m /\ s[i] = k
        BY <1>1, <1>2, <3>1, <3>2
      <4>2. QED
        BY <1>1, <4>1
    <3>3. CASE ~(i <= m)
      <4>1. i \in Nat /\ i >= m /\ i - m \in 1 .. n /\ t[i - m] = k
        BY <1>1, <1>2, <3>1, <3>3
      <4>2. QED
        BY <1>1, <4>1
    <3>4. QED
      BY <3>2, <3>3
  <2>2. ASSUME NEW i \in A PROVE i \in D
    <3>1. i \in 1 .. m /\ i \in 1 .. m + n /\ i <= m /\ s[i] = k
      BY <1>1
    <3>2. QED
      BY <1>2, <3>1
  <2>3. ASSUME NEW i \in C PROVE i \in D
    <3>1. i \in Nat /\ i - m \in 1 .. n /\ t[i - m] = k
      BY <1>1
    <3>2. i \in 1 .. m + n /\ ~(i <= m)
      BY <1>1, <3>1
    <3>3. QED
      BY <1>2, <3>1, <3>2
  <2>4. QED
    BY <2>1, <2>2, <2>3
<1>4. A \cap C = {}
  <2>1. ASSUME NEW i \in A, i \in C PROVE FALSE
    <3>1. i \in 1 .. m /\ i - m \in 1 .. n
      BY <1>1, <2>1
    <3>2. QED
      BY <1>1, <3>1
  <2>2. QED
    BY <2>1
<1>5. /\ IsFiniteSet(A) /\ IsFiniteSet(B) /\ Count(s, k) \in Nat /\ Count(t, k) \in Nat
      /\ Cardinality(A) = Count(s, k) /\ Cardinality(B) = Count(t, k)
  BY Counts DEF Count
<1>6. IsFiniteSet(C) /\ Cardinality(C) = Cardinality(B)
  <2>1. B \subseteq Nat
    BY <1>1
  <2>2. C = {j \in Nat : j >= m /\ j - m \in B}
    OBVIOUS
  <2> HIDE DEF B, C, m
  <2>3. QED
    BY <1>1, <1>5, <2>1, <2>2, Shifted, ZenonT(60)
<1> HIDE DEF A, B, C, D
<1>7. Cardinality(A \cup C) = Cardinality(A) + Cardinality(C) - Cardinality(A \cap C)
  BY <1>5, <1>6, FS_Union
<1>8. Cardinality(A \cap C) = 0
  BY <1>4, FS_EmptySet
<1>9. Cardinality(D) = Count(s, k) + Count(t, k)
  BY <1>3, <1>5, <1>6, <1>7, <1>8
<1>10. Count(s \o t, k) = Cardinality(D)
  BY DEF Count, D, u
<1>11. QED
  BY <1>9, <1>10

LEMMA CountFirst ==
  ASSUME NEW S, NEW s \in Seq(S), s # <<>>, NEW k
  PROVE  Count(s, k) = Count(Tail(s), k) + IF Head(s) = k THEN 1 ELSE 0
<1>1. s = <<Head(s)>> \o Tail(s) /\ <<Head(s)>> \in Seq(S) /\ Tail(s) \in Seq(S)
  <2> DEFINE h == Head(s)
             t == Tail(s)
             u == <<h>> \o t
  <2>1. h \in S /\ h = s[1] /\ Len(s) \in Nat /\ Len(s) >= 1
    OBVIOUS
  <2>2. t \in Seq(S) /\ Len(t) = Len(s) - 1 /\ \A i \in 1 .. Len(s) - 1 : t[i] = s[i + 1]
    OBVIOUS
  <2> HIDE DEF h, t
  <2>3. <<h>> \in Seq(S) /\ Len(<<h>>) = 1 /\ <<h>>[1] = h
    BY <2>1
  <2>4. /\ u \in Seq(S) /\ Len(u) = Len(s)
        /\ u[1] = h /\ \A i \in 1 .. Len(s) - 1 : u[i + 1] = t[i]
    BY <2>1, <2>2, <2>3
  <2> HIDE DEF u
  <2>5. ASSUME NEW i \in 1 .. Len(s) PROVE u[i] = s[i]
    <3>1. CASE i = 1
      BY <2>1, <2>4, <3>1
    <3>2. CASE i # 1
      <4>1. i - 1 \in 1 .. Len(s) - 1 /\ (i - 1) + 1 = i
        BY <2>1, <3>2
      <4>2. QED
        BY <2>2, <2>4, <4>1
    <3>3. QED
      BY <3>1, <3>2
  <2>6. s = u
    BY <2>1, <2>4, <2>5, SeqEqual, Zenon
  <2>7. QED
    BY <2>2, <2>3, <2>6 DEF u, h, t
<1>2. Count(s, k) = Count(<<Head(s)>>, k) + Count(Tail(s), k)
  <2> DEFINE u == <<Head(s)>> \o Tail(s)
  <2>1. Count(u, k) = Count(<<Head(s)>>, k) + Count(Tail(s), k)
    BY <1>1, CountConcat, Zenon
  <2>2. s = u
    BY <1>1
  <2> HIDE DEF u
  <2>3. Count(s, k) = Count(u, k)
    BY <2>2, Zenon
  <2>4. QED
    BY <2>1, <2>3, Zenon
<1>3. Count(<<Head(s)>>, k) = IF Head(s) = k THEN 1 ELSE 0
  <2> DEFINE h == Head(s)
             A == {i \in DOMAIN <<h>> : <<h>>[i] = k}
  <2>1. DOMAIN <<h>> = {1} /\ <<h>>[1] = h
    OBVIOUS
  <2>2. CASE h = k
    <3>1. A = {1}
      BY <2>1, <2>2
    <3>2. QED
      BY <2>2, <3>1, FS_Singleton DEF Count
  <2>3. CASE h # k
    <3>1. A = {}
      BY <2>1, <2>3
    <3>2. QED
      BY <2>3, <3>1, FS_EmptySet DEF Count
  <2>4. QED
    BY <2>2, <2>3
<1>4. Count(Tail(s), k) \in Nat
  BY <1>1, Counts
<1>5. QED
  BY <1>2, <1>3, <1>4

LEMMA KinCounts ==
  ASSUME NEW ds \in Seq(Dev), NEW k
  PROVE  Kin(ds, k) \in Nat
<1>1. Len(ds) \in Nat /\ {i \in DOMAIN ds : ds[i].kind = k} \in SUBSET (1 .. Len(ds))
  OBVIOUS
<1>2. QED
  BY <1>1, FiniteParts DEF Kin

LEMMA KinNone == ASSUME NEW k PROVE Kin(<<>>, k) = 0
<1>1. {i \in DOMAIN <<>> : <<>>[i].kind = k} = {}
  OBVIOUS
<1>2. QED
  BY <1>1, FS_EmptySet DEF Kin

LEMMA KinAppend ==
  ASSUME NEW ds \in Seq(Dev), NEW d \in Dev, NEW k
  PROVE  Kin(Append(ds, d), k) = Kin(ds, k) + IF d.kind = k THEN 1 ELSE 0
<1> DEFINE n == Len(ds)
           es == Append(ds, d)
           A == {i \in DOMAIN ds : ds[i].kind = k}
           B == {i \in DOMAIN es : es[i].kind = k}
<1>1. n \in Nat /\ DOMAIN ds = 1 .. n
  OBVIOUS
<1>2. DOMAIN es = 1 .. n + 1 /\ es[n + 1] = d /\ \A i \in 1 .. n : es[i] = ds[i]
  OBVIOUS
<1> HIDE DEF es
<1>3. n + 1 \notin A
  BY <1>1
<1>4. IsFiniteSet(A) /\ Cardinality(A) \in Nat
  <2>1. A \in SUBSET (1 .. n)
    BY <1>1
  <2> HIDE DEF A
  <2>2. QED
    BY <1>1, <2>1, FiniteParts
<1>k. Kin(es, k) = Cardinality(B) /\ Kin(ds, k) = Cardinality(A)
  BY DEF Kin
<1>5. CASE d.kind = k
  <2>1. B = A \cup {n + 1}
    BY <1>1, <1>2, <1>5
  <2>2. Cardinality(B) = Cardinality(A) + 1
    BY <1>3, <1>4, <2>1, FS_AddElement
  <2>3. QED
    BY <1>k, <1>5, <2>2 DEF es
<1>6. CASE d.kind # k
  <2>1. B = A
    BY <1>1, <1>2, <1>6
  <2>2. Cardinality(B) = Cardinality(A)
    BY <2>1
  <2>3. QED
    <3>1. Kin(es, k) = Kin(ds, k) /\ Kin(ds, k) \in Nat
      BY <1>4, <1>k, <2>2
    <3>2. QED
      BY <1>6, <3>1 DEF es
<1>7. QED
  BY <1>5, <1>6

LEMMA KinMoved ==
  ASSUME NEW ds \in Seq(Dev), NEW es, NEW p, Moves(p, ds, es), NEW k
  PROVE  Kin(es, k) = Kin(ds, k)
<1> DEFINE D == DOMAIN ds
           A == {i \in D : ds[i].kind = k}
           B == {i \in DOMAIN es : es[i].kind = k}
           q == [i \in B |-> p[i]]
<1>1. /\ p \in [D -> D] /\ \A i, j \in D : p[i] = p[j] => i = j
      /\ \A t \in D : \E s \in D : p[s] = t
  BY DEF Moves, Bijection, Injection, Surjection, IsInjective
<1>2. DOMAIN es = D /\ \A i \in D : es[i] = ds[p[i]]
  BY DEF Moves
<1>3. q \in [B -> A]
  BY <1>1, <1>2
<1>4. \A i, j \in B : q[i] = q[j] => i = j
  BY <1>1, <1>2
<1>5. \A a \in A : \E b \in B : q[b] = a
  BY <1>1, <1>2
<1>6. q \in Bijection(B, A)
  BY <1>3, <1>4, <1>5 DEF Bijection, Injection, Surjection, IsInjective
<1>7. IsFiniteSet(B)
  <2>1. Len(ds) \in Nat /\ B \in SUBSET (1 .. Len(ds))
    BY <1>2
  <2> HIDE DEF B
  <2>2. QED
    BY <2>1, FiniteParts
<1>8. Cardinality(A) = Cardinality(B)
  BY <1>6, <1>7, FS_Bijection DEF ExistsBijection
<1>9. QED
  BY <1>8 DEF Kin

-----------------------------------------------------------------------------
(* Plugins.  Their names are put together by a recursive function.         *)

\* The equation of FlattenSeq has a solution up to the i-th sequence.
Flattens(ss, f, i) ==
  f = [j \in 1 .. i |-> IF j = 1 THEN ss[j] ELSE f[j - 1] \o ss[j]]

LEMMA FlattensExist ==
  ASSUME NEW ss
  PROVE  \A i \in Nat : \E f : Flattens(ss, f, i)
<1> DEFINE T == {i \in Nat : \E f : Flattens(ss, f, i)}
<1> SUFFICES Nat \subseteq T
  OBVIOUS
<1>1. ASSUME NEW n \in Nat, \A m \in 0 .. n - 1 : m \in T PROVE n \in T
  <2>1. CASE n = 0
    <3> DEFINE g == [j \in 1 .. 0 |-> 0]
    <3>1. Flattens(ss, g, 0)
      BY DEF Flattens
    <3>2. QED
      BY <2>1, <3>1
  <2>2. CASE n # 0
    <3>1. n - 1 \in Nat /\ n - 1 \in T
      BY <1>1, <2>2
    <3>2. PICK f : Flattens(ss, f, n - 1)
      BY <3>1
    <3> DEFINE g == [j \in 1 .. n |-> IF j = 1 THEN ss[j] ELSE f[j - 1] \o ss[j]]
    <3>3. ASSUME NEW j \in 1 .. n, j # 1 PROVE f[j - 1] = g[j - 1]
      <4>1. j - 1 \in 1 .. n - 1 /\ j - 1 \in 1 .. n
        BY <3>3
      <4>2. f[j - 1] = IF j - 1 = 1 THEN ss[j - 1] ELSE f[(j - 1) - 1] \o ss[j - 1]
        BY <3>2, <4>1 DEF Flattens
      <4>3. QED
        BY <4>1, <4>2
    <3>4. \A j \in 1 .. n : g[j] = IF j = 1 THEN ss[j] ELSE g[j - 1] \o ss[j]
      <4>1. ASSUME NEW j \in 1 .. n PROVE g[j] = IF j = 1 THEN ss[j] ELSE f[j - 1] \o ss[j]
        OBVIOUS
      <4> HIDE DEF g
      <4>2. QED
        BY <3>3, <4>1
    <3>5. g = [j \in 1 .. n |-> g[j]]
      OBVIOUS
    <3> HIDE DEF g
    <3>6. Flattens(ss, g, n)
      BY <3>4, <3>5 DEF Flattens
    <3>7. QED
      BY <3>6
  <2>3. QED
    BY <2>1, <2>2
<1>2. QED
  <2> HIDE DEF T
  <2>1. QED
    BY <1>1, NatSetInduction

LEMMA FlattenedInto ==
  ASSUME NEW S, NEW ss \in Seq(Seq(S)), NEW f, Flattens(ss, f, Len(ss))
  PROVE  \A j \in 1 .. Len(ss) : f[j] \in Seq(S)
<1> DEFINE n == Len(ss)
           T == {i \in Nat : i \in 1 .. n => f[i] \in Seq(S)}
<1>0. n \in Nat /\ \A j \in 1 .. n : ss[j] \in Seq(S)
  OBVIOUS
<1>1. ASSUME NEW i \in Nat, \A m \in 0 .. i - 1 : m \in T PROVE i \in T
  <2> SUFFICES ASSUME i \in 1 .. n PROVE f[i] \in Seq(S)
    OBVIOUS
  <2>1. f[i] = IF i = 1 THEN ss[i] ELSE f[i - 1] \o ss[i]
    BY DEF Flattens
  <2>2. CASE i = 1
    BY <1>0, <2>1, <2>2
  <2>3. CASE i # 1
    <3>1. i - 1 \in 0 .. i - 1 /\ i - 1 \in 1 .. n
      BY <1>0, <2>3
    <3>2. f[i - 1] \in Seq(S) /\ ss[i] \in Seq(S)
      BY <1>0, <1>1, <3>1
    <3>3. QED
      BY <2>1, <2>3, <3>2
  <2>4. QED
    BY <2>2, <2>3
<1>2. Nat \subseteq T
  <2> HIDE DEF T
  <2>1. QED
    BY <1>1, NatSetInduction
<1>3. QED
  BY <1>0, <1>2

LEMMA Flattened ==
  ASSUME NEW S, NEW ss \in Seq(Seq(S))
  PROVE  FlattenSeq(ss) \in Seq(S)
<1>1. CASE Len(ss) = 0
  <2>1. FlattenSeq(ss) = ss
    BY <1>1 DEF FlattenSeq
  <2>2. ss = <<>>
    BY <1>1
  <2>3. <<>> \in Seq(S)
    OBVIOUS
  <2>4. QED
    BY <2>1, <2>2, <2>3
<1>2. CASE Len(ss) # 0
  <2>1. Len(ss) \in Nat /\ Len(ss) \in 1 .. Len(ss)
    BY <1>2
  <2>2. \E g : Flattens(ss, g, Len(ss))
    BY <2>1, FlattensExist
  <2>3. \E f : Flattens(ss, f, Len(ss)) /\ FlattenSeq(ss) = f[Len(ss)]
    BY <1>2, <2>2 DEF FlattenSeq, Flattens
  <2>4. QED
    BY <2>1, <2>3, FlattenedInto
<1>3. QED
  BY <1>1, <1>2

\* The instances that load_plugins finds are those before the first gap.
LEMMA FirstInstances ==
  ASSUME conf \in Conf, NEW i \in 1 .. Cardinality(Instances)
  PROVE  i - 1 \in DOMAIN conf.plugins
<1> DEFINE I == Instances
           n == Cardinality(I)
           D == DOMAIN conf.plugins
<1>1. D \in SUBSET Nat /\ IsFiniteSet(D)
  BY DEF Conf, PluginLists
<1>2. I \subseteq D /\ \A j \in I : \A m \in 0 .. j : m \in D
  BY DEF Instances
<1>3. IsFiniteSet(I) /\ n \in Nat
  BY <1>1, <1>2, FS_Subset, FS_CardinalityType
<1>4. ASSUME i - 1 \notin D PROVE FALSE
  <2>1. i - 1 \in Nat /\ i \in Nat /\ i <= n
    BY <1>3
  <2>2. I \subseteq 0 .. i - 2
    <3> SUFFICES ASSUME NEW j \in I, j \notin 0 .. i - 2 PROVE FALSE
      OBVIOUS
    <3>1. j \in Nat
      BY <1>1, <1>2
    <3>2. i - 1 \in 0 .. j
      BY <2>1, <3>1
    <3>3. QED
      BY <1>2, <1>4, <3>2
  <2>3. IsFiniteSet(0 .. i - 2) /\ Cardinality(0 .. i - 2) <= i - 1
    <3>1. 0 \in Int /\ i - 2 \in Int
      BY <2>1
    <3>2. IsFiniteSet(0 .. i - 2) /\ Cardinality(0 .. i - 2) = IF 0 > i - 2 THEN 0 ELSE (i - 2) - 0 + 1
      BY <3>1, FS_Interval
    <3>3. QED
      BY <2>1, <3>2
  <2>4. n <= Cardinality(0 .. i - 2) /\ Cardinality(0 .. i - 2) \in Nat
    BY <2>2, <2>3, FS_Subset, FS_CardinalityType
  <2>5. QED
    BY <1>3, <2>1, <2>3, <2>4
<1>5. QED
  BY <1>4

LEMMA ImplsAreNames == ASSUME conf \in Conf PROVE Impls \in Seq(Names)
<1> DEFINE n == Cardinality(Instances)
           ss == [i \in 1 .. n |-> conf.plugins[i - 1]]
<1>1. PICK D \in SUBSET Nat : IsFiniteSet(D) /\ conf.plugins \in [D -> Seq(Names)]
  BY DEF Conf, PluginLists
<1>2. n \in Nat
  <2>1. Instances \in SUBSET D
    BY <1>1 DEF Instances
  <2>2. QED
    BY <1>1, <2>1, FS_Subset, FS_CardinalityType
<1>3. \A i \in 1 .. n : conf.plugins[i - 1] \in Seq(Names)
  BY <1>1, FirstInstances
<1>4. ss \in Seq(Seq(Names))
  <2>1. ss \in [1 .. n -> Seq(Names)]
    BY <1>3
  <2> HIDE DEF ss
  <2>2. QED
    BY <1>2, <2>1
<1>5. Impls = FlattenSeq(ss)
  BY DEF Impls
<1> HIDE DEF ss
<1>6. QED
  BY <1>4, <1>5, Flattened

-----------------------------------------------------------------------------
(* Plugins are registered once.                                            *)

Pending(k) == IF k \in Libraries THEN Count(todo, k) ELSE 0
Wanted(k)  == IF loaded /\ k \in Libraries THEN Count(Impls, k) ELSE 0

Plugged ==
  /\ stage = "args" => devices = <<>> /\ ~loaded
  /\ stage = "recipes" =>
       /\ todo \in Seq(Recipes \cup Names)
       /\ \A k \in Sdl : Kin(devices, k) + Pending(k) = Wanted(k)
  /\ Operating => \A k \in Sdl : Kin(devices, k) = Wanted(k)

LEMMA SdlIs == Sdl = {"sdlled", "sdlvga"} /\ Sdl \cap Recipes = {} /\ Sdl \subseteq Kinds
<1>1. /\ Device["sdlled"].cycle = TRUE /\ Device["sdlvga"].cycle = TRUE
      /\ Device["prealloc"].cycle = FALSE /\ Device["sparse"].cycle = FALSE
      /\ Device["serial"].cycle = FALSE
  BY DEF Device, ram_add_device, sparseram_add_device, serial_add_device,
         sdlled_add_device, sdlvga_add_device
<1>2. Sdl = {"sdlled", "sdlvga"}
  BY <1>1, KindsAre DEF Sdl
<1>3. QED
  BY <1>2, KindsAre DEF Recipes

LEMMA Joined ==
  ASSUME NEW S, NEW s \in Seq(S), NEW t \in Seq(S)
  PROVE  s \o t \in Seq(S)
OBVIOUS

\* No name of a recipe is that of a display.
LEMMA CountRecipes ==
  ASSUME NEW s \in Seq(Recipes), NEW k \in Sdl
  PROVE  Count(s, k) = 0
<1>1. {i \in DOMAIN s : s[i] = k} = {}
  BY SdlIs
<1>2. QED
  BY <1>1, FS_EmptySet DEF Count

LEMMA SameWanted ==
  ASSUME UNCHANGED <<conf, loaded>>
  PROVE  \A k \in Sdl : Wanted(k)' = Wanted(k)
<1>1. Impls' = Impls
  BY DEF Impls, Instances
<1>2. QED
  BY <1>1 DEF Wanted

LEMMA WantedCounts ==
  ASSUME Inv, NEW k PROVE Wanted(k) \in Nat /\ Count(Impls, k) \in Nat
<1>1. Impls \in Seq(Names)
  BY ImplsAreNames DEF Inv, Settings
<1>2. Count(Impls, k) \in Nat
  BY <1>1, Counts
<1>3. QED
  BY <1>2 DEF Wanted

\* The first of the todo list, and the rest.
LEMMA PendingFirst ==
  ASSUME Plugged, stage = "recipes", todo # <<>>, NEW k \in Sdl
  PROVE  /\ Tail(todo) \in Seq(Recipes \cup Names)
         /\ Count(Tail(todo), k) \in Nat
         /\ k # Head(todo) => Count(todo, k) = Count(Tail(todo), k)
         /\ k = Head(todo) => Count(todo, k) = Count(Tail(todo), k) + 1
<1>1. todo \in Seq(Recipes \cup Names)
  BY DEF Plugged
<1>2. Tail(todo) \in Seq(Recipes \cup Names)
  BY <1>1, HeadAndTail
<1>3. Count(Tail(todo), k) \in Nat
  BY <1>2, Counts
<1>4. Count(todo, k) = Count(Tail(todo), k) + IF Head(todo) = k THEN 1 ELSE 0
  BY <1>1, CountFirst
<1>5. QED
  BY <1>2, <1>3, <1>4

LEMMA InitPlugged == Init => Plugged
BY DEF Init, devices_setup, Plugged, Operating

LEMMA OpenPlugs == Inv /\ Plugged /\ OpenInput => Plugged'
<1> SUFFICES ASSUME Inv, Plugged, OpenInput PROVE Plugged'
  OBVIOUS
<1>1. /\ stage = "args" /\ stage' \in {"recipes", "failed"}
      /\ UNCHANGED <<conf, loaded>> /\ devices' = devices
      /\ stage' = "recipes" =>
           todo' = (IF conf.run_defaults THEN <<"sparse", "serial", "plugin">> ELSE <<>>) \o conf.recipes
  BY DEF OpenInput, deviceVars
<1>2. devices' = <<>> /\ ~loaded'
  BY <1>1 DEF Plugged
<1>3. ASSUME stage' = "recipes" PROVE todo' \in Seq(Recipes)
  <2>1. conf.recipes \in Seq(Recipes)
    BY DEF Inv, Settings, Conf
  <2>2. <<"sparse", "serial", "plugin">> \in Seq(Recipes) /\ <<>> \in Seq(Recipes)
    BY DEF Recipes
  <2>3. (IF conf.run_defaults THEN <<"sparse", "serial", "plugin">> ELSE <<>>) \in Seq(Recipes)
    BY <2>2
  <2>4. QED
    BY <1>1, <1>3, <2>1, <2>3, Joined
<1>4. ASSUME stage' = "recipes", NEW k \in Sdl
      PROVE  Kin(devices', k) + Pending(k)' = Wanted(k)'
  <2>1. Kin(devices', k) = 0
    BY <1>2, KinNone
  <2>2. Count(todo', k) = 0
    BY <1>3, <1>4, CountRecipes
  <2>3. Pending(k)' = 0 /\ Wanted(k)' = 0
    BY <1>2, <2>2 DEF Pending, Wanted
  <2>4. QED
    BY <2>1, <2>3
<1>5. todo' \in Seq(Recipes) => todo' \in Seq(Recipes \cup Names)
  OBVIOUS
<1>6. stage' # "args" /\ ~Operating'
  BY <1>1 DEF Operating
<1>7. QED
  BY <1>3, <1>4, <1>5, <1>6 DEF Plugged

\* Steps that take a recipe or a plugin off the list and add at most a device.
LEMMA TakePlugs ==
  ASSUME Inv, Plugged, stage = "recipes", todo # <<>>,
         stage' \in {"recipes", "failed", "crashed"}, UNCHANGED <<conf, loaded>>,
         stage' = "recipes" => todo' = Tail(todo),
         \A k \in Sdl : Kin(devices', k) =
           Kin(devices, k) + IF k = Head(todo) /\ k \in Libraries THEN 1 ELSE 0
  PROVE  Plugged'
<1>1. ASSUME stage' = "recipes", NEW k \in Sdl
      PROVE  Kin(devices', k) + Pending(k)' = Wanted(k)'
  <2>1. Wanted(k)' = Wanted(k) /\ Kin(devices, k) + Pending(k) = Wanted(k)
    BY SameWanted DEF Plugged
  <2>2. Kin(devices, k) \in Nat
    BY KinCounts DEF Inv, Registry
  <2>3. /\ Count(Tail(todo), k) \in Nat
        /\ k # Head(todo) => Count(todo, k) = Count(Tail(todo), k)
        /\ k = Head(todo) => Count(todo, k) = Count(Tail(todo), k) + 1
    BY PendingFirst
  <2>4. Pending(k)' = IF k \in Libraries THEN Count(Tail(todo), k) ELSE 0
    BY <1>1 DEF Pending
  <2>5. QED
    BY <2>1, <2>2, <2>3, <2>4 DEF Pending
<1>2. Tail(todo) \in Seq(Recipes \cup Names)
  <2>1. todo \in Seq(Recipes \cup Names)
    BY DEF Plugged
  <2>2. QED
    BY <2>1, HeadAndTail
<1>3. ~Operating' /\ stage' # "args"
  BY DEF Operating
<1>4. QED
  BY <1>1, <1>2, <1>3 DEF Plugged

LEMMA DevicePlugs ==
  ASSUME Inv, NEW d \in Kinds, add_device(d), NEW k
  PROVE  Kin(devices', k) = Kin(devices, k) + IF d = k THEN 1 ELSE 0
<1> DEFINE e == [kind |-> d, cookie |-> Len(devices) + 1]
<1>1. devices \in Seq(Dev) /\ e \in Dev /\ e.kind = d
  BY DEF Inv, Registry, Dev
<1>2. devices' = Append(devices, e)
  BY DEF add_device
<1> HIDE DEF e
<1>3. QED
  BY <1>1, <1>2, KinAppend

LEMMA RecipePlugs ==
  Inv /\ Plugged /\ (recipe_device \/ plugin_success \/ recipe_jit) => Plugged'
<1>0. ASSUME Inv, UNCHANGED deviceVars, NEW k PROVE Kin(devices', k) = Kin(devices, k) /\ Kin(devices, k) \in Nat
  <2>1. Kin(devices, k) \in Nat
    BY <1>0, KinCounts DEF Inv, Registry
  <2>2. QED
    BY <1>0, <2>1 DEF deviceVars
<1>1. ASSUME Inv, Plugged, recipe_device PROVE Plugged'
  <2>1. PICK r \in {"prealloc", "sparse", "serial"} : Running(r) /\ add_device(r)
    BY <1>1 DEF recipe_device
  <2>2. /\ stage = "recipes" /\ todo # <<>> /\ Head(todo) = r /\ todo' = Tail(todo)
        /\ UNCHANGED <<stage, conf, loaded>>
    BY <1>1, <2>1 DEF recipe_device, Running
  <2>3. r \in Kinds /\ r \notin Sdl
    BY KindsAre, SdlIs
  <2>4. \A k \in Sdl : Kin(devices', k) = Kin(devices, k) + IF r = k THEN 1 ELSE 0
    BY <1>1, <2>1, <2>3, DevicePlugs
  <2>5. \A k \in Sdl : k # r
    BY <2>3
  <2>6. \A k \in Sdl : Kin(devices', k) =
          Kin(devices, k) + IF k = Head(todo) /\ k \in Libraries THEN 1 ELSE 0
    BY <2>2, <2>4, <2>5
  <2>7. QED
    BY <1>1, <2>2, <2>6, TakePlugs
<1>2. ASSUME Inv, Plugged, plugin_success PROVE Plugged'
  <2>1. /\ stage = "recipes" /\ todo # <<>> /\ todo' = Tail(todo)
        /\ UNCHANGED <<stage, conf, loaded>>
    BY <1>2 DEF plugin_success
  <2>2. \A k \in Sdl : Kin(devices', k) =
          Kin(devices, k) + IF k = Head(todo) /\ k \in Libraries THEN 1 ELSE 0
    <3>1. CASE Head(todo) \in Libraries
      <4>1. add_device(Head(todo)) /\ Head(todo) \in Kinds
        BY <1>2, <3>1, ConstantsOK DEF plugin_success
      <4>2. \A k \in Sdl : Kin(devices', k) = Kin(devices, k) + IF Head(todo) = k THEN 1 ELSE 0
        BY <1>2, <4>1, DevicePlugs
      <4>3. QED
        BY <3>1, <4>2
    <3>2. CASE Head(todo) \notin Libraries
      <4>1. UNCHANGED deviceVars
        BY <1>2, <3>2 DEF plugin_success
      <4>2. \A k \in Sdl : Kin(devices', k) = Kin(devices, k) /\ Kin(devices, k) \in Nat
        BY <1>0, <1>2, <4>1
      <4>3. QED
        BY <3>2, <4>2
    <3>3. QED
      BY <3>1, <3>2
  <2>3. QED
    BY <1>2, <2>1, <2>2, TakePlugs
<1>3. ASSUME Inv, Plugged, recipe_jit PROVE Plugged'
  <2>1. /\ stage = "recipes" /\ todo # <<>> /\ Head(todo) = "jit"
        /\ UNCHANGED <<conf, loaded>> /\ UNCHANGED deviceVars
        /\ stage' \in {"recipes", "failed", "crashed"}
        /\ stage' = "recipes" => todo' = Tail(todo)
    BY <1>3 DEF recipe_jit, Running
  <2>2. \A k \in Sdl : Kin(devices', k) = Kin(devices, k) /\ Kin(devices, k) \in Nat
    BY <1>0, <1>3, <2>1
  <2>3. \A k \in Sdl : k # Head(todo)
    BY <2>1, SdlIs
  <2>4. \A k \in Sdl : Kin(devices', k) =
          Kin(devices, k) + IF k = Head(todo) /\ k \in Libraries THEN 1 ELSE 0
    BY <2>2, <2>3
  <2>5. QED
    BY <1>3, <2>1, <2>4, TakePlugs
<1>4. QED
  BY <1>1, <1>2, <1>3

\* The plugin recipe appends every name once, the second time none.
LEMMA PluginPlugs == Inv /\ Plugged /\ recipe_plugin => Plugged'
<1> SUFFICES ASSUME Inv, Plugged, recipe_plugin PROVE Plugged'
  OBVIOUS
<1>1. /\ stage = "recipes" /\ todo # <<>> /\ Head(todo) = "plugin"
      /\ stage' \in {"recipes", "crashed"} /\ loaded' = TRUE
      /\ stage' = "recipes" => todo' = (IF loaded THEN <<>> ELSE Impls) \o Tail(todo)
      /\ conf' = conf /\ devices' = devices
  BY DEF recipe_plugin, Running, AlreadyLoaded, deviceVars
<1>2. Impls \in Seq(Names) /\ Impls' = Impls
  <2>1. Impls' = Impls
    BY <1>1 DEF Impls, Instances
  <2>2. QED
    BY <2>1, ImplsAreNames DEF Inv, Settings
<1>3. Tail(todo) \in Seq(Recipes \cup Names) /\ Impls \in Seq(Recipes \cup Names)
  <2>1. todo \in Seq(Recipes \cup Names)
    BY <1>1 DEF Plugged
  <2>2. QED
    BY <1>1, <1>2, <2>1, HeadAndTail
<1>4. ASSUME stage' = "recipes" PROVE todo' \in Seq(Recipes \cup Names)
  <2>1. (IF loaded THEN <<>> ELSE Impls) \in Seq(Recipes \cup Names)
    BY <1>3
  <2>2. QED
    BY <1>1, <1>3, <1>4, <2>1, Joined
<1>5. ASSUME stage' = "recipes", NEW k \in Sdl
      PROVE  Kin(devices', k) + Pending(k)' = Wanted(k)'
  <2>1. k # Head(todo)
    BY <1>1, SdlIs
  <2>2. Count(todo, k) = Count(Tail(todo), k) /\ Count(Tail(todo), k) \in Nat
    BY <1>1, <2>1, PendingFirst
  <2>3. Kin(devices, k) \in Nat
    BY KinCounts DEF Inv, Registry
  <2>4. Count(Impls, k) \in Nat
    BY WantedCounts
  <2>5. Kin(devices, k) + Pending(k) = Wanted(k)
    BY <1>1 DEF Plugged
  <2>6. Wanted(k)' = IF k \in Libraries THEN Count(Impls, k) ELSE 0
    BY <1>1, <1>2 DEF Wanted
  <2>7. Pending(k)' = IF k \in Libraries THEN Count(todo', k) ELSE 0
    BY DEF Pending
  <2>8. Count(todo', k) = (IF loaded THEN 0 ELSE Count(Impls, k)) + Count(Tail(todo), k)
    <3>1. CASE loaded
      <4>1. todo' = Tail(todo)
        BY <1>1, <1>3, <1>5, <3>1
      <4>2. QED
        BY <2>2, <3>1, <4>1
    <3>2. CASE ~loaded
      <4>1. todo' = Impls \o Tail(todo)
        BY <1>1, <1>5, <3>2
      <4>2. QED
        BY <1>3, <3>2, <4>1, CountConcat
    <3>3. QED
      BY <3>1, <3>2
  <2>9. CASE k \notin Libraries
    BY <1>1, <2>3, <2>5, <2>6, <2>7, <2>9 DEF Pending, Wanted
  <2>10. CASE k \in Libraries /\ loaded
    BY <1>1, <2>2, <2>3, <2>4, <2>5, <2>6, <2>7, <2>8, <2>10 DEF Pending, Wanted
  <2>11. CASE k \in Libraries /\ ~loaded
    <3>1. Kin(devices, k) + Count(Tail(todo), k) = 0
      BY <2>2, <2>5, <2>11 DEF Pending, Wanted
    <3>2. Kin(devices, k) = 0 /\ Count(Tail(todo), k) = 0
      BY <2>2, <2>3, <3>1
    <3>3. QED
      BY <1>1, <2>4, <2>6, <2>7, <2>8, <2>11, <3>2
  <2>12. QED
    BY <2>9, <2>10, <2>11
<1>6. ~Operating' /\ stage' # "args"
  BY <1>1 DEF Operating
<1>7. QED
  BY <1>4, <1>5, <1>6 DEF Plugged

\* Sorting keeps the number of devices of a kind.
LEMMA FinalisePlugs == Inv /\ Plugged /\ Finalise => Plugged'
<1> SUFFICES ASSUME Inv, Plugged, Finalise PROVE Plugged'
  OBVIOUS
<1>1. /\ stage = "recipes" /\ todo = <<>> /\ stage' \in {"load", "failed"}
      /\ devices' \in Sorted /\ UNCHANGED <<conf, loaded>>
  BY DEF Finalise, devices_finalise
<1>2. devices \in Seq(Dev)
  BY DEF Inv, Registry
<1>3. PICK p : Moves(p, devices, devices')
  BY <1>1, <1>2, SortedOrders
<1>4. ASSUME NEW k \in Sdl PROVE Kin(devices', k) = Wanted(k)'
  <2>1. Kin(devices', k) = Kin(devices, k)
    BY <1>2, <1>3, KinMoved
  <2>2. Wanted(k)' = Wanted(k)
    BY <1>1, SameWanted
  <2>3. Pending(k) = 0
    BY <1>1, CountNone DEF Pending
  <2>4. Kin(devices, k) \in Nat /\ Kin(devices, k) + Pending(k) = Wanted(k)
    BY <1>1, <1>2, KinCounts DEF Plugged
  <2>5. QED
    BY <2>1, <2>2, <2>3, <2>4
<1>5. stage' # "args" /\ stage' # "recipes"
  BY <1>1
<1>6. QED
  BY <1>4, <1>5 DEF Plugged

\* All other steps leave the plugins and what was asked for alone.
LEMMA OtherPlugs ==
  ASSUME Plugged, UNCHANGED <<conf, loaded, devices>>,
         stage' \notin {"args", "recipes"}, Operating' => Operating
  PROVE  Plugged'
<1>1. \A k \in Sdl : Wanted(k)' = Wanted(k)
  BY SameWanted
<1>2. QED
  BY <1>1 DEF Plugged

LEMMA NextPlugged == Inv /\ Plugged /\ [Next]_vars => Plugged'
<1> SUFFICES ASSUME Inv, Plugged, [Next]_vars PROVE Plugged'
  OBVIOUS
<1>1. CASE parse_args
  <2>1. /\ stage = "args" /\ stage' \in {"args", "exit", "failed"}
        /\ devices' = devices /\ loaded' = loaded
    BY <1>1 DEF parse_args, deviceVars
  <2>2. QED
    BY <2>1 DEF Plugged, Operating
<1>2. CASE OpenInput
  BY <1>2, OpenPlugs
<1>3. CASE recipe_device \/ plugin_success \/ recipe_jit
  BY <1>3, RecipePlugs
<1>4. CASE recipe_plugin
  BY <1>4, PluginPlugs
<1>5. CASE Finalise
  BY <1>5, FinalisePlugs
<1>6. CASE load_sim \/ Start
  <2>1. /\ stage = "load" /\ stage' \in {"load", "run", "failed"}
        /\ UNCHANGED <<conf, loaded, devices>>
    BY <1>6 DEF load_sim, Start, deviceVars
  <2>2. QED
    BY <2>1, OtherPlugs DEF Operating
<1>7. CASE Run
  <2>1. stage = "run" /\ UNCHANGED frozen
    BY <1>7 DEF Run, Block, Fetch, Fails, Insn, Pump, At
  <2>2. stage' \in {"run", "close", "exit"}
    BY <1>7, <2>1 DEF Run, Block, Fetch, Fails, Insn, Pump, Return
  <2>3. QED
    BY <2>1, <2>2, OtherPlugs DEF Operating, frozen
<1>8. CASE Close
  <2>1. stage' = "done" /\ UNCHANGED <<conf, loaded, devices>>
    BY <1>8 DEF Close
  <2>2. QED
    BY <2>1, OtherPlugs DEF Operating
<1>9. CASE Event
  <2>1. stage = "run" /\ stage' = "run" /\ UNCHANGED <<conf, loaded, devices>>
    BY <1>9 DEF Event, mainVars
  <2>2. QED
    BY <2>1, OtherPlugs DEF Operating
<1>10. CASE Stopped \/ UNCHANGED vars
  <2>1. /\ stage' = stage /\ conf' = conf /\ loaded' = loaded /\ devices' = devices /\ todo' = todo
    BY <1>10 DEF Stopped, vars, mainVars, deviceVars
  <2>2. \A k \in Sdl : Wanted(k)' = Wanted(k) /\ Pending(k)' = Pending(k)
    BY <2>1, SameWanted DEF Pending
  <2>3. QED
    BY <2>1, <2>2 DEF Plugged, Operating
<1>11. QED
  BY <1>1, <1>2, <1>3, <1>4, <1>5, <1>6, <1>7, <1>8, <1>9, <1>10 DEF Next

LEMMA PluggedOnce == Inv /\ Plugged => PluginsOnce
<1> SUFFICES ASSUME Inv, Plugged, Operating, NEW k \in Sdl
             PROVE  Cardinality({i \in DOMAIN devices : devices[i].kind = k})
                      = IF loaded THEN Cardinality({i \in DOMAIN Impls : Impls[i] = k /\ k \in Libraries})
                        ELSE 0
  BY DEF PluginsOnce
<1>1. Kin(devices, k) = Wanted(k)
  BY DEF Plugged
<1>2. CASE k \in Libraries
  <2>1. {i \in DOMAIN Impls : Impls[i] = k /\ k \in Libraries} = {i \in DOMAIN Impls : Impls[i] = k}
    BY <1>2
  <2>2. QED
    BY <1>1, <1>2, <2>1 DEF Kin, Wanted, Count
<1>3. CASE k \notin Libraries
  <2>1. {i \in DOMAIN Impls : Impls[i] = k /\ k \in Libraries} = {}
    BY <1>3
  <2>2. QED
    BY <1>1, <1>3, <2>1, FS_EmptySet DEF Kin, Wanted
<1>4. QED
  BY <1>2, <1>3

\* Every plugin that was asked for and can be loaded is registered once, for
\* any lists of plugins, any recipes and any libraries missing.
THEOREM PluginsAreOnce == Spec => []PluginsOnce
<1>1. Inv /\ Plugged /\ [Next]_vars => (Inv /\ Plugged)'
  BY NextInv, NextPlugged
<1>2. Init => Inv /\ Plugged
  BY InitInv, InitPlugged
<1>3. QED
  BY <1>1, <1>2, PluggedOnce, PTL DEF Spec
=============================================================================
