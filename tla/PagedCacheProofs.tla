-------------------------- MODULE PagedCacheProofs --------------------------
(***************************************************************************)
(* The layout of the paged pools has no collisions, for any numbers of     *)
(* blocks, heads, slots and dimensions; what an append therefore leaves at *)
(* each address; and which head's rows a query head reads.                 *)
(***************************************************************************)
EXTENDS PagedAttention, CacheManagerProofs

---------------------------------------------------------------------------
(* Numbers in two digits *)

\* Index c of a row-major array is in one of its rows.
LEMMA RowMajor ==
  ASSUME NEW w \in Nat, NEW rows \in Nat, NEW c \in 1 .. rows * w
  PROVE  ((c - 1) \div w) + 1 \in 1 .. rows
<1> DEFINE q == (c - 1) \div w
<1>1. w > 0 /\ c - 1 \in Nat /\ c - 1 < rows * w
  <2>1. rows * w \in Nat
    OBVIOUS
  <2>2. rows * 0 = 0
    OBVIOUS
  <2>3. QED BY <2>1, <2>2
<1>2. q \in Nat /\ q * w <= c - 1
  BY <1>1
<1>3. q < rows
  <2> HIDE DEF q
  <2>1. SUFFICES ASSUME q >= rows PROVE FALSE
    BY <1>2
  <2>2. PICK k \in Nat : q = rows + k
    <3>1. q - rows \in Nat /\ q = rows + (q - rows)
      BY <1>2, <2>1
    <3>2. QED BY <3>1
  <2>3. q * w = rows * w + k * w
    BY <2>2
  <2>4. k * w \in Nat /\ rows * w \in Nat
    OBVIOUS
  <2>5. QED BY <1>1, <1>2, <2>3, <2>4
<1> HIDE DEF q
<1>4. QED BY <1>2, <1>3 DEF q

\* Dividing a number in two digits by the radix gives the digits back.
LEMMA DigitsOf ==
  ASSUME NEW w \in Nat \ {0}, NEW a \in Nat, NEW x \in 0 .. w - 1
  PROVE  (a * w + x) \div w = a /\ (a * w + x) % w = x
<1> DEFINE c == a * w + x
<1>1. c \in Nat
  OBVIOUS
<1> HIDE DEF c
<1>2. c = (c \div w) * w + (c % w) /\ c \div w \in Nat /\ c % w \in 0 .. w - 1
  BY <1>1
<1>3. (c \div w) * w + (c % w) = a * w + x
  BY <1>2 DEF c
<1> DEFINE q == c \div w
           r == c % w
<1>4. q \in Nat /\ r \in 0 .. w - 1 /\ q * w + r = a * w + x
  BY <1>2, <1>3
<1> HIDE DEF q, r
<1>5. q = a /\ r = x
  BY <1>4, MixedRadix
<1>6. QED BY <1>5 DEF q, r, c

\* A number is its quotient and its remainder.
LEMMA QuotientAndRest ==
  ASSUME NEW a \in Nat, NEW b \in Nat, a \div BlockSize = b \div BlockSize, SlotOf(a) = SlotOf(b)
  PROVE  a = b
<1>1. BlockSize \in Nat /\ BlockSize > 0
  BY LayoutAssumption
<1>2. /\ a = BlockSize * (a \div BlockSize) + (a % BlockSize)
      /\ b = BlockSize * (b \div BlockSize) + (b % BlockSize)
  BY <1>1
<1>3. a % BlockSize = b % BlockSize
  BY DEF SlotOf
<1>4. QED BY <1>2, <1>3

---------------------------------------------------------------------------
(* The layout of the paged pools *)

\* Different rows have different scales, inside the array.
LEMMA ScaleOffsetsInjective ==
  ASSUME NEW b \in Block, NEW h \in KvHead, NEW s \in Slot,
         NEW c \in Block, NEW g \in KvHead, NEW t \in Slot
  PROVE  /\ PagedScaleOffset(b, h, s) \in 0 .. ScalesSize - 1
         /\ PagedScaleOffset(b, h, s) = PagedScaleOffset(c, g, t) =>
              b = c /\ h = g /\ s = t
<1> DEFINE bh == b * KvHeads + h
           cg == c * KvHeads + g
<1>1. /\ NumBlocks \in Nat /\ BlockSize \in Nat \ {0} /\ KvHeads \in Nat \ {0}
      /\ b \in 0 .. NumBlocks - 1 /\ c \in 0 .. NumBlocks - 1
      /\ h \in 0 .. KvHeads - 1 /\ g \in 0 .. KvHeads - 1
      /\ s \in 0 .. BlockSize - 1 /\ t \in 0 .. BlockSize - 1
  BY LayoutAssumption, HeadsAssumption DEF Block, KvHead, Slot
<1>2. bh \in 0 .. NumBlocks * KvHeads - 1 /\ cg \in 0 .. NumBlocks * KvHeads - 1
  BY <1>1, RadixBound
<1>3. b \in Nat /\ c \in Nat
  BY <1>1
<1>4. bh = cg => b = c /\ h = g
  BY <1>1, <1>3, MixedRadix
<1> HIDE DEF bh, cg
<1>5. NumBlocks * KvHeads \in Nat
  BY <1>1
<1>6. bh \in Nat /\ cg \in Nat
  BY <1>2, <1>5
<1>7. bh * BlockSize + s \in 0 .. NumBlocks * KvHeads * BlockSize - 1
  BY <1>1, <1>2, <1>5, RadixBound
<1>8. bh * BlockSize + s = cg * BlockSize + t => bh = cg /\ s = t
  BY <1>1, <1>6, MixedRadix
<1>9. QED BY <1>4, <1>7, <1>8 DEF PagedScaleOffset, ScalesSize, bh, cg

\* No two elements of the pools share an address, and every address of an
\* element of a block, head, slot and dimension of the layout is inside the
\* pool: an append can only touch the rows it was asked to.
THEOREM OffsetsInjective ==
  ASSUME NEW b \in Block, NEW h \in KvHead, NEW s \in Slot, NEW d \in Dim,
         NEW c \in Block, NEW g \in KvHead, NEW t \in Slot, NEW e \in Dim
  PROVE  /\ PagedOffset(b, h, s, d) \in 0 .. PoolSize - 1
         /\ PagedOffset(b, h, s, d) = PagedOffset(c, g, t, e) =>
              b = c /\ h = g /\ s = t /\ d = e
<1> DEFINE u == PagedScaleOffset(b, h, s)
           v == PagedScaleOffset(c, g, t)
<1>1. /\ HeadDim \in Nat \ {0} /\ ScalesSize \in Nat
      /\ d \in 0 .. HeadDim - 1 /\ e \in 0 .. HeadDim - 1
  BY LayoutAssumption, HeadsAssumption DEF Dim, ScalesSize
<1>2. u \in 0 .. ScalesSize - 1 /\ v \in 0 .. ScalesSize - 1
      /\ (u = v => b = c /\ h = g /\ s = t)
  BY ScaleOffsetsInjective
<1>3. PagedOffset(b, h, s, d) = u * HeadDim + d /\ PagedOffset(c, g, t, e) = v * HeadDim + e
  BY DEF PagedOffset, PagedScaleOffset
<1>4. PoolSize = ScalesSize * HeadDim
  BY DEF PoolSize, ScalesSize
<1> HIDE DEF u, v
<1>5. u * HeadDim + d \in 0 .. ScalesSize * HeadDim - 1
  BY <1>1, <1>2, RadixBound
<1>6. u \in Nat /\ v \in Nat
  BY <1>1, <1>2
<1>7. u * HeadDim + d = v * HeadDim + e => u = v /\ d = e
  BY <1>1, <1>6, MixedRadix
<1>8. QED BY <1>2, <1>3, <1>4, <1>5, <1>7

---------------------------------------------------------------------------
(* One append. *)

\* The element of a row is at its address and that of no other row.
LEMMA RowAddress ==
  ASSUME NEW b \in Block, NEW h \in KvHead, NEW s \in Slot, NEW d \in Dim,
         NEW c \in Block, NEW g \in KvHead, NEW t \in Slot
  PROVE  LET a == PagedOffset(b, h, s, d)
             f == PagedOffset(c, g, t, 0)
         IN  /\ f <= a /\ a < f + HeadDim => c = b /\ g = h /\ t = s
             /\ c = b /\ g = h /\ t = s => f <= a /\ a < f + HeadDim /\ a - f = d
<1> DEFINE a == PagedOffset(b, h, s, d)
           f == PagedOffset(c, g, t, 0)
           x == ((b * KvHeads + h) * BlockSize + s) * HeadDim
           y == ((c * KvHeads + g) * BlockSize + t) * HeadDim
<1>1. /\ NumBlocks \in Nat /\ BlockSize \in Nat \ {0} /\ KvHeads \in Nat \ {0}
      /\ HeadDim \in Nat \ {0} /\ b \in Int /\ c \in Int /\ h \in Int /\ g \in Int
      /\ s \in Int /\ t \in Int /\ d \in 0 .. HeadDim - 1
  BY LayoutAssumption, HeadsAssumption DEF Block, KvHead, Slot, Dim
<1>2. x \in Int /\ y \in Int
  BY <1>1
<1>3. a = x + d /\ f = y + 0
  BY DEF PagedOffset
<1>4. c = b /\ g = h /\ t = s => x = y
  OBVIOUS
<1>5. ASSUME f <= a, a < f + HeadDim PROVE c = b /\ g = h /\ t = s
  <2> DEFINE e == a - f
  <2>1. e \in 0 .. HeadDim - 1 /\ a = y + e
    <3> HIDE DEF x, y, a, f
    <3>1. QED BY <1>1, <1>2, <1>3, <1>5
  <2> HIDE DEF e
  <2>2. e \in Dim /\ a = PagedOffset(c, g, t, e)
    BY <2>1 DEF Dim, PagedOffset
  <2>3. QED BY <2>2, OffsetsInjective
<1>6. ASSUME x = y PROVE f <= a /\ a < f + HeadDim /\ a - f = d
  <2> HIDE DEF x, y, a, f
  <2>1. QED BY <1>1, <1>2, <1>3, <1>6
<1>7. QED BY <1>4, <1>5, <1>6

\* The rows that an append of new positions writes.
Wanted(tables, base, past, new) ==
  \A s \in 0 .. new - 1 : PhysAt(tables, base, past + s) \in Block
Hits(tables, base, past, s, b, sl) ==
  PhysAt(tables, base, past + s) = b /\ SlotOf(past + s) = sl
NoHit(tables, base, past, new, b, sl) ==
  \A s \in 0 .. new - 1 : ~ Hits(tables, base, past, s, b, sl)
OnlyHit(tables, base, past, new, b, sl, s) ==
  /\ Hits(tables, base, past, s, b, sl)
  /\ \A u \in 0 .. new - 1 : Hits(tables, base, past, u, b, sl) => u = s
WriteOf(tables, base, past, s, g) ==
  [phys |-> PhysAt(tables, base, past + s), slot |-> SlotOf(past + s),
   pos |-> past + s, head |-> g]

\* Every wanted position is written for every head.
LEMMA Written ==
  ASSUME NEW tables, NEW base, NEW past, NEW new, NEW s \in 0 .. new - 1, NEW h \in KvHead
  PROVE  WriteOf(tables, base, past, s, h) \in Appended(tables, base, past, new)
<1>1. Appended(tables, base, past, new) =
        {WriteOf(tables, base, past, u, g) : u \in 0 .. new - 1, g \in KvHead}
  BY DEF Appended, WriteOf
<1> DEFINE x == WriteOf(tables, base, past, s, h)
           F(u, g) == WriteOf(tables, base, past, u, g)
           A == 0 .. new - 1
           H == KvHead
<1>2. x = F(s, h) /\ s \in A /\ h \in H /\ Appended(tables, base, past, new) = {F(u, g) : u \in A, g \in H}
  BY <1>1
<1> HIDE DEF x, F, A, H
<1>3. x \in {F(u, g) : u \in A, g \in H}
  BY ONLY <1>2
<1>4. QED BY <1>2, <1>3 DEF x

\* A slot is one of its block's.
LEMMA SlotOfTyped == \A pos \in Nat : SlotOf(pos) \in Slot
BY LayoutAssumption DEF SlotOf, Slot

\* What an append leaves at the address of an element: what was there, when it
\* writes no position to that block and slot, and the element of the position
\* it writes there, when that is only one.
KvLeft(pl, tables, base, past, new, owner, b, h, sl, d) ==
  LET a == PagedOffset(b, h, sl, d)
      q == KvAppend(pl, tables, base, past, new, owner)
  IN  /\ NoHit(tables, base, past, new, b, sl) => q[a] = pl[a]
      /\ \A s \in 0 .. new - 1 :
           OnlyHit(tables, base, past, new, b, sl, s) => q[a] = <<owner, past + s, h, d>>
ScaleLeft(sc, tables, base, past, new, owner, b, h, sl) ==
  LET a == PagedScaleOffset(b, h, sl)
      q == ScaleAppend(sc, tables, base, past, new, owner)
  IN  /\ NoHit(tables, base, past, new, b, sl) => q[a] = sc[a]
      /\ \A s \in 0 .. new - 1 :
           OnlyHit(tables, base, past, new, b, sl, s) => q[a] = <<owner, past + s, h>>

\* So it leaves it.
LEMMA KvAppendAt ==
  ASSUME NEW pl, DOMAIN pl = 0 .. PoolSize - 1, NEW tables, NEW base, NEW past \in Nat,
         NEW new \in Nat, NEW owner, Wanted(tables, base, past, new),
         NEW b \in Block, NEW h \in KvHead, NEW sl \in Slot, NEW d \in Dim
  PROVE  KvLeft(pl, tables, base, past, new, owner, b, h, sl, d)
<1> DEFINE a == PagedOffset(b, h, sl, d)
           q == KvAppend(pl, tables, base, past, new, owner)
           From(r) == PagedOffset(r.phys, r.head, r.slot, 0)
           W == {r \in Appended(tables, base, past, new) : From(r) <= a /\ a < From(r) + HeadDim}
<1>1. a \in DOMAIN pl
  BY OffsetsInjective
<1>2. q[a] = IF W = {} THEN pl[a]
             ELSE <<owner, LastOf(W).pos, LastOf(W).head, a - From(LastOf(W))>>
  BY <1>1 DEF KvAppend
<1>3. ASSUME NEW r \in W
      PROVE  \E s \in 0 .. new - 1 :
               /\ r = WriteOf(tables, base, past, s, h) /\ Hits(tables, base, past, s, b, sl)
  <2>1. PICK s \in 0 .. new - 1, g \in KvHead : r = WriteOf(tables, base, past, s, g)
    BY DEF Appended, WriteOf
  <2>2. /\ r.phys = PhysAt(tables, base, past + s) /\ r.slot = SlotOf(past + s) /\ r.head = g
        /\ past + s \in Nat
    BY <2>1 DEF WriteOf
  <2>3. r.phys \in Block /\ r.slot \in Slot /\ r.head \in KvHead
    BY <2>2, SlotOfTyped DEF Wanted
  <2>4. From(r) <= a /\ a < From(r) + HeadDim
    OBVIOUS
  <2> HIDE DEF W
  <2>5. r.phys = b /\ r.head = h /\ r.slot = sl
    BY <2>3, <2>4, RowAddress
  <2>6. QED BY <2>1, <2>2, <2>5 DEF Hits
<1>4. ASSUME NEW s \in 0 .. new - 1, Hits(tables, base, past, s, b, sl)
      PROVE  /\ WriteOf(tables, base, past, s, h) \in W
             /\ a - From(WriteOf(tables, base, past, s, h)) = d
  <2> DEFINE r == WriteOf(tables, base, past, s, h)
  <2>1. r \in Appended(tables, base, past, new)
    BY Written
  <2>2. r.phys = b /\ r.slot = sl /\ r.head = h
    BY <1>4 DEF WriteOf, Hits
  <2> HIDE DEF r
  <2>3. From(r) <= a /\ a < From(r) + HeadDim /\ a - From(r) = d
    BY <2>2, RowAddress
  <2>4. QED BY <2>1, <2>3 DEF r
<1> HIDE DEF W, From, a, q
<1>5. ASSUME \A s \in 0 .. new - 1 : ~ Hits(tables, base, past, s, b, sl) PROVE q[a] = pl[a]
  <2>1. W = {}
    BY <1>3, <1>5
  <2>2. QED BY <1>2, <2>1
<1>6. ASSUME NEW s \in 0 .. new - 1, Hits(tables, base, past, s, b, sl),
             \A u \in 0 .. new - 1 : Hits(tables, base, past, u, b, sl) => u = s
      PROVE  q[a] = <<owner, past + s, h, d>>
  <2> DEFINE r == WriteOf(tables, base, past, s, h)
  <2>1. W = {r}
    <3>1. \A x \in W : x = r
      BY <1>3, <1>6
    <3>2. r \in W
      BY <1>4, <1>6
    <3>3. QED BY <3>1, <3>2
  <2>2. r.pos = past + s /\ r.head = h /\ r.pos \in Nat
    BY DEF WriteOf
  <2>3. a - From(r) = d
    BY <1>4, <1>6
  <2> HIDE DEF r
  <2>4. LastOf(W) = r
    BY <2>1, <2>2 DEF LastOf
  <2>5. QED BY <1>2, <2>1, <2>2, <2>3, <2>4
<1>7. QED BY <1>5, <1>6 DEF a, q, NoHit, OnlyHit, KvLeft

\* The same of the scales.
LEMMA ScaleAppendAt ==
  ASSUME NEW sc, DOMAIN sc = 0 .. ScalesSize - 1, NEW tables, NEW base, NEW past \in Nat,
         NEW new \in Nat, NEW owner, Wanted(tables, base, past, new),
         NEW b \in Block, NEW h \in KvHead, NEW sl \in Slot
  PROVE  ScaleLeft(sc, tables, base, past, new, owner, b, h, sl)
<1> DEFINE a == PagedScaleOffset(b, h, sl)
           q == ScaleAppend(sc, tables, base, past, new, owner)
           W == {r \in Appended(tables, base, past, new) :
                   PagedScaleOffset(r.phys, r.head, r.slot) = a}
<1>1. a \in DOMAIN sc
  BY ScaleOffsetsInjective
<1>2. q[a] = IF W = {} THEN sc[a] ELSE <<owner, LastOf(W).pos, LastOf(W).head>>
  BY <1>1 DEF ScaleAppend
<1>3. ASSUME NEW r \in W
      PROVE  \E s \in 0 .. new - 1 :
               /\ r = WriteOf(tables, base, past, s, h) /\ Hits(tables, base, past, s, b, sl)
  <2>1. PICK s \in 0 .. new - 1, g \in KvHead : r = WriteOf(tables, base, past, s, g)
    BY DEF Appended, WriteOf
  <2>2. /\ r.phys = PhysAt(tables, base, past + s) /\ r.slot = SlotOf(past + s) /\ r.head = g
        /\ past + s \in Nat
    BY <2>1 DEF WriteOf
  <2>3. r.phys \in Block /\ r.slot \in Slot /\ r.head \in KvHead
    BY <2>2, SlotOfTyped DEF Wanted
  <2>4. PagedScaleOffset(r.phys, r.head, r.slot) = a
    OBVIOUS
  <2> HIDE DEF W
  <2>5. r.phys = b /\ r.head = h /\ r.slot = sl
    BY <2>3, <2>4, ScaleOffsetsInjective
  <2>6. QED BY <2>1, <2>2, <2>5 DEF Hits
<1>4. ASSUME NEW s \in 0 .. new - 1, Hits(tables, base, past, s, b, sl)
      PROVE  WriteOf(tables, base, past, s, h) \in W
  <2> DEFINE r == WriteOf(tables, base, past, s, h)
  <2>1. r \in Appended(tables, base, past, new)
    BY Written
  <2>2. r.phys = b /\ r.slot = sl /\ r.head = h
    BY <1>4 DEF WriteOf, Hits
  <2>3. QED BY <2>1, <2>2
<1> HIDE DEF W, a, q
<1>5. ASSUME \A s \in 0 .. new - 1 : ~ Hits(tables, base, past, s, b, sl) PROVE q[a] = sc[a]
  <2>1. W = {}
    BY <1>3, <1>5
  <2>2. QED BY <1>2, <2>1
<1>6. ASSUME NEW s \in 0 .. new - 1, Hits(tables, base, past, s, b, sl),
             \A u \in 0 .. new - 1 : Hits(tables, base, past, u, b, sl) => u = s
      PROVE  q[a] = <<owner, past + s, h>>
  <2> DEFINE r == WriteOf(tables, base, past, s, h)
  <2>1. W = {r}
    <3>1. \A x \in W : x = r
      BY <1>3, <1>6
    <3>2. r \in W
      BY <1>4, <1>6
    <3>3. QED BY <3>1, <3>2
  <2>2. r.pos = past + s /\ r.head = h /\ r.pos \in Nat
    BY DEF WriteOf
  <2> HIDE DEF r
  <2>3. LastOf(W) = r
    BY <2>1, <2>2 DEF LastOf
  <2>4. QED BY <1>2, <2>1, <2>2, <2>3
<1>7. QED BY <1>5, <1>6 DEF a, q, NoHit, OnlyHit, ScaleLeft

---------------------------------------------------------------------------
(* Heads *)

\* Every query head reads one of the K/V heads.
LEMMA HeadRead ==
  ASSUME NEW qh \in QHead
  PROVE  KvHeadOf(qh, QHeads, KvHeads) \in KvHead
<1> DEFINE g == QHeads \div KvHeads
<1>1. QHeads \in Nat /\ QHeads > 0 /\ KvHeads \in Nat /\ KvHeads > 0 /\ QHeads % KvHeads = 0
  BY QHeadsAssumption, HeadsAssumption
<1>2. QHeads = KvHeads * g + (QHeads % KvHeads) /\ g \in Nat
  BY <1>1
<1> HIDE DEF g
<1>3. QHeads = KvHeads * g /\ KvHeads * g \in Nat
  BY <1>1, <1>2
<1>4. qh \in 0 .. KvHeads * g - 1
  BY <1>3 DEF QHead
<1>5. qh + 1 \in 1 .. KvHeads * g /\ (qh + 1) - 1 = qh /\ qh \in Nat
  BY <1>3, <1>4
<1>6. ((qh + 1 - 1) \div g) + 1 \in 1 .. KvHeads
  BY <1>1, <1>2, <1>5, RowMajor
<1>7. g # 0
  BY <1>1, <1>2, <1>3
<1>8. qh \div g \in Int
  BY <1>2, <1>5, <1>7
<1>9. qh \div g \in 0 .. KvHeads - 1
  BY <1>1, <1>5, <1>6, <1>8
<1>10. QED BY <1>9 DEF KvHeadOf, KvHead, g
=============================================================================
