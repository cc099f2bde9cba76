------------------------ MODULE ChunkedDecodeProofs ------------------------
(***************************************************************************)
(* A sequence decoded in calls of any size, with drafts taken back, for    *)
(* any layout of the pools, block table, window and chunk: each token      *)
(* attended to the rows that a prefill of the whole sequence would read,   *)
(* and from the dense, the paged and the int8 cache to the same.           *)
(***************************************************************************)
EXTENDS ChunkedDecode, PagedCacheProofs

\* The premise of the module: the table has room for max_seq.
Decodable ==
  /\ MaxSeq \in Nat \ {0} /\ MaxSeq <= NumBlocks * BlockSize
  /\ SeqWindows \subseteq Nat /\ SeqChunks \subseteq Nat

AttnConfigs ==
  [causal : {TRUE}, window : Nat, chunk : Nat, seq_q : Nat \ {0}, seq_k : Nat \ {0}]

\* The keys that the token at position pos attends to, decoded alone.
KeysOf(c, pos) == AttendedKeys([c EXCEPT !.seq_q = 1, !.seq_k = pos + 1], 0)

\* The rows of those keys in each of the caches, by the stamps st of the
\* tokens.
DenseRows(c, st, pos, h) == [j \in KeysOf(c, pos) |-> <<st[j + 1], j, h>>]
PagedRows(c, st, pos, h) == [j \in KeysOf(c, pos) |-> [d \in Dim |-> <<st[j + 1], j, h, d>>]]
Q8Rows(c, st, pos, h) ==
  [j \in KeysOf(c, pos) |-> <<[d \in Dim |-> <<st[j + 1], j, h, d>>], <<st[j + 1], j, h>>>>]

\* What the queries of the token at pos should have read.
RowsOf(c, st, pos) ==
  [qh \in QHead |->
     LET h == KvHeadOf(qh, QHeads, KvHeads)
     IN  [dense |-> DenseRows(c, st, pos, h), paged |-> PagedRows(c, st, pos, h),
          q8 |-> Q8Rows(c, st, pos, h)]]

\* The caches hold the tokens st.
DenseHolds(rows, st) ==
  \A p \in 0 .. Len(st) - 1, h \in KvHead : rows[h * MaxSeq + p] = <<st[p + 1], p, h>>
PoolHolds(pl, tb, st) ==
  \A p \in 0 .. Len(st) - 1, h \in KvHead, d \in Dim :
    pl[PagedOffset(PhysAt(tb, 0, p), h, SlotOf(p), d)] = <<st[p + 1], p, h, d>>
ScalesHold(sc, tb, st) ==
  \A p \in 0 .. Len(st) - 1, h \in KvHead :
    sc[PagedScaleOffset(PhysAt(tb, 0, p), h, SlotOf(p))] = <<st[p + 1], p, h>>

TableOK(tb) ==
  /\ tb \in [1 .. NumBlocks -> Block]
  /\ \A a, b \in 1 .. NumBlocks : tb[a] = tb[b] => a = b

\* The caches hold the tokens that stand, and each of these read what it
\* should have.
ChunkedInv ==
  /\ cfg \in AttnConfigs /\ TableOK(table)
  /\ stamps \in Seq(Nat) /\ Len(stamps) <= MaxSeq /\ calls \in Nat
  /\ DOMAIN cache = 0 .. KvHeads * MaxSeq - 1
  /\ DOMAIN pool = 0 .. PoolSize - 1 /\ DOMAIN scales = 0 .. ScalesSize - 1
  /\ DenseHolds(cache, stamps) /\ PoolHolds(pool, table, stamps)
  /\ ScalesHold(scales, table, stamps)
  /\ seen = [p \in 1 .. Len(stamps) |-> RowsOf(cfg, stamps, p - 1)]

---------------------------------------------------------------------------
(* The keys of a token *)

\* What the masks leave to a query depends on where it stands, and not on the
\* call it is part of.
LEMMA KeysSame ==
  ASSUME NEW c \in AttnConfigs, NEW n \in Nat \ {0}, NEW total \in Nat, n <= total,
         NEW i \in 0 .. n - 1
  PROVE  AttendedKeys([c EXCEPT !.seq_q = n, !.seq_k = total], i) = KeysOf(c, total - n + i)
<1> DEFINE x == [c EXCEPT !.seq_q = n, !.seq_k = total]
           pos == total - n + i
           y == [c EXCEPT !.seq_q = 1, !.seq_k = pos + 1]
<1>1. pos \in Nat /\ pos < total
  OBVIOUS
<1>2. /\ x.causal = TRUE /\ x.window = c.window /\ x.chunk = c.chunk
      /\ x.seq_q = n /\ x.seq_k = total
      /\ c.window \in Nat
  BY DEF AttnConfigs
<1>3. /\ y.causal = TRUE /\ y.window = c.window /\ y.chunk = c.chunk
      /\ y.seq_q = 1 /\ y.seq_k = pos + 1
  BY DEF AttnConfigs
<1> HIDE DEF x, y
<1>4. Position(x, i) = pos /\ Position(y, 0) = pos
  BY <1>1, <1>2, <1>3 DEF Position
<1> HIDE DEF pos
<1>5. FirstKey(x, i) = FirstKey(y, 0) /\ LastKey(x, i) = LastKey(y, 0)
  BY <1>1, <1>2, <1>3, <1>4 DEF FirstKey, LastKey, Smaller
<1>6. \A j : MaskAllows(x, i, j) <=> MaskAllows(y, 0, j)
  BY <1>2, <1>3, <1>4 DEF MaskAllows
<1>7. AttendedKeys(x, i) = AttendedKeys(y, 0)
  BY <1>5, <1>6 DEF AttendedKeys, AllowedIn
<1> QED
  BY <1>7 DEF x, y, pos, KeysOf

\* They are at most as late as the token.
LEMMA KeysBefore ==
  ASSUME NEW c \in AttnConfigs, NEW pos \in Nat
  PROVE  KeysOf(c, pos) \subseteq 0 .. pos
<1> DEFINE y == [c EXCEPT !.seq_q = 1, !.seq_k = pos + 1]
<1>1. /\ y.causal = TRUE /\ y.window \in Nat /\ y.seq_q = 1 /\ y.seq_k = pos + 1
  BY DEF AttnConfigs
<1> HIDE DEF y
<1>2. Position(y, 0) = pos
  BY <1>1 DEF Position
<1>3. FirstKey(y, 0) \in Nat /\ LastKey(y, 0) = pos
  BY <1>1, <1>2 DEF FirstKey, LastKey, Larger, Smaller
<1>4. FirstKey(y, 0) .. LastKey(y, 0) \subseteq 0 .. pos
  BY <1>3
<1>5. AttendedKeys(y, 0) \subseteq 0 .. pos
  BY <1>4 DEF AttendedKeys, AllowedIn
<1> QED
  BY <1>5 DEF y, KeysOf

\* So what a token should have read depends on the tokens up to it.
LEMMA RowsOfPrefix ==
  ASSUME NEW c \in AttnConfigs, NEW pos \in Nat, NEW st, NEW tt,
         \A j \in 0 .. pos : st[j + 1] = tt[j + 1]
  PROVE  RowsOf(c, st, pos) = RowsOf(c, tt, pos)
<1>1. \A j \in KeysOf(c, pos) : st[j + 1] = tt[j + 1]
  BY KeysBefore
<1>2. \A h : DenseRows(c, st, pos, h) = DenseRows(c, tt, pos, h)
  BY <1>1 DEF DenseRows
<1>3. \A h : PagedRows(c, st, pos, h) = PagedRows(c, tt, pos, h)
  BY <1>1 DEF PagedRows
<1>4. \A h : Q8Rows(c, st, pos, h) = Q8Rows(c, tt, pos, h)
  BY <1>1 DEF Q8Rows
<1> QED
  BY <1>2, <1>3, <1>4 DEF RowsOf

---------------------------------------------------------------------------
(* What a call leaves in the caches *)

\* The table gives every position a place of its own.
LEMMA PlacesOfPositions ==
  ASSUME Decodable, NEW tb, TableOK(tb)
  PROVE  /\ \A p \in 0 .. MaxSeq - 1 : PhysAt(tb, 0, p) \in Block /\ SlotOf(p) \in Slot
         /\ \A p, r \in 0 .. MaxSeq - 1 :
              PhysAt(tb, 0, p) = PhysAt(tb, 0, r) /\ SlotOf(p) = SlotOf(r) => p = r
<1>1. NumBlocks \in Nat /\ BlockSize \in Nat \ {0} /\ NumBlocks * BlockSize \in Nat
  BY LayoutAssumption
<1>2. ASSUME NEW p \in 0 .. MaxSeq - 1
      PROVE  (p \div BlockSize) + 1 \in 1 .. NumBlocks /\ p \in Nat
  <2>1. p + 1 \in 1 .. NumBlocks * BlockSize /\ (p + 1) - 1 = p /\ p \in Nat
    BY <1>1 DEF Decodable
  <2> QED
    BY <1>1, <2>1, RowMajor
<1>3. ASSUME NEW p \in 0 .. MaxSeq - 1
      PROVE  PhysAt(tb, 0, p) = tb[(p \div BlockSize) + 1]
  <2>1. 0 + (p \div BlockSize) + 1 = (p \div BlockSize) + 1
    BY <1>1, <1>2
  <2> QED
    BY <2>1 DEF PhysAt
<1>4. \A p \in 0 .. MaxSeq - 1 : PhysAt(tb, 0, p) \in Block /\ SlotOf(p) \in Slot
  BY <1>2, <1>3, SlotOfTyped DEF TableOK
<1>5. ASSUME NEW p \in 0 .. MaxSeq - 1, NEW r \in 0 .. MaxSeq - 1,
             PhysAt(tb, 0, p) = PhysAt(tb, 0, r), SlotOf(p) = SlotOf(r)
      PROVE  p = r
  <2>1. (p \div BlockSize) + 1 = (r \div BlockSize) + 1
    BY <1>2, <1>3, <1>5 DEF TableOK
  <2>2. p \in Nat /\ r \in Nat /\ p \div BlockSize \in Int /\ r \div BlockSize \in Int
    BY <1>1, <1>2
  <2>3. p \div BlockSize = r \div BlockSize
    BY <2>1, <2>2
  <2> QED
    BY <1>5, <2>2, <2>3, QuotientAndRest
<1> QED
  BY <1>4, <1>5

\* The tokens after a call of n.
Lengthened(st, n, call) == st \o [k \in 1 .. n |-> call]

\* They are the old ones, and after them as many of this call.
LEMMA LengthenedIs ==
  ASSUME NEW st \in Seq(Nat), NEW n \in Nat, NEW call \in Nat
  PROVE  /\ Lengthened(st, n, call) \in Seq(Nat)
         /\ Len(Lengthened(st, n, call)) = Len(st) + n
         /\ \A p \in 0 .. Len(st) - 1 : Lengthened(st, n, call)[p + 1] = st[p + 1]
         /\ \A p \in Len(st) .. Len(st) + n - 1 : Lengthened(st, n, call)[p + 1] = call
<1> DEFINE x == [k \in 1 .. n |-> call]
<1>1. x \in Seq(Nat) /\ Len(x) = n /\ \A k \in 1 .. n : x[k] = call
  OBVIOUS
<1> HIDE DEF x
<1>2. st \o x \in Seq(Nat) /\ Len(st \o x) = Len(st) + n /\ Len(st) \in Nat
  BY <1>1
<1>3. ASSUME NEW p \in 0 .. Len(st) - 1 PROVE (st \o x)[p + 1] = st[p + 1]
  <2>1. p + 1 \in 1 .. Len(st)
    BY <1>2
  <2> QED
    BY <1>1, <2>1, Concatenation
<1>4. ASSUME NEW p \in Len(st) .. Len(st) + n - 1 PROVE (st \o x)[p + 1] = call
  <2> DEFINE k == p + 1 - Len(st)
  <2>1. k \in 1 .. Len(x) /\ k \in 1 .. n /\ Len(st) + k = p + 1
    BY <1>1, <1>2
  <2> HIDE DEF k
  <2>2. (st \o x)[Len(st) + k] = x[k]
    BY <1>1, <2>1, Concatenation
  <2> QED
    BY <1>1, <2>1, <2>2
<1> QED
  BY <1>2, <1>3, <1>4 DEF Lengthened, x

\* The dense cache: rows below past_len stay, those of the call are there.
LEMMA DenseKept ==
  ASSUME Decodable, NEW rows, DOMAIN rows = 0 .. KvHeads * MaxSeq - 1,
         stamps \in Seq(Nat), calls \in Nat, DenseHolds(rows, stamps),
         NEW n \in Nat \ {0}, Past + n <= MaxSeq
  PROVE  /\ DOMAIN DenseAppend(rows, NewRows(n), MaxSeq, Past, n) = 0 .. KvHeads * MaxSeq - 1
         /\ DenseHolds(DenseAppend(rows, NewRows(n), MaxSeq, Past, n), Lengthened(stamps, n, calls))
<1> DEFINE q == DenseAppend(rows, NewRows(n), MaxSeq, Past, n)
           L == Past
<1>1. /\ KvHeads \in Nat \ {0} /\ MaxSeq \in Nat \ {0} /\ L \in Nat /\ L + n <= MaxSeq
      /\ L = Len(stamps)
  BY HeadsAssumption DEF Decodable, Past
<1>2. DOMAIN q = 0 .. KvHeads * MaxSeq - 1
  BY DEF DenseAppend
<1>3. ASSUME NEW p \in 0 .. L + n - 1, NEW h \in KvHead
      PROVE  q[h * MaxSeq + p] = <<Lengthened(stamps, n, calls)[p + 1], p, h>>
  <2> DEFINE a == h * MaxSeq + p
  <2>1. h \in Nat /\ h \in 0 .. KvHeads - 1 /\ p \in 0 .. MaxSeq - 1 /\ p \in Nat
    BY <1>1 DEF KvHead
  <2>2. a \in 0 .. KvHeads * MaxSeq - 1
    BY <1>1, <2>1, RadixBound
  <2>3. a \div MaxSeq = h /\ a % MaxSeq = p
    BY <1>1, <2>1, DigitsOf
  <2>4. q[a] = IF p - L \in 0 .. n - 1 THEN NewRows(n)[h * n + (p - L)] ELSE rows[a]
    <3> HIDE DEF a
    <3> QED
      BY <2>2, <2>3 DEF DenseAppend
  <2> HIDE DEF a, q, L
  <2>5. CASE p < L
    <3>1. ~ (p - L \in 0 .. n - 1) /\ p \in 0 .. Len(stamps) - 1
      BY <1>1, <2>1, <2>5
    <3>2. rows[h * MaxSeq + p] = <<stamps[p + 1], p, h>>
      BY <3>1 DEF DenseHolds
    <3>3. Lengthened(stamps, n, calls)[p + 1] = stamps[p + 1]
      BY <3>1, LengthenedIs
    <3> QED
      BY <2>4, <3>1, <3>2, <3>3 DEF a
  <2>6. CASE p >= L
    <3> DEFINE s == p - L
               b == h * n + s
    <3>1. s \in 0 .. n - 1 /\ L + s = p /\ p \in Len(stamps) .. Len(stamps) + n - 1
      BY <1>1, <2>1, <2>6
    <3>2. b \in 0 .. KvHeads * n - 1
      BY <1>1, <2>1, <3>1, RadixBound
    <3>3. b % n = s /\ b \div n = h
      BY <2>1, <3>1, DigitsOf
    <3>4. NewRows(n)[b] = <<calls, p, h>>
      <4> HIDE DEF b, s
      <4> QED
        BY <3>1, <3>2, <3>3 DEF NewRows, L
    <3>5. Lengthened(stamps, n, calls)[p + 1] = calls
      BY <3>1, LengthenedIs
    <3> QED
      BY <2>4, <3>1, <3>4, <3>5 DEF a
  <2>7. p < L \/ p >= L
    BY <1>1, <2>1
  <2> QED
    BY <2>5, <2>6, <2>7
<1>4. Len(Lengthened(stamps, n, calls)) = L + n
  BY <1>1, LengthenedIs
<1> HIDE DEF q, L
<1>5. DenseHolds(q, Lengthened(stamps, n, calls))
  <2> DEFINE st == Lengthened(stamps, n, calls)
  <2>1. \A p \in 0 .. Len(st) - 1, h \in KvHead : q[h * MaxSeq + p] = <<st[p + 1], p, h>>
    <3>1. Len(st) = L + n /\ L \in Nat /\ n \in Nat
      BY <1>1, <1>4
    <3> HIDE DEF L, q
    <3>2. \A p \in 0 .. L + n - 1, h \in KvHead : q[h * MaxSeq + p] = <<st[p + 1], p, h>>
      BY <1>3
    <3> HIDE DEF st
    <3> QED
      BY <3>1, <3>2
  <2> HIDE DEF st
  <2> QED
    BY <2>1 DEF DenseHolds, st
<1> QED
  BY <1>2, <1>5 DEF q, L

\* What an append to the pools hits: for a position before past_len nothing,
\* for one of the call that one alone.
LEMMA HitsOf ==
  ASSUME Decodable, NEW tb, TableOK(tb), NEW past \in Nat, NEW n \in Nat \ {0},
         past + n <= MaxSeq, NEW p \in 0 .. past + n - 1
  PROVE  /\ Wanted(tb, 0, past, n)
         /\ p < past => NoHit(tb, 0, past, n, PhysAt(tb, 0, p), SlotOf(p))
         /\ p >= past =>
              /\ p - past \in 0 .. n - 1 /\ past + (p - past) = p
              /\ OnlyHit(tb, 0, past, n, PhysAt(tb, 0, p), SlotOf(p), p - past)
<1>1. p \in Nat /\ p \in 0 .. MaxSeq - 1 /\ \A s \in 0 .. n - 1 : past + s \in 0 .. MaxSeq - 1
  BY DEF Decodable
<1>2. Wanted(tb, 0, past, n)
  BY <1>1, PlacesOfPositions DEF Wanted
<1>3. ASSUME NEW s \in 0 .. n - 1, Hits(tb, 0, past, s, PhysAt(tb, 0, p), SlotOf(p))
      PROVE  past + s = p
  BY <1>1, <1>3, PlacesOfPositions DEF Hits
<1>4. ASSUME p < past PROVE NoHit(tb, 0, past, n, PhysAt(tb, 0, p), SlotOf(p))
  <2>1. \A s \in 0 .. n - 1 : past + s # p
    BY <1>4, <1>1
  <2> QED
    BY <1>3, <2>1 DEF NoHit
<1>5. ASSUME p >= past
      PROVE  /\ p - past \in 0 .. n - 1 /\ past + (p - past) = p
             /\ OnlyHit(tb, 0, past, n, PhysAt(tb, 0, p), SlotOf(p), p - past)
  <2>1. p - past \in 0 .. n - 1 /\ past + (p - past) = p
    BY <1>1, <1>5
  <2>2. Hits(tb, 0, past, p - past, PhysAt(tb, 0, p), SlotOf(p))
    BY <2>1 DEF Hits
  <2>3. \A s \in 0 .. n - 1 : past + s = p => s = p - past
    BY <1>1
  <2> QED
    BY <1>3, <2>1, <2>2, <2>3 DEF OnlyHit
<1> QED
  BY <1>2, <1>4, <1>5

\* The paged pool, in the same way.
LEMMA PoolKept ==
  ASSUME Decodable, NEW tb, TableOK(tb), NEW pl, DOMAIN pl = 0 .. PoolSize - 1,
         NEW st \in Seq(Nat), NEW call \in Nat, PoolHolds(pl, tb, st),
         NEW n \in Nat \ {0}, Len(st) + n <= MaxSeq
  PROVE  /\ DOMAIN KvAppend(pl, tb, 0, Len(st), n, call) = 0 .. PoolSize - 1
         /\ PoolHolds(KvAppend(pl, tb, 0, Len(st), n, call), tb, Lengthened(st, n, call))
<1> DEFINE q == KvAppend(pl, tb, 0, Len(st), n, call)
           tt == Lengthened(st, n, call)
<1>1. DOMAIN q = 0 .. PoolSize - 1
  BY DEF KvAppend
<1>2. Len(st) \in Nat /\ n \in Nat /\ MaxSeq \in Nat /\ Len(tt) = Len(st) + n
  <2>1. Len(st) \in Nat /\ n \in Nat /\ MaxSeq \in Nat
    BY DEF Decodable
  <2>2. Len(tt) = Len(st) + n
    BY <2>1, LengthenedIs
  <2> QED
    BY <2>1, <2>2
<1>3. ASSUME NEW p \in 0 .. Len(tt) - 1, NEW h \in KvHead, NEW d \in Dim
      PROVE  q[PagedOffset(PhysAt(tb, 0, p), h, SlotOf(p), d)] = <<tt[p + 1], p, h, d>>
  <2> DEFINE a == PagedOffset(PhysAt(tb, 0, p), h, SlotOf(p), d)
             b == PhysAt(tb, 0, p)
             sl == SlotOf(p)
  <2>1. p \in 0 .. Len(st) + n - 1 /\ p \in Nat /\ p \in 0 .. MaxSeq - 1
    <3>1. p \in 0 .. Len(tt) - 1
      OBVIOUS
    <3> HIDE DEF tt
    <3> QED
      BY <1>2, <3>1
  <2>2. b \in Block /\ sl \in Slot
    BY <2>1, PlacesOfPositions
  <2>3. /\ Wanted(tb, 0, Len(st), n)
        /\ p < Len(st) => NoHit(tb, 0, Len(st), n, b, sl)
        /\ p >= Len(st) =>
             /\ p - Len(st) \in 0 .. n - 1 /\ Len(st) + (p - Len(st)) = p
             /\ OnlyHit(tb, 0, Len(st), n, b, sl, p - Len(st))
    BY <1>2, <2>1, HitsOf
  <2> HIDE DEF b, sl
  <2>4. KvLeft(pl, tb, 0, Len(st), n, call, b, h, sl, d)
    BY <1>2, <2>2, <2>3, KvAppendAt
  <2>5. CASE p < Len(st)
    <3>1. p \in 0 .. Len(st) - 1
      BY <1>2, <2>1, <2>5
    <3>2. q[a] = pl[a]
      BY <2>3, <2>4, <2>5 DEF KvLeft, b, sl
    <3>3. pl[a] = <<st[p + 1], p, h, d>>
      BY <3>1 DEF PoolHolds
    <3>4. tt[p + 1] = st[p + 1]
      BY <3>1, LengthenedIs
    <3> HIDE DEF q, tt
    <3> QED
      BY <3>2, <3>3, <3>4
  <2>6. CASE p >= Len(st)
    <3>1. q[a] = <<call, p, h, d>>
      BY <2>3, <2>4, <2>6 DEF KvLeft, b, sl
    <3>2. tt[p + 1] = call
      <4>1. p \in Len(st) .. Len(st) + n - 1
        BY <1>2, <2>1, <2>6
      <4>2. \A r \in Len(st) .. Len(st) + n - 1 : tt[r + 1] = call
        BY <1>2, LengthenedIs
      <4> HIDE DEF tt
      <4> QED
        BY <4>1, <4>2
    <3> HIDE DEF q, tt
    <3> QED
      BY <3>1, <3>2
  <2> QED
    BY <1>2, <2>1, <2>5, <2>6
<1> HIDE DEF q, tt
<1>4. PoolHolds(q, tb, tt)
  BY <1>3 DEF PoolHolds
<1> QED
  BY <1>1, <1>4 DEF q, tt

\* And the scales.
LEMMA ScalesKept ==
  ASSUME Decodable, NEW tb, TableOK(tb), NEW sc, DOMAIN sc = 0 .. ScalesSize - 1,
         NEW st \in Seq(Nat), NEW call \in Nat, ScalesHold(sc, tb, st),
         NEW n \in Nat \ {0}, Len(st) + n <= MaxSeq
  PROVE  /\ DOMAIN ScaleAppend(sc, tb, 0, Len(st), n, call) = 0 .. ScalesSize - 1
         /\ ScalesHold(ScaleAppend(sc, tb, 0, Len(st), n, call), tb, Lengthened(st, n, call))
<1> DEFINE q == ScaleAppend(sc, tb, 0, Len(st), n, call)
           tt == Lengthened(st, n, call)
<1>1. DOMAIN q = 0 .. ScalesSize - 1
  BY DEF ScaleAppend
<1>2. Len(st) \in Nat /\ n \in Nat /\ MaxSeq \in Nat /\ Len(tt) = Len(st) + n
  <2>1. Len(st) \in Nat /\ n \in Nat /\ MaxSeq \in Nat
    BY DEF Decodable
  <2>2. Len(tt) = Len(st) + n
    BY <2>1, LengthenedIs
  <2> QED
    BY <2>1, <2>2
<1>3. ASSUME NEW p \in 0 .. Len(tt) - 1, NEW h \in KvHead
      PROVE  q[PagedScaleOffset(PhysAt(tb, 0, p), h, SlotOf(p))] = <<tt[p + 1], p, h>>
  <2> DEFINE a == PagedScaleOffset(PhysAt(tb, 0, p), h, SlotOf(p))
             b == PhysAt(tb, 0, p)
             sl == SlotOf(p)
  <2>1. p \in 0 .. Len(st) + n - 1 /\ p \in Nat /\ p \in 0 .. MaxSeq - 1
    <3>1. p \in 0 .. Len(tt) - 1
      OBVIOUS
    <3> HIDE DEF tt
    <3> QED
      BY <1>2, <3>1
  <2>2. b \in Block /\ sl \in Slot
    BY <2>1, PlacesOfPositions
  <2>3. /\ Wanted(tb, 0, Len(st), n)
        /\ p < Len(st) => NoHit(tb, 0, Len(st), n, b, sl)
        /\ p >= Len(st) =>
             /\ p - Len(st) \in 0 .. n - 1 /\ Len(st) + (p - Len(st)) = p
             /\ OnlyHit(tb, 0, Len(st), n, b, sl, p - Len(st))
    BY <1>2, <2>1, HitsOf
  <2> HIDE DEF b, sl
  <2>4. ScaleLeft(sc, tb, 0, Len(st), n, call, b, h, sl)
    BY <1>2, <2>2, <2>3, ScaleAppendAt
  <2>5. CASE p < Len(st)
    <3>1. p \in 0 .. Len(st) - 1
      BY <1>2, <2>1, <2>5
    <3>2. q[a] = sc[a]
      BY <2>3, <2>4, <2>5 DEF ScaleLeft, b, sl
    <3>3. sc[a] = <<st[p + 1], p, h>>
      BY <3>1 DEF ScalesHold
    <3>4. tt[p + 1] = st[p + 1]
      BY <3>1, LengthenedIs
    <3> HIDE DEF q, tt
    <3> QED
      BY <3>2, <3>3, <3>4
  <2>6. CASE p >= Len(st)
    <3>1. q[a] = <<call, p, h>>
      BY <2>3, <2>4, <2>6 DEF ScaleLeft, b, sl
    <3>2. tt[p + 1] = call
      <4>1. p \in Len(st) .. Len(st) + n - 1
        BY <1>2, <2>1, <2>6
      <4>2. \A r \in Len(st) .. Len(st) + n - 1 : tt[r + 1] = call
        BY <1>2, LengthenedIs
      <4> HIDE DEF tt
      <4> QED
        BY <4>1, <4>2
    <3> HIDE DEF q, tt
    <3> QED
      BY <3>1, <3>2
  <2> QED
    BY <1>2, <2>1, <2>5, <2>6
<1> HIDE DEF q, tt
<1>4. ScalesHold(q, tb, tt)
  BY <1>3 DEF ScalesHold
<1> QED
  BY <1>1, <1>4 DEF q, tt

---------------------------------------------------------------------------
(* What a call reads *)

\* The call's configuration, and what its query i reads.
ConfigOf(c, n, total) == [c EXCEPT !.seq_q = n, !.seq_k = total]
ReadBy(c, dense, paged, q8, tb, total, i) ==
  [qh \in QHead |->
     LET kvh == KvHeadOf(qh, QHeads, KvHeads)
     IN  [dense |-> SdpaRows(PackedView(dense, total), c, i, kvh),
          paged |-> AttendBatched(paged, tb, NumBlocks, <<total>>, c)[1][qh][i],
          q8 |-> AttendOneQ8(paged, q8, tb, 0, total, c, i, kvh)]]

\* A call of n tokens, the last of st, reads what they should have read.  Of
\* the dense cache, packed by the caller; of the pools, through the table.
LEMMA ReadsItsRows ==
  ASSUME Decodable, NEW c \in AttnConfigs, NEW st \in Seq(Nat), NEW n \in Nat \ {0},
         NEW total \in Nat, total = Len(st), n <= total, total <= MaxSeq,
         NEW rows, DenseHolds(rows, st),
         NEW tb, NEW pl, PoolHolds(pl, tb, st), NEW sc, ScalesHold(sc, tb, st),
         NEW i \in 0 .. n - 1
  PROVE  ReadBy(ConfigOf(c, n, total), rows, pl, sc, tb, total, i)
           = RowsOf(c, st, total - n + i)
<1>1. \A qh \in QHead : KvHeadOf(qh, QHeads, KvHeads) \in KvHead
  BY HeadRead
<1>2. ASSUME NEW h \in KvHead
      PROVE  SdpaRows(PackedView(rows, total), ConfigOf(c, n, total), i, h)
               = DenseRows(c, st, total - n + i, h)
  <2> DEFINE x == ConfigOf(c, n, total)
             pos == total - n + i
  <2>1. AttendedKeys(x, i) = KeysOf(c, pos)
    BY KeysSame DEF ConfigOf
  <2>2. pos \in Nat /\ pos < total /\ KvHeads \in Nat \ {0}
    BY HeadsAssumption
  <2>3. x.seq_k = total
    BY DEF ConfigOf, AttnConfigs
  <2> HIDE DEF x, pos
  <2>4. ASSUME NEW j \in KeysOf(c, pos)
        PROVE  PackedView(rows, total)[h * total + j] = <<st[j + 1], j, h>>
    <3> DEFINE a == h * total + j
    <3>1. j \in 0 .. pos /\ j \in Nat /\ j \in 0 .. total - 1
      BY <2>2, KeysBefore
    <3>2. h \in Nat /\ h \in 0 .. KvHeads - 1 /\ total \in Nat \ {0}
      BY <2>2 DEF KvHead
    <3>3. a \in 0 .. KvHeads * total - 1
      BY <2>2, <3>1, <3>2, RadixBound
    <3>4. a \div total = h /\ a % total = j
      BY <3>1, <3>2, DigitsOf
    <3> HIDE DEF a
    <3>5. PackedView(rows, total)[a] = rows[h * MaxSeq + j]
      BY <3>3, <3>4 DEF PackedView
    <3>6. rows[h * MaxSeq + j] = <<st[j + 1], j, h>>
      BY <3>1 DEF DenseHolds
    <3> QED
      BY <3>5, <3>6 DEF a
  <2>5. SdpaRows(PackedView(rows, total), x, i, h) = DenseRows(c, st, pos, h)
    BY <2>1, <2>3, <2>4 DEF SdpaRows, DenseRows
  <2> QED
    BY <2>5 DEF x, pos
<1>3. ASSUME NEW qh \in QHead, NEW h \in KvHead, h = KvHeadOf(qh, QHeads, KvHeads)
      PROVE  /\ AttendBatched(pl, tb, NumBlocks, <<total>>, ConfigOf(c, n, total))[1][qh][i]
                  = PagedRows(c, st, total - n + i, h)
             /\ AttendOneQ8(pl, sc, tb, 0, total, ConfigOf(c, n, total), i, h)
                  = Q8Rows(c, st, total - n + i, h)
  <2> DEFINE x == ConfigOf(c, n, total)
             pos == total - n + i
  <2>1. AttendedKeys(x, i) = KeysOf(c, pos)
    BY KeysSame DEF ConfigOf
  <2>2. pos \in Nat /\ pos < total /\ NumBlocks \in Nat
    BY LayoutAssumption
  <2>3. x.seq_q = n /\ [x EXCEPT !.seq_k = total] = x
    BY DEF ConfigOf, AttnConfigs
  <2> HIDE DEF x, pos
  <2>4. ASSUME NEW j \in KeysOf(c, pos)
        PROVE  /\ KvRow(pl, tb, 0, j, h) = [d \in Dim |-> <<st[j + 1], j, h, d>>]
               /\ ScaleOf(sc, tb, 0, j, h) = <<st[j + 1], j, h>>
    <3>1. j \in 0 .. Len(st) - 1
      BY <2>2, KeysBefore
    <3> QED
      BY <3>1 DEF KvRow, ScaleOf, PoolHolds, ScalesHold
  <2>5. AttendOne(pl, tb, 0, total, x, i, h) = PagedRows(c, st, pos, h)
    BY <2>1, <2>3, <2>4 DEF AttendOne, PagedRows
  <2>6. AttendOneQ8(pl, sc, tb, 0, total, x, i, h) = Q8Rows(c, st, pos, h)
    BY <2>1, <2>3, <2>4 DEF AttendOneQ8, Q8Rows
  <2>7. AttendBatched(pl, tb, NumBlocks, <<total>>, x)[1][qh][i]
          = AttendOne(pl, tb, 0, total, x, i, h)
    <3>1. 1 \in DOMAIN <<total>> /\ <<total>>[1] = total /\ (1 - 1) * NumBlocks = 0
      BY <2>2
    <3> QED
      BY <1>3, <2>3, <3>1 DEF AttendBatched
  <2> QED
    BY <2>5, <2>6, <2>7 DEF x, pos
<1> QED
  BY <1>1, <1>2, <1>3 DEF ReadBy, RowsOf

---------------------------------------------------------------------------
(* The invariant *)

\* At first there is nothing.
LEMMA ChunkedStart == Decodable /\ ChunkedInit => ChunkedInv
<1> SUFFICES ASSUME Decodable, ChunkedInit PROVE ChunkedInv
  OBVIOUS
<1>1. cfg \in AttnConfigs
  <2>1. cfg \in [causal : {TRUE}, window : SeqWindows, chunk : SeqChunks, seq_q : {1}, seq_k : {1}]
    BY DEF ChunkedInit
  <2>2. SeqWindows \subseteq Nat /\ SeqChunks \subseteq Nat
    BY DEF Decodable
  <2> QED
    <3>1. \E w \in Nat, ch \in Nat : cfg = [causal |-> TRUE, window |-> w, chunk |-> ch, seq_q |-> 1, seq_k |-> 1]
      BY <2>1, <2>2
    <3> QED
      BY <3>1 DEF AttnConfigs
<1>2. TableOK(table)
  BY DEF ChunkedInit, TableOK, Block
<1>3. stamps = <<>> /\ stamps \in Seq(Nat) /\ Len(stamps) = 0 /\ MaxSeq \in Nat /\ calls \in Nat
  BY DEF ChunkedInit, Decodable
<1>4. \A p : p \notin 0 .. Len(stamps) - 1
  BY <1>3
<1>5. seen = [p \in 1 .. Len(stamps) |-> RowsOf(cfg, stamps, p - 1)]
  <2>1. seen = <<>> /\ 1 .. Len(stamps) = {}
    BY <1>3 DEF ChunkedInit
  <2> QED
    BY <2>1
<1> QED
  BY <1>1, <1>2, <1>3, <1>4, <1>5 DEF ChunkedInit, ChunkedInv, DenseHolds, PoolHolds, ScalesHold

\* A sequence of a + n entries is its first a and its last n.
LEMMA InTwoParts ==
  ASSUME NEW S, NEW a \in Nat, NEW n \in Nat, NEW x \in Seq(S), NEW y \in Seq(S),
         NEW z \in Seq(S), Len(x) = a, Len(y) = n, Len(z) = a + n,
         \A p \in 1 .. a : z[p] = x[p], \A k \in 1 .. n : z[a + k] = y[k]
  PROVE  x \o y = z
<1>1. x \o y \in Seq(S) /\ Len(x \o y) = a + n
  OBVIOUS
<1>2. \A p \in 1 .. a : (x \o y)[p] = x[p]
  BY Concatenation
<1>3. \A k \in 1 .. n : (x \o y)[a + k] = y[k]
  BY Concatenation
<1>4. ASSUME NEW p \in 1 .. a + n PROVE (x \o y)[p] = z[p]
  <2>1. CASE p <= a
    BY <1>2, <2>1
  <2>2. CASE ~ (p <= a)
    <3> DEFINE k == p - a
    <3>1. k \in 1 .. n /\ a + k = p
      BY <2>2
    <3> HIDE DEF k
    <3>2. (x \o y)[a + k] = y[k] /\ z[a + k] = y[k]
      BY <1>3, <3>1
    <3> QED
      BY <3>1, <3>2
  <2> QED
    BY <2>1, <2>2
<1>5. z \in [1 .. a + n -> S] /\ x \o y \in [1 .. a + n -> S]
  <2>1. \A s \in Seq(S) : s \in [1 .. Len(s) -> S]
    OBVIOUS
  <2> QED
    BY <1>1, <2>1
<1> DEFINE w == x \o y
<1>6. w \in [1 .. a + n -> S] /\ \A p \in 1 .. a + n : w[p] = z[p]
  BY <1>4, <1>5
<1> HIDE DEF w
<1>7. w = z
  BY <1>5, <1>6
<1> QED
  BY <1>7 DEF w


\* After a call of n tokens.
LEMMA CallStep ==
  ASSUME Decodable, ChunkedInv, NEW n \in 1 .. MaxSeq, Call(n)
  PROVE  ChunkedInv'
<1> DEFINE tt == Lengthened(stamps, n, calls)
           total == Past + n
           dense == DenseAppend(cache, NewRows(n), MaxSeq, Past, n)
           paged == KvAppend(pool, table, 0, Past, n, calls)
           q8 == ScaleAppend(scales, table, 0, Past, n, calls)
           read == [k \in 1 .. n |->
                      ReadBy(ConfigOf(cfg, n, total), dense, paged, q8, table, total, k - 1)]
<1>1. n \in Nat \ {0} /\ MaxSeq \in Nat /\ Past \in Nat /\ Past = Len(stamps) /\ total <= MaxSeq
      /\ total \in Nat
  BY DEF Decodable, ChunkedInv, Past, Call
<1>2. /\ stamps' = tt /\ cache' = dense /\ pool' = paged /\ scales' = q8
      /\ seen' = seen \o read /\ calls' = calls + 1 /\ cfg' = cfg /\ table' = table
  BY DEF Call, Lengthened, ReadBy, ConfigOf
<1>3. cfg \in AttnConfigs /\ TableOK(table) /\ stamps \in Seq(Nat) /\ calls \in Nat
  BY DEF ChunkedInv
<1>4. /\ tt \in Seq(Nat) /\ Len(tt) = total
      /\ \A p \in 0 .. Past - 1 : tt[p + 1] = stamps[p + 1]
  <2>1. /\ tt \in Seq(Nat) /\ Len(tt) = Len(stamps) + n
        /\ \A p \in 0 .. Len(stamps) - 1 : tt[p + 1] = stamps[p + 1]
    <3>1. n \in Nat
      BY <1>1
    <3> HIDE DEF total, dense, paged, q8, read
    <3>2. stamps \in Seq(Nat) /\ calls \in Nat
      BY <1>3
    <3> QED
      BY <3>1, <3>2 DEF Lengthened
  <2> HIDE DEF tt
  <2> QED
    BY <1>1, <2>1
<1>5. DOMAIN dense = 0 .. KvHeads * MaxSeq - 1 /\ DenseHolds(dense, tt)
  BY <1>1, <1>3, DenseKept DEF ChunkedInv
<1>6. DOMAIN paged = 0 .. PoolSize - 1 /\ PoolHolds(paged, table, tt)
  BY <1>1, <1>3, PoolKept DEF ChunkedInv
<1>7. DOMAIN q8 = 0 .. ScalesSize - 1 /\ ScalesHold(q8, table, tt)
  BY <1>1, <1>3, ScalesKept DEF ChunkedInv
<1> DEFINE R(p) == RowsOf(cfg, tt, p - 1)
<1>8. seen = [p \in 1 .. Past |-> R(p)]
  <2>1. ASSUME NEW p \in 1 .. Past PROVE RowsOf(cfg, stamps, p - 1) = R(p)
    <3>1. p - 1 \in Nat /\ \A j \in 0 .. p - 1 : j \in 0 .. Past - 1
      BY <1>1
    <3>2. \A j \in 0 .. p - 1 : stamps[j + 1] = tt[j + 1]
      BY <1>4, <3>1
    <3> HIDE DEF tt
    <3> QED
      BY <1>3, <3>1, <3>2, RowsOfPrefix
  <2>2. seen = [p \in 1 .. Past |-> RowsOf(cfg, stamps, p - 1)]
    BY <1>1 DEF ChunkedInv
  <2> HIDE DEF R
  <2> QED
    BY <2>1, <2>2
<1> HIDE DEF tt, dense, paged, q8
<1>9. read = [k \in 1 .. n |-> R(Past + k)]
  <2>1. ASSUME NEW k \in 1 .. n
        PROVE  ReadBy(ConfigOf(cfg, n, total), dense, paged, q8, table, total, k - 1) = R(Past + k)
    <3>1. k - 1 \in 0 .. n - 1 /\ total - n + (k - 1) = Past + k - 1 /\ n <= total
      BY <1>1
    <3>2. ReadBy(ConfigOf(cfg, n, total), dense, paged, q8, table, total, k - 1)
            = RowsOf(cfg, tt, total - n + (k - 1))
      <4> HIDE DEF total
      <4> QED
        BY <1>1, <1>3, <1>4, <1>5, <1>6, <1>7, <3>1, ReadsItsRows
    <3> DEFINE m == total - n + (k - 1)
    <3>3. m = Past + k - 1 /\ ReadBy(ConfigOf(cfg, n, total), dense, paged, q8, table, total, k - 1)
                                = RowsOf(cfg, tt, m)
      BY <3>1, <3>2
    <3>4. (Past + k) - 1 = m
      BY <1>1, <3>3
    <3>5. RowsOf(cfg, tt, (Past + k) - 1) = RowsOf(cfg, tt, m)
      BY <3>4
    <3> HIDE DEF m, total
    <3> QED
      BY <3>3, <3>5
  <2> HIDE DEF R, total
  <2> QED
    BY <2>1
<1>10. seen \o read = [p \in 1 .. total |-> R(p)]
  <2> HIDE DEF R, read
  <2> DEFINE S == {R(p) : p \in 1 .. Past + n}
             z == [p \in 1 .. Past + n |-> R(p)]
  <2>1. \A p \in 1 .. Past : R(p) \in S
    BY <1>1
  <2>2. \A k \in 1 .. n : R(Past + k) \in S /\ Past + k \in 1 .. Past + n
    BY <1>1
  <2>3. z \in Seq(S) /\ Len(z) = Past + n /\ \A p \in 1 .. Past + n : z[p] = R(p)
    BY <1>1
  <2> HIDE DEF S, z
  <2>4. seen \in Seq(S) /\ Len(seen) = Past /\ \A p \in 1 .. Past : seen[p] = R(p)
    BY <1>1, <1>8, <2>1
  <2>5. read \in Seq(S) /\ Len(read) = n /\ \A k \in 1 .. n : read[k] = R(Past + k)
    BY <1>1, <1>9, <2>2
  <2>6. \A p \in 1 .. Past : z[p] = seen[p]
    BY <1>1, <2>3, <2>4
  <2>7. \A k \in 1 .. n : z[Past + k] = read[k]
    BY <2>2, <2>3, <2>5
  <2>8. seen \o read = z
    <3> HIDE DEF total
    <3> QED
      BY <1>1, <2>3, <2>4, <2>5, <2>6, <2>7, InTwoParts, ZenonT(60)
  <2> QED
    BY <2>8 DEF z
<1>11. seen' = [p \in 1 .. Len(stamps') |-> RowsOf(cfg', stamps', p - 1)]
  BY <1>2, <1>4, <1>10 DEF tt
<1>12. calls + 1 \in Nat /\ Len(stamps') <= MaxSeq /\ stamps' \in Seq(Nat)
  <2> HIDE DEF total
  <2> QED
    BY <1>1, <1>2, <1>3, <1>4
<1>13. DenseHolds(cache', stamps') /\ PoolHolds(pool', table', stamps')
       /\ ScalesHold(scales', table', stamps')
  BY <1>2, <1>5, <1>6, <1>7
<1>14. DOMAIN cache' = 0 .. KvHeads * MaxSeq - 1 /\ DOMAIN pool' = 0 .. PoolSize - 1
       /\ DOMAIN scales' = 0 .. ScalesSize - 1
  BY <1>2, <1>5, <1>6, <1>7
<1>15. cfg' \in AttnConfigs /\ TableOK(table') /\ calls' \in Nat
  BY <1>2, <1>3, <1>12
<1> QED
  BY <1>11, <1>12, <1>13, <1>14, <1>15 DEF ChunkedInv

\* After the last n tokens are taken back.
LEMMA TakeBackStep ==
  ASSUME Decodable, ChunkedInv, NEW n \in 1 .. MaxSeq, TakeBack(n)
  PROVE  ChunkedInv'
<1> DEFINE rest == Past - n
<1>1. /\ n \in Nat /\ Past \in Nat /\ Past = Len(stamps) /\ Past <= MaxSeq
      /\ MaxSeq \in Nat /\ rest \in Nat /\ rest <= Past
  BY DEF Decodable, ChunkedInv, Past, TakeBack
<1>2. /\ stamps' = SubSeq(stamps, 1, rest) /\ seen' = SubSeq(seen, 1, rest)
      /\ cfg' = cfg /\ table' = table /\ calls' = calls
      /\ cache' = cache /\ pool' = pool /\ scales' = scales
  BY DEF TakeBack
<1> HIDE DEF rest
<1>3. /\ stamps' \in Seq(Nat) /\ Len(stamps') = rest
      /\ \A p \in 0 .. rest - 1 : stamps'[p + 1] = stamps[p + 1] /\ p \in 0 .. Len(stamps) - 1
  <2>1. stamps \in Seq(Nat)
    BY DEF ChunkedInv
  <2> QED
    BY <1>1, <1>2, <2>1
<1>4. DenseHolds(cache', stamps')
  BY <1>2, <1>3 DEF ChunkedInv, DenseHolds
<1>5. PoolHolds(pool', table', stamps')
  BY <1>2, <1>3 DEF ChunkedInv, PoolHolds
<1>6. ScalesHold(scales', table', stamps')
  BY <1>2, <1>3 DEF ChunkedInv, ScalesHold
<1>7. seen' = [p \in 1 .. Len(stamps') |-> RowsOf(cfg', stamps', p - 1)]
  <2>1. ASSUME NEW p \in 1 .. rest
        PROVE  RowsOf(cfg, stamps, p - 1) = RowsOf(cfg, stamps', p - 1)
    <3>1. p - 1 \in Nat /\ \A j \in 0 .. p - 1 : j \in 0 .. rest - 1
      BY <1>1
    <3>2. \A j \in 0 .. p - 1 : stamps[j + 1] = stamps'[j + 1]
      BY <1>3, <3>1
    <3> QED
      BY <3>1, <3>2, RowsOfPrefix DEF ChunkedInv
  <2> DEFINE R(p) == RowsOf(cfg, stamps, p - 1)
  <2>2. seen = [p \in 1 .. Past |-> R(p)]
    BY <1>1 DEF ChunkedInv
  <2> HIDE DEF R
  <2>3. SubSeq(seen, 1, rest) = [p \in 1 .. rest |-> R(p)]
    BY <1>1, <2>2
  <2>4. seen' = [p \in 1 .. rest |-> RowsOf(cfg, stamps', p - 1)]
    BY <1>2, <2>1, <2>3 DEF R
  <2> QED
    BY <1>2, <1>3, <2>4
<1>8. Len(stamps') <= MaxSeq
  BY <1>1, <1>3
<1> QED
  BY <1>2, <1>3, <1>4, <1>5, <1>6, <1>7, <1>8 DEF ChunkedInv


\* So after any step.
LEMMA ChunkedSteps == Decodable /\ ChunkedInv /\ [ChunkedNext]_chunkedVars => ChunkedInv'
<1> SUFFICES ASSUME Decodable, ChunkedInv, [ChunkedNext]_chunkedVars PROVE ChunkedInv'
  OBVIOUS
<1>1. CASE \E n \in 1 .. MaxSeq : Call(n)
  BY <1>1, CallStep
<1>2. CASE \E n \in 1 .. MaxSeq : TakeBack(n)
  BY <1>2, TakeBackStep
<1>3. CASE UNCHANGED chunkedVars
  BY <1>3 DEF chunkedVars, ChunkedInv, DenseHolds, PoolHolds, ScalesHold, Past
<1> QED
  BY <1>1, <1>2, <1>3 DEF ChunkedNext

---------------------------------------------------------------------------
(* The properties *)

\* A query head's K/V head by its share of the heads is the one by groups.
LEMMA HeadByShare ==
  ASSUME NEW qh \in QHead
  PROVE  (qh * KvHeads) \div QHeads = KvHeadOf(qh, QHeads, KvHeads)
<1> DEFINE g == QHeads \div KvHeads
           e == qh \div g
           r == qh % g
<1>1. QHeads \in Nat /\ QHeads > 0 /\ KvHeads \in Nat /\ KvHeads > 0 /\ QHeads % KvHeads = 0
  BY QHeadsAssumption, HeadsAssumption
<1>2. QHeads = KvHeads * g + (QHeads % KvHeads) /\ g \in Nat
  BY <1>1
<1> HIDE DEF g
<1>3. QHeads = KvHeads * g /\ qh \in Nat
  BY <1>1, <1>2 DEF QHead
<1>4. g > 0
  BY <1>1, <1>2, <1>3
<1>5. qh = g * e + r /\ e \in Nat /\ r \in 0 .. g - 1
  BY <1>2, <1>3, <1>4
<1> HIDE DEF e, r
<1>6. qh * KvHeads = e * QHeads + r * KvHeads
  BY <1>1, <1>2, <1>3, <1>5
<1>7. r * KvHeads \in 0 .. QHeads - 1
  <2>1. r * KvHeads + 0 \in 0 .. g * KvHeads - 1
    BY <1>1, <1>2, <1>5, RadixBound
  <2>2. r \in Nat /\ r * KvHeads + 0 = r * KvHeads /\ g * KvHeads = QHeads
    BY <1>1, <1>2, <1>3, <1>5
  <2> QED
    BY <2>1, <2>2
<1>8. (e * QHeads + r * KvHeads) \div QHeads = e
  <2> DEFINE x == r * KvHeads
  <2>1. x \in 0 .. QHeads - 1 /\ QHeads \in Nat \ {0}
    BY <1>1, <1>7
  <2> HIDE DEF x
  <2>2. (e * QHeads + x) \div QHeads = e
    BY <1>5, <2>1, DigitsOf
  <2> QED
    BY <2>2 DEF x
<1> QED
  BY <1>6, <1>8 DEF e, g, KvHeadOf

\* The invariant gives both properties: the rows are those of one prefill.
LEMMA ChunkedInvMatches == Decodable /\ ChunkedInv => ChunksMatchPrefill
<1> SUFFICES ASSUME Decodable, ChunkedInv, NEW pos \in 0 .. Past - 1, NEW qh \in QHead
             PROVE  seen[pos + 1][qh].dense =
                      [j \in AttendedKeys([cfg EXCEPT !.seq_q = Past, !.seq_k = Past], pos) |->
                         <<stamps[j + 1], j, (qh * KvHeads) \div QHeads>>]
  BY DEF ChunksMatchPrefill
<1>1. Past \in Nat /\ Past = Len(stamps) /\ cfg \in AttnConfigs
  BY DEF ChunkedInv, Past
<1>2. pos \in Nat /\ Past \in Nat \ {0} /\ Past <= Past /\ pos + 1 \in 1 .. Past
      /\ (pos + 1) - 1 = pos /\ Past - Past + pos = pos
  BY <1>1
<1>3. AttendedKeys([cfg EXCEPT !.seq_q = Past, !.seq_k = Past], pos) = KeysOf(cfg, pos)
  <2>1. \A n \in Nat \ {0} : \A i \in 0 .. n - 1 :
          AttendedKeys([cfg EXCEPT !.seq_q = n, !.seq_k = n], i) = KeysOf(cfg, n - n + i)
    <3> SUFFICES ASSUME NEW n \in Nat \ {0}, NEW i \in 0 .. n - 1
                 PROVE  AttendedKeys([cfg EXCEPT !.seq_q = n, !.seq_k = n], i)
                          = KeysOf(cfg, n - n + i)
      OBVIOUS
    <3>1. n \in Nat /\ n <= n
      OBVIOUS
    <3> QED
      BY <1>1, <3>1, KeysSame
  <2>2. AttendedKeys([cfg EXCEPT !.seq_q = Past, !.seq_k = Past], pos)
          = KeysOf(cfg, Past - Past + pos)
    BY <1>2, <2>1
  <2> QED
    BY <1>2, <2>2
<1>4. seen[pos + 1] = RowsOf(cfg, stamps, pos)
  <2>1. seen = [p \in 1 .. Past |-> RowsOf(cfg, stamps, p - 1)]
    BY <1>1 DEF ChunkedInv
  <2>2. seen[pos + 1] = RowsOf(cfg, stamps, (pos + 1) - 1)
    BY <1>2, <2>1
  <2> QED
    BY <1>2, <2>2
<1>5. seen[pos + 1][qh].dense = DenseRows(cfg, stamps, pos, KvHeadOf(qh, QHeads, KvHeads))
  BY <1>4 DEF RowsOf
<1> QED
  BY <1>3, <1>5, HeadByShare DEF DenseRows

\* An entry after three.
LEMMA FourthEntry ==
  ASSUME NEW x, NEW y, NEW z, NEW d
  PROVE  <<x, y, z>> \o <<d>> = <<x, y, z, d>>
<1> DEFINE S == {x, y, z, d}
           t == <<x, y, z>>
           u == <<d>>
           v == <<x, y, z, d>>
<1>1. t \in Seq(S) /\ u \in Seq(S) /\ v \in Seq(S)
  OBVIOUS
<1>2. Len(t) = 3 /\ Len(u) = 1 /\ Len(v) = 3 + 1
  OBVIOUS
<1>3. v[1] = t[1] /\ v[2] = t[2] /\ v[3] = t[3] /\ v[3 + 1] = u[1]
  OBVIOUS
<1> HIDE DEF S, t, u, v
<1>4. (\A p \in 1 .. 3 : v[p] = t[p]) /\ (\A k \in 1 .. 1 : v[3 + k] = u[k])
  BY <1>3
<1>5. t \o u = v
  <2> DEFINE a == 3
             n == 1
  <2>1. a \in Nat /\ n \in Nat /\ Len(t) = a /\ Len(u) = n /\ Len(v) = a + n
    BY <1>2
  <2>2. (\A p \in 1 .. a : v[p] = t[p]) /\ (\A k \in 1 .. n : v[a + k] = u[k])
    BY <1>4
  <2> HIDE DEF a, n
  <2> QED
    BY <1>1, <2>1, <2>2, InTwoParts, ZenonT(60)
<1> QED
  BY <1>5 DEF t, u, v

\* And they are the same from each of the caches.
LEMMA ChunkedInvPaged == Decodable /\ ChunkedInv => PagedMatchesDense
<1> SUFFICES ASSUME Decodable, ChunkedInv, NEW pos \in 0 .. Past - 1, NEW qh \in QHead
             PROVE  LET s == seen[pos + 1][qh]
                        Row(j) == [d \in Dim |-> s.dense[j] \o <<d>>]
                    IN  /\ s.paged = [j \in DOMAIN s.dense |-> Row(j)]
                        /\ s.q8 = [j \in DOMAIN s.dense |-> <<Row(j), s.dense[j]>>]
  BY DEF PagedMatchesDense
<1> DEFINE h == KvHeadOf(qh, QHeads, KvHeads)
           s == seen[pos + 1][qh]
<1>1. Past \in Nat /\ Past = Len(stamps)
  BY DEF ChunkedInv, Past
<1>2. pos \in Nat /\ pos + 1 \in 1 .. Past /\ (pos + 1) - 1 = pos
  BY <1>1
<1>3. seen[pos + 1] = RowsOf(cfg, stamps, pos)
  <2>1. seen = [p \in 1 .. Past |-> RowsOf(cfg, stamps, p - 1)]
    BY <1>1 DEF ChunkedInv
  <2>2. seen[pos + 1] = RowsOf(cfg, stamps, (pos + 1) - 1)
    BY <1>2, <2>1
  <2> QED
    BY <1>2, <2>2
<1>4. /\ s.dense = DenseRows(cfg, stamps, pos, h) /\ s.paged = PagedRows(cfg, stamps, pos, h)
      /\ s.q8 = Q8Rows(cfg, stamps, pos, h)
  BY <1>3 DEF RowsOf
<1> HIDE DEF s, h
<1>5. DOMAIN s.dense = KeysOf(cfg, pos)
  BY <1>4 DEF DenseRows
<1>6. ASSUME NEW j \in KeysOf(cfg, pos)
      PROVE  /\ s.dense[j] = <<stamps[j + 1], j, h>>
             /\ [d \in Dim |-> s.dense[j] \o <<d>>] = [d \in Dim |-> <<stamps[j + 1], j, h, d>>]
  <2>1. s.dense[j] = <<stamps[j + 1], j, h>>
    BY <1>4 DEF DenseRows
  <2>2. \A d \in Dim : <<stamps[j + 1], j, h>> \o <<d>> = <<stamps[j + 1], j, h, d>>
    BY FourthEntry
  <2> QED
    BY <2>1, <2>2
<1>7. s.paged = [j \in DOMAIN s.dense |-> [d \in Dim |-> s.dense[j] \o <<d>>]]
  BY <1>4, <1>5, <1>6 DEF PagedRows
<1>8. s.q8 = [j \in DOMAIN s.dense |-> <<[d \in Dim |-> s.dense[j] \o <<d>>], s.dense[j]>>]
  BY <1>4, <1>5, <1>6 DEF Q8Rows
<1> QED
  BY <1>7, <1>8 DEF s

\* However a sequence is cut into calls, and whatever is taken back, each
\* token attended to the rows it would in one prefill of what stands.
THEOREM ChunksExact ==
  ASSUME Decodable
  PROVE  ChunkedSpec => []ChunksMatchPrefill
<1>1. ChunkedInit => ChunkedInv
  BY ChunkedStart
<1>2. ChunkedInv /\ [ChunkedNext]_chunkedVars => ChunkedInv'
  BY ChunkedSteps
<1>3. ChunkedInv => ChunksMatchPrefill
  BY ChunkedInvMatches
<1> QED
  BY <1>1, <1>2, <1>3, PTL DEF ChunkedSpec

\* The paged and the int8 cache give attention the rows of the dense one,
\* whatever the block table, and each row with its own scale.
THEOREM PagedExact ==
  ASSUME Decodable
  PROVE  ChunkedSpec => []PagedMatchesDense
<1>1. ChunkedInit => ChunkedInv
  BY ChunkedStart
<1>2. ChunkedInv /\ [ChunkedNext]_chunkedVars => ChunkedInv'
  BY ChunkedSteps
<1>3. ChunkedInv => PagedMatchesDense
  BY ChunkedInvPaged
<1> QED
  BY <1>1, <1>2, <1>3, PTL DEF ChunkedSpec
=============================================================================
