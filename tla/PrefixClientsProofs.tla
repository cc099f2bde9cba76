------------------------ MODULE PrefixClientsProofs ------------------------
(***************************************************************************)
(* The prefix cache, proved for any pool, prompts and number of clients,   *)
(* over every interleaving of their calls with evictions: references are   *)
(* counted, reuse is bit-exact, the tree is pruned, and what is evicted is *)
(* least recently used.                                                    *)
(***************************************************************************)
EXTENDS PrefixClients, CacheManagerProofs

(* Prefixes of a sequence of tokens. *)

\* The first n tokens.
LEMMA FirstNOf ==
  ASSUME NEW seq \in Seq(Nat), NEW n \in 0 .. Len(seq)
  PROVE  /\ FirstN(seq, n) \in Seq(Nat) /\ Len(FirstN(seq, n)) = n
         /\ \A k \in 1 .. n : FirstN(seq, n)[k] = seq[k]
<1>1. \A i \in 1 .. n : seq[i] \in Nat
  OBVIOUS
<1>2. QED BY <1>1 DEF FirstN

\* Two sequences with the same tokens are one.
LEMMA SameTokens ==
  ASSUME NEW s \in Seq(Nat), NEW t \in Seq(Nat), Len(s) = Len(t), \A k \in 1 .. Len(s) : s[k] = t[k]
  PROVE  s = t
OBVIOUS

\* IsPrefix, token by token.
LEMMA PrefixTokens ==
  ASSUME NEW s \in Seq(Nat), NEW t \in Seq(Nat)
  PROVE  IsPrefix(s, t) <=> Len(s) <= Len(t) /\ \A k \in 1 .. Len(s) : s[k] = t[k]
<1>1. Len(s) \in Nat /\ Len(t) \in Nat
  OBVIOUS
<1>2. ASSUME IsPrefix(s, t) PROVE \A k \in 1 .. Len(s) : s[k] = t[k]
  <2>1. Len(s) <= Len(t) /\ FirstN(s, Len(s)) = FirstN(t, Len(s))
    BY <1>2 DEF IsPrefix, FirstN
  <2>2. Len(s) \in 0 .. Len(s) /\ Len(s) \in 0 .. Len(t)
    BY <1>1, <2>1
  <2>3. QED BY <2>1, <2>2, FirstNOf
<1>3. ASSUME Len(s) <= Len(t), \A k \in 1 .. Len(s) : s[k] = t[k] PROVE IsPrefix(s, t)
  <2>1. Len(s) \in 0 .. Len(s) /\ Len(s) \in 0 .. Len(t)
    BY <1>1, <1>3
  <2> DEFINE a == FirstN(s, Len(s))
             b == FirstN(t, Len(s))
  <2>2. /\ a \in Seq(Nat) /\ b \in Seq(Nat) /\ Len(a) = Len(s) /\ Len(b) = Len(s)
        /\ \A k \in 1 .. Len(s) : a[k] = s[k] /\ b[k] = t[k]
    BY <2>1, FirstNOf
  <2> HIDE DEF a, b
  <2>3. a = b
    BY <1>3, <2>2, SameTokens
  <2>4. QED BY <1>3, <2>3 DEF a, b, IsPrefix, FirstN
<1>4. QED BY <1>2, <1>3 DEF IsPrefix

\* A prefix is what it says.
LEMMA PrefixIsFirstN ==
  ASSUME NEW s \in Seq(Nat), NEW t \in Seq(Nat), IsPrefix(s, t)
  PROVE  Len(s) \in 0 .. Len(t) /\ s = FirstN(t, Len(s))
<1>1. Len(s) <= Len(t) /\ \A k \in 1 .. Len(s) : s[k] = t[k]
  BY PrefixTokens
<1>2. Len(s) \in 0 .. Len(t)
  BY <1>1
<1>3. /\ FirstN(t, Len(s)) \in Seq(Nat) /\ Len(FirstN(t, Len(s))) = Len(s)
      /\ \A k \in 1 .. Len(s) : FirstN(t, Len(s))[k] = t[k]
  BY <1>2, FirstNOf
<1>4. QED BY <1>1, <1>2, <1>3, SameTokens

\* The order of prefixes.
LEMMA PrefixOrder ==
  ASSUME NEW p \in Seq(Nat), NEW q \in Seq(Nat), NEW r \in Seq(Nat)
  PROVE  /\ IsPrefix(p, p)
         /\ IsPrefix(p, q) /\ IsPrefix(q, r) => IsPrefix(p, r)
         /\ IsPrefix(p, q) /\ IsPrefix(q, p) => p = q
<1>1. IsPrefix(p, p)
  BY PrefixTokens
<1>2. ASSUME IsPrefix(p, q), IsPrefix(q, r) PROVE IsPrefix(p, r)
  <2>1. /\ Len(p) <= Len(q) /\ \A k \in 1 .. Len(p) : p[k] = q[k]
        /\ Len(q) <= Len(r) /\ \A k \in 1 .. Len(q) : q[k] = r[k]
    BY <1>2, PrefixTokens
  <2>2. Len(p) \in Nat /\ Len(q) \in Nat /\ Len(r) \in Nat
    OBVIOUS
  <2>3. Len(p) <= Len(r) /\ \A k \in 1 .. Len(p) : p[k] = r[k]
    BY <2>1, <2>2
  <2>4. QED BY <2>3, PrefixTokens
<1>3. ASSUME IsPrefix(p, q), IsPrefix(q, p) PROVE p = q
  <2>1. /\ Len(p) <= Len(q) /\ Len(q) <= Len(p) /\ \A k \in 1 .. Len(p) : p[k] = q[k]
    BY <1>3, PrefixTokens
  <2>2. Len(p) = Len(q)
    BY <2>1
  <2>3. QED BY <2>1, <2>2, SameTokens
<1>4. QED BY <1>1, <1>2, <1>3

\* Shorter prefixes are prefixes of longer ones.
LEMMA FirstNPrefix ==
  ASSUME NEW seq \in Seq(Nat), NEW n \in 0 .. Len(seq), NEW k \in 0 .. n
  PROVE  IsPrefix(FirstN(seq, k), FirstN(seq, n))
<1>1. k \in 0 .. Len(seq)
  OBVIOUS
<1> DEFINE a == FirstN(seq, k)
           b == FirstN(seq, n)
<1>2. a \in Seq(Nat) /\ Len(a) = k /\ \A i \in 1 .. k : a[i] = seq[i]
  BY <1>1, FirstNOf
<1>3. b \in Seq(Nat) /\ Len(b) = n /\ \A i \in 1 .. n : b[i] = seq[i]
  BY FirstNOf
<1> HIDE DEF a, b
<1>4. IsPrefix(a, b)
  <2>1. k \in Nat /\ n \in Nat /\ k <= n
    OBVIOUS
  <2>2. Len(a) <= Len(b) /\ \A i \in 1 .. Len(a) : a[i] = b[i]
    <3>1. 1 .. k \subseteq 1 .. n
      BY <2>1
    <3>2. \A i \in 1 .. k : a[i] = b[i]
      BY <1>2, <1>3, <3>1
    <3>3. QED BY <1>2, <1>3, <2>1, <3>2
  <2>3. QED BY <1>2, <1>3, <2>2, PrefixTokens
<1>5. QED BY <1>4 DEF a, b

\* A prefix of a prefix, and the parent of one.
LEMMA FirstNOfFirstN ==
  ASSUME NEW seq \in Seq(Nat), NEW n \in 0 .. Len(seq)
  PROVE  /\ \A k \in 0 .. n : FirstN(FirstN(seq, n), k) = FirstN(seq, k)
         /\ n > 0 => Front(FirstN(seq, n)) = FirstN(seq, n - 1)
<1> DEFINE s == FirstN(seq, n)
<1>1. s \in Seq(Nat) /\ Len(s) = n /\ \A k \in 1 .. n : s[k] = seq[k]
  BY FirstNOf
<1> HIDE DEF s
<1>2. ASSUME NEW k \in 0 .. n PROVE FirstN(s, k) = FirstN(seq, k)
  <2>1. k \in 0 .. Len(s) /\ k \in 0 .. Len(seq)
    BY <1>1
  <2> DEFINE a == FirstN(s, k)
             b == FirstN(seq, k)
  <2>2. /\ a \in Seq(Nat) /\ Len(a) = k /\ b \in Seq(Nat) /\ Len(b) = k
        /\ \A i \in 1 .. k : a[i] = s[i] /\ b[i] = seq[i]
    BY <1>1, <2>1, FirstNOf
  <2> HIDE DEF a, b
  <2>3. \A i \in 1 .. k : a[i] = b[i]
    <3>1. n \in Nat /\ \A i \in 1 .. k : i \in 1 .. n
      OBVIOUS
    <3>2. QED BY <1>1, <2>2, <3>1
  <2>4. a = b
    BY <2>2, <2>3, SameTokens
  <2>5. QED BY <2>4 DEF a, b
<1>3. n > 0 => Front(s) = FirstN(s, n - 1)
  BY <1>1 DEF Front, FirstN
<1>4. n > 0 => n - 1 \in 0 .. n
  OBVIOUS
<1>5. QED BY <1>2, <1>3, <1>4 DEF s

---------------------------------------------------------------------------
(* Block ends *)

\* The whole blocks of n tokens.
LEMMA WholeBlocks ==
  ASSUME NEW n \in Nat
  PROVE  /\ n \div BlockSize \in Nat
         /\ \A i \in 0 .. n \div BlockSize : i * BlockSize \in 0 .. n
         /\ n % BlockSize = 0 => n = (n \div BlockSize) * BlockSize
<1>1. BlockSize \in Nat /\ BlockSize > 0
  BY LayoutAssumption
<1> DEFINE w == n \div BlockSize
<1>2. w \in Nat /\ w * BlockSize <= n /\ n = w * BlockSize + (n % BlockSize)
  BY <1>1
<1> HIDE DEF w
<1>3. ASSUME NEW i \in 0 .. w PROVE i * BlockSize \in 0 .. n
  <2>1. i \in Nat /\ w - i \in Nat /\ w = i + (w - i)
    BY <1>2
  <2> DEFINE d == w - i
  <2>2. w * BlockSize = i * BlockSize + d * BlockSize
    BY <1>1, <2>1
  <2>3. i * BlockSize \in Nat /\ d * BlockSize \in Nat /\ w * BlockSize \in Nat
    BY <1>1, <1>2, <2>1
  <2> HIDE DEF d
  <2>4. QED BY <1>2, <2>2, <2>3
<1>4. n % BlockSize = 0 => n = w * BlockSize
  <2>1. w * BlockSize \in Nat
    BY <1>1, <1>2
  <2>2. QED BY <1>2, <2>1
<1>5. QED BY <1>2, <1>3, <1>4 DEF w

\* Multiples of the block size.
LEMMA Multiples ==
  ASSUME NEW i \in Nat, NEW j \in Nat
  PROVE  /\ i * BlockSize \in Nat
         /\ (i * BlockSize) % BlockSize = 0
         /\ (i * BlockSize) \div BlockSize = i
         /\ i * BlockSize = j * BlockSize => i = j
         /\ i > 0 => i * BlockSize > 0
         /\ i <= j <=> i * BlockSize <= j * BlockSize
<1>1. BlockSize \in Nat \ {0} /\ 0 \in 0 .. BlockSize - 1 /\ BlockSize > 0
  BY LayoutAssumption
<1>2. i * BlockSize \in Nat /\ j * BlockSize \in Nat
  BY <1>1
<1> DEFINE x == i * BlockSize
           q == x \div BlockSize
           r == x % BlockSize
<1>3. q \in Nat /\ r \in 0 .. BlockSize - 1 /\ x = q * BlockSize + r
  BY <1>1, <1>2
<1>4. x = i * BlockSize + 0
  BY <1>2
<1> HIDE DEF q, r
<1>5. q * BlockSize + r = i * BlockSize + 0
  BY <1>3, <1>4
<1>6. q = i /\ r = 0
  BY <1>1, <1>3, <1>5, MixedRadix
<1>7. i * BlockSize = j * BlockSize => i = j
  BY <1>1
<1>8. i > 0 => i * BlockSize > 0
  BY <1>1
<1>9. i <= j <=> i * BlockSize <= j * BlockSize
  <2>1. ASSUME NEW a \in Nat, NEW b \in Nat, a <= b PROVE a * BlockSize <= b * BlockSize
    <3> DEFINE d == b - a
    <3>1. d \in Nat /\ b = a + d
      BY <2>1
    <3> HIDE DEF d
    <3>2. b * BlockSize = a * BlockSize + d * BlockSize
      BY <1>1, <3>1
    <3>3. a * BlockSize \in Nat /\ d * BlockSize \in Nat
      BY <1>1, <3>1
    <3>4. QED BY <3>2, <3>3
  <2>2. i <= j => i * BlockSize <= j * BlockSize
    BY <2>1
  <2>3. ASSUME i * BlockSize <= j * BlockSize, ~ (i <= j) PROVE FALSE
    <3>1. j <= i
      BY <2>3
    <3>2. j * BlockSize <= i * BlockSize
      BY <2>1, <3>1
    <3>3. i * BlockSize = j * BlockSize
      BY <1>2, <2>3, <3>2
    <3>4. QED BY <1>7, <2>3, <3>3
  <2>4. QED BY <2>2, <2>3
<1>10. QED BY <1>2, <1>6, <1>7, <1>8, <1>9 DEF q, r

\* The ends of the whole blocks of a prompt.
LEMMA BlockEnds ==
  ASSUME NEW seq \in Seq(Nat)
  PROVE  /\ Whole(seq) \in Nat
         /\ \A i \in 1 .. Whole(seq) :
              /\ i * BlockSize \in 1 .. Len(seq)
              /\ BlockEnd(seq, i) \in Seq(Nat) \ {<<>>}
              /\ Len(BlockEnd(seq, i)) = i * BlockSize
              /\ Len(BlockEnd(seq, i)) \div BlockSize = i
              /\ Len(BlockEnd(seq, i)) % BlockSize = 0
<1>1. Len(seq) \in Nat
  OBVIOUS
<1>2. /\ Whole(seq) \in Nat
      /\ \A i \in 0 .. Whole(seq) : i * BlockSize \in 0 .. Len(seq)
  BY <1>1, WholeBlocks DEF Whole
<1>3. SUFFICES ASSUME NEW i \in 1 .. Whole(seq)
               PROVE  /\ i * BlockSize \in 1 .. Len(seq)
                      /\ BlockEnd(seq, i) \in Seq(Nat) \ {<<>>}
                      /\ Len(BlockEnd(seq, i)) = i * BlockSize
                      /\ Len(BlockEnd(seq, i)) \div BlockSize = i
                      /\ Len(BlockEnd(seq, i)) % BlockSize = 0
  BY <1>2
<1> DEFINE k == i * BlockSize
<1>4. i \in Nat /\ i > 0 /\ k \in 0 .. Len(seq)
  BY <1>2
<1>5. k \in Nat /\ k % BlockSize = 0 /\ k \div BlockSize = i /\ k > 0
  BY <1>4, Multiples
<1> HIDE DEF k
<1>6. FirstN(seq, k) \in Seq(Nat) /\ Len(FirstN(seq, k)) = k
  BY <1>4, FirstNOf
<1>7. FirstN(seq, k) # <<>>
  BY <1>5, <1>6
<1>8. k \in 1 .. Len(seq)
  BY <1>4, <1>5
<1>9. QED BY <1>5, <1>6, <1>7, <1>8 DEF k, BlockEnd

\* They differ.
LEMMA BlockEndsDiffer ==
  ASSUME NEW seq \in Seq(Nat), NEW i \in 1 .. Whole(seq), NEW j \in 1 .. Whole(seq),
         BlockEnd(seq, i) = BlockEnd(seq, j)
  PROVE  i = j
<1>1. Len(BlockEnd(seq, i)) \div BlockSize = i /\ Len(BlockEnd(seq, j)) \div BlockSize = j
  BY BlockEnds
<1>2. QED BY <1>1

\* What is whole blocks long and a prefix of a block end is a block end.
LEMMA EarlierBlockEnd ==
  ASSUME NEW seq \in Seq(Nat), NEW i \in 1 .. Whole(seq),
         NEW p \in Seq(Nat) \ {<<>>}, Len(p) % BlockSize = 0, IsPrefix(p, BlockEnd(seq, i))
  PROVE  \E j \in 1 .. i : p = BlockEnd(seq, j)
<1> DEFINE e == BlockEnd(seq, i)
           j == Len(p) \div BlockSize
           k == i * BlockSize
<1>1. i \in Nat /\ e \in Seq(Nat) /\ Len(e) = k /\ k \in 1 .. Len(seq)
  BY BlockEnds
<1>2. Len(p) \in Nat /\ Len(p) > 0
  OBVIOUS
<1>3. j \in Nat /\ Len(p) = j * BlockSize
  BY <1>2, WholeBlocks
<1>4. IsPrefix(p, e)
  OBVIOUS
<1> HIDE DEF e, j
<1>5. Len(p) \in 0 .. Len(e) /\ p = FirstN(e, Len(p))
  BY <1>1, <1>4, PrefixIsFirstN
<1>6. j * BlockSize <= i * BlockSize /\ j * BlockSize \in 0 .. k
  BY <1>1, <1>3, <1>5
<1>7. j <= i
  BY <1>1, <1>3, <1>6, Multiples
<1>8. j # 0
  <2>1. 0 * BlockSize = 0
    BY LayoutAssumption
  <2>2. QED BY <1>2, <1>3, <2>1
<1>9. k \in 0 .. Len(seq) /\ e = FirstN(seq, k)
  BY <1>1 DEF e, BlockEnd
<1> HIDE DEF k
<1>10. FirstN(e, j * BlockSize) = FirstN(seq, j * BlockSize)
  BY <1>6, <1>9, FirstNOfFirstN
<1>11. p = BlockEnd(seq, j) /\ j \in 1 .. i
  BY <1>1, <1>3, <1>5, <1>7, <1>8, <1>10 DEF BlockEnd
<1>12. QED BY <1>11

---------------------------------------------------------------------------
(* The tree *)

Node == [block : Block \cup {kInvalidBlock}, tick : Nat]

TreeTypeOK(t) ==
  /\ t \in [node : {t.node}, tick : Nat, count : Nat]
  /\ IsFiniteSet(DOMAIN t.node)
  /\ DOMAIN t.node \subseteq Seq(Nat) \ {<<>>}
  /\ t.node \in [DOMAIN t.node -> Node]
  /\ \A p \in DOMAIN t.node : t.node[p].tick <= t.tick

\* TreePruned, PrefixesFresher and the tree's half of BitExact, of any tree.
Tidy(t) ==
  /\ \A p \in DOMAIN t.node : Len(p) > 1 => Front(p) \in DOMAIN t.node
  /\ \A p \in Cached(t) : Len(p) % BlockSize = 0
  /\ \A p \in DOMAIN t.node : \E q \in Cached(t) : IsPrefix(p, q)
  /\ t.count = Cardinality(Cached(t))

Fresher(t) ==
  \A p, q \in Cached(t) : IsPrefix(p, q) => t.node[p].tick >= t.node[q].tick

Exact(t, ct) == \A p \in Cached(t) : ct[t.node[p].block] = p

\* The nodes that carry block b, and the references they make.
Carriers(t, b) == {p \in Cached(t) : t.node[p].block = b}
Carried(t, b) == IF Carriers(t, b) = {} THEN 0 ELSE 1

\* What a node that carries a block looks like.
LEMMA CachedNode ==
  ASSUME NEW t, TreeTypeOK(t), NEW p \in Cached(t)
  PROVE  /\ p \in DOMAIN t.node /\ p \in Seq(Nat) \ {<<>>}
         /\ t.node[p].block \in Block /\ t.node[p].tick \in Nat /\ t.node[p].tick <= t.tick
<1>1. p \in DOMAIN t.node /\ t.node[p] \in Node /\ t.node[p].block # kInvalidBlock
  BY DEF TreeTypeOK, Cached
<1>2. t.node[p].block \in Block /\ t.node[p].tick \in Nat
  BY <1>1 DEF Node
<1>3. QED BY <1>1, <1>2 DEF TreeTypeOK

\* The cached nodes are finitely many.
LEMMA CachedFinite ==
  ASSUME NEW t, TreeTypeOK(t)
  PROVE  IsFiniteSet(Cached(t)) /\ Cardinality(Cached(t)) \in Nat
<1>1. Cached(t) \in SUBSET DOMAIN t.node /\ IsFiniteSet(DOMAIN t.node)
  BY DEF Cached, TreeTypeOK
<1>2. IsFiniteSet(Cached(t))
  BY <1>1, FS_Subset
<1>3. QED BY <1>2, FS_CardinalityType

\* Where reuse is exact a block has one carrier at most.
LEMMA OneCarrier ==
  ASSUME NEW t, NEW ct, Exact(t, ct), NEW b
  PROVE  Cardinality(Carriers(t, b)) = Carried(t, b)
<1> DEFINE C == Carriers(t, b)
<1>1. \A p, q \in C : p = q
  BY DEF Exact, Carriers
<1> HIDE DEF C
<1>2. CASE C = {}
  BY <1>2, FS_EmptySet DEF C, Carried
<1>3. CASE C # {}
  <2>1. PICK p \in C : TRUE
    BY <1>3
  <2>2. C = {p}
    BY <1>1, <2>1
  <2>3. Cardinality(C) = 1
    BY <2>2, FS_Singleton
  <2>4. QED BY <1>3, <2>3 DEF C, Carried
<1>4. QED BY <1>2, <1>3

\* u is t but for the ticks.
SameBlocks(t, u) ==
  /\ DOMAIN u.node = DOMAIN t.node
  /\ \A p \in DOMAIN t.node : u.node[p].block = t.node[p].block
  /\ u.count = t.count

\* Ticks do not matter to most of what is said of the tree.
LEMMA TicksOnly ==
  ASSUME NEW t, NEW u, SameBlocks(t, u)
  PROVE  /\ Cached(u) = Cached(t)
         /\ \A b : Carried(u, b) = Carried(t, b)
         /\ Tidy(t) => Tidy(u)
         /\ \A ct : Exact(t, ct) => Exact(u, ct)
<1>1. Cached(u) = Cached(t)
  BY DEF Cached, SameBlocks
<1>2. \A p \in Cached(t) : u.node[p].block = t.node[p].block
  BY DEF Cached, SameBlocks
<1>3. \A b : Carriers(u, b) = Carriers(t, b)
  BY <1>1, <1>2 DEF Carriers
<1>4. ASSUME Tidy(t) PROVE Tidy(u)
  BY <1>1, <1>4 DEF Tidy, SameBlocks
<1>5. \A ct : Exact(t, ct) => Exact(u, ct)
  BY <1>1, <1>2 DEF Exact
<1>6. QED BY <1>1, <1>3, <1>4, <1>5 DEF Carried

\* The ends of the first n blocks of seq.
Ends(seq, n) == {BlockEnd(seq, i) : i \in 1 .. n}

\* Block ends before one of them are among them.
LEMMA EndsClosed ==
  ASSUME NEW seq \in Seq(Nat), NEW n \in 0 .. Whole(seq),
         NEW p \in Seq(Nat) \ {<<>>}, Len(p) % BlockSize = 0,
         NEW q \in Ends(seq, n), IsPrefix(p, q)
  PROVE  p \in Ends(seq, n)
<1>1. PICK i \in 1 .. n : q = BlockEnd(seq, i)
  BY DEF Ends
<1>2. Whole(seq) \in Nat
  BY BlockEnds
<1>3. i \in 1 .. Whole(seq)
  BY <1>1, <1>2
<1>4. PICK j \in 1 .. i : p = BlockEnd(seq, j)
  BY <1>1, <1>3, EarlierBlockEnd
<1>5. j \in 1 .. n
  BY <1>2, <1>4
<1>6. QED BY <1>4, <1>5 DEF Ends

\* In u the cached nodes among E have been touched since t, and the others are
\* as they were.
TouchedAt(t, u, E) ==
  \A p \in Cached(u) :
    IF p \in E THEN u.node[p].tick = t.tick + 1
    ELSE p \in Cached(t) /\ u.node[p].tick = t.node[p].tick

\* Touching the block ends of a prompt from the first one on leaves prefixes
\* as fresh as what extends them.
LEMMA FresherKept ==
  ASSUME NEW t, NEW u, TreeTypeOK(t), TreeTypeOK(u), Fresher(t), Tidy(u),
         NEW seq \in Seq(Nat), NEW n \in 0 .. Whole(seq), TouchedAt(t, u, Ends(seq, n))
  PROVE  Fresher(u)
<1> DEFINE E == Ends(seq, n)
<1>1. SUFFICES ASSUME NEW p \in Cached(u), NEW q \in Cached(u), IsPrefix(p, q)
               PROVE  u.node[p].tick >= u.node[q].tick
  BY DEF Fresher
<1>2. /\ IF p \in E THEN u.node[p].tick = t.tick + 1
         ELSE p \in Cached(t) /\ u.node[p].tick = t.node[p].tick
      /\ IF q \in E THEN u.node[q].tick = t.tick + 1
         ELSE q \in Cached(t) /\ u.node[q].tick = t.node[q].tick
  BY DEF TouchedAt
<1>3. q \in E => p \in E
  <2>1. Len(p) % BlockSize = 0
    BY DEF Tidy
  <2>2. p \in Seq(Nat) \ {<<>>}
    BY CachedNode
  <2>3. QED BY <1>1, <2>1, <2>2, EndsClosed
<1>4. t.tick \in Nat
  BY DEF TreeTypeOK
<1>5. q \in Cached(t) => t.node[q].tick \in Nat /\ t.node[q].tick <= t.tick
  BY CachedNode
<1> HIDE DEF E
<1>6. CASE q \in E
  BY <1>2, <1>3, <1>4, <1>6
<1>7. CASE q \notin E /\ p \in E
  BY <1>2, <1>4, <1>5, <1>7
<1>8. CASE q \notin E /\ p \notin E
  BY <1>1, <1>2, <1>8 DEF Fresher
<1>9. QED BY <1>6, <1>7, <1>8

---------------------------------------------------------------------------
(* lookup *)

\* The walk matches no more than the prompt, and what it matches is there.
LEMMA MatchedOK ==
  ASSUME NEW t, NEW seq \in Seq(Nat)
  PROVE  /\ Matched(t, seq) \in 0 .. Len(seq)
         /\ MatchedBlocks(t, seq) \in 0 .. Whole(seq)
<1> DEFINE S == {n \in 0 .. Len(seq) : \A k \in 1 .. n : FirstN(seq, k) \in DOMAIN t.node}
           x == Matched(t, seq)
<1>1. Len(seq) \in Nat
  OBVIOUS
<1>2. 0 \in S
  BY <1>1
<1>3. S \in SUBSET (0 .. Len(seq)) /\ S # {}
  BY <1>2
<1>4. x = Max(S)
  BY DEF Matched
<1> HIDE DEF S, x
<1>5. x \in 0 .. Len(seq)
  BY <1>1, <1>3, <1>4, MaxOf
<1>6. x \div BlockSize \in 0 .. Len(seq) \div BlockSize
  <2>1. BlockSize \in Nat /\ BlockSize > 0 /\ x \in Nat /\ Len(seq) \in Nat /\ x <= Len(seq)
    BY <1>1, <1>5, LayoutAssumption
  <2> DEFINE a == x \div BlockSize
             b == Len(seq) \div BlockSize
  <2>2. a \in Nat /\ a * BlockSize <= x
    BY <2>1
  <2>3. b \in Nat /\ Len(seq) < (b + 1) * BlockSize
    BY <2>1
  <2> HIDE DEF a, b
  <2>4. b + 1 \in Nat /\ a * BlockSize \in Nat /\ (b + 1) * BlockSize \in Nat
    BY <2>1, <2>2, <2>3
  <2>5. ~ ((b + 1) * BlockSize <= a * BlockSize)
    BY <2>1, <2>2, <2>3, <2>4
  <2>6. ~ (b + 1 <= a)
    BY <2>2, <2>4, <2>5, Multiples
  <2>7. a \in 0 .. b
    BY <2>2, <2>3, <2>6
  <2>8. QED BY <2>7 DEF a, b
<1>7. QED BY <1>5, <1>6 DEF x, MatchedBlocks, Whole

\* A lookup changes ticks only, and keeps the tree's invariants.
LEMMA TouchedOK ==
  ASSUME NEW t, TreeTypeOK(t), NEW seq \in Seq(Nat)
  PROVE  /\ SameBlocks(t, Touched(t, seq))
         /\ TreeTypeOK(Touched(t, seq))
         /\ Tidy(t) /\ Fresher(t) => Fresher(Touched(t, seq))
<1> DEFINE n == MatchedBlocks(t, seq)
           u == Touched(t, seq)
           E == Ends(seq, n)
<1>1. n \in 0 .. Whole(seq)
  BY MatchedOK
<1>2. CASE n = 0
  <2>1. u = t
    BY <1>2 DEF Touched
  <2>2. QED BY <2>1 DEF SameBlocks
<1>3. CASE n # 0
  <2> DEFINE nodes == [p \in DOMAIN t.node |->
                         IF p \in E \cap Cached(t)
                         THEN [block |-> t.node[p].block, tick |-> t.tick + 1]
                         ELSE t.node[p]]
  <2>1. u = [t EXCEPT !.tick = @ + 1, !.node = nodes]
    BY <1>3 DEF Touched, Ends
  <2>2. t \in [node : {t.node}, tick : Nat, count : Nat]
    BY DEF TreeTypeOK
  <2> HIDE DEF n, u, E, nodes
  <2>3. u.node = nodes /\ u.tick = t.tick + 1 /\ u.count = t.count
    BY <2>1, <2>2
  <2>4. u \in [node : {u.node}, tick : Nat, count : Nat]
    <3>1. t.tick \in Nat /\ t.count \in Nat
      BY <2>2
    <3>2. u = [node |-> nodes, tick |-> t.tick + 1, count |-> t.count]
      BY <2>1, <2>2
    <3>3. QED BY <2>3, <3>1, <3>2
  <2>5. t.tick \in Nat
    BY <2>2
  <2>6. DOMAIN u.node = DOMAIN t.node
    BY <2>3 DEF nodes
  <2>7. \A p \in DOMAIN t.node :
          u.node[p] = IF p \in E \cap Cached(t)
                      THEN [block |-> t.node[p].block, tick |-> t.tick + 1]
                      ELSE t.node[p]
    BY <2>3 DEF nodes
  <2>8. \A p \in DOMAIN t.node : t.node[p] \in Node /\ t.node[p].tick <= t.tick
    BY DEF TreeTypeOK
  <2>9. ASSUME NEW p \in DOMAIN t.node
        PROVE  /\ u.node[p] \in Node /\ u.node[p].tick <= u.tick
               /\ u.node[p].block = t.node[p].block
    <3>1. t.node[p].block \in Block \cup {kInvalidBlock} /\ t.node[p].tick \in Nat
      BY <2>8 DEF Node
    <3>2. CASE p \in E \cap Cached(t)
      <4>1. u.node[p] = [block |-> t.node[p].block, tick |-> t.tick + 1]
        BY <2>7, <3>2
      <4>2. QED BY <2>3, <2>5, <3>1, <4>1 DEF Node
    <3>3. CASE p \notin E \cap Cached(t)
      <4>1. u.node[p] = t.node[p]
        BY <2>7, <3>3
      <4>2. QED BY <2>3, <2>5, <2>8, <3>1, <4>1
    <3>4. QED BY <3>2, <3>3
  <2>10. SameBlocks(t, u)
    BY <2>3, <2>6, <2>9 DEF SameBlocks
  <2>11. u.node = [p \in DOMAIN u.node |-> u.node[p]]
    BY <2>3, <2>6 DEF nodes
  <2>12. u.node \in [DOMAIN u.node -> Node]
    BY <2>6, <2>9, <2>11
  <2>13. TreeTypeOK(u)
    BY <2>4, <2>6, <2>9, <2>12 DEF TreeTypeOK
  <2>14. ASSUME Tidy(t), Fresher(t) PROVE Fresher(u)
    <3>1. Tidy(u) /\ Cached(u) = Cached(t)
      BY <2>10, <2>14, TicksOnly
    <3>2. TouchedAt(t, u, E)
      <4>1. SUFFICES ASSUME NEW p \in Cached(t)
                     PROVE  IF p \in E THEN u.node[p].tick = t.tick + 1
                            ELSE p \in Cached(t) /\ u.node[p].tick = t.node[p].tick
        BY <3>1 DEF TouchedAt
      <4>2. p \in DOMAIN t.node
        BY DEF Cached
      <4>3. CASE p \in E
        <5>1. u.node[p] = [block |-> t.node[p].block, tick |-> t.tick + 1]
          BY <2>7, <4>2, <4>3
        <5>2. QED BY <4>3, <5>1
      <4>4. CASE p \notin E
        BY <2>7, <4>2, <4>4
      <4>5. QED BY <4>3, <4>4
    <3>3. QED BY <1>1, <2>13, <2>14, <3>1, <3>2, FresherKept DEF E
  <2>15. QED BY <2>10, <2>13, <2>14 DEF u
<1>4. QED BY <1>2, <1>3

\* One step of the way back up, the first i - 1 ends having given s.
Collecting(t, seq, s, i) ==
  IF BlockEnd(seq, i) \in Cached(t) THEN Append(s, t.node[BlockEnd(seq, i)].block) ELSE s

\* The recursion of Collected, unfolded.
LEMMA CollectedUnfolds ==
  ASSUME NEW t, NEW seq, MatchedBlocks(t, seq) \in Nat
  PROVE  /\ Collected(t, seq)[0] = <<>>
         /\ \A i \in 1 .. MatchedBlocks(t, seq) :
              Collected(t, seq)[i] = Collecting(t, seq, Collected(t, seq)[i - 1], i)
<1> DEFINE L == MatchedBlocks(t, seq)
           Run(f, k) == f = [i \in 0 .. k |->
                               IF i = 0 THEN <<>> ELSE Collecting(t, seq, f[i - 1], i)]
           S == {k \in Nat : \E f : Run(f, k)}
<1>1. 0 \in S
  <2>1. Run([i \in 0 .. 0 |-> <<>>], 0)
    OBVIOUS
  <2>2. QED BY <2>1
<1>2. \A k \in Nat : k \in S => k + 1 \in S
  <2>1. SUFFICES ASSUME NEW k \in Nat, NEW f, Run(f, k)
                 PROVE  \E g : Run(g, k + 1)
    OBVIOUS
  <2>2. DEFINE g == [i \in 0 .. k + 1 |->
                       IF i <= k THEN f[i] ELSE Collecting(t, seq, f[k], k + 1)]
  <2>3. ASSUME NEW i \in 0 .. k + 1
        PROVE  g[i] = IF i = 0 THEN <<>> ELSE Collecting(t, seq, g[i - 1], i)
    <3>1. CASE i = 0
      BY <2>1, <3>1
    <3>2. CASE i \in 1 .. k
      <4>1. g[i] = f[i] /\ g[i - 1] = f[i - 1]
        BY <3>2
      <4>2. f[i] = Collecting(t, seq, f[i - 1], i)
        BY <2>1, <3>2
      <4>3. QED BY <4>1, <4>2, <3>2
    <3>3. CASE i = k + 1
      BY <3>3
    <3>4. QED BY <3>1, <3>2, <3>3
  <2>4. Run(g, k + 1)
    <3> HIDE DEF g
    <3>1. g = [i \in 0 .. k + 1 |-> g[i]]
      BY DEF g
    <3>2. QED BY <3>1, <2>3
  <2>5. QED BY <2>4
<1>3. \E f : Run(f, L)
  <2> HIDE DEF S
  <2>1. L \in S
    BY <1>1, <1>2, SetInduction
  <2>2. QED BY <2>1 DEF S
<1>4. Collected(t, seq) = CHOOSE f : Run(f, L)
  BY DEF Collected, Collecting
<1>5. Run(Collected(t, seq), L)
  BY <1>3, <1>4
<1>6. QED BY <1>5

\* s holds the blocks of cached ends among the first i, each once, and if it
\* holds i of them they are those of all of the ends in order.
Gathered(t, seq, s, i) ==
  /\ s \in Seq(Block) /\ Len(s) <= i
  /\ IsInjective(s)
  /\ \A k \in 1 .. Len(s) : \E j \in 1 .. i :
       BlockEnd(seq, j) \in Cached(t) /\ s[k] = t.node[BlockEnd(seq, j)].block
  /\ Len(s) = i => \A k \in 1 .. i :
       BlockEnd(seq, k) \in Cached(t) /\ s[k] = t.node[BlockEnd(seq, k)].block

\* A step of the way gathers.
LEMMA CollectingGathers ==
  ASSUME NEW t, TreeTypeOK(t), NEW ct, Exact(t, ct), NEW seq \in Seq(Nat),
         NEW i \in Nat, i + 1 <= Whole(seq), NEW s, Gathered(t, seq, s, i)
  PROVE  Gathered(t, seq, Collecting(t, seq, s, i + 1), i + 1)
<1> DEFINE e == BlockEnd(seq, i + 1)
           b == t.node[e].block
           u == Append(s, b)
<1>1. Whole(seq) \in Nat /\ i + 1 \in 1 .. Whole(seq)
  BY BlockEnds
<1>2. /\ s \in Seq(Block) /\ Len(s) <= i /\ IsInjective(s)
      /\ \A k \in 1 .. Len(s) : \E j \in 1 .. i :
           BlockEnd(seq, j) \in Cached(t) /\ s[k] = t.node[BlockEnd(seq, j)].block
      /\ Len(s) = i => \A k \in 1 .. i :
           BlockEnd(seq, k) \in Cached(t) /\ s[k] = t.node[BlockEnd(seq, k)].block
  BY DEF Gathered
<1>3. Len(s) \in Nat /\ 1 .. i \subseteq 1 .. i + 1
  BY <1>2
<1>4. CASE e \notin Cached(t)
  <2>1. Collecting(t, seq, s, i + 1) = s
    BY <1>4 DEF Collecting
  <2>2. Len(s) <= i + 1 /\ Len(s) # i + 1
    BY <1>2, <1>3
  <2>3. \A k \in 1 .. Len(s) : \E j \in 1 .. i + 1 :
          BlockEnd(seq, j) \in Cached(t) /\ s[k] = t.node[BlockEnd(seq, j)].block
    BY <1>2, <1>3
  <2>4. Gathered(t, seq, s, i + 1)
    BY <1>2, <2>2, <2>3 DEF Gathered
  <2>5. QED BY <2>1, <2>4
<1>5. CASE e \in Cached(t)
  <2>1. Collecting(t, seq, s, i + 1) = u
    BY <1>5 DEF Collecting
  <2>2. b \in Block
    BY <1>5, CachedNode
  <2>3. ASSUME NEW k \in 1 .. Len(s) PROVE s[k] # b
    <3>1. PICK j \in 1 .. i :
            BlockEnd(seq, j) \in Cached(t) /\ s[k] = t.node[BlockEnd(seq, j)].block
      BY <1>2
    <3>2. j \in 1 .. Whole(seq) /\ j # i + 1
      BY <1>1
    <3>3. BlockEnd(seq, j) # e
      BY <1>1, <3>2, BlockEndsDiffer
    <3>4. ct[b] = e /\ ct[s[k]] = BlockEnd(seq, j)
      BY <1>5, <3>1 DEF Exact
    <3>5. QED BY <3>3, <3>4
  <2> HIDE DEF b
  <2>4. u \in Seq(Block) /\ Len(u) = Len(s) + 1
    BY <1>2, <2>2
  <2>5. /\ \A k \in 1 .. Len(s) : u[k] = s[k]
        /\ u[Len(s) + 1] = b
    BY <1>2, <2>2
  <2> HIDE DEF u
  <2>6. Len(u) <= i + 1 /\ (Len(u) = i + 1 => Len(s) = i)
    BY <1>2, <1>3, <2>4
  <2>7. \A k \in 1 .. Len(u) : k \in 1 .. Len(s) \/ k = Len(s) + 1
    BY <1>3, <2>4
  <2>8. IsInjective(u)
    <3>1. DOMAIN s = 1 .. Len(s) /\ DOMAIN u = 1 .. Len(u)
      BY <1>2, <2>4
    <3>2. \A k, l \in 1 .. Len(s) : s[k] = s[l] => k = l
      BY <1>2, <3>1 DEF IsInjective
    <3>3. \A k, l \in 1 .. Len(u) : u[k] = u[l] => k = l
      BY <2>3, <2>5, <2>7, <3>2
    <3>4. QED BY <3>1, <3>3 DEF IsInjective
  <2>9. i + 1 \in 1 .. i + 1
    OBVIOUS
  <2>10. ASSUME NEW k \in 1 .. Len(u)
         PROVE  \E j \in 1 .. i + 1 :
                  BlockEnd(seq, j) \in Cached(t) /\ u[k] = t.node[BlockEnd(seq, j)].block
    <3>1. CASE k \in 1 .. Len(s)
      BY <1>2, <1>3, <2>5, <3>1
    <3>2. CASE k = Len(s) + 1
      BY <1>5, <2>5, <2>9, <3>2 DEF b
    <3>3. QED BY <2>7, <3>1, <3>2
  <2>11. ASSUME Len(u) = i + 1, NEW k \in 1 .. i + 1
         PROVE  BlockEnd(seq, k) \in Cached(t) /\ u[k] = t.node[BlockEnd(seq, k)].block
    <3>1. Len(s) = i
      BY <2>6, <2>11
    <3>2. CASE k \in 1 .. i
      BY <1>2, <2>5, <3>1, <3>2
    <3>3. CASE k = i + 1
      BY <1>5, <2>5, <3>1, <3>3 DEF b
    <3>4. QED BY <3>2, <3>3
  <2>12. Gathered(t, seq, u, i + 1)
    BY <2>4, <2>6, <2>8, <2>10, <2>11 DEF Gathered
  <2>13. QED BY <2>1, <2>12
<1>6. QED BY <1>4, <1>5

\* What lookup returns: blocks of cached ends, each once, and if their number
\* is that of the blocks matched, those of all of the ends in order.
LEMMA MatchGathers ==
  ASSUME NEW t, TreeTypeOK(t), NEW ct, Exact(t, ct), NEW seq \in Seq(Nat)
  PROVE  Gathered(t, seq, Match(t, seq).blocks, MatchedBlocks(t, seq))
<1> DEFINE n == MatchedBlocks(t, seq)
           C == Collected(t, seq)
           S == {i \in Nat : i <= n => Gathered(t, seq, C[i], i)}
<1>1. n \in 0 .. Whole(seq) /\ Whole(seq) \in Nat
  BY MatchedOK, BlockEnds
<1>2. n \in Nat
  BY <1>1
<1>3. C[0] = <<>> /\ \A i \in 1 .. n : C[i] = Collecting(t, seq, C[i - 1], i)
  BY <1>2, CollectedUnfolds
<1>4. Gathered(t, seq, <<>>, 0)
  BY DEF Gathered, IsInjective
<1> HIDE DEF n, C
<1>5. 0 \in S
  BY <1>3, <1>4
<1>6. \A i \in Nat : i \in S => i + 1 \in S
  <2>1. SUFFICES ASSUME NEW i \in Nat, i \in S, i + 1 <= n
                 PROVE  Gathered(t, seq, C[i + 1], i + 1)
    OBVIOUS
  <2>2. Gathered(t, seq, C[i], i) /\ i + 1 <= Whole(seq) /\ i + 1 \in 1 .. n /\ (i + 1) - 1 = i
    BY <1>1, <1>2, <2>1
  <2>3. C[i + 1] = Collecting(t, seq, C[i], i + 1)
    BY <1>3, <2>2
  <2>4. Gathered(t, seq, Collecting(t, seq, C[i], i + 1), i + 1)
    BY <2>2, CollectingGathers
  <2>5. QED BY <2>3, <2>4
<1> HIDE DEF S
<1>7. n \in S
  BY <1>2, <1>5, <1>6, SetInduction
<1>8. Gathered(t, seq, C[n], n)
  BY <1>2, <1>7 DEF S
<1>9. Match(t, seq).blocks = C[n]
  BY DEF Match, C, n
<1>10. QED BY <1>8, <1>9 DEF n

---------------------------------------------------------------------------
(* References *)

\* The reference that one of the entries of s makes on block b.
In(b, s) == IF b \in ToSet(s) THEN 1 ELSE 0

\* Retaining blocks in use, each once, counts each once more.
LEMMA RetainingOK ==
  ASSUME NEW m, ManagerOK(m), NEW s, IsInjective(s),
         \A i \in DOMAIN s : s[i] \in Block /\ m.refcount[s[i]] > 0
  PROVE  /\ ManagerOK(Retaining(m, s))
         /\ \A b \in Block : Retaining(m, s).refcount[b] = m.refcount[b] + In(b, s)
<1> DEFINE C(b) == {i \in DOMAIN s : s[i] = b}
           rc == [b \in Block |-> m.refcount[b] + Cardinality(C(b))]
           n == Retaining(m, s)
<1>1. /\ ManagerTypeOK(m) /\ m.refcount \in [Block -> Nat] /\ m.free_list \in Seq(Block)
      /\ IsInjective(m.free_list) /\ ToSet(m.free_list) = {b \in Block : m.refcount[b] = 0}
  BY DEF ManagerOK, ManagerTypeOK, FreeListExact
<1>2. ASSUME NEW b \in Block PROVE Cardinality(C(b)) = In(b, s)
  <2>1. CASE b \notin ToSet(s)
    <3>1. C(b) = {}
      BY <2>1 DEF ToSet
    <3>2. QED BY <2>1, <3>1, FS_EmptySet DEF In
  <2>2. CASE b \in ToSet(s)
    <3>1. PICK i \in DOMAIN s : s[i] = b
      BY <2>2 DEF ToSet
    <3>2. \A j \in DOMAIN s : s[j] = b => j = i
      BY <3>1 DEF IsInjective
    <3>3. C(b) = {i}
      BY <3>1, <3>2
    <3>4. Cardinality(C(b)) = 1
      BY <3>3, FS_Singleton
    <3>5. QED BY <2>2, <3>4 DEF In
  <2>3. QED BY <2>1, <2>2
<1>3. n = WithPool(m, m.free_list, rc)
  BY DEF Retaining
<1> HIDE DEF C, n
<1>4. \A b \in Block : rc[b] = m.refcount[b] + In(b, s)
  BY <1>2
<1>5. rc = [b \in Block |-> rc[b]]
  OBVIOUS
<1> HIDE DEF rc
<1>6. \A b : In(b, s) \in {0, 1}
  BY DEF In
<1>7. rc \in [Block -> Nat]
  <2>1. \A b \in Block : m.refcount[b] \in Nat
    BY <1>1
  <2>2. \A b \in Block : rc[b] \in Nat
    BY <1>4, <1>6, <2>1
  <2>3. QED BY <1>5, <2>2
<1>8. ManagerTypeOK(n) /\ n.free_list = m.free_list /\ n.refcount = rc
  BY <1>1, <1>3, <1>7, WithPoolTyped
<1>9. \A b \in Block : m.refcount[b] = 0 <=> rc[b] = 0
  <2>1. SUFFICES ASSUME NEW b \in Block PROVE m.refcount[b] = 0 <=> rc[b] = 0
    OBVIOUS
  <2>2. b \in ToSet(s) => m.refcount[b] > 0
    BY DEF ToSet
  <2>3. m.refcount[b] \in Nat /\ rc[b] = m.refcount[b] + In(b, s)
    BY <1>1, <1>4
  <2>4. QED BY <2>2, <2>3 DEF In
<1>10. FreeListExact(n)
  BY <1>1, <1>8, <1>9 DEF FreeListExact
<1>11. QED BY <1>4, <1>8, <1>10 DEF ManagerOK, n

\* Releasing blocks in use, each once, counts each once less.
LEMMA ReleasingEach ==
  ASSUME NEW m, ManagerOK(m), NEW s \in Seq(Block), IsInjective(s),
         \A i \in DOMAIN s : m.refcount[s[i]] > 0
  PROVE  /\ ManagerOK(Releasing(m, s)[Len(s)])
         /\ \A b \in Block : Releasing(m, s)[Len(s)].refcount[b] = m.refcount[b] - In(b, s)
<1>1. Len(s) \in Nat /\ Len(s) \in 0 .. Len(s) /\ DOMAIN s = 1 .. Len(s)
  OBVIOUS
<1>2. ManagerOK(Releasing(m, s)[Len(s)])
  BY <1>1, ReleasingOK
<1>3. ASSUME NEW b \in Block
      PROVE  Cardinality(Prefix(0, s, Len(s), b)) = In(b, s) /\ In(b, s) <= m.refcount[b]
  <2>1. m.refcount[b] \in Nat
    BY DEF ManagerOK, ManagerTypeOK
  <2>2. CASE b \notin ToSet(s)
    <3>1. Prefix(0, s, Len(s), b) = {}
      BY <1>1, <2>2 DEF Prefix, ToSet
    <3>2. Cardinality(Prefix(0, s, Len(s), b)) = 0
      BY <3>1, FS_EmptySet
    <3>3. In(b, s) = 0
      BY <2>2 DEF In
    <3>4. QED BY <2>1, <3>2, <3>3
  <2>3. CASE b \in ToSet(s)
    <3>1. PICK i \in DOMAIN s : s[i] = b
      BY <2>3 DEF ToSet
    <3>2. \A j \in DOMAIN s : s[j] = b => j = i
      BY <3>1 DEF IsInjective
    <3>3. Prefix(0, s, Len(s), b) = {<<0, i>>}
      BY <1>1, <3>1, <3>2 DEF Prefix
    <3>4. Cardinality(Prefix(0, s, Len(s), b)) = 1
      BY <3>3, FS_Singleton
    <3>5. m.refcount[b] > 0
      BY <3>1
    <3>6. QED BY <2>1, <2>3, <3>4, <3>5 DEF In
  <2>4. QED BY <2>2, <2>3
<1>4. s \in Seq(Block \cup {kInvalidBlock})
  OBVIOUS
<1>5. \A b \in Block : Cardinality(Prefix(0, s, Len(s), b)) <= m.refcount[b]
  BY <1>3
<1>6. \A b \in Block : Releasing(m, s)[Len(s)].refcount[b] =
                         m.refcount[b] - Cardinality(Prefix(0, s, Len(s), b))
  BY <1>4, <1>5, ReleasingCounts
<1>7. QED BY <1>2, <1>3, <1>6

\* The clients that hold a reference on block b, when the clients hold bl.
Owners(bl, b) == {c \in Clients : b \in ToSet(bl[c])}

\* The clients that hold any block.  Clients itself need not be finite.
Holders(bl) == {c \in Clients : bl[c] # <<>>}

HeldTypeOK(bl) == bl \in [Clients -> Seq(Block)] /\ IsFiniteSet(Holders(bl))

\* A block's owners are finitely many.
LEMMA OwnersFinite ==
  ASSUME NEW bl, HeldTypeOK(bl), NEW b
  PROVE  IsFiniteSet(Owners(bl, b)) /\ Cardinality(Owners(bl, b)) \in Nat
<1>1. ASSUME NEW c \in Owners(bl, b) PROVE c \in Holders(bl)
  <2>1. c \in Clients /\ b \in ToSet(bl[c])
    BY <1>1 DEF Owners
  <2>2. bl[c] # <<>>
    BY <2>1 DEF ToSet
  <2>3. QED BY <2>1, <2>2 DEF Holders
<1>2. Owners(bl, b) \in SUBSET Holders(bl)
  BY <1>1
<1>3. IsFiniteSet(Owners(bl, b))
  BY <1>2, FS_Subset DEF HeldTypeOK
<1>4. QED BY <1>3, FS_CardinalityType

\* When one client's blocks change, its own references are what changes.
LEMMA OwnersChange ==
  ASSUME NEW bl, HeldTypeOK(bl), NEW c \in Clients, NEW s \in Seq(Block)
  PROVE  /\ HeldTypeOK([bl EXCEPT ![c] = s])
         /\ \A b : Cardinality(Owners([bl EXCEPT ![c] = s], b)) =
                     Cardinality(Owners(bl, b)) - In(b, bl[c]) + In(b, s)
<1> DEFINE nl == [bl EXCEPT ![c] = s]
<1>1. bl \in [Clients -> Seq(Block)] /\ IsFiniteSet(Holders(bl))
  BY DEF HeldTypeOK
<1>2. /\ nl \in [Clients -> Seq(Block)] /\ nl[c] = s
      /\ \A d \in Clients : d # c => nl[d] = bl[d]
  BY <1>1
<1> HIDE DEF nl
<1>3. HeldTypeOK(nl)
  <2>1. Holders(nl) \in SUBSET (Holders(bl) \cup {c})
    BY <1>2 DEF Holders
  <2>2. IsFiniteSet(Holders(bl) \cup {c})
    BY <1>1, FS_AddElement
  <2>3. IsFiniteSet(Holders(nl))
    BY <2>1, <2>2, FS_Subset
  <2>4. QED BY <1>2, <2>3 DEF HeldTypeOK
<1>4. ASSUME NEW b
      PROVE  Cardinality(Owners(nl, b)) = Cardinality(Owners(bl, b)) - In(b, bl[c]) + In(b, s)
  <2> DEFINE A == Owners(bl, b)
             B == Owners(nl, b)
             R == A \ {c}
  <2>1. IsFiniteSet(A) /\ Cardinality(A) \in Nat
    BY OwnersFinite
  <2>2. c \in A <=> In(b, bl[c]) = 1
    BY DEF Owners, In
  <2>3. B = IF b \in ToSet(s) THEN R \cup {c} ELSE R
    BY <1>2 DEF Owners
  <2> HIDE DEF A, B
  <2>4. In(b, bl[c]) \in {0, 1}
    BY DEF In
  <2>5. IsFiniteSet(R) /\ Cardinality(R) = Cardinality(A) - In(b, bl[c])
    BY <2>1, <2>2, <2>4, FS_RemoveElement
  <2>6. c \notin R
    OBVIOUS
  <2> HIDE DEF R
  <2>7. Cardinality(R \cup {c}) = Cardinality(R) + 1
    BY <2>5, <2>6, FS_AddElement
  <2>8. CASE b \in ToSet(s)
    BY <2>1, <2>3, <2>4, <2>5, <2>7, <2>8 DEF A, B, In
  <2>9. CASE b \notin ToSet(s)
    BY <2>1, <2>3, <2>4, <2>5, <2>9 DEF A, B, In
  <2>10. QED BY <2>8, <2>9
<1>5. QED BY <1>3, <1>4 DEF nl

---------------------------------------------------------------------------
(* The invariant *)

\* One reference per node that carries a block and per client that holds it.
Referenced(m, t, bl) ==
  \A b \in Block : m.refcount[b] = Carried(t, b) + Cardinality(Owners(bl, b))

\* Manager m and tree t, with clients that hold bl and blocks that contain ct.
CacheOK(m, t, bl, ct) ==
  /\ ManagerOK(m)
  /\ TreeTypeOK(t) /\ Tidy(t) /\ Fresher(t) /\ Exact(t, ct)
  /\ HeldTypeOK(bl) /\ Referenced(m, t, bl)

\* Clients in phases ph with prompts pr, which hold bl.
ClientsOK(ph, pr, bl, ct) ==
  /\ ph \in [Clients -> {"idle", "filling", "serving"}]
  /\ pr \in [Clients -> Seq(Nat)]
  /\ bl \in [Clients -> Seq(Block)]
  /\ ct \in [Block -> Seq(Nat)]
  /\ \A c \in Clients : Len(bl[c]) <= Whole(pr[c])
  /\ \A c \in Clients : ph[c] = "idle" => bl[c] = <<>>
  /\ \A c \in Clients : \A i \in DOMAIN bl[c] : ct[bl[c][i]] = BlockEnd(pr[c], i)

CacheInv ==
  CacheOK(mgr, tree, blocks, content) /\ ClientsOK(phase, prompt, blocks, content)

\* A client holds a block once.
LEMMA HeldOnce ==
  ASSUME NEW ph, NEW pr, NEW bl, NEW ct, ClientsOK(ph, pr, bl, ct), NEW c \in Clients
  PROVE  IsInjective(bl[c])
<1> DEFINE s == bl[c]
<1>1. s \in Seq(Block) /\ pr[c] \in Seq(Nat) /\ Len(s) <= Whole(pr[c])
  BY DEF ClientsOK
<1>2. \A i \in DOMAIN s : ct[s[i]] = BlockEnd(pr[c], i)
  BY DEF ClientsOK
<1> HIDE DEF s
<1>3. Whole(pr[c]) \in Nat
  BY <1>1, BlockEnds
<1>4. \A i \in DOMAIN s : i \in 1 .. Whole(pr[c])
  BY <1>1, <1>3
<1>5. ASSUME NEW i \in DOMAIN s, NEW j \in DOMAIN s, s[i] = s[j] PROVE i = j
  <2>1. BlockEnd(pr[c], i) = BlockEnd(pr[c], j)
    BY <1>2, <1>5
  <2>2. QED BY <1>1, <1>4, <2>1, BlockEndsDiffer
<1>6. QED BY <1>5 DEF s, IsInjective

\* A block that the tree carries or a client holds is counted.
LEMMA InUse ==
  ASSUME NEW m, NEW t, NEW bl, ManagerOK(m), HeldTypeOK(bl), Referenced(m, t, bl), NEW b \in Block
  PROVE  /\ Carriers(t, b) # {} => m.refcount[b] > 0
         /\ \A c \in Clients : b \in ToSet(bl[c]) => m.refcount[b] > 0
<1> DEFINE A == Owners(bl, b)
<1>1. m.refcount[b] = Carried(t, b) + Cardinality(A)
  BY DEF Referenced
<1>2. IsFiniteSet(A) /\ Cardinality(A) \in Nat
  BY OwnersFinite
<1>3. Carried(t, b) \in {0, 1} /\ (Carriers(t, b) # {} => Carried(t, b) = 1)
  BY DEF Carried
<1>4. \A c \in Clients : b \in ToSet(bl[c]) => c \in A
  BY DEF Owners
<1> HIDE DEF A
<1>5. A # {} => Cardinality(A) > 0
  BY <1>2, FS_EmptySet
<1>6. Carriers(t, b) # {} => m.refcount[b] > 0
  BY <1>1, <1>2, <1>3
<1>7. A # {} => m.refcount[b] > 0
  BY <1>1, <1>2, <1>3, <1>5
<1>8. QED BY <1>4, <1>6, <1>7

\* Nothing makes no reference.
LEMMA NothingIn == ToSet(<<>>) = {} /\ \A b : In(b, <<>>) = 0
<1>1. DOMAIN <<>> = {}
  OBVIOUS
<1>2. ToSet(<<>>) = {}
  BY <1>1 DEF ToSet
<1>3. QED BY <1>2 DEF In

\* A client's step leaves the other clients as they are.
LEMMA OneClient ==
  ASSUME NEW ph, NEW pr, NEW bl, NEW ct, ClientsOK(ph, pr, bl, ct), NEW c \in Clients,
         NEW x \in {"idle", "filling", "serving"}, NEW seq \in Seq(Nat), NEW s \in Seq(Block),
         Len(s) <= Whole(seq), x = "idle" => s = <<>>,
         \A i \in DOMAIN s : ct[s[i]] = BlockEnd(seq, i)
  PROVE  ClientsOK([ph EXCEPT ![c] = x], [pr EXCEPT ![c] = seq], [bl EXCEPT ![c] = s], ct)
<1> DEFINE nph == [ph EXCEPT ![c] = x]
           npr == [pr EXCEPT ![c] = seq]
           nbl == [bl EXCEPT ![c] = s]
<1>1. /\ ph \in [Clients -> {"idle", "filling", "serving"}]
      /\ pr \in [Clients -> Seq(Nat)] /\ bl \in [Clients -> Seq(Block)]
      /\ ct \in [Block -> Seq(Nat)]
  BY DEF ClientsOK
<1>2. /\ nph \in [Clients -> {"idle", "filling", "serving"}]
      /\ npr \in [Clients -> Seq(Nat)] /\ nbl \in [Clients -> Seq(Block)]
  BY <1>1
<1>3. nph[c] = x /\ npr[c] = seq /\ nbl[c] = s
  BY <1>1
<1>4. \A d \in Clients : d # c => nph[d] = ph[d] /\ npr[d] = pr[d] /\ nbl[d] = bl[d]
  BY <1>1
<1> HIDE DEF nph, npr, nbl
<1>5. ASSUME NEW d \in Clients
      PROVE  /\ Len(nbl[d]) <= Whole(npr[d]) /\ (nph[d] = "idle" => nbl[d] = <<>>)
             /\ \A i \in DOMAIN nbl[d] : ct[nbl[d][i]] = BlockEnd(npr[d], i)
  <2>1. CASE d = c
    BY <1>3, <2>1
  <2>2. CASE d # c
    <3>1. /\ Len(bl[d]) <= Whole(pr[d]) /\ (ph[d] = "idle" => bl[d] = <<>>)
          /\ \A i \in DOMAIN bl[d] : ct[bl[d][i]] = BlockEnd(pr[d], i)
      BY DEF ClientsOK
    <3>2. QED BY <1>4, <2>2, <3>1
  <2>3. QED BY <2>1, <2>2
<1>6. ClientsOK(nph, npr, nbl, ct)
  BY <1>1, <1>2, <1>5 DEF ClientsOK
<1>7. QED BY <1>6 DEF nph, npr, nbl

---------------------------------------------------------------------------
(* Each operation keeps the invariant *)

\* The constructors' states.
LEMMA InitKeeps == Init => CacheInv
<1> SUFFICES ASSUME Init PROVE CacheInv
  OBVIOUS
<1>1. /\ mgr = InitManager /\ tree = EmptyCache
      /\ phase = [c \in Clients |-> "idle"] /\ prompt = [c \in Clients |-> <<>>]
      /\ blocks = [c \in Clients |-> <<>>] /\ content = [b \in Block |-> <<>>]
  BY DEF Init
<1>2. ManagerOK(mgr)
  BY <1>1, InitManagerOK
<1>3. /\ tree.node = <<>> /\ tree.tick = 0 /\ tree.count = 0 /\ DOMAIN tree.node = {}
      /\ tree \in [node : {tree.node}, tick : Nat, count : Nat]
  BY <1>1 DEF EmptyCache
<1>4. TreeTypeOK(tree)
  <2>1. tree.node = [p \in {} |-> Invalid]
    BY <1>3
  <2>2. tree.node \in [DOMAIN tree.node -> Node]
    BY <1>3, <2>1
  <2>3. QED BY <1>3, <2>2, FS_EmptySet DEF TreeTypeOK
<1>5. Cached(tree) = {}
  BY <1>3 DEF Cached
<1>6. Tidy(tree) /\ Fresher(tree) /\ Exact(tree, content)
  BY <1>3, <1>5, FS_EmptySet DEF Tidy, Fresher, Exact
<1>7. /\ blocks \in [Clients -> Seq(Block)] /\ prompt \in [Clients -> Seq(Nat)]
      /\ content \in [Block -> Seq(Nat)] /\ phase \in [Clients -> {"idle", "filling", "serving"}]
  BY <1>1
<1>8. HeldTypeOK(blocks)
  <2>1. Holders(blocks) = {}
    BY <1>1 DEF Holders
  <2>2. QED BY <1>7, <2>1, FS_EmptySet DEF HeldTypeOK
<1>9. Referenced(mgr, tree, blocks)
  <2>1. SUFFICES ASSUME NEW b \in Block
                 PROVE  mgr.refcount[b] = Carried(tree, b) + Cardinality(Owners(blocks, b))
    BY DEF Referenced
  <2>2. mgr.refcount[b] = 0
    BY <1>1 DEF InitManager
  <2>3. Carried(tree, b) = 0
    BY <1>5 DEF Carried, Carriers
  <2>4. Owners(blocks, b) = {}
    BY <1>1, NothingIn DEF Owners
  <2>5. Cardinality(Owners(blocks, b)) = 0
    BY <2>4, FS_EmptySet
  <2>6. QED BY <2>2, <2>3, <2>5
<1>10. ClientsOK(phase, prompt, blocks, content)
  <2>1. \A c \in Clients : Len(blocks[c]) <= Whole(prompt[c])
    <3>1. SUFFICES ASSUME NEW c \in Clients PROVE Len(blocks[c]) <= Whole(prompt[c])
      OBVIOUS
    <3>2. Len(blocks[c]) = 0 /\ prompt[c] \in Seq(Nat)
      BY <1>1
    <3>3. Whole(prompt[c]) \in Nat
      BY <3>2, BlockEnds
    <3>4. QED BY <3>2, <3>3
  <2>2. \A c \in Clients : blocks[c] = <<>> /\ DOMAIN blocks[c] = {}
    BY <1>1
  <2>3. QED BY <1>7, <2>1, <2>2 DEF ClientsOK
<1>11. QED BY <1>2, <1>4, <1>6, <1>8, <1>9, <1>10 DEF CacheInv, CacheOK

\* What a lookup leaves: a client that found every block it was told of holds
\* them, one that did not holds none.
LEMMA LookupKeeps ==
  ASSUME NEW c \in Clients, NEW seq \in Prompts, CacheInv, Lookup(c, seq)
  PROVE  CacheInv' /\ Cached(tree) \subseteq Cached(tree)'
<1> DEFINE match == Match(tree, seq)
           s == match.blocks
           n == MatchedBlocks(tree, seq)
           found == Retaining(mgr, s)
           held == IF IsWhole(match) THEN s ELSE <<>>
<1>1. seq \in Seq(Nat)
  BY PromptsAssumption
<1>2. /\ phase[c] = "idle"
      /\ tree' = Touched(tree, seq)
      /\ mgr' = IF IsWhole(match) THEN found ELSE Releasing(found, s)[Len(s)]
      /\ phase' = [phase EXCEPT ![c] = "filling"]
      /\ prompt' = [prompt EXCEPT ![c] = seq]
      /\ blocks' = [blocks EXCEPT ![c] = held]
      /\ content' = content
  BY DEF Lookup
<1>3. /\ ManagerOK(mgr) /\ TreeTypeOK(tree) /\ Tidy(tree) /\ Fresher(tree) /\ Exact(tree, content)
      /\ HeldTypeOK(blocks) /\ Referenced(mgr, tree, blocks)
      /\ ClientsOK(phase, prompt, blocks, content)
  BY DEF CacheInv, CacheOK
<1>4. match.matched_tokens = n * BlockSize
  BY DEF Match
<1>5. Gathered(tree, seq, s, n)
  BY <1>1, <1>3, MatchGathers
<1>6. n \in 0 .. Whole(seq) /\ Whole(seq) \in Nat
  BY <1>1, MatchedOK, BlockEnds
<1> HIDE DEF n
<1>7. IsWhole(match) <=> Len(s) * BlockSize = n * BlockSize
  BY <1>4 DEF IsWhole
<1> HIDE DEF match, s, found, held
<1>8. s \in Seq(Block) /\ Len(s) <= n /\ IsInjective(s) /\ DOMAIN s = 1 .. Len(s) /\ Len(s) \in Nat
  BY <1>5 DEF Gathered
<1>9. \A i \in DOMAIN s : s[i] \in Block /\ mgr.refcount[s[i]] > 0
  <2>1. SUFFICES ASSUME NEW i \in DOMAIN s PROVE s[i] \in Block /\ mgr.refcount[s[i]] > 0
    OBVIOUS
  <2>2. PICK j \in 1 .. n : BlockEnd(seq, j) \in Cached(tree)
                            /\ s[i] = tree.node[BlockEnd(seq, j)].block
    BY <1>5, <1>8 DEF Gathered
  <2>3. Carriers(tree, s[i]) # {} /\ s[i] \in Block
    BY <1>8, <2>2 DEF Carriers
  <2>4. QED BY <1>3, <2>3, InUse
<1>10. ManagerOK(found) /\ \A b \in Block : found.refcount[b] = mgr.refcount[b] + In(b, s)
  BY <1>3, <1>8, <1>9, RetainingOK DEF found
<1>11. mgr.refcount \in [Block -> Nat]
  BY <1>3 DEF ManagerOK, ManagerTypeOK
<1>12. \A b : In(b, s) \in {0, 1}
  BY DEF In
<1>13. ManagerOK(mgr') /\ \A b \in Block : mgr'.refcount[b] = mgr.refcount[b] + In(b, held)
  <2>1. CASE IsWhole(match)
    BY <1>2, <1>10, <2>1 DEF held
  <2>2. CASE ~ IsWhole(match)
    <3>1. ASSUME NEW i \in DOMAIN s PROVE found.refcount[s[i]] > 0
      <4>1. s[i] \in Block /\ mgr.refcount[s[i]] > 0
        BY <1>9
      <4>2. found.refcount[s[i]] = mgr.refcount[s[i]] + In(s[i], s) /\ mgr.refcount[s[i]] \in Nat
        BY <1>10, <1>11, <4>1
      <4>3. QED BY <1>12, <4>1, <4>2
    <3>2. /\ ManagerOK(Releasing(found, s)[Len(s)])
          /\ \A b \in Block : Releasing(found, s)[Len(s)].refcount[b] = found.refcount[b] - In(b, s)
      BY <1>8, <1>10, <3>1, ReleasingEach
    <3>3. mgr' = Releasing(found, s)[Len(s)] /\ held = <<>>
      BY <1>2, <2>2 DEF held
    <3>4. ASSUME NEW b \in Block PROVE mgr'.refcount[b] = mgr.refcount[b] + In(b, held)
      <4>1. mgr'.refcount[b] = found.refcount[b] - In(b, s)
        BY <3>2, <3>3
      <4>2. found.refcount[b] = mgr.refcount[b] + In(b, s) /\ mgr.refcount[b] \in Nat
        BY <1>10, <1>11
      <4>3. In(b, held) = 0
        BY <3>3, NothingIn
      <4>4. QED BY <1>12, <4>1, <4>2, <4>3
    <3>5. QED BY <3>2, <3>3, <3>4
  <2>3. QED BY <2>1, <2>2
<1>14. /\ held \in Seq(Block) /\ Len(held) <= Whole(seq)
       /\ \A i \in DOMAIN held : content[held[i]] = BlockEnd(seq, i)
  <2>1. CASE IsWhole(match)
    <3>1. held = s /\ Len(s) * BlockSize = n * BlockSize
      BY <1>7, <2>1 DEF held
    <3>2. Len(s) = n
      <4>1. n \in Nat /\ Len(s) \in Nat
        BY <1>6, <1>8
      <4>2. \A i, j \in Nat : i * BlockSize = j * BlockSize => i = j
        BY Multiples
      <4> DEFINE k == Len(s)
      <4>3. k * BlockSize = n * BlockSize /\ k \in Nat
        BY <3>1, <4>1
      <4> HIDE DEF k
      <4>4. k = n
        BY <4>1, <4>2, <4>3
      <4>5. QED BY <4>4 DEF k
    <3>3. \A i \in 1 .. n : BlockEnd(seq, i) \in Cached(tree)
                            /\ s[i] = tree.node[BlockEnd(seq, i)].block
      BY <1>5, <3>2 DEF Gathered
    <3>4. \A i \in DOMAIN s : content[s[i]] = BlockEnd(seq, i)
      BY <1>3, <1>8, <3>2, <3>3 DEF Exact
    <3>5. QED BY <1>6, <1>8, <3>1, <3>2, <3>4
  <2>2. CASE ~ IsWhole(match)
    <3>1. held = <<>>
      BY <2>2 DEF held
    <3>2. QED BY <1>6, <3>1
  <2>3. QED BY <2>1, <2>2
<1>15. ClientsOK(phase', prompt', blocks', content')
  BY <1>1, <1>2, <1>3, <1>14, OneClient
<1>16. SameBlocks(tree, tree') /\ TreeTypeOK(tree') /\ Fresher(tree')
  BY <1>1, <1>2, <1>3, TouchedOK
<1>17. /\ Tidy(tree') /\ Exact(tree', content') /\ Cached(tree') = Cached(tree)
       /\ \A b : Carried(tree', b) = Carried(tree, b)
  BY <1>2, <1>3, <1>16, TicksOnly
<1>18. /\ HeldTypeOK(blocks')
       /\ \A b : Cardinality(Owners(blocks', b)) =
                   Cardinality(Owners(blocks, b)) - In(b, blocks[c]) + In(b, held)
  BY <1>2, <1>3, <1>14, OwnersChange
<1>19. blocks[c] = <<>>
  BY <1>2, <1>3 DEF ClientsOK
<1>20. Referenced(mgr', tree', blocks')
  <2>1. SUFFICES ASSUME NEW b \in Block
                 PROVE  mgr'.refcount[b] = Carried(tree', b) + Cardinality(Owners(blocks', b))
    BY DEF Referenced
  <2>2. mgr.refcount[b] = Carried(tree, b) + Cardinality(Owners(blocks, b))
    BY <1>3 DEF Referenced
  <2>3. Cardinality(Owners(blocks, b)) \in Nat
    BY <1>3, OwnersFinite
  <2>4. Carried(tree, b) \in Nat /\ In(b, held) \in Nat
    BY DEF Carried, In
  <2>5. In(b, blocks[c]) = 0
    BY <1>19, NothingIn
  <2>6. Carried(tree', b) = Carried(tree, b)
    BY <1>17
  <2>7. Cardinality(Owners(blocks', b)) = Cardinality(Owners(blocks, b)) + In(b, held)
    BY <1>18, <2>3, <2>4, <2>5
  <2>8. mgr'.refcount[b] = mgr.refcount[b] + In(b, held)
    BY <1>13
  <2>9. QED BY <2>2, <2>3, <2>4, <2>6, <2>7, <2>8
<1>21. QED BY <1>13, <1>15, <1>16, <1>17, <1>18, <1>20 DEF CacheInv, CacheOK

\* A block that is filled is a free one: neither the tree nor a client had it.
LEMMA FillKeeps ==
  ASSUME NEW c \in Clients, CacheInv, Fill(c)
  PROVE  CacheInv'
<1> DEFINE top == TopBlocks(mgr, 1)
           b == top[1]
           a == AllocateBlocks(mgr, 1)
           s == blocks[c]
           n == Len(s) + 1
           u == Append(s, b)
           e == BlockEnd(prompt[c], n)
<1>1. /\ phase[c] = "filling" /\ n <= Whole(prompt[c]) /\ NumFree(mgr) > 0
      /\ mgr' = a /\ blocks' = [blocks EXCEPT ![c] = u]
      /\ content' = [content EXCEPT ![b] = e]
      /\ tree' = tree /\ phase' = phase /\ prompt' = prompt
  <2>1. blocks' = [blocks EXCEPT ![c] = Append(@, b)]
    BY DEF Fill
  <2>2. QED BY <2>1 DEF Fill
<1>2. /\ ManagerOK(mgr) /\ TreeTypeOK(tree) /\ Tidy(tree) /\ Fresher(tree) /\ Exact(tree, content)
      /\ HeldTypeOK(blocks) /\ Referenced(mgr, tree, blocks)
      /\ ClientsOK(phase, prompt, blocks, content)
  BY DEF CacheInv, CacheOK
<1>3. /\ blocks \in [Clients -> Seq(Block)] /\ content \in [Block -> Seq(Nat)]
      /\ phase \in [Clients -> {"idle", "filling", "serving"}]
      /\ prompt \in [Clients -> Seq(Nat)]
      /\ \A d \in Clients : \A i \in DOMAIN blocks[d] : content[blocks[d][i]] = BlockEnd(prompt[d], i)
  BY <1>2 DEF ClientsOK
<1>4. /\ mgr.refcount \in [Block -> Nat] /\ NumFree(mgr) \in Nat
  BY <1>2 DEF ManagerOK, ManagerTypeOK, NumFree
<1>5. 1 \in 0 .. NumFree(mgr)
  BY <1>1, <1>4
<1>6. /\ top \in Seq(Block) /\ Len(top) = 1 /\ \A i \in 1 .. 1 : mgr.refcount[top[i]] = 0
      /\ ManagerOK(a)
      /\ a.refcount = [x \in Block |-> IF x \in ToSet(top) THEN 1 ELSE mgr.refcount[x]]
  <2>1. PICK k \in 0 .. NumFree(mgr) : k = 1
    BY <1>5
  <2>2. /\ TopBlocks(mgr, k) \in Seq(Block) /\ Len(TopBlocks(mgr, k)) = k
        /\ \A i \in 1 .. k : mgr.refcount[TopBlocks(mgr, k)[i]] = 0
        /\ ManagerOK(AllocateBlocks(mgr, k))
        /\ AllocateBlocks(mgr, k).refcount =
             [x \in Block |-> IF x \in ToSet(TopBlocks(mgr, k)) THEN 1 ELSE mgr.refcount[x]]
    <3>1. ManagerOK(mgr)
      BY <1>2
    <3> HIDE DEF a, b, u, e, top, s, n
    <3>2. TopBlocks(mgr, k) \in Seq(Block) /\ Len(TopBlocks(mgr, k)) = k
      BY <3>1, AllocateBlocksOK
    <3>5. ASSUME NEW i \in 1 .. k PROVE mgr.refcount[TopBlocks(mgr, k)[i]] = 0
      BY <3>1, TopBlockFree
    <3>3. ManagerOK(AllocateBlocks(mgr, k))
      BY <3>1, AllocateBlocksOK
    <3>4. AllocateBlocks(mgr, k).refcount =
            [x \in Block |-> IF x \in ToSet(TopBlocks(mgr, k)) THEN 1 ELSE mgr.refcount[x]]
      BY <3>1, AllocateBlocksOK
    <3>6. QED BY <3>2, <3>3, <3>4, <3>5
  <2>3. QED BY <2>1, <2>2
<1> HIDE DEF top, a
<1>7. b \in Block /\ mgr.refcount[b] = 0 /\ ToSet(top) = {b}
  <2>1. DOMAIN top = {1} /\ 1 \in 1 .. 1
    BY <1>6
  <2>2. ToSet(top) = {b}
    <3>1. ToSet(top) = {top[i] : i \in DOMAIN top}
      BY DEF ToSet
    <3>2. QED BY <2>1, <3>1
  <2>3. mgr.refcount[top[1]] = 0
    BY <1>6, <2>1
  <2>4. top[1] \in Block
    <3>1. top \in Seq(Block) /\ 1 \in DOMAIN top
      BY <1>6, <2>1
    <3>2. QED BY ONLY <3>1, EntryIn
  <2>5. QED BY <2>2, <2>3, <2>4
<1>8. \A x \in Block : a.refcount[x] = IF x = b THEN 1 ELSE mgr.refcount[x]
  BY <1>6, <1>7
<1>9. Carriers(tree, b) = {} /\ \A d \in Clients : b \notin ToSet(blocks[d])
  BY <1>2, <1>7, InUse
<1>10. s \in Seq(Block) /\ Len(s) \in Nat /\ DOMAIN s = 1 .. Len(s)
  BY <1>3
<1>11. prompt[c] \in Seq(Nat) /\ Whole(prompt[c]) \in Nat
  BY <1>3, BlockEnds
<1>12. n \in 1 .. Whole(prompt[c])
  BY <1>1, <1>10, <1>11
<1>13. e \in Seq(Nat)
  BY <1>11, <1>12, BlockEnds
<1> HIDE DEF b, s, e
<1>14. /\ u \in Seq(Block) /\ Len(u) = n /\ DOMAIN u = 1 .. n /\ u[n] = b
       /\ \A i \in 1 .. Len(s) : u[i] = s[i]
  BY <1>7, <1>10
<1> HIDE DEF u
<1>15. /\ content' \in [Block -> Seq(Nat)] /\ content'[b] = e
       /\ \A x \in Block : x # b => content'[x] = content[x]
  BY <1>1, <1>3, <1>7, <1>13
<1>16. Exact(tree', content')
  <2>1. SUFFICES ASSUME NEW p \in Cached(tree) PROVE content'[tree.node[p].block] = p
    BY <1>1 DEF Exact
  <2>2. tree.node[p].block \in Block
    BY <1>2, CachedNode
  <2>3. tree.node[p].block # b
    BY <1>9 DEF Carriers
  <2>4. QED BY <1>2, <1>15, <2>2, <2>3 DEF Exact
<1>17. \A d \in Clients : \A i \in DOMAIN blocks[d] : content'[blocks[d][i]] = BlockEnd(prompt[d], i)
  <2>1. SUFFICES ASSUME NEW d \in Clients, NEW i \in DOMAIN blocks[d]
                 PROVE  content'[blocks[d][i]] = BlockEnd(prompt[d], i)
    OBVIOUS
  <2>2. blocks[d][i] \in ToSet(blocks[d])
    BY DEF ToSet
  <2>3. blocks[d][i] \in Block
    BY <1>3
  <2>4. blocks[d][i] # b
    BY <1>9, <2>2
  <2>5. QED BY <1>3, <1>15, <2>3, <2>4
<1>18. ClientsOK(phase, prompt, blocks, content')
  BY <1>2, <1>3, <1>15, <1>17 DEF ClientsOK
<1>19. ClientsOK([phase EXCEPT ![c] = phase[c]], [prompt EXCEPT ![c] = prompt[c]], blocks', content')
  <2>1. \A i \in DOMAIN u : content'[u[i]] = BlockEnd(prompt[c], i)
    <3>1. SUFFICES ASSUME NEW i \in 1 .. n PROVE content'[u[i]] = BlockEnd(prompt[c], i)
      BY <1>14
    <3>2. CASE i = n
      BY <1>14, <1>15, <3>2 DEF e
    <3>3. CASE i \in 1 .. Len(s)
      BY <1>10, <1>14, <1>17, <3>3 DEF s
    <3>4. QED BY <1>10, <3>2, <3>3
  <2>2. Len(u) <= Whole(prompt[c]) /\ phase[c] \in {"idle", "filling", "serving"} /\ phase[c] # "idle"
    BY <1>1, <1>14
  <2>3. QED BY <1>1, <1>11, <1>14, <1>18, <2>1, <2>2, OneClient
<1>20. ClientsOK(phase', prompt', blocks', content')
  <2>1. [phase EXCEPT ![c] = phase[c]] = phase /\ [prompt EXCEPT ![c] = prompt[c]] = prompt
    BY <1>3
  <2>2. QED BY <1>1, <1>19, <2>1
<1>21. /\ HeldTypeOK(blocks')
       /\ \A x : Cardinality(Owners(blocks', x)) =
                   Cardinality(Owners(blocks, x)) - In(x, s) + In(x, u)
  BY <1>1, <1>2, <1>14, OwnersChange DEF s
<1>22. /\ \A x : x # b => In(x, u) = In(x, s)
       /\ In(b, u) = 1 /\ In(b, s) = 0
  <2>1. \A x : x \in ToSet(u) <=> x = b \/ x \in ToSet(s)
    <3>1. 1 .. n = 1 .. Len(s) \cup {n}
      BY <1>10
    <3>2. QED BY <1>10, <1>14, <3>1 DEF ToSet
  <2>2. b \notin ToSet(s)
    BY <1>9 DEF s
  <2>3. QED BY <2>1, <2>2 DEF In
<1>23. Referenced(mgr', tree', blocks')
  <2>1. SUFFICES ASSUME NEW x \in Block
                 PROVE  mgr'.refcount[x] = Carried(tree, x) + Cardinality(Owners(blocks', x))
    BY <1>1 DEF Referenced
  <2>2. mgr.refcount[x] = Carried(tree, x) + Cardinality(Owners(blocks, x))
    BY <1>2 DEF Referenced
  <2>3. Cardinality(Owners(blocks, x)) \in Nat
    BY <1>2, OwnersFinite
  <2>4. Carried(tree, x) \in Nat /\ In(x, s) \in Nat
    BY DEF Carried, In
  <2>5. Cardinality(Owners(blocks', x)) = Cardinality(Owners(blocks, x)) - In(x, s) + In(x, u)
    BY <1>21
  <2>6. mgr'.refcount[x] = IF x = b THEN 1 ELSE mgr.refcount[x]
    BY <1>1, <1>8
  <2>7. CASE x = b
    <3>1. Carried(tree, x) + Cardinality(Owners(blocks, x)) = 0
      BY <1>7, <2>2, <2>7
    <3>2. In(x, s) = 0 /\ In(x, u) = 1
      BY <1>22, <2>7
    <3>3. QED BY <2>3, <2>4, <2>5, <2>6, <2>7, <3>1, <3>2
  <2>8. CASE x # b
    <3>1. In(x, u) = In(x, s)
      BY <1>22, <2>8
    <3>2. QED BY <2>2, <2>3, <2>4, <2>5, <2>6, <2>8, <3>1
  <2>9. QED BY <2>7, <2>8
<1>24. ManagerOK(mgr') /\ TreeTypeOK(tree') /\ Tidy(tree') /\ Fresher(tree')
  BY <1>1, <1>2, <1>6
<1>25. QED BY <1>16, <1>20, <1>21, <1>23, <1>24 DEF CacheInv, CacheOK

\* A client that ends gives its references back.
LEMMA FinishKeeps ==
  ASSUME NEW c \in Clients, CacheInv, Finish(c)
  PROVE  CacheInv'
<1> DEFINE s == blocks[c]
<1>1. /\ mgr' = Releasing(mgr, s)[Len(s)]
      /\ phase' = [phase EXCEPT ![c] = "idle"] /\ prompt' = [prompt EXCEPT ![c] = <<>>]
      /\ blocks' = [blocks EXCEPT ![c] = <<>>]
      /\ tree' = tree /\ content' = content
  BY DEF Finish
<1>2. /\ ManagerOK(mgr) /\ TreeTypeOK(tree) /\ Tidy(tree) /\ Fresher(tree) /\ Exact(tree, content)
      /\ HeldTypeOK(blocks) /\ Referenced(mgr, tree, blocks)
      /\ ClientsOK(phase, prompt, blocks, content)
  BY DEF CacheInv, CacheOK
<1>3. s \in Seq(Block) /\ IsInjective(s)
  <2>1. s \in Seq(Block)
    BY <1>2 DEF ClientsOK
  <2>2. QED BY <1>2, <2>1, HeldOnce
<1>4. \A i \in DOMAIN s : s[i] \in Block /\ s[i] \in ToSet(s)
  BY <1>3 DEF ToSet
<1>5. \A i \in DOMAIN s : mgr.refcount[s[i]] > 0
  <2>1. SUFFICES ASSUME NEW i \in DOMAIN s PROVE mgr.refcount[s[i]] > 0
    OBVIOUS
  <2>2. s[i] \in Block /\ s[i] \in ToSet(blocks[c])
    BY <1>4
  <2>3. QED BY <1>2, <2>2, InUse
<1> HIDE DEF s
<1>6. ManagerOK(mgr') /\ \A b \in Block : mgr'.refcount[b] = mgr.refcount[b] - In(b, s)
  BY <1>1, <1>2, <1>3, <1>5, ReleasingEach
<1>7. <<>> \in Seq(Block) /\ <<>> \in Seq(Nat) /\ Len(<<>>) = 0 /\ DOMAIN <<>> = {}
  OBVIOUS
<1>8. /\ HeldTypeOK(blocks')
      /\ \A b : Cardinality(Owners(blocks', b)) =
                  Cardinality(Owners(blocks, b)) - In(b, s) + In(b, <<>>)
  BY <1>1, <1>2, <1>7, OwnersChange DEF s
<1>9. Len(<<>>) <= Whole(<<>>)
  <2> DEFINE none == <<>>
  <2>1. none \in Seq(Nat) /\ Len(none) = 0
    OBVIOUS
  <2> HIDE DEF none
  <2>2. Whole(none) \in Nat
    BY <2>1, BlockEnds
  <2>3. QED BY <2>1, <2>2 DEF none
<1>10. ClientsOK(phase', prompt', blocks', content')
  BY <1>1, <1>2, <1>7, <1>9, OneClient
<1>11. Referenced(mgr', tree', blocks')
  <2>1. SUFFICES ASSUME NEW b \in Block
                 PROVE  mgr'.refcount[b] = Carried(tree, b) + Cardinality(Owners(blocks', b))
    BY <1>1 DEF Referenced
  <2>2. mgr.refcount[b] = Carried(tree, b) + Cardinality(Owners(blocks, b))
    BY <1>2 DEF Referenced
  <2>3. Cardinality(Owners(blocks, b)) \in Nat
    BY <1>2, OwnersFinite
  <2>4. Carried(tree, b) \in Nat /\ In(b, s) \in Nat
    BY DEF Carried, In
  <2>5. Cardinality(Owners(blocks', b)) = Cardinality(Owners(blocks, b)) - In(b, s)
    <3>1. In(b, <<>>) = 0
      BY NothingIn
    <3>2. QED BY <1>8, <2>3, <2>4, <3>1
  <2>6. mgr'.refcount[b] = mgr.refcount[b] - In(b, s)
    BY <1>6
  <2>7. QED BY <2>2, <2>3, <2>4, <2>5, <2>6
<1>12. TreeTypeOK(tree') /\ Tidy(tree') /\ Fresher(tree') /\ Exact(tree', content')
  BY <1>1, <1>2
<1>13. QED BY <1>6, <1>8, <1>10, <1>11, <1>12 DEF CacheInv, CacheOK

\* The path of the first n blocks of seq.
Path(seq, n) == {FirstN(seq, k) : k \in 1 .. n * BlockSize}

\* u is t after insert(seq, s, n).
InsertedAs(t, u, seq, s, n) ==
  /\ u \in [node : {u.node}, tick : Nat, count : Nat]
  /\ u.tick = t.tick + 1
  /\ u.count = t.count + Cardinality(Missing(t, seq, n))
  /\ DOMAIN u.node = DOMAIN t.node \cup Path(seq, n)
  /\ u.node = [p \in DOMAIN u.node |-> u.node[p]]
  /\ \A i \in 1 .. n :
       u.node[BlockEnd(seq, i)] =
         [block |-> IF BlockEnd(seq, i) \in Cached(t) THEN t.node[BlockEnd(seq, i)].block ELSE s[i],
          tick  |-> t.tick + 1]
  /\ \A p \in DOMAIN u.node \ Ends(seq, n) :
       u.node[p] = IF p \in DOMAIN t.node THEN t.node[p] ELSE Invalid

\* The path holds the block ends, and prefixes of the last of them only.
LEMMA PathOK ==
  ASSUME NEW seq \in Seq(Nat), NEW n \in 1 .. Whole(seq)
  PROVE  /\ Ends(seq, n) \subseteq Path(seq, n)
         /\ IsFiniteSet(Path(seq, n))
         /\ Path(seq, n) \subseteq Seq(Nat) \ {<<>>}
         /\ \A p \in Path(seq, n) :
              IsPrefix(p, BlockEnd(seq, n)) /\ (Len(p) > 1 => Front(p) \in Path(seq, n))
<1> DEFINE N == n * BlockSize
           P == Path(seq, n)
<1>1. Whole(seq) \in Nat /\ N \in 1 .. Len(seq) /\ n \in Nat
  BY BlockEnds
<1>2. N \in Nat /\ N \in 0 .. Len(seq) /\ \A k \in 1 .. N : k \in 0 .. Len(seq) /\ k \in 0 .. N
  BY <1>1
<1>3. ASSUME NEW i \in 1 .. n PROVE i * BlockSize \in 1 .. N
  <2>1. i \in 1 .. Whole(seq) /\ i \in Nat /\ i <= n
    BY <1>1
  <2>2. i * BlockSize \in 1 .. Len(seq)
    BY <2>1, BlockEnds
  <2>3. i * BlockSize <= n * BlockSize
    BY <1>1, <2>1, Multiples
  <2> DEFINE x == i * BlockSize
  <2>4. x \in 1 .. Len(seq) /\ x <= N
    BY <2>2, <2>3
  <2> HIDE DEF x, N
  <2>5. x \in 1 .. N
    BY <1>1, <2>4
  <2>6. QED BY <2>5 DEF x
<1>4. P = {FirstN(seq, k) : k \in 1 .. N}
  BY DEF Path
<1>5. \A i \in 1 .. n : BlockEnd(seq, i) = FirstN(seq, i * BlockSize)
  BY DEF BlockEnd
<1>6. BlockEnd(seq, n) = FirstN(seq, N)
  BY DEF BlockEnd
<1> HIDE DEF N, P
<1>7. Ends(seq, n) \subseteq P
  BY <1>3, <1>4, <1>5 DEF Ends
<1>8. IsFiniteSet(P)
  <2> DEFINE f == [k \in 1 .. N |-> FirstN(seq, k)]
  <2>1. f \in Surjection(1 .. N, P)
    BY <1>4 DEF Surjection
  <2>2. IsFiniteSet(1 .. N)
    BY <1>2, FS_Interval
  <2>3. QED BY <2>1, <2>2, FS_Surjection
<1>9. ASSUME NEW p \in P
      PROVE  /\ p \in Seq(Nat) \ {<<>>} /\ IsPrefix(p, FirstN(seq, N))
             /\ Len(p) > 1 => Front(p) \in P
  <2>1. PICK k \in 1 .. N : p = FirstN(seq, k)
    BY <1>4
  <2>2. k \in 0 .. Len(seq) /\ k \in 0 .. N /\ k > 0 /\ k \in Nat
    BY <1>2
  <2>3. p \in Seq(Nat) /\ Len(p) = k
    BY <2>1, <2>2, FirstNOf
  <2>4. IsPrefix(p, FirstN(seq, N))
    BY <1>2, <2>1, <2>2, FirstNPrefix
  <2>5. ASSUME k > 1 PROVE Front(p) \in P
    <3>1. Front(p) = FirstN(seq, k - 1)
      BY <2>1, <2>2, FirstNOfFirstN
    <3>2. k - 1 \in 1 .. N
      BY <1>2, <2>2, <2>5
    <3>3. QED BY <1>4, <3>1, <3>2
  <2>6. p # <<>>
    BY <2>2, <2>3
  <2>7. QED BY <2>3, <2>4, <2>5, <2>6
<1>10. QED BY <1>6, <1>7, <1>8, <1>9 DEF P

\* The indices of the blocks that are missing.
LEMMA MissingOK ==
  ASSUME NEW t, NEW seq \in Seq(Nat), NEW n \in 1 .. Whole(seq)
  PROVE  /\ IsFiniteSet(Missing(t, seq, n)) /\ Cardinality(Missing(t, seq, n)) \in Nat
         /\ IsFiniteSet(Ends(seq, n) \ Cached(t))
         /\ Cardinality(Ends(seq, n) \ Cached(t)) = Cardinality(Missing(t, seq, n))
<1> DEFINE M == Missing(t, seq, n)
           T == Ends(seq, n) \ Cached(t)
           f == [i \in M |-> BlockEnd(seq, i)]
<1>1. Whole(seq) \in Nat /\ n \in Int
  BY BlockEnds
<1>2. M \in SUBSET (1 .. n) /\ IsFiniteSet(1 .. n)
  BY <1>1, FS_Interval DEF Missing
<1>3. IsFiniteSet(M)
  BY <1>2, FS_Subset
<1>4. \A i \in M : BlockEnd(seq, i) \in T
  BY DEF Missing, Ends
<1>5. \A x \in T : \E i \in M : x = BlockEnd(seq, i)
  BY DEF Missing, Ends
<1>6. \A i \in M : i \in 1 .. Whole(seq)
  BY <1>1, <1>2
<1> HIDE DEF M, T
<1>7. f \in Surjection(M, T)
  BY <1>4, <1>5 DEF Surjection
<1>8. f \in Injection(M, T)
  BY <1>4, <1>6, BlockEndsDiffer DEF Injection, IsInjective
<1>9. IsFiniteSet(T) /\ Cardinality(T) = Cardinality(M)
  BY <1>3, <1>7, <1>8, FS_Surjection
<1>10. QED BY <1>3, <1>9, FS_CardinalityType DEF M, T

\* What insert makes of the tree.
LEMMA InsertedNodes ==
  ASSUME NEW t, TreeTypeOK(t), NEW seq \in Seq(Nat), NEW n \in 1 .. Whole(seq), NEW s
  PROVE  InsertedAs(t, Inserted(t, seq, s, n), seq, s, n)
<1> DEFINE E == Ends(seq, n)
           D == DOMAIN t.node \cup Path(seq, n)
           touched(p) == [block |-> IF p \in Cached(t) THEN t.node[p].block
                                    ELSE s[Len(p) \div BlockSize],
                          tick  |-> t.tick + 1]
           nodes == [p \in D |-> IF p \in E THEN touched(p)
                                 ELSE IF p \in DOMAIN t.node THEN t.node[p] ELSE Invalid]
           k == t.count + Cardinality(Missing(t, seq, n))
           u == Inserted(t, seq, s, n)
<1>1. \A p : p \in E <=> \E i \in 1 .. n : p = BlockEnd(seq, i)
  BY DEF Ends
<1>2. Whole(seq) \in Nat /\ n \in Nat /\ ~ (n <= 0)
  BY BlockEnds
<1>3. u = [node |-> nodes, tick |-> t.tick + 1, count |-> k]
  BY <1>1, <1>2 DEF Inserted, Path
<1>4. t.tick \in Nat /\ t.count \in Nat
  BY DEF TreeTypeOK
<1>5. k \in Nat
  <2> DEFINE x == Cardinality(Missing(t, seq, n))
  <2>1. x \in Nat
    BY MissingOK
  <2> HIDE DEF x
  <2>2. t.count + x \in Nat
    BY <1>4, <2>1
  <2>3. QED BY <2>2 DEF x
<1> HIDE DEF k, u
<1>6. u.node = nodes /\ u.tick = t.tick + 1 /\ u.count = k
  BY <1>3
<1>7. u \in [node : {u.node}, tick : Nat, count : Nat]
  <2> HIDE DEF nodes
  <2>1. QED BY <1>3, <1>4, <1>5, <1>6
<1>8. DOMAIN u.node = D
  BY <1>6
<1>9. u.node = [p \in DOMAIN u.node |-> u.node[p]]
  BY <1>6
<1>10. ASSUME NEW i \in 1 .. n
       PROVE  u.node[BlockEnd(seq, i)] =
                [block |-> IF BlockEnd(seq, i) \in Cached(t)
                           THEN t.node[BlockEnd(seq, i)].block ELSE s[i],
                 tick  |-> t.tick + 1]
  <2> DEFINE e == BlockEnd(seq, i)
  <2>1. i \in 1 .. Whole(seq)
    BY <1>2
  <2>2. Len(e) \div BlockSize = i
    BY <2>1, BlockEnds
  <2>3. e \in E /\ e \in D
    BY <1>1, PathOK
  <2> HIDE DEF e, E, D
  <2>4. u.node[e] = touched(e)
    BY <1>6, <2>3
  <2>5. QED BY <2>2, <2>4 DEF e
<1>11. ASSUME NEW p \in D \ E
       PROVE  u.node[p] = IF p \in DOMAIN t.node THEN t.node[p] ELSE Invalid
  <2> HIDE DEF E, D
  <2>1. QED BY <1>6
<1>12. QED BY <1>6, <1>7, <1>8, <1>9, <1>10, <1>11 DEF InsertedAs, k, u

\* Blocks s that were computed for the first n blocks of seq.
ComputedFor(ct, seq, s, n) ==
  /\ s \in Seq(Block) /\ Len(s) = n
  /\ \A i \in 1 .. n : ct[s[i]] = BlockEnd(seq, i)

\* insert adds the block ends that were missing, and keeps the tree in order.
LEMMA InsertedOK ==
  ASSUME NEW t, TreeTypeOK(t), Tidy(t), Fresher(t), NEW ct, Exact(t, ct),
         NEW seq \in Seq(Nat), NEW n \in 1 .. Whole(seq), NEW s, ComputedFor(ct, seq, s, n),
         NEW u, InsertedAs(t, u, seq, s, n)
  PROVE  /\ Cached(u) = Cached(t) \cup Ends(seq, n)
         /\ \A p \in Cached(t) : u.node[p].block = t.node[p].block
         /\ TreeTypeOK(u) /\ Tidy(u) /\ Fresher(u) /\ Exact(u, ct)
<1> DEFINE E == Ends(seq, n)
           P == Path(seq, n)
<1>1. /\ u \in [node : {u.node}, tick : Nat, count : Nat]
      /\ u.tick = t.tick + 1
      /\ u.count = t.count + Cardinality(Missing(t, seq, n))
      /\ DOMAIN u.node = DOMAIN t.node \cup P
      /\ u.node = [p \in DOMAIN u.node |-> u.node[p]]
  BY DEF InsertedAs
<1>2. \A i \in 1 .. n :
        u.node[BlockEnd(seq, i)] =
          [block |-> IF BlockEnd(seq, i) \in Cached(t) THEN t.node[BlockEnd(seq, i)].block ELSE s[i],
           tick  |-> t.tick + 1]
  BY DEF InsertedAs
<1>3. \A p \in DOMAIN u.node \ E :
        u.node[p] = IF p \in DOMAIN t.node THEN t.node[p] ELSE Invalid
  BY DEF InsertedAs
<1>4. /\ E \subseteq P /\ IsFiniteSet(P) /\ P \subseteq Seq(Nat) \ {<<>>}
      /\ \A p \in P : IsPrefix(p, BlockEnd(seq, n)) /\ (Len(p) > 1 => Front(p) \in P)
  BY PathOK
<1>5. /\ IsFiniteSet(DOMAIN t.node) /\ DOMAIN t.node \subseteq Seq(Nat) \ {<<>>}
      /\ \A p \in DOMAIN t.node : t.node[p] \in Node /\ t.node[p].tick <= t.tick
      /\ t.tick \in Nat /\ t.count \in Nat
  BY DEF TreeTypeOK
<1>6. n \in Nat /\ n \in 1 .. n /\ Whole(seq) \in Nat
  BY BlockEnds
<1>7. \A p \in E : \E i \in 1 .. n : p = BlockEnd(seq, i)
  BY DEF Ends
<1>8. \A i \in 1 .. n : BlockEnd(seq, i) \in E /\ s[i] \in Block /\ ct[s[i]] = BlockEnd(seq, i)
  BY DEF Ends, ComputedFor
<1> HIDE DEF E, P
<1>9. ASSUME NEW i \in 1 .. n, NEW e, e = BlockEnd(seq, i)
      PROVE  /\ u.node[e].block \in Block /\ u.node[e].tick = t.tick + 1
             /\ u.node[e] \in Node /\ ct[u.node[e].block] = e
             /\ e \in Cached(t) => u.node[e].block = t.node[e].block
             /\ e \notin Cached(t) => u.node[e].block = s[i]
  <2> DEFINE b == IF e \in Cached(t) THEN t.node[e].block ELSE s[i]
  <2>1. u.node[e] = [block |-> b, tick |-> t.tick + 1]
    BY <1>2, <1>9
  <2>2. b \in Block /\ ct[b] = e
    BY <1>8, <1>9, CachedNode DEF Exact
  <2>3. (e \in Cached(t) => b = t.node[e].block) /\ (e \notin Cached(t) => b = s[i])
    OBVIOUS
  <2> HIDE DEF b
  <2>4. u.node[e].block = b /\ u.node[e].tick = t.tick + 1
    BY <2>1
  <2>5. u.node[e] \in Node
    BY <1>5, <2>1, <2>2 DEF Node
  <2>6. QED BY <2>2, <2>3, <2>4, <2>5
<1>10. \A p \in Cached(t) : u.node[p].block = t.node[p].block
  <2>1. SUFFICES ASSUME NEW p \in Cached(t) PROVE u.node[p].block = t.node[p].block
    OBVIOUS
  <2>2. p \in DOMAIN t.node
    BY DEF Cached
  <2>3. CASE p \in E
    BY <1>7, <1>9, <2>3
  <2>4. CASE p \notin E
    BY <1>1, <1>3, <2>2, <2>4
  <2>5. QED BY <2>3, <2>4
<1>11. kInvalidBlock \notin Block
  BY LayoutAssumption DEF Block, kInvalidBlock
<1>12. Cached(u) = Cached(t) \cup E
  <2>1. ASSUME NEW p \in Cached(u) PROVE p \in Cached(t) \cup E
    <3>1. p \in DOMAIN u.node /\ u.node[p].block # kInvalidBlock
      BY DEF Cached
    <3>2. CASE p \notin E
      <4>1. u.node[p] = IF p \in DOMAIN t.node THEN t.node[p] ELSE Invalid
        BY <1>3, <3>1, <3>2
      <4>2. Invalid.block = kInvalidBlock
        BY DEF Invalid
      <4>3. p \in DOMAIN t.node /\ t.node[p].block # kInvalidBlock
        BY <3>1, <4>1, <4>2
      <4>4. QED BY <4>3 DEF Cached
    <3>3. QED BY <3>2
  <2>2. ASSUME NEW p \in Cached(t) PROVE p \in Cached(u)
    <3>1. p \in DOMAIN t.node /\ t.node[p].block # kInvalidBlock
      BY DEF Cached
    <3>2. QED BY <1>1, <1>10, <3>1 DEF Cached
  <2>3. ASSUME NEW p \in E PROVE p \in Cached(u)
    <3>1. u.node[p].block \in Block
      BY <1>7, <1>9
    <3>2. QED BY <1>1, <1>4, <1>11, <3>1 DEF Cached
  <2>4. QED BY <2>1, <2>2, <2>3
<1>13. ASSUME NEW p \in DOMAIN u.node
       PROVE  u.node[p] \in Node /\ u.node[p].tick <= u.tick
  <2>1. CASE p \in E
    <3>1. u.node[p] \in Node /\ u.node[p].tick = t.tick + 1
      BY <1>7, <1>9, <2>1
    <3>2. QED BY <1>1, <1>5, <3>1
  <2>2. CASE p \notin E /\ p \in DOMAIN t.node
    <3>1. u.node[p] = t.node[p]
      BY <1>3, <2>2
    <3>2. t.node[p] \in Node /\ t.node[p].tick <= t.tick /\ t.node[p].tick \in Nat
      BY <1>5, <2>2 DEF Node
    <3>3. QED BY <1>1, <1>5, <3>1, <3>2
  <2>3. CASE p \notin E /\ p \notin DOMAIN t.node
    <3>1. u.node[p] = Invalid
      BY <1>3, <2>3
    <3>2. Invalid \in Node /\ Invalid.tick = 0
      BY DEF Invalid, Node
    <3>3. QED BY <1>1, <1>5, <3>1, <3>2
  <2>4. QED BY <2>1, <2>2, <2>3
<1>14. TreeTypeOK(u)
  <2>1. IsFiniteSet(DOMAIN u.node)
    <3> DEFINE D == DOMAIN t.node
    <3>1. IsFiniteSet(D) /\ IsFiniteSet(P) /\ DOMAIN u.node = D \cup P
      BY <1>1, <1>4, <1>5
    <3> HIDE DEF D
    <3>2. IsFiniteSet(D \cup P)
      BY <3>1, FS_Union
    <3>3. QED BY <3>1, <3>2
  <2>2. DOMAIN u.node \subseteq Seq(Nat) \ {<<>>}
    BY <1>1, <1>4, <1>5
  <2>3. u.node \in [DOMAIN u.node -> Node]
    BY <1>1, <1>13
  <2>4. QED BY <1>1, <1>13, <2>1, <2>2, <2>3 DEF TreeTypeOK
<1>15. Tidy(u)
  <2>1. ASSUME NEW p \in DOMAIN u.node, Len(p) > 1 PROVE Front(p) \in DOMAIN u.node
    BY <1>1, <1>4, <2>1 DEF Tidy
  <2>2. ASSUME NEW p \in Cached(u) PROVE Len(p) % BlockSize = 0
    <3>1. CASE p \in Cached(t)
      BY <3>1 DEF Tidy
    <3>2. CASE p \in E
      <4>1. PICK i \in 1 .. n : p = BlockEnd(seq, i)
        BY <1>7, <3>2
      <4>2. i \in 1 .. Whole(seq)
        BY <1>6
      <4>3. QED BY <4>1, <4>2, BlockEnds
    <3>3. QED BY <1>12, <3>1, <3>2
  <2>3. ASSUME NEW p \in DOMAIN u.node PROVE \E q \in Cached(u) : IsPrefix(p, q)
    <3>1. CASE p \in DOMAIN t.node
      BY <1>12, <3>1 DEF Tidy
    <3>2. CASE p \in P
      <4>1. BlockEnd(seq, n) \in Cached(u)
        BY <1>6, <1>8, <1>12
      <4>2. QED BY <1>4, <3>2, <4>1
    <3>3. QED BY <1>1, <3>1, <3>2
  <2>4. u.count = Cardinality(Cached(u))
    <3> DEFINE C == Cached(t)
               T == E \ C
    <3>1. IsFiniteSet(C) /\ Cardinality(C) \in Nat
      BY CachedFinite
    <3>2. IsFiniteSet(T) /\ Cardinality(T) = Cardinality(Missing(t, seq, n))
      BY MissingOK DEF E
    <3>3. Cardinality(C \cup T) = Cardinality(C) + Cardinality(T) - Cardinality(C \cap T)
      BY <3>1, <3>2, FS_Union
    <3>4. C \cap T = {} /\ C \cup T = Cached(u)
      BY <1>12
    <3>5. Cardinality(C \cap T) = 0
      BY <3>4, FS_EmptySet
    <3>6. Cardinality(T) \in Nat
      BY <3>2, FS_CardinalityType
    <3>7. t.count = Cardinality(C)
      BY DEF Tidy
    <3> HIDE DEF C, T
    <3>8. Cardinality(C \cup T) = Cardinality(C) + Cardinality(T)
      BY <3>1, <3>3, <3>5, <3>6
    <3>9. QED BY <1>1, <3>2, <3>4, <3>7, <3>8
  <2>5. QED BY <2>1, <2>2, <2>3, <2>4 DEF Tidy
<1>16. TouchedAt(t, u, E)
  <2>1. SUFFICES ASSUME NEW p \in Cached(u)
                 PROVE  IF p \in E THEN u.node[p].tick = t.tick + 1
                        ELSE p \in Cached(t) /\ u.node[p].tick = t.node[p].tick
    BY DEF TouchedAt
  <2>2. CASE p \in E
    BY <1>7, <1>9, <2>2
  <2>3. CASE p \notin E
    <3>1. p \in Cached(t) /\ p \in DOMAIN t.node
      BY <1>12, <2>3 DEF Cached
    <3>2. u.node[p] = t.node[p]
      BY <1>1, <1>3, <2>3, <3>1
    <3>3. QED BY <2>3, <3>1, <3>2
  <2>4. QED BY <2>2, <2>3
<1>17. Fresher(u)
  <2>1. n \in 0 .. Whole(seq)
    BY <1>6
  <2>2. QED BY <1>14, <1>15, <1>16, <2>1, FresherKept DEF E
<1>18. Exact(u, ct)
  <2>1. SUFFICES ASSUME NEW p \in Cached(u) PROVE ct[u.node[p].block] = p
    BY DEF Exact
  <2>2. CASE p \in E
    BY <1>7, <1>9, <2>2
  <2>3. CASE p \notin E
    BY <1>10, <1>12, <2>3 DEF Exact
  <2>4. QED BY <2>2, <2>3
<1>19. QED BY <1>10, <1>12, <1>14, <1>15, <1>17, <1>18 DEF E

\* The blocks insert takes were not in the tree, and are afterwards.
LEMMA InsertedCarries ==
  ASSUME NEW t, TreeTypeOK(t), Tidy(t), Fresher(t), NEW ct, Exact(t, ct),
         NEW seq \in Seq(Nat), NEW n \in 1 .. Whole(seq), NEW s, ComputedFor(ct, seq, s, n),
         NEW u, InsertedAs(t, u, seq, s, n), NEW taken, taken = [i \in Missing(t, seq, n) |-> s[i]]
  PROVE  \A b : Carried(u, b) = Carried(t, b) + In(b, taken)
<1> DEFINE M == Missing(t, seq, n)
<1>1. /\ Cached(u) = Cached(t) \cup Ends(seq, n)
      /\ \A p \in Cached(t) : u.node[p].block = t.node[p].block
  BY InsertedOK
<1>2. \A i \in M : i \in 1 .. n /\ BlockEnd(seq, i) \notin Cached(t)
  BY DEF Missing
<1>3. ASSUME NEW i \in M
      PROVE  BlockEnd(seq, i) \in Cached(u) /\ u.node[BlockEnd(seq, i)].block = s[i]
  <2>1. BlockEnd(seq, i) \in Cached(u)
    BY <1>1, <1>2 DEF Ends
  <2>2. u.node[BlockEnd(seq, i)] = [block |-> s[i], tick |-> t.tick + 1]
    BY <1>2 DEF InsertedAs
  <2>3. QED BY <2>1, <2>2
<1>4. \A p \in Ends(seq, n) \ Cached(t) : \E i \in M : p = BlockEnd(seq, i)
  BY DEF Ends, Missing
<1>5. \A b : b \in ToSet(taken) <=> \E i \in M : b = s[i]
  BY DEF ToSet
<1>6. \A i \in M : ct[s[i]] = BlockEnd(seq, i)
  BY <1>2 DEF ComputedFor
<1>7. SUFFICES ASSUME NEW b PROVE Carried(u, b) = Carried(t, b) + In(b, taken)
  OBVIOUS
<1> HIDE DEF M
<1>8. CASE b \in ToSet(taken)
  <2>1. PICK i \in M : b = s[i]
    BY <1>5, <1>8
  <2>2. Carriers(u, b) # {}
    BY <1>3, <2>1 DEF Carriers
  <2>3. Carriers(t, b) = {}
    <3>1. ASSUME NEW p \in Cached(t), t.node[p].block = b PROVE FALSE
      <4>1. ct[b] = p /\ ct[b] = BlockEnd(seq, i)
        BY <1>6, <2>1, <3>1 DEF Exact
      <4>2. QED BY <1>2, <4>1
    <3>2. QED BY <3>1 DEF Carriers
  <2>4. QED BY <1>8, <2>2, <2>3 DEF Carried, In
<1>9. CASE b \notin ToSet(taken)
  <2>1. ASSUME NEW p PROVE p \in Carriers(u, b) <=> p \in Carriers(t, b)
    <3>1. CASE p \in Cached(t)
      BY <1>1, <3>1 DEF Carriers
    <3>2. CASE p \in Ends(seq, n) \ Cached(t)
      <4>1. PICK i \in M : p = BlockEnd(seq, i)
        BY <1>4, <3>2
      <4>2. u.node[p].block = s[i]
        BY <1>3, <4>1
      <4>3. u.node[p].block # b
        BY <1>5, <1>9, <4>2
      <4>4. QED BY <3>2, <4>3 DEF Carriers
    <3>3. CASE p \notin Cached(u)
      BY <1>1, <3>3 DEF Carriers
    <3>4. QED BY <1>1, <3>1, <3>2, <3>3
  <2>2. Carriers(u, b) = Carriers(t, b)
    BY <2>1
  <2>3. In(b, taken) = 0
    BY <1>9 DEF In
  <2>4. Carried(t, b) \in Nat
    BY DEF Carried
  <2>5. QED BY <2>2, <2>3, <2>4 DEF Carried
<1>10. QED BY <1>8, <1>9

\* insert takes a reference of the cache's own for each block it adopts.
LEMMA InsertKeeps ==
  ASSUME NEW c \in Clients, CacheInv, Insert(c)
  PROVE  CacheInv' /\ Cached(tree) \subseteq Cached(tree)'
<1> DEFINE seq == prompt[c]
           s == blocks[c]
           n == Whole(seq)
           taken == [i \in Missing(tree, seq, n) |-> s[i]]
<1>1. /\ phase[c] = "filling" /\ Len(s) = n
      /\ tree' = Inserted(tree, seq, s, n)
      /\ mgr' = Adopted(mgr, tree, seq, s, n)
      /\ phase' = [phase EXCEPT ![c] = "serving"]
      /\ prompt' = prompt /\ blocks' = blocks /\ content' = content
  BY DEF Insert
<1>2. /\ ManagerOK(mgr) /\ TreeTypeOK(tree) /\ Tidy(tree) /\ Fresher(tree) /\ Exact(tree, content)
      /\ HeldTypeOK(blocks) /\ Referenced(mgr, tree, blocks)
      /\ ClientsOK(phase, prompt, blocks, content)
  BY DEF CacheInv, CacheOK
<1>3. /\ phase \in [Clients -> {"idle", "filling", "serving"}]
      /\ prompt \in [Clients -> Seq(Nat)] /\ blocks \in [Clients -> Seq(Block)]
      /\ \A i \in DOMAIN s : content[s[i]] = BlockEnd(seq, i)
  BY <1>2 DEF ClientsOK
<1>4. seq \in Seq(Nat) /\ s \in Seq(Block) /\ DOMAIN s = 1 .. n
  BY <1>1, <1>3
<1>5. n \in Nat
  BY <1>4, BlockEnds
<1>6. IsInjective(s)
  BY <1>2, HeldOnce
<1>7. ASSUME NEW i \in DOMAIN s PROVE s[i] \in Block /\ mgr.refcount[s[i]] > 0
  <2>1. s[i] \in Block /\ s[i] \in ToSet(blocks[c])
    <3>1. s \in Seq(Block)
      BY <1>4
    <3>2. \A j \in DOMAIN s : s[j] \in Block /\ s[j] \in ToSet(s)
      BY <3>1 DEF ToSet
    <3>3. QED BY <3>2
  <2>2. QED BY <1>2, <2>1, InUse
<1>8. ClientsOK(phase', prompt', blocks', content')
  <2>1. phase' \in [Clients -> {"idle", "filling", "serving"}]
    BY <1>1, <1>3
  <2>2. \A d \in Clients : phase'[d] = "idle" => phase[d] = "idle"
    <3>1. \A d \in Clients : phase'[d] = IF d = c THEN "serving" ELSE phase[d]
      BY <1>1, <1>3
    <3>2. QED BY <3>1
  <2>3. QED BY <1>1, <1>2, <2>1, <2>2 DEF ClientsOK
<1>9. CASE n = 0
  <2>1. tree' = tree /\ mgr' = mgr
    BY <1>1, <1>9 DEF Inserted, Adopted
  <2>2. QED BY <1>1, <1>2, <1>8, <2>1 DEF CacheInv, CacheOK
<1>10. CASE n # 0
  <2>1. n \in 1 .. Whole(seq) /\ ~ (n <= 0)
    BY <1>5, <1>10
  <2>2. InsertedAs(tree, tree', seq, s, n)
    BY <1>1, <1>2, <1>4, <2>1, InsertedNodes
  <2>3. ComputedFor(content, seq, s, n)
    BY <1>1, <1>3, <1>4 DEF ComputedFor
  <2>4. /\ TreeTypeOK(tree') /\ Tidy(tree') /\ Fresher(tree') /\ Exact(tree', content)
        /\ Cached(tree) \subseteq Cached(tree')
    <3> HIDE DEF seq, s, n
    <3>1. QED BY <1>2, <1>4, <2>1, <2>2, <2>3, InsertedOK
  <2>5. \A b : Carried(tree', b) = Carried(tree, b) + In(b, taken)
    <3> HIDE DEF seq, s, n
    <3>1. QED BY <1>2, <1>4, <2>1, <2>2, <2>3, InsertedCarries
  <2>6. mgr' = Retaining(mgr, taken)
    BY <1>1, <2>1 DEF Adopted
  <2>7. \A i \in Missing(tree, seq, n) : i \in DOMAIN s
    BY <1>4 DEF Missing
  <2>8. DOMAIN taken = Missing(tree, seq, n) /\ \A i \in DOMAIN taken : taken[i] = s[i]
    OBVIOUS
  <2> HIDE DEF taken
  <2>9. IsInjective(taken)
    BY <1>6, <2>7, <2>8 DEF IsInjective
  <2>10. \A i \in DOMAIN taken : taken[i] \in Block /\ mgr.refcount[taken[i]] > 0
    BY <1>7, <2>7, <2>8
  <2>11. ManagerOK(mgr') /\ \A b \in Block : mgr'.refcount[b] = mgr.refcount[b] + In(b, taken)
    BY <1>2, <2>6, <2>9, <2>10, RetainingOK
  <2>12. Referenced(mgr', tree', blocks')
    <3>1. SUFFICES ASSUME NEW b \in Block
                   PROVE  mgr'.refcount[b] = Carried(tree', b) + Cardinality(Owners(blocks, b))
      BY <1>1 DEF Referenced
    <3>2. mgr.refcount[b] = Carried(tree, b) + Cardinality(Owners(blocks, b))
      BY <1>2 DEF Referenced
    <3>3. Cardinality(Owners(blocks, b)) \in Nat
      BY <1>2, OwnersFinite
    <3>4. Carried(tree, b) \in Nat /\ In(b, taken) \in Nat
      BY DEF Carried, In
    <3>5. mgr'.refcount[b] = mgr.refcount[b] + In(b, taken)
      BY <2>11
    <3>6. Carried(tree', b) = Carried(tree, b) + In(b, taken)
      BY <2>5
    <3>7. QED BY <3>2, <3>3, <3>4, <3>5, <3>6
  <2>13. QED BY <1>1, <1>2, <1>8, <2>4, <2>11, <2>12 DEF CacheInv, CacheOK
<1>11. QED BY <1>9, <1>10

\* The tree when victim p has lost its block and is not yet pruned.
Bare(t, p) ==
  [t EXCEPT !.node[p].block = kInvalidBlock, !.count = IF @ > 0 THEN @ - 1 ELSE @]

\* A victim without its block.
LEMMA BareNodes ==
  ASSUME NEW t, TreeTypeOK(t), Tidy(t), NEW p \in Cached(t)
  PROVE  /\ Bare(t, p) \in [node : {Bare(t, p).node}, tick : Nat, count : Nat]
         /\ Bare(t, p).tick = t.tick
         /\ Bare(t, p).count = Cardinality(Cached(t) \ {p})
         /\ DOMAIN Bare(t, p).node = DOMAIN t.node
         /\ Bare(t, p).node[p] \in Node
         /\ Bare(t, p).node[p].block = kInvalidBlock
         /\ Bare(t, p).node[p].tick = t.node[p].tick
         /\ \A q \in DOMAIN t.node \ {p} : Bare(t, p).node[q] = t.node[q]
         /\ Cached(Bare(t, p)) = Cached(t) \ {p}
<1> DEFINE C == Cached(t)
           x == t.node[p]
           y == [x EXCEPT !.block = kInvalidBlock]
           nodes == [t.node EXCEPT ![p] = y]
           k == IF t.count > 0 THEN t.count - 1 ELSE t.count
           u == Bare(t, p)
<1>1. u = [t EXCEPT !.node = nodes, !.count = k]
  BY DEF Bare
<1>2. p \in DOMAIN t.node /\ x \in Node
  BY CachedNode DEF TreeTypeOK
<1>3. y \in Node /\ y.block = kInvalidBlock /\ y.tick = x.tick
  <2>1. x \in [block : Block \cup {kInvalidBlock}, tick : Nat]
    BY <1>2 DEF Node
  <2> HIDE DEF x
  <2>2. QED BY <2>1 DEF Node
<1>4. t.count = Cardinality(C) /\ IsFiniteSet(C) /\ Cardinality(C) \in Nat /\ p \in C
  BY CachedFinite DEF Tidy
<1>5. Cardinality(C) > 0 /\ Cardinality(C \ {p}) = Cardinality(C) - 1 /\ IsFiniteSet(C \ {p})
  BY <1>4, FS_RemoveElement, FS_EmptySet
<1>6. k = Cardinality(C \ {p}) /\ k \in Nat
  BY <1>4, <1>5
<1>7. /\ t \in [node : {t.node}, tick : Nat, count : Nat]
      /\ t.node = [q \in DOMAIN t.node |-> t.node[q]]
  BY DEF TreeTypeOK
<1> HIDE DEF u, k, y
<1>8. /\ DOMAIN nodes = DOMAIN t.node /\ nodes[p] = y
      /\ \A q \in DOMAIN t.node \ {p} : nodes[q] = t.node[q]
  BY <1>2
<1> HIDE DEF nodes
<1>9. u = [node |-> nodes, tick |-> t.tick, count |-> k]
  BY <1>1, <1>7
<1>10. u.node = nodes /\ u.tick = t.tick /\ u.count = k
  BY <1>9
<1>11. u \in [node : {u.node}, tick : Nat, count : Nat]
  <2>1. t.tick \in Nat
    BY <1>7
  <2>2. QED BY <1>6, <1>9, <1>10, <2>1
<1>12. Cached(u) = C \ {p}
  <2>1. ASSUME NEW q \in DOMAIN t.node
        PROVE  nodes[q].block # kInvalidBlock <=> q # p /\ t.node[q].block # kInvalidBlock
    BY <1>3, <1>8
  <2>2. QED BY <1>8, <1>10, <2>1 DEF Cached
<1>13. QED BY <1>3, <1>6, <1>8, <1>10, <1>11, <1>12 DEF C, u

\* What prune_empty removes of a tree when victim p has lost its block.
Dead(t, p) ==
  {q \in DOMAIN t.node :
     /\ IsPrefix(q, p)
     /\ \A r \in DOMAIN t.node : IsPrefix(q, r) => IsPrefix(r, p) /\ r \notin Cached(t)}

\* Eviction takes one block out of the tree, leaves the other nodes that carry
\* one as they are, and no garbage.
LEMMA PrunedOK ==
  ASSUME NEW t, TreeTypeOK(t), Tidy(t), Fresher(t), NEW ct, Exact(t, ct), NEW p \in Cached(t),
         NEW u, u = Pruned(Bare(t, p), p)
  PROVE  /\ Cached(u) = Cached(t) \ {p}
         /\ \A q \in Cached(u) : u.node[q] = t.node[q]
         /\ TreeTypeOK(u) /\ Tidy(u) /\ Fresher(u) /\ Exact(u, ct)
<1> DEFINE a == Bare(t, p)
           dead == Dead(a, p)
           D == DOMAIN t.node
<1>1. /\ a \in [node : {a.node}, tick : Nat, count : Nat]
      /\ a.tick = t.tick /\ a.count = Cardinality(Cached(t) \ {p})
      /\ DOMAIN a.node = D
      /\ a.node[p] \in Node /\ a.node[p].tick = t.node[p].tick
      /\ \A q \in D \ {p} : a.node[q] = t.node[q]
      /\ Cached(a) = Cached(t) \ {p}
  BY BareNodes
<1>2. /\ D \subseteq Seq(Nat) \ {<<>>} /\ IsFiniteSet(D)
      /\ \A q \in D : t.node[q] \in Node /\ t.node[q].tick <= t.tick
      /\ p \in D /\ p \in Seq(Nat)
  BY CachedNode DEF TreeTypeOK
<1>3. u = [a EXCEPT !.node = [q \in D \ dead |-> a.node[q]]]
  BY <1>1 DEF Pruned, Dead, Restrict
<1>4. dead \subseteq D
  BY <1>1 DEF Dead
<1>5. \A q \in D : q \in dead <=>
        /\ IsPrefix(q, p)
        /\ \A r \in D : IsPrefix(q, r) => IsPrefix(r, p) /\ r \notin Cached(t) \ {p}
  BY <1>1 DEF Dead
<1>6. \A q \in Cached(t) : q \in D /\ IsPrefix(q, q)
  BY <1>2, PrefixOrder DEF Cached
<1> HIDE DEF a, dead
<1>7. /\ u.node = [q \in D \ dead |-> a.node[q]] /\ u.tick = a.tick /\ u.count = a.count
      /\ u \in [node : {u.node}, tick : Nat, count : Nat]
  <2> DEFINE nodes == [q \in D \ dead |-> a.node[q]]
  <2>1. u = [a EXCEPT !.node = nodes]
    BY <1>3
  <2> HIDE DEF nodes
  <2>2. u = [node |-> nodes, tick |-> a.tick, count |-> a.count]
    BY <1>1, <2>1
  <2>3. a.tick \in Nat /\ a.count \in Nat
    BY <1>1
  <2>4. u.node = nodes /\ u.tick = a.tick /\ u.count = a.count
    BY <2>2
  <2>5. u \in [node : {u.node}, tick : Nat, count : Nat]
    BY <2>2, <2>3, <2>4
  <2>6. QED BY <2>4, <2>5 DEF nodes
<1> HIDE DEF D
<1>8. DOMAIN u.node = D \ dead /\ \A q \in D \ dead : u.node[q] = a.node[q]
  BY <1>7
<1>9. Cached(u) = Cached(t) \ {p}
  <2>1. \A q \in Cached(t) \ {p} : q \in D \ dead
    BY <1>5, <1>6
  <2>2. Cached(u) = {q \in D \ dead : a.node[q].block # kInvalidBlock}
    BY <1>8 DEF Cached
  <2>3. Cached(a) = {q \in D : a.node[q].block # kInvalidBlock}
    BY <1>1 DEF Cached
  <2>4. QED BY <1>1, <2>1, <2>2, <2>3
<1>10. \A q \in Cached(u) : u.node[q] = t.node[q]
  <2>1. SUFFICES ASSUME NEW q \in Cached(u) PROVE u.node[q] = t.node[q]
    OBVIOUS
  <2>2. q \in D \ dead /\ q # p
    BY <1>8, <1>9 DEF Cached
  <2>3. QED BY <1>1, <1>8, <2>2
<1>11. TreeTypeOK(u)
  <2>1. IsFiniteSet(D \ dead)
    BY <1>2, FS_Subset
  <2>2. ASSUME NEW q \in D \ dead PROVE u.node[q] \in Node /\ u.node[q].tick <= u.tick
    <3>1. CASE q = p
      BY <1>1, <1>2, <1>7, <1>8, <3>1
    <3>2. CASE q # p
      BY <1>1, <1>2, <1>7, <1>8, <3>2
    <3>3. QED BY <3>1, <3>2
  <2>3. u.node \in [DOMAIN u.node -> Node]
    <3>1. u.node = [q \in D \ dead |-> u.node[q]]
      BY <1>7, <1>8
    <3>2. QED BY <1>8, <2>2, <3>1
  <2>4. DOMAIN u.node \subseteq Seq(Nat) \ {<<>>}
    BY <1>2, <1>8
  <2>5. QED BY <1>7, <1>8, <2>1, <2>2, <2>3, <2>4 DEF TreeTypeOK
<1>12. Fresher(u)
  BY <1>9, <1>10 DEF Fresher
<1>13. Exact(u, ct)
  BY <1>9, <1>10 DEF Exact
<1>14. Tidy(u)
  <2>1. ASSUME NEW q \in D \ dead, Len(q) > 1 PROVE Front(q) \in D \ dead
    <3> DEFINE f == Front(q)
    <3>1. f \in D
      BY <2>1 DEF Tidy, D
    <3>2. IsPrefix(f, q)
      <4>1. q \in Seq(Nat) /\ Len(q) \in Nat /\ Len(q) \in 0 .. Len(q) /\ Len(q) - 1 \in 0 .. Len(q)
        BY <1>2, <2>1
      <4>2. IsPrefix(FirstN(q, Len(q) - 1), FirstN(q, Len(q)))
        BY <4>1, FirstNPrefix
      <4>3. FirstN(q, Len(q)) = q
        BY <4>1 DEF FirstN
      <4>4. FirstN(q, Len(q) - 1) = f
        BY DEF FirstN, Front
      <4>5. QED BY <4>2, <4>3, <4>4
    <3> HIDE DEF f
    <3>3. ASSUME f \in dead PROVE q \in dead
      <4>1. \A r \in D : IsPrefix(f, r) => IsPrefix(r, p) /\ r \notin Cached(t) \ {p}
        BY <1>5, <3>1, <3>3
      <4>2. \A r \in D : IsPrefix(q, r) => IsPrefix(f, r)
        BY <1>2, <2>1, <3>1, <3>2, PrefixOrder
      <4>3. IsPrefix(q, p)
        BY <2>1, <3>2, <4>1
      <4>4. QED BY <1>5, <2>1, <4>1, <4>2, <4>3
    <3>4. QED BY <2>1, <3>1, <3>3 DEF f
  <2>2. \A q \in Cached(u) : Len(q) % BlockSize = 0
    BY <1>9 DEF Tidy
  <2>3. ASSUME NEW q \in D \ dead PROVE \E x \in Cached(u) : IsPrefix(q, x)
    <3>1. \A r \in D : \E x \in Cached(t) : IsPrefix(r, x)
      BY DEF Tidy, D
    <3>2. ASSUME NEW r \in D, IsPrefix(q, r), ~ IsPrefix(r, p) \/ r \in Cached(t) \ {p}
          PROVE  \E x \in Cached(u) : IsPrefix(q, x)
      <4>1. CASE r \in Cached(t) \ {p}
        BY <1>9, <3>2, <4>1
      <4>2. CASE ~ IsPrefix(r, p)
        <5>1. PICK x \in Cached(t) : IsPrefix(r, x)
          BY <3>1
        <5>2. x # p
          BY <4>2, <5>1
        <5>3. q \in Seq(Nat) /\ r \in Seq(Nat) /\ x \in Seq(Nat)
          BY <1>2, <1>6
        <5>4. IsPrefix(q, x)
          BY <3>2, <5>1, <5>3, PrefixOrder
        <5>5. QED BY <1>9, <5>2, <5>4
      <4>3. QED BY <3>2, <4>1, <4>2
    <3>3. CASE IsPrefix(q, p)
      <4>1. PICK r \in D : IsPrefix(q, r) /\ (~ IsPrefix(r, p) \/ r \in Cached(t) \ {p})
        BY <1>5, <2>3, <3>3
      <4>2. QED BY <3>2, <4>1
    <3>4. CASE ~ IsPrefix(q, p)
      <4>1. IsPrefix(q, q)
        BY <1>2, PrefixOrder
      <4>2. QED BY <3>2, <3>4, <4>1
    <3>5. QED BY <3>3, <3>4
  <2>4. u.count = Cardinality(Cached(u))
    BY <1>1, <1>7, <1>9
  <2>5. QED BY <1>8, <2>1, <2>2, <2>3, <2>4 DEF Tidy
<1>15. QED BY <1>9, <1>10, <1>11, <1>12, <1>13, <1>14

\* A round of eviction gives back the reference of the block it takes out.
LEMMA EvictOneOK ==
  ASSUME NEW bl, NEW ct, NEW s, CacheOK(s.mgr, s.tree, bl, ct), NEW p \in Cached(s.tree)
  PROVE  /\ CacheOK(EvictOne(s, p).mgr, EvictOne(s, p).tree, bl, ct)
         /\ Cached(EvictOne(s, p).tree) = Cached(s.tree) \ {p}
         /\ \A q \in Cached(s.tree) \ {p} : EvictOne(s, p).tree.node[q] = s.tree.node[q]
<1> DEFINE m == s.mgr
           t == s.tree
           b == t.node[p].block
           n == ReleaseBlock(m, b)
           u == Pruned(Bare(t, p), p)
<1>1. EvictOne(s, p).mgr = n /\ EvictOne(s, p).tree = u
  BY DEF EvictOne, Bare
<1>2. /\ ManagerOK(m) /\ TreeTypeOK(t) /\ Tidy(t) /\ Fresher(t) /\ Exact(t, ct)
      /\ HeldTypeOK(bl) /\ Referenced(m, t, bl) /\ p \in Cached(t)
  BY DEF CacheOK
<1> HIDE DEF m, t
<1>3. b \in Block
  BY <1>2, CachedNode
<1>4. /\ Cached(u) = Cached(t) \ {p}
      /\ \A q \in Cached(u) : u.node[q] = t.node[q]
      /\ TreeTypeOK(u) /\ Tidy(u) /\ Fresher(u) /\ Exact(u, ct)
  <2> DEFINE v == u
  <2>1. v = Pruned(Bare(t, p), p)
    OBVIOUS
  <2> HIDE DEF v
  <2>2. /\ Cached(v) = Cached(t) \ {p}
        /\ \A q \in Cached(v) : v.node[q] = t.node[q]
        /\ TreeTypeOK(v) /\ Tidy(v) /\ Fresher(v) /\ Exact(v, ct)
    BY <1>2, <2>1, PrunedOK
  <2>3. QED BY <2>2 DEF v
<1> HIDE DEF u
<1>5. p \in Carriers(t, b) /\ \A q \in Carriers(t, b) : q = p
  BY <1>2 DEF Carriers, Exact
<1>6. m.refcount[b] > 0
  BY <1>2, <1>3, <1>5, InUse
<1>7. ManagerTypeOK(m) /\ m.refcount \in [Block -> Nat]
  BY <1>2 DEF ManagerOK, ManagerTypeOK
<1>8. ManagerOK(n)
  BY <1>2, ReleaseBlockOK
<1>9. n.refcount = [m.refcount EXCEPT ![b] = @ - 1]
  BY <1>3, <1>6, <1>7, ReleaseBlockFields
<1> HIDE DEF n
<1>10. Carried(t, b) = 1 /\ Carried(u, b) = 0
  <2>1. Carriers(u, b) = {}
    BY <1>4, <1>5 DEF Carriers
  <2>2. QED BY <1>5, <2>1 DEF Carried
<1>11. ASSUME NEW x, x # b PROVE Carried(u, x) = Carried(t, x)
  <2>1. p \notin Carriers(t, x)
    BY <1>11 DEF Carriers
  <2>2. Carriers(u, x) = Carriers(t, x)
    BY <1>4, <2>1 DEF Carriers
  <2>3. QED BY <2>2 DEF Carried
<1> HIDE DEF b
<1>12. Referenced(n, u, bl)
  <2>1. SUFFICES ASSUME NEW x \in Block
                 PROVE  n.refcount[x] = Carried(u, x) + Cardinality(Owners(bl, x))
    BY DEF Referenced
  <2>2. m.refcount[x] = Carried(t, x) + Cardinality(Owners(bl, x))
    BY <1>2 DEF Referenced
  <2>3. Cardinality(Owners(bl, x)) \in Nat
    BY <1>2, OwnersFinite
  <2>4. CASE x = b
    <3>1. n.refcount[x] = m.refcount[x] - 1
      BY <1>7, <1>9, <2>4
    <3>2. QED BY <1>10, <2>2, <2>3, <2>4, <3>1
  <2>5. CASE x # b
    <3>1. n.refcount[x] = m.refcount[x]
      BY <1>3, <1>7, <1>9, <2>5
    <3>2. QED BY <1>11, <2>2, <2>5, <3>1
  <2>6. QED BY <2>4, <2>5
<1>13. CacheOK(n, u, bl, ct)
  BY <1>2, <1>4, <1>8, <1>12 DEF CacheOK
<1>14. QED BY <1>1, <1>4, <1>13 DEF t

\* The rounds of evict_until_free, the states they run in, and the next ones.
Goes(s, min_free) == NumFree(s.mgr) < min_free /\ Cached(s.tree) # {}
Begins(m, t) == {[mgr |-> m, tree |-> t, freed |-> 0]}
Goings(S, min_free) == {r \in S : Goes(r, min_free)}
NextRound(S, min_free) ==
  UNION {{EvictOne(s, p) : p \in Victims(s.tree)} : s \in Goings(S, min_free)}

RoundsOf(m, t, min_free) ==
  LET Rounds[i \in 0 .. Cardinality(Cached(t))] ==
        IF i = 0 THEN Begins(m, t) ELSE NextRound(Rounds[i - 1], min_free)
  IN  Rounds

\* What evict_until_free may end in is a state of some round.
LEMMA EvictionsAreRounds ==
  ASSUME NEW m, NEW t, NEW min_free, NEW s \in Evictions(m, t, min_free)
  PROVE  \E i \in 0 .. Cardinality(Cached(t)) : s \in RoundsOf(m, t, min_free)[i]
<1>1. Evictions(m, t, min_free) =
        {r \in UNION {RoundsOf(m, t, min_free)[i] : i \in 0 .. Cardinality(Cached(t))} :
           ~ Goes(r, min_free)}
  BY DEF Evictions, RoundsOf, Begins, NextRound, Goings, Goes
<1>2. QED BY <1>1

\* The recursion of the rounds, unfolded.
LEMMA RoundsUnfold ==
  ASSUME NEW m, NEW t, NEW min_free, Cardinality(Cached(t)) \in Nat
  PROVE  /\ RoundsOf(m, t, min_free)[0] = Begins(m, t)
         /\ \A i \in 1 .. Cardinality(Cached(t)) :
              RoundsOf(m, t, min_free)[i] = NextRound(RoundsOf(m, t, min_free)[i - 1], min_free)
<1> DEFINE L == Cardinality(Cached(t))
           Run(f, k) == f = [i \in 0 .. k |->
                               IF i = 0 THEN Begins(m, t) ELSE NextRound(f[i - 1], min_free)]
           S == {k \in Nat : \E f : Run(f, k)}
<1>1. 0 \in S
  <2>1. Run([i \in 0 .. 0 |-> Begins(m, t)], 0)
    OBVIOUS
  <2>2. QED BY <2>1
<1>2. ASSUME NEW k \in Nat, NEW f, Run(f, k)
      PROVE  \E g : Run(g, k + 1)
  <2> DEFINE g == [i \in 0 .. k + 1 |-> IF i <= k THEN f[i] ELSE NextRound(f[k], min_free)]
  <2>1. ASSUME NEW i \in 0 .. k + 1
        PROVE  g[i] = IF i = 0 THEN Begins(m, t) ELSE NextRound(g[i - 1], min_free)
    <3>1. CASE i = 0
      BY <1>2, <3>1
    <3>2. CASE i \in 1 .. k
      <4>1. g[i] = f[i] /\ g[i - 1] = f[i - 1]
        BY <3>2
      <4>2. f[i] = NextRound(f[i - 1], min_free)
        BY <1>2, <3>2
      <4>3. QED BY <4>1, <4>2, <3>2
    <3>3. CASE i = k + 1
      BY <3>3
    <3>4. QED BY <3>1, <3>2, <3>3
  <2>2. Run(g, k + 1)
    <3> HIDE DEF g
    <3>1. g = [i \in 0 .. k + 1 |-> g[i]]
      BY DEF g
    <3>2. QED BY <3>1, <2>1
  <2>3. QED BY <2>2
<1>3. \E f : Run(f, L)
  <2> HIDE DEF Run
  <2>1. \A k \in Nat : k \in S => k + 1 \in S
    BY <1>2
  <2> HIDE DEF S
  <2>2. L \in S
    BY <1>1, <2>1, SetInduction
  <2>3. QED BY <2>2 DEF S
<1>4. RoundsOf(m, t, min_free) = CHOOSE f : Run(f, L)
  BY DEF RoundsOf
<1>5. Run(RoundsOf(m, t, min_free), L)
  BY <1>3, <1>4
<1>6. QED BY <1>5

\* s is reached from tree t by eviction: what has left it is no fresher than
\* what stays.
EvictedFrom(t, s) ==
  /\ Cached(s.tree) \subseteq Cached(t)
  /\ \A q \in Cached(s.tree) : s.tree.node[q].tick = t.node[q].tick
  /\ \A p \in Cached(t) \ Cached(s.tree), q \in Cached(s.tree) : t.node[p].tick <= t.node[q].tick

\* Every state that eviction passes through keeps the invariant, and has lost
\* only what was used least recently.
LEMMA EvictionsOK ==
  ASSUME NEW m, NEW t, NEW bl, NEW ct, CacheOK(m, t, bl, ct),
         NEW min_free, NEW s \in Evictions(m, t, min_free)
  PROVE  CacheOK(s.mgr, s.tree, bl, ct) /\ EvictedFrom(t, s)
<1> DEFINE R == RoundsOf(m, t, min_free)
           L == Cardinality(Cached(t))
           Good(r) == CacheOK(r.mgr, r.tree, bl, ct) /\ EvictedFrom(t, r)
           S == {i \in Nat : i <= L => \A r \in R[i] : Good(r)}
<1>1. L \in Nat
  BY CachedFinite DEF CacheOK
<1>2. R[0] = Begins(m, t) /\ \A i \in 1 .. L : R[i] = NextRound(R[i - 1], min_free)
  BY <1>1, RoundsUnfold
<1> HIDE DEF R, L
<1>3. \A r \in Begins(m, t) : Good(r)
  <2>1. SUFFICES ASSUME NEW r \in Begins(m, t) PROVE Good(r)
    OBVIOUS
  <2>2. r.mgr = m /\ r.tree = t
    BY DEF Begins
  <2>3. EvictedFrom(t, r)
    BY <2>2 DEF EvictedFrom
  <2>4. QED BY <2>2, <2>3
<1>4. ASSUME NEW r, Good(r), NEW p \in Victims(r.tree) PROVE Good(EvictOne(r, p))
  <2> DEFINE e == EvictOne(r, p)
             C == Cached(r.tree)
  <2>1. p \in C /\ \A q \in C : r.tree.node[p].tick <= r.tree.node[q].tick
    BY DEF Victims
  <2>2. /\ CacheOK(e.mgr, e.tree, bl, ct) /\ Cached(e.tree) = C \ {p}
        /\ \A q \in C \ {p} : e.tree.node[q] = r.tree.node[q]
    BY <1>4, <2>1, EvictOneOK
  <2>3. /\ C \subseteq Cached(t) /\ \A q \in C : r.tree.node[q].tick = t.node[q].tick
        /\ \A x \in Cached(t) \ C, q \in C : t.node[x].tick <= t.node[q].tick
    BY <1>4 DEF EvictedFrom
  <2> HIDE DEF e, C
  <2>4. EvictedFrom(t, e)
    <3>1. Cached(e.tree) \subseteq Cached(t)
      BY <2>2, <2>3
    <3>2. \A q \in Cached(e.tree) : e.tree.node[q].tick = t.node[q].tick
      BY <2>2, <2>3
    <3>3. ASSUME NEW x \in Cached(t) \ Cached(e.tree), NEW q \in Cached(e.tree)
          PROVE  t.node[x].tick <= t.node[q].tick
      <4>1. q \in C
        BY <2>2
      <4>2. CASE x = p
        BY <2>1, <2>3, <4>1, <4>2
      <4>3. CASE x # p
        BY <2>2, <2>3, <4>1, <4>3
      <4>4. QED BY <4>2, <4>3
    <3>4. QED BY <3>1, <3>2, <3>3 DEF EvictedFrom
  <2>5. QED BY <2>2, <2>4 DEF e
<1> HIDE DEF Good
<1>5. 0 \in S
  BY <1>2, <1>3
<1>6. \A i \in Nat : i \in S => i + 1 \in S
  <2>1. SUFFICES ASSUME NEW i \in Nat, i \in S, i + 1 <= L, NEW e \in R[i + 1]
                 PROVE  Good(e)
    OBVIOUS
  <2>2. i + 1 \in 1 .. L /\ (i + 1) - 1 = i /\ \A r \in R[i] : Good(r)
    BY <1>1, <2>1
  <2>3. e \in NextRound(R[i], min_free)
    BY <1>2, <2>2
  <2>4. PICK r \in R[i] : \E p \in Victims(r.tree) : e = EvictOne(r, p)
    BY <2>3 DEF NextRound, Goings
  <2>5. QED BY <1>4, <2>2, <2>4
<1> HIDE DEF S
<1>7. \A i \in Nat : i \in S
  BY <1>5, <1>6, SetInduction
<1>8. PICK i \in 0 .. L : s \in R[i]
  BY EvictionsAreRounds DEF R, L
<1>9. i \in Nat /\ i <= L /\ i \in S
  BY <1>1, <1>7
<1>10. Good(s)
  BY <1>8, <1>9 DEF S
<1>11. QED BY <1>10 DEF Good

\* What leaves the tree is no fresher than what stays.
LeastRecentLeave ==
  \A p \in Cached(tree) \ Cached(tree)', q \in Cached(tree) \cap Cached(tree)' :
    tree.node[p].tick <= tree.node[q].tick

\* evict_until_free, whatever victims it chooses.
LEMMA EvictKeeps ==
  ASSUME NEW min_free, CacheInv, EvictUntilFree(min_free)
  PROVE  CacheInv' /\ LeastRecentLeave
<1>1. CacheOK(mgr, tree, blocks, content) /\ ClientsOK(phase, prompt, blocks, content)
  BY DEF CacheInv
<1>2. PICK s \in Evictions(mgr, tree, min_free) : mgr' = s.mgr /\ tree' = s.tree
  BY DEF EvictUntilFree
<1>3. phase' = phase /\ prompt' = prompt /\ blocks' = blocks /\ content' = content
  BY DEF EvictUntilFree
<1>4. CacheOK(s.mgr, s.tree, blocks, content) /\ EvictedFrom(tree, s)
  BY <1>1, EvictionsOK
<1>5. CacheInv'
  BY <1>1, <1>2, <1>3, <1>4 DEF CacheInv
<1>6. LeastRecentLeave
  BY <1>2, <1>4 DEF EvictedFrom, LeastRecentLeave
<1>7. QED BY <1>5, <1>6

\* Every step keeps the invariant, and the least recently used leave first.
LEMMA NextKeeps ==
  ASSUME CacheInv, [Next]_vars
  PROVE  CacheInv' /\ (LeastRecentLeave \/ UNCHANGED vars)
<1>1. ASSUME NEW c \in Clients, NEW seq \in Prompts, Lookup(c, seq)
      PROVE  CacheInv' /\ LeastRecentLeave
  BY <1>1, LookupKeeps DEF LeastRecentLeave
<1>2. ASSUME NEW c \in Clients, Fill(c)
      PROVE  CacheInv' /\ LeastRecentLeave
  <2>1. tree' = tree
    BY <1>2 DEF Fill
  <2>2. QED BY <1>2, <2>1, FillKeeps DEF LeastRecentLeave
<1>3. ASSUME NEW c \in Clients, Insert(c)
      PROVE  CacheInv' /\ LeastRecentLeave
  BY <1>3, InsertKeeps DEF LeastRecentLeave
<1>4. ASSUME NEW c \in Clients, Finish(c)
      PROVE  CacheInv' /\ LeastRecentLeave
  <2>1. tree' = tree
    BY <1>4 DEF Finish
  <2>2. QED BY <1>4, <2>1, FinishKeeps DEF LeastRecentLeave
<1>5. ASSUME NEW min_free, EvictUntilFree(min_free)
      PROVE  CacheInv' /\ LeastRecentLeave
  BY <1>5, EvictKeeps
<1>6. CASE UNCHANGED vars
  BY <1>6 DEF vars, CacheInv
<1>7. QED BY <1>1, <1>2, <1>3, <1>4, <1>5, <1>6 DEF Next

---------------------------------------------------------------------------
(* What is proved of the prefix cache *)

\* The invariant holds over every interleaving of the calls.
THEOREM CacheInvariant == Spec => []CacheInv
<1>1. CacheInv /\ [Next]_vars => CacheInv'
  BY NextKeeps
<1>2. QED BY <1>1, InitKeeps, PTL DEF Spec

\* Over every interleaving of lookups, inserts, completions and evictions a
\* block's count is the number of nodes that carry it and clients that hold it,
\* and it is free when that is none (retain_block, release_block in lookup,
\* insert and evict_until_free).
THEOREM ReferencesCounted == Spec => []ReferencesAccounted
<1>1. CacheInv => ReferencesAccounted
  <2>1. SUFFICES ASSUME CacheInv PROVE ReferencesAccounted
    OBVIOUS
  <2>2. ManagerOK(mgr) /\ Exact(tree, content) /\ Referenced(mgr, tree, blocks)
    BY <2>1 DEF CacheInv, CacheOK
  <2>3. FreeListExact(mgr)
    BY <2>2 DEF ManagerOK
  <2>4. ASSUME NEW b \in Block
        PROVE  mgr.refcount[b] = Cardinality({p \in Cached(tree) : tree.node[p].block = b})
                                 + Cardinality({c \in Clients : b \in ToSet(blocks[c])})
    <3>1. Cardinality(Carriers(tree, b)) = Carried(tree, b)
      BY <2>2, OneCarrier
    <3>2. mgr.refcount[b] = Cardinality(Carriers(tree, b)) + Cardinality(Owners(blocks, b))
      BY <2>2, <3>1 DEF Referenced
    <3>3. QED BY <3>2 DEF Carriers, Owners
  <2>5. QED BY <2>3, <2>4 DEF ReferencesAccounted
<1>2. QED BY <1>1, CacheInvariant, PTL

\* Reuse is bit-exact: what a client reads in its i-th block was computed for
\* its own first i blocks of tokens, and what the tree offers for a prefix was
\* computed for that prefix, whoever computed it and whatever was evicted.
THEOREM ReuseExact == Spec => []BitExact
<1>1. CacheInv => BitExact
  BY DEF CacheInv, CacheOK, ClientsOK, Exact, BitExact
<1>2. QED BY <1>1, CacheInvariant, PTL

\* The tree holds no garbage after any insert, eviction and pruning
\* (prune_empty), and cached_block_count_ is right.
THEOREM NoGarbage == Spec => []TreePruned
<1>1. CacheInv => TreePruned
  BY DEF CacheInv, CacheOK, Tidy, TreePruned
<1>2. QED BY <1>1, CacheInvariant, PTL

\* A prefix is never staler than what extends it (the ticks of lookup and
\* insert).
THEOREM NeverStaler == Spec => []PrefixesFresher
<1>1. CacheInv => PrefixesFresher
  BY DEF CacheInv, CacheOK, Fresher, PrefixesFresher
<1>2. QED BY <1>1, CacheInvariant, PTL

\* A block that leaves the tree was touched no later than any block that stays
\* (find_lru in every round of evict_until_free).
THEOREM LeastRecentFirst == Spec => EvictsLeastRecent
<1> DEFINE A == \A p \in Cached(tree) \ Cached(tree)', q \in Cached(tree) \cap Cached(tree)' :
                  tree.node[p].tick <= tree.node[q].tick
<1>1. CacheInv /\ [Next]_vars => [A]_vars
  BY NextKeeps DEF LeastRecentLeave
<1>2. QED BY <1>1, CacheInvariant, PTL DEF Spec, EvictsLeastRecent
=============================================================================
