-------------------------- MODULE DirtyTilesProofs --------------------------
(***************************************************************************)
(* Proofs about DirtyTiles, for every number of tiles, word size and set   *)
(* of sessions, and about TileGeometry, for every screen and tile size.    *)
(***************************************************************************)
EXTENDS MCDirtyTiles, TLAPS

\* Division with remainder.
LEMMA DivMod ==
  ASSUME NEW a \in Int, NEW b \in Int, b > 0
  PROVE  /\ a = b * (a \div b) + (a % b)
         /\ a \div b \in Int /\ a % b \in 0..b - 1
  BY Z3

\* A tile is determined by its word and its bit.
LEMMA WordAndBitDetermineTile ==
  ASSUME NEW s \in Tiles, NEW t \in Tiles,
         s \div WordBits = t \div WordBits, s % WordBits = t % WordBits
  PROVE  s = t
<1>1. s \in Int /\ t \in Int /\ WordBits \in Int /\ WordBits > 0
  BY DirtyTilesAssumption DEF Tiles
<1>2. /\ s = WordBits * (s \div WordBits) + (s % WordBits)
      /\ t = WordBits * (t \div WordBits) + (t % WordBits)
  BY <1>1, DivMod
<1>3. QED
  BY <1>2

\* Every tile has a word in the vector and a bit in it.
LEMMA TileHasWord ==
  /\ WordCount \in Nat
  /\ \A t \in Tiles : t \div WordBits \in Words /\ t % WordBits \in Bits
<1> DEFINE N == Total + WordBits - 1
<1>1. WordBits \in Int /\ WordBits > 0 /\ N \in Int /\ N >= 0
  BY DirtyTilesAssumption
<1>2. /\ N = WordBits * (N \div WordBits) + (N % WordBits)
      /\ N % WordBits \in 0..WordBits - 1
      /\ N \div WordBits \in Int
  BY <1>1, DivMod
<1>3. WordBits * WordCount >= Total /\ WordCount \in Int
  BY <1>1, <1>2, DirtyTilesAssumption DEF WordCount
<1>4. ASSUME NEW t \in Tiles
      PROVE  /\ t \div WordBits >= 0 /\ t \div WordBits < WordCount
             /\ t % WordBits \in Bits
  <2> DEFINE q == t \div WordBits
             r == t % WordBits
  <2>1. t \in Int /\ t >= 0 /\ t < Total
    BY DirtyTilesAssumption DEF Tiles
  <2>2. t = WordBits * q + r /\ q \in Int /\ r \in 0..WordBits - 1
    BY <1>1, <2>1, DivMod
  <2> HIDE DEF q, r
  <2>3. WordBits * q < WordBits * WordCount
    BY <1>1, <1>3, <2>1, <2>2, DirtyTilesAssumption
  <2>4. q < WordCount
    BY <1>1, <1>3, <2>2, <2>3
  <2>5. q >= 0
    BY <1>1, <2>1, <2>2
  <2>6. QED
    BY <2>2, <2>4, <2>5 DEF q, r, Bits
<1>5. WordCount \in Nat
  <2>1. 0 \in Tiles
    BY DirtyTilesAssumption DEF Tiles
  <2>2. QED
    BY <1>3, <1>4, <2>1, DivMod, <1>1 DEF Tiles
<1>6. QED
  BY <1>1, <1>3, <1>4, <1>5, DivMod DEF Words, Tiles

\* The bits set_all writes are bits of the word.
LEMMA MaskBits ==
  \A w \in Words : Mask(w) \subseteq Bits
<1>1. Total % WordBits \in 0..WordBits - 1 /\ WordBits \in Int
  BY DirtyTilesAssumption, DivMod
<1>2. QED
  BY <1>1 DEF Mask, Bits

-----------------------------------------------------------------------------
(* The inductive invariant. *)

\* What a drain has not reached yet, its own vector does not have.
LocalInv ==
  \A d \in Drainers : \A w \in Words : w >= pos[d] => local[d][w] = {}

DirtyInv == TypeOK /\ LocalInv

\* Initially nothing is marked and no drain is under way.
LEMMA DirtyInvInit == Init => DirtyInv
  BY TileHasWord DEF Init, DirtyInv, TypeOK, LocalInv, Empty, Words

\* Each step keeps the vectors well-formed.
LEMMA DirtyInvNext == DirtyInv /\ [Next]_vars => DirtyInv'
<1> SUFFICES ASSUME DirtyInv, [Next]_vars PROVE DirtyInv'
  OBVIOUS
<1> USE TileHasWord DEF DirtyInv
<1>1. ASSUME NEW t \in Tiles, Set(t) PROVE DirtyInv'
  BY <1>1 DEF Set, TypeOK, LocalInv, Words
<1>2. CASE SetAllBegin
  BY <1>2 DEF SetAllBegin, TypeOK, LocalInv, Words
<1>3. CASE SetAllWord
  BY <1>3, MaskBits DEF SetAllWord, TypeOK, LocalInv, Words
<1>4. ASSUME NEW d \in Drainers, DrainBegin(d) PROVE DirtyInv'
  BY <1>4 DEF DrainBegin, TypeOK, LocalInv, Words, Empty
<1>5. ASSUME NEW d \in Drainers, SwapWord(d) PROVE DirtyInv'
  <2>1. pos[d] \in Words /\ words[pos[d]] \subseteq Bits
    BY <1>5 DEF SwapWord, TypeOK, Words
  <2>2. TypeOK'
    BY <1>5, <2>1 DEF SwapWord, Swapped, TypeOK, Words
  <2>3. LocalInv'
    BY <1>5, <2>1 DEF SwapWord, TypeOK, LocalInv, Words
  <2>4. QED
    BY <2>2, <2>3
<1>6. ASSUME NEW d \in Drainers, DrainEnd(d) PROVE DirtyInv'
  BY <1>6 DEF DrainEnd, TypeOK, LocalInv, Words, Empty
<1>7. CASE UNCHANGED vars
  BY <1>7 DEF TypeOK, LocalInv, vars
<1>8. QED
  BY <1>1, <1>2, <1>3, <1>4, <1>5, <1>6, <1>7 DEF Next

\* Every word holds bits of the word, and every index stays in range.
THEOREM TypeCorrect == Spec => []TypeOK
<1>1. DirtyInv => TypeOK
  BY DEF DirtyInv
<1>2. QED
  BY DirtyInvInit, DirtyInvNext, <1>1, PTL DEF Spec

-----------------------------------------------------------------------------
(* The refinement. *)

\* The initial states are those of the abstract accumulator.
LEMMA AccumulatorInit == Init => Accumulator!Init
  BY TileHasWord DEF Init, Accumulator!Init, TilesIn, Empty

\* Every step marks tiles, takes marked tiles, returns them, or is invisible.
LEMMA AccumulatorNext ==
  DirtyInv /\ [Next]_vars => [Accumulator!Next]_(Accumulator!vars)
<1> SUFFICES ASSUME DirtyInv, [Next]_vars
             PROVE  Accumulator!Next \/ UNCHANGED Accumulator!vars
  OBVIOUS
<1> DEFINE Taken == [d \in Drainers |-> TilesIn(local[d])]
<1> USE TileHasWord DEF DirtyInv
<1>1. ASSUME NEW t \in Tiles, Set(t)
      PROVE  Accumulator!Mark({t})
  <2>1. \A s \in Tiles : s \in TilesIn(words') <=> s \in TilesIn(words) \/ s = t
    BY <1>1, WordAndBitDetermineTile DEF Set, TilesIn, TypeOK
  <2>2. TilesIn(words') = TilesIn(words) \cup {t}
    BY <2>1 DEF TilesIn
  <2>3. QED
    BY <1>1, <2>2 DEF Set, Accumulator!Mark
<1>2. CASE SetAllBegin
  BY <1>2 DEF SetAllBegin, Accumulator!vars
<1>3. CASE SetAllWord
  <2> DEFINE S == {s \in Tiles : s \div WordBits = fill /\ s % WordBits \in Mask(fill)}
  <2>1. fill \in Words /\ Mask(fill) \subseteq Bits
    BY <1>3, MaskBits DEF SetAllWord, TypeOK, Words
  <2>2. words[fill] \cup Mask(fill) = words'[fill]
    <3>1. words[fill] \subseteq Bits
      BY <2>1 DEF TypeOK
    <3>2. fill < Total \div WordBits => Mask(fill) = Bits
      BY DEF Mask
    <3>3. QED
      BY <1>3, <2>1, <3>1, <3>2 DEF SetAllWord, TypeOK
  <2>3. \A w \in Words : w # fill => words'[w] = words[w]
    BY <1>3, <2>1 DEF SetAllWord, TypeOK
  <2>4. \A s \in Tiles : s \in TilesIn(words') <=> s \in TilesIn(words) \/ s \in S
    BY <2>2, <2>3 DEF TilesIn
  <2>5. TilesIn(words') = TilesIn(words) \cup S /\ S \in SUBSET Tiles
    BY <2>4 DEF TilesIn
  <2>6. Accumulator!Mark(S)
    BY <1>3, <2>5 DEF SetAllWord, Accumulator!Mark
  <2>7. QED
    BY <2>5, <2>6 DEF Accumulator!Next
<1>4. ASSUME NEW d \in Drainers, DrainBegin(d) PROVE UNCHANGED Accumulator!vars
  BY <1>4 DEF DrainBegin, Accumulator!vars
<1>5. ASSUME NEW d \in Drainers, SwapWord(d) PROVE Accumulator!Next
  <2> DEFINE k == pos[d]
             S == {s \in Tiles : s \div WordBits = k /\ s % WordBits \in words[k]}
  <2>1. k \in Words /\ local[d][k] = {}
    BY <1>5 DEF SwapWord, TypeOK, LocalInv, Words
  <2>2. /\ words'[k] = {} /\ local'[d][k] = words[k]
        /\ \A w \in Words : w # k => words'[w] = words[w] /\ local'[d][w] = local[d][w]
        /\ \A e \in Drainers : e # d => local'[e] = local[e]
        /\ DOMAIN local' = Drainers
    BY <1>5, <2>1 DEF SwapWord, Swapped, TypeOK
  <2> HIDE DEF k
  <2>3. \A s \in Tiles : s \in TilesIn(words') <=> s \in TilesIn(words) /\ s \notin S
    BY <2>2 DEF TilesIn
  <2>4. \A s \in Tiles :
          s \in TilesIn(local'[d]) <=> s \in TilesIn(local[d]) \/ s \in S
    BY <2>1, <2>2 DEF TilesIn
  <2>5. TilesIn(words') = TilesIn(words) \ S /\ S \in SUBSET TilesIn(words)
    BY <2>3 DEF TilesIn
  <2>6. TilesIn(local'[d]) = TilesIn(local[d]) \cup S
    BY <2>4 DEF TilesIn
  <2>7. [e \in Drainers |-> TilesIn(local'[e])] = [Taken EXCEPT ![d] = @ \cup S]
    BY <2>2, <2>6
  <2>8. Accumulator!Take(d, S)
    BY <2>5, <2>7 DEF Accumulator!Take
  <2>9. QED
    BY <2>5, <2>8 DEF Accumulator!Next
<1>6. ASSUME NEW d \in Drainers, DrainEnd(d) PROVE Accumulator!Return(d)
  <2>1. local'[d] = Empty /\ \A e \in Drainers : e # d => local'[e] = local[e]
    BY <1>6 DEF DrainEnd, TypeOK
  <2>2. TilesIn(local'[d]) = {}
    BY <2>1 DEF TilesIn, Empty
  <2>3. [e \in Drainers |-> TilesIn(local'[e])] = [Taken EXCEPT ![d] = {}]
    BY <2>1, <2>2
  <2>4. QED
    BY <1>6, <2>3 DEF DrainEnd, Accumulator!Return
<1>7. CASE UNCHANGED vars
  BY <1>7 DEF vars, Accumulator!vars
<1>8. QED
  BY <1>1, <1>2, <1>3, <1>4, <1>5, <1>6, <1>7 DEF Next, Accumulator!Next

\* DirtyTiles implements the abstract accumulator: under any interleaving of
\* set, set_all and drains no mark is lost and none is returned by two drains.
THEOREM AccumulatorIsImplemented == Spec => ImplementsAccumulator
  BY DirtyInvInit, DirtyInvNext, AccumulatorInit, AccumulatorNext, PTL
  DEF Spec, ImplementsAccumulator, Accumulator!Spec

-----------------------------------------------------------------------------
(* set_all. *)

\* The product with a positive number keeps the order.
LEMMA ProductKeepsOrder ==
  ASSUME NEW a \in Int, NEW b \in Int, NEW k \in Int, k > 0
  PROVE  /\ a <= b => k * a <= k * b
         /\ k * a < k * b => a < b
<1>1. a <= b => k * (b - a) >= 0
  BY Z3
<1>2. k * (b - a) = k * b - k * a
  BY Z3
<1>3. a >= b => k * (a - b) >= 0
  BY Z3
<1>4. k * (a - b) = k * a - k * b
  BY Z3
<1>5. k * a \in Int /\ k * b \in Int
  OBVIOUS
<1>6. QED
  BY <1>1, <1>2, <1>3, <1>4, <1>5

\* The masks of set_all have the bits of all tiles and no others.
LEMMA MaskTiles ==
  /\ \A w \in Words : \A b \in Mask(w) : w * WordBits + b \in Tiles
  /\ \A t \in Tiles : t % WordBits \in Mask(t \div WordBits)
<1> DEFINE Q == Total \div WordBits
           R == Total % WordBits
           N == Total + WordBits - 1
<1>1. /\ WordBits \in Int /\ WordBits > 0 /\ Total \in Int /\ N \in Int
  BY DirtyTilesAssumption
<1>2. Total = WordBits * Q + R /\ Q \in Int /\ R \in 0..WordBits - 1
  BY <1>1, DivMod
<1>3. \A w \in Words : w <= Q
  <2>1. /\ N = WordBits * WordCount + (N % WordBits)
        /\ WordCount \in Int /\ N % WordBits \in 0..WordBits - 1
    BY <1>1, DivMod DEF WordCount
  <2>2. WordBits * (Q + 2) = WordBits * Q + WordBits + WordBits
    BY <1>1, <1>2, Z3
  <2>3. WordBits * WordCount < WordBits * (Q + 2)
    BY <1>1, <1>2, <2>1, <2>2
  <2>4. WordCount < Q + 2
    BY <1>1, <1>2, <2>1, <2>3, ProductKeepsOrder
  <2>5. QED
    BY <1>2, <2>1, <2>4 DEF Words
<1>4. ASSUME NEW w \in Words, NEW b \in Mask(w) PROVE w * WordBits + b \in Tiles
  <2>1. w \in Int /\ w >= 0 /\ w * WordBits = WordBits * w
    BY <1>1, TileHasWord DEF Words
  <2>2. WordBits * w >= WordBits * 0 /\ WordBits * 0 = 0
    BY <1>1, <2>1, ProductKeepsOrder
  <2>3. CASE w < Q
    <3>1. b \in 0..WordBits - 1
      BY <2>3 DEF Mask, Bits
    <3>2. WordBits * (w + 1) <= WordBits * Q
      BY <1>1, <1>2, <2>1, <2>3, ProductKeepsOrder
    <3>3. WordBits * (w + 1) = WordBits * w + WordBits
      BY <1>1, <2>1, Z3
    <3>4. QED
      BY <1>1, <1>2, <2>1, <2>2, <3>1, <3>2, <3>3 DEF Tiles
  <2>4. CASE w = Q
    <3>1. b \in 0..R - 1
      BY <1>2, <2>4 DEF Mask
    <3>2. QED
      BY <1>1, <1>2, <2>1, <2>2, <2>4, <3>1 DEF Tiles
  <2>5. QED
    BY <1>2, <1>3, <2>1, <2>3, <2>4
<1>5. ASSUME NEW t \in Tiles PROVE t % WordBits \in Mask(t \div WordBits)
  <2> DEFINE w == t \div WordBits
             r == t % WordBits
  <2>1. t \in Int /\ t < Total
    BY DirtyTilesAssumption DEF Tiles
  <2>2. t = WordBits * w + r /\ w \in Int /\ r \in 0..WordBits - 1
    BY <1>1, <2>1, DivMod
  <2>3. w \in Words /\ w <= Q
    BY <1>3, TileHasWord
  <2> HIDE DEF w, r, Q, R
  <2>4. CASE w < Q
    BY <2>2, <2>4 DEF Mask, Bits, Q, w, r
  <2>5. CASE w = Q
    <3>1. r < R
      BY <1>1, <1>2, <2>1, <2>2, <2>5
    <3>2. QED
      BY <1>2, <2>2, <2>5, <3>1 DEF Mask, Q, R, w, r
  <2>6. QED
    BY <1>2, <2>2, <2>3, <2>4, <2>5 DEF w, r
<1>6. QED
  BY <1>4, <1>5

\* No word ever has a bit that is not the bit of a tile: neither set nor set_all
\* leaves a stray bit behind the last tile of the last word.
THEOREM EveryBitIsATile == Spec => []NoStrayBits
<1>1. Init => NoStrayBits
  BY DEF Init, NoStrayBits, Empty
<1>2. DirtyInv /\ NoStrayBits /\ [Next]_vars => NoStrayBits'
  <2> SUFFICES ASSUME DirtyInv, NoStrayBits, [Next]_vars PROVE NoStrayBits'
    OBVIOUS
  <2> USE TileHasWord DEF DirtyInv, TypeOK, NoStrayBits
  <2>1. ASSUME NEW t \in Tiles, Set(t) PROVE NoStrayBits'
    <3>1. (t \div WordBits) * WordBits + (t % WordBits) = t
      <4>1. t \in Int /\ WordBits \in Int /\ WordBits > 0
        BY DirtyTilesAssumption DEF Tiles
      <4>2. t = WordBits * (t \div WordBits) + (t % WordBits)
        BY <4>1, DivMod
      <4>3. t \div WordBits \in Int
        BY <4>1, DivMod
      <4>4. WordBits * (t \div WordBits) = (t \div WordBits) * WordBits
        BY <4>1, <4>3, Z3
      <4>5. QED
        BY <4>2, <4>4
    <3>2. \A w \in Words : \A b \in words'[w] :
            b \in words[w] \/ (w = t \div WordBits /\ b = t % WordBits)
      BY <2>1 DEF Set
    <3>3. QED
      BY <3>1, <3>2
  <2>2. CASE SetAllWord
    <3>1. \A w \in Words : \A b \in words'[w] : b \in words[w] \/ b \in Mask(w)
      BY <2>2 DEF SetAllWord
    <3>2. QED
      BY <3>1, MaskTiles
  <2>3. ASSUME NEW d \in Drainers, SwapWord(d) PROVE NoStrayBits'
    <3>1. \A w \in Words : words'[w] \subseteq words[w]
      BY <2>3 DEF SwapWord, Swapped
    <3>2. QED
      BY <3>1
  <2>4. CASE UNCHANGED words
    BY <2>4
  <2>5. ASSUME NEW d \in Drainers, DrainBegin(d) \/ DrainEnd(d)
        PROVE  UNCHANGED words
    BY <2>5 DEF DrainBegin, DrainEnd
  <2>6. QED
    BY <2>1, <2>2, <2>3, <2>4, <2>5 DEF Next, SetAllBegin, vars
<1>3. QED
  BY DirtyInvInit, DirtyInvNext, <1>1, <1>2, PTL DEF Spec

\* Once set_all has passed a word, every tile of that word is marked.
THEOREM SetAllIsComplete == Spec => SetAllMarksAll
<1>1. DirtyInv /\ [Next]_vars =>
        [\A w \in Words : fill = w /\ fill' = w + 1 =>
           {t \in Tiles : t \div WordBits = w} \subseteq TilesIn(words')]_vars
  <2> SUFFICES ASSUME DirtyInv, Next, NEW w \in Words, fill = w, fill' = w + 1,
                      NEW t \in Tiles, t \div WordBits = w
               PROVE  t \in TilesIn(words')
    OBVIOUS
  <2> USE TileHasWord DEF DirtyInv, TypeOK
  <2>1. w \in Int
    BY DEF Words
  <2>2. SetAllWord
    BY <2>1 DEF Next, Set, SetAllBegin, DrainBegin, SwapWord, DrainEnd
  <2>3. Mask(w) \subseteq words'[w]
    BY <2>2 DEF SetAllWord
  <2>4. QED
    BY <2>3, MaskTiles DEF TilesIn
<1>2. QED
  BY DirtyInvInit, DirtyInvNext, <1>1, PTL DEF Spec, SetAllMarksAll

-----------------------------------------------------------------------------
(* The geometry of the tiles, one direction of the screen at a time. *)

\* At most one multiple of k is less than k below x.
LEMMA OneMultiple ==
  ASSUME NEW k \in Int, k > 0, NEW a \in Int, NEW b \in Int, NEW x \in Int,
         k * a <= x, x < k * a + k, k * b <= x, x < k * b + k
  PROVE  a = b
<1>1. /\ k * (a + 1) = k * a + k /\ k * (b + 1) = k * b + k
      /\ k * a \in Int /\ k * b \in Int
  BY Z3
<1>2. k * a < k * (b + 1) /\ k * b < k * (a + 1)
  BY <1>1
<1>3. a < b + 1 /\ b < a + 1
  BY <1>2, ProductKeepsOrder
<1>4. QED
  BY <1>3

\* The number of tiles along n pixels: the last one has some of them.
LEMMA TilesAlong ==
  ASSUME NEW n \in Int, n > 0
  PROVE  LET c == DivCeil(n, TileSize)
         IN  /\ c \in Int /\ c > 0
             /\ TileSize * (c - 1) < n /\ n <= TileSize * c
<1> DEFINE c == DivCeil(n, TileSize)
           m == n + TileSize - 1
           r == m % TileSize
<1>1. TileSize \in Int /\ TileSize > 0 /\ m \in Int
  BY TileSizeAssumption
<1>2. m = TileSize * c + r /\ c \in Int /\ r \in 0..TileSize - 1
  BY <1>1, DivMod DEF DivCeil
<1> HIDE DEF c, r
<1>3. TileSize * (c - 1) = TileSize * c - TileSize /\ TileSize * c \in Int
  BY <1>1, <1>2, Z3
<1>4. TileSize * (c - 1) < n /\ n <= TileSize * c
  BY <1>1, <1>2, <1>3
<1>5. TileSize * 0 < TileSize * c
  <2>1. TileSize * 0 = 0
    BY <1>1
  <2>2. QED
    BY <1>3, <1>4, <2>1
<1>6. 0 < c
  BY <1>1, <1>2, <1>5, ProductKeepsOrder
<1>7. QED
  BY <1>2, <1>4, <1>6 DEF c

\* Pixel v of n lies in tile s, which may be cut off at the end.
InTile(n, v, s) ==
  s * TileSize <= v /\ v < s * TileSize + Least(TileSize, n - s * TileSize)

\* A pixel lies in the tile of its quotient and in no other.
LEMMA PixelsTile ==
  ASSUME NEW n \in Int, n > 0, NEW v \in 0..n - 1
  PROVE  /\ v \div TileSize \in 0..DivCeil(n, TileSize) - 1
         /\ InTile(n, v, v \div TileSize)
         /\ \A s \in Int : InTile(n, v, s) => s = v \div TileSize
<1> DEFINE c == DivCeil(n, TileSize)
           q == v \div TileSize
           r == v % TileSize
<1>1. TileSize \in Int /\ TileSize > 0 /\ v \in Int /\ 0 <= v /\ v < n
  BY TileSizeAssumption
<1>2. v = TileSize * q + r /\ q \in Int /\ r \in 0..TileSize - 1
  BY <1>1, DivMod
<1>3. c \in Int /\ n <= TileSize * c
  BY TilesAlong
<1> HIDE DEF c, q, r
<1>4. /\ TileSize * q \in Int /\ TileSize * c \in Int
      /\ q * TileSize = TileSize * q
      /\ TileSize * (q + 1) = TileSize * q + TileSize
      /\ TileSize * 0 = 0
  BY <1>1, <1>2, <1>3, Z3
<1>5. q < c /\ 0 < q + 1
  <2>1. TileSize * q < TileSize * c /\ TileSize * 0 < TileSize * (q + 1)
    BY <1>1, <1>2, <1>3, <1>4
  <2>2. QED
    BY <1>1, <1>2, <1>3, <2>1, ProductKeepsOrder
<1>6. InTile(n, v, q)
  BY <1>1, <1>2, <1>4 DEF InTile, Least
<1>7. ASSUME NEW s \in Int, InTile(n, v, s) PROVE s = q
  <2>1. s * TileSize = TileSize * s /\ TileSize * s \in Int
    BY <1>1, Z3
  <2>2. TileSize * s <= v /\ v < TileSize * s + TileSize
    BY <1>1, <1>7, <2>1 DEF InTile, Least
  <2>3. TileSize * q <= v /\ v < TileSize * q + TileSize
    BY <1>1, <1>2, <1>4
  <2>4. QED
    BY <1>1, <1>2, <2>2, <2>3, OneMultiple
<1>8. QED
  BY <1>2, <1>3, <1>5, <1>6, <1>7 DEF c, q

\* A tile has at least one pixel and ends with the screen.
LEMMA TilesPixels ==
  ASSUME NEW n \in Int, n > 0, NEW s \in 0..DivCeil(n, TileSize) - 1
  PROVE  /\ Least(TileSize, n - s * TileSize) > 0
         /\ s * TileSize + Least(TileSize, n - s * TileSize) <= n
<1> DEFINE c == DivCeil(n, TileSize)
<1>1. /\ TileSize \in Int /\ TileSize > 0
      /\ c \in Int /\ TileSize * (c - 1) < n
  BY TileSizeAssumption, TilesAlong
<1>2. s \in Int /\ s <= c - 1
  BY <1>1
<1> HIDE DEF c
<1>3. /\ s * TileSize = TileSize * s /\ TileSize * s \in Int
      /\ TileSize * (c - 1) \in Int
  BY <1>1, <1>2, Z3
<1>4. TileSize * s <= TileSize * (c - 1)
  BY <1>1, <1>2, ProductKeepsOrder
<1>5. s * TileSize < n
  BY <1>1, <1>3, <1>4
<1>6. QED
  BY <1>1, <1>3, <1>5 DEF Least

-----------------------------------------------------------------------------
(* The numbers of the tiles. *)

\* The tile in column q of row p has a number, which gives both back.
LEMMA NumberOfTile ==
  ASSUME NEW a \in Int, NEW b \in Int, NEW q \in 0..a - 1, NEW p \in 0..b - 1
  PROVE  /\ p * a + q \in 0..a * b - 1
         /\ (p * a + q) % a = q /\ (p * a + q) \div a = p
<1> DEFINE i == p * a + q
<1>1. /\ q \in Int /\ p \in Int /\ 0 <= q /\ q < a /\ 0 <= p /\ p + 1 <= b
      /\ a > 0
  OBVIOUS
<1>2. /\ p * a = a * p /\ a * p \in Int /\ a * b \in Int /\ a * 0 = 0
      /\ a * (p + 1) = a * p + a
  BY <1>1, Z3
<1>3. a * 0 <= a * p /\ a * (p + 1) <= a * b
  BY <1>1, ProductKeepsOrder
<1>4. i = a * p + q /\ i \in Int /\ i \in 0..a * b - 1
  BY <1>1, <1>2, <1>3
<1>5. /\ i = a * (i \div a) + (i % a) /\ i \div a \in Int /\ i % a \in 0..a - 1
  BY <1>1, <1>4, DivMod
<1> HIDE DEF i
<1>6. a * (i \div a) \in Int
  BY <1>5, Z3
<1>7. /\ a * p <= i /\ i < a * p + a
      /\ a * (i \div a) <= i /\ i < a * (i \div a) + a
  BY <1>1, <1>2, <1>4, <1>5, <1>6
<1>8. i \div a = p
  BY <1>1, <1>4, <1>5, <1>7, OneMultiple
<1>9. i % a = q
  BY <1>1, <1>2, <1>4, <1>5, <1>8
<1>10. QED
  BY <1>4, <1>8, <1>9 DEF i

\* A number is the number of a tile, and of one only.
LEMMA TileOfNumber ==
  ASSUME NEW a \in Int, a > 0, NEW b \in Int, NEW i \in 0..a * b - 1
  PROVE  /\ i % a \in 0..a - 1 /\ i \div a \in 0..b - 1
         /\ i = a * (i \div a) + (i % a)
<1> DEFINE p == i \div a
           q == i % a
<1>1. a * b \in Int
  BY Z3
<1>2. i \in Int /\ 0 <= i /\ i < a * b
  BY <1>1
<1>3. i = a * p + q /\ p \in Int /\ q \in 0..a - 1
  BY <1>2, DivMod
<1> HIDE DEF p, q
<1>4. /\ a * p \in Int /\ a * 0 = 0 /\ a * (p + 1) = a * p + a
  BY <1>3, Z3
<1>5. a * p < a * b /\ a * 0 < a * (p + 1)
  BY <1>1, <1>2, <1>3, <1>4
<1>6. p < b /\ 0 < p + 1
  BY <1>3, <1>5, ProductKeepsOrder
<1>7. QED
  BY <1>3, <1>6 DEF p, q

-----------------------------------------------------------------------------
(* The two sides of the geometry agree. *)

\* Covers says of both directions that the pixel lies in the tile.
LEMMA CoversIsInTile ==
  ASSUME NEW w \in Int, NEW h \in Int, NEW i, NEW x, NEW y
  PROVE  Covers(Rect(w, h, i), x, y)
           <=> InTile(w, x, i % TilesX(w)) /\ InTile(h, y, i \div TilesX(w))
  BY DEF Covers, Rect, InTile

\* A changed pixel is marked under one number, which is drained as the
\* rectangle it lies in: on every screen, for every size of the tiles.
LEMMA MarksAreDrained ==
  ASSUME NEW w \in Nat, w > 0, NEW h \in Nat, h > 0
  PROVE  MarkIsDrained(w, h)
<1> SUFFICES ASSUME NEW x \in 0..w - 1, NEW y \in 0..h - 1
             PROVE  \E i \in 0..TileCount(w, h) - 1 :
                      MarkedFor(w, x, y) = {i} /\ Covers(Rect(w, h, i), x, y)
  BY DEF MarkIsDrained
<1> DEFINE a == TilesX(w)
           b == TilesY(h)
           q == x \div TileSize
           p == y \div TileSize
           i == p * a + q
<1>1. a \in Int /\ b \in Int
  BY TilesAlong DEF TilesX, TilesY
<1>2. /\ q \in 0..a - 1 /\ InTile(w, x, q)
      /\ \A s \in Int : InTile(w, x, s) => s = q
  BY PixelsTile DEF TilesX
<1>3. p \in 0..b - 1 /\ InTile(h, y, p)
  BY PixelsTile DEF TilesY
<1>4. i \in 0..a * b - 1 /\ i % a = q /\ i \div a = p
  <2> HIDE DEF a, b, q, p
  <2>1. QED
    BY <1>1, <1>2, <1>3, NumberOfTile
<1>5. \A s \in 0..a - 1 : x \in Segment(w, s) <=> s = q
  <2> TAKE s \in 0..a - 1
  <2>1. /\ s \in Int /\ x \in Int /\ TileSize \in Int /\ w \in Int
        /\ s * TileSize \in Int
    BY <1>1, TileSizeAssumption, Z3
  <2>2. Least(TileSize, w - s * TileSize) \in Int
    BY <2>1 DEF Least
  <2>3. x \in Segment(w, s) <=> InTile(w, x, s)
    BY <2>1, <2>2 DEF Segment, InTile
  <2>4. QED
    BY <1>2, <2>1, <2>3
<1>6. MarkedFor(w, x, y) = {i}
  <2>1. {s \in 0..a - 1 : x \in Segment(w, s)} = {q}
    BY <1>2, <1>5
  <2> HIDE DEF q
  <2>2. QED
    BY <2>1 DEF MarkedFor
<1>7. Covers(Rect(w, h, i), x, y)
  BY <1>2, <1>3, <1>4, CoversIsInTile
<1>8. TileCount(w, h) = a * b
  BY DEF TileCount
<1> HIDE DEF i, a, b
<1>9. QED
  BY <1>4, <1>6, <1>7, <1>8

\* The rectangles lie inside the screen and do not overlap: on every screen,
\* for every size of the tiles.
LEMMA RectsTile ==
  ASSUME NEW w \in Nat, w > 0, NEW h \in Nat, h > 0
  PROVE  RectsTileTheScreen(w, h)
<1> DEFINE a == TilesX(w)
           b == TilesY(h)
           R == [i \in 0..TileCount(w, h) - 1 |-> Rect(w, h, i)]
<1>1. a \in Int /\ a > 0 /\ b \in Int
  BY TilesAlong DEF TilesX, TilesY
<1>2. ASSUME NEW i \in 0..TileCount(w, h) - 1
      PROVE  /\ i % a \in 0..a - 1 /\ i \div a \in 0..b - 1
             /\ i = a * (i \div a) + (i % a)
  <2>1. i \in 0..a * b - 1
    BY DEF TileCount
  <2> HIDE DEF a, b
  <2>2. QED
    BY <1>1, <2>1, TileOfNumber
<1>3. ASSUME NEW i \in 0..TileCount(w, h) - 1
      PROVE  /\ R[i].width > 0 /\ R[i].x + R[i].width <= w
             /\ R[i].height > 0 /\ R[i].y + R[i].height <= h
  <2>1. /\ Least(TileSize, w - (i % a) * TileSize) > 0
        /\ (i % a) * TileSize + Least(TileSize, w - (i % a) * TileSize) <= w
    BY <1>2, TilesPixels DEF TilesX
  <2>2. /\ Least(TileSize, h - (i \div a) * TileSize) > 0
        /\ (i \div a) * TileSize
             + Least(TileSize, h - (i \div a) * TileSize) <= h
    BY <1>2, TilesPixels DEF TilesY
  <2>3. QED
    BY <2>1, <2>2 DEF Rect
<1>4. ASSUME NEW i \in 0..TileCount(w, h) - 1, NEW j \in 0..TileCount(w, h) - 1,
             NEW x \in 0..w - 1, NEW y \in 0..h - 1,
             Covers(R[i], x, y), Covers(R[j], x, y)
      PROVE  i = j
  <2>1. /\ InTile(w, x, i % a) /\ InTile(h, y, i \div a)
        /\ InTile(w, x, j % a) /\ InTile(h, y, j \div a)
    BY <1>4, CoversIsInTile
  <2>2. /\ i % a \in Int /\ j % a \in Int /\ i \div a \in Int /\ j \div a \in Int
    BY <1>1, <1>2
  <2> HIDE DEF a, b, R
  <2>3. i % a = j % a /\ i \div a = j \div a
    BY <2>1, <2>2, PixelsTile
  <2>4. QED
    BY <1>2, <2>3
<1>5. DOMAIN R = 0..TileCount(w, h) - 1
  OBVIOUS
<1> HIDE DEF R
<1>6. /\ \A i \in DOMAIN R : /\ R[i].width > 0 /\ R[i].x + R[i].width <= w
                             /\ R[i].height > 0 /\ R[i].y + R[i].height <= h
      /\ \A i, j \in DOMAIN R : i # j =>
           \A x \in 0..w - 1, y \in 0..h - 1 :
             ~(Covers(R[i], x, y) /\ Covers(R[j], x, y))
  BY <1>3, <1>4, <1>5
<1>7. QED
  BY <1>6 DEF RectsTileTheScreen, R

-----------------------------------------------------------------------------
(* On every screen there is. *)

\* The screen is one of the screens, and stays the same.
LEMMA ScreenIsPositive ==
  MCSpec => [](width \in Nat /\ width > 0 /\ height \in Nat /\ height > 0)
<1> DEFINE Positive == width \in Nat /\ width > 0 /\ height \in Nat /\ height > 0
<1>1. MCInit => Positive
  BY DEF MCInit, Screens
<1>2. Positive /\ [MCNext]_<<vars, width, height>> => Positive'
  BY DEF MCNext
<1>3. QED
  BY <1>1, <1>2, PTL DEF MCSpec

\* A pixel that changed is marked under one number, and drained as a rectangle
\* that contains it, whatever the size of the screen and of the tiles.
THEOREM MarksAreDrainedEverywhere == MCSpec => []EveryMarkIsDrained
<1>1. width \in Nat /\ width > 0 /\ height \in Nat /\ height > 0
        => EveryMarkIsDrained
  BY MarksAreDrained DEF EveryMarkIsDrained
<1>2. QED
  BY ScreenIsPositive, <1>1, PTL

\* The rectangles that are drained lie inside the screen, and no pixel is in
\* two of them, whatever the size of the screen and of the tiles.
THEOREM ScreensAreTiledEverywhere == MCSpec => []EveryScreenIsTiled
<1>1. width \in Nat /\ width > 0 /\ height \in Nat /\ height > 0
        => EveryScreenIsTiled
  BY RectsTile DEF EveryScreenIsTiled
<1>2. QED
  BY ScreenIsPositive, <1>1, PTL
=============================================================================
