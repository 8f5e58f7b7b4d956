----------------------------- MODULE DirtyTiles -----------------------------
(***************************************************************************)
(* DirtyTiles of frame_diff.rs: one bit per tile in a vector of atomic     *)
(* words, marked by the capture thread and drained by any number of        *)
(* sessions.  Each word is accessed atomically; the operations on the      *)
(* whole vector (set_all, drain_to_rects) go word by word.                 *)
(***************************************************************************)
EXTENDS Integers

CONSTANTS
  Total,      \* number of tiles, tiles_x * tiles_y
  WordBits,   \* bits of a word, 64
  Drainers    \* the sessions' writers

ASSUME DirtyTilesAssumption ==
  /\ Total \in Nat /\ Total > 0
  /\ WordBits \in Nat /\ WordBits > 0

Tiles == 0..Total - 1
Bits  == 0..WordBits - 1

\* word_count
WordCount == (Total + WordBits - 1) \div WordBits
Words     == 0..WordCount - 1

VARIABLES
  words,   \* the bits that are set in each word
  fill,    \* the next word of the set_all under way, or WordCount
  pos,     \* the next word of a drain under way, or WordCount
  local    \* a drain's own vector: what it swapped out of each word

vars == <<words, fill, pos, local>>

Empty == [w \in Words |-> {}]

\* The tiles a vector of words has a bit for.
TilesIn(v) == {t \in Tiles : t % WordBits \in v[t \div WordBits]}

TypeOK ==
  /\ words \in [Words -> SUBSET Bits]
  /\ fill \in 0..WordCount
  /\ pos \in [Drainers -> 0..WordCount]
  /\ local \in [Drainers -> [Words -> SUBSET Bits]]

Init ==
  /\ words = Empty /\ fill = WordCount
  /\ pos = [d \in Drainers |-> WordCount]
  /\ local = [d \in Drainers |-> Empty]

-----------------------------------------------------------------------------
(* The capture thread. *)

\* set: one fetch_or.
Set(t) ==
  /\ fill = WordCount
  /\ words' = [words EXCEPT ![t \div WordBits] = @ \cup {t % WordBits}]
  /\ UNCHANGED <<fill, pos, local>>

SetAllBegin ==
  /\ fill = WordCount /\ fill' = 0
  /\ UNCHANGED <<words, pos, local>>

\* Mutant of Mask: one bit too many in the last, partial word.
MaskTooWide(w) == IF w < Total \div WordBits THEN Bits
                  ELSE 0..(Total % WordBits)

\* Mutant of Mask: one bit too few in the last, partial word.
MaskTooNarrow(w) == IF w < Total \div WordBits THEN Bits
                    ELSE 0..(Total % WordBits) - 2

\* u64::MAX for a full word, (1 << remaining) - 1 for the last, partial one.
Mask(w) == IF w < Total \div WordBits THEN Bits
           ELSE 0..(Total % WordBits) - 1

\* set_all: a full word is stored, the partial one is fetch_or-ed.
SetAllWord ==
  /\ fill < WordCount
  /\ words' = [words EXCEPT ![fill] = IF fill < Total \div WordBits
                                      THEN Mask(fill) ELSE @ \cup Mask(fill)]
  /\ fill' = fill + 1
  /\ UNCHANGED <<pos, local>>

-----------------------------------------------------------------------------
(* A session. *)

DrainBegin(d) ==
  /\ pos[d] = WordCount /\ local[d] = Empty
  /\ pos' = [pos EXCEPT ![d] = 0]
  /\ UNCHANGED <<words, fill, local>>

\* Mutant of Swapped: a load in place of the swap.
SwappedNot(w) == words[w]

\* What bits.swap(0) leaves in the word.
Swapped(w) == {}

\* Mutant of SwapWord: the last, partial word is passed over.
SwapWordFullOnly(d) ==
  /\ pos[d] < WordCount
  /\ pos' = [pos EXCEPT ![d] = @ + 1]
  /\ IF pos[d] < Total \div WordBits
       THEN /\ local' = [local EXCEPT ![d][pos[d]] = words[pos[d]]]
            /\ words' = [words EXCEPT ![pos[d]] = Swapped(pos[d])]
       ELSE UNCHANGED <<words, local>>
  /\ UNCHANGED fill

SwapWord(d) ==
  /\ pos[d] < WordCount
  /\ local' = [local EXCEPT ![d][pos[d]] = words[pos[d]]]
  /\ words' = [words EXCEPT ![pos[d]] = Swapped(pos[d])]
  /\ pos' = [pos EXCEPT ![d] = @ + 1]
  /\ UNCHANGED fill

\* drain_to_rects returns the rectangles of TilesIn(local[d]).
DrainEnd(d) ==
  /\ pos[d] = WordCount /\ local[d] # Empty
  /\ local' = [local EXCEPT ![d] = Empty]
  /\ UNCHANGED <<words, fill, pos>>

Next ==
  \/ \E t \in Tiles : Set(t)
  \/ SetAllBegin \/ SetAllWord
  \/ \E d \in Drainers : DrainBegin(d) \/ SwapWord(d) \/ DrainEnd(d)

Spec == Init /\ [][Next]_vars

\* A session goes on draining.
FairSpec ==
  /\ Spec
  /\ \A d \in Drainers : WF_vars(DrainBegin(d) \/ SwapWord(d) \/ DrainEnd(d))

-----------------------------------------------------------------------------
(* Properties. *)

\* Every bit is the bit of a tile: set_all leaves no stray bit behind the last
\* tile of the last word.
NoStrayBits ==
  \A w \in Words : \A b \in words[w] : w * WordBits + b \in Tiles

Accumulator ==
  INSTANCE TileAccumulator
    WITH dirty <- TilesIn(words), taken <- [d \in Drainers |-> TilesIn(local[d])]

\* DirtyTiles keeps the promise of TileAccumulator: whatever the interleaving
\* of set, set_all and drains, no mark is lost and none is returned twice.
ImplementsAccumulator == Accumulator!Spec

\* set_all leaves no tile out: once it has passed a word, every tile of that
\* word is marked.
SetAllMarksAll ==
  [][\A w \in Words : fill = w /\ fill' = w + 1 =>
       {t \in Tiles : t \div WordBits = w} \subseteq TilesIn(words')]_vars

\* A tile that is marked is taken by some drain, in the end.
MarkIsTaken ==
  \A t \in Tiles :
    t \in TilesIn(words) ~> \E d \in Drainers : t \in TilesIn(local[d])
=============================================================================
