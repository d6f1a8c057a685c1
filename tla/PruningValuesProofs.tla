------------------------ MODULE PruningValuesProofs -------------------------
(***************************************************************************)
(* Two bits per entry are enough: of a distance that is known up to one,   *)
(* the distance modulo 3 says which of the three it is.                    *)
(***************************************************************************)
EXTENDS PruningValues, TLAPS

(* The distances that RelativePruning has rows for. *)
Rows == 0 .. RelativePruningLength - 1

(* Distances of cubes that are one move apart. *)
OneApart(h, k) == k \in {h - 1, h, h + 1}

(* An entry is the distance modulo 3, except that 3 stands for 0. *)
LEMMA EntryCases ==
  ASSUME NEW h \in Nat
  PROVE  /\ h % 3 = 0 => EntryOf(h) = 3
         /\ h % 3 = 1 => EntryOf(h) = 1
         /\ h % 3 = 2 => EntryOf(h) = 2
         /\ h % 3 \in 0 .. 2
         /\ EntryOf(h) \in 1 .. 3
         /\ EntryOf(h) % 3 = h % 3
<1>1. h % 3 \in 0 .. 2
  OBVIOUS
<1>2. h % 3 = 0 \/ h % 3 = 1 \/ h % 3 = 2
  BY <1>1
<1>3. MapEntry[0] = 3 /\ MapEntry[1] = 1 /\ MapEntry[2] = 2
  BY DEF MapEntry
<1> QED
  BY <1>1, <1>2, <1>3 DEF EntryOf

(* No entry of a distance is mistaken for a free one (pruningtable.cpp     *)
(* 219 and 241 test an entry for Empty before they set it).                *)
LEMMA EntryIsNotEmpty == \A h \in Nat : EntryOf(h) # Empty
BY EntryCases DEF Empty

(* The residue of a difference of at most one. *)
LEMMA Residues ==
  ASSUME NEW h \in Nat, NEW k \in Nat, OneApart(h, k)
  PROVE  /\ k = h - 1 => (EntryOf(k) - h) % 3 = 2
         /\ k = h     => (EntryOf(k) - h) % 3 = 0
         /\ k = h + 1 => (EntryOf(k) - h) % 3 = 1
<1>1. EntryOf(k) % 3 = k % 3 /\ EntryOf(k) \in 1 .. 3
  BY EntryCases
<1>2. (EntryOf(k) - h) % 3 = (k - h) % 3
  BY <1>1
<1> QED
  BY <1>2 DEF OneApart

(* RelativePruning returns the distance after a move: solve.cpp:247-260    *)
(* uses it at every move of a search instead of get_real, from the row of  *)
(* the distance before the move.                                           *)
THEOREM RelativeIsExact ==
  \A h \in Rows : \A k \in Nat : OneApart(h, k) => RelativePruning[h][EntryOf(k)] = k
<1> SUFFICES ASSUME NEW h \in Rows, NEW k \in Nat, OneApart(h, k)
             PROVE  RelativePruning[h][EntryOf(k)] = k
  OBVIOUS
<1>1. h \in Nat /\ h \in 0 .. RelativePruningLength - 1
  BY DEF Rows, RelativePruningLength
<1>2. EntryOf(k) \in 1 .. 3
  BY EntryCases
<1>3. RelativePruning[h][EntryOf(k)] = h + signal_mod[(EntryOf(k) - h) % 3]
  BY <1>1, <1>2 DEF RelativePruning
<1>4. signal_mod[0] = 0 /\ signal_mod[1] = 1 /\ signal_mod[2] = -1
  BY DEF signal_mod
<1>5. k = h - 1 \/ k = h \/ k = h + 1
  BY DEF OneApart
<1> QED
  BY <1>1, <1>3, <1>4, <1>5, Residues

(* Of the places one move away from one at distance h > 0, those whose     *)
(* entry is MapEntryDecMod3[h % 3] are at distance h - 1, and no others:   *)
(* get_real (pruningtable.cpp:89-118), which follows such an entry in each *)
(* round and counts the rounds, comes one move closer each time.           *)
THEOREM DescentIsExact ==
  \A h \in Nat \ {0} : \A k \in Nat :
     OneApart(h, k) => (EntryOf(k) = MapEntryDecMod3[h % 3] <=> k = h - 1)
<1> SUFFICES ASSUME NEW h \in Nat \ {0}, NEW k \in Nat, OneApart(h, k)
             PROVE  EntryOf(k) = MapEntryDecMod3[h % 3] <=> k = h - 1
  OBVIOUS
<1>1. h % 3 \in 0 .. 2
  OBVIOUS
<1>2. MapEntryDecMod3[h % 3] = MapEntry[((h % 3) + 2) % 3]
  BY <1>1 DEF MapEntryDecMod3, DecMod3
<1>3. ((h % 3) + 2) % 3 = (h - 1) % 3
  OBVIOUS
<1>4. MapEntryDecMod3[h % 3] = EntryOf(h - 1)
  BY <1>2, <1>3 DEF EntryOf
<1>5. CASE k = h - 1
  BY <1>4, <1>5
<1>6. CASE k # h - 1
  <2>1. k = h \/ k = h + 1
    BY <1>6 DEF OneApart
  <2>2. k % 3 # (h - 1) % 3
    BY <2>1
  <2>3. EntryOf(k) % 3 # EntryOf(h - 1) % 3
    BY <2>2, EntryCases
  <2> QED
    BY <1>4, <1>6, <2>3
<1> QED
  BY <1>5, <1>6
=============================================================================
