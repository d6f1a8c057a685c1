---------------------------- MODULE PruningTable ----------------------------
(***************************************************************************)
(* The pruning table of pruningtable.cpp through its life: one process     *)
(* builds it, by a breadth-first search that visits the table itself in    *)
(* order, and saves it; another one loads it and asks it for distances,    *)
(* first of a new position (get_real) and then of one after another as the *)
(* position is turned (get_simpl and RelativePruning).                     *)
(***************************************************************************)
EXTENDS SymCoordinates, PruningValues, Sequences

CONSTANTS
  KilledAfter,      \* bound: after how many rows the first process may die
  CutAfter,         \* bound: and after how many entries of the next one (4 in a byte)
  FarthestDistance  \* no position is farther from the solved one

ASSUME KilledSomewhere == KilledAfter \subseteq Nat /\ CutAfter \subseteq Nat
ASSUME SomeDistance == FarthestDistance \in 0 .. RelativePruningLength - 1

-----------------------------------------------------------------------------
(* The true distances, found on the positions themselves: those that n     *)
(* moves or fewer reach.                                                   *)
OneMoveMore(positions) == positions \cup {Multiply(p, m) : p \in positions, m \in AllMoves}

Ball[n \in Nat] == IF n = 0 THEN {Solved} ELSE OneMoveMore(Ball[n - 1])

Balls == [n \in 0 .. FarthestDistance |-> Ball[n]]

ASSUME NoneIsFarther == Positions \subseteq Balls[FarthestDistance]

Distances ==
  [p \in Positions |->
     CHOOSE n \in 0 .. FarthestDistance : p \in Balls[n] /\ (n = 0 \/ p \notin Balls[n - 1])]

-----------------------------------------------------------------------------

VARIABLES
  pc,             \* "start" "build" "save" "dead" "loaded" "get_real" "known"
  table,          \* _table[class][corner]: a row of entries
  visited_count,
  current_depth,  \* modulo 3
  real_current_depth,
  cursor,         \* <<i, j, k>>: the entry that build() looks at, or <<>> between passes
  file,           \* the whole rows of pruning_table.bin
  rest,           \* the entries of the next row, if the file ends inside it
  cube,           \* the position asked for, with a sym coordinate
  at,             \* the entry that get_real has come to, and depthMod3
  depth,          \* and in how many rounds
  bound           \* the distance that the caller was told

building == <<visited_count, current_depth, real_current_depth, cursor>>
asking == <<cube, at, depth, bound>>
vars == <<pc, table, building, file, rest, asking>>

(* No distance: nobody asked yet, or the code has read where nothing was  *)
(* written.                                                                *)
None == -1

-----------------------------------------------------------------------------
(* Entries.  The code keeps four of two bits in a byte, and ors a new value *)
(* into its place: an entry that is set twice is spoiled by it.            *)

Entries == [class : Classes, edge : Edges, corner : Corners]

get(t, class, edge, corner) == t[class][corner][edge]

BitOr(a, b) == IF a = b \/ b = 0 THEN a ELSE IF a = 0 THEN b ELSE 3

(* The table after `set' for all of these entries. *)
set(t, entries, value) ==
  [class \in Classes |-> [corner \in Corners |-> [edge \in Edges |->
     IF [class |-> class, edge |-> edge, corner |-> corner] \in entries
       THEN BitOr(t[class][corner][edge], value)
       ELSE t[class][corner][edge]]]]

allocate == [class \in Classes |-> [corner \in Corners |-> [edge \in Edges |-> Empty]]]

(* The entry that holds the distance of a position. *)
reduce_to_representant(sym, edge, corner) ==
  LET class == SymUDSliceSortedClass(sym)
      inv_symmetry == InverseSymmetryIndex[SymUDSliceSortedSymmetry(sym)]
  IN  [class |-> class, edge |-> EdgeOrientationConjugate[edge][class][inv_symmetry],
       corner |-> CornerOrientationConjugate[corner][inv_symmetry]]

SolvedEntry == [class |-> 0, edge |-> 0, corner |-> 0]

get_entry(t, entry) == get(t, entry.class, entry.edge, entry.corner)

get_simpl(sym, edge, corner) == get_entry(table, reduce_to_representant(sym, edge, corner))

-----------------------------------------------------------------------------
(* build() *)

(* The code multiplies three `int's: 788 * 2187 * 2048 is 3529433088, more *)
(* than a signed `int' holds, but in the `unsigned int' that it is stored  *)
(* in the wrapped product is that number again, and visited_count reaches  *)
(* it.  Numbers have no width here.                                        *)
All == UDSliceSortedClassCount * CornerOrientationCoordinateLength
         * EdgeOrientationCoordinateLength

(* Mistake: only the entry of the sym coordinate itself. *)
EquivalentsOfOne(sym, edge, corner) == {reduce_to_representant(sym, edge, corner)}

(* The entries for one position: more than one if it has symmetries. *)
Equivalents(sym, edge, corner) ==
  {reduce_to_representant(equivalent, edge, corner) :
     equivalent \in UDSliceSortedRaw2Sym[UDSliceSortedSym2Raw[sym]]}

(* Mistake: entries are set whether or not they are empty. *)
FillAlways(entries, value) ==
  /\ table' = set(table, entries, value)
  /\ visited_count' = visited_count + Cardinality(entries)

(* Set those of the entries that are empty, and count them. *)
FillEmpty(entries, value) ==
  \E empty \in {{e \in entries : get_entry(table, e) = Empty}} :
    /\ table' = set(table, empty, value)
    /\ visited_count' = visited_count + Cardinality(empty)

NextEntry(c) ==
  IF c[3] < CornerOrientationCoordinateLength - 1 THEN <<c[1], c[2], c[3] + 1>>
  ELSE IF c[2] < EdgeOrientationCoordinateLength - 1 THEN <<c[1], c[2] + 1, 0>>
  ELSE IF c[1] < UDSliceSortedClassCount - 1 THEN <<c[1] + 1, 0, 0>>
  ELSE <<>>

Init ==
  /\ pc = "start"
  /\ table = allocate
  /\ visited_count = 0
  /\ current_depth = 0
  /\ real_current_depth = 0
  /\ cursor = <<>>
  /\ file = <<>>
  /\ rest = <<>>
  /\ cube = [sym |-> 0, edge |-> 0, corner |-> 0]
  /\ at = [entry |-> SolvedEntry, mod3 |-> 0]
  /\ depth = 0
  /\ bound = None

(* The solved position and its equivalents, at distance 0. *)
FirstEntry ==
  /\ pc = "start"
  /\ FillEmpty(Equivalents(0, 0, 0), MapEntry[0])
  /\ pc' = "build"
  /\ UNCHANGED <<current_depth, real_current_depth, cursor, file, rest, asking>>

(* A pass over the whole table for each distance, until it is full. *)
StartPass ==
  /\ pc = "build" /\ cursor = <<>> /\ visited_count < All
  /\ cursor' = <<0, 0, 0>>
  /\ UNCHANGED <<pc, table, visited_count, current_depth, real_current_depth, file, rest, asking>>

EndBuild ==
  /\ pc = "build" /\ cursor = <<>> /\ visited_count >= All
  /\ pc' = "save"
  /\ UNCHANGED <<table, building, file, rest, asking>>

AtCurrentDepth == get(table, cursor[1], cursor[2], cursor[3]) = MapEntry[current_depth]

(* On to the next entry; after the last one, to the next distance. *)
Advance ==
  /\ cursor' = NextEntry(cursor)
  /\ IF NextEntry(cursor) = <<>>
       THEN /\ current_depth' = IncMod3[current_depth]
            /\ real_current_depth' = real_current_depth + 1
       ELSE UNCHANGED <<current_depth, real_current_depth>>

(* The entries for what is one move away. *)
Neighbours(class, edge, corner) ==
  UNION {Equivalents(SymUDSliceSortedRepresentantMove[class][m],
                     EdgeOrientationMove[edge][m],
                     CornerOrientationMove[corner][m]) : m \in AllMoves}

(* An entry at the current distance: fill all that is one move away. *)
Visit ==
  /\ pc = "build" /\ cursor # <<>> /\ AtCurrentDepth
  /\ FillEmpty(Neighbours(cursor[1], cursor[2], cursor[3]), MapEntry[IncMod3[current_depth]])
  /\ Advance
  /\ UNCHANGED <<pc, file, rest, asking>>

(* An entry at any other distance, or none yet. *)
Skip ==
  /\ pc = "build" /\ cursor # <<>> /\ ~ AtCurrentDepth
  /\ Advance
  /\ UNCHANGED <<pc, table, visited_count, file, rest, asking>>

-----------------------------------------------------------------------------
(* The file. *)

RowCount == UDSliceSortedClassCount * CornerOrientationCoordinateLength
RowIndex(class, corner) == class * CornerOrientationCoordinateLength + corner + 1

(* Mistake: the last row is not written. *)
SaveRowButLast ==
  /\ pc = "save" /\ Len(file) < RowCount - 1
  /\ \E class \in Classes, corner \in Corners :
       /\ RowIndex(class, corner) = Len(file) + 1
       /\ file' = Append(file, table[class][corner])
  /\ UNCHANGED <<pc, table, building, rest, asking>>

(* save_to_file writes one row after the other. *)
SaveRow ==
  /\ pc = "save" /\ Len(file) < RowCount
  /\ \E class \in Classes, corner \in Corners :
       /\ RowIndex(class, corner) = Len(file) + 1
       /\ file' = Append(file, table[class][corner])
  /\ UNCHANGED <<pc, table, building, rest, asking>>

(* The process is killed before the file is whole: the stream has written  *)
(* out what it had in its buffer, to the end of some byte of a row.        *)
Die ==
  /\ pc = "save" /\ Len(file) < RowCount /\ Len(file) \in KilledAfter
  /\ \E class \in Classes, corner \in Corners, n \in CutAfter :
       /\ RowIndex(class, corner) = Len(file) + 1
       /\ rest' = [edge \in {e \in Edges : e < n} |-> table[class][corner][edge]]
  /\ pc' = "dead"
  /\ UNCHANGED <<table, building, file, asking>>

(* What the file has of an entry; that it may have none is not noticed.    *)
Read(class, corner, edge) ==
  CASE RowIndex(class, corner) <= Len(file) -> file[RowIndex(class, corner)][edge]
    [] RowIndex(class, corner) = Len(file) + 1 /\ edge \in DOMAIN rest -> rest[edge]
    [] OTHER -> allocate[class][corner][edge]

(* Another process allocates a table and reads what there is.              *)
load_from_file ==
  /\ pc = "dead" \/ (pc = "save" /\ Len(file) = RowCount)
  /\ table' = [class \in Classes |-> [corner \in Corners |-> [edge \in Edges |->
                 Read(class, corner, edge)]]]
  /\ pc' = "loaded"
  /\ UNCHANGED <<building, file, rest, asking>>

-----------------------------------------------------------------------------
(* Asking. *)

(* get_real_simpl for a new position: first find its entry. *)
Ask(p) ==
  /\ pc = "loaded"
  /\ cube' = [sym |-> SymUDSliceSortedCoordinate(p), edge |-> p.edge, corner |-> p.corner]
  /\ LET entry == reduce_to_representant(SymUDSliceSortedCoordinate(p), p.edge, p.corner)
     IN  at' = [entry |-> entry, mod3 |-> get_entry(table, entry) % 3]
  /\ depth' = 0
  /\ pc' = "get_real"
  /\ UNCHANGED <<table, building, file, rest, bound>>

EntryAfter(entry, m) ==
  reduce_to_representant(SymUDSliceSortedRepresentantMove[entry.class][m],
                         EdgeOrientationMove[entry.edge][m],
                         CornerOrientationMove[entry.corner][m])

(* Mistake: the distance modulo 3 is not decreased. *)
DescendSameDepth ==
  /\ pc = "get_real" /\ at.entry # SolvedEntry
  /\ \E m \in AllMoves :
       /\ get_entry(table, EntryAfter(at.entry, m)) = MapEntryDecMod3[at.mod3]
       /\ \A earlier \in 0 .. m - 1 :
            get_entry(table, EntryAfter(at.entry, earlier)) # MapEntryDecMod3[at.mod3]
       /\ at' = [at EXCEPT !.entry = EntryAfter(at.entry, m)]
  /\ depth' = depth + 1
  /\ UNCHANGED <<pc, table, building, file, rest, cube, bound>>

(* One round of get_real: the first move to an entry that is one less.  If *)
(* there is none, the round changes nothing and is repeated for ever.      *)
Descend ==
  /\ pc = "get_real" /\ at.entry # SolvedEntry
  /\ \E m \in AllMoves :
       /\ get_entry(table, EntryAfter(at.entry, m)) = MapEntryDecMod3[at.mod3]
       /\ \A earlier \in 0 .. m - 1 :
            get_entry(table, EntryAfter(at.entry, earlier)) # MapEntryDecMod3[at.mod3]
       /\ at' = [entry |-> EntryAfter(at.entry, m), mod3 |-> DecMod3[at.mod3]]
  /\ depth' = depth + 1
  /\ UNCHANGED <<pc, table, building, file, rest, cube, bound>>

(* At the entry of the solved position the way is found. *)
Return ==
  /\ pc = "get_real" /\ at.entry = SolvedEntry
  /\ bound' = depth
  /\ pc' = "known"
  /\ UNCHANGED <<table, building, file, rest, cube, at, depth>>

(* The position is turned, as the solver does in execute_move.  The column *)
(* of RelativePruning for an empty entry was never written.                *)
Turn(m) ==
  /\ pc = "known" /\ bound # None
  /\ LET sym == SymUDSliceSortedMove(cube.sym, m)
         edge == EdgeOrientationMove[cube.edge][m]
         corner == CornerOrientationMove[cube.corner][m]
         entry == get_simpl(sym, edge, corner)
     IN  /\ cube' = [sym |-> sym, edge |-> edge, corner |-> corner]
         /\ bound' = IF entry = Empty THEN None ELSE RelativePruning[bound][entry]
  /\ UNCHANGED <<pc, table, building, file, rest, at, depth>>

(* All the rows were saved before the table was loaded. *)
FileIsWhole == Len(file) = RowCount

Build == FirstEntry \/ StartPass \/ Visit \/ Skip \/ EndBuild

Next ==
  \/ Build \/ SaveRow \/ Die \/ load_from_file
  \/ (\E p \in Positions : Ask(p))
  \/ Descend \/ Return
  \/ (\E m \in AllMoves : Turn(m))

Spec == Init /\ [][Next]_vars

(* A process goes on with what it has begun; only whoever asks may stop.   *)
Going == pc \in {"start", "build", "save", "dead", "get_real"}
FairSpec == Spec /\ WF_vars(Going /\ Next)

-----------------------------------------------------------------------------
(* Properties.                                                             *)

(* Every variable has its type. *)
TypeOK ==
  /\ pc \in {"start", "build", "save", "dead", "loaded", "get_real", "known"}
  /\ table \in [Classes -> [Corners -> [Edges -> 0 .. 3]]]
  /\ visited_count \in 0 .. All
  /\ real_current_depth \in Nat /\ current_depth = real_current_depth % 3
  /\ cursor = <<>> \/ cursor \in Classes \X Edges \X Corners
  /\ file \in Seq([Edges -> 0 .. 3]) /\ Len(file) <= RowCount
  /\ DOMAIN rest \subseteq Edges /\ \A edge \in DOMAIN rest : rest[edge] \in 0 .. 3
  /\ cube.sym \in SymUDSliceSortedCoordinates /\ cube.edge \in Edges /\ cube.corner \in Corners
  /\ at.entry \in Entries /\ at.mod3 \in 0 .. 2
  /\ depth \in Nat
  /\ bound \in {None} \cup 0 .. RelativePruningLength - 1

(* The distance that an entry is for, and that of the position asked for.  *)
TrueDistance(e) == Distances[Position(Representant(e.class), e.edge, e.corner)]

DistanceOfCube == Distances[Position(UDSliceSortedSym2Raw[cube.sym], cube.edge, cube.corner)]

(* What the table has of an entry is right as soon as it is there, and     *)
(* what the pass has still to find is no nearer than the pass: the test    *)
(* for Empty (pruningtable.cpp:244) keeps the first, that is the shortest, *)
(* distance of an entry, and the equivalents (192-198, 234-251) leave no   *)
(* entry of a nearer position empty.  What is loaded of a file that is not *)
(* whole is right too.  (Asking does not change the table.)                *)
TableIsExact ==
  pc \notin {"get_real", "known"} => \A e \in Entries :
    LET found == get_entry(table, e)
    IN  /\ found # Empty => found = EntryOf(TrueDistance(e))
        /\ pc = "build" /\ found = Empty => TrueDistance(e) > real_current_depth

(* build() counts every entry once, whatever comes to it: it would stop    *)
(* too early or never if it did not (pruningtable.cpp:202).                *)
CountIsExact ==
  pc \in {"build", "save"} =>
    visited_count = Cardinality({e \in Entries : get_entry(table, e) # Empty})

(* Whoever asks for a distance gets the true one, from get_real at first   *)
(* and from two bits per move later, whatever sym coordinate the moves     *)
(* have led to (pruningtable.cpp:79-127, solve.cpp:247-260), if the file   *)
(* was whole.                                                              *)
BoundIsReal ==
  pc = "known" /\ FileIsWhole => bound = DistanceOfCube

(* Of a file that was not whole the distance is never too small, and 3 too *)
(* large at most, or 2 at first: an entry that is missing is taken for a   *)
(* distance that 3 divides, but get_real goes one nearer in every round    *)
(* except the first, and the two bits of later entries correct all but a   *)
(* multiple of 3 (pruningtable.cpp:89-127, solve.cpp:247-260).             *)
BoundIsNear ==
  pc = "known" /\ bound # None => bound - DistanceOfCube \in 0 .. 3

(* What get_real returns is the real distance (pruningtable.cpp:88 "result *)
(* is the real lower-bound-depth (not mod 3)").  It is not if the file was *)
(* not whole: an entry that is missing is taken for a distance that 3      *)
(* divides.                                                                *)
RealIsReal ==
  pc = "get_real" /\ at.entry = SolvedEntry => depth = DistanceOfCube

(* The table is built, saved and loaded in the end (pruningtable.cpp:202). *)
TableIsReady == <>(pc = "loaded")

(* get_real always finds a way to the solved position (pruningtable.cpp    *)
(* 96-116 loops until it does), if the file was whole.                     *)
RealReturns == (pc = "get_real" /\ FileIsWhole) ~> pc = "known"
=============================================================================
