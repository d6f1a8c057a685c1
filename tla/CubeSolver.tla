----------------------------- MODULE CubeSolver -----------------------------
(***************************************************************************)
(* The search of solve.cpp: iterative deepening over the moves, one step   *)
(* per round of the inner loop of solution_innerloop.  A branch is cut     *)
(* when a lower bound says that it cannot end in time, when its last two   *)
(* moves are better made in the other order, or when a symmetry of the     *)
(* cube maps it to a branch that is searched anyway.                       *)
(*                                                                         *)
(* The coordinates of a CubeState are functions of a permutation; a state  *)
(* of the model has the permutation instead.  The table, which is indexed  *)
(* by the UD coordinates, becomes a function of the permutation too; the   *)
(* FB and LR coordinates of a cube are the UD coordinates of its           *)
(* conjugates.                                                             *)
(***************************************************************************)
EXTENDS CubeGroup, PruningValues

CONSTANTS
  Scrambles,    \* the cubes one solver object may be given first, second, ...
  Distance(_),  \* the distance the pruning table has for a cube
  ScrambleLength, \* bound: all of them are made by so many moves or fewer
  StatesLength  \* the length of the array `states'

ASSUME StackIsLongEnough ==
  ScrambleLength \in Nat \ {0} /\ StatesLength \in Nat /\ ScrambleLength < StatesLength

(* The cubes that n moves or fewer make; as moves can be undone, they are  *)
(* those that n moves or fewer solve.                                      *)
OneMoveMore(cubes) == cubes \cup {mult(p, CanonicalPermutation[m]) : p \in cubes, m \in Moves}

Ball[n \in Nat] == IF n = 0 THEN {identity} ELSE OneMoveMore(Ball[n - 1])

Within == [n \in 0 .. ScrambleLength |-> Ball[n]]

ASSUME ScramblesAreShort == Scrambles \in Seq(SUBSET Within[ScrambleLength])

(* What the UD coordinates, with which the table is asked, say of a cube:  *)
(* where the edges of the UD slice are, and the orientations of all        *)
(* cubies; and what a move makes of them.                                  *)
UDCoordinates(p) ==
  <<[i \in EdgeCubies |-> IF p.edge[i] >= LF THEN p.edge[i] ELSE UF], p.flip, p.twist>>

UDMove(c, m) ==
  LET move == CanonicalPermutation[m]
  IN  <<[i \in EdgeCubies |-> c[1][move.edge[i]]],
        [i \in EdgeCubies |-> (c[2][move.edge[i]] + move.flip[i]) % 2],
        [i \in CornerCubies |-> orientation_sum[c[3][move.corner[i]]][move.twist[i]]]>>

(* Turns of U and D do nothing to them. *)
ASSUME UDTurnsAreFree ==
  \A m \in Moves : m % 3 = 0 =>
    UDCoordinates(CanonicalPermutation[m]) = UDCoordinates(identity)

VARIABLES
  pc,             \* "idle" | "search" | "found"
  cube,           \* the argument of solve()
  states,         \* the stack of CubeStates, with what earlier searches left there
  current,        \* the index of the state on top
  boundary_depth, \* all moves but the last of the solutions looked for
  remaining_depth,
  should_increase,
  solution,       \* the moves of the last solution
  solves          \* how many cubes were given to solve()

vars == <<pc, cube, states, current, boundary_depth, remaining_depth,
          should_increase, solution, solves>>

NotSet == -1

(* CubeState as the constructor leaves it; its coordinates are not set. *)
Blank == [exponent |-> 0, axis |-> 0, p |-> <<>>, ud |-> NotSet, fb |-> NotSet,
          lr |-> NotSet, equal_by_sequence |-> {}]

U == 0   \* the first axis
B == 5   \* and the last
AxisExponent2Move(axis, exponent) == axis + 6 * (exponent - 1)
MoveOf(s) == AxisExponent2Move(s.axis, s.exponent)

(* The order in which the search tries the moves: by axis, then exponent. *)
DiscoverOrder == [m \in Moves |-> 3 * (m % 6) + m \div 6]

(* The symmetries that fix a move, and those that map it to an earlier one. *)
EqualBy ==
  [m \in Moves |-> {s \in FullSymmetries : FullCanonicalPermutationConjugate[m][s] = m}]
GreaterBy ==
  [m \in Moves |-> {s \in FullSymmetries :
     DiscoverOrder[FullCanonicalPermutationConjugate[m][s]] < DiscoverOrder[m]}]

Init ==
  /\ pc = "idle"
  /\ cube = identity
  /\ states = [i \in 0 .. StatesLength - 1 |-> Blank]
  /\ current = 0
  /\ boundary_depth = 0
  /\ remaining_depth = 0
  /\ should_increase = "Exponent"
  /\ solution = <<>>
  /\ solves = 0

-----------------------------------------------------------------------------
(* The three lower bounds, first for a new cube, ... *)
FB(p) == FullSymmetryConjugate(p, fb_transform)
LR(p) == FullSymmetryConjugate(p, lr_transform)

FixedBy(p) == {s \in FullSymmetries : FullSymmetryConjugate(p, s) = p}

reinitialize(p) ==
  /\ boundary_depth' = 0
  /\ remaining_depth' = 0
  /\ current' = 0
  /\ states' = [states EXCEPT ![0] =
       [exponent |-> 0, axis |-> U, p |-> p,
        ud |-> Distance(p), fb |-> Distance(FB(p)), lr |-> Distance(LR(p)),
        equal_by_sequence |-> FixedBy(p)]]

(* Mistake: the bounds of two axes are exchanged. *)
ExecuteMoveOnOtherBounds(recipient, from, move) ==
  LET q == mult(from.p, CanonicalPermutation[move])
  IN  [recipient EXCEPT
         !.p = q,
         !.ud = RelativePruning[from.ud][EntryOf(Distance(q))],
         !.fb = RelativePruning[from.lr][EntryOf(Distance(FB(q)))],
         !.lr = RelativePruning[from.fb][EntryOf(Distance(LR(q)))]]

(* ... then for the one after a move, of which the table gives two bits. *)
execute_move(recipient, from, move) ==
  LET q == mult(from.p, CanonicalPermutation[move])
  IN  [recipient EXCEPT
         !.p = q,
         !.ud = RelativePruning[from.ud][EntryOf(Distance(q))],
         !.fb = RelativePruning[from.fb][EntryOf(Distance(FB(q)))],
         !.lr = RelativePruning[from.lr][EntryOf(Distance(LR(q)))]]

(* All coordinates are 0: every cubie is in its place, and not turned. *)
is_solved(p) ==
  /\ \A i \in CornerCubies : p.corner[i] = i /\ p.twist[i] = 0
  /\ \A i \in EdgeCubies : p.edge[i] = i /\ p.flip[i] = 0

-----------------------------------------------------------------------------
(* What to do about the state after a move: cut the whole axis, cut this   *)
(* exponent, or go on.                                                     *)
AllEqual(s) == s.ud = s.lr /\ s.ud = s.fb
SomeBound(s, n) == s.ud > n \/ s.fb > n \/ s.lr > n

(* Mistake: a whole axis is cut as early as a single exponent. *)
PruneAxisTooEarly(s, depth) ==
  IF depth > 0 /\ AllEqual(s)
    THEN IF s.ud > depth - 1 THEN "Axis" ELSE "Nothing"
    ELSE IF SomeBound(s, depth) THEN "Axis" ELSE "Nothing"

(* If the three bounds are equal, the distance is larger still: the last   *)
(* move of a solution does not change the bound of its own axis.           *)
Prune(s, depth) ==
  IF depth > 0 /\ AllEqual(s)
    THEN IF s.ud > depth THEN "Axis" ELSE IF s.ud > depth - 1 THEN "Exponent" ELSE "Nothing"
    ELSE IF SomeBound(s, depth + 1) THEN "Axis"
         ELSE IF SomeBound(s, depth) THEN "Exponent" ELSE "Nothing"

-----------------------------------------------------------------------------
Top == states[current]

(* Avoid two turns of the same face, and those of opposite faces in both   *)
(* orders: `axis' comes right after the move of the state `previous'.      *)
has_discardable_neighbour_axis(axis, previous) ==
  previous.axis = axis \/ axis + 3 = previous.axis

Discardable(axis) ==
  /\ boundary_depth # remaining_depth
  /\ has_discardable_neighbour_axis(axis, states[current - 1])

-----------------------------------------------------------------------------
(* Mistake: the symmetries of the cube are kept when it is turned. *)
EnterWithAll(next, from, move) ==
  [next EXCEPT !.equal_by_sequence = from.equal_by_sequence, !.axis = U,
               !.exponent = IF has_discardable_neighbour_axis(U, from) THEN 1 ELSE 0]

(* A state that becomes the top: of the symmetries, those that fix the     *)
(* move are left, and its own moves begin at U, or after U.                *)
Enter(next, from, move) ==
  [next EXCEPT !.equal_by_sequence = from.equal_by_sequence \cap EqualBy[move], !.axis = U,
               !.exponent = IF has_discardable_neighbour_axis(U, from) THEN 1 ELSE 0]

(* The rest of a round once the next move is chosen: `from' is the top     *)
(* with that move, and `depth' moves may follow it.                        *)
Try(from, depth) ==
  LET move == MoveOf(from)
      Stay == UNCHANGED <<pc, current>> /\ remaining_depth' = depth
  IN
  \/ (* a symmetric move was tried already *)
     /\ from.equal_by_sequence \cap GreaterBy[move] # {}
     /\ states' = [states EXCEPT ![current] = from]
     /\ should_increase' = "Exponent"
     /\ Stay
  \/ /\ from.equal_by_sequence \cap GreaterBy[move] = {}
     /\ \E next \in {execute_move(states[current + 1], from, move)} :
          LET verdict == Prune(next, depth)
              With(onTop) == states' = [states EXCEPT ![current] = from, ![current + 1] = onTop]
          IN
          \/ (* no solution this way *)
             /\ verdict # "Nothing"
             /\ should_increase' = verdict
             /\ With(next) /\ Stay
          \/ (* this was the last move *)
             /\ verdict = "Nothing" /\ depth = 0
             /\ With(next)
             /\ should_increase' = IF is_solved(next.p) THEN "Nothing" ELSE "Exponent"
             /\ pc' = IF is_solved(next.p) THEN "found" ELSE pc
             /\ remaining_depth' = depth
             /\ UNCHANGED current
          \/ (* one move deeper *)
             /\ verdict = "Nothing" /\ depth > 0
             /\ With(Enter(next, from, move))
             /\ should_increase' = IF has_discardable_neighbour_axis(U, from) THEN "Axis"
                                   ELSE "Exponent"
             /\ current' = current + 1
             /\ remaining_depth' = depth - 1
             /\ UNCHANGED pc

Searching(what) == pc = "search" /\ should_increase = what

(* One round of the inner loop is one of the next six actions. *)
NextExponent ==
  /\ Searching("Exponent") /\ Top.exponent < 3
  /\ Try([Top EXCEPT !.exponent = @ + 1], remaining_depth)
  /\ UNCHANGED <<cube, boundary_depth, solution, solves>>

ExponentsExhausted ==
  /\ Searching("Exponent") /\ Top.exponent = 3
  /\ should_increase' = "Axis"
  /\ UNCHANGED <<pc, cube, states, current, boundary_depth, remaining_depth, solution, solves>>

NextAxis ==
  /\ Searching("Axis") /\ Top.axis < B
  /\ ~ Discardable(Top.axis + 1)
  /\ Try([Top EXCEPT !.axis = @ + 1, !.exponent = 1], remaining_depth)
  /\ UNCHANGED <<cube, boundary_depth, solution, solves>>

(* Mistake: the axis that is not wanted is not left. *)
SkipAxisStays ==
  /\ Searching("Axis") /\ Top.axis < B
  /\ Discardable(Top.axis + 1)
  /\ states' = [states EXCEPT ![current].exponent = 1]
  /\ UNCHANGED <<pc, cube, current, boundary_depth, remaining_depth, should_increase, solution,
                 solves>>

SkipAxis ==
  /\ Searching("Axis") /\ Top.axis < B
  /\ Discardable(Top.axis + 1)
  /\ states' = [states EXCEPT ![current].axis = @ + 1, ![current].exponent = 1]
  /\ UNCHANGED <<pc, cube, current, boundary_depth, remaining_depth, should_increase, solution,
                 solves>>

(* Mistake: only one of the two depths is increased. *)
DeepenOneDepth ==
  /\ Searching("Axis") /\ Top.axis = B /\ boundary_depth = remaining_depth
  /\ Try([Top EXCEPT !.axis = U, !.exponent = 1], remaining_depth + 1)
  /\ UNCHANGED <<cube, boundary_depth, solution, solves>>

(* No solution has this length: look for those with one move more. *)
Deepen ==
  /\ Searching("Axis") /\ Top.axis = B /\ boundary_depth = remaining_depth
  /\ boundary_depth' = boundary_depth + 1
  /\ Try([Top EXCEPT !.axis = U, !.exponent = 1], remaining_depth + 1)
  /\ UNCHANGED <<cube, solution, solves>>

(* Mistake: the depth is not given back. *)
BacktrackSameDepth ==
  /\ Searching("Axis") /\ Top.axis = B /\ boundary_depth # remaining_depth
  /\ current' = current - 1
  /\ should_increase' = "Exponent"
  /\ UNCHANGED <<pc, cube, states, boundary_depth, remaining_depth, solution, solves>>

Backtrack ==
  /\ Searching("Axis") /\ Top.axis = B /\ boundary_depth # remaining_depth
  /\ current' = current - 1
  /\ remaining_depth' = remaining_depth + 1
  /\ should_increase' = "Exponent"
  /\ UNCHANGED <<pc, cube, states, boundary_depth, solution, solves>>

(* solve(c): a solved cube needs no search. *)
Solve(c) ==
  /\ pc = "idle"
  /\ solves' = solves + 1
  /\ cube' = c
  /\ \/ /\ c = identity
        /\ solution' = <<>>
        /\ UNCHANGED <<pc, states, current, boundary_depth, remaining_depth, should_increase>>
     \/ /\ c # identity
        /\ reinitialize(c)
        /\ should_increase' = "Exponent"
        /\ pc' = "search"
        /\ UNCHANGED solution

(* Mistake: the loop over the states stops before the top. *)
ReportWithoutTop ==
  /\ pc = "found"
  /\ solution' = [i \in 1 .. current |-> MoveOf(states[i - 1])]
  /\ pc' = "idle"
  /\ UNCHANGED <<cube, states, current, boundary_depth, remaining_depth, should_increase, solves>>

(* The end of solve(): the moves of all states up to the top. *)
Report ==
  /\ pc = "found"
  /\ solution' = [i \in 1 .. current + 1 |-> MoveOf(states[i - 1])]
  /\ pc' = "idle"
  /\ UNCHANGED <<cube, states, current, boundary_depth, remaining_depth, should_increase, solves>>

Round ==
  NextExponent \/ ExponentsExhausted \/ NextAxis \/ SkipAxis \/ Deepen \/ Backtrack

Next ==
  \/ solves < Len(Scrambles) /\ \E c \in Scrambles[solves + 1] : Solve(c)
  \/ Round
  \/ Report

Spec == Init /\ [][Next]_vars

-----------------------------------------------------------------------------
(* Properties.                                                             *)

Values == {NotSet} \cup 0 .. RelativePruningLength - 1
CubeStates ==
  [exponent : 0 .. 3, axis : Axes, p : AllPermutations \cup {<<>>}, ud : Values, fb : Values,
   lr : Values, equal_by_sequence : SUBSET FullSymmetries]

(* Every variable has its type; in particular a lower bound is always a    *)
(* row of RelativePruning (solve.cpp:247-260 index it unchecked).          *)
TypeOK ==
  /\ pc \in {"idle", "search", "found"}
  /\ current \in 0 .. StatesLength - 2
  /\ boundary_depth \in Nat /\ remaining_depth \in 0 .. boundary_depth
  /\ should_increase \in {"Axis", "Exponent", "Nothing"}
  /\ states \in [0 .. StatesLength - 1 -> CubeStates]
  /\ solution \in Seq(Moves)
  /\ solves \in 0 .. Len(Scrambles)

(* The cube p after the first, second, ... of the moves. *)
Applied(p, moves) ==
  LET after[n \in 0 .. Len(moves)] ==
        IF n = 0 THEN p ELSE mult(after[n - 1], CanonicalPermutation[moves[n]])
  IN  after[Len(moves)]

(* What the solver returns solves the cube it was given (solve.cpp:370-386 *)
(* collect the moves from the stack that the search left), and no shorter  *)
(* sequence of moves does, in spite of all that is cut.                    *)
SolutionIsOptimal ==
  pc = "idle" /\ solves > 0 =>
    /\ Applied(cube, solution) = identity
    /\ solution # <<>> =>
         Len(solution) <= ScrambleLength /\ cube \notin Within[Len(solution) - 1]

(* The depth is increased only when no solution is left at the one before: *)
(* cutting by bounds (solve.cpp:316-338), by neighbours (206-214) and by   *)
(* symmetry (309-312) together never lose the last optimal solution.       *)
DepthIsJustified ==
  pc # "idle" => boundary_depth < ScrambleLength /\ cube \notin Within[boundary_depth]

OnStack == IF pc = "idle" THEN {} ELSE 0 .. current

(* The bounds, which a search updates from two bits of the table per move, *)
(* are those that the table has for the cubes themselves, at every level   *)
(* and also after the search came back to it (solve.cpp:247-260).          *)
BoundsAreExact ==
  \A i \in OnStack :
    LET s == states[i]
    IN  s.ud = Distance(s.p) /\ s.fb = Distance(FB(s.p)) /\ s.lr = Distance(LR(s.p))

(* The stack is a path: each cube comes from the one below by its move, no *)
(* two neighbours of the path should have been discarded, and the depths   *)
(* agree with its height (solve.cpp:348-358, 290-294).                     *)
StackIsAPath ==
  pc # "idle" =>
    /\ states[0].p = cube
    /\ current = boundary_depth - remaining_depth
    /\ \A i \in 1 .. current :
         states[i].p = mult(states[i - 1].p, CanonicalPermutation[MoveOf(states[i - 1])])
    /\ \A i \in 1 .. current - 1 : ~ has_discardable_neighbour_axis(states[i].axis, states[i - 1])

(* The symmetries that excuse a branch leave the cube on top as it is, so  *)
(* that the branch they lead to is one of its own (solve.cpp:349, 309); no *)
(* symmetry that also fixes the path is forgotten.                         *)
SymmetriesAreOfTheTop ==
  pc # "idle" =>
    /\ \A s \in Top.equal_by_sequence : FullSymmetryConjugate(Top.p, s) = Top.p
    /\ \A s \in states[0].equal_by_sequence \ Top.equal_by_sequence :
         \E i \in 0 .. current - 1 : s \notin EqualBy[MoveOf(states[i])]

(* Where the search is: the depth it looks at, the moves of its path in    *)
(* the order in which they are tried, and whether the top is used up.      *)
Position ==
  [depth |-> boundary_depth,
   path |-> [i \in 0 .. current |-> 4 * states[i].axis + states[i].exponent],
   exhausted |-> should_increase = "Axis"]

(* A path comes after those that branch off it, as those are tried first.  *)
After(new, old) ==
  \/ new.depth > old.depth
  \/ /\ new.depth = old.depth
     /\ \/ \E i \in DOMAIN old.path \cap DOMAIN new.path :
             /\ \A j \in 0 .. i - 1 : new.path[j] = old.path[j]
             /\ new.path[i] > old.path[i]
        \/ /\ DOMAIN new.path \subseteq DOMAIN old.path
           /\ \A j \in DOMAIN new.path : new.path[j] = old.path[j]
           /\ new.path = old.path => new.exhausted /\ ~ old.exhausted

(* Every round brings the search to a place where it was not yet, so that  *)
(* the loop of solve.cpp:269, which has no other way out than a solution,  *)
(* can only go on for ever if the depth never ends; that it does is        *)
(* DepthIsJustified.                                                       *)
SearchAdvances == [][pc = "search" => After(Position', Position)]_vars
=============================================================================
