------------------------------ MODULE SolveLoop ------------------------------
(***************************************************************************)
(* The interactive program (solve_loop of main.cpp): a line names a cube   *)
(* by moves or by its hash, and asks for its hash or for its solution.     *)
(* The person at the terminal copies the hash that the program printed     *)
(* into another line.                                                      *)
(***************************************************************************)
EXTENDS CubeTexts

CONSTANTS
  Scrambles,  \* the cubes that are asked for: sequences of moves
  MaxLines    \* bound: lines that are typed

VARIABLES
  wish,    \* what the person wants: a request, and the cube it is about
  deed,    \* what the program did
  screen,  \* the last hash it printed, and the cube the person knows it to be of
  lines    \* how many lines were typed

vars == <<wish, deed, screen, lines>>

Wish(request, cube) == [request |-> request, cube |-> cube]

hash_solve == <<"h", "a", "s", "h", "_", "s", "o", "l", "v", "e">>
move_solve == <<"m", "o", "v", "e", "_", "s", "o", "l", "v", "e">>
hash == <<"h", "a", "s", "h">>

(* Spaces are left out, and the text ends at a semicolon that no space     *)
(* precedes.  Spaces at the end of the line leave the terminator behind.   *)
parse_hash(text, start) ==
  LET Char(i) == IF i <= Len(text) THEN text[i] ELSE "NUL"
      skip_space[i \in start .. Len(text) + 1] ==
        IF Char(i) = " " THEN skip_space[i + 1] ELSE i
      Read[i \in start .. Len(text) + 2] ==
        IF i > Len(text) \/ Char(i) = ";" THEN <<>>
        ELSE IF Char(skip_space[i]) = ";" THEN Read[skip_space[i] + 1]
        ELSE <<Char(skip_space[i])>> \o Read[skip_space[i] + 1]
  IN  Read[start]

-----------------------------------------------------------------------------
Init ==
  /\ wish = Wish("none", identity)
  /\ deed = wish
  /\ screen = [hash |-> Hash(identity), cube |-> identity]
  /\ lines = 0

(* The cube that the rest of a line leads to. *)
CubeOfMoves(line, command) == apply(identity, parse_moves(line, Len(command) + 1))

SolveHash(line) ==
  /\ deed' = Wish("solve", Hash2Permutation(parse_hash(line, Len(hash_solve) + 1)))
  /\ UNCHANGED screen

SolveMoves(line) ==
  /\ deed' = Wish("solve", CubeOfMoves(line, move_solve))
  /\ UNCHANGED screen

PrintHash(line) ==
  /\ deed' = Wish("hash", CubeOfMoves(line, hash))
  /\ screen' = [hash |-> Hash(CubeOfMoves(line, hash)), cube |-> wish'.cube]

(* Mistake: the shorter of the commands that begin alike is tried first. *)
ReadShortestFirst(line) ==
  CASE IsPrefix(hash, line) -> PrintHash(line)
    [] ~IsPrefix(hash, line) /\ IsPrefix(move_solve, line) -> SolveMoves(line)

ReadLine(line) ==
  \/ IsPrefix(hash_solve, line) /\ SolveHash(line)
  \/ IsPrefix(move_solve, line) /\ SolveMoves(line)
  \/ IsPrefix(hash, line) /\ ~IsPrefix(hash_solve, line) /\ PrintHash(line)

(* The ways in which moves and hashes are typed. *)
Layouts(text) == {text, <<" ">> \o text, <<" ", " ">> \o text \o <<" ", ";", "B", " ">>}

Type(line, request, cube) ==
  /\ lines < MaxLines
  /\ wish' = Wish(request, cube)
  /\ ReadLine(line)
  /\ lines' = lines + 1

AskForHash == \E s \in Scrambles : \E text \in Layouts(move_names(s)) :
                Type(hash \o text, "hash", apply(identity, s))

AskForMoves == \E s \in Scrambles : \E text \in Layouts(move_names(s)) :
                 Type(move_solve \o text, "solve", apply(identity, s))

CopyHash == \E text \in Layouts(screen.hash) :
              Type(hash_solve \o text, "solve", screen.cube)

Next == AskForHash \/ AskForMoves \/ CopyHash

Spec == Init /\ [][Next]_vars

-----------------------------------------------------------------------------
(* The program does what the line asks for, with the cube it means: the    *)
(* commands are told apart though one begins with another, the parsers     *)
(* drop what is no part of a move or of a hash, and a hash that the        *)
(* program printed is read back as the cube of its moves.                  *)
LineIsObeyed == deed = wish
=============================================================================
