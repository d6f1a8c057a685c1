------------------------------- MODULE MCTexts -------------------------------
(* The two conversations in texts, one of which takes place.               *)
EXTENDS Payload

CONSTANTS MaxLines

VARIABLES wish, deed, screen, lines

Loop == INSTANCE SolveLoop

(* No move at all; one move; the cube of client.cpp:138-144; and one that  *)
(* takes 20 moves, whose solution is the longest text.                     *)
MCScrambles ==
  {<<>>, <<12>>, <<0, 10>>, <<0, 1, 15, 7, 2, 16, 0, 9, 13, 8, 5>>,
   <<0, 7, 2, 5, 1, 11, 1, 6, 4, 5, 13, 12, 15, 7, 2, 13, 4, 11, 6, 8>>}

(* See SolveLoop: the program does what a line asks for, with the cube it  *)
(* means (main.cpp:298-433).                                               *)
LineIsObeyed == Loop!LineIsObeyed

MCInit == Init /\ Loop!Init

Converse == lines = 0 /\ Next /\ UNCHANGED <<wish, deed, screen, lines>>

TypeLines == pc = "closed" /\ connections = 0 /\ Loop!Next /\ UNCHANGED vars

MCNext == Converse \/ TypeLines

MCSpec == MCInit /\ [][MCNext]_<<vars, wish, deed, screen, lines>>
=============================================================================
