------------------------------- MODULE Payload -------------------------------
(***************************************************************************)
(* What is in the buffers while a cube goes from a client to a worker and  *)
(* its solution goes back (client.cpp:146-184, server.cpp:103-135).        *)
(*                                                                         *)
(* A payload is a whole buffer, and both ends keep theirs: a text is       *)
(* written over what the last one left, ends with a NUL, and everything    *)
(* behind it travels too.  ClientServer takes a payload for one value;     *)
(* this module says why it may.  There is one worker, and one connection   *)
(* at a time.                                                              *)
(***************************************************************************)
EXTENDS CubeTexts

CONSTANTS
  MAX_PAYLOAD_SIZE,
  Scrambles,       \* what clients ask for: sequences of moves
  Cuts,            \* how many bytes a client may have sent when it dies
  MaxConnections   \* bound: connections after the first

ASSUME PayloadSizes ==
  /\ MAX_PAYLOAD_SIZE \in Nat /\ MAX_PAYLOAD_SIZE > 54
  /\ Cuts \subseteq 0 .. MAX_PAYLOAD_SIZE - 1
  /\ MaxConnections \in Nat
ASSUME ScramblesAreMoves == \A s \in Scrambles : s \in Seq(Moves)

VARIABLES
  pc,           \* where the connection is
  sent,         \* the client's buffer
  received,     \* the worker's buffer
  scramble,     \* what the client asks for
  cube,         \* what the worker has its solver solve
  solution,     \* what the solver found
  moves,        \* what the client makes of the answer
  arrived,      \* how many bytes of the request arrived
  connections   \* connections so far

vars == <<pc, sent, received, scramble, cube, solution, moves, arrived, connections>>

NUL == "NUL"
JUNK == "JUNK"  \* some other character that malloc() found in memory

(* What malloc() returns. *)
Fresh == {[i \in 0 .. MAX_PAYLOAD_SIZE - 1 |-> byte] : byte \in {NUL, JUNK}}

cube_of(s) == apply(identity, s)

(* The same face the other way. *)
Opposite(m) == (m % 6) + 6 * (2 - m \div 6)

ASSUME MovesAreTakenBack ==
  \A m \in Moves :
    /\ Opposite(m) \in Moves
    /\ mult(CanonicalPermutation[m], CanonicalPermutation[Opposite(m)]) = identity

(* A solver may return any moves that solve the cube (it returns a         *)
(* shortest sequence: CubeSolver).                                         *)
Solves(s) == [i \in DOMAIN s |-> Opposite(s[Len(s) + 1 - i])]

(* A buffer has room for every solution (20 moves, three characters each). *)
ASSUME SolutionsFit == \A s \in Scrambles : Len(move_names(Solves(s))) < MAX_PAYLOAD_SIZE

-----------------------------------------------------------------------------
(* Texts in a buffer. *)

(* Mistake: the text is copied without its end. *)
WriteWithoutTerminator(buffer, text) ==
  [i \in DOMAIN buffer |-> IF i < Len(text) THEN text[i + 1] ELSE buffer[i]]

Write(buffer, text) ==
  [i \in DOMAIN buffer |->
     IF i < Len(text) THEN text[i + 1] ELSE IF i = Len(text) THEN NUL ELSE buffer[i]]

Terminated(buffer) == \E i \in DOMAIN buffer : buffer[i] = NUL

(* What stands before the first NUL. *)
Text(buffer) ==
  LET end == CHOOSE n \in 0 .. MAX_PAYLOAD_SIZE :
               /\ n = MAX_PAYLOAD_SIZE \/ buffer[n] = NUL
               /\ \A i \in 0 .. n - 1 : buffer[i] # NUL
  IN  [i \in 1 .. end |-> buffer[i - 1]]

-----------------------------------------------------------------------------
Init ==
  /\ pc = "closed"
  /\ scramble \in Scrambles
  /\ sent \in Fresh
  /\ received \in Fresh
  /\ cube = identity
  /\ solution = <<>>
  /\ moves = <<>>
  /\ arrived = 0
  /\ connections = 0

(* The client writes the hash over what it has in its buffer. *)
Encode(buffer, s) ==
  /\ scramble' = s
  /\ sent' = Write(buffer, Hash(cube_of(s)))
  /\ pc' = "connected"
  /\ UNCHANGED <<received, cube, solution, moves, arrived, connections>>

(* The thread goes round its loop: always with the same reference. *)
Again == pc = "closed" /\ Encode(sent, scramble)

(* Another thread, or another program, is next. *)
Another ==
  /\ pc = "closed"
  /\ \E buffer \in Fresh, s \in Scrambles : Encode(buffer, s)

(* The first n bytes come in; recv() returns when the buffer is full or    *)
(* when there is nobody to send the rest.                                  *)
Arrive(n) ==
  /\ received' = [i \in DOMAIN received |-> IF i < n THEN sent[i] ELSE received[i]]
  /\ arrived' = n
  /\ pc' = "received"
  /\ UNCHANGED <<sent, scramble, cube, solution, moves, connections>>

Whole == arrived = MAX_PAYLOAD_SIZE

Send == pc = "connected" /\ Arrive(MAX_PAYLOAD_SIZE)

Die == pc = "connected" /\ \E n \in Cuts : Arrive(n)

(* What is read from a text that is no hash: some permutation, with        *)
(* corners that are turned by -1, say.                                     *)
NobodysCube == [identity EXCEPT !.twist = [i \in CornerCubies |-> -1]]

(* Whatever stands in the buffer is decoded and given to the solver.  The  *)
(* scan reads buffer[MAX_PAYLOAD_SIZE] if it has seen no NUL before, and   *)
(* ends the server or finds a NUL there; a text that is no hash is         *)
(* undefined behaviour, which may end the server as well.                  *)
Decode ==
  /\ pc = "received"
  /\ \/ /\ pc' = "solving"
        /\ cube' = IF IsHash(Text(received)) THEN Hash2Permutation(Text(received))
                                             ELSE NobodysCube
     \/ /\ ~ (Terminated(received) /\ IsHash(Text(received)))
        /\ pc' = "ended"
        /\ UNCHANGED cube
  /\ UNCHANGED <<sent, received, scramble, solution, moves, arrived, connections>>

(* The solver returns, and its moves are written over whatever was there.  *)
(* For a cube of nobody's it may return anything, or nothing ever.         *)
Solve ==
  /\ pc = "solving"
  /\ \E s \in Scrambles :
       /\ cube = cube_of(s) \/ \A t \in Scrambles : cube # cube_of(t)
       /\ solution' = Solves(s)
       /\ received' = Write(received, move_names(Solves(s)))
  /\ pc' = "solved"
  /\ UNCHANGED <<sent, scramble, cube, moves, arrived, connections>>

(* The answer reaches the client, which reads it up to the NUL. *)
Receive ==
  /\ pc = "solved"
  /\ Whole
  /\ sent' = received
  /\ moves' = parse_moves(Text(received), 1)
  /\ pc' = "answered"
  /\ UNCHANGED <<received, scramble, cube, solution, arrived, connections>>

(* The check succeeds; the client counts the request. *)
Close ==
  /\ pc = "answered"
  /\ connections < MaxConnections
  /\ apply(cube_of(scramble), moves) = identity
  /\ connections' = connections + 1
  /\ pc' = "closed"
  /\ UNCHANGED <<sent, received, scramble, cube, solution, moves, arrived>>

(* There is nobody to take the answer, and the next client is another one. *)
Lose ==
  /\ pc = "solved"
  /\ connections < MaxConnections
  /\ ~Whole
  /\ connections' = connections + 1
  /\ \E buffer \in Fresh, s \in Scrambles : scramble' = s /\ sent' = buffer
  /\ pc' = "closed"
  /\ UNCHANGED <<received, cube, solution, moves, arrived>>

Next == Again \/ Another \/ Send \/ Die \/ Decode \/ Solve \/ Receive \/ Close \/ Lose

Spec == Init /\ [][Next]_vars
-----------------------------------------------------------------------------
(* A request of which the 54 colours arrived is solved as the cube that    *)
(* the client meant, even if the client died before it sent the NUL, so    *)
(* that an answer to an earlier one, or to a text that was no hash, goes   *)
(* on behind the colours; and a request that arrived whole never ends the  *)
(* server (server.cpp:103-125, hash.cpp:329-362).                          *)
CubeArrives ==
  /\ pc = "solving" /\ arrived >= 54 => cube = cube_of(scramble)
  /\ Whole => pc # "ended"

(* The client reads exactly the moves that the solver found, though the    *)
(* answer is written over a longer text and the whole buffer is sent.      *)
MovesArrive ==
  pc = "answered" => moves = solution /\ apply(cube_of(scramble), moves) = identity
=============================================================================
