---------------------------- MODULE NodeBinding -----------------------------
(***************************************************************************)
(* nodebinding.cpp: JavaScript asks for solutions with solve_cube, libuv   *)
(* runs the searches on the threads of its pool, and their results go back *)
(* to callbacks on the one thread that runs JavaScript.  All that a        *)
(* request is travels in a Work object on the heap, and its cube in        *)
(* another, both allocated by the call and deleted after its callback.     *)
(*                                                                         *)
(* What libuv has queued and what it has to report are sets here: it takes *)
(* them in an order of its own, and nothing may depend on it.              *)
(***************************************************************************)
EXTENDS Sequences, FiniteSets

CONSTANTS
  Request,  \* the calls of solve_cube
  CubeOf,   \* the cube each of them asks for
  Thread,   \* the threads of libuv's pool
  Address,  \* bound: the heap has as many places for Works, and for cubes
  NULL

Cube == {CubeOf[r] : r \in Request}

(* A Work: its callback, for which the request stands, the address of its  *)
(* cube, and the moves, for which the cube that they solve stands.         *)
Work == [callback : Request, scrambled_cube : Address, solution_moves : Cube \cup {NULL}]

ASSUME NullIsNothing == NULL \notin Address \cup Cube \cup Work

VARIABLES
  works,    \* address: the Work there, or NULL when it is free
  cubes,    \* address: the cube there, or NULL when it is free
  queued,   \* Works that wait for a thread of the pool
  running,  \* pool thread: its Work
  held,     \* pool thread: the cube that its solver copied
  solved,   \* Works whose completion the loop has not run yet
  current,  \* the Work whose callback runs, or NULL
  asked,    \* requests that were made (history)
  answers   \* request: what its callback was called with (history)

vars == <<works, cubes, queued, running, held, solved, current, asked, answers>>

FreeWorks == {a \in Address : works[a] = NULL}
FreeCubes == {a \in Address : cubes[a] = NULL}

Init ==
  /\ works = [a \in Address |-> NULL]
  /\ cubes = [a \in Address |-> NULL]
  /\ queued = {}
  /\ running = [t \in Thread |-> NULL]
  /\ held = [t \in Thread |-> NULL]
  /\ solved = {}
  /\ current = NULL
  /\ asked = {}
  /\ answers = [r \in Request |-> <<>>]

-----------------------------------------------------------------------------
(* The thread that runs JavaScript.  Whoever follows a pointer to a Work   *)
(* that was deleted gets nowhere here; MemoryIsSafe says that nobody does. *)

(* solve_cube, called by a script or by a callback that is still running:  *)
(* allocate a Work and its cube, wherever there is room, and queue it.     *)
SolveCubeAsync(r) ==
  /\ r \notin asked
  /\ asked' = asked \cup {r}
  /\ \E work \in FreeWorks, p \in FreeCubes :
       /\ works' = [works EXCEPT ![work] =
                      [callback |-> r, scrambled_cube |-> p, solution_moves |-> NULL]]
       /\ cubes' = [cubes EXCEPT ![p] = CubeOf[r]]
       /\ queued' = queued \cup {work}
  /\ UNCHANGED <<running, held, solved, current, answers>>

(* Mistake: the objects are deleted before the callback is called. *)
CallAndDelete(a) ==
  /\ current = NULL
  /\ a \in solved
  /\ works[a] # NULL
  /\ solved' = solved \ {a}
  /\ current' = a
  /\ LET work == works[a] IN
       /\ answers' = [answers EXCEPT ![work.callback] = Append(@, work.solution_moves)]
       /\ cubes' = [cubes EXCEPT ![work.scrambled_cube] = NULL]
       /\ works' = [works EXCEPT ![a] = NULL]
  /\ UNCHANGED <<queued, running, held, asked>>

(* WorkAsyncComplete calls the callback, *)
CallBack(a) ==
  /\ current = NULL
  /\ a \in solved
  /\ works[a] # NULL
  /\ solved' = solved \ {a}
  /\ current' = a
  /\ answers' = [answers EXCEPT ![works[a].callback] = Append(@, works[a].solution_moves)]
  /\ UNCHANGED <<works, cubes, queued, running, held, asked>>

(* Mistake: only the Work is deleted. *)
ReturnWithoutCube ==
  /\ current # NULL
  /\ works' = [works EXCEPT ![current] = NULL]
  /\ current' = NULL
  /\ UNCHANGED <<cubes, queued, running, held, solved, asked, answers>>

(* and when that has returned it deletes the cube and the Work. *)
Return ==
  /\ current # NULL
  /\ works[current] # NULL
  /\ cubes' = [cubes EXCEPT ![works[current].scrambled_cube] = NULL]
  /\ works' = [works EXCEPT ![current] = NULL]
  /\ current' = NULL
  /\ UNCHANGED <<queued, running, held, solved, asked, answers>>

-----------------------------------------------------------------------------
(* A thread of the pool. *)

(* WorkAsync follows the pointers to the cube and starts to solve it, *)
Start(t, a) ==
  /\ running[t] = NULL
  /\ a \in queued
  /\ works[a] # NULL
  /\ queued' = queued \ {a}
  /\ running' = [running EXCEPT ![t] = a]
  /\ held' = [held EXCEPT ![t] = cubes[works[a].scrambled_cube]]
  /\ UNCHANGED <<works, cubes, solved, current, asked, answers>>

(* and writes the moves to the Work; libuv reports it to the loop. *)
Finish(t) ==
  /\ running[t] # NULL
  /\ works[running[t]] # NULL
  /\ works' = [works EXCEPT ![running[t]].solution_moves = held[t]]
  /\ solved' = solved \cup {running[t]}
  /\ running' = [running EXCEPT ![t] = NULL]
  /\ held' = [held EXCEPT ![t] = NULL]
  /\ UNCHANGED <<cubes, queued, current, asked, answers>>

-----------------------------------------------------------------------------
Loop == Return \/ \E a \in Address : CallBack(a)
Pool(t) == Finish(t) \/ \E a \in Address : Start(t, a)

(* Every call was made and answered. *)
Quiet == asked = Request /\ queued \cup solved = {} /\ current = NULL
         /\ (\A t \in Thread : running[t] = NULL) /\ UNCHANGED vars

Next ==
  \/ \E r \in Request : SolveCubeAsync(r)
  \/ Loop
  \/ \E t \in Thread : Pool(t)
  \/ Quiet

Spec == Init /\ [][Next]_vars

(* Callbacks return, searches end, and libuv runs both its loop and its    *)
(* pool; nobody has to call solve_cube.                                    *)
FairSpec == Spec /\ WF_vars(Loop) /\ \A t \in Thread : WF_vars(Pool(t))

-----------------------------------------------------------------------------
(* Somebody will still use the Work at an address. *)
Used(a) == a \in queued \cup solved \cup {current} \/ \E t \in Thread : running[t] = a

TypeOK ==
  /\ works \in [Address -> Work \cup {NULL}]
  /\ cubes \in [Address -> Cube \cup {NULL}]
  /\ queued \subseteq Address
  /\ running \in [Thread -> Address \cup {NULL}]
  /\ held \in [Thread -> Cube \cup {NULL}]
  /\ solved \subseteq Address
  /\ current \in Address \cup {NULL}
  /\ asked \subseteq Request

(* A callback is called once, with the solution of the cube that came with *)
(* it, whichever threads solve which cubes and in whatever order they are  *)
(* done (nodebinding.cpp:25-49).                                           *)
AnswersAreOwn == \A r \in Request : answers[r] \in {<<>>, <<CubeOf[r]>>}

(* A Work and its cube are in memory exactly as long as the pool, the loop *)
(* or the callback that runs can still use them: neither is used after it  *)
(* was deleted, and neither is forgotten, although callbacks call          *)
(* solve_cube again and addresses are reused (nodebinding.cpp:45-48).      *)
MemoryIsSafe ==
  /\ \A a \in Address : works[a] # NULL <=> Used(a)
  /\ \A p \in Address :
       cubes[p] # NULL <=> \E a \in Address : works[a] # NULL /\ works[a].scrambled_cube = p

(* Every call is answered in the end. *)
EveryCallIsAnswered == \A r \in Request : r \in asked ~> answers[r] # <<>>
=============================================================================
