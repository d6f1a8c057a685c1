# A verification project for multithread-clientserver

The repository has a server that solves Rubik's cubes and a client that asks it
to. Both are multithreaded C++ programs. The server's solver is an optimal one:
iterative deepening with a pruning table of distances, in two bits per entry.

This directory has TLA+ models of the two programs, of the solver, of its
coordinates and its table, of the binding through which Node uses the solver and
of the texts in which cubes and moves travel, the TLC runs that check them and
the theorems that TLAPS proves about them. `PROJECT.json` lists components, runs,
mutants, hazards, theorems and, per definition, the lines of the source it models.

## 1. The system

| component | source | state | operations |
|---|---|---|---|
| client queue | `server.cpp` 51-68, 90-101, 166-175, 196-207 | doubly linked list between two sentinels, semaphores `length` and `mutex` | push by the main thread, pop by the workers |
| server | `server.cpp` | listening socket, accepted sockets, one buffer and one solver per worker | listen, load the table, accept; receive, solve, write, close |
| client | `client.cpp` | per program `request_count`, its semaphore, `should_stop`; per thread a socket and a buffer | connect, send, receive, check, close, count, test; stop, join, report |
| stop timer | `client.cpp` 238 | the argument `duration_seconds` | `usleep` |
| cube | `permutation.cpp`, `symmetry.cpp` | constant tables | composition, 18 moves, 48 symmetries, conjugates |
| raw coordinates | `coordinate.cpp` 13-364 | constant tables | number a position, find one for a number |
| sym coordinates | `coordinate.cpp` 379-579 | constant tables | classes, class and symmetry of a coordinate, conjugated orientations |
| move tables | `movetable.cpp` | constant tables | coordinates after a move |
| pruning table | `pruningtable.cpp` | `_table`, the file | build, save, load, look up two bits, find the real distance |
| solver | `solve.cpp` | a stack of 30 `CubeState`s, two depths | solve |
| hash | `hash.cpp` | constant tables | permutation to facelets and back |
| node binding | `nodebinding.cpp` | `Work` objects and their cubes on the heap | allocate and queue, solve on a thread of libuv, call back, delete |
| interactive loop, tests | `main.cpp` | one solver | read a line, print a hash or solve |

How they interact. A client thread connects to the server over TCP; the server's
main thread accepts the connection and puts the socket in the client queue; a
worker takes it out, receives the cube, has its own solver solve it (all solvers
read the one pruning table), writes the moves and closes the socket. The client
thread checks the moves, counts the request under a semaphore that it shares with
the other threads of its program, looks at `should_stop`, and starts again. The
client's main thread sleeps, sets `should_stop`, joins the threads and reports
the count. The solver follows three coordinates of the cube, of which two are
those of conjugates, and uses the table for each. Node programs and the person at
the terminal are two more ways to the same solver.

What is hard about it:

* the pop has no test for an empty list and frees the node after the mutex is
  released: only the token count of `length` makes that safe;
* a worker keeps its buffer from connection to connection and accepts an empty
  stream as a request;
* any error in any thread ends the whole process, the server's too;
* a table is a breadth-first search over its own entries, with distances modulo
  3, for classes of positions under symmetry, some of which have symmetries of
  their own;
* the search leaves out branches for three reasons at the same time, and any
  mistake there still yields a correct solution, only not a shortest one;
* a solver object is used again without being cleared;
* a file that is cut or missing is not noticed;
* the solver never has the cube, only ten coordinates of it, each moved by tables
  of its own; the coordinates' inverses, the products of symmetries and the
  conjugated orientations all have to fit together;
* a cube crosses the network as a text of 54 colours in a buffer of 100 bytes that
  both ends use for the answer too, and the writer and the reader of that text
  have a hand-written table each;
* a `Work` of the binding is used by two threads in turn and deleted by one of
  them, after a callback that may itself ask for another solution.

`PROJECT.json` lists each of these hazards with its line and the properties that
are about it.

## 2. The modules

| module | models | used by |
|---|---|---|
| `RequestQueue` | what the client queue promises: first in first out, one worker per socket | refined by `ClientQueue`, part of `ClientServer` |
| `ClientQueue` | the linked list, pointer by pointer | `ClientQueueProofs` |
| `ClientQueueProofs` | theorems about `ClientQueue` | |
| `Service` | what the server promises to the client programs | refined by `ClientServer` |
| `ClientServer` | client programs against the server over TCP | `MCClientServer` |
| `ClientServerProofs` | theorems about it, and about `ClientTimer` | |
| `ClientTimer` | the duration of the client's sleep | `MCClientTimer` |
| `Cube` | permutations, moves, symmetries (the real tables) | all below |
| `CubeTexts` | hashes and moves as texts, and their parsers | `Payload`, `SolveLoop` |
| `Payload` | one buffer at each end of a connection | `MCTexts` |
| `PayloadProofs` | theorems about it and about `CubeTexts` | |
| `SolveLoop` | the interactive program | `MCTexts` |
| `Combinations`, `Coordinates` | the coordinates of the real cube, the classes, the move tables | `TurnedCube`, `SliceInverse` |
| `TurnedCube` | a cube and its coordinates, turned together | `MCCoordinates` |
| `SliceInverse`, `SliceInverseProofs` | the loop that finds the places of four edges | `MCCoordinates` |
| `PruningValues` | two-bit entries and `RelativePruning` | `PruningTable`, `CubeSolver` |
| `PruningValuesProofs` | theorems about them | |
| `SymCoordinates` | classes, sym coordinates, move tables, for any puzzle | `PruningTable` |
| `PruningTable` | build, save, crash, load, ask | `MCPruningTable` |
| `PruningTableProofs` | theorems about it and about `SymCoordinates` | |
| `CubeGroup` | ground facts about the tables of `Cube`, which TLC evaluates | `CubeSolver` |
| `CubeSolver` | the search | `MCCubeSolver` |
| `CubeSolverProofs` | theorems about permutations, and about the search | |
| `NodeBinding`, `NodeBindingProofs` | Works, libuv's threads and loop, callbacks | `MCNodeBinding` |

A definition that a comment calls a mistake is a plausible bug in the definition
below it. The specification does not use it; `PROJECT.json` names it as the mutant
that shows that a property can fail.

### Client queue

One action of `ClientQueue` is one access to memory that other threads see.
`next`, `before` and `clientsockfd` are the fields of all nodes, `heap` the
nodes that are allocated (an address may be allocated again after it was freed),
`open` the socket numbers in use (a number may be accepted again after it was
closed). `mpc` and `pc` say where the threads are; the other variables are their
locals, cleared where they go out of scope. `LinkFront` stands for 201-203,
`LinkBack` for 204, after which the node can be reached from behind, and
`StoreSocket` for 205, which puts the socket into it only then. `TakeSocket` stands
for 100-101: the read of the node and its `free()` are one step because no other
thread can hold the node, which is itself what `PointersAreSafe` states. The part of
a worker's round that does not touch the queue is `Serve`.

`ImplementsQueue` is the refinement: the abstract `waiting` is the list read
backwards from `lead_last`, and a worker has the socket as soon as its node is
unlinked.

### Client and server

`ClientServer` uses the actions of `RequestQueue` for the queue and adds
everything around it: the order of listen and load, the limit of descriptors
(`AcceptFails` ends the server, as `error()` does), the buffers of the workers,
and the loop of a connection thread with `request_count += 1` as a load and a
store. TCP is reduced to what the programs see: a connection exists once it is
in the backlog, each direction carries one message of 100 bytes, closing or dying
is noticed by the other end. A connection is `<<c, n>>`, the `n`-th one of thread
`c`, so that no connection is made twice; `Closed(p)` are those that the threads of
program `p` closed after a right answer, and `CountIsExact` compares their number
with what the program reports. Messages are cubes: what is sent is a cube, and an
answer is the cube whose solution it is. If a worker's buffer holds no cube (the
moves of its last answer, or what `malloc` left there) the solver's behaviour is
undefined; `Solve`, `Hang` and `Crash` together allow any of its outcomes.
`Kill` ends a client program at any point. The kernel may tell a worker of it by a
negative result of `recv` or `write` (`RecvFails`, `WriteFails`, together `Reset`),
which ends the server (103-105, 133-135); it may as well tell nothing, and then
`recv` returns 0 and a `write` is lost.

`Service` is the same seen from outside: a thread asks, is given the solution of
its own cube, verifies and counts it; a program may be told to stop and then
reports. Its programs exit only before the server listens. `ImplementsService`
says that the instance without kills and with room for everybody does just that,
fairness included: a thread's `connect` and `send` are `idle` there, the three
steps of the count are one, and what `Answer` gives is what `Receive` reads from
the connection.

`Payload` looks into the 100 bytes that `ClientServer` takes for one value. There
is one worker and one connection at a time; what matters is what stands in the two
buffers. `Again` is a thread's next round, `Another` some other client; `Die` lets
the first bytes of a request arrive only, and `Decode` is the scan for the NUL and
`Hash2Permutation`, which the worker calls whatever it has received. `IsHash` says
when the lookups of `hash.cpp` all return. If they do not, or if there is no NUL, the
behaviour is undefined: the server ends (`pc` is `"ended"`), or the worker goes on with
a cube of nobody's, for which the solver may answer anything, and serves the next
client with what that leaves in its buffer. That a worker which received nothing takes
its own last answer for a hash is possible too: `IsHash` accepts, for instance, the 20
moves `Ri D2 B R2 F Bi B2 L2 B Fi Ui U2 D D2 Li R2 Ui Ri Ri U`, whose 55 characters have
what the lookups look for at the places of the facelets. A
solver is represented by `Solves`, which undoes the scramble backwards: any moves
that solve the cube would do. What the tables of `hash.cpp` and the names of moves
have to say for texts to be read back is stated in `CubeTexts` as assumptions without
a parameter (`FaceletsAgree`, `CornersAreRecognized`, `NamesAreRead` and others), which
TLC evaluates completely and the proofs use. If fewer than the 54 colours arrive the text
can be a mix of two cubes, of which nothing is promised; from 54 on it is the client's
cube, since nobody looks at what follows.

### Cube and solver

`Cube` has the tables of `permutation.cpp` and `symmetry.cpp` as they are, with the
same indexes, and builds moves, symmetries and conjugates from them as the code
does. `Coordinates` has the numberings of `coordinate.cpp` for it, and each table as
the function that computes its entries; a class is named by its representant.
`TurnedCube` moves a cube and the ten coordinates of a `CubeState`, each by its own
rule: the cube by composition, the coordinates by `execute_move`. In `CubeSolver` an
action is one round of the inner loop; `Try` is the part that all rounds which
choose a move have in common (lines 307-360), and `Prune` the cutting by bounds. A
`CubeState` of the model has the permutation in place of the ten coordinates, which
`TurnedCube` shows to follow it, and keeps exponent, axis, bounds and symmetries.
`states` keeps what earlier searches left in it. Symmetries are sets where the code
has 64-bit masks. `Ball[n]` are the cubes that `n` moves or fewer solve, `Within`
the first ones of them.

The table is a parameter `Distance`. The runs give it a table of the same kind as
the real one, for the same coordinates (position of the slice edges and all
orientations): the exact distance up to `TableDepth`, `TableDepth + 1` beyond.
`UDCoordinates` and `UDMove` are these coordinates of a cube and what a move makes
of them. `TableIsSoundHere` has TLC check, at the scrambles and one move from them,
that the runs' table is of the kind that the proofs ask for.

### Pruning table

`SymCoordinates` defines the classes and coordinates for any puzzle whose positions
have a raw coordinate, an edge and a corner orientation, given how a move and a
symmetry act. What it needs of the puzzle it states as assumptions: moves can be
undone and need of each coordinate no other one; symmetries are a group, map moves
to moves and leave the solved position alone, and what they make of the edges may
depend on the raw coordinate, of the other two on nothing else. The representant of
a class is its smallest raw coordinate, and the classes are numbered in that order.
`PruningTable` builds the table (`Visit` and `Skip` are the body of the three nested
loops for one entry), saves it row by row, may be killed meanwhile (`Die`), between
two rows or inside one (`rest` is what the file has of that row), loads it in another
process, looks up a real distance (`Ask`, `Descend`, `Return`) and then follows moves
by two bits (`Turn`), which is what the solver does with it. `Ball[n]`
are the positions that `n` moves or fewer reach, and `Distances` the true distances,
found on the positions themselves.

### Slice inverse

The code finds the places of four edges from a number in a `while (true)` that
stops because the number is small enough. `SliceInverse` has a round per action:
`Skip` and `Place` are the two branches of the inner loop, with what was read from
the table of combinatorial numbers; `Garbage` is what a read outside the written
part would give. `Arrange` is the rest of the function.

### Interactive program

A state of `SolveLoop` has what the person wants, what the program did, and the
last hash on the screen, which the person may copy into the next line. Lines are
moves or hashes with spaces before, after and, for moves, between, with or without
a semicolon.

### Node binding

`works` and `cubes` are the two kinds of objects on the heap. `SolveCubeAsync` is
the whole call up to `uv_queue_work`, `Start` and `Finish` the two ends of
`WorkAsync` on a thread of the pool, `CallBack` and `Return` those of
`WorkAsyncComplete`, so that everything else, other calls of `solve_cube` by the
callback included, may happen between them. Works wait in sets: nothing may depend
on the order in which libuv takes them. An action that follows a pointer to a
deleted object is not possible; `MemoryIsSafe` says that none is ever tried.

## 3. The runs

| run | instance | states | shows |
|---|---|---|---|
| `ClientQueue` | 3 workers, 2 sockets, 3 nodes | all | mutual exclusion, no dangling pointer, each socket in one place, both directions of the list agree, the list is as long as the tokens say, every client is served; refinement of `RequestQueue` with its fairness |
| `ClientServer` | 1 program with 2 threads, 2 workers, 2 requests each | all (29 688) | exact count, bounded sockets, programs stop; refinement of `Service` with its fairness |
| `ClientServerKill` | 2 programs, killed at will, 2 workers, 2 descriptors, backlog of 1 | all (357 908) | an answer is right even if others die and the server does |
| `ClientServerDeaths` | 2 programs, killed at will, 2 workers, room for all, 1 request each | all (41 820) | every socket is released as long as the server is up and a worker is left, that of a client that died in the queue or the backlog too |
| `ClientServerStale` | 2 programs, killed at will, 2 workers | violation | finding 1 |
| `Coordinates` | 4 cubes, any move and one of three more; 4 orders of each of the 495 sets of places | all (24 840) | the ten coordinates follow the cube; solved is seen as solved; no unwritten number is read; the inverse is one, and has the parity of a cube |
| `CubeSolver` | scrambles of up to 3 moves, first move U or U2, then one of two more with the same solver | all (47 983) | solutions solve and are shortest; bounds, stack and symmetries are right on the way; the search advances |
| `PruningTable` | 28 raw x 8 edge x 4 corner coordinates, 6 symmetries, 10 moves; killed after 0 or 18 of 36 rows, with or without half of the next one, or never | all (58 373) | table exact, build ends, real distances found and followed; what a cut file holds is right, and a distance found with it is 3 too large at most |
| `PruningTablePartial` | 28 x 4 x 1, killed after any row | violation | finding 2 |
| `ClientTimerWraps` | durations 0, 1, 60, 2147, 2148, 4294, 4295 | violation | finding 3 |
| `Texts` | 5 cubes, clients that die after 0, 30, 54 or 55 bytes, 3 connections; 3 lines | all (73 644) | cubes and moves arrive, after requests that were cut and nonsense that was solved too; lines are obeyed |
| `NodeBinding` | 4 calls, two for the same cube, 2 threads, 3 addresses | all (45 232) | own answers, safe memory, every call answered |

Bounds, and why they are enough.

* Three workers, two sockets and three node addresses are enough for a worker that
  has popped while another one pops the last node and a third waits, for a node
  address and a socket number to be used again while others hold theirs, and for a
  list that is empty, has one node or has two. That the bound hides nothing about
  the pointers is what the proofs in `ClientQueueProofs` show: they are for any
  number of threads, sockets and nodes. `malloc` failing is not modelled: the main
  thread waits for an address.
* Two clients with different cubes and two requests each let a worker's buffer
  carry something from one client to another and from one request to the next.
  `MaxRequests` makes a thread wait for the stop after that many requests, where
  the program would go on; `Test` still looks at `should_stop` only then, so what
  a thread may be doing when the stop comes is all there.
* `BacklogLimit` is the number of clients except in `ClientServerKill`, where a
  connection that does not fit is refused. `FdLimit` is what `SocketsAreBounded`
  allows at most in `ClientServer`, so the run also shows that the limit is never
  exceeded, and less in `ClientServerKill`, where it is. `ClientServerDeaths` has
  room for both clients, so that the server ends only when a client that dies resets
  its connection or nonsense makes a worker crash, and a socket can wait in the
  backlog or the queue for a worker while the other one is served. One request per
  client is enough there: what becomes of a socket does not depend on how many came
  before.
* `Coordinates`: a coordinate's table has an entry per value and move, so agreement
  after any one move is agreement for the values of those cubes; a second move
  exercises the composition.
  `LaterMoves` has a quarter turn, a half turn and an inverse, of the axes LR, UD
  and FB. The cubes are the solved one, one whose edges are all in their slices and
  whose corners are all in place, that of `client.cpp`, and one with all edges
  flipped: `SolvedIsSeen` would fail at the second one if any of the three slice
  coordinates was left out.
* `CubeSolver`: three moves are enough for opposite faces in both orders, for
  scrambles with symmetries, for a bound that is exact at the bottom and constant
  at the top, and for backtracking over two levels. Scrambles are taken up to
  symmetry. The second scramble is shallow or has a deeper search than the first
  had, over a stack with the first one's states. `StatesLength` is the real 30;
  `TypeOK` says that the stack stays inside it.
* `PruningTable`: `KilledAfter` is the numbers of rows after which the process that
  saves may die, and `CutAfter` those of the entries of the next row that the file has
  then (a byte has four). `PruningTablePartial` has rows of one byte. Numbers have no
  width; in the code the number of entries, 3 529 433 088, does not fit in the `int` in
  which it is multiplied but does in the `unsigned int` that keeps it. The small
  puzzle has classes of several raw coordinates, raw coordinates with symmetries,
  edges whose change under a symmetry depends on the raw coordinate and corners whose
  change does not, and distances beyond 3, so that every difficulty of the table
  occurs. `FarthestDistance` is only used to compute
  the true distances; `NoneIsFarther` has TLC check that it is far enough.
* `ClientTimer` counts in units of 64 microseconds to stay inside TLC's integers;
  both sides of the conversion are multiples of it. `LastSecond` ends time after the
  longest duration.
* `Texts`: the cubes take 0, 1, 2, 11 and 20 moves, so that answers of every kind are
  written over hashes and half received hashes over answers; 54 and 55 bytes are the
  hash without and with its NUL: after 54 the answer to the last client goes on behind
  the colours, or, in a new buffer, what `malloc` left and no NUL at all.
  `MaxConnections` is enough for a buffer that held an answer, then part of a request,
  then a whole one, and for one of a worker that solved nonsense twice before. 20
  moves need at most 61 bytes, so an answer always fits.
* `NodeBinding`: fewer addresses than calls, so that an address is used again while
  other Works wait; more calls than threads, so that some wait for a thread.

`CHECK_DEADLOCK FALSE` is stated only where a system really stops: the timer
after its last second, the turned cubes after their last turn, the solver when
its scrambles are used up, an inverse that has been found, a conversation after
its last connection or line or the end of the server, and the pruning table,
which for a cut file may have an entry from which no round of `get_real` makes
progress (the code then loops without changing anything) or a bound that nobody can
look up any more.

### Fairness

* `ClientQueue`: every thread that can go on does (weak fairness). Semaphores
  give no precedence, so a worker may wait for ever while others always get the
  mutex, and nobody has to connect: `accept` is not fair.
* `ClientServer`: weak fairness for every thread, and no fairness for `Kill` and
  `Reset`. In `ClientServerDeaths` a worker that nonsense has caught (`Hang`) never
  comes back, so what it serves is never closed, and the property says so.
  Client threads need not be served in any order. A thread that waits for
  `request_count_lock` may be passed over only as often as other threads come by,
  which is bounded here; with unbounded requests a semaphore without precedence
  could starve a thread, not the count.
* `NodeBinding`: weak fairness for libuv's loop and each thread of its pool, which
  it runs as long as there is work. It assumes that searches end and callbacks
  return. Nobody has to call `solve_cube`.
* `CubeSolver` has no fairness: `SearchAdvances` is an action property. Each round of
  the search comes later in an order that has finitely many places per depth, and
  `DepthIsJustified` bounds the depth by the length of a shortest solution, so the
  loop ends.
* `PruningTable`: one thread that goes on; nobody has to turn the position.

### Findings

1. `ClientServerStale`: a worker's `recv` returns 0 when the client has gone; the
   code tests for a negative result only (`server.cpp:103`) and solves whatever the
   buffer held, though the comment at 123 says "solve the received cube". As
   `ClientServerKill` shows, it never gives a wrong answer to somebody else.
2. `PruningTablePartial`: `load_from_file` (`pruningtable.cpp:280`) does not notice
   that something is missing, and `get_real`, whose "result is the real lower-bound-depth" (88),
   may then return another number.
3. `ClientTimerWraps`: the product at `client.cpp:238` is 2^32 microseconds short
   from 4295 seconds on, and the client does not stop "'seconds_duration' seconds
   after the start of the program" (12-14).

## 4. The proofs

### The client queue, for any number of threads, sockets and nodes

Assumptions: the sentinels, the nodes and `NULL` are distinct, and there are
finitely many workers and nodes (`CellsAreDistinct`, `FiniteThreads`,
`FiniteMemory`).

`TypeCorrect`, `Exclusion` and `SafePointers` are `Spec => []TypeOK`,
`[]MutualExclusion` and `[]PointersAreSafe`. None of them is inductive: that a pop
does not hit a sentinel depends on how many tokens are out, on the shape of the
list, and on what other threads have read of it. The inductive invariant is

    IInv == TypeOK /\ MutexInv /\ \E q \in Seq(Node) : ListInv(q)

that is: the mutex is 1 only if nobody is inside, and some sequence `q` of
distinct allocated nodes is linked by `before` from `lead_last` to `lead`
(`ChainInv`), is as long as `length` plus the workers that took a token and have
no node yet plus the token that the main thread owes (`CountInv`), and the local
pointers of all threads point to the right cells of it (`MainInv`, `WorkerInv`).
`MutexStep` and `TypeStep` prove the first two parts for every action. For the
list there is a lemma for each action that changes it: `LinkBack` appends to `q`,
`UnlinkBefore` takes its head away, the others keep `q` and change what threads
know of it (`StoreKeeps` is about `StoreSocket`); `EntitledIsPositive` is where the token count makes the list
non-empty. `Inductive` puts them together.

What the list carries needs more. `FullInv` is `\E q : Intact(q)`, where `Intact`
adds three parts for the same `q`: `ForwardInv`, what `next` is at each cell while
a push or a pop has written half of its pointers; `HeapInv`, that every allocated
node is in the list or held by the thread that is about to link or free it; and
`HolderInv`, where each open socket is. `Unbroken` is `Spec => []ListIsIntact`, the
form of `FullInv` that TLC checks too.

The properties speak of `Order`, which is *chosen* from the pointers, and the
invariant of *some* `q`. They are the same (`OrderIs`): two sequences that follow
`before` from `lead_last` agree at each place, since a first place at which they
differ would follow a place at which they agree, and they end at the same place,
where `lead` is (`SameCells`, `SameLength`). From this come

* `OneHolder`, `Spec => []ExactlyOneHolder`;
* `Consistent`, `Spec => []ListIsConsistent`;
* `ListIsAQueue`, `Spec => Queue!QueueSafety`: each step of the pointers is a step
  of `RequestQueue` or a stutter (`QueuePut` for `LinkBack`, `QueueTake` for
  `UnlinkBefore`, `QueueFinish` for `Serve`). It is `ImplementsQueue` without its
  fairness.

### Clients and server, for any numbers of programs, threads, workers and requests

Assumptions: there are finitely many threads and workers, each thread has a
program, the limits are numbers, and `NULL` is none of the objects
(`FinitelyManyThreads`, `ClientsBelongToPrograms`, `LimitsAreNumbers`,
`KillingIsOptional`, `NullIsNothing`).

`TypeCorrect`, `RightAnswers` and `ExactCount` are `Spec => []TypeOK`,
`[]AnswersAreRight` and `[]CountIsExact`. Programs may be killed at any time and
the server may run out of descriptors or break down. The invariant `Inv` adds to
the three:

* `ThreadInv` and `ConnInv`: what travels over a connection belongs to the thread
  that made it. A thread makes no connection twice, so that what the server still
  does with one whose program died never reaches anybody else;
* `PlaceInv`: a connection is in one place of the server at most, the backlog, the
  queue or with one worker;
* `WorkerInv`: the buffer of a worker holds what its connection is about *unless the
  client has gone*. This is as much as is true: finding 1 is what the exception
  allows;
* `LockInv` and `CountInv`: a thread between the load and the store of
  `request_count += 1` is alone there, and the counter is the number of connections
  that are closed and counted. A report comes after all joins, when nobody is between
  closing and counting.

Three more theorems have the hypothesis `Roomy`: nobody is killed, the backlog (128
in the code) has room for all threads and the descriptors suffice for all threads
and workers. Then nothing fails (`NothingFails`), and a worker that has a connection
has what that connection is about (`RoomInv`):

* `BoundedSockets`, `SocketsAreBounded`: a connection that is open in the server is
  one of a thread that waits for it, or one that a worker is about to close
  (`OpenIsBounded`);
* `ReceivedCubes`: a worker solves only what it received. `ClientServerStale` shows
  that this is false when clients die;
* `ServesAll`, `Service!ServiceSafety`: each step is a step of `Service` or a stutter
  (`ServiceStep`), which is `ImplementsService` without its fairness.

### The cube

`CubeGroup` states what the proofs need of the tables: that `orientation_sum` is a
group, that each symmetry has an inverse and maps moves to moves, that moves can be
undone, which moves of a face make which, that opposite faces commute, and where
`fb_transform` and `lr_transform` turn the axes. They are assumptions to the prover
and have no parameter: the tables are constants, and TLC evaluates every one of
these facts completely whenever it runs `CubeSolver`. So does `UDTurnsAreFree` of
`CubeSolver`, that turns of U and D do not change the UD coordinates of the solved
cube.

From them `CubeSolverProofs` proves for *all* values of the type `Permutation`, cubes or
not, what no run can enumerate: composition is associative and has an identity, and
`ConjugateTurned`: to turn and then look through a symmetry is to look first and
make the conjugated move, for all 48 symmetries. The tests of the repository assert
it for one symmetry and one slice (`main.cpp:232-244`).

### The search, for any scrambles and any sound table

`SolutionsAreOptimal` is `Spec => []SolutionIsOptimal`: a returned sequence of moves
solves the cube and no shorter one does. `DepthJustified`, `BoundsStayExact`,
`StackStaysAPath`, `SymmetriesStayOfTheTop`, `SearchKeepsAdvancing` and
`TypeCorrect` prove the other six properties of the run `CubeSolver`.

Assumptions: the stack has room for the longest scramble (`StackIsLongEnough`; the
code has 30 states, and no cube takes more than 20 moves) and the scrambles are
cubes that moves reach (`ScramblesAreShort`). Hypothesis: `TableIsSound`, that is,
the table gives numbers that are rows of `RelativePruning`, that change by at most
one per move and are 0 for the solved cube and a turn of U or D.
`ExactDistancesAreSound` proves it of every table that has the exact distances of
the UD coordinates, all less than 20. That `build` makes such a table is `TableExact`,
below. The table of the run is truncated instead; `TableIsSoundHere` checks it at the
cubes that the run starts from.

`Away(p)` is the length of a shortest solution and `Best(p)` the first move in the
order of the search that begins one. The invariant is

    SearchInv == TypeOK /\ DepthInv /\ PathInv /\ BoundsAreExact /\ SymmetryInv
                 /\ BestIsAhead /\ FoundInv

`DepthInv`, `PathInv`, `BoundsAreExact` and `SymmetryInv` say what the stack is at
every level, those below the top included, since the search comes back to them.
`BestIsAhead` is what makes the search optimal: while the depth is that of the
shortest solutions, the stack follows the best moves up to some level, at which the
best move is still to come. So the search cannot end at this depth without a
solution, and never goes deeper. It has to survive everything that leaves out moves:

* a move that a symmetry maps to an earlier one is not tried; but a best move is never
  excused in this way, since the symmetry fixes the cube and the earlier move would be
  as good (`BestIsFirst`);
* neighbouring moves of one face, and of opposite faces in the wrong order, are
  discarded; but two best moves in a row are never such a pair (`BestGoesOn`);
* a branch is cut if a bound is too large, or if all three are equal to what remains;
  but a cube that is close enough has no such bounds (`InTimeIsNotCut`, and
  `EqualBoundsAreLess`: if all three bounds are equal, the distance is larger than
  they are, because the last move of a shortest solution leaves one of them free);
* a bound that is too large by more than one ends the axis, not only the move; but one
  move from a cube which is close enough no bound is that large
  (`NearlyInTimeKeepsAxis`).

`TryCases` says what a round can do, `TryOutcome` that it does one of these, and
there is a lemma per action and part of the invariant. `ReportIsOptimal` puts the
moves of the stack together.

### Two bits per entry

`RelativeIsExact`: for every distance `h` that is a row of `RelativePruning` and
every `k` with `|h - k| <= 1`, `RelativePruning[h][EntryOf(k)] = k`: this is what
makes `BoundsAreExact` and `BoundIsReal` hold from move to move.
`DescentIsExact`: of the neighbours of a position at distance `h > 0` those that
`get_real` accepts are the ones at `h - 1`: it cannot take a wrong step, whatever
the distances are. They have no assumptions.

### The pruning table, for any puzzle with such coordinates

Assumptions: those of `SymCoordinates` about the puzzle, named above, and that the true
distances are rows of `RelativePruning` (`SomeDistance`, `NoneIsFarther`); nothing is
assumed about how many coordinates, symmetries and moves there are. TLC evaluates all
of them for the small puzzle. For the real cube they are facts about its coordinates
that are stated here and not proved: `ConjugateTurned` is what they say about
permutations, and that the real coordinates follow them is what the run `Coordinates`
checks at its cubes.

First come facts about the coordinates that no state is needed for. A sym coordinate
stands for one raw coordinate and every raw coordinate has one (`SymCoordinateIs`,
`RawHasSym`): two representants are never in the same class (`ClassesAreApart`).
`reduce_to_representant` finds, through a table of conjugated edges that is right in
one direction only, an entry whose position is a conjugate of the one asked for
(`ReduceIs`), and so at the same distance (`ConjugateDistance`, `ReducedDistance`); the
equivalents that `build` goes through are *all* entries for conjugates of a position
(`EquivalentsAre`). `NeighboursAre` and `FilledFromNearer` say that the neighbours of
the entries at one distance are one apart from it at most, and have among them every
entry that is one farther.

The inductive invariant is `IInv == BuildInv /\ AskInv`:

* `Exact`: what is in an entry is its true distance modulo 3;
* `Filling`: all that is as near as the pass is filled, nothing is that is more than one
  farther, and the neighbours of the entries that the pass has passed are filled. This
  is what makes two bits suffice: an entry that looks to be at the distance of the pass
  may be nearer by a multiple of 3, but then all its neighbours are filled and nothing happens
  (`AtDepth`);
* the count is the number of filled entries, and `Full` once it is that of all entries;
* `Saved`: each row of the file, the one that is cut included, is of the table;
* `Descending` and `Told`: the rounds of `get_real` so far and the distance of the entry
  it is at make the distance of the position, and the two bits keep it.

`TableExact`, `CountExact` and `BoundReal` are `Spec => []TableIsExact`,
`[]CountIsExact` and `[]BoundIsReal`.

Of a file that was cut `TableIsExact` says only that what was loaded is right. The
proof of `Descending` shows more: an entry that is missing is taken for a distance
that 3 divides, and this can only happen to the entry that `get_real` starts from,
because all others are chosen by their value. So its first round may stay at the
same distance or go one farther, and every later one goes one nearer: it returns up
to 2 too much. The entries met after a move then correct what is wrong to a multiple
of 3, which is 0 or 3. `BoundNear` is `Spec => []BoundIsNear`: as long as no missing
entry is read after a move, the bound is never too small and too large by 3 at most.
Its condition, and that of `TypeCorrect`, is `ThreeToSpare`: `RelativePruning`,
which has 20 rows, must have one for 3 more than the farthest distance.

### The loop of the slice inverse

`NothingUnwrittenIsRead`: for every coordinate, whatever memory holds, no round reads
a number outside the written part of the table. The invariant is what the code never
says: what is left of the number, less what was read for this place, is smaller than
the number of ways to put the remaining edges below the next place (`Fits`). A round
that skips a place rules out exactly the ways that it read, by Pascal's rule
(`Pascal`); as long as a way is left there are enough places (`WaysNeedPlaces`), so
the number that the next round reads is a written one. Its only assumption is that
the argument is a coordinate (`CoordsAreCoordinates`).

### The node binding, for any numbers of calls, threads and addresses

`OwnAnswers` and `SafeMemory` are `Spec => []AnswersAreOwn` and `[]MemoryIsSafe`.
The invariant is about ownership: at any time an allocated Work is at one of four
places, queued, with a thread, solved, or with its callback (`Apart`,
`WorksAreUsed`), no two Works share a call or a cube (`NothingShared`,
`CubesAreUsed`), what is in them belongs to their call (`Contents`), and a call has
an answer only when its Work is gone or its callback runs (`Answered`). There is a
lemma per action. The only assumption is that `NULL` is none of the objects.

### Cubes and moves as texts, for any scrambles and sizes of the buffers

`HashIsReadBack`: for every permutation without reflected corners, a reachable cube or
not, `Hash2Permutation` has a defined result for `Hash` of it and gives it back. What a
place shows depends only on the cubie that is there and how it is turned, so it is
enough that the 24 ways for a corner and the 24 for an edge are recognised
(`CornersAreRecognized`, `EdgesAreRecognized`), and that the two tables of facelets
agree (`FaceletsAgree`). These assumptions have no parameter, and TLC evaluates them
completely.

`MovesAreRead`: whatever the moves, `parse_moves` reads back their names. The parser
has no notion of where a name begins; the proof goes from the end of the text to its
beginning, one name at a time (`NameIsRead`), since the character after a name is a
space and never one that would turn the move.

`CubesArrive` and `AnswersArrive` are `Spec => []CubeArrives` and `[]MovesArrive`. The
assumptions about the parameters are that a hash and its NUL fit in a buffer
(`PayloadSizes`), that scrambles are moves (`ScramblesAreMoves`) and that answers fit
(`SolutionsFit`; the code has 100 bytes, and 20 moves take 60). The invariant `IInv` says
where the hash is while a request travels, where its colours are if only they arrive, and
where the answer is: a buffer *holds* a text when its first characters are the text's and
a NUL follows (`Holds`). The text has no NUL of its own, so the scan ends there, whatever
stands behind (`TextIsRead`). Without the NUL the scan ends somewhere behind the colours,
since none of them is a NUL (`StartIsRead`), and what it reads more is not looked at
(`StartIsReadBack`). That the moves solve the cube comes from `SolvesIsASolution`: to take
back the moves in reverse order is to undo them.

### The timer

`ShortRunsStopOnTime`: if no duration is above 4294 seconds, the client stops when
its argument says. The wrapped product and its conversion give back the true number
of microseconds below 2^32.

### What only TLC checks

* Liveness, and the fairness in the refinements: the prover has no rule for fairness
  and `ENABLED`.
* `CoordinatesFollow` and `SolvedIsSeen` of `TurnedCube`: a proof would need facts about
  each of 11880 real slice coordinates and their orientations, which would have to be
  assumptions as large as the properties.
* `InverseIsRight` of `SliceInverse`: what the folds compute there for every number. TLC
  goes through all places and some orders of the edges.
* `LineIsObeyed` of `SolveLoop`: the layouts of lines that people type are an enumeration
  to begin with.

Induction over data is out of reach as the library has it, since its theorems take
an operator as parameter. For the recursive functions `Ball` and `Applied`, for the
folds behind `apply` and `move_names`, for the parser and for the order of the
queue, the proofs argue about a least number instead (`Smallest`, `Least`), and show
first that a function with the recursive equation exists (`BallDef`,
`SomethingFolds`, `SomethingFlattens`, `SomethingReads`). No module declares a
`RECURSIVE` operator; recursive functions and the folds of the community modules
stand in for loops.

## 5. Not modelled

* V8: the conversion of JavaScript objects to a cube, and scripts that pass something
  else. How libuv shares its pool with other work.
* `main.cpp` 10-296: tests, that is, assertions about tables; lines that begin with no
  command; what is echoed.
* `EdgePermutationCoordinate` (unused) and the FB and LR slice move tables with their
  inverses (used by tests only).
* TCP below the level of a buffer, `malloc` failing, `socket`, `bind` and
  `gethostbyname` failing, `worker_count` 0.
* Searches for permutations that are no cubes: undefined behaviour at
  `solve.cpp:285`, present in `ClientServer` as any outcome.
* Freeing memory (`deallocate`, `~PruningTable`), printing, `compile.sh`, `setdebug.h`.

## 6. The plan

Written, in this order: `RequestQueue`, `ClientQueue`, its proofs, `ClientServer`
(which composes the queue with the network and the clients), `PruningValues` and
its proofs, `Cube`, `TurnedCube`, `CubeSolver`, `SymCoordinates`, `PruningTable`,
`ClientTimer`; then `Coordinates`, `SliceInverse` and its proofs, `Service`,
`CubeTexts`, `Payload`, `SolveLoop`, `NodeBinding` and its proofs.

`CubeGroup`, `ClientServerProofs`, `CubeSolverProofs`, `PruningTableProofs` and
`PayloadProofs` came after these.

What could follow:

1. An abstract specification of the solver (a shortest solution in one step) that
   `CubeSolver` implements; `SolutionsAreOptimal` is the main part of it.
2. The assumptions of `SymCoordinates` for the real coordinates, from the permutations:
   with them `TableExact` and `ExactDistancesAreSound` would give `TableIsSound` for the
   real table, given that no position is farther than its 20 rows.
