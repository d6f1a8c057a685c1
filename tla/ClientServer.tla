---------------------------- MODULE ClientServer ----------------------------
(***************************************************************************)
(* client.cpp against server.cpp: the threads of some client programs      *)
(* connect, send a cube, wait for its solution, check it and count it, one *)
(* connection at a time, until their main thread tells them to stop.  The  *)
(* server boots, accepts connections into the queue of RequestQueue (which *)
(* ClientQueue implements) and its workers serve them.                     *)
(*                                                                         *)
(* TCP is reduced to what the two programs can see of it: a connection is  *)
(* complete once the kernel has it in the listen backlog, each direction   *)
(* carries one message of 100 bytes, and an end that closes or dies is     *)
(* noticed by the other.                                                   *)
(***************************************************************************)
EXTENDS Naturals, FiniteSets, Sequences

CONSTANTS
  Program,      \* the client programs
  Client,       \* their connection threads, and
  ProgramOf,    \*   the program each is a thread of
  CubeOf,       \* the cube each thread wants solved
  Worker,       \* the worker threads of the server
  BacklogLimit, \* connections that fit in the listen backlog
  FdLimit,      \* sockets the server can have open at a time
  MayBeKilled,  \* can client programs be killed from outside?
  MaxRequests,  \* bound: requests per thread after which it waits for the stop
  NULL

Cube == {CubeOf[c] : c \in Client}
Conn == Client \X (1 .. MaxRequests)  \* <<c, n>>: the n-th connection of c

ASSUME FinitelyManyThreads == IsFiniteSet(Client) /\ IsFiniteSet(Worker)
ASSUME ClientsBelongToPrograms == ProgramOf \in [Client -> Program]
ASSUME LimitsAreNumbers ==
  BacklogLimit \in Nat \ {0} /\ FdLimit \in Nat \ {0} /\ MaxRequests \in Nat \ {0}
ASSUME KillingIsOptional == MayBeKilled \in BOOLEAN
ASSUME NullIsNothing == NULL \notin Cube /\ NULL \notin Conn /\ NULL \notin Client

VARIABLES
  (* the network *)
  owner,         \* the client thread that has its end of a connection open
  request,       \* the cube sent over a connection
  reply,         \* the cube whose solution came back
  (* the server *)
  spc,           \* its main thread
  backlog,       \* connections the kernel completed, not accepted yet
  open,          \* sockets accepted and not closed
  waiting, serving, \* the client queue
  wpc,           \* worker: where it is in its loop
  buffer,        \* worker: what its buffer holds
  (* the client programs *)
  cpc,           \* thread: where it is in its loop
  conn,          \* thread: its connection
  answer,        \* thread: the cube that its buffer holds the solution of
  tmp,           \* thread: the value it read of request_count
  completed,     \* thread: connections it closed successfully (history)
  mpc,           \* main: where it is
  request_count, request_count_lock, should_stop \* shared by a program's threads

network == <<owner, request, reply>>
server == <<spc, backlog, open, waiting, serving, wpc, buffer>>
thread == <<cpc, conn, answer, tmp, completed>>
shared == <<mpc, request_count, request_count_lock, should_stop>>
vars == <<network, server, thread, shared>>

Q == INSTANCE RequestQueue WITH Socket <- Conn, NoSocket <- NULL

(* What a worker's buffer can hold: what malloc() left there, a request,   *)
(* or the moves it wrote over the request.                                 *)
Garbage == [kind |-> "garbage", cube |-> NULL]
Message(kind, cube) == [kind |-> kind, cube |-> cube]
Messages == {Garbage} \cup [kind : {"cube", "moves"}, cube : Cube]

ServerPc == {"off", "loading", "accepting", "dead"}
WorkerPc == {"wait", "recv", "solve", "hung", "write", "close"}
ClientPc == {"connect", "send", "recv", "check", "lock", "read", "write",
             "unlock", "test", "done", "exited"}
MainPc == {"sleep", "join", "reported", "exited"}

Threads(p) == {c \in Client : ProgramOf[c] = p}

(* The connections that the threads of p closed successfully. *)
Closed(p) == {k \in Conn : ProgramOf[k[1]] = p /\ k[2] <= completed[k[1]]}

-----------------------------------------------------------------------------
Init ==
  /\ owner = [k \in Conn |-> NULL]
  /\ request = [k \in Conn |-> NULL]
  /\ reply = [k \in Conn |-> NULL]
  /\ spc = "off"
  /\ backlog = <<>>
  /\ open = {}
  /\ Q!QueueInit
  /\ wpc = [w \in Worker |-> "wait"]
  /\ buffer = [w \in Worker |-> Garbage]
  /\ cpc = [c \in Client |-> "connect"]
  /\ conn = [c \in Client |-> NULL]
  /\ answer = [c \in Client |-> NULL]
  /\ tmp = [c \in Client |-> 0]
  /\ completed = [c \in Client |-> 0]
  /\ mpc = [p \in Program |-> "sleep"]
  /\ request_count = [p \in Program |-> 0]
  /\ request_count_lock = [p \in Program |-> 1]
  /\ should_stop = [p \in Program |-> FALSE]

-----------------------------------------------------------------------------
(* The main thread of the server. *)

(* socket, bind and listen: from here on clients can connect, although     *)
(* nobody serves them before the table is in memory.                       *)
Listen ==
  /\ spc = "off"
  /\ spc' = "loading"
  /\ UNCHANGED <<backlog, open, waiting, serving, wpc, buffer, network, thread, shared>>

(* Load the pruning table, set up the queue and start the workers. *)
Load ==
  /\ spc = "loading"
  /\ spc' = "accepting"
  /\ UNCHANGED <<backlog, open, waiting, serving, wpc, buffer, network, thread, shared>>

(* accept() and the enqueue of ClientQueue. *)
Accept ==
  /\ spc = "accepting"
  /\ backlog # <<>>
  /\ Cardinality(open) < FdLimit
  /\ backlog' = Tail(backlog)
  /\ open' = open \cup {Head(backlog)}
  /\ Q!Put(Head(backlog))
  /\ UNCHANGED <<spc, wpc, buffer, network, thread, shared>>

(* exit(1), or a crash: the kernel closes every socket. *)
ServerExit ==
  /\ spc' = "dead"
  /\ backlog' = <<>>
  /\ open' = {}
  /\ waiting' = <<>>
  /\ serving' = [w \in Worker |-> NULL]
  /\ UNCHANGED <<wpc, buffer, network, thread, shared>>

(* accept() fails because too many sockets are open. *)
AcceptFails ==
  /\ spc = "accepting"
  /\ backlog # <<>>
  /\ Cardinality(open) >= FdLimit
  /\ ServerExit

-----------------------------------------------------------------------------
(* A worker of the server. *)

WorkerGoes(w, from, to) ==
  /\ spc = "accepting"
  /\ wpc[w] = from
  /\ wpc' = [wpc EXCEPT ![w] = to]

Take(w) ==
  /\ WorkerGoes(w, "wait", "recv")
  /\ Q!Take(w)
  /\ UNCHANGED <<spc, backlog, open, buffer, network, thread, shared>>

(* Mistake: recv() does not wait for the client to send. *)
RecvTooEarly(w) ==
  /\ WorkerGoes(w, "recv", "solve")
  /\ UNCHANGED <<spc, backlog, open, waiting, serving, buffer, network, thread, shared>>

(* Mistake: recv() again and again until the whole request is there, which *)
(* takes the end of the stream for a message that is not complete yet.     *)
RecvUntilWhole(w) ==
  LET k == serving[w] IN
  /\ WorkerGoes(w, "recv", "solve")
  /\ request[k] # NULL
  /\ buffer' = [buffer EXCEPT ![w] = Message("cube", request[k])]
  /\ UNCHANGED <<spc, backlog, open, waiting, serving, network, thread, shared>>

(* recv() waits for the whole request, or for the end of the stream, and   *)
(* then leaves the buffer as it is.                                        *)
Recv(w) ==
  LET k == serving[w] IN
  /\ WorkerGoes(w, "recv", "solve")
  /\ \/ /\ request[k] # NULL
        /\ buffer' = [buffer EXCEPT ![w] = Message("cube", request[k])]
     \/ /\ request[k] = NULL /\ owner[k] = NULL
        /\ UNCHANGED buffer
  /\ UNCHANGED <<spc, backlog, open, waiting, serving, network, thread, shared>>

(* The host of a client that has gone may reset the connection: recv() is  *)
(* negative, and the whole server exits.                                   *)
RecvFails(w) ==
  /\ spc = "accepting" /\ wpc[w] = "recv"
  /\ owner[serving[w]] = NULL
  /\ ServerExit

(* Solve what is in the buffer and write the moves over it.  The search    *)
(* for a cube that is not one is undefined: it may find moves, for some    *)
(* cube or other, or never end, or bring the server down.                  *)
Solve(w) ==
  /\ WorkerGoes(w, "solve", "write")
  /\ \E cube \in Cube :
       /\ buffer[w].kind = "cube" => cube = buffer[w].cube
       /\ buffer' = [buffer EXCEPT ![w] = Message("moves", cube)]
  /\ UNCHANGED <<spc, backlog, open, waiting, serving, network, thread, shared>>

Hang(w) ==
  /\ WorkerGoes(w, "solve", "hung")
  /\ buffer[w].kind # "cube"
  /\ UNCHANGED <<spc, backlog, open, waiting, serving, buffer, network, thread, shared>>

Crash(w) ==
  /\ spc = "accepting" /\ wpc[w] = "solve"
  /\ buffer[w].kind # "cube"
  /\ ServerExit

(* write() to a client that has gone is lost, unless the reset is known    *)
(* already.                                                                *)
Write(w) ==
  LET k == serving[w] IN
  /\ WorkerGoes(w, "write", "close")
  /\ reply' = IF owner[k] = NULL THEN reply ELSE [reply EXCEPT ![k] = buffer[w].cube]
  /\ UNCHANGED <<spc, backlog, open, waiting, serving, buffer, owner, request, thread, shared>>

(* write() on a connection that was reset: the signal, or the negative     *)
(* result, ends the server.                                                *)
WriteFails(w) ==
  /\ spc = "accepting" /\ wpc[w] = "write"
  /\ owner[serving[w]] = NULL
  /\ ServerExit

(* Mistake: the worker forgets close(). *)
CloseForgotten(w) ==
  /\ WorkerGoes(w, "close", "wait")
  /\ Q!Finish(w)
  /\ UNCHANGED <<spc, backlog, open, buffer, network, thread, shared>>

Close(w) ==
  /\ WorkerGoes(w, "close", "wait")
  /\ open' = open \ {serving[w]}
  /\ Q!Finish(w)
  /\ UNCHANGED <<spc, backlog, buffer, network, thread, shared>>

-----------------------------------------------------------------------------
(* A connection thread of a client program. *)

Goes(c, from, to) == cpc[c] = from /\ cpc' = [cpc EXCEPT ![c] = to]

(* exit(1) in any thread, or a kill, ends the whole program: the kernel    *)
(* closes its connections.                                                 *)
Exit(p) ==
  /\ cpc' = [c \in Client |-> IF ProgramOf[c] = p THEN "exited" ELSE cpc[c]]
  /\ conn' = [c \in Client |-> IF ProgramOf[c] = p THEN NULL ELSE conn[c]]
  /\ owner' = [k \in Conn |-> IF owner[k] \in Threads(p) THEN NULL ELSE owner[k]]
  /\ mpc' = [mpc EXCEPT ![p] = "exited"]
  /\ UNCHANGED <<request, reply, server, answer, tmp, completed,
                 request_count, request_count_lock, should_stop>>

ServerListens == spc \in {"loading", "accepting"}

Connect(c) ==
  /\ Goes(c, "connect", "send")
  /\ ServerListens
  /\ Len(backlog) < BacklogLimit
  /\ LET k == <<c, completed[c] + 1>> IN
       /\ conn' = [conn EXCEPT ![c] = k]
       /\ owner' = [owner EXCEPT ![k] = c]
       /\ backlog' = Append(backlog, k)
  /\ UNCHANGED <<request, reply, spc, open, waiting, serving, wpc, buffer,
                 answer, tmp, completed, shared>>

(* connect() is refused, or times out while the backlog is full. *)
ConnectFails(c) ==
  /\ cpc[c] = "connect"
  /\ ~ ServerListens \/ Len(backlog) >= BacklogLimit
  /\ Exit(ProgramOf[c])

Send(c) ==
  /\ Goes(c, "send", "recv")
  /\ spc # "dead"
  /\ request' = [request EXCEPT ![conn[c]] = CubeOf[c]]
  /\ UNCHANGED <<owner, reply, server, conn, answer, tmp, completed, shared>>

(* recv() waits for the reply, or for the end of the stream: then the      *)
(* thread takes the request it has in its buffer for moves.                *)
Receive(c) ==
  /\ Goes(c, "recv", "check")
  /\ \/ reply[conn[c]] # NULL
     \/ spc = "dead"
  /\ answer' = [answer EXCEPT ![c] = reply[conn[c]]]
  /\ UNCHANGED <<network, server, conn, tmp, completed, shared>>

(* The server died: write() or recv() fails. *)
LoseServer(c) ==
  /\ spc = "dead"
  /\ \/ cpc[c] = "send"
     \/ cpc[c] = "recv" /\ reply[conn[c]] = NULL
  /\ Exit(ProgramOf[c])

(* The moves solve the cube; the connection is closed. *)
Check(c) ==
  /\ Goes(c, "check", "lock")
  /\ answer[c] = CubeOf[c]
  /\ owner' = [owner EXCEPT ![conn[c]] = NULL]
  /\ conn' = [conn EXCEPT ![c] = NULL]
  /\ answer' = [answer EXCEPT ![c] = NULL]
  /\ completed' = [completed EXCEPT ![c] = @ + 1]
  /\ UNCHANGED <<request, reply, server, tmp, shared>>

CheckFails(c) ==
  /\ cpc[c] = "check"
  /\ answer[c] # CubeOf[c]
  /\ Exit(ProgramOf[c])

(* Mistake: request_count is not protected. *)
LockSkipped(c) ==
  /\ Goes(c, "lock", "read")
  /\ UNCHANGED <<network, server, conn, answer, tmp, completed, shared>>

LockCount(c) ==
  LET p == ProgramOf[c] IN
  /\ Goes(c, "lock", "read")
  /\ request_count_lock[p] > 0
  /\ request_count_lock' = [request_count_lock EXCEPT ![p] = @ - 1]
  /\ UNCHANGED <<network, server, conn, answer, tmp, completed, mpc, request_count, should_stop>>

(* request_count += 1 is a load and a store. *)
ReadCount(c) ==
  /\ Goes(c, "read", "write")
  /\ tmp' = [tmp EXCEPT ![c] = request_count[ProgramOf[c]]]
  /\ UNCHANGED <<network, server, conn, answer, completed, shared>>

WriteCount(c) ==
  /\ Goes(c, "write", "unlock")
  /\ request_count' = [request_count EXCEPT ![ProgramOf[c]] = tmp[c] + 1]
  /\ tmp' = [tmp EXCEPT ![c] = 0]
  /\ UNCHANGED <<network, server, conn, answer, completed, mpc, request_count_lock, should_stop>>

UnlockCount(c) ==
  /\ Goes(c, "unlock", "test")
  /\ request_count_lock' = [request_count_lock EXCEPT ![ProgramOf[c]] = @ + 1]
  /\ UNCHANGED <<network, server, conn, answer, tmp, completed, mpc, request_count, should_stop>>

(* Mistake: the thread looks at should_stop before the first request only, *)
(* and goes on for ever.                                                   *)
TestTooEarly(c) ==
  /\ Goes(c, "test", IF completed[c] < MaxRequests THEN "connect" ELSE "test")
  /\ UNCHANGED <<network, server, conn, answer, tmp, completed, shared>>

(* Return if the main thread said so, otherwise start over. *)
Test(c) ==
  /\ \/ Goes(c, "test", "done") /\ should_stop[ProgramOf[c]]
     \/ Goes(c, "test", "connect") /\ ~ should_stop[ProgramOf[c]] /\ completed[c] < MaxRequests
  /\ UNCHANGED <<network, server, conn, answer, tmp, completed, shared>>

-----------------------------------------------------------------------------
(* The main thread of a client program. *)

MainGoes(p, from, to) == mpc[p] = from /\ mpc' = [mpc EXCEPT ![p] = to]

(* usleep() returns. *)
Stop(p) ==
  /\ MainGoes(p, "sleep", "join")
  /\ should_stop' = [should_stop EXCEPT ![p] = TRUE]
  /\ UNCHANGED <<network, server, thread, request_count, request_count_lock>>

(* All threads are joined; the figures are printed. *)
Report(p) ==
  /\ MainGoes(p, "join", "reported")
  /\ \A c \in Threads(p) : cpc[c] = "done"
  /\ UNCHANGED <<network, server, thread, request_count, request_count_lock, should_stop>>

Kill(p) ==
  /\ MayBeKilled
  /\ mpc[p] \in {"sleep", "join"}
  /\ Exit(p)

-----------------------------------------------------------------------------
ServerMain == Listen \/ Load \/ Accept \/ AcceptFails

WorkerStep(w) ==
  Take(w) \/ Recv(w) \/ Solve(w) \/ Hang(w) \/ Crash(w) \/ Write(w) \/ Close(w)

Reset(w) == RecvFails(w) \/ WriteFails(w)

ClientStep(c) ==
  \/ Connect(c) \/ ConnectFails(c) \/ Send(c) \/ Receive(c) \/ LoseServer(c)
  \/ Check(c) \/ CheckFails(c)
  \/ LockCount(c) \/ ReadCount(c) \/ WriteCount(c) \/ UnlockCount(c) \/ Test(c)

MainStep(p) == Stop(p) \/ Report(p)

(* The client programs are over: the server waits for others for ever. *)
Over(p) == mpc[p] \in {"reported", "exited"}
AllOver == (\A p \in Program : Over(p)) /\ UNCHANGED vars

Next ==
  \/ ServerMain
  \/ \E w \in Worker : WorkerStep(w) \/ Reset(w)
  \/ \E c \in Client : ClientStep(c)
  \/ \E p \in Program : MainStep(p) \/ Kill(p)
  \/ AllOver

(* Every thread that can run runs, connections are made and messages       *)
(* arrive; nobody has to kill a program and no connection has to be reset. *)
Fairness ==
  /\ WF_vars(ServerMain)
  /\ \A w \in Worker : WF_vars(WorkerStep(w))
  /\ \A c \in Client : WF_vars(ClientStep(c))
  /\ \A p \in Program : WF_vars(MainStep(p))

Spec == Init /\ [][Next]_vars

FairSpec == Spec /\ Fairness

-----------------------------------------------------------------------------
(* Properties. *)

(* Every variable stays in its type. *)
TypeOK ==
  /\ owner \in [Conn -> Client \cup {NULL}]
  /\ request \in [Conn -> Cube \cup {NULL}]
  /\ reply \in [Conn -> Cube \cup {NULL}]
  /\ spc \in ServerPc
  /\ backlog \in Seq(Conn) /\ waiting \in Seq(Conn)
  /\ open \subseteq Conn
  /\ serving \in [Worker -> Conn \cup {NULL}]
  /\ wpc \in [Worker -> WorkerPc]
  /\ buffer \in [Worker -> Messages]
  /\ cpc \in [Client -> ClientPc]
  /\ conn \in [Client -> Conn \cup {NULL}]
  /\ answer \in [Client -> Cube \cup {NULL}]
  /\ tmp \in [Client -> Nat] /\ completed \in [Client -> Nat]
  /\ mpc \in [Program -> MainPc]
  /\ request_count \in [Program -> Nat]
  /\ request_count_lock \in [Program -> {0, 1}]
  /\ should_stop \in [Program -> BOOLEAN]

(* While the server is up, a client gets the solution of the cube it sent, *)
(* whatever the workers answer to others and whichever other clients die:  *)
(* the buffer a worker keeps from connection to connection never carries   *)
(* the moves of one over to the next (server.cpp:88-133).                  *)
AnswersAreRight ==
  \A c \in Client : cpc[c] = "check" =>
    answer[c] = CubeOf[c] \/ (answer[c] = NULL /\ spc = "dead")

(* "Processed n requests" (client.cpp:256) is the number of connections    *)
(* its threads closed successfully, none counted twice or lost.            *)
CountIsExact ==
  \A p \in Program : mpc[p] = "reported" =>
    request_count[p] = Cardinality(Closed(p))

(* The workers keep up with close(): the server never has more sockets     *)
(* open than there are clients, and one for each worker about to close its *)
(* own while the client is already back with the next request.             *)
SocketsAreBounded ==
  Cardinality(open) <= Cardinality(Client) + Cardinality({w \in Worker : wpc[w] = "close"})

(* "solve the received cube" (server.cpp:123): what a worker gives to the  *)
(* solver came over the connection it serves.                              *)
SolvesTheReceivedCube ==
  \A w \in Worker : spc = "accepting" /\ wpc[w] = "solve" =>
    buffer[w] = Message("cube", request[serving[w]])

(* A program that was told to stop ends, whatever its threads were doing.  *)
ProgramsStop == \A p \in Program : should_stop[p] ~> Over(p)

(* A connection that the server's kernel completed and that the server has *)
(* not closed, whatever became of the client.                              *)
Held(k) == k \in open \/ \E i \in DOMAIN backlog : backlog[i] = k

(* A client that is killed, while it waits in the backlog or in the queue, *)
(* with or without its request on the way, does not keep its socket: as    *)
(* long as the server is up and one worker is left that no nonsense has    *)
(* caught (server.cpp:103-123), every connection is closed in the end,     *)
(* except those that the caught workers serve.                             *)
SocketsAreReleased ==
  \A k \in Conn : Held(k) ~>
    \/ ~ Held(k)
    \/ \E w \in Worker : wpc[w] = "hung" /\ serving[w] = k
    \/ \A w \in Worker : wpc[w] = "hung"

(* There is room for everybody: the backlog (128 connections) and the      *)
(* descriptors of the server are enough for all threads, and nobody is     *)
(* killed.                                                                 *)
Roomy ==
  /\ ~ MayBeKilled
  /\ BacklogLimit >= Cardinality(Client)
  /\ FdLimit >= Cardinality(Client) + Cardinality(Worker)

(* The client programs see a Service: with descriptors for all, a backlog  *)
(* for all and nobody killed, once the port listens no connection fails,   *)
(* the server never exits, every request is answered with the solution of  *)
(* its own cube and counted exactly once.                                  *)
DoingOf(pc) ==
  CASE pc \in {"connect", "send", "unlock", "test"} -> "idle"
    [] pc = "recv" -> "asked"
    [] pc = "check" -> "answered"
    [] pc \in {"lock", "read", "write"} -> "verified"
    [] pc \in {"done", "exited"} -> "over"

Service == INSTANCE Service WITH
  NoCube <- NULL,
  up <- ServerListens,
  doing <- [c \in Client |-> DoingOf(cpc[c])],
  got <- answer,
  counted <- request_count,
  told <- should_stop,
  outcome <- [p \in Program |-> IF Over(p) THEN mpc[p] ELSE "running"]

ImplementsService == Service!ServiceSpec
=============================================================================
