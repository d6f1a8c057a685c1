---------------------------- MODULE ClientQueue -----------------------------
(***************************************************************************)
(* The client queue of server.cpp, pointer by pointer: a doubly linked     *)
(* list between two sentinels, a semaphore `length' that counts the        *)
(* clients in it and a binary semaphore `mutex' around every change.  The  *)
(* main thread pushes at the lead end, the workers pop at the lead_last    *)
(* end, read the socket out of the popped node after they have let go of   *)
(* the mutex, and free it.                                                 *)
(*                                                                         *)
(* One action is one access of a thread to memory the others can see.      *)
(***************************************************************************)
EXTENDS Naturals, FiniteSets, Sequences

CONSTANTS
  Worker,    \* the worker threads (worker_count of them)
  Socket,    \* the numbers accept() can return
  Node,      \* the heap addresses malloc() can return
  Lead,      \* the sentinel queue.lead
  LeadLast,  \* the sentinel queue.lead_last
  NULL

Sentinel == {Lead, LeadLast}
Cell == Node \cup Sentinel

ASSUME CellsAreDistinct ==
  /\ Lead # LeadLast
  /\ Lead \notin Node /\ LeadLast \notin Node
  /\ NULL \notin Cell /\ NULL \notin Socket

ASSUME FiniteThreads == IsFiniteSet(Worker)
ASSUME FiniteMemory == IsFiniteSet(Node)

VARIABLES
  next, before,   \* the two pointers of every cell
  clientsockfd,   \* the socket stored in every node
  heap,           \* the nodes that are allocated
  length, mutex,  \* the values of the two semaphores
  open,           \* the sockets accepted and not yet closed
  mpc,            \* main: where it is in its accept loop
  accepted,       \* main: its local clientsockfd
  newclient, current_first, \* main: its local pointers
  pc,             \* worker: where it is in its loop
  oldlast, newlast,         \* worker: its local pointers
  serving         \* worker: its local clientsockfd

listVars == <<next, before, clientsockfd>>
mainVars == <<mpc, accepted, newclient, current_first>>
workerVars == <<pc, oldlast, newlast, serving>>
vars == <<listVars, heap, length, mutex, open, mainVars, workerVars>>

MainPc == {"accept", "lock", "alloc", "front", "back", "store", "unlock", "signal"}
WorkerPc == {"wait", "lock", "read", "next", "before", "unlock", "take", "serve"}

-----------------------------------------------------------------------------
(* start_server: the empty list, and the semaphores at 0 and 1. *)
Init ==
  /\ next = [c \in Cell |-> IF c = Lead THEN LeadLast ELSE NULL]
  /\ before = [c \in Cell |-> IF c = LeadLast THEN Lead ELSE NULL]
  /\ clientsockfd = [n \in Node |-> NULL]
  /\ heap = {}
  /\ length = 0
  /\ mutex = 1
  /\ open = {}
  /\ mpc = "accept"
  /\ accepted = NULL
  /\ newclient = NULL
  /\ current_first = NULL
  /\ pc = [w \in Worker |-> "wait"]
  /\ oldlast = [w \in Worker |-> NULL]
  /\ newlast = [w \in Worker |-> NULL]
  /\ serving = [w \in Worker |-> NULL]

-----------------------------------------------------------------------------
(* The main thread. *)

MainGoes(from, to) == mpc = from /\ mpc' = to

(* accept() returns a number that no open socket has. *)
Accept ==
  /\ MainGoes("accept", "lock")
  /\ \E s \in Socket \ open : accepted' = s /\ open' = open \cup {s}
  /\ UNCHANGED <<listVars, heap, length, mutex, newclient, current_first, workerVars>>

MainLock ==
  /\ MainGoes("lock", "alloc")
  /\ mutex > 0
  /\ mutex' = mutex - 1
  /\ UNCHANGED <<listVars, heap, length, open, accepted, newclient, current_first, workerVars>>

(* malloc() a node and find the cell it will be linked in front of. *)
Allocate ==
  /\ MainGoes("alloc", "front")
  /\ \E n \in Node \ heap : newclient' = n /\ heap' = heap \cup {n}
  /\ current_first' = next[Lead]
  /\ UNCHANGED <<listVars, length, mutex, open, accepted, workerVars>>

(* The pointers of the new node, and the forward pointer to it. *)
LinkFront ==
  /\ MainGoes("front", "back")
  /\ before' = [before EXCEPT ![newclient] = Lead]
  /\ next' = [next EXCEPT ![newclient] = current_first, ![Lead] = newclient]
  /\ UNCHANGED <<clientsockfd, heap, length, mutex, open, accepted, newclient, current_first, workerVars>>

(* The backward pointer: the node is in the list, its socket not yet in it. *)
LinkBack ==
  /\ MainGoes("back", "store")
  /\ before' = [before EXCEPT ![current_first] = newclient]
  /\ UNCHANGED <<next, clientsockfd, heap, length, mutex, open, accepted, newclient, current_first, workerVars>>

(* Mistake: the socket is not stored in the node. *)
StoreNothing ==
  /\ MainGoes("store", "unlock")
  /\ UNCHANGED <<listVars, heap, length, mutex, open, accepted, newclient, current_first, workerVars>>

StoreSocket ==
  /\ MainGoes("store", "unlock")
  /\ clientsockfd' = [clientsockfd EXCEPT ![newclient] = accepted]
  /\ UNCHANGED <<next, before, heap, length, mutex, open, accepted, newclient, current_first, workerVars>>

MainUnlock ==
  /\ MainGoes("unlock", "signal")
  /\ mutex' = mutex + 1
  /\ UNCHANGED <<listVars, heap, length, open, accepted, newclient, current_first, workerVars>>

(* Mistake: sem_post(&queue.length) is forgotten. *)
SignalNobody ==
  /\ MainGoes("signal", "accept")
  /\ accepted' = NULL /\ newclient' = NULL /\ current_first' = NULL
  /\ UNCHANGED <<listVars, heap, length, mutex, open, workerVars>>

(* Announce the client; the locals of this round of the loop are gone. *)
Signal ==
  /\ MainGoes("signal", "accept")
  /\ length' = length + 1
  /\ accepted' = NULL /\ newclient' = NULL /\ current_first' = NULL
  /\ UNCHANGED <<listVars, heap, mutex, open, workerVars>>

-----------------------------------------------------------------------------
(* A worker thread. *)

Goes(w, from, to) == pc[w] = from /\ pc' = [pc EXCEPT ![w] = to]

Wait(w) ==
  /\ Goes(w, "wait", "lock")
  /\ length > 0
  /\ length' = length - 1
  /\ UNCHANGED <<listVars, heap, mutex, open, mainVars, oldlast, newlast, serving>>

(* Mistake: the worker does not wait for the mutex. *)
LockSkipped(w) ==
  /\ Goes(w, "lock", "read")
  /\ UNCHANGED <<listVars, heap, length, mutex, open, mainVars, oldlast, newlast, serving>>

Lock(w) ==
  /\ Goes(w, "lock", "read")
  /\ mutex > 0
  /\ mutex' = mutex - 1
  /\ UNCHANGED <<listVars, heap, length, open, mainVars, oldlast, newlast, serving>>

(* Find the node to pop and the one that will be the last. *)
ReadLast(w) ==
  /\ Goes(w, "read", "next")
  /\ oldlast' = [oldlast EXCEPT ![w] = before[LeadLast]]
  /\ newlast' = [newlast EXCEPT ![w] = before[before[LeadLast]]]
  /\ UNCHANGED <<listVars, heap, length, mutex, open, mainVars, serving>>

(* Mistakes: one of the two pointers is not written. *)
UnlinkNextSkipped(w) ==
  /\ Goes(w, "next", "before")
  /\ UNCHANGED <<listVars, heap, length, mutex, open, mainVars, oldlast, newlast, serving>>

UnlinkBeforeSkipped(w) ==
  /\ Goes(w, "before", "unlock")
  /\ UNCHANGED <<listVars, heap, length, mutex, open, mainVars, oldlast, newlast, serving>>

UnlinkNext(w) ==
  /\ Goes(w, "next", "before")
  /\ next' = [next EXCEPT ![newlast[w]] = LeadLast]
  /\ UNCHANGED <<before, clientsockfd, heap, length, mutex, open, mainVars, oldlast, newlast, serving>>

UnlinkBefore(w) ==
  /\ Goes(w, "before", "unlock")
  /\ before' = [before EXCEPT ![LeadLast] = newlast[w]]
  /\ UNCHANGED <<next, clientsockfd, heap, length, mutex, open, mainVars, oldlast, newlast, serving>>

Unlock(w) ==
  /\ Goes(w, "unlock", "take")
  /\ mutex' = mutex + 1
  /\ UNCHANGED <<listVars, heap, length, open, mainVars, oldlast, newlast, serving>>

(* Outside the mutex: read the socket out of the node and free it. *)
TakeSocket(w) ==
  /\ Goes(w, "take", "serve")
  /\ serving' = [serving EXCEPT ![w] = clientsockfd[oldlast[w]]]
  /\ heap' = heap \ {oldlast[w]}
  /\ oldlast' = [oldlast EXCEPT ![w] = NULL]
  /\ newlast' = [newlast EXCEPT ![w] = NULL]
  /\ UNCHANGED <<listVars, length, mutex, open, mainVars>>

(* recv, solve and write do not touch the queue; close() frees the number. *)
Serve(w) ==
  /\ Goes(w, "serve", "wait")
  /\ open' = open \ {serving[w]}
  /\ serving' = [serving EXCEPT ![w] = NULL]
  /\ UNCHANGED <<listVars, heap, length, mutex, mainVars, oldlast, newlast>>

-----------------------------------------------------------------------------
MainStep ==
  \/ Accept \/ MainLock \/ Allocate \/ LinkFront \/ LinkBack
  \/ StoreSocket \/ MainUnlock \/ Signal

WorkerStep(w) ==
  \/ Wait(w) \/ Lock(w) \/ ReadLast(w) \/ UnlinkNext(w) \/ UnlinkBefore(w)
  \/ Unlock(w) \/ TakeSocket(w) \/ Serve(w)

Next == MainStep \/ \E w \in Worker : WorkerStep(w)

(* The scheduler runs every thread that can run; nobody has to connect.    *)
(* sem_wait gives no thread precedence over another: weak fairness only.   *)
Fairness ==
  /\ WF_vars(MainStep /\ mpc # "accept")
  /\ \A w \in Worker : WF_vars(WorkerStep(w))

Spec == Init /\ [][Next]_vars

FairSpec == Spec /\ Fairness

-----------------------------------------------------------------------------
(* The list, as the sequence of its nodes: the oldest, before lead_last,   *)
(* first.                                                                  *)

CellAt(q, i) == IF i = 0 THEN LeadLast ELSE IF i > Len(q) THEN Lead ELSE q[i]

(* Following `before' from lead_last to lead visits exactly q. *)
LinkedBack(q) == \A i \in 0 .. Len(q) : before[CellAt(q, i)] = CellAt(q, i + 1)

NodeSeqs == UNION {[1 .. n -> Node] : n \in 0 .. Cardinality(Node)}

(* The nodes of the list, as the workers will pop them. *)
Order == CHOOSE q \in NodeSeqs : LinkedBack(q)

(* The critical sections of the two sides. *)
MainLocked == mpc \in {"alloc", "front", "back", "store", "unlock"}
Locked(w) == pc[w] \in {"read", "next", "before", "unlock"}

(* The workers that have taken a token of `length' but no node yet. *)
Entitled == {w \in Worker : pc[w] \in {"lock", "read", "next", "before"}}

(* Between popping a node and freeing it the worker is its only owner. *)
Popped(w) == pc[w] \in {"unlock", "take"}

-----------------------------------------------------------------------------
(* Properties. *)

(* Every variable stays in its type; in particular the binary semaphore is *)
(* never posted twice and no pointer leaves the list's memory.             *)
TypeOK ==
  /\ next \in [Cell -> Cell \cup {NULL}]
  /\ before \in [Cell -> Cell \cup {NULL}]
  /\ clientsockfd \in [Node -> Socket \cup {NULL}]
  /\ heap \subseteq Node
  /\ length \in Nat
  /\ mutex \in {0, 1}
  /\ open \subseteq Socket
  /\ mpc \in MainPc
  /\ accepted \in Socket \cup {NULL}
  /\ newclient \in Node \cup {NULL}
  /\ current_first \in Cell \cup {NULL}
  /\ pc \in [Worker -> WorkerPc]
  /\ oldlast \in [Worker -> Cell \cup {NULL}]
  /\ newlast \in [Worker -> Cell \cup {NULL}]
  /\ serving \in [Worker -> Socket \cup {NULL}]

(* The semaphore `mutex' keeps the accept thread and all the workers out   *)
(* of each other's critical sections (server.cpp:93-99 and 197-206).       *)
MutualExclusion ==
  /\ \A v, w \in Worker : Locked(v) /\ Locked(w) => v = w
  /\ \A w \in Worker : ~ (Locked(w) /\ MainLocked)

(* No thread uses a pointer to freed memory, no worker pops (and frees) a  *)
(* sentinel because the list was empty, and no node is freed twice: it is  *)
(* the pop with no emptiness test (server.cpp:94-101) that is at stake.    *)
PointersAreSafe ==
  /\ mpc \in {"front", "back"} =>
       newclient \in heap /\ current_first \in heap \cup {LeadLast}
  /\ mpc = "store" => newclient \in heap
  /\ \A w \in Worker :
       /\ pc[w] \in {"next", "before"} => newlast[w] \in heap \cup {Lead}
       /\ pc[w] \in {"next", "before", "unlock", "take"} => oldlast[w] \in heap
  /\ \A v, w \in Worker :
       Popped(v) /\ Popped(w) /\ oldlast[v] = oldlast[w] => v = w

(* The socket a worker answers for: in the node it popped, then its own.   *)
SocketOf(w) == IF Popped(w) THEN clientsockfd[oldlast[w]] ELSE serving[w]

(* The inductive invariant behind the properties here, about the sequence  *)
(* q of the nodes in the list.                                             *)
MutexInv ==
  /\ mutex = 1 => ~ MainLocked /\ \A w \in Worker : ~ Locked(w)
  /\ MutualExclusion

Owed == IF mpc \in {"store", "unlock", "signal"} THEN 1 ELSE 0

InList(q, c) == \E i \in 1 .. Len(q) : q[i] = c

ChainInv(q) ==
  /\ LinkedBack(q)
  /\ \A i, j \in 1 .. Len(q) : q[i] = q[j] => i = j
  /\ \A i \in 1 .. Len(q) : q[i] \in heap
  /\ next[Lead] = IF mpc = "back" THEN newclient
                  ELSE IF Len(q) = 1 /\ \E w \in Worker : pc[w] = "before"
                       THEN LeadLast
                       ELSE CellAt(q, Len(q))

(* `length' announces every client exactly once: the nodes in the list are *)
(* the tokens not taken yet, those of the workers on their way to a node   *)
(* and the one the main thread still owes between its two sem_post calls.  *)
CountInv(q) == Len(q) = length + Cardinality(Entitled) + Owed

MainInv(q) ==
  /\ mpc \in {"front", "back"} =>
       /\ newclient \in heap
       /\ ~ InList(q, newclient)
       /\ current_first = CellAt(q, Len(q))
  /\ mpc = "back" => before[newclient] = Lead
  /\ mpc = "store" => newclient \in heap

WorkerInv(q) ==
  /\ \A w \in Worker : pc[w] \in {"next", "before"} =>
       oldlast[w] = CellAt(q, 1) /\ newlast[w] = CellAt(q, 2)
  /\ \A w \in Worker : Popped(w) =>
       /\ oldlast[w] \in heap
       /\ ~ InList(q, oldlast[w])
       /\ mpc \in {"front", "back", "store"} => oldlast[w] # newclient
  /\ \A v, w \in Worker :
       Popped(v) /\ Popped(w) /\ oldlast[v] = oldlast[w] => v = w

ListInv(q) == ChainInv(q) /\ CountInv(q) /\ MainInv(q) /\ WorkerInv(q)

(* The forward pointers, of which the program itself reads only lead's.    *)
ForwardInv(q) ==
  /\ mpc = "back" => next[newclient] = current_first
  /\ \A i \in 0 .. Len(q) : next[CellAt(q, i + 1)] =
       IF i = Len(q) /\ mpc = "back" THEN newclient
       ELSE IF i = 1 /\ \E w \in Worker : pc[w] = "before" THEN LeadLast
       ELSE CellAt(q, i)

(* What is allocated is in the list, or one thread's own.                  *)
HeapInv(q) ==
  \A n \in heap :
    \/ InList(q, n)
    \/ \E w \in Worker : Popped(w) /\ oldlast[w] = n
    \/ mpc \in {"front", "back"} /\ newclient = n

(* The socket of a node in the list: the one stored in it or, as long as   *)
(* the main thread has only linked it, the one that it is about to store.  *)
PayloadOf(n) == IF mpc = "store" /\ n = newclient THEN accepted ELSE clientsockfd[n]

(* The open sockets: each with the main thread until it is in the list,    *)
(* with its node until that is popped, and then with a worker.             *)
MainCarries == mpc \in {"lock", "alloc", "front", "back"}

HolderInv(q) ==
  /\ MainCarries =>
       /\ accepted \in open
       /\ \A i \in 1 .. Len(q) : PayloadOf(q[i]) # accepted
       /\ \A w \in Worker : SocketOf(w) # accepted
  /\ \A i \in 1 .. Len(q) : PayloadOf(q[i]) \in open
  /\ \A i, j \in 1 .. Len(q) : PayloadOf(q[i]) = PayloadOf(q[j]) => i = j
  /\ \A w \in Worker :
       /\ SocketOf(w) \in IF Popped(w) \/ pc[w] = "serve" THEN open ELSE {NULL}
       /\ \A i \in 1 .. Len(q) : SocketOf(w) # PayloadOf(q[i])
  /\ \A v, w \in Worker : SocketOf(v) = SocketOf(w) /\ SocketOf(v) # NULL => v = w
  /\ \A s \in open :
       \/ MainCarries /\ accepted = s
       \/ \E i \in 1 .. Len(q) : PayloadOf(q[i]) = s
       \/ \E w \in Worker : SocketOf(w) = s

CarryInv(q) == ForwardInv(q) /\ HeapInv(q) /\ HolderInv(q)

(* The list is intact at every step of every critical section: some        *)
(* sequence of distinct allocated nodes is linked from lead_last to lead,  *)
(* as long as the tokens say, and all local pointers point where they      *)
(* should (TLC's form of the invariant, over sequences of bounded length). *)
ListIsIntact == MutexInv /\ \E q \in NodeSeqs : ListInv(q) /\ CarryInv(q)

(* Who answers for a socket: the main thread until it is in the list, then *)
(* its node, then one worker.                                              *)
MainHolds(s) == MainCarries /\ accepted = s
NodesHolding(s) == {i \in DOMAIN Order : PayloadOf(Order[i]) = s}
WorkersHolding(s) == {w \in Worker : SocketOf(w) = s}

(* No client is lost and none is handled twice: from accept to close every *)
(* open socket is in exactly one place, and a closed one is nowhere.       *)
ExactlyOneHolder ==
  \A s \in Socket :
    (IF MainHolds(s) THEN 1 ELSE 0) + Cardinality(NodesHolding(s))
      + Cardinality(WorkersHolding(s)) = (IF s \in open THEN 1 ELSE 0)

(* Both directions of the list agree whenever nobody is changing it.       *)
ListIsConsistent ==
  mutex = 1 =>
    /\ \A i \in 0 .. Len(Order) :
         next[CellAt(Order, i + 1)] = CellAt(Order, i)
    /\ heap = {Order[i] : i \in DOMAIN Order}
                \cup {oldlast[w] : w \in {v \in Worker : Popped(v)}}

(* Every accepted client is served in the end, although weak fairness lets *)
(* one unlucky worker wait for the mutex for ever.                         *)
EveryClientIsServed ==
  \A s \in Socket : (mpc = "lock" /\ accepted = s) ~> (\E w \in Worker : serving[w] = s)

(* The list implements the queue of RequestQueue: first in, first out, one *)
(* worker per socket, no socket kept from a free worker for ever.          *)
Queue == INSTANCE RequestQueue WITH
  NoSocket <- NULL,
  waiting <- [i \in DOMAIN Order |-> PayloadOf(Order[i])],
  serving <- [w \in Worker |-> SocketOf(w)]

ImplementsQueue == Queue!QueueSpec
=============================================================================
