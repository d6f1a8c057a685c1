---------------------------- MODULE RequestQueue ----------------------------
(***************************************************************************)
(* What the client queue of server.cpp promises, seen from outside: the    *)
(* main thread hands over the sockets it accepts, every socket goes to     *)
(* exactly one worker, the oldest first, and a worker deals with one       *)
(* socket at a time.  ClientQueue implements this with a linked list and   *)
(* two semaphores; ClientServer is built on it.                            *)
(***************************************************************************)
EXTENDS Sequences

CONSTANTS
  Worker,   \* the worker threads
  Socket,   \* the client sockets (file descriptors)
  NoSocket  \* "no socket": a worker that deals with nobody

VARIABLES
  waiting,  \* the sockets in the queue, the oldest first
  serving   \* the socket each worker deals with

queueVars == <<waiting, serving>>

QueueInit ==
  /\ waiting = <<>>
  /\ serving = [w \in Worker |-> NoSocket]

InQueue(s) == \E i \in DOMAIN waiting : waiting[i] = s

Held(s) == InQueue(s) \/ \E w \in Worker : serving[w] = s

(* The main thread enqueues a socket it has just accepted. *)
Put(s) ==
  /\ ~ Held(s)
  /\ waiting' = Append(waiting, s)
  /\ UNCHANGED serving

(* A free worker dequeues the oldest socket. *)
Take(w) ==
  /\ serving[w] = NoSocket
  /\ waiting # <<>>
  /\ serving' = [serving EXCEPT ![w] = Head(waiting)]
  /\ waiting' = Tail(waiting)

(* The worker closes its socket, whose number may be used again. *)
Finish(w) ==
  /\ serving[w] # NoSocket
  /\ serving' = [serving EXCEPT ![w] = NoSocket]
  /\ UNCHANGED waiting

QueueNext ==
  \/ \E s \in Socket : Put(s)
  \/ \E w \in Worker : Take(w) \/ Finish(w)

(* A waiting socket is taken as long as some worker is free to take it. *)
QueueFairness == WF_queueVars(\E w \in Worker : Take(w))

QueueSafety == QueueInit /\ [][QueueNext]_queueVars

QueueSpec == QueueSafety /\ QueueFairness
=============================================================================
