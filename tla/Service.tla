------------------------------ MODULE Service -------------------------------
(***************************************************************************)
(* What the server is to the client programs: once it is up, each thread   *)
(* that asks for the solution of its cube gets that solution, no matter    *)
(* who else asks, and each program counts its solved cubes one by one,     *)
(* until it is told to stop and reports them.  ClientServer implements     *)
(* this with connections, a queue, workers, buffers and a semaphore.       *)
(***************************************************************************)
EXTENDS Naturals

CONSTANTS
  Program,    \* the client programs
  Client,     \* their threads
  ProgramOf,  \* the program of each thread
  CubeOf,     \* the cube of each thread
  NoCube

VARIABLES
  up,       \* has the server started?
  doing,    \* thread: what it is at
  got,      \* thread: the cube whose solution it was given
  counted,  \* program: the solved cubes
  told,     \* program: was it told to stop?
  outcome   \* program: how it ended

serviceVars == <<up, doing, got, counted, told, outcome>>

ServiceInit ==
  /\ up = FALSE
  /\ doing = [c \in Client |-> "idle"]
  /\ got = [c \in Client |-> NoCube]
  /\ counted = [p \in Program |-> 0]
  /\ told = [p \in Program |-> FALSE]
  /\ outcome = [p \in Program |-> "running"]

Turns(c, from, to) == doing[c] = from /\ doing' = [doing EXCEPT ![c] = to]

StartUp ==
  /\ ~ up
  /\ up' = TRUE
  /\ UNCHANGED <<doing, got, counted, told, outcome>>

Ask(c) ==
  /\ up
  /\ Turns(c, "idle", "asked")
  /\ UNCHANGED <<up, got, counted, told, outcome>>

(* A thread gets the solution of its own cube, *)
Answer(c) ==
  /\ Turns(c, "asked", "answered")
  /\ got' = [got EXCEPT ![c] = CubeOf[c]]
  /\ UNCHANGED <<up, counted, told, outcome>>

(* finds that it solves the cube, *)
Verify(c) ==
  /\ Turns(c, "answered", "verified")
  /\ got' = [got EXCEPT ![c] = NoCube]
  /\ UNCHANGED <<up, counted, told, outcome>>

(* and counts it. *)
Count(c) ==
  /\ Turns(c, "verified", "idle")
  /\ counted' = [counted EXCEPT ![ProgramOf[c]] = @ + 1]
  /\ UNCHANGED <<up, got, told, outcome>>

(* Between two requests a thread notices that it was told to stop. *)
Leave(c) ==
  /\ told[ProgramOf[c]]
  /\ Turns(c, "idle", "over")
  /\ UNCHANGED <<up, got, counted, told, outcome>>

Tell(p) ==
  /\ outcome[p] = "running"
  /\ told' = [told EXCEPT ![p] = TRUE]
  /\ UNCHANGED <<up, doing, got, counted, outcome>>

ReportCount(p) ==
  /\ outcome[p] = "running"
  /\ told[p] /\ \A c \in Client : ProgramOf[c] = p => doing[c] = "over"
  /\ outcome' = [outcome EXCEPT ![p] = "reported"]
  /\ UNCHANGED <<up, doing, got, counted, told>>

(* A program that comes before the server is up ends at once. *)
GiveUp(p) ==
  /\ ~ up
  /\ outcome[p] = "running"
  /\ outcome' = [outcome EXCEPT ![p] = "exited"]
  /\ doing' = [c \in Client |-> IF ProgramOf[c] = p THEN "over" ELSE doing[c]]
  /\ UNCHANGED <<up, got, counted, told>>

ThreadNext(c) == Ask(c) \/ Answer(c) \/ Verify(c) \/ Count(c) \/ Leave(c)

ServiceNext ==
  \/ StartUp
  \/ \E c \in Client : ThreadNext(c)
  \/ \E p \in Program : Tell(p) \/ ReportCount(p) \/ GiveUp(p)

(* The server starts, whoever asked is answered, and who was answered      *)
(* counts; a program whose threads are over reports.                       *)
ServiceFairness ==
  /\ WF_serviceVars(StartUp)
  /\ \A c \in Client : WF_serviceVars(Answer(c)) /\ WF_serviceVars(Verify(c) \/ Count(c))
  /\ \A p \in Program : WF_serviceVars(ReportCount(p))

ServiceSafety == ServiceInit /\ [][ServiceNext]_serviceVars

ServiceSpec == ServiceSafety /\ ServiceFairness
=============================================================================
