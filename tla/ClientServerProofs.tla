------------------------- MODULE ClientServerProofs -------------------------
(***************************************************************************)
(* Proofs about the client programs and the server together, for any       *)
(* numbers of programs, threads, workers and requests.  With programs that *)
(* may be killed and servers that may break down: the types, the right     *)
(* answers and the exact count.  With room for everybody and nobody        *)
(* killed: the bound on open sockets, that workers solve what they         *)
(* received, and that the client programs see the safety part of Service.  *)
(***************************************************************************)
EXTENDS ClientServer, FiniteSetTheorems, SequenceTheorems, TLAPS

-----------------------------------------------------------------------------
(* The inductive invariant. *)

(* Where a thread is while it has a connection. *)
Connected == {"send", "recv", "check"}

(* The connections that have been made.  No thread makes one again, so     *)
(* that what the server still does with a connection whose program died    *)
(* never reaches the owner of another one.                                 *)
Made ==
  {k \in Conn :
     \/ k[2] <= completed[k[1]]
     \/ k[2] = completed[k[1]] + 1 /\ cpc[k[1]] \in Connected \cup {"exited"}}

(* A thread has its next connection open exactly while it is Connected. *)
ThreadInv ==
  \A c \in Client :
    /\ completed[c] <= MaxRequests
    /\ cpc[c] \in Connected \cup {"connect"} => completed[c] < MaxRequests
    /\ cpc[c] \in Connected =>
         conn[c] = <<c, completed[c] + 1>> /\ owner[<<c, completed[c] + 1>>] = c

(* What travels over a connection is the cube of the thread that made it,  *)
(* and the solution of that cube.                                          *)
ConnInv ==
  \A k \in Conn :
    /\ owner[k] # NULL =>
         owner[k] = k[1] /\ k[2] = completed[k[1]] + 1 /\ cpc[k[1]] \in Connected
    /\ request[k] # NULL => request[k] = CubeOf[k[1]] /\ k \in Made
    /\ reply[k] # NULL => reply[k] = CubeOf[k[1]] /\ k \in Made

(* A connection is in one place of the server at most: in the backlog, in  *)
(* the queue, or with one worker.                                          *)
PlaceInv ==
  /\ \A i \in 1 .. Len(backlog) :
       /\ backlog[i] \in Made /\ backlog[i] \notin open
       /\ \A j \in 1 .. Len(backlog) : backlog[i] = backlog[j] => i = j
  /\ \A i \in 1 .. Len(waiting) :
       /\ waiting[i] \in open
       /\ \A j \in 1 .. Len(waiting) : waiting[i] = waiting[j] => i = j
  /\ \A w \in Worker : serving[w] # NULL =>
       /\ serving[w] \in open
       /\ \A i \in 1 .. Len(waiting) : waiting[i] # serving[w]
       /\ \A v \in Worker : serving[v] = serving[w] => v = w
  /\ open \subseteq Made

(* A worker serves a connection except while it waits, and its buffer      *)
(* holds what that connection is about, unless the client has gone: then   *)
(* the buffer may still hold what the connection before was about.         *)
WorkerInv ==
  /\ spc = "off" => backlog = <<>>
  /\ spc \in {"off", "loading"} =>
       waiting = <<>> /\ \A w \in Worker : wpc[w] = "wait"
  /\ \A w \in Worker :
       /\ spc # "dead" => (serving[w] = NULL <=> wpc[w] \in {"wait"})
       /\ spc = "accepting" /\ wpc[w] = "solve" /\ owner[serving[w]] # NULL =>
            buffer[w] = Message("cube", CubeOf[serving[w][1]])
       /\ spc = "accepting" /\ wpc[w] = "write" /\ owner[serving[w]] # NULL =>
            buffer[w] = Message("moves", CubeOf[serving[w][1]])
       /\ wpc[w] = "write" => buffer[w].cube \in Cube

(* Where a thread holds request_count_lock, and where it has closed a      *)
(* connection that it has not counted yet.                                 *)
Counting == {"read", "write", "unlock"}
Pending == {"lock", "read", "write"}

(* One thread of a program counts at a time, and what it read is current. *)
LockInv ==
  \A c \in Client :
    /\ cpc[c] \in Counting =>
         /\ request_count_lock[ProgramOf[c]] = 0
         /\ \A d \in Client :
              cpc[d] \in Counting /\ ProgramOf[d] = ProgramOf[c] => d = c
    /\ cpc[c] = "write" => tmp[c] = request_count[ProgramOf[c]]
    /\ cpc[c] \in Pending => completed[c] > 0
    /\ cpc[c] = "exited" <=> mpc[ProgramOf[c]] = "exited"
    /\ mpc[ProgramOf[c]] = "reported" => cpc[c] = "done"

(* The connections that program p has counted, and that it counts them. *)
Counted(p) ==
  {k \in Conn : /\ ProgramOf[k[1]] = p
                /\ k[2] <= completed[k[1]]
                /\ ~ (k[2] = completed[k[1]] /\ cpc[k[1]] \in Pending)}

CountInv ==
  \A p \in Program :
    mpc[p] # "exited" => request_count[p] = Cardinality(Counted(p))

Inv ==
  /\ TypeOK /\ ThreadInv /\ ConnInv /\ PlaceInv /\ WorkerInv
  /\ LockInv /\ CountInv /\ AnswersAreRight

-----------------------------------------------------------------------------
(* Connections. *)

(* A connection is a thread and a number. *)
LEMMA ConnIs ==
  ASSUME NEW k \in Conn
  PROVE  /\ k = <<k[1], k[2]>> /\ k[1] \in Client
         /\ k[2] \in 1 .. MaxRequests /\ k[2] \in Nat
         /\ k # NULL /\ CubeOf[k[1]] \in Cube /\ ProgramOf[k[1]] \in Program
  BY NullIsNothing, LimitsAreNumbers, ClientsBelongToPrograms DEF Conn, Cube

(* The connection that a thread has, or makes next, is one. *)
LEMMA ConnMade ==
  ASSUME TypeOK, ThreadInv, NEW c \in Client
  PROVE  /\ cpc[c] \in Connected \cup {"connect"} => <<c, completed[c] + 1>> \in Conn
         /\ cpc[c] \in Connected => conn[c] = <<c, completed[c] + 1>> /\ conn[c] \in Conn
         /\ "recv" \in Connected /\ "send" \in Connected /\ "check" \in Connected
<1>1. cpc[c] \in Connected \cup {"connect"} => completed[c] + 1 \in 1 .. MaxRequests
  <2>1. completed[c] \in Nat
    BY DEF TypeOK
  <2>2. cpc[c] \in Connected \cup {"connect"} => completed[c] < MaxRequests
    BY DEF ThreadInv
  <2> QED BY <2>1, <2>2, LimitsAreNumbers
<1> QED BY <1>1 DEF Conn, ThreadInv, Connected

-----------------------------------------------------------------------------
(* The types. *)

ServerStep == ServerMain \/ \E w \in Worker : WorkerStep(w) \/ Reset(w)

(* A connection that was reset takes the server down. *)
LEMMA ResetIsExit ==
  ASSUME NEW w \in Worker, Reset(w)
  PROVE  ServerExit /\ wpc[w] \in {"recv", "write"} /\ owner[serving[w]] = NULL /\ spc = "accepting"
BY DEF Reset, RecvFails, WriteFails

(* The steps of the server keep every variable in its type. *)
LEMMA TypeServer ==
  ASSUME TypeOK, ConnInv, WorkerInv, ServerStep
  PROVE  TypeOK'
<1> USE DEF TypeOK, network, thread, shared
<1>1. CASE Listen
  BY <1>1 DEF Listen, ServerPc
<1>2. CASE Load
  BY <1>2 DEF Load, ServerPc
<1>3. CASE Accept
  BY <1>3 DEF Accept, Q!Put
<1>e. ASSUME ServerExit PROVE TypeOK'
  BY <1>e DEF ServerExit, ServerPc
<1>4. CASE AcceptFails
  BY <1>4, <1>e DEF AcceptFails
<1>5. ASSUME NEW w \in Worker, WorkerStep(w) PROVE TypeOK'
  <2> USE DEF WorkerGoes, WorkerPc
  <2>1. CASE Take(w)
    BY <2>1 DEF Take, Q!Take
  <2>2. CASE Recv(w)
    <3>1. request' = request /\ reply' = reply
      BY <2>2 DEF Recv
    <3>2. serving[w] \in Conn
      BY <2>2, NullIsNothing DEF Recv, WorkerInv
    <3>3. request[serving[w]] # NULL => Message("cube", request[serving[w]]) \in Messages
      BY <3>2 DEF Message, Messages
    <3>4. buffer' \in [Worker -> Messages]
      BY <2>2, <3>3 DEF Recv
    <3> QED
      BY <2>2, <3>4 DEF Recv
  <2>3. CASE Solve(w)
    BY <2>3 DEF Solve, Message, Messages
  <2>4. CASE Hang(w)
    BY <2>4 DEF Hang
  <2>5. CASE Crash(w)
    BY <2>5, <1>e DEF Crash
  <2>6. CASE Write(w)
    BY <2>6 DEF Write, WorkerInv
  <2>7. CASE Close(w)
    BY <2>7 DEF Close, Q!Finish
  <2> QED BY <1>5, <2>1, <2>2, <2>3, <2>4, <2>5, <2>6, <2>7 DEF WorkerStep
<1>6. ASSUME NEW w \in Worker, Reset(w) PROVE TypeOK'
  BY <1>6, <1>e, ResetIsExit
<1> QED BY <1>1, <1>2, <1>3, <1>4, <1>5, <1>6 DEF ServerStep, ServerMain

(* So do those of a thread of a client program, *)
LEMMA TypeClient ==
  ASSUME TypeOK, ThreadInv, ConnInv, LockInv, NEW c \in Client, ClientStep(c)
  PROVE  TypeOK'
<1> USE ClientsBelongToPrograms DEF TypeOK, network, server, thread, shared, Goes, ClientPc
<1>e. ASSUME NEW p \in Program, Exit(p) PROVE TypeOK'
  BY <1>e DEF Exit, MainPc
<1>1. CASE Connect(c)
  <2>1. <<c, completed[c] + 1>> \in Conn
    BY <1>1, ConnMade DEF Connect
  <2> QED BY <1>1, <2>1 DEF Connect
<1>2. CASE ConnectFails(c)
  BY <1>2, <1>e DEF ConnectFails
<1>3. CASE Send(c)
  <2>1. request' = [request EXCEPT ![conn[c]] = CubeOf[c]]
    BY <1>3 DEF Send
  <2>2. CubeOf[c] \in Cube
    BY DEF Cube
  <2>3. request' \in [Conn -> Cube \cup {NULL}]
    BY <2>1, <2>2
  <2> QED BY <1>3, <2>3 DEF Send
<1>4. CASE Receive(c)
  <2>0. cpc[c] = "recv"
    BY <1>4 DEF Receive
  <2>1. conn[c] \in Conn
    BY <2>0, ConnMade
  <2> QED BY <1>4, <2>1 DEF Receive
<1>5. CASE LoseServer(c)
  BY <1>5, <1>e DEF LoseServer
<1>6. CASE Check(c)
  <2>1. completed' \in [Client -> Nat]
    BY <1>6 DEF Check
  <2>2. owner' \in [Conn -> Client \cup {NULL}]
    BY <1>6 DEF Check
  <2>3. cpc' \in [Client -> ClientPc]
    BY <1>6 DEF Check
  <2> QED BY <1>6, <2>1, <2>2, <2>3 DEF Check
<1>7. CASE CheckFails(c)
  BY <1>7, <1>e DEF CheckFails
<1>8. CASE LockCount(c)
  BY <1>8 DEF LockCount
<1>9. CASE ReadCount(c)
  BY <1>9 DEF ReadCount
<1>10. CASE WriteCount(c)
  BY <1>10 DEF WriteCount
<1>11. CASE UnlockCount(c)
  BY <1>11 DEF UnlockCount, LockInv, Counting
<1>12. CASE Test(c)
  BY <1>12 DEF Test
<1> QED BY <1>1, <1>2, <1>3, <1>4, <1>5, <1>6, <1>7, <1>8, <1>9, <1>10, <1>11, <1>12
   DEF ClientStep

(* and all others. *)
LEMMA TypeStep ==
  ASSUME Inv, [Next]_vars
  PROVE  TypeOK'
<1> USE DEF Inv
<1>1. CASE ServerStep
  BY <1>1, TypeServer
<1>2. ASSUME NEW c \in Client, ClientStep(c) PROVE TypeOK'
  BY <1>2, TypeClient
<1>3. ASSUME NEW p \in Program, MainStep(p) \/ Kill(p) PROVE TypeOK'
  <2> USE DEF MainGoes, MainPc, TypeOK, network, server, thread
  <2>1. CASE Stop(p)
    BY <2>1 DEF Stop
  <2>2. CASE Report(p)
    BY <2>2 DEF Report
  <2>3. CASE Kill(p)
    BY <2>3 DEF Kill, Exit, ClientPc
  <2> QED BY <1>3, <2>1, <2>2, <2>3 DEF MainStep
<1>4. CASE UNCHANGED vars
  BY <1>4 DEF vars, network, server, thread, shared, TypeOK
<1> QED BY <1>1, <1>2, <1>3, <1>4 DEF Next, AllOver, ServerStep

-----------------------------------------------------------------------------
(* Threads and their connections. *)

(* The server does not touch the state of the clients. *)
LEMMA ServerLeavesClients ==
  ServerStep => UNCHANGED <<owner, request, thread, shared>>
<1>1. ServerMain => UNCHANGED <<owner, request, thread, shared>>
  BY DEF ServerMain, Listen, Load, Accept, AcceptFails, ServerExit, network
<1>2. ASSUME NEW w \in Worker, WorkerStep(w) PROVE UNCHANGED <<owner, request, thread, shared>>
  BY <1>2 DEF WorkerStep, Take, Recv, Solve, Hang, Crash, Write, Close, ServerExit, network
<1>3. ASSUME NEW w \in Worker, Reset(w) PROVE UNCHANGED <<owner, request, thread, shared>>
  BY <1>3, ResetIsExit DEF ServerExit, network
<1> QED BY <1>1, <1>2, <1>3 DEF ServerStep

(* Every step keeps the threads' part of the invariant. *)
LEMMA ThreadStep ==
  ASSUME Inv, [Next]_vars
  PROVE  ThreadInv'
<1> USE DEF Inv
<1>e. ASSUME NEW p \in Program, Exit(p) PROVE ThreadInv'
  <2> SUFFICES ASSUME NEW c \in Client, ProgramOf[c] # p 
               PROVE  ThreadInv!(c)'
    BY <1>e, ClientsBelongToPrograms DEF Exit, ThreadInv, TypeOK, Connected, thread
  <2>1. cpc'[c] = cpc[c] /\ conn'[c] = conn[c] /\ completed' = completed
    BY <1>e DEF Exit
  <2>2. cpc[c] \in Connected => owner'[<<c, completed[c] + 1>>] = c
    BY <1>e, ConnMade DEF Exit, Threads, ThreadInv
  <2> QED BY <2>1, <2>2 DEF ThreadInv
<1>1. CASE ServerStep
  BY <1>1, ServerLeavesClients DEF ThreadInv, thread
<1>2. ASSUME NEW c \in Client, ClientStep(c) PROVE ThreadInv'
  <2> USE DEF Goes, Connected
  <2>1. CASE Connect(c)
    <3>1. /\ cpc' = [cpc EXCEPT ![c] = "send"] /\ completed' = completed
          /\ conn' = [conn EXCEPT ![c] = <<c, completed[c] + 1>>]
          /\ owner' = [owner EXCEPT ![<<c, completed[c] + 1>>] = c]
          /\ cpc[c] = "connect"
      BY <2>1 DEF Connect
    <3>2. <<c, completed[c] + 1>> \in Conn
      BY <3>1, ConnMade
    <3> SUFFICES ASSUME NEW d \in Client PROVE ThreadInv!(d)'
      BY DEF ThreadInv
    <3>3. CASE d = c
      BY <3>1, <3>2, <3>3 DEF ThreadInv, TypeOK
    <3>4. CASE d # c
      <4>1. owner'[<<d, completed[d] + 1>>] = owner[<<d, completed[d] + 1>>] 
             \/ <<d, completed[d] + 1>> \notin Conn
        BY <3>1, <3>4 DEF TypeOK
      <4> QED BY <3>1, <3>4, <4>1, ConnMade DEF ThreadInv, TypeOK
    <3> QED BY <3>3, <3>4
  <2>2. CASE Check(c)
    <3>1. /\ cpc' = [cpc EXCEPT ![c] = "lock"] /\ completed' = [completed EXCEPT ![c] = @ + 1]
          /\ conn' = [conn EXCEPT ![c] = NULL]
          /\ owner' = [owner EXCEPT ![conn[c]] = NULL]
          /\ cpc[c] = "check"
      BY <2>2 DEF Check
    <3>2. conn[c] = <<c, completed[c] + 1>> /\ conn[c] \in Conn
      BY <3>1, ConnMade
    <3> SUFFICES ASSUME NEW d \in Client PROVE ThreadInv!(d)'
      BY DEF ThreadInv
    <3>3. CASE d = c
      BY <3>1, <3>2, <3>3, LimitsAreNumbers DEF ThreadInv, TypeOK
    <3>4. CASE d # c
      <4>1. owner'[<<d, completed[d] + 1>>] = owner[<<d, completed[d] + 1>>] 
             \/ <<d, completed[d] + 1>> \notin Conn
        BY <3>1, <3>2, <3>4 DEF TypeOK
      <4> QED BY <3>1, <3>4, <4>1, ConnMade DEF ThreadInv, TypeOK
    <3> QED BY <3>3, <3>4
  <2>3. CASE Send(c) \/ Receive(c)
    BY <2>3 DEF Send, Receive, ThreadInv, TypeOK, network
  <2>4. CASE ConnectFails(c) \/ LoseServer(c) \/ CheckFails(c)
    BY <2>4, <1>e, ClientsBelongToPrograms DEF ConnectFails, LoseServer, CheckFails
  <2>5. CASE LockCount(c) \/ ReadCount(c) \/ WriteCount(c) \/ UnlockCount(c) \/ Test(c)
    BY <2>5 DEF LockCount, ReadCount, WriteCount, UnlockCount, Test, ThreadInv, TypeOK, network
  <2> QED BY <1>2, <2>1, <2>2, <2>3, <2>4, <2>5 DEF ClientStep
<1>3. ASSUME NEW p \in Program, MainStep(p) \/ Kill(p) PROVE ThreadInv'
  BY <1>3, <1>e DEF MainStep, Stop, Report, Kill, ThreadInv, network, thread
<1>4. CASE UNCHANGED vars
  BY <1>4 DEF vars, network, thread, ThreadInv
<1> QED BY <1>1, <1>2, <1>3, <1>4 DEF Next, AllOver, ServerStep

(* A thread touches its connection, ends its program, or goes on without   *)
(* either.                                                                 *)
LEMMA ThreadsGo ==
  ASSUME TypeOK, NEW c \in Client, ClientStep(c)
  PROVE  \/ Connect(c) \/ Send(c) \/ Receive(c) \/ Check(c)
         \/ \E p \in Program : p = ProgramOf[c] /\ Exit(p) /\ cpc[c] \in Connected \cup {"connect"}
         \/ \E s, t \in ClientPc \ (Connected \cup {"exited"}) :
               /\ s # "connect" /\ Goes(c, s, t) /\ UNCHANGED <<network, server, conn, answer, completed, mpc>>
               /\ t = "connect" => completed[c] < MaxRequests
  BY ClientsBelongToPrograms
     DEF ClientStep, ConnectFails, LoseServer, CheckFails, LockCount, ReadCount, WriteCount,
     UnlockCount, Test, ClientPc, Goes, shared, Connected

(* The connection that a thread is about to make is new, *)
LEMMA NewIsNotMade ==
  ASSUME TypeOK, NEW c \in Client, cpc[c] = "connect"
  PROVE  <<c, completed[c] + 1>> \notin Made
  BY DEF Made, TypeOK, Connected

(* and a connection that has been made stays so. *)
LEMMA MadeStays ==
  ASSUME Inv, [Next]_vars, NEW k \in Conn, k \in Made
  PROVE  k \in Made'
<1> DEFINE d == k[1]
<1>0. d \in Client /\ k[2] \in Nat /\ ProgramOf[d] \in Program
  BY ConnIs
<1>t. TypeOK
  BY DEF Inv
<1>e. ASSUME NEW p \in Program, Exit(p) PROVE k \in Made'
  BY <1>0, <1>e DEF Exit, Made, TypeOK
<1>1. CASE ServerStep
  BY <1>1, ServerLeavesClients DEF Made, thread
<1>2. ASSUME NEW c \in Client, ClientStep(c) PROVE k \in Made'
  <2>1. CASE Connect(c)
    BY <2>1, <1>0, <1>t DEF Connect, Goes, Made, Connected, TypeOK
  <2>2. CASE Send(c) \/ Receive(c)
    BY <2>2, <1>0, <1>t DEF Send, Receive, Goes, Made, Connected, TypeOK
  <2>3. CASE Check(c)
    BY <2>3, <1>0, <1>t DEF Check, Goes, Made, Connected, TypeOK
  <2>4. CASE \E p \in Program : Exit(p)
    BY <2>4, <1>e
  <2>5. ASSUME NEW s \in ClientPc \ (Connected \cup {"exited"}), NEW t \in ClientPc, Goes(c, s, t), completed' = completed
        PROVE k \in Made'
    BY <2>5, <1>0, <1>t DEF Goes, Made, TypeOK
  <2> QED BY <1>2, <1>t, ThreadsGo, <2>1, <2>2, <2>3, <2>4, <2>5
<1>3. ASSUME NEW p \in Program, MainStep(p) \/ Kill(p) PROVE k \in Made'
  BY <1>3, <1>e DEF MainStep, Stop, Report, Kill, Made, thread
<1>4. CASE UNCHANGED vars
  BY <1>4 DEF vars, thread, Made
<1> QED BY <1>1, <1>2, <1>3, <1>4 DEF Next, AllOver, ServerStep

(* Every step keeps what connections carry right. *)
LEMMA ConnStep ==
  ASSUME Inv, [Next]_vars
  PROVE  ConnInv'
<1>i. TypeOK /\ ThreadInv /\ ConnInv /\ WorkerInv
  BY DEF Inv
<1> SUFFICES ASSUME NEW k \in Conn PROVE ConnInv!(k)'
  BY DEF ConnInv
<1>k. k[1] \in Client /\ k[2] \in Nat /\ k = <<k[1], k[2]>> /\ ProgramOf[k[1]] \in Program
  BY ConnIs
<1>m. k \in Made => k \in Made'
  BY MadeStays
<1>e. ASSUME NEW p \in Program, Exit(p) PROVE ConnInv!(k)'
  BY <1>e, <1>i, <1>k, <1>m, NullIsNothing DEF Exit, ConnInv, Threads, TypeOK
<1>1. CASE ServerStep
  <2>1. reply' = reply \/ \E w \in Worker : Write(w)
    BY <1>1, ResetIsExit
       DEF ServerStep, ServerMain, WorkerStep, Listen, Load, Accept, AcceptFails, ServerExit, Take, Recv,
          Solve, Hang, Crash, Close, network
  <2>2. CASE reply' = reply
    BY <1>1, <2>2, <1>i, <1>m, ServerLeavesClients DEF ConnInv, thread
  <2>3. ASSUME NEW w \in Worker, Write(w) PROVE ConnInv!(k)'
    <3>1. serving[w] \in Conn /\ spc = "accepting"
      BY <2>3, <1>i DEF Write, WorkerGoes, WorkerInv, TypeOK
    <3>2. owner[k] # NULL => owner[k] = k[1] /\ k[2] = completed[k[1]] + 1 /\ cpc[k[1]] \in Connected
      BY <1>i DEF ConnInv
    <3>3. owner[k] # NULL => k \in Made
      BY <3>2 DEF Made
    <3>4. owner[serving[w]] # NULL => buffer[w].cube = CubeOf[serving[w][1]]
      <4>1. wpc[w] = "write"
        BY <2>3 DEF Write, WorkerGoes
      <4>2. owner[serving[w]] # NULL => buffer[w] = Message("moves", CubeOf[serving[w][1]])
        BY <4>1, <3>1, <1>i DEF WorkerInv
      <4> QED BY <4>2 DEF Message
    <3>5. reply' = IF owner[serving[w]] = NULL THEN reply ELSE [reply EXCEPT ![serving[w]] = buffer[w].cube]
      BY <2>3 DEF Write
    <3> QED BY <2>3, <3>1, <3>3, <3>4, <3>5, <1>i, <1>k, <1>m, <1>1, ServerLeavesClients
       DEF ConnInv, TypeOK, thread
  <2> QED BY <2>1, <2>2, <2>3
<1>2. ASSUME NEW c \in Client, ClientStep(c) PROVE ConnInv!(k)'
  <2>1. CASE Connect(c)
    <3>1. /\ cpc' = [cpc EXCEPT ![c] = "send"] /\ completed' = completed
          /\ owner' = [owner EXCEPT ![<<c, completed[c] + 1>>] = c]
          /\ cpc[c] = "connect" /\ request' = request /\ reply' = reply
      BY <2>1 DEF Connect, Goes
    <3>2. <<c, completed[c] + 1>> \in Conn
      BY <3>1, <1>i, ConnMade
    <3>3. CASE k = <<c, completed[c] + 1>>
      <4>1. owner'[k] = c /\ k[1] = c /\ k[2] = completed[c] + 1
        BY <3>1, <3>2, <3>3, <1>i DEF TypeOK
      <4>2. cpc'[c] \in Connected /\ completed'[c] = completed[c]
        BY <3>1, <1>i DEF TypeOK, Connected
      <4> QED BY <3>1, <4>1, <4>2, <1>i, <1>m DEF ConnInv
    <3>4. CASE k # <<c, completed[c] + 1>>
      BY <3>1, <3>2, <3>4, <1>i, <1>k, <1>m DEF ConnInv, TypeOK, Connected
    <3> QED BY <3>3, <3>4
  <2>2. CASE Send(c)
    <3>1. conn[c] = <<c, completed[c] + 1>> /\ conn[c] \in Conn /\ cpc[c] = "send"
      BY <2>2, <1>i, ConnMade DEF Send, Goes
    <3>2. conn[c] \in Made
      BY <3>1 DEF Made, Connected
    <3>3. owner' = owner /\ reply' = reply /\ completed' = completed
          /\ request' = [request EXCEPT ![conn[c]] = CubeOf[c]] /\ cpc' = [cpc EXCEPT ![c] = "recv"]
      BY <2>2 DEF Send, Goes
    <3>4. cpc[k[1]] \in Connected => cpc'[k[1]] \in Connected
      BY <3>3, <1>i, <1>k DEF TypeOK, Connected
    <3>5. request'[k] = request[k] \/ (k = conn[c] /\ request'[k] = CubeOf[k[1]])
      BY <3>1, <3>3, <1>i DEF TypeOK
    <3> QED BY <3>2, <3>3, <3>4, <3>5, <1>i, <1>m DEF ConnInv
  <2>3. CASE Receive(c)
    BY <2>3, <1>i, <1>k, <1>m DEF Receive, Goes, ConnInv, TypeOK, Connected, network
  <2>4. CASE Check(c)
    <3>1. conn[c] = <<c, completed[c] + 1>> /\ conn[c] \in Conn /\ cpc[c] = "check"
      BY <2>4, <1>i, ConnMade DEF Check, Goes
    <3>2. owner' = [owner EXCEPT ![conn[c]] = NULL] /\ request' = request /\ reply' = reply
          /\ completed' = [completed EXCEPT ![c] = @ + 1] /\ cpc' = [cpc EXCEPT ![c] = "lock"]
      BY <2>4 DEF Check, Goes
    <3>3. CASE k = conn[c]
      BY <3>1, <3>2, <3>3, <1>i, <1>m DEF ConnInv, TypeOK
    <3>4. CASE k # conn[c]
      BY <3>1, <3>2, <3>4, <1>i, <1>k, <1>m DEF ConnInv, TypeOK
    <3> QED BY <3>3, <3>4
  <2>5. CASE \E p \in Program : Exit(p)
    BY <2>5, <1>e
  <2>6. ASSUME NEW s \in ClientPc \ (Connected \cup {"exited"}), NEW t \in ClientPc, Goes(c, s, t), UNCHANGED <<network, completed>>
        PROVE ConnInv!(k)'
    BY <2>6, <1>i, <1>k, <1>m DEF Goes, ConnInv, TypeOK, network
  <2> QED BY <1>2, <1>i, ThreadsGo, <2>1, <2>2, <2>3, <2>4, <2>5, <2>6
<1>3. ASSUME NEW p \in Program, MainStep(p) \/ Kill(p) PROVE ConnInv!(k)'
  BY <1>3, <1>e, <1>i, <1>m DEF MainStep, Stop, Report, Kill, ConnInv, network, thread
<1>4. CASE UNCHANGED vars
  BY <1>4, <1>i, <1>m DEF vars, network, thread, ConnInv
<1> QED BY <1>1, <1>2, <1>3, <1>4 DEF Next, AllOver, ServerStep

-----------------------------------------------------------------------------
(* The server. *)

placeVars == <<backlog, open, waiting, serving>>

(* What a step does to the places of connections. *)
LEMMA PlacesMove ==
  ASSUME TypeOK, [Next]_vars
  PROVE  \/ UNCHANGED placeVars
         \/ Accept
         \/ ServerExit
         \/ \E w \in Worker : Take(w) \/ Close(w)
         \/ \E c \in Client : Connect(c)
<1>1. ServerMain => UNCHANGED placeVars \/ Accept \/ ServerExit
  BY DEF ServerMain, Listen, Load, AcceptFails, placeVars
<1>2. ASSUME NEW w \in Worker, WorkerStep(w)
   PROVE UNCHANGED placeVars \/ Take(w) \/ Close(w) \/ ServerExit
  BY <1>2 DEF WorkerStep, Recv, Solve, Hang, Crash, Write, placeVars
<1>r. ASSUME NEW w \in Worker, Reset(w) PROVE ServerExit
  BY <1>r, ResetIsExit
<1>3. ASSUME NEW c \in Client, ClientStep(c) PROVE UNCHANGED placeVars \/ Connect(c)
  BY <1>3, ThreadsGo DEF Send, Receive, Check, Exit, server, placeVars
<1>4. ASSUME NEW p \in Program, MainStep(p) \/ Kill(p) PROVE UNCHANGED placeVars
  BY <1>4 DEF MainStep, Stop, Report, Kill, Exit, server, placeVars
<1>5. UNCHANGED vars => UNCHANGED placeVars
  BY DEF vars, server, placeVars
<1> QED BY <1>1, <1>2, <1>r, <1>3, <1>4, <1>5 DEF Next, AllOver, ServerStep

(* Every step keeps connections in one place. *)
LEMMA PlaceStep ==
  ASSUME Inv, [Next]_vars
  PROVE  PlaceInv'
<1>i. TypeOK /\ ThreadInv /\ ConnInv /\ PlaceInv /\ WorkerInv
  BY DEF Inv
<1>b. backlog \in Seq(Conn) /\ waiting \in Seq(Conn) /\ open \subseteq Conn /\ serving \in [Worker -> Conn \cup {NULL}]
  BY <1>i DEF TypeOK
<1>m. Made \subseteq Made'
  BY MadeStays DEF Made
<1>s. (\A i \in 1 .. Len(backlog) : backlog[i] \in Conn) /\ Len(backlog) \in Nat
  BY <1>b
<1>t. (\A i \in 1 .. Len(waiting) : waiting[i] \in Conn) /\ Len(waiting) \in Nat
  BY <1>b
<1>1. CASE UNCHANGED placeVars
  <2>1. backlog' = backlog /\ open' = open /\ waiting' = waiting /\ serving' = serving
    BY <1>1 DEF placeVars
  <2>2. \A i \in 1 .. Len(backlog') : backlog'[i] \in Made'
    BY <2>1, <1>i, <1>s, <1>m DEF PlaceInv
  <2>3. open' \subseteq Made'
    BY <2>1, <1>i, <1>b, <1>m DEF PlaceInv
  <2> QED BY <2>1, <2>2, <2>3, <1>i DEF PlaceInv
<1>2. CASE Accept
  <2> DEFINE k == Head(backlog)
  <2>1. /\ backlog # <<>> /\ backlog' = Tail(backlog) /\ open' = open \cup {k}
        /\ waiting' = Append(waiting, k) /\ serving' = serving
        /\ \A i \in DOMAIN waiting : waiting[i] # k
        /\ \A w \in Worker : serving[w] # k
    BY <1>2 DEF Accept, Q!Put, Q!Held, Q!InQueue
  <2>2. k = backlog[1] /\ 1 \in 1 .. Len(backlog) /\ k \in Conn
    BY <2>1, <1>b, <1>s, HeadTailProperties
  <2>3. Len(backlog') = Len(backlog) - 1 /\ \A i \in 1 .. Len(backlog') : i + 1 \in 1 .. Len(backlog) /\ backlog'[i] = backlog[i + 1]
    BY <2>1, <1>b, <1>s, HeadTailProperties
  <2>4. \A i \in 1 .. Len(backlog') : 
          /\ backlog'[i] \in Made' /\ backlog'[i] \notin open'
          /\ \A j \in 1 .. Len(backlog') : backlog'[i] = backlog'[j] => i = j
    <3> SUFFICES ASSUME NEW i \in 1 .. Len(backlog') 
                 PROVE  /\ backlog'[i] \in Made' /\ backlog'[i] \notin open'
                        /\ \A j \in 1 .. Len(backlog') : backlog'[i] = backlog'[j] => i = j
      OBVIOUS
    <3>1. backlog'[i] \in Made'
      BY <2>3, <1>i, <1>s, <1>m DEF PlaceInv
    <3>2. i + 1 # 1 /\ backlog[i + 1] # backlog[1]
      BY <2>2, <2>3, <1>i, <1>s DEF PlaceInv
    <3>3. backlog'[i] \notin open'
      BY <3>2, <2>1, <2>2, <2>3, <1>i DEF PlaceInv
    <3>4. \A j \in 1 .. Len(backlog') : backlog'[i] = backlog'[j] => i = j
      BY <2>3, <1>i, <1>s DEF PlaceInv
    <3> QED BY <3>1, <3>3, <3>4
  <2>5. Len(waiting') = Len(waiting) + 1 /\ waiting'[Len(waiting) + 1] = k
        /\ \A i \in 1 .. Len(waiting) : waiting'[i] = waiting[i] /\ waiting[i] # k
    BY <2>1, <2>2, <1>b, <1>t, AppendProperties
  <2>6. \A i \in 1 .. Len(waiting') :
          /\ waiting'[i] \in open'
          /\ \A j \in 1 .. Len(waiting') : waiting'[i] = waiting'[j] => i = j
    BY <2>1, <2>5, <1>t, <1>i DEF PlaceInv
  <2>7. \A w \in Worker : serving'[w] # NULL =>
          /\ serving'[w] \in open'
          /\ \A i \in 1 .. Len(waiting') : waiting'[i] # serving'[w]
          /\ \A v \in Worker : serving'[v] = serving'[w] => v = w
    BY <2>1, <2>5, <1>t, <1>i DEF PlaceInv
  <2>8. open' \subseteq Made'
    <3>1. k \in Made
      BY <2>2, <1>i DEF PlaceInv
    <3> QED BY <2>1, <2>2, <3>1, <1>i, <1>b, <1>m DEF PlaceInv
  <2> QED BY <2>4, <2>6, <2>7, <2>8 DEF PlaceInv
<1>3. CASE ServerExit
  <2>1. Len(backlog') = 0 /\ Len(waiting') = 0 /\ open' = {} /\ \A w \in Worker : serving'[w] = NULL
    BY <1>3 DEF ServerExit
  <2> QED BY <2>1 DEF PlaceInv
<1>4. ASSUME NEW w \in Worker, Take(w) PROVE PlaceInv'
  <2>1. /\ waiting # <<>> /\ waiting' = Tail(waiting) /\ backlog' = backlog /\ open' = open
        /\ serving' = [serving EXCEPT ![w] = Head(waiting)]
    BY <1>4 DEF Take, Q!Take
  <2>2. Head(waiting) = waiting[1] /\ 1 \in 1 .. Len(waiting)
    BY <2>1, <1>b, <1>t, HeadTailProperties
  <2>3. Len(waiting') = Len(waiting) - 1 /\ \A i \in 1 .. Len(waiting') : i + 1 \in 1 .. Len(waiting) /\ waiting'[i] = waiting[i + 1]
    BY <2>1, <1>b, <1>t, HeadTailProperties
  <2>4. \A i \in 1 .. Len(backlog') : backlog'[i] \in Made'
    BY <2>1, <1>i, <1>s, <1>m DEF PlaceInv
  <2>5. open' \subseteq Made'
    BY <2>1, <1>i, <1>b, <1>m DEF PlaceInv
  <2>6. \A i \in 1 .. Len(waiting') :
          /\ waiting'[i] \in open' /\ waiting'[i] # waiting[1]
          /\ \A j \in 1 .. Len(waiting') : waiting'[i] = waiting'[j] => i = j
    BY <2>1, <2>2, <2>3, <1>t, <1>i DEF PlaceInv
  <2>7. \A v \in Worker : serving'[v] = IF v = w THEN waiting[1] ELSE serving[v]
    BY <2>1, <2>2, <1>b
  <2>8. \A v \in Worker : serving'[v] # NULL =>
          /\ serving'[v] \in open'
          /\ \A i \in 1 .. Len(waiting') : waiting'[i] # serving'[v]
          /\ \A u \in Worker : serving'[u] = serving'[v] => u = v
    BY <2>1, <2>2, <2>3, <2>6, <2>7, <1>i DEF PlaceInv
  <2> QED BY <2>1, <2>4, <2>5, <2>6, <2>8, <1>i DEF PlaceInv
<1>5. ASSUME NEW w \in Worker, Close(w) PROVE PlaceInv'
  <2>1. /\ waiting' = waiting /\ backlog' = backlog /\ open' = open \ {serving[w]}
        /\ serving[w] # NULL /\ serving' = [serving EXCEPT ![w] = NULL]
    BY <1>5 DEF Close, Q!Finish
  <2>2. \A v \in Worker : serving'[v] = IF v = w THEN NULL ELSE serving[v]
    BY <2>1, <1>b
  <2>3. \A i \in 1 .. Len(backlog') : backlog'[i] \in Made' /\ backlog'[i] \notin open'
    BY <2>1, <1>i, <1>s, <1>m DEF PlaceInv
  <2>4. open' \subseteq Made'
    BY <2>1, <1>i, <1>b, <1>m DEF PlaceInv
  <2> QED BY <2>1, <2>2, <2>3, <2>4, <1>i DEF PlaceInv
<1>6. ASSUME NEW c \in Client, Connect(c) PROVE PlaceInv'
  <2> DEFINE k == <<c, completed[c] + 1>>
  <2>1. /\ waiting' = waiting /\ backlog' = Append(backlog, k) /\ open' = open /\ serving' = serving
        /\ cpc[c] = "connect" /\ cpc' = [cpc EXCEPT ![c] = "send"] /\ completed' = completed
    BY <1>6 DEF Connect, Goes
  <2>2. k \in Conn /\ k \notin Made
    BY <2>1, <1>i, ConnMade, NewIsNotMade
  <2>3. k \in Made'
    BY <2>1, <2>2, <1>i DEF Made, TypeOK, Connected
  <2>4. Len(backlog') = Len(backlog) + 1 /\ backlog'[Len(backlog) + 1] = k
        /\ \A i \in 1 .. Len(backlog) : backlog'[i] = backlog[i] 
    BY <2>1, <2>2, <1>b, <1>s, AppendProperties
  <2>5. \A i \in 1 .. Len(backlog') : 
          /\ backlog'[i] \in Made' /\ backlog'[i] \notin open'
          /\ \A j \in 1 .. Len(backlog') : backlog'[i] = backlog'[j] => i = j
    <3>1. \A i \in 1 .. Len(backlog) : backlog[i] # k /\ backlog'[i] \in Made' /\ backlog'[i] \notin open'
      BY <2>1, <2>2, <2>4, <1>i, <1>s, <1>m DEF PlaceInv
    <3>2. k \notin open'
      BY <2>1, <2>2, <1>i DEF PlaceInv
    <3> QED BY <2>3, <2>4, <3>1, <3>2, <1>s, <1>i DEF PlaceInv
  <2>6. open' \subseteq Made'
    BY <2>1, <1>i, <1>b, <1>m DEF PlaceInv
  <2> QED BY <2>1, <2>5, <2>6, <1>i DEF PlaceInv
<1> QED BY <1>i, PlacesMove, <1>1, <1>2, <1>3, <1>4, <1>5, <1>6

(* Every step keeps the buffers of the workers right. *)
LEMMA WorkerStepInv ==
  ASSUME Inv, [Next]_vars
  PROVE  WorkerInv'
<1>i. TypeOK /\ ThreadInv /\ ConnInv /\ PlaceInv /\ WorkerInv
  BY DEF Inv
<1>1. ASSUME ServerExit PROVE WorkerInv'
  BY <1>1, <1>i DEF ServerExit, WorkerInv
<1>2. CASE ServerMain
  <2>1. CASE Listen \/ Load
    BY <2>1, <1>i DEF Listen, Load, WorkerInv, network
  <2>2. CASE Accept
    <3>1. spc = "accepting" /\ spc' = spc /\ serving' = serving /\ UNCHANGED <<wpc, buffer, owner>>
      BY <2>2 DEF Accept, Q!Put, network
    <3> QED BY <3>1, <1>i DEF WorkerInv
  <2> QED BY <1>2, <2>1, <2>2, <1>1 DEF ServerMain, AcceptFails
<1>3. ASSUME NEW w \in Worker, WorkerStep(w) PROVE WorkerInv'
  <2>0. wpc \in [Worker -> WorkerPc] /\ buffer \in [Worker -> Messages] /\ serving \in [Worker -> Conn \cup {NULL}]
        /\ \A v \in Worker : serving[v] # NULL => serving[v] \in Conn
    BY <1>i DEF TypeOK
  <2>1. CASE Take(w)
    <3>1. /\ spc = "accepting" /\ wpc' = [wpc EXCEPT ![w] = "recv"] /\ waiting # <<>>
          /\ serving' = [serving EXCEPT ![w] = Head(waiting)] /\ spc' = spc /\ backlog' = backlog
          /\ buffer' = buffer /\ owner' = owner
      BY <2>1 DEF Take, WorkerGoes, Q!Take, network
    <3>2. Head(waiting) # NULL
      BY <3>1, <1>i, HeadTailProperties, NullIsNothing DEF TypeOK
    <3> QED BY <3>1, <3>2, <2>0, <1>i DEF WorkerInv
  <2>2. CASE Recv(w)
    <3>1. /\ spc = "accepting" /\ wpc' = [wpc EXCEPT ![w] = "solve"] /\ wpc[w] = "recv"
          /\ serving' = serving /\ spc' = spc /\ backlog' = backlog /\ waiting' = waiting
          /\ owner' = owner
      BY <2>2 DEF Recv, WorkerGoes, network
    <3>2. serving[w] \in Conn
      BY <3>1, <2>0, <1>i DEF WorkerInv
    <3>3. \/ /\ request[serving[w]] # NULL
             /\ buffer' = [buffer EXCEPT ![w] = Message("cube", request[serving[w]])]
          \/ owner[serving[w]] = NULL /\ buffer' = buffer
      BY <2>2 DEF Recv
    <3>4. request[serving[w]] # NULL => request[serving[w]] = CubeOf[serving[w][1]]
      BY <3>2, <1>i DEF ConnInv
    <3>5. owner'[serving[w]] # NULL => buffer'[w] = Message("cube", CubeOf[serving[w][1]])
      BY <3>1, <3>3, <3>4, <2>0
    <3>6. \A v \in Worker : v # w => buffer'[v] = buffer[v] /\ wpc'[v] = wpc[v]
      BY <3>1, <3>3, <2>0
    <3> QED BY <3>1, <3>5, <3>6, <2>0, <1>i DEF WorkerInv
  <2>3. CASE Solve(w)
    <3>1. /\ spc = "accepting" /\ wpc' = [wpc EXCEPT ![w] = "write"] /\ wpc[w] = "solve"
          /\ serving' = serving /\ spc' = spc /\ backlog' = backlog /\ waiting' = waiting
          /\ owner' = owner
      BY <2>3 DEF Solve, WorkerGoes, network
    <3>2. PICK cube \in Cube : /\ buffer[w].kind = "cube" => cube = buffer[w].cube
                               /\ buffer' = [buffer EXCEPT ![w] = Message("moves", cube)]
      BY <2>3 DEF Solve
    <3>3. buffer'[w] = Message("moves", cube) /\ buffer'[w].cube \in Cube
      BY <3>2, <2>0 DEF Message
    <3>4. owner[serving[w]] # NULL => buffer[w] = Message("cube", CubeOf[serving[w][1]])
      BY <3>1, <1>i DEF WorkerInv
    <3>5. owner'[serving[w]] # NULL => buffer'[w] = Message("moves", CubeOf[serving[w][1]])
      BY <3>1, <3>2, <3>3, <3>4 DEF Message
    <3>6. \A v \in Worker : v # w => buffer'[v] = buffer[v] /\ wpc'[v] = wpc[v]
      BY <3>1, <3>2, <2>0
    <3> QED BY <3>1, <3>3, <3>5, <3>6, <2>0, <1>i DEF WorkerInv
  <2>4. CASE Hang(w)
    BY <2>4, <2>0, <1>i DEF Hang, WorkerGoes, WorkerInv, network
  <2>5. CASE Crash(w)
    BY <2>5, <1>1 DEF Crash
  <2>6. CASE Write(w)
    BY <2>6, <2>0, <1>i DEF Write, WorkerGoes, WorkerInv
  <2>7. CASE Close(w)
    BY <2>7, <2>0, <1>i DEF Close, Q!Finish, WorkerGoes, WorkerInv, network
  <2> QED BY <1>3, <2>1, <2>2, <2>3, <2>4, <2>5, <2>6, <2>7 DEF WorkerStep
<1>r. ASSUME NEW w \in Worker, Reset(w) PROVE WorkerInv'
  BY <1>r, <1>1, ResetIsExit
(* The steps of the clients leave the workers alone, and give no connection *)
(* that is made an owner it did not have.                                  *)
<1>c. ASSUME spc' = spc, wpc' = wpc, buffer' = buffer, serving' = serving, waiting' = waiting,
             backlog' = backlog \/ spc \in {"loading", "accepting"},
             \A k \in Made : owner'[k] \in {owner[k], NULL}
      PROVE  WorkerInv'
  <2>1. \A w \in Worker : serving[w] # NULL => owner'[serving[w]] \in {owner[serving[w]], NULL}
    BY <1>c, <1>i DEF PlaceInv
  <2> QED BY <1>c, <2>1, <1>i DEF WorkerInv
<1>e. ASSUME NEW p \in Program, Exit(p) PROVE WorkerInv'
  <2>1. \A k \in Made : owner'[k] \in {owner[k], NULL}
    BY <1>e DEF Exit, Made
  <2> QED BY <1>e, <1>c, <2>1 DEF Exit, server
<1>4. ASSUME NEW c \in Client, ClientStep(c) PROVE WorkerInv'
  <2>1. CASE Connect(c)
    <3> DEFINE k == <<c, completed[c] + 1>>
    <3>1. owner' = [owner EXCEPT ![k] = c] /\ cpc[c] = "connect"
      BY <2>1 DEF Connect, Goes
    <3>2. \A l \in Made : owner'[l] = owner[l]
      BY <3>1, <1>i, NewIsNotMade DEF TypeOK, Made
    <3> QED BY <2>1, <1>c, <3>2 DEF Connect, ServerListens
  <2>2. CASE Send(c) \/ Receive(c)
    BY <2>2, <1>c DEF Send, Receive, server, network
  <2>3. CASE Check(c)
    <3>1. \A k \in Made : owner'[k] \in {owner[k], NULL}
      BY <2>3, <1>i DEF Check, TypeOK, Made
    <3> QED BY <2>3, <3>1, <1>c DEF Check, server
  <2>4. CASE \E p \in Program : Exit(p)
    BY <2>4, <1>e
  <2>5. CASE UNCHANGED <<network, server>>
    BY <2>5, <1>c DEF server, network
  <2> QED BY <1>4, <1>i, ThreadsGo, <2>1, <2>2, <2>3, <2>4, <2>5
<1>5. ASSUME NEW p \in Program, MainStep(p) \/ Kill(p) PROVE WorkerInv'
  BY <1>5, <1>e, <1>c DEF MainStep, Stop, Report, Kill, network, server
<1>6. CASE UNCHANGED vars
  BY <1>6, <1>c DEF vars, network, server
<1> QED BY <1>2, <1>3, <1>r, <1>4, <1>5, <1>6 DEF Next, AllOver, ServerStep

-----------------------------------------------------------------------------
(* The count. *)

(* Every step keeps the threads of a program apart while they count. *)
LEMMA LockStep ==
  ASSUME Inv, [Next]_vars
  PROVE  LockInv'
<1>i. TypeOK /\ LockInv /\ ThreadInv
  BY DEF Inv
<1>t. /\ cpc \in [Client -> ClientPc] /\ completed \in [Client -> Nat] /\ tmp \in [Client -> Nat]
      /\ mpc \in [Program -> MainPc] /\ request_count_lock \in [Program -> {0, 1}]
      /\ request_count \in [Program -> Nat]
      /\ \A c \in Client : ProgramOf[c] \in Program
  BY <1>i, ClientsBelongToPrograms DEF TypeOK
<1> USE DEF Counting, Pending, LockInv
<1>e. ASSUME NEW p \in Program, Exit(p) PROVE LockInv'
  BY <1>e, <1>i, <1>t DEF Exit
<1>u. ASSUME UNCHANGED <<cpc, tmp, completed, mpc, request_count, request_count_lock>>
   PROVE LockInv'
  BY <1>u, <1>i
<1>1. CASE ServerStep
  BY <1>1, <1>u, ServerLeavesClients DEF thread, shared
<1>2. ASSUME NEW c \in Client, ClientStep(c) PROVE LockInv'
  <2> USE DEF Goes
  <2>1. CASE Connect(c) \/ Send(c) \/ Receive(c)
    BY <2>1, <1>i, <1>t DEF Connect, Send, Receive, shared
  <2>2. CASE Check(c)
    BY <2>2, <1>i, <1>t DEF Check, shared
  <2>3. CASE ConnectFails(c) \/ LoseServer(c) \/ CheckFails(c)
    BY <2>3, <1>e, <1>t DEF ConnectFails, LoseServer, CheckFails
  <2>4. CASE LockCount(c)
    BY <2>4, <1>i, <1>t DEF LockCount
  <2>5. CASE ReadCount(c)
    BY <2>5, <1>i, <1>t DEF ReadCount, shared
  <2>6. CASE WriteCount(c)
    BY <2>6, <1>i, <1>t DEF WriteCount
  <2>7. CASE UnlockCount(c)
    BY <2>7, <1>i, <1>t DEF UnlockCount
  <2>8. CASE Test(c)
    BY <2>8, <1>i, <1>t DEF Test, shared
  <2> QED BY <1>2, <2>1, <2>2, <2>3, <2>4, <2>5, <2>6, <2>7, <2>8 DEF ClientStep
<1>3. ASSUME NEW p \in Program, MainStep(p) \/ Kill(p) PROVE LockInv'
  <2>1. CASE Stop(p)
    BY <2>1, <1>i, <1>t DEF Stop, MainGoes, thread
  <2>2. CASE Report(p)
    BY <2>2, <1>i, <1>t DEF Report, MainGoes, Threads, thread
  <2>3. CASE Kill(p)
    BY <2>3, <1>e DEF Kill
  <2> QED BY <1>3, <2>1, <2>2, <2>3 DEF MainStep
<1>4. CASE UNCHANGED vars
  BY <1>4, <1>u DEF vars, thread, shared
<1> QED BY <1>1, <1>2, <1>3, <1>4 DEF Next, AllOver, ServerStep

(* There are finitely many connections to count. *)
LEMMA CountedIsFinite ==
  ASSUME NEW p
  PROVE  IsFiniteSet(Counted(p)) /\ Cardinality(Counted(p)) \in Nat
<1>1. IsFiniteSet(1 .. MaxRequests)
  BY FS_Interval, LimitsAreNumbers
<1>2. IsFiniteSet(Conn)
  BY <1>1, FinitelyManyThreads, FS_Product DEF Conn
<1>3. Counted(p) \subseteq Conn
  BY DEF Counted
<1> QED BY <1>2, <1>3, FS_Subset, FS_CardinalityType

(* Every step keeps request_count the number of the counted connections. *)
LEMMA CountStep ==
  ASSUME Inv, [Next]_vars
  PROVE  CountInv'
<1>i. TypeOK /\ LockInv /\ ThreadInv /\ CountInv
  BY DEF Inv
<1>t. /\ cpc \in [Client -> ClientPc] /\ completed \in [Client -> Nat] /\ tmp \in [Client -> Nat]
      /\ mpc \in [Program -> MainPc] /\ request_count \in [Program -> Nat]
      /\ \A c \in Client : ProgramOf[c] \in Program
      /\ \A k \in Conn : k[1] \in Client /\ k[2] \in Nat /\ k[2] # 0
  BY <1>i, ClientsBelongToPrograms, ConnIs DEF TypeOK
(* Nothing is counted, *)
<1>u. ASSUME request_count' = request_count, \A p \in Program : mpc'[p] # "exited" => Counted(p)' = Counted(p) /\ mpc[p] # "exited"
      PROVE  CountInv'
  BY <1>u, <1>i DEF CountInv
<1>e. ASSUME NEW p \in Program, Exit(p) PROVE CountInv'
  <2>1. \A q \in Program : mpc'[q] # "exited" => Counted(q)' = Counted(q) /\ mpc[q] # "exited"
    <3> SUFFICES ASSUME NEW q \in Program, mpc'[q] # "exited"
       PROVE Counted(q)' = Counted(q) /\ mpc[q] # "exited"
      OBVIOUS
    <3>1. q # p /\ mpc'[q] = mpc[q]
      BY <1>e, <1>t DEF Exit
    <3>2. \A k \in Conn : ProgramOf[k[1]] = q => cpc'[k[1]] = cpc[k[1]] /\ completed' = completed
      BY <1>e, <1>t, <3>1 DEF Exit
    <3> QED BY <3>1, <3>2 DEF Counted
  <2> QED BY <2>1, <1>u, <1>e DEF Exit
<1>1. ASSUME UNCHANGED <<cpc, completed, request_count>>, \A p \in Program : mpc'[p] # "exited" => mpc[p] # "exited"
      PROVE  CountInv'
  BY <1>1, <1>u DEF Counted
(* or the thread goes on with the same connections counted. *)
<1>2. ASSUME NEW c \in Client, NEW s \in ClientPc, NEW t \in ClientPc, Goes(c, s, t), 
             UNCHANGED <<completed, request_count, mpc>>, s \in Pending <=> t \in Pending
      PROVE  CountInv'
  <2>1. \A d \in Client : cpc'[d] \in Pending <=> cpc[d] \in Pending
    BY <1>2, <1>t DEF Goes
  <2>2. \A p \in Program : Counted(p)' = Counted(p)
    BY <1>2, <1>t, <2>1 DEF Counted
  <2> QED BY <2>2, <1>u, <1>2
<1>3. CASE ServerStep
  BY <1>1, <1>3, ServerLeavesClients DEF thread, shared
<1>4. ASSUME NEW c \in Client, ClientStep(c) PROVE CountInv'
  <2>1. CASE Connect(c) \/ Send(c) \/ Receive(c)
    BY <2>1, <1>2 DEF Connect, Send, Receive, shared, ClientPc, Pending
  <2>2. CASE Check(c)
    <3>1. cpc[c] = "check" /\ cpc' = [cpc EXCEPT ![c] = "lock"] /\ completed' = [completed EXCEPT ![c] = @ + 1]
          /\ request_count' = request_count /\ mpc' = mpc
      BY <2>2 DEF Check, Goes, shared
    <3>2. \A p \in Program : Counted(p)' = Counted(p)
      <4> SUFFICES ASSUME NEW p \in Program, NEW k \in Conn
         PROVE k \in Counted(p)' <=> k \in Counted(p)
        BY DEF Counted
      <4>1. CASE k[1] = c
        BY <4>1, <3>1, <1>t DEF Counted, Pending
      <4>2. CASE k[1] # c
        BY <4>2, <3>1, <1>t DEF Counted
      <4> QED BY <4>1, <4>2
    <3> QED BY <3>1, <3>2, <1>u
  <2>3. CASE ConnectFails(c) \/ LoseServer(c) \/ CheckFails(c)
    BY <2>3, <1>e, <1>t DEF ConnectFails, LoseServer, CheckFails
  <2>4. CASE LockCount(c) \/ ReadCount(c) \/ UnlockCount(c) \/ Test(c)
    BY <2>4, <1>2 DEF LockCount, ReadCount, UnlockCount, Test, shared, ClientPc, Pending
  <2>5. CASE WriteCount(c)
    <3> DEFINE p == ProgramOf[c]  k == <<c, completed[c]>>
    <3>1. /\ cpc[c] = "write" /\ cpc' = [cpc EXCEPT ![c] = "unlock"] /\ completed' = completed
          /\ request_count' = [request_count EXCEPT ![p] = tmp[c] + 1] /\ mpc' = mpc
      BY <2>5 DEF WriteCount, Goes
    <3>2. tmp[c] = request_count[p] /\ completed[c] > 0 /\ completed[c] <= MaxRequests
      BY <3>1, <1>i DEF LockInv, Pending, ThreadInv
    <3>3. k \in Conn /\ k \notin Counted(p) 
      BY <3>1, <3>2, <1>t, LimitsAreNumbers DEF Conn, Counted, Pending
    <3>4. Counted(p)' = Counted(p) \cup {k}
      <4> SUFFICES ASSUME NEW l \in Conn PROVE l \in Counted(p)' <=> l \in Counted(p) \/ l = k
        BY <3>3 DEF Counted
      <4>1. CASE l[1] = c
        <5>1. l = k <=> l[2] = completed[c]
          BY <4>1, ConnIs
        <5> QED BY <5>1, <4>1, <3>1, <1>t DEF Counted, Pending
      <4>2. CASE l[1] # c
        BY <4>2, <3>1, <1>t DEF Counted
      <4> QED BY <4>1, <4>2
    <3>5. Cardinality(Counted(p)') = Cardinality(Counted(p)) + 1
      BY <3>3, <3>4, CountedIsFinite, FS_AddElement
    <3>6. \A q \in Program : q # p => Counted(q)' = Counted(q)
      <4> SUFFICES ASSUME NEW q \in Program, q # p, NEW l \in Conn
         PROVE l \in Counted(q)' <=> l \in Counted(q)
        BY DEF Counted
      <4> QED BY <3>1, <1>t DEF Counted
    <3> QED BY <3>1, <3>2, <3>5, <3>6, <1>t, <1>i DEF CountInv
  <2> QED BY <1>4, <2>1, <2>2, <2>3, <2>4, <2>5 DEF ClientStep
<1>5. ASSUME NEW p \in Program, MainStep(p) \/ Kill(p) PROVE CountInv'
  BY <1>5, <1>e, <1>1, <1>t DEF MainStep, Stop, Report, Kill, MainGoes, thread
<1>6. CASE UNCHANGED vars
  BY <1>6, <1>1 DEF vars, thread, shared
<1> QED BY <1>3, <1>4, <1>5, <1>6 DEF Next, AllOver, ServerStep

-----------------------------------------------------------------------------
(* The theorems. *)

(* A step brings no wrong answer. *)
LEMMA AnswerStep ==
  ASSUME Inv, [Next]_vars
  PROVE  AnswersAreRight'
<1>i. TypeOK /\ ThreadInv /\ ConnInv /\ AnswersAreRight
  BY DEF Inv
<1>t. cpc \in [Client -> ClientPc] /\ answer \in [Client -> Cube \cup {NULL}]
  BY <1>i DEF TypeOK
<1>u. ASSUME answer' = answer, spc = "dead" => spc' = "dead", 
             \A c \in Client : cpc'[c] = "check" => cpc[c] = "check"
      PROVE  AnswersAreRight'
  BY <1>u, <1>i DEF AnswersAreRight
<1>1. CASE ServerStep
  <2>1. spc = "dead" => spc' = "dead"
    BY <1>1, ResetIsExit
       DEF ServerStep, ServerMain, WorkerStep, Listen, Load, Accept, AcceptFails, ServerExit, Take, Recv,
          Solve, Hang, Crash, Write, Close, WorkerGoes
  <2> QED BY <2>1, <1>1, <1>u, ServerLeavesClients DEF thread
<1>e. ASSUME NEW p \in Program, Exit(p) PROVE AnswersAreRight'
  BY <1>e, <1>u DEF Exit, server
<1>2. ASSUME NEW c \in Client, ClientStep(c) PROVE AnswersAreRight'
  <2>1. CASE Connect(c) \/ Send(c)
    BY <2>1, <1>u, <1>t DEF Connect, Send, Goes, server
  <2>2. CASE Receive(c)
    <3>1. /\ cpc' = [cpc EXCEPT ![c] = "check"] /\ cpc[c] = "recv" /\ spc' = spc
          /\ answer' = [answer EXCEPT ![c] = reply[conn[c]]]
          /\ reply[conn[c]] # NULL \/ spc = "dead"
      BY <2>2 DEF Receive, Goes, server
    <3>2. conn[c] \in Conn /\ conn[c] = <<c, completed[c] + 1>>
      BY <3>1, <1>i, ConnMade
    <3>3. reply[conn[c]] # NULL => reply[conn[c]] = CubeOf[c]
      BY <3>2, <1>i DEF ConnInv
    <3> QED BY <3>1, <3>3, <1>t, <1>i DEF AnswersAreRight
  <2>3. CASE Check(c)
    BY <2>3, <1>t, <1>i DEF Check, Goes, server, AnswersAreRight
  <2>4. CASE \E p \in Program : Exit(p)
    BY <2>4, <1>e
  <2>5. ASSUME NEW s \in ClientPc, NEW t \in ClientPc \ Connected, Goes(c, s, t), UNCHANGED <<server, answer>>
        PROVE AnswersAreRight'
    BY <2>5, <1>u, <1>t DEF Goes, server, Connected
  <2> QED BY <1>2, <1>i, ThreadsGo, <2>1, <2>2, <2>3, <2>4, <2>5
<1>3. ASSUME NEW p \in Program, MainStep(p) \/ Kill(p) PROVE AnswersAreRight'
  BY <1>3, <1>e, <1>u DEF MainStep, Stop, Report, Kill, server, thread
<1>4. CASE UNCHANGED vars
  BY <1>4, <1>u DEF vars, server, thread
<1> QED BY <1>1, <1>2, <1>3, <1>4 DEF Next, AllOver, ServerStep

(* The invariant holds when everything starts. *)
LEMMA InitInv == Init => Inv
<1> SUFFICES ASSUME Init PROVE Inv
  OBVIOUS
<1> USE DEF Init, Q!QueueInit
<1>1. TypeOK
  BY DEF TypeOK, ServerPc, WorkerPc, ClientPc, MainPc, Messages, Garbage
<1>2. ThreadInv /\ ConnInv /\ PlaceInv /\ LockInv /\ AnswersAreRight
  BY LimitsAreNumbers, ClientsBelongToPrograms
     DEF ThreadInv, ConnInv, PlaceInv, LockInv, AnswersAreRight, Connected, Counting, Pending
<1>3. WorkerInv
  BY DEF WorkerInv
<1>4. \A p : Counted(p) = {}
  BY ConnIs DEF Counted
<1>5. CountInv
  BY <1>4, FS_EmptySet DEF CountInv
<1> QED BY <1>1, <1>2, <1>3, <1>5 DEF Inv

(* The invariant is inductive: whatever client programs are killed and     *)
(* whenever the server goes down, a connection is in one place, carries    *)
(* the cube and the solution of the thread that made it, and is counted    *)
(* once (client.cpp:146-197, server.cpp:90-138, 187-208).                  *)
THEOREM Inductive == Spec => []Inv
<1>1. Inv /\ [Next]_vars => Inv'
  BY TypeStep, ThreadStep, ConnStep, PlaceStep, WorkerStepInv, LockStep, CountStep, AnswerStep
     DEF Inv
<1> QED BY InitInv, <1>1, PTL DEF Spec

(* Every variable stays in its type; the semaphore of a program is never   *)
(* posted twice.                                                           *)
THEOREM TypeCorrect == Spec => []TypeOK
<1>1. Inv => TypeOK
  BY DEF Inv
<1> QED BY <1>1, Inductive, PTL

(* Whatever the buffers of the workers still hold of clients that died, a  *)
(* client gets the solution of its own cube (server.cpp:88-135).           *)
THEOREM RightAnswers == Spec => []AnswersAreRight
<1>1. Inv => AnswersAreRight
  BY DEF Inv
<1> QED BY <1>1, Inductive, PTL

(* The figure that a program prints is the number of the connections that  *)
(* its threads closed successfully (client.cpp:188-190, 256).              *)
THEOREM ExactCount == Spec => []CountIsExact
<1>1. Inv => CountIsExact
  <2> SUFFICES ASSUME Inv, NEW p \in Program, mpc[p] = "reported"
     PROVE request_count[p] = Cardinality(Closed(p))
    BY DEF CountIsExact
  <2>1. request_count[p] = Cardinality(Counted(p))
    BY DEF Inv, CountInv
  <2>2. \A k \in Conn : ProgramOf[k[1]] = p => cpc[k[1]] \notin Pending
    BY ConnIs DEF Inv, LockInv, Pending
  <2>3. Counted(p) = Closed(p)
    BY <2>2 DEF Counted, Closed
  <2> QED BY <2>1, <2>3
<1> QED BY <1>1, Inductive, PTL

-----------------------------------------------------------------------------
(* With room for everybody nothing fails. *)

(* The connections whose thread still waits for the answer. *)
Unanswered == {k \in Conn : owner[k] # NULL /\ reply[k] = NULL}

(* The server is up, everything it has to do is for a thread that waits,   *)
(* and a socket that it need not keep is about to be closed.               *)
RoomInv ==
  /\ spc # "dead"
  /\ spc = "off" => \A c \in Client : cpc[c] \in {"connect", "exited"}
  /\ \A c \in Client :
       /\ cpc[c] \in {"recv", "check"} => request[conn[c]] # NULL
       /\ cpc[c] = "check" => reply[conn[c]] # NULL /\ answer[c] = CubeOf[c]
  /\ \A i \in 1 .. Len(backlog) : backlog[i] \in Unanswered
  /\ \A i \in 1 .. Len(waiting) : waiting[i] \in Unanswered
  /\ \A w \in Worker :
       /\ wpc[w] \in {"recv", "solve", "write"} => serving[w] \in Unanswered
       /\ wpc[w] = "solve" => request[serving[w]] # NULL
       /\ wpc[w] # "hung"
  /\ \A k \in open :
       k \in Unanswered \/ \E w \in Worker : wpc[w] = "close" /\ serving[w] = k
  /\ \A p \in Program : mpc[p] \in {"join", "reported"} => should_stop[p]

(* A thread that is not connected leaves room in the backlog for itself, *)
LEMMA BacklogHasRoom ==
  ASSUME Inv, RoomInv, Roomy, NEW c \in Client, cpc[c] = "connect"
  PROVE  Len(backlog) < BacklogLimit
<1>1. Len(backlog) \in Nat /\ \A i \in 1 .. Len(backlog) : backlog[i] \in Conn
  BY DEF Inv, TypeOK
<1>2. \A i \in 1 .. Len(backlog) : /\ backlog[i] = <<backlog[i][1], completed[backlog[i][1]] + 1>>
                                   /\ backlog[i][1] \in Client \ {c}
  BY <1>1, ConnIs DEF Inv, ConnInv, RoomInv, Unanswered, Connected
<1> DEFINE f == [i \in 1 .. Len(backlog) |-> backlog[i][1]]
<1>3. f \in Injection(1 .. Len(backlog), Client \ {c})
  <2>1. \A i, j \in 1 .. Len(backlog) : f[i] = f[j] => i = j
    BY <1>2 DEF Inv, PlaceInv
  <2>2. f \in [1 .. Len(backlog) -> Client \ {c}]
    BY <1>2
  <2> HIDE DEF f
  <2> QED BY <2>1, <2>2 DEF Injection, IsInjective
<1>4. IsFiniteSet(Client \ {c}) /\ Cardinality(Client \ {c}) = Cardinality(Client) - 1
  BY FinitelyManyThreads, FS_RemoveElement
<1>5. Cardinality(1 .. Len(backlog)) <= Cardinality(Client \ {c})
  BY <1>3, <1>4, FS_Injection
<1>6. Cardinality(1 .. Len(backlog)) = Len(backlog)
  <2>1. 1 \in Int /\ Len(backlog) \in Int
    BY <1>1
  <2>2. Cardinality(1 .. Len(backlog)) = IF 1 > Len(backlog) THEN 0 ELSE Len(backlog) - 1 + 1
    BY <2>1, FS_Interval
  <2> QED BY <2>2, <1>1
<1> QED BY <1>1, <1>4, <1>5, <1>6, LimitsAreNumbers, FinitelyManyThreads, FS_CardinalityType
   DEF Roomy

(* The workers about to close their socket. *)
Closing == {w \in Worker : wpc[w] = "close"}

(* the open sockets are those of a thread each, or about to be closed by a *)
(* worker each,                                                            *)
LEMMA OpenIsBounded ==
  ASSUME Inv, RoomInv, NEW C \in SUBSET Client, \A k \in open : owner[k] # NULL => k[1] \in C
  PROVE  /\ IsFiniteSet(open) /\ Cardinality(open) \in Nat
         /\ Cardinality(C) \in Nat /\ Cardinality(Closing) \in Nat
         /\ Cardinality(open) <= Cardinality(C) + Cardinality(Closing)
<1> DEFINE Owned == {k \in open : owner[k] # NULL}
           Rest == {k \in open : owner[k] = NULL}
           f == [k \in Owned |-> k[1]]
           g == [k \in Rest |-> CHOOSE w \in Closing : serving[w] = k]
<1>0. open \subseteq Conn
  BY DEF Inv, TypeOK
<1>1. f \in Injection(Owned, C)
  <2>1. \A k \in Owned : k = <<k[1], completed[k[1]] + 1>>
    BY <1>0, ConnIs DEF Inv, ConnInv
  <2>2. f \in [Owned -> C]
    OBVIOUS
  <2>3. \A k, l \in Owned : f[k] = f[l] => k = l
    BY <2>1
  <2> HIDE DEF f, Owned
  <2> QED BY <2>2, <2>3 DEF Injection, IsInjective
<1>2. g \in Injection(Rest, Closing)
  <2>1. \A k \in Rest : g[k] \in Closing /\ serving[g[k]] = k
    BY DEF RoomInv, Closing, Unanswered
  <2>2. g \in [Rest -> Closing]
    BY <2>1
  <2>3. \A k, l \in Rest : g[k] = g[l] => k = l
    BY <2>1
  <2> HIDE DEF g, Rest
  <2> QED BY <2>2, <2>3 DEF Injection, IsInjective
<1>3. IsFiniteSet(C) /\ IsFiniteSet(Closing)
  BY FinitelyManyThreads, FS_Subset DEF Closing
<1>4. IsFiniteSet(Owned) /\ Cardinality(Owned) <= Cardinality(C)
  BY <1>1, <1>3, FS_Injection
<1>5. IsFiniteSet(Rest) /\ Cardinality(Rest) <= Cardinality(Closing)
  BY <1>2, <1>3, FS_Injection
<1>6. open = Owned \cup Rest /\ Owned \cap Rest = {}
  OBVIOUS
<1>7. IsFiniteSet(open) /\ Cardinality(open) = Cardinality(Owned) + Cardinality(Rest) - Cardinality(Owned \cap Rest)
  BY <1>4, <1>5, <1>6, FS_Union
<1>8. Cardinality(Owned \cap Rest) = 0
  BY <1>6, FS_EmptySet
<1> HIDE DEF Owned, Rest
<1> QED BY <1>3, <1>4, <1>5, <1>7, <1>8, FS_CardinalityType

(* so that there is a descriptor for the next connection, *)
LEMMA DescriptorsSuffice ==
  ASSUME Inv, RoomInv, Roomy, backlog # <<>>
  PROVE  Cardinality(open) < FdLimit
<1> DEFINE c == Head(backlog)[1]
<1>1. 1 \in 1 .. Len(backlog) /\ Head(backlog) = backlog[1] /\ backlog[1] \in Conn
  BY HeadTailProperties DEF Inv, TypeOK
<1>2. c \in Client /\ backlog[1] = <<c, completed[c] + 1>> /\ backlog[1] \notin open
  BY <1>1, ConnIs DEF Inv, ConnInv, PlaceInv, RoomInv, Unanswered
<1>3. \A k \in open : owner[k] # NULL => k[1] \in Client \ {c}
  <2> SUFFICES ASSUME NEW k \in open, owner[k] # NULL PROVE k[1] \in Client \ {c}
    OBVIOUS
  <2>1. k \in Conn
    BY DEF Inv, TypeOK
  <2>2. k = <<k[1], completed[k[1]] + 1>> /\ k[1] \in Client
    BY <2>1, ConnIs DEF Inv, ConnInv
  <2> QED BY <2>2, <1>2
<1>4. Cardinality(Client \ {c}) = Cardinality(Client) - 1
  BY <1>2, FinitelyManyThreads, FS_RemoveElement
<1>5. Cardinality(open) <= Cardinality(Client \ {c}) + Cardinality(Closing) /\ Cardinality(open) \in Nat /\ Cardinality(Closing) \in Nat
  BY <1>3, OpenIsBounded
<1>6. Cardinality(Closing) <= Cardinality(Worker)
  BY FinitelyManyThreads, FS_Subset DEF Closing
<1> HIDE DEF c
<1> QED BY <1>4, <1>5, <1>6, LimitsAreNumbers, FinitelyManyThreads, FS_CardinalityType DEF Roomy

(* and the solver is given the cube that came over the connection. *)
LEMMA SolverGetsACube ==
  ASSUME Inv, RoomInv, NEW w \in Worker, wpc[w] = "solve", spc = "accepting"
  PROVE  buffer[w] = Message("cube", request[serving[w]]) /\ buffer[w].kind = "cube"
<1>1. serving[w] \in Conn /\ owner[serving[w]] # NULL /\ request[serving[w]] # NULL
  BY DEF RoomInv, Unanswered
<1>2. request[serving[w]] = CubeOf[serving[w][1]]
  BY <1>1 DEF Inv, ConnInv
<1>3. buffer[w] = Message("cube", CubeOf[serving[w][1]])
  BY <1>1 DEF Inv, WorkerInv
<1> QED BY <1>2, <1>3 DEF Message

(* So none of the steps that give up is possible, except connect() before  *)
(* the server listens.                                                     *)
LEMMA NothingFails ==
  ASSUME Inv, RoomInv, Roomy
  PROVE  /\ ~ AcceptFails
         /\ \A w \in Worker : ~ Hang(w) /\ ~ Crash(w) /\ ~ Reset(w)
         /\ \A c \in Client : ~ LoseServer(c) /\ ~ CheckFails(c) /\ (ConnectFails(c) => spc = "off")
         /\ \A p \in Program : ~ Kill(p)
<1>1. ~ AcceptFails
  <2>1. open \subseteq Conn /\ IsFiniteSet(open) /\ Cardinality(open) \in Nat
    BY OpenIsBounded, ConnIs DEF Inv, TypeOK
  <2> QED BY <2>1, DescriptorsSuffice, LimitsAreNumbers DEF AcceptFails
<1>2. \A w \in Worker : ~ Hang(w) /\ ~ Crash(w)
  BY SolverGetsACube DEF Hang, Crash, WorkerGoes
<1>r. \A w \in Worker : ~ Reset(w)
  BY ResetIsExit DEF RoomInv, Unanswered
<1>3. \A c \in Client : ~ LoseServer(c) /\ ~ CheckFails(c)
  BY DEF LoseServer, CheckFails, RoomInv
<1>4. \A c \in Client : ConnectFails(c) => spc = "off"
  <2> SUFFICES ASSUME NEW c \in Client, ConnectFails(c) PROVE spc = "off"
    OBVIOUS
  <2>1. cpc[c] = "connect" /\ (~ ServerListens \/ Len(backlog) >= BacklogLimit)
    BY DEF ConnectFails
  <2>2. Len(backlog) < BacklogLimit
    BY <2>1, BacklogHasRoom
  <2>3. Len(backlog) \in Nat
    BY DEF Inv, TypeOK
  <2>4. ~ ServerListens
    BY <2>1, <2>2, <2>3, LimitsAreNumbers
  <2> QED BY <2>4 DEF ServerListens, RoomInv, Inv, TypeOK, ServerPc
<1>5. \A p \in Program : ~ Kill(p)
  BY DEF Kill, Roomy
<1> QED BY <1>1, <1>2, <1>r, <1>3, <1>4, <1>5

(* Every step keeps it so. *)
LEMMA RoomStep ==
  ASSUME Inv, RoomInv, Roomy, [Next]_vars
  PROVE  RoomInv'
<1>i. TypeOK /\ ThreadInv /\ ConnInv /\ PlaceInv /\ WorkerInv /\ LockInv
  BY DEF Inv
<1>b. backlog \in Seq(Conn) /\ waiting \in Seq(Conn) /\ open \subseteq Conn /\ serving \in [Worker -> Conn \cup {NULL}]
      /\ wpc \in [Worker -> WorkerPc] /\ cpc \in [Client -> ClientPc] /\ mpc \in [Program -> MainPc]
      /\ Len(backlog) \in Nat /\ Len(waiting) \in Nat
      /\ owner \in [Conn -> Client \cup {NULL}] /\ reply \in [Conn -> Cube \cup {NULL}] /\ request \in [Conn -> Cube \cup {NULL}]
  BY <1>i DEF TypeOK
<1>1. CASE ServerMain
  <2>1. CASE Listen
    BY <2>1, <1>i DEF Listen, RoomInv, Unanswered, network, thread, shared
  <2>2. CASE Load
    BY <2>2, <1>i DEF Load, RoomInv, Unanswered, network, thread, shared
  <2>3. CASE Accept
    <3> DEFINE k == Head(backlog)
    <3>1. /\ backlog # <<>> /\ backlog' = Tail(backlog) /\ open' = open \cup {k} /\ spc' = spc
          /\ waiting' = Append(waiting, k) /\ UNCHANGED <<serving, wpc, network, thread, shared>>
      BY <2>3 DEF Accept, Q!Put
    <3>2. k = backlog[1] /\ 1 \in 1 .. Len(backlog) /\ k \in Conn
      BY <3>1, <1>b, HeadTailProperties
    <3>3. k \in Unanswered /\ owner[k] # NULL /\ Unanswered' = Unanswered
      BY <3>1, <3>2 DEF RoomInv, Unanswered, network
    <3>4. \A i \in 1 .. Len(backlog') : backlog'[i] \in Unanswered'
      <4>1. \A i \in 1 .. Len(backlog') : i + 1 \in 1 .. Len(backlog) /\ backlog'[i] = backlog[i + 1]
        BY <3>1, <1>b, HeadTailProperties
      <4> QED BY <4>1, <3>3 DEF RoomInv
    <3>5. \A i \in 1 .. Len(waiting') : waiting'[i] \in Unanswered'
      <4>1. \A i \in 1 .. Len(waiting') : (i \in 1 .. Len(waiting) /\ waiting'[i] = waiting[i]) \/ waiting'[i] = k
        BY <3>1, <3>2, <1>b, AppendProperties
      <4> QED BY <4>1, <3>3 DEF RoomInv
    <3> QED BY <3>1, <3>3, <3>4, <3>5 DEF RoomInv, network, thread, shared
  <2> QED BY <1>1, <2>1, <2>2, <2>3, NothingFails DEF ServerMain
<1>2. ASSUME NEW w \in Worker, WorkerStep(w) PROVE RoomInv'
  <2>0. UNCHANGED <<spc, backlog, owner, request, thread, shared>>
    <3>1. UNCHANGED <<spc, backlog>>
      BY <1>2, NothingFails DEF WorkerStep, Take, Recv, Solve, Write, Close
    <3> QED BY <1>2, <3>1, ServerLeavesClients DEF ServerStep
  <2>1. CASE Take(w)
    <3>1. /\ waiting # <<>> /\ waiting' = Tail(waiting) /\ open' = open /\ reply' = reply
          /\ serving' = [serving EXCEPT ![w] = Head(waiting)]
          /\ wpc[w] = "wait" /\ wpc' = [wpc EXCEPT ![w] = "recv"]
      BY <2>1 DEF Take, Q!Take, WorkerGoes, network
    <3>2. Head(waiting) = waiting[1] /\ 1 \in 1 .. Len(waiting)
      BY <3>1, <1>b, HeadTailProperties
    <3>3. Unanswered' = Unanswered /\ waiting[1] \in Unanswered
      BY <3>1, <3>2, <2>0 DEF RoomInv, Unanswered
    <3>4. \A i \in 1 .. Len(waiting') : waiting'[i] \in Unanswered
      <4>1. \A i \in 1 .. Len(waiting') : i + 1 \in 1 .. Len(waiting) /\ waiting'[i] = waiting[i + 1]
        BY <3>1, <1>b, HeadTailProperties
      <4> QED BY <4>1 DEF RoomInv
    <3>5. \A v \in Worker : wpc'[v] = (IF v = w THEN "recv" ELSE wpc[v]) /\ serving'[v] = IF v = w THEN waiting[1] ELSE serving[v]
      BY <3>1, <3>2, <1>b
    <3>6. \A k \in open' : k \in Unanswered' \/ \E v \in Worker : wpc'[v] = "close" /\ serving'[v] = k
      BY <3>1, <3>3, <3>5, <2>0 DEF RoomInv
    <3> QED BY <3>1, <3>3, <3>4, <3>5, <3>6, <2>0 DEF RoomInv, thread, shared
  <2>2. CASE Recv(w)
    <3>1. /\ UNCHANGED <<waiting, open, reply, serving>>
          /\ wpc[w] = "recv" /\ wpc' = [wpc EXCEPT ![w] = "solve"] 
          /\ request[serving[w]] # NULL \/ owner[serving[w]] = NULL
      BY <2>2 DEF Recv, WorkerGoes, network
    <3>2. Unanswered' = Unanswered /\ owner[serving[w]] # NULL
      BY <3>1, <2>0 DEF RoomInv, Unanswered
    <3>3. \A v \in Worker : wpc'[v] = IF v = w THEN "solve" ELSE wpc[v]
      BY <3>1, <1>b
    <3> QED BY <3>1, <3>2, <3>3, <2>0 DEF RoomInv, thread, shared
  <2>3. CASE Solve(w)
    <3>1. /\ UNCHANGED <<waiting, open, reply, serving>>
          /\ wpc[w] = "solve" /\ wpc' = [wpc EXCEPT ![w] = "write"] 
      BY <2>3 DEF Solve, WorkerGoes, network
    <3>2. Unanswered' = Unanswered
      BY <3>1, <2>0 DEF Unanswered
    <3>3. \A v \in Worker : wpc'[v] = IF v = w THEN "write" ELSE wpc[v]
      BY <3>1, <1>b
    <3> QED BY <3>1, <3>2, <3>3, <2>0 DEF RoomInv, thread, shared
  <2>4. CASE Write(w)
    <3>1. /\ UNCHANGED <<waiting, open, serving>>
          /\ wpc[w] = "write" /\ wpc' = [wpc EXCEPT ![w] = "close"] 
          /\ spc = "accepting"
          /\ reply' = IF owner[serving[w]] = NULL THEN reply ELSE [reply EXCEPT ![serving[w]] = buffer[w].cube]
      BY <2>4 DEF Write, WorkerGoes
    <3>2. serving[w] \in Unanswered /\ serving[w] \in Conn /\ serving[w] # NULL
      BY <3>1, <1>i DEF RoomInv, Unanswered, WorkerInv
    <3>3. reply' = [reply EXCEPT ![serving[w]] = buffer[w].cube] /\ buffer[w].cube # NULL
      BY <3>1, <3>2, <1>i, NullIsNothing DEF Unanswered, WorkerInv
    <3>4. Unanswered' = Unanswered \ {serving[w]} /\ \A k \in Conn : reply[k] # NULL => reply'[k] # NULL
      BY <3>3, <1>b, <2>0 DEF Unanswered
    <3>5. \A v \in Worker : wpc'[v] = IF v = w THEN "close" ELSE wpc[v]
      BY <3>1, <1>b
    <3>6. \A i \in 1 .. Len(backlog) : backlog[i] \in Unanswered'
      BY <3>4, <3>2, <1>i DEF RoomInv, PlaceInv
    <3>7. \A i \in 1 .. Len(waiting) : waiting[i] \in Unanswered'
      BY <3>4, <3>2, <1>i DEF RoomInv, PlaceInv
    <3>8. \A v \in Worker : wpc'[v] \in {"recv", "solve", "write"} => serving[v] \in Unanswered'
      BY <3>4, <3>2, <3>5, <1>i DEF RoomInv, PlaceInv
    <3>9. \A c \in Client : cpc[c] = "check" => reply'[conn[c]] # NULL
      BY <3>4, <1>i, ConnMade DEF RoomInv
    <3>10. \A k \in open : k \in Unanswered' \/ \E v \in Worker : wpc'[v] = "close" /\ serving[v] = k
      BY <3>4, <3>5 DEF RoomInv
    <3> QED BY <3>1, <3>5, <3>6, <3>7, <3>8, <3>9, <3>10, <2>0 DEF RoomInv, thread, shared
  <2>5. CASE Close(w)
    <3>1. /\ waiting' = waiting /\ reply' = reply /\ open' = open \ {serving[w]}
          /\ wpc[w] = "close" /\ wpc' = [wpc EXCEPT ![w] = "wait"] /\ serving' = [serving EXCEPT ![w] = NULL]
      BY <2>5 DEF Close, Q!Finish, WorkerGoes, network
    <3>2. Unanswered' = Unanswered
      BY <3>1, <2>0 DEF Unanswered
    <3>3. \A v \in Worker : wpc'[v] = (IF v = w THEN "wait" ELSE wpc[v]) /\ serving'[v] = IF v = w THEN NULL ELSE serving[v]
      BY <3>1, <1>b
    <3>4. \A k \in open' : k \in Unanswered' \/ \E v \in Worker : wpc'[v] = "close" /\ serving'[v] = k
      BY <3>1, <3>2, <3>3, <2>0, <1>b DEF RoomInv
    <3> QED BY <3>1, <3>2, <3>3, <3>4, <2>0 DEF RoomInv, thread, shared
  <2> QED BY <1>2, <2>1, <2>2, <2>3, <2>4, <2>5, NothingFails DEF WorkerStep
<1>3. ASSUME NEW c \in Client, ClientStep(c) PROVE RoomInv'
  <2>1. CASE Connect(c)
    <3> DEFINE k == <<c, completed[c] + 1>>
    <3>1. /\ cpc[c] = "connect" /\ cpc' = [cpc EXCEPT ![c] = "send"] /\ ServerListens
          /\ conn' = [conn EXCEPT ![c] = k] /\ owner' = [owner EXCEPT ![k] = c]
          /\ backlog' = Append(backlog, k) 
          /\ UNCHANGED <<request, reply, spc, open, waiting, serving, wpc, answer, completed, shared>>
      BY <2>1 DEF Connect, Goes
    <3>2. k \in Conn /\ k \notin Made
      BY <3>1, <1>i, ConnMade, NewIsNotMade
    <3>3. reply[k] = NULL
      BY <3>2, <1>i DEF ConnInv
    <3>4. Unanswered \subseteq Unanswered' /\ k \in Unanswered'
      BY <3>1, <3>2, <3>3, <1>b, NullIsNothing DEF Unanswered
    <3>5. \A i \in 1 .. Len(backlog') : backlog'[i] \in Unanswered'
      <4>1. \A i \in 1 .. Len(backlog') : (i \in 1 .. Len(backlog) /\ backlog'[i] = backlog[i]) \/ backlog'[i] = k
        BY <3>1, <3>2, <1>b, AppendProperties
      <4> QED BY <4>1, <3>4 DEF RoomInv
    <3>6. \A l \in open' : l \in Unanswered' \/ \E v \in Worker : wpc'[v] = "close" /\ serving'[v] = l
      BY <3>1, <3>4, <1>b DEF RoomInv
    <3>7. \A d \in Client : cpc'[d] \in {"recv", "check"} => cpc'[d] = cpc[d] /\ conn'[d] = conn[d]
      BY <3>1, <1>i DEF TypeOK
    <3>8. spc # "off"
      BY <3>1 DEF ServerListens
    <3> QED BY <3>1, <3>4, <3>5, <3>6, <3>7, <3>8 DEF RoomInv, shared
  <2>2. CASE Send(c)
    <3>1. /\ cpc[c] = "send" /\ cpc' = [cpc EXCEPT ![c] = "recv"]
          /\ request' = [request EXCEPT ![conn[c]] = CubeOf[c]]
          /\ UNCHANGED <<owner, reply, server, conn, answer, shared>>
      BY <2>2 DEF Send, Goes
    <3>2. conn[c] \in Conn /\ CubeOf[c] # NULL
      BY <3>1, <1>i, ConnMade, NullIsNothing DEF Cube
    <3>3. \A k \in Conn : request[k] # NULL => request'[k] # NULL
      BY <3>1, <3>2, <1>b
    <3>4. \A d \in Client : cpc'[d] \in {"recv", "check"} => request'[conn[d]] # NULL
      <4> SUFFICES ASSUME NEW d \in Client, cpc'[d] \in {"recv", "check"}
         PROVE request'[conn[d]] # NULL
        OBVIOUS
      <4>1. CASE d = c
        BY <4>1, <3>1, <3>2, <1>b
      <4>2. CASE d # c
        BY <4>2, <3>1, <3>3, <1>b, <1>i, ConnMade DEF RoomInv
      <4> QED BY <4>1, <4>2
    <3>5. \A w \in Worker : wpc[w] = "solve" => request'[serving[w]] # NULL
      BY <3>3 DEF RoomInv, Unanswered
    <3>6. \A d \in Client : cpc'[d] = "check" => cpc[d] = "check"
      BY <3>1, <1>b
    <3>7. spc # "off"
      BY <3>1 DEF RoomInv
    <3>8. Unanswered' = Unanswered
      BY <3>1 DEF Unanswered
    <3> QED BY <3>1, <3>4, <3>5, <3>6, <3>7, <3>8 DEF RoomInv, shared, server
  <2>3. CASE Receive(c)
    <3>1. /\ cpc[c] = "recv" /\ cpc' = [cpc EXCEPT ![c] = "check"] /\ reply[conn[c]] # NULL
          /\ answer' = [answer EXCEPT ![c] = reply[conn[c]]]
          /\ UNCHANGED <<network, server, conn, shared>>
      BY <2>3 DEF Receive, Goes, RoomInv
    <3>2. conn[c] \in Conn /\ conn[c] = <<c, completed[c] + 1>>
      BY <3>1, <1>i, ConnMade
    <3>3. reply[conn[c]] = CubeOf[c]
      BY <3>1, <3>2, <1>i DEF ConnInv
    <3>4. \A d \in Client : /\ cpc'[d] \in {"recv", "check"} => request[conn[d]] # NULL
                            /\ cpc'[d] = "check" => reply[conn[d]] # NULL /\ answer'[d] = CubeOf[d]
      <4> SUFFICES ASSUME NEW d \in Client
                   PROVE  /\ cpc'[d] \in {"recv", "check"} => request[conn[d]] # NULL
                          /\ cpc'[d] = "check" => reply[conn[d]] # NULL /\ answer'[d] = CubeOf[d]
        OBVIOUS
      <4>1. CASE d = c
        <5>1. answer'[c] = CubeOf[c]
          BY <3>1, <3>3, <1>i DEF TypeOK
        <5>2. request[conn[c]] # NULL
          BY <3>1 DEF RoomInv
        <5> QED BY <4>1, <5>1, <5>2, <3>1
      <4>2. CASE d # c
        <5>1. answer'[d] = answer[d] /\ cpc'[d] = cpc[d]
          BY <4>2, <3>1, <1>i DEF TypeOK
        <5> QED BY <5>1 DEF RoomInv
      <4> QED BY <4>1, <4>2
    <3>5. spc # "off"
      BY <3>1 DEF RoomInv
    <3>6. Unanswered' = Unanswered
      BY <3>1 DEF Unanswered, network
    <3> QED BY <3>1, <3>4, <3>5, <3>6 DEF RoomInv, shared, server, network
  <2>4. CASE Check(c)
    <3>1. /\ cpc[c] = "check" /\ cpc' = [cpc EXCEPT ![c] = "lock"]
          /\ owner' = [owner EXCEPT ![conn[c]] = NULL] /\ conn' = [conn EXCEPT ![c] = NULL]
          /\ answer' = [answer EXCEPT ![c] = NULL]
          /\ UNCHANGED <<request, reply, server, shared>>
      BY <2>4 DEF Check, Goes
    <3>2. conn[c] \in Conn /\ reply[conn[c]] # NULL
      BY <3>1, <1>i, ConnMade DEF RoomInv
    <3>3. Unanswered' = Unanswered
      BY <3>1, <3>2, <1>b DEF Unanswered
    <3>4. \A d \in Client : cpc'[d] \in {"recv", "check"} => cpc'[d] = cpc[d] /\ conn'[d] = conn[d] /\ answer'[d] = answer[d]
      BY <3>1, <1>i DEF TypeOK
    <3>6. spc # "off"
      BY <3>1 DEF RoomInv
    <3> QED BY <3>1, <3>3, <3>4, <3>6 DEF RoomInv, shared, server
  <2>5. CASE ConnectFails(c)
    <3>1. spc = "off" /\ Exit(ProgramOf[c])
      BY <2>5, NothingFails DEF ConnectFails
    <3>2. UNCHANGED <<server, request, reply, answer, should_stop>> /\ \A d \in Client : cpc'[d] \in {cpc[d], "exited"}
      BY <3>1 DEF Exit
    <3>3. \A p \in Program : mpc'[p] \in {"join", "reported"} => mpc'[p] = mpc[p]
      BY <3>1, <1>b, ClientsBelongToPrograms DEF Exit
    <3>4. \A d \in Client : cpc'[d] \in {"connect", "exited"}
      BY <3>1, <3>2 DEF RoomInv
    <3>5. Len(backlog) = 0 /\ Len(waiting) = 0 /\ \A w \in Worker : wpc[w] = "wait" 
      BY <3>1, <1>i DEF WorkerInv
    <3>6. open = {}
      <4>1. Unanswered = {}
        BY <3>1, <1>i, ConnIs DEF RoomInv, ConnInv, Unanswered, Connected
      <4> QED BY <4>1, <3>5 DEF RoomInv
    <3> QED BY <3>1, <3>2, <3>3, <3>4, <3>5, <3>6 DEF RoomInv, server
  <2>6. ASSUME NEW s \in ClientPc \ (Connected \cup {"connect", "exited"}), NEW t \in ClientPc \ (Connected \cup {"exited"}),
               Goes(c, s, t), UNCHANGED <<network, server, conn, answer, mpc, should_stop>>
        PROVE  RoomInv'
    <3>1. \A d \in Client : cpc'[d] \in {"recv", "check"} => cpc'[d] = cpc[d]
      BY <2>6, <1>b DEF Goes, Connected
    <3>2. spc # "off"
      BY <2>6 DEF Goes, RoomInv
    <3>3. Unanswered' = Unanswered
      BY <2>6 DEF Unanswered, network
    <3> QED BY <2>6, <3>1, <3>2, <3>3 DEF RoomInv, server, network
  <2>7. CASE LockCount(c) \/ ReadCount(c) \/ WriteCount(c) \/ UnlockCount(c) \/ Test(c)
    BY <2>7, <2>6
       DEF LockCount, ReadCount, WriteCount, UnlockCount, Test, shared, ClientPc, Connected
  <2> QED BY <1>3, <2>1, <2>2, <2>3, <2>4, <2>5, <2>7, NothingFails DEF ClientStep
<1>5. ASSUME NEW p \in Program, MainStep(p) PROVE RoomInv'
  <2>1. UNCHANGED <<network, server, thread>>
    BY <1>5 DEF MainStep, Stop, Report
  <2>2. \A q \in Program : mpc'[q] \in {"join", "reported"} => should_stop'[q]
    <3>1. CASE Stop(p)
      BY <3>1, <1>i DEF Stop, MainGoes, RoomInv, TypeOK
    <3>2. CASE Report(p)
      BY <3>2, <1>i DEF Report, MainGoes, RoomInv, TypeOK
    <3> QED BY <1>5, <3>1, <3>2 DEF MainStep
  <2> QED BY <2>1, <2>2 DEF thread, network, server, RoomInv, Unanswered
<1>6. CASE UNCHANGED vars
  BY <1>6 DEF vars, server, network, thread, shared, RoomInv, Unanswered
<1> QED BY <1>1, <1>2, <1>3, <1>5, <1>6, NothingFails DEF Next, AllOver, ServerStep

(* Nothing is amiss when everything starts. *)
LEMMA RoomInit == Init => RoomInv
  BY DEF Init, RoomInv, Q!QueueInit, Unanswered

(* Both invariants together hold for ever. *)
LEMMA RoomInductive ==
  ASSUME Roomy
  PROVE  Spec => [](Inv /\ RoomInv)
<1>1. Inv /\ RoomInv /\ [Next]_vars => RoomInv'
  BY RoomStep
<1> QED BY RoomInit, Inductive, <1>1, PTL DEF Spec

(* The server never has more sockets open than there are clients, and one  *)
(* for each worker about to close its own (server.cpp:137).                *)
THEOREM BoundedSockets ==
  ASSUME Roomy
  PROVE  Spec => []SocketsAreBounded
<1>1. Inv /\ RoomInv => SocketsAreBounded
  <2> SUFFICES ASSUME Inv, RoomInv PROVE SocketsAreBounded
    OBVIOUS
  <2>1. \A k \in open : k[1] \in Client
    BY ConnIs DEF Inv, TypeOK
  <2>2. Cardinality(open) <= Cardinality(Client) + Cardinality(Closing)
    BY <2>1, OpenIsBounded
  <2> QED BY <2>2 DEF SocketsAreBounded, Closing
<1> QED BY <1>1, RoomInductive, PTL

(* As long as no client dies, what a worker gives to the solver is what    *)
(* came over the connection it serves (server.cpp:103-124).                *)
THEOREM ReceivedCubes ==
  ASSUME Roomy
  PROVE  Spec => []SolvesTheReceivedCube
<1>1. Inv /\ RoomInv => SolvesTheReceivedCube
  BY SolverGetsACube DEF SolvesTheReceivedCube
<1> QED BY <1>1, RoomInductive, PTL

-----------------------------------------------------------------------------
(* The client programs see a Service. *)

(* The state functions that stand for the variables of Service. *)
Doing == [c \in Client |-> DoingOf(cpc[c])]
Outcome == [p \in Program |-> IF Over(p) THEN mpc[p] ELSE "running"]

(* A step that leaves them alone is none of Service; *)
LEMMA ServiceStutters ==
  ASSUME UNCHANGED <<ServerListens, Doing, answer, request_count, should_stop, Outcome>>
  PROVE  UNCHANGED Service!serviceVars
  BY DEF Service!serviceVars, Doing, Outcome

(* a thread that goes from one pc to another goes on with its request; *)
LEMMA DoingTurns ==
  ASSUME TypeOK, NEW c \in Client, NEW s \in ClientPc, NEW t \in ClientPc, Goes(c, s, t)
  PROVE  Doing[c] = DoingOf(s) /\ Doing' = [Doing EXCEPT ![c] = DoingOf(t)]
  BY DEF Doing, Goes, TypeOK

(* what each pc stands for; *)
LEMMA DoingIs ==
  /\ DoingOf("connect") = "idle" /\ DoingOf("send") = "idle" /\ DoingOf("unlock") = "idle" /\ DoingOf("test") = "idle"
  /\ DoingOf("recv") = "asked" /\ DoingOf("check") = "answered"
  /\ DoingOf("lock") = "verified" /\ DoingOf("read") = "verified" /\ DoingOf("write") = "verified"
  /\ DoingOf("done") = "over" /\ DoingOf("exited") = "over"
  BY DEF DoingOf

(* and every step is one of Service or leaves it alone. *)
LEMMA ServiceStep ==
  ASSUME Inv, RoomInv, Roomy, [Next]_vars
  PROVE  [Service!ServiceNext]_(Service!serviceVars)
<1>i. TypeOK /\ ThreadInv /\ ConnInv /\ LockInv
  BY DEF Inv
<1> DEFINE Stutter == UNCHANGED <<ServerListens, Doing, answer, request_count, should_stop,
   Outcome>>
<1>o. mpc' = mpc => Outcome' = Outcome
  BY DEF Outcome, Over
<1>d. cpc' = cpc => Doing' = Doing
  BY DEF Doing
<1>l. spc' = spc => ServerListens' = ServerListens
  BY DEF ServerListens
<1>1. CASE Listen
  <2>1. ~ ServerListens /\ ServerListens'
    BY <1>1 DEF Listen, ServerListens
  <2>2. UNCHANGED <<Doing, answer, request_count, should_stop, Outcome>>
    BY <1>1, <1>o, <1>d DEF Listen, thread, shared
  <2> QED BY <2>1, <2>2 DEF Service!ServiceNext, Service!StartUp, Doing, Outcome
<1>2. CASE ServerStep /\ ~ Listen
  <2>1. ServerListens' = ServerListens
    BY <1>2, NothingFails
       DEF ServerStep, ServerMain, WorkerStep, Load, Accept, Take, Recv, Solve, Write, Close, ServerListens
  <2>2. UNCHANGED <<thread, shared>>
    BY <1>2, ServerLeavesClients
  <2> QED BY <2>1, <2>2, <1>o, <1>d, ServiceStutters DEF thread, shared
<1>3. ASSUME NEW c \in Client, ClientStep(c) PROVE [Service!ServiceNext]_(Service!serviceVars)
  <2> USE DoingIs
  <2>p. \A q \in ClientPc : q \in {"connect", "send", "recv", "check", "lock", "read", "write", "unlock", "test", "done", "exited"}
    BY DEF ClientPc
  <2>1. CASE Connect(c)
    <3>1. Doing' = Doing
      BY <2>1, <1>i DEF Connect, Goes, Doing, TypeOK
    <3> QED BY <2>1, <3>1, <1>o, <1>l, ServiceStutters DEF Connect, shared
  <2>2. CASE ConnectFails(c)
    <3> DEFINE p == ProgramOf[c]
    <3>1. spc = "off" /\ Exit(p) /\ cpc[c] = "connect" /\ p \in Program
      BY <2>2, NothingFails, ClientsBelongToPrograms DEF ConnectFails
    <3>2. ~ ServerListens /\ UNCHANGED <<ServerListens, answer, request_count, should_stop>>
      BY <3>1 DEF Exit, server, ServerListens
    <3>3. Outcome[p] = "running" /\ Outcome' = [Outcome EXCEPT ![p] = "exited"]
      <4>1. mpc[p] \notin {"reported", "exited"} /\ mpc' = [mpc EXCEPT ![p] = "exited"]
        BY <3>1, <1>i DEF LockInv, Exit
      <4> QED BY <4>1, <3>1, <1>i DEF Outcome, Over, TypeOK
    <3>4. Doing' = [d \in Client |-> IF ProgramOf[d] = p THEN "over" ELSE Doing[d]]
      BY <3>1 DEF Exit, Doing
    <3>5. Service!GiveUp(p)
      BY <3>2, <3>3, <3>4 DEF Service!GiveUp, Doing, Outcome
    <3> QED BY <3>1, <3>5 DEF Service!ServiceNext
  <2>3. CASE Send(c)
    <3>1. ServerListens /\ UNCHANGED <<ServerListens, answer, request_count, should_stop, Outcome>>
      BY <2>3, <1>i, <1>o, <1>l
         DEF Send, Goes, RoomInv, ServerListens, TypeOK, ServerPc, server, shared
    <3>2. Doing[c] = "idle" /\ Doing' = [Doing EXCEPT ![c] = "asked"]
      BY <2>3, <1>i, DoingTurns DEF Send, ClientPc
    <3>3. Service!Ask(c)
      BY <3>1, <3>2 DEF Service!Ask, Service!Turns, Doing, Outcome
    <3> QED BY <3>3 DEF Service!ServiceNext, Service!ThreadNext
  <2>4. CASE Receive(c)
    <3>1. UNCHANGED <<ServerListens, request_count, should_stop, Outcome>>
      BY <2>4, <1>o, <1>l DEF Receive, server, shared
    <3>2. Doing[c] = "asked" /\ Doing' = [Doing EXCEPT ![c] = "answered"]
      BY <2>4, <1>i, DoingTurns DEF Receive, ClientPc
    <3>3. answer' = [answer EXCEPT ![c] = CubeOf[c]]
      <4>1. cpc[c] = "recv" /\ reply[conn[c]] # NULL /\ answer' = [answer EXCEPT ![c] = reply[conn[c]]]
        BY <2>4 DEF Receive, Goes, RoomInv
      <4>2. conn[c] \in Conn /\ conn[c] = <<c, completed[c] + 1>>
        BY <4>1, <1>i, ConnMade
      <4>3. reply[conn[c]] = CubeOf[c]
        BY <4>1, <4>2, <1>i DEF ConnInv
      <4> QED BY <4>1, <4>3
    <3>4. Service!Answer(c)
      BY <3>1, <3>2, <3>3 DEF Service!Answer, Service!Turns, Doing, Outcome
    <3> QED BY <3>4 DEF Service!ServiceNext, Service!ThreadNext
  <2>5. CASE Check(c)
    <3>1. UNCHANGED <<ServerListens, request_count, should_stop, Outcome>> /\ answer' = [answer EXCEPT ![c] = NULL]
      BY <2>5, <1>o, <1>l DEF Check, server, shared
    <3>2. Doing[c] = "answered" /\ Doing' = [Doing EXCEPT ![c] = "verified"]
      BY <2>5, <1>i, DoingTurns DEF Check, ClientPc
    <3>3. Service!Verify(c)
      BY <3>1, <3>2 DEF Service!Verify, Service!Turns, Doing, Outcome
    <3> QED BY <3>3 DEF Service!ServiceNext, Service!ThreadNext
  <2>6. CASE LockCount(c) \/ ReadCount(c) \/ UnlockCount(c)
    <3>1. UNCHANGED <<ServerListens, answer, request_count, should_stop, Outcome>>
      BY <2>6, <1>o, <1>l DEF LockCount, ReadCount, UnlockCount, server, shared
    <3>2. Doing' = Doing
      <4>1. Goes(c, "lock", "read") \/ Goes(c, "read", "write") \/ Goes(c, "unlock", "test")
        BY <2>6 DEF LockCount, ReadCount, UnlockCount
      <4>2. cpc \in [Client -> ClientPc]
        BY <1>i DEF TypeOK
      <4>3. \A d \in Client : DoingOf(cpc'[d]) = DoingOf(cpc[d])
        BY <4>1, <4>2 DEF Goes
      <4> QED BY <4>3 DEF Doing
    <3> QED BY <3>1, <3>2, ServiceStutters
  <2>7. CASE WriteCount(c)
    <3> DEFINE p == ProgramOf[c]
    <3>1. UNCHANGED <<ServerListens, answer, should_stop, Outcome>>
      BY <2>7, <1>o, <1>l DEF WriteCount, server
    <3>2. Doing[c] = "verified" /\ Doing' = [Doing EXCEPT ![c] = "idle"]
      BY <2>7, <1>i, DoingTurns DEF WriteCount, ClientPc
    <3>3. request_count' = [request_count EXCEPT ![p] = @ + 1]
      BY <2>7, <1>i DEF WriteCount, Goes, LockInv
    <3>4. Service!Count(c)
      BY <3>1, <3>2, <3>3 DEF Service!Count, Service!Turns, Doing, Outcome
    <3> QED BY <3>4 DEF Service!ServiceNext, Service!ThreadNext
  <2>8. CASE Test(c)
    <3>1. UNCHANGED <<ServerListens, answer, request_count, should_stop, Outcome>>
      BY <2>8, <1>o, <1>l DEF Test, server, shared
    <3>2. CASE Goes(c, "test", "done") /\ should_stop[ProgramOf[c]]
      <4>1. Doing[c] = "idle" /\ Doing' = [Doing EXCEPT ![c] = "over"]
        BY <3>2, <1>i, DoingTurns DEF ClientPc
      <4>2. Service!Leave(c)
        BY <3>1, <3>2, <4>1 DEF Service!Leave, Service!Turns, Doing, Outcome
      <4> QED BY <4>2 DEF Service!ServiceNext, Service!ThreadNext
    <3>3. CASE Goes(c, "test", "connect")
      <4>1. Doing' = Doing
        BY <3>3, <1>i DEF Goes, Doing, TypeOK
      <4> QED BY <3>1, <4>1, ServiceStutters
    <3> QED BY <2>8, <3>2, <3>3 DEF Test
  <2> QED BY <1>3, <2>1, <2>2, <2>3, <2>4, <2>5, <2>6, <2>7, <2>8, NothingFails DEF ClientStep
<1>4. ASSUME NEW p \in Program, MainStep(p) PROVE [Service!ServiceNext]_(Service!serviceVars)
  <2>1. UNCHANGED <<ServerListens, Doing, answer, request_count>>
    BY <1>4, <1>l, <1>d DEF MainStep, Stop, Report, server, thread
  <2>2. CASE Stop(p)
    <3>1. Outcome[p] = "running" /\ Outcome' = Outcome /\ should_stop' = [should_stop EXCEPT ![p] = TRUE]
      BY <2>2, <1>i DEF Stop, MainGoes, Outcome, Over, TypeOK
    <3>2. Service!Tell(p)
      BY <2>1, <3>1 DEF Service!Tell, Doing, Outcome
    <3> QED BY <3>2 DEF Service!ServiceNext
  <2>3. CASE Report(p)
    <3>1. /\ Outcome[p] = "running" /\ Outcome' = [Outcome EXCEPT ![p] = "reported"]
          /\ should_stop' = should_stop /\ should_stop[p]
      BY <2>3, <1>i DEF Report, MainGoes, Outcome, Over, TypeOK, RoomInv
    <3>2. \A c \in Client : ProgramOf[c] = p => Doing[c] = "over"
      BY <2>3, DoingIs DEF Report, Threads, Doing
    <3>3. Service!ReportCount(p)
      BY <2>1, <3>1, <3>2 DEF Service!ReportCount, Doing, Outcome
    <3> QED BY <3>3 DEF Service!ServiceNext
  <2> QED BY <1>4, <2>2, <2>3 DEF MainStep
<1>5. CASE UNCHANGED vars
  BY <1>5, <1>o, <1>d, <1>l, ServiceStutters DEF vars, server, thread, shared
<1> QED BY <1>1, <1>2, <1>3, <1>4, <1>5, NothingFails DEF Next, AllOver, ServerStep, ServerMain

(* The initial state is one of Service. *)
LEMMA ServiceStarts == Init => Service!ServiceInit
  BY DEF Init, Service!ServiceInit, ServerListens, DoingOf, Over

(* The safety part of ImplementsService: behind connections, the queue,    *)
(* buffers and semaphores every thread gets the solution of its own cube,  *)
(* every solved cube is counted once, and no program fails once the server *)
(* listens.                                                                *)
THEOREM ServesAll ==
  ASSUME Roomy
  PROVE  Spec => Service!ServiceSafety
  BY RoomInductive, ServiceStarts, ServiceStep, PTL DEF Spec, Service!ServiceSafety

-----------------------------------------------------------------------------
(* The timer of a program: when its main thread wakes up and tells the     *)
(* others to stop.  ClientServer lets that happen at any time, which the   *)
(* theorems above therefore do not depend on.                              *)

CONSTANTS Durations, LastSecond
VARIABLES duration_seconds, now, told

Timer == INSTANCE ClientTimer WITH should_stop <- told

(* The product still fits in what usleep() takes, though from 2148 seconds *)
(* on it does not fit in an int.                                           *)
Short == \A d \in Durations : d \in Nat /\ d <= 4294

TimerInv ==
  /\ duration_seconds \in Durations
  /\ now \in Nat
  /\ told \in BOOLEAN
  /\ Timer!StopsOnTime

LEMMA NothingIsLost ==
  ASSUME NEW d \in Nat, d <= 4294
  PROVE  Timer!SleepUnits(d) = d * Timer!Second
<1>1. d * Timer!Second \in Nat /\ d * Timer!Second < Timer!Wrap
  BY DEF Timer!Second, Timer!Wrap
<1>2. \A n \in Nat : n < Timer!Wrap => n % Timer!Wrap = n
  BY DEF Timer!Wrap
<1> QED
  BY <1>1, <1>2 DEF Timer!SleepUnits

LEMMA AwakeInTime ==
  ASSUME Short, TimerInv
  PROVE  Timer!Awake <=> now >= duration_seconds
<1>1. duration_seconds \in Nat /\ duration_seconds <= 4294 /\ now \in Nat
  BY DEF Short, TimerInv
<1>2. Timer!SleepUnits(duration_seconds) = duration_seconds * Timer!Second
  BY <1>1, NothingIsLost
<1> QED
  BY <1>1, <1>2 DEF Timer!Awake, Timer!Second

LEMMA TimerInit == Short /\ Timer!Init => TimerInv
<1> SUFFICES ASSUME Short, Timer!Init PROVE TimerInv
  OBVIOUS
<1>1. duration_seconds \in Durations /\ now = 0 /\ told = FALSE
  BY DEF Timer!Init
<1>2. now <= duration_seconds
  BY <1>1 DEF Short
<1>3. now \in Nat
  BY <1>1
<1> QED
  BY <1>1, <1>2, <1>3, Zenon DEF TimerInv, Timer!StopsOnTime

LEMMA TimerStep == Short /\ TimerInv /\ [Timer!Next]_(Timer!vars) => TimerInv'
<1> SUFFICES ASSUME Short, TimerInv, [Timer!Next]_(Timer!vars) PROVE TimerInv'
  OBVIOUS
<1>1. duration_seconds \in Nat /\ now \in Nat
  BY DEF Short, TimerInv
<1>2. CASE Timer!Tick
  BY <1>1, <1>2, AwakeInTime DEF Timer!Tick, TimerInv, Timer!StopsOnTime
<1>3. CASE Timer!Wake
  BY <1>1, <1>3, AwakeInTime DEF Timer!Wake, TimerInv, Timer!StopsOnTime
<1>4. CASE UNCHANGED Timer!vars
  BY <1>4 DEF Timer!vars, TimerInv, Timer!StopsOnTime
<1> QED
  BY <1>2, <1>3, <1>4 DEF Timer!Next

(* A client that is to run for 4294 seconds or less stops its threads at   *)
(* the second that its argument says (client.cpp:238).                     *)
THEOREM ShortRunsStopOnTime == Short => (Timer!Spec => []Timer!StopsOnTime)
<1> SUFFICES ASSUME Short PROVE Timer!Spec => []Timer!StopsOnTime
  OBVIOUS
<1>1. Timer!Init => TimerInv
  BY TimerInit
<1>2. TimerInv /\ [Timer!Next]_(Timer!vars) => TimerInv'
  BY TimerStep
<1>3. TimerInv => Timer!StopsOnTime
  BY DEF TimerInv
<1> QED
  BY <1>1, <1>2, <1>3, PTL DEF Timer!Spec
=============================================================================
