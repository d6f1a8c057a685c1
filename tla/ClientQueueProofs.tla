------------------------- MODULE ClientQueueProofs --------------------------
(***************************************************************************)
(* Proofs about the client queue, for any number of workers, sockets and   *)
(* nodes: its types, the mutual exclusion of the two critical sections,    *)
(* that no thread ever follows or frees a bad pointer, that every socket   *)
(* has one holder, and that the list implements the queue of RequestQueue. *)
(***************************************************************************)
EXTENDS ClientQueue, FiniteSetTheorems, SequenceTheorems, WellFoundedInduction, TLAPS

-----------------------------------------------------------------------------
(* The inductive invariant: TypeOK, MutexInv and the list invariant over   *)
(* sequences of any length.                                                *)
IInv == TypeOK /\ MutexInv /\ \E q \in Seq(Node) : ListInv(q)

(* Initially the list is the empty sequence. *)
LEMMA InitIInv == Init => IInv
<1> SUFFICES ASSUME Init PROVE IInv
  OBVIOUS
<1> USE CellsAreDistinct
<1>1. TypeOK
  BY DEF Init, TypeOK, Cell, Sentinel, MainPc, WorkerPc
<1>2. MutexInv
  BY DEF Init, MutexInv, MutualExclusion, MainLocked, Locked
<1>3. << >> \in Seq(Node) /\ Len(<< >>) = 0
  OBVIOUS
<1>4. Entitled = {}
  BY DEF Init, Entitled
<1>5. Cardinality(Entitled) = 0
  BY <1>4, FS_EmptySet
<1>6. ListInv(<< >>)
  <2>1. ChainInv(<< >>)
    BY <1>3 DEF Init, ChainInv, LinkedBack, CellAt, Cell, Sentinel
  <2>2. CountInv(<< >>)
    BY <1>3, <1>5 DEF Init, CountInv, Owed
  <2>3. MainInv(<< >>) /\ WorkerInv(<< >>)
    BY DEF Init, MainInv, WorkerInv, Popped
  <2> QED BY <2>1, <2>2, <2>3 DEF ListInv
<1> QED BY <1>1, <1>2, <1>3, <1>6 DEF IInv

-----------------------------------------------------------------------------
(* How many workers are on their way to a node. *)

LEMMA EntitledIsFinite == IsFiniteSet(Entitled) /\ Cardinality(Entitled) \in Nat
<1>1. Entitled \subseteq Worker
  BY DEF Entitled
<1> QED BY <1>1, FiniteThreads, FS_Subset, FS_CardinalityType

(* A worker on its way to a node: there is a node for it. *)
LEMMA EntitledIsPositive ==
  ASSUME NEW w \in Entitled
  PROVE  Cardinality(Entitled) >= 1
<1>1. Cardinality(Entitled) # 0
  BY EntitledIsFinite, FS_EmptySet
<1> QED BY <1>1, EntitledIsFinite

-----------------------------------------------------------------------------
(* The critical sections exclude each other after every step. *)
LEMMA MutexStep == TypeOK /\ MutexInv /\ [Next]_vars => MutexInv'
<1> SUFFICES ASSUME TypeOK, MutexInv, [Next]_vars PROVE MutexInv'
  OBVIOUS
<1> USE DEF TypeOK, MutexInv, MutualExclusion, MainLocked, Locked, WorkerPc, MainPc
<1>1. CASE MainLock
  BY <1>1 DEF MainLock, MainGoes, workerVars
<1>2. CASE MainUnlock
  BY <1>2 DEF MainUnlock, MainGoes, workerVars
<1>3. CASE Accept \/ Allocate \/ LinkFront \/ LinkBack \/ StoreSocket \/ Signal
  BY <1>3 DEF Accept, Allocate, LinkFront, LinkBack, StoreSocket, Signal, MainGoes, workerVars
<1>4. ASSUME NEW w \in Worker, Lock(w) PROVE MutexInv'
  BY <1>4 DEF Lock, Goes, mainVars
<1>5. ASSUME NEW w \in Worker, Unlock(w) PROVE MutexInv'
  BY <1>5 DEF Unlock, Goes, mainVars
<1>6. ASSUME NEW w \in Worker,
             Wait(w) \/ ReadLast(w) \/ UnlinkNext(w) \/ UnlinkBefore(w)
               \/ TakeSocket(w) \/ Serve(w)
      PROVE MutexInv'
  BY <1>6 DEF Wait, ReadLast, UnlinkNext, UnlinkBefore, TakeSocket, Serve, Goes, mainVars
<1>7. CASE UNCHANGED vars
  BY <1>7 DEF vars, mainVars, workerVars
<1> QED BY <1>1, <1>2, <1>3, <1>4, <1>5, <1>6, <1>7 DEF Next, MainStep, WorkerStep

-----------------------------------------------------------------------------
(* Cells of the list are cells, and a node of it is none of the sentinels. *)
LEMMA CellAtType ==
  ASSUME NEW q \in Seq(Node), NEW i \in Nat
  PROVE  CellAt(q, i) \in Cell
BY DEF CellAt, Cell, Sentinel

(* Every variable keeps its type.  `mutex' needs the mutual exclusion, and *)
(* a worker's reads of before[before[lead_last]] and of the node it popped *)
(* need the list invariant.                                                *)
LEMMA TypeStep == IInv /\ [Next]_vars => TypeOK'
<1> SUFFICES ASSUME IInv, [Next]_vars PROVE TypeOK'
  OBVIOUS
<1> USE DEF TypeOK
<1>0. TypeOK /\ MutexInv
  BY DEF IInv
<1>1. before[LeadLast] \in Cell
  <2>1. PICK q \in Seq(Node) : ListInv(q)
    BY DEF IInv
  <2>2. before[CellAt(q, 0)] = CellAt(q, 1)
    BY <2>1 DEF ListInv, ChainInv, LinkedBack
  <2> QED BY <2>2, CellAtType DEF CellAt
<1>2. Lead \in Cell /\ LeadLast \in Cell /\ Node \subseteq Cell
  BY DEF Cell, Sentinel
<1> USE <1>0 DEF MainPc, WorkerPc
<1>3. CASE MainStep
  <2>1. CASE Accept
    BY <2>1 DEF Accept, MainGoes, listVars, workerVars
  <2>2. CASE MainLock \/ MainUnlock
    BY <2>2 DEF MainLock, MainUnlock, MainGoes, listVars, workerVars, MutexInv, MainLocked
  <2>3. CASE Allocate
    BY <2>3, <1>2 DEF Allocate, MainGoes, listVars, workerVars
  <2>4. CASE LinkFront
    BY <2>4, <1>2 DEF LinkFront, MainGoes, workerVars
  <2>5. CASE LinkBack
    BY <2>5, <1>2 DEF LinkBack, MainGoes, workerVars
  <2>6. CASE StoreSocket
    BY <2>6 DEF StoreSocket, MainGoes, workerVars
  <2>7. CASE Signal
    BY <2>7 DEF Signal, MainGoes, listVars, workerVars
  <2> QED BY <1>3, <2>1, <2>2, <2>3, <2>4, <2>5, <2>6, <2>7 DEF MainStep
<1>4. ASSUME NEW w \in Worker, WorkerStep(w) PROVE TypeOK'
  <2>1. CASE Wait(w)
    BY <2>1 DEF Wait, Goes, listVars, mainVars
  <2>2. CASE Lock(w) \/ Unlock(w)
    BY <2>2 DEF Lock, Unlock, Goes, listVars, mainVars, MutexInv, Locked
  <2>3. CASE ReadLast(w)
    BY <2>3, <1>1 DEF ReadLast, Goes, listVars, mainVars
  <2>4. CASE UnlinkNext(w)
    BY <2>4, <1>2 DEF UnlinkNext, Goes, mainVars
  <2>5. CASE UnlinkBefore(w)
    BY <2>5 DEF UnlinkBefore, Goes, mainVars
  <2>6. CASE TakeSocket(w)
    <3>1. oldlast[w] \in Node
      BY <2>6 DEF IInv, ListInv, WorkerInv, Popped, TakeSocket, Goes
    <3> QED BY <2>6, <3>1 DEF TakeSocket, Goes, listVars, mainVars
  <2>7. CASE Serve(w)
    BY <2>7 DEF Serve, Goes, listVars, mainVars
  <2> QED BY <1>4, <2>1, <2>2, <2>3, <2>4, <2>5, <2>6, <2>7 DEF WorkerStep
<1>5. CASE UNCHANGED vars
  BY <1>5 DEF vars, listVars, mainVars, workerVars
<1> QED BY <1>3, <1>4, <1>5 DEF Next

-----------------------------------------------------------------------------
(* The list invariant, action by action, for the sequence q of the nodes   *)
(* in the list.  Only LinkBack and UnlinkBefore change that sequence.      *)

(* What every lemma below starts from. *)
Ready(q) == TypeOK /\ MutexInv /\ q \in Seq(Node) /\ ListInv(q)

(* A step that changes neither the list nor what a thread knows of it. *)
LEMMA ListUntouched ==
  ASSUME NEW q, Ready(q),
         UNCHANGED <<next, before, heap, newclient, current_first, oldlast, newlast>>,
         UNCHANGED (length + Cardinality(Entitled) + Owed),
         mpc' \in {"front", "back"} => mpc \in {"front", "back"},
         (mpc' = "back") = (mpc = "back"), mpc' = "store" => mpc = "store",
         \A w \in Worker : /\ pc'[w] \in {"next", "before"} => pc[w] \in {"next", "before"}
                           /\ (pc'[w] = "before") = (pc[w] = "before")
                           /\ Popped(w)' => Popped(w)
  PROVE  ListInv(q)'
<1> USE DEF Ready, ListInv
<1>1. ChainInv(q)'
  BY DEF ChainInv, LinkedBack, CellAt
<1>2. CountInv(q)'
  BY DEF CountInv
<1>3. MainInv(q)'
  BY DEF MainInv, InList, CellAt
<1>4. WorkerInv(q)'
  BY DEF WorkerInv, InList, CellAt
<1> QED BY <1>1, <1>2, <1>3, <1>4

LEMMA ListAfterMainStep ==
  ASSUME NEW q, Ready(q), Accept \/ MainLock \/ StoreSocket \/ MainUnlock \/ Signal
  PROVE  ListInv(q)'
<1> USE DEF Accept, MainLock, StoreSocket, MainUnlock, Signal, MainGoes, listVars, workerVars
<1>1. Cardinality(Entitled)' = Cardinality(Entitled)
  BY DEF Entitled
<1>2. CASE Accept \/ MainLock \/ StoreSocket \/ MainUnlock
  <2>1. UNCHANGED (length + Cardinality(Entitled) + Owed)
    BY <1>1, <1>2 DEF Owed
  <2> QED BY <1>2, <2>1, ListUntouched DEF Popped
<1>3. CASE Signal
  <2> USE <1>3 DEF Ready, ListInv
  <2>1. ChainInv(q)'
    BY DEF ChainInv, LinkedBack, CellAt
  <2>2. CountInv(q)'
    BY <1>1, EntitledIsFinite DEF CountInv, Owed, TypeOK
  <2>3. MainInv(q)' /\ WorkerInv(q)'
    BY DEF MainInv, WorkerInv, InList, CellAt, Popped
  <2> QED BY <2>1, <2>2, <2>3
<1> QED BY <1>2, <1>3

(* The cells of the list: which are equal, and where its ends are. *)
LEMMA CellAtFacts ==
  ASSUME NEW q \in Seq(Node), \A i, j \in 1 .. Len(q) : q[i] = q[j] => i = j
  PROVE  /\ CellAt(q, 0) = LeadLast
         /\ CellAt(q, Len(q) + 1) = Lead
         /\ \A i \in 1 .. Len(q) : CellAt(q, i) = q[i] /\ q[i] \in Node
         /\ \A i, j \in 0 .. Len(q) : CellAt(q, i) = CellAt(q, j) => i = j
         /\ \A i \in 0 .. Len(q) : CellAt(q, i) # Lead
<1> USE CellsAreDistinct DEF CellAt, Cell, Sentinel
<1>1. Len(q) \in Nat /\ \A i \in 1 .. Len(q) : q[i] \in Node
  OBVIOUS
<1>2. \A i \in 1 .. Len(q) : CellAt(q, i) = q[i] /\ q[i] # Lead /\ q[i] # LeadLast
  BY <1>1
<1>3. CellAt(q, 0) = LeadLast /\ CellAt(q, Len(q) + 1) = Lead
  BY <1>1
<1> QED BY <1>1, <1>2, <1>3

LEMMA ListAfterAllocate ==
  ASSUME NEW q, Ready(q), Allocate
  PROVE  ListInv(q)'
<1> USE DEF Ready, ListInv, Allocate, MainGoes, listVars, workerVars
<1>1. MainLocked /\ \A w \in Worker : ~ Locked(w)
  BY DEF MainLocked, MutexInv, MutualExclusion
<1>2. newclient' \notin heap /\ heap \subseteq heap' /\ newclient' \in heap'
  OBVIOUS
<1>3. ChainInv(q)'
  BY <1>2 DEF ChainInv, LinkedBack, CellAt
<1>4. CountInv(q)'
  <2>1. Entitled' = Entitled
    BY DEF Entitled
  <2> QED BY <2>1 DEF CountInv, Owed
<1>5. MainInv(q)'
  <2>1. next[Lead] = CellAt(q, Len(q))
    BY <1>1 DEF ChainInv, Locked
  <2>2. ~ InList(q, newclient')
    BY <1>2 DEF ChainInv, InList
  <2> QED BY <1>2, <2>1, <2>2 DEF MainInv, InList, CellAt
<1>6. WorkerInv(q)'
  BY <1>1, <1>2 DEF WorkerInv, InList, CellAt, Popped, Locked
<1> QED BY <1>3, <1>4, <1>5, <1>6

LEMMA ListAfterLinkFront ==
  ASSUME NEW q, Ready(q), LinkFront
  PROVE  ListInv(q)'
<1> USE DEF Ready, ListInv, LinkFront, MainGoes, workerVars
<1>1. MainLocked /\ \A w \in Worker : ~ Locked(w)
  BY DEF MainLocked, MutexInv, MutualExclusion
<1>2. newclient \in Node /\ ~ InList(q, newclient) /\ current_first = CellAt(q, Len(q))
  BY DEF MainInv, TypeOK
<1>3. newclient \in Cell /\ newclient # LeadLast /\ Lead \in Cell
  BY <1>2, CellsAreDistinct DEF Cell, Sentinel
<1>4. \A i \in 0 .. Len(q) : CellAt(q, i) # newclient
  BY <1>2, <1>3 DEF CellAt, InList
<1>5. ChainInv(q)'
  <2>1. \A i \in 0 .. Len(q) : before'[CellAt(q, i)] = before[CellAt(q, i)]
    BY <1>4, CellAtType DEF TypeOK
  <2>2. next'[Lead] = newclient
    BY <1>3 DEF TypeOK
  <2> QED BY <2>1, <2>2 DEF ChainInv, LinkedBack, CellAt
<1>6. CountInv(q)'
  <2>1. Entitled' = Entitled
    BY DEF Entitled
  <2> QED BY <2>1 DEF CountInv, Owed
<1>7. MainInv(q)'
  BY <1>2, <1>3 DEF MainInv, InList, CellAt, TypeOK
<1>8. WorkerInv(q)'
  BY <1>1, <1>2 DEF WorkerInv, InList, CellAt, Popped, Locked
<1> QED BY <1>5, <1>6, <1>7, <1>8

(* The new node becomes the last of the sequence. *)
LEMMA ListAfterLinkBack ==
  ASSUME NEW q, Ready(q), LinkBack, NEW r, r = Append(q, newclient)
  PROVE  r \in Seq(Node) /\ ListInv(r)'
<1> USE DEF Ready
<1>1. MainLocked /\ \A w \in Worker : ~ Locked(w)
  BY DEF LinkBack, MainGoes, MainLocked, MutexInv, MutualExclusion
<1>2. /\ newclient \in Node /\ newclient \in heap /\ ~ InList(q, newclient)
      /\ current_first = CellAt(q, Len(q)) /\ before[newclient] = Lead
      /\ next[Lead] = newclient
  BY DEF LinkBack, MainGoes, ListInv, MainInv, ChainInv, TypeOK
<1>3. /\ r \in Seq(Node) /\ Len(r) = Len(q) + 1 /\ Len(q) \in Nat
      /\ \A i \in 1 .. Len(q) : r[i] = q[i]
      /\ r[Len(q) + 1] = newclient
  BY <1>2
<1>4. \A i, j \in 1 .. Len(q) : q[i] = q[j] => i = j
  BY DEF ListInv, ChainInv
<1>5. \A i, j \in 1 .. Len(r) : r[i] = r[j] => i = j
  BY <1>2, <1>3, <1>4 DEF InList
<1>6. \A i \in 0 .. Len(q) : CellAt(r, i) = CellAt(q, i) /\ CellAt(r, i) # newclient
  BY <1>2, <1>3, CellsAreDistinct DEF CellAt, InList, Cell, Sentinel
<1>7. CellAt(r, Len(q) + 1) = newclient /\ CellAt(r, Len(q) + 2) = Lead
  BY <1>3 DEF CellAt
<1>8. \A i \in 1 .. Len(r) : r[i] \in heap
  BY <1>2, <1>3 DEF ListInv, ChainInv
<1>9. \A w \in Worker : Popped(w) => ~ InList(r, oldlast[w])
  <2>1. \A w \in Worker : Popped(w) => ~ InList(q, oldlast[w]) /\ oldlast[w] # newclient
    BY DEF LinkBack, MainGoes, ListInv, WorkerInv
  <2> QED BY <1>3, <2>1 DEF InList
<1> USE DEF LinkBack, MainGoes, workerVars
<1>10. LinkedBack(r)'
  <2>1. CellAt(q, Len(q)) \in Cell
    BY <1>3, CellAtType
  <2>2. \A i \in 0 .. Len(q) - 1 : before'[CellAt(r, i)] = CellAt(r, i + 1)
    <3> SUFFICES ASSUME NEW i \in 0 .. Len(q) - 1
                 PROVE  before'[CellAt(r, i)] = CellAt(r, i + 1)
      OBVIOUS
    <3>1. i \in 0 .. Len(q) /\ i + 1 \in 0 .. Len(q) /\ i # Len(q) /\ i \in Nat /\ Len(q) \in 0 .. Len(q)
      BY <1>3
    <3>2. CellAt(q, i) # current_first
      BY <1>2, <1>4, <3>1, CellAtFacts
    <3>3. before'[CellAt(q, i)] = before[CellAt(q, i)]
      BY <3>1, <3>2, CellAtType DEF TypeOK
    <3>4. before[CellAt(q, i)] = CellAt(q, i + 1)
      BY <3>1 DEF ListInv, ChainInv, LinkedBack
    <3> QED BY <1>6, <3>1, <3>3, <3>4
  <2>3. before'[CellAt(r, Len(q))] = newclient
    BY <1>2, <1>3, <1>6, <2>1 DEF TypeOK
  <2>4. before'[newclient] = Lead
    <3>1. newclient # current_first /\ newclient \in Cell
      BY <1>2, <1>3, <1>6 DEF Cell
    <3> QED BY <1>2, <3>1 DEF TypeOK
  <2>5. \A i \in 0 .. Len(q) + 1 : before'[CellAt(r, i)] = CellAt(r, i + 1)
    BY <1>3, <1>7, <2>2, <2>3, <2>4
  <2> QED BY <1>3, <2>5 DEF LinkedBack, CellAt
<1>11. ChainInv(r)'
  <2>1. next'[Lead] = CellAt(r, Len(r))
    BY <1>2, <1>3, <1>7
  <2>2. \A w \in Worker : pc'[w] # "before"
    BY <1>1 DEF Locked
  <2>3. mpc' # "back"
    OBVIOUS
  <2> QED BY <1>5, <1>8, <1>10, <2>1, <2>2, <2>3 DEF ChainInv, CellAt
<1>12. CountInv(r)'
  <2>1. Entitled' = Entitled
    BY DEF Entitled
  <2> QED BY <1>3, <2>1, EntitledIsFinite DEF ListInv, CountInv, Owed, TypeOK
<1>13. MainInv(r)'
  BY <1>2 DEF MainInv
<1>14. WorkerInv(r)'
  BY <1>1, <1>9 DEF ListInv, WorkerInv, Popped, Locked, InList
<1> QED BY <1>3, <1>11, <1>12, <1>13, <1>14 DEF ListInv

LEMMA ListAfterWorkerStep ==
  ASSUME NEW q, Ready(q), NEW w \in Worker, Lock(w) \/ Unlock(w) \/ Serve(w)
  PROVE  ListInv(q)'
<1> USE DEF Lock, Unlock, Serve, Goes, listVars, mainVars
<1>1. UNCHANGED (length + Cardinality(Entitled) + Owed)
  <2>1. UNCHANGED <<length, Owed>>
    BY DEF Owed
  <2>2. Entitled' = Entitled
    BY DEF Entitled, Ready, TypeOK
  <2> QED BY <2>1, <2>2
<1> QED BY <1>1, ListUntouched DEF Popped, Ready, TypeOK

(* The token the worker takes entitles it to a node. *)
LEMMA ListAfterWait ==
  ASSUME NEW q, Ready(q), NEW w \in Worker, Wait(w)
  PROVE  ListInv(q)'
<1> USE DEF Wait, Goes, listVars, mainVars, Ready, TypeOK
<1>1. Entitled' = Entitled \cup {w} /\ w \notin Entitled
  BY DEF Entitled
<1>2. Cardinality(Entitled') = Cardinality(Entitled) + 1
  BY <1>1, EntitledIsFinite, FS_AddElement
<1>3. UNCHANGED (length + Cardinality(Entitled) + Owed)
  BY <1>2, EntitledIsFinite DEF Owed
<1> QED BY <1>3, ListUntouched DEF Popped

LEMMA ListAfterReadLast ==
  ASSUME NEW q, Ready(q), NEW w \in Worker, ReadLast(w)
  PROVE  ListInv(q)'
<1> USE DEF Ready, ReadLast, Goes, listVars, mainVars
<1>1. ~ MainLocked /\ \A v \in Worker : Locked(v) => v = w
  BY DEF Locked, MutexInv, MutualExclusion
<1>2. Len(q) >= 1
  BY EntitledIsFinite, EntitledIsPositive DEF Entitled, ListInv, CountInv, Owed, TypeOK
<1>3. before[LeadLast] = CellAt(q, 1) /\ before[CellAt(q, 1)] = CellAt(q, 2)
  BY <1>2 DEF ListInv, ChainInv, LinkedBack, CellAt
<1>4. ChainInv(q)'
  BY <1>1 DEF ListInv, ChainInv, LinkedBack, CellAt, Locked, TypeOK
<1>5. CountInv(q)'
  <2>1. Entitled' = Entitled
    BY DEF Entitled, TypeOK
  <2> QED BY <2>1 DEF ListInv, CountInv, Owed
<1>6. MainInv(q)'
  BY <1>1 DEF ListInv, MainInv, InList, CellAt
<1>7. WorkerInv(q)'
  <2>1. \A v \in Worker : pc'[v] \in {"next", "before"} => v = w
    BY <1>1 DEF Locked, TypeOK
  <2>2. oldlast'[w] = CellAt(q, 1) /\ newlast'[w] = CellAt(q, 2)
    BY <1>3 DEF TypeOK
  <2>3. \A v \in Worker : Popped(v)' => Popped(v) /\ oldlast'[v] = oldlast[v]
    BY DEF Popped, TypeOK
  <2> QED BY <2>1, <2>2, <2>3 DEF ListInv, WorkerInv, InList, CellAt
<1> QED BY <1>4, <1>5, <1>6, <1>7 DEF ListInv

LEMMA ListAfterUnlinkNext ==
  ASSUME NEW q, Ready(q), NEW w \in Worker, UnlinkNext(w)
  PROVE  ListInv(q)'
<1> USE DEF Ready, UnlinkNext, Goes, mainVars
<1>1. ~ MainLocked /\ \A v \in Worker : Locked(v) => v = w
  BY DEF Locked, MutexInv, MutualExclusion
<1>2. Len(q) \in Nat /\ Len(q) >= 1
  BY EntitledIsFinite, EntitledIsPositive DEF Entitled, ListInv, CountInv, Owed, TypeOK
<1>3. \A i, j \in 1 .. Len(q) : q[i] = q[j] => i = j
  BY DEF ListInv, ChainInv
<1>4. ChainInv(q)'
  <2>1. newlast[w] = CellAt(q, 2) /\ next[Lead] = CellAt(q, Len(q))
    BY <1>1 DEF ListInv, WorkerInv, ChainInv, MainLocked, Locked
  <2>2. mpc' # "back" /\ \E v \in Worker : pc'[v] = "before"
    BY <1>1 DEF MainLocked, TypeOK
  <2>3. CASE Len(q) = 1
    <3>1. newlast[w] = Lead /\ Lead \in Cell
      BY <2>1, <2>3 DEF CellAt, Cell, Sentinel
    <3>2. next'[Lead] = LeadLast
      BY <3>1 DEF TypeOK
    <3> QED BY <2>2, <2>3, <3>2 DEF ListInv, ChainInv, LinkedBack, CellAt
  <2>4. CASE Len(q) # 1
    <3>1. newlast[w] # Lead
      <4>1. \A n \in Nat : n >= 1 /\ n # 1 => 2 \in 0 .. n
        OBVIOUS
      <4>2. 2 \in 0 .. Len(q)
        BY <1>2, <2>4, <4>1, Zenon
      <4> QED BY <1>3, <2>1, <4>2, CellAtFacts
    <3>2. next'[Lead] = next[Lead]
      BY <3>1 DEF TypeOK
    <3> QED BY <2>1, <2>2, <2>4, <3>2 DEF ListInv, ChainInv, LinkedBack, CellAt
  <2> QED BY <2>3, <2>4
<1>5. CountInv(q)'
  <2>1. Entitled' = Entitled
    BY DEF Entitled, TypeOK
  <2> QED BY <2>1 DEF ListInv, CountInv, Owed
<1>6. MainInv(q)'
  BY <1>1 DEF ListInv, MainInv, InList, CellAt
<1>7. WorkerInv(q)'
  BY DEF ListInv, WorkerInv, InList, CellAt, Popped, TypeOK
<1> QED BY <1>4, <1>5, <1>6, <1>7 DEF ListInv

(* The oldest node leaves the list and belongs to the worker. *)
LEMMA ListAfterUnlinkBefore ==
  ASSUME NEW q, Ready(q), NEW w \in Worker, UnlinkBefore(w), NEW r, r = Tail(q)
  PROVE  r \in Seq(Node) /\ ListInv(r)'
<1> USE DEF Ready
<1>1. ~ MainLocked /\ \A v \in Worker : Locked(v) => v = w
  BY DEF UnlinkBefore, Goes, Locked, MutexInv, MutualExclusion
<1>2. Len(q) \in Nat /\ Len(q) >= 1
  BY EntitledIsFinite, EntitledIsPositive DEF UnlinkBefore, Goes, Entitled, ListInv, CountInv, Owed, TypeOK
<1>3. \A i, j \in 1 .. Len(q) : q[i] = q[j] => i = j
  BY DEF ListInv, ChainInv
<1>4. oldlast[w] = q[1] /\ newlast[w] = CellAt(q, 2) /\ q[1] \in Node
  BY <1>2 DEF UnlinkBefore, Goes, ListInv, WorkerInv, CellAt
<1>6. /\ r \in Seq(Node) /\ Len(r) = Len(q) - 1
      /\ \A i \in 1 .. Len(r) : r[i] = q[i + 1]
  BY <1>2
<1>7. CellAt(r, 0) = LeadLast /\ \A i \in 1 .. Len(r) + 1 : CellAt(r, i) = CellAt(q, i + 1)
  BY <1>2, <1>6 DEF CellAt
<1>8. ~ InList(r, q[1]) /\ \A c : InList(r, c) => InList(q, c)
  BY <1>2, <1>3, <1>6 DEF InList
<1> USE DEF UnlinkBefore, Goes, mainVars
<1>9. LinkedBack(r)'
  <2>1. before'[CellAt(r, 0)] = CellAt(r, 1)
    BY <1>2, <1>4, <1>6, <1>7 DEF TypeOK, Cell, Sentinel
  <2>2. \A i \in 1 .. Len(r) : before'[CellAt(r, i)] = CellAt(r, i + 1)
    <3> SUFFICES ASSUME NEW i \in 1 .. Len(r) PROVE before'[CellAt(r, i)] = CellAt(r, i + 1)
      OBVIOUS
    <3>1. i + 1 \in 1 .. Len(q) /\ i \in 0 .. Len(q) /\ i + 1 \in 0 .. Len(q)
      BY <1>2, <1>6
    <3>2. CellAt(q, i + 1) # LeadLast /\ CellAt(q, i + 1) \in Cell
      BY <1>3, <3>1, CellAtFacts, CellsAreDistinct DEF Cell, Sentinel
    <3>3. before'[CellAt(q, i + 1)] = CellAt(q, i + 2)
      BY <3>1, <3>2 DEF ListInv, ChainInv, LinkedBack, TypeOK
    <3> QED BY <1>6, <1>7, <3>1, <3>3
  <2> QED BY <1>6, <2>1, <2>2 DEF LinkedBack, CellAt
<1>10. ChainInv(r)'
  <2>1. \A i, j \in 1 .. Len(r) : r[i] = r[j] => i = j
    BY <1>2, <1>3, <1>6
  <2>2. \A i \in 1 .. Len(r) : r[i] \in heap
    BY <1>2, <1>6 DEF ListInv, ChainInv
  <2>3. mpc' # "back" /\ \A v \in Worker : pc'[v] # "before"
    BY <1>1 DEF MainLocked, Locked, TypeOK
  <2>4. next[Lead] = CellAt(r, Len(r))
    <3>1. CASE Len(q) = 1
      BY <1>1, <1>6, <1>7, <3>1 DEF ListInv, ChainInv, MainLocked
    <3>2. CASE Len(q) # 1
      BY <1>1, <1>2, <1>6, <1>7, <3>2 DEF ListInv, ChainInv, MainLocked
    <3> QED BY <3>1, <3>2
  <2> QED BY <1>9, <2>1, <2>2, <2>3, <2>4 DEF ChainInv, CellAt
<1>11. CountInv(r)'
  <2>1. Entitled' = Entitled \ {w} /\ w \in Entitled
    BY DEF Entitled, TypeOK
  <2>2. Cardinality(Entitled') = Cardinality(Entitled) - 1
    BY <2>1, EntitledIsFinite, FS_RemoveElement
  <2> QED BY <1>2, <1>6, <2>2, EntitledIsFinite DEF ListInv, CountInv, Owed, TypeOK
<1>12. MainInv(r)'
  BY <1>1 DEF MainInv, MainLocked
<1>13. WorkerInv(r)'
  <2>1. q[1] \in heap /\ InList(q, q[1])
    BY <1>2 DEF ListInv, ChainInv, InList
  <2>2. \A v \in Worker : pc'[v] \notin {"next", "before"}
    BY <1>1 DEF Locked, TypeOK
  <2>3. \A v \in Worker : Popped(v)' => v = w \/ (Popped(v) /\ ~ InList(q, oldlast[v]))
    BY DEF Popped, TypeOK, ListInv, WorkerInv
  <2>4. mpc' \notin {"front", "back", "store"}
    BY <1>1 DEF MainLocked
  <2>5. \A v \in Worker : Popped(v)' => oldlast[v] \in heap /\ ~ InList(r, oldlast[v])
    BY <1>4, <1>8, <2>1, <2>3 DEF ListInv, WorkerInv
  <2>6. \A u, v \in Worker : Popped(u)' /\ Popped(v)' /\ oldlast[u] = oldlast[v] => u = v
    BY <1>4, <2>1, <2>3 DEF ListInv, WorkerInv
  <2> QED BY <2>2, <2>4, <2>5, <2>6 DEF WorkerInv, InList
<1> QED BY <1>6, <1>10, <1>11, <1>12, <1>13 DEF ListInv

(* The node that is freed is neither in the list nor known to a thread. *)
LEMMA ListAfterTakeSocket ==
  ASSUME NEW q, Ready(q), NEW w \in Worker, TakeSocket(w)
  PROVE  ListInv(q)'
<1> USE DEF Ready, TakeSocket, Goes, listVars, mainVars
<1>1. Popped(w) /\ ~ InList(q, oldlast[w])
      /\ \A v \in Worker : Popped(v) /\ oldlast[v] = oldlast[w] => v = w
  BY DEF Popped, ListInv, WorkerInv
<1>2. ChainInv(q)'
  <2>1. \A v \in Worker : (pc'[v] = "before") = (pc[v] = "before")
    BY DEF TypeOK
  <2>2. \A i \in 1 .. Len(q) : q[i] \in heap'
    BY <1>1 DEF ListInv, ChainInv, InList
  <2> QED BY <2>1, <2>2 DEF ListInv, ChainInv, LinkedBack, CellAt
<1>3. CountInv(q)'
  <2>1. Entitled' = Entitled
    BY DEF Entitled, TypeOK
  <2> QED BY <2>1 DEF ListInv, CountInv, Owed
<1>4. MainInv(q)'
  <2>1. mpc \in {"front", "back", "store"} => newclient # oldlast[w]
    BY <1>1 DEF ListInv, WorkerInv
  <2> QED BY <2>1 DEF ListInv, MainInv, InList, CellAt
<1>5. WorkerInv(q)'
  <2>1. \A v \in Worker : pc'[v] \in {"next", "before"} \/ Popped(v)' =>
          v # w /\ pc'[v] = pc[v] /\ oldlast'[v] = oldlast[v] /\ newlast'[v] = newlast[v]
    BY DEF Popped, TypeOK
  <2> QED BY <1>1, <2>1 DEF ListInv, WorkerInv, InList, CellAt, Popped
<1> QED BY <1>2, <1>3, <1>4, <1>5 DEF ListInv

-----------------------------------------------------------------------------
(* Putting the steps together. *)

LEMMA NextIInv == IInv /\ [Next]_vars => IInv'
<1> SUFFICES ASSUME IInv, [Next]_vars PROVE IInv'
  OBVIOUS
<1>1. TypeOK' /\ MutexInv'
  BY TypeStep, MutexStep DEF IInv
<1>2. PICK q \in Seq(Node) : Ready(q)
  BY DEF IInv, Ready
<1>3. \E r \in Seq(Node) : ListInv(r)'
  <2>1. CASE MainStep
    <3>1. PICK r : r = Append(q, newclient)
      OBVIOUS
    <3> QED BY <1>2, <2>1, <3>1, ListAfterMainStep, ListAfterAllocate, ListAfterLinkFront,
               ListAfterLinkBack DEF MainStep
  <2>2. ASSUME NEW w \in Worker, WorkerStep(w) PROVE \E r \in Seq(Node) : ListInv(r)'
    <3>1. PICK r : r = Tail(q)
      OBVIOUS
    <3> QED BY <1>2, <2>2, <3>1, ListAfterWorkerStep, ListAfterWait, ListAfterReadLast,
               ListAfterUnlinkNext, ListAfterUnlinkBefore, ListAfterTakeSocket DEF WorkerStep
  <2>3. CASE UNCHANGED vars
    <3>1. UNCHANGED (length + Cardinality(Entitled) + Owed)
      BY <2>3 DEF vars, listVars, mainVars, workerVars, Entitled, Owed
    <3> QED BY <1>2, <2>3, <3>1, ListUntouched DEF vars, listVars, mainVars, workerVars, Popped
  <2> QED BY <2>1, <2>2, <2>3 DEF Next
<1> QED BY <1>1, <1>3 DEF IInv

(* In every reachable state the list is intact, for every number of        *)
(* workers, sockets and nodes.                                             *)
THEOREM Inductive == Spec => []IInv
BY InitIInv, NextIInv, PTL DEF Spec

(* Every variable stays in its type; in particular `mutex' stays binary.   *)
THEOREM TypeCorrect == Spec => []TypeOK
<1>1. IInv => TypeOK
  BY DEF IInv
<1> QED BY <1>1, Inductive, PTL

(* The accept thread and the workers never change the list together        *)
(* (server.cpp:93-99 against 197-206).                                     *)
THEOREM Exclusion == Spec => []MutualExclusion
<1>1. IInv => MutualExclusion
  BY DEF IInv, MutexInv
<1> QED BY <1>1, Inductive, PTL

(* The pop without an emptiness test (server.cpp:94-101) never touches     *)
(* freed memory, never frees a sentinel and never frees a node twice.      *)
THEOREM SafePointers == Spec => []PointersAreSafe
<1>1. IInv => PointersAreSafe
  <2> SUFFICES ASSUME IInv PROVE PointersAreSafe
    OBVIOUS
  <2>1. PICK q \in Seq(Node) : Ready(q)
    BY DEF IInv, Ready
  <2>2. \A i \in 0 .. Len(q) : CellAt(q, i) \in heap \cup {LeadLast}
    BY <2>1 DEF Ready, ListInv, ChainInv, CellAt
  <2>3. \A i \in 1 .. Len(q) + 1 : CellAt(q, i) \in heap \cup {Lead}
    BY <2>1 DEF Ready, ListInv, ChainInv, CellAt
  <2>4. mpc \in {"front", "back"} => newclient \in heap /\ current_first \in heap \cup {LeadLast}
    BY <2>1, <2>2 DEF Ready, ListInv, MainInv
  <2>s. mpc = "store" => newclient \in heap
    BY <2>1 DEF Ready, ListInv, MainInv
  <2>5. ASSUME NEW w \in Worker, pc[w] \in {"next", "before"}
        PROVE  newlast[w] \in heap \cup {Lead} /\ oldlast[w] \in heap
    <3>1. Len(q) \in Nat /\ Len(q) >= 1
      <4>1. w \in Entitled
        BY <2>5 DEF Entitled
      <4> QED BY <2>1, <4>1, EntitledIsFinite, EntitledIsPositive
              DEF Ready, ListInv, CountInv, Owed, TypeOK
    <3>2. oldlast[w] = CellAt(q, 1) /\ newlast[w] = CellAt(q, 2)
      BY <2>1, <2>5 DEF Ready, ListInv, WorkerInv
    <3>3. CellAt(q, 1) = q[1] /\ q[1] \in heap
      BY <2>1, <3>1 DEF Ready, ListInv, ChainInv, CellAt
    <3> QED BY <2>3, <3>1, <3>2, <3>3
  <2>6. \A w \in Worker : Popped(w) => oldlast[w] \in heap
    BY <2>1 DEF Ready, ListInv, WorkerInv
  <2>7. \A v, w \in Worker : Popped(v) /\ Popped(w) /\ oldlast[v] = oldlast[w] => v = w
    BY <2>1 DEF Ready, ListInv, WorkerInv
  <2> QED BY <2>4, <2>s, <2>5, <2>6, <2>7 DEF PointersAreSafe, Popped
<1> QED BY <1>1, Inductive, PTL

-----------------------------------------------------------------------------
(* What else the threads rely on: the forward pointers, the memory and the *)
(* sockets.  Each part has a lemma for the steps that leave it alone and   *)
(* one for every step that does not.                                       *)

(* The forward pointers. *)

LEMMA ForwardUntouched ==
  ASSUME NEW q, Ready(q), ForwardInv(q), next' = next,
         (mpc' = "back") = (mpc = "back"),
         mpc = "back" => UNCHANGED <<newclient, current_first>>,
         \A w \in Worker : (pc'[w] = "before") = (pc[w] = "before")
  PROVE  ForwardInv(q)'
<1>1. (\E w \in Worker : pc'[w] = "before") <=> \E w \in Worker : pc[w] = "before"
  OBVIOUS
<1>2. \A i : CellAt(q, i)' = CellAt(q, i)
  BY DEF CellAt
<1> QED BY <1>1, <1>2 DEF ForwardInv

LEMMA ForwardAfterLinkFront ==
  ASSUME NEW q, Ready(q), ForwardInv(q), LinkFront
  PROVE  ForwardInv(q)'
<1> USE DEF Ready, LinkFront, MainGoes, workerVars
<1>1. MainLocked /\ \A w \in Worker : ~ Locked(w)
  BY DEF MainLocked, MutexInv, MutualExclusion
<1>2. newclient \in Node /\ ~ InList(q, newclient)
  BY DEF ListInv, MainInv, TypeOK
<1>3. newclient # Lead /\ newclient \in Cell /\ Lead \in Cell
  BY <1>2, CellsAreDistinct DEF Cell, Sentinel
<1>4. next'[newclient] = current_first /\ next'[Lead] = newclient
      /\ \A c \in Cell : c # newclient /\ c # Lead => next'[c] = next[c]
  BY <1>3 DEF TypeOK
<1>5. \A i, j \in 1 .. Len(q) : q[i] = q[j] => i = j
  BY DEF ListInv, ChainInv
<1>6. Len(q) \in Nat /\ CellAt(q, Len(q) + 1) = Lead
  BY <1>5, CellAtFacts
<1>7. ASSUME NEW i \in 0 .. Len(q), i # Len(q)
      PROVE  next'[CellAt(q, i + 1)] = CellAt(q, i)
  <2>1. i + 1 \in 1 .. Len(q) /\ i + 1 \in 0 .. Len(q) /\ i + 1 \in Nat
    BY <1>6, <1>7
  <2>2. CellAt(q, i + 1) \in Cell /\ CellAt(q, i + 1) # Lead
    BY <1>5, <2>1, CellAtFacts, CellAtType
  <2>3. CellAt(q, i + 1) # newclient
    BY <1>2, <1>5, <2>1, CellAtFacts DEF InList
  <2>4. next[CellAt(q, i + 1)] = CellAt(q, i)
    BY <1>1, <1>7 DEF ForwardInv, Locked
  <2> QED BY <1>4, <2>2, <2>3, <2>4
<1>8. \A w \in Worker : pc'[w] # "before"
  BY <1>1 DEF Locked
<1>9. \A i : CellAt(q, i)' = CellAt(q, i)
  BY DEF CellAt
<1> QED BY <1>4, <1>6, <1>7, <1>8, <1>9 DEF ForwardInv

LEMMA ForwardAfterLinkBack ==
  ASSUME NEW q, Ready(q), ForwardInv(q), LinkBack, NEW r, r = Append(q, newclient)
  PROVE  ForwardInv(r)'
<1> USE DEF Ready, LinkBack, MainGoes, workerVars
<1>1. MainLocked /\ \A w \in Worker : ~ Locked(w)
  BY DEF MainLocked, MutexInv, MutualExclusion
<1>2. newclient \in Node /\ current_first = CellAt(q, Len(q))
  BY DEF ListInv, MainInv, TypeOK
<1>3. /\ Len(r) = Len(q) + 1 /\ Len(q) \in Nat
      /\ \A i \in 1 .. Len(q) : r[i] = q[i]
      /\ r[Len(q) + 1] = newclient
  BY <1>2
<1>4. \A i \in 0 .. Len(q) : CellAt(r, i) = CellAt(q, i)
  BY <1>3 DEF CellAt
<1>5. CellAt(r, Len(q) + 1) = newclient /\ CellAt(r, Len(q) + 2) = Lead
  BY <1>3 DEF CellAt
<1>6. next[newclient] = CellAt(r, Len(q)) /\ next[Lead] = newclient
  BY <1>2, <1>3, <1>4 DEF ForwardInv, ListInv, ChainInv
<1>7. ASSUME NEW i \in 0 .. Len(r) PROVE next[CellAt(r, i + 1)] = CellAt(r, i)
  <2>1. CASE i < Len(q)
    <3>1. i \in 0 .. Len(q) /\ i + 1 \in 0 .. Len(q) /\ i # Len(q)
      BY <1>3, <2>1
    <3>2. next[CellAt(q, i + 1)] = CellAt(q, i)
      BY <1>1, <3>1 DEF ForwardInv, Locked
    <3> QED BY <1>4, <3>1, <3>2
  <2>2. CASE i = Len(q)
    BY <1>5, <1>6, <2>2
  <2>3. CASE i = Len(q) + 1
    BY <1>3, <1>5, <1>6, <2>3
  <2> QED BY <1>3, <2>1, <2>2, <2>3
<1>8. mpc' # "back" /\ \A w \in Worker : pc'[w] # "before"
  BY <1>1 DEF Locked
<1>9. \A i : CellAt(r, i)' = CellAt(r, i)
  BY DEF CellAt
<1> QED BY <1>7, <1>8, <1>9 DEF ForwardInv

LEMMA ForwardAfterUnlinkNext ==
  ASSUME NEW q, Ready(q), ForwardInv(q), NEW w \in Worker, UnlinkNext(w)
  PROVE  ForwardInv(q)'
<1> USE DEF Ready, UnlinkNext, Goes, mainVars
<1>1. ~ MainLocked /\ \A v \in Worker : Locked(v) => v = w
  BY DEF Locked, MutexInv, MutualExclusion
<1>2. mpc # "back" /\ \A v \in Worker : pc[v] # "before"
  BY <1>1 DEF MainLocked, Locked
<1>3. Len(q) \in Nat /\ Len(q) >= 1
  BY EntitledIsFinite, EntitledIsPositive DEF Entitled, ListInv, CountInv, Owed, TypeOK
<1>4. newlast[w] = CellAt(q, 2)
  BY DEF ListInv, WorkerInv
<1>5. \A i, j \in 1 .. Len(q) : q[i] = q[j] => i = j
  BY DEF ListInv, ChainInv
<1>6. ASSUME NEW i \in 0 .. Len(q)
      PROVE  next'[CellAt(q, i + 1)] = IF i = 1 THEN LeadLast ELSE CellAt(q, i)
  <2>0. CellAt(q, i + 1) \in Cell
    BY CellAtType
  <2>1. CASE i = 1
    BY <1>4, <2>0, <2>1 DEF TypeOK
  <2>2. CASE i # 1
    <3>1. CellAt(q, i + 1) # CellAt(q, 2)
      <4>1. CASE i = Len(q)
        <5>1. CellAt(q, i + 1) = Lead /\ 2 \in 0 .. Len(q)
          BY <1>3, <1>5, <2>2, <4>1, CellAtFacts
        <5> QED BY <1>5, <5>1, CellAtFacts
      <4>2. CASE i # Len(q)
        <5>1. i + 1 \in 0 .. Len(q) /\ i + 1 # 2
          BY <1>3, <2>2, <4>2
        <5>2. CASE Len(q) = 1
          <6>1. CellAt(q, 2) = Lead
            BY <5>2 DEF CellAt
          <6> QED BY <1>5, <5>1, <6>1, CellAtFacts
        <5>3. CASE Len(q) # 1
          <6>0. \A n \in Nat : n >= 1 /\ n # 1 => 2 \in 0 .. n
            OBVIOUS
          <6>1. 2 \in 0 .. Len(q)
            BY <1>3, <5>3, <6>0, Zenon
          <6> QED BY <1>5, <5>1, <6>1, CellAtFacts
        <5> QED BY <5>2, <5>3
      <4> QED BY <4>1, <4>2
    <3>2. next'[CellAt(q, i + 1)] = next[CellAt(q, i + 1)]
      BY <1>4, <2>0, <3>1 DEF TypeOK
    <3> QED BY <1>2, <2>2, <3>2 DEF ForwardInv
  <2> QED BY <2>1, <2>2
<1>7. mpc' # "back" /\ \E v \in Worker : pc'[v] = "before"
  BY <1>2 DEF TypeOK
<1>8. \A i : CellAt(q, i)' = CellAt(q, i)
  BY DEF CellAt
<1> QED BY <1>6, <1>7, <1>8 DEF ForwardInv

LEMMA ForwardAfterUnlinkBefore ==
  ASSUME NEW q, Ready(q), ForwardInv(q), NEW w \in Worker, UnlinkBefore(w), NEW r, r = Tail(q)
  PROVE  ForwardInv(r)'
<1> USE DEF Ready, UnlinkBefore, Goes, mainVars
<1>1. ~ MainLocked /\ \A v \in Worker : Locked(v) => v = w
  BY DEF Locked, MutexInv, MutualExclusion
<1>2. mpc # "back" /\ \A v \in Worker : pc'[v] # "before"
  BY <1>1 DEF MainLocked, Locked, TypeOK
<1>3. Len(q) \in Nat /\ Len(q) >= 1
  BY EntitledIsFinite, EntitledIsPositive DEF Entitled, ListInv, CountInv, Owed, TypeOK
<1>4. Len(r) = Len(q) - 1 /\ \A i \in 1 .. Len(r) : r[i] = q[i + 1]
  BY <1>3
<1>5. CellAt(r, 0) = LeadLast /\ \A i \in 1 .. Len(r) + 1 : CellAt(r, i) = CellAt(q, i + 1)
  BY <1>3, <1>4 DEF CellAt
<1>6. ASSUME NEW i \in 0 .. Len(r) PROVE next[CellAt(r, i + 1)] = CellAt(r, i)
  <2>1. i + 1 \in 0 .. Len(q) /\ CellAt(r, i + 1) = CellAt(q, i + 2)
    BY <1>3, <1>4, <1>5
  <2>2. next[CellAt(q, i + 2)] = IF i = 0 THEN LeadLast ELSE CellAt(q, i + 1)
    BY <1>2, <2>1 DEF ForwardInv
  <2>3. CASE i = 0
    BY <1>5, <2>1, <2>2, <2>3
  <2>4. CASE i # 0
    BY <1>4, <1>5, <2>1, <2>2, <2>4
  <2> QED BY <2>3, <2>4
<1>7. \A i : CellAt(r, i)' = CellAt(r, i)
  BY DEF CellAt
<1> QED BY <1>2, <1>6, <1>7 DEF ForwardInv

(* The memory. *)

LEMMA HeapUntouched ==
  ASSUME NEW q, Ready(q), HeapInv(q), heap' = heap,
         \A w \in Worker : Popped(w) => Popped(w)' /\ oldlast'[w] = oldlast[w],
         mpc \in {"front", "back"} => mpc' \in {"front", "back"} /\ newclient' = newclient
  PROVE  HeapInv(q)'
BY DEF HeapInv, InList

LEMMA HeapAfterAllocate ==
  ASSUME NEW q, Ready(q), HeapInv(q), Allocate
  PROVE  HeapInv(q)'
BY DEF HeapInv, InList, Allocate, MainGoes, workerVars, Popped

LEMMA HeapAfterLinkBack ==
  ASSUME NEW q, Ready(q), HeapInv(q), LinkBack, NEW r, r = Append(q, newclient)
  PROVE  HeapInv(r)'
<1>1. newclient \in Node /\ q \in Seq(Node)
  BY DEF Ready, ListInv, MainInv, TypeOK, LinkBack, MainGoes
<1>2. \A c : InList(q, c) => InList(r, c)
  BY <1>1 DEF InList
<1>3. InList(r, newclient)
  <2>1. Len(r) \in 1 .. Len(r) /\ r[Len(r)] = newclient
    BY <1>1
  <2> QED BY <2>1 DEF InList
<1> QED BY <1>2, <1>3 DEF HeapInv, InList, LinkBack, MainGoes, workerVars, Popped

LEMMA HeapAfterUnlinkBefore ==
  ASSUME NEW q, Ready(q), HeapInv(q), NEW w \in Worker, UnlinkBefore(w), NEW r, r = Tail(q)
  PROVE  HeapInv(r)'
<1> USE DEF UnlinkBefore, Goes, mainVars
<1>1. Len(q) \in Nat /\ Len(q) >= 1 /\ q \in Seq(Node)
  BY EntitledIsFinite, EntitledIsPositive DEF Ready, Entitled, ListInv, CountInv, Owed, TypeOK
<1>2. oldlast[w] = q[1]
  BY <1>1 DEF Ready, ListInv, WorkerInv, CellAt
<1>3. Len(r) = Len(q) - 1 /\ \A i \in 1 .. Len(r) : r[i] = q[i + 1]
  BY <1>1
<1>4. ASSUME NEW c, InList(q, c), c # q[1] PROVE InList(r, c)
  <2>1. PICK i \in 1 .. Len(q) : q[i] = c
    BY <1>4 DEF InList
  <2>2. i - 1 \in 1 .. Len(r) /\ r[i - 1] = q[i]
    BY <1>1, <1>3, <1>4, <2>1
  <2> QED BY <2>1, <2>2 DEF InList
<1>5. Popped(w)' /\ \A v \in Worker : Popped(v) => Popped(v)'
  BY DEF Popped, Ready, TypeOK
<1> QED BY <1>2, <1>4, <1>5 DEF HeapInv, InList

LEMMA HeapAfterTakeSocket ==
  ASSUME NEW q, Ready(q), HeapInv(q), NEW w \in Worker, TakeSocket(w)
  PROVE  HeapInv(q)'
<1>1. \A v \in Worker : Popped(v) /\ v # w => Popped(v)' /\ oldlast'[v] = oldlast[v]
  BY DEF TakeSocket, Goes, Popped, Ready, TypeOK
<1> QED BY <1>1 DEF HeapInv, InList, TakeSocket, Goes, mainVars

(* The sockets. *)

(* Storing the socket changes neither what its node stands for nor what a  *)
(* worker answers for.                                                     *)
LEMMA StoreKeeps ==
  ASSUME NEW q, Ready(q), StoreSocket
  PROVE  /\ \A n \in Node : PayloadOf(n)' = PayloadOf(n)
         /\ \A w \in Worker : SocketOf(w)' = SocketOf(w) /\ Popped(w)' = Popped(w)
<1> USE DEF StoreSocket, MainGoes, workerVars
<1>1. clientsockfd \in [Node -> Socket \cup {NULL}]
  BY DEF Ready, TypeOK
<1>2. \A w \in Worker : Popped(w) => oldlast[w] # newclient
  BY DEF Ready, ListInv, WorkerInv
<1> QED BY <1>1, <1>2 DEF PayloadOf, SocketOf, Popped

LEMMA HolderUntouched ==
  ASSUME NEW q, Ready(q), HolderInv(q),
         \A n \in Node : PayloadOf(n)' = PayloadOf(n),
         UNCHANGED <<open, accepted>>, MainCarries' = MainCarries,
         \A w \in Worker : /\ SocketOf(w)' = SocketOf(w)
                           /\ (Popped(w) \/ pc[w] = "serve")' = (Popped(w) \/ pc[w] = "serve")
  PROVE  HolderInv(q)'
<1>1. \A i \in 1 .. Len(q) : q[i] \in Node
  BY DEF Ready
<1>2. \A i \in 1 .. Len(q) : PayloadOf(q[i])' = PayloadOf(q[i])
  BY <1>1
<1> QED BY <1>2 DEF HolderInv

LEMMA HolderAfterAccept ==
  ASSUME NEW q, Ready(q), HolderInv(q), Accept
  PROVE  HolderInv(q)'
<1> USE DEF Accept, MainGoes, listVars, workerVars
<1>1. accepted' \in Socket \ open /\ open' = open \cup {accepted'}
  OBVIOUS
<1>2. accepted' # NULL
  BY <1>1, CellsAreDistinct
<1>3. \A w \in Worker : SocketOf(w)' = SocketOf(w) /\ Popped(w)' = Popped(w)
  BY DEF SocketOf, Popped
<1>4. MainCarries' /\ ~ MainCarries
  BY DEF MainCarries
<1>5. \A w \in Worker : SocketOf(w) # accepted'
  BY <1>1, <1>2 DEF HolderInv
<1>6. \A n : PayloadOf(n)' = PayloadOf(n)
  BY DEF PayloadOf
<1> QED BY <1>1, <1>3, <1>4, <1>5, <1>6 DEF HolderInv

LEMMA HolderAfterLinkBack ==
  ASSUME NEW q, Ready(q), HolderInv(q), LinkBack, NEW r, r = Append(q, newclient)
  PROVE  HolderInv(r)'
<1> USE DEF LinkBack, MainGoes, workerVars
<1>1. /\ newclient \in Node /\ q \in Seq(Node) /\ ~ InList(q, newclient)
      /\ clientsockfd \in [Node -> Socket \cup {NULL}]
  BY DEF Ready, ListInv, MainInv, TypeOK
<1>2. /\ Len(r) = Len(q) + 1 /\ Len(q) \in Nat
      /\ \A i \in 1 .. Len(q) : r[i] = q[i] /\ q[i] # newclient /\ q[i] \in Node
      /\ r[Len(q) + 1] = newclient
  BY <1>1 DEF InList
<1>3. \A w \in Worker : Popped(w) => oldlast[w] # newclient /\ oldlast[w] \in Node
  BY DEF Ready, ListInv, WorkerInv, TypeOK
<1>4. \A w \in Worker : SocketOf(w)' = SocketOf(w) /\ Popped(w)' = Popped(w)
  BY <1>1, <1>3 DEF SocketOf, Popped
<1>5. \A i \in 1 .. Len(q) : PayloadOf(r[i])' = PayloadOf(q[i])
  BY <1>1, <1>2 DEF PayloadOf
<1>6. PayloadOf(r[Len(q) + 1])' = accepted
  BY <1>1, <1>2 DEF PayloadOf
<1>7. MainCarries /\ ~ MainCarries'
  BY DEF MainCarries
<1>8. \A i \in 1 .. Len(r) : i \in 1 .. Len(q) \/ i = Len(q) + 1
  BY <1>2
<1>9. \A i \in 1 .. Len(r) : PayloadOf(r[i])' \in open'
  BY <1>5, <1>6, <1>7, <1>8 DEF HolderInv
<1>10. \A i, j \in 1 .. Len(r) : PayloadOf(r[i])' = PayloadOf(r[j])' => i = j
  BY <1>5, <1>6, <1>7, <1>8 DEF HolderInv
<1>11. \A w \in Worker :
         /\ SocketOf(w)' \in IF Popped(w)' \/ pc'[w] = "serve" THEN open' ELSE {NULL}
         /\ \A i \in 1 .. Len(r) : SocketOf(w)' # PayloadOf(r[i])'
  BY <1>4, <1>5, <1>6, <1>7, <1>8 DEF HolderInv
<1>12. \A v, w \in Worker : SocketOf(v)' = SocketOf(w)' /\ SocketOf(v)' # NULL => v = w
  BY <1>4 DEF HolderInv
<1>13. ASSUME NEW s \in open'
       PROVE  \/ \E i \in 1 .. Len(r) : PayloadOf(r[i])' = s
              \/ \E w \in Worker : SocketOf(w)' = s
  <2>1. CASE accepted = s
    <3>1. Len(q) + 1 \in 1 .. Len(r)
      BY <1>2
    <3> QED BY <1>6, <2>1, <3>1
  <2>2. CASE \E i \in 1 .. Len(q) : PayloadOf(q[i]) = s
    <3>1. \A i \in 1 .. Len(q) : i \in 1 .. Len(r)
      BY <1>2
    <3> QED BY <1>5, <2>2, <3>1
  <2>3. CASE \E w \in Worker : SocketOf(w) = s
    BY <1>4, <2>3
  <2> QED BY <1>13, <2>1, <2>2, <2>3 DEF HolderInv
<1> QED BY <1>7, <1>9, <1>10, <1>11, <1>12, <1>13 DEF HolderInv

LEMMA HolderAfterUnlinkBefore ==
  ASSUME NEW q, Ready(q), HolderInv(q), NEW w \in Worker, UnlinkBefore(w), NEW r, r = Tail(q)
  PROVE  HolderInv(r)'
<1> USE DEF UnlinkBefore, Goes, mainVars
<1>1. Len(q) \in Nat /\ Len(q) >= 1 /\ q \in Seq(Node)
  BY EntitledIsFinite, EntitledIsPositive DEF Ready, Entitled, ListInv, CountInv, Owed, TypeOK
<1>2. oldlast[w] = q[1] /\ ~ Popped(w) /\ pc[w] # "serve" /\ Popped(w)'
  BY <1>1 DEF Ready, TypeOK, ListInv, WorkerInv, CellAt, Popped
<1>r. Len(r) = Len(q) - 1 /\ \A i \in 1 .. Len(r) : r[i] = q[i + 1] /\ i + 1 \in 1 .. Len(q) /\ i + 1 # 1
  BY <1>1
<1>p. \A n : PayloadOf(n) = clientsockfd[n] /\ PayloadOf(n)' = clientsockfd[n]
  <2>1. mpc # "store"
    BY DEF Ready, MutexInv, MutualExclusion, Locked, MainLocked
  <2> QED BY <2>1 DEF PayloadOf
<1>3. /\ Len(r) = Len(q) - 1
      /\ \A i \in 1 .. Len(r) : /\ r[i] = q[i + 1] /\ i + 1 \in 1 .. Len(q) /\ i + 1 # 1
                                /\ PayloadOf(r[i])' = PayloadOf(q[i + 1])
  BY <1>r, <1>p
<1>4. SocketOf(w) = NULL /\ SocketOf(w)' = PayloadOf(q[1])
  BY <1>2, <1>p DEF SocketOf, HolderInv
<1>5. \A v \in Worker : v # w => /\ SocketOf(v)' = SocketOf(v) /\ Popped(v)' = Popped(v)
                                 /\ pc'[v] = pc[v]
  BY DEF SocketOf, Popped, Ready, TypeOK
<1>6. MainCarries' = MainCarries
  BY DEF MainCarries
<1>7. 1 \in 1 .. Len(q) /\ PayloadOf(q[1]) \in open
  BY <1>1 DEF HolderInv
<1>8. MainCarries => /\ accepted \in open
                     /\ \A i \in 1 .. Len(r) : PayloadOf(r[i])' # accepted
                     /\ \A v \in Worker : SocketOf(v)' # accepted
  BY <1>3, <1>4, <1>5, <1>7 DEF HolderInv
<1>9. \A i \in 1 .. Len(r) : PayloadOf(r[i])' \in open
  BY <1>3 DEF HolderInv
<1>10. \A i, j \in 1 .. Len(r) : PayloadOf(r[i])' = PayloadOf(r[j])' => i = j
  BY <1>3 DEF HolderInv
<1>11. \A v \in Worker :
         /\ SocketOf(v)' \in IF Popped(v)' \/ pc'[v] = "serve" THEN open ELSE {NULL}
         /\ \A i \in 1 .. Len(r) : SocketOf(v)' # PayloadOf(r[i])'
  BY <1>2, <1>3, <1>4, <1>5, <1>7 DEF HolderInv
<1>12. \A u, v \in Worker : SocketOf(u)' = SocketOf(v)' /\ SocketOf(u)' # NULL => u = v
  BY <1>4, <1>5, <1>7 DEF HolderInv
<1>13. ASSUME NEW s \in open
       PROVE  \/ MainCarries /\ accepted = s
              \/ \E i \in 1 .. Len(r) : PayloadOf(r[i])' = s
              \/ \E v \in Worker : SocketOf(v)' = s
  <2>1. CASE \E i \in 1 .. Len(q) : PayloadOf(q[i]) = s
    <3>1. PICK i \in 1 .. Len(q) : PayloadOf(q[i]) = s
      BY <2>1
    <3>2. CASE i = 1
      BY <1>4, <3>1, <3>2
    <3>3. CASE i # 1
      <4>1. i - 1 \in 1 .. Len(r) /\ r[i - 1] = q[i]
        BY <1>1, <1>3, <3>3
      <4>2. PayloadOf(r[i - 1])' = PayloadOf(q[i])
        BY <1>3, <4>1, <1>p
      <4> QED BY <3>1, <4>1, <4>2
    <3> QED BY <3>2, <3>3
  <2>2. CASE \E v \in Worker : SocketOf(v) = s
    <3>1. s # NULL
      BY <1>13, CellsAreDistinct DEF Ready, TypeOK
    <3> QED BY <1>4, <1>5, <2>2, <3>1
  <2>3. \/ MainCarries /\ accepted = s
        \/ \E i \in 1 .. Len(q) : PayloadOf(q[i]) = s
        \/ \E v \in Worker : SocketOf(v) = s
    BY <1>13 DEF HolderInv
  <2> QED BY <2>1, <2>2, <2>3
<1> QED BY <1>6, <1>8, <1>9, <1>10, <1>11, <1>12, <1>13 DEF HolderInv

LEMMA HolderAfterTakeSocket ==
  ASSUME NEW q, Ready(q), HolderInv(q), NEW w \in Worker, TakeSocket(w)
  PROVE  HolderInv(q)'
<1> USE DEF TakeSocket, Goes, listVars, mainVars, Popped
<1>1. \A v \in Worker : /\ SocketOf(v)' = SocketOf(v)
                        /\ (Popped(v) \/ pc[v] = "serve")' = (Popped(v) \/ pc[v] = "serve")
  BY DEF SocketOf, Ready, TypeOK
<1>2. MainCarries' = MainCarries /\ \A n : PayloadOf(n)' = PayloadOf(n)
  BY DEF MainCarries, PayloadOf
<1> QED BY <1>1, <1>2, HolderUntouched

LEMMA HolderAfterServe ==
  ASSUME NEW q, Ready(q), HolderInv(q), NEW w \in Worker, Serve(w)
  PROVE  HolderInv(q)'
<1> USE DEF Serve, Goes, listVars, mainVars
<1>1. SocketOf(w) = serving[w] /\ ~ Popped(w) /\ ~ Popped(w)' /\ SocketOf(w)' = NULL /\ pc'[w] # "serve"
  BY DEF SocketOf, Popped, Ready, TypeOK
<1>2. \A v \in Worker : v # w => /\ SocketOf(v)' = SocketOf(v) /\ Popped(v)' = Popped(v)
                                 /\ pc'[v] = pc[v]
  BY DEF SocketOf, Popped, Ready, TypeOK
<1>3. open' = open \ {SocketOf(w)} /\ SocketOf(w) \in open /\ NULL \notin open
  BY <1>1, CellsAreDistinct DEF Ready, TypeOK, HolderInv
<1>4. MainCarries' = MainCarries /\ \A n : PayloadOf(n)' = PayloadOf(n)
  BY DEF MainCarries, PayloadOf
<1> QED BY <1>1, <1>2, <1>3, <1>4 DEF HolderInv

-----------------------------------------------------------------------------
(* All of it together: the sequence of the list's nodes after a step.      *)

Intact(q) == Ready(q) /\ CarryInv(q)

FullInv == \E q \in Seq(Node) : Intact(q)

LEMMA InitFullInv == Init => FullInv
<1> SUFFICES ASSUME Init PROVE FullInv
  OBVIOUS
<1>1. PICK q \in Seq(Node) : ListInv(q)
  BY InitIInv DEF IInv
<1>2. TypeOK /\ MutexInv
  BY InitIInv DEF IInv
<1>3. Len(q) = 0
  <2>1. Cardinality(Entitled) = 0
    BY FS_EmptySet DEF Init, Entitled
  <2> QED BY <1>1, <2>1 DEF ListInv, CountInv, Init, Owed
<1>4. ForwardInv(q)
  BY <1>3, CellsAreDistinct DEF Init, ForwardInv, CellAt, Cell, Sentinel
<1>5. HeapInv(q)
  BY DEF Init, HeapInv
<1>6. HolderInv(q)
  BY <1>3 DEF Init, HolderInv, MainCarries, SocketOf, Popped
<1> QED BY <1>1, <1>2, <1>4, <1>5, <1>6 DEF FullInv, Intact, Ready, CarryInv

(* The steps that leave the sequence alone. *)
SameList == \/ Accept \/ MainLock \/ Allocate \/ LinkFront \/ StoreSocket \/ MainUnlock \/ Signal
            \/ \E w \in Worker : \/ Wait(w) \/ Lock(w) \/ ReadLast(w) \/ UnlinkNext(w)
                                 \/ Unlock(w) \/ TakeSocket(w) \/ Serve(w)
            \/ UNCHANGED vars

LEMMA ForwardWhenSame ==
  ASSUME NEW q, Intact(q), SameList
  PROVE  ForwardInv(q)'
<1> USE DEF Intact, CarryInv
<1>1. CASE LinkFront \/ \E w \in Worker : UnlinkNext(w)
  BY <1>1, ForwardAfterLinkFront, ForwardAfterUnlinkNext
<1>2. CASE Accept \/ MainLock \/ Allocate \/ StoreSocket \/ MainUnlock \/ Signal \/ UNCHANGED vars
  <2>1. /\ next' = next /\ pc' = pc /\ (mpc' = "back") = (mpc = "back")
        /\ mpc = "back" => UNCHANGED <<newclient, current_first>>
    BY <1>2 DEF Accept, MainLock, Allocate, StoreSocket, MainUnlock, Signal, MainGoes, vars, listVars,
                mainVars, workerVars
  <2> QED BY <2>1, ForwardUntouched
<1>3. ASSUME NEW w \in Worker,
             Wait(w) \/ Lock(w) \/ ReadLast(w) \/ Unlock(w) \/ TakeSocket(w) \/ Serve(w)
      PROVE  ForwardInv(q)'
  <2>1. /\ next' = next /\ UNCHANGED <<mpc, newclient, current_first>>
        /\ \A v \in Worker : (pc'[v] = "before") = (pc[v] = "before")
    BY <1>3 DEF Wait, Lock, ReadLast, Unlock, TakeSocket, Serve, Goes, listVars, mainVars, Ready, TypeOK
  <2> QED BY <2>1, ForwardUntouched
<1> QED BY <1>1, <1>2, <1>3 DEF SameList

LEMMA HeapWhenSame ==
  ASSUME NEW q, Intact(q), SameList
  PROVE  HeapInv(q)'
<1> USE DEF Intact, CarryInv
<1>1. CASE Allocate \/ \E w \in Worker : TakeSocket(w)
  BY <1>1, HeapAfterAllocate, HeapAfterTakeSocket
<1>2. CASE Accept \/ MainLock \/ LinkFront \/ StoreSocket \/ MainUnlock \/ Signal \/ UNCHANGED vars
  <2>1. /\ heap' = heap /\ pc' = pc /\ oldlast' = oldlast
        /\ mpc \in {"front", "back"} => mpc' \in {"front", "back"} /\ newclient' = newclient
    BY <1>2 DEF Accept, MainLock, LinkFront, StoreSocket, MainUnlock, Signal, MainGoes, vars, mainVars, workerVars
  <2> QED BY <2>1, HeapUntouched DEF Popped
<1>3. ASSUME NEW w \in Worker,
             Wait(w) \/ Lock(w) \/ ReadLast(w) \/ UnlinkNext(w) \/ Unlock(w) \/ Serve(w)
      PROVE  HeapInv(q)'
  <2>1. /\ heap' = heap /\ UNCHANGED <<mpc, newclient>>
        /\ \A v \in Worker : Popped(v) => Popped(v)' /\ oldlast'[v] = oldlast[v]
    BY <1>3 DEF Wait, Lock, ReadLast, UnlinkNext, Unlock, Serve, Goes, mainVars, Popped, Ready, TypeOK
  <2> QED BY <2>1, HeapUntouched
<1> QED BY <1>1, <1>2, <1>3 DEF SameList

LEMMA HolderWhenSame ==
  ASSUME NEW q, Intact(q), SameList
  PROVE  HolderInv(q)'
<1> USE DEF Intact, CarryInv
<1>1. CASE Accept \/ \E w \in Worker : TakeSocket(w) \/ Serve(w)
  BY <1>1, HolderAfterAccept, HolderAfterTakeSocket, HolderAfterServe
<1>2. CASE MainLock \/ Allocate \/ LinkFront
  <2>1. UNCHANGED <<clientsockfd, open, accepted, pc, oldlast, serving>> /\ MainCarries' = MainCarries
    BY <1>2 DEF MainLock, Allocate, LinkFront, MainGoes, listVars, workerVars, MainCarries
  <2>2. \A n : PayloadOf(n)' = PayloadOf(n)
    BY <1>2 DEF MainLock, Allocate, LinkFront, MainGoes, listVars, PayloadOf
  <2> QED BY <2>1, <2>2, HolderUntouched DEF SocketOf, Popped
<1>s. CASE StoreSocket
  <2>1. UNCHANGED <<open, accepted, pc>> /\ MainCarries' = MainCarries
    BY <1>s DEF StoreSocket, MainGoes, workerVars, MainCarries
  <2> QED BY <1>s, <2>1, StoreKeeps, HolderUntouched
<1>3. CASE MainUnlock \/ Signal
  <2>1. UNCHANGED <<clientsockfd, open, pc, oldlast, serving>> /\ ~ MainCarries'
    BY <1>3 DEF MainUnlock, Signal, MainGoes, listVars, workerVars, MainCarries
  <2>2. ~ MainCarries
    BY <1>3 DEF MainUnlock, Signal, MainGoes, MainCarries
  <2>3. \A n : PayloadOf(n)' = PayloadOf(n)
    BY <1>3 DEF MainUnlock, Signal, MainGoes, listVars, PayloadOf
  <2> QED BY <2>1, <2>2, <2>3 DEF HolderInv, SocketOf, Popped
<1>4. CASE UNCHANGED vars
  <2>1. UNCHANGED <<clientsockfd, open, accepted, pc, oldlast, serving>> /\ MainCarries' = MainCarries
    BY <1>4 DEF vars, listVars, mainVars, workerVars, MainCarries
  <2>2. \A n : PayloadOf(n)' = PayloadOf(n)
    BY <1>4 DEF vars, listVars, mainVars, PayloadOf
  <2> QED BY <2>1, <2>2, HolderUntouched DEF SocketOf, Popped
<1>5. ASSUME NEW w \in Worker, Wait(w) \/ Lock(w) \/ ReadLast(w) \/ UnlinkNext(w) \/ Unlock(w)
      PROVE  HolderInv(q)'
  <2>1. UNCHANGED <<open, accepted>> /\ MainCarries' = MainCarries /\ \A n : PayloadOf(n)' = PayloadOf(n)
    BY <1>5 DEF Wait, Lock, ReadLast, UnlinkNext, Unlock, Goes, listVars, mainVars, MainCarries, PayloadOf
  <2>2. \A v \in Worker : /\ SocketOf(v)' = SocketOf(v)
                          /\ (Popped(v) \/ pc[v] = "serve")' = (Popped(v) \/ pc[v] = "serve")
    BY <1>5 DEF Wait, Lock, ReadLast, UnlinkNext, Unlock, Goes, listVars, mainVars, SocketOf,
                Popped, Ready, TypeOK
  <2> QED BY <2>1, <2>2, HolderUntouched
<1> QED BY <1>1, <1>2, <1>s, <1>3, <1>4, <1>5 DEF SameList

LEMMA IntactWhenSame ==
  ASSUME NEW q, Intact(q), SameList
  PROVE  Intact(q)'
<1>1. IInv /\ [Next]_vars
  BY DEF Intact, Ready, IInv, SameList, Next, MainStep, WorkerStep
<1>2. TypeOK' /\ MutexInv'
  BY <1>1, TypeStep, MutexStep DEF IInv
<1>3. ListInv(q)'
  <2>1. CASE UNCHANGED vars
    <3>1. UNCHANGED (length + Cardinality(Entitled) + Owed)
      BY <2>1 DEF vars, listVars, mainVars, workerVars, Entitled, Owed
    <3> QED BY <2>1, <3>1, ListUntouched
            DEF Intact, vars, listVars, mainVars, workerVars, Popped
  <2>2. CASE Accept \/ MainLock \/ Allocate \/ LinkFront \/ StoreSocket \/ MainUnlock \/ Signal
    BY <2>2, ListAfterMainStep, ListAfterAllocate, ListAfterLinkFront DEF Intact
  <2>3. CASE \E w \in Worker : \/ Wait(w) \/ Lock(w) \/ ReadLast(w) \/ UnlinkNext(w)
                               \/ Unlock(w) \/ TakeSocket(w) \/ Serve(w)
    BY <2>3, ListAfterWorkerStep, ListAfterWait, ListAfterReadLast, ListAfterUnlinkNext,
       ListAfterTakeSocket DEF Intact
  <2> QED BY <2>1, <2>2, <2>3 DEF SameList
<1>4. CarryInv(q)'
  BY ForwardWhenSame, HeapWhenSame, HolderWhenSame DEF CarryInv
<1> QED BY <1>2, <1>3, <1>4 DEF Intact, Ready

LEMMA IntactAfterLinkBack ==
  ASSUME NEW q, Intact(q), LinkBack, NEW r, r = Append(q, newclient)
  PROVE  Intact(r)'
<1>1. IInv /\ [Next]_vars
  BY DEF Intact, Ready, IInv, Next, MainStep
<1>2. TypeOK' /\ MutexInv'
  BY <1>1, TypeStep, MutexStep DEF IInv
<1>3. r \in Seq(Node) /\ ListInv(r)'
  BY ListAfterLinkBack DEF Intact
<1>4. CarryInv(r)'
  BY ForwardAfterLinkBack, HeapAfterLinkBack, HolderAfterLinkBack DEF Intact, CarryInv
<1> QED BY <1>2, <1>3, <1>4 DEF Intact, Ready

LEMMA IntactAfterUnlinkBefore ==
  ASSUME NEW q, Intact(q), NEW w \in Worker, UnlinkBefore(w), NEW r, r = Tail(q)
  PROVE  Intact(r)'
<1>1. IInv /\ [Next]_vars
  BY DEF Intact, Ready, IInv, Next, WorkerStep
<1>2. TypeOK' /\ MutexInv'
  BY <1>1, TypeStep, MutexStep DEF IInv
<1>3. r \in Seq(Node) /\ ListInv(r)'
  BY ListAfterUnlinkBefore DEF Intact
<1>4. CarryInv(r)'
  BY ForwardAfterUnlinkBefore, HeapAfterUnlinkBefore, HolderAfterUnlinkBefore DEF Intact, CarryInv
<1> QED BY <1>2, <1>3, <1>4 DEF Intact, Ready

LEMMA NextFullInv == FullInv /\ [Next]_vars => FullInv'
<1> SUFFICES ASSUME FullInv, [Next]_vars PROVE FullInv'
  OBVIOUS
<1>1. PICK q \in Seq(Node) : Intact(q)
  BY DEF FullInv
<1>2. CASE SameList
  BY <1>1, <1>2, IntactWhenSame DEF FullInv
<1>3. CASE LinkBack
  <2>1. PICK r : r = Append(q, newclient)
    OBVIOUS
  <2>2. Intact(r)'
    BY <1>1, <1>3, <2>1, IntactAfterLinkBack
  <2> QED BY <2>2 DEF FullInv, Intact, Ready
<1>4. ASSUME NEW w \in Worker, UnlinkBefore(w) PROVE FullInv'
  <2>1. PICK r : r = Tail(q)
    OBVIOUS
  <2>2. Intact(r)'
    BY <1>1, <1>4, <2>1, IntactAfterUnlinkBefore
  <2> QED BY <2>2 DEF FullInv, Intact, Ready
<1> QED BY <1>2, <1>3, <1>4 DEF Next, MainStep, WorkerStep, SameList

THEOREM FullInductive == Spec => []FullInv
BY InitFullInv, NextFullInv, PTL DEF Spec

-----------------------------------------------------------------------------
(* The order of the list is no choice: following `before' determines it.   *)

(* A set of numbers has a smallest one. *)
LEMMA Least ==
  ASSUME NEW T \in SUBSET Nat, T # {}
  PROVE  \E n \in T : \A m \in T : n <= m
<1>1. PICK n \in T : \A m \in T : ~ (<<m, n>> \in OpToRel(<, Nat))
  BY NatLessThanWellFounded, WFMin
<1>2. \A m \in T : ~ (m < n)
  BY <1>1 DEF OpToRel
<1> QED BY <1>2

Linked(pointer, q) == \A i \in 0 .. Len(q) : pointer[CellAt(q, i)] = CellAt(q, i + 1)

LEMMA SameCells ==
  ASSUME NEW pointer, NEW q \in Seq(Node), NEW r \in Seq(Node),
         Linked(pointer, q), Linked(pointer, r), Len(q) <= Len(r)
  PROVE  \A i \in 0 .. Len(q) + 1 : CellAt(q, i) = CellAt(r, i)
<1>0. Len(q) \in Nat /\ Len(r) \in Nat
  OBVIOUS
<1> DEFINE Differ == {i \in Nat : i <= Len(q) + 1 /\ CellAt(q, i) # CellAt(r, i)}
<1>1. SUFFICES ASSUME Differ # {} PROVE FALSE
  BY <1>0
<1>2. PICK n \in Differ : \A m \in Differ : n <= m
  BY <1>1, Least
<1>3. n # 0
  BY DEF CellAt
<1>4. n - 1 \in Nat /\ n - 1 \notin Differ /\ n - 1 \in 0 .. Len(q) /\ n - 1 \in 0 .. Len(r)
  BY <1>0, <1>2, <1>3
<1>5. CellAt(q, n - 1) = CellAt(r, n - 1)
  BY <1>0, <1>4
<1>6. CellAt(q, (n - 1) + 1) = CellAt(r, (n - 1) + 1)
  BY <1>4, <1>5 DEF Linked
<1> QED BY <1>6

LEMMA SameLength ==
  ASSUME NEW pointer, NEW q \in Seq(Node), NEW r \in Seq(Node),
         Linked(pointer, q), Linked(pointer, r), Len(q) <= Len(r)
  PROVE  q = r
<1>1. \A i \in 0 .. Len(q) + 1 : CellAt(q, i) = CellAt(r, i)
  BY SameCells
<1>2. Len(q) \in Nat /\ Len(r) \in Nat
  OBVIOUS
<1>3. CellAt(r, Len(q) + 1) = Lead
  BY <1>1, <1>2 DEF CellAt
<1>4. Len(r) = Len(q)
  <2> SUFFICES ASSUME Len(q) + 1 <= Len(r) PROVE FALSE
    BY <1>2
  <2>1. CellAt(r, Len(q) + 1) = r[Len(q) + 1] /\ r[Len(q) + 1] \in Node
    BY <1>2 DEF CellAt
  <2> QED BY <1>3, <2>1, CellsAreDistinct
<1>5. \A i \in 1 .. Len(q) : q[i] = r[i]
  BY <1>1, <1>2, <1>4 DEF CellAt
<1> QED BY <1>4, <1>5, SeqEqual

LEMMA Short ==
  ASSUME NEW q \in Seq(Node), \A i, j \in 1 .. Len(q) : q[i] = q[j] => i = j
  PROVE  q \in NodeSeqs
<1>1. q \in [1 .. Len(q) -> Node] /\ Len(q) \in Nat
  OBVIOUS
<1>2. q \in Injection(1 .. Len(q), Node)
  BY <1>1 DEF Injection, IsInjective
<1>3. Cardinality(1 .. Len(q)) <= Cardinality(Node) /\ Cardinality(Node) \in Nat
  BY <1>2, FS_Injection, FiniteMemory, FS_CardinalityType
<1>4. Cardinality(1 .. Len(q)) = Len(q)
  <2>1. 1 \in Int /\ Len(q) \in Int
    BY <1>1
  <2>2. Cardinality(1 .. Len(q)) = IF 1 > Len(q) THEN 0 ELSE Len(q) - 1 + 1
    BY <2>1, FS_Interval
  <2> QED BY <1>1, <2>2
<1> QED BY <1>1, <1>3, <1>4 DEF NodeSeqs

LEMMA OrderIs ==
  ASSUME NEW pointer, NEW q \in Seq(Node), Linked(pointer, q),
         \A i, j \in 1 .. Len(q) : q[i] = q[j] => i = j
  PROVE  q = CHOOSE r \in NodeSeqs : Linked(pointer, r)
<1>1. q \in NodeSeqs
  BY Short
<1>2. ASSUME NEW r \in NodeSeqs, Linked(pointer, r) PROVE r = q
  <2>1. r \in Seq(Node)
    BY FS_CardinalityType, FiniteMemory DEF NodeSeqs
  <2>2. Len(q) <= Len(r) \/ Len(r) <= Len(q)
    BY <2>1
  <2> QED BY <1>2, <2>1, <2>2, SameLength
<1> QED BY <1>1, <1>2

LEMMA OrderWhenIntact ==
  ASSUME NEW q, Intact(q)
  PROVE  Order = q
<1>1. q \in Seq(Node) /\ Linked(before, q) /\ \A i, j \in 1 .. Len(q) : q[i] = q[j] => i = j
  BY DEF Intact, Ready, ListInv, ChainInv, LinkedBack, Linked
<1>2. q = CHOOSE r \in NodeSeqs : Linked(before, r)
  BY <1>1, OrderIs
<1> QED BY <1>2 DEF Order, LinkedBack, Linked

LEMMA OrderWhenIntactNext ==
  ASSUME NEW q, Intact(q)'
  PROVE  Order' = q
<1>1. q \in Seq(Node) /\ Linked(before', q) /\ \A i, j \in 1 .. Len(q) : q[i] = q[j] => i = j
  BY DEF Intact, Ready, ListInv, ChainInv, LinkedBack, Linked, CellAt
<1>2. q = CHOOSE r \in NodeSeqs : Linked(before', r)
  BY <1>1, OrderIs
<1> QED BY <1>2 DEF Order, LinkedBack, Linked, NodeSeqs, CellAt

(* No client is lost and none is handled twice: every accepted socket is   *)
(* with the main thread, in one node of the list or with one worker        *)
(* (server.cpp:88-135 and 190-210).                                        *)
THEOREM OneHolder == Spec => []ExactlyOneHolder
<1>1. FullInv => ExactlyOneHolder
  <2> SUFFICES ASSUME FullInv, NEW s \in Socket
               PROVE  (IF MainHolds(s) THEN 1 ELSE 0) + Cardinality(NodesHolding(s))
                        + Cardinality(WorkersHolding(s)) = (IF s \in open THEN 1 ELSE 0)
    BY DEF ExactlyOneHolder
  <2>1. PICK q \in Seq(Node) : Intact(q)
    BY DEF FullInv
  <2>2. s # NULL
    BY CellsAreDistinct
  <2>3. NodesHolding(s) = {i \in 1 .. Len(q) : PayloadOf(q[i]) = s}
    BY <2>1, OrderWhenIntact DEF NodesHolding
  <2>4. HolderInv(q)
    BY <2>1 DEF Intact, CarryInv
  <2>5. ASSUME NEW i \in NodesHolding(s)
        PROVE  /\ s \in open /\ ~ MainHolds(s)
               /\ Cardinality(NodesHolding(s)) = 1 /\ Cardinality(WorkersHolding(s)) = 0
    <3>1. NodesHolding(s) = {i}
      BY <2>3, <2>4 DEF HolderInv
    <3>2. WorkersHolding(s) = {}
      BY <2>3, <2>4 DEF HolderInv, WorkersHolding
    <3>3. s \in open /\ ~ MainHolds(s)
      BY <2>3, <2>4 DEF HolderInv, MainHolds
    <3> QED BY <3>1, <3>2, <3>3, FS_Singleton, FS_EmptySet
  <2>6. ASSUME NEW w \in WorkersHolding(s), NodesHolding(s) = {}
        PROVE  /\ s \in open /\ ~ MainHolds(s) /\ Cardinality(NodesHolding(s)) = 0
               /\ Cardinality(WorkersHolding(s)) = 1
    <3>1. w \in Worker /\ SocketOf(w) = s
      BY DEF WorkersHolding
    <3>2. WorkersHolding(s) = {w}
      BY <2>2, <2>4, <3>1 DEF HolderInv, WorkersHolding
    <3>3. s \in open /\ ~ MainHolds(s)
      BY <2>2, <2>4, <3>1 DEF HolderInv, MainHolds
    <3> QED BY <2>6, <3>2, <3>3, FS_Singleton, FS_EmptySet
  <2>7. ASSUME NodesHolding(s) = {}, WorkersHolding(s) = {}
        PROVE  /\ MainHolds(s) <=> s \in open
               /\ Cardinality(NodesHolding(s)) = 0 /\ Cardinality(WorkersHolding(s)) = 0
    <3>1. MainHolds(s) => s \in open
      BY <2>4 DEF HolderInv, MainHolds
    <3>2. s \in open => MainHolds(s)
      BY <2>3, <2>4, <2>7 DEF HolderInv, MainHolds, WorkersHolding
    <3> QED BY <2>7, <3>1, <3>2, FS_EmptySet
  <2> QED BY <2>5, <2>6, <2>7
<1> QED BY <1>1, FullInductive, PTL

(* Both directions of the list agree whenever nobody holds the mutex, and  *)
(* nothing that is allocated is lost.                                      *)
THEOREM Consistent == Spec => []ListIsConsistent
<1>1. FullInv => ListIsConsistent
  <2> SUFFICES ASSUME FullInv, mutex = 1
               PROVE  /\ \A i \in 0 .. Len(Order) : next[CellAt(Order, i + 1)] = CellAt(Order, i)
                      /\ heap = {Order[i] : i \in DOMAIN Order}
                                  \cup {oldlast[w] : w \in {v \in Worker : Popped(v)}}
    BY DEF ListIsConsistent
  <2>1. PICK q \in Seq(Node) : Intact(q)
    BY DEF FullInv
  <2>2. Order = q /\ DOMAIN q = 1 .. Len(q)
    BY <2>1, OrderWhenIntact
  <2>3. ~ MainLocked /\ \A w \in Worker : ~ Locked(w)
    BY <2>1 DEF Intact, Ready, MutexInv
  <2>4. \A i \in 0 .. Len(q) : next[CellAt(q, i + 1)] = CellAt(q, i)
    BY <2>1, <2>3 DEF Intact, CarryInv, ForwardInv, MainLocked, Locked
  <2>5. \A n \in heap : InList(q, n) \/ \E w \in Worker : Popped(w) /\ oldlast[w] = n
    BY <2>1, <2>3 DEF Intact, CarryInv, HeapInv, MainLocked
  <2>6. \A i \in 1 .. Len(q) : q[i] \in heap
    BY <2>1 DEF Intact, Ready, ListInv, ChainInv
  <2>7. \A w \in Worker : Popped(w) => oldlast[w] \in heap
    BY <2>1 DEF Intact, Ready, ListInv, WorkerInv
  <2> QED BY <2>2, <2>4, <2>5, <2>6, <2>7 DEF InList
<1> QED BY <1>1, FullInductive, PTL

(* The list is intact at every step of every critical section.             *)
THEOREM Unbroken == Spec => []ListIsIntact
<1>1. FullInv => ListIsIntact
  <2> SUFFICES ASSUME FullInv PROVE ListIsIntact
    OBVIOUS
  <2>1. PICK q \in Seq(Node) : Intact(q)
    BY DEF FullInv
  <2>2. q \in NodeSeqs
    BY <2>1, Short DEF Intact, Ready, ListInv, ChainInv
  <2> QED BY <2>1, <2>2 DEF Intact, Ready, ListIsIntact
<1> QED BY <1>1, FullInductive, PTL

-----------------------------------------------------------------------------
(* The list is the queue of RequestQueue.                                  *)

(* The sockets of a list, in the queue's view of it. *)
Sockets(q) == [i \in 1 .. Len(q) |-> PayloadOf(q[i])]

LEMMA WaitingIs ==
  ASSUME NEW q, Intact(q)
  PROVE  [i \in DOMAIN Order |-> PayloadOf(Order[i])] = Sockets(q)
<1>1. Order = q /\ DOMAIN q = 1 .. Len(q)
  BY OrderWhenIntact DEF Intact, Ready
<1> QED BY <1>1 DEF Sockets

LEMMA WaitingIsNext ==
  ASSUME NEW q, Intact(q)'
  PROVE  [i \in DOMAIN Order |-> PayloadOf(Order[i])]' = Sockets(q)'
<1>1. Order' = q /\ DOMAIN q = 1 .. Len(q)
  BY OrderWhenIntactNext DEF Intact, Ready
<1> QED BY <1>1 DEF Sockets

LEMMA QueueStart == Init => Queue!QueueInit
<1> SUFFICES ASSUME Init PROVE Queue!QueueInit
  OBVIOUS
<1>1. PICK q \in Seq(Node) : Intact(q)
  BY InitFullInv DEF FullInv
<1>2. Len(q) = 0
  <2>1. Cardinality(Entitled) = 0
    BY FS_EmptySet DEF Init, Entitled
  <2> QED BY <1>1, <2>1 DEF Intact, Ready, ListInv, CountInv, Init, Owed
<1>3. [i \in DOMAIN Order |-> PayloadOf(Order[i])] = << >>
  <2>1. 1 .. Len(q) = {}
    BY <1>2
  <2>2. Sockets(q) = << >>
    BY <2>1 DEF Sockets
  <2> QED BY <1>1, <2>2, WaitingIs
<1>4. [w \in Worker |-> SocketOf(w)] = [w \in Worker |-> NULL]
  BY DEF Init, SocketOf, Popped
<1> QED BY <1>3, <1>4 DEF Queue!QueueInit

(* Only UnlinkBefore and Serve change what a worker answers for, only      *)
(* LinkBack the sockets of nodes.                                          *)
LEMMA SocketOfKept ==
  ASSUME NEW q, Ready(q),
         (MainStep /\ ~ LinkBack) \/ UNCHANGED vars
           \/ \E w \in Worker : \/ Wait(w) \/ Lock(w) \/ ReadLast(w) \/ UnlinkNext(w)
                               \/ Unlock(w) \/ TakeSocket(w)
  PROVE  /\ \A n \in Node : PayloadOf(n)' = PayloadOf(n)
         /\ \A v \in Worker : SocketOf(v)' = SocketOf(v)
<1>1. CASE (MainStep /\ ~ LinkBack /\ ~ StoreSocket) \/ UNCHANGED vars
  BY <1>1 DEF MainStep, Accept, MainLock, Allocate, LinkFront, MainUnlock, Signal, MainGoes, listVars,
              mainVars, workerVars, vars, SocketOf, Popped, PayloadOf
<1>2. ASSUME NEW w \in Worker,
             Wait(w) \/ Lock(w) \/ ReadLast(w) \/ UnlinkNext(w) \/ Unlock(w) \/ TakeSocket(w)
      PROVE  /\ \A n \in Node : PayloadOf(n)' = PayloadOf(n)
             /\ \A v \in Worker : SocketOf(v)' = SocketOf(v)
  BY <1>2 DEF Wait, Lock, ReadLast, UnlinkNext, Unlock, TakeSocket, Goes, listVars, mainVars, Ready,
              TypeOK, SocketOf, Popped, PayloadOf
<1>3. CASE StoreSocket
  BY <1>3, StoreKeeps
<1> QED BY <1>1, <1>2, <1>3

LEMMA AppendIs ==
  ASSUME NEW X, NEW s \in Seq(X), NEW e \in X
  PROVE  [i \in 1 .. Len(s) + 1 |-> IF i <= Len(s) THEN s[i] ELSE e] = Append(s, e)
<1>1. PICK t : t = [i \in 1 .. Len(s) + 1 |-> IF i <= Len(s) THEN s[i] ELSE e]
  OBVIOUS
<1>2. Len(s) \in Nat /\ \A i \in 1 .. Len(s) : s[i] \in X
  OBVIOUS
<1>3. t \in Seq(X) /\ Len(t) = Len(s) + 1
  BY <1>1, <1>2
<1>4. \A i \in 1 .. Len(t) : t[i] = Append(s, e)[i]
  BY <1>1, <1>2, <1>3, AppendProperties
<1>5. Append(s, e) \in Seq(X) /\ Len(Append(s, e)) = Len(s) + 1
  BY AppendProperties
<1>6. t = Append(s, e)
  BY <1>3, <1>4, <1>5, SeqEqual
<1> QED BY <1>1, <1>6

LEMMA TailIs ==
  ASSUME NEW X, NEW s \in Seq(X), s # << >>
  PROVE  [i \in 1 .. Len(s) - 1 |-> s[i + 1]] = Tail(s)
<1>1. PICK t : t = [i \in 1 .. Len(s) - 1 |-> s[i + 1]]
  OBVIOUS
<1>2. Len(s) \in Nat /\ Len(s) - 1 \in Nat /\ \A i \in 1 .. Len(s) : s[i] \in X
  OBVIOUS
<1>3. t \in Seq(X) /\ Len(t) = Len(s) - 1
  <2>1. \A i \in 1 .. Len(s) - 1 : s[i + 1] \in X
    BY <1>2
  <2> QED BY <1>1, <1>2, <2>1
<1>4. \A i \in 1 .. Len(t) : t[i] = Tail(s)[i]
  BY <1>1, <1>2, <1>3, HeadTailProperties
<1>5. Tail(s) \in Seq(X) /\ Len(Tail(s)) = Len(s) - 1
  BY HeadTailProperties
<1>6. t = Tail(s)
  BY <1>3, <1>4, <1>5, SeqEqual
<1> QED BY <1>1, <1>6

LEMMA QueuePut ==
  ASSUME NEW q, Intact(q), LinkBack
  PROVE  \E s \in Socket : Queue!Put(s)
<1>1. PICK r : r = Append(q, newclient)
  OBVIOUS
<1>2. Intact(r)'
  BY <1>1, IntactAfterLinkBack
<1>3. /\ accepted \in Socket /\ newclient \in Node /\ q \in Seq(Node)
      /\ ~ InList(q, newclient) /\ HolderInv(q) /\ MainCarries
      /\ clientsockfd \in [Node -> Socket \cup {NULL}]
  <2>1. HolderInv(q) /\ MainCarries
    BY DEF LinkBack, MainGoes, MainCarries, Intact, CarryInv
  <2> QED BY <2>1 DEF LinkBack, MainGoes, Intact, Ready, ListInv, MainInv, TypeOK, HolderInv
<1>4. /\ mpc = "back" /\ mpc' = "store"
      /\ UNCHANGED <<clientsockfd, accepted, newclient, workerVars>>
  BY DEF LinkBack, MainGoes
<1>5. Sockets(r)' = Append(Sockets(q), accepted)
  <2>1. /\ Len(r) = Len(q) + 1 /\ Len(q) \in Nat
        /\ \A i \in 1 .. Len(q) : r[i] = q[i] /\ q[i] # newclient /\ q[i] \in Node
        /\ r[Len(q) + 1] = newclient
    BY <1>1, <1>3 DEF InList
  <2>2. \A i \in 1 .. Len(q) : PayloadOf(r[i])' = PayloadOf(q[i])
    BY <1>3, <1>4, <2>1 DEF PayloadOf
  <2>3. PayloadOf(r[Len(q) + 1])' = accepted
    BY <1>3, <1>4, <2>1 DEF PayloadOf
  <2>4. Sockets(q) \in Seq(Socket \cup {NULL}) /\ Len(Sockets(q)) = Len(q)
    BY <1>3, <1>4, <2>1 DEF Sockets, PayloadOf
  <2>5. Sockets(r)' = [i \in 1 .. Len(q) + 1 |-> IF i <= Len(q) THEN Sockets(q)[i] ELSE accepted]
    BY <2>1, <2>2, <2>3 DEF Sockets
  <2>6. accepted \in Socket \cup {NULL}
    BY <1>3
  <2> DEFINE t == Sockets(q)
  <2>7. Sockets(r)' = [i \in 1 .. Len(t) + 1 |-> IF i <= Len(t) THEN t[i] ELSE accepted]
    BY <2>4, <2>5
  <2> HIDE DEF t
  <2>8. t \in Seq(Socket \cup {NULL}) => Sockets(r)' = Append(t, accepted)
    BY <2>6, <2>7, AppendIs
  <2> QED BY <2>4, <2>8 DEF t
<1>6. \A v \in Worker : SocketOf(v)' = SocketOf(v)
  BY <1>4 DEF workerVars, SocketOf, Popped
<1>7. ~ Queue!Held(accepted)
  <2>1. DOMAIN Order = 1 .. Len(q) /\ Order = q
    BY <1>3, OrderWhenIntact
  <2> QED BY <1>3, <2>1 DEF Queue!Held, Queue!InQueue, HolderInv
<1>8. Queue!Put(accepted)
  BY <1>2, <1>5, <1>6, <1>7, WaitingIs, WaitingIsNext DEF Queue!Put
<1>9. accepted \in Socket
  BY <1>3
<1> QED BY <1>8, <1>9 DEF Queue!Put, Queue!Held, Queue!InQueue

LEMMA QueueTake ==
  ASSUME NEW q, Intact(q), NEW w \in Worker, UnlinkBefore(w)
  PROVE  Queue!Take(w)
<1> USE DEF UnlinkBefore, Goes, listVars, mainVars
<1>1. PICK r : r = Tail(q)
  OBVIOUS
<1>2. Intact(r)'
  BY <1>1, IntactAfterUnlinkBefore
<1>3. Len(q) \in Nat /\ Len(q) >= 1 /\ q \in Seq(Node)
  BY EntitledIsFinite, EntitledIsPositive
     DEF Intact, Ready, Entitled, ListInv, CountInv, Owed, TypeOK
<1>4. oldlast[w] = q[1] /\ ~ Popped(w) /\ pc[w] # "serve" /\ Popped(w)'
  BY <1>3 DEF Intact, Ready, TypeOK, ListInv, WorkerInv, CellAt, Popped
<1>p. \A n : PayloadOf(n) = clientsockfd[n] /\ PayloadOf(n)' = clientsockfd[n]
  <2>1. mpc # "store"
    BY DEF Intact, Ready, MutexInv, MutualExclusion, Locked, MainLocked
  <2> QED BY <2>1 DEF PayloadOf
<1>5. Len(Sockets(q)) = Len(q) /\ Sockets(q) \in Seq(Socket \cup {NULL}) /\ Sockets(q) # << >>
  BY <1>3, <1>p DEF Sockets, Intact, Ready, TypeOK
<1>6. Sockets(r)' = Tail(Sockets(q))
  <2>1. Len(r) = Len(q) - 1 /\ \A i \in 1 .. Len(r) : r[i] = q[i + 1]
    BY <1>1, <1>3
  <2>2. Sockets(r)' = [i \in 1 .. Len(q) - 1 |-> Sockets(q)[i + 1]]
    BY <1>3, <1>p, <2>1 DEF Sockets
  <2> QED BY <1>5, <2>2, TailIs
<1>7. SocketOf(w) = NULL /\ SocketOf(w)' = Head(Sockets(q))
  BY <1>3, <1>4, <1>p DEF SocketOf, HolderInv, Intact, CarryInv, Sockets
<1>8. \A v \in Worker : v # w => SocketOf(v)' = SocketOf(v)
  BY DEF SocketOf, Popped, Intact, Ready, TypeOK
<1> QED BY <1>2, <1>5, <1>6, <1>7, <1>8, WaitingIs, WaitingIsNext DEF Queue!Take

LEMMA QueueFinish ==
  ASSUME NEW q, Intact(q), NEW w \in Worker, Serve(w)
  PROVE  Queue!Finish(w)
<1> USE DEF Serve, Goes, listVars, mainVars
<1>1. Intact(q)'
  BY IntactWhenSame DEF SameList
<1>2. SocketOf(w) \in open /\ SocketOf(w)' = NULL
  BY DEF SocketOf, Popped, Intact, Ready, TypeOK, CarryInv, HolderInv
<1>3. SocketOf(w) # NULL
  BY <1>2, CellsAreDistinct DEF Intact, Ready, TypeOK
<1>4. \A v \in Worker : v # w => SocketOf(v)' = SocketOf(v)
  BY DEF SocketOf, Popped, Intact, Ready, TypeOK
<1>5. Sockets(q)' = Sockets(q)
  BY DEF Sockets, PayloadOf
<1>6. [i \in DOMAIN Order |-> PayloadOf(Order[i])]' =
        [i \in DOMAIN Order |-> PayloadOf(Order[i])]
  BY <1>1, <1>5, WaitingIs, WaitingIsNext
<1>7. [v \in Worker |-> SocketOf(v)]' = [[v \in Worker |-> SocketOf(v)] EXCEPT ![w] = NULL]
  BY <1>2, <1>4
<1>8. [v \in Worker |-> SocketOf(v)][w] # NULL
  BY <1>3
<1> QED BY <1>6, <1>7, <1>8 DEF Queue!Finish

LEMMA QueueStutter ==
  ASSUME NEW q, Intact(q), SameList, ~ \E w \in Worker : Serve(w)
  PROVE  UNCHANGED Queue!queueVars
<1>1. Intact(q)'
  BY IntactWhenSame
<1>2. ~ LinkBack
  BY DEF LinkBack, SameList, Accept, MainLock, Allocate, LinkFront, StoreSocket, MainUnlock, Signal, MainGoes,
         Wait, Lock, ReadLast, UnlinkNext, Unlock, TakeSocket, mainVars, vars
<1>3. /\ \A n \in Node : PayloadOf(n)' = PayloadOf(n)
      /\ \A v \in Worker : SocketOf(v)' = SocketOf(v)
  BY <1>2, SocketOfKept DEF Intact, SameList, MainStep
<1>4. Sockets(q)' = Sockets(q)
  <2>1. \A i \in 1 .. Len(q) : q[i] \in Node
    BY DEF Intact, Ready
  <2> QED BY <1>3, <2>1 DEF Sockets
<1> QED BY <1>1, <1>3, <1>4, WaitingIs, WaitingIsNext DEF Queue!queueVars

LEMMA QueueStep == FullInv /\ [Next]_vars => [Queue!QueueNext]_(Queue!queueVars)
<1> SUFFICES ASSUME FullInv, [Next]_vars PROVE [Queue!QueueNext]_(Queue!queueVars)
  OBVIOUS
<1>1. PICK q \in Seq(Node) : Intact(q)
  BY DEF FullInv
<1>2. CASE LinkBack
  BY <1>1, <1>2, QueuePut DEF Queue!QueueNext
<1>3. CASE \E w \in Worker : UnlinkBefore(w)
  BY <1>1, <1>3, QueueTake DEF Queue!QueueNext
<1>4. CASE \E w \in Worker : Serve(w)
  BY <1>1, <1>4, QueueFinish DEF Queue!QueueNext
<1>5. CASE SameList /\ ~ \E w \in Worker : Serve(w)
  BY <1>1, <1>5, QueueStutter
<1> QED BY <1>2, <1>3, <1>4, <1>5 DEF Next, MainStep, WorkerStep, SameList

(* Linked list and semaphores implement a queue: whatever the threads do,  *)
(* the sockets leave in the order in which they came, each to one worker   *)
(* that has none (server.cpp:93-99, 197-206).                              *)
THEOREM ListIsAQueue == Spec => Queue!QueueSafety
<1>1. Init => Queue!QueueInit
  BY QueueStart
<1>2. FullInv /\ [Next]_vars => [Queue!QueueNext]_(Queue!queueVars)
  BY QueueStep
<1> QED BY <1>1, <1>2, FullInductive, PTL DEF Spec, Queue!QueueSafety
=============================================================================
