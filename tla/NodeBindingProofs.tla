------------------------- MODULE NodeBindingProofs --------------------------
(***************************************************************************)
(* Every callback gets its own answer and memory is safe, for any number   *)
(* of calls, any number of threads and any heap.                           *)
(***************************************************************************)
EXTENDS NodeBinding, TLAPS

(* A Work is in one place at a time, *)
Apart ==
  /\ queued \cap solved = {}
  /\ current \notin queued \cup solved
  /\ \A t \in Thread : running[t] # NULL => running[t] \notin queued \cup solved \cup {current}
  /\ \A t, u \in Thread : running[t] # NULL /\ running[t] = running[u] => t = u

(* and is allocated for that long; *)
WorksAreUsed == \A a \in Address : works[a] # NULL <=> Used(a)

(* its cube and its callback are its own, *)
NothingShared ==
  \A a, b \in Address : works[a] # NULL /\ works[b] # NULL /\ a # b =>
    /\ works[a].scrambled_cube # works[b].scrambled_cube
    /\ works[a].callback # works[b].callback

CubesAreUsed ==
  \A p \in Address :
    cubes[p] # NULL <=> \E a \in Address : works[a] # NULL /\ works[a].scrambled_cube = p

(* and what it holds belongs together, *)
Contents ==
  /\ \A a \in Address : works[a] # NULL =>
       /\ cubes[works[a].scrambled_cube] = CubeOf[works[a].callback]
       /\ works[a].callback \in asked
  /\ \A t \in Thread : running[t] # NULL => held[t] = CubeOf[works[running[t]].callback]
  /\ \A a \in solved : works[a].solution_moves = CubeOf[works[a].callback]

(* until its callback is called, which it was not before. *)
Answered ==
  /\ answers \in [Request -> Seq(Cube)]
  /\ AnswersAreOwn
  /\ \A a \in Address : works[a] # NULL /\ a # current => answers[works[a].callback] = <<>>
  /\ \A r \in Request \ asked : answers[r] = <<>>

IInv ==
  TypeOK /\ Apart /\ WorksAreUsed /\ NothingShared /\ CubesAreUsed /\ Contents /\ Answered

LEMMA InitInv == Init => IInv
<1> SUFFICES ASSUME Init PROVE IInv
  OBVIOUS
<1> USE NullIsNothing DEF Init
<1>1. TypeOK
  BY DEF TypeOK
<1>2. Apart /\ NothingShared /\ CubesAreUsed /\ Contents
  BY DEF Apart, NothingShared, CubesAreUsed, Contents
<1>3. WorksAreUsed
  BY DEF WorksAreUsed, Used
<1>4. Answered
  BY DEF Answered, AnswersAreOwn
<1> QED
  BY <1>1, <1>2, <1>3, <1>4 DEF IInv

LEMMA CallInv ==
  ASSUME IInv, NEW r \in Request, SolveCubeAsync(r)
  PROVE  IInv'
<1> USE NullIsNothing
<1>1. PICK a \in Address, p \in Address :
        /\ works[a] = NULL /\ cubes[p] = NULL
        /\ works' = [works EXCEPT ![a] =
                       [callback |-> r, scrambled_cube |-> p, solution_moves |-> NULL]]
        /\ cubes' = [cubes EXCEPT ![p] = CubeOf[r]]
        /\ queued' = queued \cup {a}
  BY DEF SolveCubeAsync, FreeWorks, FreeCubes
<1>2. /\ r \notin asked /\ asked' = asked \cup {r}
      /\ UNCHANGED <<running, held, solved, current, answers>>
  BY DEF SolveCubeAsync
<1> DEFINE new == [callback |-> r, scrambled_cube |-> p, solution_moves |-> NULL]
<1>3. /\ new \in Work /\ new # NULL
      /\ new.callback = r /\ new.scrambled_cube = p /\ new.solution_moves = NULL
  BY DEF Work
<1>4. CubeOf[r] \in Cube /\ CubeOf[r] # NULL
  BY DEF Cube
<1> HIDE DEF new
<1>5. TypeOK
  BY DEF IInv
<1>6. /\ works' = [works EXCEPT ![a] = new]
      /\ works'[a] = new /\ cubes'[p] = CubeOf[r]
      /\ \A b \in Address : b # a => works'[b] = works[b]
      /\ \A q \in Address : q # p => cubes'[q] = cubes[q]
  BY <1>1, <1>5 DEF TypeOK, new
<1>7. ~ Used(a)
  BY <1>1 DEF IInv, WorksAreUsed
<1>8. \A b \in Address : works[b] # NULL => works[b].scrambled_cube # p /\ works[b].callback # r
  BY <1>1, <1>2 DEF IInv, CubesAreUsed, Contents
<1>9. \A b \in Address : works[b] # NULL => works[b] \in Work
  BY <1>5 DEF TypeOK
<1>10. \A b \in Address : works[b] # NULL => works[b].scrambled_cube \in Address /\ works[b].callback \in Request
  BY <1>9 DEF Work
<1>11. TypeOK'
  BY <1>1, <1>2, <1>3, <1>4, <1>5, <1>6 DEF TypeOK
<1>12. Apart'
  BY <1>1, <1>2, <1>7 DEF IInv, Apart, Used
<1>13. WorksAreUsed'
  BY <1>1, <1>2, <1>3, <1>6, <1>7 DEF IInv, WorksAreUsed, Used
<1>14. NothingShared'
  BY <1>3, <1>6, <1>8 DEF IInv, NothingShared
<1>15. CubesAreUsed'
  BY <1>1, <1>3, <1>4, <1>6, <1>8 DEF IInv, CubesAreUsed
<1>16. Contents'
  <2>1. \A b \in Address : works'[b] # NULL =>
          cubes'[works'[b].scrambled_cube] = CubeOf[works'[b].callback] /\ works'[b].callback \in asked'
    BY <1>1, <1>2, <1>3, <1>6, <1>8, <1>10 DEF IInv, Contents
  <2>2. \A t \in Thread : running[t] # NULL => running[t] # a /\ running[t] \in Address
    BY <1>5, <1>7 DEF Used, TypeOK
  <2>3. \A b \in solved : b # a /\ b \in Address
    BY <1>5, <1>7 DEF Used, TypeOK
  <2> QED
    BY <1>2, <1>6, <2>1, <2>2, <2>3 DEF IInv, Contents
<1>17. Answered'
  BY <1>1, <1>2, <1>3, <1>6 DEF IInv, Answered, AnswersAreOwn
<1> QED
  BY <1>11, <1>12, <1>13, <1>14, <1>15, <1>16, <1>17 DEF IInv

LEMMA CallBackInv ==
  ASSUME IInv, NEW a \in Address, CallBack(a)
  PROVE  IInv'
<1> USE NullIsNothing
<1>1. /\ current = NULL /\ a \in solved /\ works[a] # NULL
      /\ solved' = solved \ {a} /\ current' = a
      /\ answers' = [answers EXCEPT ![works[a].callback] = Append(@, works[a].solution_moves)]
      /\ UNCHANGED <<works, cubes, queued, running, held, asked>>
  BY DEF CallBack
<1> DEFINE r == works[a].callback
<1>2. r \in Request /\ r \in asked /\ works[a].solution_moves = CubeOf[r] /\ answers[r] = <<>>
  <2>1. works[a] \in Work
    BY <1>1 DEF IInv, TypeOK
  <2>2. r \in Request
    BY <2>1 DEF Work
  <2> QED
    BY <1>1, <2>2 DEF IInv, Contents, Answered
<1>3. CubeOf[r] \in Cube
  BY <1>2 DEF Cube
<1>4. answers'[r] = <<CubeOf[r]>> /\ \A q \in Request : q # r => answers'[q] = answers[q]
  BY <1>1, <1>2 DEF IInv, Answered
<1>5. TypeOK'
  BY <1>1 DEF IInv, TypeOK
<1>6. Apart'
  BY <1>1 DEF IInv, Apart
<1>7. WorksAreUsed'
  BY <1>1 DEF IInv, WorksAreUsed, Used
<1>8. NothingShared' /\ CubesAreUsed' /\ Contents'
  BY <1>1 DEF IInv, NothingShared, CubesAreUsed, Contents
<1>9. Answered'
  <2>1. answers' \in [Request -> Seq(Cube)]
    <3>1. Append(answers[r], works[a].solution_moves) \in Seq(Cube)
      BY <1>2, <1>3
    <3> QED
      BY <1>1, <3>1 DEF IInv, Answered
  <2>2. \A b \in Address : works[b] # NULL /\ b # a => works[b].callback # r
    BY <1>1 DEF IInv, NothingShared
  <2>3. \A b \in Address : works[b] # NULL => works[b].callback \in Request
    <3>1. \A b \in Address : works[b] # NULL => works[b] \in Work
      BY DEF IInv, TypeOK
    <3> QED
      BY <3>1 DEF Work
  <2>4. AnswersAreOwn'
    BY <1>4 DEF IInv, Answered, AnswersAreOwn
  <2>5. \A b \in Address : works'[b] # NULL /\ b # current' => answers'[works'[b].callback] = <<>>
    BY <1>1, <1>4, <2>2, <2>3 DEF IInv, Answered
  <2>6. \A q \in Request \ asked' : answers'[q] = <<>>
    BY <1>1, <1>2, <1>4 DEF IInv, Answered
  <2> QED
    BY <2>1, <2>4, <2>5, <2>6 DEF Answered
<1> QED
  BY <1>5, <1>6, <1>7, <1>8, <1>9 DEF IInv

LEMMA ReturnInv ==
  ASSUME IInv, Return
  PROVE  IInv'
<1> USE NullIsNothing
<1> DEFINE p == works[current].scrambled_cube
<1>1. /\ current # NULL /\ works[current] # NULL
      /\ cubes' = [cubes EXCEPT ![p] = NULL]
      /\ works' = [works EXCEPT ![current] = NULL]
      /\ current' = NULL
      /\ UNCHANGED <<queued, running, held, solved, asked, answers>>
  BY DEF Return
<1>2. TypeOK /\ current \in Address
  BY <1>1 DEF IInv, TypeOK
<1>3. \A b \in Address : works[b] # NULL => works[b].scrambled_cube \in Address
  <2>1. \A b \in Address : works[b] # NULL => works[b] \in Work
    BY <1>2 DEF TypeOK
  <2> QED
    BY <2>1 DEF Work
<1>4. /\ works'[current] = NULL /\ cubes'[p] = NULL
      /\ \A b \in Address : b # current => works'[b] = works[b]
      /\ \A q \in Address : q # p => cubes'[q] = cubes[q]
  BY <1>1, <1>2, <1>3 DEF TypeOK
<1>5. \A b \in Address : works[b] # NULL /\ b # current => works[b].scrambled_cube # p
  BY <1>1, <1>2 DEF IInv, NothingShared
<1>6. TypeOK'
  BY <1>1, <1>2 DEF TypeOK
<1>7. Apart'
  BY <1>1, <1>2 DEF IInv, Apart, TypeOK
<1>8. WorksAreUsed'
  BY <1>1, <1>2, <1>4 DEF IInv, WorksAreUsed, Used, Apart, TypeOK
<1>9. NothingShared'
  BY <1>4 DEF IInv, NothingShared
<1>10. CubesAreUsed'
  BY <1>2, <1>4, <1>5 DEF IInv, CubesAreUsed
<1>11. Contents'
  <2>1. \A t \in Thread : running[t] # NULL => running[t] # current /\ running[t] \in Address
    BY <1>2 DEF IInv, Apart, TypeOK
  <2>2. \A b \in solved : b # current /\ b \in Address
    BY <1>2 DEF IInv, Apart, TypeOK
  <2> QED
    BY <1>1, <1>3, <1>4, <1>5, <2>1, <2>2 DEF IInv, Contents
<1>12. Answered'
  BY <1>1, <1>4 DEF IInv, Answered, AnswersAreOwn
<1> QED
  BY <1>6, <1>7, <1>8, <1>9, <1>10, <1>11, <1>12 DEF IInv

LEMMA StartInv ==
  ASSUME IInv, NEW t \in Thread, NEW a \in Address, Start(t, a)
  PROVE  IInv'
<1> USE NullIsNothing
<1>1. /\ running[t] = NULL /\ a \in queued /\ works[a] # NULL
      /\ queued' = queued \ {a}
      /\ running' = [running EXCEPT ![t] = a]
      /\ held' = [held EXCEPT ![t] = cubes[works[a].scrambled_cube]]
      /\ UNCHANGED <<works, cubes, solved, current, asked, answers>>
  BY DEF Start
<1>2. works[a].callback \in Request /\ works[a].scrambled_cube \in Address
  <2>1. works[a] \in Work
    BY <1>1 DEF IInv, TypeOK
  <2> QED
    BY <2>1 DEF Work
<1>3. cubes[works[a].scrambled_cube] = CubeOf[works[a].callback]
  BY <1>1 DEF IInv, Contents
<1>4. /\ running'[t] = a /\ held'[t] = CubeOf[works[a].callback]
      /\ \A u \in Thread : u # t => running'[u] = running[u] /\ held'[u] = held[u]
  BY <1>1, <1>3 DEF IInv, TypeOK
<1>5. TypeOK'
  BY <1>1, <1>2 DEF IInv, TypeOK
<1>6. Apart'
  BY <1>1, <1>4 DEF IInv, Apart
<1>7. WorksAreUsed'
  BY <1>1, <1>4 DEF IInv, WorksAreUsed, Used
<1>8. NothingShared' /\ CubesAreUsed'
  BY <1>1 DEF IInv, NothingShared, CubesAreUsed
<1>9. Contents'
  BY <1>1, <1>4 DEF IInv, Contents
<1>10. Answered'
  BY <1>1 DEF IInv, Answered, AnswersAreOwn
<1> QED
  BY <1>5, <1>6, <1>7, <1>8, <1>9, <1>10 DEF IInv

LEMMA FinishInv ==
  ASSUME IInv, NEW t \in Thread, Finish(t)
  PROVE  IInv'
<1> USE NullIsNothing
<1> DEFINE a == running[t]
<1>1. /\ a # NULL /\ works[a] # NULL
      /\ works' = [works EXCEPT ![a].solution_moves = held[t]]
      /\ solved' = solved \cup {a}
      /\ running' = [running EXCEPT ![t] = NULL]
      /\ held' = [held EXCEPT ![t] = NULL]
      /\ UNCHANGED <<cubes, queued, current, asked, answers>>
  BY DEF Finish
<1>2. TypeOK /\ a \in Address /\ works[a] \in Work /\ held[t] = CubeOf[works[a].callback]
  BY <1>1 DEF IInv, TypeOK, Contents
<1>3. works[a].callback \in Request /\ held[t] \in Cube
  BY <1>2 DEF Work, Cube
<1> DEFINE new == [works[a] EXCEPT !.solution_moves = held[t]]
<1>4. /\ new \in Work /\ new # NULL
      /\ new.callback = works[a].callback
      /\ new.scrambled_cube = works[a].scrambled_cube
      /\ new.solution_moves = held[t]
  BY <1>2, <1>3 DEF Work
<1>5. works' = [works EXCEPT ![a] = new]
  BY <1>1
<1> HIDE DEF new
<1>6. /\ works'[a] = new
      /\ \A b \in Address : b # a => works'[b] = works[b]
      /\ running'[t] = NULL
      /\ \A u \in Thread : u # t => running'[u] = running[u] /\ held'[u] = held[u]
  BY <1>1, <1>2, <1>5 DEF TypeOK
<1>7. TypeOK'
  BY <1>1, <1>2, <1>4, <1>5 DEF TypeOK
<1>8. Apart'
  BY <1>1, <1>2, <1>6 DEF IInv, Apart
<1>9. WorksAreUsed'
  BY <1>1, <1>2, <1>4, <1>6 DEF IInv, WorksAreUsed, Used
<1>10. NothingShared'
  BY <1>1, <1>4, <1>6 DEF IInv, NothingShared
<1>11. CubesAreUsed'
  BY <1>1, <1>4, <1>6 DEF IInv, CubesAreUsed
<1>12. Contents'
  <2>1. \A u \in Thread : running'[u] # NULL => u # t /\ running[u] # a /\ running[u] \in Address
    BY <1>1, <1>2, <1>6 DEF IInv, Apart, TypeOK
  <2>2. \A b \in solved : b # a /\ b \in Address
    BY <1>1, <1>2 DEF IInv, Apart, TypeOK
  <2> QED
    BY <1>1, <1>2, <1>4, <1>6, <2>1, <2>2 DEF IInv, Contents
<1>13. Answered'
  BY <1>1, <1>4, <1>6 DEF IInv, Answered, AnswersAreOwn
<1> QED
  BY <1>7, <1>8, <1>9, <1>10, <1>11, <1>12, <1>13 DEF IInv

LEMMA StepInv == IInv /\ [Next]_vars => IInv'
<1> SUFFICES ASSUME IInv, [Next]_vars PROVE IInv'
  OBVIOUS
<1>1. CASE \E r \in Request : SolveCubeAsync(r)
  BY <1>1, CallInv
<1>2. CASE Loop
  BY <1>2, ReturnInv, CallBackInv DEF Loop
<1>3. CASE \E t \in Thread : Pool(t)
  BY <1>3, FinishInv, StartInv DEF Pool
<1>4. CASE Quiet \/ UNCHANGED vars
  BY <1>4 DEF Quiet, vars, IInv, TypeOK, Apart, WorksAreUsed, Used, NothingShared, CubesAreUsed,
              Contents, Answered, AnswersAreOwn
<1> QED
  BY <1>1, <1>2, <1>3, <1>4 DEF Next

-----------------------------------------------------------------------------
(* A callback is called once, with the solution of its own cube, for any   *)
(* number of calls, threads and addresses (nodebinding.cpp:25-49).         *)
THEOREM OwnAnswers == Spec => []AnswersAreOwn
<1>1. IInv => AnswersAreOwn
  BY DEF IInv, Answered
<1> QED
  BY <1>1, InitInv, StepInv, PTL DEF Spec

(* No Work and no cube is used after it was deleted, deleted twice or      *)
(* forgotten (nodebinding.cpp:45-48).                                      *)
THEOREM SafeMemory == Spec => []MemoryIsSafe
<1>1. IInv => MemoryIsSafe
  BY DEF IInv, WorksAreUsed, CubesAreUsed, MemoryIsSafe
<1> QED
  BY <1>1, InitInv, StepInv, PTL DEF Spec
=============================================================================
