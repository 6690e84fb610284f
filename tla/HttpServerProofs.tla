-------------------------- MODULE HttpServerProofs --------------------------
(***************************************************************************)
(* Proofs about HttpServer, for any finite set of connections: its counter   *)
(* counts, the listener's socket outlives it, a stop that returns has        *)
(* drained the server, and the server keeps the contract of ServerContract.  *)
(***************************************************************************)
EXTENDS HttpServer, FiniteSetTheorems, TLAPS

USE DEF StopAt, ListenAt, around

-----------------------------------------------------------------------------
(* The inductive invariant *)

\* The connection between accept and its thread is the listener's own.
TakenInv ==
    /\ taken = None <=> listener \notin {"count", "spawn"}
    /\ \A c \in Conns : conn[c] = "accepted" <=> c = taken

\* The listener lives from Start to the join, and the socket longer.
LifeInv ==
    /\ listener = "none" <=> stopper \in {"new", "failed"}
    /\ stopper \in {"close", "test", "waiting", "blocked", "returned"} => listener = "ended"
    /\ sock \in {"none", "closed"} => listener \in {"none", "ended"}
    /\ stopper = "returned" => Serving = {}

IInv == TypeOK /\ TakenInv /\ LifeInv /\ CountMatches

-----------------------------------------------------------------------------
(* Counting *)

\* A finite set gains or loses one element at a time, and so does its size.
LEMMA OneMore ==
    ASSUME NEW S, NEW x, IsFiniteSet(S), x \notin S
    PROVE  Cardinality(S \cup {x}) = Cardinality(S) + 1
BY FS_AddElement

\* Removing an element of a finite set lowers its cardinality by one.
LEMMA OneLess ==
    ASSUME NEW S, NEW x, IsFiniteSet(S), x \in S
    PROVE  /\ Cardinality(S \ {x}) = Cardinality(S) - 1
           /\ Cardinality(S) > 0
<1>1. Cardinality(S \ {x}) = Cardinality(S) - 1
  BY FS_RemoveElement
<1>2. Cardinality(S) \in Nat /\ Cardinality(S \ {x}) \in Nat
  BY FS_CardinalityType, FS_RemoveElement
<1> QED
  BY <1>1, <1>2

\* The counted connections are finitely many, so none is counted only if there
\* is none.
LEMMA ServingFinite ==
    /\ IsFiniteSet(Serving)
    /\ Cardinality(Serving) \in Nat
    /\ Cardinality(Serving) = 0 <=> Serving = {}
<1>1. Serving \subseteq Conns
  BY DEF Serving
<1>2. IsFiniteSet(Serving)
  BY <1>1, HttpAssumption, FS_Subset
<1> QED
  BY <1>2, FS_CardinalityType, FS_EmptySet

-----------------------------------------------------------------------------
(* How the steps change the counted connections *)

\* Counting adds the accepted connection, which was not counted.
LEMMA CountServes ==
    ASSUME TypeOK, TakenInv, Count
    PROVE  /\ taken \in Conns
           /\ taken \notin Serving
           /\ Serving' = Serving \cup {taken}
<1>1. taken \in Conns /\ conn[taken] = "accepted"
  BY DEF TypeOK, TakenInv, Count
<1>2. taken \notin Serving
  BY <1>1 DEF Serving, Count
<1> QED
  BY <1>1, <1>2 DEF Serving, Count

\* Counting down takes the connection away.
LEMMA CountDownServes ==
    ASSUME TypeOK, TakenInv, NEW c \in Conns, CountDown(c)
    PROVE  /\ c \in Serving
           /\ Serving' = Serving \ {c}
<1>1. conn[c] = "closed" /\ conn' = [conn EXCEPT ![c] = "left"]
  BY DEF CountDown, Move
<1>2. c # taken
  BY <1>1 DEF TakenInv
<1> QED
  BY <1>1, <1>2 DEF Serving, CountDown, TypeOK

\* Every other step leaves them as they are: the thread a connection gets takes
\* over from the listener.
LEMMA OthersServe ==
    ASSUME TypeOK, TakenInv, LifeInv,
           \/ Start \/ Stop \/ CheckStop \/ Select \/ Accept \/ Spawn
           \/ \E c \in Conns : Connect(c) \/ Behave(c) \/ Converse(c) \/ Throw(c) \/ Notify(c)
           \/ UNCHANGED vars
    PROVE  Serving' = Serving
<1>1. CASE Start
  <2>1. listener # "spawn" /\ listener' # "spawn"
    BY <1>1 DEF Start, LifeInv
  <2> QED
    BY <1>1, <2>1 DEF Start, Serving
<1>2. CASE Stop
  BY <1>2 DEF Stop, BeginStop, GoOnStopping, ShutSocket, Join, CloseSocket,
              TestDrained, Block, WakeSpuriously, Serving
<1>3. CASE CheckStop
  BY <1>3 DEF CheckStop, Serving
<1>4. CASE Select
  BY <1>4 DEF Select, Serving
<1>5. CASE Accept
  BY <1>5 DEF Accept, Serving, TypeOK, TakenInv
<1>6. CASE Spawn
  <2>1. taken \in Conns /\ listener = "spawn" /\ conn' = [conn EXCEPT ![taken] = "parse"]
    BY <1>6 DEF Spawn, TypeOK, TakenInv
  <2> QED
    BY <1>6, <2>1, HttpAssumption DEF Spawn, Serving, TypeOK
<1>7. ASSUME NEW c \in Conns, Connect(c) PROVE Serving' = Serving
  BY <1>7 DEF Connect, Move, Serving, TypeOK
<1>8. ASSUME NEW c \in Conns, Converse(c) PROVE Serving' = Serving
  BY <1>8 DEF Converse, Move, Serving, TypeOK
<1>11. ASSUME NEW c \in Conns, Behave(c) \/ Throw(c) PROVE Serving' = Serving
  BY <1>11 DEF Behave, Throw, Serving
<1>9. ASSUME NEW c \in Conns, Notify(c) PROVE Serving' = Serving
  BY <1>9 DEF Notify, Move, Serving, TypeOK
<1>10. CASE UNCHANGED vars
  BY <1>10 DEF vars, Serving
<1> QED
  BY <1>1, <1>2, <1>3, <1>4, <1>5, <1>6, <1>7, <1>8, <1>9, <1>10, <1>11

-----------------------------------------------------------------------------
(* The invariant is inductive *)

\* The invariant holds initially.
LEMMA InitInv == Init => IInv
<1> SUFFICES ASSUME Init PROVE IInv
  OBVIOUS
<1>1. TypeOK
  BY DEF Init, TypeOK, ConnSteps
<1>2. Serving = {}
  BY DEF Init, Serving
<1>3. TakenInv
  BY HttpAssumption DEF Init, TakenInv
<1>4. LifeInv
  BY <1>2 DEF Init, LifeInv
<1>5. CountMatches
  BY <1>2, FS_EmptySet DEF Init, CountMatches
<1> QED
  BY <1>1, <1>3, <1>4, <1>5 DEF IInv

\* The counter follows the counted connections.
LEMMA CountStep ==
    ASSUME IInv, [Next]_vars
    PROVE  CountMatches' /\ active' \in Nat
<1> USE DEF IInv
<1>1. CASE Count
  <2>1. Cardinality(Serving') = Cardinality(Serving) + 1
    BY <1>1, CountServes, OneMore, ServingFinite
  <2>2. active' = active + 1
    BY <1>1 DEF Count
  <2> QED
    BY <2>1, <2>2, ServingFinite DEF CountMatches
<1>2. ASSUME NEW c \in Conns, CountDown(c)
      PROVE  CountMatches' /\ active' \in Nat
  <2>1. /\ Cardinality(Serving') = Cardinality(Serving) - 1
        /\ Cardinality(Serving) > 0
    BY <1>2, CountDownServes, OneLess, ServingFinite
  <2>2. active' = active - 1
    BY <1>2 DEF CountDown
  <2> QED
    BY <2>1, <2>2, ServingFinite DEF CountMatches
<1>3. ASSUME \/ Start \/ Stop \/ CheckStop \/ Select \/ Accept \/ Spawn
             \/ \E c \in Conns : Connect(c) \/ Behave(c) \/ Converse(c) \/ Throw(c) \/ Notify(c)
             \/ UNCHANGED vars
      PROVE  CountMatches' /\ active' \in Nat
  <2>1. Serving' = Serving
    BY <1>3, OthersServe
  <2>2. active' = active
    BY <1>3 DEF Start, Stop, BeginStop, GoOnStopping, ShutSocket, Join, CloseSocket,
                TestDrained, Block, WakeSpuriously, CheckStop, Select, Accept, Spawn,
                Connect, Behave, Converse, Throw, Notify, vars
  <2> QED
    BY <2>1, <2>2 DEF CountMatches, TypeOK
<1> QED
  BY <1>1, <1>2, <1>3 DEF Next, RunListener, HandleClient

\* Every step keeps TypeOK.
LEMMA TypeStep ==
    ASSUME IInv, [Next]_vars
    PROVE  TypeOK'
<1> USE DEF IInv, TypeOK
<1>0. active' \in Nat
  BY CountStep
<1>1. CASE Start
  BY <1>0, <1>1 DEF Start
<1>2. CASE Stop
  BY <1>0, <1>2 DEF Stop, BeginStop, GoOnStopping, ShutSocket, Join, CloseSocket,
                    TestDrained, Block, WakeSpuriously
<1>3. CASE CheckStop \/ Select \/ Count
  BY <1>0, <1>3 DEF CheckStop, Select, Count
<1>4. CASE Accept
  BY <1>0, <1>4 DEF Accept, ConnSteps
<1>5. CASE Spawn
  BY <1>0, <1>5 DEF Spawn, ConnSteps
<1>6. ASSUME NEW c \in Conns, Connect(c) PROVE TypeOK'
  BY <1>0, <1>6 DEF Connect, Move, ConnSteps
<1>7. ASSUME NEW c \in Conns, Converse(c) PROVE TypeOK'
  BY <1>0, <1>7 DEF Converse, Move, ConnSteps
<1>8. ASSUME NEW c \in Conns, CountDown(c) PROVE TypeOK'
  BY <1>0, <1>8 DEF CountDown, Move, ConnSteps
<1>9. ASSUME NEW c \in Conns, Notify(c) PROVE TypeOK'
  BY <1>0, <1>9 DEF Notify, Move, ConnSteps
<1>10. CASE UNCHANGED vars
  BY <1>0, <1>10 DEF vars
<1>11. ASSUME NEW c \in Conns, Behave(c) \/ Throw(c) PROVE TypeOK'
  BY <1>0, <1>11 DEF Behave, Throw
<1> QED
  BY <1>1, <1>2, <1>3, <1>4, <1>5, <1>6, <1>7, <1>8, <1>9, <1>10, <1>11
     DEF Next, RunListener, HandleClient

\* Every step keeps the listener and the connection it has taken in agreement.
LEMMA TakenStep ==
    ASSUME IInv, [Next]_vars
    PROVE  TakenInv'
<1> USE DEF IInv, TypeOK, TakenInv
<1>1. CASE Start
  BY <1>1 DEF Start, LifeInv
<1>2. CASE Stop
  BY <1>2 DEF Stop, BeginStop, GoOnStopping, ShutSocket, Join, CloseSocket,
              TestDrained, Block, WakeSpuriously
<1>3. CASE CheckStop \/ Select \/ Count
  BY <1>3 DEF CheckStop, Select, Count
<1>4. CASE Accept
  BY <1>4, HttpAssumption DEF Accept
<1>5. CASE Spawn
  BY <1>5, HttpAssumption DEF Spawn
<1>6. ASSUME NEW c \in Conns, Connect(c) \/ Behave(c) \/ Converse(c) \/ Throw(c) \/ CountDown(c) \/ Notify(c)
      PROVE  TakenInv'
  BY <1>6 DEF Connect, Behave, Converse, Throw, CountDown, Notify, Move
<1>7. CASE UNCHANGED vars
  BY <1>7 DEF vars
<1> QED
  BY <1>1, <1>2, <1>3, <1>4, <1>5, <1>6, <1>7 DEF Next, RunListener, HandleClient

\* Every step keeps the order in which socket, listener and Stop come to an
\* end.
LEMMA LifeStep ==
    ASSUME IInv, [Next]_vars
    PROVE  LifeInv'
<1> USE DEF IInv, LifeInv
<1>1. CASE Start
  BY <1>1 DEF Start
<1>2. CASE TestDrained
  <2>1. active = 0 => Serving = {}
    BY ServingFinite DEF CountMatches
  <2>2. Serving' = Serving
    BY <1>2 DEF TestDrained, Serving
  <2> QED
    BY <1>2, <2>1, <2>2 DEF TestDrained
<1>3. CASE BeginStop \/ ShutSocket \/ Join \/ CloseSocket \/ Block \/ WakeSpuriously
  BY <1>3 DEF BeginStop, ShutSocket, Join, CloseSocket, Block, WakeSpuriously
<1>4. CASE RunListener
  BY <1>4 DEF RunListener, CheckStop, Select, Accept, Count, Spawn
<1>5. ASSUME NEW c \in Conns, CountDown(c)
      PROVE  LifeInv'
  BY <1>5, CountDownServes DEF CountDown
<1>6. ASSUME NEW c \in Conns, Connect(c) \/ Behave(c) \/ Converse(c) \/ Throw(c) \/ Notify(c)
      PROVE  LifeInv'
  <2>1. Serving' = Serving
    BY <1>6, OthersServe
  <2> QED
    BY <1>6, <2>1 DEF Connect, Behave, Converse, Throw, Notify
<1>7. CASE UNCHANGED vars
  BY <1>7, OthersServe DEF vars
<1> QED
  BY <1>1, <1>2, <1>3, <1>4, <1>5, <1>6, <1>7
     DEF Next, Stop, GoOnStopping, HandleClient

\* The invariant holds in every state of every behaviour.
THEOREM Invariance == Spec => []IInv
<1>1. IInv /\ [Next]_vars => IInv'
  BY TypeStep, TakenStep, LifeStep, CountStep DEF IInv
<1> QED
  BY InitInv, <1>1, PTL DEF Spec

-----------------------------------------------------------------------------
(* What follows from it *)

\* Every variable has its type; activeConnections_ never falls below zero.
THEOREM TypeCorrect == Spec => []TypeOK
BY Invariance, PTL DEF IInv

\* activeConnections_ is the number of connections that have a thread, or are
\* about to, and have not counted down (RunListener and HandleClient).
THEOREM CounterCounts == Spec => []CountMatches
BY Invariance, PTL DEF IInv

\* The listener never works on a closed socket: Stop joins it first.
THEOREM SocketIsThere == Spec => []SocketOutlivesListener
<1>1. IInv => SocketOutlivesListener
  BY DEF IInv, TypeOK, LifeInv, SocketOutlivesListener
<1> QED
  BY <1>1, Invariance, PTL

\* A Stop that has returned leaves no listener and no thread that handles a
\* request.
THEOREM StopLeavesNoRequest == Spec => []StopDrains
<1>1. IInv => StopDrains
  <2> SUFFICES ASSUME IInv, stopper = "returned", NEW c \in Conns
               PROVE  /\ listener = "ended"
                      /\ conn[c] \in {"away", "queued", "left", "gone"}
    BY DEF StopDrains, IInv, LifeInv
  <2>1. listener = "ended" /\ Serving = {}
    BY DEF IInv, LifeInv
  <2>2. conn[c] # "accepted"
    BY <2>1, HttpAssumption DEF IInv, TakenInv
  <2>3. conn[c] \notin {"parse", "handle", "drain", "closed"}
    BY <2>1 DEF Serving
  <2> QED
    BY <2>1, <2>2, <2>3 DEF IInv, TypeOK, ConnSteps
<1> QED
  BY <1>1, Invariance, PTL

\* The server implements the contract the engine relies on: connections are
\* served only between its start and the end of its listener, and a Stop
\* returns only when all of them have ended.
THEOREM Refinement == Spec => KeepsContract
<1> USE DEF Contract!vars
<1>1. Init => Contract!Init
  BY DEF Init, Contract!Init, Serving
<1>2. IInv /\ IInv' /\ [Next]_vars => [Contract!Next]_Contract!vars
  <2> SUFFICES ASSUME IInv, IInv', [Next]_vars
               PROVE  [Contract!Next]_Contract!vars
    OBVIOUS
  <2> USE DEF IInv
  <2>1. CASE Count
    <3>1. Contract!Arrive(taken)
      BY <2>1, CountServes DEF Contract!Arrive, Count
    <3> QED
      BY <2>1, <3>1, CountServes DEF Contract!Next
  <2>2. ASSUME NEW c \in Conns, CountDown(c)
        PROVE  Contract!Next
    <3>1. Contract!Finish(c)
      BY <2>2, CountDownServes DEF Contract!Finish, CountDown
    <3> QED
      BY <3>1 DEF Contract!Next
  <2>3. CASE TestDrained
    <3>1. Serving' = Serving
      BY <2>3, OthersServe DEF Stop, GoOnStopping
    <3>2. CASE active = 0
      <4>1. Serving = {}
        BY <3>2, ServingFinite DEF CountMatches
      <4>2. Contract!Return
        BY <2>3, <3>1, <3>2, <4>1 DEF Contract!Return, TestDrained, LifeInv
      <4> QED
        BY <4>2 DEF Contract!Next
    <3>3. CASE active # 0
      BY <2>3, <3>1, <3>3 DEF TestDrained
    <3> QED
      BY <3>2, <3>3
  <2>4. CASE Start
    <3>1. Serving' = Serving
      BY <2>4, OthersServe
    <3> QED
      BY <2>4, <3>1 DEF Start, LifeInv, Contract!Next, Contract!Open
  <2>5. CASE CheckStop
    <3>1. Serving' = Serving
      BY <2>5, OthersServe
    <3> QED
      BY <2>5, <3>1 DEF CheckStop, Contract!Next, Contract!Shut
  <2>6. ASSUME \/ BeginStop \/ ShutSocket \/ Join \/ CloseSocket \/ Block
               \/ WakeSpuriously \/ Select \/ Accept \/ Spawn
               \/ \E c \in Conns : Connect(c) \/ Behave(c) \/ Converse(c) \/ Throw(c) \/ Notify(c)
               \/ UNCHANGED vars
        PROVE  UNCHANGED Contract!vars
    <3>1. Serving' = Serving
      BY <2>6, OthersServe DEF Stop, GoOnStopping
    <3> QED
      BY <2>6, <3>1 DEF BeginStop, ShutSocket, Join, CloseSocket, Block, WakeSpuriously,
                        Select, Accept, Spawn, Connect, Behave, Converse, Throw, Notify, vars
  <2> QED
    BY <2>1, <2>2, <2>3, <2>4, <2>5, <2>6
       DEF Next, Stop, GoOnStopping, RunListener, HandleClient
<1> QED
  BY <1>1, <1>2, Invariance, PTL DEF Spec, KeepsContract, Contract!Spec
=============================================================================
