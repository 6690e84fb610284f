-------------------------- MODULE EngineLifeProofs --------------------------
(***************************************************************************)
(* Proofs about EngineLife, for any number of processes, crashes, updates     *)
(* and starts: one engine at a time is at work, and one that serves can be    *)
(* found through control.json.                                               *)
(*                                                                         *)
(* Both rest on HolderWorks: the engine that works is the holder of the lock.  *)
(***************************************************************************)
EXTENDS EngineLife, TLAPS

USE LifeAssumption


\* The lock is held by the engine that is at work, and by nobody else.
HolderWorks == \A e \in Engines : Working(e) <=> lock = e

IInv == TypeOK /\ HolderWorks /\ Found

-----------------------------------------------------------------------------
\* A process that is started is an unused one.
LEMMA SpawnUnused ==
    ASSUME NEW who, Spawn(who)
    PROVE  \E e \in Engines :
              /\ pc[e] = "dead"
              /\ pc' = [pc EXCEPT ![e] = "start"]
              /\ origin' = [origin EXCEPT ![e] = who]
              /\ version' = [version EXCEPT ![e] = "new"]
              /\ asked' = asked \ {e}
              /\ UNCHANGED <<lock, file>>
<1> DEFINE e == CHOOSE d \in Engines : d \in Unused
<1>1. e \in Engines /\ e \in Unused
  BY DEF Spawn, Unused
<1>2. pc[e] = "dead"
  BY <1>1 DEF Unused
<1> QED BY <1>1, <1>2 DEF Spawn, Goto

LEMMA InitTypeOK == Init => TypeOK
<1>1. Init => Flags
  BY DEF Init, Flags
<1> QED BY <1>1 DEF Init, TypeOK

\* The steps are independent of the Boolean variables but for these.
LEMMA NextFlags == Flags /\ [Next]_vars => Flags'
<1> SUFFICES ASSUME Flags, [Next]_vars PROVE Flags'
  OBVIOUS
<1> USE DEF Flags, engine, window, bounds
<1>1. ASSUME NEW e \in Engines, Live(e) \/ Crash(e) PROVE Flags'
  BY <1>1 DEF Live, Crash, Lock, Open, Truncate, Write, Drain, Close, Exit
<1>2. CASE ServiceStart \/ StartByHand \/ Update \/ Launch \/ Quit
  BY <1>2 DEF ServiceStart, StartByHand, Update, Launch, Quit
<1>3. CASE Gui
  BY <1>3 DEF Gui, Look, Retire, Leave, SpawnEngine, Await, GiveUp, Poll, Respawn
<1>4. CASE UNCHANGED vars
  BY <1>4 DEF vars
<1> QED BY <1>1, <1>2, <1>3, <1>4 DEF Next

LEMMA NextTypeOK == TypeOK /\ [Next]_vars => TypeOK'
<1> SUFFICES ASSUME TypeOK, [Next]_vars, Flags' PROVE TypeOK'
  BY NextFlags DEF TypeOK
<1> USE DEF TypeOK, engine, window, bounds
<1>1. ASSUME NEW e \in Engines, Live(e) PROVE TypeOK'
  BY <1>1 DEF Live, Lock, Open, Truncate, Write, Drain, Close, Exit, Goto, Unlocked
<1>2. ASSUME NEW e \in Engines, Crash(e) PROVE TypeOK'
  BY <1>2 DEF Crash, Goto, Unlocked
<1>3. CASE ServiceStart
  <2>1. Spawn("service")
    BY <1>3 DEF ServiceStart
  <2> QED BY <1>3, <2>1, SpawnUnused DEF ServiceStart
<1>4. CASE StartByHand
  <2>1. Spawn("hand")
    BY <1>4 DEF StartByHand
  <2> QED BY <1>4, <2>1, SpawnUnused DEF StartByHand
<1>5. CASE Update
  BY <1>5 DEF Update
<1>6. CASE Launch
  BY <1>6 DEF Launch
<1>7. CASE SpawnEngine
  <2>1. Spawn("gui")
    BY <1>7 DEF SpawnEngine
  <2> QED BY <1>7, <2>1, SpawnUnused DEF SpawnEngine
<1>8. CASE Look \/ Leave \/ Await \/ GiveUp \/ Respawn
  BY <1>8 DEF Look, Leave, Await, GiveUp, Respawn, Reach
<1>9. CASE Poll
  BY <1>9 DEF Poll
<1>10. CASE Retire \/ Quit
  BY <1>10 DEF Retire, Quit, AskToStop, Answers
<1>11. CASE UNCHANGED vars
  BY <1>11 DEF vars
<1> QED BY <1>1, <1>2, <1>3, <1>4, <1>5, <1>6, <1>7, <1>8, <1>9, <1>10, <1>11 DEF Next, Gui

-----------------------------------------------------------------------------
\* What the steps of the GUI, which starts no engine by them, leave alone.
LEMMA OthersAside ==
    Update \/ Launch \/ (Gui /\ ~SpawnEngine) \/ Quit \/ UNCHANGED vars
        => UNCHANGED <<pc, lock, file>>
  BY DEF Update, Launch, Gui, Quit, Look, Retire, Leave, Await, GiveUp, Poll, Respawn,
         vars, engine

LEMMA NextHolderWorks == TypeOK /\ HolderWorks /\ [Next]_vars => HolderWorks'
<1> SUFFICES ASSUME TypeOK, HolderWorks, [Next]_vars PROVE HolderWorks'
  OBVIOUS
<1> USE DEF TypeOK, HolderWorks, Working
<1>1. ASSUME NEW e \in Engines, Live(e) PROVE HolderWorks'
  BY <1>1 DEF Live, Lock, Open, Truncate, Write, Drain, Close, Exit, Goto, Unlocked
<1>2. ASSUME NEW e \in Engines, Crash(e) PROVE HolderWorks'
  BY <1>2 DEF Crash, Goto, Unlocked
<1>3. CASE ServiceStart \/ StartByHand \/ SpawnEngine
  <2>1. PICK who : Spawn(who)
    BY <1>3 DEF ServiceStart, StartByHand, SpawnEngine
  <2> QED BY <2>1, SpawnUnused
<1>4. CASE UNCHANGED <<pc, lock, file>>
  BY <1>4
<1> QED BY <1>1, <1>2, <1>3, <1>4, OthersAside DEF Next

LEMMA NextFound == TypeOK /\ HolderWorks /\ Found /\ [Next]_vars => Found'
<1> SUFFICES ASSUME TypeOK, HolderWorks, Found, [Next]_vars PROVE Found'
  OBVIOUS
<1> USE DEF TypeOK, HolderWorks, Working, Found
<1>1. ASSUME NEW e \in Engines, Live(e) PROVE Found'
  BY <1>1 DEF Live, Lock, Open, Truncate, Write, Drain, Close, Exit, Goto, Unlocked
<1>2. ASSUME NEW e \in Engines, Crash(e) PROVE Found'
  BY <1>2 DEF Crash, Goto, Unlocked
<1>3. CASE ServiceStart \/ StartByHand \/ SpawnEngine
  <2>1. PICK who : Spawn(who)
    BY <1>3 DEF ServiceStart, StartByHand, SpawnEngine
  <2> QED BY <2>1, SpawnUnused
<1>4. CASE UNCHANGED <<pc, lock, file>>
  BY <1>4
<1> QED BY <1>1, <1>2, <1>3, <1>4, OthersAside DEF Next

-----------------------------------------------------------------------------
(* Theorems *)

\* IInv is invariant: what every other theorem here follows from.
THEOREM Invariance == Spec => []IInv
<1>1. Init => IInv
  BY InitTypeOK DEF Init, IInv, TypeOK, HolderWorks, Working, Found
<1>2. IInv /\ [Next]_vars => IInv'
  BY NextTypeOK, NextHolderWorks, NextFound DEF IInv
<1> QED BY <1>1, <1>2, PTL DEF Spec

\* Every variable keeps its type; failed polls stay within the limit.
THEOREM TypeCorrect == Spec => []TypeOK
<1>1. IInv => TypeOK
  BY DEF IInv
<1> QED BY <1>1, Invariance, PTL

\* One engine at a time is at work on the data directory, however many are
\* started, crash or leave late.
THEOREM OneAtATime == Spec => []OneEngine
<1>1. IInv => OneEngine
  BY DEF IInv, HolderWorks, OneEngine
<1> QED BY <1>1, Invariance, PTL

\* control.json names the engine that serves.
THEOREM ServingIsFound == Spec => []Found
<1>1. IInv => Found
  BY DEF IInv
<1> QED BY <1>1, Invariance, PTL
=============================================================================
