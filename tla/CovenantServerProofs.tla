------------------------- MODULE CovenantServerProofs -------------------------
(* Proofs of the safety properties of CovenantServer, for any number of        *)
(* goroutines that start, run and stop the emulator.                          *)
EXTENDS CovenantServer, TLAPS

\* The backends that a leaf without one is tried with, and their time in seconds.
USE SMTT(20), ZenonT(20)

(* Nothing runs before the first call.                                         *)
LEMMA InitInv == Init => Inv
<1> SUFFICES ASSUME Init PROVE Inv
  OBVIOUS
<1>1. TypeOK
  BY Zenon DEF Init, TypeOK, CallerPC, LoopPC, Once
<1>2. \A c \in Callers : cpc[c] = "idle" /\ loop[c] = "none"
  BY DEF Init
<1> QED
  BY <1>1, <1>2 DEF Init, Inv, OneLoop, Busy

(* A step of a caller keeps the invariant: startOnce lets one caller spawn the  *)
(* loop, and wg.Wait returns only when the loop is gone.                       *)
LEMMA CallerInv ==
    ASSUME Inv, NEW c \in Callers, CallerStep(c)
    PROVE  Inv'
<1> USE DEF Inv, TypeOK, CallerPC, LoopPC, Once, OneLoop, Busy, Goto
<1>1. CASE RunUntilShutdown(c)
  BY <1>1 DEF RunUntilShutdown
<1>2. CASE CallStart(c)
  BY <1>2 DEF CallStart
<1>3. CASE StartFirst(c)
  BY <1>3 DEF StartFirst
<1>4. CASE SpawnLoop(c)
  BY <1>4 DEF SpawnLoop
<1>5. CASE StartAgain(c)
  BY <1>5 DEF StartAgain
<1>6. CASE CallStop(c)
  BY <1>6 DEF CallStop
<1>7. CASE StopFirst(c)
  BY <1>7 DEF StopFirst
<1>8. CASE Waited(c)
  BY <1>8 DEF Waited
<1>9. CASE StopAgain(c)
  BY <1>9 DEF StopAgain
<1> QED
  BY <1>1, <1>2, <1>3, <1>4, <1>5, <1>6, <1>7, <1>8, <1>9 DEF CallerStep

(* A step of the loop keeps it: there is one loop, so the counter drops to 0    *)
(* exactly when it ends.                                                       *)
LEMMA LoopInv ==
    ASSUME Inv, NEW c \in Callers, LoopStep(c)
    PROVE  Inv'
<1> USE DEF Inv, TypeOK, LoopPC, OneLoop, Busy
<1>1. CASE LoopTick(c)
  BY <1>1, ZenonT(30) DEF LoopTick
<1>2. CASE RoundEnds(c)
  BY <1>2 DEF RoundEnds
<1>3. CASE LoopQuit(c)
  BY <1>3 DEF LoopQuit
<1> QED
  BY <1>1, <1>2, <1>3 DEF LoopStep

(* Every state the daemon reaches satisfies the inductive invariant.           *)
THEOREM Invariance == Spec => []Inv
<1>1. Inv /\ [Next]_vars => Inv'
  <2> SUFFICES ASSUME Inv, [Next]_vars PROVE Inv'
    OBVIOUS
  <2>1. CASE \E c \in Callers : CallerStep(c) \/ LoopStep(c)
    BY <2>1, CallerInv, LoopInv
  <2>2. CASE TickerFires \/ Shutdown
    <3>1. UNCHANGED <<cpc, started, startOnce, stopOnce, wg, quit, loop>>
      BY <2>2 DEF TickerFires, Shutdown
    <3>2. TypeOK'
      BY <2>2, <3>1, Zenon DEF TickerFires, Shutdown, Inv, TypeOK
    <3>3. OneLoop' /\ \A c \in Callers : Busy(c)' <=> Busy(c)
      BY <3>1 DEF Inv, OneLoop, Busy
    <3> QED
      BY <3>1, <3>2, <3>3 DEF Inv
  <2>3. CASE UNCHANGED vars
    BY <2>3 DEF vars, Inv, TypeOK, OneLoop, Busy
  <2> QED
    BY <2>1, <2>2, <2>3 DEF Next
<1> QED
  BY <1>1, InitInv, PTL DEF Spec

(* At most one submission loop is ever spawned.                                *)
THEOREM OneLoopSafe == Spec => []OneLoop
<1>1. Inv => OneLoop
  BY DEF Inv
<1> QED
  BY <1>1, Invariance, PTL

(* Once a Stop has returned no loop runs and none is about to be spawned.       *)
THEOREM QuietSafe == Spec => []QuietAfterStop
<1>1. Inv => QuietAfterStop
  BY DEF Inv, QuietAfterStop, TypeOK, LoopPC, Busy
<1> QED
  BY <1>1, Invariance, PTL

(* No caller is held up in a sync.Once that nobody is inside, or in wg.Wait for  *)
(* a loop that is not running or has not been told to quit.                    *)
THEOREM NoVainWaitSafe == Spec => []NoVainWait
<1>1. Inv => NoVainWait
  BY DEF Inv, NoVainWait, Busy
<1> QED
  BY <1>1, Invariance, PTL

-----------------------------------------------------------------------------
(* Steps that touch neither a loop, nor quit, nor a Stop that returns are       *)
(* stutters of Lifecycle.                                                      *)
LEMMA StutterRefines ==
    ASSUME UNCHANGED <<loop, quit>>,
           \A c \in Callers : (cpc'[c] = "stopped") = (cpc[c] = "stopped")
    PROVE  UNCHANGED Abstract!lifeVars
<1>1. UNCHANGED Phase /\ UNCHANGED (\E c \in Callers : loop[c] = "round")
  BY DEF Phase
<1>2. UNCHANGED {c \in Callers : cpc[c] = "stopped"}
  OBVIOUS
<1> QED
  BY <1>1, <1>2 DEF Abstract!lifeVars

(* A step of a caller is an abstract step or a stutter.                        *)
LEMMA CallerRefines ==
    ASSUME Inv, NEW c \in Callers, CallerStep(c)
    PROVE  Abstract!Next \/ UNCHANGED Abstract!lifeVars
<1> DEFINE working == \E e \in Callers : loop[e] = "round"
           returned == {e \in Callers : cpc[e] = "stopped"}
<1>1. cpc \in [Callers -> CallerPC] /\ loop \in [Callers -> LoopPC]
  BY DEF Inv, TypeOK
<1>2. CASE \/ RunUntilShutdown(c) \/ CallStart(c) \/ StartFirst(c) \/ StartAgain(c)
           \/ CallStop(c)
  <2>1. UNCHANGED <<loop, quit>>
    BY <1>2 DEF RunUntilShutdown, CallStart, StartFirst, StartAgain, CallStop
  <2>2. \A e \in Callers : (cpc'[e] = "stopped") = (cpc[e] = "stopped")
    BY <1>1, <1>2 DEF RunUntilShutdown, CallStart, StartFirst, StartAgain, CallStop, Goto
  <2> QED
    BY <2>1, <2>2, StutterRefines
<1>3. CASE SpawnLoop(c)
  <2>1. \A e \in Callers : loop[e] = "none"
    BY <1>3 DEF SpawnLoop, Goto, Inv
  <2>2. \A e \in Callers : loop'[e] = IF e = c THEN "select" ELSE "none"
    BY <1>1, <1>3, <2>1 DEF SpawnLoop
  <2>3. Phase = "new" /\ Phase' = "running"
    BY <2>1, <2>2 DEF Phase
  <2>4. working' = working /\ returned' = returned
    BY <1>1, <1>3, <2>1, <2>2 DEF SpawnLoop, Goto
  <2> QED
    BY <1>3, <2>3, <2>4 DEF SpawnLoop, Abstract!Begin, Abstract!Next
<1>4. CASE StopFirst(c)
  <2>1. UNCHANGED loop /\ returned' = returned
    BY <1>1, <1>4 DEF StopFirst, Goto
  <2>2. Phase' = Phase /\ working' = working
    BY <2>1 DEF Phase
  <2>3. startOnce = "done" /\ stopOnce = "new"
    BY <1>4 DEF StopFirst, Goto, Inv
  <2>4. CASE quit
    BY <1>4, <2>1, <2>2, <2>4 DEF StopFirst, Abstract!lifeVars
  <2>5. CASE ~quit
    <3>1. Phase # "new"
      BY <2>3 DEF Inv, Phase
    <3> QED
      BY <1>4, <2>1, <2>2, <2>5, <3>1 DEF StopFirst, Abstract!Close, Abstract!Next
  <2> QED
    BY <2>4, <2>5
<1>5. CASE Waited(c) \/ StopAgain(c)
  <2>1. UNCHANGED <<loop, quit>> /\ cpc' = [cpc EXCEPT ![c] = "stopped"]
    BY <1>5 DEF Waited, StopAgain, Goto
  <2>2. Phase' = Phase /\ working' = working /\ returned' = returned \cup {c}
    BY <1>1, <2>1 DEF Phase
  <2>3. startOnce = "done" /\ wg = 0
    BY <1>5 DEF Waited, StopAgain, Goto, Inv
  <2>4. Phase = "ended"
    BY <2>3 DEF Inv, Busy, Phase
  <2> QED
    BY <2>1, <2>2, <2>4 DEF Abstract!Return, Abstract!Next
<1> QED
  BY <1>2, <1>3, <1>4, <1>5 DEF CallerStep

(* A step of the loop is an abstract step: the other callers have no loop.      *)
LEMMA LoopRefines ==
    ASSUME Inv, NEW c \in Callers, LoopStep(c)
    PROVE  Abstract!Next
<1> DEFINE working == \E e \in Callers : loop[e] = "round"
           returned == {e \in Callers : cpc[e] = "stopped"}
<1>1. loop \in [Callers -> LoopPC] /\ loop[c] \in {"select", "round"}
  BY DEF Inv, TypeOK, LoopStep, LoopTick, RoundEnds, LoopQuit
<1>2. \A e \in Callers : e # c => loop[e] = "none"
  BY <1>1 DEF Inv, OneLoop
<1>3. Phase = "running" /\ working = (loop[c] = "round")
  BY <1>1, <1>2, Zenon DEF Phase
<1>4. UNCHANGED cpc
  BY DEF LoopStep, LoopTick, RoundEnds, LoopQuit
<1>5. returned' = returned
  BY <1>4
<1>6. CASE LoopTick(c)
  <2>1. Phase' = "running" /\ working'
    BY <1>1, <1>2, <1>6 DEF LoopTick, Phase
  <2> QED
    BY <1>3, <1>5, <1>6, <2>1, Zenon DEF LoopTick, Abstract!BeginRound, Abstract!Next
<1>7. CASE RoundEnds(c)
  <2>1. Phase' = "running" /\ ~working'
    BY <1>1, <1>2, <1>7 DEF RoundEnds, Phase
  <2> QED
    BY <1>3, <1>5, <1>7, <2>1 DEF RoundEnds, Abstract!EndRound, Abstract!Next
<1>8. CASE LoopQuit(c)
  <2>1. Phase' = "ended" /\ ~working'
    BY <1>1, <1>2, <1>8 DEF LoopQuit, Phase
  <2> QED
    BY <1>3, <1>5, <1>8, <2>1 DEF LoopQuit, Abstract!End, Abstract!Next
<1> QED
  BY <1>6, <1>7, <1>8 DEF LoopStep

(* The goroutines, sync.Once, WaitGroup and quit channel of Start, Stop and the  *)
(* submission loop implement Lifecycle, for any number of callers.             *)
THEOREM Implementation == Spec => ImplementsLifecycle
<1>1. Init => Abstract!Init
  BY DEF Init, Phase, Abstract!Init
<1>2. Inv /\ [Next]_vars => [Abstract!Next]_(Abstract!lifeVars)
  <2> SUFFICES ASSUME Inv, [Next]_vars
               PROVE  Abstract!Next \/ UNCHANGED Abstract!lifeVars
    OBVIOUS
  <2>1. CASE \E c \in Callers : CallerStep(c) \/ LoopStep(c)
    BY <2>1, CallerRefines, LoopRefines
  <2>2. CASE TickerFires \/ Shutdown \/ UNCHANGED vars
    BY <2>2, StutterRefines DEF TickerFires, Shutdown, vars
  <2> QED
    BY <2>1, <2>2 DEF Next
<1> QED
  BY <1>1, <1>2, Invariance, PTL DEF Spec, ImplementsLifecycle, Abstract!Spec

=============================================================================
