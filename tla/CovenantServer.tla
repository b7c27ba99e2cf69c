---------------------------- MODULE CovenantServer ----------------------------
(***************************************************************************)
(* The life of a daemon process: RunUntilShutdown of covenant/service, Start   *)
(* and Stop of the emulator with their sync.Once, WaitGroup and quit channel,  *)
(* and the select of the submission loop, for any number of goroutines that    *)
(* call RunUntilShutdown, or Start and later Stop (as the e2e tests do).       *)
(* A round of the loop is one abstract activity here; module CovenantEmulator  *)
(* has its steps.                                                             *)
(***************************************************************************)
EXTENDS Naturals, FiniteSets

CONSTANTS
    Servers,        \* goroutines that call RunUntilShutdown
    Users           \* goroutines that call Start and then Stop

ASSUME CallersAssumption ==
    /\ IsFiniteSet(Servers) /\ IsFiniteSet(Users)
    /\ Servers \cap Users = {}

Callers == Servers \cup Users

VARIABLES
    cpc,            \* where each caller stands
    started,        \* CovenantServer.started
    startOnce,      \* sync.Once of Start: "new", "running" or "done"
    stopOnce,       \* sync.Once of Stop
    wg,             \* counter of the WaitGroup
    quit,           \* is the quit channel closed?
    loop,           \* the goroutine that each caller's Start has spawned
    tick,           \* is a tick waiting in the ticker's channel (it holds one)?
    shutdown        \* is the interceptor's shutdown channel closed?

vars == <<cpc, started, startOnce, stopOnce, wg, quit, loop, tick, shutdown>>

\* "idle": not called; "start": entering Start; "adding": in Start, before the
\* goroutine is spawned; "active": Start has returned; "stop": entering Stop;
\* "waiting": in wg.Wait; "stopped": Stop has returned; "refused": second
\* RunUntilShutdown.
CallerPC == {"idle", "start", "adding", "active", "stop", "waiting", "stopped", "refused"}

LoopPC == {"none", "select", "round", "exited"}

Once == {"new", "running", "done"}

TypeOK ==
    /\ cpc \in [Callers -> CallerPC]
    /\ started \in Nat
    /\ startOnce \in Once /\ stopOnce \in Once
    /\ wg \in Nat
    /\ quit \in BOOLEAN
    /\ loop \in [Callers -> LoopPC]
    /\ tick \in BOOLEAN
    /\ shutdown \in BOOLEAN

Init ==
    /\ cpc = [c \in Callers |-> "idle"]
    /\ started = 0
    /\ startOnce = "new" /\ stopOnce = "new"
    /\ wg = 0
    /\ quit = FALSE
    /\ loop = [c \in Callers |-> "none"]
    /\ tick = FALSE
    /\ shutdown = FALSE

Goto(c, from, to) == cpc[c] = from /\ cpc' = [cpc EXCEPT ![c] = to]

-----------------------------------------------------------------------------
\* RunUntilShutdown: atomic.AddInt32 lets only the first call through.
RunUntilShutdown(c) ==
    /\ c \in Servers
    /\ started' = started + 1
    /\ Goto(c, "idle", IF started + 1 = 1 THEN "start" ELSE "refused")
    /\ UNCHANGED <<startOnce, stopOnce, wg, quit, loop, tick, shutdown>>

\* A user calls Start.
CallStart(c) ==
    /\ c \in Users
    /\ Goto(c, "idle", "start")
    /\ UNCHANGED <<started, startOnce, stopOnce, wg, quit, loop, tick, shutdown>>

\* Mutants: the counter is not incremented; Start is not guarded by startOnce.
StartFirstWithoutAdd(c) ==
    /\ startOnce = "new"
    /\ Goto(c, "start", "adding")
    /\ startOnce' = "running"
    /\ UNCHANGED <<started, stopOnce, wg, quit, loop, tick, shutdown>>

StartWithoutOnce(c) ==
    /\ Goto(c, "start", "adding")
    /\ startOnce' = "running"
    /\ wg' = wg + 1
    /\ UNCHANGED <<started, stopOnce, quit, loop, tick, shutdown>>

\* startOnce.Do of the first caller: wg.Add(1), then the goroutine.
StartFirst(c) ==
    /\ startOnce = "new"
    /\ Goto(c, "start", "adding")
    /\ startOnce' = "running"
    /\ wg' = wg + 1
    /\ UNCHANGED <<started, stopOnce, quit, loop, tick, shutdown>>

SpawnLoop(c) ==
    /\ Goto(c, "adding", "active")
    /\ startOnce' = "done"
    /\ loop' = [loop EXCEPT ![c] = "select"]
    /\ UNCHANGED <<started, stopOnce, wg, quit, tick, shutdown>>

\* startOnce.Do of any other caller waits for the first one.
StartAgain(c) ==
    /\ startOnce = "done"
    /\ Goto(c, "start", "active")
    /\ UNCHANGED <<started, startOnce, stopOnce, wg, quit, loop, tick, shutdown>>

\* RunUntilShutdown goes on to its deferred Stop on the shutdown signal; a user
\* calls Stop at will.
CallStop(c) ==
    /\ c \in Servers => shutdown
    /\ Goto(c, "active", "stop")
    /\ UNCHANGED <<started, startOnce, stopOnce, wg, quit, loop, tick, shutdown>>

\* Mutant: quit is not closed.
StopFirstWithoutClose(c) ==
    /\ stopOnce = "new"
    /\ Goto(c, "stop", "waiting")
    /\ stopOnce' = "running"
    /\ UNCHANGED <<started, startOnce, wg, quit, loop, tick, shutdown>>

\* Mutant: Stop does not wait for the loop.
WaitedForNothing(c) ==
    /\ Goto(c, "waiting", "stopped")
    /\ stopOnce' = "done"
    /\ UNCHANGED <<started, startOnce, wg, quit, loop, tick, shutdown>>

\* stopOnce.Do of the first caller: close(quit), then wg.Wait().
StopFirst(c) ==
    /\ stopOnce = "new"
    /\ Goto(c, "stop", "waiting")
    /\ stopOnce' = "running"
    /\ quit' = TRUE
    /\ UNCHANGED <<started, startOnce, wg, loop, tick, shutdown>>

Waited(c) ==
    /\ wg = 0
    /\ Goto(c, "waiting", "stopped")
    /\ stopOnce' = "done"
    /\ UNCHANGED <<started, startOnce, wg, quit, loop, tick, shutdown>>

\* stopOnce.Do of any other caller waits for the first one.
StopAgain(c) ==
    /\ stopOnce = "done"
    /\ Goto(c, "stop", "stopped")
    /\ UNCHANGED <<started, startOnce, stopOnce, wg, quit, loop, tick, shutdown>>

-----------------------------------------------------------------------------
\* The ticker drops a tick that finds the previous one unread.
TickerFires ==
    /\ ~tick
    /\ tick' = TRUE
    /\ UNCHANGED <<cpc, started, startOnce, stopOnce, wg, quit, loop, shutdown>>

\* select chooses the tick; it may do so although quit is closed too.
LoopTick(c) ==
    /\ loop[c] = "select" /\ tick
    /\ loop' = [loop EXCEPT ![c] = "round"]
    /\ tick' = FALSE
    /\ UNCHANGED <<cpc, started, startOnce, stopOnce, wg, quit, shutdown>>

RoundEnds(c) ==
    /\ loop[c] = "round"
    /\ loop' = [loop EXCEPT ![c] = "select"]
    /\ UNCHANGED <<cpc, started, startOnce, stopOnce, wg, quit, tick, shutdown>>

\* Mutant: the loop polls quit in the middle of a round, too.
LoopQuitMidRound(c) ==
    /\ loop[c] \in {"select", "round"} /\ quit
    /\ loop' = [loop EXCEPT ![c] = "exited"]
    /\ wg' = wg - 1
    /\ UNCHANGED <<cpc, started, startOnce, stopOnce, quit, tick, shutdown>>

\* select chooses quit; the deferred wg.Done runs as the loop returns.
LoopQuit(c) ==
    /\ loop[c] = "select" /\ quit
    /\ loop' = [loop EXCEPT ![c] = "exited"]
    /\ wg' = wg - 1
    /\ UNCHANGED <<cpc, started, startOnce, stopOnce, quit, tick, shutdown>>

\* The interrupt handler closes the shutdown channel.
Shutdown ==
    /\ ~shutdown
    /\ shutdown' = TRUE
    /\ UNCHANGED <<cpc, started, startOnce, stopOnce, wg, quit, loop, tick>>

-----------------------------------------------------------------------------
CallerStep(c) ==
    \/ RunUntilShutdown(c) \/ CallStart(c)
    \/ StartFirst(c) \/ SpawnLoop(c) \/ StartAgain(c)
    \/ CallStop(c) \/ StopFirst(c) \/ Waited(c) \/ StopAgain(c)

LoopStep(c) == LoopTick(c) \/ RoundEnds(c) \/ LoopQuit(c)

Next ==
    \/ \E c \in Callers : CallerStep(c) \/ LoopStep(c)
    \/ TickerFires
    \/ Shutdown

Spec == Init /\ [][Next]_vars

(***************************************************************************)
(* Fairness.  Goroutines that can run do, the ticker fires, a round returns   *)
(* (its calls have timeouts and bounded retries), and select, which chooses    *)
(* at random between ready cases, does not pass over quit for ever.  No         *)
(* fairness is assumed of the calls themselves or of the signal.               *)
(***************************************************************************)
Fairness ==
    /\ WF_vars(TickerFires)
    /\ \A c \in Callers :
        /\ WF_vars(StartFirst(c) \/ SpawnLoop(c) \/ StartAgain(c))
        /\ WF_vars(StopFirst(c)) /\ WF_vars(Waited(c)) /\ WF_vars(StopAgain(c))
        /\ WF_vars(RoundEnds(c))
        /\ SF_vars(LoopQuit(c))
        /\ c \in Servers => WF_vars(CallStop(c))

FairSpec == Spec /\ Fairness

-----------------------------------------------------------------------------
(* At most one submission loop runs, however many goroutines start the         *)
(* emulator or run the server: two loops would sign every delegation twice     *)
(* and share ce.params without a lock.                                        *)
OneLoop ==
    \A c, d \in Callers : loop[c] # "none" /\ loop[d] # "none" => c = d

(* Once a Stop (or a RunUntilShutdown that was not refused) has returned, the  *)
(* loop has exited and will never take a step again, although rounds may        *)
(* still begin after quit is closed.                                          *)
QuietAfterStop ==
    (\E c \in Callers : cpc[c] = "stopped") =>
        \A c \in Callers : loop[c] \in {"none", "exited"} /\ cpc[c] # "adding"

(* Nobody waits in vain: who is held up in startOnce.Do or stopOnce.Do is held   *)
(* up by a goroutine inside it, and who is in wg.Wait with a count left waits    *)
(* for a running loop that has been told to quit.                              *)
NoVainWait ==
    \A c \in Callers :
        /\ cpc[c] = "start" /\ startOnce = "running" => \E d \in Callers : cpc[d] = "adding"
        /\ cpc[c] = "stop" /\ stopOnce = "running" => \E d \in Callers : cpc[d] = "waiting"
        /\ cpc[c] = "waiting" /\ wg # 0
             => quit /\ \E d \in Callers : loop[d] \in {"select", "round"}

(* After the shutdown signal every RunUntilShutdown that was called returns,   *)
(* also when ticks keep coming and other goroutines stop the emulator too.     *)
ShutdownReturns ==
    \A c \in Servers :
        (shutdown /\ cpc[c] # "idle") ~> (cpc[c] \in {"stopped", "refused"})

-----------------------------------------------------------------------------
\* The refinement mapping to Lifecycle.  A loop that is about to be spawned is
\* still "new"; a refused RunUntilShutdown has stopped nothing.
Phase ==
    IF \A c \in Callers : loop[c] = "none" THEN "new"
    ELSE IF \E c \in Callers : loop[c] \in {"select", "round"} THEN "running"
    ELSE "ended"

Abstract == INSTANCE Lifecycle WITH
    phase    <- Phase,
    working  <- (\E c \in Callers : loop[c] = "round"),
    closing  <- quit,
    returned <- {c \in Callers : cpc[c] = "stopped"}

(* Whatever goroutines start, run and stop the emulator, in any order, they see *)
(* the simple life of Lifecycle: one loop, ended between rounds and after quit   *)
(* is closed, never started again, and no Stop returns before it has ended       *)
(* (Start, Stop and the select of covenantSigSubmissionLoop).                    *)
ImplementsLifecycle == Abstract!Spec

-----------------------------------------------------------------------------
(* The inductive invariant behind the safety properties and the refinement.  *)

\* The caller is spawning the loop, or its loop is running.
Busy(c) == cpc[c] = "adding" \/ loop[c] \in {"select", "round"}

(* The loop is spawned once and Start returns only after that, the WaitGroup   *)
(* counts it from before it is spawned until it has ended, and Stop is done    *)
(* only when it counts none.                                                  *)
Inv ==
    /\ TypeOK
    /\ OneLoop
    /\ \A c \in Callers :
        /\ cpc[c] = "adding" => startOnce = "running"
        /\ cpc[c] \in {"active", "stop", "waiting", "stopped"} => startOnce = "done"
        /\ loop[c] # "none" => cpc[c] \in {"active", "stop", "waiting", "stopped"}
        /\ cpc[c] = "waiting" => stopOnce = "running"
        /\ cpc[c] = "stopped" => stopOnce = "done"
    /\ \A c, d \in Callers : cpc[c] = cpc[d] /\ cpc[c] \in {"adding", "waiting"} => c = d
    /\ startOnce = "running" => \E c \in Callers : cpc[c] = "adding"
    /\ startOnce = "done" => \E c \in Callers : loop[c] # "none"
    /\ stopOnce = "running" => \E c \in Callers : cpc[c] = "waiting"
    /\ stopOnce # "new" => quit
    /\ wg = IF \E c \in Callers : Busy(c) THEN 1 ELSE 0
    /\ stopOnce = "done" => startOnce = "done" /\ wg = 0

=============================================================================
