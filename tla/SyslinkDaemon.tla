--------------------------- MODULE SyslinkDaemon ----------------------------
(***************************************************************************)
(* The SysLink daemon (SyslinkDaemon.c): it boots the two M3 cores, waits  *)
(* for one of them to crash or for a KILL, takes everything down and, after *)
(* a crash, starts over.  Each core has an event handler thread that waits *)
(* in ProcMgr_waitForMultipleEvents() (ProcMgr.c); the main thread waits   *)
(* on semDaemonWait, then joins the handlers, which it interrupts by a     *)
(* signal when they have no event to report.                               *)
(*                                                                         *)
(* A step is what a thread does between two points where another can tell: *)
(* one call of ipcSetup() or ipcCleanup(), one access to the flags and the *)
(* semaphore.  The reference counts of the MMU and DEH drivers change      *)
(* under a semaphore of their own, in one step.                            *)
(***************************************************************************)
EXTENDS Naturals, Sequences, FiniteSets

CONSTANT MaxKills    \* bound: how many KILL commands come

ASSUME DaemonAssumption == MaxKills \in Nat

Cores == {"sys", "app"}

VARIABLES
    pc,            \* main: <<label, argument>>
    appM3Client,   \* an AppM3 image was given
    held,          \* what ipcSetup() acquired and nobody has released
    attachFailed,  \* the status ipcSetup() tests before it opens AppM3
    core,          \* external: the cores
    mmu, deh,      \* reference counts: DucatiMMU_refCount, ProcDEH_xxxRefCount
    restart, isEvent, semDaemonWait,
    thrd,          \* xxxM3EvtHandlerThrd is set
    handler,       \* where each handler thread is
    outcome,       \* what its wait returned
    raised,        \* external: an eventfd of the handler is readable
    deaf,          \* its SIGTERM came before it was in select()
    exiting,       \* main exits after this ipcCleanup()
    kills, killed  \* KILL commands so far; one came in this round

setup == <<held, attachFailed, core, mmu, deh>>
flags == <<restart, isEvent, semDaemonWait>>
threads == <<thrd, handler, outcome, raised, deaf>>
vars == <<pc, appM3Client, setup, flags, threads, exiting, kills, killed>>

Label == pc[1]
Stopped == Label \in {"ended", "failed"}

(* A handler is registered for its core's events from "armed" to "leave".  *)
Points == {"none", "open", "register", "armed", "select", "leave", "flag", "restart",
           "post", "exited"}

Init ==
    /\ pc = <<"round">>
    /\ appM3Client \in BOOLEAN
    /\ held = {} /\ attachFailed = FALSE
    /\ core = [c \in Cores |-> "off"]
    /\ mmu = 0 /\ deh = [c \in Cores |-> 0]
    /\ restart = TRUE /\ semDaemonWait = 0
    /\ isEvent = [c \in Cores |-> FALSE]
    /\ thrd = [c \in Cores |-> FALSE]
    /\ handler = [c \in Cores |-> "none"]
    /\ outcome = [c \in Cores |-> "none"]
    /\ raised = [c \in Cores |-> FALSE]
    /\ deaf = [c \in Cores |-> FALSE]
    /\ exiting = FALSE
    /\ kills = 0 /\ killed = FALSE

-----------------------------------------------------------------------------
(***************************************************************************)
(* main(): a round starts with fresh flags and a fresh semaphore.          *)
(***************************************************************************)
StartRound ==
    /\ pc = <<"round">>
    /\ restart' = FALSE /\ isEvent' = [c \in Cores |-> FALSE] /\ semDaemonWait' = 0
    /\ killed' = FALSE /\ attachFailed' = FALSE
    /\ pc' = <<"setup", 1>>
    /\ UNCHANGED <<appM3Client, held, core, mmu, deh, threads, exiting, kills>>

(***************************************************************************)
(* ipcSetup(): the calls in their order, with the core each one is for.    *)
(***************************************************************************)
Call(call, c) == [call |-> call, core |-> c]

SetupCalls ==
    << Call("Ipc_setup", "sys"),
       Call("open", "sys"), Call("attach", "sys"), Call("open", "app"), Call("attach", "app"),
       Call("load", "sys"), Call("start", "sys"), Call("load", "app"), Call("start", "app"),
       Call("DMMPool", "sys"),
       Call("heapBufPtr", "sys"), Call("heapHandle", "sys"), Call("registerHeap", "sys"),
       Call("heapBufPtr1", "sys"), Call("heapHandle1", "sys"), Call("registerHeap1", "sys") >>

(* Calls for AppM3 are made if it has an image, and ProcMgr_open() of it   *)
(* only if SysM3 was attached.                                             *)
Skipped(r) ==
    /\ r.core = "app"
    /\ appM3Client => r.call \in {"open", "attach"} /\ attachFailed

(* Calls on a ProcMgr handle that is NULL return PROCMGR_E_HANDLE.         *)
HasHandle(r) ==
    r.call \in {"attach", "load", "start"} => Call("open", r.core) \in held

(* ProcMgr_open() and ProcMgr_close() count one reference to each driver.  *)
CountOpen(c) == mmu' = mmu + 1 /\ deh' = [deh EXCEPT ![c] = @ + 1]
CountClose(c) == mmu' = mmu - 1 /\ deh' = [deh EXCEPT ![c] = @ - 1]

AtSetup(i) == pc = <<"setup", i>>

Proceed(i) == pc' = IF i = Len(SetupCalls) THEN <<"spawn", "sys">> ELSE <<"setup", i + 1>>

SkipCall(i) ==
    /\ AtSetup(i) /\ Skipped(SetupCalls[i])
    /\ Proceed(i)
    /\ UNCHANGED setup

SetupCall(i) ==
    LET r == SetupCalls[i] IN
    /\ AtSetup(i) /\ ~ Skipped(r) /\ HasHandle(r)
    /\ held' = held \cup {r}
    /\ IF r.call = "open" THEN CountOpen(r.core) ELSE UNCHANGED <<mmu, deh>>
    /\ core' = IF r.call = "start" THEN [core EXCEPT ![r.core] = "running"] ELSE core
    /\ Proceed(i)
    /\ UNCHANGED attachFailed

(* A failed ProcMgr_attach() is only reported; what follows overwrites its *)
(* status.                                                                 *)
AttachFails(i) ==
    /\ AtSetup(i) /\ SetupCalls[i].call = "attach" /\ ~ Skipped(SetupCalls[i])
    /\ attachFailed' = TRUE
    /\ Proceed(i)
    /\ UNCHANGED <<held, core, mmu, deh>>

(* ProcMgr_open() returns the status of ProcDEH_open(): with no object     *)
(* from the kernel it leaves a NULL handle and succeeds.                   *)
OpenFindsNoObject(i) ==
    /\ AtSetup(i) /\ SetupCalls[i].call = "open" /\ ~ Skipped(SetupCalls[i])
    /\ CountOpen(SetupCalls[i].core)
    /\ Proceed(i)
    /\ UNCHANGED <<held, attachFailed, core>>

(* The labels at the end of ipcSetup(): what is undone after a failure.    *)
(* main() then returns.  ProcMgr_start() may fail when the core runs.      *)
Unwound(r) ==
    {Call("Ipc_setup", "sys")}
    \cup (IF r.call \in {"Ipc_setup", "open"} THEN {} ELSE {Call("open", "sys")})
    \cup (IF r.call \in {"Ipc_setup", "open"} \/ r \in {Call("load", "sys"), Call("start", "sys")}
          THEN {} ELSE {Call("start", "sys")})

SetupFails(i) ==
    LET r == SetupCalls[i]
        undone == Unwound(r) \cap held
        stopped == IF Call("start", "sys") \in undone THEN [core EXCEPT !["sys"] = "off"] ELSE core
    IN
    /\ AtSetup(i) /\ ~ Skipped(r) /\ r.call # "attach"
    /\ held' = held \ undone
    /\ IF r.call = "open" THEN CountOpen(r.core)
       ELSE IF Call("open", "sys") \in undone THEN CountClose("sys")
       ELSE UNCHANGED <<mmu, deh>>
    /\ \/ core' = stopped
       \/ r.call = "start" /\ HasHandle(r) /\ core' = [stopped EXCEPT ![r.core] = "running"]
    /\ pc' = <<"failed">>
    /\ UNCHANGED attachFailed

IpcSetup ==
    /\ \E i \in DOMAIN SetupCalls :
          SkipCall(i) \/ SetupCall(i) \/ AttachFails(i) \/ OpenFindsNoObject(i) \/ SetupFails(i)
    /\ UNCHANGED <<appM3Client, flags, threads, exiting, kills, killed>>

-----------------------------------------------------------------------------
(***************************************************************************)
(* main(): one handler thread per image.                                   *)
(***************************************************************************)
Spawn(c) ==
    /\ pc = <<"spawn", c>>
    /\ c = "app" => appM3Client
    /\ thrd' = [thrd EXCEPT ![c] = TRUE]
    /\ handler' = [handler EXCEPT ![c] = "open"]
    /\ outcome' = [outcome EXCEPT ![c] = "none"]
    /\ pc' = IF c = "sys" THEN <<"spawn", "app">> ELSE <<"wait">>
    /\ UNCHANGED <<appM3Client, setup, flags, raised, deaf, exiting, kills, killed>>

NoAppHandler ==
    /\ pc = <<"spawn", "app">> /\ ~ appM3Client
    /\ pc' = <<"wait">>
    /\ UNCHANGED <<appM3Client, setup, flags, threads, exiting, kills, killed>>

(* pthread_kill(SIGTERM).  A thread in select() returns from it, with its  *)
(* event if there is one, or else with EINTR; before select() the signal   *)
(* is gone when the handler function returns; later it does not matter.    *)
Interrupt(c) ==
    /\ handler' = IF handler[c] = "select" /\ ~ raised[c]
                  THEN [handler EXCEPT ![c] = "leave"] ELSE handler
    /\ outcome' = IF handler[c] = "select" /\ ~ raised[c]
                  THEN [outcome EXCEPT ![c] = "EINTR"] ELSE outcome
    /\ deaf' = [deaf EXCEPT ![c] = handler[c] \in {"open", "register", "armed"}]

(* pthread_create() failed: clean up without a join, and exit.  The SysM3  *)
(* thread's handle is gone when the signal reaches it, so that it may take *)
(* it for a KILL and post.                                                 *)
SpawnFails(c) ==
    /\ pc = <<"spawn", c>>
    /\ c = "app" => appM3Client
    /\ exiting' = TRUE
    /\ thrd' = [thrd EXCEPT !["sys"] = FALSE]
    /\ IF c = "app"
       THEN /\ Interrupt("sys")
            /\ semDaemonWait' \in {semDaemonWait, semDaemonWait + 1}
       ELSE UNCHANGED <<handler, outcome, deaf, semDaemonWait>>
    /\ pc' = <<"cleanup", 1>>
    /\ UNCHANGED <<appM3Client, setup, restart, isEvent, raised, kills, killed>>

(* sem_wait(), then the handlers one after the other.                      *)
WakeUp ==
    /\ pc = <<"wait">> /\ semDaemonWait > 0
    /\ semDaemonWait' = semDaemonWait - 1
    /\ pc' = <<"reap", "sys">>
    /\ UNCHANGED <<appM3Client, setup, restart, isEvent, threads, exiting, kills, killed>>

Reaped(c) == pc' = IF c = "sys" THEN <<"reap", "app">> ELSE <<"cleanup", 1>>

(* Mutant: a handler without an event is joined like the others. *)
ReapJoinsOnly(c) ==
    /\ pc = <<"reap", c>>
    /\ IF ~ thrd[c] THEN Reaped(c) ELSE pc' = <<"join", c>>
    /\ UNCHANGED <<appM3Client, setup, flags, threads, exiting, kills, killed>>

(* A handler that reports an event is joined, another one interrupted      *)
(* first: the flag may be set between the test and the signal.             *)
Reap(c) ==
    /\ pc = <<"reap", c>>
    /\ IF ~ thrd[c] THEN Reaped(c)
       ELSE pc' = IF isEvent[c] THEN <<"join", c>> ELSE <<"kill", c>>
    /\ UNCHANGED <<appM3Client, setup, flags, threads, exiting, kills, killed>>

(* Mutant: the interrupted thread is not waited for. *)
KillHandlerNoJoin(c) ==
    /\ pc = <<"kill", c>>
    /\ Interrupt(c)
    /\ thrd' = [thrd EXCEPT ![c] = FALSE]
    /\ Reaped(c)
    /\ UNCHANGED <<appM3Client, setup, flags, raised, exiting, kills, killed>>

(* pthread_kill() fails for a thread that is gone; then there is no join.  *)
KillHandler(c) ==
    /\ pc = <<"kill", c>>
    /\ IF handler[c] = "exited"
       THEN thrd' = [thrd EXCEPT ![c] = FALSE] /\ Reaped(c) /\ UNCHANGED <<handler, outcome, deaf>>
       ELSE Interrupt(c) /\ pc' = <<"join", c>> /\ UNCHANGED thrd
    /\ UNCHANGED <<appM3Client, setup, flags, raised, exiting, kills, killed>>

Join(c) ==
    /\ pc = <<"join", c>> /\ handler[c] = "exited"
    /\ thrd' = [thrd EXCEPT ![c] = FALSE]
    /\ deaf' = [deaf EXCEPT ![c] = FALSE]
    /\ Reaped(c)
    /\ UNCHANGED <<appM3Client, setup, flags, handler, outcome, raised, exiting, kills, killed>>

(***************************************************************************)
(* ipcCleanup(): its calls in their order, each undoing one of ipcSetup(); *)
(* an error is only reported.  Then sem_destroy(), and the loop's test.    *)
(***************************************************************************)
(* Mutant: the AppM3 object stays open. *)
CleanupCallsKeepApp ==
    << Call("registerHeap1", "sys"), Call("heapHandle1", "sys"), Call("heapBufPtr1", "sys"),
       Call("registerHeap", "sys"), Call("heapHandle", "sys"), Call("heapBufPtr", "sys"),
       Call("DMMPool", "sys"),
       Call("start", "app"), Call("load", "app"), Call("start", "sys"), Call("load", "sys"),
       Call("attach", "app"), Call("attach", "sys"), Call("open", "sys"),
       Call("Ipc_setup", "sys") >>

CleanupCalls ==
    << Call("registerHeap1", "sys"), Call("heapHandle1", "sys"), Call("heapBufPtr1", "sys"),
       Call("registerHeap", "sys"), Call("heapHandle", "sys"), Call("heapBufPtr", "sys"),
       Call("DMMPool", "sys"),
       Call("start", "app"), Call("load", "app"), Call("start", "sys"), Call("load", "sys"),
       Call("attach", "app"), Call("open", "app"), Call("attach", "sys"), Call("open", "sys"),
       Call("Ipc_setup", "sys") >>

Undo(r) ==
    IF r \in held
    THEN /\ held' = held \ {r}
         /\ IF r.call = "open" THEN CountClose(r.core) ELSE UNCHANGED <<mmu, deh>>
         /\ core' = IF r.call = "start" THEN [core EXCEPT ![r.core] = "off"] ELSE core
         /\ UNCHANGED attachFailed
    ELSE UNCHANGED setup

IpcCleanup ==
    \E i \in DOMAIN CleanupCalls :
        /\ pc = <<"cleanup", i>>
        /\ Undo(CleanupCalls[i])
        /\ pc' = IF i < Len(CleanupCalls) THEN <<"cleanup", i + 1>>
                 ELSE IF restart /\ ~ exiting THEN <<"round">> ELSE <<"ended">>
        /\ UNCHANGED <<appM3Client, flags, threads, exiting, kills, killed>>

-----------------------------------------------------------------------------
(***************************************************************************)
(* A handler thread: ProcMgr_waitForMultipleEvents() opens the drivers     *)
(* (SysM3's waits for MMU faults too), registers its events and waits; it  *)
(* unregisters and closes on every way out.                                *)
(***************************************************************************)
Goto(c, p) == handler' = [handler EXCEPT ![c] = p]

Main == <<pc, appM3Client, held, attachFailed, core, thrd, exiting, kills, killed>>

OpenDrivers(c) ==
    /\ handler[c] = "open"
    /\ mmu' = IF c = "sys" THEN mmu + 1 ELSE mmu
    /\ deh' = [deh EXCEPT ![c] = @ + 1]
    /\ Goto(c, "register")
    /\ UNCHANGED <<Main, flags, outcome, raised, deaf>>

RegisterEvents(c) ==
    /\ handler[c] = "register"
    /\ \/ Goto(c, "armed") /\ UNCHANGED outcome
       \/ Goto(c, "leave") /\ outcome' = [outcome EXCEPT ![c] = "failed"]
    /\ UNCHANGED <<Main, mmu, deh, flags, raised, deaf>>

Select(c) ==
    /\ handler[c] = "armed"
    /\ Goto(c, "select")
    /\ UNCHANGED <<Main, mmu, deh, flags, outcome, raised, deaf>>

EventArrives(c) ==
    /\ handler[c] = "select" /\ raised[c]
    /\ Goto(c, "leave")
    /\ outcome' = [outcome EXCEPT ![c] = "event"]
    /\ UNCHANGED <<Main, mmu, deh, flags, raised, deaf>>

(* The calls on the way out may fail and set errno, which hides EINTR.     *)
LeaveWait(c) ==
    /\ handler[c] = "leave"
    /\ mmu' = IF c = "sys" THEN mmu - 1 ELSE mmu
    /\ deh' = [deh EXCEPT ![c] = @ - 1]
    /\ raised' = [raised EXCEPT ![c] = FALSE]
    /\ \/ outcome[c] = "EINTR" /\ Goto(c, "exited") /\ UNCHANGED outcome
       \/ outcome[c] = "EINTR" /\ Goto(c, "flag") /\ outcome' = [outcome EXCEPT ![c] = "failed"]
       \/ outcome[c] # "EINTR" /\ Goto(c, "flag") /\ UNCHANGED outcome
    /\ UNCHANGED <<Main, flags, deaf>>

(* sysM3EventHandler() and appM3EventHandler(): the three writes.          *)
SetIsEvent(c) ==
    /\ handler[c] = "flag"
    /\ isEvent' = [isEvent EXCEPT ![c] = TRUE]
    /\ Goto(c, IF outcome[c] = "event" THEN "restart" ELSE "post")
    /\ UNCHANGED <<Main, mmu, deh, restart, semDaemonWait, outcome, raised, deaf>>

(* Mutant: a handler does not ask for a restart. *)
SetRestartForgets(c) ==
    /\ handler[c] = "restart"
    /\ Goto(c, "post")
    /\ UNCHANGED <<Main, mmu, deh, flags, outcome, raised, deaf>>

SetRestart(c) ==
    /\ handler[c] = "restart"
    /\ restart' = TRUE
    /\ Goto(c, "post")
    /\ UNCHANGED <<Main, mmu, deh, isEvent, semDaemonWait, outcome, raised, deaf>>

PostDaemon(c) ==
    /\ handler[c] = "post"
    /\ semDaemonWait' = semDaemonWait + 1
    /\ Goto(c, "exited")
    /\ UNCHANGED <<Main, mmu, deh, restart, isEvent, outcome, raised, deaf>>

-----------------------------------------------------------------------------
(* External: a core crashes (MMU fault, SysError, watchdog).  The kernel   *)
(* signals the event descriptors that are registered.                      *)
Crash(c) ==
    /\ core[c] = "running" /\ ~ Stopped
    /\ core' = [core EXCEPT ![c] = "crashed"]
    /\ raised' = [raised EXCEPT ![c] = handler[c] \in {"armed", "select"}]
    /\ UNCHANGED <<pc, appM3Client, held, attachFailed, mmu, deh, flags, thrd, handler,
                   outcome, deaf, exiting, kills, killed>>

(* SIGINT or SIGTERM for the process, which the kernel delivers to the     *)
(* main thread: signal_handler() posts.                                    *)
SignalHandler ==
    /\ ~ Stopped /\ kills < MaxKills
    /\ kills' = kills + 1 /\ killed' = TRUE
    /\ semDaemonWait' = semDaemonWait + 1
    /\ UNCHANGED <<pc, appM3Client, setup, restart, isEvent, threads, exiting>>

MainThread ==
    \/ StartRound \/ IpcSetup \/ NoAppHandler \/ WakeUp \/ IpcCleanup
    \/ \E c \in Cores : Spawn(c) \/ SpawnFails(c) \/ Reap(c) \/ KillHandler(c) \/ Join(c)

Handler(c) ==
    /\ ~ Stopped
    /\ \/ OpenDrivers(c) \/ RegisterEvents(c) \/ Select(c) \/ EventArrives(c) \/ LeaveWait(c)
       \/ SetIsEvent(c) \/ SetRestart(c) \/ PostDaemon(c)

Next ==
    \/ MainThread
    \/ \E c \in Cores : Handler(c) \/ Crash(c)
    \/ SignalHandler

(* Every thread keeps running.  Cores need not crash, nobody has to KILL.  *)
Spec == Init /\ [][Next]_vars /\ WF_vars(MainThread) /\ \A c \in Cores : WF_vars(Handler(c))

-----------------------------------------------------------------------------
(* The type invariant. *)
TypeOK ==
    /\ Label \in {"round", "setup", "spawn", "wait", "reap", "kill", "join", "cleanup",
                 "ended", "failed"}
    /\ appM3Client \in BOOLEAN
    /\ held \subseteq {SetupCalls[i] : i \in DOMAIN SetupCalls}
    /\ core \in [Cores -> {"off", "running", "crashed"}]
    /\ mmu \in Nat /\ deh \in [Cores -> Nat]
    /\ {restart, attachFailed, exiting, killed} \subseteq BOOLEAN
    /\ {isEvent, thrd, raised, deaf} \subseteq [Cores -> BOOLEAN]
    /\ semDaemonWait \in Nat /\ kills \in 0 .. MaxKills
    /\ handler \in [Cores -> Points]
    /\ outcome \in [Cores -> {"none", "event", "EINTR", "failed"}]

(***************************************************************************)
(* Every round begins as the first one did: ipcCleanup() has undone all    *)
(* that ipcSetup() did, the cores are off, and the handler threads of the  *)
(* round before are gone with their references to the drivers, so that no  *)
(* late write of theirs reaches the new flags.                             *)
(***************************************************************************)
RestartsClean ==
    pc = <<"round">> =>
        /\ held = {} /\ mmu = 0
        /\ \A c \in Cores :
              deh[c] = 0 /\ core[c] = "off" /\ ~ thrd[c] /\ handler[c] \in {"none", "exited"}

(***************************************************************************)
(* A handler thread runs only while its core's ProcMgr object is open and  *)
(* nothing has been torn down: whatever wakes main(), it goes on to        *)
(* ipcCleanup() after both threads have ended.  (When the second thread    *)
(* cannot be created main() does not wait for the first, and exits.)       *)
(***************************************************************************)
HandlersInsideRound ==
    \A c \in Cores :
        handler[c] \notin {"none", "exited"} /\ ~ Stopped =>
            \/ exiting
            \/ /\ Label \in {"spawn", "wait", "reap", "kill", "join"}
               /\ Call("open", c) \in held /\ Call("start", c) \in held

(* A handler has missed its SIGTERM. *)
Deaf == \E c \in Cores : deaf[c]

(***************************************************************************)
(* A core whose crash was signalled to its handler is started again,       *)
(* unless the next set-up or the creation of a thread fails.  The other    *)
(* exception is a SIGTERM that reached a handler before its select():      *)
(* main() then waits for that thread as long as its core does not crash.   *)
(***************************************************************************)
CrashRecovered ==
    \A c \in Cores : raised[c] ~> (core[c] = "running" \/ Label = "failed" \/ exiting \/ []Deaf)

(***************************************************************************)
(* A KILL that comes after the round's sem_init() ends the daemon, unless  *)
(* a core crashes in the same round and the daemon starts over, or a       *)
(* handler misses its SIGTERM.                                             *)
(***************************************************************************)
KillEnds == killed ~> (Stopped \/ restart \/ []Deaf)
=============================================================================
