------------------------ MODULE SyslinkDaemonProofs -------------------------
(***************************************************************************)
(* Proofs about the SysLink daemon: what ipcSetup() acquires and what the  *)
(* handler threads hold is gone when a round begins again, and a handler   *)
(* runs only while its core is open and started.                           *)
(***************************************************************************)
EXTENDS SyslinkDaemon, Integers, TLAPS

(* The places of the main thread. *)
Positions ==
    {<<"round">>, <<"wait">>, <<"ended">>, <<"failed">>}
    \cup {<<l, i>> : l \in {"setup", "cleanup"}, i \in 1 .. 16}
    \cup {<<l, c>> : l \in {"spawn", "reap", "kill", "join"}, c \in Cores}

(* The handler threads that have not ended, and those that hold references *)
(* to the drivers.                                                         *)
Active == Points \ {"none", "exited"}
Holding == {"register", "armed", "select", "leave"}

(* The references ipcSetup() and the handler of a core count. *)
Opens(c) == IF Call("open", c) \in held THEN 1 ELSE 0
Refs(c) == IF handler[c] \in Holding THEN 1 ELSE 0

(* The types: where the main thread is, what the set-up has, what the      *)
(* threads and the flags are.                                              *)
SetupTypes ==
    /\ held \subseteq {SetupCalls[i] : i \in 1 .. 16}
    /\ core \in [Cores -> {"off", "running", "crashed"}]
    /\ mmu \in Nat /\ deh \in [Cores -> Nat]
    /\ attachFailed \in BOOLEAN

ThreadTypes ==
    /\ thrd \in [Cores -> BOOLEAN] /\ raised \in [Cores -> BOOLEAN] /\ deaf \in [Cores -> BOOLEAN]
    /\ handler \in [Cores -> Points]
    /\ outcome \in [Cores -> {"none", "event", "EINTR", "failed"}]

FlagTypes ==
    /\ restart \in BOOLEAN /\ isEvent \in [Cores -> BOOLEAN] /\ semDaemonWait \in Nat
    /\ kills \in 0 .. MaxKills /\ killed \in BOOLEAN

Types ==
    /\ pc \in Positions /\ appM3Client \in BOOLEAN /\ exiting \in BOOLEAN
    /\ SetupTypes /\ ThreadTypes /\ FlagTypes

(* The drivers' references are those of the two sides, except that a       *)
(* ProcMgr_open() without an object counts one that ipcSetup() does not    *)
(* hold; no set-up gets further than ProcMgr_load() with it.               *)
Counts ==
    /\ mmu + Refs("app") = deh["sys"] + deh["app"]
    /\ Label \notin {"setup", "failed"} => \A c \in Cores : deh[c] = Opens(c) + Refs(c)
    /\ Label = "setup" => \A c \in Cores : deh[c] \in {Opens(c), 1}

(* A core is on only while ipcSetup() holds its start. *)
CoresInv ==
    Label # "failed" => \A c \in Cores : core[c] # "off" => Call("start", c) \in held

(* How far ipcSetup() has come, and what it holds then: what comes later   *)
(* is not held, and neither load nor start has gone well without a handle. *)
OpenAt(c) == IF c = "sys" THEN 2 ELSE 4
LoadAt(c) == IF c = "sys" THEN 6 ELSE 8
StartAt(c) == IF c = "sys" THEN 7 ELSE 9
Wanted(c) == c = "app" => appM3Client

Progress ==
    \A i \in 1 .. 16 : pc = <<"setup", i>> =>
        \A c \in Cores :
            /\ i <= OpenAt(c) \/ ~ Wanted(c) => Call("open", c) \notin held /\ deh[c] = 0
            /\ i > LoadAt(c) /\ Wanted(c) => Call("open", c) \in held
            /\ i > StartAt(c) /\ Wanted(c) => Call("start", c) \in held

(* While handlers may run, the cores they watch are open and started.      *)
Running ==
    Label \in {"spawn", "wait", "reap", "kill", "join"} =>
        \A c \in Cores : Wanted(c) => Call("open", c) \in held /\ Call("start", c) \in held

(* ipcCleanup() has undone what its calls so far are for. *)
Undone ==
    /\ \A i \in 1 .. 16 : pc = <<"cleanup", i>> => \A j \in 1 .. (i - 1) : CleanupCalls[j] \notin held
    /\ Label \in {"round", "ended"} => held = {}

(* Who may still run: a handler that main() has not reaped, or one that it *)
(* does not wait for because it exits.                                     *)
ThreadsInv ==
    /\ \A c \in Cores : handler[c] \in Active => thrd[c] \/ exiting
    /\ \A c \in Cores : thrd[c] => Wanted(c)
    /\ exiting => Label \in {"cleanup", "ended"}
    /\ Label \in {"round", "setup", "cleanup", "ended"} => \A c \in Cores : ~ thrd[c]
    /\ pc = <<"spawn", "sys">> => ~ thrd["sys"] /\ ~ thrd["app"]
    /\ pc = <<"spawn", "app">> => ~ thrd["app"]
    /\ pc \in {<<l, "app">> : l \in {"reap", "kill", "join"}} => ~ thrd["sys"]

(* The inductive invariant. *)
DaemonInv == Types /\ Counts /\ CoresInv /\ Progress /\ Running /\ Undone /\ ThreadsInv

-----------------------------------------------------------------------------
(* The positions are told apart by their labels and arguments. *)
LEMMA PositionIs ==
    ASSUME pc \in Positions
    PROVE  /\ Label \in {"round", "setup", "spawn", "wait", "reap", "kill", "join", "cleanup",
                         "ended", "failed"}
           /\ Label = "round" <=> pc = <<"round">>
           /\ Label = "wait" <=> pc = <<"wait">>
           /\ Label = "ended" <=> pc = <<"ended">>
           /\ Label = "failed" <=> pc = <<"failed">>
           /\ Label = "setup" <=> \E i \in 1 .. 16 : pc = <<"setup", i>>
           /\ Label = "cleanup" <=> \E i \in 1 .. 16 : pc = <<"cleanup", i>>
           /\ Label = "spawn" <=> \E c \in Cores : pc = <<"spawn", c>>
           /\ Label = "reap" <=> \E c \in Cores : pc = <<"reap", c>>
           /\ Label = "kill" <=> \E c \in Cores : pc = <<"kill", c>>
           /\ Label = "join" <=> \E c \in Cores : pc = <<"join", c>>
BY DEF Label, Positions, Cores

(* The calls of ipcSetup() by their positions. *)
LEMMA SetupOrder ==
    ASSUME NEW i \in 1 .. 16
    PROVE  /\ SetupCalls[i].core \in Cores
           /\ SetupCalls[i] = Call(SetupCalls[i].call, SetupCalls[i].core)
           /\ SetupCalls[i].call = "open" <=> i \in {2, 4}
           /\ SetupCalls[i].call = "attach" <=> i \in {3, 5}
           /\ SetupCalls[i].call = "load" <=> i \in {6, 8}
           /\ SetupCalls[i].call = "start" <=> i \in {7, 9}
           /\ i \in {4, 5, 8, 9} <=> SetupCalls[i].core = "app"
BY DEF SetupCalls, Call, Cores

(* The set-up has sixteen calls, each of them undone by the clean-up. *)
LEMMA AllUndone ==
    /\ DOMAIN SetupCalls = 1 .. 16 /\ Len(SetupCalls) = 16
    /\ DOMAIN CleanupCalls = 1 .. 16 /\ Len(CleanupCalls) = 16
    /\ \A i \in 1 .. 16 : \E j \in 1 .. 16 : SetupCalls[i] = CleanupCalls[j]
BY DEF SetupCalls, CleanupCalls, Call

-----------------------------------------------------------------------------
(* The first state. *)
LEMMA InitDaemon == Init => DaemonInv
<1> SUFFICES ASSUME Init PROVE DaemonInv
  OBVIOUS
<1>1. Types
  <2>1. pc \in Positions
    BY DEF Init, Positions
  <2>4. appM3Client \in BOOLEAN /\ exiting \in BOOLEAN
    BY Zenon DEF Init
  <2>2. SetupTypes /\ ThreadTypes
    BY Zenon DEF Init, SetupTypes, ThreadTypes, Points
  <2>3. FlagTypes
    <3>1. kills \in 0 .. MaxKills /\ semDaemonWait \in Nat
      BY DaemonAssumption DEF Init
    <3>2. restart \in BOOLEAN /\ killed \in BOOLEAN /\ isEvent \in [Cores -> BOOLEAN]
      BY Zenon DEF Init
    <3> QED BY <3>1, <3>2 DEF FlagTypes
  <2> QED BY <2>1, <2>2, <2>3, <2>4 DEF Types
<1>2. Counts /\ CoresInv /\ Progress /\ Running /\ Undone /\ ThreadsInv
  BY DEF Init, Counts, CoresInv, Progress, Running, Undone, ThreadsInv, Label, Opens, Refs,
         Holding, Active, Cores
<1> QED BY <1>1, <1>2 DEF DaemonInv

(* A step that changes neither the place of main() nor what it holds. *)
LEMMA MainKept ==
    ASSUME DaemonInv, UNCHANGED <<pc, appM3Client, held>>,
           \A c \in Cores : core'[c] # "off" => core[c] # "off"
    PROVE  CoresInv' /\ Running' /\ Undone'
BY DEF DaemonInv, CoresInv, Running, Undone, Label, Wanted

(* The handler threads: they run outside the set-up only. *)
LEMMA HandlerRuns ==
    ASSUME DaemonInv, NEW c \in Cores, handler[c] \in Active
    PROVE  Label \notin {"round", "setup"}
<1>1. thrd[c] \/ exiting
  BY Zenon DEF DaemonInv, ThreadsInv
<1> QED BY <1>1 DEF DaemonInv, ThreadsInv

(* A handler's step leaves main() alone and counts its own references. *)
LEMMA HandlerMoves ==
    ASSUME DaemonInv, NEW c \in Cores, Handler(c)
    PROVE  /\ UNCHANGED Main
           /\ handler[c] \in Active
           /\ ThreadTypes' /\ FlagTypes'
           /\ \A d \in Cores \ {c} : handler'[d] = handler[d] /\ deh'[d] = deh[d]
           /\ deh' \in [Cores -> Int] /\ mmu' \in Int
           /\ deh'[c] - Refs(c)' = deh[c] - Refs(c)
           /\ mmu' - mmu = IF c = "sys" THEN deh'[c] - deh[c] ELSE 0
<1> USE DEF DaemonInv, Types, SetupTypes, ThreadTypes, FlagTypes, Points, Active, Refs, Holding,
            Goto, Main, flags, Cores
<1>1. CASE OpenDrivers(c)
  BY <1>1 DEF OpenDrivers
<1>2. CASE RegisterEvents(c)
  BY <1>2 DEF RegisterEvents
<1>3. CASE Select(c)
  BY <1>3 DEF Select
<1>4. CASE EventArrives(c)
  BY <1>4 DEF EventArrives
<1>5. CASE LeaveWait(c)
  BY <1>5 DEF LeaveWait
<1>6. CASE SetIsEvent(c)
  BY <1>6 DEF SetIsEvent
<1>7. CASE SetRestart(c)
  BY <1>7 DEF SetRestart
<1>8. CASE PostDaemon(c)
  BY <1>8 DEF PostDaemon
<1> QED BY <1>1, <1>2, <1>3, <1>4, <1>5, <1>6, <1>7, <1>8, Zenon DEF Handler

(* A handler's step keeps the invariant. *)
LEMMA HandlerStep ==
    ASSUME DaemonInv, NEW c \in Cores, Handler(c)
    PROVE  DaemonInv'
<1>1. /\ UNCHANGED <<pc, appM3Client, held, attachFailed, core, thrd, exiting>>
      /\ handler[c] \in Active
      /\ ThreadTypes' /\ FlagTypes'
      /\ \A d \in Cores \ {c} : handler'[d] = handler[d] /\ deh'[d] = deh[d]
      /\ deh' \in [Cores -> Int] /\ mmu' \in Int
      /\ deh'[c] - Refs(c)' = deh[c] - Refs(c)
      /\ mmu' - mmu = IF c = "sys" THEN deh'[c] - deh[c] ELSE 0
  BY HandlerMoves, Zenon DEF Main
<1>2. Label \notin {"round", "setup", "failed"}
  BY <1>1, HandlerRuns, Zenon DEF Handler, Stopped
<1>3. Counts'
  <2>1. \A d \in Cores : /\ Refs(d) \in 0 .. 1 /\ Refs(d)' \in 0 .. 1 /\ deh[d] \in Nat
                         /\ deh'[d] \in Int /\ deh'[d] - Refs(d)' = deh[d] - Refs(d)
    BY <1>1 DEF DaemonInv, Types, SetupTypes, Refs
  <2>2. \A d \in Cores : deh'[d] = Opens(d)' + Refs(d)'
    BY <1>1, <1>2, <2>1 DEF DaemonInv, Counts, Opens
  <2>3. mmu' + Refs("app")' = deh'["sys"] + deh'["app"]
    <3>1. mmu + Refs("app") = deh["sys"] + deh["app"] /\ mmu \in Nat /\ mmu' \in Int
      BY <1>1 DEF DaemonInv, Counts, Types, SetupTypes
    <3>2. CASE c = "sys"
      <4>1. /\ "sys" \in Cores /\ "app" \in Cores \ {c}
            /\ handler'["app"] = handler["app"] /\ deh'["app"] = deh["app"]
            /\ mmu' - mmu = deh'["sys"] - deh["sys"]
        BY <1>1, <3>2, Zenon DEF Cores
      <4>2. Refs("app")' = Refs("app") /\ Refs("app") \in 0 .. 1
        BY <2>1, <4>1 DEF Refs
      <4>3. deh["sys"] \in Nat /\ deh'["sys"] \in Int /\ deh["app"] \in Nat
        BY <2>1, <4>1
      <4> QED BY <3>1, <4>1, <4>2, <4>3
    <3>3. CASE c = "app"
      <4>1. deh'["sys"] = deh["sys"] /\ mmu' = mmu
        <5>1. mmu' - mmu = 0
          BY <1>1, <3>3
        <5>2. "sys" \in Cores \ {c}
          BY <3>3 DEF Cores
        <5> QED BY <1>1, <3>1, <5>1, <5>2
      <4>2. deh'["app"] - Refs("app")' = deh["app"] - Refs("app")
        BY <1>1, <3>3
      <4> QED BY <2>1, <3>1, <4>1, <4>2 DEF Cores
    <3> QED BY <3>2, <3>3 DEF Cores
  <2> QED BY <1>1, <1>2, <2>2, <2>3, Zenon DEF Counts, Label
<1>4. CoresInv' /\ Running' /\ Undone'
  BY <1>1, MainKept, Zenon
<1>5. Progress'
  BY <1>1, <1>2 DEF Progress, Label
<1>6. ThreadsInv'
  BY <1>1, Zenon DEF DaemonInv, ThreadsInv, Label, Wanted
<1>7. mmu' \in Nat /\ deh' \in [Cores -> Nat]
  BY <1>1, <1>2, <1>3 DEF Counts, Opens, Refs, Label, Cores
<1>8. Types'
  BY <1>1, <1>7 DEF DaemonInv, Types, SetupTypes
<1> QED BY <1>3, <1>4, <1>5, <1>6, <1>8, Zenon DEF DaemonInv

-----------------------------------------------------------------------------
(* During the set-up no handler runs. *)
LEMMA SetupAlone ==
    ASSUME DaemonInv, NEW i \in 1 .. 16, AtSetup(i)
    PROVE  /\ Label = "setup" /\ ~ exiting
           /\ \A c \in Cores : ~ thrd[c] /\ handler[c] \notin Active /\ Refs(c) = 0
<1>1. Label = "setup"
  BY Zenon DEF AtSetup, Label
<1>2. ~ exiting /\ \A c \in Cores : ~ thrd[c]
  BY <1>1 DEF DaemonInv, ThreadsInv
<1>3. \A c \in Cores : handler[c] \notin Active
  BY <1>2 DEF DaemonInv, ThreadsInv
<1>4. \A c \in Cores : Refs(c) = 0
  BY <1>3 DEF Refs, Holding, Active, Points
<1> QED BY <1>1, <1>2, <1>3, <1>4

(* What a call of ipcSetup() that lets it go on leaves of the set-up. *)
GoesOn(i) ==
    /\ SetupTypes'
    /\ mmu' = deh'["sys"] + deh'["app"]
    /\ \A c \in Cores :
          /\ deh'[c] \in {Opens(c)', 1}
          /\ core'[c] # "off" => Call("start", c) \in held'
          /\ i + 1 <= OpenAt(c) \/ ~ Wanted(c) => Call("open", c) \notin held' /\ deh'[c] = 0
          /\ i + 1 > LoadAt(c) /\ Wanted(c) => Call("open", c) \in held'
          /\ i + 1 > StartAt(c) /\ Wanted(c) => Call("start", c) \in held'

(* Such a call keeps the invariant. *)
LEMMA SetupProceeds ==
    ASSUME DaemonInv, NEW i \in 1 .. 16, AtSetup(i), Proceed(i), GoesOn(i),
           UNCHANGED <<appM3Client, flags, threads, exiting, kills, killed>>
    PROVE  DaemonInv'
<1>1. /\ Label = "setup" /\ ~ exiting
      /\ \A c \in Cores : ~ thrd[c] /\ handler[c] \notin Active /\ Refs(c) = 0
  BY SetupAlone
<1>2. UNCHANGED <<appM3Client, thrd, handler, outcome, raised, deaf, restart, isEvent,
                  semDaemonWait, exiting, kills, killed>>
  BY DEF flags, threads
<1>3. \A c \in Cores : Refs(c)' = 0
  BY <1>1, <1>2 DEF Refs
<1>4. CASE i = 16
  <2>1. pc' = <<"spawn", "sys">>
    BY <1>4, AllUndone, Zenon DEF Proceed
  <2>2. Types'
    BY <1>2, <2>1 DEF DaemonInv, Types, ThreadTypes, FlagTypes, GoesOn, Positions, Cores
  <2>3. \A c \in Cores : Wanted(c) => Call("open", c) \in held' /\ Call("start", c) \in held'
    BY <1>4 DEF GoesOn, LoadAt, StartAt, Cores
  <2>4. Counts'
    BY <1>3, <2>1, <2>3 DEF GoesOn, Counts, Opens, Label, Cores, SetupTypes
  <2>5. CoresInv' /\ Progress' /\ Undone'
    BY <2>1 DEF GoesOn, CoresInv, Progress, Undone, Label
  <2>6. Running'
    BY <1>2, <2>3 DEF Running, Wanted
  <2>7. ThreadsInv'
    BY <1>1, <1>2, <2>1 DEF ThreadsInv, Label, Cores
  <2> QED BY <2>2, <2>4, <2>5, <2>6, <2>7, Zenon DEF DaemonInv
<1>5. CASE i # 16
  <2>1. pc' = <<"setup", i + 1>> /\ i + 1 \in 1 .. 16
    BY <1>5, AllUndone DEF Proceed
  <2>2. Types'
    BY <1>2, <2>1 DEF DaemonInv, Types, ThreadTypes, FlagTypes, GoesOn, Positions
  <2>3. Counts'
    BY <1>3, <2>1 DEF GoesOn, Counts, Label, Cores, SetupTypes
  <2>4. CoresInv' /\ Undone' /\ Running'
    BY <2>1, Zenon DEF GoesOn, CoresInv, Undone, Running, Label
  <2>5. Progress'
    BY <1>2, <2>1 DEF GoesOn, Progress, Wanted
  <2>6. ThreadsInv'
    BY <1>1, <1>2, <2>1 DEF ThreadsInv, Label
  <2> QED BY <2>2, <2>3, <2>4, <2>5, <2>6, Zenon DEF DaemonInv
<1> QED BY <1>4, <1>5

(* What the set-up is before one of its calls. *)
LEMMA SetupBefore ==
    ASSUME DaemonInv, NEW i \in 1 .. 16, AtSetup(i)
    PROVE  /\ SetupTypes
           /\ mmu = deh["sys"] + deh["app"]
           /\ \A c \in Cores :
                 /\ deh[c] \in {Opens(c), 1}
                 /\ core[c] # "off" => Call("start", c) \in held
                 /\ i <= OpenAt(c) \/ ~ Wanted(c) => Call("open", c) \notin held /\ deh[c] = 0
                 /\ i > LoadAt(c) /\ Wanted(c) => Call("open", c) \in held
                 /\ i > StartAt(c) /\ Wanted(c) => Call("start", c) \in held
<1>1. Label = "setup" /\ \A c \in Cores : Refs(c) = 0
  BY SetupAlone, Zenon
<1>2. SetupTypes /\ mmu = deh["sys"] + deh["app"]
  BY <1>1 DEF DaemonInv, Types, SetupTypes, Counts, Cores
<1>3. \A c \in Cores : deh[c] \in {Opens(c), 1} /\ (core[c] # "off" => Call("start", c) \in held)
  BY <1>1, Zenon DEF DaemonInv, Counts, CoresInv
<1> QED BY <1>2, <1>3 DEF DaemonInv, Progress, AtSetup

(* The call of ipcSetup() at position i, and what its core wants of it. *)
LEMMA CallOf ==
    ASSUME NEW i \in 1 .. 16, NEW c \in Cores
    PROVE  /\ SetupCalls[i] = Call("open", c) <=> i = OpenAt(c)
           /\ SetupCalls[i] = Call("start", c) <=> i = StartAt(c)
           /\ SetupCalls[i].call = "open" <=> \E d \in Cores : i = OpenAt(d)
           /\ SetupCalls[i].call = "start" <=> \E d \in Cores : i = StartAt(d)
           /\ i \in {OpenAt(c), LoadAt(c), StartAt(c)} => SetupCalls[i].core = c
           /\ i = LoadAt(c) => SetupCalls[i].call = "load"
BY DEF SetupCalls, Call, Cores, OpenAt, StartAt, LoadAt

(* A call for AppM3 is skipped when there is no image, or when SysM3 was   *)
(* not attached: then AppM3 is not opened either.                          *)
LEMMA SkipGoesOn ==
    ASSUME DaemonInv, NEW i \in 1 .. 16, SkipCall(i), UNCHANGED appM3Client
    PROVE  GoesOn(i)
<1>1. AtSetup(i) /\ UNCHANGED <<held, core, mmu, deh, attachFailed>>
  BY Zenon DEF SkipCall, setup
<1>2. \A c \in Cores : Wanted(c) => i # LoadAt(c) /\ i # StartAt(c)
  BY CallOf, SetupOrder DEF SkipCall, Skipped, Wanted, Cores
<1>3. SetupTypes' /\ \A c \in Cores : Opens(c)' = Opens(c)
  BY <1>1, SetupBefore DEF SetupTypes, Opens
<1>4. \A c \in Cores : OpenAt(c) \in 1 .. 16 /\ LoadAt(c) \in 1 .. 16 /\ StartAt(c) \in 1 .. 16
  BY DEF OpenAt, LoadAt, StartAt
<1> QED BY <1>1, <1>2, <1>3, <1>4, SetupBefore DEF GoesOn

(* A failed ProcMgr_attach() changes nothing that is held. *)
LEMMA AttachGoesOn ==
    ASSUME DaemonInv, NEW i \in 1 .. 16, AttachFails(i), UNCHANGED appM3Client
    PROVE  GoesOn(i)
<1>1. AtSetup(i) /\ UNCHANGED <<held, core, mmu, deh>> /\ attachFailed' = TRUE
  BY Zenon DEF AttachFails
<1>2. \A c \in Cores : i # LoadAt(c) /\ i # StartAt(c)
  BY SetupOrder, Zenon DEF AttachFails, LoadAt, StartAt, Cores
<1>3. SetupTypes' /\ \A c \in Cores : Opens(c)' = Opens(c)
  BY <1>1, SetupBefore, Zenon DEF SetupTypes, Opens
<1>4. \A c \in Cores : OpenAt(c) \in 1 .. 16 /\ LoadAt(c) \in 1 .. 16 /\ StartAt(c) \in 1 .. 16
  BY DEF OpenAt, LoadAt, StartAt
<1> QED BY <1>1, <1>2, <1>3, <1>4, SetupBefore DEF GoesOn

(* A call that is not skipped is for a core that is wanted. *)
LEMMA NotSkipped ==
    ASSUME NEW i \in 1 .. 16, ~ Skipped(SetupCalls[i])
    PROVE  SetupCalls[i].core \in Cores /\ Wanted(SetupCalls[i].core)
BY SetupOrder DEF Skipped, Wanted

(* ProcMgr_open() counts one reference to each driver. *)
LEMMA OpenCounts ==
    ASSUME DaemonInv, NEW i \in 1 .. 16, AtSetup(i), NEW c \in Cores, i = OpenAt(c), CountOpen(c)
    PROVE  /\ mmu' \in Nat /\ deh' \in [Cores -> Nat]
           /\ mmu' = deh'["sys"] + deh'["app"]
           /\ deh'[c] = 1 /\ \A d \in Cores \ {c} : deh'[d] = deh[d]
<1>1. /\ mmu \in Nat /\ deh \in [Cores -> Nat]
      /\ mmu = deh["sys"] + deh["app"] /\ deh[c] = 0
  BY SetupBefore DEF SetupTypes, OpenAt, Cores
<1> QED BY <1>1 DEF CountOpen, Cores

(* ProcMgr_open() without an object: a reference that nobody holds. *)
LEMMA NoObjectGoesOn ==
    ASSUME DaemonInv, NEW i \in 1 .. 16, OpenFindsNoObject(i), UNCHANGED appM3Client
    PROVE  GoesOn(i)
<1> DEFINE c == SetupCalls[i].core
<1>1. AtSetup(i) /\ UNCHANGED <<held, core, attachFailed>> /\ CountOpen(c)
  BY Zenon DEF OpenFindsNoObject
<1>2. c \in Cores /\ Wanted(c)
  BY NotSkipped, Zenon DEF OpenFindsNoObject
<1>3. i = OpenAt(c) /\ \A d \in Cores : i # LoadAt(d) /\ i # StartAt(d)
  BY SetupOrder DEF OpenFindsNoObject, OpenAt, LoadAt, StartAt, Cores
<1> HIDE DEF c
<1>4. /\ mmu' \in Nat /\ deh' \in [Cores -> Nat]
      /\ mmu' = deh'["sys"] + deh'["app"]
      /\ deh'[c] = 1 /\ \A d \in Cores \ {c} : deh'[d] = deh[d]
  BY <1>1, <1>2, <1>3, OpenCounts, Zenon
<1>5. SetupTypes' /\ \A d \in Cores : Opens(d)' = Opens(d)
  BY <1>1, <1>4, SetupBefore, Zenon DEF SetupTypes, Opens
<1>6. \A d \in Cores : OpenAt(d) \in 1 .. 16 /\ LoadAt(d) \in 1 .. 16 /\ StartAt(d) \in 1 .. 16
  BY DEF OpenAt, LoadAt, StartAt
<1>7. \A d \in Cores : OpenAt(d) = OpenAt(c) => d = c
  BY <1>2 DEF OpenAt, Cores
<1> QED BY <1>1, <1>2, <1>3, <1>4, <1>5, <1>6, <1>7, SetupBefore DEF GoesOn

(* A call that goes well. *)
LEMMA CallGoesOn ==
    ASSUME DaemonInv, NEW i \in 1 .. 16, SetupCall(i), UNCHANGED appM3Client
    PROVE  GoesOn(i)
<1> DEFINE r == SetupCalls[i]
           c == r.core
<1>1. /\ AtSetup(i) /\ HasHandle(r) /\ held' = held \cup {r} /\ UNCHANGED attachFailed
      /\ IF r.call = "open" THEN CountOpen(c) ELSE UNCHANGED <<mmu, deh>>
      /\ core' = IF r.call = "start" THEN [core EXCEPT ![c] = "running"] ELSE core
  BY Zenon DEF SetupCall
<1>2. c \in Cores /\ Wanted(c)
  BY NotSkipped, Zenon DEF SetupCall
<1>3. \A d \in Cores : /\ OpenAt(d) \in 1 .. 16 /\ LoadAt(d) \in 1 .. 16 /\ StartAt(d) \in 1 .. 16
                       /\ (OpenAt(d) = OpenAt(c) \/ LoadAt(d) = LoadAt(c) \/ StartAt(d) = StartAt(c)
                          => d = c)
                       /\ OpenAt(d) # LoadAt(c) /\ OpenAt(d) # StartAt(c) /\ LoadAt(d) # StartAt(c)
  BY <1>2 DEF OpenAt, LoadAt, StartAt, Cores
<1>4. \A d \in Cores : /\ Call("open", d) \in held' <=> Call("open", d) \in held \/ i = OpenAt(d)
                       /\ Call("start", d) \in held' <=> Call("start", d) \in held \/ i = StartAt(d)
  BY <1>1, CallOf, Zenon
<1>5. \A d \in Cores : i = LoadAt(d) \/ i = StartAt(d) => c = d /\ Call("open", d) \in held
  BY <1>1, CallOf DEF HasHandle
<1>6. held' \subseteq {SetupCalls[j] : j \in 1 .. 16}
  BY <1>1, SetupBefore, Zenon DEF SetupTypes
<1>7. core' \in [Cores -> {"off", "running", "crashed"}]
      /\ \A d \in Cores : core'[d] # "off" => core[d] # "off" \/ i = StartAt(d)
  BY <1>1, <1>2, SetupBefore, SetupOrder, Zenon DEF SetupTypes, StartAt, Cores
<1>8. CASE r.call = "open"
  <2>1. i = OpenAt(c)
    BY <1>8, SetupOrder DEF OpenAt, Cores
  <2>2. CountOpen(c)
    BY <1>1, <1>8
  <2> HIDE DEF c, r
  <2>3. /\ mmu' \in Nat /\ deh' \in [Cores -> Nat]
        /\ mmu' = deh'["sys"] + deh'["app"]
        /\ deh'[c] = 1 /\ \A d \in Cores \ {c} : deh'[d] = deh[d]
    BY <1>1, <1>2, <2>1, <2>2, OpenCounts, Zenon
  <2>4. SetupTypes'
    BY <1>1, <1>6, <1>7, <2>3, SetupBefore, Zenon DEF SetupTypes
  <2>5. \A d \in Cores : deh'[d] \in {Opens(d)', 1}
    BY <1>1, <1>2, <1>3, <1>4, <2>1, <2>3, SetupBefore, Zenon DEF Opens
  <2> QED BY <1>1, <1>2, <1>3, <1>4, <1>5, <1>7, <2>1, <2>3, <2>4, <2>5, SetupBefore DEF GoesOn
<1>9. CASE r.call # "open"
  <2>1. \A d \in Cores : i # OpenAt(d)
    BY <1>9, CallOf, Zenon
  <2>2. UNCHANGED <<mmu, deh>>
    BY <1>1, <1>9, Zenon
  <2> HIDE DEF c, r
  <2>3. SetupTypes'
    BY <1>1, <1>6, <1>7, <2>2, SetupBefore, Zenon DEF SetupTypes
  <2>4. \A d \in Cores : deh'[d] \in {Opens(d)', 1}
    BY <1>1, <1>4, <2>1, <2>2, SetupBefore, Zenon DEF Opens
  <2> QED BY <1>1, <1>2, <1>3, <1>4, <1>5, <1>7, <2>1, <2>2, <2>3, <2>4, SetupBefore
             DEF GoesOn
<1> QED BY <1>8, <1>9, Zenon

(* A failed set-up, after which main() returns. *)
LEMMA FailureStep ==
    ASSUME DaemonInv, NEW i \in 1 .. 16, SetupFails(i),
           UNCHANGED <<appM3Client, flags, threads, exiting, kills, killed>>
    PROVE  DaemonInv'
<1> DEFINE r == SetupCalls[i]
           undone == Unwound(r) \cap held
<1>1. /\ AtSetup(i) /\ held' = held \ undone /\ UNCHANGED attachFailed /\ pc' = <<"failed">>
      /\ IF r.call = "open" THEN CountOpen(r.core)
         ELSE IF Call("open", "sys") \in undone THEN CountClose("sys")
         ELSE UNCHANGED <<mmu, deh>>
  BY Zenon DEF SetupFails
<1>2. core' \in [Cores -> {"off", "running", "crashed"}]
  <2>1. core \in [Cores -> {"off", "running", "crashed"}] /\ r.core \in Cores
    BY SetupOrder DEF DaemonInv, Types, SetupTypes
  <2> QED BY <2>1, Zenon DEF SetupFails
<1>3. mmu' \in Nat /\ deh' \in [Cores -> Nat] /\ mmu' = deh'["sys"] + deh'["app"]
  <2>1. /\ mmu \in Nat /\ deh \in [Cores -> Nat] /\ mmu = deh["sys"] + deh["app"]
        /\ deh["sys"] \in {Opens("sys"), 1}
    BY <1>1, SetupBefore, Zenon DEF SetupTypes, Cores
  <2>2. CASE r.call = "open"
    <3>1. r.core \in Cores /\ CountOpen(r.core)
      BY <1>1, <2>2, SetupOrder, Zenon
    <3> QED BY <2>1, <3>1 DEF CountOpen, Cores
  <2>3. CASE r.call # "open" /\ Call("open", "sys") \in undone
    <3>1. CountClose("sys") /\ deh["sys"] = 1
      BY <1>1, <2>1, <2>3, Zenon DEF Opens
    <3> QED BY <2>1, <3>1 DEF CountClose, Cores
  <2>4. CASE r.call # "open" /\ Call("open", "sys") \notin undone
    BY <1>1, <2>1, <2>4, Zenon
  <2> QED BY <2>2, <2>3, <2>4, Zenon
<1> HIDE DEF r, undone
<1>4. UNCHANGED <<appM3Client, thrd, handler, outcome, raised, deaf, restart, isEvent,
                  semDaemonWait, exiting, kills, killed>>
  BY Zenon DEF flags, threads
<1>5. ~ exiting /\ \A c \in Cores : ~ thrd[c] /\ handler[c] \notin Active /\ Refs(c) = 0
  BY <1>1, SetupAlone, Zenon
<1>6. Types'
  BY <1>1, <1>2, <1>3, <1>4 DEF DaemonInv, Types, SetupTypes, ThreadTypes, FlagTypes,
     Positions
<1>7. Counts'
  BY <1>1, <1>3, <1>4, <1>5 DEF Counts, Label, Refs, Cores
<1>8. CoresInv' /\ Progress' /\ Running' /\ Undone'
  BY <1>1, Zenon DEF CoresInv, Progress, Running, Undone, Label
<1>9. ThreadsInv'
  BY <1>1, <1>4, <1>5 DEF ThreadsInv, Label
<1> QED BY <1>6, <1>7, <1>8, <1>9, Zenon DEF DaemonInv

(* ipcSetup(). *)
LEMMA SetupStep == DaemonInv /\ IpcSetup => DaemonInv'
<1> SUFFICES ASSUME DaemonInv, IpcSetup PROVE DaemonInv'
  BY Zenon
<1>1. UNCHANGED <<appM3Client, flags, threads, exiting, kills, killed>>
  BY Zenon DEF IpcSetup
<1>2. PICK i \in 1 .. 16 :
         SkipCall(i) \/ SetupCall(i) \/ AttachFails(i) \/ OpenFindsNoObject(i) \/ SetupFails(i)
  BY AllUndone, Zenon DEF IpcSetup
<1>3. CASE SetupFails(i)
  BY <1>1, <1>3, FailureStep
<1>4. CASE SkipCall(i) \/ SetupCall(i) \/ AttachFails(i) \/ OpenFindsNoObject(i)
  <2>1. AtSetup(i) /\ Proceed(i)
    BY <1>4, Zenon DEF SkipCall, SetupCall, AttachFails, OpenFindsNoObject
  <2>2. GoesOn(i)
    BY <1>1, <1>4, SkipGoesOn, CallGoesOn, AttachGoesOn, NoObjectGoesOn, Zenon
  <2> QED BY <1>1, <2>1, <2>2, SetupProceeds, Zenon
<1> QED BY <1>2, <1>3, <1>4

-----------------------------------------------------------------------------
(* A round starts. *)
LEMMA StartRoundStep == DaemonInv /\ StartRound => DaemonInv'
<1> SUFFICES ASSUME DaemonInv, StartRound PROVE DaemonInv'
  OBVIOUS
<1>1. /\ pc = <<"round">> /\ Label = "round" /\ pc' = <<"setup", 1>>
      /\ UNCHANGED <<appM3Client, held, core, mmu, deh, thrd, handler, outcome, raised, deaf,
                     exiting, kills>>
      /\ attachFailed' = FALSE /\ restart' = FALSE /\ killed' = FALSE /\ semDaemonWait' = 0
      /\ isEvent' = [c \in Cores |-> FALSE]
  BY Zenon DEF StartRound, Label, threads
<1>2. held = {} /\ ~ exiting /\ \A c \in Cores : ~ thrd[c] /\ handler[c] \notin Active
  BY <1>1, Zenon DEF DaemonInv, Undone, ThreadsInv
<1>3. \A c \in Cores : deh[c] = 0 /\ Refs(c) = 0 /\ Opens(c) = 0 /\ core[c] = "off"
  BY <1>1, <1>2 DEF DaemonInv, Counts, CoresInv, Opens, Refs, Holding, Active, Points
<1>4. Types'
  <2>1. SetupTypes' /\ ThreadTypes'
    BY <1>1, Zenon DEF DaemonInv, Types, SetupTypes, ThreadTypes
  <2>2. FlagTypes'
    BY <1>1, Zenon DEF DaemonInv, Types, FlagTypes
  <2>3. pc' \in Positions
    BY <1>1 DEF Positions
  <2> QED BY <1>1, <2>1, <2>2, <2>3 DEF DaemonInv, Types
<1>5. Counts'
  BY <1>1, <1>2, <1>3, Zenon DEF DaemonInv, Counts, Opens, Refs, Label, Cores
<1>6. CoresInv' /\ Running' /\ Undone'
  BY <1>1, <1>3, Zenon DEF CoresInv, Running, Undone, Label
<1>7. Progress'
  BY <1>1, <1>2, <1>3 DEF Progress, LoadAt, StartAt
<1>8. ThreadsInv'
  BY <1>1, <1>2, Zenon DEF ThreadsInv, Label
<1> QED BY <1>4, <1>5, <1>6, <1>7, <1>8, Zenon DEF DaemonInv

(* The places of main() while the set-up stands. *)
Standing == {"spawn", "wait", "reap", "kill", "join"}

(* A step of main() that leaves the set-up standing, or goes on to the     *)
(* clean-up; it may interrupt a handler, which keeps its references.       *)
LEMMA StandingStep ==
    ASSUME DaemonInv, Label \in Standing, Label' \in Standing \/ pc' = <<"cleanup", 1>>,
           UNCHANGED <<appM3Client, held, core, mmu, deh>>,
           \A c \in Cores : handler'[c] \in Holding <=> handler[c] \in Holding
    PROVE  Counts' /\ CoresInv' /\ Progress' /\ Running' /\ Undone'
<1>1. Label' \in Standing \cup {"cleanup"}
  BY DEF Label
<1>2. \A c \in Cores : Refs(c)' = Refs(c) /\ Opens(c)' = Opens(c)
  BY Zenon DEF Refs, Opens
<1>3. Counts'
  BY <1>1, <1>2, Zenon DEF DaemonInv, Counts, Standing, Cores
<1>4. CoresInv'
  BY Zenon DEF DaemonInv, CoresInv, Standing
<1>5. Progress'
  BY <1>1 DEF Progress, Label, Standing
<1>6. Running'
  BY Zenon DEF DaemonInv, Running, Standing, Wanted
<1>7. Undone'
  BY <1>1 DEF Undone, Label, Standing
<1> QED BY <1>3, <1>4, <1>5, <1>6, <1>7, Zenon

(* The handler threads are created. *)
LEMMA SpawnStep ==
    ASSUME DaemonInv, NEW c \in Cores, Spawn(c)
    PROVE  DaemonInv'
<1>1. /\ pc = <<"spawn", c>> /\ Label = "spawn" /\ Wanted(c)
      /\ thrd' = [thrd EXCEPT ![c] = TRUE] /\ handler' = [handler EXCEPT ![c] = "open"]
      /\ outcome' = [outcome EXCEPT ![c] = "none"]
      /\ pc' = IF c = "sys" THEN <<"spawn", "app">> ELSE <<"wait">>
      /\ UNCHANGED <<appM3Client, held, core, mmu, deh, attachFailed, restart, isEvent,
                     semDaemonWait, raised, deaf, exiting, kills, killed>>
  BY Zenon DEF Spawn, Label, Wanted, setup, flags
<1>2. ~ exiting /\ ~ thrd[c] /\ ~ thrd["app"]
  BY <1>1, Zenon DEF DaemonInv, ThreadsInv, Cores
<1>3. handler[c] \notin Active
  BY <1>2, Zenon DEF DaemonInv, ThreadsInv
<1>4. Label' \in {"spawn", "wait"}
  BY <1>1, Zenon DEF Label
<1>5. Counts' /\ CoresInv' /\ Progress' /\ Running' /\ Undone'
  <2>1. \A d \in Cores : handler'[d] \in Holding <=> handler[d] \in Holding
    BY <1>1, <1>3, Zenon DEF DaemonInv, Types, ThreadTypes, Holding, Active, Points
  <2> QED BY <1>1, <1>4, <2>1, StandingStep, Zenon DEF Standing
<1>6. Types'
  <2>1. ThreadTypes'
    BY <1>1, Zenon DEF DaemonInv, Types, ThreadTypes, Points
  <2>2. pc' \in Positions
    BY <1>1 DEF Positions, Cores
  <2> QED BY <1>1, <2>1, <2>2, Zenon DEF DaemonInv, Types, SetupTypes, FlagTypes
<1>7. ThreadsInv'
  <2>1. \A d \in Cores : /\ thrd'[d] <=> thrd[d] \/ d = c
                         /\ d # c => handler'[d] = handler[d]
    BY <1>1, Zenon DEF DaemonInv, Types, ThreadTypes
  <2> QED BY <1>1, <1>2, <1>4, <2>1, Zenon DEF DaemonInv, ThreadsInv, Wanted, Label, Cores
<1> QED BY <1>5, <1>6, <1>7, Zenon DEF DaemonInv

(* No AppM3 image, no handler. *)
LEMMA NoAppHandlerStep == DaemonInv /\ NoAppHandler => DaemonInv'
<1> SUFFICES ASSUME DaemonInv, NoAppHandler PROVE DaemonInv'
  OBVIOUS
<1>1. /\ Label = "spawn" /\ pc' = <<"wait">> /\ Label' = "wait"
      /\ UNCHANGED <<appM3Client, held, core, mmu, deh, attachFailed, restart, isEvent, semDaemonWait,
                     thrd, handler, outcome, raised, deaf, exiting, kills, killed>>
  BY DEF NoAppHandler, Label, setup, flags, threads
<1>2. Counts' /\ CoresInv' /\ Progress' /\ Running' /\ Undone'
  BY <1>1, StandingStep, Zenon DEF Standing
<1>3. Types'
  BY <1>1 DEF DaemonInv, Types, SetupTypes, ThreadTypes, FlagTypes, Positions
<1>4. ThreadsInv'
  BY <1>1, Zenon DEF DaemonInv, ThreadsInv, Wanted
<1> QED BY <1>2, <1>3, <1>4, Zenon DEF DaemonInv

(* A signal neither starts nor ends a handler, nor takes its references.   *)
LEMMA InterruptKeeps ==
    ASSUME ThreadTypes, NEW c \in Cores, Interrupt(c), UNCHANGED raised
    PROVE  /\ handler' \in [Cores -> Points] /\ deaf' \in [Cores -> BOOLEAN]
           /\ outcome' \in [Cores -> {"none", "event", "EINTR", "failed"}]
           /\ \A d \in Cores : /\ handler'[d] \in Holding <=> handler[d] \in Holding
                               /\ handler'[d] \in Active <=> handler[d] \in Active
BY DEF ThreadTypes, Interrupt, Points, Holding, Active

(* A thread cannot be created: main() exits without waiting for the other. *)
LEMMA SpawnFailsStep ==
    ASSUME DaemonInv, NEW c \in Cores, SpawnFails(c)
    PROVE  DaemonInv'
<1>1. /\ pc = <<"spawn", c>> /\ Label = "spawn" /\ pc' = <<"cleanup", 1>> /\ Label' = "cleanup"
      /\ exiting' = TRUE /\ thrd' = [thrd EXCEPT !["sys"] = FALSE]
      /\ UNCHANGED <<appM3Client, held, core, mmu, deh, attachFailed, restart, isEvent, raised,
                     kills, killed>>
  BY Zenon DEF SpawnFails, Label, setup
<1>2. /\ handler' \in [Cores -> Points] /\ deaf' \in [Cores -> BOOLEAN]
      /\ outcome' \in [Cores -> {"none", "event", "EINTR", "failed"}]
      /\ \A d \in Cores : handler'[d] \in Holding <=> handler[d] \in Holding
  <2>1. ThreadTypes
    BY Zenon DEF DaemonInv, Types
  <2>2. CASE c = "app"
    BY <1>1, <2>1, <2>2, InterruptKeeps, Zenon DEF SpawnFails, Cores
  <2>3. CASE c # "app"
    BY <2>1, <2>3, Zenon DEF SpawnFails, ThreadTypes
  <2> QED BY <2>2, <2>3
<1>3. semDaemonWait' \in Nat
  BY DEF SpawnFails, DaemonInv, Types, FlagTypes
<1>4. Counts' /\ CoresInv' /\ Progress' /\ Running' /\ Undone'
  BY <1>1, <1>2, StandingStep, Zenon DEF Standing
<1>5. Types'
  <2>1. ThreadTypes'
    BY <1>1, <1>2, Zenon DEF DaemonInv, Types, ThreadTypes
  <2>2. pc' \in Positions
    BY <1>1 DEF Positions
  <2>3. FlagTypes' /\ SetupTypes'
    BY <1>1, <1>3, Zenon DEF DaemonInv, Types, FlagTypes, SetupTypes
  <2> QED BY <1>1, <2>1, <2>2, <2>3 DEF DaemonInv, Types
<1>6. ThreadsInv'
  <2>1. \A d \in Cores : ~ thrd'[d]
    BY <1>1, Zenon DEF DaemonInv, Types, ThreadTypes, ThreadsInv, Cores
  <2> QED BY <1>1, <2>1, Zenon DEF ThreadsInv
<1> QED BY <1>4, <1>5, <1>6, Zenon DEF DaemonInv

(* main() wakes up. *)
LEMMA WakeUpStep == DaemonInv /\ WakeUp => DaemonInv'
<1> SUFFICES ASSUME DaemonInv, WakeUp PROVE DaemonInv'
  OBVIOUS
<1>1. /\ Label = "wait" /\ pc' = <<"reap", "sys">> /\ Label' = "reap"
      /\ UNCHANGED <<appM3Client, held, core, mmu, deh, attachFailed, restart, isEvent,
                     thrd, handler, outcome, raised, deaf, exiting, kills, killed>>
  BY Zenon DEF WakeUp, Label, setup, threads
<1>2. semDaemonWait' \in Nat
  BY DEF WakeUp, DaemonInv, Types, FlagTypes
<1>3. Counts' /\ CoresInv' /\ Progress' /\ Running' /\ Undone'
  BY <1>1, StandingStep, Zenon DEF Standing
<1>4. Types'
  BY <1>1, <1>2 DEF DaemonInv, Types, SetupTypes, ThreadTypes, FlagTypes, Positions, Cores
<1>5. ThreadsInv'
  BY <1>1, Zenon DEF DaemonInv, ThreadsInv, Wanted
<1> QED BY <1>3, <1>4, <1>5 DEF DaemonInv

(* What main() may do with the handler of core c once it is awake: test    *)
(* it, signal it, join it.  Whenever it goes on to the next one, this one  *)
(* is no longer its thread, and has ended.                                 *)
Reaping(c) ==
    /\ \E l \in {"reap", "kill", "join"} : pc = <<l, c>>
    /\ \/ pc' \in {<<"kill", c>>, <<"join", c>>} /\ UNCHANGED thrd
       \/ Reaped(c) /\ ~ thrd'[c] /\ thrd' \in {thrd, [thrd EXCEPT ![c] = FALSE]}
                    /\ (thrd[c] => handler[c] = "exited" /\ UNCHANGED handler)
    /\ \A d \in Cores : /\ handler'[d] \in Holding <=> handler[d] \in Holding
                        /\ handler'[d] \in Active <=> handler[d] \in Active
    /\ ThreadTypes'
    /\ UNCHANGED <<appM3Client, held, core, mmu, deh, attachFailed, restart, isEvent,
                   semDaemonWait, exiting, kills, killed>>

(* The three steps are such. *)
LEMMA ReapingSteps ==
    ASSUME DaemonInv, NEW c \in Cores, Reap(c) \/ KillHandler(c) \/ Join(c)
    PROVE  Reaping(c)
<1>1. ThreadTypes
  BY Zenon DEF DaemonInv, Types
<1>2. CASE Reap(c)
  BY <1>1, <1>2, Zenon DEF Reap, Reaping, ThreadTypes, setup, flags, threads
<1>3. CASE KillHandler(c)
  <2>1. CASE handler[c] = "exited"
    BY <1>1, <1>3, <2>1, Zenon DEF KillHandler, Reaping, ThreadTypes, setup, flags
  <2>2. CASE handler[c] # "exited"
    <3>1. Interrupt(c) /\ UNCHANGED <<raised, thrd>> /\ pc' = <<"join", c>> /\ pc = <<"kill", c>>
      BY <1>3, <2>2 DEF KillHandler
    <3>2. /\ ThreadTypes'
          /\ \A d \in Cores : /\ handler'[d] \in Holding <=> handler[d] \in Holding
                              /\ handler'[d] \in Active <=> handler[d] \in Active
      BY <1>1, <3>1, InterruptKeeps, Zenon DEF ThreadTypes
    <3> QED BY <1>3, <3>1, <3>2, Zenon DEF KillHandler, Reaping, setup, flags
  <2> QED BY <2>1, <2>2
<1>4. CASE Join(c)
  BY <1>1, <1>4, Zenon DEF Join, Reaping, ThreadTypes, setup, flags
<1> QED BY <1>2, <1>3, <1>4

(* They keep the invariant. *)
LEMMA ReapingStep ==
    ASSUME DaemonInv, NEW c \in Cores, Reaping(c)
    PROVE  DaemonInv'
<1>1. Label \in {"reap", "kill", "join"}
  BY DEF Reaping, Label
<1>2. /\ pc' \in {<<"kill", c>>, <<"join", c>>, <<"reap", "app">>, <<"cleanup", 1>>}
      /\ Label' \in {"reap", "kill", "join"} \/ pc' = <<"cleanup", 1>>
  BY DEF Reaping, Reaped, Label
<1>3. Counts' /\ CoresInv' /\ Progress' /\ Running' /\ Undone'
  BY <1>1, <1>2, StandingStep, Zenon DEF Reaping, Standing
<1>4. Types'
  <2>1. pc' \in Positions
    BY <1>2 DEF Positions, Cores
  <2>2. ThreadTypes' /\ SetupTypes' /\ FlagTypes'
    BY DEF Reaping, DaemonInv, Types, SetupTypes, FlagTypes
  <2> QED BY <2>1, <2>2, Zenon DEF Reaping, DaemonInv, Types
<1>5. ThreadsInv'
  <2>1. /\ ~ exiting /\ ~ exiting' /\ thrd \in [Cores -> BOOLEAN]
        /\ \A d \in Cores : /\ handler'[d] \in Active <=> handler[d] \in Active
                            /\ handler[d] \in Active => thrd[d]
                            /\ thrd[d] => Wanted(d)
        /\ c = "app" => ~ thrd["sys"]
    BY <1>1 DEF Reaping, DaemonInv, ThreadsInv, Types, ThreadTypes
  <2>2. CASE pc' \in {<<"kill", c>>, <<"join", c>>} /\ UNCHANGED thrd
    <3>1. Label' \in {"kill", "join"}
      BY <2>2 DEF Label
    <3> QED BY <2>1, <2>2, <3>1 DEF ThreadsInv, Reaping, Wanted, Cores
  <2>3. CASE /\ Reaped(c) /\ ~ thrd'[c] /\ thrd' \in {thrd, [thrd EXCEPT ![c] = FALSE]}
             /\ (thrd[c] => handler[c] = "exited" /\ UNCHANGED handler)
    <3>1. \A d \in Cores : thrd'[d] <=> thrd[d] /\ d # c
      BY <2>1, <2>3, Zenon
    <3>2. handler'[c] \notin Active
      BY <2>1, <2>3, Zenon DEF Active
    <3>3. CASE c = "sys"
      <4>1. pc' = <<"reap", "app">> /\ Label' = "reap"
        BY <2>3, <3>3, Zenon DEF Reaped, Label
      <4> QED BY <2>1, <3>1, <3>2, <3>3, <4>1, Zenon DEF ThreadsInv, Reaping, Wanted, Cores
    <3>4. CASE c = "app"
      <4>1. pc' = <<"cleanup", 1>> /\ Label' = "cleanup"
        BY <2>3, <3>4, Zenon DEF Reaped, Label
      <4> QED BY <2>1, <3>1, <3>2, <3>4, <4>1, Zenon DEF ThreadsInv, Reaping, Wanted, Cores
    <3> QED BY <3>3, <3>4, Zenon DEF Cores
  <2> QED BY <2>2, <2>3, Zenon DEF Reaping
<1> QED BY <1>3, <1>4, <1>5, Zenon DEF DaemonInv

(* A call of ipcCleanup() undoes one of ipcSetup(). *)
LEMMA UndoStep ==
    ASSUME DaemonInv, Label = "cleanup", NEW j \in 1 .. 16, Undo(SetupCalls[j]), UNCHANGED handler
    PROVE  /\ SetupTypes' /\ held' = held \ {SetupCalls[j]}
           /\ mmu' + Refs("app")' = deh'["sys"] + deh'["app"]
           /\ \A c \in Cores : /\ deh'[c] = Opens(c)' + Refs(c)'
                               /\ core'[c] # "off" => Call("start", c) \in held'
<1> DEFINE r == SetupCalls[j]
           c == r.core
<1>1. c \in Cores /\ r = Call(r.call, c)
  BY SetupOrder, Zenon
<1>2. /\ SetupTypes /\ mmu + Refs("app") = deh["sys"] + deh["app"]
      /\ \A d \in Cores : /\ deh[d] = Opens(d) + Refs(d)
                          /\ core[d] # "off" => Call("start", d) \in held
                          /\ Refs(d) \in 0 .. 1 /\ Refs(d)' = Refs(d)
  BY DEF DaemonInv, Types, Counts, CoresInv, Refs
<1>3. CASE r \notin held
  <2>1. UNCHANGED <<held, attachFailed, core, mmu, deh>> /\ held' = held \ {r}
    BY <1>3, Zenon DEF Undo, setup
  <2>2. SetupTypes' /\ \A d \in Cores : Opens(d)' = Opens(d)
    BY <1>2, <2>1, Zenon DEF SetupTypes, Opens
  <2> QED BY <1>2, <2>1, <2>2, Zenon DEF Cores
<1>4. CASE r \in held
  <2>1. /\ held' = held \ {r} /\ UNCHANGED attachFailed
        /\ IF r.call = "open" THEN CountClose(c) ELSE UNCHANGED <<mmu, deh>>
        /\ core' = IF r.call = "start" THEN [core EXCEPT ![c] = "off"] ELSE core
    BY <1>4, Zenon DEF Undo
  <2>2. \A d \in Cores : /\ Call("open", d) = r <=> r.call = "open" /\ d = c
                         /\ Call("start", d) = r <=> r.call = "start" /\ d = c
    BY <1>1 DEF Call
  <2> HIDE DEF c, r
  <2>3. /\ core' \in [Cores -> {"off", "running", "crashed"}]
        /\ \A d \in Cores : core'[d] # "off" => Call("start", d) \in held'
    BY <1>1, <1>2, <2>1, <2>2, Zenon DEF SetupTypes
  <2>4. CASE r.call = "open"
    <3>1. \A d \in Cores : Opens(d)' = IF d = c THEN 0 ELSE Opens(d)
      BY <2>1, <2>2, <2>4, Zenon DEF Opens
    <3>2. Opens(c) = 1
      BY <1>1, <1>4, <2>2, <2>4, Zenon DEF Opens
    <3>3. /\ mmu \in Nat /\ deh \in [Cores -> Nat] /\ mmu' = mmu - 1
          /\ deh' = [deh EXCEPT ![c] = deh[c] - 1]
      BY <1>2, <2>1, <2>4, Zenon DEF SetupTypes, CountClose
    <3>4. /\ deh' \in [Cores -> Nat]
          /\ \A d \in Cores : deh'[d] = Opens(d)' + Refs(d)'
      BY <1>1, <1>2, <3>1, <3>2, <3>3
    <3>5. mmu' + Refs("app")' = deh'["sys"] + deh'["app"] /\ mmu' \in Nat
      <4>1. deh'["sys"] + deh'["app"] = deh["sys"] + deh["app"] - 1
        BY <1>1, <3>3 DEF Cores
      <4>2. /\ deh'["sys"] \in Nat /\ deh'["app"] \in Nat
            /\ deh'["app"] = Opens("app")' + Refs("app")' /\ Opens("app")' \in Nat
            /\ Refs("app")' = Refs("app") /\ Refs("app") \in Nat
        BY <1>2, <3>4 DEF Cores, Opens
      <4> QED BY <1>2, <3>3, <4>1, <4>2
    <3>6. SetupTypes'
      BY <1>2, <2>1, <2>3, <3>4, <3>5, Zenon DEF SetupTypes
    <3> QED BY <2>1, <2>3, <3>4, <3>5, <3>6, Zenon DEF r
  <2>5. CASE r.call # "open"
    <3>1. UNCHANGED <<mmu, deh>> /\ \A d \in Cores : Opens(d)' = Opens(d)
      BY <2>1, <2>2, <2>5, Zenon DEF Opens
    <3>2. SetupTypes'
      BY <1>2, <2>1, <2>3, <3>1, Zenon DEF SetupTypes
    <3> QED BY <1>2, <2>1, <2>3, <3>1, <3>2, Zenon DEF r, Cores
  <2> QED BY <2>4, <2>5, Zenon
<1> QED BY <1>3, <1>4, Zenon

(* What the clean-up has still to undo is nothing at its end. *)
LEMMA CleanupEnds ==
    ASSUME NEW S \in SUBSET {SetupCalls[i] : i \in 1 .. 16}, \A j \in 1 .. 16 : CleanupCalls[j] \notin S
    PROVE  S = {}
BY AllUndone

(* ipcCleanup(). *)
LEMMA CleanupStep == DaemonInv /\ IpcCleanup => DaemonInv'
<1> SUFFICES ASSUME DaemonInv, IpcCleanup PROVE DaemonInv'
  OBVIOUS
<1>1. PICK i \in 1 .. 16 :
        /\ pc = <<"cleanup", i>> /\ Undo(CleanupCalls[i])
        /\ pc' = IF i < 16 THEN <<"cleanup", i + 1>>
                 ELSE IF restart /\ ~ exiting THEN <<"round">> ELSE <<"ended">>
        /\ UNCHANGED <<appM3Client, flags, threads, exiting, kills, killed>>
  BY AllUndone, Zenon DEF IpcCleanup
<1>2. PICK j \in 1 .. 16 : CleanupCalls[i] = SetupCalls[j]
  BY DEF CleanupCalls, SetupCalls, Call
<1>3. /\ Label = "cleanup"
      /\ UNCHANGED <<appM3Client, thrd, handler, outcome, raised, deaf, restart, isEvent,
                     semDaemonWait, exiting, kills, killed>>
  BY <1>1, Zenon DEF Label, flags, threads
<1>4. /\ SetupTypes' /\ held' = held \ {SetupCalls[j]}
      /\ mmu' + Refs("app")' = deh'["sys"] + deh'["app"]
      /\ \A c \in Cores : /\ deh'[c] = Opens(c)' + Refs(c)'
                          /\ core'[c] # "off" => Call("start", c) \in held'
  BY <1>1, <1>2, <1>3, UndoStep, Zenon
<1>5. \A k \in 1 .. i : CleanupCalls[k] \notin held'
  BY <1>1, <1>2, <1>4 DEF DaemonInv, Undone
<1>6. i = 16 => held' = {}
  BY <1>4, <1>5, CleanupEnds, Zenon DEF SetupTypes
<1>7. pc' \in {<<"cleanup", i + 1>>, <<"round">>, <<"ended">>} /\ (pc' = <<"cleanup", i + 1>> <=> i < 16)
  BY <1>1
<1>8. Label' \in {"cleanup", "round", "ended"} /\ (Label' \in {"round", "ended"} => i = 16)
  BY <1>1 DEF Label
<1>9. Types'
  <2>1. pc' \in Positions
    BY <1>7 DEF Positions
  <2>2. ThreadTypes' /\ FlagTypes'
    BY <1>3, Zenon DEF DaemonInv, Types, ThreadTypes, FlagTypes
  <2> QED BY <1>3, <1>4, <2>1, <2>2 DEF DaemonInv, Types
<1>10. Counts' /\ CoresInv'
  BY <1>4, <1>8, Zenon DEF Counts, CoresInv
<1>11. Progress' /\ Running'
  BY <1>8 DEF Progress, Running, Label
<1>12. Undone'
  BY <1>5, <1>6, <1>7, <1>8 DEF Undone
<1>13. ThreadsInv'
  <2>1. \A c \in Cores : ~ thrd[c] /\ (handler[c] \in Active => exiting)
    BY <1>3, Zenon DEF DaemonInv, ThreadsInv
  <2>2. exiting => Label' \in {"cleanup", "ended"}
    BY <1>1, Zenon DEF Label
  <2>3. /\ pc' \notin {<<"spawn", "sys">>, <<"spawn", "app">>}
        /\ pc' \notin {<<l, "app">> : l \in {"reap", "kill", "join"}}
    BY <1>7
  <2> QED BY <1>3, <2>1, <2>2, <2>3, Zenon DEF ThreadsInv
<1> QED BY <1>9, <1>10, <1>11, <1>12, <1>13, Zenon DEF DaemonInv

(* A core crashes. *)
LEMMA CrashStep ==
    ASSUME DaemonInv, NEW c \in Cores, Crash(c)
    PROVE  DaemonInv'
<1>1. /\ core[c] = "running" /\ core' = [core EXCEPT ![c] = "crashed"]
      /\ raised' = [raised EXCEPT ![c] = handler[c] \in {"armed", "select"}]
      /\ UNCHANGED <<pc, appM3Client, held, attachFailed, mmu, deh, restart, isEvent,
                     semDaemonWait, thrd, handler, outcome, deaf, exiting, kills, killed>>
  BY Zenon DEF Crash, flags
<1>2. Types'
  <2>1. SetupTypes' /\ ThreadTypes'
    BY <1>1 DEF DaemonInv, Types, SetupTypes, ThreadTypes
  <2> QED BY <1>1, <2>1, Zenon DEF DaemonInv, Types, FlagTypes
<1>3. CoresInv' /\ Running' /\ Undone'
  <2>1. \A d \in Cores : core'[d] # "off" => core[d] # "off"
    BY <1>1, Zenon DEF DaemonInv, Types, SetupTypes
  <2> QED BY <1>1, <2>1, MainKept, Zenon
<1>4. Counts' /\ Progress' /\ ThreadsInv'
  BY <1>1, Zenon DEF DaemonInv, Counts, Progress, ThreadsInv, Opens, Refs, Label, Wanted
<1> QED BY <1>2, <1>3, <1>4, Zenon DEF DaemonInv

(* Steps that change nothing the invariant relates. *)
LEMMA SignalStep ==
    ASSUME DaemonInv, SignalHandler \/ UNCHANGED vars
    PROVE  DaemonInv'
<1>1. UNCHANGED <<pc, appM3Client, held, attachFailed, core, mmu, deh, restart, isEvent, thrd,
                  handler, outcome, raised, deaf, exiting>>
  BY DEF SignalHandler, vars, setup, flags, threads
<1>2. FlagTypes'
  <2>1. CASE SignalHandler
    <3>1. /\ kills \in 0 .. MaxKills /\ kills < MaxKills /\ kills' = kills + 1
          /\ semDaemonWait \in Nat /\ semDaemonWait' = semDaemonWait + 1
      BY <2>1, Zenon DEF SignalHandler, DaemonInv, Types, FlagTypes
    <3>2. kills' \in 0 .. MaxKills /\ semDaemonWait' \in Nat
      BY <3>1, DaemonAssumption
    <3> QED BY <1>1, <2>1, <3>2, Zenon DEF SignalHandler, DaemonInv, Types, FlagTypes
  <2>2. CASE UNCHANGED vars
    BY <2>2, Zenon DEF DaemonInv, Types, FlagTypes, vars, flags
  <2> QED BY <2>1, <2>2, Zenon
<1>3. Types'
  BY <1>1, <1>2, Zenon DEF DaemonInv, Types, SetupTypes, ThreadTypes
<1>4. CoresInv' /\ Running' /\ Undone'
  BY <1>1, MainKept, Zenon
<1>5. Counts' /\ Progress' /\ ThreadsInv'
  BY <1>1, Zenon DEF DaemonInv, Counts, Progress, ThreadsInv, Opens, Refs, Label, Wanted
<1> QED BY <1>3, <1>4, <1>5, Zenon DEF DaemonInv

-----------------------------------------------------------------------------
(* The references to the drivers, the cores and the handler threads follow *)
(* what main() has set up, through crashes, KILLs and failures at any      *)
(* moment of any round.                                                    *)
THEOREM DaemonInvariant == Spec => []DaemonInv
<1>1. Init => DaemonInv
  BY InitDaemon, Zenon
<1>2. DaemonInv /\ [Next]_vars => DaemonInv'
  <2> SUFFICES ASSUME DaemonInv, [Next]_vars PROVE DaemonInv'
    BY Zenon
  <2>1. CASE StartRound \/ IpcSetup \/ NoAppHandler \/ WakeUp \/ IpcCleanup
    BY <2>1, StartRoundStep, SetupStep, NoAppHandlerStep, WakeUpStep, CleanupStep, Zenon
  <2>2. ASSUME NEW c \in Cores, Spawn(c) \/ SpawnFails(c) PROVE DaemonInv'
    BY <2>2, SpawnStep, SpawnFailsStep, Zenon
  <2>3. ASSUME NEW c \in Cores, Reap(c) \/ KillHandler(c) \/ Join(c) PROVE DaemonInv'
    BY <2>3, ReapingSteps, ReapingStep, Zenon
  <2>4. ASSUME NEW c \in Cores, Handler(c) \/ Crash(c) PROVE DaemonInv'
    BY <2>4, HandlerStep, CrashStep, Zenon
  <2>5. CASE SignalHandler \/ UNCHANGED vars
    BY <2>5, SignalStep
  <2> QED BY <2>1, <2>2, <2>3, <2>4, <2>5, Zenon DEF Next, MainThread
<1> QED BY <1>1, <1>2, PTL DEF Spec

(* Every round begins as the first one did: nothing is held, no reference  *)
(* is counted, the cores are off and no handler thread is left.            *)
THEOREM RoundsStartClean == Spec => []RestartsClean
<1>1. DaemonInv => RestartsClean
  <2> SUFFICES ASSUME DaemonInv, pc = <<"round">>
               PROVE  /\ held = {} /\ mmu = 0
                      /\ \A c \in Cores : /\ deh[c] = 0 /\ core[c] = "off" /\ ~ thrd[c]
                                          /\ handler[c] \in {"none", "exited"}
    BY DEF RestartsClean
  <2>1. Label = "round" /\ held = {}
    BY Zenon DEF Label, DaemonInv, Undone
  <2>2. \A c \in Cores : ~ thrd[c] /\ handler[c] \notin Active /\ handler[c] \in Points
    BY <2>1, Zenon DEF DaemonInv, ThreadsInv, Types, ThreadTypes
  <2>3. \A c \in Cores : Refs(c) = 0 /\ Opens(c) = 0
    BY <2>1, <2>2, Zenon DEF Refs, Opens, Holding, Active, Points
  <2>4. \A c \in Cores : deh[c] = 0 /\ core[c] = "off"
    BY <2>1, <2>3 DEF DaemonInv, Counts, CoresInv
  <2>5. mmu = 0
    BY <2>3, <2>4 DEF DaemonInv, Counts, Types, SetupTypes, Cores
  <2> QED BY <2>1, <2>2, <2>4, <2>5, Zenon DEF Active
<1> QED BY <1>1, DaemonInvariant, PTL

(* A handler thread runs only while its core is open and started, unless   *)
(* main() exits because the other thread could not be created.             *)
THEOREM HandlersStayInside == Spec => []HandlersInsideRound
<1>1. DaemonInv => HandlersInsideRound
  <2> SUFFICES ASSUME DaemonInv, NEW c \in Cores, handler[c] \notin {"none", "exited"}, ~ Stopped,
                      ~ exiting
               PROVE  /\ Label \in Standing
                      /\ Call("open", c) \in held /\ Call("start", c) \in held
    BY DEF HandlersInsideRound, Standing
  <2>1. handler[c] \in Active
    BY Zenon DEF DaemonInv, Types, ThreadTypes, Active
  <2>2. thrd[c] /\ Wanted(c)
    BY <2>1, Zenon DEF DaemonInv, ThreadsInv
  <2>3. Label \in Standing
    BY <2>2, PositionIs, Zenon DEF DaemonInv, ThreadsInv, Types, Stopped, Standing
  <2> QED BY <2>2, <2>3, Zenon DEF DaemonInv, Running, Standing
<1> QED BY <1>1, DaemonInvariant, PTL

(* The variables keep their types: no reference count goes below zero, and *)
(* ipcSetup() holds nothing but its own calls.                             *)
THEOREM TypeCorrect == Spec => []TypeOK
<1>1. DaemonInv => TypeOK
  <2> SUFFICES ASSUME DaemonInv PROVE TypeOK
    BY Zenon
  <2>1. Label \in {"round", "setup", "spawn", "wait", "reap", "kill", "join", "cleanup",
                   "ended", "failed"}
    BY PositionIs, Zenon DEF DaemonInv, Types
  <2>2. held \subseteq {SetupCalls[i] : i \in DOMAIN SetupCalls}
    BY AllUndone, Zenon DEF DaemonInv, Types, SetupTypes
  <2>3. /\ {restart, attachFailed, exiting, killed} \subseteq BOOLEAN
        /\ {isEvent, thrd, raised, deaf} \subseteq [Cores -> BOOLEAN]
    BY DEF DaemonInv, Types, SetupTypes, ThreadTypes, FlagTypes
  <2> QED BY <2>1, <2>2, <2>3, Zenon DEF TypeOK, DaemonInv, Types, SetupTypes, ThreadTypes, FlagTypes
<1> QED BY <1>1, DaemonInvariant, PTL
=============================================================================
