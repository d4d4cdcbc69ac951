------------------------- MODULE CameraAdapterState -------------------------
(***************************************************************************)
(* The state machine of BaseCameraAdapter: sendCommand() with setState(),  *)
(* commitState() and rollbackState(), rollbackToInitializedState(), and    *)
(* the two places where the adapter's own threads change the state:        *)
(* returnFocusStatus() (CANCEL_AUTOFOCUS, command thread) and advanceZoom()*)
(* (STOP_SMOOTH_ZOOM, OMX callback thread).                                *)
(*                                                                         *)
(* setState() locks mLock and leaves it locked; commitState() and          *)
(* rollbackState() unlock it.  Between them the adapter's operation runs.  *)
(* Every thread takes one step per critical point of that code, so that    *)
(* commands of several threads interleave as they do there.                *)
(***************************************************************************)
EXTENDS AdapterStates

CONSTANTS Clients,   \* threads that call sendCommand() (CameraHal, its callbacks)
          Workers,   \* the adapter's own threads that are running
          Fallible,  \* the commands whose adapter operation may fail
          NoThread,  \* mLock and mZoomLock are free
          Garbage    \* value of mNextState before its first assignment

(* The thread of CommandHandler and the thread of OMXCallbackHandler. *)
AdapterThreads == {"command", "callback"}

Threads == Clients \cup Workers

ASSUME ThreadsAssumption ==
    /\ Workers \subseteq AdapterThreads
    /\ Clients \cap Workers = {}
    /\ NoThread \notin Threads
    /\ Garbage \notin AdapterState

VARIABLES mAdapterState, mNextState,
          mLock,       \* the thread that holds the state lock, or NoThread
          mZoomLock,   \* the thread that holds the zoom lock, or NoThread
          mRecording,
          pc,          \* where each thread is
          op,          \* the command each thread executes
          ret,         \* the local ret of that command, then its result
          rolling      \* the thread is inside rollbackToInitializedState()

vars == <<mAdapterState, mNextState, mLock, mZoomLock, mRecording, pc, op, ret, rolling>>

Result == {"NO_ERROR", "INVALID_OPERATION", "ERROR"}
Points == {"idle", "setState", "perform", "resolve", "rbLoop", "rbPrevious"}

Init ==
    /\ mAdapterState = INTIALIZED_STATE
    /\ mNextState = Garbage
    /\ mLock = NoThread
    /\ mZoomLock = NoThread
    /\ mRecording = FALSE
    /\ pc = [t \in Threads |-> "idle"]
    /\ op = [t \in Threads |-> "NONE"]
    /\ ret = [t \in Threads |-> "NO_ERROR"]
    /\ rolling = [t \in Threads |-> FALSE]

Goto(t, point) == pc' = [pc EXCEPT ![t] = point]

-----------------------------------------------------------------------------
(***************************************************************************)
(* Entering a command.  CameraHal hands out buffers only after a           *)
(* QUERY_RESOLUTION_PREVIEW (CameraHal::startPreview), hence the guard on  *)
(* the USE_BUFFERS commands.  A USE_BUFFERS command without descriptor, and *)
(* START_FD, STOP_FD and SWITCH_TO_EXECUTING, return without touching the  *)
(* state machine or its lock, and are no step of this module.              *)
(***************************************************************************)
SendCommand(c, command) ==
    /\ pc[c] = "idle"
    /\ command \in UseBuffersCommands => mNextState # Garbage
    /\ Goto(c, "setState")
    /\ op' = [op EXCEPT ![c] = command]
    /\ ret' = [ret EXCEPT ![c] = "NO_ERROR"]
    /\ UNCHANGED <<mAdapterState, mNextState, mLock, mZoomLock, mRecording, rolling>>

(***************************************************************************)
(* setState(): blocks on mLock and keeps it.  A command in no row of the   *)
(* table leaves mNextState alone and reports INVALID_OPERATION.  Only the  *)
(* USE_BUFFERS commands go on to their operation after that.               *)
(***************************************************************************)
Performs(t) == t \in Clients /\ (op[t] \in UseBuffersCommands \/ Accepts(mAdapterState, op[t]))

SetState(t) ==
    /\ pc[t] = "setState"
    /\ mLock = NoThread
    /\ mLock' = t
    /\ \/ \E next \in AdapterState :
             /\ <<mAdapterState, op[t], next>> \in Transitions
             /\ mNextState' = next
             /\ ret' = [ret EXCEPT ![t] = "NO_ERROR"]
       \/ /\ ~ Accepts(mAdapterState, op[t])
          /\ ret' = [ret EXCEPT ![t] = "INVALID_OPERATION"]
          /\ UNCHANGED mNextState
    /\ Goto(t, IF Performs(t) THEN "perform" ELSE "resolve")
    /\ UNCHANGED <<mAdapterState, mZoomLock, mRecording, op, rolling>>

(***************************************************************************)
(* The operation of the command, with mLock held; its result replaces ret. *)
(* start/stopVideoCapture() switch mRecording and refuse with NO_INIT when *)
(* it already has the value; start/stopSmoothZoom() take mZoomLock.        *)
(***************************************************************************)
Perform(c) ==
    /\ pc[c] = "perform"
    /\ op[c] \in {"START_SMOOTH_ZOOM", "STOP_SMOOTH_ZOOM"} => mZoomLock = NoThread
    /\ \E r \in {"NO_ERROR", "ERROR"} :
          /\ r = "ERROR" => \/ op[c] \in Fallible
                            \/ op[c] = "START_VIDEO" /\ mRecording
                            \/ op[c] = "STOP_VIDEO" /\ ~ mRecording
          /\ r = "NO_ERROR" => /\ ~ (op[c] = "START_VIDEO" /\ mRecording)
                               /\ ~ (op[c] = "STOP_VIDEO" /\ ~ mRecording)
          /\ ret' = [ret EXCEPT ![c] = r]
          /\ mRecording' = IF r = "ERROR" THEN mRecording
                           ELSE \/ op[c] = "START_VIDEO"
                                \/ op[c] # "STOP_VIDEO" /\ mRecording
    /\ Goto(c, "resolve")
    /\ UNCHANGED <<mAdapterState, mNextState, mLock, mZoomLock, op, rolling>>

(* Where a thread goes once its command has returned; op and ret are       *)
(* locals of that command, the rollback loop keeps its result.  A worker   *)
(* that holds mZoomLock (advanceZoom) drops it on the way out.             *)
Leave(t) ==
    /\ op' = [op EXCEPT ![t] = "NONE"]
    /\ ret' = IF rolling[t] THEN ret ELSE [ret EXCEPT ![t] = "NO_ERROR"]
    /\ Goto(t, IF rolling[t] THEN "rbLoop" ELSE "idle")
    /\ mZoomLock' = IF mZoomLock = t THEN NoThread ELSE mZoomLock

CommitState(t) ==
    /\ pc[t] = "resolve"
    /\ ret[t] = "NO_ERROR"
    /\ mAdapterState' = mNextState
    /\ mLock' = NoThread
    /\ Leave(t)
    /\ UNCHANGED <<mNextState, mRecording, rolling>>

(* Mutants: the next state is not reset; the lock is not released. *)
RollbackStateKeepsNext(t) ==
    /\ pc[t] = "resolve"
    /\ ret[t] # "NO_ERROR"
    /\ mLock' = NoThread
    /\ Leave(t)
    /\ UNCHANGED <<mAdapterState, mNextState, mRecording, rolling>>

RollbackStateKeepsLock(t) ==
    /\ pc[t] = "resolve"
    /\ ret[t] # "NO_ERROR"
    /\ mNextState' = mAdapterState
    /\ Leave(t)
    /\ UNCHANGED <<mAdapterState, mLock, mRecording, rolling>>

RollbackState(t) ==
    /\ pc[t] = "resolve"
    /\ ret[t] # "NO_ERROR"
    /\ mNextState' = mAdapterState
    /\ mLock' = NoThread
    /\ Leave(t)
    /\ UNCHANGED <<mAdapterState, mRecording, rolling>>

-----------------------------------------------------------------------------
(***************************************************************************)
(* The adapter's own threads test the state without mLock, and change it   *)
(* with setState() later.  returnFocusStatus() looks at both states;       *)
(* advanceZoom() at the current one only, holding mZoomLock from before    *)
(* the test until it returns.                                              *)
(***************************************************************************)
ReturnFocusStatus(w) ==
    /\ w = "command"
    /\ pc[w] = "idle"
    /\ "AF" \in mAdapterState \/ (mNextState # Garbage /\ "AF" \in mNextState)
    /\ Goto(w, "setState")
    /\ op' = [op EXCEPT ![w] = "CANCEL_AUTOFOCUS"]
    /\ UNCHANGED <<mAdapterState, mNextState, mLock, mZoomLock, mRecording, ret, rolling>>

AdvanceZoomStops(w) ==
    /\ w = "callback"
    /\ pc[w] = "idle"
    /\ mZoomLock = NoThread
    /\ "ZOOM" \in mAdapterState
    /\ mZoomLock' = w
    /\ Goto(w, "setState")
    /\ op' = [op EXCEPT ![w] = "STOP_SMOOTH_ZOOM"]
    /\ UNCHANGED <<mAdapterState, mNextState, mLock, mRecording, ret, rolling>>

-----------------------------------------------------------------------------
(***************************************************************************)
(* rollbackToInitializedState(): the loop test and the switch of           *)
(* rollbackToPreviousState() each read the state with the lock held and    *)
(* released again; sendCommand() then locks anew.                          *)
(***************************************************************************)
RollbackToInitializedState(c) ==
    /\ pc[c] = "idle"
    /\ Goto(c, "rbLoop")
    /\ rolling' = [rolling EXCEPT ![c] = TRUE]
    /\ ret' = [ret EXCEPT ![c] = "NO_ERROR"]
    /\ UNCHANGED <<mAdapterState, mNextState, mLock, mZoomLock, mRecording, op>>

(* Mutant: the loop does not look at the result of the last step. *)
RollbackLoopIgnoresResult(c) ==
    /\ pc[c] = "rbLoop"
    /\ mLock = NoThread
    /\ LET goesOn == mAdapterState # INTIALIZED_STATE
       IN  /\ Goto(c, IF goesOn THEN "rbPrevious" ELSE "idle")
           /\ rolling' = [rolling EXCEPT ![c] = goesOn]
           /\ ret' = [ret EXCEPT ![c] = "NO_ERROR"]
    /\ UNCHANGED <<mAdapterState, mNextState, mLock, mZoomLock, mRecording, op>>

RollbackLoop(c) ==
    /\ pc[c] = "rbLoop"
    /\ mLock = NoThread
    /\ LET goesOn == mAdapterState # INTIALIZED_STATE /\ ret[c] = "NO_ERROR"
       IN  /\ Goto(c, IF goesOn THEN "rbPrevious" ELSE "idle")
           /\ rolling' = [rolling EXCEPT ![c] = goesOn]
           /\ ret' = [ret EXCEPT ![c] = "NO_ERROR"]
    /\ UNCHANGED <<mAdapterState, mNextState, mLock, mZoomLock, mRecording, op>>

RollbackToPreviousState(c) ==
    /\ pc[c] = "rbPrevious"
    /\ mLock = NoThread
    /\ \/ \E command \in OperationCommands :
             /\ <<mAdapterState, command>> \in UndoCommand
             /\ op' = [op EXCEPT ![c] = command]
             /\ Goto(c, "setState")
             /\ UNCHANGED ret
       \/ /\ \A command \in OperationCommands : <<mAdapterState, command>> \notin UndoCommand
          /\ ret' = [ret EXCEPT ![c] = IF mAdapterState = INTIALIZED_STATE
                                       THEN "NO_ERROR" ELSE "INVALID_OPERATION"]
          /\ Goto(c, "rbLoop")
          /\ UNCHANGED op
    /\ UNCHANGED <<mAdapterState, mNextState, mLock, mZoomLock, mRecording, rolling>>

-----------------------------------------------------------------------------
Send(c) ==
    \/ \E command \in CameraCommands : SendCommand(c, command)
    \/ RollbackToInitializedState(c)

(* The steps a client takes by itself once it has called the adapter. *)
ClientStep(c) ==
    \/ SetState(c) \/ Perform(c) \/ CommitState(c) \/ RollbackState(c)
    \/ RollbackLoop(c) \/ RollbackToPreviousState(c)

WorkerStep(w) == SetState(w) \/ CommitState(w) \/ RollbackState(w)

Next ==
    \/ \E c \in Clients : Send(c) \/ ClientStep(c)
    \/ \E w \in Workers : ReturnFocusStatus(w) \/ AdvanceZoomStops(w) \/ WorkerStep(w)

Spec == Init /\ [][Next]_vars

(* Threads keep running inside the adapter; nobody has to call it. *)
Fairness ==
    /\ \A c \in Clients : WF_vars(ClientStep(c))
    /\ \A w \in Workers : WF_vars(WorkerStep(w))

FairSpec == Spec /\ Fairness

-----------------------------------------------------------------------------
(* The type invariant: the state variables hold enumerated states, and the *)
(* zoom lock is only ever held by an adapter thread.                       *)
TypeOK ==
    /\ mAdapterState \in AdapterState
    /\ mNextState \in AdapterState \cup {Garbage}
    /\ mLock \in Threads \cup {NoThread}
    /\ mZoomLock \in Workers \cup {NoThread}
    /\ mRecording \in BOOLEAN
    /\ pc \in [Threads -> Points]
    /\ op \in [Threads -> CameraCommands \cup {"NONE"}]
    /\ ret \in [Threads -> Result]
    /\ rolling \in [Threads -> BOOLEAN]

(***************************************************************************)
(* Whenever the state lock is free the two state variables agree (or no    *)
(* command has run yet).  CameraHal::takePicture() and the callbacks that  *)
(* read one state or the other rely on it, and so does the commit of a     *)
(* USE_BUFFERS command that setState() refused.                            *)
(***************************************************************************)
Settled == mLock = NoThread => mNextState \in {mAdapterState, Garbage}

(***************************************************************************)
(* Whenever the state lock is free mRecording says whether the state is a  *)
(* video state: start/stopVideoCapture() and the state table stay in step, *)
(* whatever the order of zoom, focus, capture and video commands.          *)
(***************************************************************************)
RecordingMatchesState == mLock = NoThread => (mRecording <=> "VIDEO" \in mAdapterState)

(***************************************************************************)
(* The inductive strengthening of Settled and RecordingMatchesState: what  *)
(* holds for the thread inside the lock.  A switch that was accepted is a  *)
(* row of the table; one that was refused has left mNextState alone and    *)
(* only a USE_BUFFERS command goes on with it; and mRecording belongs to   *)
(* the state that commitState() or rollbackState() is about to leave.      *)
(***************************************************************************)
Recording(state) == "VIDEO" \in state

ThreadInv(t) ==
    /\ mLock = t <=> pc[t] \in {"perform", "resolve"}
    /\ t \in Workers =>
          pc[t] # "perform" /\ op[t] \in {"NONE", "CANCEL_AUTOFOCUS", "STOP_SMOOTH_ZOOM"}
    /\ op[t] \in UseBuffersCommands => mNextState # Garbage
    /\ pc[t] \in {"perform", "resolve"} =>
          \/ <<mAdapterState, op[t], mNextState>> \in Transitions
          \/ /\ ~ Accepts(mAdapterState, op[t])
             /\ mNextState \in {mAdapterState, Garbage}
             /\ (ret[t] = "NO_ERROR" \/ pc[t] = "perform") => op[t] \in UseBuffersCommands
    /\ pc[t] = "perform" => (mRecording <=> Recording(mAdapterState))
    /\ pc[t] = "resolve" =>
          (mRecording <=> Recording(IF ret[t] = "NO_ERROR" THEN mNextState ELSE mAdapterState))

IndInv ==
    /\ TypeOK
    /\ Settled
    /\ RecordingMatchesState
    /\ \A t \in Threads : ThreadInv(t)

(***************************************************************************)
(* A command that setState() refuses does not change the adapter's state,  *)
(* although the USE_BUFFERS commands run their operation and commit after  *)
(* the refusal.                                                            *)
(***************************************************************************)
RefusedKeepsState ==
    [][\A t \in Threads :
         (mLock = t /\ mLock' = NoThread /\ ~ Accepts(mAdapterState, op[t]))
            => mAdapterState' = mAdapterState]_vars

(***************************************************************************)
(* Where rollbackToInitializedState() can leave an adapter that one client *)
(* uses, whose operations do not fail and whose zoom thread is quiet:      *)
(* initialised, or stuck in one of the LOADED states, or in VIDEO when the *)
(* focus thread ended the VIDEO_AF state the rollback had just read.  It   *)
(* never gives up in a preview, focus, zoom or capture state.              *)
(***************************************************************************)
LoadedStates == { LOADED_PREVIEW_STATE, LOADED_CAPTURE_STATE, VIDEO_LOADED_CAPTURE_STATE }

RollbackEnds(c) == pc[c] = "rbLoop" /\ pc'[c] = "idle"

RollbackNeverStrands ==
    [][\A c \in Clients : RollbackEnds(c) =>
          mAdapterState \in LoadedStates \cup {INTIALIZED_STATE, VIDEO_STATE}]_vars

(* BaseCameraAdapter.h: "Every call to setState() should be followed by a  *)
(* corresponding call to commitState()" or rollbackState(): the state lock *)
(* is always released again.                                               *)
LockReleased == (mLock # NoThread) ~> (mLock = NoThread)

(* A rollback of the only client always returns. *)
RollbackReturns == \A c \in Clients : rolling[c] ~> ~ rolling[c]
=============================================================================
