------------------------ MODULE MCCameraAdapterState ------------------------
(* Small instances of CameraAdapterState for TLC. *)
EXTENDS CameraAdapterState

CONSTANTS c1, c2

MCTwoClients == {c1, c2}
MCOneClient == {c1}

MCBothWorkers == AdapterThreads
MCFocusWorker == {"command"}
MCZoomWorker == {"callback"}

MCAnyFails == CameraCommands
MCNoneFails == {}
=============================================================================
