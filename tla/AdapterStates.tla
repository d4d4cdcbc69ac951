---------------------------- MODULE AdapterStates ----------------------------
(***************************************************************************)
(* The states and the commands of the camera adapter, and the table of     *)
(* BaseCameraAdapter::setState().  A state of the code is an OR of *_ACTIVE *)
(* bits (CameraHal.h); here it is the set of those bits, so that the test  *)
(* "AF_ACTIVE & state" of the code is "AF" \in state.                      *)
(***************************************************************************)

INTIALIZED_STATE           == {"INTIALIZED"}
LOADED_PREVIEW_STATE       == {"INTIALIZED", "LOADED_PREVIEW"}
PREVIEW_STATE              == {"INTIALIZED", "PREVIEW"}
LOADED_CAPTURE_STATE       == {"INTIALIZED", "PREVIEW", "LOADED_CAPTURE"}
CAPTURE_STATE              == {"INTIALIZED", "PREVIEW", "CAPTURE"}
BRACKETING_STATE           == {"INTIALIZED", "PREVIEW", "CAPTURE", "BRACKETING"}
AF_STATE                   == {"INTIALIZED", "PREVIEW", "AF"}
ZOOM_STATE                 == {"INTIALIZED", "PREVIEW", "ZOOM"}
VIDEO_STATE                == {"INTIALIZED", "PREVIEW", "VIDEO"}
VIDEO_AF_STATE             == {"INTIALIZED", "PREVIEW", "VIDEO", "AF"}
VIDEO_ZOOM_STATE           == {"INTIALIZED", "PREVIEW", "VIDEO", "ZOOM"}
VIDEO_LOADED_CAPTURE_STATE == {"INTIALIZED", "PREVIEW", "VIDEO", "LOADED_CAPTURE"}
VIDEO_CAPTURE_STATE        == {"INTIALIZED", "PREVIEW", "VIDEO", "CAPTURE"}
AF_ZOOM_STATE              == {"INTIALIZED", "PREVIEW", "AF", "ZOOM"}
BRACKETING_ZOOM_STATE      == {"INTIALIZED", "PREVIEW", "BRACKETING", "ZOOM"}

AdapterState ==
    { INTIALIZED_STATE, LOADED_PREVIEW_STATE, PREVIEW_STATE, LOADED_CAPTURE_STATE,
      CAPTURE_STATE, BRACKETING_STATE, AF_STATE, ZOOM_STATE, VIDEO_STATE,
      VIDEO_AF_STATE, VIDEO_ZOOM_STATE, VIDEO_LOADED_CAPTURE_STATE,
      VIDEO_CAPTURE_STATE, AF_ZOOM_STATE, BRACKETING_ZOOM_STATE }

(***************************************************************************)
(* The commands that go through the state machine, by the way sendCommand()*)
(* handles them: with a buffer descriptor, or with a call of a virtual     *)
(* operation of the adapter.                                               *)
(***************************************************************************)
UseBuffersCommands ==
    { "USE_BUFFERS_PREVIEW", "USE_BUFFERS_PREVIEW_DATA",
      "USE_BUFFERS_IMAGE_CAPTURE", "USE_BUFFERS_VIDEO_CAPTURE" }

OperationCommands ==
    { "START_PREVIEW", "STOP_PREVIEW", "START_VIDEO", "STOP_VIDEO",
      "START_IMAGE_CAPTURE", "STOP_IMAGE_CAPTURE", "START_BRACKET_CAPTURE",
      "STOP_BRACKET_CAPTURE", "PERFORM_AUTOFOCUS", "CANCEL_AUTOFOCUS",
      "START_SMOOTH_ZOOM", "STOP_SMOOTH_ZOOM", "QUERY_RESOLUTION_PREVIEW",
      "QUERY_BUFFER_SIZE_IMAGE_CAPTURE", "QUERY_BUFFER_SIZE_PREVIEW_DATA" }

CameraCommands == UseBuffersCommands \cup OperationCommands

(***************************************************************************)
(* setState()'s table: one row per group of case labels, the state, the    *)
(* commands accepted in it, and the state they lead to.  What is in no row *)
(* is the "Invalid Op!" default of the code.                               *)
(***************************************************************************)
Row(state, commands, next) == {state} \X commands \X {next}

PreviewRows ==
    Row(INTIALIZED_STATE, {"USE_BUFFERS_PREVIEW"}, LOADED_PREVIEW_STATE)
    \cup Row(INTIALIZED_STATE,
             {"QUERY_RESOLUTION_PREVIEW", "QUERY_BUFFER_SIZE_IMAGE_CAPTURE",
              "QUERY_BUFFER_SIZE_PREVIEW_DATA"}, INTIALIZED_STATE)
    \cup Row(LOADED_PREVIEW_STATE, {"START_PREVIEW"}, PREVIEW_STATE)
    \cup Row(LOADED_PREVIEW_STATE,
             {"QUERY_BUFFER_SIZE_IMAGE_CAPTURE", "QUERY_BUFFER_SIZE_PREVIEW_DATA",
              "USE_BUFFERS_PREVIEW_DATA"}, LOADED_PREVIEW_STATE)
    \cup Row(PREVIEW_STATE, {"STOP_PREVIEW"}, INTIALIZED_STATE)
    \cup Row(PREVIEW_STATE, {"PERFORM_AUTOFOCUS"}, AF_STATE)
    \cup Row(PREVIEW_STATE, {"START_SMOOTH_ZOOM"}, ZOOM_STATE)
    \cup Row(PREVIEW_STATE, {"USE_BUFFERS_IMAGE_CAPTURE"}, LOADED_CAPTURE_STATE)
    \cup Row(PREVIEW_STATE, {"START_VIDEO"}, VIDEO_STATE)
    \cup Row(PREVIEW_STATE,
             {"CANCEL_AUTOFOCUS", "QUERY_BUFFER_SIZE_IMAGE_CAPTURE",
              "STOP_SMOOTH_ZOOM"}, PREVIEW_STATE)

CaptureRows ==
    Row(LOADED_CAPTURE_STATE, {"START_IMAGE_CAPTURE"}, CAPTURE_STATE)
    \cup Row(LOADED_CAPTURE_STATE, {"START_BRACKET_CAPTURE"}, BRACKETING_STATE)
    \cup Row(CAPTURE_STATE, {"STOP_IMAGE_CAPTURE", "STOP_BRACKET_CAPTURE"},
             PREVIEW_STATE)
    \cup Row(BRACKETING_STATE, {"STOP_IMAGE_CAPTURE", "STOP_BRACKET_CAPTURE"},
             PREVIEW_STATE)
    \cup Row(BRACKETING_STATE, {"START_IMAGE_CAPTURE"}, CAPTURE_STATE)

AFZoomRows ==
    Row(AF_STATE, {"CANCEL_AUTOFOCUS"}, PREVIEW_STATE)
    \cup Row(AF_STATE, {"START_SMOOTH_ZOOM"}, AF_ZOOM_STATE)
    \cup Row(ZOOM_STATE, {"CANCEL_AUTOFOCUS"}, ZOOM_STATE)
    \cup Row(ZOOM_STATE, {"STOP_SMOOTH_ZOOM"}, PREVIEW_STATE)
    \cup Row(ZOOM_STATE, {"PERFORM_AUTOFOCUS"}, AF_ZOOM_STATE)
    \cup Row(ZOOM_STATE, {"START_VIDEO"}, VIDEO_ZOOM_STATE)
    \cup Row(AF_ZOOM_STATE, {"STOP_SMOOTH_ZOOM"}, AF_STATE)
    \cup Row(AF_ZOOM_STATE, {"CANCEL_AUTOFOCUS"}, ZOOM_STATE)
    \cup Row(BRACKETING_ZOOM_STATE, {"STOP_SMOOTH_ZOOM"}, BRACKETING_STATE)

(* Mutant: zooming while recording comes back to PREVIEW_STATE. *)
VideoRowsZoomEndsVideo ==
    Row(VIDEO_STATE, {"STOP_VIDEO"}, PREVIEW_STATE)
    \cup Row(VIDEO_STATE, {"START_SMOOTH_ZOOM"}, VIDEO_ZOOM_STATE)
    \cup Row(VIDEO_ZOOM_STATE, {"STOP_SMOOTH_ZOOM"}, PREVIEW_STATE)

VideoRows ==
    Row(VIDEO_STATE, {"STOP_VIDEO"}, PREVIEW_STATE)
    \cup Row(VIDEO_STATE, {"PERFORM_AUTOFOCUS"}, VIDEO_AF_STATE)
    \cup Row(VIDEO_STATE, {"START_SMOOTH_ZOOM"}, VIDEO_ZOOM_STATE)
    \cup Row(VIDEO_STATE, {"USE_BUFFERS_IMAGE_CAPTURE"}, VIDEO_LOADED_CAPTURE_STATE)
    \cup Row(VIDEO_STATE, {"QUERY_BUFFER_SIZE_IMAGE_CAPTURE"}, VIDEO_STATE)
    \cup Row(VIDEO_AF_STATE, {"CANCEL_AUTOFOCUS"}, VIDEO_STATE)
    \cup Row(VIDEO_LOADED_CAPTURE_STATE, {"START_IMAGE_CAPTURE"}, VIDEO_CAPTURE_STATE)
    \cup Row(VIDEO_CAPTURE_STATE, {"STOP_IMAGE_CAPTURE"}, VIDEO_STATE)
    \cup Row(VIDEO_ZOOM_STATE, {"STOP_SMOOTH_ZOOM"}, VIDEO_STATE)
    \cup Row(VIDEO_ZOOM_STATE, {"STOP_VIDEO"}, ZOOM_STATE)

Transitions == PreviewRows \cup CaptureRows \cup AFZoomRows \cup VideoRows

Accepts(state, command) ==
    \E next \in AdapterState : <<state, command, next>> \in Transitions

(* Mutant: BRACKETING_STATE is forgotten. *)
UndoCommandNoBracketing ==
    { <<PREVIEW_STATE, "STOP_PREVIEW">>, <<CAPTURE_STATE, "STOP_IMAGE_CAPTURE">>,
      <<AF_STATE, "CANCEL_AUTOFOCUS">>, <<ZOOM_STATE, "STOP_SMOOTH_ZOOM">>,
      <<VIDEO_STATE, "STOP_VIDEO">>, <<VIDEO_AF_STATE, "CANCEL_AUTOFOCUS">>,
      <<VIDEO_CAPTURE_STATE, "STOP_IMAGE_CAPTURE">>,
      <<AF_ZOOM_STATE, "STOP_SMOOTH_ZOOM">>, <<VIDEO_ZOOM_STATE, "STOP_SMOOTH_ZOOM">>,
      <<BRACKETING_ZOOM_STATE, "STOP_SMOOTH_ZOOM">> }

(***************************************************************************)
(* rollbackToPreviousState(): the command that undoes a state.  The states *)
(* in no pair (LOADED_PREVIEW and the two LOADED_CAPTURE states) fall into *)
(* its default branch, "Invalid Adapter state!".                           *)
(***************************************************************************)
UndoCommand ==
    { <<PREVIEW_STATE,         "STOP_PREVIEW">>,
      <<CAPTURE_STATE,         "STOP_IMAGE_CAPTURE">>,
      <<BRACKETING_STATE,      "STOP_BRACKET_CAPTURE">>,
      <<AF_STATE,              "CANCEL_AUTOFOCUS">>,
      <<ZOOM_STATE,            "STOP_SMOOTH_ZOOM">>,
      <<VIDEO_STATE,           "STOP_VIDEO">>,
      <<VIDEO_AF_STATE,        "CANCEL_AUTOFOCUS">>,
      <<VIDEO_CAPTURE_STATE,   "STOP_IMAGE_CAPTURE">>,
      <<AF_ZOOM_STATE,         "STOP_SMOOTH_ZOOM">>,
      <<VIDEO_ZOOM_STATE,      "STOP_SMOOTH_ZOOM">>,
      <<BRACKETING_ZOOM_STATE, "STOP_SMOOTH_ZOOM">> }
=============================================================================
