------------------------------ MODULE ServerMain ------------------------------
(***************************************************************************)
(* main (main.rs) around the capture loop: it looks for a screen to        *)
(* capture, sets up the video pipeline, starts the capture thread, binds   *)
(* the listener, and only then accepts viewers and listens to Ctrl+C.      *)
(* Each of these may fail, and then main returns: before the thread was    *)
(* started that is the end; after that the runtime waits for the thread,   *)
(* which nobody has told to stop.                                          *)
(*                                                                         *)
(* setup_capture tries the device it was given, as DRM and as fbdev, or    *)
(* else all cards and then all framebuffer devices.  A device is its kind. *)
(***************************************************************************)
EXTENDS CaptureLoop, Sequences, SequencesExt

CONSTANTS
  MaxCards,  \* bound: entries /dev/dri/card*
  MaxFbs     \* bound: entries /dev/fb*

ASSUME MainAssumption == MaxCards \in Nat /\ MaxFbs \in Nat

VARIABLES
  phase,    \* main: "probe", "pipeline", "bind", "serving", "failed"
  todo,     \* setup_capture: the devices still to be tried, in order
  backend,  \* CaptureBackend, as long as main needs it
  spawned   \* the capture thread was started

setup    == <<phase, todo, backend, spawned>>
mainVars == <<vars, setup>>

Repeat(kind, n) == [i \in 1..n |-> kind]

MainTypeOK ==
  /\ TypeOK
  /\ phase \in {"probe", "pipeline", "bind", "serving", "failed"}
  /\ todo \in Seq({"device", "card", "fb"})
  /\ backend \in {"none", "drm", "fbdev"}
  /\ spawned \in BOOLEAN

MainInit ==
  /\ Init /\ writer = [c \in Clients |-> "new"]
  /\ phase = "probe" /\ backend = "none" /\ spawned = FALSE
  /\ \/ todo = <<"device", "fb">>
     \/ \E i \in 0..MaxCards, j \in 0..MaxFbs :
          todo = Repeat("card", i) \o Repeat("fb", j)

-----------------------------------------------------------------------------
(* setup_capture and setup_pipeline: nothing runs yet. *)

\* main returns with an error.
Fail ==
  /\ main = "run" /\ MainExits
  /\ phase' = "failed" /\ todo' = <<>> /\ backend' = "none"

Found(kind) ==
  /\ phase' = "pipeline" /\ todo' = <<>> /\ backend' = kind
  /\ UNCHANGED <<vars, spawned>>

TryNext ==
  /\ todo' = Tail(todo)
  /\ UNCHANGED <<vars, phase, backend, spawned>>

\* try_drm_capture of the given device; any error sends it to try_fbdev_capture.
TryDevice ==
  /\ phase = "probe" /\ todo # <<>> /\ Head(todo) = "device"
  /\ Found("drm") \/ TryNext

\* open_card_with_path passes over cards it cannot open and cards without an
\* active output.  The first other one is taken, or main fails: the output that
\* was asked for is not there, or the first capture failed.
TryCard ==
  /\ phase = "probe" /\ todo # <<>> /\ Head(todo) = "card"
  /\ \/ TryNext
     \/ Found("drm")
     \/ Fail /\ UNCHANGED spawned

\* try_fbdev_capture: open, map and capture once.
TryFb ==
  /\ phase = "probe" /\ todo # <<>> /\ Head(todo) = "fb"
  /\ Found("fbdev") \/ TryNext

NoDeviceLeft ==
  /\ phase = "probe" /\ todo = <<>>
  /\ Fail /\ UNCHANGED spawned

\* The pipeline's frame source, if it is to have one of its own, opens the card
\* again, which may fail; over fbdev there is none.  Then the thread starts.
SetUpPipeline ==
  /\ phase = "pipeline"
  /\ \/ /\ phase' = "bind" /\ spawned' = TRUE /\ backend' = "none"
        /\ UNCHANGED <<vars, todo>>
     \/ backend = "drm" /\ Fail /\ UNCHANGED spawned

-----------------------------------------------------------------------------
(* The listener. *)

Bind ==
  /\ phase = "bind"
  /\ \/ phase' = "serving" /\ UNCHANGED <<vars, todo, backend, spawned>>
     \/ Fail /\ UNCHANGED spawned

\* accept fails, or main has waited for the capture thread.
Finish ==
  /\ phase = "serving" /\ MainExits
  /\ UNCHANGED setup

Serve ==
  /\ phase = "serving"
  /\ \/ \E c \in Clients :
          Request(c) \/ Answer(c) \/ Disconnect(c) \/ Connect(c)
     \/ CtrlC
  /\ UNCHANGED setup

\* The capture thread, and its clock.
ThreadStep == spawned /\ LoopStep /\ UNCHANGED setup
ThreadTick == spawned /\ Tick /\ UNCHANGED setup

\* The process has ended: main has returned, and the runtime need not wait.
Ended == main = "exited" /\ (loop = "done" \/ ~spawned)

Idle == Ended /\ UNCHANGED mainVars

Probe == TryDevice \/ TryCard \/ TryFb \/ NoDeviceLeft

MainNext ==
  \/ Probe \/ SetUpPipeline \/ Bind \/ Serve \/ Finish
  \/ ThreadStep \/ ThreadTick \/ Idle

MainSpec == MainInit /\ [][MainNext]_mainVars

\* As in CaptureLoop; main goes on until it serves.
MainFairness ==
  /\ WF_mainVars(Probe \/ SetUpPipeline \/ Bind)
  /\ SF_mainVars(ThreadTick) /\ WF_mainVars(ThreadStep)
  /\ WF_mainVars(main = "stopping" /\ Finish)
  /\ \A c \in Clients :
       /\ WF_mainVars(phase = "serving" /\ Answer(c) /\ UNCHANGED setup)
       /\ WF_mainVars(phase = "serving" /\ Request(c) /\ UNCHANGED setup)

FairMain == MainSpec /\ MainFairness

-----------------------------------------------------------------------------
(* Properties. *)

\* When main returns, with whatever error and wherever the capture thread is at
\* that moment, the process ends: the thread that was not told to stop finds
\* its request channel closed, even with requests still in it.
ErrorsEndTheProgram == main = "exited" ~> Ended

\* There is a session only where a capture thread was started for it, and the
\* listener bound; and main gives up before that only without any session.
SessionsAreServed ==
  /\ \A c \in Clients : Connected(c) => spawned /\ phase = "serving"
  /\ main = "exited" => \A c \in Clients : ~Connected(c)

\* setup_capture gives up only when there is no device left to try.
GivesUpOnlyAtTheEnd ==
  [][phase = "probe" /\ phase' = "failed" => todo = <<>>]_mainVars
=============================================================================
