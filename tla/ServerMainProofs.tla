--------------------------- MODULE ServerMainProofs ---------------------------
(***************************************************************************)
(* Theorems about ServerMain, for all devices that may be found: the start *)
(* of the program never does anything to the capture loop that CaptureLoop *)
(* does not have, so what was proved of CaptureLoop holds of the program.  *)
(***************************************************************************)
EXTENDS ServerMain, CaptureLoopProofs

\* Every step of the program is one of the capture loop and its surroundings,
\* or leaves them alone.
LEMMA StepsAreLoopSteps == [MainNext]_mainVars => [Next]_vars
<1> SUFFICES ASSUME [MainNext]_mainVars PROVE [Next]_vars
  OBVIOUS
<1>1. ASSUME Fail PROVE Next
  BY <1>1 DEF Fail, Next
<1>2. CASE Probe
  BY <1>1, <1>2 DEF Probe, TryDevice, TryCard, TryFb, NoDeviceLeft, Found,
                    TryNext
<1>3. CASE SetUpPipeline
  BY <1>1, <1>3 DEF SetUpPipeline
<1>4. CASE Bind
  BY <1>1, <1>4 DEF Bind
<1>5. CASE Serve
  BY <1>5 DEF Serve, Next
<1>6. CASE Finish
  BY <1>6 DEF Finish, Next
<1>7. CASE ThreadStep \/ ThreadTick
  BY <1>7 DEF ThreadStep, ThreadTick, Next
<1>8. CASE Idle \/ UNCHANGED mainVars
  BY <1>8 DEF Idle, mainVars
<1>9. QED
  BY <1>2, <1>3, <1>4, <1>5, <1>6, <1>7, <1>8 DEF MainNext

\* The program, with its start and its failures, implements CaptureLoop.
THEOREM MainRefinesLoop == MainSpec => Spec
<1>1. MainInit => Init
  BY DEF MainInit
<1>2. QED
  BY <1>1, StepsAreLoopSteps, PTL DEF MainSpec, Spec

\* Nobody is forgotten by the program either, however it was started, if the
\* polling interval is short enough.
THEOREM NobodyIsForgottenByMain ==
  ASSUME Prompt
  PROVE  MainSpec => []NobodyForgotten
<1>1. Spec => []NobodyForgotten
  BY NobodyIsForgotten
<1>2. QED
  BY <1>1, MainRefinesLoop, PTL

\* ... and everybody is answered in time: failed starts, retries with other
\* devices and the end of the program cost a session nothing.
THEOREM EverybodyIsAnsweredByMain ==
  ASSUME Prompt
  PROVE  MainSpec => []AnsweredInTime
<1>1. Spec => []AnsweredInTime
  BY EverybodyIsAnsweredInTime
<1>2. QED
  BY <1>1, MainRefinesLoop, PTL

-----------------------------------------------------------------------------
(* The types of the start. *)

\* The lists of devices are sequences of kinds.
LEMMA DevicesAreKinds == MainInit => todo \in Seq({"device", "card", "fb"})
<1> DEFINE Kinds == {"device", "card", "fb"}
<1> SUFFICES ASSUME MainInit PROVE todo \in Seq(Kinds)
  OBVIOUS
<1>1. CASE todo = <<"device", "fb">>
  BY <1>1
<1>2. ASSUME NEW i \in 0..MaxCards, NEW j \in 0..MaxFbs,
             todo = Repeat("card", i) \o Repeat("fb", j)
      PROVE  todo \in Seq(Kinds)
  <2>1. /\ Repeat("card", i) \in Seq(Kinds)
        /\ Repeat("fb", j) \in Seq(Kinds)
    BY MainAssumption DEF Repeat
  <2>2. QED
    BY <2>1, <1>2
<1>3. QED
  BY <1>1, <1>2 DEF MainInit

StartTypes ==
  /\ phase \in {"probe", "pipeline", "bind", "serving", "failed"}
  /\ todo \in Seq({"device", "card", "fb"})
  /\ backend \in {"none", "drm", "fbdev"}
  /\ spawned \in BOOLEAN

\* Sessions are there only while main serves, and main serves and waits for the
\* thread only once it was started.
StartInv ==
  /\ StartTypes
  /\ main = "exited" => \A c \in Clients : ~Connected(c)
  /\ \A c \in Clients : Connected(c) => phase = "serving"
  /\ phase \in {"bind", "serving"} => spawned

LEMMA StartInvInit == MainInit => StartInv
  BY DevicesAreKinds, LoopAssumption
  DEF MainInit, Init, StartInv, StartTypes, Connected

\* A step of the thread or of time changes neither main nor who is there.
LEMMA ThreadKeepsSessions ==
  LoopStep \/ Tick => UNCHANGED <<main, writer>>
  BY DEF LoopStep, RecvRequest, PollTimeout, OnDemandTimeout, Disconnected,
         EndCapture, Tick

LEMMA StartInvNext ==
  TypeOK /\ StartInv /\ [MainNext]_mainVars => StartInv'
<1> SUFFICES ASSUME TypeOK, StartInv, [MainNext]_mainVars PROVE StartInv'
  OBVIOUS
<1> USE DEF StartInv, StartTypes, TypeOK, Connected
<1>1. ASSUME Fail, UNCHANGED spawned PROVE StartInv'
  BY <1>1 DEF Fail, MainExits
<1>2. ASSUME TryNext, todo # <<>> PROVE StartInv'
  BY <1>2 DEF TryNext, vars
<1>3. ASSUME NEW kind \in {"drm", "fbdev"}, phase = "probe", Found(kind)
      PROVE  StartInv'
  BY <1>3 DEF Found, vars
<1>4. CASE Probe
  BY <1>1, <1>2, <1>3, <1>4
  DEF Probe, TryDevice, TryCard, TryFb, NoDeviceLeft
<1>5. CASE SetUpPipeline
  BY <1>1, <1>5 DEF SetUpPipeline, vars
<1>6. CASE Bind
  BY <1>1, <1>6 DEF Bind, vars
<1>7. CASE Serve
  BY <1>7 DEF Serve, Request, Answer, Disconnect, Connect, CtrlC, setup
<1>8. CASE Finish
  BY <1>8 DEF Finish, MainExits, setup
<1>9. CASE ThreadStep \/ ThreadTick
  BY <1>9, ThreadKeepsSessions DEF ThreadStep, ThreadTick, setup
<1>10. CASE Idle \/ UNCHANGED mainVars
  BY <1>10 DEF Idle, mainVars, vars, setup
<1>11. QED
  BY <1>4, <1>5, <1>6, <1>7, <1>8, <1>9, <1>10 DEF MainNext

\* StartInv holds throughout, beside the capture loop's types.
LEMMA StartInvHolds == MainSpec => [](TypeOK /\ StartInv)
<1>1. MainSpec => []TypeOK
  BY MainRefinesLoop, TypeCorrect, PTL
<1>2. QED
  BY <1>1, StartInvInit, StartInvNext, PTL DEF MainSpec

\* Type correctness of the program.
THEOREM MainTypeCorrect == MainSpec => []MainTypeOK
<1>1. TypeOK /\ StartInv => MainTypeOK
  BY DEF StartInv, StartTypes, MainTypeOK
<1>2. QED
  BY <1>1, StartInvHolds, PTL

\* There are sessions only with a capture thread behind them, and none when
\* main has returned.
THEOREM SessionsHaveAThread == MainSpec => []SessionsAreServed
<1>1. StartInv => SessionsAreServed
  BY DEF StartInv, SessionsAreServed
<1>2. QED
  BY <1>1, StartInvHolds, PTL
=============================================================================
