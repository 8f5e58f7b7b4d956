------------------------- MODULE FramePipelineProofs -------------------------
(***************************************************************************)
(* Proofs about FramePipeline, for every set of viewers, tiles, buffers    *)
(* and keys.  The environment flags are hypotheses of the theorems.        *)
(***************************************************************************)
EXTENDS FramePipeline, TLAPS

\* The control states of the capture thread and of the writers determine who
\* holds a frame.
Holding(c) == pc[c] \in {"drain", "send"}
Writing    == capPc \in {"mark", "finish"} /\ changed

ControlInv ==
  /\ capPc \in {"wait", "capture", "copy"} => work = NoBuffer /\ ~changed
  /\ capPc \in {"mark", "finish"} => scratch = NoBuffer
  /\ capPc = "mark" => changed
  /\ capPc # "mark" => todo = {}
  /\ Writing => work \in Buffers
  /\ \A c \in Clients : held[c] # NoBuffer <=> Holding(c)

FrameInv == TypeOK /\ ControlInv /\ FramesNotShared

\* Whatever a copy finds in the framebuffer is a picture.
LEMMA CopiesArePictures ==
  ASSUME TypeOK
  PROVE  Blank \in Frame /\ Copies \subseteq Frame
<1>1. Blank \in Frame
  BY PipelineAssumption DEF Blank, Frame
<1>2. [Tiles -> 1..MaxPaint] \subseteq Frame
  BY PipelineAssumption DEF Frame
<1>3. seen \in Frame
  BY DEF TypeOK
<1>4. QED
  BY <1>1, <1>2, <1>3 DEF Copies

\* The initial states, where nobody but the watch channel holds a frame.
LEMMA FrameInvInit == Init => FrameInv
<1> SUFFICES ASSUME Init PROVE FrameInv
  OBVIOUS
<1> USE DEF Init
<1>1. screen \in Frame /\ px \in [Buffers -> Frame] /\ seen \in Frame
  BY PipelineAssumption DEF Frame, Blank
<1>2. pic \in [Clients -> Frame]
  BY PipelineAssumption DEF Frame
<1>3. /\ reqs \in [Clients -> Seq({"inc", "full"})]
      /\ \A c \in Clients : Len(reqs[c]) <= ReqCap
  BY PipelineAssumption
<1>4. TypeOK
  BY <1>1, <1>2, <1>3, PipelineAssumption DEF TypeOK, Live
<1>5. ControlInv
  BY DEF ControlInv, Holding, Writing
<1>6. FramesNotShared
  BY DEF FramesNotShared
<1>7. QED
  BY <1>4, <1>5, <1>6 DEF FrameInv

\* What a session's writer does when it takes a request from its channel.
LEMMA RequestTaken ==
  ASSUME TypeOK, NEW c \in Clients, RecvUpdateRequest(c)
  PROVE  /\ pc[c] = "recv"
         /\ \/ pc' = [pc EXCEPT ![c] = "await"] /\ pending' = TRUE
            \/ pc' = [pc EXCEPT ![c] = "borrow"] /\ pending' = pending
         /\ UNCHANGED <<world, capture, slot, px, bits, notified, unseen, held,
                        rects, pic>>
  BY DEF RecvUpdateRequest

\* Each step keeps the frame of the capture thread apart from the others.
LEMMA FrameInvNext == FrameInv /\ [Next]_vars => FrameInv'
<1> SUFFICES ASSUME FrameInv, [Next]_vars PROVE FrameInv'
  OBVIOUS
<1> USE PipelineAssumption DEF FrameInv
<1>1. ASSUME NEW t \in Tiles, Repaint(t) PROVE FrameInv'
  <2>1. TypeOK'
    <3>1. \E v \in 1..MaxPaint : screen' = [screen EXCEPT ![t] = v]
      BY <1>1 DEF Repaint
    <3>2. screen' \in Frame
      BY <3>1 DEF TypeOK, Frame
    <3>3. fbKey' \in Keys
      BY <1>1 DEF Repaint
    <3>4. UNCHANGED <<seen, capture, slot, px, bits, pending, notified, pc, session>>
      BY <1>1 DEF Repaint
    <3>5. QED
      BY <3>2, <3>3, <3>4 DEF TypeOK, capture, session
  <2>2. ControlInv'
    BY <1>1
    DEF Repaint, TypeOK, ControlInv, Holding, Writing, Live, world, capture,
        session
  <2>3. FramesNotShared'
    BY <1>1
    DEF Repaint, TypeOK, ControlInv, FramesNotShared, Holding, Writing, world,
        capture, session
  <2>4. QED
    BY <2>1, <2>2, <2>3
<1>2. ASSUME RecvCaptureRequest PROVE FrameInv'
  <2>1. TypeOK'
    BY <1>2
    DEF RecvCaptureRequest, TypeOK, ControlInv, Holding, Writing, Frame, Live,
        world, capture, session
  <2>2. ControlInv'
    BY <1>2
    DEF RecvCaptureRequest, TypeOK, ControlInv, Holding, Writing, Live, world,
        capture, session
  <2>3. FramesNotShared'
    BY <1>2
    DEF RecvCaptureRequest, TypeOK, ControlInv, FramesNotShared, Holding,
        Writing, world, capture, session
  <2>4. QED
    BY <2>1, <2>2, <2>3
<1>3. ASSUME PollTimeout PROVE FrameInv'
  <2>1. TypeOK'
    BY <1>3
    DEF PollTimeout, TypeOK, ControlInv, Holding, Writing, Frame, Live, world,
        capture, session
  <2>2. ControlInv'
    BY <1>3
    DEF PollTimeout, TypeOK, ControlInv, Holding, Writing, Live, world,
        capture, session
  <2>3. FramesNotShared'
    BY <1>3
    DEF PollTimeout, TypeOK, ControlInv, FramesNotShared, Holding, Writing,
        world, capture, session
  <2>4. QED
    BY <2>1, <2>2, <2>3
<1>4. ASSUME SkipSameKey PROVE FrameInv'
  <2>1. TypeOK'
    BY <1>4
    DEF SkipSameKey, TypeOK, ControlInv, Holding, Writing, Frame, Live, world,
        capture, session
  <2>2. ControlInv'
    BY <1>4
    DEF SkipSameKey, TypeOK, ControlInv, Holding, Writing, Live, world,
        capture, session
  <2>3. FramesNotShared'
    BY <1>4
    DEF SkipSameKey, TypeOK, ControlInv, FramesNotShared, Holding, Writing,
        world, capture, session
  <2>4. QED
    BY <2>1, <2>2, <2>3
<1>5. ASSUME FindFramebuffer \/ CaptureFails PROVE FrameInv'
  <2>1. TypeOK'
    <3>1. /\ lastKey' \in {lastKey, fbKey} /\ seen' \in {screen, Blank}
          /\ capPc' \in {"copy", "wait"}
          /\ UNCHANGED <<screen, fbKey, mode, scratch, work, todo, changed, slot, px,
                         bits, pending, notified, pc, session>>
      BY <1>5 DEF FindFramebuffer, CaptureFails, KeyAfterCapture
    <3>2. Blank \in Frame
      BY CopiesArePictures
    <3>3. QED
      BY <3>1, <3>2 DEF TypeOK, session
  <2>2. ControlInv'
    BY <1>5
    DEF FindFramebuffer, CaptureFails, TypeOK, ControlInv, Holding, Writing, Live,
        world, capture, session
  <2>3. FramesNotShared'
    BY <1>5
    DEF FindFramebuffer, CaptureFails, TypeOK, ControlInv, FramesNotShared, Holding,
        Writing, world, capture, session
  <2>4. QED
    BY <2>1, <2>2, <2>3
<1>6. ASSUME CopyFrame PROVE FrameInv'
  <2>a. PICK f \in Copies,
             b \in (IF scratch = NoBuffer THEN FreeBuffers ELSE {scratch}),
             warm \in {FALSE, Backend = "direct" /\ scratch # NoBuffer} :
          /\ work' = b /\ px' = [px EXCEPT ![b] = f]
          /\ todo' = ToMark(b, f, warm) /\ changed' = (warm => todo' # {})
          /\ capPc' = IF todo' = {} THEN "finish" ELSE "mark"
    BY <1>6 DEF CopyFrame
  <2>b. /\ capPc = "copy" /\ scratch' = NoBuffer /\ seen' = Blank
        /\ UNCHANGED <<screen, fbKey, mode, lastKey, slot, bits, pending, notified,
                       pc, session>>
    BY <1>6 DEF CopyFrame
  <2>c. work' \in Buffers
    BY <2>a DEF FreeBuffers, TypeOK
  <2>1. TypeOK'
    <3>1. f \in Frame /\ Blank \in Frame
      BY <2>a, CopiesArePictures
    <3>2. px' \in [Buffers -> Frame]
      BY <2>a, <3>1 DEF TypeOK
    <3>3. todo' \subseteq Tiles
      BY <2>a DEF ToMark
    <3>4. changed' \in BOOLEAN /\ capPc' \in {"finish", "mark"}
      BY <2>a
    <3>5. QED
      BY <2>b, <2>c, <3>1, <3>2, <3>3, <3>4 DEF TypeOK, session
  <2>2. ControlInv'
    <3>1. todo' # {} => changed'
      BY <2>a
    <3>2. UNCHANGED <<pc, held>>
      BY <2>b DEF session
    <3>3. QED
      BY <2>a, <2>b, <2>c, <3>1, <3>2 DEF ControlInv, Holding, Writing
  <2>3. FramesNotShared'
    BY <2>a, <2>b
    DEF FreeBuffers, InUse, TypeOK, FramesNotShared, session
  <2>4. QED
    BY <2>1, <2>2, <2>3
<1>7. ASSUME NEW t \in Tiles, MarkTile(t) PROVE FrameInv'
  <2>1. TypeOK'
    BY <1>7
    DEF MarkTile, TypeOK, ControlInv, Holding, Writing, Frame, Live, world,
        capture, session
  <2>2. ControlInv'
    BY <1>7
    DEF MarkTile, TypeOK, ControlInv, Holding, Writing, Live, world, capture,
        session
  <2>3. FramesNotShared'
    BY <1>7
    DEF MarkTile, TypeOK, ControlInv, FramesNotShared, Holding, Writing, world,
        capture, session
  <2>4. QED
    BY <2>1, <2>2, <2>3
<1>8. ASSUME Publish PROVE FrameInv'
  <2>1. TypeOK'
    BY <1>8
    DEF Publish, Reusable, NotifyViewers, TypeOK, ControlInv, Holding, Writing,
        Frame, Live, world, capture, session
  <2>2. ControlInv'
    BY <1>8
    DEF Publish, Reusable, NotifyViewers, TypeOK, ControlInv, Holding, Writing,
        Live, world, capture, session
  <2>3. FramesNotShared'
    BY <1>8
    DEF Publish, Reusable, NotifyViewers, TypeOK, ControlInv, FramesNotShared,
        Holding, Writing, world, capture, session
  <2>4. QED
    BY <2>1, <2>2, <2>3
<1>9. ASSUME NotifyUnchanged PROVE FrameInv'
  <2>1. TypeOK'
    BY <1>9
    DEF NotifyUnchanged, NotifyViewers, TypeOK, ControlInv, Holding, Writing,
        Frame, Live, world, capture, session
  <2>2. ControlInv'
    BY <1>9
    DEF NotifyUnchanged, NotifyViewers, TypeOK, ControlInv, Holding, Writing,
        Live, world, capture, session
  <2>3. FramesNotShared'
    BY <1>9
    DEF NotifyUnchanged, NotifyViewers, TypeOK, ControlInv, FramesNotShared,
        Holding, Writing, world, capture, session
  <2>4. QED
    BY <2>1, <2>2, <2>3
<1>10. ASSUME NEW c \in Clients, Connect(c) PROVE FrameInv'
  <2>1. TypeOK'
    BY <1>10
    DEF Connect, TypeOK, ControlInv, Holding, Writing, Frame, Live, world,
        capture, session
  <2>2. ControlInv'
    BY <1>10
    DEF Connect, TypeOK, ControlInv, Holding, Writing, Live, world, capture,
        session
  <2>3. FramesNotShared'
    BY <1>10
    DEF Connect, TypeOK, ControlInv, FramesNotShared, Holding, Writing, world,
        capture, session
  <2>4. QED
    BY <2>1, <2>2, <2>3
<1>11. ASSUME NEW c \in Clients, NEW kind \in {"inc", "full"},
              ClientRequest(c, kind)
       PROVE  FrameInv'
  <2>1. TypeOK'
    BY <1>11
    DEF ClientRequest, HasRoom, TypeOK, ControlInv, Holding, Writing, Frame,
        Live, world, capture, session
  <2>2. ControlInv'
    BY <1>11
    DEF ClientRequest, HasRoom, TypeOK, ControlInv, Holding, Writing, Live,
        world, capture, session
  <2>3. FramesNotShared'
    BY <1>11
    DEF ClientRequest, HasRoom, TypeOK, ControlInv, FramesNotShared, Holding,
        Writing, world, capture, session
  <2>4. QED
    BY <2>1, <2>2, <2>3
<1>12. ASSUME NEW c \in Clients, RecvUpdateRequest(c) PROVE FrameInv'
  <2> USE DEF RecvUpdateRequest
  <2>a. /\ reqs' \in [Clients -> Seq({"inc", "full"})]
        /\ \A d \in Clients : Len(reqs'[d]) <= ReqCap
    <3> DEFINE q == reqs[c]
    <3>1. q \in Seq({"inc", "full"}) /\ q # <<>> /\ Len(q) <= ReqCap
      BY <1>12 DEF TypeOK
    <3>2. Tail(q) \in Seq({"inc", "full"}) /\ Len(Tail(q)) <= ReqCap
      BY <3>1
    <3>3. reqs' = [reqs EXCEPT ![c] = Tail(q)]
      BY <1>12
    <3> HIDE DEF q
    <3>4. QED
      BY <3>2, <3>3 DEF TypeOK
  <2>b. inc' \in [Clients -> BOOLEAN]
    BY <1>12, Zenon DEF TypeOK
  <2>c. pc' \in [Clients -> Live \cup {"new", "gone"}] /\ pending' \in BOOLEAN
    BY <1>12 DEF TypeOK, Live
  <2>1. TypeOK'
    BY <1>12, <2>a, <2>b, <2>c DEF TypeOK, world, capture, session
  <2>2. ControlInv'
    <3>1. /\ UNCHANGED <<capPc, work, changed, scratch, todo, held>>
          /\ pc[c] = "recv"
          /\ pc' = [pc EXCEPT ![c] = "await"] \/ pc' = [pc EXCEPT ![c] = "borrow"]
      BY <1>12, RequestTaken DEF capture
    <3>2. \A d \in Clients : Holding(d)' <=> Holding(d)
      BY <3>1 DEF Holding, TypeOK
    <3>3. QED
      BY <3>1, <3>2 DEF ControlInv, Writing
  <2>3. FramesNotShared'
    BY <1>12
    DEF RecvUpdateRequest, TypeOK, ControlInv, FramesNotShared, Holding,
        Writing, world, capture, session
  <2>4. QED
    BY <2>1, <2>2, <2>3
<1>13. ASSUME NEW c \in Clients, Changed(c) PROVE FrameInv'
  <2>1. TypeOK'
    BY <1>13
    DEF Changed, HasNews, TypeOK, ControlInv, Holding, Writing, Frame, Live,
        world, capture, session
  <2>2. ControlInv'
    BY <1>13
    DEF Changed, HasNews, TypeOK, ControlInv, Holding, Writing, Live, world,
        capture, session
  <2>3. FramesNotShared'
    BY <1>13
    DEF Changed, HasNews, TypeOK, ControlInv, FramesNotShared, Holding,
        Writing, world, capture, session
  <2>4. QED
    BY <2>1, <2>2, <2>3
<1>14. ASSUME NEW c \in Clients, Borrow(c) PROVE FrameInv'
  <2>1. TypeOK'
    BY <1>14
    DEF Borrow, TypeOK, ControlInv, Holding, Writing, Frame, Live, world,
        capture, session
  <2>2. ControlInv'
    BY <1>14
    DEF Borrow, TypeOK, ControlInv, Holding, Writing, Live, world, capture,
        session
  <2>3. FramesNotShared'
    BY <1>14
    DEF Borrow, TypeOK, ControlInv, FramesNotShared, Holding, Writing, world,
        capture, session
  <2>4. QED
    BY <2>1, <2>2, <2>3
<1>15. ASSUME NEW c \in Clients, Drain(c) PROVE FrameInv'
  <2>1. TypeOK'
    BY <1>15
    DEF Drain, TypeOK, ControlInv, Holding, Writing, Frame, Live, world,
        capture, session
  <2>2. ControlInv'
    BY <1>15
    DEF Drain, TypeOK, ControlInv, Holding, Writing, Live, world, capture,
        session
  <2>3. FramesNotShared'
    BY <1>15
    DEF Drain, TypeOK, ControlInv, FramesNotShared, Holding, Writing, world,
        capture, session
  <2>4. QED
    BY <2>1, <2>2, <2>3
<1>16. ASSUME NEW c \in Clients, WriteRects(c) PROVE FrameInv'
  <2>1. TypeOK'
    <3>1. held[c] \in Buffers
      BY <1>16 DEF WriteRects, TypeOK, ControlInv, Holding
    <3>2. [t \in Tiles |-> IF t \in rects[c] THEN px[held[c]][t] ELSE pic[c][t]]
            \in Frame
      BY <3>1 DEF TypeOK, Frame
    <3>3. /\ pic' \in [Clients -> Frame]
          /\ held' \in [Clients -> Buffers \cup {NoBuffer}]
          /\ rects' \in [Clients -> SUBSET Tiles]
          /\ pc' \in [Clients -> Live \cup {"new", "gone"}]
      BY <1>16, <3>2 DEF WriteRects, TypeOK, Live
    <3>4. UNCHANGED <<world, capture, slot, px, bits, pending, notified, reqs, inc,
                      unseen>>
      BY <1>16 DEF WriteRects
    <3>5. QED
      BY <3>3, <3>4 DEF TypeOK, world, capture
  <2>2. ControlInv'
    BY <1>16
    DEF WriteRects, TypeOK, ControlInv, Holding, Writing, Live, world, capture,
        session
  <2>3. FramesNotShared'
    BY <1>16
    DEF WriteRects, TypeOK, ControlInv, FramesNotShared, Holding, Writing,
        world, capture, session
  <2>4. QED
    BY <2>1, <2>2, <2>3
<1>17. ASSUME NEW c \in Clients, Disconnect(c) PROVE FrameInv'
  <2>1. TypeOK'
    BY <1>17
    DEF Disconnect, TypeOK, ControlInv, Holding, Writing, Frame, Live, world,
        capture, session
  <2>2. ControlInv'
    BY <1>17
    DEF Disconnect, TypeOK, ControlInv, Holding, Writing, Live, world, capture,
        session
  <2>3. FramesNotShared'
    BY <1>17
    DEF Disconnect, TypeOK, ControlInv, FramesNotShared, Holding, Writing,
        world, capture, session
  <2>4. QED
    BY <2>1, <2>2, <2>3
<1>18. CASE UNCHANGED vars
  BY <1>18
  DEF TypeOK, ControlInv, FramesNotShared, Holding, Writing, vars, world,
      capture, session
<1>19. QED
  BY <1>1, <1>2, <1>3, <1>4, <1>5, <1>6, <1>7, <1>8, <1>9, <1>10, <1>11,
     <1>12, <1>13, <1>14, <1>15, <1>16, <1>17, <1>18
  DEF Next, CaptureStep, WriterStep, ClientStep



\* Every variable keeps its type; the update queue never exceeds its capacity.
THEOREM TypeCorrect == Spec => []TypeOK
<1>1. Spec => []FrameInv
  BY FrameInvInit, FrameInvNext, PTL DEF Spec
<1>2. FrameInv => TypeOK
  BY DEF FrameInv
<1>3. QED
  BY <1>1, <1>2, PTL

\* do_capture never writes into a frame that is published or being sent: what
\* Arc::try_unwrap gives back belongs to the capture thread alone.
THEOREM PublishedFrameIsStable == Spec => []FramesNotShared
<1>1. Spec => []FrameInv
  BY FrameInvInit, FrameInvNext, PTL DEF Spec
<1>2. FrameInv => FramesNotShared
  BY DEF FrameInv
<1>3. QED
  BY <1>1, <1>2, PTL

\* The frame a capture writes is new, or the one that was kept for reuse.
LEMMA CopyFrameEffect ==
  ASSUME FrameInv, CopyFrame
  PROVE  \E b \in Buffers, f \in Copies, warm \in BOOLEAN :
           /\ b # slot /\ \A c \in Clients : held[c] # b
           /\ warm => b = scratch /\ Backend = "direct"
           /\ work' = b /\ px'[b] = f
           /\ \A d \in Buffers \ {b} : px'[d] = px[d]
           /\ todo' = ToMark(b, f, warm) /\ changed' = (warm => todo' # {})
<1>1. PICK f \in Copies,
           b \in (IF scratch = NoBuffer THEN FreeBuffers ELSE {scratch}),
           warm \in {FALSE, Backend = "direct" /\ scratch # NoBuffer} :
        /\ work' = b /\ px' = [px EXCEPT ![b] = f]
        /\ todo' = ToMark(b, f, warm) /\ changed' = (warm => todo' # {})
  BY DEF CopyFrame
<1>2. b \in Buffers /\ b # slot /\ \A c \in Clients : held[c] # b
  BY <1>1 DEF FrameInv, TypeOK, FramesNotShared, FreeBuffers, InUse
<1>3. warm \in BOOLEAN /\ (warm => b = scratch /\ Backend = "direct")
  BY <1>1
<1>4. px'[b] = f /\ \A d \in Buffers \ {b} : px'[d] = px[d]
  BY <1>1, <1>2 DEF FrameInv, TypeOK
<1>5. QED
  BY <1>1, <1>2, <1>3, <1>4

-----------------------------------------------------------------------------
(* The buffers implement pictures that nothing changes. *)

TakenPictures == [c \in Clients |-> Sent(c)]

\* A session holds its frame as long as it stays at the same place.
LEMMA SamePictures ==
  ASSUME UNCHANGED <<pc, held, px>>
  PROVE  TakenPictures' = TakenPictures
  BY DEF TakenPictures, Sent

\* A step of one session leaves the frames of the others alone.
LEMMA OnePicture ==
  ASSUME TypeOK, NEW c \in Clients, NEW p, NEW h, px' = px,
         pc' = [pc EXCEPT ![c] = p], held' = [held EXCEPT ![c] = h]
  PROVE  TakenPictures' = [TakenPictures EXCEPT ![c] = Sent(c)']
<1>1. pc'[c] = p /\ held'[c] = h
  BY DEF TypeOK
<1>2. ASSUME NEW d \in Clients, d # c PROVE Sent(d)' = Sent(d)
  BY <1>2 DEF TypeOK, Sent
<1>3. QED
  BY <1>2 DEF TakenPictures

\* The initial states, where the first capture is published.
LEMMA RemoteInit == Init => Remote!Init
<1> SUFFICES ASSUME Init PROVE Remote!Init
  OBVIOUS
<1>1. screen \in [Tiles -> 0..MaxPaint]
  BY PipelineAssumption DEF Init
<1>2. px[slot] = screen /\ Copied = {}
  BY DEF Init, Copied
<1>3. \A c \in Clients : Sent(c) = {}
  BY DEF Init, Sent
<1>4. QED
  BY <1>1, <1>2, <1>3 DEF Init, Remote!Init, Remote!Pictures, Remote!Nothing

\* The compositor's step is the abstract one.
LEMMA RepaintPaints ==
  ASSUME FrameInv, NEW t \in Tiles, Repaint(t)
  PROVE  Remote!Paint(t)
<1>1. PICK v \in 1..MaxPaint : screen' = [screen EXCEPT ![t] = v]
  BY DEF Repaint
<1>2. v \in 0..MaxPaint \ {0}
  BY PipelineAssumption
<1>3. UNCHANGED <<seen, capture, slot, px, pc, session>>
  BY DEF Repaint
<1>4. TakenPictures' = TakenPictures
  BY <1>3, SamePictures DEF session
<1>5. UNCHANGED <<Copied, px[slot], pic>>
  BY <1>3 DEF Copied, capture, session
<1>6. QED
  BY <1>1, <1>2, <1>4, <1>5 DEF Remote!Paint, TakenPictures

\* To find the framebuffer is to capture what is on the screen at that moment.
LEMMA FindFramebufferCaptures ==
  ASSUME FrameInv, FindFramebuffer
  PROVE  Remote!Capture
<1>1. Copied = {} /\ Copied' = {screen}
  BY DEF FindFramebuffer, Copied
<1>2. UNCHANGED <<screen, pic, pc, held, px, slot>>
  BY DEF FindFramebuffer, session
<1>3. QED
  BY <1>1, <1>2, SamePictures DEF Remote!Capture, TakenPictures

\* An error drops the picture, if one was found already.
LEMMA FailureDrops ==
  ASSUME FrameInv, CaptureFails
  PROVE  Remote!Drop
<1>1. Copied' = {}
  BY DEF CaptureFails, Copied
<1>2. UNCHANGED <<screen, pic, pc, held, px, slot>>
  BY DEF CaptureFails, session
<1>3. QED
  BY <1>1, <1>2, SamePictures DEF Remote!Drop, TakenPictures

\* The copy keeps the captured picture, or drops it when it is nothing new: the
\* buffer it writes is neither the published one nor a writer's.
LEMMA CopyFrameKeepsOrDrops ==
  ASSUME "redraw" \notin Env, FrameInv, CopyFrame
  PROVE  Remote!Drop \/ UNCHANGED Remote!vars
<1>1. PICK b \in Buffers :
        /\ b # slot /\ \A c \in Clients : held[c] # b
        /\ work' = b /\ px'[b] = seen
        /\ \A d \in Buffers \ {b} : px'[d] = px[d]
  BY CopyFrameEffect DEF Copies
<1>2. UNCHANGED <<screen, slot, pc, held, pic>>
  BY DEF CopyFrame, session
<1>3. capPc = "copy" /\ capPc' \in {"mark", "finish"}
  BY DEF CopyFrame
<1>4. px'[slot'] = px[slot]
  BY <1>1, <1>2 DEF FrameInv, TypeOK
<1>5. Copied = {seen} /\ Copied' = IF changed' THEN {seen} ELSE {}
  BY <1>1, <1>3 DEF Copied
<1>6. ASSUME NEW c \in Clients PROVE Sent(c)' = Sent(c)
  <2>1. Holding(c) => held[c] \in Buffers \ {b}
    BY <1>1 DEF FrameInv, TypeOK, ControlInv
  <2>2. QED
    BY <1>1, <1>2, <2>1 DEF Sent, Holding
<1>7. TakenPictures' = TakenPictures
  BY <1>6 DEF TakenPictures
<1>8. QED
  BY <1>2, <1>4, <1>5, <1>7 DEF Remote!Drop, Remote!vars, TakenPictures

\* A publication shows the picture captured last.
LEMMA PublishPublishes ==
  ASSUME FrameInv, Publish
  PROVE  Remote!Publish
<1>1. Copied = {px[work]} /\ Copied' = {}
  BY DEF Publish, Copied
<1>2. px'[slot'] = px[work] /\ UNCHANGED <<screen, pic, pc, held, px>>
  BY DEF Publish, world
<1>3. QED
  BY <1>1, <1>2, SamePictures DEF Remote!Publish, TakenPictures

\* The other steps of the capture thread move no picture.
LEMMA OtherCaptureSteps ==
  ASSUME FrameInv,
         \/ RecvCaptureRequest \/ PollTimeout \/ SkipSameKey
         \/ (\E t \in Tiles : MarkTile(t)) \/ NotifyUnchanged
  PROVE  UNCHANGED Remote!vars
<1>1. UNCHANGED <<screen, seen, pic, pc, held, px, slot>>
  BY DEF RecvCaptureRequest, PollTimeout, SkipSameKey, MarkTile, NotifyUnchanged,
         world, session
<1>2. Copied' = Copied
  BY <1>1
  DEF RecvCaptureRequest, PollTimeout, SkipSameKey, MarkTile, NotifyUnchanged, Copied
<1>3. QED
  BY <1>1, <1>2, SamePictures DEF Remote!vars, TakenPictures

\* The steps of a session.
LEMMA SessionSteps ==
  ASSUME FrameInv, NEW c \in Clients, WriterStep(c) \/ ClientStep(c)
  PROVE  \/ Remote!Take(c) \/ Remote!Show(c) \/ Remote!Leave(c) \/ Remote!Arrive(c)
         \/ UNCHANGED Remote!vars
<1> USE DEF FrameInv
<1>1. UNCHANGED <<screen, seen, capture, slot, px>>
  BY DEF WriterStep, ClientStep, RecvUpdateRequest, Changed, Borrow, Drain,
         WriteRects, Connect, Disconnect, ClientRequest, world
<1>2. UNCHANGED <<screen, px, px[slot], Copied>>
  BY <1>1 DEF Copied, capture
<1>3. TakenPictures[c] = Sent(c)
  BY DEF TakenPictures
<1>4. CASE Connect(c)
  <2>1. /\ pc' = [pc EXCEPT ![c] = "recv"] /\ held' = [held EXCEPT ![c] = held[c]]
        /\ pic' = [pic EXCEPT ![c] = [t \in Tiles |-> 0]]
        /\ pc[c] \in {"new", "gone"}
    BY <1>4 DEF Connect, TypeOK
  <2>2. Sent(c) = {} /\ Sent(c)' = {}
    BY <2>1 DEF Sent, TypeOK
  <2>3. TakenPictures' = [TakenPictures EXCEPT ![c] = {}]
    BY <1>2, <2>1, <2>2, OnePicture
  <2>4. TakenPictures' = TakenPictures
    BY <1>3, <2>2, <2>3 DEF TakenPictures
  <2>5. Remote!Arrive(c)
    BY <1>2, <1>3, <2>1, <2>2, <2>4
    DEF Remote!Arrive, Remote!Nothing, TakenPictures
  <2>6. QED
    BY <2>5
<1>5. CASE Borrow(c)
  <2>1. /\ pc[c] = "borrow" /\ pc' = [pc EXCEPT ![c] = "drain"]
        /\ held' = [held EXCEPT ![c] = slot] /\ pic' = pic
    BY <1>5 DEF Borrow
  <2>2. Sent(c) = {} /\ Sent(c)' = {px[slot]}
    BY <1>2, <2>1 DEF Sent, TypeOK
  <2>3. TakenPictures' = [TakenPictures EXCEPT ![c] = {px[slot]}]
    BY <1>2, <2>1, <2>2, OnePicture
  <2>4. Remote!Take(c)
    BY <1>2, <1>3, <2>1, <2>2, <2>3 DEF Remote!Take, TakenPictures
  <2>5. QED
    BY <2>4
<1>6. CASE WriteRects(c)
  <2>1. /\ pc[c] = "send" /\ pc' = [pc EXCEPT ![c] = "recv"]
        /\ held' = [held EXCEPT ![c] = NoBuffer]
        /\ pic' = [pic EXCEPT ![c] =
                     [t \in Tiles |-> IF t \in rects[c] THEN px[held[c]][t]
                                                        ELSE pic[c][t]]]
    BY <1>6 DEF WriteRects
  <2>2. Sent(c) = {px[held[c]]} /\ Sent(c)' = {}
    BY <2>1 DEF Sent, TypeOK
  <2>3. TakenPictures' = [TakenPictures EXCEPT ![c] = {}]
    BY <1>2, <2>1, <2>2, OnePicture
  <2>4. rects[c] \in SUBSET Tiles
    BY DEF TypeOK
  <2>5. \E f \in Sent(c), S \in SUBSET Tiles :
          pic' = [pic EXCEPT ![c] =
                    [t \in Tiles |-> IF t \in S THEN f[t] ELSE pic[c][t]]]
    BY <2>1, <2>2, <2>4
  <2>6. Remote!Show(c)
    BY <1>2, <1>3, <2>3, <2>5 DEF Remote!Show, TakenPictures
  <2>7. QED
    BY <2>6
<1>7. CASE Disconnect(c)
  <2>1. /\ pc' = [pc EXCEPT ![c] = "gone"] /\ held' = [held EXCEPT ![c] = NoBuffer]
        /\ pic' = pic
    BY <1>7 DEF Disconnect
  <2>2. Sent(c)' = {}
    BY <2>1 DEF Sent, TypeOK
  <2>3. TakenPictures' = [TakenPictures EXCEPT ![c] = {}]
    BY <1>2, <2>1, <2>2, OnePicture
  <2>4. Remote!Leave(c)
    BY <1>2, <2>1, <2>3 DEF Remote!Leave, TakenPictures
  <2>5. QED
    BY <2>4
<1>8. CASE ClientRequest(c, "inc") \/ ClientRequest(c, "full")
  <2>1. UNCHANGED <<pc, held, pic>>
    BY <1>8 DEF ClientRequest
  <2>2. QED
    BY <1>2, <2>1, SamePictures DEF Remote!vars, TakenPictures
<1>9. CASE RecvUpdateRequest(c) \/ Changed(c) \/ Drain(c)
  <2>1. /\ \E p \in Live : pc' = [pc EXCEPT ![c] = p]
        /\ held' = [held EXCEPT ![c] = held[c]] /\ pic' = pic
    BY <1>9 DEF RecvUpdateRequest, Changed, Drain, TypeOK, Live
  <2>2. pc[c] \in {"drain", "send"} <=> pc'[c] \in {"drain", "send"}
    BY <1>9 DEF RecvUpdateRequest, Changed, Drain, TypeOK
  <2>3. Sent(c)' = Sent(c)
    BY <1>2, <2>1, <2>2 DEF Sent, TypeOK
  <2>4. TakenPictures' = [TakenPictures EXCEPT ![c] = Sent(c)]
    BY <1>2, <2>1, <2>3, OnePicture
  <2>5. TakenPictures' = TakenPictures
    BY <1>3, <2>4 DEF TakenPictures
  <2>6. QED
    BY <1>2, <2>1, <2>5 DEF Remote!vars, TakenPictures
<1>10. QED
  BY <1>4, <1>5, <1>6, <1>7, <1>8, <1>9 DEF WriterStep, ClientStep

\* Every step of the pipeline is one with pictures, or moves none.
LEMMA RemoteNext ==
  ASSUME "redraw" \notin Env
  PROVE  FrameInv /\ [Next]_vars => [Remote!Next]_(Remote!vars)
<1> SUFFICES ASSUME FrameInv, [Next]_vars
             PROVE  Remote!Next \/ UNCHANGED Remote!vars
  OBVIOUS
<1>1. CASE UNCHANGED vars
  <2>1. UNCHANGED <<screen, seen, capture, pic, pc, held, px, slot>>
    BY <1>1 DEF vars, world, session
  <2>2. UNCHANGED <<Copied, px[slot]>>
    BY <2>1 DEF Copied, capture
  <2>3. QED
    BY <2>1, <2>2, SamePictures DEF Remote!vars, TakenPictures
<1>2. ASSUME NEW t \in Tiles, Repaint(t) PROVE Remote!Next
  BY <1>2, RepaintPaints DEF Remote!Next
<1>3. ASSUME CaptureStep PROVE Remote!Next \/ UNCHANGED Remote!vars
  BY <1>3, FindFramebufferCaptures, FailureDrops, CopyFrameKeepsOrDrops,
     PublishPublishes, OtherCaptureSteps
  DEF CaptureStep, Remote!Next
<1>4. ASSUME NEW c \in Clients, WriterStep(c) \/ ClientStep(c)
      PROVE  Remote!Next \/ UNCHANGED Remote!vars
  BY <1>4, SessionSteps DEF Remote!Next
<1>5. QED
  BY <1>1, <1>2, <1>3, <1>4 DEF Next

\* For any viewers, buffers, backend and failures, FramePipeline implements the
\* abstract pipeline of RemoteScreen: an update shows tiles of a screen as it was
\* when the capture asked for its framebuffer, published in the order of the
\* captures, whatever was reused (do_capture, handle_client).  The compositor may
\* flip while the copy goes on; it may not draw into the framebuffer being copied.
THEOREM PipelineShowsTheScreen ==
  ASSUME "redraw" \notin Env
  PROVE  Spec => ImplementsRemoteScreen
  BY FrameInvInit, FrameInvNext, RemoteInit, RemoteNext, PTL
  DEF Spec, ImplementsRemoteScreen, Remote!Spec

-----------------------------------------------------------------------------
(* Frames are ordered in time. *)

\* Frame contents in the order they were captured, with contents that grow.
Before(f, g) == \A t \in Tiles : f[t] <= g[t]

AgeInv ==
  /\ Before(px[slot], screen)
  /\ capPc = "copy" => Before(px[slot], seen) /\ Before(seen, screen)
  /\ scratch # NoBuffer => Before(px[scratch], px[slot])
  /\ Writing => Before(px[slot], px[work]) /\ Before(px[work], screen)
  /\ capPc = "finish" /\ ~changed /\ work # NoBuffer => Before(px[work], px[slot])
  /\ \A c \in Clients : Before(pic[c], px[slot])
  /\ \A c \in Clients : Holding(c) =>
       Before(pic[c], px[held[c]]) /\ Before(px[held[c]], px[slot])

\* Frames are ordered.
LEMMA BeforeOrder ==
  ASSUME NEW f \in Frame, NEW g \in Frame
  PROVE  /\ Before(f, f)
         /\ \A h \in Frame : Before(f, g) /\ Before(g, h) => Before(f, h)
<1>1. \A t \in Tiles : f[t] \in Nat /\ g[t] \in Nat
  BY PipelineAssumption DEF Frame
<1>2. \A h \in Frame : \A t \in Tiles : h[t] \in Nat
  BY PipelineAssumption DEF Frame
<1>3. QED
  BY <1>1, <1>2 DEF Before

\* Initially every frame is the screen.
LEMMA AgeInvInit == Init => AgeInv
  BY PipelineAssumption DEF Init, AgeInv, Before, Writing, Holding

\* Each step keeps the order: viewer, sent, published, written, screen.
LEMMA AgeInvNext ==
  ASSUME Env \cap {"revert", "redraw"} = {}
  PROVE  FrameInv /\ AgeInv /\ [Next]_vars => AgeInv'
<1> SUFFICES ASSUME FrameInv, AgeInv, [Next]_vars PROVE AgeInv'
  OBVIOUS
<1> USE PipelineAssumption DEF FrameInv
<1>1. ASSUME NEW t \in Tiles, Repaint(t) PROVE AgeInv'
  <2>1. \A u \in Tiles : screen[u] <= screen'[u]
    <3>1. PICK v \in 1..MaxPaint :
            v > screen[t] /\ screen' = [screen EXCEPT ![t] = v]
      BY <1>1 DEF Repaint
    <3>2. \A u \in Tiles : screen[u] \in Nat
      BY DEF TypeOK, Frame
    <3>3. screen \in [Tiles -> 0..MaxPaint]
      BY DEF TypeOK, Frame
    <3> HIDE DEF FrameInv
    <3>4. QED
      BY <3>1, <3>2, <3>3
  <2>2. \A f \in Frame : Before(f, screen) => Before(f, screen')
    <3> SUFFICES ASSUME NEW f \in Frame, Before(f, screen), NEW u \in Tiles
                 PROVE  f[u] <= screen'[u]
      BY DEF Before
    <3>1. f[u] \in Nat /\ screen[u] \in Nat /\ screen'[u] \in Nat
      BY <1>1 DEF Repaint, TypeOK, Frame
    <3>2. QED
      BY <2>1, <3>1 DEF Before
  <2>3. UNCHANGED <<seen, capture, slot, px, pc, held, pic>>
    BY <1>1 DEF Repaint, session
  <2>4. QED
    BY <2>2, <2>3 DEF AgeInv, TypeOK, ControlInv, Holding, Writing, capture
<1>2. ASSUME RecvCaptureRequest PROVE AgeInv'
  BY <1>2
  DEF RecvCaptureRequest, AgeInv, Before, TypeOK, ControlInv, FramesNotShared,
      Frame, Holding, Writing, world, capture, session
<1>3. ASSUME PollTimeout PROVE AgeInv'
  BY <1>3
  DEF PollTimeout, AgeInv, Before, TypeOK, ControlInv, FramesNotShared, Frame,
      Holding, Writing, world, capture, session
<1>4. ASSUME SkipSameKey PROVE AgeInv'
  BY <1>4
  DEF SkipSameKey, AgeInv, Before, TypeOK, ControlInv, FramesNotShared, Frame,
      Holding, Writing, world, capture, session
<1>5. ASSUME FindFramebuffer \/ CaptureFails PROVE AgeInv'
  <2>1. /\ UNCHANGED <<screen, scratch, work, changed, slot, px, pc, held, pic>>
        /\ capPc \in {"capture", "copy"}
        /\ capPc' = "wait" \/ (capPc' = "copy" /\ seen' = screen)
    BY <1>5 DEF FindFramebuffer, CaptureFails, session
  <2>2. Before(screen, screen)
    BY BeforeOrder DEF TypeOK
  <2>3. ~Writing /\ ~Writing'
    BY <2>1 DEF Writing
  <2>4. QED
    BY <2>1, <2>2, <2>3 DEF AgeInv, Holding
<1>6. ASSUME CopyFrame PROVE AgeInv'
  <2>1. PICK b \in Buffers, warm \in BOOLEAN :
          /\ b # slot /\ \A c \in Clients : held[c] # b
          /\ warm => b = scratch /\ Backend = "direct"
          /\ work' = b /\ px'[b] = seen
          /\ \A d \in Buffers \ {b} : px'[d] = px[d]
          /\ todo' = ToMark(b, seen, warm) /\ changed' = (warm => todo' # {})
    BY <1>6, CopyFrameEffect DEF Copies
  <2>2. px'[b] = seen /\ \A d \in Buffers \ {b} : px'[d] = px[d]
    BY <2>1
  <2>3. /\ scratch' = NoBuffer /\ UNCHANGED <<screen, slot, pc, held, pic>>
        /\ capPc = "copy" /\ capPc' # "copy"
    BY <1>6 DEF CopyFrame, session
  <2>4. Before(px[slot], seen) /\ Before(seen, screen)
    BY <2>3 DEF AgeInv
  <2>5. ~changed' => Before(px'[b], px[slot])
    <3> SUFFICES ASSUME ~changed' PROVE Before(seen, px[slot])
      BY <2>2
    <3>1. b = scratch /\ \A t \in Tiles : px[b][t] = seen[t]
      BY <2>1 DEF ToMark
    <3>2. Before(px[b], px[slot])
      BY <3>1 DEF AgeInv
    <3>3. QED
      BY <3>1, <3>2 DEF Before
  <2>6. \A c \in Clients : Holding(c) => held[c] \in Buffers \ {b}
    BY <2>1 DEF ControlInv, TypeOK
  <2>7. QED
    BY <2>1, <2>2, <2>3, <2>4, <2>5, <2>6 DEF AgeInv, TypeOK, Holding, Writing
<1>7. ASSUME NEW t \in Tiles, MarkTile(t) PROVE AgeInv'
  BY <1>7
  DEF MarkTile, AgeInv, Before, TypeOK, ControlInv, FramesNotShared, Frame,
      Holding, Writing, world, capture, session
<1>8. ASSUME Publish PROVE AgeInv'
  <2>1. /\ slot' = work /\ scratch' \in {slot, NoBuffer}
        /\ work' = NoBuffer /\ ~changed' /\ capPc' = "wait"
        /\ UNCHANGED <<screen, px, pc, held, pic>>
    BY <1>8 DEF Publish, world
  <2>2. /\ Before(px[slot], px[work]) /\ Before(px[work], screen)
        /\ work \in Buffers
    BY <1>8 DEF Publish, AgeInv, ControlInv, Writing
  <2>3. \A f \in Frame : Before(f, px[slot]) => Before(f, px[work])
    BY <2>2, BeforeOrder DEF TypeOK
  <2>4. \A c \in Clients : Holding(c) => px[held[c]] \in Frame
    BY DEF ControlInv, TypeOK
  <2>5. \A c \in Clients :
          /\ Before(pic[c], px[work])
          /\ Holding(c) => Before(px[held[c]], px[work])
    BY <2>3, <2>4 DEF AgeInv, TypeOK
  <2>6. QED
    BY <2>1, <2>2, <2>5 DEF AgeInv, Writing, Holding
<1>9. ASSUME NotifyUnchanged PROVE AgeInv'
  BY <1>9
  DEF NotifyUnchanged, NotifyViewers, AgeInv, Before, TypeOK, ControlInv,
      FramesNotShared, Frame, Holding, Writing, world, capture, session
<1>10. ASSUME NEW c \in Clients, Connect(c) PROVE AgeInv'
  <2>1. UNCHANGED <<screen, seen, capture, slot, px, held>>
    BY <1>10 DEF Connect, world
  <2>2. \A d \in Clients : Holding(d)' => d # c /\ Holding(d)
    BY <1>10 DEF Connect, Holding, TypeOK
  <2>3. \A d \in Clients \ {c} : pic'[d] = pic[d]
    BY <1>10 DEF Connect, TypeOK
  <2>4. Before(pic'[c], px[slot])
    <3>1. pic'[c] = [t \in Tiles |-> 0]
      BY <1>10 DEF Connect, TypeOK
    <3>2. QED
      BY <3>1 DEF Before, TypeOK, Frame
  <2>5. QED
    BY <2>1, <2>2, <2>3, <2>4 DEF AgeInv, Writing, capture
<1>11. ASSUME NEW c \in Clients, NEW kind \in {"inc", "full"},
              ClientRequest(c, kind)
       PROVE  AgeInv'
  BY <1>11
  DEF ClientRequest, HasRoom, AgeInv, Before, TypeOK, ControlInv,
      FramesNotShared, Frame, Holding, Writing, world, capture, session
<1>12. ASSUME NEW c \in Clients, RecvUpdateRequest(c) PROVE AgeInv'
  <2>1. UNCHANGED <<screen, seen, capture, slot, px, held, pic>>
    BY <1>12 DEF RecvUpdateRequest, world
  <2>2. \A d \in Clients : Holding(d)' => Holding(d)
    BY <1>12 DEF RecvUpdateRequest, Holding, TypeOK
  <2>3. QED
    BY <2>1, <2>2 DEF AgeInv, Writing, capture
<1>13. ASSUME NEW c \in Clients, Changed(c) PROVE AgeInv'
  BY <1>13
  DEF Changed, HasNews, AgeInv, Before, TypeOK, ControlInv, FramesNotShared,
      Frame, Holding, Writing, world, capture, session
<1>14. ASSUME NEW c \in Clients, Borrow(c) PROVE AgeInv'
  <2>1. /\ held' = [held EXCEPT ![c] = slot] /\ pc' = [pc EXCEPT ![c] = "drain"]
        /\ UNCHANGED <<screen, seen, px, pic, slot, scratch, work, capPc, changed>>
    BY <1>14 DEF Borrow, world, capture
  <2>2. \A d \in Clients : d # c => held'[d] = held[d] /\ (Holding(d)' <=> Holding(d))
    BY <2>1 DEF TypeOK, Holding
  <2>3. held'[c] = slot /\ Before(px[slot], px[slot])
    BY <2>1, BeforeOrder DEF TypeOK
  <2>4. QED
    BY <2>1, <2>2, <2>3 DEF AgeInv, Writing
<1>15. ASSUME NEW c \in Clients, Drain(c) PROVE AgeInv'
  BY <1>15
  DEF Drain, AgeInv, Before, TypeOK, ControlInv, FramesNotShared, Frame,
      Holding, Writing, world, capture, session
<1>16. ASSUME NEW c \in Clients, WriteRects(c) PROVE AgeInv'
  BY <1>16
  DEF WriteRects, AgeInv, Before, TypeOK, ControlInv, FramesNotShared, Frame,
      Holding, Writing, world, capture, session
<1>17. ASSUME NEW c \in Clients, Disconnect(c) PROVE AgeInv'
  BY <1>17
  DEF Disconnect, AgeInv, Before, TypeOK, ControlInv, FramesNotShared, Frame,
      Holding, Writing, world, capture, session
<1>18. CASE UNCHANGED vars
  BY <1>18 DEF AgeInv, Before, Holding, Writing, vars, world, capture, session
<1>19. QED
  BY <1>1, <1>2, <1>3, <1>4, <1>5, <1>6, <1>7, <1>8, <1>9, <1>10, <1>11,
     <1>12, <1>13, <1>14, <1>15, <1>16, <1>17, <1>18
  DEF Next, CaptureStep, WriterStep, ClientStep

\* No viewer's picture goes back to an older content, for any number of viewers,
\* any backend and any failures, however captures are timed, as long as the contents
\* themselves grow and are not drawn under the copy (do_capture, handle_client).
THEOREM PicturesNeverGoBack ==
  ASSUME Env \cap {"revert", "redraw"} = {}
  PROVE  Spec => PictureNeverGoesBack
<1>1. Init => FrameInv /\ AgeInv
  BY FrameInvInit, AgeInvInit
<1>2. FrameInv /\ AgeInv /\ [Next]_vars => (FrameInv /\ AgeInv)'
  BY FrameInvNext, AgeInvNext
<1> DEFINE Step == \A c \in Clients : pc'[c] # "gone" /\ pc[c] \in Live =>
                     \A t \in Tiles : pic'[c][t] >= pic[c][t]
<1>3. FrameInv /\ AgeInv /\ [Next]_vars => [Step]_vars
  <2> SUFFICES ASSUME FrameInv, AgeInv, Next,
                      NEW d \in Clients, pc'[d] # "gone", pc[d] \in Live,
                      NEW u \in Tiles
               PROVE  pic'[d][u] >= pic[d][u]
    OBVIOUS
  <2>1. pic[d][u] \in Nat
    BY DEF FrameInv, TypeOK, Frame
  <2>2. CASE pic' = pic
    BY <2>1, <2>2
  <2>3. ASSUME NEW c \in Clients, Connect(c) PROVE pic'[d] = pic[d]
    BY <2>3 DEF Connect, Live, FrameInv, TypeOK
  <2>4. ASSUME NEW c \in Clients, WriteRects(c) PROVE pic'[d][u] >= pic[d][u]
    <3>1. CASE c # d
      BY <3>1, <2>1, <2>4 DEF WriteRects, FrameInv, TypeOK
    <3>2. CASE c = d
      <4>1. pic'[d][u] \in {px[held[d]][u], pic[d][u]}
        BY <3>2, <2>4 DEF WriteRects, FrameInv, TypeOK
      <4>2. pic[d][u] <= px[held[d]][u] /\ px[held[d]][u] \in Nat
        BY <3>2, <2>4
        DEF WriteRects, AgeInv, Before, Holding, FrameInv, ControlInv, TypeOK,
            Frame
      <4>3. QED
        BY <4>1, <4>2, <2>1
    <3>3. QED
      BY <3>1, <3>2
  <2>5. ASSUME NEW t \in Tiles, Repaint(t) PROVE pic' = pic
    BY <2>5 DEF Repaint, session
  <2>6. ASSUME CaptureStep PROVE pic' = pic
    BY <2>6 DEF CaptureStep, RecvCaptureRequest, PollTimeout, SkipSameKey,
                FindFramebuffer, CaptureFails, CopyFrame, MarkTile, Publish,
                NotifyUnchanged, session
  <2>7. ASSUME NEW c \in Clients, WriterStep(c) PROVE pic' = pic \/ WriteRects(c)
    BY <2>7 DEF WriterStep, RecvUpdateRequest, Changed, Borrow, Drain
  <2>8. ASSUME NEW c \in Clients, ClientStep(c) PROVE pic' = pic \/ Connect(c)
    BY <2>8 DEF ClientStep, ClientRequest, Disconnect
  <2>9. QED
    BY <2>2, <2>3, <2>4, <2>5, <2>6, <2>7, <2>8, <2>1 DEF Next
<1>4. QED
  BY <1>1, <1>2, <1>3, PTL DEF Spec, PictureNeverGoesBack

-----------------------------------------------------------------------------
(* One session, served on demand. *)

\* No copy compares contents, or contents do not come back and are not torn.
Comparable == Env \cap {"revert", "redraw"} = {} \/ Backend # "direct"

OrderInv == FrameInv /\ (Env \cap {"revert", "redraw"} = {} => AgeInv)

\* The two invariants together, the second where contents grow.
LEMMA OrderInvInit == Init => OrderInv
  BY FrameInvInit, AgeInvInit DEF OrderInv

\* Likewise for the steps.
LEMMA OrderInvNext == OrderInv /\ [Next]_vars => OrderInv'
  BY FrameInvNext, AgeInvNext DEF OrderInv

\* One session of the server, captured through DRM.
SoleSession ==
  /\ \A c, d \in Clients : c = d
  /\ "reconnect" \notin Env
  /\ Backend # "fbdev"

\* The viewer never asks quickly enough for the capture loop to poll.
ServedOnDemand == mode = "OnDemand"

\* The capture thread works only while the viewer waits for it.
TurnInv ==
  /\ mode = "OnDemand"
  /\ capPc # "wait" => ~pending
  /\ \A c \in Clients : pending \/ capPc # "wait" =>
       pc[c] = "gone" \/ (pc[c] = "await" /\ ~unseen[c])
  /\ \A c \in Clients : pc[c] = "new" => ~notified
  /\ \A c \in Clients : pc[c] \in {"recv", "borrow", "drain", "send"} => ~unseen[c]
  /\ \A c \in Clients : Holding(c) => held[c] = slot

\* Initially no request is under way.
LEMMA TurnInvInit == Init => TurnInv
  BY DEF Init, TurnInv, Holding

\* The sole viewer and the capture thread take turns.
LEMMA TurnInvNext ==
  ASSUME SoleSession
  PROVE  FrameInv /\ TurnInv /\ [Next]_vars /\ ServedOnDemand' => TurnInv'
<1> SUFFICES ASSUME FrameInv, TurnInv, [Next]_vars, ServedOnDemand' PROVE TurnInv'
  OBVIOUS
<1> USE PipelineAssumption DEF FrameInv, SoleSession, ServedOnDemand
<1>1. ASSUME NEW t \in Tiles, Repaint(t) PROVE TurnInv'
  BY <1>1
  DEF Repaint,
      TurnInv, TypeOK, Live, Holding, world, capture, session
<1>2. ASSUME RecvCaptureRequest PROVE TurnInv'
  BY <1>2
  DEF RecvCaptureRequest,
      TurnInv, TypeOK, Live, Holding, world, capture, session
<1>3. ASSUME PollTimeout PROVE TurnInv'
  BY <1>3
  DEF PollTimeout,
      TurnInv, TypeOK, Live, Holding, world, capture, session
<1>4. ASSUME SkipSameKey PROVE TurnInv'
  BY <1>4
  DEF SkipSameKey,
      TurnInv, TypeOK, Live, Holding, world, capture, session
<1>5. ASSUME FindFramebuffer \/ CaptureFails PROVE TurnInv'
  BY <1>5
  DEF FindFramebuffer, CaptureFails,
      TurnInv, TypeOK, Live, Holding, world, capture, session
<1>6. ASSUME CopyFrame PROVE TurnInv'
  <2>1. /\ capPc = "copy"
        /\ UNCHANGED <<mode, slot, pending, notified, pc, unseen, held>>
    BY <1>6 DEF CopyFrame, session
  <2>2. QED
    BY <2>1 DEF TurnInv, Holding
<1>7. ASSUME NEW t \in Tiles, MarkTile(t) PROVE TurnInv'
  BY <1>7
  DEF MarkTile,
      TurnInv, TypeOK, Live, Holding, world, capture, session
<1>8. ASSUME Publish PROVE TurnInv'
  BY <1>8
  DEF Publish, Reusable, NotifyViewers,
      TurnInv, TypeOK, Live, Holding, world, capture, session
<1>9. ASSUME NotifyUnchanged PROVE TurnInv'
  BY <1>9
  DEF NotifyUnchanged, NotifyViewers,
      TurnInv, TypeOK, Live, Holding, world, capture, session
<1>10. ASSUME NEW c \in Clients, Connect(c) PROVE TurnInv'
  BY <1>10
  DEF Connect,
      TurnInv, TypeOK, Live, Holding, world, capture, session
<1>11. ASSUME NEW c \in Clients, NEW kind \in {"inc", "full"},
              ClientRequest(c, kind)
       PROVE  TurnInv'
  BY <1>11
  DEF ClientRequest, HasRoom,
      TurnInv, TypeOK, Live, Holding, world, capture, session
<1>12. ASSUME NEW c \in Clients, RecvUpdateRequest(c) PROVE TurnInv'
  <2>1. UNCHANGED <<mode, capPc, notified, unseen, held, slot>>
    BY <1>12, RequestTaken DEF capture
  <2>2. pc[c] = "recv" /\ ~unseen[c] /\ ~pending /\ capPc = "wait"
    BY <1>12, RequestTaken DEF TurnInv
  <2>3. \/ pc'[c] = "await" /\ pending' = TRUE
        \/ pc'[c] = "borrow" /\ pending' = pending
    <3>1. \/ pc' = [pc EXCEPT ![c] = "await"] /\ pending' = TRUE
          \/ pc' = [pc EXCEPT ![c] = "borrow"] /\ pending' = pending
      BY <1>12, RequestTaken
    <3>2. c \in DOMAIN pc
      BY DEF TypeOK
    <3> HIDE DEF FrameInv, SoleSession, ServedOnDemand
    <3>3. QED
      BY <3>1, <3>2
  <2>4. QED
    BY <2>1, <2>2, <2>3 DEF TurnInv, Holding
<1>13. ASSUME NEW c \in Clients, Changed(c) PROVE TurnInv'
  BY <1>13
  DEF Changed, HasNews,
      TurnInv, TypeOK, Live, Holding, world, capture, session
<1>14. ASSUME NEW c \in Clients, Borrow(c) PROVE TurnInv'
  BY <1>14
  DEF Borrow,
      TurnInv, TypeOK, Live, Holding, world, capture, session
<1>15. ASSUME NEW c \in Clients, Drain(c) PROVE TurnInv'
  BY <1>15
  DEF Drain,
      TurnInv, TypeOK, Live, Holding, world, capture, session
<1>16. ASSUME NEW c \in Clients, WriteRects(c) PROVE TurnInv'
  BY <1>16
  DEF WriteRects,
      TurnInv, TypeOK, Live, Holding, world, capture, session
<1>17. ASSUME NEW c \in Clients, Disconnect(c) PROVE TurnInv'
  BY <1>17
  DEF Disconnect,
      TurnInv, TypeOK, Live, Holding, world, capture, session
<1>18. CASE UNCHANGED vars
  BY <1>18 DEF TurnInv, Holding, vars, world, capture, session
<1>19. QED
  BY <1>1, <1>2, <1>3, <1>4, <1>5, <1>6, <1>7, <1>8, <1>9,
     <1>10, <1>11, <1>12, <1>13, <1>14, <1>15, <1>16, <1>17, <1>18
  DEF Next, CaptureStep, WriterStep, ClientStep

\* Every difference between the frame being written and the published one has
\* its tile marked or still to be marked.
MarkInv ==
  Writing => \A t \in Tiles : px[work][t] = px[slot][t] \/ t \in bits \cup todo

\* NoLostTile, for a viewer whose update is taken from the published frame.
ShownInv ==
  \A c \in Clients, t \in Tiles : pc[c] \in Live =>
    \/ pic[c][t] \in {0, px[slot][t]}
    \/ t \in bits
    \/ pc[c] = "send" /\ t \in rects[c]

LostInv == OrderInv /\ TurnInv /\ MarkInv /\ ShownInv

\* Initially no viewer is connected.
LEMMA LostInvInit == Init => LostInv
  BY OrderInvInit, TurnInvInit
  DEF Init, LostInv, MarkInv, ShownInv, Writing, Live

\* Captures mark what they change, and no drain comes between.
LEMMA MarkInvNext ==
  ASSUME SoleSession, Comparable
  PROVE  LostInv /\ [Next]_vars => MarkInv'
<1> SUFFICES ASSUME LostInv, [Next]_vars PROVE MarkInv'
  OBVIOUS
<1> USE PipelineAssumption DEF LostInv, OrderInv, FrameInv, SoleSession
<1>1. ASSUME NEW t \in Tiles, Repaint(t) PROVE MarkInv'
  BY <1>1
  DEF Repaint,
      MarkInv, TurnInv, TypeOK, ControlInv, Writing, Holding,
      world, capture, session
<1>2. ASSUME RecvCaptureRequest PROVE MarkInv'
  BY <1>2
  DEF RecvCaptureRequest,
      MarkInv, TurnInv, TypeOK, ControlInv, Writing, Holding,
      world, capture, session
<1>3. ASSUME PollTimeout PROVE MarkInv'
  BY <1>3
  DEF PollTimeout,
      MarkInv, TurnInv, TypeOK, ControlInv, Writing, Holding,
      world, capture, session
<1>4. ASSUME SkipSameKey PROVE MarkInv'
  BY <1>4
  DEF SkipSameKey,
      MarkInv, TurnInv, TypeOK, ControlInv, Writing, Holding,
      world, capture, session
<1>5. ASSUME FindFramebuffer \/ CaptureFails PROVE MarkInv'
  BY <1>5 DEF FindFramebuffer, CaptureFails, MarkInv, Writing
<1>6. ASSUME CopyFrame PROVE MarkInv'
  <2>1. PICK b \in Buffers, f \in Copies, warm \in BOOLEAN :
          /\ b # slot /\ \A c \in Clients : held[c] # b
          /\ warm => b = scratch /\ Backend = "direct"
          /\ work' = b /\ px'[b] = f
          /\ \A d \in Buffers \ {b} : px'[d] = px[d]
          /\ todo' = ToMark(b, f, warm) /\ changed' = (warm => todo' # {})
    BY <1>6, CopyFrameEffect
  <2>2. UNCHANGED <<slot, bits>> /\ px'[slot] = px[slot]
    BY <1>6, <2>1 DEF CopyFrame, TypeOK
  <2>3. ASSUME NEW t \in Tiles PROVE f[t] = px[slot][t] \/ t \in todo'
    <3>1. CASE ~warm
      BY <2>1, <3>1 DEF ToMark
    <3>2. CASE warm
      <4>1. Env \cap {"revert", "redraw"} = {} /\ f = seen
        BY <2>1, <3>2 DEF Comparable, Copies
      <4>2. Before(px[scratch], px[slot]) /\ Before(px[slot], seen)
        BY <1>6, <2>1, <3>2, <4>1 DEF AgeInv, CopyFrame
      <4>3. px[scratch][t] \in Nat /\ px[slot][t] \in Nat /\ seen[t] \in Nat
        BY <2>1, <3>2 DEF TypeOK, Frame
      <4>4. px[scratch][t] # seen[t] => t \in todo'
        BY <2>1, <3>2, <4>1 DEF ToMark
      <4>5. QED
        BY <4>1, <4>2, <4>3, <4>4 DEF Before
    <3>3. QED
      BY <3>1, <3>2
  <2>4. QED
    BY <2>1, <2>2, <2>3 DEF MarkInv
<1>7. ASSUME NEW t \in Tiles, MarkTile(t) PROVE MarkInv'
  BY <1>7
  DEF MarkTile,
      MarkInv, TurnInv, TypeOK, ControlInv, Writing, Holding,
      world, capture, session
<1>8. ASSUME Publish PROVE MarkInv'
  BY <1>8
  DEF Publish, Reusable, NotifyViewers,
      MarkInv, TurnInv, TypeOK, ControlInv, Writing, Holding,
      world, capture, session
<1>9. ASSUME NotifyUnchanged PROVE MarkInv'
  BY <1>9
  DEF NotifyUnchanged, NotifyViewers,
      MarkInv, TurnInv, TypeOK, ControlInv, Writing, Holding,
      world, capture, session
<1>10. ASSUME NEW c \in Clients, Connect(c) PROVE MarkInv'
  BY <1>10
  DEF Connect,
      MarkInv, TurnInv, TypeOK, ControlInv, Writing, Holding,
      world, capture, session
<1>11. ASSUME NEW c \in Clients, NEW kind \in {"inc", "full"},
              ClientRequest(c, kind)
       PROVE  MarkInv'
  BY <1>11
  DEF ClientRequest, HasRoom,
      MarkInv, TurnInv, TypeOK, ControlInv, Writing, Holding,
      world, capture, session
<1>12. ASSUME NEW c \in Clients, RecvUpdateRequest(c) PROVE MarkInv'
  BY <1>12
  DEF RecvUpdateRequest,
      MarkInv, TurnInv, TypeOK, ControlInv, Writing, Holding,
      world, capture, session
<1>13. ASSUME NEW c \in Clients, Changed(c) PROVE MarkInv'
  BY <1>13
  DEF Changed, HasNews,
      MarkInv, TurnInv, TypeOK, ControlInv, Writing, Holding,
      world, capture, session
<1>14. ASSUME NEW c \in Clients, Borrow(c) PROVE MarkInv'
  BY <1>14
  DEF Borrow,
      MarkInv, TurnInv, TypeOK, ControlInv, Writing, Holding,
      world, capture, session
<1>15. ASSUME NEW c \in Clients, Drain(c) PROVE MarkInv'
  BY <1>15
  DEF Drain,
      MarkInv, TurnInv, TypeOK, ControlInv, Writing, Holding,
      world, capture, session
<1>16. ASSUME NEW c \in Clients, WriteRects(c) PROVE MarkInv'
  BY <1>16
  DEF WriteRects,
      MarkInv, TurnInv, TypeOK, ControlInv, Writing, Holding,
      world, capture, session
<1>17. ASSUME NEW c \in Clients, Disconnect(c) PROVE MarkInv'
  BY <1>17
  DEF Disconnect,
      MarkInv, TurnInv, TypeOK, ControlInv, Writing, Holding,
      world, capture, session
<1>18. CASE UNCHANGED vars
  BY <1>18 DEF MarkInv, Writing, vars, world, capture, session
<1>19. QED
  BY <1>1, <1>2, <1>3, <1>4, <1>5, <1>6, <1>7, <1>8, <1>9,
     <1>10, <1>11, <1>12, <1>13, <1>14, <1>15, <1>16, <1>17, <1>18
  DEF Next, CaptureStep, WriterStep, ClientStep

\* Publications and drains leave no tile uncovered.
LEMMA ShownInvNext ==
  ASSUME SoleSession
  PROVE  LostInv /\ [Next]_vars => ShownInv'
<1> SUFFICES ASSUME LostInv, [Next]_vars PROVE ShownInv'
  OBVIOUS
<1> USE PipelineAssumption DEF LostInv, OrderInv, FrameInv, SoleSession
<1>1. ASSUME NEW t \in Tiles, Repaint(t) PROVE ShownInv'
  BY <1>1
  DEF Repaint,
      ShownInv, MarkInv, TurnInv, TypeOK, ControlInv, Holding,
      Writing, Live, world, capture, session
<1>2. ASSUME RecvCaptureRequest PROVE ShownInv'
  BY <1>2
  DEF RecvCaptureRequest,
      ShownInv, MarkInv, TurnInv, TypeOK, ControlInv, Holding,
      Writing, Live, world, capture, session
<1>3. ASSUME PollTimeout PROVE ShownInv'
  BY <1>3
  DEF PollTimeout,
      ShownInv, MarkInv, TurnInv, TypeOK, ControlInv, Holding,
      Writing, Live, world, capture, session
<1>4. ASSUME SkipSameKey PROVE ShownInv'
  BY <1>4
  DEF SkipSameKey,
      ShownInv, MarkInv, TurnInv, TypeOK, ControlInv, Holding,
      Writing, Live, world, capture, session
<1>5. ASSUME FindFramebuffer \/ CaptureFails PROVE ShownInv'
  BY <1>5 DEF FindFramebuffer, CaptureFails, ShownInv, session
<1>6. ASSUME CopyFrame PROVE ShownInv'
  <2>1. px'[slot] = px[slot]
    BY <1>6, CopyFrameEffect DEF TypeOK
  <2>2. UNCHANGED <<slot, bits, pc, rects, pic>>
    BY <1>6 DEF CopyFrame, session
  <2>3. QED
    BY <2>1, <2>2 DEF ShownInv
<1>7. ASSUME NEW t \in Tiles, MarkTile(t) PROVE ShownInv'
  BY <1>7
  DEF MarkTile,
      ShownInv, MarkInv, TurnInv, TypeOK, ControlInv, Holding,
      Writing, Live, world, capture, session
<1>8. ASSUME Publish PROVE ShownInv'
  BY <1>8
  DEF Publish, Reusable, NotifyViewers,
      ShownInv, MarkInv, TurnInv, TypeOK, ControlInv, Holding,
      Writing, Live, world, capture, session
<1>9. ASSUME NotifyUnchanged PROVE ShownInv'
  BY <1>9
  DEF NotifyUnchanged, NotifyViewers,
      ShownInv, MarkInv, TurnInv, TypeOK, ControlInv, Holding,
      Writing, Live, world, capture, session
<1>10. ASSUME NEW c \in Clients, Connect(c) PROVE ShownInv'
  BY <1>10
  DEF Connect,
      ShownInv, MarkInv, TurnInv, TypeOK, ControlInv, Holding,
      Writing, Live, world, capture, session
<1>11. ASSUME NEW c \in Clients, NEW kind \in {"inc", "full"},
              ClientRequest(c, kind)
       PROVE  ShownInv'
  BY <1>11
  DEF ClientRequest, HasRoom,
      ShownInv, MarkInv, TurnInv, TypeOK, ControlInv, Holding,
      Writing, Live, world, capture, session
<1>12. ASSUME NEW c \in Clients, RecvUpdateRequest(c) PROVE ShownInv'
  BY <1>12
  DEF RecvUpdateRequest,
      ShownInv, MarkInv, TurnInv, TypeOK, ControlInv, Holding,
      Writing, Live, world, capture, session
<1>13. ASSUME NEW c \in Clients, Changed(c) PROVE ShownInv'
  BY <1>13
  DEF Changed, HasNews,
      ShownInv, MarkInv, TurnInv, TypeOK, ControlInv, Holding,
      Writing, Live, world, capture, session
<1>14. ASSUME NEW c \in Clients, Borrow(c) PROVE ShownInv'
  BY <1>14
  DEF Borrow,
      ShownInv, MarkInv, TurnInv, TypeOK, ControlInv, Holding,
      Writing, Live, world, capture, session
<1>15. ASSUME NEW c \in Clients, Drain(c) PROVE ShownInv'
  BY <1>15
  DEF Drain,
      ShownInv, MarkInv, TurnInv, TypeOK, ControlInv, Holding,
      Writing, Live, world, capture, session
<1>16. ASSUME NEW c \in Clients, WriteRects(c) PROVE ShownInv'
  BY <1>16
  DEF WriteRects,
      ShownInv, MarkInv, TurnInv, TypeOK, ControlInv, Holding,
      Writing, Live, world, capture, session
<1>17. ASSUME NEW c \in Clients, Disconnect(c) PROVE ShownInv'
  BY <1>17
  DEF Disconnect,
      ShownInv, MarkInv, TurnInv, TypeOK, ControlInv, Holding,
      Writing, Live, world, capture, session
<1>18. CASE UNCHANGED vars
  BY <1>18 DEF ShownInv, Live, vars, world, capture, session
<1>19. QED
  BY <1>1, <1>2, <1>3, <1>4, <1>5, <1>6, <1>7, <1>8, <1>9,
     <1>10, <1>11, <1>12, <1>13, <1>14, <1>15, <1>16, <1>17, <1>18
  DEF Next, CaptureStep, WriterStep, ClientStep

\* The inductive invariant behind the theorems about one viewer.
LEMMA LostInvNext ==
  ASSUME SoleSession, Comparable
  PROVE  LostInv /\ [Next]_vars /\ ServedOnDemand' => LostInv'
<1> SUFFICES ASSUME LostInv, [Next]_vars, ServedOnDemand' PROVE LostInv'
  OBVIOUS
<1>1. OrderInv' /\ TurnInv'
  BY OrderInvNext, TurnInvNext DEF LostInv, OrderInv
<1>2. MarkInv' /\ ShownInv'
  BY MarkInvNext, ShownInvNext
<1>3. QED
  BY <1>1, <1>2 DEF LostInv

-----------------------------------------------------------------------------
(* The theorems. *)

\* The only session of a server loses no dirty tile (DirtyTiles, do_capture,
\* handle_client's writer loop), as long as the loop captures on demand: the
\* capture thread then marks and publishes only while the writer waits in
\* changed().  Captures may fail and handles recur; contents that recur or are torn
\* are excluded where the copy compares.  Each hypothesis is needed: a second
\* session, polling, a reconnect or a recurring content loses a tile.
THEOREM NoTileIsLost ==
  ASSUME SoleSession, Comparable
  PROVE  Spec /\ []ServedOnDemand => []NoLostTile
<1>1. Spec /\ []ServedOnDemand => []LostInv
  BY LostInvInit, LostInvNext, PTL DEF Spec
<1>2. LostInv => NoLostTile
  BY DEF LostInv, ShownInv, TurnInv, Holding, NoLostTile, TileCovered
<1>3. QED
  BY <1>1, <1>2, PTL

\* On the same terms "nothing changed" is never said falsely (handle_client,
\* rects.is_empty()): for the only session of a server, while it is served on
\* demand.  Two sessions, or one in polling mode, are told so falsely.
THEOREM EmptyRepliesAreTrue ==
  ASSUME SoleSession, Comparable
  PROVE  Spec /\ []ServedOnDemand => EmptyReplyIsTrue
<1> DEFINE Step ==
      \A c \in Clients : pc[c] = "drain" /\ pc'[c] = "send" /\ rects'[c] = {} =>
        \A t \in Tiles : pic[c][t] \in {0, px[held[c]][t]}
<1>1. LostInv /\ [Next]_vars => [Step]_vars
  <2> SUFFICES ASSUME LostInv, Next,
                      NEW c \in Clients, pc[c] = "drain", pc'[c] = "send",
                      rects'[c] = {}
               PROVE  \A t \in Tiles : pic[c][t] \in {0, px[held[c]][t]}
    OBVIOUS
  <2>1. held[c] = slot
    BY DEF LostInv, TurnInv, Holding
  <2>2. bits = {}
    <3>1. Drain(c)
      <4>1. ASSUME NEW d \in Clients, WriterStep(d) PROVE Drain(c)
        BY <4>1 DEF WriterStep, RecvUpdateRequest, Changed, Borrow, Drain,
                    WriteRects, LostInv, OrderInv, FrameInv, TypeOK
      <4>2. ASSUME NEW d \in Clients, ClientStep(d) PROVE FALSE
        BY <4>2 DEF ClientStep, Connect, ClientRequest, Disconnect, LostInv,
                    OrderInv, FrameInv, TypeOK
      <4>3. ASSUME NEW t \in Tiles, Repaint(t) PROVE FALSE
        BY <4>3 DEF Repaint
      <4>4. ASSUME CaptureStep PROVE FALSE
        BY <4>4 DEF CaptureStep, RecvCaptureRequest, PollTimeout, SkipSameKey,
                    FindFramebuffer, CaptureFails, CopyFrame, MarkTile, Publish,
                    NotifyUnchanged, session
      <4>5. QED
        BY <4>1, <4>2, <4>3, <4>4 DEF Next
    <3>2. QED
      BY <3>1, PipelineAssumption
      DEF Drain, LostInv, OrderInv, FrameInv, TypeOK
  <2>3. QED
    BY <2>1, <2>2 DEF LostInv, ShownInv, Live
<1>2. QED
  BY LostInvInit, LostInvNext, <1>1, PTL DEF Spec, EmptyReplyIsTrue

=============================================================================
