---------------------------- MODULE FramePipeline ----------------------------
(***************************************************************************)
(* The screen-update pipeline of kmsvnc: the compositor paints a screen,   *)
(* the one capture thread (capture_loop / do_capture in main.rs) copies it *)
(* into a frame buffer, marks the tiles that changed in the shared         *)
(* DirtyTiles, and publishes the buffer through a watch channel; the       *)
(* writer half of every client session (handle_client in vnc/server.rs)    *)
(* takes a request, waits for a publication, takes the published frame,    *)
(* drains the dirty tiles and sends the rectangles.                        *)
(*                                                                         *)
(* The pixels of a tile are abstracted to a number, 0 being "never shown". *)
(* Times are abstracted here to the choice between the branches they       *)
(* select; module CaptureLoop models them with a clock.                    *)
(***************************************************************************)
EXTENDS Naturals, Sequences, FiniteSets

CONSTANTS
  Clients,   \* viewer sessions
  Tiles,     \* the 64-pixel tiles of the screen
  Buffers,   \* frame allocations (VideoFrame): the heap always has a free one
  NoBuffer,  \* no frame: Option::None
  Keys,      \* DRM framebuffer handles the compositor flips between
  Backend,   \* "direct": DRM, XRGB/ARGB8888; "convert": DRM, other formats; "fbdev"
  Env,       \* what the world around the program may do, see EnvFlags
  ReqCap,    \* capacity of a session's update request channel (4 in the code)
  MaxPaint   \* bound: the largest content a tile is painted with

\* "revert"   : a tile may be painted with a content it had before
\* "samekey"  : the compositor may be back at the handle last captured, after
\*              an even number of flips or drawing into the front buffer
\* "redraw"   : the compositor may flip away from the framebuffer that is being
\*              captured and draw into it before the copy is done
\* "fail"     : a capture may fail
\* "fast"     : requests may come less than 100 ms apart (polling mode)
\* "reconnect": a session slot may be used again after a disconnect
EnvFlags == {"revert", "samekey", "redraw", "fail", "fast", "reconnect"}

ASSUME PipelineAssumption ==
  /\ Clients # {} /\ Tiles # {}
  /\ IsFiniteSet(Clients) /\ IsFiniteSet(Buffers)
  /\ NoBuffer \notin Buffers
  /\ Cardinality(Buffers) >= Cardinality(Clients) + 2
  /\ Backend \in {"direct", "convert", "fbdev"}
  /\ Env \subseteq EnvFlags
  /\ ReqCap \in Nat \ {0}
  /\ MaxPaint \in Nat \ {0}

VARIABLES
  screen,    \* the picture in the framebuffer being scanned out
  fbKey,     \* the handle of that framebuffer
  seen,      \* the picture in the framebuffer get_crtc found, until it is copied
  capPc,     \* the capture thread: "wait", "capture", "copy", "mark", "finish"
  mode,      \* CaptureMode: "OnDemand" or "Polling"
  lastKey,   \* Capturer.last_fb_key
  scratch,   \* reuse_frame
  work,      \* the frame do_capture is writing
  todo,      \* tiles whose dirty bit this capture has still to set
  changed,   \* what capture_fn is going to return
  slot,      \* the frame in the watch channel
  px,        \* the contents of every frame buffer
  bits,      \* DirtyTiles: the tiles marked dirty
  pending,   \* the capture request channel is not empty
  notified,  \* main's own, never read, frame_rx has an unseen publication
  pc,        \* a session's writer
  reqs,      \* a session's update request channel
  inc,       \* the request being served is incremental
  unseen,    \* a session's frame_rx has an unseen publication
  held,      \* the frame a session's writer holds
  rects,     \* the tiles of the update being written
  pic        \* what the viewer shows

world   == <<screen, fbKey, seen>>
capture == <<capPc, mode, lastKey, scratch, work, todo, changed>>
session == <<reqs, inc, unseen, held, rects, pic>>
vars    == <<world, capture, slot, px, bits, pending, notified, pc, session>>

Frame == [Tiles -> 0..MaxPaint]
Blank == [t \in Tiles |-> 0]
Live  == {"recv", "await", "borrow", "drain", "send"}

\* The frames some variable still refers to; the others are free memory.
InUse(b)    == b \in {slot, scratch, work} \/ \E c \in Clients : held[c] = b
FreeBuffers == {b \in Buffers : ~InUse(b)}

HasFull(q) == \E i \in DOMAIN q : q[i] = "full"

TypeOK ==
  /\ screen \in Frame /\ fbKey \in Keys /\ seen \in Frame
  /\ capPc \in {"wait", "capture", "copy", "mark", "finish"}
  /\ mode \in {"OnDemand", "Polling"} /\ lastKey \in Keys
  /\ scratch \in Buffers \cup {NoBuffer} /\ work \in Buffers \cup {NoBuffer}
  /\ todo \subseteq Tiles /\ changed \in BOOLEAN
  /\ slot \in Buffers /\ px \in [Buffers -> Frame] /\ bits \subseteq Tiles
  /\ pending \in BOOLEAN /\ notified \in BOOLEAN
  /\ pc \in [Clients -> Live \cup {"new", "gone"}]
  /\ reqs \in [Clients -> Seq({"inc", "full"})]
  /\ \A c \in Clients : Len(reqs[c]) <= ReqCap
  /\ inc \in [Clients -> BOOLEAN] /\ unseen \in [Clients -> BOOLEAN]
  /\ held \in [Clients -> Buffers \cup {NoBuffer}]
  /\ rects \in [Clients -> SUBSET Tiles]
  /\ pic \in [Clients -> Frame]

\* setup_capture takes a first frame (capture(true)) before any thread runs,
\* so the watch channel starts with the screen and last_fb_key with its handle.
Init ==
  /\ screen = [t \in Tiles |-> 1] /\ fbKey \in Keys /\ seen = Blank
  /\ capPc = "wait" /\ mode = "OnDemand" /\ lastKey = fbKey
  /\ scratch = NoBuffer /\ work = NoBuffer /\ todo = {} /\ changed = FALSE
  /\ slot \in Buffers /\ px = [b \in Buffers |-> screen] /\ bits = {}
  /\ pending = FALSE /\ notified = FALSE
  /\ pc = [c \in Clients |-> "new"]
  /\ reqs = [c \in Clients |-> <<>>]
  /\ inc = [c \in Clients |-> FALSE] /\ unseen = [c \in Clients |-> FALSE]
  /\ held = [c \in Clients |-> NoBuffer]
  /\ rects = [c \in Clients |-> {}]
  /\ pic = [c \in Clients |-> [t \in Tiles |-> 0]]

-----------------------------------------------------------------------------
(* The compositor, which is not part of the program. *)

\* A new content of one tile is scanned out, usually from another buffer.
Repaint(t) ==
  /\ \E v \in 1..MaxPaint :
       /\ v # screen[t] /\ ("revert" \in Env \/ v > screen[t])
       /\ screen' = [screen EXCEPT ![t] = v]
  /\ \E k \in Keys : ("samekey" \in Env \/ k # lastKey) /\ fbKey' = k
  /\ UNCHANGED <<seen, capture, slot, px, bits, pending, notified, pc, session>>

-----------------------------------------------------------------------------
(* The capture thread. *)

\* capture_loop, Ok(()): a request arrived.  The fourth of a quick series of
\* requests turns the loop to polling, and a polling loop swallows requests.
RecvCaptureRequest ==
  /\ capPc = "wait" /\ pending
  /\ pending' = FALSE                        \* further requests are drained
  /\ mode' \in (IF "fast" \in Env THEN {mode, "Polling"} ELSE {mode})
  /\ capPc' = IF mode' = "OnDemand" THEN "capture" ELSE "wait"
  /\ UNCHANGED <<world, lastKey, scratch, work, todo, changed, slot, px, bits,
                 notified, pc, session>>

\* capture_loop, Err(Timeout) in polling mode: a timer-driven capture, or back
\* to on-demand mode because the last request is more than 500 ms old.
PollTimeout ==
  /\ capPc = "wait" /\ ~pending /\ mode = "Polling"
  /\ \/ capPc' = "capture" /\ mode' = mode
     \/ capPc' = capPc /\ mode' = "OnDemand"
  /\ UNCHANGED <<world, lastKey, scratch, work, todo, changed, slot, px, bits,
                 pending, notified, pc, session>>

\* capture_into, the early Ok(false): the handle is the one captured last.
SkipSameKey ==
  /\ capPc = "capture" /\ Backend # "fbdev" /\ fbKey = lastKey
  /\ capPc' = "finish" /\ changed' = FALSE
  /\ work' = scratch /\ scratch' = NoBuffer
  /\ UNCHANGED <<world, mode, lastKey, todo, slot, px, bits, pending, notified,
                 pc, session>>

KeyAfterCapture == fbKey

\* capture_into: get_crtc tells the framebuffer.  What is in it now is what the
\* copy gets, also when the screen is flipped meanwhile.
FindFramebuffer ==
  /\ capPc = "capture" /\ (Backend = "fbdev" \/ fbKey # lastKey)
  /\ capPc' = "copy"
  /\ lastKey' = KeyAfterCapture /\ seen' = screen
  /\ UNCHANGED <<screen, fbKey, mode, scratch, work, todo, changed, slot, px, bits,
                 pending, notified, pc, session>>

\* A capture error: before (get_crtc) or after last_fb_key is assigned.  The
\* frame goes back to reuse_frame and nobody is notified.
CaptureFails ==
  /\ capPc \in {"capture", "copy"} /\ "fail" \in Env
  /\ capPc' = "wait" /\ seen' = Blank
  /\ UNCHANGED <<screen, fbKey, mode, lastKey, scratch, work, todo, changed, slot,
                 px, bits, pending, notified, pc, session>>

\* What the copy may find in the framebuffer: each tile as it was, or when the
\* compositor draws into it again, as it has become by then.
Copies ==
  IF "redraw" \in Env /\ fbKey # lastKey THEN [Tiles -> 1..MaxPaint] ELSE {seen}

\* Mutant of ToMark: a full copy into a cold buffer forgets set_all.
ToMarkWarmOnly(b, f, warm) ==
  IF warm THEN {t \in Tiles : px[b][t] # f[t]} ELSE {}

\* The tiles a capture of f into buffer b has to mark.  The comparison is with
\* what b holds, which is the frame published before the present one.
ToMark(b, f, warm) ==
  IF warm THEN {t \in Tiles : px[b][t] # f[t]}
  ELSE IF Backend = "fbdev" THEN {} ELSE Tiles

\* The pixels are copied.  A warm buffer in a direct-copy format is compared
\* tile by tile with the framebuffer (copy_rows_incremental), unless that one is
\* not mapped yet; any other DRM capture rewrites the frame and marks all tiles;
\* fbdev rewrites it and marks none.
CopyFrame ==
  /\ capPc = "copy"
  /\ \E f \in Copies, b \in (IF scratch = NoBuffer THEN FreeBuffers ELSE {scratch}),
        warm \in {FALSE, Backend = "direct" /\ scratch # NoBuffer} :
       /\ work' = b
       /\ px' = [px EXCEPT ![b] = f]
       /\ todo' = ToMark(b, f, warm)
       /\ changed' = (warm => todo' # {})
       /\ capPc' = IF todo' = {} THEN "finish" ELSE "mark"
  /\ scratch' = NoBuffer /\ seen' = Blank
  /\ UNCHANGED <<screen, fbKey, mode, lastKey, slot, bits, pending, notified, pc,
                 session>>

\* DirtyTiles::set, one atomic fetch_or per tile, before the frame is published.
MarkTile(t) ==
  /\ capPc = "mark" /\ t \in todo
  /\ bits' = bits \cup {t}
  /\ todo' = todo \ {t}
  /\ capPc' = IF todo' = {} THEN "finish" ELSE "mark"
  /\ UNCHANGED <<world, mode, lastKey, scratch, work, changed, slot, px,
                 pending, notified, pc, session>>

\* Mutant of Reusable: the old frame is taken back without Arc::try_unwrap.
ReusableAlways(b) == b \in Buffers

\* Arc::try_unwrap: nobody else refers to the frame that was replaced.
Reusable(b) == \A c \in Clients : held[c] # b

\* Mutant of NotifyViewers: the publication wakes nobody.
NotifyNobody == UNCHANGED <<notified, unseen>>

\* send_replace and send_modify wake every receiver of the watch channel.
NotifyViewers == notified' = TRUE /\ unseen' = [c \in Clients |-> TRUE]

\* do_capture, Ok(true): send_replace.  The frame it returns is kept for the
\* next capture when no session holds it (Arc::try_unwrap).
Publish ==
  /\ capPc = "finish" /\ changed
  /\ slot' = work
  /\ scratch' = IF Reusable(slot) THEN slot ELSE NoBuffer
  /\ work' = NoBuffer /\ changed' = FALSE /\ capPc' = "wait"
  /\ NotifyViewers
  /\ UNCHANGED <<world, mode, lastKey, todo, px, bits, pending, pc, reqs, inc,
                 held, rects, pic>>

\* Mutant of NotifyUnchanged: the frame in hand is published all the same.
PublishUnchanged ==
  /\ capPc = "finish" /\ ~changed
  /\ slot' = IF work = NoBuffer THEN slot ELSE work
  /\ scratch' = NoBuffer /\ work' = NoBuffer /\ capPc' = "wait"
  /\ NotifyViewers
  /\ UNCHANGED <<world, mode, lastKey, todo, changed, px, bits, pending, pc,
                 reqs, inc, held, rects, pic>>

\* do_capture, Ok(false): send_modify wakes the sessions with the same frame.
NotifyUnchanged ==
  /\ capPc = "finish" /\ ~changed
  /\ scratch' = work /\ work' = NoBuffer /\ capPc' = "wait"
  /\ NotifyViewers
  /\ UNCHANGED <<world, mode, lastKey, todo, changed, slot, px, bits, pending,
                 pc, reqs, inc, held, rects, pic>>

-----------------------------------------------------------------------------
(* A client session. *)

\* A session starts with a clone of main's frame_rx.
Connect(c) ==
  /\ pc[c] = "new" \/ (pc[c] = "gone" /\ "reconnect" \in Env)
  /\ pc' = [pc EXCEPT ![c] = "recv"]
  /\ unseen' = [unseen EXCEPT ![c] = notified]
  /\ pic' = [pic EXCEPT ![c] = [t \in Tiles |-> 0]]
  /\ UNCHANGED <<world, capture, slot, px, bits, pending, notified, reqs, inc,
                 held, rects>>

\* Mutant of HasRoom: one request more than the channel holds.
HasRoomOffByOne(c) == Len(reqs[c]) <= ReqCap

HasRoom(c) == Len(reqs[c]) < ReqCap

\* The reader forwards a FramebufferUpdateRequest; a full channel blocks it.
ClientRequest(c, kind) ==
  /\ pc[c] \in Live /\ HasRoom(c)
  /\ reqs' = [reqs EXCEPT ![c] = Append(@, kind)]
  /\ UNCHANGED <<world, capture, slot, px, bits, pending, notified, pc, inc,
                 unseen, held, rects, pic>>

\* update_req_rx.recv(); an incremental request asks for a capture first.
RecvUpdateRequest(c) ==
  /\ pc[c] = "recv" /\ reqs[c] # <<>>
  /\ reqs' = [reqs EXCEPT ![c] = Tail(@)]
  /\ inc' = [inc EXCEPT ![c] = (Head(reqs[c]) = "inc")]
  /\ IF inc'[c]
       THEN pc' = [pc EXCEPT ![c] = "await"] /\ pending' = TRUE
       ELSE pc' = [pc EXCEPT ![c] = "borrow"] /\ pending' = pending
  /\ UNCHANGED <<world, capture, slot, px, bits, notified, unseen, held, rects,
                 pic>>

\* Mutant of HasNews: the writer does not wait for the capture it asked for.
HasNewsAlways(c) == c \in Clients

HasNews(c) == unseen[c]

\* frame_rx.changed() returns.
Changed(c) ==
  /\ pc[c] = "await" /\ HasNews(c)
  /\ pc' = [pc EXCEPT ![c] = "borrow"]
  /\ unseen' = [unseen EXCEPT ![c] = FALSE]
  /\ UNCHANGED <<world, capture, slot, px, bits, pending, notified, reqs, inc,
                 held, rects, pic>>

\* The queued requests are dropped, borrow_and_update().clone() takes the frame.
Borrow(c) ==
  /\ pc[c] = "borrow"
  /\ pc' = [pc EXCEPT ![c] = "drain"]
  /\ reqs' = [reqs EXCEPT ![c] = <<>>]
  /\ held' = [held EXCEPT ![c] = slot]
  /\ unseen' = [unseen EXCEPT ![c] = FALSE]
  /\ UNCHANGED <<world, capture, slot, px, bits, pending, notified, inc, rects,
                 pic>>

\* drain_to_rects: an incremental update has the tiles that were marked, maybe
\* none; a full update discards the bits and sends every tile.
Drain(c) ==
  /\ pc[c] = "drain"
  /\ bits' = {}
  /\ rects' = [rects EXCEPT ![c] = IF inc[c] THEN bits ELSE Tiles]
  /\ pc' = [pc EXCEPT ![c] = "send"]
  /\ UNCHANGED <<world, capture, slot, px, pending, notified, reqs, inc, unseen,
                 held, pic>>

\* The rectangles reach the viewer; the frame is released.
WriteRects(c) ==
  /\ pc[c] = "send"
  /\ pc' = [pc EXCEPT ![c] = "recv"]
  /\ pic' = [pic EXCEPT ![c] =
               [t \in Tiles |-> IF t \in rects[c] THEN px[held[c]][t]
                                                  ELSE pic[c][t]]]
  /\ held' = [held EXCEPT ![c] = NoBuffer]
  /\ rects' = [rects EXCEPT ![c] = {}]
  /\ UNCHANGED <<world, capture, slot, px, bits, pending, notified, reqs, inc,
                 unseen>>

\* The connection ends: the writer is dropped at one of its await points.
Disconnect(c) ==
  /\ pc[c] \in {"recv", "await", "send"}
  /\ pc' = [pc EXCEPT ![c] = "gone"]
  /\ reqs' = [reqs EXCEPT ![c] = <<>>]
  /\ inc' = [inc EXCEPT ![c] = FALSE]
  /\ held' = [held EXCEPT ![c] = NoBuffer]
  /\ rects' = [rects EXCEPT ![c] = {}]
  /\ UNCHANGED <<world, capture, slot, px, bits, pending, notified, unseen, pic>>

-----------------------------------------------------------------------------
CaptureStep ==
  \/ RecvCaptureRequest \/ PollTimeout
  \/ SkipSameKey \/ FindFramebuffer \/ CaptureFails \/ CopyFrame
  \/ \E t \in Tiles : MarkTile(t)
  \/ Publish \/ NotifyUnchanged

WriterStep(c) ==
  \/ RecvUpdateRequest(c) \/ Changed(c) \/ Borrow(c) \/ Drain(c) \/ WriteRects(c)

ClientStep(c) ==
  \/ Connect(c) \/ Disconnect(c)
  \/ \E kind \in {"inc", "full"} : ClientRequest(c, kind)

Next ==
  \/ \E t \in Tiles : Repaint(t)
  \/ CaptureStep
  \/ \E c \in Clients : WriterStep(c) \/ ClientStep(c)

Spec == Init /\ [][Next]_vars

\* The threads run; a viewer that stays connected keeps asking for updates.
Fairness ==
  /\ WF_vars(CaptureStep)
  /\ \A c \in Clients : WF_vars(WriterStep(c)) /\ WF_vars(ClientRequest(c, "inc"))

FairSpec == Spec /\ Fairness

-----------------------------------------------------------------------------
(* Properties. *)

\* The frame the capture thread writes (do_capture's frame, reuse_frame) is
\* never the published one nor one a session is still sending from.
FramesNotShared ==
  \A b \in {scratch, work} \ {NoBuffer} :
    b # slot /\ \A c \in Clients : held[c] # b

\* The picture the capture thread is copying or has copied and not yet published,
\* and the one a session's update is made of.
Copied   == IF capPc = "copy" THEN {seen}
            ELSE IF capPc \in {"mark", "finish"} /\ changed THEN {px[work]} ELSE {}
Sent(c)  == IF pc[c] \in {"drain", "send"} THEN {px[held[c]]} ELSE {}

Remote ==
  INSTANCE RemoteScreen
    WITH Viewers <- Clients, Contents <- 0..MaxPaint, Blank <- 0,
         captured <- Copied, published <- px[slot],
         taken <- [c \in Clients |-> Sent(c)], shown <- pic

\* The buffers are an implementation matter: whatever is reused, and however the
\* sessions and flips of the screen interleave with the capture thread, what
\* reaches a viewer are tiles of a whole screen as it was at one moment, which was
\* published and not touched since its writer took it.  (A compositor that draws
\* into the framebuffer under the copy, "redraw" in Env, tears the picture.)
ImplementsRemoteScreen == Remote!Spec

\* A viewer's picture never goes back in time: with contents that only grow,
\* no update replaces a tile by an older content, whatever buffer was reused
\* and however the sessions interleave with the capture thread.
PictureNeverGoesBack ==
  [][\A c \in Clients : pc'[c] # "gone" /\ pc[c] \in Live =>
       \A t \in Tiles : pic'[c][t] >= pic[c][t]]_vars

\* No dirty tile is lost: a tile a viewer shows with a content other than the
\* published one is still marked, or in the update on its way to the viewer
\* with the published content.
TileCovered(c, t) ==
  pic[c][t] \in {0, px[slot][t]}
  \/ t \in bits
  \/ (pc[c] = "send" /\ t \in rects[c] /\ px[held[c]][t] = px[slot][t])

NoLostTile ==
  \A c \in Clients, t \in Tiles : pc[c] \in Live => TileCovered(c, t)

\* "Nothing changed": the empty reply to an incremental request goes only to a
\* viewer whose shown tiles equal the frame its writer took.
EmptyReplyIsTrue ==
  [][\A c \in Clients : pc[c] = "drain" /\ pc'[c] = "send" /\ rects'[c] = {} =>
       \A t \in Tiles : pic[c][t] \in {0, px[held[c]][t]}]_vars

\* A capture reports "unchanged" only when the published frame is what the
\* screen showed when it began.  Recurring contents, recurring handles and failed
\* captures each break this.
UnchangedIsTrue ==
  /\ [][capPc = "capture" /\ capPc' = "finish" => px[slot] = screen]_vars
  /\ [][capPc = "copy" /\ capPc' = "finish" /\ ~changed' => px[slot] = seen]_vars

\* A queued request for the full frame leaves the queue only into an update
\* that is a full one.
FullRequestHonoured ==
  [][\A c \in Clients :
       pc'[c] # "gone" /\ HasFull(reqs[c]) /\ ~HasFull(reqs'[c]) => ~inc'[c]]_vars

\* A writer that asked for a capture and waits for it gets its frame: every
\* incremental request is answered, be it with an empty update.
RequestAnswered == \A c \in Clients : pc[c] = "await" ~> pc[c] # "await"

\* Once the screen stays as it is, a viewer that keeps asking for what changed
\* comes to show it: every tile it was ever sent ends up with the screen's
\* content.  A viewer that goes on asking for the full frame is not promised
\* this: a full update resends the published frame without a capture, and may
\* drop the incremental request queued behind it.
ViewerCatchesUp ==
  \A c \in Clients :
    <>[](pc[c] \in Live /\ ~HasFull(reqs[c])) =>
      <>[](\A t \in Tiles : pic[c][t] \in {0, screen[t]})
=============================================================================
