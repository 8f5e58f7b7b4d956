# A TLA+ model of kmsvnc

kmsvnc shows the screen of a Linux console (DRM/KMS, or a framebuffer device) to
VNC viewers and feeds their input to virtual devices. It has one capture thread, two
async tasks per viewer, one input task, a few bounded channels and one lock-free bit
vector between them, and it goes by caches of kernel handles. This directory models
those parts in TLA+, checks them with TLC on small instances, and proves the most
important results with TLAPS for every instance.

All modules translate `src/src/*.rs`; a line number below is one of those files'.
`PROJECT.json` maps each definition to the lines it models.

## 1. Inventory

| part | state | operations | talks to |
|---|---|---|---|
| **frame hand-over**: `do_capture`, the frame `watch` channel, `reuse_frame` (`main.rs` 380-410, 606-645) | the published frame, one spare buffer, a version per receiver | capture into a buffer, publish or only notify, take the replaced buffer back if nobody holds it | capture backend, stream, every writer |
| **capture loop**: `capture_loop` (`main.rs` 478-604) | mode, time of the last request, count of quick requests, idle streak | receive a request, time out, capture, stop | writers (requests), `main` (shutdown flag) |
| **server start and shutdown**: `main` (`main.rs` 81-346, 366-474) | devices still to try, flag, listener, a sender of every channel | find a device, set up the pipeline, start the thread, bind, accept, Ctrl+C, fail, wait for the capture thread | everything |
| **dirty tiles**: `DirtyTiles` (`frame_diff.rs`) | a vector of atomic 64-bit words | `set`, `set_all`, `drain_to_rects` | incremental copy (marks), writers (drain) |
| **DRM capture**: `Capturer` (`kms/cpu_capture.rs`) | last framebuffer, two caches of maps by GEM handle, latches for the way that works | key check, handle query, lookup, map, evict, copy | kernel, VAAPI shim, incremental copy |
| **incremental copy** (`kms/pixel_format.rs`) | none | compare and copy, mark tiles; conversions | dirty tiles |
| **fbdev capture** (`kms/fbdev.rs`) | one map | copy everything | |
| **VNC handshake** (`vnc/server.rs` 169-382) | protocol version | version, security type, DES challenge, init | viewer |
| **VNC reader** (`read_client_messages`, 530-660) | none | parse, forward | writer (requests, formats), input loop |
| **VNC writer** (`writer_loop` in `handle_client`, 384-528) | frame held, format, zlib stream | take a request, ask for a capture, wait, coalesce, drain, write | capture loop, dirty tiles, viewer |
| **input loop** (`main.rs` 647-684), **virtual mouse** (`input/mouse.rs`), **virtual keyboard** (`input/keyboard.rs`) | which devices there are, `button_down` | create, take an event, press, release, drop | readers of all sessions, kernel |
| **video stream**: `ExperimentalPipeline` (`main.rs` 50-79), `TcpAnnexBSink` and `NullSink` (`transport/`), `SoftwareEncoder` with the x264 shim and `VaapiEncoder` (`encode/`) | time of the last frame, encoder, one client, "waiting for a keyframe" | limit, encode, accept, write, give up | capture thread calls it |
| VAAPI capture and scaling (`kms/vaapi_shim.c`, `kms/dmabuf.rs`), virtual touch screen, command line | | | |

**What is hard here**

* The capture thread and the writers share the published frame, its buffers and the
  tiles. A frame is copied, its tiles are marked and it is published in three steps;
  a writer takes the frame and drains the tiles in two. The drain is destructive and the
  tiles belong to nobody: any session may take them.
* A frame buffer is written again once it is replaced: it must have been let go by all,
  and its old content is what the next capture compares the screen with.
* Requests change the timing of the loop that serves them (polling, back-off, idle
  limit), and in one mode nothing but a request wakes it.
* The sockets, the request channel and the input channel all push back; each half of a
  session may end first; a task that is blocked cannot see its peer leave.
* GEM handles, framebuffer ids and heap buffers are reused by number, and the compositor
  replaces framebuffers and draws into them at any time, also during a capture.
* The stream client is written to by the capture thread.
* All sessions share one mouse and one keyboard, whose writes may fail after the program's
  own state changed.
* `main` may fail after it started a thread that nobody then tells to stop.

`PROJECT.json` lists 40 hazards at their lines, each with the properties that cover it
or the reason why none does.

**What makes the parts correct**

* *hand-over*: the frame being written is nobody else's; a tile that a viewer shows
  with other than the published content is marked or on its way; "nothing changed" is
  said only if so; a viewer's picture never goes back in time and in the end is the screen.
* *capture loop*: every request is answered, in bounded time; captures keep their
  pace; polling stops without viewers; Ctrl+C ends the program.
* *dirty tiles*: no mark lost, none returned twice, and the two ends agree on which
  tile a number means.
* *session*: nobody is served without the password; no update is in an older format than
  its request; input is neither lost, reordered nor, but for one case, stopped; both tasks
  end, but for one case.
* *DRM capture*: no map of an object other than the framebuffer's is used, as long as
  handles tell objects apart.
* *devices*: nothing stays pressed on the console that no viewer presses, but for a few
  causes that can be listed.
* *main*: it ends when it fails, wherever the capture thread is, and serves nobody
  without one.
* *stream*: what a client gets can be decoded from the first packet on; captures
  come back from it unless that client stops reading.

## 2. Modules

| module | models | composes / implements |
|---|---|---|
| `RemoteScreen` | abstract: whole pictures, captured, published and cut into updates | |
| `FramePipeline` | compositor, capture thread, publication, buffers, the writers | implements `RemoteScreen`; marks and drains of `DirtyTiles` as one set |
| `CaptureLoop` | `capture_loop` with a clock, requests, `main`'s shutdown | |
| `TileAccumulator` | abstract: what `DirtyTiles` promises | |
| `DirtyTiles` | the words of `frame_diff.rs`, one action per atomic access | implements `TileAccumulator` |
| `TileGeometry` | tile numbers on the capture side, rectangles on the drain side | checked with `DirtyTiles` in `MCDirtyTiles` |
| `BufferCache` | `Capturer`: handles, caches, fallbacks, eviction; the kernel's handle table | |
| `ServerMain` | `main`: the search for a device, pipeline, thread, listener, and errors in each | EXTENDS `CaptureLoop`, which it implements |
| `Handshake` | the three versions of the RFB handshake | part of `ClientSession` |
| `ClientSession` | one or more connections: handshake, reader, writer, sockets, channels, input loop | EXTENDS `Handshake`, implements `InputFifo` |
| `InputFifo` | abstract: what the way from a viewer to `input_loop` promises | |
| `InputDevices` | `input_loop`, the virtual mouse and keyboard, the kernel's key state | its events come by `InputFifo` |
| `VideoStream` | choice of encoder and sink, rate limit, keyframes, `TcpAnnexBSink`, stream clients | |
| `MC*` | symmetry sets, views and the screens of `MCDirtyTiles`, for TLC | |
| `*Proofs` | theorems | EXTEND the module they are about |

The three views of the capture thread (`FramePipeline`, `CaptureLoop`, `VideoStream`)
meet in the actions they share. What `CaptureLoop` calls a capture is `CopyFrame` to
`Publish` or `NotifyUnchanged` in `FramePipeline`; after a changed one, `VideoStream`
runs. `FramePipeline` takes `CaptureLoop`'s timing as a choice (`PollTimeout` may
capture or go back on demand at any time, `RecvCaptureRequest` may go to polling when
`"fast"` is in `Env`), so it allows more than the clock does. `ClientSession` takes the
captures as `Notify`.

### FramePipeline and the code

A tile's pixels are a number; `screen` is what is scanned out and `fbKey` the handle of
the buffer it is in. `capPc` follows the capture thread: `"wait"` in `recv_timeout`,
`"capture"` in `capture_fn` until it knows the framebuffer, `"copy"` until it has copied it
(`seen` is what that framebuffer held), `"mark"` setting tile bits, `"finish"` before
the publication. `scratch` is `reuse_frame`, `slot` the frame in the watch channel, `px`
the content of every allocation; `unseen[c]` is "changed() would return at once".
`SkipSameKey` is the early `Ok(false)` at `cpu_capture.rs` 257, `ToMark` the difference to
what the reused buffer holds, `Reusable` is `Arc::try_unwrap`. A session's
`RecvUpdateRequest`, `Changed`, `Borrow`, `Drain` and `WriteRects` are the stretches of
`writer_loop` between its await points and its accesses to shared state. `Env` says what
the world may do: paint an old content again (`revert`), come back to the handle last
captured (`samekey`), draw into a framebuffer that is being copied (`redraw`), make captures fail (`fail`), ask quickly (`fast`), reconnect.

`RemoteScreen` knows no buffers, only pictures: `Copied` is the one the capture thread has
copied and not yet published, `px[slot]` the published one, `Sent(c)` the one a writer cuts
its update from. It says that none of them changes while it is there, so that an update shows
tiles of one moment's screen. That also justifies `WriteRects` as one action: the code writes
rectangle by rectangle and waits in between, but reads a picture that stays as it is.

Between `FindFramebuffer` (`get_crtc`) and `CopyFrame` the screen may be flipped any number
of times: the copy gets what was scanned out at the first of the two. That the buffer still
holds it is up to the compositor, which may draw into it as soon as another one is scanned
out. The flag `redraw` lets it: each copied tile is then whatever it has become. Without the
flag, which is how the runs and the theorems about pictures have it, an update shows one
moment's screen; `PipelineTorn` shows that with it that is so no more.

### CaptureLoop and the code

Durations are constants in ticks. `sinceReq` is the age of `last_request_time`, `fast`
and `idle` are `fast_request_count` and `idle_streak` up to the value where they stop
mattering, `timer` is the time in this `recv_timeout`, `late` how long the thread is
runnable without running (at most `Slack`) or captures (at most `CaptureMax`).
A session connects at most once, a viewer that comes back is another session; before it
connects, its `unseen` is that of `main`'s receiver, which it clones.
`RecvRequest` with the drain of further requests, `PollTimeout`, `OnDemandTimeout`,
`Disconnected` and `EndCapture` are the branches of the loop's `match`.

### ServerMain and the code

`phase` is how far `main` has come: `"probe"` is `setup_capture`, with `todo` the devices
still to be tried (the one given with `--device`, as DRM and then as fbdev, or all cards and
then all framebuffer devices); `"pipeline"` is `setup_pipeline_frame_source`, after which
the thread is spawned; `"bind"` and `"serving"` are the listener. `TryCard` is one turn of
the loop of `open_card_with_path` together with what `setup_capture` does with the card it
returns: an error there is `main`'s, not the loop's. `Fail` and `Finish` are `MainExits` of
`CaptureLoop`: `main` returns, the runtime drops all tasks and with them every sender of the
request channel, and waits for the thread. `Ended` says that the process is gone. A Ctrl+C
before the handler is installed simply ends the process and is left out.

### DirtyTiles, TileGeometry and the code

`words[w]` is the set of bits of an `AtomicU64`; `Set` is the `fetch_or`, `SwapWord`
the `swap(0)`, `SetAllWord` the store of a mask. A drain's `local` is what it swapped out
so far. `Segment` and `MarkedFor` are from the loop over tile columns in
`copy_rows_incremental`, `Rect` from the double loop in `drain_to_rects`.

### BufferCache and the code

`Begin` reads the CRTC (`default_fb` where it has no framebuffer) and checks the key,
`QueryHandle` asks for the handle, `Hit`, `HitFails` and `Miss` look it up. `map_buffer` tries
`map_fb2` (`pc = "fb2"`) unless `map_fb1` was latched, and `map_fb1` after it unless `map_fb2`
was (`AfterError`); `MapAndKeep`, `ImportVaapi`, `ImportFails` and `MapFails` are how each of them
ends, with the latches `use_fb2` and `use_prime`. An import whose first capture fails is
kept, but latches nothing. The compositor flips (`Flip`) and gives any framebuffer id that is
not scanned out to another object (`Replace`) between any two of those steps, also the one of
the capture under way. Where that happens between the query and the map, on a kernel with one
handle to an object, the handle that was looked up no longer tells which object is mapped:
`recycled` remembers it, and `Identified` excludes it from the properties. `kernel` is
`"fresh"` where every query opens a new handle, `"shared"` where an object has one handle
per process; the kernel may hand out any closed number. `shown` is a history variable.

### Handshake, ClientSession and the code

`Handshake` reads the version, the security type, the response and ClientInit, sends
SecurityResult where each version has one, and fails on what the code rejects. When it is
done, `Serve` starts the two tasks. `reader` is `"read"` or `"hand"` (blocked in a channel
`send`); `writer` is where `writer_loop` waits. `Return` is `select!` returning: the writer
is dropped where it waits, a reader that is still running goes on detached. `format` is
the latest of `pf_tx` and `enc_tx`, a number; `wanted` is a history variable, the newest
format that a request in the current answer was sent under.

`Flow(c)` maps a connection to `InputFifo`: the events in the channel, in the reader's hand
and in the socket, one after the other. A viewer's `Leave` is its closing the socket, and
`Lose` whatever then drops the rest: the socket, a reader that fails, a reader whose
`send` is never finished.

### InputDevices and the code

`down` is what the kernel has as pressed on the two devices, `mask` and `held` what the
viewers' own buttons and keys were when they sent the events taken so far, and `lost` the
codes whose last write failed. What a viewer held when it left it goes on holding, until
another viewer lets that key go (`Gone`, `HeldAfter`): nothing in the code releases it.
`KeyCap` is the key of the viewer's keyboard: `a`, `A` and `ae` come from one key, and the
modifiers decide which is sent. The first two have one code in `keysym_to_linux_key`; the
third stands for the keysyms that have none though another of the same key has one
(`NotInTable`): a keypad key without NumLock, Tab or Alt with Shift, a letter with AltGr or of
another layout. `misnamed` are the keys last let go by such a keysym. A keysym stands for a
class: letters (with digits and signs), the keys the table maps but the device does not
register, and those it does not map. Pointer positions are left out: they are sent
with every event.

### VideoStream and the code

`pipe` is what `setup_pipeline` made of the options: the encoder, the codec and the sink
(the null sink also where the listener cannot be bound). An encoder that cannot encode
(`CanEncode`) fails at the first frame. `Encode` is `ExperimentalPipeline::process` up to
the packet (`KeyDue`: x264's `i_keyint_max` = 30 with scene cuts off), `Accept`, `Deliver`,
`Write` and `WriteFails` are `TcpAnnexBSink::submit`, `Discard` is `NullSink::submit`,
`PipelineFails` any error that sets the pipeline to `None`. A client may `Read` or `Close`, and
need do neither.

## 3. Runs

| run | question | result |
|---|---|---|
| `PipelineLive` | one viewer, on demand: is a tile lost, a lie told, a request forgotten? does the viewer end up with the screen? | holds, 189 000 states |
| `PipelineShared` | a viewer who reconnects, polling and failing captures: are buffers reused too early? does a picture go back? is every update cut from one picture, as `RemoteScreen` says? | holds, 1 436 000 states |
| `Loop30` | two viewers at 30 fps, who may come late: answered in `MaxAge` ticks? anybody forgotten? pace kept? | holds |
| `LoopStop` | the whole program (`ServerMain`), failing captures, viewers that come and go, errors at every stage: does it come to rest, and does it end? | holds, 430 000 states |
| `Dirty` | two drains, a capture, every screen of up to 9 x 9 pixels and three tiles | holds |
| `Session` | handshake, both tasks, full channels, viewers that do not read, sudden closes; what may stop the input or a session's end? the input path against `InputFifo` | holds, 230 000 states |
| `Devices` | two viewers, one mouse and one keyboard, failing writes, viewers that leave: why may something stay pressed? | holds, 331 000 states |
| `Buffers` | flips, replacements, recycled handles, evictions: is a stale map used while handles tell objects apart? | holds, 728 000 states |
| `Stream` | clients come, stall and go: what may keep the capture thread? | holds, 23 000 states |
| `LoopShutdown` | does Ctrl+C end the program? | violated |
| `Loop5` | is every request answered at 5 fps? | violated |
| `PipelineTwoViewers` | is "nothing changed" true with two viewers? | violated |

**Properties of the passing runs.** `NoLostTile`, `EmptyReplyIsTrue`,
`ViewerCatchesUp` and `RequestAnswered` hold for a sole viewer under `Env = {}`. They fail
under most of what the violated run and the further configurations of section 6 add to it,
which show how far the code's promises go.
`FramesNotShared` holds for any number of viewers (section 4), polling, with failing captures,
and so do `PictureNeverGoesBack` and `ImplementsRemoteScreen` unless a buffer is drawn into
while it is copied; `PipelineMany` of section 6 has two. `AnsweredInTime` bounds the wait by
`(2n - 1)(MaxTimeout + Slack) + Slack + CaptureMax` for n sessions: each request of another
session restarts the timer, and a session can do that twice before it waits itself.
`EventsInOrder` says which event is taken, `InputIsFifo` that the way there is a queue.
`HandlesPinned` and `NoStaleMap` hold as long as handles tell objects apart (`Identified`).
Four properties say of something the code does not prevent that it is the *only* thing to
go wrong, and a further configuration of section 6 shows that it does:

* `InputFlows` and `SessionEnds`: a session is `Jammed` when its request channel is full, its
  reader waits for room and its writer for a frame nobody publishes (a failed capture notifies
  nobody, and `main.rs` 565 may drop a request) or, while it is there, for the viewer to read. That alone
  stops a viewer's input for ever; and the wait for the frame alone keeps a session whose
  viewer has left (`SessionJammed`).
* `CaptureComesBack`: a stream client that stays connected and stops reading keeps the capture
  thread in `write_all` (`tcp.rs` 74), and with it every VNC viewer (`StreamStalls`).
* `NoStuckKey`: a key stays down only because the write of its release failed, its release
  came as a keysym that is not in the table, or its viewer left holding it (`DevicesStuck`).

`NoStuckButton` says the like of the button. `ButtonComesUp` says that a viewer's next move
releases what one that left has held; without a move it stays down. `ErrorsEndTheProgram` holds
although nobody tells the capture thread to stop: it finds its channel closed.
Each property comes with a small change of a modelled definition that breaks it, in
`mutants` of `PROJECT.json`; the changed forms stand next to the definitions.

**Findings.**

1. `LoopShutdown`: the capture thread looks at the flag only when an *on-demand* wait times
   out (`main.rs` 588-594). While one viewer asks often enough, "Graceful shutdown on
   Ctrl+C" (434) never comes. `QuietShutdown` holds: without viewers it does.
2. `Loop5`: below 8 fps the backed-off timer (4000/fps ms) is longer than the idle limit
   of 500 ms. The timeout that should serve the waiting viewer finds its request too old,
   turns to on-demand mode without a capture, and the viewer waits for ever.
   `NobodyForgotten` is the invariant behind it, and holds from 8 fps on.
3. `PipelineTwoViewers`: the tiles are shared and drained by whoever comes first; the other
   viewer is told "Nothing changed" (`server.rs` 438) and keeps an old picture there.

The further configurations of section 6 show more limits, of which `PipelineAba`,
`PipelineSameKey`, `Keys` and `Startup` contradict a comment, a message or a document too.

### Bounds and why they are enough

* `PipelineLive`: one viewer, two tiles, three buffers, contents up to 3, a request queue
  of 2. Two tiles make a capture that changes one and not the other, and a drain between
  two marks; three contents make two captures in a row, which is what it takes to reuse a
  buffer; three buffers are the published, the spare and the held one (`PipelineAssumption`
  asks for two more than sessions, so that the heap is never exhausted).
* `PipelineShared`: one viewer, as captures that come while it sends are those of polling; two
  tiles, so that a picture of two moments would be one no capture took; three buffers, and
  contents up to 3: a viewer may hold the frame that is two publications old, and the buffer
  that was published before is reused meanwhile. `View` tells frame allocations apart only by
  who refers to them and by content, and hides the content of free ones, which is overwritten.
* `Loop30`: a tick is 33 ms, `Interval` 1, `FastGap` 3, `IdleLimit` 15: the code's own values.
  `Slack` 1 lets the scheduler be a tick late. `Loop5`: a tick is 100 ms. `LoopStop`: a tick is
  100 ms too, at 10 fps, where all durations of the code are whole ticks; two viewers, so that one
  may come after the other has gone and the polling with it; up to two cards and one framebuffer
  device, so that a second card is reached and a device follows the cards. Captures take no time
  there, but requests and errors may come during one.
* `Dirty`: words of two bits and three tiles make a full and a partial last word; tiles of
  3 pixels on screens of up to 9 make partial tiles at both edges.
* `Session`: channels and sockets of capacity one fill up at once; two events and two
  formats are enough to swap, drop or repeat one. Larger capacities only delay the blocking.
* `Devices`: two viewers share the devices; one event on the way per viewer, as a longer
  queue only delays what the devices see; a letter's key with two keysyms
  of one code and one that has none (and in `Keys` a key that is not registered). Positions and
  other keys behave like these.
* `Buffers`: a cache of one map is full after the first miss, so every later miss evicts;
  three objects (mapped by PRIME, by the card, by VAAPI only), two framebuffers and four
  handles, so that handles are handed out again. The cache of 16 has no code of its own.
* `Stream`: three clients, of which one is served, one is next and one waits; a keyframe
  every three frames; a socket of one packet, so that a write blocks.

`CHECK_DEADLOCK FALSE` stands where the system may really stop: viewers may leave, contents
are bounded, and nothing need happen after that. `CaptureLoop` has `Terminated` and checks
for deadlock; so does `MCDirtyTiles`.

### Fairness

* `FramePipeline`: the capture thread and each writer run (weak fairness of their steps);
  a viewer that stays connected sends the next incremental request, as viewers do. Repaints,
  connections and disconnections are not fair: they need not happen.
* `CaptureLoop`: time passes, and the threads run; strong fairness of `Tick` because a
  thread that is runnable holds it back again and again. Nobody need press Ctrl+C.
* `ServerMain`: as `CaptureLoop`, and `main` goes on until it serves. Errors need not happen,
  and Ctrl+C need not come; a `main` that stops waits only for the capture thread.
* `InputDevices`: `input_loop` creates its devices and takes the events of every viewer in
  the end: the channel they share is a queue. No viewer need send or leave.
* `ClientSession`: both tasks and the input task. Strong fairness of the reader's `send` to
  the full input channel: tokio's semaphore serves waiting senders first come first served.
  No frame need ever be published, and no viewer need send, read or close.
* `VideoStream`: the capture thread runs, captures that changed go on, and time passes. No
  client need connect, read or close.
* `DirtyTiles`: a session goes on draining.

## 4. Proofs

`FramePipelineProofs`, for every number of viewers, tiles and buffers:

* `TypeCorrect` and `PublishedFrameIsStable` (`FramesNotShared`), from `FrameInv`. The
  invariant itself does not say when there is a frame at work; `ControlInv` adds which of
  `work`, `scratch` and `todo` are in use at each `capPc`, and that a session holds a frame
  exactly between `Borrow` and `WriteRects`.
* `PipelineShowsTheScreen` (`ImplementsRemoteScreen`), when buffers are not drawn into while
  they are copied (`"redraw" \notin Env`), step by step from `FrameInv`: only
  `FindFramebuffer`, `CopyFrame`, `CaptureFails`, `Publish`, `Borrow`, `WriteRects` and the coming and going of sessions move
  pictures. `CopyFrameKeepsOrDrops` is where the invariant is needed: the buffer that is
  overwritten is neither the published one nor one a writer holds.
* `PicturesNeverGoBack`, for contents that only grow (neither `revert` nor `redraw`). `AgeInv`
  orders the contents: what a viewer shows, then what its writer holds, then what is
  published, then what is being captured, then the screen; and the spare buffer is no
  newer than the published frame.
* `NoTileIsLost` and `EmptyRepliesAreTrue`, of the behaviours in which the loop stays on
  demand (`[]ServedOnDemand`: whether it does is up to how fast requests come), for a
  `SoleSession` (one session that is not followed by another, on DRM) and `Comparable` contents
  (that do not recur and are not torn, or a backend that does not compare). Captures may fail,
  and handles recur. `TurnInv` says that the capture thread works only while the viewer
  waits, which is why the two-step publication and the two-step drain cannot interleave;
  `MarkInv` that the difference of the frame at work to the published one is marked or
  still to be marked; `ShownInv` is `NoLostTile` carried through the drain. Where the old
  buffer is compared, contents between two equal ones are equal, so comparing with the frame
  before the last is enough. None of the hypotheses can be left out: `PipelineTwoViewers`,
  `PipelineRace` (polling), `PipelineReconnect`, `PipelineFbdev` and `PipelineRecurs` each
  break one of them and lose a tile.

`CaptureLoopProofs`, for all durations and numbers of sessions: `TypeCorrect`,
`CapturesKeepTheirPace` (`TimerInv` and `PaceInv` tie the timer to the time since the last
capture), and `NobodyIsForgotten`, whenever `MaxTimeout + Slack <= IdleLimit` and captures
do not fail (`Prompt`). `ServedInv`: while a session is unserved and no request is in the
channel, the loop polls and the request is no older than the timer, so the timer runs out
first. The condition is where finding 2 comes from.

`EverybodyIsAnsweredInTime` (`AnsweredInTime`) is a theorem under the same condition. A
session that waits is served when the timer fires, and only another session's request restarts
the timer. Until the next publication a session can make two requests: one that an old
notification answers at once, and one that waits itself. `Made` counts the requests that no
session can make any more (`Spent`, `Silent`), and `Budget` is the time of as many polling
rounds. `AgeInv` bounds the age of every unserved session by `Budget` and the timer: a request
that restarts the timer adds a round to the budget and takes at most a round from the timer.
Since `Made` is at most twice the number of sessions, the age stays below `MaxAge`
(`AgeBound`).

`DirtyTilesProofs`, for any number of tiles and any word size: `TypeCorrect`;
`AccumulatorIsImplemented`, the step simulation of `TileAccumulator` with
`dirty <- TilesIn(words)`; `EveryBitIsATile` (`NoStrayBits`) and `SetAllIsComplete`
(`SetAllMarksAll`). `WordAndBitDetermineTile`, `TileHasWord` and `MaskTiles` (what the mask
of a partial last word covers) are the arithmetic. Of the tiles themselves it proves, for every
screen: `MarksAreDrainedEverywhere` (`EveryMarkIsDrained`) and `ScreensAreTiledEverywhere`
(`EveryScreenIsTiled`). A pixel is in the segment of exactly one column and row (`TilesAlong`),
and a tile number gives back the column and the row it was made of (`TileOfNumber`), so the
capture side and the drain side, which are written apart, mean the same tile by a number;
two rectangles that share a pixel are those of one number (`CoversIsInTile`).

`BufferCacheProofs`, for any objects, framebuffers and handles and any cache size:
`TypeCorrect`, `CachedHandlesStayOpen` (`HandlesPinned`) and `CapturesAreNotStale`
(`NoStaleMap`), from `BufferInv`: the types, and `MapsInv` as long as handles tell objects apart
(`Identified`). On a kernel that opens a new handle with every query they always do. On one
with a single handle to an object they do until a framebuffer id goes to another object
between the lookup and the map of one capture; what may happen then is in `BuffersRecycled`.
`CacheInv`: no handle is twice in
the two caches, so the close that goes with an eviction closes no other entry's; `SharedInv`:
where a kernel shares, an object has one handle; `CaptureInv`: from the query to the copy
the handle is open on an object the framebuffer had meanwhile. `KeptEntries` is what an
eviction leaves, `MissedHandle` why a new entry's handle is in no cache.

`ClientSessionProofs`, for any number of connections and any capacities:
`PasswordIsRequired` (`OnlyProvedViewers`), from `PassedInv`, which says of a connection
past the password what the property says of one that is served; and `FormatsAreRespected`
(`FormatRespected`), from `FormatsInv`, which follows a format from the viewer to the
update: the messages in the socket are in the order of their formats and each request is
behind the format it was sent under (`Carries`), the queued requests are in that order too
and no newer than the server's format (`Queued`), and so is the newest one being answered;
and `InputIsInOrder` (`EventsInOrder`), from `EventsInv`: the events of a viewer in the
channel, then the one in the reader's hand, then those in the socket are consecutive numbers
that start after the last one taken and, while the viewer is served, end at the last one
sent. Each of the three stages is a `Run`, and `AppendRun` and `TailRun` are what a send and
a receive do to one.

`TypeCorrect` (`TypeOK`) needs, beside the types that these invariants bring, the capacities
(`RoomInv`): room is looked for before anything is put into a socket or a channel.

`InputIsAQueue` (`InputIsFifo`) is the step simulation of `InputFifo`. `Flow(c)`, the abstract
queue, is the viewer's events in the channel, the one in the reader's hand and those in the
socket; `ReadFlow`, `HandEventFlow` and `ReadFailsFlow` are the steps within it, `ViewerSendsFlow`
and `InjectFlow` those at its ends, and `FifoNext` puts them together. `NumbersOf` picks a viewer's
events out of a channel that all sessions share, by a recursive function. `NumbersOfAppend` and
`NumbersOfTail` say what it does at the two ends of the channel; they rest on an induction over
the length (`InductionOverNat`, for sets of numbers, from the library's `WFMin`).

`VideoStreamProofs`, for any clients, rate, keyframe distance and socket:
`StreamsAreDecodable` (`NeverGarbled`) and `StreamsAreComplete` (`ServedIsCurrent`), from
`DecodableInv`: a streaming client has all but the packet being submitted (`ServedIsCurrent`,
proved but in no run, says it between two submissions); and `TypeCorrect`,
from `TypesInv`, which adds that a client that has not connected is neither waiting nor served.

`InputDevicesProofs`, for any viewers and keysyms: `TypeCorrect`, `ButtonIsNotStuck`
(`NoStuckButton`) and `KeysAreNotStuck` (`NoStuckKey`, with its list of exceptions), from
`DevicesInv`. `ButtonInv` ties
`button_down` to both sides: a button that is down in the kernel is down there too, unless the
last write failed, and then also in some viewer's last event. `MissingInv`: without
a device nothing is down on it.

`ServerMainProofs`, for any numbers of sessions and devices: `MainRefinesLoop`, every step of
the program is a step of `CaptureLoop` or leaves it alone, so that `NobodyIsForgottenByMain`
and `EverybodyIsAnsweredByMain` follow from the theorems about the loop; `MainTypeCorrect`, and
`SessionsHaveAThread` (`SessionsAreServed`), from `StartInv`: before the listener is bound there
is no session.

The proofs assume `PipelineAssumption`, `LoopAssumption`, `DirtyTilesAssumption`,
`CacheAssumption`, `HandshakeAssumption`, `SessionAssumption`, `DevicesAssumption`,
`MainAssumption`, `StreamAssumption` and `TileSizeAssumption`, which the modules state and TLC evaluates.

**Only model-checked**: all liveness (`ViewerCatchesUp`, `RequestAnswered`, `MarkIsTaken`,
`PollingStops`, `QuietShutdown`, `ErrorsEndTheProgram`, `ButtonComesUp`, `InputFlows`,
`SessionEnds`, `StreamStarts`, `CaptureComesBack`), which the provers used do not reason about.
Every other property of the runs that hold is the statement of a theorem.

## 5. Not modelled, and why

* Encodings (raw, zlib), pixel conversion and DES: functions of bytes. The writer's choice
  of format is modelled as a number, the password check as whether the response matches.
* The zlib output that is cut off at the buffer's spare capacity (`server.rs` 496) is listed
  as a hazard; modelling it means modelling the library.
* What opening a device does: ioctls of KMS and fbdev, memory maps, the VAAPI shims. Opening
  succeeds or fails in `ServerMain`; VAAPI import is an outcome in `BufferCache`; the scaled and
  the DMA-BUF capturer are a frame source that may fail in `VideoStream`. Their calls belong to
  the driver. Pixel positions and the size of the screen, which is read once at the start, are
  left out too.
* The virtual touch screen: nothing outside `input/touch.rs` uses it, although `README.md`
  line 11 and `TROUBLESHOOTING.md` line 42 of the repository speak of touch input.
* The command line is a set of declarations; the options are constants of the modules.
* A VNC viewer's other mouse buttons and its wheel, which `handle_pointer` ignores.
* Handle leaks on kernels of the `"fresh"` kind: no bounded instance shows one.

## 6. Further configurations

These are not among the runs but are kept for use with the same modules. Most
widen `PipelineLive`; the others add to `Buffers`, `Devices`, `Session`, `Stream` and `LoopStop`.
Each shows one limit of the code, and most of those that are violated drop a condition that a
property of a run states.

| configuration | property | outcome and reason |
|---|---|---|
| `PipelineAba` | `UnchangedIsTrue` | violated: `pixel_format.rs` 11 speaks of the "previous frame", but the buffer a capture is compared with is the one before the published one; a screen that goes A, B, A is reported unchanged while B stays published |
| `PipelineMany` | `FramesNotShared`, `PictureNeverGoesBack`, `ImplementsRemoteScreen` | hold with two viewers too, one of whom makes the captures while the other sends, as proved |
| `PipelineRecurs` | `NoLostTile` | violated: with two tiles and a content that comes back, a capture is compared with an older frame in which that tile was equal, and it is not marked |
| `PipelineTorn` | `ImplementsRemoteScreen` | violated: after a flip the compositor draws into the buffer that is being copied, and the frame mixes two pictures |
| `PipelineSole` | `NoLostTile`, `EmptyReplyIsTrue` | hold with `samekey` and `fail` too, as proved |
| `PipelineSameKey` | `UnchangedIsTrue` | violated: drawing into the captured buffer is not seen. `main.rs` 478 speaks of forcing captures, but passes `force = false` (546, 575) |
| `PipelineFailed` | `UnchangedIsTrue` | violated: `last_fb_key` is set before the capture can fail |
| `PipelineFailHang` | `RequestAnswered` | violated: a failed capture notifies nobody |
| `PipelineRace` | `EmptyReplyIsTrue` | violated: when polling, a drain comes between the marks and the publication |
| `PipelineReconnect` | `EmptyReplyIsTrue` | violated: a new session's full update discards the marks of a capture under way |
| `PipelineFbdev` | `EmptyReplyIsTrue` | violated: fbdev marks no tile |
| `PipelineFull` | `FullRequestHonoured` | violated: coalescing drops a full request behind an incremental one |
| `Keys` (`InputDevices`) | `HeldKeysAreDown` | violated: `keysym_to_linux_key` maps the cursor keys, Delete, Home, End and more, but the device registers only `ALL_KEYS`, so the kernel ignores them and nothing reports it |
| `Startup` (`ServerMain`) | `GivesUpOnlyAtTheEnd` | violated: the first card with an active output is taken for good; when the output asked for is on another, or its first capture fails, `main` ends without trying the rest. `MainTypeOK` and `SessionsAreServed` hold |
| `BuffersTiled` | `TiledNeverMapped` | violated: refused by the FB2 path, a tiled buffer is mapped by the GET_FB path (TROUBLESHOOTING.md: "tiled buffers cannot be read via mmap") |
| `BuffersRecycled` | `RecyclingDetected` | violated: the id of the framebuffer under capture goes to an object that is cached already, between the handle query (263) and the map (285); its handle is pushed a second time (299), closed with the first entry that is evicted, and handed out again while the second entry has its number. "To detect fb_handle recycling" is what the comment at `cpu_capture.rs` 357 says of the query |
| `SessionJammed` (`ClientSession`) | `SessionAlwaysEnds` | violated: with the request channel full and a frame that nobody publishes, neither half of the session notices that the viewer has left |
| `StreamStalls` (`VideoStream`) | `CaptureAlwaysComesBack` | violated: a client that stops reading keeps the capture thread in `write_all` |
| `DevicesStuck` (`InputDevices`) | `NobodysKeyIsDown` | violated, without any failing write: a key whose release comes as an unmapped keysym, or whose viewer left, stays down |

## 7. Plan

Done, in this order: `FramePipeline` with its proofs, `CaptureLoop` with its proofs,
`DirtyTiles` with the refinement, `TileGeometry`, and `BufferCache`, `ClientSession` with
`Handshake` and `VideoStream`, each with its proofs; then `InputFifo`, `InputDevices` and
`ServerMain` with their proofs, the proof of `EventsInOrder`, and the encoders and sinks of
`VideoStream`; then the proofs of `AnsweredInTime`, of `InputIsFifo`, of the types of
`ClientSession` and of `TileGeometry` for all sizes, and `RemoteScreen` with the proof that
`FramePipeline` implements it.

What could follow:

1. *Composition* of `CaptureLoop` and `FramePipeline`'s sessions: the clock's schedule as an
   implementation of the pipeline's nondeterministic one.
2. *Freshness*: under which conditions the update that answers a request is no older than the
   request. It is not so in general, as an old notification answers at once.

## 8. How to run

    tlc -config PipelineLive.cfg MCFramePipeline      # likewise the other runs
    tlapm FramePipelineProofs.tla

`PROJECT.json` names the module and the configuration of each run. The longest takes
two minutes with two workers, the proofs about ten.
