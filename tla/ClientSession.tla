---------------------------- MODULE ClientSession ----------------------------
(***************************************************************************)
(* One connection (handle_client in vnc/server.rs).  After the handshake   *)
(* of module Handshake, the reader task parses the viewer's messages and   *)
(* hands them on: requests to the writer through a small channel, input    *)
(* events to input_loop through a channel all sessions share, formats      *)
(* through a watch; the writer answers requests over the same socket.      *)
(* handle_client returns when either ends, and a reader that is still      *)
(* running runs on detached.                                               *)
(*                                                                         *)
(* Pictures are left out (module FramePipeline has them), and so is the    *)
(* timing of captures (module CaptureLoop): here a capture that was asked  *)
(* for may notify the sessions, or never do so.                            *)
(***************************************************************************)
EXTENDS Handshake, Naturals, SequencesExt

CONSTANTS
  ReqCap,     \* capacity of update_req_tx, 4
  InputCap,   \* capacity of input_tx, 256
  UpCap,      \* bound: messages the socket holds towards the server
  DownCap,    \* bound: updates the socket holds towards the viewer
  MaxEvents,  \* bound: input events a viewer sends
  MaxFormat   \* bound: formats a viewer sets

ASSUME SessionAssumption ==
  /\ IsFiniteSet(Clients)
  /\ {ReqCap, InputCap, UpCap, DownCap} \subseteq Nat \ {0}
  /\ {MaxEvents, MaxFormat} \subseteq Nat

VARIABLES
  open,      \* the viewer has its end of the socket open
  up,        \* the socket towards the server: messages <<kind, number>>
  down,      \* the socket towards the viewer: number of updates
  reader,    \* the reader task: "off", "read", "hand" (in a channel send)
  msg,       \* the message the reader is handing on
  queue,     \* update_req: requests <<kind, number>>
  format,    \* pf_tx and enc_tx: the number of the last format set
  writer,    \* the writer loop: "off", "recv", "await", "compose", "write"
  using,     \* the format the writer borrowed for the update
  news,      \* frame_rx has an unseen publication
  asked,     \* a capture was asked for and is not finished
  capturing, \* the capture thread and its end of the watch channel exist
  input,     \* input_tx: events <<session, number>>
  sent,      \* number of events a viewer has sent
  chosen,    \* number of formats a viewer has set
  injected,  \* number of the last event input_loop took from a session
  wanted     \* the newest format a request being answered was sent under

tasks   == <<reader, msg, writer, using>>
network == <<open, up, down, sent, chosen>>
service == <<network, tasks, queue, format, news, asked, capturing, input,
             injected, wanted>>
vars    == <<service, handshake>>

NoMsg == <<"none", 0>>

IsRequest(m) == m[1] \in {"inc", "full"}

Messages ==
  ({"inc", "full", "format", "bad"} \X (0..MaxFormat))
    \cup ({"event"} \X (1..MaxEvents))

TypeOK ==
  /\ HandshakeTypeOK
  /\ open \in [Clients -> BOOLEAN]
  /\ up \in [Clients -> Seq(Messages)] /\ \A c \in Clients : Len(up[c]) <= UpCap
  /\ down \in [Clients -> 0..DownCap]
  /\ reader \in [Clients -> {"read", "hand", "off"}]
  /\ msg \in [Clients -> Messages \cup {NoMsg}]
  /\ queue \in [Clients -> Seq(Messages)]
  /\ \A c \in Clients : Len(queue[c]) <= ReqCap
  /\ format \in [Clients -> 0..MaxFormat]
  /\ writer \in [Clients -> {"recv", "await", "compose", "write", "off"}]
  /\ using \in [Clients -> 0..MaxFormat]
  /\ news \in [Clients -> BOOLEAN]
  /\ asked \in BOOLEAN /\ capturing \in BOOLEAN
  /\ input \in Seq(Clients \X (1..MaxEvents)) /\ Len(input) <= InputCap
  /\ {sent, injected} \subseteq [Clients -> 0..MaxEvents]
  /\ {chosen, wanted} \subseteq [Clients -> 0..MaxFormat]

\* The tasks start when the handshake is over.  The frame_rx of a connection is
\* a clone of main's, which has seen no publication since the start.
Init ==
  /\ HandshakeInit
  /\ open = [c \in Clients |-> TRUE]
  /\ up = [c \in Clients |-> <<>>] /\ down = [c \in Clients |-> 0]
  /\ reader = [c \in Clients |-> "off"] /\ msg = [c \in Clients |-> NoMsg]
  /\ queue = [c \in Clients |-> <<>>] /\ format = [c \in Clients |-> 0]
  /\ writer = [c \in Clients |-> "off"]
  /\ using = [c \in Clients |-> 0]
  /\ news \in [Clients -> BOOLEAN]
  /\ asked = FALSE /\ capturing = TRUE
  /\ input = <<>>
  /\ sent = [c \in Clients |-> 0] /\ injected = [c \in Clients |-> 0]
  /\ chosen = [c \in Clients |-> 0] /\ wanted = [c \in Clients |-> 0]

-----------------------------------------------------------------------------
(* The viewer and the capture thread: the surroundings of a session. *)

\* The viewer sends a message: a request (under the format it chose last), an
\* input event, SetPixelFormat or SetEncodings, or one of an unknown type.
ViewerSends(c) ==
  /\ open[c] /\ stage[c] = "served" /\ Len(up[c]) < UpCap
  /\ \/ /\ \E kind \in {"inc", "full", "bad"} :
            up' = [up EXCEPT ![c] = Append(@, <<kind, chosen[c]>>)]
        /\ UNCHANGED <<sent, chosen>>
     \/ /\ sent[c] < MaxEvents
        /\ sent' = [sent EXCEPT ![c] = @ + 1] /\ chosen' = chosen
        /\ up' = [up EXCEPT ![c] = Append(@, <<"event", sent'[c]>>)]
     \/ /\ chosen[c] < MaxFormat
        /\ chosen' = [chosen EXCEPT ![c] = @ + 1] /\ sent' = sent
        /\ up' = [up EXCEPT ![c] = Append(@, <<"format", chosen'[c]>>)]
  /\ UNCHANGED <<handshake, open, down, tasks, queue, format, news, asked,
                 capturing, input, injected, wanted>>

ViewerReads(c) ==
  /\ open[c] /\ down[c] > 0
  /\ down' = [down EXCEPT ![c] = @ - 1]
  /\ UNCHANGED <<handshake, open, up, sent, chosen, tasks, queue, format,
                 news, asked, capturing, input, injected, wanted>>

\* The viewer leaves; what it sent may still arrive.
ViewerCloses(c) ==
  /\ open[c]
  /\ open' = [open EXCEPT ![c] = FALSE]
  /\ down' = [down EXCEPT ![c] = 0]
  /\ UNCHANGED <<handshake, up, sent, chosen, tasks, queue, format, news,
                 asked, capturing, input, injected, wanted>>

\* A capture that was asked for notifies every session.  It may also never do so:
\* a capture that fails notifies nobody, and a polling loop may drop a request.
Notify ==
  /\ capturing /\ asked
  /\ asked' = FALSE
  /\ news' = [c \in Clients |-> TRUE]
  /\ UNCHANGED <<handshake, network, tasks, queue, format, capturing, input,
                 injected, wanted>>

\* The capture thread ends, and its frame_tx with it.
CaptureThreadEnds ==
  /\ capturing
  /\ capturing' = FALSE /\ asked' = FALSE
  /\ UNCHANGED <<handshake, network, tasks, queue, format, news, input,
                 injected, wanted>>

-----------------------------------------------------------------------------
(* The handshake, and the start of the tasks. *)

HandshakeStep(c) ==
  /\ ReadVersion(c) \/ ReadType(c) \/ ReadResponse(c)
  /\ UNCHANGED service

\* read_exact or write_all fails: handle_client returns before it has tasks.
HandshakeBroken(c) == ~open[c] /\ HandshakeFails(c) /\ UNCHANGED service

\* ServerInit is sent and the stream split; the reader task is spawned.
Serve(c) ==
  /\ ReadClientInit(c)
  /\ reader' = [reader EXCEPT ![c] = "read"]
  /\ writer' = [writer EXCEPT ![c] = "recv"]
  /\ UNCHANGED <<network, msg, using, queue, format, news, asked, capturing,
                 input, injected, wanted>>

-----------------------------------------------------------------------------
(* The reader task: read_client_messages. *)

\* A whole message is read.  A format is stored at once; a request or an event
\* is handed to its channel next; an unknown message ends the task.
Read(c) ==
  /\ reader[c] = "read" /\ up[c] # <<>>
  /\ LET m == Head(up[c]) IN
       /\ up' = [up EXCEPT ![c] = Tail(@)]
       /\ format' = [format EXCEPT ![c] = IF m[1] = "format" THEN m[2] ELSE @]
       /\ IF IsRequest(m) \/ m[1] = "event"
            THEN /\ reader' = [reader EXCEPT ![c] = "hand"]
                 /\ msg' = [msg EXCEPT ![c] = m]
            ELSE /\ reader' = [reader EXCEPT ![c] =
                                 IF m[1] = "bad" THEN "off" ELSE @]
                 /\ msg' = msg
  /\ UNCHANGED <<handshake, open, down, sent, chosen, writer, using, queue,
                 news, asked, capturing, input, injected, wanted>>

\* Mutant of ReceiverGone: the channel outlives the writer loop.
ReceiverGoneNever(c) == c \notin Clients

\* update_req_rx is dropped with the writer loop.
ReceiverGone(c) == writer[c] = "off"

\* Mutant of HasRoom: one request more than the channel holds.
HasRoomOffByOne(c) == Len(queue[c]) <= ReqCap

HasRoom(c) == Len(queue[c]) < ReqCap

\* update_req_tx.send: waits for room; fails, unnoticed, without a receiver.
HandRequest(c) ==
  /\ reader[c] = "hand" /\ IsRequest(msg[c])
  /\ \/ /\ ~ReceiverGone(c) /\ HasRoom(c)
        /\ queue' = [queue EXCEPT ![c] = Append(@, msg[c])]
     \/ ReceiverGone(c) /\ queue' = queue
  /\ reader' = [reader EXCEPT ![c] = "read"] /\ msg' = [msg EXCEPT ![c] = NoMsg]
  /\ UNCHANGED <<handshake, network, writer, using, format, news, asked,
                 capturing, input, injected, wanted>>

\* Mutant of Offer: a full channel lets the new event replace the last one, as
\* a watch channel would.
OfferOrReplace(c) ==
  input' = Append(IF Len(input) < InputCap THEN input ELSE Front(input),
                  <<c, msg[c][2]>>)

\* Mutant of Offer: an event that finds the channel full is dropped.
OfferOrDrop(c) ==
  input' = IF Len(input) < InputCap THEN Append(input, <<c, msg[c][2]>>)
           ELSE input

Offer(c) == Len(input) < InputCap /\ input' = Append(input, <<c, msg[c][2]>>)

\* input_tx.send: waits for room.
HandEvent(c) ==
  /\ reader[c] = "hand" /\ msg[c][1] = "event"
  /\ Offer(c)
  /\ reader' = [reader EXCEPT ![c] = "read"] /\ msg' = [msg EXCEPT ![c] = NoMsg]
  /\ UNCHANGED <<handshake, network, writer, using, queue, format, news,
                 asked, capturing, injected, wanted>>

\* End of file after the last message, or a reset that loses what is left.
ReadFails(c) ==
  /\ reader[c] = "read" /\ ~open[c]
  /\ reader' = [reader EXCEPT ![c] = "off"]
  /\ up' = [up EXCEPT ![c] = <<>>]
  /\ UNCHANGED <<handshake, open, down, sent, chosen, msg, writer, using,
                 queue, format, news, asked, capturing, input, injected,
                 wanted>>

\* input_loop takes an event and writes it to its device, or logs an error.
Inject ==
  /\ input # <<>>
  /\ input' = Tail(input)
  /\ injected' = [injected EXCEPT ![Head(input)[1]] = Head(input)[2]]
  /\ UNCHANGED <<handshake, network, tasks, queue, format, news, asked,
                 capturing, wanted>>

-----------------------------------------------------------------------------
(* The writer loop. *)

\* The loop returns, or select! drops it, and its receivers go with it.
WriterEnds(c) ==
  /\ writer' = [writer EXCEPT ![c] = "off"]
  /\ queue' = [queue EXCEPT ![c] = <<>>]
  /\ news' = [news EXCEPT ![c] = FALSE]
  /\ using' = [using EXCEPT ![c] = 0] /\ wanted' = [wanted EXCEPT ![c] = 0]

\* update_req_rx.recv(); an incremental request asks for a capture.
TakeRequest(c) ==
  /\ writer[c] = "recv" /\ queue[c] # <<>>
  /\ LET r == Head(queue[c]) IN
       /\ wanted' = [wanted EXCEPT ![c] = r[2]]
       /\ writer' = [writer EXCEPT ![c] = IF r[1] = "inc" THEN "await" ELSE "compose"]
       /\ asked' = (asked \/ (r[1] = "inc" /\ capturing))
  /\ queue' = [queue EXCEPT ![c] = Tail(@)]
  /\ UNCHANGED <<handshake, network, reader, msg, using, format, news,
                 capturing, input, injected>>

\* frame_rx.changed() returns.
FrameArrives(c) ==
  /\ writer[c] = "await" /\ news[c]
  /\ writer' = [writer EXCEPT ![c] = "compose"]
  /\ news' = [news EXCEPT ![c] = FALSE]
  /\ UNCHANGED <<handshake, network, reader, msg, using, queue, format,
                 asked, capturing, input, injected, wanted>>

\* frame_rx.changed() fails without a sender, and the loop returns.
NoMoreFrames(c) ==
  /\ writer[c] = "await" /\ ~news[c] /\ ~capturing
  /\ WriterEnds(c)
  /\ UNCHANGED <<handshake, network, reader, msg, format, asked, capturing,
                 input, injected>>

\* Mutant of Borrowed: the format as it was when the request was sent.
BorrowedEarly(c) == wanted[c]

\* pf_rx.borrow() and enc_rx.borrow(), once for the whole update.
Borrowed(c) == format[c]

\* The queued requests are coalesced into this update, the frame is taken, and
\* the format is borrowed.  Nothing here waits.
Compose(c) ==
  /\ writer[c] = "compose"
  /\ wanted' = [wanted EXCEPT ![c] =
       Max({queue[c][i][2] : i \in DOMAIN queue[c]} \cup {@})]
  /\ queue' = [queue EXCEPT ![c] = <<>>]
  /\ news' = [news EXCEPT ![c] = FALSE]
  /\ using' = [using EXCEPT ![c] = Borrowed(c)]
  /\ writer' = [writer EXCEPT ![c] = "write"]
  /\ UNCHANGED <<handshake, network, reader, msg, format, asked, capturing,
                 input, injected>>

\* The update is written, when the socket has room; flush's error is ignored.
Write(c) ==
  /\ writer[c] = "write" /\ (down[c] < DownCap \/ ~open[c])
  /\ writer' = [writer EXCEPT ![c] = "recv"]
  /\ down' = [down EXCEPT ![c] = IF open[c] THEN @ + 1 ELSE @]
  /\ using' = [using EXCEPT ![c] = 0] /\ wanted' = [wanted EXCEPT ![c] = 0]
  /\ UNCHANGED <<handshake, open, up, sent, chosen, reader, msg, queue,
                 format, news, asked, capturing, input, injected>>

\* A write to a socket the viewer has closed may fail, and the loop returns.
WriteFails(c) ==
  /\ writer[c] = "write" /\ ~open[c]
  /\ WriterEnds(c)
  /\ UNCHANGED <<handshake, network, reader, msg, format, asked, capturing,
                 input, injected>>

\* select!: the reader's end drops the writer loop wherever it waits.
Return(c) ==
  /\ writer[c] # "off" /\ reader[c] = "off"
  /\ WriterEnds(c)
  /\ UNCHANGED <<handshake, network, reader, msg, format, asked, capturing,
                 input, injected>>

-----------------------------------------------------------------------------
ReaderStep(c) == Read(c) \/ HandRequest(c) \/ HandEvent(c) \/ ReadFails(c)

WriterStep(c) ==
  \/ TakeRequest(c) \/ FrameArrives(c) \/ NoMoreFrames(c)
  \/ Compose(c) \/ Write(c) \/ WriteFails(c)

ViewerStep(c) == ViewerSends(c) \/ ViewerReads(c) \/ ViewerCloses(c)

Next ==
  \/ \E c \in Clients :
       \/ HandshakeStep(c) \/ HandshakeBroken(c) \/ Serve(c)
       \/ ReaderStep(c) \/ WriterStep(c) \/ Return(c) \/ ViewerStep(c)
  \/ Notify \/ CaptureThreadEnds \/ Inject

Spec == Init /\ [][Next]_vars

\* The tasks run, and input_loop runs.  Nothing is assumed of the viewers and of
\* the capture thread.
Fairness ==
  /\ WF_vars(Inject)
  /\ \A c \in Clients :
       /\ WF_vars(Read(c) \/ HandRequest(c)) /\ SF_vars(HandEvent(c))
       /\ WF_vars(HandshakeBroken(c)) /\ WF_vars(ReadFails(c))
       /\ WF_vars(WriterStep(c)) /\ WF_vars(Return(c))

FairSpec == Spec /\ Fairness

-----------------------------------------------------------------------------
(* Properties. *)

\* Input events reach the devices in the order the viewer sent them, none is
\* left out and none comes twice: also while the writer is stuck, and after
\* handle_client has returned with the reader detached.
EventsInOrder ==
  [][\A c \in Clients :
       injected'[c] # injected[c] => injected'[c] = injected[c] + 1]_vars

\* The numbers of the entries of s that have the tag, in their order.
NumbersOf(s, tag) ==
  LET select[i \in 0..Len(s)] ==
        IF i = 0 THEN <<>>
        ELSE IF s[i][1] = tag THEN Append(select[i - 1], s[i][2])
        ELSE select[i - 1]
  IN  select[Len(s)]

\* The events of a viewer that are on their way: in the channel, then with the
\* reader, then in the socket.
Flow(c) ==
  NumbersOf(input, c)
    \o (IF msg[c][1] = "event" THEN <<msg[c][2]>> ELSE <<>>)
    \o NumbersOf(up[c], "event")

Fifo ==
  INSTANCE InputFifo
    WITH Events <- 1..MaxEvents, flow <- [c \in Clients |-> Flow(c)],
         heard <- open

\* Between the viewer and input_loop, the socket, the reader task and the
\* channel all sessions share behave as one queue per viewer, of which only the
\* end can be lost and only after the viewer has left.  (Which event is taken
\* from the queue is what EventsInOrder is about.)
InputIsFifo == Fifo!Spec

\* An update is in a format at least as new as the one every request it
\* answers was sent under, those it coalesces included.  (The answer to a
\* request sent before the format was set may still be on its way.)
FormatRespected ==
  \A c \in Clients : writer[c] = "write" => using[c] >= wanted[c]

\* The reader waits for room among the requests, and the writer for a frame that
\* is not there, or for the viewer to read.
WaitsForFrame(c)  == writer[c] = "await" /\ ~news[c] /\ capturing
WaitsForViewer(c) == writer[c] = "write" /\ open[c] /\ down[c] = DownCap
Jammed(c) ==
  /\ reader[c] = "hand" /\ IsRequest(msg[c]) /\ Len(queue[c]) = ReqCap
  /\ WaitsForFrame(c) \/ WaitsForViewer(c)

\* An input event a viewer sent is injected in the end, unless the viewer leaves
\* or sends what the server cannot parse.  One thing alone may stop its input for
\* ever: a request that finds the channel full while the writer waits for ever,
\* for a frame nobody publishes or for a viewer that does not read.
InputFlows ==
  \A c \in Clients :
    \/ <>[]Jammed(c)
    \/ \A n \in 1..MaxEvents :
         sent[c] >= n ~> injected[c] >= n \/ ~open[c] \/ reader[c] = "off"

\* handle_client has returned, and the reader with it.
Ended(c) == stage[c] \in {"served", "refused"} /\ reader[c] = "off" /\ writer[c] = "off"

\* Once its viewer has left, a session ends, in the handshake or after it, and no
\* task of it stays behind.  One thing alone may keep it for ever: its writer
\* waits for a frame nobody publishes, and its reader for room among the requests,
\* so that neither notices that the viewer has left.
SessionEnds ==
  \A c \in Clients :
    <>[](Jammed(c) /\ WaitsForFrame(c)) \/ (~open[c] ~> Ended(c))

\* The same without that exception.
SessionAlwaysEnds == \A c \in Clients : ~open[c] ~> Ended(c)
=============================================================================
