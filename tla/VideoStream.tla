----------------------------- MODULE VideoStream -----------------------------
(***************************************************************************)
(* The experimental video stream, run by the capture thread after every    *)
(* capture that changed: ExperimentalPipeline::process (main.rs) limits    *)
(* the rate and encodes, SoftwareEncoder and the x264 shim make a packet   *)
(* of a frame, TcpAnnexBSink (transport/tcp.rs) accepts one client at a    *)
(* time and writes the packets to it, from a keyframe on.  An error        *)
(* anywhere takes the pipeline down for good, the first frame that is      *)
(* given to an encoder that cannot encode it included.                     *)
(*                                                                         *)
(* A packet is abstracted to whether it is a keyframe: any other can be    *)
(* decoded only by a client that decoded the packet before it.  Time is    *)
(* the number of ticks since the last encoded frame.                       *)
(***************************************************************************)
EXTENDS Naturals, SequencesExt, FiniteSets

CONSTANTS
  Clients,   \* stream clients, each connecting once
  NoClient,  \* client is None
  KeyInt,    \* i_keyint_max, 30: frames from a keyframe to the next
  Interval,  \* min_frame_interval in ticks, 0 without --video-fps
  SockCap    \* bound: packets the socket of a client holds

ASSUME StreamAssumption ==
  /\ NoClient \notin Clients
  /\ KeyInt \in Nat \ {0} /\ Interval \in Nat /\ SockCap \in Nat \ {0}

VARIABLES
  pipe,     \* what setup_pipeline made, see Pipelines
  on,       \* the pipeline exists
  since,    \* ticks since last_frame_at, up to Interval
  gop,      \* frames encoded since the last keyframe, 0 before the first
  pc,       \* the capture thread: "idle", or in submit: "accept", "deliver",
            \* "write"
  key,      \* the packet being submitted is a keyframe
  client,   \* the accepted client
  waiting,  \* waiting_for_keyframe
  backlog,  \* connections the listener has not accepted yet
  conn,     \* a client: "new", "open" once connected, "closed"
  sock,     \* packets in its socket
  picture   \* what it can show once it read them: "nothing", the "current"
            \* packet, all but the newest ("behind"), or "lost" its reference;
            \* "garbled" by a packet it cannot decode

stream == <<on, since, gop, key>>
sink   == <<client, waiting, backlog>>
ends   == <<conn, sock, picture>>
vars   == <<pipe, stream, pc, sink, ends>>

\* The encoder and the codec are the user's choice.  The sink is the null sink
\* without a port, and where the listener cannot be bound.
Pipelines ==
  [encoder : {"software", "vaapi"}, codec : {"h264", "other"},
   sink : {"tcp", "null"}]

TypeOK ==
  /\ pipe \in Pipelines
  /\ on \in BOOLEAN /\ key \in BOOLEAN /\ waiting \in BOOLEAN
  /\ since \in 0..Interval /\ gop \in 0..KeyInt
  /\ pc \in {"idle", "accept", "deliver", "write"}
  /\ client \in Clients \cup {NoClient}
  /\ IsInjective(backlog) /\ Range(backlog) \subseteq Clients \ {client}
  /\ conn \in [Clients -> {"new", "open", "closed"}]
  /\ sock \in [Clients -> 0..SockCap]
  /\ picture \in
       [Clients -> {"nothing", "current", "behind", "lost", "garbled"}]

\* No last_frame_at: the first frame is encoded whatever the interval.
Init ==
  /\ pipe \in Pipelines
  /\ on = TRUE /\ since = Interval /\ gop = 0 /\ key = FALSE
  /\ pc = "idle"
  /\ client = NoClient /\ waiting = FALSE /\ backlog = <<>>
  /\ conn = [c \in Clients |-> "new"] /\ sock = [c \in Clients |-> 0]
  /\ picture = [c \in Clients |-> "nothing"]

-----------------------------------------------------------------------------
(* The clients and time. *)

Tick ==
  /\ since < Interval /\ since' = since + 1
  /\ UNCHANGED <<pipe, on, gop, key, pc, sink, ends>>

Connect(c) ==
  /\ on /\ pipe.sink = "tcp" /\ conn[c] = "new"
  /\ conn' = [conn EXCEPT ![c] = "open"]
  /\ backlog' = Append(backlog, c)
  /\ UNCHANGED <<pipe, stream, pc, client, waiting, sock, picture>>

Read(c) ==
  /\ conn[c] = "open" /\ sock[c] > 0
  /\ sock' = [sock EXCEPT ![c] = @ - 1]
  /\ UNCHANGED <<pipe, stream, pc, sink, conn, picture>>

Close(c) ==
  /\ conn[c] = "open"
  /\ conn' = [conn EXCEPT ![c] = "closed"] /\ sock' = [sock EXCEPT ![c] = 0]
  /\ UNCHANGED <<pipe, stream, pc, sink, picture>>

-----------------------------------------------------------------------------
(* ExperimentalPipeline::process, called with force_keyframe = FALSE. *)

Limited == since < Interval

\* Mutant of KeyDue: the encoder places keyframes where it likes.
KeyOnlyFirst == gop = 0

\* x264 without scene cuts (preset ultrafast): the first frame is a keyframe,
\* and then every frame KeyInt after the last.
KeyDue == gop \in {0, KeyInt}

\* The encoder's place in the group of pictures after the frame.
NextGop == IF KeyDue THEN 1 ELSE gop + 1

\* VaapiEncoder: an error, whether it fails to probe the driver or succeeds,
\* because it does not submit anything to it yet.
VaapiEncodes == FALSE

\* SoftwareEncoder makes packets of one codec.
SoftwareEncodes == pipe.codec = "h264"

\* Some frame can be encoded.
CanEncode ==
  IF pipe.encoder = "vaapi" THEN VaapiEncodes ELSE SoftwareEncodes

\* A frame is encoded; it becomes the newest packet of the stream.
Encode ==
  /\ pc = "idle" /\ on /\ ~Limited /\ CanEncode
  /\ key' = KeyDue /\ gop' = NextGop
  /\ since' = 0
  /\ picture' = [c \in Clients |->
       CASE picture[c] = "current" -> "behind"
         [] picture[c] = "behind" -> "lost"
         [] OTHER -> picture[c]]
  /\ pc' = "accept"
  /\ UNCHANGED <<pipe, on, sink, conn, sock>>

\* The frame source or the encoder fails: the pipeline is dropped, and with it
\* the listener and the client's socket.
PipelineFails ==
  /\ pc = "idle" /\ on /\ ~Limited
  /\ on' = FALSE
  /\ client' = NoClient /\ waiting' = FALSE /\ backlog' = <<>>
  /\ conn' = [c \in Clients |-> IF conn[c] = "open" THEN "closed" ELSE conn[c]]
  /\ sock' = [c \in Clients |-> 0]
  /\ UNCHANGED <<pipe, since, gop, key, pc, picture>>

-----------------------------------------------------------------------------
(* NullSink::submit and TcpAnnexBSink::submit. *)

\* The null sink counts the packet.
Discard ==
  /\ pc = "accept" /\ pipe.sink = "null"
  /\ pc' = "idle"
  /\ UNCHANGED <<pipe, stream, sink, ends>>

\* Mutant of WaitsAtFirst: accepting a client leaves waiting_for_keyframe alone.
WaitsAsBefore == waiting

WaitsAtFirst == TRUE

\* Mutant of NobodyAsks: the listener blocks until there is a connection.
NobodyAsksBlocks == client # NoClient

\* There is a client already, or accept would block.
NobodyAsks == client # NoClient \/ backlog = <<>>

\* accept_client_if_needed.  A connection that was reset while it waited in the
\* backlog may be reported as an error of accept.
Accept ==
  /\ pc = "accept" /\ pipe.sink = "tcp" /\ pc' = "deliver"
  /\ \/ NobodyAsks /\ UNCHANGED sink
     \/ /\ client = NoClient /\ backlog # <<>>
        /\ backlog' = Tail(backlog)
        /\ \/ client' = Head(backlog) /\ waiting' = WaitsAtFirst
           \/ conn[Head(backlog)] = "closed" /\ UNCHANGED <<client, waiting>>
  /\ UNCHANGED <<pipe, stream, ends>>

\* Without a client, or before its first keyframe, the packet is dropped.
Deliver ==
  /\ pc = "deliver"
  /\ IF client = NoClient \/ (waiting /\ ~key)
       THEN pc' = "idle" /\ waiting' = waiting
       ELSE pc' = "write" /\ waiting' = FALSE
  /\ UNCHANGED <<pipe, stream, client, backlog, ends>>

\* What the client can show once it has the packet as well.
Decoded(p) ==
  IF key THEN "current"
  ELSE IF p = "behind" THEN "current" ELSE "garbled"

\* write_all on a blocking socket: it waits for room.  The first packets after
\* the client has closed still go to the kernel's buffer.
Write ==
  /\ pc = "write" /\ sock[client] < SockCap
  /\ sock' = [sock EXCEPT ![client] = @ + 1]
  /\ picture' = [picture EXCEPT ![client] = Decoded(@)]
  /\ pc' = "idle"
  /\ UNCHANGED <<pipe, stream, sink, conn>>

\* Mutant of ClientAfterError: a client that failed is kept.
ClientKept == client

ClientAfterError == NoClient

\* write_all fails: the client is dropped.
WriteFails ==
  /\ pc = "write" /\ conn[client] = "closed"
  /\ client' = ClientAfterError /\ waiting' = FALSE
  /\ pc' = "idle"
  /\ UNCHANGED <<pipe, stream, backlog, ends>>

-----------------------------------------------------------------------------
Submit == Discard \/ Accept \/ Deliver \/ Write \/ WriteFails

ClientStep(c) == Connect(c) \/ Read(c) \/ Close(c)

Next ==
  \/ Tick \/ Encode \/ PipelineFails \/ Submit
  \/ \E c \in Clients : ClientStep(c)

Spec == Init /\ [][Next]_vars

\* The capture thread runs, and captures that changed keep coming (the screen
\* changes and VNC viewers ask).  Nothing is assumed of the stream's clients.
Fairness ==
  WF_vars(Tick) /\ WF_vars(Encode \/ PipelineFails) /\ WF_vars(Submit)

FairSpec == Spec /\ Fairness

-----------------------------------------------------------------------------
(* Properties. *)

\* No client is ever written a packet it has not the reference for: its first
\* packet is a keyframe, and from there on it gets every packet, whichever
\* clients came and went before it.
NeverGarbled == \A c \in Clients : picture[c] # "garbled"

\* Between two submissions, the client that is being streamed to has all of the
\* stream up to the newest packet: nothing is dropped for it.
ServedIsCurrent ==
  pc = "idle" /\ client # NoClient /\ ~waiting => picture[client] = "current"

\* A client that connects gets a picture in the end, unless it leaves, the
\* pipeline goes down, or another client that stays keeps the only place.
StreamStarts ==
  \A c \in Clients :
    conn[c] = "open" ~>
      \/ picture[c] # "nothing" \/ conn[c] = "closed" \/ ~on
      \/ client \in Clients \ {c} /\ conn[client] = "open"

\* The client's socket is full, and it neither reads nor closes.
ClientStalls ==
  pc = "write" /\ conn[client] = "open" /\ sock[client] = SockCap

\* A capture comes back from the stream, so that VNC viewers go on getting
\* pictures, also without a client and when the client has just gone.  One thing
\* alone may keep the capture thread for ever: a client that stays connected and
\* stops reading, as the write has no timeout.
CaptureComesBack == <>[](pc # "idle") => <>[]ClientStalls

\* The same without that exception.
CaptureAlwaysComesBack == []<>(pc = "idle")
=============================================================================
