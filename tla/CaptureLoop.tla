----------------------------- MODULE CaptureLoop -----------------------------
(***************************************************************************)
(* The timing of the capture thread: capture_loop in main.rs, the requests *)
(* the sessions send it, and the shutdown of main.  On demand, a request   *)
(* is captured at once; after a quick series of requests the thread polls  *)
(* on a timer, less often while the picture does not change, and goes back *)
(* on demand when no request came for half a second.                       *)
(*                                                                         *)
(* Time is counted in ticks; the constants give the durations of the code  *)
(* in ticks.  Pixels are left out (module FramePipeline has them).         *)
(***************************************************************************)
EXTENDS Naturals, FiniteSets

CONSTANTS
  Clients,      \* viewer sessions, each connecting at most once
  Interval,     \* poll_interval, 1000/fps ms
  FastGap,      \* 100 ms: requests closer than this are high-frequency
  IdleLimit,    \* 500 ms: no request for longer than this ends polling
  OnDemandWait, \* 100 ms: recv_timeout's timeout on demand
  Slack,        \* how late the scheduler may run the runnable capture thread
  CaptureMax,   \* the longest capture
  CanFail       \* captures may fail

ASSUME LoopAssumption ==
  /\ IsFiniteSet(Clients) /\ Clients # {}
  /\ Interval \in Nat \ {0} /\ FastGap \in Nat \ {0}
  /\ IdleLimit \in Nat \ {0} /\ OnDemandWait \in Nat \ {0}
  /\ Slack \in Nat /\ CaptureMax \in Nat
  /\ CanFail \in BOOLEAN

VARIABLES
  loop,      \* the capture thread: "recv" in recv_timeout, "capture", "done"
  mode,      \* CaptureMode
  sinceReq,  \* ticks since last_request_time; "long ago" stands for None
  fast,      \* fast_request_count, which matters up to 3
  idle,      \* idle_streak, which matters up to 10
  timer,     \* ticks spent in this recv_timeout
  late,      \* ticks since the thread is runnable, or since the capture began
  pending,   \* the capture request channel is not empty
  main,      \* "run" (accepting), "stopping" (flag set), "exited"
  writer,    \* a session: "new" before it connects, "idle", "waiting" in
             \* frame_rx.changed(), "gone"
  unseen,    \* the session's frame_rx has an unseen publication; main's, which
             \* a session clones, has seen none
  age,       \* how long the session has been unserved (for AnsweredInTime)
  sinceCap   \* ticks since the last capture began (for NoDoubleCapture)

loopVars == <<loop, mode, sinceReq, fast, idle, timer, late, sinceCap>>
vars     == <<loopVars, pending, main, writer, unseen, age>>

Connected(c) == writer[c] \in {"idle", "waiting"}

\* A session that waits and has not been notified since it asked.
Unserved(c) == writer[c] = "waiting" /\ ~unseen[c]

Smaller(a, b) == IF a <= b THEN a ELSE b
LongAgo == IdleLimit + 1

MaxTimeout  == Interval * 4
LongestWait ==
  (IF MaxTimeout >= OnDemandWait THEN MaxTimeout ELSE OnDemandWait) + Slack

\* Ticks within which every request is answered.  Receiving a request restarts
\* the timer; each other session can do that twice, once with an old
\* notification to take at once and once to wait.
MaxAge ==
  (2 * Cardinality(Clients) - 1) * (MaxTimeout + Slack) + Slack + CaptureMax

TypeOK ==
  /\ loop \in {"recv", "capture", "done"}
  /\ mode \in {"OnDemand", "Polling"}
  /\ sinceReq \in 0..LongAgo
  /\ fast \in 0..3 /\ idle \in 0..10
  /\ timer \in 0..LongestWait /\ late \in Nat
  /\ pending \in BOOLEAN
  /\ main \in {"run", "stopping", "exited"}
  /\ writer \in [Clients -> {"new", "idle", "waiting", "gone"}]
  /\ unseen \in [Clients -> BOOLEAN]
  /\ age \in [Clients -> 0..(MaxAge + 1)]
  /\ sinceCap \in 0..Interval

Init ==
  /\ loop = "recv" /\ mode = "OnDemand"
  /\ sinceReq = LongAgo /\ fast = 0 /\ idle = 0
  /\ timer = 0 /\ late = 0 /\ pending = FALSE /\ main = "run"
  /\ writer \in [Clients -> {"new", "idle"}]
  /\ unseen = [c \in Clients |-> FALSE]
  /\ age = [c \in Clients |-> 0]
  /\ sinceCap = Interval

-----------------------------------------------------------------------------
(* Time. *)

\* Mutant of Backoff: doubles once more.
BackoffTooFar == IF idle >= 10 THEN 16 ELSE IF idle >= 5 THEN 2 ELSE 1

\* 1 << (idle_streak / 5).min(2)
Backoff == IF idle >= 10 THEN 4 ELSE IF idle >= 5 THEN 2 ELSE 1

Timeout == IF mode = "OnDemand" THEN OnDemandWait ELSE Interval * Backoff

Runnable ==
  loop = "recv" /\ (pending \/ timer >= Timeout \/ main = "exited")

\* Time passes, but not over what the scheduler has to run: recv_timeout
\* returns, or a capture ends, in time.
Tick ==
  /\ loop # "done"
  /\ Runnable => late < Slack
  /\ loop = "capture" => late < CaptureMax
  /\ late' = IF Runnable \/ loop = "capture" THEN late + 1 ELSE 0
  /\ timer' = IF loop = "recv" THEN timer + 1 ELSE timer
  /\ sinceReq' = Smaller(sinceReq + 1, LongAgo)
  /\ sinceCap' = Smaller(sinceCap + 1, Interval)
  /\ age' = [c \in Clients |->
               IF Unserved(c) THEN Smaller(age[c] + 1, MaxAge + 1) ELSE 0]
  /\ UNCHANGED <<loop, mode, fast, idle, pending, main, writer, unseen>>

-----------------------------------------------------------------------------
(* capture_loop. *)

\* do_capture starts; the time it takes is not in any timer.
StartCapture == loop' = "capture" /\ late' = 0 /\ sinceCap' = 0
Wait         == loop' = "recv" /\ late' = 0 /\ sinceCap' = sinceCap

\* Mutant of RecvRequest: in polling mode the request is captured as well.
RecvRequestAlways ==
  /\ loop = "recv" /\ pending
  /\ pending' = FALSE
  /\ fast' = IF sinceReq < FastGap THEN Smaller(fast + 1, 3) ELSE 0
  /\ mode' = IF fast' >= 3 THEN "Polling" ELSE mode
  /\ sinceReq' = 0 /\ timer' = 0
  /\ StartCapture
  /\ UNCHANGED <<idle, main, writer, unseen, age>>

\* Ok(()): the request is counted as fast or not; on demand it is captured at
\* once, in polling mode the timer starts again.
RecvRequest ==
  /\ loop = "recv" /\ pending
  /\ pending' = FALSE
  /\ fast' = IF sinceReq < FastGap THEN Smaller(fast + 1, 3) ELSE 0
  /\ mode' = IF fast' >= 3 THEN "Polling" ELSE mode
  /\ sinceReq' = 0 /\ timer' = 0
  /\ IF mode' = "OnDemand" THEN StartCapture ELSE Wait
  /\ UNCHANGED <<idle, main, writer, unseen, age>>

\* Mutant of TooIdle: an idle limit of one polling interval.
TooIdleSoon == sinceReq >= Interval

\* Mutant of TooIdle: last_request_time is taken to be always recent.
TooIdleNever == sinceReq > LongAgo

TooIdle == sinceReq > IdleLimit

\* recv_timeout looks at the channel, and whether it is closed, before the time.
TimedOut == loop = "recv" /\ ~pending /\ main # "exited" /\ timer >= Timeout

\* Err(Timeout) in polling mode: back to on demand, or a timer-driven capture.
PollTimeout ==
  /\ TimedOut /\ mode = "Polling"
  /\ IF TooIdle
       THEN mode' = "OnDemand" /\ fast' = 0 /\ idle' = 0 /\ Wait
       ELSE UNCHANGED <<mode, fast, idle>> /\ StartCapture
  /\ timer' = 0
  /\ UNCHANGED <<sinceReq, pending, main, writer, unseen, age>>

\* Mutant of SeesShutdown: the flag is not looked at.
SeesShutdownNever == FALSE

\* The flag is set by Ctrl+C only, not when main returns with an error.
SeesShutdown == main = "stopping"

\* Err(Timeout) on demand: the only look at the shutdown flag.
OnDemandTimeout ==
  /\ TimedOut /\ mode = "OnDemand"
  /\ IF SeesShutdown THEN loop' = "done" ELSE loop' = loop
  /\ timer' = 0 /\ late' = 0
  /\ UNCHANGED <<mode, sinceReq, fast, idle, sinceCap, pending, main, writer,
                 unseen, age>>

\* Mutant of Disconnected: taken for a timeout, and waited on.
DisconnectedIgnored ==
  /\ loop = "recv" /\ ~pending /\ main = "exited"
  /\ timer' = 0 /\ late' = 0
  /\ UNCHANGED <<loop, mode, sinceReq, fast, idle, sinceCap, pending, main,
                 writer, unseen, age>>

\* Err(Disconnected): every sender of the request channel is gone.
Disconnected ==
  /\ loop = "recv" /\ ~pending /\ main = "exited"
  /\ loop' = "done"
  /\ UNCHANGED <<mode, sinceReq, fast, idle, timer, late, sinceCap, pending,
                 main, writer, unseen, age>>

\* do_capture returns: with a new frame or an unchanged one it notifies every
\* session, with an error nobody.  Only a polling capture counts as idle.
EndCapture ==
  /\ loop = "capture"
  /\ \E changed \in BOOLEAN, failed \in {FALSE, CanFail} :
       /\ failed => ~changed
       /\ unseen' = IF failed THEN unseen ELSE [c \in Clients |-> TRUE]
       /\ idle' = IF mode = "OnDemand" THEN idle
                  ELSE IF changed THEN 0 ELSE Smaller(idle + 1, 10)
  /\ Wait /\ timer' = 0
  /\ UNCHANGED <<mode, sinceReq, fast, pending, main, writer, age>>

LoopStep ==
  RecvRequest \/ PollTimeout \/ OnDemandTimeout \/ Disconnected \/ EndCapture

-----------------------------------------------------------------------------
(* The sessions and main. *)

\* An incremental request: capture_req_tx.send(()), then frame_rx.changed().
Request(c) ==
  /\ writer[c] = "idle"
  /\ writer' = [writer EXCEPT ![c] = "waiting"]
  /\ age' = [age EXCEPT ![c] = 0]
  /\ pending' = (loop # "done")
  /\ UNCHANGED <<loopVars, main, unseen>>

\* changed() returns, and the frame is taken; or it fails because the capture
\* thread and its end of the watch channel are gone.
Answer(c) ==
  /\ writer[c] = "waiting" /\ (unseen[c] \/ loop = "done")
  /\ writer' = [writer EXCEPT ![c] = IF unseen[c] THEN "idle" ELSE "gone"]
  /\ unseen' = [unseen EXCEPT ![c] = FALSE]
  /\ age' = [age EXCEPT ![c] = 0]
  /\ UNCHANGED <<loopVars, pending, main>>

Disconnect(c) ==
  /\ Connected(c)
  /\ writer' = [writer EXCEPT ![c] = "gone"]
  /\ age' = [age EXCEPT ![c] = 0]
  /\ UNCHANGED <<loopVars, pending, main, unseen>>

\* main accepts a new connection.
Connect(c) ==
  /\ main = "run" /\ writer[c] = "new"
  /\ writer' = [writer EXCEPT ![c] = "idle"]
  /\ UNCHANGED <<loopVars, pending, main, unseen, age>>

\* Ctrl+C: main sets the flag and waits for the capture thread.  It keeps its
\* own capture_req_tx, so the channel does not close.
CtrlC ==
  /\ main = "run" /\ main' = "stopping"
  /\ UNCHANGED <<loopVars, pending, writer, unseen, age>>

\* main returns: after the capture thread has ended, or with an accept error.
\* The runtime drops the sessions, and with them the request senders.
MainExits ==
  /\ main = "run" \/ (main = "stopping" /\ loop = "done")
  /\ main' = "exited"
  /\ writer' = [c \in Clients |-> "gone"]
  /\ age' = [c \in Clients |-> 0]
  /\ UNCHANGED <<loopVars, pending, unseen>>

\* The process has ended.
Terminated ==
  /\ main = "exited" /\ loop = "done"
  /\ UNCHANGED vars

Next ==
  \/ Tick \/ LoopStep
  \/ \E c \in Clients : Request(c) \/ Answer(c) \/ Disconnect(c) \/ Connect(c)
  \/ CtrlC \/ MainExits \/ Terminated

Spec == Init /\ [][Next]_vars

\* Time passes, the threads run, and a connected viewer keeps asking.
Fairness ==
  /\ SF_vars(Tick) /\ WF_vars(LoopStep)
  /\ WF_vars(main = "stopping" /\ MainExits)
  /\ \A c \in Clients : WF_vars(Answer(c)) /\ WF_vars(Request(c))

FairSpec == Spec /\ Fairness

-----------------------------------------------------------------------------
(* Properties. *)

\* Nobody is forgotten: when the thread waits on demand with no request in the
\* channel, no session waits for a frame it has not been notified of.  On
\* demand nothing but a new request would ever wake that session.
NobodyForgotten ==
  loop = "recv" /\ mode = "OnDemand" /\ ~pending =>
    \A c \in Clients : ~Unserved(c)

\* Every request is answered within a bounded time.
AnsweredInTime == \A c \in Clients : age[c] <= MaxAge

\* Once polling, captures are at least a polling interval apart: requests
\* never add captures to those of the timer.
NoDoubleCapture ==
  [][loop = "recv" /\ loop' = "capture" /\ mode' = "Polling" =>
       sinceCap = Interval]_vars

\* A session that waits for a frame does not wait for ever.
RequestAnswered ==
  \A c \in Clients : writer[c] = "waiting" ~> writer[c] # "waiting"

\* When the viewers are gone, the thread stops polling the screen.
PollingStops ==
  <>[](\A c \in Clients : ~Connected(c)) =>
    <>[](mode = "OnDemand" \/ loop = "done")

\* When the viewers are gone, Ctrl+C ends the program.
QuietShutdown ==
  <>[](\A c \in Clients : ~Connected(c)) =>
    (main = "stopping" ~> main = "exited")

\* Ctrl+C ends the program.
ShutdownCompletes == main = "stopping" ~> main = "exited"
=============================================================================
