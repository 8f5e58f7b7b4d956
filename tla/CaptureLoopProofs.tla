-------------------------- MODULE CaptureLoopProofs --------------------------
(***************************************************************************)
(* Proofs about CaptureLoop, for every number of sessions and all          *)
(* durations.                                                              *)
(***************************************************************************)
EXTENDS CaptureLoop, FiniteSetTheorems, TLAPS

\* The bounds of the constants' arithmetic.
LEMMA BoundTypes ==
  /\ MaxTimeout \in Nat /\ LongestWait \in Nat /\ MaxAge \in Nat /\ LongAgo \in Nat
  /\ MaxTimeout + Slack <= LongestWait /\ OnDemandWait + Slack <= LongestWait
<1> USE LoopAssumption
<1>1. MaxTimeout \in Nat /\ LongestWait \in Nat /\ LongAgo \in Nat
  BY DEF MaxTimeout, LongestWait, LongAgo
<1>2. MaxTimeout + Slack <= LongestWait /\ OnDemandWait + Slack <= LongestWait
  BY DEF MaxTimeout, LongestWait
<1>3. MaxAge \in Nat
  <2>1. Cardinality(Clients) \in Nat /\ Cardinality(Clients) # 0
    BY FS_CardinalityType, FS_EmptySet
  <2> DEFINE k == 2 * Cardinality(Clients) - 1
             w == MaxTimeout + Slack
  <2>2. k \in Nat /\ w \in Nat
    BY <2>1, <1>1
  <2>3. \A i, j \in Nat : i * j \in Nat
    OBVIOUS
  <2>4. k * w \in Nat
    <3> HIDE DEF k, w
    <3>1. QED
      BY <2>2, <2>3
  <2>5. MaxAge = k * w + Slack + CaptureMax
    BY DEF MaxAge
  <2>6. QED
    <3> HIDE DEF k, w
    <3>1. QED
      BY <2>4, <2>5
<1>4. QED
  BY <1>1, <1>2, <1>3

\* recv_timeout's timeout is between the poll interval and four times it.
LEMMA TimeoutBounds ==
  ASSUME TypeOK
  PROVE  /\ Timeout \in Nat /\ Timeout + Slack <= LongestWait
         /\ mode = "Polling" => Interval <= Timeout /\ Timeout <= MaxTimeout
  BY LoopAssumption, BoundTypes DEF TypeOK, Timeout, Backoff, MaxTimeout

\* The thread is late by at most Slack, and its timer by what it is late.
TimerInv ==
  /\ loop = "recv" => timer <= Timeout + late /\ late <= Slack
  /\ loop = "capture" => timer = 0

\* The timer of this recv_timeout is no longer running than the last capture is
\* past.
PaceInv == loop = "recv" => timer <= sinceCap \/ sinceCap = Interval

LoopInv == TypeOK /\ TimerInv /\ PaceInv

\* Initially the thread has just begun to wait.
LEMMA LoopInvInit == Init => LoopInv
<1> SUFFICES ASSUME Init PROVE LoopInv
  OBVIOUS
<1> USE LoopAssumption, BoundTypes DEF Init
<1>1. age \in [Clients -> 0..(MaxAge + 1)] /\ timer \in 0..LongestWait
  OBVIOUS
<1>2. sinceReq \in 0..LongAgo /\ sinceCap \in 0..Interval
  OBVIOUS
<1>3. TypeOK
  <2>1. fast \in 0..3 /\ idle \in 0..10 /\ late \in Nat
    OBVIOUS
  <2>2. /\ writer \in [Clients -> {"new", "idle", "waiting", "gone"}]
        /\ unseen \in [Clients -> BOOLEAN]
        /\ pending \in BOOLEAN
    BY Zenon
  <2>3. QED
    BY <1>1, <1>2, <2>1, <2>2 DEF TypeOK
<1>4. TimerInv /\ PaceInv
  BY DEF TimerInv, PaceInv, Timeout
<1>5. QED
  BY <1>3, <1>4 DEF LoopInv

\* Every step keeps the timer within its bounds.
LEMMA LoopInvNext == LoopInv /\ [Next]_vars => LoopInv'
<1> SUFFICES ASSUME LoopInv, [Next]_vars PROVE LoopInv'
  OBVIOUS
<1> USE LoopAssumption, BoundTypes DEF LoopInv
<1> Timeout \in Nat /\ Timeout + Slack <= LongestWait
  BY TimeoutBounds
<1>1. ASSUME Tick PROVE LoopInv'
  BY <1>1
  DEF Tick, Smaller, Unserved,
      TypeOK, TimerInv, PaceInv, Timeout, Backoff, Runnable, LongAgo, loopVars
<1>2. ASSUME RecvRequest PROVE LoopInv'
  <2>1. fast' \in 0..3 /\ mode' \in {"OnDemand", "Polling"} /\ sinceReq' \in 0..LongAgo
    BY <1>2 DEF RecvRequest, TypeOK, Smaller, LongAgo
  <2>2. /\ timer' = 0 /\ late' = 0 /\ loop' \in {"recv", "capture"}
        /\ sinceCap' \in 0..Interval
    BY <1>2 DEF RecvRequest, StartCapture, Wait, TypeOK
  <2>3. TypeOK'
    <3>1. /\ idle' \in 0..10 /\ timer' \in 0..LongestWait /\ late' \in Nat
          /\ main' \in {"run", "stopping", "exited"}
      BY <1>2, <2>2 DEF RecvRequest, TypeOK
    <3>2. UNCHANGED <<writer, unseen, age>> /\ pending' \in BOOLEAN
      BY <1>2, Zenon DEF RecvRequest
    <3>3. QED
      BY <2>1, <2>2, <3>1, <3>2 DEF TypeOK
  <2>4. timer' <= Timeout' + late' /\ late' <= Slack
    BY <2>2, <2>1 DEF Timeout, Backoff
  <2>5. TimerInv' /\ PaceInv'
    BY <2>2, <2>4 DEF TimerInv, PaceInv
  <2>6. QED
    BY <2>3, <2>5
<1>3. ASSUME PollTimeout PROVE LoopInv'
  BY <1>3
  DEF PollTimeout, TimedOut, StartCapture, Wait, TooIdle,
      TypeOK, TimerInv, PaceInv, Timeout, Backoff, Runnable, LongAgo, loopVars
<1>4. ASSUME OnDemandTimeout PROVE LoopInv'
  BY <1>4
  DEF OnDemandTimeout, TimedOut, SeesShutdown,
      TypeOK, TimerInv, PaceInv, Timeout, Backoff, Runnable, LongAgo, loopVars
<1>5. ASSUME Disconnected PROVE LoopInv'
  BY <1>5
  DEF Disconnected,
      TypeOK, TimerInv, PaceInv, Timeout, Backoff, Runnable, LongAgo, loopVars
<1>6. ASSUME EndCapture PROVE LoopInv'
  BY <1>6
  DEF EndCapture, Wait, Smaller,
      TypeOK, TimerInv, PaceInv, Timeout, Backoff, Runnable, LongAgo, loopVars
<1>7. ASSUME NEW c \in Clients, Request(c) PROVE LoopInv'
  BY <1>7
  DEF Request,
      TypeOK, TimerInv, PaceInv, Timeout, Backoff, Runnable, LongAgo, loopVars
<1>8. ASSUME NEW c \in Clients, Answer(c) PROVE LoopInv'
  BY <1>8
  DEF Answer,
      TypeOK, TimerInv, PaceInv, Timeout, Backoff, Runnable, LongAgo, loopVars
<1>9. ASSUME NEW c \in Clients, Disconnect(c) PROVE LoopInv'
  BY <1>9
  DEF Disconnect, Connected,
      TypeOK, TimerInv, PaceInv, Timeout, Backoff, Runnable, LongAgo, loopVars
<1>10. ASSUME NEW c \in Clients, Connect(c) PROVE LoopInv'
  BY <1>10
  DEF Connect,
      TypeOK, TimerInv, PaceInv, Timeout, Backoff, Runnable, LongAgo, loopVars
<1>11. ASSUME CtrlC PROVE LoopInv'
  BY <1>11
  DEF CtrlC,
      TypeOK, TimerInv, PaceInv, Timeout, Backoff, Runnable, LongAgo, loopVars
<1>12. ASSUME MainExits PROVE LoopInv'
  BY <1>12
  DEF MainExits,
      TypeOK, TimerInv, PaceInv, Timeout, Backoff, Runnable, LongAgo, loopVars
<1>13. ASSUME Terminated PROVE LoopInv'
  BY <1>13
  DEF Terminated, vars,
      TypeOK, TimerInv, PaceInv, Timeout, Backoff, Runnable, LongAgo, loopVars
<1>14. CASE UNCHANGED vars
  BY <1>14 DEF TypeOK, TimerInv, PaceInv, Timeout, Backoff, vars, loopVars
<1>15. QED
  BY <1>1, <1>2, <1>3, <1>4, <1>5, <1>6, <1>7, <1>8,
     <1>9, <1>10, <1>11, <1>12, <1>13, <1>14
  DEF Next, LoopStep

\* Every variable keeps its type; recv_timeout is never waited for longer than
\* the longest timeout and the scheduler's lateness.
THEOREM TypeCorrect == Spec => []TypeOK
<1>1. LoopInv => TypeOK
  BY DEF LoopInv
<1>2. QED
  BY LoopInvInit, LoopInvNext, <1>1, PTL DEF Spec

\* In polling mode the timer alone starts captures, so they are a polling
\* interval apart (capture_loop's comment on double captures).
THEOREM CapturesKeepTheirPace == Spec => NoDoubleCapture
<1> DEFINE Step == loop = "recv" /\ loop' = "capture" /\ mode' = "Polling" =>
                     sinceCap = Interval
<1>1. LoopInv /\ [Next]_vars => [Step]_vars
  <2> SUFFICES ASSUME LoopInv, Next, loop = "recv", loop' = "capture",
                      mode' = "Polling"
               PROVE  sinceCap = Interval
    OBVIOUS
  <2>1. PollTimeout
    <3>1. ASSUME NEW c \in Clients,
                 Request(c) \/ Answer(c) \/ Disconnect(c) \/ Connect(c)
          PROVE  FALSE
      BY <3>1 DEF Request, Answer, Disconnect, Connect, loopVars
    <3>2. ~Tick /\ ~CtrlC /\ ~MainExits /\ ~Terminated
      BY DEF Tick, CtrlC, MainExits, Terminated, vars, loopVars
    <3>3. LoopStep => PollTimeout
      BY DEF LoopStep, RecvRequest, OnDemandTimeout, TimedOut, Disconnected,
          EndCapture, Wait
    <3>4. QED
      BY <3>1, <3>2, <3>3 DEF Next
  <2>2. timer >= Interval /\ timer \in Nat
    BY <2>1, TimeoutBounds, LoopAssumption
    DEF PollTimeout, TimedOut, LoopInv, TypeOK
  <2>3. QED
    BY <2>2, LoopAssumption DEF LoopInv, PaceInv, TypeOK
<1>2. QED
  BY LoopInvInit, LoopInvNext, <1>1, PTL DEF Spec, NoDoubleCapture

-----------------------------------------------------------------------------
(* Nobody is forgotten. *)

\* The longest timeout ends before polling does: fps is at least 8, and the
\* scheduler is not late by what is left of the 500 ms.
Prompt == MaxTimeout + Slack <= IdleLimit /\ CanFail = FALSE

\* A session that is still unserved has had its request received in polling
\* mode, and the timer has been running since.
ServedInv ==
  loop = "recv" /\ ~pending /\ (\E c \in Clients : Unserved(c)) =>
    mode = "Polling" /\ sinceReq <= timer

\* Initially no session waits.
LEMMA ServedInvInit == Init => ServedInv
  BY DEF Init, ServedInv, Unserved

\* A request is received at once or by the next capture, and polling does not
\* end before that capture.
LEMMA ServedInvNext ==
  ASSUME Prompt
  PROVE  LoopInv /\ ServedInv /\ [Next]_vars => ServedInv'
<1> SUFFICES ASSUME LoopInv, ServedInv, [Next]_vars PROVE ServedInv'
  OBVIOUS
<1> USE LoopAssumption, BoundTypes, TimeoutBounds DEF LoopInv, Prompt
<1>1. ASSUME Tick PROVE ServedInv'
  BY <1>1
  DEF Tick, Smaller, Unserved,
      ServedInv, Unserved, TypeOK, TimerInv, LongAgo, loopVars
<1>2. ASSUME RecvRequest PROVE ServedInv'
  BY <1>2
  DEF RecvRequest, Smaller, StartCapture, Wait,
      ServedInv, Unserved, TypeOK, TimerInv, LongAgo, loopVars
<1>3. ASSUME PollTimeout PROVE ServedInv'
  BY <1>3
  DEF PollTimeout, TimedOut, StartCapture, Wait, TooIdle,
      ServedInv, Unserved, TypeOK, TimerInv, LongAgo, loopVars
<1>4. ASSUME OnDemandTimeout PROVE ServedInv'
  BY <1>4
  DEF OnDemandTimeout, TimedOut, SeesShutdown,
      ServedInv, Unserved, TypeOK, TimerInv, LongAgo, loopVars
<1>5. ASSUME Disconnected PROVE ServedInv'
  BY <1>5
  DEF Disconnected,
      ServedInv, Unserved, TypeOK, TimerInv, LongAgo, loopVars
<1>6. ASSUME EndCapture PROVE ServedInv'
  BY <1>6
  DEF EndCapture, Wait, Smaller,
      ServedInv, Unserved, TypeOK, TimerInv, LongAgo, loopVars
<1>7. ASSUME NEW c \in Clients, Request(c) PROVE ServedInv'
  BY <1>7
  DEF Request,
      ServedInv, Unserved, TypeOK, TimerInv, LongAgo, loopVars
<1>8. ASSUME NEW c \in Clients, Answer(c) PROVE ServedInv'
  BY <1>8
  DEF Answer,
      ServedInv, Unserved, TypeOK, TimerInv, LongAgo, loopVars
<1>9. ASSUME NEW c \in Clients, Disconnect(c) PROVE ServedInv'
  BY <1>9
  DEF Disconnect, Connected,
      ServedInv, Unserved, TypeOK, TimerInv, LongAgo, loopVars
<1>10. ASSUME NEW c \in Clients, Connect(c) PROVE ServedInv'
  BY <1>10
  DEF Connect,
      ServedInv, Unserved, TypeOK, TimerInv, LongAgo, loopVars
<1>11. ASSUME CtrlC PROVE ServedInv'
  BY <1>11
  DEF CtrlC,
      ServedInv, Unserved, TypeOK, TimerInv, LongAgo, loopVars
<1>12. ASSUME MainExits PROVE ServedInv'
  BY <1>12
  DEF MainExits,
      ServedInv, Unserved, TypeOK, TimerInv, LongAgo, loopVars
<1>13. ASSUME Terminated PROVE ServedInv'
  BY <1>13
  DEF Terminated, vars,
      ServedInv, Unserved, TypeOK, TimerInv, LongAgo, loopVars
<1>14. CASE UNCHANGED vars
  BY <1>14 DEF ServedInv, Unserved, vars, loopVars
<1>15. QED
  BY <1>1, <1>2, <1>3, <1>4, <1>5, <1>6, <1>7, <1>8,
     <1>9, <1>10, <1>11, <1>12, <1>13, <1>14
  DEF Next, LoopStep

\* A session that waits is in nobody's blind spot, for any number of sessions
\* that come and go, any interleaving of their requests and any shutdown, if the
\* polling interval is short enough (capture_loop; see also the run with 5 fps).
THEOREM NobodyIsForgotten ==
  ASSUME Prompt
  PROVE  Spec => []NobodyForgotten
<1>1. LoopInv /\ ServedInv => NobodyForgotten
  BY DEF LoopInv, ServedInv, NobodyForgotten
<1>2. QED
  BY LoopInvInit, LoopInvNext, ServedInvInit, ServedInvNext, <1>1, PTL DEF Spec

-----------------------------------------------------------------------------
(* Everybody is answered in time. *)

\* What the longest polling wait takes.
Round == MaxTimeout + Slack

\* Until the next publication a session can make two requests: one that an old
\* notification answers at once, and one that waits.  The sessions that can make
\* no more than one, and those that can make none.
Spent  == {c \in Clients : ~(writer[c] \in {"new", "idle"} /\ unseen[c])}
Silent == {c \in Clients : writer[c] = "gone" \/ Unserved(c)}

\* The requests no session can make any more, and the time they took at most.
Made   == Cardinality(Spent) + Cardinality(Silent)
Budget == Made * Round

\* All the requests there can be, and their time.
Total == (2 * Cardinality(Clients)) * Round

\* How long an unserved session may have waited.  Its own request is two of
\* Made; every other one restarts the timer once.  A request in the channel is
\* the session's own, late by the scheduler, or a later one, which came while
\* the timer was running.
RoundInv(c) ==
  /\ loop = "recv" /\ ~pending =>
       age[c] + 2 * Round <= Budget + Slack + timer
  /\ loop = "recv" /\ pending =>
       \/ age[c] + 2 * Round <= Budget + late
       \/ mode = "Polling" /\ age[c] + 3 * Round <= Budget + Slack + timer
  /\ loop = "capture" => age[c] + Round <= Total + Slack + late
  /\ loop = "done" => age[c] = 0

AgeInv ==
  /\ loop = "capture" => late <= CaptureMax
  /\ main = "exited" => \A c \in Clients : ~Connected(c)
  /\ \A c \in Clients : IF Unserved(c) THEN RoundInv(c) ELSE age[c] <= MaxAge

\* Products with the length of a round.
LEMMA Products ==
  ASSUME NEW k \in Nat, NEW n \in Nat, NEW r \in Nat, k <= n
  PROVE  /\ k * r \in Nat /\ k * r <= n * r
         /\ (k + 1) * r = k * r + r /\ (k + 2) * r = k * r + 2 * r
<1>1. /\ k * r \in Nat /\ n * r \in Nat
  OBVIOUS
<1>2. PICK d \in Nat : n = k + d
  <2>1. n - k \in Nat /\ n = k + (n - k)
    OBVIOUS
  <2>2. QED
    BY <2>1
<1>3. n * r = k * r + d * r /\ d * r \in Nat
  BY <1>2
<1>4. QED
  BY <1>1, <1>3

\* The sessions in a part of a part of them.
LEMMA Counts ==
  ASSUME NEW A, NEW B, A \subseteq B, B \subseteq Clients
  PROVE  /\ Cardinality(A) \in Nat /\ Cardinality(B) \in Nat
         /\ Cardinality(Clients) \in Nat
         /\ Cardinality(A) <= Cardinality(B)
         /\ Cardinality(B) <= Cardinality(Clients)
         /\ A # B => Cardinality(A) + 1 <= Cardinality(B)
<1>1. IsFiniteSet(B) /\ Cardinality(B) <= Cardinality(Clients)
  BY LoopAssumption, FS_Subset
<1>2. /\ IsFiniteSet(A) /\ Cardinality(A) <= Cardinality(B)
      /\ Cardinality(B) = Cardinality(A) => A = B
  BY <1>1, FS_Subset
<1>3. /\ Cardinality(A) \in Nat /\ Cardinality(B) \in Nat
      /\ Cardinality(Clients) \in Nat
  BY <1>1, <1>2, LoopAssumption, FS_CardinalityType
<1>4. QED
  BY <1>1, <1>2, <1>3

\* The bound of AnsweredInTime, in rounds.
LEMMA BudgetBounds ==
  /\ Round \in Nat /\ Budget \in Nat /\ Total \in Nat /\ Budget <= Total
  /\ MaxAge + Round = Total + Slack + CaptureMax
<1> DEFINE n == Cardinality(Clients)
<1>1. Round \in Nat
  BY BoundTypes, LoopAssumption DEF Round
<1>2. /\ n \in Nat /\ n # 0 /\ Made \in Nat /\ Made <= 2 * n
  <2>1. n # 0
    BY LoopAssumption, FS_EmptySet
  <2>2. /\ Cardinality(Spent) \in Nat /\ Cardinality(Spent) <= n /\ n \in Nat
    BY Counts DEF Spent
  <2>3. Cardinality(Silent) \in Nat /\ Cardinality(Silent) <= n
    BY Counts DEF Silent
  <2>4. QED
    BY <2>1, <2>2, <2>3 DEF Made
<1>3. Budget \in Nat /\ Total \in Nat /\ Budget <= Total
  <2> HIDE DEF n
  <2>1. 2 * n \in Nat
    BY <1>2
  <2>2. QED
    BY <1>1, <1>2, <2>1, Products DEF Budget, Total, n
<1>4. MaxAge + Round = Total + Slack + CaptureMax
  <2> DEFINE k == 2 * n - 1
  <2>1. k \in Nat /\ k + 1 = 2 * n
    BY <1>2
  <2>2. MaxAge = k * Round + Slack + CaptureMax
    BY DEF MaxAge, Round
  <2> HIDE DEF k, n
  <2>3. (k + 1) * Round = k * Round + Round /\ k * Round \in Nat
    BY <1>1, <2>1, Products
  <2>4. Total = k * Round + Round
    BY <2>1, <2>3 DEF Total, n
  <2>5. QED
    BY <1>1, <2>2, <2>3, <2>4, LoopAssumption
<1>5. QED
  BY <1>1, <1>3, <1>4
\* What is left of the rounds is enough for the wait that is under way.
LEMMA AgeBound ==
  LoopInv /\ ServedInv /\ AgeInv => AnsweredInTime
<1> SUFFICES ASSUME LoopInv, ServedInv, AgeInv, NEW c \in Clients, Unserved(c)
             PROVE  age[c] <= MaxAge
  BY DEF AgeInv, AnsweredInTime
<1> loop = "capture" => late <= CaptureMax
  BY DEF AgeInv
<1> RoundInv(c)
  BY DEF AgeInv
<1>1. /\ age[c] \in Nat /\ late \in Nat /\ timer \in Nat
      /\ loop \in {"recv", "capture", "done"} /\ pending \in BOOLEAN
  BY BoundTypes DEF LoopInv, TypeOK
<1>2. mode = "Polling" /\ loop = "recv" => timer <= Round
  BY TimeoutBounds, BoundTypes, LoopAssumption, <1>1
  DEF LoopInv, TimerInv, Round
<1>3. loop = "recv" /\ ~pending => mode = "Polling"
  BY DEF ServedInv
<1>4. loop = "recv" => late <= Slack
  BY DEF LoopInv, TimerInv
<1>5. /\ Round \in Nat /\ Budget \in Nat /\ Total \in Nat /\ Budget <= Total
      /\ MaxAge + Round = Total + Slack + CaptureMax
      /\ Slack \in Nat /\ CaptureMax \in Nat /\ MaxAge \in Nat
  BY BudgetBounds, BoundTypes, LoopAssumption
<1>6. CASE loop = "recv" /\ ~pending
  BY <1>1, <1>2, <1>3, <1>5, <1>6 DEF RoundInv
<1>7. CASE loop = "recv" /\ pending
  BY <1>1, <1>2, <1>4, <1>5, <1>7 DEF RoundInv
<1>8. CASE loop # "recv"
  BY <1>1, <1>5, <1>8 DEF RoundInv
<1>9. QED
  BY <1>1, <1>6, <1>7, <1>8

\* A step that takes no request of a session back leaves the rounds as they are;
\* one that makes a request takes a round more.
LEMMA BudgetGrows ==
  ASSUME Spent \subseteq Spent', Silent \subseteq Silent'
  PROVE  /\ Budget \in Nat /\ Budget' \in Nat /\ Budget <= Budget'
         /\ Spent # Spent' \/ Silent # Silent' => Budget + Round <= Budget'
<1>1. Spent' \subseteq Clients /\ Silent' \subseteq Clients
  BY DEF Spent, Silent
<1> DEFINE a == Cardinality(Spent)
           b == Cardinality(Silent)
           x == Cardinality(Spent')
           y == Cardinality(Silent')
<1>2. /\ a \in Nat /\ b \in Nat /\ x \in Nat /\ y \in Nat /\ a <= x /\ b <= y
      /\ Spent # Spent' => a + 1 <= x
      /\ Silent # Silent' => b + 1 <= y
  BY <1>1, Counts
<1>3. Made = a + b /\ Made' = x + y
  BY DEF Made
<1> HIDE DEF a, b, x, y
<1>4. /\ Made \in Nat /\ Made' \in Nat /\ Made <= Made'
      /\ Spent # Spent' \/ Silent # Silent' => Made + 1 <= Made'
  BY <1>2, <1>3
<1>5. Round \in Nat /\ Budget = Made * Round /\ Budget' = Made' * Round
  BY BudgetBounds DEF Budget, Round, MaxTimeout
<1>6. /\ Made * Round \in Nat /\ Made' * Round \in Nat
      /\ Made * Round <= Made' * Round
      /\ (Made + 1) * Round = Made * Round + Round
  <2>1. Made' <= Made'
    BY <1>4
  <2>2. QED
    BY <1>4, <1>5, <2>1, Products
<1>7. ASSUME Made + 1 <= Made'
      PROVE  Made * Round + Round <= Made' * Round
  <2>1. (Made + 1) * Round <= Made' * Round
    <3>1. Made + 1 \in Nat
      BY <1>4
    <3>2. QED
      BY <1>4, <1>5, <1>7, <3>1, Products
  <2>2. QED
    BY <1>6, <2>1
<1>8. QED
  BY <1>4, <1>5, <1>6, <1>7

\* Initially no session waits.
LEMMA AgeInvInit == Init => AgeInv
  BY BoundTypes DEF Init, AgeInv, Unserved
\* The total has room for the requests of one session.
LEMMA OneClientsRounds == 2 * Round <= Total
<1>1. Cardinality(Clients) \in Nat /\ Cardinality(Clients) # 0
  BY LoopAssumption, FS_EmptySet, FS_CardinalityType
<1>2. 2 * Cardinality(Clients) \in Nat /\ 2 <= 2 * Cardinality(Clients)
  BY <1>1
<1>3. QED
  BY <1>2, BudgetBounds, Products DEF Total

\* A step that leaves the sessions alone keeps the budget.
LEMMA BudgetKept ==
  ASSUME UNCHANGED <<writer, unseen>>
  PROVE  Budget' = Budget /\ \A c \in Clients : Unserved(c)' <=> Unserved(c)
<1>1. Spent' = Spent /\ Silent' = Silent
  BY DEF Spent, Silent, Unserved
<1>2. QED
  BY <1>1 DEF Budget, Made, Round, MaxTimeout, Unserved

\* Time passes: every wait is as much longer as what bounds it.
LEMMA TickAge ==
  ASSUME LoopInv, ServedInv, AgeInv, Tick
  PROVE  AgeInv'
<1>1. /\ UNCHANGED <<loop, mode, pending, main, writer>> /\ loop # "done"
      /\ Budget' = Budget /\ \A c \in Clients : Unserved(c)' <=> Unserved(c)
  BY BudgetKept DEF Tick
<1>2. /\ late \in Nat /\ timer \in Nat /\ Budget \in Nat /\ Round \in Nat
      /\ Total \in Nat /\ MaxAge \in Nat /\ CaptureMax \in Nat /\ Slack \in Nat
      /\ loop \in {"recv", "capture", "done"} /\ pending \in BOOLEAN
      /\ \A c \in Clients : age[c] \in Nat
  BY BudgetBounds, BoundTypes, LoopAssumption DEF LoopInv, TypeOK
<1>3. /\ loop = "recv" => timer' = timer + 1
      /\ loop = "capture" \/ (loop = "recv" /\ pending) => late' = late + 1
      /\ loop = "capture" => late < CaptureMax
  BY <1>1, Zenon DEF Tick, Runnable
<1>4. ASSUME NEW c \in Clients
      PROVE  /\ Unserved(c) => age'[c] \in Nat /\ age'[c] <= age[c] + 1
             /\ ~Unserved(c) => age'[c] = 0
  <2>1. age'[c] = IF Unserved(c) THEN Smaller(age[c] + 1, MaxAge + 1) ELSE 0
    BY DEF Tick
  <2>2. QED
    BY <1>2, <2>1 DEF Smaller
<1>5. ASSUME NEW c \in Clients, Unserved(c) PROVE RoundInv(c)'
  <2>1. RoundInv(c)
    BY <1>5 DEF AgeInv
  <2>2. age'[c] \in Nat /\ age'[c] <= age[c] + 1 /\ age[c] \in Nat
    BY <1>2, <1>4, <1>5
  <2>3. Total' = Total /\ Round' = Round
    BY DEF Total, Round, MaxTimeout
  <2>4. CASE loop = "recv" /\ ~pending
    BY <1>1, <1>2, <1>3, <2>1, <2>2, <2>3, <2>4 DEF RoundInv
  <2>5. CASE loop = "recv" /\ pending
    BY <1>1, <1>2, <1>3, <2>1, <2>2, <2>3, <2>5 DEF RoundInv
  <2>6. CASE loop = "capture"
    BY <1>1, <1>2, <1>3, <2>1, <2>2, <2>3, <2>6 DEF RoundInv
  <2>7. QED
    BY <1>1, <1>2, <2>4, <2>5, <2>6
<1>6. loop' = "capture" => late' <= CaptureMax
  BY <1>1, <1>2, <1>3
<1>7. QED
  BY <1>1, <1>2, <1>4, <1>5, <1>6 DEF AgeInv, Connected

\* A request is received: the round of the wait that led to it ends.
LEMMA RecvRequestAge ==
  ASSUME LoopInv, ServedInv, AgeInv, RecvRequest
  PROVE  AgeInv'
<1>1. /\ loop = "recv" /\ pending /\ ~pending'
      /\ UNCHANGED <<main, writer, age>> /\ late' = 0 /\ timer' = 0
      /\ loop' \in {"recv", "capture"}
      /\ Budget' = Budget /\ \A c \in Clients : Unserved(c)' <=> Unserved(c)
  BY BudgetKept DEF RecvRequest, StartCapture, Wait
<1>2. /\ late \in Nat /\ timer \in Nat /\ Budget \in Nat /\ Round \in Nat
      /\ Total \in Nat /\ MaxAge \in Nat /\ CaptureMax \in Nat /\ Slack \in Nat
      /\ Budget <= Total /\ \A c \in Clients : age[c] \in Nat
  BY BudgetBounds, BoundTypes, LoopAssumption DEF LoopInv, TypeOK
<1>3. late <= Slack /\ (mode = "Polling" => timer <= Round)
  BY <1>1, <1>2, TimeoutBounds, BoundTypes DEF LoopInv, TimerInv, Round
<1>4. ASSUME NEW c \in Clients, Unserved(c) PROVE RoundInv(c)'
  <2>1. RoundInv(c) /\ age[c] \in Nat
    BY <1>2, <1>4 DEF AgeInv
  <2>2. age[c] + 2 * Round <= Budget + Slack
    BY <1>1, <1>2, <1>3, <2>1 DEF RoundInv
  <2>3. Total' = Total /\ Round' = Round
    BY DEF Total, Round, MaxTimeout
  <2>4. QED
    BY <1>1, <1>2, <2>1, <2>2, <2>3 DEF RoundInv
<1>5. QED
  BY <1>1, <1>2, <1>4 DEF AgeInv, Connected
\* A timer-driven capture starts, within what the wait may have taken; polling
\* only ends when nobody waits.
LEMMA PollTimeoutAge ==
  ASSUME Prompt, LoopInv, ServedInv, AgeInv, PollTimeout, ServedInv'
  PROVE  AgeInv'
<1>1. /\ loop = "recv" /\ ~pending /\ ~pending' /\ late' = 0
      /\ UNCHANGED <<main, writer, age>>
      /\ loop' = "capture" \/ (loop' = "recv" /\ mode' = "OnDemand")
      /\ Budget' = Budget /\ \A c \in Clients : Unserved(c)' <=> Unserved(c)
  BY BudgetKept DEF PollTimeout, TimedOut, StartCapture, Wait
<1>2. /\ timer \in Nat /\ Budget \in Nat /\ Round \in Nat
      /\ Total \in Nat /\ MaxAge \in Nat /\ CaptureMax \in Nat /\ Slack \in Nat
      /\ Budget <= Total /\ \A c \in Clients : age[c] \in Nat
  BY BudgetBounds, BoundTypes, LoopAssumption DEF LoopInv, TypeOK
<1>3. timer <= Round
  BY <1>1, <1>2, TimeoutBounds, BoundTypes, LoopAssumption
  DEF LoopInv, TimerInv, Round, PollTimeout, TypeOK
<1>4. ASSUME NEW c \in Clients, Unserved(c) PROVE RoundInv(c)'
  <2>1. loop' = "capture"
    BY <1>1, <1>4 DEF ServedInv
  <2>2. RoundInv(c) /\ age[c] \in Nat
    BY <1>2, <1>4 DEF AgeInv
  <2>3. age[c] + Round <= Total + Slack
    BY <1>1, <1>2, <1>3, <2>2 DEF RoundInv
  <2>4. Total' = Total /\ Round' = Round
    BY DEF Total, Round, MaxTimeout
  <2>5. QED
    BY <1>1, <1>2, <2>1, <2>2, <2>3, <2>4 DEF RoundInv
<1>5. QED
  BY <1>1, <1>2, <1>4 DEF AgeInv, Connected

\* A session asks: if it is unserved now, its own time begins, and the time of
\* the others has grown by a round.
LEMMA RequestAge ==
  ASSUME LoopInv, ServedInv, AgeInv, NEW r \in Clients, Request(r)
  PROVE  AgeInv'
<1>1. /\ UNCHANGED <<loop, mode, timer, late, main, unseen>>
      /\ writer' = [writer EXCEPT ![r] = "waiting"]
      /\ age' = [age EXCEPT ![r] = 0]
      /\ writer[r] = "idle" /\ (loop # "done" => pending')
  BY DEF Request, loopVars
<1>2. /\ late \in Nat /\ timer \in Nat /\ Budget \in Nat /\ Round \in Nat
      /\ Total \in Nat /\ MaxAge \in Nat /\ CaptureMax \in Nat /\ Slack \in Nat
      /\ loop \in {"recv", "capture", "done"} /\ pending \in BOOLEAN
      /\ writer \in [Clients -> {"new", "idle", "waiting", "gone"}]
      /\ age \in [Clients -> 0..(MaxAge + 1)]
  BY BudgetBounds, BoundTypes, LoopAssumption DEF LoopInv, TypeOK
<1>3. /\ writer'[r] = "waiting" /\ age'[r] = 0
      /\ \A c \in Clients : c # r => writer'[c] = writer[c] /\ age'[c] = age[c]
  BY <1>1, <1>2
<1>4. \A c \in Clients : c # r => (Unserved(c)' <=> Unserved(c))
  BY <1>1, <1>3 DEF Unserved
<1>5. /\ Spent \subseteq Spent' /\ Silent \subseteq Silent'
      /\ r \in Spent' \ Spent \/ r \in Silent' \ Silent
  BY <1>1, <1>3 DEF Spent, Silent, Unserved
<1>6. Budget' \in Nat /\ Budget + Round <= Budget'
  BY <1>5, BudgetGrows
<1>7. Total' = Total /\ Round' = Round
  BY DEF Total, Round, MaxTimeout
<1>8. ASSUME NEW c \in Clients, c # r, Unserved(c) PROVE RoundInv(c)'
  <2>1. RoundInv(c) /\ age'[c] = age[c] /\ age[c] \in Nat
    BY <1>2, <1>3, <1>8 DEF AgeInv
  <2>2. loop = "recv" /\ ~pending => mode = "Polling"
    BY <1>8 DEF ServedInv
  <2>3. CASE loop = "recv" /\ ~pending
    <3>1. age[c] + 2 * Round <= Budget + Slack + timer
      BY <2>1, <2>3 DEF RoundInv
    <3>2. age'[c] + 3 * Round <= Budget' + Slack + timer'
      BY <1>1, <1>2, <1>6, <2>1, <3>1
    <3>3. QED
      BY <1>1, <1>7, <2>2, <2>3, <3>2 DEF RoundInv
  <2>4. CASE loop = "recv" /\ pending
    <3>1. \/ age[c] + 2 * Round <= Budget + late
          \/ mode = "Polling" /\ age[c] + 3 * Round <= Budget + Slack + timer
      BY <2>1, <2>4 DEF RoundInv
    <3>2. \/ age'[c] + 2 * Round <= Budget' + late'
          \/ mode' = "Polling" /\ age'[c] + 3 * Round <= Budget' + Slack + timer'
      BY <1>1, <1>2, <1>6, <2>1, <3>1
    <3>3. QED
      BY <1>1, <1>7, <2>4, <3>2 DEF RoundInv
  <2>5. CASE loop # "recv"
    BY <1>1, <1>2, <1>7, <2>1, <2>5 DEF RoundInv
  <2>6. QED
    BY <1>2, <2>3, <2>4, <2>5
<1>9. ASSUME Unserved(r)' PROVE RoundInv(r)'
  <2>1. 2 * Round <= Budget'
    <3>1. {r} \subseteq Spent' /\ {r} \subseteq Silent' /\ Cardinality({r}) = 1
      BY <1>9, FS_Singleton DEF Spent, Silent, Unserved
    <3>2. Spent' \subseteq Clients /\ Silent' \subseteq Clients
      BY DEF Spent, Silent
    <3>3. /\ Cardinality(Spent') \in Nat /\ 1 <= Cardinality(Spent')
          /\ Cardinality(Silent') \in Nat /\ 1 <= Cardinality(Silent')
      BY <3>1, <3>2, Counts
    <3>4. Made' \in Nat /\ 2 <= Made' /\ 2 \in Nat
      BY <3>3 DEF Made
    <3>5. 2 * Round <= Made' * Round
      BY <1>2, <3>4, Products
    <3>6. QED
      BY <1>7, <3>5 DEF Budget
  <2>2. Round <= Total
    BY <1>2, OneClientsRounds
  <2>3. /\ age'[r] + 2 * Round <= Budget' + late'
        /\ age'[r] + Round <= Total + Slack + late'
    <3>1. /\ age'[r] = 0 /\ late' \in Nat /\ Slack \in Nat
          /\ Budget' \in Nat /\ Round \in Nat /\ Total \in Nat
      BY <1>1, <1>2, <1>3, <1>6
    <3>2. \A b, t, s, l, n \in Nat :
            2 * n <= b /\ n <= t =>
              0 + 2 * n <= b + l /\ 0 + n <= t + s + l
      OBVIOUS
    <3>3. QED
      BY <3>1, <3>2, <2>1, <2>2
  <2>4. ~(loop' = "recv" /\ ~pending') /\ age'[r] = 0
    BY <1>1, <1>3
  <2>5. QED
    BY <1>1, <1>7, <2>3, <2>4 DEF RoundInv
<1>10. ASSUME NEW c \in Clients, ~Unserved(c)', c # r PROVE age'[c] <= MaxAge
  BY <1>3, <1>4, <1>10 DEF AgeInv
<1>11. age'[r] <= MaxAge
  BY <1>2, <1>3
<1>12. /\ loop' = "capture" => late' <= CaptureMax
       /\ main' = "exited" => \A c \in Clients : ~Connected(c)'
  BY <1>1 DEF AgeInv, Connected
<1>13. \A c \in Clients : Unserved(c)' => RoundInv(c)'
  BY <1>4, <1>8, <1>9
<1>14. \A c \in Clients : ~Unserved(c)' => age'[c] <= MaxAge
  BY <1>10, <1>11
<1>15. MaxAge' = MaxAge
  BY DEF MaxAge, MaxTimeout
<1>16. QED
  BY <1>12, <1>13, <1>14, <1>15 DEF AgeInv

\* A step after which no more sessions are unserved than before, and none of them
\* has waited longer: requests can only have become fewer.
LEMMA OthersAge ==
  ASSUME LoopInv, ServedInv, AgeInv,
         UNCHANGED <<loop, mode, timer, late, pending>>,
         Spent \subseteq Spent', Silent \subseteq Silent',
         \A c \in Clients : Unserved(c)' => Unserved(c) /\ age'[c] = age[c],
         \A c \in Clients : age'[c] = age[c] \/ age'[c] = 0,
         main' = "exited" => \A c \in Clients : ~Connected(c)'
  PROVE  AgeInv'
<1>1. /\ late \in Nat /\ timer \in Nat /\ Budget \in Nat /\ Round \in Nat
      /\ Total \in Nat /\ MaxAge \in Nat /\ CaptureMax \in Nat /\ Slack \in Nat
      /\ \A c \in Clients : age[c] \in Nat
      /\ loop \in {"recv", "capture", "done"} /\ pending \in BOOLEAN
  BY BudgetBounds, BoundTypes, LoopAssumption DEF LoopInv, TypeOK
<1>2. Budget' \in Nat /\ Budget <= Budget' /\ Total' = Total /\ Round' = Round
  BY BudgetGrows DEF Total, Round, MaxTimeout
<1>3. ASSUME NEW c \in Clients, Unserved(c)' PROVE RoundInv(c)'
  <2>1. RoundInv(c) /\ age'[c] = age[c] /\ age[c] \in Nat
    BY <1>1, <1>3 DEF AgeInv
  <2>2. CASE loop = "recv" /\ ~pending
    BY <1>1, <1>2, <2>1, <2>2 DEF RoundInv
  <2>3. CASE loop = "recv" /\ pending
    BY <1>1, <1>2, <2>1, <2>3 DEF RoundInv
  <2>4. CASE loop # "recv"
    BY <1>1, <1>2, <2>1, <2>4 DEF RoundInv
  <2>5. QED
    BY <1>1, <2>2, <2>3, <2>4
<1>4. \A c \in Clients : age'[c] <= MaxAge
  BY <1>1, AgeBound DEF AnsweredInTime
<1>5. (loop' = "capture" => late' <= CaptureMax) /\ MaxAge' = MaxAge
  BY DEF AgeInv, MaxAge, MaxTimeout
<1>6. QED
  BY <1>3, <1>4, <1>5 DEF AgeInv
\* A step after which nobody is unserved.
LEMMA NobodyWaits ==
  ASSUME LoopInv, ServedInv, AgeInv,
         \A c \in Clients : ~Unserved(c)',
         age' = age,
         loop' # "capture" \/ UNCHANGED <<loop, late>>,
         main' = "exited" => \A c \in Clients : ~Connected(c)'
  PROVE  AgeInv'
<1>1. \A c \in Clients : age'[c] <= MaxAge
  BY AgeBound DEF AnsweredInTime
<1>2. (loop' = "capture" => late' <= CaptureMax) /\ MaxAge' = MaxAge
  BY DEF AgeInv, MaxAge, MaxTimeout
<1>3. QED
  BY <1>1, <1>2 DEF AgeInv

\* Every step keeps every session within its rounds.
LEMMA AgeInvNext ==
  ASSUME Prompt
  PROVE  LoopInv /\ ServedInv /\ AgeInv /\ [Next]_vars => AgeInv'
<1> SUFFICES ASSUME LoopInv, ServedInv, AgeInv, [Next]_vars PROVE AgeInv'
  OBVIOUS
<1>1. main = "exited" => \A c \in Clients : ~Connected(c)
  BY DEF AgeInv
<1>2. ServedInv'
  BY ServedInvNext
<1>3. writer \in [Clients -> {"new", "idle", "waiting", "gone"}]
      /\ unseen \in [Clients -> BOOLEAN] /\ age \in [Clients -> 0..(MaxAge + 1)]
  BY DEF LoopInv, TypeOK
<1>4. ASSUME OnDemandTimeout PROVE AgeInv'
  <2>1. /\ UNCHANGED <<main, writer, unseen, age>> /\ loop' # "capture"
        /\ loop = "recv" /\ ~pending /\ mode = "OnDemand"
    BY <1>4 DEF OnDemandTimeout, TimedOut
  <2>2. \A c \in Clients : ~Unserved(c)'
    BY <2>1 DEF ServedInv, Unserved
  <2>3. QED
    BY <1>1, <2>1, <2>2, NobodyWaits DEF Connected
<1>5. ASSUME Disconnected PROVE AgeInv'
  <2>1. /\ UNCHANGED <<main, writer, unseen, age>> /\ loop' # "capture"
        /\ main = "exited"
    BY <1>5 DEF Disconnected
  <2>2. \A c \in Clients : ~Unserved(c)' /\ ~Connected(c)'
    BY <1>1, <2>1 DEF Unserved, Connected
  <2>3. QED
    BY <2>1, <2>2, NobodyWaits
<1>6. ASSUME EndCapture PROVE AgeInv'
  <2>1. /\ UNCHANGED <<main, writer, age>> /\ loop' # "capture"
        /\ unseen' = [c \in Clients |-> TRUE]
    BY <1>6 DEF EndCapture, Wait, Prompt
  <2>2. \A c \in Clients : ~Unserved(c)'
    BY <2>1 DEF Unserved
  <2>3. QED
    BY <1>1, <2>1, <2>2, NobodyWaits DEF Connected
<1>7. ASSUME NEW r \in Clients, Answer(r) PROVE AgeInv'
  <2>1. /\ UNCHANGED <<loop, mode, timer, late, pending, main>>
        /\ writer[r] = "waiting" /\ writer'[r] \in {"idle", "gone"}
        /\ unseen[r] => writer'[r] = "idle"
        /\ ~unseen[r] => writer'[r] = "gone"
        /\ ~unseen'[r] /\ age'[r] = 0
        /\ \A c \in Clients : c # r => /\ writer'[c] = writer[c]
                                     /\ unseen'[c] = unseen[c]
                                     /\ age'[c] = age[c]
    BY <1>3, <1>7 DEF Answer, loopVars
  <2>2. Spent \subseteq Spent' /\ Silent \subseteq Silent'
    BY <2>1 DEF Spent, Silent, Unserved
  <2>3. \A c \in Clients : Unserved(c)' => Unserved(c) /\ age'[c] = age[c]
    BY <2>1 DEF Unserved
  <2>4. \A c \in Clients : Connected(c)' => Connected(c)
    BY <2>1 DEF Connected
  <2>5. QED
    BY <1>1, <2>1, <2>2, <2>3, <2>4, OthersAge
<1>8. ASSUME NEW r \in Clients, Disconnect(r) PROVE AgeInv'
  <2>1. /\ UNCHANGED <<loop, mode, timer, late, pending, main, unseen>>
        /\ writer'[r] = "gone" /\ age'[r] = 0
        /\ \A c \in Clients : c # r => /\ writer'[c] = writer[c]
                                     /\ age'[c] = age[c]
    BY <1>3, <1>8 DEF Disconnect, loopVars
  <2>2. Spent \subseteq Spent' /\ Silent \subseteq Silent'
    BY <2>1 DEF Spent, Silent, Unserved
  <2>3. \A c \in Clients : Unserved(c)' => Unserved(c) /\ age'[c] = age[c]
    BY <2>1 DEF Unserved
  <2>4. \A c \in Clients : Connected(c)' => Connected(c)
    BY <2>1 DEF Connected
  <2>5. QED
    BY <1>1, <2>1, <2>2, <2>3, <2>4, OthersAge
<1>9. ASSUME NEW r \in Clients, Connect(r) PROVE AgeInv'
  <2>1. /\ UNCHANGED <<loop, mode, timer, late, pending, main, unseen, age>>
        /\ writer[r] = "new" /\ writer'[r] = "idle" /\ main = "run"
        /\ \A c \in Clients : c # r => writer'[c] = writer[c]
    BY <1>3, <1>9 DEF Connect, loopVars
  <2>2. Spent \subseteq Spent' /\ Silent \subseteq Silent'
    BY <2>1 DEF Spent, Silent, Unserved
  <2>3. \A c \in Clients : Unserved(c)' => Unserved(c) /\ age'[c] = age[c]
    BY <2>1 DEF Unserved
  <2>4. QED
    BY <2>1, <2>2, <2>3, OthersAge
<1>10. ASSUME CtrlC \/ Terminated \/ UNCHANGED vars PROVE AgeInv'
  <2>1. /\ UNCHANGED <<loop, mode, timer, late, pending, writer, unseen, age>>
        /\ main' = main \/ main' = "stopping"
    BY <1>10 DEF CtrlC, Terminated, vars, loopVars
  <2>2. Spent \subseteq Spent' /\ Silent \subseteq Silent'
    BY <2>1 DEF Spent, Silent, Unserved
  <2>3. \A c \in Clients : Unserved(c)' => Unserved(c) /\ age'[c] = age[c]
    BY <2>1 DEF Unserved
  <2>4. \A c \in Clients : Connected(c)' => Connected(c)
    BY <2>1 DEF Connected
  <2>5. QED
    BY <1>1, <2>1, <2>2, <2>3, <2>4, OthersAge
<1>11. ASSUME MainExits PROVE AgeInv'
  <2>1. /\ UNCHANGED <<loop, mode, timer, late, pending, unseen>>
        /\ writer' = [c \in Clients |-> "gone"] /\ age' = [c \in Clients |-> 0]
    BY <1>11 DEF MainExits, loopVars
  <2>2. Spent \subseteq Spent' /\ Silent \subseteq Silent'
    BY <2>1 DEF Spent, Silent, Unserved
  <2>3. \A c \in Clients : ~Unserved(c)' /\ ~Connected(c)' /\ age'[c] = 0
    BY <2>1 DEF Unserved, Connected
  <2>4. QED
    BY <2>1, <2>2, <2>3, OthersAge
<1>12. QED
  BY <1>2, <1>4, <1>5, <1>6, <1>7, <1>8, <1>9, <1>10, <1>11, TickAge,
     RecvRequestAge, PollTimeoutAge, RequestAge
  DEF Next, LoopStep

\* Every request is answered within MaxAge, for any number of sessions, any
\* durations and any interleaving of requests, old notifications, viewers that
\* come and go and the scheduler's delays: other sessions' requests restart the
\* timer of recv_timeout, but each of them only twice before it fires.
THEOREM EverybodyIsAnsweredInTime ==
  ASSUME Prompt
  PROVE  Spec => []AnsweredInTime
BY LoopInvInit, LoopInvNext, ServedInvInit, ServedInvNext, AgeInvInit,
   AgeInvNext, AgeBound, PTL
DEF Spec
=============================================================================
