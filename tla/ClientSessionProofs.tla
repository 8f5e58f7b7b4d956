------------------------- MODULE ClientSessionProofs -------------------------
(***************************************************************************)
(* Theorems about ClientSession, for every number of connections and every *)
(* capacity.                                                               *)
(***************************************************************************)
EXTENDS ClientSession, SequenceTheorems, WellFoundedInduction, TLAPS

\* Past the password, the viewer has proved to know it and, under 3.8, been
\* told so; who was told the opposite is refused.
PassedInv ==
  \A c \in Clients :
    /\ stage[c] \in {"init", "served"} /\ Password => proved[c]
    /\ told[c] = "failed" => stage[c] = "refused"
    /\ stage[c] \in {"init", "served"} /\ version[c] = "3.8" => told[c] = "ok"

HandshakeInv == HandshakeTypeOK /\ PassedInv

\* Initially every connection is before its version.
LEMMA HandshakeInvInit == Init => HandshakeInv
  BY DEF Init, HandshakeInit, HandshakeInv, HandshakeTypeOK, PassedInv, Stages

\* Every step of the handshake keeps the invariant; no other step touches it.
LEMMA HandshakeInvNext == HandshakeInv /\ [Next]_vars => HandshakeInv'
<1> SUFFICES ASSUME HandshakeInv, [Next]_vars PROVE HandshakeInv'
  OBVIOUS
<1> USE HandshakeAssumption DEF HandshakeInv, HandshakeTypeOK, PassedInv, Stages
<1>1. ASSUME NEW c \in Clients, ReadVersion(c) PROVE HandshakeInv'
  BY <1>1 DEF ReadVersion
<1>2. ASSUME NEW c \in Clients, ReadType(c) PROVE HandshakeInv'
  BY <1>2 DEF ReadType
<1>3. ASSUME NEW c \in Clients, ReadResponse(c) PROVE HandshakeInv'
  BY <1>3 DEF ReadResponse, Admits
<1>4. ASSUME NEW c \in Clients, ReadClientInit(c) PROVE HandshakeInv'
  BY <1>4 DEF ReadClientInit
<1>5. ASSUME NEW c \in Clients, HandshakeFails(c) PROVE HandshakeInv'
  BY <1>5 DEF HandshakeFails
<1>6. CASE UNCHANGED handshake
  BY <1>6 DEF handshake
<1>7. ASSUME NEW c \in Clients,
             ReaderStep(c) \/ WriterStep(c) \/ Return(c) \/ ViewerStep(c)
      PROVE  UNCHANGED handshake
  BY <1>7
  DEF ReaderStep, WriterStep, ViewerStep, Read, HandRequest, HandEvent,
      ReadFails, TakeRequest, FrameArrives, NoMoreFrames, Compose, Write,
      WriteFails, Return, ViewerSends, ViewerReads, ViewerCloses
<1>8. ASSUME Notify \/ CaptureThreadEnds \/ Inject PROVE UNCHANGED handshake
  BY <1>8 DEF Notify, CaptureThreadEnds, Inject
<1>9. CASE UNCHANGED vars
  BY <1>6, <1>9 DEF vars
<1>10. QED
  BY <1>1, <1>2, <1>3, <1>4, <1>5, <1>6, <1>7, <1>8, <1>9
  DEF Next, HandshakeStep, HandshakeBroken, Serve

\* With a password set, whichever version of the protocol a viewer speaks, it
\* is served only after it proved to know the password, and was never told the
\* opposite of what became of it.
THEOREM PasswordIsRequired == Spec => []OnlyProvedViewers
<1>1. HandshakeInv => OnlyProvedViewers
  BY DEF HandshakeInv, PassedInv, OnlyProvedViewers
<1>2. QED
  BY HandshakeInvInit, HandshakeInvNext, <1>1, PTL DEF Spec

-----------------------------------------------------------------------------
(* What a socket carries: messages with the numbers of the formats. *)

\* Every message but an event has the number of a format.
Numbered(m) == m[1] # "event"

\* The numbers on the way never fall ...
Ordered(s) ==
  \A i, j \in DOMAIN s :
    i < j /\ Numbered(s[i]) /\ Numbered(s[j]) => s[i][2] <= s[j][2]

\* ... lie between the format the server has and the one the viewer chose ...
Between(s, low, high) ==
  \A i \in DOMAIN s : Numbered(s[i]) => low <= s[i][2] /\ s[i][2] <= high

\* ... and a request is preceded by the format it was sent under, or the server
\* has that format already.
Sourced(s, f) ==
  \A i \in DOMAIN s : IsRequest(s[i]) =>
    s[i][2] = f \/ \E j \in DOMAIN s : j < i /\ s[j] = <<"format", s[i][2]>>

\* The format the viewer chose is the server's or on its way.
Announced(s, f, latest) ==
  latest = f \/ \E j \in DOMAIN s : s[j] = <<"format", latest>>

Carries(s, f, latest) ==
  Ordered(s) /\ Between(s, f, latest) /\ Sourced(s, f)

\* The parts of a message.
LEMMA MessageParts ==
  ASSUME NEW m \in Messages
  PROVE  /\ m = <<m[1], m[2]>> /\ m[2] \in Nat
         /\ Numbered(m) => m[2] \in 0..MaxFormat
         /\ m[1] = "event" => m[2] \in 1..MaxEvents
         /\ IsRequest(m) => Numbered(m)
  BY SessionAssumption DEF Messages, Numbered, IsRequest

\* Taking the first message: a request has the number of the server's format,
\* and a format is no older than the server's.
LEMMA TailCarries ==
  ASSUME NEW s \in Seq(Messages), s # <<>>, NEW f \in Nat, NEW latest \in Nat,
         f <= latest, Carries(s, f, latest)
  PROVE  LET m == Head(s)
             g == IF m[1] = "format" THEN m[2] ELSE f
         IN  /\ m \in Messages /\ Tail(s) \in Seq(Messages)
             /\ g \in Nat /\ f <= g /\ g <= latest
             /\ IsRequest(m) => m[2] = f
             /\ Carries(Tail(s), g, latest)
             /\ Announced(s, f, latest) => Announced(Tail(s), g, latest)
<1> DEFINE m == Head(s)
           g == IF m[1] = "format" THEN m[2] ELSE f
           t == Tail(s)
<1>1. /\ m \in Messages /\ t \in Seq(Messages) /\ m = s[1] /\ 1 \in DOMAIN s
      /\ \A i \in DOMAIN t : i \in Nat \ {0} /\ i + 1 \in DOMAIN s /\ t[i] = s[i + 1]
      /\ \A i \in DOMAIN s : i = 1 \/ (i - 1 \in DOMAIN t /\ s[i] = t[i - 1])
      /\ \A i \in DOMAIN s : i \in Nat \ {0} /\ s[i] \in Messages
  OBVIOUS
<1>2. \A i \in DOMAIN s : s[i][2] \in Nat
  BY <1>1, MessageParts
<1> HIDE DEF t, m
<1>3. /\ m[1] = "format" => Numbered(m)
      /\ g \in Nat /\ f <= g /\ g <= latest
  BY <1>1, <1>2 DEF Numbered, Carries, Between
<1>4. IsRequest(m) => m[2] = f
  <2>1. ~\E j \in DOMAIN s : j < 1
    BY <1>1
  <2>2. QED
    BY <1>1, <2>1 DEF Carries, Sourced
<1>5. Ordered(t)
  <2> SUFFICES ASSUME NEW i \in DOMAIN t, NEW j \in DOMAIN t, i < j,
                      Numbered(t[i]), Numbered(t[j])
               PROVE  t[i][2] <= t[j][2]
    BY DEF Ordered
  <2>1. i + 1 < j + 1
    BY <1>1
  <2>2. /\ i + 1 \in DOMAIN s /\ t[i] = s[i + 1]
        /\ j + 1 \in DOMAIN s /\ t[j] = s[j + 1]
    BY <1>1
  <2>3. Ordered(s)
    BY DEF Carries
  <2> HIDE DEF g
  <2>4. QED
    BY <2>1, <2>2, <2>3 DEF Ordered
<1>6. Between(t, g, latest)
  <2> SUFFICES ASSUME NEW i \in DOMAIN t, Numbered(t[i])
               PROVE  g <= t[i][2] /\ t[i][2] <= latest
    BY DEF Between
  <2>1. f <= t[i][2] /\ t[i][2] <= latest
    BY <1>1 DEF Carries, Between
  <2>2. m[1] = "format" => m[2] <= t[i][2]
    <3>1. 1 < i + 1
      BY <1>1
    <3>2. \A j \in DOMAIN s : 1 < j /\ Numbered(s[1]) /\ Numbered(s[j])
                              => s[1][2] <= s[j][2]
      BY <1>1 DEF Carries, Ordered
    <3>3. i + 1 \in DOMAIN s /\ t[i] = s[i + 1] /\ m = s[1]
      BY <1>1
    <3>4. QED
      BY <1>3, <3>1, <3>2, <3>3
  <2>3. QED
    BY <2>1, <2>2
<1>7. Sourced(t, g)
  <2> SUFFICES ASSUME NEW i \in DOMAIN t, IsRequest(t[i]), t[i][2] # g
               PROVE  \E j \in DOMAIN t : j < i /\ t[j] = <<"format", t[i][2]>>
    BY DEF Sourced
  <2>1. Numbered(t[i]) /\ t[i][2] \in Nat
    BY <1>1, MessageParts
  <2>2. t[i][2] # f
    BY <1>2, <1>3, <1>6, <2>1 DEF Between
  <2>3. PICK j \in DOMAIN s : j < i + 1 /\ s[j] = <<"format", t[i][2]>>
    BY <1>1, <2>2 DEF Carries, Sourced
  <2>4. j # 1
    BY <1>1, <2>3
  <2>5. /\ j \in Nat /\ i \in Nat /\ j - 1 < i
        /\ j - 1 \in DOMAIN t /\ t[j - 1] = s[j]
    <3>1. j - 1 \in DOMAIN t /\ s[j] = t[j - 1]
      BY <1>1, <2>4
    <3>2. j \in Nat /\ i \in Nat
      BY <1>1
    <3>3. QED
      BY <2>3, <3>1, <3>2
  <2>6. QED
    BY <2>3, <2>5
<1>8. ASSUME Announced(s, f, latest) PROVE Announced(t, g, latest)
  <2>1. CASE latest = f
    BY <1>3, <2>1 DEF Announced
  <2>2. ASSUME NEW j \in DOMAIN s, s[j] = <<"format", latest>>
        PROVE  Announced(t, g, latest)
    <3>1. CASE j = 1
      BY <1>1, <2>2, <3>1 DEF Announced
    <3>2. CASE j # 1
      BY <1>1, <2>2, <3>2 DEF Announced
    <3>3. QED
      BY <3>1, <3>2
  <2>3. QED
    BY <1>8, <2>1, <2>2 DEF Announced
<1>9. QED
  BY <1>1, <1>3, <1>4, <1>5, <1>6, <1>7, <1>8 DEF Carries, m, t

\* Sending a message: an event, a request under the latest format or another
\* message that names it, or a newer format.
LEMMA AppendCarries ==
  ASSUME NEW s \in Seq(Messages), NEW f \in Nat, NEW latest \in Nat,
         f <= latest, Carries(s, f, latest), Announced(s, f, latest),
         NEW m \in Messages, NEW next \in Nat, latest <= next,
         Numbered(m) => m[2] = next,
         next = latest \/ m[1] = "format"
  PROVE  LET t == Append(s, m)
         IN  t \in Seq(Messages) /\ Carries(t, f, next) /\ Announced(t, f, next)
<1> DEFINE t == Append(s, m)
           n == Len(s) + 1
<1>1. /\ t \in Seq(Messages) /\ DOMAIN t = 1..n /\ DOMAIN s = 1..n - 1 /\ n \in Nat
      /\ t[n] = m /\ n \in DOMAIN t
      /\ \A i \in DOMAIN s : i \in DOMAIN t /\ t[i] = s[i] /\ i < n
      /\ \A i \in DOMAIN t : i = n \/ i \in DOMAIN s
      /\ \A i \in DOMAIN t : t[i] \in Messages
  OBVIOUS
<1> HIDE DEF t, n
<1>2. \A i \in DOMAIN t : t[i][2] \in Nat
  BY <1>1, MessageParts
<1>3. Between(t, f, next)
  BY <1>1, <1>2 DEF Carries, Between
<1>4. Ordered(t)
  <2> SUFFICES ASSUME NEW i \in DOMAIN t, NEW j \in DOMAIN t, i < j,
                      Numbered(t[i]), Numbered(t[j])
               PROVE  t[i][2] <= t[j][2]
    BY DEF Ordered
  <2>1. i \in DOMAIN s
    BY <1>1
  <2>2. CASE j \in DOMAIN s
    BY <1>1, <2>1, <2>2 DEF Carries, Ordered
  <2>3. CASE j = n
    BY <1>1, <1>3, <2>3 DEF Between
  <2>4. QED
    BY <1>1, <2>2, <2>3
<1>5. Announced(t, f, next)
  <2>1. m = <<m[1], m[2]>> /\ (m[1] = "format" => Numbered(m))
    BY MessageParts DEF Numbered
  <2>2. CASE m[1] = "format"
    BY <1>1, <2>1, <2>2 DEF Announced
  <2>3. CASE next = latest
    BY <1>1, <2>3 DEF Announced
  <2>4. QED
    BY <2>2, <2>3
<1>6. Sourced(t, f)
  <2> SUFFICES ASSUME NEW i \in DOMAIN t, IsRequest(t[i])
               PROVE  t[i][2] = f \/ \E j \in DOMAIN t :
                                       j < i /\ t[j] = <<"format", t[i][2]>>
    BY DEF Sourced
  <2>1. CASE i \in DOMAIN s
    BY <1>1, <2>1 DEF Carries, Sourced
  <2>2. CASE i = n
    <3>1. m[1] # "format" /\ m[2] = latest
      BY <1>1, <2>2, MessageParts DEF IsRequest
    <3>2. QED
      BY <1>1, <2>2, <3>1 DEF Announced
  <2>3. QED
    BY <1>1, <2>1, <2>2
<1>7. QED
  BY <1>1, <1>3, <1>4, <1>5, <1>6 DEF Carries, t

-----------------------------------------------------------------------------
(* A session's formats. *)

\* The types of what formats are handed through.
FormatTypes ==
  /\ open \in [Clients -> BOOLEAN]
  /\ up \in [Clients -> Seq(Messages)]
  /\ msg \in [Clients -> Messages \cup {NoMsg}]
  /\ queue \in [Clients -> Seq(Messages)]
  /\ writer \in [Clients -> {"recv", "await", "compose", "write", "off"}]
  /\ format \in [Clients -> Nat] /\ chosen \in [Clients -> Nat]
  /\ using \in [Clients -> Nat] /\ wanted \in [Clients -> Nat]
  /\ sent \in [Clients -> Nat]

\* A session's queued requests are in the order of their formats.
Queued(c) ==
  /\ \A i \in DOMAIN queue[c] :
       IsRequest(queue[c][i]) /\ queue[c][i][2] <= format[c]
  /\ \A i, j \in DOMAIN queue[c] : i <= j => queue[c][i][2] <= queue[c][j][2]
  /\ IsRequest(msg[c]) =>
       /\ msg[c][2] <= format[c]
       /\ \A i \in DOMAIN queue[c] : queue[c][i][2] <= msg[c][2]

\* The formats of one session, from the viewer to the update.
FormatInv(c) ==
  /\ format[c] <= chosen[c] /\ chosen[c] <= MaxFormat /\ sent[c] <= MaxEvents
  /\ Carries(up[c], format[c], chosen[c])
  /\ open[c] => Announced(up[c], format[c], chosen[c])
  /\ Queued(c)
  /\ wanted[c] <= format[c]
  /\ writer[c] = "write" => wanted[c] <= using[c]

FormatsInv == FormatTypes /\ \A c \in Clients : FormatInv(c)

\* Initially nothing is on its way.
LEMMA FormatsInvInit == Init => FormatsInv
<1> SUFFICES ASSUME Init PROVE FormatsInv
  OBVIOUS
<1> USE SessionAssumption DEF Init
<1>1. <<>> \in Seq(Messages) /\ DOMAIN <<>> = {}
  OBVIOUS
<1>2. FormatTypes
  BY <1>1 DEF FormatTypes
<1>3. ~IsRequest(NoMsg)
  BY DEF IsRequest, NoMsg
<1>4. ASSUME NEW c \in Clients PROVE FormatInv(c)
  BY <1>1, <1>3
  DEF FormatInv, Carries, Ordered, Between, Sourced, Announced, Queued
<1>5. QED
  BY <1>2, <1>4 DEF FormatsInv

\* A step that leaves what a session's formats depend on keeps its invariant.
LEMMA OthersKeepFormats ==
  ASSUME NEW c \in Clients, FormatInv(c),
         /\ open'[c] = open[c] /\ up'[c] = up[c] /\ msg'[c] = msg[c]
         /\ queue'[c] = queue[c] /\ writer'[c] = writer[c]
         /\ format'[c] = format[c] /\ chosen'[c] = chosen[c]
         /\ using'[c] = using[c] /\ wanted'[c] = wanted[c] /\ sent'[c] = sent[c]
  PROVE  FormatInv(c)'
  BY DEF FormatInv, Queued

\* A counter of one session is kept or incremented.
LEMMA Counted ==
  ASSUME NEW f \in [Clients -> Nat], NEW c \in Clients, NEW g,
         g = f \/ g = [f EXCEPT ![c] = f[c] + 1]
  PROVE  g \in [Clients -> Nat] /\ \A d \in Clients : d # c => g[d] = f[d]
<1>1. CASE g = f
  BY <1>1
<1>2. CASE g = [f EXCEPT ![c] = f[c] + 1]
  <2>1. f[c] + 1 \in Nat
    OBVIOUS
  <2>2. QED
    BY <1>2, <2>1
<1>3. QED
  BY <1>1, <1>2

\* The viewer sends a message.
LEMMA ViewerSendsFormats ==
  ASSUME FormatsInv, NEW c \in Clients, ViewerSends(c)
  PROVE  FormatsInv'
<1> USE SessionAssumption DEF FormatsInv, FormatTypes
<1>a. /\ chosen[c] \in Nat /\ sent[c] \in Nat /\ chosen[c] <= chosen[c]
      /\ chosen[c] <= MaxFormat /\ sent[c] <= MaxEvents
  BY DEF FormatInv
<1>1. PICK m : /\ up' = [up EXCEPT ![c] = Append(up[c], m)]
               /\ m \in Messages
               /\ Numbered(m) => m[2] = chosen'[c]
               /\ (chosen'[c] = chosen[c] \/ m[1] = "format")
               /\ chosen'[c] \in Nat /\ chosen[c] <= chosen'[c]
               /\ chosen'[c] <= MaxFormat /\ sent'[c] <= MaxEvents
  <2>1. CASE /\ \E kind \in {"inc", "full", "bad"} :
                   up' = [up EXCEPT ![c] = Append(@, <<kind, chosen[c]>>)]
             /\ UNCHANGED <<sent, chosen>>
    <3>1. PICK kind \in {"inc", "full", "bad"} :
            up' = [up EXCEPT ![c] = Append(@, <<kind, chosen[c]>>)]
      BY <2>1
    <3>2. <<kind, chosen[c]>> \in Messages
      BY DEF Messages, FormatInv
    <3> DEFINE m == <<kind, chosen[c]>>
    <3>3. /\ up' = [up EXCEPT ![c] = Append(up[c], m)]
          /\ m[2] = chosen'[c] /\ chosen'[c] = chosen[c]
          /\ chosen'[c] <= MaxFormat /\ sent'[c] <= MaxEvents
      BY <2>1, <3>1 DEF FormatInv
    <3>4. m \in Messages
      BY <3>2
    <3> HIDE DEF m
    <3>5. QED
      BY <1>a, <3>3, <3>4
  <2>2. CASE /\ sent[c] < MaxEvents
             /\ sent' = [sent EXCEPT ![c] = @ + 1] /\ chosen' = chosen
             /\ up' = [up EXCEPT ![c] = Append(@, <<"event", sent'[c]>>)]
    <3>1. <<"event", sent'[c]>> \in Messages
      <4>1. sent'[c] = sent[c] + 1
        BY <2>2
      <4> HIDE DEF FormatsInv, FormatTypes
      <4>2. sent'[c] \in 1..MaxEvents
        BY <1>a, <2>2, <4>1
      <4>3. QED
        BY <4>2 DEF Messages
    <3>2. ~Numbered(<<"event", sent'[c]>>)
      BY DEF Numbered
    <3> DEFINE m == <<"event", sent'[c]>>
    <3>3. /\ up' = [up EXCEPT ![c] = Append(up[c], m)]
          /\ chosen'[c] = chosen[c]
          /\ chosen'[c] <= MaxFormat /\ sent'[c] <= MaxEvents
      BY <2>2 DEF FormatInv
    <3>4. m \in Messages /\ ~Numbered(m)
      BY <3>1, <3>2
    <3> HIDE DEF m
    <3>5. QED
      BY <1>a, <3>3, <3>4
  <2>3. CASE /\ chosen[c] < MaxFormat
             /\ chosen' = [chosen EXCEPT ![c] = @ + 1] /\ sent' = sent
             /\ up' = [up EXCEPT ![c] = Append(@, <<"format", chosen'[c]>>)]
    <3>1. <<"format", chosen'[c]>> \in Messages
      <4>1. chosen'[c] = chosen[c] + 1
        BY <2>3
      <4> HIDE DEF FormatsInv, FormatTypes
      <4>2. chosen'[c] \in 0..MaxFormat
        BY <1>a, <2>3, <4>1
      <4>3. QED
        BY <4>2 DEF Messages
    <3> DEFINE m == <<"format", chosen'[c]>>
    <3>2. /\ up' = [up EXCEPT ![c] = Append(up[c], m)]
          /\ m[1] = "format" /\ m[2] = chosen'[c]
          /\ chosen'[c] \in Nat /\ chosen[c] <= chosen'[c]
          /\ chosen'[c] <= MaxFormat /\ sent'[c] <= MaxEvents
      <4>1. chosen'[c] = chosen[c] + 1 /\ sent'[c] = sent[c]
        BY <2>3
      <4> HIDE DEF FormatsInv, FormatTypes
      <4>2. QED
        BY <1>a, <2>3, <4>1
    <3> HIDE DEF m
    <3>3. QED
      BY <3>1, <3>2 DEF m
  <2>4. QED
    BY <2>1, <2>2, <2>3 DEF ViewerSends
<1>2. /\ UNCHANGED <<open, msg, queue, writer, format, using, wanted>>
      /\ open[c]
      /\ chosen' \in [Clients -> Nat] /\ sent' \in [Clients -> Nat]
      /\ \A d \in Clients : d # c => chosen'[d] = chosen[d] /\ sent'[d] = sent[d]
  <2>1. /\ UNCHANGED <<open, msg, queue, writer, format, using, wanted>>
        /\ open[c]
    BY DEF ViewerSends, tasks
  <2>2. /\ chosen' = chosen \/ chosen' = [chosen EXCEPT ![c] = chosen[c] + 1]
        /\ sent' = sent \/ sent' = [sent EXCEPT ![c] = sent[c] + 1]
    BY DEF ViewerSends
  <2>3. /\ chosen' \in [Clients -> Nat]
        /\ \A d \in Clients : d # c => chosen'[d] = chosen[d]
    <3>1. chosen \in [Clients -> Nat]
      OBVIOUS
    <3> HIDE DEF FormatsInv, FormatTypes
    <3>2. QED
      BY <2>2, <3>1, Counted
  <2>4. /\ sent' \in [Clients -> Nat]
        /\ \A d \in Clients : d # c => sent'[d] = sent[d]
    <3>1. sent \in [Clients -> Nat]
      OBVIOUS
    <3> HIDE DEF FormatsInv, FormatTypes
    <3>2. QED
      BY <2>2, <3>1, Counted
  <2>5. QED
    BY <2>1, <2>3, <2>4
<1>3. /\ Append(up[c], m) \in Seq(Messages)
      /\ Carries(Append(up[c], m), format[c], chosen'[c])
      /\ Announced(Append(up[c], m), format[c], chosen'[c])
  BY <1>1, <1>2, AppendCarries DEF FormatInv
<1>4. FormatTypes'
  BY <1>1, <1>2, <1>3
<1>5. FormatInv(c)'
  <2>1. /\ up'[c] = Append(up[c], m)
        /\ format[c] <= chosen'[c] /\ chosen'[c] <= MaxFormat
        /\ sent'[c] <= MaxEvents
    <3>1. up'[c] = Append(up[c], m) /\ chosen'[c] <= MaxFormat /\ sent'[c] <= MaxEvents
      BY <1>1
    <3>2. format[c] <= chosen[c] /\ chosen[c] <= chosen'[c]
      BY <1>1 DEF FormatInv
    <3>3. format[c] \in Nat /\ chosen'[c] \in Nat
      BY <1>1
    <3> HIDE DEF FormatsInv, FormatTypes
    <3>4. QED
      BY <1>a, <3>1, <3>2, <3>3
  <2>2. /\ queue'[c] = queue[c] /\ msg'[c] = msg[c] /\ format'[c] = format[c]
        /\ wanted'[c] = wanted[c] /\ using'[c] = using[c] /\ writer'[c] = writer[c]
    BY <1>2
  <2>3. Queued(c)'
    BY <2>2 DEF FormatInv, Queued
  <2>4. QED
    BY <1>3, <2>1, <2>2, <2>3 DEF FormatInv
<1>6. ASSUME NEW d \in Clients, d # c PROVE FormatInv(d)'
  BY <1>1, <1>2, <1>6, OthersKeepFormats
<1>7. QED
  BY <1>4, <1>5, <1>6

\* The reader takes a message.
LEMMA ReadFormats ==
  ASSUME FormatsInv, NEW c \in Clients, Read(c)
  PROVE  FormatsInv'
<1> USE SessionAssumption DEF FormatsInv, FormatTypes
<1> DEFINE m == Head(up[c])
           g == IF m[1] = "format" THEN m[2] ELSE format[c]
<1>1. /\ UNCHANGED <<open, chosen, sent, writer, using, queue, wanted>>
      /\ up[c] # <<>>
      /\ up' = [up EXCEPT ![c] = Tail(up[c])]
      /\ format' = [format EXCEPT ![c] = g]
      /\ msg' = [msg EXCEPT ![c] = m] \/ msg' = msg
  BY DEF Read
<1>2. /\ m \in Messages /\ Tail(up[c]) \in Seq(Messages)
      /\ g \in Nat /\ format[c] <= g /\ g <= chosen[c]
      /\ IsRequest(m) => m[2] = format[c]
      /\ Carries(Tail(up[c]), g, chosen[c])
      /\ Announced(up[c], format[c], chosen[c])
           => Announced(Tail(up[c]), g, chosen[c])
  BY <1>1, TailCarries DEF FormatInv
<1> HIDE DEF m, g
<1>3. FormatTypes'
  BY <1>1, <1>2
<1>4. FormatInv(c)'
  <2>1. Queued(c)'
    <3>1. /\ queue'[c] = queue[c] /\ format'[c] = g
          /\ msg'[c] = m \/ msg'[c] = msg[c]
      BY <1>1
    <3>2. \A i \in DOMAIN queue[c] : queue[c][i][2] \in Nat
      BY MessageParts
    <3>3. IsRequest(msg[c]) => msg[c][2] \in Nat
      <4>1. ~IsRequest(NoMsg)
        BY DEF IsRequest, NoMsg
      <4>2. QED
        BY <4>1, MessageParts
    <3>4. \A i \in DOMAIN queue[c] :
            IsRequest(queue[c][i]) /\ queue[c][i][2] <= format[c]
              /\ queue[c][i][2] <= g
      <4>1. \A i \in DOMAIN queue[c] :
              IsRequest(queue[c][i]) /\ queue[c][i][2] <= format[c]
        BY DEF FormatInv, Queued
      <4>2. format[c] \in Nat /\ g \in Nat /\ format[c] <= g
        BY <1>2
      <4> HIDE DEF FormatsInv, FormatTypes
      <4>3. QED
        BY <3>2, <4>1, <4>2
    <3>5. IsRequest(msg'[c]) =>
            /\ msg'[c][2] <= g
            /\ \A i \in DOMAIN queue[c] : queue[c][i][2] <= msg'[c][2]
      <4>1. CASE msg'[c] = m
        BY <1>2, <3>4, <4>1
      <4>2. CASE msg'[c] = msg[c]
        <5>1. IsRequest(msg[c]) =>
                /\ msg[c][2] <= format[c]
                /\ \A i \in DOMAIN queue[c] : queue[c][i][2] <= msg[c][2]
          BY DEF FormatInv, Queued
        <5>2. format[c] \in Nat /\ g \in Nat /\ format[c] <= g
          BY <1>2
        <5> HIDE DEF FormatsInv, FormatTypes
        <5>3. QED
          BY <3>3, <4>2, <5>1, <5>2
      <4>3. QED
        BY <3>1, <4>1, <4>2
    <3>6. QED
      BY <3>1, <3>4, <3>5 DEF FormatInv, Queued
  <2>2. QED
    BY <1>1, <1>2, <2>1 DEF FormatInv
<1>5. ASSUME NEW d \in Clients, d # c PROVE FormatInv(d)'
  BY <1>1, <1>5, OthersKeepFormats
<1>6. QED
  BY <1>3, <1>4, <1>5

\* The reader hands a request on.
LEMMA HandRequestFormats ==
  ASSUME FormatsInv, NEW c \in Clients, HandRequest(c)
  PROVE  FormatsInv'
<1> USE SessionAssumption DEF FormatsInv, FormatTypes
<1>1. /\ UNCHANGED <<open, up, sent, chosen, writer, using, format, wanted>>
      /\ IsRequest(msg[c]) /\ msg' = [msg EXCEPT ![c] = NoMsg]
      /\ queue' = [queue EXCEPT ![c] = Append(queue[c], msg[c])] \/ queue' = queue
  BY DEF HandRequest, network
<1>2. ~IsRequest(NoMsg)
  BY DEF IsRequest, NoMsg
<1>3. msg[c] \in Messages
  BY <1>1, <1>2
<1>4. FormatTypes'
  <2>1. Append(queue[c], msg[c]) \in Seq(Messages)
    BY <1>3
  <2>2. QED
    BY <1>1, <2>1
<1>5. Queued(c)'
  <2>1. /\ msg'[c] = NoMsg /\ format'[c] = format[c]
        /\ queue'[c] = queue[c] \/ queue'[c] = Append(queue[c], msg[c])
    BY <1>1
  <2>2. \A i \in DOMAIN queue'[c] :
          \/ i \in DOMAIN queue[c] /\ queue'[c][i] = queue[c][i]
          \/ i = Len(queue[c]) + 1 /\ queue'[c][i] = msg[c]
    <3> DEFINE q == queue[c]
    <3>1. q \in Seq(Messages)
      OBVIOUS
    <3> HIDE DEF q, FormatsInv, FormatTypes
    <3>2. \A i \in DOMAIN Append(q, msg[c]) :
            \/ i \in DOMAIN q /\ Append(q, msg[c])[i] = q[i]
            \/ i = Len(q) + 1 /\ Append(q, msg[c])[i] = msg[c]
      BY <1>3, <3>1
    <3>3. QED
      BY <2>1, <3>2 DEF q
  <2>3. \A i \in DOMAIN queue[c] : i \in Nat /\ i <= Len(queue[c])
    OBVIOUS
  <2>4. msg[c][2] \in Nat /\ Len(queue[c]) \in Nat
    BY <1>3, MessageParts
  <2>5. /\ \A i \in DOMAIN queue[c] :
             IsRequest(queue[c][i]) /\ queue[c][i][2] <= format[c]
        /\ \A i, j \in DOMAIN queue[c] : i <= j => queue[c][i][2] <= queue[c][j][2]
        /\ msg[c][2] <= format[c]
        /\ \A i \in DOMAIN queue[c] : queue[c][i][2] <= msg[c][2]
    BY <1>1 DEF FormatInv, Queued
  <2>6. \A i \in DOMAIN queue'[c] :
          IsRequest(queue'[c][i]) /\ queue'[c][i][2] <= format[c]
    BY <1>1, <2>2, <2>5
  <2>7. \A i, j \in DOMAIN queue'[c] : i <= j => queue'[c][i][2] <= queue'[c][j][2]
    <3> SUFFICES ASSUME NEW i \in DOMAIN queue'[c], NEW j \in DOMAIN queue'[c],
                        i <= j
                 PROVE  queue'[c][i][2] <= queue'[c][j][2]
      OBVIOUS
    <3>1. CASE i \in DOMAIN queue[c] /\ queue'[c][i] = queue[c][i]
      BY <2>2, <2>5, <3>1
    <3>2. CASE i = Len(queue[c]) + 1 /\ queue'[c][i] = msg[c]
      <4> HIDE DEF FormatsInv, FormatTypes
      <4>1. queue'[c][j] = msg[c]
        BY <2>2, <2>3, <2>4, <3>2
      <4>2. QED
        BY <2>4, <3>2, <4>1
    <3>3. QED
      BY <2>2, <3>1, <3>2
  <2>8. QED
    BY <1>2, <2>1, <2>6, <2>7 DEF Queued
<1>6. FormatInv(c)'
  BY <1>1, <1>5 DEF FormatInv
<1>7. ASSUME NEW d \in Clients, d # c PROVE FormatInv(d)'
  BY <1>1, <1>7, OthersKeepFormats
<1>8. QED
  BY <1>4, <1>6, <1>7

\* The reader hands an event on, or its socket fails.
LEMMA ReaderLeavesFormats ==
  ASSUME FormatsInv, NEW c \in Clients, HandEvent(c) \/ ReadFails(c)
  PROVE  FormatsInv'
<1> USE SessionAssumption DEF FormatsInv, FormatTypes
<1>1. /\ UNCHANGED <<open, sent, chosen, writer, using, queue, format, wanted>>
      /\ \/ up' = up /\ msg' = [msg EXCEPT ![c] = NoMsg]
         \/ up' = [up EXCEPT ![c] = <<>>] /\ msg' = msg /\ ~open[c]
  BY DEF HandEvent, ReadFails, network
<1>2. /\ <<>> \in Seq(Messages) /\ DOMAIN <<>> = {}
      /\ ~IsRequest(NoMsg)
  BY DEF IsRequest, NoMsg
<1>3. FormatTypes'
  BY <1>1, <1>2
<1>4. FormatInv(c)'
  <2>1. Queued(c)'
    <3>1. /\ queue'[c] = queue[c] /\ format'[c] = format[c]
          /\ msg'[c] = msg[c] \/ msg'[c] = NoMsg
      BY <1>1
    <3>2. QED
      BY <1>2, <3>1 DEF FormatInv, Queued
  <2>2. CASE up' = up
    BY <1>1, <2>1, <2>2 DEF FormatInv
  <2>3. CASE up'[c] = <<>> /\ ~open[c]
    <3>1. Carries(<<>>, format[c], chosen[c])
      BY <1>2 DEF Carries, Ordered, Between, Sourced
    <3>2. QED
      BY <1>1, <2>1, <2>3, <3>1 DEF FormatInv
  <2>4. QED
    BY <1>1, <2>2, <2>3
<1>5. ASSUME NEW d \in Clients, d # c PROVE FormatInv(d)'
  BY <1>1, <1>5, OthersKeepFormats
<1>6. QED
  BY <1>3, <1>4, <1>5

\* The viewer closes its end of the socket.
LEMMA ViewerClosesFormats ==
  ASSUME FormatsInv, NEW c \in Clients, ViewerCloses(c)
  PROVE  FormatsInv'
<1> USE SessionAssumption DEF FormatsInv, FormatTypes
<1>1. /\ UNCHANGED <<up, sent, chosen, msg, writer, using, queue, format, wanted>>
      /\ open' = [open EXCEPT ![c] = FALSE]
  BY DEF ViewerCloses, tasks
<1>2. FormatTypes'
  BY <1>1
<1>3. FormatInv(c)'
  BY <1>1 DEF FormatInv, Queued
<1>4. ASSUME NEW d \in Clients, d # c PROVE FormatInv(d)'
  BY <1>1, <1>4, OthersKeepFormats
<1>5. QED
  BY <1>2, <1>3, <1>4

\* The writer loop ends, and with it the request queue.
LEMMA WriterEndsFormats ==
  ASSUME FormatsInv, NEW c \in Clients, WriterEnds(c),
         UNCHANGED <<open, up, sent, chosen, msg, format>>
  PROVE  FormatsInv'
<1> USE SessionAssumption DEF FormatsInv, FormatTypes
<1>1. /\ writer' = [writer EXCEPT ![c] = "off"]
      /\ queue' = [queue EXCEPT ![c] = <<>>]
      /\ using' = [using EXCEPT ![c] = 0] /\ wanted' = [wanted EXCEPT ![c] = 0]
  BY DEF WriterEnds
<1>2. <<>> \in Seq(Messages) /\ DOMAIN <<>> = {}
  OBVIOUS
<1>3. FormatTypes'
  BY <1>1, <1>2
<1>4. FormatInv(c)'
  <2>1. /\ queue'[c] = <<>> /\ msg'[c] = msg[c] /\ format'[c] = format[c]
        /\ wanted'[c] = 0 /\ writer'[c] = "off" /\ format[c] \in Nat
    BY <1>1
  <2>2. Queued(c)'
    BY <1>2, <2>1 DEF FormatInv, Queued
  <2>3. QED
    BY <2>1, <2>2 DEF FormatInv
<1>5. ASSUME NEW d \in Clients, d # c PROVE FormatInv(d)'
  BY <1>1, <1>5, OthersKeepFormats
<1>6. QED
  BY <1>3, <1>4, <1>5

\* What is behind the first message of a sequence.
LEMMA TailEntries ==
  ASSUME NEW s \in Seq(Messages), s # <<>>
  PROVE  /\ Tail(s) \in Seq(Messages) /\ 1 \in DOMAIN s /\ Head(s) = s[1]
         /\ \A i \in DOMAIN Tail(s) :
              i \in Nat /\ i + 1 \in DOMAIN s /\ Tail(s)[i] = s[i + 1]
  OBVIOUS

\* The writer takes a request from the queue.
LEMMA TakeRequestFormats ==
  ASSUME FormatsInv, NEW c \in Clients, TakeRequest(c)
  PROVE  FormatsInv'
<1> USE SessionAssumption DEF FormatsInv, FormatTypes
<1> DEFINE q == queue[c]
           t == Tail(q)
<1>1. /\ UNCHANGED <<open, up, sent, chosen, msg, using, format>>
      /\ q # <<>>
      /\ queue' = [queue EXCEPT ![c] = t]
      /\ wanted' = [wanted EXCEPT ![c] = Head(q)[2]]
      /\ \/ writer' = [writer EXCEPT ![c] = "await"]
         \/ writer' = [writer EXCEPT ![c] = "compose"]
  BY DEF TakeRequest, network
<1>2. q \in Seq(Messages)
  OBVIOUS
<1> HIDE DEF q
<1>3. /\ t \in Seq(Messages) /\ Head(q) = q[1] /\ 1 \in DOMAIN q
      /\ \A i \in DOMAIN t : i \in Nat /\ i + 1 \in DOMAIN q /\ t[i] = q[i + 1]
      /\ Head(q) \in Messages
  <2>1. \A i \in DOMAIN t : i \in Nat /\ i + 1 \in DOMAIN q /\ t[i] = q[i + 1]
    BY <1>1, <1>2, TailEntries
  <2>2. t \in Seq(Messages) /\ 1 \in DOMAIN q /\ Head(q) = q[1]
    BY <1>1, <1>2, TailEntries
  <2>3. q[1] \in Messages
    BY <1>2, <2>2
  <2>4. QED
    BY <2>1, <2>2, <2>3
<1> HIDE DEF t
<1>4. /\ \A i \in DOMAIN q : IsRequest(q[i]) /\ q[i][2] <= format[c]
      /\ \A i, j \in DOMAIN q : i <= j => q[i][2] <= q[j][2]
      /\ IsRequest(msg[c]) =>
           /\ msg[c][2] <= format[c]
           /\ \A i \in DOMAIN q : q[i][2] <= msg[c][2]
  BY DEF FormatInv, Queued, q
<1>5. Head(q)[2] \in Nat /\ Head(q)[2] <= format[c]
  BY <1>3, <1>4, MessageParts
<1>6. FormatTypes'
  BY <1>1, <1>3, <1>5
<1>7. FormatInv(c)'
  <2>1. /\ queue'[c] = t /\ msg'[c] = msg[c] /\ format'[c] = format[c]
        /\ wanted'[c] = Head(q)[2] /\ writer'[c] # "write"
    BY <1>1
  <2>2. \A i, j \in DOMAIN t : i <= j => t[i][2] <= t[j][2]
    <3> SUFFICES ASSUME NEW i \in DOMAIN t, NEW j \in DOMAIN t, i <= j
                 PROVE  t[i][2] <= t[j][2]
      OBVIOUS
    <3>1. i \in Nat /\ j \in Nat
      BY <1>3
    <3> HIDE DEF FormatsInv, FormatTypes
    <3>2. i + 1 <= j + 1
      BY <3>1
    <3>3. QED
      BY <1>3, <1>4, <3>2
  <2>3. Queued(c)'
    BY <1>3, <1>4, <2>1, <2>2 DEF Queued
  <2>4. QED
    BY <1>1, <1>5, <2>1, <2>3 DEF FormatInv
<1>8. ASSUME NEW d \in Clients, d # c PROVE FormatInv(d)'
  BY <1>1, <1>8, OthersKeepFormats
<1>9. QED
  BY <1>6, <1>7, <1>8

\* The newest format among the coalesced requests is one of theirs.
LEMMA NewestIsTheirs ==
  ASSUME NEW q \in Seq(Messages), NEW w \in Nat, NEW f \in Nat, w <= f,
         \A i \in DOMAIN q : q[i][2] <= f,
         \A i, j \in DOMAIN q : i <= j => q[i][2] <= q[j][2]
  PROVE  LET newest == Max({q[i][2] : i \in DOMAIN q} \cup {w})
         IN  newest \in Nat /\ newest <= f
<1> DEFINE S == {q[i][2] : i \in DOMAIN q} \cup {w}
<1>1. \A i \in DOMAIN q : q[i] \in Messages /\ i <= Len(q) /\ Len(q) \in DOMAIN q
  OBVIOUS
<1>2. \A x \in S : x \in Nat /\ x <= f
  BY <1>1, MessageParts
<1>3. \E x \in S : \A y \in S : x >= y
  <2>1. CASE DOMAIN q = {}
    BY <2>1
  <2>2. CASE Len(q) \in DOMAIN q /\ q[Len(q)][2] >= w
    <3>1. q[Len(q)][2] \in S /\ \A i \in DOMAIN q : q[Len(q)][2] >= q[i][2]
      BY <1>1, <1>2, <2>2
    <3>2. QED
      BY <2>2, <3>1
  <2>3. CASE Len(q) \in DOMAIN q /\ ~(q[Len(q)][2] >= w)
    <3>1. \A i \in DOMAIN q : q[i][2] \in Nat /\ q[i][2] <= q[Len(q)][2]
      BY <1>1, <1>2, <2>3
    <3>2. \A i \in DOMAIN q : w >= q[i][2]
      BY <2>3, <3>1
    <3>3. w \in S /\ w >= w
      OBVIOUS
    <3>4. QED
      BY <3>2, <3>3
  <2>4. QED
    BY <1>1, <2>1, <2>2, <2>3
<1> HIDE DEF S
<1>4. Max(S) \in S
  BY <1>3 DEF Max
<1>5. QED
  BY <1>2, <1>4 DEF S

\* The writer composes an update in the format it borrows.
LEMMA ComposeFormats ==
  ASSUME FormatsInv, NEW c \in Clients, Compose(c)
  PROVE  FormatsInv'
<1> USE SessionAssumption DEF FormatsInv, FormatTypes
<1> DEFINE newest == Max({queue[c][i][2] : i \in DOMAIN queue[c]} \cup {wanted[c]})
<1>1. /\ UNCHANGED <<open, up, sent, chosen, msg, format>>
      /\ writer' = [writer EXCEPT ![c] = "write"]
      /\ queue' = [queue EXCEPT ![c] = <<>>]
      /\ using' = [using EXCEPT ![c] = format[c]]
      /\ wanted' = [wanted EXCEPT ![c] = newest]
  BY DEF Compose, Borrowed, network
<1>2. newest \in Nat /\ newest <= format[c]
  <2>1. /\ wanted[c] <= format[c]
        /\ \A i \in DOMAIN queue[c] : queue[c][i][2] <= format[c]
        /\ \A i, j \in DOMAIN queue[c] : i <= j => queue[c][i][2] <= queue[c][j][2]
    BY DEF FormatInv, Queued
  <2>2. /\ queue[c] \in Seq(Messages)
        /\ wanted[c] \in Nat /\ format[c] \in Nat
    OBVIOUS
  <2> HIDE DEF newest, FormatsInv, FormatTypes
  <2>3. QED
    BY <2>1, <2>2, NewestIsTheirs DEF newest
<1> HIDE DEF newest
<1>3. <<>> \in Seq(Messages) /\ DOMAIN <<>> = {} /\ format[c] \in Nat
  OBVIOUS
<1>4. FormatTypes'
  BY <1>1, <1>2, <1>3
<1>5. FormatInv(c)'
  <2>1. /\ queue'[c] = <<>> /\ msg'[c] = msg[c] /\ format'[c] = format[c]
        /\ wanted'[c] = newest /\ using'[c] = format[c]
    BY <1>1
  <2>2. Queued(c)'
    BY <1>3, <2>1 DEF FormatInv, Queued
  <2>3. QED
    BY <1>1, <1>2, <2>1, <2>2 DEF FormatInv
<1>6. ASSUME NEW d \in Clients, d # c PROVE FormatInv(d)'
  BY <1>1, <1>6, OthersKeepFormats
<1>7. QED
  BY <1>4, <1>5, <1>6

\* The update is written.
LEMMA WriteFormats ==
  ASSUME FormatsInv, NEW c \in Clients, Write(c)
  PROVE  FormatsInv'
<1> USE SessionAssumption DEF FormatsInv, FormatTypes
<1>1. /\ UNCHANGED <<open, up, sent, chosen, msg, queue, format>>
      /\ writer' = [writer EXCEPT ![c] = "recv"]
      /\ using' = [using EXCEPT ![c] = 0] /\ wanted' = [wanted EXCEPT ![c] = 0]
  BY DEF Write
<1>2. FormatTypes'
  BY <1>1
<1>3. FormatInv(c)'
  BY <1>1 DEF FormatInv, Queued
<1>4. ASSUME NEW d \in Clients, d # c PROVE FormatInv(d)'
  BY <1>1, <1>4, OthersKeepFormats
<1>5. QED
  BY <1>2, <1>3, <1>4

\* A writer that waits or starts to recv or compose has borrowed no format yet.
LEMMA WaitingFormats ==
  ASSUME FormatsInv, NEW c \in Clients, NEW w \in {"recv", "compose"},
         writer' = [writer EXCEPT ![c] = w],
         UNCHANGED <<open, up, sent, chosen, msg, queue, format, using, wanted>>
  PROVE  FormatsInv'
<1> USE SessionAssumption DEF FormatsInv, FormatTypes
<1>1. FormatTypes'
  OBVIOUS
<1>2. FormatInv(c)'
  BY DEF FormatInv, Queued
<1>3. ASSUME NEW d \in Clients, d # c PROVE FormatInv(d)'
  BY <1>3, OthersKeepFormats
<1>4. QED
  BY <1>1, <1>2, <1>3

\* The variables the invariant speaks about.
formats == <<open, up, sent, chosen, msg, writer, using, queue, format, wanted>>

\* Every step keeps the invariant.
LEMMA FormatsInvNext == FormatsInv /\ [Next]_vars => FormatsInv'
<1> SUFFICES ASSUME FormatsInv, [Next]_vars PROVE FormatsInv'
  OBVIOUS
<1>1. CASE UNCHANGED formats
  BY <1>1 DEF formats, FormatsInv, FormatTypes, FormatInv, Queued
<1>2. ASSUME NEW c \in Clients,
             HandshakeStep(c) \/ HandshakeBroken(c) \/ ViewerReads(c)
      PROVE  UNCHANGED formats
  BY <1>2 DEF HandshakeStep, HandshakeBroken, ViewerReads, service, network,
              tasks, formats
<1>3. ASSUME Notify \/ CaptureThreadEnds \/ Inject PROVE UNCHANGED formats
  BY <1>3 DEF Notify, CaptureThreadEnds, Inject, network, tasks, formats
<1>4. CASE UNCHANGED vars
  BY <1>1, <1>4 DEF vars, service, network, tasks, formats
<1>5. ASSUME NEW c \in Clients, Serve(c) PROVE FormatsInv'
  BY <1>5, WaitingFormats DEF Serve, network
<1>6. ASSUME NEW c \in Clients, ReaderStep(c) PROVE FormatsInv'
  BY <1>6, ReadFormats, HandRequestFormats, ReaderLeavesFormats DEF ReaderStep
<1>7. ASSUME NEW c \in Clients, FrameArrives(c) PROVE FormatsInv'
  BY <1>7, WaitingFormats DEF FrameArrives, network
<1>8. ASSUME NEW c \in Clients, NoMoreFrames(c) \/ WriteFails(c) \/ Return(c)
      PROVE  FormatsInv'
  BY <1>8, WriterEndsFormats DEF NoMoreFrames, WriteFails, Return, network
<1>9. ASSUME NEW c \in Clients, WriterStep(c) PROVE FormatsInv'
  BY <1>7, <1>8, <1>9, TakeRequestFormats, ComposeFormats, WriteFormats
  DEF WriterStep
<1>10. ASSUME NEW c \in Clients, ViewerStep(c) PROVE FormatsInv'
  BY <1>1, <1>2, <1>10, ViewerSendsFormats, ViewerClosesFormats DEF ViewerStep
<1>11. QED
  BY <1>1, <1>2, <1>3, <1>4, <1>5, <1>6, <1>8, <1>9, <1>10 DEF Next

\* The viewer that set a format and then asked never gets an update in an older
\* one: however far the writer is behind the reader, and whatever requests the
\* update coalesces.
THEOREM FormatsAreRespected == Spec => []FormatRespected
<1>1. FormatsInv => FormatRespected
  BY DEF FormatsInv, FormatTypes, FormatInv, FormatRespected
<1>2. QED
  BY FormatsInvInit, FormatsInvNext, <1>1, PTL DEF Spec

-----------------------------------------------------------------------------
(* Input events: what a socket or the channel holds of one viewer.  An entry *)
(* is a tag and a number; the entries with the tag, in order, have exactly   *)
(* the numbers from low + 1 to high.                                         *)

Run(s, tag, low, high) ==
  /\ low \in Nat /\ high \in Nat /\ low <= high
  /\ \A i \in DOMAIN s : s[i][1] = tag => s[i][2] \in low + 1..high
  /\ \A i, j \in DOMAIN s :
       i < j /\ s[i][1] = tag /\ s[j][1] = tag => s[i][2] < s[j][2]
  /\ \A n \in low + 1..high : \E i \in DOMAIN s : s[i] = <<tag, n>>

\* The entries of a sequence without its first.
LEMMA TailIndices ==
  ASSUME NEW S, NEW s \in Seq(S), s # <<>>
  PROVE  LET t == Tail(s)
         IN  /\ t \in Seq(S) /\ Head(s) \in S
             /\ 1 \in DOMAIN s /\ s[1] = Head(s)
             /\ \A i \in DOMAIN t : /\ i \in Nat /\ i + 1 \in DOMAIN s /\ 1 < i + 1
                                   /\ t[i] = s[i + 1]
             /\ \A i \in DOMAIN s : i = 1 \/ (i - 1 \in DOMAIN t /\ t[i - 1] = s[i])
  OBVIOUS

\* Taking the first entry: with the tag, it has the lowest number.
LEMMA TailRun ==
  ASSUME NEW S, NEW s \in Seq(S), s # <<>>,
         NEW tag, NEW low, NEW high, Run(s, tag, low, high)
  PROVE  /\ Head(s)[1] = tag =>
              Head(s)[2] = low + 1 /\ Run(Tail(s), tag, low + 1, high)
         /\ Head(s)[1] # tag => Run(Tail(s), tag, low, high)
<1> DEFINE t == Tail(s)
           m == Head(s)
<1>1. /\ 1 \in DOMAIN s /\ s[1] = m
      /\ \A i \in DOMAIN t : /\ i \in Nat /\ i + 1 \in DOMAIN s /\ 1 < i + 1
                             /\ t[i] = s[i + 1]
      /\ \A i \in DOMAIN s : i = 1 \/ (i - 1 \in DOMAIN t /\ t[i - 1] = s[i])
  BY TailIndices
<1>2. DOMAIN s \subseteq Nat
  OBVIOUS
<1> HIDE DEF t, m
<1> USE DEF Run
<1>3. \A i, j \in DOMAIN t :
        i < j /\ t[i][1] = tag /\ t[j][1] = tag => t[i][2] < t[j][2]
  <2> SUFFICES ASSUME NEW i \in DOMAIN t, NEW j \in DOMAIN t, i < j,
                      t[i][1] = tag, t[j][1] = tag
               PROVE  t[i][2] < t[j][2]
    OBVIOUS
  <2>1. \A k, l \in DOMAIN s :
          k < l /\ s[k][1] = tag /\ s[l][1] = tag => s[k][2] < s[l][2]
    OBVIOUS
  <2> HIDE DEF Run
  <2>2. /\ i + 1 < j + 1 /\ i + 1 \in DOMAIN s /\ j + 1 \in DOMAIN s
        /\ t[i] = s[i + 1] /\ t[j] = s[j + 1]
    BY <1>1
  <2>3. QED
    BY <2>1, <2>2
<1>4. CASE m[1] = tag
  <2>1. m[2] \in low + 1..high /\ m[2] \in Nat
    BY <1>1, <1>4
  <2>2. m[2] = low + 1
    <3>1. PICK i \in DOMAIN s : s[i] = <<tag, low + 1>>
      BY <2>1
    <3>2. i = 1 \/ 1 < i
      BY <1>2, <1>1, <3>1
    <3>3. 1 < i => m[2] < low + 1
      BY <1>1, <1>4, <3>1
    <3>4. QED
      BY <1>1, <2>1, <3>1, <3>2, <3>3
  <2>3. \A i \in DOMAIN t : t[i][1] = tag => t[i][2] \in (low + 1) + 1..high
    <3> SUFFICES ASSUME NEW i \in DOMAIN t, t[i][1] = tag
                 PROVE  t[i][2] \in (low + 1) + 1..high
      OBVIOUS
    <3>1. i + 1 \in DOMAIN s /\ 1 < i + 1 /\ t[i] = s[i + 1]
      BY <1>1
    <3>2. m[2] < t[i][2] /\ t[i][2] \in low + 1..high
      BY <1>1, <1>4, <3>1
    <3>3. QED
      BY <2>2, <3>2
  <2>4. \A n \in (low + 1) + 1..high : \E i \in DOMAIN t : t[i] = <<tag, n>>
    <3> SUFFICES ASSUME NEW n \in (low + 1) + 1..high
                 PROVE  \E i \in DOMAIN t : t[i] = <<tag, n>>
      OBVIOUS
    <3>1. PICK i \in DOMAIN s : s[i] = <<tag, n>>
      OBVIOUS
    <3>2. i # 1
      BY <1>1, <2>2, <3>1
    <3>3. QED
      BY <1>1, <3>1, <3>2
  <2>5. Run(t, tag, low + 1, high)
    BY <1>3, <2>1, <2>2, <2>3, <2>4
  <2>6. QED
    BY <1>4, <2>2, <2>5 DEF t, m
<1>5. CASE m[1] # tag
  <2>1. \A i \in DOMAIN t : t[i][1] = tag => t[i][2] \in low + 1..high
    BY <1>1
  <2>2. \A n \in low + 1..high : \E i \in DOMAIN t : t[i] = <<tag, n>>
    <3> SUFFICES ASSUME NEW n \in low + 1..high
                 PROVE  \E i \in DOMAIN t : t[i] = <<tag, n>>
      OBVIOUS
    <3>1. PICK i \in DOMAIN s : s[i] = <<tag, n>>
      OBVIOUS
    <3>2. i # 1
      BY <1>1, <1>5, <3>1
    <3>3. QED
      BY <1>1, <3>1, <3>2
  <2>3. QED
    BY <1>3, <1>5, <2>1, <2>2 DEF t, m
<1>6. QED
  BY <1>4, <1>5 DEF m

\* Adding an entry with the next number, or one with another tag.
LEMMA AppendRun ==
  ASSUME NEW S, NEW s \in Seq(S), NEW m \in S,
         NEW tag, NEW low, NEW high, Run(s, tag, low, high)
  PROVE  /\ m = <<tag, high + 1>> => Run(Append(s, m), tag, low, high + 1)
         /\ m[1] # tag => Run(Append(s, m), tag, low, high)
<1> DEFINE t == Append(s, m)
           n == Len(s) + 1
<1>1. /\ n \in Nat /\ n \in DOMAIN t /\ t[n] = m
      /\ \A i \in DOMAIN s : i \in Nat /\ i \in DOMAIN t /\ t[i] = s[i] /\ i < n
      /\ \A i \in DOMAIN t : i = n \/ i \in DOMAIN s
  OBVIOUS
<1> HIDE DEF t, n
<1>2. ASSUME m = <<tag, high + 1>> PROVE Run(t, tag, low, high + 1)
  <2>1. /\ low \in Nat /\ high + 1 \in Nat /\ low <= high + 1
        /\ \A i \in DOMAIN t : t[i][1] = tag => t[i][2] \in low + 1..high + 1
    BY <1>1, <1>2 DEF Run
  <2>2. \A i, j \in DOMAIN t :
          i < j /\ t[i][1] = tag /\ t[j][1] = tag => t[i][2] < t[j][2]
    <3> SUFFICES ASSUME NEW i \in DOMAIN t, NEW j \in DOMAIN t, i < j,
                        t[i][1] = tag, t[j][1] = tag
                 PROVE  t[i][2] < t[j][2]
      OBVIOUS
    <3>1. i \in DOMAIN s /\ t[i] = s[i]
      BY <1>1
    <3>2. CASE j \in DOMAIN s
      <4>1. t[j] = s[j]
        BY <1>1, <3>2
      <4>2. QED
        BY <3>1, <3>2, <4>1 DEF Run
    <3>3. CASE j = n
      <4>1. t[j][2] = high + 1
        BY <1>1, <1>2, <3>3
      <4>2. t[i][2] \in low + 1..high
        BY <3>1 DEF Run
      <4>3. QED
        BY <2>1, <4>1, <4>2 DEF Run
    <3>4. QED
      BY <1>1, <3>2, <3>3
  <2>3. \A k \in low + 1..high + 1 : \E i \in DOMAIN t : t[i] = <<tag, k>>
    BY <1>1, <1>2 DEF Run
  <2>4. QED
    BY <2>1, <2>2, <2>3 DEF Run
<1>3. ASSUME m[1] # tag PROVE Run(t, tag, low, high)
  <2>1. \A i \in DOMAIN t : t[i][1] = tag => i \in DOMAIN s /\ t[i] = s[i]
    BY <1>1, <1>3
  <2>2. QED
    BY <1>1, <2>1 DEF Run
<1>4. QED
  BY <1>2, <1>3 DEF t

\* Nothing is an empty run.
LEMMA EmptyRun == \A tag : \A n \in Nat : Run(<<>>, tag, n, n)
  BY DEF Run

\* Any kind of message, with any number.
Kinds == {"inc", "full", "format", "bad", "event", "none"}
Wire  == Kinds \X Nat

\* The types of what events are handed through; a reader that is not handing a
\* message on has none.
EventTypes ==
  /\ open \in [Clients -> BOOLEAN]
  /\ up \in [Clients -> Seq(Wire)]
  /\ reader \in [Clients -> {"read", "hand", "off"}]
  /\ msg \in [Clients -> Wire]
  /\ input \in Seq(Clients \X Nat)
  /\ sent \in [Clients -> Nat] /\ injected \in [Clients -> Nat]
  /\ chosen \in [Clients -> Nat]
  /\ \A c \in Clients : reader[c] # "hand" => msg[c] = NoMsg

\* The last event in the channel is number h, the reader has read up to r, and
\* the socket has the rest, up to q.
Pieces(c, h, r, q) ==
  /\ Run(input, c, injected[c], h)
  /\ IF msg[c][1] = "event" THEN msg[c][2] = h + 1 /\ r = h + 1 ELSE r = h
  /\ Run(up[c], "event", r, q)
  /\ q <= sent[c] /\ (open[c] => q = sent[c])

EventInv(c) == \E h, r, q \in Nat : Pieces(c, h, r, q)

EventsInv == EventTypes /\ \A c \in Clients : EventInv(c)

\* Initially nothing is on its way.
LEMMA EventsInvInit == Init => EventsInv
<1> SUFFICES ASSUME Init PROVE EventsInv
  OBVIOUS
<1>1. NoMsg \in Wire /\ NoMsg[1] # "event"
  BY DEF NoMsg, Wire, Kinds
<1>2. EventTypes
  <2>1. <<>> \in Seq(Wire) /\ <<>> \in Seq(Clients \X Nat)
    OBVIOUS
  <2>2. QED
    BY <1>1, <2>1 DEF Init, EventTypes
<1>3. ASSUME NEW c \in Clients PROVE Pieces(c, 0, 0, 0)
  BY <1>1, EmptyRun DEF Init, Pieces
<1>4. QED
  BY <1>2, <1>3 DEF EventsInv, EventInv

\* A step that leaves what a viewer's events depend on keeps its invariant.
LEMMA OthersKeepEvents ==
  ASSUME NEW c \in Clients, EventInv(c),
         /\ input' = input /\ injected'[c] = injected[c] /\ msg'[c] = msg[c]
         /\ up'[c] = up[c] /\ sent'[c] = sent[c] /\ open'[c] = open[c]
  PROVE  EventInv(c)'
  BY DEF EventInv, Pieces

\* ViewerSends: an event gets the next number.
LEMMA ViewerSendsEvents ==
  ASSUME EventsInv, NEW c \in Clients, ViewerSends(c)
  PROVE  EventsInv'
<1> USE DEF EventsInv
<1>1. PICK m \in Wire :
        /\ up' = [up EXCEPT ![c] = Append(@, m)]
        /\ \/ m[1] # "event" /\ sent' = sent
           \/ m = <<"event", sent[c] + 1>> /\ sent' = [sent EXCEPT ![c] = @ + 1]
        /\ chosen' = chosen \/ chosen' = [chosen EXCEPT ![c] = @ + 1]
  <2>1. \A kind \in Kinds, n \in Nat :
          /\ <<kind, n>> \in Wire /\ <<kind, n>>[1] = kind
    BY DEF Wire
  <2>2. CASE /\ \E kind \in {"inc", "full", "bad"} :
                  up' = [up EXCEPT ![c] = Append(@, <<kind, chosen[c]>>)]
             /\ UNCHANGED <<sent, chosen>>
    <3>1. PICK kind \in {"inc", "full", "bad"} :
            up' = [up EXCEPT ![c] = Append(@, <<kind, chosen[c]>>)]
      BY <2>2
    <3>2. chosen[c] \in Nat /\ kind # "event" /\ kind \in Kinds
      BY DEF EventTypes, Kinds
    <3>3. <<kind, chosen[c]>> \in Wire /\ <<kind, chosen[c]>>[1] # "event"
      BY <2>1, <3>2
    <3>4. QED
      BY <2>2, <3>1, <3>3
  <2>3. CASE /\ sent' = [sent EXCEPT ![c] = @ + 1] /\ chosen' = chosen
             /\ up' = [up EXCEPT ![c] = Append(@, <<"event", sent'[c]>>)]
    <3>1. sent'[c] = sent[c] + 1 /\ sent[c] + 1 \in Nat
      BY <2>3 DEF EventTypes
    <3>2. <<"event", sent[c] + 1>> \in Wire
      BY <2>1, <3>1 DEF Kinds
    <3>3. up' = [up EXCEPT ![c] = Append(@, <<"event", sent[c] + 1>>)]
      BY <2>3, <3>1
    <3>4. QED
      BY <2>3, <3>2, <3>3
  <2>4. CASE /\ chosen' = [chosen EXCEPT ![c] = @ + 1] /\ sent' = sent
             /\ up' = [up EXCEPT ![c] = Append(@, <<"format", chosen'[c]>>)]
    <3>1. chosen'[c] \in Nat
      BY <2>4 DEF EventTypes
    <3>2. /\ <<"format", chosen'[c]>> \in Wire
          /\ <<"format", chosen'[c]>>[1] # "event"
      BY <2>1, <3>1 DEF Kinds
    <3>3. QED
      BY <2>4, <3>2
  <2>5. QED
    BY <2>2, <2>3, <2>4 DEF ViewerSends
<1>2. /\ UNCHANGED <<open, reader, msg, input, injected>> /\ open[c]
      /\ \A d \in Clients : d # c => up'[d] = up[d] /\ sent'[d] = sent[d]
      /\ up'[c] = Append(up[c], m)
  BY <1>1 DEF ViewerSends, tasks, EventTypes
<1>3. EventTypes'
  <2>1. Append(up[c], m) \in Seq(Wire)
    BY DEF EventTypes
  <2>2. up' \in [Clients -> Seq(Wire)]
    BY <1>1, <2>1 DEF EventTypes
  <2>3. sent' \in [Clients -> Nat] /\ chosen' \in [Clients -> Nat]
    <3>1. /\ sent' = sent \/ sent' = [sent EXCEPT ![c] = sent[c] + 1]
          /\ chosen' = chosen \/ chosen' = [chosen EXCEPT ![c] = chosen[c] + 1]
      BY <1>1
    <3>2. QED
      BY <3>1, Counted DEF EventTypes
  <2>4. QED
    BY <1>2, <2>2, <2>3 DEF EventTypes
<1>4. ASSUME NEW d \in Clients, d # c PROVE EventInv(d)'
  BY <1>2, <1>4, OthersKeepEvents
<1>5. EventInv(c)'
  <2>1. PICK h \in Nat, r \in Nat, q \in Nat : Pieces(c, h, r, q)
    BY DEF EventInv
  <2>2. q = sent[c] /\ up[c] \in Seq(Wire)
    BY <1>2, <2>1 DEF Pieces, EventTypes
  <2>3. CASE m[1] # "event" /\ sent' = sent
    <3>1. Run(up'[c], "event", r, q)
      BY <1>2, <2>1, <2>2, <2>3, AppendRun DEF Pieces
    <3>2. Pieces(c, h, r, q)'
      BY <1>2, <2>1, <2>2, <2>3, <3>1 DEF Pieces
    <3>3. QED
      BY <3>2 DEF EventInv
  <2>4. CASE m = <<"event", q + 1>> /\ sent' = [sent EXCEPT ![c] = @ + 1]
    <3>1. Run(up'[c], "event", r, q + 1) /\ q + 1 \in Nat
      BY <1>2, <2>1, <2>2, <2>4, AppendRun DEF Pieces
    <3>2. sent'[c] = q + 1
      BY <2>2, <2>4 DEF EventTypes
    <3>3. Pieces(c, h, r, q + 1)'
      BY <1>2, <2>1, <3>1, <3>2 DEF Pieces
    <3>4. QED
      BY <3>1, <3>3 DEF EventInv
  <2>5. QED
    BY <1>1, <2>2, <2>3, <2>4
<1>6. QED
  BY <1>3, <1>4, <1>5

\* Read: the first message goes from the socket to the reader, an event with it.
LEMMA ReadEvents ==
  ASSUME EventsInv, NEW c \in Clients, Read(c)
  PROVE  EventsInv'
<1> USE DEF EventsInv
<1> DEFINE m == Head(up[c])
<1>1. /\ up[c] \in Seq(Wire) /\ up[c] # <<>> /\ m \in Wire
      /\ Tail(up[c]) \in Seq(Wire) /\ msg[c] = NoMsg
  BY TailIndices DEF Read, EventTypes
<1>2. /\ up' = [up EXCEPT ![c] = Tail(@)]
      /\ UNCHANGED <<open, input, injected, sent, chosen>>
      /\ IF IsRequest(m) \/ m[1] = "event"
           THEN /\ reader' = [reader EXCEPT ![c] = "hand"]
                /\ msg' = [msg EXCEPT ![c] = m]
           ELSE /\ reader' \in [Clients -> {"read", "hand", "off"}]
                /\ reader'[c] # "hand" /\ msg' = msg
                /\ \A d \in Clients : d # c => reader'[d] = reader[d]
  BY DEF Read, EventTypes
<1> HIDE DEF m
<1>3. EventTypes'
  BY <1>1, <1>2 DEF EventTypes
<1>4. ASSUME NEW d \in Clients, d # c PROVE EventInv(d)'
  <2>1. up'[d] = up[d] /\ msg'[d] = msg[d]
    BY <1>2, <1>4 DEF EventTypes
  <2>2. QED
    BY <1>2, <2>1, OthersKeepEvents
<1>5. EventInv(c)'
  <2>1. PICK h \in Nat, r \in Nat, q \in Nat : Pieces(c, h, r, q)
    BY DEF EventInv
  <2>2. r = h /\ up'[c] = Tail(up[c])
    BY <1>1, <1>2, <2>1 DEF Pieces, NoMsg, EventTypes
  <2>3. CASE m[1] = "event"
    <3>1. m[2] = h + 1 /\ Run(up'[c], "event", h + 1, q) /\ h + 1 \in Nat
      BY <1>1, <2>1, <2>2, <2>3, TailRun DEF Pieces, m
    <3>2. msg'[c] = m
      BY <1>2, <2>3 DEF EventTypes
    <3>3. Pieces(c, h, h + 1, q)'
      BY <1>2, <2>1, <2>3, <3>1, <3>2 DEF Pieces
    <3>4. QED
      BY <3>1, <3>3 DEF EventInv
  <2>4. CASE m[1] # "event"
    <3>1. Run(up'[c], "event", h, q)
      BY <1>1, <2>1, <2>2, <2>4, TailRun DEF Pieces, m
    <3>2. msg'[c][1] # "event"
      BY <1>1, <1>2, <2>4 DEF EventTypes, NoMsg
    <3>3. Pieces(c, h, h, q)'
      BY <1>2, <2>1, <3>1, <3>2 DEF Pieces
    <3>4. QED
      BY <3>3 DEF EventInv
  <2>5. QED
    BY <2>3, <2>4
<1>6. QED
  BY <1>3, <1>4, <1>5

\* HandEvent: the event goes from the reader to the end of the channel, where it
\* is behind those of its viewer and nothing to the others.
LEMMA HandEventEvents ==
  ASSUME EventsInv, NEW c \in Clients, HandEvent(c)
  PROVE  EventsInv'
<1> USE DEF EventsInv
<1> DEFINE e == <<c, msg[c][2]>>
<1>1. /\ e \in Clients \X Nat /\ input \in Seq(Clients \X Nat)
      /\ msg[c][1] = "event" /\ NoMsg \in Wire /\ NoMsg[1] # "event"
      /\ e[1] = c
  BY DEF HandEvent, EventTypes, Wire, Kinds, NoMsg
<1>2. /\ input' = Append(input, e)
      /\ reader' = [reader EXCEPT ![c] = "read"]
      /\ msg' = [msg EXCEPT ![c] = NoMsg]
      /\ UNCHANGED <<open, up, sent, chosen, injected>>
  BY DEF HandEvent, Offer, network
<1> HIDE DEF e
<1>3. EventTypes'
  BY <1>1, <1>2 DEF EventTypes
<1>4. ASSUME NEW d \in Clients, d # c PROVE EventInv(d)'
  <2>1. PICK h \in Nat, r \in Nat, q \in Nat : Pieces(d, h, r, q)
    BY DEF EventInv
  <2>2. Run(input', d, injected[d], h)
    BY <1>1, <1>2, <1>4, <2>1, AppendRun DEF Pieces
  <2>3. msg'[d] = msg[d]
    BY <1>2, <1>4 DEF EventTypes
  <2>4. Pieces(d, h, r, q)'
    BY <1>2, <2>1, <2>2, <2>3 DEF Pieces
  <2>5. QED
    BY <2>4 DEF EventInv
<1>5. EventInv(c)'
  <2>1. PICK h \in Nat, r \in Nat, q \in Nat : Pieces(c, h, r, q)
    BY DEF EventInv
  <2>2. e = <<c, h + 1>> /\ r = h + 1
    BY <1>1, <2>1 DEF Pieces, e
  <2>3. Run(input', c, injected[c], h + 1) /\ h + 1 \in Nat
    BY <1>1, <1>2, <2>1, <2>2, AppendRun DEF Pieces
  <2>4. msg'[c][1] # "event"
    BY <1>1, <1>2 DEF EventTypes
  <2>5. Pieces(c, h + 1, r, q)'
    BY <1>2, <2>1, <2>2, <2>3, <2>4 DEF Pieces
  <2>6. QED
    BY <2>3, <2>5 DEF EventInv
<1>6. QED
  BY <1>3, <1>4, <1>5

\* HandRequest: what the reader had was no event.
LEMMA HandRequestEvents ==
  ASSUME EventsInv, NEW c \in Clients, HandRequest(c)
  PROVE  EventsInv'
<1> USE DEF EventsInv
<1>1. /\ msg[c][1] # "event" /\ NoMsg \in Wire /\ NoMsg[1] # "event"
  BY DEF HandRequest, IsRequest, NoMsg, Wire, Kinds
<1>2. /\ reader' = [reader EXCEPT ![c] = "read"]
      /\ msg' = [msg EXCEPT ![c] = NoMsg]
      /\ UNCHANGED <<open, up, sent, chosen, input, injected>>
  BY DEF HandRequest, network
<1>3. EventTypes'
  BY <1>1, <1>2 DEF EventTypes
<1>4. ASSUME NEW d \in Clients PROVE EventInv(d)'
  <2>1. PICK h \in Nat, r \in Nat, q \in Nat : Pieces(d, h, r, q)
    BY DEF EventInv
  <2>2. \/ msg'[d] = msg[d]
        \/ msg[d][1] # "event" /\ msg'[d][1] # "event"
    BY <1>1, <1>2 DEF EventTypes
  <2>3. Pieces(d, h, r, q)'
    BY <1>2, <2>1, <2>2 DEF Pieces
  <2>4. QED
    BY <2>3 DEF EventInv
<1>5. QED
  BY <1>3, <1>4

\* ReadFails: what was in the socket is lost, but the viewer has left.
LEMMA ReadFailsEvents ==
  ASSUME EventsInv, NEW c \in Clients, ReadFails(c)
  PROVE  EventsInv'
<1> USE DEF EventsInv
<1>1. /\ ~open[c] /\ reader[c] = "read"
      /\ reader' = [reader EXCEPT ![c] = "off"]
      /\ up' = [up EXCEPT ![c] = <<>>]
      /\ UNCHANGED <<open, msg, sent, chosen, input, injected>>
  BY DEF ReadFails
<1>2. EventTypes'
  <2>1. <<>> \in Seq(Wire)
    OBVIOUS
  <2>2. QED
    BY <1>1, <2>1 DEF EventTypes
<1>3. ASSUME NEW d \in Clients, d # c PROVE EventInv(d)'
  <2>1. up'[d] = up[d]
    BY <1>1, <1>3 DEF EventTypes
  <2>2. QED
    BY <1>1, <2>1, OthersKeepEvents
<1>4. EventInv(c)'
  <2>1. PICK h \in Nat, r \in Nat, q \in Nat : Pieces(c, h, r, q)
    BY DEF EventInv
  <2>2. r <= sent[c]
    BY <2>1 DEF Pieces, Run, EventTypes
  <2>3. up'[c] = <<>> /\ Run(<<>>, "event", r, r)
    BY <1>1, EmptyRun DEF EventTypes
  <2>4. Pieces(c, h, r, r)'
    BY <1>1, <2>1, <2>2, <2>3 DEF Pieces
  <2>5. QED
    BY <2>4 DEF EventInv
<1>5. QED
  BY <1>2, <1>3, <1>4

\* Inject: the first event of the channel is the next of its viewer.
LEMMA InjectEvents ==
  ASSUME EventsInv, Inject
  PROVE  /\ EventsInv'
         /\ \A c \in Clients :
              injected'[c] # injected[c] => injected'[c] = injected[c] + 1
<1> USE DEF EventsInv
<1> DEFINE e == Head(input)
<1>1. /\ input \in Seq(Clients \X Nat) /\ input # <<>>
      /\ Tail(input) \in Seq(Clients \X Nat) /\ e \in Clients \X Nat
  BY TailIndices DEF Inject, EventTypes
<1>2. /\ input' = Tail(input)
      /\ injected' = [injected EXCEPT ![e[1]] = e[2]]
      /\ UNCHANGED <<open, up, reader, msg, sent, chosen>>
      /\ e[1] \in Clients /\ e[2] \in Nat
  BY <1>1 DEF Inject, network, tasks
<1> HIDE DEF e
<1>3. EventTypes'
  BY <1>1, <1>2 DEF EventTypes
<1>4. ASSUME NEW c \in Clients
      PROVE  /\ EventInv(c)'
             /\ injected'[c] # injected[c] => injected'[c] = injected[c] + 1
  <2>1. PICK h \in Nat, r \in Nat, q \in Nat : Pieces(c, h, r, q)
    BY DEF EventInv
  <2>2. /\ e[1] = c => e[2] = injected[c] + 1 /\ injected'[c] = e[2]
        /\ e[1] # c => injected'[c] = injected[c]
    <3>1. e[1] = c => e[2] = injected[c] + 1
      BY <1>1, <2>1, TailRun DEF Pieces, e
    <3>2. QED
      BY <1>2, <3>1 DEF EventTypes
  <2>3. Run(input', c, injected'[c], h)
    BY <1>1, <1>2, <2>1, <2>2, TailRun DEF Pieces, e
  <2>4. Pieces(c, h, r, q)'
    BY <1>2, <2>1, <2>3 DEF Pieces
  <2>5. QED
    BY <2>2, <2>4 DEF EventInv
<1>5. QED
  BY <1>3, <1>4

\* Every other step leaves alone what events are handed through, except that
\* the viewer may leave or the reader start.
LEMMA OtherStepsEvents ==
  ASSUME EventsInv,
         UNCHANGED <<up, msg, input, sent, chosen, injected>>,
         reader' \in [Clients -> {"read", "hand", "off"}],
         \A c \in Clients : reader'[c] = reader[c] \/ reader[c] # "hand",
         \A c \in Clients : reader'[c] = "hand" => reader[c] = "hand",
         open' \in [Clients -> BOOLEAN],
         \A c \in Clients : open'[c] => open[c]
  PROVE  EventsInv'
<1> USE DEF EventsInv
<1>1. EventTypes'
  BY DEF EventTypes
<1>2. ASSUME NEW c \in Clients PROVE EventInv(c)'
  BY DEF EventInv, Pieces
<1>3. QED
  BY <1>1, <1>2

\* A reader runs only once the handshake is over.
StartedInv == \A c \in Clients : stage[c] # "served" => reader[c] = "off"

LEMMA StartedInvNext ==
  HandshakeTypeOK /\ EventTypes /\ StartedInv /\ [Next]_vars => StartedInv'
<1> SUFFICES ASSUME HandshakeTypeOK, EventTypes, StartedInv, [Next]_vars
             PROVE  StartedInv'
  OBVIOUS
<1> USE DEF StartedInv, HandshakeTypeOK, EventTypes
<1>1. ASSUME NEW c \in Clients, HandshakeStep(c) \/ HandshakeBroken(c)
      PROVE  StartedInv'
  BY <1>1
  DEF HandshakeStep, HandshakeBroken, ReadVersion, ReadType, ReadResponse,
      HandshakeFails, service, tasks
<1>2. ASSUME NEW c \in Clients, Serve(c) PROVE StartedInv'
  BY <1>2 DEF Serve, ReadClientInit
<1>3. ASSUME NEW c \in Clients, ReaderStep(c) PROVE StartedInv'
  <2>1. /\ stage' = stage /\ reader[c] # "off"
        /\ \A d \in Clients : d # c => reader'[d] = reader[d]
    BY <1>3
    DEF ReaderStep, Read, HandRequest, HandEvent, ReadFails, handshake
  <2>2. QED
    BY <2>1
<1>4. ASSUME NEW c \in Clients, WriterStep(c) \/ Return(c) \/ ViewerStep(c)
      PROVE  StartedInv'
  <2>1. stage' = stage /\ reader' = reader
    BY <1>4
    DEF WriterStep, ViewerStep, TakeRequest, FrameArrives, NoMoreFrames,
        Compose, Write, WriteFails, Return, ViewerSends, ViewerReads,
        ViewerCloses, handshake, tasks
  <2>2. QED
    BY <2>1
<1>5. CASE Notify \/ CaptureThreadEnds \/ Inject \/ UNCHANGED vars
  BY <1>5
  DEF Notify, CaptureThreadEnds, Inject, vars, service, handshake, tasks
<1>6. QED
  BY <1>1, <1>2, <1>3, <1>4, <1>5 DEF Next

\* A step that takes no event from the channel.
LEMMA StepsWithoutInject ==
  ASSUME EventsInv, StartedInv, Next, ~Inject
  PROVE  EventsInv' /\ injected' = injected
<1> USE DEF EventsInv
<1> DEFINE Kept == UNCHANGED <<open, up, msg, reader, input, sent, chosen>>
<1>1. Kept /\ injected' = injected => EventsInv'
  BY OtherStepsEvents DEF EventTypes
<1>2. ASSUME NEW c \in Clients,
             HandshakeStep(c) \/ HandshakeBroken(c) \/ WriterStep(c)
               \/ Return(c) \/ ViewerReads(c)
      PROVE  EventsInv' /\ injected' = injected
  <2>1. Kept /\ injected' = injected
    BY <1>2
    DEF HandshakeStep, HandshakeBroken, WriterStep, TakeRequest, FrameArrives,
        NoMoreFrames, Compose, Write, WriteFails, Return, ViewerReads, service,
        network, tasks
  <2>2. QED
    BY <1>1, <2>1
<1>3. ASSUME NEW c \in Clients, Serve(c)
      PROVE  EventsInv' /\ injected' = injected
  <2>1. /\ UNCHANGED <<open, up, msg, input, sent, chosen, injected>>
        /\ reader' = [reader EXCEPT ![c] = "read"] /\ stage[c] = "init"
    BY <1>3 DEF Serve, ReadClientInit, network
  <2>2. reader[c] = "off"
    BY <2>1 DEF StartedInv
  <2>3. QED
    BY <2>1, <2>2, OtherStepsEvents DEF EventTypes
<1>4. ASSUME NEW c \in Clients, ViewerCloses(c)
      PROVE  EventsInv' /\ injected' = injected
  <2>1. /\ UNCHANGED <<up, msg, reader, input, sent, chosen, injected>>
        /\ open' = [open EXCEPT ![c] = FALSE]
    BY <1>4 DEF ViewerCloses, tasks
  <2>2. QED
    BY <2>1, OtherStepsEvents DEF EventTypes
<1>5. ASSUME NEW c \in Clients, ReaderStep(c)
      PROVE  EventsInv' /\ injected' = injected
  <2>1. injected' = injected
    BY <1>5 DEF ReaderStep, Read, HandRequest, HandEvent, ReadFails
  <2>2. QED
    BY <1>5, <2>1, ReadEvents, HandRequestEvents, HandEventEvents,
       ReadFailsEvents
    DEF ReaderStep
<1>6. ASSUME NEW c \in Clients, ViewerSends(c)
      PROVE  EventsInv' /\ injected' = injected
  BY <1>6, ViewerSendsEvents DEF ViewerSends
<1>7. CASE Notify \/ CaptureThreadEnds
  BY <1>1, <1>7 DEF Notify, CaptureThreadEnds, network, tasks
<1>8. QED
  BY <1>2, <1>3, <1>4, <1>5, <1>6, <1>7 DEF Next, ViewerStep

\* Every step keeps the invariants, and an event that is taken is the next.
LEMMA EventsInvNext ==
  HandshakeInv /\ EventsInv /\ StartedInv /\ [Next]_vars =>
    /\ EventsInv' /\ StartedInv'
    /\ \A c \in Clients :
         injected'[c] # injected[c] => injected'[c] = injected[c] + 1
<1> SUFFICES ASSUME HandshakeInv, EventsInv, StartedInv, [Next]_vars
             PROVE  /\ EventsInv' /\ StartedInv'
                    /\ \A c \in Clients : injected'[c] # injected[c] =>
                                            injected'[c] = injected[c] + 1
  OBVIOUS
<1>1. StartedInv'
  BY StartedInvNext DEF HandshakeInv, EventsInv
<1>2. CASE Inject
  BY <1>1, <1>2, InjectEvents
<1>3. CASE Next /\ ~Inject
  BY <1>1, <1>3, StepsWithoutInject
<1>4. CASE UNCHANGED vars
  <2>1. /\ UNCHANGED <<open, up, msg, reader, input, sent, chosen, injected>>
    BY <1>4 DEF vars, service, network, tasks
  <2>2. QED
    BY <1>1, <2>1, OtherStepsEvents DEF EventsInv, EventTypes
<1>5. QED
  BY <1>2, <1>3, <1>4

\* For any number of viewers and any capacity of the channel they share, every
\* event that reaches input_loop is the next its viewer sent: whoever comes in
\* between, and whatever became of the session's writer.
THEOREM InputIsInOrder == Spec => EventsInOrder
<1> DEFINE Order == \A c \in Clients :
                      injected'[c] # injected[c] => injected'[c] = injected[c] + 1
<1>1. Init => StartedInv
  BY DEF Init, StartedInv
<1>2. HandshakeInv /\ EventsInv /\ StartedInv /\ [Next]_vars => [Order]_vars
  BY EventsInvNext
<1>3. Spec => [][Order]_vars
  BY HandshakeInvInit, HandshakeInvNext, EventsInvInit, EventsInvNext,
     <1>1, <1>2, PTL
  DEF Spec
<1>4. QED
  BY <1>3 DEF EventsInOrder

-----------------------------------------------------------------------------
(* Types: what remains beside the formats and the events, the capacities. *)

\* Room is looked for before anything is put anywhere.
RoomInv ==
  /\ \A c \in Clients : Len(up[c]) <= UpCap /\ Len(queue[c]) <= ReqCap
  /\ Len(input) <= InputCap
  /\ down \in [Clients -> 0..DownCap]
  /\ using \in [Clients -> 0..MaxFormat]
  /\ news \in [Clients -> BOOLEAN] /\ asked \in BOOLEAN /\ capturing \in BOOLEAN

\* What is taken from a queue leaves room.
LEMMA ShorterTail ==
  ASSUME NEW S, NEW s \in Seq(S), s # <<>>, NEW k \in Nat, Len(s) <= k
  PROVE  Len(Tail(s)) <= k
  OBVIOUS

\* What is added to one with room fits.
LEMMA FitsWithRoom ==
  ASSUME NEW S, NEW s \in Seq(S), NEW e, NEW k \in Nat, Len(s) < k
  PROVE  Len(Append(s, e)) <= k
  OBVIOUS

\* Nothing has no length.
LEMMA NoLength == Len(<<>>) = 0
  OBVIOUS

\* Initially everything is empty.
LEMMA RoomInvInit == Init => RoomInv
<1> SUFFICES ASSUME Init PROVE RoomInv
  OBVIOUS
<1>1. /\ 0 \in 0..DownCap /\ 0 \in 0..MaxFormat
      /\ 0 <= UpCap /\ 0 <= ReqCap /\ 0 <= InputCap
  BY SessionAssumption
<1>2. \A c \in Clients : Len(up[c]) = 0 /\ Len(queue[c]) = 0
  BY NoLength DEF Init
<1>3. Len(input) = 0
  BY NoLength DEF Init
<1>4. QED
  BY <1>1, <1>2, <1>3 DEF Init, RoomInv

\* A step that leaves the queues and the socket towards the viewer alone.
LEMMA OthersKeepRoom ==
  ASSUME RoomInv,
         UNCHANGED <<up, queue, input, down, using, news, asked, capturing>>
  PROVE  RoomInv'
  BY DEF RoomInv

\* The viewer's steps.
LEMMA ViewerKeepsRoom ==
  ASSUME RoomInv, FormatsInv, NEW c \in Clients, ViewerStep(c)
  PROVE  RoomInv'
<1> USE SessionAssumption
<1>1. CASE ViewerSends(c)
  <2>1. PICK m : up' = [up EXCEPT ![c] = Append(up[c], m)]
    BY <1>1 DEF ViewerSends
  <2>2. Len(up[c]) < UpCap /\ up \in [Clients -> Seq(Messages)] /\ UpCap \in Nat
    BY <1>1 DEF ViewerSends, FormatsInv, FormatTypes
  <2>3. Len(Append(up[c], m)) <= UpCap
    BY <2>2, FitsWithRoom
  <2>4. UNCHANGED <<queue, input, down, using, news, asked, capturing>>
    BY <1>1 DEF ViewerSends, tasks
  <2>5. \A d \in Clients : up'[d] = IF d = c THEN Append(up[c], m) ELSE up[d]
    BY <2>1, <2>2
  <2>6. QED
    BY <2>3, <2>4, <2>5 DEF RoomInv
<1>2. CASE ViewerReads(c)
  <2>1. /\ down[c] \in 0..DownCap /\ down[c] > 0
        /\ down' = [down EXCEPT ![c] = down[c] - 1]
        /\ UNCHANGED <<up, queue, input, using, news, asked, capturing>>
    BY <1>2 DEF ViewerReads, tasks, RoomInv
  <2>2. down[c] - 1 \in 0..DownCap
    BY <2>1
  <2>3. QED
    BY <2>1, <2>2 DEF RoomInv
<1>3. CASE ViewerCloses(c)
  BY <1>3 DEF ViewerCloses, tasks, RoomInv
<1>4. QED
  BY <1>1, <1>2, <1>3 DEF ViewerStep

\* The reader's steps, and input_loop's.
LEMMA ReaderKeepsRoom ==
  ASSUME RoomInv, FormatsInv, EventsInv, NEW c \in Clients,
         ReaderStep(c) \/ Inject
  PROVE  RoomInv'
<1> USE SessionAssumption
<1>1. /\ up \in [Clients -> Seq(Messages)] /\ queue \in [Clients -> Seq(Messages)]
      /\ input \in Seq(Clients \X Nat)
  BY DEF FormatsInv, FormatTypes, EventsInv, EventTypes
<1>2. CASE Read(c)
  <2>1. /\ up[c] # <<>> /\ up' = [up EXCEPT ![c] = Tail(up[c])]
        /\ UNCHANGED <<queue, input, down, using, news, asked, capturing>>
    BY <1>2 DEF Read
  <2>2. Len(Tail(up[c])) <= UpCap
    BY <1>1, <2>1, ShorterTail DEF RoomInv
  <2>3. \A d \in Clients : up'[d] = IF d = c THEN Tail(up[c]) ELSE up[d]
    BY <1>1, <2>1
  <2>4. QED
    BY <2>1, <2>2, <2>3 DEF RoomInv
<1>3. CASE HandRequest(c)
  <2>1. /\ \/ /\ Len(queue[c]) < ReqCap
              /\ queue' = [queue EXCEPT ![c] = Append(queue[c], msg[c])]
           \/ queue' = queue
        /\ UNCHANGED <<up, input, down, using, news, asked, capturing>>
    BY <1>3 DEF HandRequest, HasRoom, network
  <2>2. Len(queue[c]) < ReqCap => Len(Append(queue[c], msg[c])) <= ReqCap
    BY <1>1, FitsWithRoom
  <2>3. \/ queue' = queue
        \/ /\ Len(Append(queue[c], msg[c])) <= ReqCap
           /\ \A d \in Clients :
                queue'[d] = IF d = c THEN Append(queue[c], msg[c]) ELSE queue[d]
    BY <1>1, <2>1, <2>2
  <2>4. QED
    BY <2>1, <2>3 DEF RoomInv
<1>4. CASE HandEvent(c)
  <2>1. /\ Len(input) < InputCap /\ input' = Append(input, <<c, msg[c][2]>>)
        /\ UNCHANGED <<up, queue, down, using, news, asked, capturing>>
    BY <1>4 DEF HandEvent, Offer, network
  <2>2. Len(input') <= InputCap
    BY <1>1, <2>1, FitsWithRoom
  <2>3. QED
    BY <2>1, <2>2 DEF RoomInv
<1>5. CASE ReadFails(c)
  <2>1. /\ up' = [up EXCEPT ![c] = <<>>]
        /\ UNCHANGED <<queue, input, down, using, news, asked, capturing>>
    BY <1>5 DEF ReadFails
  <2>2. \A d \in Clients : up'[d] = IF d = c THEN <<>> ELSE up[d]
    BY <1>1, <2>1
  <2>3. QED
    BY <2>1, <2>2, NoLength DEF RoomInv
<1>6. CASE Inject
  <2>1. /\ input # <<>> /\ input' = Tail(input)
        /\ UNCHANGED <<up, queue, down, using, news, asked, capturing>>
    BY <1>6 DEF Inject, network, tasks
  <2>2. Len(input') <= InputCap
    BY <1>1, <2>1, ShorterTail DEF RoomInv
  <2>3. QED
    BY <2>1, <2>2 DEF RoomInv
<1>7. QED
  BY <1>2, <1>3, <1>4, <1>5, <1>6 DEF ReaderStep

\* The writer loop ends, and its receivers go with it.
LEMMA WriterEndsKeepsRoom ==
  ASSUME RoomInv, FormatsInv, NEW c \in Clients, WriterEnds(c),
         UNCHANGED <<up, down, input, asked, capturing>>
  PROVE  RoomInv'
<1>1. /\ queue \in [Clients -> Seq(Messages)]
      /\ queue' = [queue EXCEPT ![c] = <<>>]
      /\ news' = [news EXCEPT ![c] = FALSE] /\ using' = [using EXCEPT ![c] = 0]
      /\ 0 \in 0..MaxFormat
  BY SessionAssumption DEF WriterEnds, FormatsInv, FormatTypes
<1>2. \A d \in Clients : queue'[d] = IF d = c THEN <<>> ELSE queue[d]
  BY <1>1
<1>3. QED
  BY SessionAssumption, <1>1, <1>2, NoLength DEF RoomInv

\* The writer's steps.
LEMMA WriterKeepsRoom ==
  ASSUME RoomInv, FormatsInv, NEW c \in Clients, WriterStep(c) \/ Return(c)
  PROVE  RoomInv'
<1> USE SessionAssumption
<1>1. /\ queue \in [Clients -> Seq(Messages)] /\ 0 \in 0..MaxFormat
      /\ format[c] \in 0..MaxFormat
  BY DEF FormatsInv, FormatTypes, FormatInv
<1>2. CASE TakeRequest(c)
  <2>1. /\ queue[c] # <<>> /\ queue' = [queue EXCEPT ![c] = Tail(queue[c])]
        /\ asked' = (asked \/ (Head(queue[c])[1] = "inc" /\ capturing))
        /\ UNCHANGED <<up, input, down, using, news, capturing>>
    BY <1>2 DEF TakeRequest, network
  <2>2. Len(Tail(queue[c])) <= ReqCap
    BY <1>1, <2>1, ShorterTail DEF RoomInv
  <2>3. \A d \in Clients : queue'[d] = IF d = c THEN Tail(queue[c]) ELSE queue[d]
    BY <1>1, <2>1
  <2>4. asked' \in BOOLEAN
    BY <2>1
  <2>5. QED
    BY <2>1, <2>2, <2>3, <2>4 DEF RoomInv
<1>3. CASE FrameArrives(c)
  BY <1>3 DEF FrameArrives, network, RoomInv
<1>4. CASE Compose(c)
  <2>1. /\ queue' = [queue EXCEPT ![c] = <<>>]
        /\ news' = [news EXCEPT ![c] = FALSE]
        /\ using' = [using EXCEPT ![c] = format[c]]
        /\ UNCHANGED <<up, input, down, asked, capturing>>
    BY <1>4 DEF Compose, Borrowed, network
  <2>2. \A d \in Clients : queue'[d] = IF d = c THEN <<>> ELSE queue[d]
    BY <1>1, <2>1
  <2>3. QED
    BY <1>1, <2>1, <2>2, NoLength DEF RoomInv
<1>5. CASE Write(c)
  <2>1. /\ down[c] < DownCap \/ ~open[c]
        /\ down' = [down EXCEPT ![c] = IF open[c] THEN down[c] + 1 ELSE down[c]]
        /\ using' = [using EXCEPT ![c] = 0]
        /\ UNCHANGED <<up, queue, input, news, asked, capturing>>
    BY <1>5 DEF Write
  <2>2. down[c] \in 0..DownCap
    BY DEF RoomInv
  <2>3. (IF open[c] THEN down[c] + 1 ELSE down[c]) \in 0..DownCap
    BY <2>1, <2>2
  <2>4. QED
    BY <1>1, <2>1, <2>3 DEF RoomInv
<1>6. CASE NoMoreFrames(c) \/ WriteFails(c) \/ Return(c)
  BY <1>6, WriterEndsKeepsRoom DEF NoMoreFrames, WriteFails, Return, network
<1>7. QED
  BY <1>2, <1>3, <1>4, <1>5, <1>6 DEF WriterStep

LEMMA RoomInvNext ==
  FormatsInv /\ EventsInv /\ RoomInv /\ [Next]_vars => RoomInv'
<1> SUFFICES ASSUME FormatsInv, EventsInv, RoomInv, [Next]_vars PROVE RoomInv'
  OBVIOUS
<1>1. ASSUME NEW c \in Clients,
             HandshakeStep(c) \/ HandshakeBroken(c) \/ Serve(c)
      PROVE  RoomInv'
  BY <1>1, OthersKeepRoom
  DEF HandshakeStep, HandshakeBroken, Serve, service, network, tasks
<1>2. ASSUME NEW c \in Clients,
             ReaderStep(c) \/ WriterStep(c) \/ Return(c) \/ ViewerStep(c)
      PROVE  RoomInv'
  BY <1>2, ReaderKeepsRoom, WriterKeepsRoom, ViewerKeepsRoom
<1>3. CASE Notify
  BY <1>3 DEF Notify, network, tasks, RoomInv
<1>4. CASE CaptureThreadEnds
  BY <1>4 DEF CaptureThreadEnds, network, tasks, RoomInv
<1>5. CASE Inject
  <2>1. PICK c \in Clients : TRUE
    BY <1>5, TailIndices DEF Inject, EventsInv, EventTypes
  <2>2. QED
    BY <1>5, ReaderKeepsRoom
<1>6. CASE UNCHANGED vars
  BY <1>6, OthersKeepRoom DEF vars, service, network, tasks
<1>7. QED
  BY <1>1, <1>2, <1>3, <1>4, <1>5, <1>6 DEF Next

\* A pair with a part in a smaller set.
LEMMA PairParts ==
  ASSUME NEW A, NEW B, NEW C, NEW e \in A \X B, e[2] \in C
  PROVE  e[1] \in A /\ e \in A \X C
  OBVIOUS

\* A sequence whose elements are all in some set is a sequence over that set.
LEMMA Retyped ==
  ASSUME NEW S, NEW s \in Seq(S), NEW T, \A i \in DOMAIN s : s[i] \in T
  PROVE  s \in Seq(T)
  OBVIOUS

\* The events in the channel are events their viewers sent.
LEMMA ChannelTypes ==
  ASSUME EventsInv, FormatsInv
  PROVE  /\ input \in Seq(Clients \X (1..MaxEvents))
         /\ injected \in [Clients -> 0..MaxEvents]
         /\ sent \in [Clients -> 0..MaxEvents]
<1> USE SessionAssumption DEF EventsInv, EventTypes
<1>1. ASSUME NEW c \in Clients
      PROVE  /\ injected[c] \in 0..MaxEvents /\ sent[c] \in 0..MaxEvents
             /\ \A i \in DOMAIN input :
                  input[i][1] = c => input[i][2] \in 1..MaxEvents
  <2>1. PICK h \in Nat, r \in Nat, q \in Nat : Pieces(c, h, r, q)
    BY DEF EventInv
  <2>2. injected[c] <= h /\ h <= r /\ r <= q /\ q <= sent[c]
    BY <2>1 DEF Pieces, Run
  <2>3. sent[c] <= MaxEvents /\ injected[c] \in Nat /\ sent[c] \in Nat
    BY DEF FormatsInv, FormatInv
  <2>4. \A i \in DOMAIN input :
          input[i][1] = c => input[i][2] \in injected[c] + 1..h
    BY <2>1 DEF Pieces, Run
  <2>5. MaxEvents \in Nat /\ h \in Nat /\ r \in Nat /\ q \in Nat
    BY SessionAssumption
  <2> HIDE DEF EventsInv, EventTypes
  <2>6. /\ injected[c] \in 0..MaxEvents /\ sent[c] \in 0..MaxEvents
        /\ \A n \in injected[c] + 1..h : n \in 1..MaxEvents
    BY <2>2, <2>3, <2>5
  <2>7. QED
    BY <2>4, <2>6
<1>2. ASSUME NEW i \in DOMAIN input
      PROVE  input[i] \in Clients \X (1..MaxEvents)
  <2>1. input[i] \in Clients \X Nat
    OBVIOUS
  <2>2. input[i][1] \in Clients
    BY <2>1
  <2>3. input[i][2] \in 1..MaxEvents
    BY <1>1, <2>2
  <2> HIDE DEF EventsInv, EventTypes
  <2>4. QED
    BY <2>1, <2>3, PairParts
<1>3. input \in Seq(Clients \X (1..MaxEvents))
  BY <1>2, Retyped
<1>4. QED
  BY <1>1, <1>3

\* Type correctness of a session, whatever the capacities: nothing is ever put
\* into a full channel or socket.
THEOREM TypeCorrect == Spec => []TypeOK
<1>1. HandshakeInv /\ FormatsInv /\ EventsInv /\ RoomInv => TypeOK
  <2> SUFFICES ASSUME HandshakeInv, FormatsInv, EventsInv, RoomInv PROVE TypeOK
    OBVIOUS
  <2>1. ASSUME NEW c \in Clients
        PROVE  /\ format[c] \in 0..MaxFormat /\ chosen[c] \in 0..MaxFormat
               /\ wanted[c] \in 0..MaxFormat
    <3>1. /\ format[c] \in Nat /\ chosen[c] \in Nat /\ wanted[c] \in Nat
          /\ wanted[c] <= format[c] /\ format[c] <= chosen[c]
          /\ chosen[c] <= MaxFormat /\ MaxFormat \in Nat
      BY SessionAssumption DEF FormatsInv, FormatTypes, FormatInv
    <3>2. QED
      BY <3>1
  <2>2. /\ format \in [Clients -> 0..MaxFormat]
        /\ chosen \in [Clients -> 0..MaxFormat]
        /\ wanted \in [Clients -> 0..MaxFormat]
    BY <2>1 DEF FormatsInv, FormatTypes
  <2>3. reader \in [Clients -> {"read", "hand", "off"}]
    BY DEF EventsInv, EventTypes
  <2>4. QED
    BY <2>2, <2>3, ChannelTypes
    DEF HandshakeInv, FormatsInv, FormatTypes, RoomInv, TypeOK
<1>2. Init => StartedInv
  BY DEF Init, StartedInv
<1>3. QED
  BY HandshakeInvInit, HandshakeInvNext, FormatsInvInit, FormatsInvNext,
     EventsInvInit, EventsInvNext, RoomInvInit, RoomInvNext, <1>1, <1>2, PTL
  DEF Spec
-----------------------------------------------------------------------------
(* Selecting the numbers with a tag. *)

\* A set of numbers with 0 that has the successor of each of its members has
\* them all.
LEMMA InductionOverNat ==
  ASSUME NEW S \in SUBSET Nat, 0 \in S, \A n \in S : n + 1 \in S
  PROVE  S = Nat
<1> DEFINE T == Nat \ S
           R == OpToRel(<, Nat)
<1>1. \A n \in Nat \ {0} : <<n - 1, n>> \in R
  BY DEF OpToRel
<1>2. IsWellFoundedOn(R, Nat)
  BY NatLessThanWellFounded
<1> HIDE DEF R
<1>3. SUFFICES ASSUME T # {} PROVE FALSE
  OBVIOUS
<1>4. PICK n \in T : \A m \in T : ~(<<m, n>> \in R)
  BY <1>2, <1>3, WFMin, Zenon
<1>5. n # 0 /\ n \in Nat /\ n - 1 \in Nat /\ (n - 1) + 1 = n
  BY <1>4
<1>6. n - 1 \notin T
  BY <1>1, <1>4, <1>5
<1>7. QED
  BY <1>4, <1>5, <1>6

\* One step of the selection, from what is selected before entry i.
Picked(s, tag, i, before) ==
  IF s[i][1] = tag THEN Append(before, s[i][2]) ELSE before

\* f selects in s: f[i] are the numbers among the first i entries.
Selects(f, s, tag) ==
  f[0] = <<>> /\ \A i \in 1..Len(s) : f[i] = Picked(s, tag, i, f[i - 1])

\* NumbersOf is defined: the function it stands for exists.
LEMMA SelectionExists ==
  ASSUME NEW S, NEW s \in Seq(S), NEW tag
  PROVE  \E f : Selects(f, s, tag) /\ NumbersOf(s, tag) = f[Len(s)]
<1> DEFINE Entry(f, i) == IF i = 0 THEN <<>>
                          ELSE IF s[i][1] = tag THEN Append(f[i - 1], s[i][2])
                          ELSE f[i - 1]
           Is(f, n) == f = [i \in 0..n |-> Entry(f, i)]
           E == {n \in Nat : \E f : Is(f, n)}
<1>1. 0 \in E
  <2> DEFINE f == [i \in 0..0 |-> <<>>]
  <2>1. f = [i \in 0..0 |-> Entry(f, i)]
    BY \A i \in 0..0 : i = 0
  <2>2. QED
    BY <2>1
<1>2. ASSUME NEW n \in E PROVE n + 1 \in E
  <2>1. n \in Nat /\ \E f : Is(f, n)
    OBVIOUS
  <2>2. PICK f : Is(f, n)
    BY <2>1
  <2> DEFINE g == [i \in 0..n + 1 |->
                     IF i = n + 1
                       THEN IF s[n + 1][1] = tag THEN Append(f[n], s[n + 1][2])
                            ELSE f[n]
                       ELSE f[i]]
  <2>3. ASSUME NEW i \in 0..n + 1 PROVE g[i] = Entry(g, i)
    <3>1. CASE i = n + 1
      <4>1. g[n] = f[n] /\ n + 1 # 0 /\ (n + 1) - 1 = n
        BY <2>1
      <4>2. QED
        BY <3>1, <4>1
    <3>2. CASE i # n + 1
      <4>1. i \in 0..n /\ g[i] = f[i]
        BY <2>1, <3>2
      <4>2. f[i] = Entry(f, i)
        BY <2>2, <4>1
      <4>3. i # 0 => g[i - 1] = f[i - 1]
        BY <2>1, <4>1
      <4>4. QED
        BY <4>1, <4>2, <4>3
    <3>3. QED
      BY <3>1, <3>2
  <2>4. DOMAIN g = 0..n + 1
    OBVIOUS
  <2>5. Is(g, n + 1)
    <3> DEFINE h == [i \in 0..n + 1 |-> Entry(g, i)]
    <3>1. DOMAIN h = 0..n + 1 /\ \A i \in 0..n + 1 : h[i] = g[i]
      BY <2>3
    <3>2. g = [i \in 0..n + 1 |-> g[i]] /\ h = [i \in 0..n + 1 |-> h[i]]
      OBVIOUS
    <3> HIDE DEF g, h
    <3>3. g = h
      BY <3>1, <3>2
    <3>4. QED
      BY <3>3 DEF h
  <2> HIDE DEF Is, g
  <2>6. QED
    BY <2>1, <2>5
<1>3. E = Nat
  <2> HIDE DEF Is
  <2>1. E \in SUBSET Nat
    OBVIOUS
  <2> HIDE DEF E
  <2>2. QED
    BY <1>1, <1>2, <2>1, InductionOverNat
<1>4. Len(s) \in Nat
  OBVIOUS
<1>5. \E f : Is(f, Len(s))
  BY <1>3, <1>4
<1>6. PICK f : Is(f, Len(s)) /\ NumbersOf(s, tag) = f[Len(s)]
  BY <1>5, Zenon DEF NumbersOf
<1>7. \A i \in 0..Len(s) : f[i] = Entry(f, i)
  BY <1>6
<1>8. Selects(f, s, tag)
  BY <1>4, <1>7 DEF Selects, Picked
<1>9. QED
  BY <1>6, <1>8

\* Two functions that select in s agree on it.
LEMMA SelectionUnique ==
  ASSUME NEW S, NEW s \in Seq(S), NEW tag, NEW f, NEW g,
         Selects(f, s, tag), Selects(g, s, tag)
  PROVE  f[Len(s)] = g[Len(s)]
<1> DEFINE E == {n \in Nat : n <= Len(s) => f[n] = g[n]}
<1>1. Len(s) \in Nat
  OBVIOUS
<1>2. 0 \in E
  BY DEF Selects
<1>3. ASSUME NEW n \in E PROVE n + 1 \in E
  <2> SUFFICES ASSUME n + 1 <= Len(s) PROVE f[n + 1] = g[n + 1]
    OBVIOUS
  <2>1. f[n] = g[n] /\ n + 1 \in 1..Len(s) /\ (n + 1) - 1 = n
    BY <1>1
  <2>2. /\ f[n + 1] = Picked(s, tag, n + 1, f[(n + 1) - 1])
        /\ g[n + 1] = Picked(s, tag, n + 1, g[(n + 1) - 1])
    BY <2>1 DEF Selects
  <2>3. QED
    BY <2>1, <2>2
<1>4. E = Nat
  <2>1. E \in SUBSET Nat
    OBVIOUS
  <2> HIDE DEF E
  <2>2. QED
    BY <1>2, <1>3, <2>1, InductionOverNat
<1>5. QED
  BY <1>1, <1>4

\* What a function selects is a sequence of the entries' numbers.
LEMMA SelectionTypes ==
  ASSUME NEW S, NEW s \in Seq(S), NEW T, \A i \in 1..Len(s) : s[i][2] \in T,
         NEW tag, NEW f, Selects(f, s, tag)
  PROVE  \A i \in 0..Len(s) : f[i] \in Seq(T)
<1> DEFINE E == {n \in Nat : n <= Len(s) => f[n] \in Seq(T)}
<1>1. Len(s) \in Nat
  OBVIOUS
<1>2. 0 \in E
  <2>1. f[0] = <<>> /\ <<>> \in Seq(T)
    BY DEF Selects
  <2>2. QED
    BY <2>1
<1>3. ASSUME NEW n \in E PROVE n + 1 \in E
  <2> SUFFICES ASSUME n + 1 <= Len(s) PROVE f[n + 1] \in Seq(T)
    OBVIOUS
  <2>1. f[n] \in Seq(T) /\ n + 1 \in 1..Len(s) /\ (n + 1) - 1 = n
    BY <1>1
  <2>2. f[n + 1] = Picked(s, tag, n + 1, f[n])
    BY <2>1 DEF Selects
  <2>3. s[n + 1][2] \in T
    BY <2>1
  <2>4. Append(f[n], s[n + 1][2]) \in Seq(T)
    BY <2>1, <2>3, AppendProperties
  <2>5. QED
    BY <2>1, <2>2, <2>4 DEF Picked
<1>4. E = Nat
  <2>1. E \in SUBSET Nat
    OBVIOUS
  <2> HIDE DEF E
  <2>2. QED
    BY <1>2, <1>3, <2>1, InductionOverNat
<1>5. QED
  BY <1>1, <1>4

\* The entries' numbers.
LEMMA SecondParts ==
  ASSUME NEW K, NEW T, NEW s \in Seq(K \X T)
  PROVE  \A i \in 1..Len(s) : s[i][2] \in T
<1> TAKE i \in 1..Len(s)
<1>1. s[i] \in K \X T
  OBVIOUS
<1>2. QED
  BY <1>1

\* NumbersOf is a sequence of numbers; of nothing, it is nothing.
LEMMA NumbersOfTypes ==
  ASSUME NEW K, NEW T, NEW s \in Seq(K \X T), NEW tag
  PROVE  NumbersOf(s, tag) \in Seq(T)
<1>1. PICK f : Selects(f, s, tag) /\ NumbersOf(s, tag) = f[Len(s)]
  BY SelectionExists
<1>2. Len(s) \in 0..Len(s)
  OBVIOUS
<1>3. \A i \in 1..Len(s) : s[i][2] \in T
  BY SecondParts
<1>4. \A i \in 0..Len(s) : f[i] \in Seq(T)
  BY <1>1, <1>3, SelectionTypes
<1>5. QED
  BY <1>1, <1>2, <1>4

LEMMA NumbersOfNothing == \A tag : NumbersOf(<<>>, tag) = <<>>
<1> TAKE tag
<1>1. <<>> \in Seq({}) /\ Len(<<>>) = 0
  OBVIOUS
<1>2. PICK f : Selects(f, <<>>, tag) /\ NumbersOf(<<>>, tag) = f[Len(<<>>)]
  BY <1>1, SelectionExists
<1>3. QED
  BY <1>1, <1>2 DEF Selects

\* An entry added at the end adds its number, if it has the tag.
LEMMA NumbersOfAppend ==
  ASSUME NEW S, NEW s \in Seq(S), NEW e \in S, NEW tag
  PROVE  NumbersOf(Append(s, e), tag) =
           IF e[1] = tag THEN Append(NumbersOf(s, tag), e[2])
           ELSE NumbersOf(s, tag)
<1> DEFINE t == Append(s, e)
           n == Len(s)
<1>1. /\ t \in Seq(S) /\ n \in Nat /\ Len(t) = n + 1 /\ t[n + 1] = e
      /\ \A i \in 1..n : t[i] = s[i]
  OBVIOUS
<1> HIDE DEF t, n
<1>2. PICK g : Selects(g, t, tag) /\ NumbersOf(t, tag) = g[n + 1]
  BY <1>1, SelectionExists
<1>3. Selects(g, s, tag)
  BY <1>1, <1>2 DEF Selects, Picked, n
<1>4. PICK f : Selects(f, s, tag) /\ NumbersOf(s, tag) = f[n]
  BY SelectionExists DEF n
<1>5. g[n] = NumbersOf(s, tag)
  BY <1>3, <1>4, SelectionUnique DEF n
<1>6. g[n + 1] = Picked(t, tag, n + 1, g[n])
  <2>1. n + 1 \in 1..Len(t) /\ (n + 1) - 1 = n
    BY <1>1
  <2>2. QED
    BY <1>2, <2>1 DEF Selects
<1>7. QED
  BY <1>1, <1>2, <1>5, <1>6 DEF Picked, t

\* Selecting behind something that is selected already.
Behind(first, rest) == first \o rest

Put(x, rest) == Behind(<<x>>, rest)

LEMMA PickedBehind ==
  ASSUME NEW T, NEW first \in Seq(T), NEW before \in Seq(T),
         NEW s, NEW tag, NEW i, s[i][2] \in T
  PROVE  Picked(s, tag, i, Behind(first, before))
           = Behind(first, Picked(s, tag, i, before))
<1>1. \A x \in T : Append(first \o before, x) = first \o Append(before, x)
  OBVIOUS
<1>2. QED
  BY <1>1 DEF Picked, Behind

\* The first entry comes first, if it has the tag.
LEMMA NumbersOfTail ==
  ASSUME NEW S, NEW s \in Seq(S), s # <<>>, \A i \in 1..Len(s) : s[i][2] \in Nat
  PROVE  \A tag : NumbersOf(s, tag) =
                    IF Head(s)[1] = tag
                      THEN Put(Head(s)[2], NumbersOf(Tail(s), tag))
                      ELSE NumbersOf(Tail(s), tag)
<1> TAKE tag
<1> DEFINE t == Tail(s)
           n == Len(t)
           first == IF s[1][1] = tag THEN <<s[1][2]>> ELSE <<>>
<1>1. /\ t \in Seq(S) /\ n \in Nat /\ Len(s) = n + 1 /\ Head(s) = s[1]
      /\ \A i \in 1..n : t[i] = s[i + 1]
  OBVIOUS
<1>a. s[1][2] \in Nat /\ \A i \in 1..n : t[i][2] \in Nat
  BY <1>1
<1> HIDE DEF t, n
<1>2. PICK f : Selects(f, s, tag) /\ NumbersOf(s, tag) = f[n + 1]
  BY <1>1, SelectionExists
<1>3. PICK g : Selects(g, t, tag) /\ NumbersOf(t, tag) = g[n]
  BY <1>1, SelectionExists DEF n
<1>4. /\ \A i \in 0..n : g[i] \in Seq(Nat)
      /\ first \in Seq(Nat)
  <2>1. \A i \in 0..n : g[i] \in Seq(Nat)
    BY <1>1, <1>a, <1>3, SelectionTypes DEF n
  <2>2. <<s[1][2]>> \in Seq(Nat) /\ <<>> \in Seq(Nat)
    BY <1>a
  <2>3. QED
    BY <2>1, <2>2
<1>b. first = IF s[1][1] = tag THEN <<s[1][2]>> ELSE <<>>
  OBVIOUS
<1> HIDE DEF first
<1> DEFINE E == {i \in Nat : i <= n => f[i + 1] = Behind(first, g[i])}
<1>5. 0 \in E
  <2>1. f[1] = Picked(s, tag, 1, <<>>)
    <3>1. 1 \in 1..Len(s) /\ 1 - 1 = 0
      BY <1>1
    <3>2. QED
      BY <1>2, <3>1 DEF Selects
  <2>2. f[1] = first
    <3>1. Append(<<>>, s[1][2]) = <<s[1][2]>>
      OBVIOUS
    <3>2. QED
      BY <1>b, <2>1, <3>1 DEF Picked
  <2>3. g[0] = <<>>
    BY <1>3 DEF Selects
  <2>4. Behind(first, <<>>) = first
    BY <1>4, ConcatEmptySeq DEF Behind
  <2>5. 0 + 1 = 1
    OBVIOUS
  <2>6. f[0 + 1] = Behind(first, g[0])
    BY <2>2, <2>3, <2>4, <2>5
  <2>7. QED
    BY <2>6
<1>6. ASSUME NEW i \in E PROVE i + 1 \in E
  <2> SUFFICES ASSUME i + 1 <= n PROVE f[(i + 1) + 1] = Behind(first, g[i + 1])
    OBVIOUS
  <2>1. /\ f[i + 1] = Behind(first, g[i]) /\ i \in 0..n /\ i + 1 \in 1..n
        /\ (i + 1) - 1 = i /\ ((i + 1) + 1) - 1 = i + 1
        /\ (i + 1) + 1 \in 1..Len(s) /\ t[i + 1] = s[(i + 1) + 1]
    BY <1>1
  <2>2. f[(i + 1) + 1] = Picked(s, tag, (i + 1) + 1, f[i + 1])
    BY <1>2, <2>1 DEF Selects
  <2>3. g[i + 1] = Picked(t, tag, i + 1, g[i])
    BY <1>3, <2>1 DEF Selects, n
  <2>4. t[i + 1][2] \in Nat /\ g[i] \in Seq(Nat)
    BY <1>a, <1>4, <2>1
  <2>5. Picked(t, tag, i + 1, Behind(first, g[i]))
          = Behind(first, Picked(t, tag, i + 1, g[i]))
    BY <1>4, <2>4, PickedBehind
  <2>6. Picked(s, tag, (i + 1) + 1, f[i + 1]) = Picked(t, tag, i + 1, f[i + 1])
    BY <2>1 DEF Picked
  <2>7. QED
    BY <2>1, <2>2, <2>3, <2>5, <2>6
<1>7. E = Nat
  <2>1. E \in SUBSET Nat
    OBVIOUS
  <2> HIDE DEF E
  <2>2. QED
    BY <1>5, <1>6, <2>1, InductionOverNat
<1>8. f[n + 1] = Behind(first, g[n])
  <2>1. n \in Nat /\ n <= n
    BY <1>1
  <2> HIDE DEF E
  <2>2. n \in E
    BY <1>7, <2>1
  <2> USE DEF E
  <2>3. QED
    BY <2>1, <2>2
<1>9. Behind(<<>>, g[n]) = g[n]
  BY <1>1, <1>4, ConcatEmptySeq DEF Behind
<1>10. QED
  BY <1>1, <1>b, <1>2, <1>3, <1>8, <1>9 DEF t, Put

-----------------------------------------------------------------------------
(* The way of an event as one queue. *)

\* A queue in three parts.
Parts(a, b, d) == (a \o b) \o d

Added(a, x) == Append(a, x)

\* Adding to the end, taking from the front, and losing the last part.
LEMMA PartsSend ==
  ASSUME NEW S, NEW a \in Seq(S), NEW b \in Seq(S), NEW d \in Seq(S), NEW x \in S
  PROVE  Parts(a, b, Added(d, x)) = Added(Parts(a, b, d), x)
  BY DEF Parts, Added

LEMMA PartsTake ==
  ASSUME NEW S, NEW a \in Seq(S), NEW b \in Seq(S), NEW d \in Seq(S), NEW x \in S
  PROVE  /\ Parts(Put(x, a), b, d) # <<>>
         /\ Tail(Parts(Put(x, a), b, d)) = Parts(a, b, d)
  BY DEF Parts, Put, Behind

LEMMA PartsLose ==
  ASSUME NEW S, NEW a \in Seq(S), NEW b \in Seq(S), NEW d \in Seq(S)
  PROVE  \E n \in 0..Len(Parts(a, b, d)) :
           SubSeq(Parts(a, b, d), 1, n) = Parts(a, b, <<>>)
<1> DEFINE ab == a \o b
<1>1. ab \in Seq(S)
  OBVIOUS
<1> HIDE DEF ab
<1>2. Len(ab) \in 0..Len(ab \o d) /\ SubSeq(ab \o d, 1, Len(ab)) = ab \o <<>>
  BY <1>1
<1>3. QED
  BY <1>2 DEF Parts, ab

\* An element passes from the last part to the middle, and from there to the
\* first.
LEMMA PartsPass ==
  ASSUME NEW S, NEW a \in Seq(S), NEW d \in Seq(S), NEW x \in S
  PROVE  /\ Parts(a, <<>>, Put(x, d)) = Parts(a, <<x>>, d)
         /\ Parts(a, <<x>>, d) = Parts(Append(a, x), <<>>, d)
  BY DEF Parts, Put, Behind

\* The event the reader holds.
Held(c) == IF msg[c][1] = "event" THEN <<msg[c][2]>> ELSE <<>>

Flows == [c \in Clients |-> Flow(c)]

\* The parts of a viewer's queue.
LEMMA FlowParts ==
  ASSUME EventTypes, NEW c \in Clients
  PROVE  /\ NumbersOf(input, c) \in Seq(Nat) /\ Held(c) \in Seq(Nat)
         /\ NumbersOf(up[c], "event") \in Seq(Nat)
         /\ Flow(c) = Parts(NumbersOf(input, c), Held(c), NumbersOf(up[c], "event"))
<1>1. NumbersOf(input, c) \in Seq(Nat)
  BY NumbersOfTypes DEF EventTypes
<1>2. NumbersOf(up[c], "event") \in Seq(Nat)
  <2>1. up[c] \in Seq(Kinds \X Nat)
    BY DEF EventTypes, Wire
  <2>2. QED
    BY <2>1, NumbersOfTypes
<1>3. Held(c) \in Seq(Nat)
  <2>1. msg[c][2] \in Nat
    BY DEF EventTypes, Wire
  <2>2. QED
    BY <2>1 DEF Held
<1>4. QED
  BY <1>1, <1>2, <1>3 DEF Flow, Held, Parts

\* A step that leaves the parts alone.
LEMMA SameFlow ==
  ASSUME NEW c, NumbersOf(input', c) = NumbersOf(input, c),
         msg'[c] = msg[c] \/ (msg[c][1] # "event" /\ msg'[c][1] # "event"),
         NumbersOf(up'[c], "event") = NumbersOf(up[c], "event")
  PROVE  Flow(c)' = Flow(c)
  BY DEF Flow

\* A step that changes one viewer's queue.
LEMMA OneFlow ==
  ASSUME NEW c \in Clients, \A d \in Clients : d # c => Flow(d)' = Flow(d)
  PROVE  Flows' = [Flows EXCEPT ![c] = Flow(c)']
  BY DEF Flows

LEMMA NoFlow ==
  ASSUME \A c \in Clients : Flow(c)' = Flow(c)
  PROVE  Flows' = Flows
  BY DEF Flows

\* What a message in the socket is made of.
LEMMA WireParts ==
  ASSUME EventTypes, NEW c \in Clients
  PROVE  /\ up[c] \in Seq(Kinds \X Nat)
         /\ up[c] # <<>> => Head(up[c])[2] \in Nat /\ Tail(up[c]) \in Seq(Kinds \X Nat)
         /\ msg[c][2] \in Nat
         /\ reader[c] # "hand" => msg[c][1] # "event"
<1>1. up[c] \in Seq(Kinds \X Nat) /\ msg[c][2] \in Nat
  BY DEF EventTypes, Wire
<1>2. ASSUME up[c] # <<>>
      PROVE  Head(up[c])[2] \in Nat /\ Tail(up[c]) \in Seq(Kinds \X Nat)
  <2>1. Head(up[c]) \in Kinds \X Nat /\ Tail(up[c]) \in Seq(Kinds \X Nat)
    BY <1>1, <1>2, TailIndices
  <2>2. QED
    BY <2>1
<1>3. reader[c] # "hand" => msg[c][1] # "event"
  BY DEF EventTypes, NoMsg
<1>4. QED
  BY <1>1, <1>2, <1>3

\* Reading a message moves an event from the socket to the reader.
LEMMA ReadFlow ==
  ASSUME EventTypes, NEW c \in Clients, Read(c)
  PROVE  Flows' = Flows
<1> DEFINE m == Head(up[c])
           a == NumbersOf(input, c)
           u == NumbersOf(Tail(up[c]), "event")
<1>1. /\ up[c] # <<>> /\ up \in [Clients -> Seq(Wire)] /\ msg \in [Clients -> Wire]
      /\ up' = [up EXCEPT ![c] = Tail(@)] /\ input' = input
      /\ IF IsRequest(m) \/ m[1] = "event"
           THEN msg' = [msg EXCEPT ![c] = m] ELSE msg' = msg
      /\ reader[c] = "read"
  BY DEF Read, EventTypes
<1>2. ASSUME NEW d \in Clients, d # c PROVE Flow(d)' = Flow(d)
  <2>1. up'[d] = up[d] /\ msg'[d] = msg[d]
    BY <1>1, <1>2
  <2>2. QED
    BY <1>1, <2>1, SameFlow
<1>3. /\ up'[c] = Tail(up[c]) /\ msg[c][1] # "event" /\ m[2] \in Nat
      /\ Tail(up[c]) \in Seq(Kinds \X Nat)
      /\ msg'[c] = IF IsRequest(m) \/ m[1] = "event" THEN m ELSE msg[c]
  BY <1>1, WireParts
<1>4. NumbersOf(up[c], "event") = IF m[1] = "event" THEN Put(m[2], u) ELSE u
  <2>1. up[c] \in Seq(Kinds \X Nat) /\ up[c] # <<>>
    BY <1>1, WireParts
  <2>2. \A i \in 1..Len(up[c]) : up[c][i][2] \in Nat
    BY <2>1, SecondParts
  <2>3. QED
    BY <2>1, <2>2, NumbersOfTail
<1>5. CASE m[1] = "event"
  <2>1. Flow(c) = Parts(a, <<>>, Put(m[2], u)) /\ a \in Seq(Nat)
    BY <1>3, <1>4, <1>5, FlowParts DEF Held
  <2>2. u \in Seq(Nat)
    BY <1>3, NumbersOfTypes
  <2>3. Flow(c)' = Parts(a, <<m[2]>>, u)
    BY <1>1, <1>3, <1>5 DEF Flow, Parts
  <2> HIDE DEF m, a, u
  <2>4. Flow(c)' = Flow(c)
    BY <1>3, <2>1, <2>2, <2>3, PartsPass
  <2>5. QED
    BY <1>2, <2>4, NoFlow
<1>6. CASE m[1] # "event"
  <2>1. /\ NumbersOf(up'[c], "event") = NumbersOf(up[c], "event")
        /\ msg[c][1] # "event" /\ msg'[c][1] # "event"
    BY <1>3, <1>4, <1>6
  <2>2. Flow(c)' = Flow(c)
    BY <1>1, <2>1, SameFlow
  <2>3. QED
    BY <1>2, <2>2, NoFlow
<1>7. QED
  BY <1>5, <1>6

\* Handing an event on moves it from the reader to the channel.
LEMMA HandEventFlow ==
  ASSUME EventTypes, NEW c \in Clients, HandEvent(c)
  PROVE  Flows' = Flows
<1> DEFINE x == msg[c][2]
           e == <<c, x>>
           a == NumbersOf(input, c)
           u == NumbersOf(up[c], "event")
<1>1. /\ input \in Seq(Clients \X Nat) /\ msg \in [Clients -> Wire]
      /\ input' = Append(input, e) /\ up' = up
      /\ msg' = [msg EXCEPT ![c] = NoMsg] /\ msg[c][1] = "event"
      /\ x \in Nat
  BY WireParts DEF HandEvent, Offer, network, EventTypes
<1>2. e \in Clients \X Nat
  BY <1>1
<1>3. ASSUME NEW d \in Clients
      PROVE  NumbersOf(input', d) = IF d = c THEN Append(NumbersOf(input, d), x)
                                    ELSE NumbersOf(input, d)
  <2>1. e[1] = c /\ e[2] = x
    OBVIOUS
  <2> HIDE DEF e
  <2>2. NumbersOf(Append(input, e), d) =
          IF e[1] = d THEN Append(NumbersOf(input, d), e[2])
          ELSE NumbersOf(input, d)
    BY <1>1, <1>2, NumbersOfAppend
  <2>3. QED
    BY <1>1, <2>1, <2>2
<1>4. ASSUME NEW d \in Clients, d # c PROVE Flow(d)' = Flow(d)
  <2>1. NumbersOf(input', d) = NumbersOf(input, d) /\ msg'[d] = msg[d]
    BY <1>1, <1>3, <1>4
  <2>2. QED
    BY <1>1, <2>1, SameFlow
<1>5. /\ Flow(c) = Parts(a, <<x>>, u) /\ a \in Seq(Nat) /\ u \in Seq(Nat)
  BY <1>1, FlowParts DEF Held
<1>6. Flow(c)' = Parts(Append(a, x), <<>>, u)
  <2>1. NumbersOf(input', c) = Append(a, x) /\ msg'[c][1] # "event"
    BY <1>1, <1>3 DEF NoMsg
  <2>2. QED
    BY <1>1, <2>1 DEF Flow, Parts
<1> HIDE DEF x, a, u
<1>7. Flow(c)' = Flow(c)
  BY <1>1, <1>5, <1>6, PartsPass
<1>8. QED
  BY <1>4, <1>7, NoFlow

\* Handing a request on moves no event.
LEMMA HandRequestFlow ==
  ASSUME EventTypes, NEW c \in Clients, HandRequest(c)
  PROVE  Flows' = Flows
<1>1. /\ msg \in [Clients -> Wire] /\ UNCHANGED <<input, up>>
      /\ msg' = [msg EXCEPT ![c] = NoMsg] /\ msg[c][1] # "event"
  BY DEF HandRequest, IsRequest, network, EventTypes
<1>2. \A d \in Clients : \/ msg'[d] = msg[d]
                         \/ msg[d][1] # "event" /\ msg'[d][1] # "event"
  BY <1>1 DEF NoMsg
<1>3. \A d \in Clients : Flow(d)' = Flow(d)
  BY <1>1, <1>2, SameFlow
<1>4. QED
  BY <1>3, NoFlow

\* A message that is sent adds its event to the end of the queue, if it is one.
LEMMA ViewerSendsFlow ==
  ASSUME EventTypes, NEW c \in Clients, ViewerSends(c)
  PROVE  \/ Flows' = Flows
         \/ \E n \in 1..MaxEvents : Flows' = [Flows EXCEPT ![c] = Append(@, n)]
<1>1. /\ up \in [Clients -> Seq(Wire)] /\ UNCHANGED <<input, msg>>
      /\ up[c] \in Seq(Kinds \X Nat)
  BY WireParts DEF ViewerSends, tasks, EventTypes
<1>2. ASSUME NEW m \in Kinds \X Nat, up' = [up EXCEPT ![c] = Append(@, m)]
      PROVE  /\ \A d \in Clients : d # c => Flow(d)' = Flow(d)
             /\ m[1] # "event" => Flow(c)' = Flow(c)
             /\ m[1] = "event" => Flow(c)' = Append(Flow(c), m[2])
  <2>1. /\ up'[c] = Append(up[c], m)
        /\ \A d \in Clients : d # c => up'[d] = up[d]
    BY <1>1, <1>2
  <2>2. NumbersOf(up'[c], "event") =
          IF m[1] = "event" THEN Append(NumbersOf(up[c], "event"), m[2])
          ELSE NumbersOf(up[c], "event")
    BY <1>1, <2>1, NumbersOfAppend
  <2>3. \A d \in Clients : d # c => Flow(d)' = Flow(d)
    BY <1>1, <2>1, SameFlow
  <2>4. m[1] # "event" => Flow(c)' = Flow(c)
    BY <1>1, <2>2, SameFlow
  <2>5. ASSUME m[1] = "event" PROVE Flow(c)' = Append(Flow(c), m[2])
    <3> DEFINE a == NumbersOf(input, c)
               b == Held(c)
               u == NumbersOf(up[c], "event")
               x == m[2]
    <3>1. /\ a \in Seq(Nat) /\ b \in Seq(Nat) /\ u \in Seq(Nat)
          /\ Flow(c) = Parts(a, b, u)
      BY FlowParts
    <3>2. x \in Nat
      OBVIOUS
    <3>3. Flow(c)' = Parts(a, b, Added(u, x))
      BY <1>1, <2>2, <2>5 DEF Flow, Parts, Held, Added
    <3> HIDE DEF a, b, u, x
    <3>4. Parts(a, b, Added(u, x)) = Added(Parts(a, b, u), x)
      BY <3>1, <3>2, PartsSend
    <3>5. QED
      BY <3>1, <3>3, <3>4 DEF x, Added
  <2>6. QED
    BY <2>3, <2>4, <2>5
<1>3. CASE /\ \E kind \in {"inc", "full", "bad"} :
                up' = [up EXCEPT ![c] = Append(@, <<kind, chosen[c]>>)]
           /\ UNCHANGED <<sent, chosen>>
  <2>1. PICK kind \in {"inc", "full", "bad"} :
          up' = [up EXCEPT ![c] = Append(@, <<kind, chosen[c]>>)]
    BY <1>3
  <2>2. /\ <<kind, chosen[c]>> \in Kinds \X Nat
        /\ <<kind, chosen[c]>>[1] # "event"
    BY DEF EventTypes, Kinds
  <2>3. \A d \in Clients : Flow(d)' = Flow(d)
    BY <1>2, <2>1, <2>2
  <2>4. QED
    BY <2>3, NoFlow
<1>4. CASE /\ sent[c] < MaxEvents
           /\ sent' = [sent EXCEPT ![c] = @ + 1] /\ chosen' = chosen
           /\ up' = [up EXCEPT ![c] = Append(@, <<"event", sent'[c]>>)]
  <2> DEFINE n == sent'[c]
             m == <<"event", n>>
  <2>1. n \in 1..MaxEvents /\ n \in Nat
    <3>1. sent[c] \in Nat /\ MaxEvents \in Nat /\ sent[c] < MaxEvents
          /\ sent'[c] = sent[c] + 1
      BY <1>4, SessionAssumption DEF EventTypes
    <3>2. QED
      BY <3>1
  <2>2. m \in Kinds \X Nat /\ m[1] = "event" /\ m[2] = n
    BY <2>1 DEF Kinds
  <2>3. up' = [up EXCEPT ![c] = Append(@, m)]
    BY <1>4
  <2> HIDE DEF m
  <2>4. /\ \A d \in Clients : d # c => Flow(d)' = Flow(d)
        /\ Flow(c)' = Append(Flow(c), n)
    BY <1>2, <2>2, <2>3
  <2>5. Flows' = [Flows EXCEPT ![c] = Append(@, n)]
    <3>1. Flows' = [Flows EXCEPT ![c] = Flow(c)']
      BY <2>4, OneFlow
    <3>2. Flows[c] = Flow(c)
      BY DEF Flows
    <3> HIDE DEF n
    <3>3. QED
      BY <2>4, <3>1, <3>2
  <2>6. QED
    BY <2>1, <2>5
<1>5. CASE /\ chosen' = [chosen EXCEPT ![c] = @ + 1] /\ sent' = sent
           /\ up' = [up EXCEPT ![c] = Append(@, <<"format", chosen'[c]>>)]
  <2>1. chosen'[c] \in Nat
    BY <1>5 DEF EventTypes
  <2>2. /\ <<"format", chosen'[c]>> \in Kinds \X Nat
        /\ <<"format", chosen'[c]>>[1] # "event"
    BY <2>1 DEF Kinds
  <2>3. \A d \in Clients : Flow(d)' = Flow(d)
    BY <1>2, <1>5, <2>2
  <2>4. QED
    BY <2>3, NoFlow
<1>6. QED
  BY <1>3, <1>4, <1>5 DEF ViewerSends

\* The end of a reader whose viewer has left loses what is in the socket.
LEMMA ReadFailsFlow ==
  ASSUME EventTypes, NEW c \in Clients, ReadFails(c)
  PROVE  \E n \in 0..Len(Flow(c)) :
           Flows' = [Flows EXCEPT ![c] = SubSeq(@, 1, n)]
<1> DEFINE a == NumbersOf(input, c)
           b == Held(c)
           u == NumbersOf(up[c], "event")
<1>1. /\ up \in [Clients -> Seq(Wire)] /\ UNCHANGED <<input, msg>>
      /\ up' = [up EXCEPT ![c] = <<>>]
  BY DEF ReadFails, EventTypes
<1>2. /\ \A d \in Clients : d # c => up'[d] = up[d]
      /\ up'[c] = <<>>
  BY <1>1
<1>3. \A d \in Clients : d # c => Flow(d)' = Flow(d)
  BY <1>1, <1>2, SameFlow
<1>4. /\ a \in Seq(Nat) /\ b \in Seq(Nat) /\ u \in Seq(Nat)
      /\ Flow(c) = Parts(a, b, u)
  BY FlowParts
<1>5. Flow(c)' = Parts(a, b, <<>>)
  <2>1. NumbersOf(<<>>, "event") = <<>>
    BY NumbersOfNothing
  <2>2. QED
    BY <1>1, <1>2, <2>1 DEF Flow, Parts, Held
<1> HIDE DEF a, b, u
<1>6. PICK n \in 0..Len(Flow(c)) : SubSeq(Flow(c), 1, n) = Flow(c)'
  BY <1>4, <1>5, PartsLose
<1>7. Flows' = [Flows EXCEPT ![c] = Flow(c)'] /\ Flows[c] = Flow(c)
  BY <1>3, OneFlow DEF Flows
<1>8. Flows' = [Flows EXCEPT ![c] = SubSeq(@, 1, n)]
  BY <1>6, <1>7
<1>9. QED
  BY <1>8

\* input_loop takes the first event of some viewer's queue.
LEMMA InjectFlow ==
  ASSUME EventTypes, Inject
  PROVE  \E c \in Clients : /\ Flow(c) # <<>>
                            /\ Flows' = [Flows EXCEPT ![c] = Tail(@)]
<1>1. /\ input \in Seq(Clients \X Nat) /\ input # <<>> /\ input' = Tail(input)
      /\ UNCHANGED <<up, msg>>
  BY DEF Inject, network, tasks, EventTypes
<1>2. Head(input) \in Clients \X Nat /\ Tail(input) \in Seq(Clients \X Nat)
  BY <1>1, TailIndices
<1>a. \A d : NumbersOf(input, d) =
               IF Head(input)[1] = d
                 THEN Put(Head(input)[2], NumbersOf(input', d))
                 ELSE NumbersOf(input', d)
  <2>1. \A i \in 1..Len(input) : input[i][2] \in Nat
    BY <1>1, SecondParts
  <2>2. QED
    BY <1>1, <2>1, NumbersOfTail
<1>3. PICK c \in Clients, x \in Nat :
        \A d : NumbersOf(input, d) = IF c = d THEN Put(x, NumbersOf(input', d))
                                     ELSE NumbersOf(input', d)
  <2>1. Head(input)[1] \in Clients /\ Head(input)[2] \in Nat
    BY <1>2
  <2>2. QED
    BY <1>a, <2>1
<1>4. \A d \in Clients : d # c => Flow(d)' = Flow(d)
  BY <1>1, <1>3, SameFlow
<1> DEFINE a == NumbersOf(input', c)
           b == Held(c)
           u == NumbersOf(up[c], "event")
<1>5. /\ b \in Seq(Nat) /\ u \in Seq(Nat)
      /\ Flow(c) = Parts(Put(x, a), b, u)
  BY <1>2, <1>3, FlowParts
<1>6. a \in Seq(Nat)
  BY <1>1, <1>2, NumbersOfTypes
<1>7. Flow(c)' = Parts(a, b, u)
  BY <1>1 DEF Flow, Parts, Held
<1> HIDE DEF a, b, u
<1>8. Flow(c) # <<>> /\ Tail(Flow(c)) = Flow(c)'
  <2>1. /\ Parts(Put(x, a), b, u) # <<>>
        /\ Tail(Parts(Put(x, a), b, u)) = Parts(a, b, u)
    BY <1>5, <1>6, PartsTake
  <2>2. QED
    BY <1>5, <1>7, <2>1
<1>9. Flows' = [Flows EXCEPT ![c] = Flow(c)'] /\ Flows[c] = Flow(c)
  BY <1>2, <1>4, OneFlow DEF Flows
<1>10. Flows' = [Flows EXCEPT ![c] = Tail(@)]
  BY <1>8, <1>9
<1>11. QED
  BY <1>2, <1>8, <1>10

\* Every step of a session is a step of the queue, or none of it.
LEMMA FifoNext ==
  EventsInv /\ [Next]_vars => [Fifo!Next]_(Fifo!vars)
<1> SUFFICES ASSUME EventsInv, [Next]_vars
             PROVE  Fifo!Next \/ UNCHANGED Fifo!vars
  OBVIOUS
<1>1. EventTypes /\ open \in [Clients -> BOOLEAN]
  BY DEF EventsInv, EventTypes
<1>2. Flows' = Flows /\ open' = open => UNCHANGED Fifo!vars
  BY DEF Fifo!vars, Flows
<1>3. UNCHANGED <<input, msg, up>> => Flows' = Flows
  <2> SUFFICES ASSUME UNCHANGED <<input, msg, up>> PROVE Flows' = Flows
    OBVIOUS
  <2>1. \A c \in Clients : Flow(c)' = Flow(c)
    BY DEF Flow
  <2>2. QED
    BY <2>1, NoFlow
<1>4. ASSUME NEW c \in Clients,
             HandshakeStep(c) \/ HandshakeBroken(c) \/ Serve(c) \/ WriterStep(c)
               \/ Return(c) \/ ViewerReads(c)
      PROVE  UNCHANGED Fifo!vars
  <2>1. UNCHANGED <<input, msg, up, open>>
    BY <1>4
    DEF HandshakeStep, HandshakeBroken, Serve, WriterStep, TakeRequest,
        FrameArrives, NoMoreFrames, Compose, Write, WriteFails, Return,
        ViewerReads, service, network, tasks
  <2>2. QED
    BY <1>2, <1>3, <2>1
<1>5. CASE Notify \/ CaptureThreadEnds \/ UNCHANGED vars
  <2>1. UNCHANGED <<input, msg, up, open>>
    BY <1>5 DEF Notify, CaptureThreadEnds, vars, service, network, tasks
  <2>2. QED
    BY <1>2, <1>3, <2>1
<1>6. ASSUME NEW c \in Clients, ViewerSends(c)
      PROVE  Fifo!Next \/ UNCHANGED Fifo!vars
  <2>1. open[c] /\ open' = open
    BY <1>6 DEF ViewerSends
  <2>2. ASSUME NEW n \in 1..MaxEvents,
               Flows' = [Flows EXCEPT ![c] = Append(@, n)]
        PROVE  Fifo!Send(c, n)
    BY <2>1, <2>2 DEF Fifo!Send, Flows
  <2>3. QED
    BY <1>1, <1>2, <1>6, <2>1, <2>2, ViewerSendsFlow DEF Fifo!Next
<1>7. ASSUME NEW c \in Clients, ViewerCloses(c) PROVE Fifo!Next
  <2>1. /\ open[c] /\ open' = [open EXCEPT ![c] = FALSE]
        /\ UNCHANGED <<input, msg, up>>
    BY <1>7 DEF ViewerCloses, tasks
  <2>2. Fifo!Leave(c)
    BY <1>3, <2>1 DEF Fifo!Leave, Flows
  <2>3. QED
    BY <2>2 DEF Fifo!Next
<1>8. ASSUME NEW c \in Clients, Read(c) \/ HandRequest(c) \/ HandEvent(c)
      PROVE  UNCHANGED Fifo!vars
  <2>1. open' = open
    BY <1>8 DEF Read, HandRequest, HandEvent, network
  <2>2. QED
    BY <1>1, <1>2, <1>8, <2>1, ReadFlow, HandRequestFlow, HandEventFlow
<1>9. ASSUME NEW c \in Clients, ReadFails(c) PROVE Fifo!Next
  <2>1. ~open[c] /\ open' = open
    BY <1>9 DEF ReadFails
  <2>2. PICK n \in 0..Len(Flow(c)) :
          Flows' = [Flows EXCEPT ![c] = SubSeq(@, 1, n)]
    BY <1>1, <1>9, ReadFailsFlow
  <2>3. Flows[c] = Flow(c)
    BY DEF Flows
  <2>4. Fifo!Lose(c)
    BY <2>1, <2>2, <2>3 DEF Fifo!Lose, Flows
  <2>5. QED
    BY <2>4 DEF Fifo!Next
<1>10. CASE Inject
  <2>1. PICK c \in Clients : /\ Flow(c) # <<>>
                             /\ Flows' = [Flows EXCEPT ![c] = Tail(@)]
    BY <1>1, <1>10, InjectFlow
  <2>2. open' = open /\ Flows[c] = Flow(c)
    BY <1>10 DEF Inject, network, Flows
  <2>3. Fifo!Take(c)
    BY <2>1, <2>2 DEF Fifo!Take, Flows
  <2>4. QED
    BY <2>3 DEF Fifo!Next
<1>11. QED
  BY <1>4, <1>5, <1>6, <1>7, <1>8, <1>9, <1>10 DEF Next, ReaderStep, ViewerStep

\* For any number of viewers, any number of events and any capacities, the
\* socket, the reader task and the channel all sessions share behave as one
\* queue per viewer: nothing is left out, doubled or overtaken, and only the
\* end of it can be lost, when the viewer has left.
THEOREM InputIsAQueue == Spec => InputIsFifo
<1>1. Init => Fifo!Init
  <2> SUFFICES ASSUME Init PROVE Fifo!Init
    OBVIOUS
  <2>1. ASSUME NEW c \in Clients PROVE Flow(c) = <<>>
    <3>1. input = <<>> /\ up[c] = <<>> /\ msg[c][1] # "event"
      BY DEF Init, NoMsg
    <3>2. Flow(c) = (<<>> \o <<>>) \o <<>>
      BY <3>1, NumbersOfNothing DEF Flow
    <3>3. QED
      BY <3>2
  <2>2. QED
    BY <2>1 DEF Init, Fifo!Init
<1>2. Init => StartedInv
  BY DEF Init, StartedInv
<1>3. QED
  BY HandshakeInvInit, HandshakeInvNext, EventsInvInit, EventsInvNext,
     FifoNext, <1>1, <1>2, PTL
  DEF Spec, InputIsFifo, Fifo!Spec

=============================================================================
