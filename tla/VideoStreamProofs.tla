-------------------------- MODULE VideoStreamProofs --------------------------
(***************************************************************************)
(* Theorems about VideoStream, for every number of clients, every distance *)
(* of keyframes, every rate limit and every size of socket.                *)
(***************************************************************************)
EXTENDS VideoStream, TLAPS

\* The types the argument needs.
StreamTypes ==
  /\ key \in BOOLEAN /\ waiting \in BOOLEAN
  /\ pc \in {"idle", "accept", "deliver", "write"}
  /\ client \in Clients \cup {NoClient}
  /\ backlog \in Seq(Clients)
  /\ picture \in
       [Clients -> {"nothing", "current", "behind", "lost", "garbled"}]

\* There is a client, and it has had its first keyframe.
Streaming == client # NoClient /\ ~waiting

\* A client that is being streamed to has all but the packet being submitted;
\* what is about to be written is a keyframe, or the packet after its last.
DecodableInv ==
  /\ NeverGarbled
  /\ ServedIsCurrent
  /\ pc \in {"accept", "deliver"} /\ Streaming => picture[client] = "behind"
  /\ pc = "write" => Streaming /\ (key \/ picture[client] = "behind")
  /\ pipe.sink = "null" => client = NoClient /\ backlog = <<>>

StreamInv == StreamTypes /\ DecodableInv

\* The backlog is a sequence when it is emptied, and when its head is taken.
LEMMA BacklogTypes ==
  /\ <<>> \in Seq(Clients)
  /\ \A s \in Seq(Clients) : s # <<>> => /\ Head(s) \in Clients
                                        /\ Tail(s) \in Seq(Clients)
  OBVIOUS

\* Initially there is no client and nobody shows anything.
LEMMA StreamInvInit == Init => StreamInv
  BY StreamAssumption, BacklogTypes
  DEF Init, StreamInv, StreamTypes, DecodableInv, NeverGarbled, ServedIsCurrent,
      Streaming

\* Every step keeps the invariant.
LEMMA StreamInvNext == StreamInv /\ [Next]_vars => StreamInv'
<1> SUFFICES ASSUME StreamInv, [Next]_vars PROVE StreamInv'
  OBVIOUS
<1> USE StreamAssumption
    DEF StreamInv, StreamTypes, DecodableInv, NeverGarbled, ServedIsCurrent,
        Streaming, stream, sink, ends
<1>1. CASE Tick
  BY <1>1 DEF Tick
<1>2. CASE Encode
  <2>1. /\ key' \in BOOLEAN
        /\ picture' \in
             [Clients -> {"nothing", "current", "behind", "lost", "garbled"}]
    BY <1>2 DEF Encode, KeyDue
  <2>2. \A c \in Clients : /\ picture'[c] # "garbled"
                           /\ picture[c] = "current" => picture'[c] = "behind"
    BY <1>2 DEF Encode
  <2>3. QED
    BY <1>2, <2>1, <2>2 DEF Encode
<1>3. CASE PipelineFails
  BY <1>3, BacklogTypes DEF PipelineFails
<1>4. CASE Discard
  BY <1>4 DEF Discard
<1>5. CASE Accept
  BY <1>5, BacklogTypes DEF Accept, NobodyAsks, WaitsAtFirst
<1>6. CASE Deliver
  BY <1>6 DEF Deliver
<1>7. CASE Write
  BY <1>7 DEF Write, Decoded
<1>8. CASE WriteFails
  BY <1>8 DEF WriteFails, ClientAfterError
<1>9. ASSUME NEW c \in Clients, ClientStep(c) PROVE StreamInv'
  BY <1>9 DEF ClientStep, Connect, Read, Close
<1>10. CASE UNCHANGED vars
  BY <1>10 DEF vars
<1>11. QED
  BY <1>1, <1>2, <1>3, <1>4, <1>5, <1>6, <1>7, <1>8, <1>9, <1>10 DEF Next, Submit

\* No client is ever written a packet it has not the reference for.
THEOREM StreamsAreDecodable == Spec => []NeverGarbled
<1>1. StreamInv => NeverGarbled
  BY DEF StreamInv, DecodableInv
<1>2. QED
  BY StreamInvInit, StreamInvNext, <1>1, PTL DEF Spec

\* Between two submissions, the client that is being streamed to has all of the
\* stream up to the newest packet.
THEOREM StreamsAreComplete == Spec => []ServedIsCurrent
<1>1. StreamInv => ServedIsCurrent
  BY DEF StreamInv, DecodableInv
<1>2. QED
  BY StreamInvInit, StreamInvNext, <1>1, PTL DEF Spec

-----------------------------------------------------------------------------
(* Types. *)

\* Who has not connected is neither in the backlog nor accepted.
TypesInv ==
  /\ TypeOK /\ backlog \in Seq(Clients)
  /\ \A c \in Clients : conn[c] = "new" => c \notin Range(backlog) \cup {client}

\* A connection is added to the backlog, or its oldest is taken.
LEMMA BacklogSteps ==
  ASSUME NEW s \in Seq(Clients), IsInjective(s), NEW c \in Clients
  PROVE  /\ c \notin Range(s) => /\ Append(s, c) \in Seq(Clients)
                                /\ IsInjective(Append(s, c))
                                /\ Range(Append(s, c)) = Range(s) \cup {c}
         /\ s # <<>> => /\ Tail(s) \in Seq(Clients) /\ IsInjective(Tail(s))
                        /\ Range(Tail(s)) \subseteq Range(s) \ {Head(s)}
                        /\ Head(s) \in Range(s)
<1> USE DEF IsInjective, Range
<1>1. ASSUME c \notin Range(s)
      PROVE  /\ Append(s, c) \in Seq(Clients) /\ IsInjective(Append(s, c))
             /\ Range(Append(s, c)) = Range(s) \cup {c}
  <2> DEFINE t == Append(s, c)
             n == Len(s) + 1
  <2>1. /\ t \in Seq(Clients) /\ n \in DOMAIN t /\ t[n] = c
        /\ \A i \in DOMAIN s : i \in DOMAIN t /\ t[i] = s[i]
        /\ \A i \in DOMAIN t : i = n \/ i \in DOMAIN s
    OBVIOUS
  <2> HIDE DEF t, n
  <2>2. IsInjective(t) /\ Range(t) = Range(s) \cup {c}
    BY <1>1, <2>1
  <2>3. QED
    BY <2>1, <2>2 DEF t
<1>2. ASSUME s # <<>>
      PROVE  /\ Tail(s) \in Seq(Clients) /\ IsInjective(Tail(s))
             /\ Range(Tail(s)) \subseteq Range(s) \ {Head(s)}
             /\ Head(s) \in Range(s)
  <2> DEFINE t == Tail(s)
  <2>1. /\ t \in Seq(Clients) /\ 1 \in DOMAIN s /\ s[1] = Head(s)
        /\ \A i \in DOMAIN t : /\ i \in Nat /\ i + 1 \in DOMAIN s /\ i + 1 # 1
                               /\ t[i] = s[i + 1]
    BY <1>2
  <2> HIDE DEF t
  <2>2. IsInjective(t)
    <3> SUFFICES ASSUME NEW i \in DOMAIN t, NEW j \in DOMAIN t, t[i] = t[j]
                 PROVE  i = j
      OBVIOUS
    <3>1. i + 1 = j + 1
      BY <2>1
    <3>2. QED
      BY <2>1, <3>1
  <2>3. Range(t) \subseteq Range(s) \ {Head(s)}
    BY <2>1
  <2>4. QED
    BY <2>1, <2>2, <2>3 DEF t
<1>3. QED
  BY <1>1, <1>2

LEMMA TypesInvNext == TypesInv /\ [Next]_vars => TypesInv'
<1> SUFFICES ASSUME TypesInv, [Next]_vars PROVE TypesInv'
  OBVIOUS
<1> USE StreamAssumption DEF TypesInv, TypeOK, stream, sink, ends
<1>1. CASE Tick
  BY <1>1 DEF Tick
<1>2. CASE Encode
  <2>1. key' \in BOOLEAN /\ gop' \in 0..KeyInt
    BY <1>2 DEF Encode, KeyDue, NextGop
  <2>2. picture' \in
          [Clients -> {"nothing", "current", "behind", "lost", "garbled"}]
    BY <1>2 DEF Encode
  <2>3. QED
    BY <1>2, <2>1, <2>2 DEF Encode
<1>3. CASE PipelineFails
  <2>1. /\ <<>> \in Seq(Clients) /\ IsInjective(<<>>) /\ Range(<<>>) = {}
    BY DEF IsInjective, Range
  <2>2. /\ conn' \in [Clients -> {"new", "open", "closed"}]
        /\ sock' \in [Clients -> 0..SockCap]
        /\ NoClient \notin Clients
    BY <1>3 DEF PipelineFails
  <2>3. QED
    BY <1>3, <2>1, <2>2 DEF PipelineFails
<1>4. CASE Discard \/ Deliver
  BY <1>4 DEF Discard, Deliver
<1>5. CASE Accept
  <2>1. CASE UNCHANGED sink
    BY <1>5, <2>1 DEF Accept
  <2>2. CASE /\ backlog # <<>> /\ backlog' = Tail(backlog)
             /\ \/ client' = Head(backlog) /\ waiting' = WaitsAtFirst
                \/ client' = client /\ waiting' = waiting
    <3>1. Head(backlog) \in Range(backlog) /\ Range(backlog) \subseteq Clients
      BY <2>2, BacklogSteps
    <3>2. /\ Tail(backlog) \in Seq(Clients) /\ IsInjective(Tail(backlog))
          /\ Range(Tail(backlog)) \subseteq Range(backlog) \ {Head(backlog)}
      BY <2>2, <3>1, BacklogSteps
    <3>3. QED
      BY <1>5, <2>2, <3>1, <3>2 DEF Accept, WaitsAtFirst
  <2>3. QED
    BY <1>5, <2>1, <2>2 DEF Accept
<1>6. CASE Write
  <2>1. CASE client \in Clients
    <3>1. sock[client] + 1 \in 0..SockCap
      BY <1>6, <2>1 DEF Write
    <3>2. sock' \in [Clients -> 0..SockCap]
      BY <1>6, <3>1 DEF Write
    <3>3. picture' \in
            [Clients -> {"nothing", "current", "behind", "lost", "garbled"}]
      BY <1>6 DEF Write, Decoded
    <3>4. QED
      BY <1>6, <3>2, <3>3 DEF Write
  <2>2. CASE client = NoClient
    BY <1>6, <2>2 DEF Write
  <2>3. QED
    BY <2>1, <2>2
<1>7. CASE WriteFails
  BY <1>7 DEF WriteFails, ClientAfterError
<1>8. ASSUME NEW c \in Clients, Connect(c) PROVE TypesInv'
  <2>1. /\ Append(backlog, c) \in Seq(Clients)
        /\ IsInjective(Append(backlog, c))
        /\ Range(Append(backlog, c)) = Range(backlog) \cup {c}
    BY <1>8, BacklogSteps DEF Connect
  <2>2. QED
    BY <1>8, <2>1 DEF Connect
<1>9. ASSUME NEW c \in Clients, Read(c) \/ Close(c) PROVE TypesInv'
  <2>1. CASE Read(c)
    <3>1. sock[c] - 1 \in 0..SockCap
      BY <2>1 DEF Read
    <3>2. sock' \in [Clients -> 0..SockCap]
      BY <2>1, <3>1 DEF Read
    <3>3. QED
      BY <2>1, <3>2 DEF Read
  <2>2. CASE Close(c)
    <3>1. /\ sock' \in [Clients -> 0..SockCap]
          /\ conn' \in [Clients -> {"new", "open", "closed"}]
      BY <2>2 DEF Close
    <3>2. \A d \in Clients : conn'[d] = "new" => conn[d] = "new"
      BY <2>2 DEF Close
    <3>3. QED
      BY <2>2, <3>1, <3>2 DEF Close
  <2>3. QED
    BY <1>9, <2>1, <2>2
<1>10. CASE UNCHANGED vars
  BY <1>10 DEF vars
<1>11. QED
  BY <1>1, <1>2, <1>3, <1>4, <1>5, <1>6, <1>7, <1>8, <1>9, <1>10
  DEF Next, Submit, ClientStep

\* Every variable keeps its type; in particular nobody is accepted twice, or
\* while still in the backlog.
THEOREM TypeCorrect == Spec => []TypeOK
<1>1. Init => TypesInv
  <2>1. /\ <<>> \in Seq(Clients) /\ IsInjective(<<>>) /\ Range(<<>>) = {}
    BY DEF IsInjective, Range
  <2>2. 0 \in 0..SockCap /\ 0 \in 0..KeyInt /\ Interval \in 0..Interval
    BY StreamAssumption
  <2>3. QED
    BY <2>1, <2>2, StreamAssumption DEF Init, TypesInv, TypeOK
<1>2. TypesInv => TypeOK
  BY DEF TypesInv
<1>3. QED
  BY TypesInvNext, <1>1, <1>2, PTL DEF Spec
=============================================================================
