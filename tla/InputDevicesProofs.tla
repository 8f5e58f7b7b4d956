-------------------------- MODULE InputDevicesProofs --------------------------
(***************************************************************************)
(* Theorems about InputDevices, for every number of viewers, every queue,  *)
(* and devices that may be missing or fail.                                *)
(***************************************************************************)
EXTENDS InputDevices, SequenceTheorems, TLAPS

\* The kernel and the mouse agree on the button unless a write of it failed,
\* and the button is pressed only while some viewer's last event pressed it.
ButtonInv ==
  /\ "BTN_LEFT" \in down => button_down \/ "BTN_LEFT" \in lost
  /\ button_down => \E c \in Clients : mask[c]

\* A device that is missing has nothing pressed.
MissingInv ==
  /\ pc = "mouse" => ~mouse
  /\ ~mouse => ~button_down
  /\ ~keyboard => down \subseteq {"BTN_LEFT"}

DevicesInv == TypeOK /\ ButtonInv /\ MissingInv /\ NoStuckKey

\* An event from a viewer.
LEMMA EventParts ==
  ASSUME NEW e \in InputEvents
  PROVE  /\ e.down \in BOOLEAN
         /\ e.kind = "key" => e.sym \in Syms
  BY DEF InputEvents

\* What an event from a viewer's queue is, and what is left of the queue.
LEMMA HeadIsEvent ==
  ASSUME TypeOK, NEW c \in Clients, flow[c] # <<>>
  PROVE  /\ Head(flow[c]) \in InputEvents
         /\ Tail(flow[c]) \in Seq(InputEvents)
         /\ Len(Tail(flow[c])) <= MaxFlow
<1>1. flow[c] \in Seq(InputEvents) /\ Len(flow[c]) <= MaxFlow
  BY DEF TypeOK, Fifo!TypeOK
<1>2. Head(flow[c]) \in InputEvents /\ Tail(flow[c]) \in Seq(InputEvents)
  BY <1>1
<1>3. Len(flow[c]) \in Nat /\ Len(Tail(flow[c])) = Len(flow[c]) - 1
  BY <1>1
<1>4. QED
  BY <1>1, <1>2, <1>3, DevicesAssumption DEF DevicesAssumption

\* Initially nothing is pressed and no device exists.
LEMMA DevicesInvInit == Init => DevicesInv
<1> SUFFICES ASSUME Init PROVE DevicesInv
  OBVIOUS
<1>1. Fifo!TypeOK /\ \A c \in Clients : Len(flow[c]) <= MaxFlow
  BY DevicesAssumption DEF Init, Fifo!Init, Fifo!TypeOK, DevicesAssumption
<1>2. QED
  BY <1>1 DEF Init, DevicesInv, TypeOK, ButtonInv, MissingInv, NoStuckKey

\* The viewers touch nothing but the queues, and keep them in their bounds.
LEMMA QueuesKeepInv ==
  ASSUME DevicesInv, NEW c \in Clients, Send(c) \/ Leave(c) \/ Lose(c)
  PROVE  DevicesInv'
<1>1. UNCHANGED <<pc, devices, viewers>>
  BY DEF Send, Leave, Lose
<1> USE DevicesAssumption DEF DevicesAssumption
<1>2. /\ flow \in [Clients -> Seq(InputEvents)] /\ heard \in [Clients -> BOOLEAN]
      /\ \A d \in Clients : Len(flow[d]) <= MaxFlow
  BY DEF DevicesInv, TypeOK, Fifo!TypeOK
<1>3. Fifo!TypeOK' /\ \A d \in Clients : Len(flow[d])' <= MaxFlow
  <2>1. CASE Send(c)
    <3>1. PICK e \in InputEvents : Fifo!Send(c, e)
      BY <2>1 DEF Send
    <3>2. flow' = [flow EXCEPT ![c] = Append(flow[c], e)] /\ UNCHANGED heard
      BY <3>1 DEF Fifo!Send
    <3>3. /\ Append(flow[c], e) \in Seq(InputEvents)
          /\ Len(Append(flow[c], e)) = Len(flow[c]) + 1
          /\ Len(flow[c]) \in Nat
      BY <1>2
    <3>4. Len(flow[c]) < MaxFlow
      BY <2>1 DEF Send
    <3>5. Len(Append(flow[c], e)) <= MaxFlow
      BY <3>3, <3>4
    <3>6. QED
      BY <1>2, <3>2, <3>3, <3>5 DEF Fifo!TypeOK
  <2>2. CASE Leave(c)
    BY <1>2, <2>2 DEF Leave, Fifo!Leave, Fifo!TypeOK
  <2>3. CASE Lose(c)
    <3>1. PICK n \in 0..Len(flow[c]) :
            flow' = [flow EXCEPT ![c] = SubSeq(flow[c], 1, n)]
      BY <2>3 DEF Lose, Fifo!Lose
    <3>2. SubSeq(flow[c], 1, n) \in Seq(InputEvents)
      BY <1>2, <3>1
    <3>3. Len(SubSeq(flow[c], 1, n)) <= MaxFlow
      BY <1>2, <3>1
    <3>4. heard' = heard
      BY <2>3 DEF Lose, Fifo!Lose
    <3>5. QED
      BY <1>2, <3>1, <3>2, <3>3, <3>4 DEF Fifo!TypeOK
  <2>4. QED
    BY <2>1, <2>2, <2>3
<1>4. QED
  BY <1>1, <1>3
  DEF DevicesInv, TypeOK, ButtonInv, MissingInv, NoStuckKey, Holds, Misnamed, devices,
      viewers

\* Taking an event shortens one queue and leaves the others.
LEMMA TakeKeepsQueues ==
  ASSUME TypeOK, NEW c \in Clients, flow[c] # <<>>, Fifo!Take(c)
  PROVE  Fifo!TypeOK' /\ \A d \in Clients : Len(flow[d])' <= MaxFlow
<1>1. /\ Tail(flow[c]) \in Seq(InputEvents)
      /\ Len(Tail(flow[c])) <= MaxFlow
  BY HeadIsEvent
<1>2. QED
  BY <1>1 DEF TypeOK, Fifo!TypeOK, Fifo!Take

\* A pointer event sets button_down and the viewer's mask to the same value, and
\* what it writes, or fails to write, is that value.
LEMMA TakePointerKeepsInv ==
  ASSUME DevicesInv, NEW c \in Clients, TakePointer(c)
  PROVE  DevicesInv'
<1> DEFINE b == Head(flow[c]).down
<1>1. /\ Fifo!Take(c) /\ flow[c] # <<>> /\ HandlePointer(b)
      /\ mask' = [mask EXCEPT ![c] = b]
      /\ UNCHANGED <<pc, mouse, keyboard, held, misnamed>> /\ pc = "recv"
  BY DEF TakePointer
<1>2. TypeOK
  BY DEF DevicesInv
<1>3. b \in BOOLEAN
  BY <1>1, <1>2, HeadIsEvent, EventParts
<1>4. Fifo!TypeOK' /\ \A d \in Clients : Len(flow[d])' <= MaxFlow
  BY <1>1, <1>2, TakeKeepsQueues
<1>5. mask'[c] = b /\ mask' \in [Clients -> BOOLEAN]
  BY <1>1, <1>2, <1>3 DEF TypeOK
<1> HIDE DEF b
<1>6. CASE ~mouse \/ b = button_down
  <2>1. UNCHANGED <<button_down, down, lost>>
    BY <1>1, <1>6 DEF HandlePointer
  <2>2. button_down' => \E d \in Clients : mask'[d]
    BY <1>1, <1>2, <1>5, <1>6, <2>1 DEF DevicesInv, ButtonInv, MissingInv, TypeOK
  <2>3. QED
    BY <1>1, <1>2, <1>4, <1>5, <2>1, <2>2
    DEF DevicesInv, ButtonInv, MissingInv, TypeOK, NoStuckKey, Holds, Misnamed
<1>7. CASE ~(~mouse \/ b = button_down)
  <2>1. button_down' = b /\ WriteEvents("BTN_LEFT", b)
    BY <1>1, <1>7 DEF HandlePointer, NextButton
  <2>2. \A code \in down' \ {"BTN_LEFT"} :
          code \in down \ {"BTN_LEFT"} /\ (code \in lost => code \in lost')
    BY <2>1 DEF WriteEvents, Pressed
  <2>3. NoStuckKey'
    BY <1>1, <2>2 DEF DevicesInv, NoStuckKey, Holds, Misnamed
  <2>4. ButtonInv'
    BY <1>3, <1>5, <2>1 DEF ButtonInv, WriteEvents, Pressed
  <2>5. TypeOK'
    BY <1>1, <1>2, <1>3, <1>4, <1>5, <2>1
    DEF TypeOK, WriteEvents, Pressed
  <2>6. MissingInv'
    BY <1>1, <1>7, <2>1 DEF DevicesInv, MissingInv, WriteEvents, Pressed
  <2>7. QED
    BY <2>3, <2>4, <2>5, <2>6 DEF DevicesInv
<1>8. QED
  BY <1>6, <1>7

\* A key event leaves every other key of the viewers' keyboards as it was, and its
\* own pressed, or named wrongly, or released on the console too.
LEMMA TakeKeyKeepsInv ==
  ASSUME DevicesInv, NEW c \in Clients, TakeKey(c)
  PROVE  DevicesInv'
<1> DEFINE e == Head(flow[c])
           code == keysym_to_linux_key(e.sym)
           cap == KeyCap(e.sym)
<1>1. /\ Fifo!Take(c) /\ flow[c] # <<>> /\ HandleKey(code, e.down)
      /\ held' = HeldAfter(c, e)
      /\ misnamed' = IF e.down THEN misnamed
                     ELSE IF e.sym \in NotInTable THEN misnamed \cup {cap}
                     ELSE misnamed \ {cap}
      /\ UNCHANGED <<pc, mouse, keyboard, button_down, mask>> /\ pc = "recv"
      /\ e.kind = "key"
  BY DEF TakeKey
<1>2. TypeOK
  BY DEF DevicesInv
<1>3. e.down \in BOOLEAN /\ e.sym \in Syms
  BY <1>1, <1>2, HeadIsEvent, EventParts
<1>4. Fifo!TypeOK' /\ \A d \in Clients : Len(flow[d])' <= MaxFlow
  BY <1>1, <1>2, TakeKeepsQueues
<1> HIDE DEF e
<1>5. /\ held' \in [Clients -> SUBSET {KeyCap(s) : s \in Syms}]
      /\ \A d \in Clients : held[d] \ {cap} \subseteq held'[d]
      /\ e.down => cap \in held'[c] /\ \A d \in Clients : held[d] \subseteq held'[d]
  BY <1>1, <1>2, <1>3 DEF TypeOK, HeldAfter
<1>6. /\ misnamed' \subseteq {KeyCap(s) : s \in Syms}
      /\ misnamed \ {cap} \subseteq misnamed'
      /\ e.down => misnamed' = misnamed
      /\ ~e.down /\ e.sym \in NotInTable => cap \in misnamed'
  BY <1>1, <1>2, <1>3 DEF TypeOK
<1>7. \A s \in Syms :
        keysym_to_linux_key(s) \in ALL_KEYS /\ keysym_to_linux_key(s) # code
          => KeyCap(s) # cap \/ e.sym \in NotInTable
  BY DevicesAssumption, <1>3
  DEF DevicesAssumption, keysym_to_linux_key, KeyCap, Keysyms, ALL_KEYS, NotInTable
<1>8. e.sym \in NotInTable => code \notin ALL_KEYS
  BY DEF keysym_to_linux_key, NotInTable, ALL_KEYS
<1>9. code # "BTN_LEFT"
  BY DEF keysym_to_linux_key
<1> HIDE DEF code, cap
\* What accounted for a key that is down still does, but for the key at hand.
<1>10. ASSUME NEW k \in down \ {"BTN_LEFT"}, k \notin lost,
              k # code \/ e.down
       PROVE  Misnamed(k)' \/ \E d \in Clients : Holds(d, k)'
  <2>1. k \in ALL_KEYS
    BY <1>2, <1>10 DEF TypeOK
  <2>2. PICK s \in Syms :
          /\ keysym_to_linux_key(s) = k
          /\ KeyCap(s) \in misnamed \/ \E d \in Clients : KeyCap(s) \in held[d]
    BY <1>10 DEF DevicesInv, NoStuckKey, Holds, Misnamed
  <2>3. CASE e.down \/ KeyCap(s) # cap
    BY <1>5, <1>6, <2>2, <2>3 DEF Holds, Misnamed
  <2>4. CASE ~e.down /\ KeyCap(s) = cap
    <3>1. e.sym \in NotInTable
      BY <1>7, <1>10, <2>1, <2>2, <2>4
    <3>2. QED
      BY <1>6, <2>2, <2>4, <3>1 DEF Misnamed
  <2>5. QED
    BY <2>3, <2>4
<1>11. CASE keyboard /\ code \in ALL_KEYS /\ WriteEvents(code, e.down)
  <2>1. ASSUME NEW k \in down' \ {"BTN_LEFT"}, k \notin lost'
        PROVE  Misnamed(k)' \/ \E d \in Clients : Holds(d, k)'
    <3>1. CASE k = code
      <4>1. e.down
        BY <1>3, <1>11, <2>1, <3>1 DEF WriteEvents, Pressed
      <4>2. cap \in held'[c] /\ keysym_to_linux_key(e.sym) = k
        BY <1>5, <3>1, <4>1 DEF code
      <4>3. Holds(c, k)'
        BY <1>3, <4>2 DEF cap, Holds
      <4>4. QED
        BY <4>3
    <3>2. CASE k # code
      <4>1. k \in down \ {"BTN_LEFT"} /\ k \notin lost
        BY <1>11, <2>1, <3>2 DEF WriteEvents, Pressed
      <4>2. QED
        BY <1>10, <3>2, <4>1
    <3>3. QED
      BY <3>1, <3>2
  <2>2. NoStuckKey'
    BY <2>1 DEF NoStuckKey
  <2>3. ButtonInv'
    BY <1>1, <1>9, <1>11 DEF DevicesInv, ButtonInv, WriteEvents, Pressed
  <2>4. TypeOK'
    BY <1>1, <1>2, <1>4, <1>5, <1>6, <1>11 DEF TypeOK, WriteEvents, Pressed
  <2>5. MissingInv'
    BY <1>1, <1>11 DEF DevicesInv, MissingInv
  <2>6. QED
    BY <2>2, <2>3, <2>4, <2>5 DEF DevicesInv
<1>12. CASE (~keyboard \/ code \notin ALL_KEYS) /\ UNCHANGED <<down, lost>>
  <2>1. \A k \in down \ {"BTN_LEFT"} : k # code
    BY <1>2, <1>12 DEF DevicesInv, MissingInv, TypeOK
  <2>2. NoStuckKey'
    BY <1>10, <1>12, <2>1 DEF NoStuckKey
  <2>3. TypeOK'
    BY <1>1, <1>2, <1>4, <1>5, <1>6, <1>12 DEF TypeOK
  <2>4. ButtonInv' /\ MissingInv'
    BY <1>1, <1>12 DEF DevicesInv, ButtonInv, MissingInv
  <2>5. QED
    BY <2>2, <2>3, <2>4 DEF DevicesInv
<1>13. "none" \notin ALL_KEYS
  BY DEF ALL_KEYS
<1>14. QED
  BY <1>1, <1>11, <1>12, <1>13 DEF HandleKey

\* Every step keeps the invariant.
LEMMA DevicesInvNext == DevicesInv /\ [Next]_vars => DevicesInv'
<1> SUFFICES ASSUME DevicesInv, [Next]_vars PROVE DevicesInv'
  OBVIOUS
<1>1. CASE CreateMouse \/ CreateKeyboard
  BY <1>1
  DEF DevicesInv, TypeOK, ButtonInv, MissingInv, NoStuckKey, Holds, Misnamed,
      CreateMouse, CreateKeyboard, Fifo!TypeOK, viewers
<1>2. CASE Abort
  BY <1>2
  DEF DevicesInv, TypeOK, ButtonInv, MissingInv, NoStuckKey, Holds, Misnamed, Abort,
      Fifo!TypeOK, viewers
<1>3. CASE UNCHANGED vars
  BY <1>3
  DEF DevicesInv, TypeOK, ButtonInv, MissingInv, NoStuckKey, Holds, Misnamed, vars,
      Fifo!TypeOK, devices, viewers
<1>4. QED
  BY <1>1, <1>2, <1>3, QueuesKeepInv, TakePointerKeepsInv, TakeKeyKeepsInv
  DEF Next, InputLoop

\* It is an invariant.
LEMMA DevicesInvAlways == Spec => []DevicesInv
  BY DevicesInvInit, DevicesInvNext, PTL DEF Spec

\* The types of the input path: in particular, nothing is pressed on the console
\* before the devices exist or after input_loop was aborted.
THEOREM TypeCorrect == Spec => []TypeOK
  BY DevicesInvAlways, PTL DEF DevicesInv

\* However the events of the viewers are interleaved, whichever writes fail and
\* whoever leaves, the button is down only if some viewer's last pointer event that
\* was taken pressed it, that of a viewer that has left included, or else the write
\* of its release failed (VirtualMouse::handle_pointer).
THEOREM ButtonIsNotStuck == Spec => []NoStuckButton
<1>1. DevicesInv => NoStuckButton
  BY DEF DevicesInv, ButtonInv, NoStuckButton
<1>2. QED
  BY <1>1, DevicesInvAlways, PTL

\* A key is down on the console only while a viewer holds it, present or gone, or
\* after a release that had no code or whose write failed: these are all the ways a
\* key gets stuck, and no mixture of viewers, Shift and missing devices adds one
\* (VirtualKeyboard::handle_key, keysym_to_linux_key).
THEOREM KeysAreNotStuck == Spec => []NoStuckKey
  BY DevicesInvAlways, PTL DEF DevicesInv
=============================================================================
