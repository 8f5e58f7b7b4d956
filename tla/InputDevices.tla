----------------------------- MODULE InputDevices -----------------------------
(***************************************************************************)
(* The end of the input path: input_loop (main.rs) takes the events of all *)
(* viewers and hands them to one virtual mouse (input/mouse.rs) and one    *)
(* virtual keyboard (input/keyboard.rs), which write to uinput.  Either    *)
(* device may be missing, a write may fail and is only logged, and the     *)
(* mouse writes its button only when it differs from button_down.          *)
(*                                                                         *)
(* How the events get here is module InputFifo.  Positions are left out.   *)
(* A keysym stands for all that keysym_to_linux_key treats alike.          *)
(***************************************************************************)
EXTENDS Naturals, Sequences, FiniteSets

CONSTANTS
  Clients,  \* viewers
  Syms,     \* the keysyms they send
  MaxFlow,  \* bound: events of a viewer that are on their way
  CanFail   \* writes to uinput may fail

\* The keysyms of a letter's key, plain, with Shift and with AltGr, and of the
\* cursor key Left.
Keysyms == {"a", "A", "ae", "Left"}

ASSUME DevicesAssumption ==
  /\ IsFiniteSet(Clients) /\ Syms \subseteq Keysyms
  /\ MaxFlow \in Nat \ {0} /\ CanFail \in BOOLEAN

VARIABLES
  flow, heard,  \* see InputFifo
  pc,           \* input_loop: "mouse", "keyboard" (creating it), "recv", "off"
  mouse,        \* VirtualMouse::new succeeded
  keyboard,     \* VirtualKeyboard::new succeeded
  button_down,  \* VirtualMouse::button_down
  down,         \* the keys and the button the kernel has as pressed
  lost,         \* of which the last write to change them failed
  mask,         \* a viewer's button, by its last event that was taken
  held,         \* the keys of a viewer's keyboard, by its events that were taken
  misnamed      \* the keys let go under a keysym that is not in the table

devices == <<mouse, keyboard, button_down, down, lost>>
viewers == <<mask, held, misnamed>>
vars    == <<flow, heard, pc, devices, viewers>>

InputEvents ==
  [kind : {"pointer"}, down : BOOLEAN]
    \cup [kind : {"key"}, down : BOOLEAN, sym : Syms]

Fifo == INSTANCE InputFifo WITH Events <- InputEvents

\* The key of the viewer's keyboard a keysym is on.  Which of a key's keysyms is
\* sent depends on the modifiers at that moment.
KeyCap(s) == IF s \in {"a", "A", "ae"} THEN "letter" ELSE s

\* Mutant of keysym_to_linux_key: the table has no upper-case letters.
keysym_to_linux_key_lower(s) ==
  CASE s = "a" -> "KEY_A" [] s = "Left" -> "KEY_LEFT" [] OTHER -> "none"

\* Both cases of a letter (and both symbols of a digit or sign) have one code.
keysym_to_linux_key(s) ==
  CASE s \in {"a", "A"} -> "KEY_A" [] s = "Left" -> "KEY_LEFT" [] OTHER -> "none"

\* The keysyms a key has besides one with a code that have none themselves: what
\* AltGr or another layout makes of a letter, the keypad's without NumLock (0xff95
\* to 0xff9f), ISO_Left_Tab for Tab with Shift, Meta for Alt with Shift.
NotInTable == {"ae"}

\* The codes the device registers: letters, digits, signs, the keypad's digits
\* and F1 to F12, but no cursor key.
ALL_KEYS == {"KEY_A"}

TypeOK ==
  /\ Fifo!TypeOK /\ \A c \in Clients : Len(flow[c]) <= MaxFlow
  /\ pc \in {"mouse", "keyboard", "recv", "off"}
  /\ {mouse, keyboard, button_down} \subseteq BOOLEAN
  /\ down \subseteq {"BTN_LEFT"} \cup ALL_KEYS
  /\ lost \subseteq {"BTN_LEFT"} \cup ALL_KEYS
  /\ pc # "recv" => down = {} /\ lost = {}
  /\ mask \in [Clients -> BOOLEAN]
  /\ held \in [Clients -> SUBSET {KeyCap(s) : s \in Syms}]
  /\ misnamed \subseteq {KeyCap(s) : s \in Syms}

Init ==
  /\ Fifo!Init
  /\ pc = "mouse" /\ mouse = FALSE /\ keyboard = FALSE
  /\ button_down = FALSE /\ down = {} /\ lost = {}
  /\ mask = [c \in Clients |-> FALSE] /\ held = [c \in Clients |-> {}]
  /\ misnamed = {}

-----------------------------------------------------------------------------
(* The viewers. *)

Send(c) ==
  /\ Len(flow[c]) < MaxFlow
  /\ \E e \in InputEvents : Fifo!Send(c, e)
  /\ UNCHANGED <<pc, devices, viewers>>

Leave(c) == Fifo!Leave(c) /\ UNCHANGED <<pc, devices, viewers>>

Lose(c) == Fifo!Lose(c) /\ UNCHANGED <<pc, devices, viewers>>

-----------------------------------------------------------------------------
(* input_loop. *)

\* A device that cannot be created is done without.
CreateMouse ==
  /\ pc = "mouse" /\ pc' = "keyboard"
  /\ mouse' \in BOOLEAN
  /\ UNCHANGED <<flow, heard, keyboard, button_down, down, lost, viewers>>

CreateKeyboard ==
  /\ pc = "keyboard" /\ pc' = "recv"
  /\ keyboard' \in BOOLEAN
  /\ UNCHANGED <<flow, heard, mouse, button_down, down, lost, viewers>>

\* What the kernel has as pressed once it accepted the event.
Pressed(code, value) == IF value THEN down \cup {code} ELSE down \ {code}

\* A write of events, of which one changes code: that one arrives, or the write
\* fails before it.
WriteEvents(code, value) ==
  \/ down' = Pressed(code, value) /\ lost' = lost \ {code}
  \/ CanFail /\ down' = down /\ lost' = lost \cup {code}

\* Mutant of NextButton: button_down is not kept up to date.
NextButtonNever(left_down) == FALSE

NextButton(left_down) == left_down

\* VirtualMouse::handle_pointer.  button_down changes before the write.
HandlePointer(left_down) ==
  IF ~mouse \/ left_down = button_down
    THEN UNCHANGED <<button_down, down, lost>>
    ELSE /\ button_down' = NextButton(left_down)
         /\ WriteEvents("BTN_LEFT", left_down)

\* VirtualKeyboard::handle_key.  The kernel ignores a code that is not
\* registered, and the write succeeds.
HandleKey(code, value) ==
  IF ~keyboard \/ code = "none"
    THEN UNCHANGED <<down, lost>>
    ELSE IF code \in ALL_KEYS THEN WriteEvents(code, value)
    ELSE UNCHANGED <<down, lost>>

\* The next event of some viewer comes out of the channel.
TakePointer(c) ==
  /\ pc = "recv" /\ flow[c] # <<>> /\ Head(flow[c]).kind = "pointer"
  /\ Fifo!Take(c)
  /\ HandlePointer(Head(flow[c]).down)
  /\ mask' = [mask EXCEPT ![c] = Head(flow[c]).down]
  /\ UNCHANGED <<pc, mouse, keyboard, held, misnamed>>

\* Nothing of a viewer that left is on its way any more.  What it held, it holds
\* until another viewer lets the same key go.
Gone(c) == ~heard[c] /\ flow[c] = <<>>

HeldAfter(c, e) ==
  [d \in Clients |->
     IF d = c /\ e.down THEN held[d] \cup {KeyCap(e.sym)}
     ELSE IF ~e.down /\ (d = c \/ Gone(d)) THEN held[d] \ {KeyCap(e.sym)}
     ELSE held[d]]

TakeKey(c) ==
  /\ pc = "recv" /\ flow[c] # <<>> /\ Head(flow[c]).kind = "key"
  /\ Fifo!Take(c)
  /\ LET e == Head(flow[c]) IN
       /\ HandleKey(keysym_to_linux_key(e.sym), e.down)
       /\ held' = HeldAfter(c, e)
       /\ misnamed' = IF e.down THEN misnamed
                      ELSE IF e.sym \in NotInTable THEN misnamed \cup {KeyCap(e.sym)}
                      ELSE misnamed \ {KeyCap(e.sym)}
  /\ UNCHANGED <<pc, mouse, keyboard, button_down, mask>>

\* Mutant of Abort: the devices outlive the task.
AbortKeepsDevices ==
  /\ pc = "recv" /\ pc' = "off"
  /\ UNCHANGED <<flow, heard, devices, viewers>>

\* main aborts the task where it waits.  Its devices are dropped, which
\* destroys them, and the kernel releases what is pressed on them.
Abort ==
  /\ pc = "recv" /\ pc' = "off"
  /\ down' = {} /\ lost' = {}
  /\ UNCHANGED <<flow, heard, mouse, keyboard, button_down, viewers>>

-----------------------------------------------------------------------------
InputLoop ==
  CreateMouse \/ CreateKeyboard \/ \E c \in Clients : TakePointer(c) \/ TakeKey(c)

Next ==
  \/ InputLoop \/ Abort
  \/ \E c \in Clients : Send(c) \/ Leave(c) \/ Lose(c)

Spec == Init /\ [][Next]_vars

\* input_loop runs, and takes the events of every viewer in turn: the channel
\* they share is a queue.
Fairness ==
  /\ WF_vars(CreateMouse \/ CreateKeyboard)
  /\ \A c \in Clients : WF_vars(TakePointer(c) \/ TakeKey(c))

FairSpec == Spec /\ Fairness

-----------------------------------------------------------------------------
(* Properties. *)

\* The button is down on the console only if some viewer's last pointer event
\* had it down (a viewer that has left since, maybe), or else the write of its
\* release failed.  The viewers share one button_down, so one viewer's move
\* releases what another holds; but no order of their events leaves the button
\* down by itself.
NoStuckButton ==
  "BTN_LEFT" \in down =>
    "BTN_LEFT" \in lost \/ \E c \in Clients : mask[c]

\* A viewer's keyboard holds a key of the console.
Holds(c, code) ==
  \E s \in Syms : keysym_to_linux_key(s) = code /\ KeyCap(s) \in held[c]

\* The code has been let go under a keysym that has none.
Misnamed(code) ==
  \E s \in Syms : keysym_to_linux_key(s) = code /\ KeyCap(s) \in misnamed

\* What may leave a key down on the console that nobody presses, all of it: the
\* write of its release failed; its release came as a keysym that is not in the
\* table (and none that is in it came since); or its viewer has left holding it,
\* as nothing releases what a viewer holds.  Shift alone does not, nor do other
\* viewers that press and release the same key.
NoStuckKey ==
  \A code \in down \ {"BTN_LEFT"} :
    code \in lost \/ Misnamed(code) \/ \E c \in Clients : Holds(c, code)

\* The same without these exceptions.
NobodysKeyIsDown ==
  \A code \in down \ {"BTN_LEFT"} : \E c \in Clients : ~Gone(c) /\ Holds(c, code)

\* The pointer events of a viewer that are still on their way.
PointersOf(c) == {i \in DOMAIN flow[c] : flow[c][i].kind = "pointer"}

\* The newest event, taken or not, of every viewer that is still there is a
\* release.
NobodyPresses ==
  \A c \in Clients :
    heard[c] =>
      IF PointersOf(c) = {} THEN ~mask[c]
      ELSE ~flow[c][CHOOSE i \in PointersOf(c) : \A j \in PointersOf(c) : j <= i].down

\* When no viewer that is there presses the button any more and pointers go on
\* moving, the button comes up on the console, unless the write of the release
\* failed: also when the viewer that pressed it has left.  Without a move it stays
\* down, as nothing releases what a viewer held.
ButtonComesUp ==
  <>[]NobodyPresses /\ []<><<\E c \in Clients : TakePointer(c)>>_vars
    => <>[]("BTN_LEFT" \notin down \/ "BTN_LEFT" \in lost)

\* What a single viewer holds is down on the console.
HeldKeysAreDown ==
  pc = "recv" /\ keyboard /\ Cardinality(Clients) = 1 =>
    \A c \in Clients, s \in Syms :
      LET code == keysym_to_linux_key(s) IN
        KeyCap(s) \in held[c] /\ code # "none" => code \in down \cup lost
=============================================================================
