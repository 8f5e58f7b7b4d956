---------------------------- MODULE RemoteScreen ----------------------------
(***************************************************************************)
(* What the pipeline from the screen to the viewers promises, however its  *)
(* buffers are allocated, reused and shared: the screen is captured whole, *)
(* captures are published in the order they were made, and an update shows *)
(* tiles of one published picture, which nothing changes any more.  Which  *)
(* tiles are sent, and when, is not said here; FramePipeline implements    *)
(* this with a pool of buffers, a watch channel and dirty tiles.           *)
(***************************************************************************)
CONSTANTS
  Viewers,
  Tiles,
  Contents,  \* what a tile may look like
  Blank      \* the content of a tile a viewer was never sent

VARIABLES
  screen,     \* what the screen shows
  captured,   \* the picture captured and not yet published: one, or none
  published,  \* the picture viewers are sent
  taken,      \* the picture a viewer's next update is cut from: one, or none
  shown       \* what a viewer shows

vars == <<screen, captured, published, taken, shown>>

Pictures == [Tiles -> Contents]

Nothing == [t \in Tiles |-> Blank]

Init ==
  /\ screen \in Pictures /\ published = screen /\ captured = {}
  /\ taken = [c \in Viewers |-> {}] /\ shown = [c \in Viewers |-> Nothing]

Paint(t) ==
  /\ \E v \in Contents \ {Blank} : screen' = [screen EXCEPT ![t] = v]
  /\ UNCHANGED <<captured, published, taken, shown>>

Capture ==
  /\ captured = {} /\ captured' = {screen}
  /\ UNCHANGED <<screen, published, taken, shown>>

\* The capture failed, or found nothing new.
Drop ==
  /\ captured' = {} /\ UNCHANGED <<screen, published, taken, shown>>

Publish ==
  /\ captured # {} /\ captured' = {} /\ published' \in captured
  /\ UNCHANGED <<screen, taken, shown>>

\* A viewer's update is begun with what is published now.
Take(c) ==
  /\ taken[c] = {} /\ taken' = [taken EXCEPT ![c] = {published}]
  /\ UNCHANGED <<screen, captured, published, shown>>

\* Some tiles of that picture reach the viewer, however old it has become.
Show(c) ==
  /\ \E f \in taken[c], S \in SUBSET Tiles :
       shown' = [shown EXCEPT ![c] = [t \in Tiles |-> IF t \in S THEN f[t] ELSE @[t]]]
  /\ taken' = [taken EXCEPT ![c] = {}]
  /\ UNCHANGED <<screen, captured, published>>

\* The viewer leaves before it got the update.
Leave(c) ==
  /\ taken' = [taken EXCEPT ![c] = {}]
  /\ UNCHANGED <<screen, captured, published, shown>>

\* A new viewer takes the place of one that left.
Arrive(c) ==
  /\ taken[c] = {} /\ shown' = [shown EXCEPT ![c] = Nothing]
  /\ UNCHANGED <<screen, captured, published, taken>>

Next ==
  \/ \E t \in Tiles : Paint(t)
  \/ Capture \/ Drop \/ Publish
  \/ \E c \in Viewers : Take(c) \/ Show(c) \/ Leave(c) \/ Arrive(c)

Spec == Init /\ [][Next]_vars
=============================================================================
