------------------------------ MODULE InputFifo ------------------------------
(***************************************************************************)
(* What the way from a viewer to input_loop promises, whatever it is made  *)
(* of: the events of a viewer are taken in the order they were sent, each  *)
(* of them once; only the last ones may be missing, of a viewer that left. *)
(* ClientSession implements this with a socket, a task and a channel;      *)
(* InputDevices uses it to drive the devices.                              *)
(***************************************************************************)
EXTENDS Naturals, Sequences

CONSTANTS
  Clients,  \* viewers
  Events    \* what a viewer can send

VARIABLES
  flow,   \* the events of a viewer that are on their way, oldest first
  heard   \* the viewer is still there

vars == <<flow, heard>>

TypeOK == flow \in [Clients -> Seq(Events)] /\ heard \in [Clients -> BOOLEAN]

Init ==
  /\ flow = [c \in Clients |-> <<>>] /\ heard = [c \in Clients |-> TRUE]

Send(c, e) ==
  /\ heard[c]
  /\ flow' = [flow EXCEPT ![c] = Append(@, e)]
  /\ UNCHANGED heard

\* What was sent before may still arrive.
Leave(c) ==
  /\ heard[c]
  /\ heard' = [heard EXCEPT ![c] = FALSE]
  /\ UNCHANGED flow

\* The end of what a viewer sent before it left never arrives.
Lose(c) ==
  /\ ~heard[c]
  /\ \E n \in 0..Len(flow[c]) : flow' = [flow EXCEPT ![c] = SubSeq(@, 1, n)]
  /\ UNCHANGED heard

Take(c) ==
  /\ flow[c] # <<>>
  /\ flow' = [flow EXCEPT ![c] = Tail(@)]
  /\ UNCHANGED heard

Next ==
  \E c \in Clients :
    Take(c) \/ Leave(c) \/ Lose(c) \/ \E e \in Events : Send(c, e)

Spec == Init /\ [][Next]_vars
=============================================================================
