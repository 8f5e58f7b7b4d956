------------------------------ MODULE Handshake ------------------------------
(***************************************************************************)
(* The RFB handshake at the start of handle_client (vnc/server.rs): the    *)
(* server names its version, the viewer answers with one, and by it they   *)
(* settle the security type, the password and the end of the handshake.    *)
(* The bytes are abstracted to what the server tells apart.                *)
(***************************************************************************)
CONSTANTS
  Clients,    \* connections
  Password    \* the server has a password

ASSUME HandshakeAssumption == Password \in BOOLEAN

VARIABLES
  stage,    \* what the server reads next: "version", "type", "response",
            \* "init", then "served"; or "refused" once handle_client failed
  version,  \* rfb_minor: "3.3" for 0..6, "3.7" for 7, "3.8" for the rest
  told,     \* the SecurityResult the viewer was sent: "none", "ok", "failed"
  proved    \* the viewer's response matched the challenge

handshake == <<stage, version, told, proved>>

Stages == {"version", "type", "response", "init", "served", "refused"}

HandshakeTypeOK ==
  /\ stage \in [Clients -> Stages]
  /\ version \in [Clients -> {"3.3", "3.7", "3.8"}]
  /\ told \in [Clients -> {"none", "ok", "failed"}]
  /\ proved \in [Clients -> BOOLEAN]

HandshakeInit ==
  /\ stage = [c \in Clients |-> "version"]
  /\ version = [c \in Clients |-> "3.8"]
  /\ told = [c \in Clients |-> "none"] /\ proved = [c \in Clients |-> FALSE]

\* The viewer's version; what cannot be parsed counts as 3.8.  A 3.3 viewer is
\* told the security type, a later one is sent the list of one type.
ReadVersion(c) ==
  /\ stage[c] = "version"
  /\ \E v \in {"3.3", "3.7", "3.8"} :
       /\ version' = [version EXCEPT ![c] = v]
       /\ stage' = [stage EXCEPT ![c] =
            IF v # "3.3" THEN "type" ELSE IF Password THEN "response" ELSE "init"]
  /\ UNCHANGED <<told, proved>>

\* The viewer selects a type; only the one that was offered is accepted.
\* Without a password, a 3.8 viewer gets its SecurityResult here.
ReadType(c) ==
  /\ stage[c] = "type"
  /\ \E offered \in BOOLEAN :
       stage' = [stage EXCEPT ![c] = IF ~offered THEN "refused"
                                     ELSE IF Password THEN "response" ELSE "init"]
  /\ told' = [told EXCEPT ![c] =
       IF stage'[c] = "init" /\ version[c] = "3.8" THEN "ok" ELSE @]
  /\ UNCHANGED <<version, proved>>

\* Mutant of Admits: in 3.3 and 3.7, which have no SecurityResult here, the
\* outcome of perform_vnc_auth is not looked at.
AdmitsLegacy(c, matches) == matches \/ version[c] # "3.8"

Admits(c, matches) == matches

\* perform_vnc_auth: the response to the challenge.  Only 3.8 has a
\* SecurityResult, sent before a wrong response ends the connection.
ReadResponse(c) ==
  /\ stage[c] = "response"
  /\ \E matches \in BOOLEAN :
       /\ proved' = [proved EXCEPT ![c] = matches]
       /\ stage' = [stage EXCEPT ![c] =
                      IF Admits(c, matches) THEN "init" ELSE "refused"]
       /\ told' = [told EXCEPT ![c] =
                     IF version[c] # "3.8" THEN @
                     ELSE IF Admits(c, matches) THEN "ok" ELSE "failed"]
  /\ UNCHANGED version

\* ClientInit is read, ServerInit is sent.
ReadClientInit(c) ==
  /\ stage[c] = "init"
  /\ stage' = [stage EXCEPT ![c] = "served"]
  /\ UNCHANGED <<version, told, proved>>

\* Reading or writing fails: the viewer has closed the connection.
HandshakeFails(c) ==
  /\ stage[c] \notin {"served", "refused"}
  /\ stage' = [stage EXCEPT ![c] = "refused"]
  /\ UNCHANGED <<version, told, proved>>

\* With a password set, a viewer is served only after it proved to know it,
\* and it was never told the opposite of what became of it: in each of the
\* three versions of the protocol the code handles separately.
OnlyProvedViewers ==
  \A c \in Clients :
    /\ stage[c] = "served" /\ Password => proved[c]
    /\ stage[c] = "served" => told[c] # "failed"
    /\ stage[c] = "served" /\ version[c] = "3.8" => told[c] = "ok"
=============================================================================
