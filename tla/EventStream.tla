---------------------------- MODULE EventStream -----------------------------
(***************************************************************************)
(* The EventStream class of frontend/src/api/eventStream.ts: a WebSocket   *)
(* that reconnects until its user disconnects it.  How long it waits (a    *)
(* backoff, doubled up to a bound, reset when a socket opens) is left out: *)
(* any wait may be any time.                                               *)
(*                                                                         *)
(* A method or a callback runs alone, as JavaScript does.  An object keeps *)
(* the one socket it looks at, but the callbacks of every socket that it   *)
(* has made still call it; two of them are enough to see them meet.        *)
(***************************************************************************)
EXTENDS Naturals, FiniteSets

CONSTANT Stream    \* the EventStream objects made

VARIABLE streams

\* The sockets of an object, and which of them this.socket is.
Slot == {1, 2}
SocketState == {"free", "connecting", "open", "closing"}
StreamObject ==
  [slots : [Slot -> SocketState], socket : {0} \cup Slot, timer : BOOLEAN,
   closedByUser : BOOLEAN]

NewStream ==
  [slots |-> [k \in Slot |-> "free"], socket |-> 0, timer |-> FALSE,
   closedByUser |-> FALSE]

InitStreams == streams = [s \in Stream |-> NewStream]

Live(s) == {k \in Slot : streams[s].slots[k] \in {"connecting", "open"}}
IsOpen(s) == \E k \in Slot : streams[s].slots[k] = "open"

-----------------------------------------------------------------------------
\* openSocket of an object: the new socket is the one looked at.
OpenSocket(object) ==
  LET k == IF object.slots[1] = "free" THEN 1 ELSE 2
  IN  [object EXCEPT !.slots[k] = "connecting", !.socket = k]

\* connect, of a new object.
Connect(s) ==
  streams' = [streams EXCEPT ![s] = OpenSocket([@ EXCEPT !.closedByUser = FALSE])]

\* Mutant: the object forgets that it was closed by its user.
DisconnectForgets(s) ==
  streams' = [streams EXCEPT ![s] =
    IF @.socket = 0 THEN [@ EXCEPT !.timer = FALSE]
    ELSE [@ EXCEPT !.timer = FALSE, !.slots[@.socket] = "closing", !.socket = 0]]

\* disconnect: no timer, and the socket that is looked at is closed; its
\* close callback comes later.
Disconnect(s) ==
  streams' = [streams EXCEPT ![s] =
    LET cleared == [@ EXCEPT !.closedByUser = TRUE, !.timer = FALSE]
    IN  IF @.socket = 0 THEN cleared
        ELSE [cleared EXCEPT !.slots[@.socket] = "closing", !.socket = 0]]

\* onopen.
Opens(s, k) ==
  /\ streams[s].slots[k] = "connecting"
  /\ streams' = [streams EXCEPT ![s].slots[k] = "open"]

\* scheduleReconnect: one timer, whatever timer there was.
ScheduleReconnect(object) == [object EXCEPT !.timer = TRUE]

\* Mutant: the closing of a socket is not followed by a new attempt.
ClosesForGood(s, k) ==
  /\ streams[s].slots[k] # "free"
  /\ streams' = [streams EXCEPT ![s] = [@ EXCEPT !.slots[k] = "free", !.socket = 0]]

\* onclose, of a connection that failed, was lost, or was closed here: the
\* object looks at no socket, and tries again unless its user closed it.
Closes(s, k) ==
  /\ streams[s].slots[k] # "free"
  /\ streams' = [streams EXCEPT ![s] =
       LET closed == [@ EXCEPT !.slots[k] = "free", !.socket = 0]
       IN  IF @.closedByUser THEN closed ELSE ScheduleReconnect(closed)]

\* The reconnect timer fires.
TimerFires(s) ==
  /\ streams[s].timer
  /\ streams' = [streams EXCEPT ![s] =
       LET fired == [@ EXCEPT !.timer = FALSE]
       IN  IF @.closedByUser THEN fired ELSE OpenSocket(fired)]
=============================================================================
