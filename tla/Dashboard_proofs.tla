-------------------------- MODULE Dashboard_proofs ---------------------------
(***************************************************************************)
(* For every script of events, every number of mounts and of requests      *)
(* under way: the EventStream objects own their sockets, the dashboard     *)
(* says connected only while a socket is there, the number of frames never *)
(* decreases once the bootstrap is done, and a seeded timeline only grows  *)
(* at its head.                                                            *)
(*                                                                         *)
(* The first is an invariant of the objects and the mount alone; the       *)
(* others rest on it and on the types of what the callbacks share, and the *)
(* last on what merging leaves.                                            *)
(***************************************************************************)
EXTENDS Dashboard, FiniteSetTheorems, SequenceTheorems, TLAPS

-----------------------------------------------------------------------------
(***************************************************************************)
(* Types                                                                   *)
(***************************************************************************)

Boot == {"none", "recent", "seed", "snapshots", "fill", "done", "failed"}

Mounted == [no : Nat, on : BOOLEAN, boot : Boot, answer : Nat]

\* Whatever the timeline is, the rest of what is shown has its type.
Shows(st) ==
  st \in [connection : ConnectionState, events : {st.events}, frames : Nat, views : Nat]

Request == [pc : {"free", "sent", "answered"}, all : BOOLEAN, answer : Nat]

ViewTypes ==
  /\ published \in Nat
  /\ mount \in Mounted
  /\ refs \in [open : BOOLEAN]
  /\ Shows(state)
  /\ requests \in [1..MaxRequests -> Request]

\* What the steps do to the state that is shown.
LEMMA ShowsConnection ==
  ASSUME NEW st, NEW u, Shows(st), NEW c \in ConnectionState,
         u = [st EXCEPT !.connection = c]
  PROVE  Shows(u) /\ u.connection = c /\ u.frames = st.frames
BY Zenon DEF Shows

LEMMA ShowsViews ==
  ASSUME NEW st, NEW u, Shows(st), NEW v \in Nat,
         u = [st EXCEPT !.views = v]
  PROVE  Shows(u) /\ u.connection = st.connection /\ u.frames = st.frames
BY Zenon DEF Shows

LEMMA ShowsEvents ==
  ASSUME NEW st, NEW u, Shows(st), NEW e,
         u = [st EXCEPT !.events = e]
  PROVE  Shows(u) /\ u.connection = st.connection /\ u.frames = st.frames
BY Zenon DEF Shows

\* The frames among the first n events are a number.
LEMMA FramesNat ==
  ASSUME NEW n \in Nat
  PROVE  Frames(n) \in Nat
<1>1. IsFiniteSet(1..n)
  BY FS_Interval
<1>2. IsFiniteSet({i \in 1..n : Script[i].kind \in FrameKind})
  BY <1>1, FS_Subset
<1> QED BY <1>2, FS_CardinalityType DEF Frames

\* The larger one of two numbers.
LEMMA MaxOfTwo ==
  ASSUME NEW a \in Nat, NEW b \in Nat
  PROVE  Max({a, b}) \in Nat /\ Max({a, b}) >= a
<1>1. \E x \in {a, b} : \A y \in {a, b} : x >= y
  <2>1. CASE a >= b
    BY <2>1
  <2>2. CASE b >= a
    BY <2>2
  <2> QED BY <2>1, <2>2
<1>2. Max({a, b}) \in {a, b} /\ \A y \in {a, b} : Max({a, b}) >= y
  BY <1>1, Zenon DEF Max
<1> QED BY <1>2

\* A refresh that begins, or none when all are under way.
LEMMA RequestedTypes ==
  ASSUME requests \in [1..MaxRequests -> Request], NEW all \in BOOLEAN
  PROVE  Requested(all) \in [1..MaxRequests -> Request]
<1> DEFINE r == Min({i \in 1..MaxRequests : requests[i].pc = "free"})
           new == [pc |-> "sent", all |-> all, answer |-> 0]
<1>1. new \in Request
  BY DEF Request
<1>2. Requested(all) = requests \/ Requested(all) = [requests EXCEPT ![r] = new]
  BY DEF Requested
<1> HIDE DEF r, new
<1> QED BY <1>1, <1>2

-----------------------------------------------------------------------------
(***************************************************************************)
(* What each step does to the mount and to what is shown                   *)
(***************************************************************************)

\* The mount keeps its number and whether it is on.
MountKept == mount'.no = mount.no /\ mount'.on = mount.on

LEMMA MountMoves ==
  ASSUME mount \in Mounted, NEW b \in Boot, NEW a \in Nat,
         mount' = [mount EXCEPT !.boot = b, !.answer = a]
  PROVE  mount' \in Mounted /\ MountKept
BY DEF Mounted, MountKept

LEMMA MountFails ==
  ASSUME mount \in Mounted, NEW b \in Boot, mount' = [mount EXCEPT !.boot = b]
  PROVE  mount' \in Mounted /\ MountKept
BY DEF Mounted, MountKept

\* A request is answered, fails or is applied.
LEMMA RequestSteps ==
  ASSUME ViewTypes, NEW r \in 1..MaxRequests, AnswerRequest(r) \/ RequestFails(r) \/ Apply(r)
  PROVE  /\ ViewTypes' /\ streams' = streams /\ mount' = mount /\ refs' = refs
         /\ state'.frames >= state.frames
         /\ state'.connection = "connected" => refs.open \/ state.connection = "connected"
<1>1. requests[r] \in Request /\ requests[r].answer \in Nat /\ NoRequest \in Request
  BY DEF ViewTypes, Request, NoRequest
<1>2. UNCHANGED <<streams, published, mount, refs>>
  BY DEF AnswerRequest, RequestFails, Apply
<1>3. requests' \in [1..MaxRequests -> Request]
  <2>1. CASE AnswerRequest(r)
    <3> DEFINE q == [requests[r] EXCEPT !.pc = "answered", !.answer = published]
    <3>1. requests' = [requests EXCEPT ![r] = q]
      BY <2>1 DEF AnswerRequest, ViewTypes
    <3>2. q \in Request
      BY <1>1 DEF Request, ViewTypes
    <3> HIDE DEF q
    <3> QED BY <3>1, <3>2 DEF ViewTypes
  <2>2. CASE RequestFails(r) \/ Apply(r)
    BY <1>1, <2>2 DEF RequestFails, Apply, ViewTypes
  <2> QED BY <2>1, <2>2
<1>4. Shows(state) /\ state.frames \in Nat /\ state.connection \in ConnectionState
  BY DEF ViewTypes, Shows
<1>5. /\ Shows(state') /\ state'.frames >= state.frames
      /\ state'.connection = "connected" => refs.open \/ state.connection = "connected"
  <2>1. CASE AnswerRequest(r)
    BY <1>4, <2>1 DEF AnswerRequest
  <2>2. CASE RequestFails(r)
    <3>1. CASE state' = state
      BY <1>4, <3>1
    <3>2. ASSUME NEW c \in {"rest_error", "server_unavailable", state.connection},
                 state' = [state EXCEPT !.connection = c]
          PROVE  /\ Shows(state') /\ state'.frames >= state.frames
                 /\ state'.connection = "connected" => refs.open \/ state.connection = "connected"
      <4>1. c \in ConnectionState
        BY <1>4 DEF ConnectionState
      <4>2. Shows(state') /\ state'.connection = c /\ state'.frames = state.frames
        BY <1>4, <3>2, <4>1, ShowsConnection
      <4> QED BY <1>4, <4>2
    <3>3. \/ state' = state
          \/ state' = [state EXCEPT !.connection = "rest_error"]
          \/ state' = [state EXCEPT !.connection = "server_unavailable"]
          \/ state' = [state EXCEPT !.connection = state.connection]
      BY <2>2 DEF RequestFails
    <3> QED BY <3>1, <3>2, <3>3
  <2>3. CASE Apply(r)
    <3> DEFINE n == requests[r].answer
    <3>1. CASE state' = [state EXCEPT !.views = n]
      <4>1. Shows(state') /\ state'.connection = state.connection /\ state'.frames = state.frames
        BY <1>1, <1>4, <3>1, ShowsViews
      <4> QED BY <1>4, <4>1
    <3>2. CASE state' = ApplyRest(n)
      <4> DEFINE f == Max({state.frames, Frames(n)})
                 c == ConnectionAfterSuccess
      <4>1. f \in Nat /\ f >= state.frames
        BY <1>1, <1>4, FramesNat, MaxOfTwo
      <4>2. c \in ConnectionState /\ (c = "connected" => refs.open \/ state.connection = "connected")
        BY <1>4 DEF ConnectionAfterSuccess, ConnectionState
      <4>3. state' = [state EXCEPT !.views = n, !.frames = f, !.connection = c]
        BY <3>2 DEF ApplyRest
      <4>4. n \in Nat
        BY <1>1
      <4> HIDE DEF n, f, c
      <4>5. Shows(state') /\ state'.connection = c /\ state'.frames = f
        BY <1>4, <4>1, <4>2, <4>3, <4>4, Zenon DEF Shows
      <4> QED BY <4>1, <4>2, <4>5
    <3> QED BY <2>3, <3>1, <3>2 DEF Apply
  <2> QED BY <2>1, <2>2, <2>3
<1> QED BY <1>2, <1>3, <1>5 DEF ViewTypes

\* The bootstrap goes on, which replaces the number of frames once, before it
\* is done.
LEMMA BootstrapSteps ==
  ASSUME ViewTypes, Bootstrap
  PROVE  /\ ViewTypes' /\ streams' = streams /\ MountKept /\ refs' = refs
         /\ mount.boot = "done" => state'.frames >= state.frames
         /\ state'.connection = "connected" => state.connection = "connected"
<1>1. UNCHANGED <<streams, published, refs, requests>>
  BY DEF Bootstrap, AnswerBootstrap, Seed, Fill, BootstrapFails
<1>2. Shows(state) /\ state.frames \in Nat /\ published \in Nat
  BY DEF ViewTypes, Shows
<1>3. mount' \in Mounted /\ MountKept
  <2>0. mount \in Mounted /\ mount.answer \in Nat
    BY DEF ViewTypes, Mounted
  <2>1. CASE AnswerBootstrap
    <3> DEFINE b == IF mount.boot = "recent" THEN "seed" ELSE "fill"
    <3>1. mount' = [mount EXCEPT !.boot = b, !.answer = published] /\ b \in Boot
      BY <2>1 DEF AnswerBootstrap, Boot
    <3> HIDE DEF b
    <3> QED BY <1>2, <2>0, <3>1, MountMoves
  <2>2. CASE Seed \/ Fill
    <3>1. PICK b \in Boot : mount' = [mount EXCEPT !.boot = b, !.answer = 0]
      BY <2>2 DEF Seed, Fill, Boot
    <3> QED BY <2>0, <3>1, MountMoves
  <2>3. CASE BootstrapFails
    <3>1. mount' = [mount EXCEPT !.boot = "failed"] /\ "failed" \in Boot
      BY <2>3 DEF BootstrapFails, Boot
    <3> QED BY <2>0, <3>1, MountFails
  <2> QED BY <2>1, <2>2, <2>3 DEF Bootstrap
<1>4. /\ Shows(state')
      /\ mount.boot = "done" => state'.frames >= state.frames
      /\ state'.connection = "connected" => state.connection = "connected"
  <2>1. CASE AnswerBootstrap
    BY <1>2, <2>1 DEF AnswerBootstrap
  <2>2. CASE Seed
    <3>1. \E e : state' = [state EXCEPT !.events = e]
      BY <2>2, Zenon DEF Seed
    <3>2. PICK e : state' = [state EXCEPT !.events = e]
      BY <3>1
    <3>3. Shows(state') /\ state'.connection = state.connection /\ state'.frames = state.frames
      BY <1>2, <3>2, ShowsEvents
    <3> QED BY <1>2, <3>3
  <2>3. CASE Fill
    <3>1. mount.answer \in Nat
      BY DEF ViewTypes, Mounted
    <3>2. Shows(state') /\ state'.connection = state.connection
    <4> DEFINE f == Frames(mount.answer)
               v == mount.answer
    <4>1. state' = [state EXCEPT !.frames = f, !.views = v] /\ f \in Nat /\ v \in Nat
      BY <2>3, <3>1, FramesNat DEF Fill
    <4> HIDE DEF f, v
    <4> QED BY <1>2, <4>1, Zenon DEF Shows
    <3> QED BY <2>3, <3>2 DEF Fill
  <2>4. CASE BootstrapFails
    <3>1. PICK c \in {"server_unavailable", "rest_error"} : state' = [state EXCEPT !.connection = c]
      BY <2>4 DEF BootstrapFails
    <3>2. Shows(state') /\ state'.connection = c /\ state'.frames = state.frames
      BY <1>2, <3>1, ShowsConnection DEF ConnectionState
    <3> QED BY <1>2, <3>1, <3>2
  <2> QED BY <2>1, <2>2, <2>3, <2>4 DEF Bootstrap
<1> QED BY <1>1, <1>3, <1>4 DEF ViewTypes

\* What the callbacks of the stream make of what is shown.
LEMMA OpenShows ==
  ASSUME ViewTypes, NEW s \in Stream, NEW k \in Slot, OnOpen(s, k)
  PROVE  /\ ViewTypes' /\ mount' = mount /\ state'.frames >= state.frames
<1>1. Shows(state) /\ state.frames \in Nat /\ "connected" \in ConnectionState
  BY DEF ViewTypes, Shows, ConnectionState
<1>2. Shows(state') /\ state'.frames = state.frames
  BY <1>1, ShowsConnection DEF OnOpen
<1>3. requests' \in [1..MaxRequests -> Request]
  BY RequestedTypes DEF OnOpen, ViewTypes
<1>4. UNCHANGED <<published, mount>> /\ refs' \in [open : BOOLEAN]
  BY DEF OnOpen
<1>5. state'.frames >= state.frames
  BY <1>1, <1>2
<1> QED BY <1>2, <1>3, <1>4, <1>5 DEF ViewTypes

LEMMA CloseShows ==
  ASSUME ViewTypes, NEW s \in Stream, NEW k \in Slot, OnClose(s, k)
  PROVE  /\ ViewTypes' /\ mount' = mount /\ state'.frames >= state.frames
         /\ ~refs'.open /\ state'.connection # "connected"
<1> DEFINE c == IF state.connection = "server_unavailable" THEN state.connection ELSE "reconnecting"
<1>1. Shows(state) /\ state.frames \in Nat
  BY DEF ViewTypes, Shows
<1>2. c \in ConnectionState /\ c # "connected"
  BY DEF ConnectionState
<1>3. state' = [state EXCEPT !.connection = c]
  BY DEF OnClose
<1> HIDE DEF c
<1>4. Shows(state') /\ state'.connection = c /\ state'.frames = state.frames
  BY <1>1, <1>2, <1>3, ShowsConnection
<1> QED BY <1>1, <1>2, <1>4 DEF OnClose, ViewTypes

LEMMA EventShows ==
  ASSUME ViewTypes, NEW s \in Stream, OnEvent(s)
  PROVE  /\ ViewTypes' /\ streams' = streams /\ mount' = mount /\ refs' = refs
         /\ state'.frames >= state.frames
<1>1. Shows(state) /\ state.frames \in Nat /\ "connected" \in ConnectionState
  BY DEF ViewTypes, Shows, ConnectionState
<1>2. \E e : \E f \in {state.frames, state.frames + 1} :
        state' = [state EXCEPT !.events = e, !.frames = f, !.connection = "connected"]
  <2> DEFINE envelope == Envelope(Script[feed[s]], published)
             f == IF IsFrameEvent(envelope.type) THEN state.frames + 1 ELSE state.frames
  <2>1. state' = [state EXCEPT !.events = MergeEventsNewestFirst(state.events, <<envelope>>),
                               !.frames = f, !.connection = "connected"]
    BY Zenon DEF OnEvent
  <2>2. f \in {state.frames, state.frames + 1}
    OBVIOUS
  <2> HIDE DEF f, envelope
  <2> QED BY <2>1, <2>2
<1>3. PICK e, f : /\ f \in {state.frames, state.frames + 1}
                  /\ state' = [state EXCEPT !.events = e, !.frames = f, !.connection = "connected"]
  BY <1>2
<1>4. Shows(state') /\ state'.frames = f
  <2>1. f \in Nat
    BY <1>1, <1>3
  <2> QED BY <1>1, <1>3, <2>1, Zenon DEF Shows
<1>5. state'.frames >= state.frames
  BY <1>1, <1>3, <1>4
<1>6. requests' \in [1..MaxRequests -> Request]
  <2>1. requests' = requests \/ requests' = Requested(FALSE)
    BY DEF OnEvent
  <2> QED BY <2>1, RequestedTypes DEF ViewTypes
<1>7. UNCHANGED <<streams, published, mount, refs>>
  BY DEF OnEvent
<1> QED BY <1>4, <1>5, <1>6, <1>7 DEF ViewTypes

\* The other steps leave what is shown alone.
LEMMA OtherSteps ==
  ASSUME ViewTypes, Server \/ Mount \/ Unmount \/ Poll \/ (\E s \in Stream : Reconnect(s)) \/ UNCHANGED vars
  PROVE  /\ ViewTypes' /\ state' = state /\ refs' = refs
<1>1. state' = state /\ refs' = refs
  BY DEF Server, Publish, Skip, Mount, Unmount, Poll, Reconnect, vars
<1>2. published' \in Nat
  <2>1. published' = published \/ published' = published + 1
    BY DEF Server, Publish, Skip, Mount, Unmount, Poll, Reconnect, vars
  <2> QED BY <2>1 DEF ViewTypes
<1>3. mount' \in Mounted
  <2>1. CASE Mount
    BY <2>1 DEF Mount, ViewTypes, Mounted, Boot
  <2>2. CASE Unmount
    BY <2>2 DEF Unmount, ViewTypes, Mounted, Boot
  <2>3. CASE mount' = mount
    BY <2>3 DEF ViewTypes
  <2> QED BY <2>1, <2>2, <2>3 DEF Server, Publish, Skip, Poll, Reconnect, vars
<1>4. requests' \in [1..MaxRequests -> Request]
  <2>1. requests' = requests \/ requests' = Requested(TRUE)
    BY DEF Server, Publish, Skip, Mount, Unmount, Poll, Reconnect, vars
  <2> QED BY <2>1, RequestedTypes DEF ViewTypes
<1> QED BY <1>1, <1>2, <1>3, <1>4 DEF ViewTypes

LEMMA TypesInit == Init => ViewTypes
<1> SUFFICES ASSUME Init PROVE ViewTypes
  OBVIOUS
<1>1. NoRequest \in Request
  BY DEF NoRequest, Request
<1>2. Shows(state)
  BY DEF Init, Shows, ConnectionState
<1> QED BY <1>1, <1>2 DEF Init, ViewTypes, Mounted, Boot

LEMMA TypesNext == ViewTypes /\ [Next]_vars => ViewTypes'
BY RequestSteps, BootstrapSteps, OpenShows, CloseShows, EventShows, OtherSteps DEF Next

\* FramesNeverDecrease (Dashboard.tla): whichever answers come late, and however
\* many refreshes and mounts there are, the number of frames that is shown once
\* the bootstrap is done is never taken back.
THEOREM FramesGrow == Spec => FramesNeverDecrease
<1>1. ASSUME ViewTypes, [Next]_vars
      PROVE  [mount.boot = "done" /\ mount'.no = mount.no => state'.frames >= state.frames]_vars
  <2>1. state.frames \in Nat
    BY <1>1 DEF ViewTypes, Shows
  <2>2. CASE Bootstrap
    BY <1>1, <2>2, BootstrapSteps
  <2>3. ASSUME NEW r \in 1..MaxRequests, AnswerRequest(r) \/ RequestFails(r) \/ Apply(r)
        PROVE  state'.frames >= state.frames
    BY <1>1, <2>3, RequestSteps
  <2>4. ASSUME NEW s \in Stream, NEW k \in Slot, OnOpen(s, k) \/ OnClose(s, k)
        PROVE  state'.frames >= state.frames
    BY <1>1, <2>4, OpenShows, CloseShows
  <2>5. ASSUME NEW s \in Stream, OnEvent(s)
        PROVE  state'.frames >= state.frames
    BY <1>1, <2>5, EventShows
  <2>6. CASE Server \/ Mount \/ Unmount \/ Poll \/ (\E s \in Stream : Reconnect(s)) \/ UNCHANGED vars
    <3>1. state' = state
      BY <1>1, <2>6, OtherSteps
    <3> QED BY <2>1, <3>1
  <2> QED BY <1>1, <2>2, <2>3, <2>4, <2>5, <2>6 DEF Next
<1> QED BY <1>1, TypesInit, TypesNext, PTL DEF Spec, FramesNeverDecrease

-----------------------------------------------------------------------------
(***************************************************************************)
(* An EventStream object, and what its methods and callbacks do to it      *)
(***************************************************************************)

\* It has no socket, and it may wait to reconnect.
Quiet(o) ==
  /\ o.socket = 0 /\ o.slots[1] = "free" /\ o.slots[2] = "free"
  /\ ~(o.timer /\ o.closedByUser)

\* It has the one socket that it looks at.
Active(o) ==
  /\ ~o.timer /\ ~o.closedByUser
  /\ \/ o.socket = 1 /\ o.slots[1] \in {"connecting", "open"} /\ o.slots[2] = "free"
     \/ o.socket = 2 /\ o.slots[2] \in {"connecting", "open"} /\ o.slots[1] = "free"

\* Its user has closed the one socket it had, which has not been told yet.
Leaving(o) ==
  /\ ~o.timer /\ o.closedByUser /\ o.socket = 0
  /\ \/ o.slots[1] = "closing" /\ o.slots[2] = "free"
     \/ o.slots[2] = "closing" /\ o.slots[1] = "free"

Owned(o) == o \in StreamObject /\ (Quiet(o) \/ Active(o) \/ Leaving(o))

\* It has a socket that is open, or closed by the cleanup and not yet told so.
Held(o) == o.slots[1] \in {"open", "closing"} \/ o.slots[2] \in {"open", "closing"}

\* The objects that the methods and callbacks leave.
Connected(o) == OpenSocket([o EXCEPT !.closedByUser = FALSE])

Disconnected(o) ==
  LET cleared == [o EXCEPT !.closedByUser = TRUE, !.timer = FALSE]
  IN  IF o.socket = 0 THEN cleared
      ELSE [cleared EXCEPT !.slots[o.socket] = "closing", !.socket = 0]

Opened1(o, k) == [o EXCEPT !.slots[k] = "open"]

Closed1(o, k) ==
  LET closed == [o EXCEPT !.slots[k] = "free", !.socket = 0]
  IN  IF o.closedByUser THEN closed ELSE ScheduleReconnect(closed)

Fired(o) ==
  LET fired == [o EXCEPT !.timer = FALSE]
  IN  IF o.closedByUser THEN fired ELSE OpenSocket(fired)

\* An object is given by its fields.
LEMMA Fields ==
  ASSUME NEW o \in StreamObject
  PROVE  /\ o.slots \in [Slot -> SocketState] /\ o.socket \in {0} \cup Slot
         /\ o.timer \in BOOLEAN /\ o.closedByUser \in BOOLEAN
         /\ o = [slots |-> o.slots, socket |-> o.socket, timer |-> o.timer,
                 closedByUser |-> o.closedByUser]
BY DEF StreamObject

\* One slot of the two changes.
LEMMA SlotSet ==
  ASSUME NEW f \in [Slot -> SocketState], NEW k \in Slot, NEW v \in SocketState
  PROVE  /\ [f EXCEPT ![k] = v] \in [Slot -> SocketState]
         /\ [f EXCEPT ![k] = v][k] = v
         /\ \A j \in Slot \ {k} : [f EXCEPT ![k] = v][j] = f[j]
OBVIOUS

LEMMA OpenSocketOwned ==
  ASSUME NEW o \in StreamObject, Quiet(o), ~o.timer, ~o.closedByUser
  PROVE  Owned(OpenSocket(o)) /\ ~OpenSocket(o).closedByUser
<1> DEFINE f == [o.slots EXCEPT ![1] = "connecting"]
           u == [slots |-> f, socket |-> 1, timer |-> o.timer, closedByUser |-> o.closedByUser]
<1>1. OpenSocket(o) = [o EXCEPT !.slots = f, !.socket = 1]
  BY DEF OpenSocket, Quiet
<1>2. f \in [Slot -> SocketState] /\ f[1] = "connecting" /\ f[2] = "free"
  BY Fields, SlotSet DEF Slot, SocketState, Quiet
<1> HIDE DEF f
<1>3. OpenSocket(o) = u
  BY <1>1, Fields
<1>4. u \in StreamObject
  BY <1>2, Fields DEF StreamObject, Slot
<1>5. Active(u) /\ ~u.closedByUser
  BY <1>2 DEF Active
<1> HIDE DEF u
<1> QED BY <1>3, <1>4, <1>5 DEF Owned

LEMMA ConnectOwned ==
  ASSUME NEW o, o = NewStream
  PROVE  Owned(o) /\ Owned(Connected(o)) /\ ~Held(o)
<1>1. o \in StreamObject
  BY DEF NewStream, StreamObject, Slot, SocketState
<1>2. /\ o.slots[1] = "free" /\ o.slots[2] = "free" /\ o.socket = 0
      /\ ~o.timer /\ ~o.closedByUser
  BY DEF NewStream, Slot
<1>3. Quiet(o) /\ ~Held(o)
  BY <1>2 DEF Quiet, Held
<1> DEFINE v == [o EXCEPT !.closedByUser = FALSE]
<1>4. /\ v \in StreamObject /\ v.slots = o.slots /\ v.socket = o.socket /\ v.timer = o.timer
      /\ ~v.closedByUser
  BY <1>1, Zenon DEF StreamObject
<1> HIDE DEF v
<1>5. Quiet(v) /\ ~v.timer
  BY <1>2, <1>4 DEF Quiet
<1>6. Connected(o) = OpenSocket(v)
  BY DEF Connected, v
<1> QED BY <1>1, <1>3, <1>4, <1>5, <1>6, OpenSocketOwned DEF Owned

LEMMA DisconnectOwned ==
  ASSUME NEW o, Owned(o)
  PROVE  /\ Owned(Disconnected(o)) /\ Disconnected(o).closedByUser
         /\ Held(o) => Held(Disconnected(o))
<1> DEFINE u == Disconnected(o)
<1>1. CASE o.socket = 0
  <2> DEFINE v == [o EXCEPT !.closedByUser = TRUE, !.timer = FALSE]
  <2>1. u = v
    BY <1>1 DEF Disconnected
  <2>2. o \in StreamObject /\ (Quiet(o) \/ Leaving(o))
    BY <1>1 DEF Owned, Active
  <2>3. /\ v \in StreamObject /\ v.slots = o.slots /\ v.socket = o.socket /\ ~v.timer
        /\ v.closedByUser
    BY <2>2, Zenon DEF StreamObject
  <2> HIDE DEF u, v
  <2>4. (Quiet(o) => Quiet(v)) /\ (Leaving(o) => Leaving(v)) /\ (Held(o) => Held(v))
    BY <2>3 DEF Quiet, Leaving, Held
  <2>5. Owned(u) /\ u.closedByUser /\ (Held(o) => Held(u))
    BY <2>1, <2>2, <2>3, <2>4 DEF Owned
  <2> QED BY <2>5 DEF u
<1>2. CASE o.socket # 0
  <2> DEFINE k == o.socket
             f == [o.slots EXCEPT ![k] = "closing"]
             v == [slots |-> f, socket |-> 0, timer |-> FALSE, closedByUser |-> TRUE]
  <2>1. o \in StreamObject /\ Active(o) /\ k \in {1, 2} /\ o.slots \in [Slot -> SocketState]
    BY <1>2, Fields DEF Owned, Quiet, Leaving, Slot
  <2>2. u = [o EXCEPT !.closedByUser = TRUE, !.timer = FALSE, !.slots = f, !.socket = 0]
    BY <1>2 DEF Disconnected
  <2>3. /\ f \in [Slot -> SocketState] /\ f[k] = "closing"
        /\ \A j \in Slot \ {k} : f[j] = o.slots[j]
    BY <2>1, SlotSet DEF Slot, SocketState
  <2>4. (f[1] = "closing" /\ f[2] = "free") \/ (f[2] = "closing" /\ f[1] = "free")
    BY <2>1, <2>3 DEF Active, Slot
  <2> HIDE DEF f
  <2>5. u = v
    BY <2>1, <2>2, Fields
  <2>6. v \in StreamObject
    BY <2>3 DEF StreamObject
  <2>7. Leaving(v) /\ Held(v) /\ v.closedByUser
    BY <2>4 DEF Leaving, Held
  <2> HIDE DEF v
  <2> QED BY <2>5, <2>6, <2>7 DEF Owned
<1> QED BY <1>1, <1>2

LEMMA OpensOwned ==
  ASSUME NEW o, Owned(o), NEW k \in Slot, o.slots[k] = "connecting"
  PROVE  /\ Owned(Opened1(o, k)) /\ Opened1(o, k).closedByUser = o.closedByUser
         /\ Held(Opened1(o, k))
<1> DEFINE f == [o.slots EXCEPT ![k] = "open"]
           v == [slots |-> f, socket |-> o.socket, timer |-> o.timer, closedByUser |-> o.closedByUser]
<1>1. o \in StreamObject /\ o.slots \in [Slot -> SocketState] /\ k \in {1, 2}
  BY Fields DEF Owned, Slot
<1>2. Active(o) /\ o.socket = k
  BY <1>1 DEF Owned, Quiet, Active, Leaving
<1>3. f \in [Slot -> SocketState] /\ f[k] = "open" /\ \A j \in Slot \ {k} : f[j] = o.slots[j]
  BY <1>1, SlotSet DEF SocketState
<1>4. Opened1(o, k) = [o EXCEPT !.slots = f]
  BY DEF Opened1
<1> HIDE DEF f
<1>5. Opened1(o, k) = v
  BY <1>1, <1>4, Fields
<1>6. v \in StreamObject
  BY <1>1, <1>3, Fields DEF StreamObject
<1>7. Active(v) /\ Held(v) /\ v.closedByUser = o.closedByUser
  BY <1>1, <1>2, <1>3 DEF Active, Held, Slot
<1> HIDE DEF v
<1> QED BY <1>5, <1>6, <1>7 DEF Owned

LEMMA ClosesOwned ==
  ASSUME NEW o, Owned(o), NEW k \in Slot, o.slots[k] # "free"
  PROVE  Owned(Closed1(o, k)) /\ Closed1(o, k).closedByUser = o.closedByUser
<1> DEFINE f == [o.slots EXCEPT ![k] = "free"]
           v == [slots |-> f, socket |-> 0, timer |-> ~o.closedByUser, closedByUser |-> o.closedByUser]
<1>1. o \in StreamObject /\ o.slots \in [Slot -> SocketState] /\ k \in {1, 2}
  BY Fields DEF Owned, Slot
<1>2. (Active(o) \/ Leaving(o)) /\ \A j \in Slot \ {k} : o.slots[j] = "free"
  BY <1>1 DEF Owned, Quiet, Active, Leaving, Slot
<1>3. f \in [Slot -> SocketState] /\ f[1] = "free" /\ f[2] = "free"
  BY <1>1, <1>2, SlotSet DEF SocketState, Slot
<1>4. ~o.timer /\ o.closedByUser \in BOOLEAN
  BY <1>1, <1>2, Fields DEF Active, Leaving
<1>5. Closed1(o, k) = IF o.closedByUser THEN [o EXCEPT !.slots = f, !.socket = 0]
                      ELSE [o EXCEPT !.slots = f, !.socket = 0, !.timer = TRUE]
  BY DEF Closed1, ScheduleReconnect
<1> HIDE DEF f
<1>6. Closed1(o, k) = v
  BY <1>1, <1>4, <1>5, Fields
<1>7. v \in StreamObject
  BY <1>3, <1>4 DEF StreamObject
<1>8. Quiet(v) /\ v.closedByUser = o.closedByUser
  BY <1>3 DEF Quiet
<1> HIDE DEF v
<1> QED BY <1>6, <1>7, <1>8 DEF Owned

LEMMA TimerOwned ==
  ASSUME NEW o, Owned(o), o.timer
  PROVE  Owned(Fired(o)) /\ ~Fired(o).closedByUser /\ ~o.closedByUser /\ ~Held(o)
<1> DEFINE v == [o EXCEPT !.timer = FALSE]
<1>1. o \in StreamObject /\ Quiet(o) /\ ~o.closedByUser /\ ~Held(o)
  BY DEF Owned, Quiet, Active, Leaving, Held
<1>2. /\ v \in StreamObject /\ v.slots = o.slots /\ v.socket = o.socket /\ ~v.timer
      /\ v.closedByUser = o.closedByUser
  BY <1>1, Zenon DEF StreamObject
<1> HIDE DEF v
<1>3. v \in StreamObject /\ Quiet(v) /\ ~v.timer /\ ~v.closedByUser
  BY <1>1, <1>2 DEF Quiet
<1>4. Fired(o) = OpenSocket(v)
  BY <1>1 DEF Fired, v
<1> QED BY <1>1, <1>3, <1>4, OpenSocketOwned

-----------------------------------------------------------------------------
(***************************************************************************)
(* The objects of all mounts                                               *)
(***************************************************************************)

\* An object was made by the mount of its number, and closed by its cleanup.
StreamsInv ==
  /\ streams \in [Stream -> StreamObject]
  /\ mount.on => mount.no \in Stream
  /\ \A s \in Stream :
       /\ Owned(streams[s])
       /\ s > mount.no => streams[s] = NewStream
       /\ s < mount.no \/ (s = mount.no /\ ~mount.on) => streams[s].closedByUser

\* The steps of the objects, by what they do to one of them.
LEMMA MethodSteps ==
  ASSUME streams \in [Stream -> StreamObject], NEW s \in Stream
  PROVE  /\ Connect(s) => streams' = [streams EXCEPT ![s] = Connected(streams[s])]
         /\ Disconnect(s) => streams' = [streams EXCEPT ![s] = Disconnected(streams[s])]
         /\ TimerFires(s) => streams' = [streams EXCEPT ![s] = Fired(streams[s])]
<1>1. Connect(s) => streams' = [streams EXCEPT ![s] = Connected(streams[s])]
  BY DEF Connect, Connected
<1>2. Disconnect(s) => streams' = [streams EXCEPT ![s] = Disconnected(streams[s])]
  BY DEF Disconnect, Disconnected
<1>3. TimerFires(s) => streams' = [streams EXCEPT ![s] = Fired(streams[s])]
  BY DEF TimerFires, Fired
<1> QED BY <1>1, <1>2, <1>3

LEMMA CallbackSteps ==
  ASSUME streams \in [Stream -> StreamObject], NEW s \in Stream, NEW k \in Slot
  PROVE  /\ Opens(s, k) => streams' = [streams EXCEPT ![s] = Opened1(streams[s], k)]
         /\ Closes(s, k) => streams' = [streams EXCEPT ![s] = Closed1(streams[s], k)]
<1>1. Opens(s, k) => streams' = [streams EXCEPT ![s] = Opened1(streams[s], k)]
  BY DEF Opens, Opened1
<1>2. Closes(s, k) => streams' = [streams EXCEPT ![s] = Closed1(streams[s], k)]
  BY DEF Closes, Closed1
<1> QED BY <1>1, <1>2

\* The streams are numbered from one.
LEMMA Numbered ==
  /\ Cardinality(Stream) \in Nat /\ Stream \subseteq Nat
  /\ \A n \in Nat : n < Cardinality(Stream) => n + 1 \in Stream
<1>1. Cardinality(Stream) \in Nat /\ Stream = 1..Cardinality(Stream)
  BY DashboardConfig, FS_CardinalityType
<1> QED BY <1>1

\* A callback or a timer changes an object that was made, and not whether its
\* user has closed it.
LEMMA OneStream ==
  ASSUME StreamsInv, NEW s \in Stream, NEW o, Owned(o), MountKept, s <= mount.no,
         streams' = [streams EXCEPT ![s] = o], o.closedByUser = streams[s].closedByUser,
         mount.no \in Nat
  PROVE  StreamsInv'
<1>1. streams' \in [Stream -> StreamObject]
  BY DEF StreamsInv, Owned
<1>2. streams'[s] = o /\ \A t \in Stream \ {s} : streams'[t] = streams[t]
  BY DEF StreamsInv
<1>3. ASSUME NEW t \in Stream
      PROVE  /\ Owned(streams'[t])
             /\ t > mount.no => streams'[t] = NewStream
             /\ t < mount.no \/ (t = mount.no /\ ~mount.on) => streams'[t].closedByUser
  <2>1. CASE t = s
    <3>1. ~(t > mount.no)
      BY <2>1, Numbered
    <3> QED BY <1>2, <2>1, <3>1 DEF StreamsInv
  <2>2. CASE t # s
    BY <1>2, <2>2 DEF StreamsInv
  <2> QED BY <2>1, <2>2
<1> QED BY <1>1, <1>3 DEF StreamsInv, MountKept

\* An object that has a socket or a timer was made.
LEMMA Made ==
  ASSUME StreamsInv, NEW s \in Stream, mount.no \in Nat,
         streams[s].timer \/ \E k \in Slot : streams[s].slots[k] # "free"
  PROVE  s <= mount.no
<1>1. streams[s] # NewStream
  BY DEF NewStream
<1>2. s \in Nat /\ ~(s > mount.no)
  BY <1>1, Numbered DEF StreamsInv
<1> QED BY <1>2

LEMMA StreamsMount ==
  ASSUME StreamsInv, ViewTypes, Mount
  PROVE  StreamsInv'
<1> DEFINE n == mount.no + 1
<1>1. mount.no \in Nat /\ n \in Stream /\ n \in Nat /\ n > mount.no /\ ~mount.on
  <2>1. mount.no \in Nat
    BY DEF ViewTypes, Mounted
  <2> QED BY <2>1, Numbered DEF Mount
<1>2. mount'.no = n /\ mount'.on
  BY DEF Mount
<1>3. streams[n] = NewStream /\ streams' = [streams EXCEPT ![n] = Connected(streams[n])]
  BY <1>1, MethodSteps DEF Mount, StreamsInv
<1> DEFINE o == Connected(streams[n])
<1>4. Owned(o)
  BY <1>3, ConnectOwned
<1> HIDE DEF n, o
<1>5. streams' = [streams EXCEPT ![n] = o]
  BY <1>3 DEF o
<1>6. streams' \in [Stream -> StreamObject]
  BY <1>4, <1>5 DEF StreamsInv, Owned
<1>7. streams'[n] = o /\ \A t \in Stream \ {n} : streams'[t] = streams[t]
  BY <1>1, <1>5 DEF StreamsInv
<1>8. ASSUME NEW t \in Stream
      PROVE  /\ Owned(streams'[t])
             /\ t > n => streams'[t] = NewStream
             /\ t < n => streams'[t].closedByUser
  <2>1. t \in Nat
    BY Numbered
  <2>2. CASE t = n
    BY <1>1, <1>4, <1>7, <2>2
  <2>3. CASE t # n
    <3>1. (t > n => t > mount.no) /\ (t < n => t < mount.no \/ t = mount.no)
      BY <1>1, <2>1 DEF n
    <3> QED BY <1>1, <1>7, <2>3, <3>1 DEF StreamsInv
  <2> QED BY <2>2, <2>3
<1> QED BY <1>1, <1>2, <1>6, <1>8 DEF StreamsInv

LEMMA StreamsUnmount ==
  ASSUME StreamsInv, ViewTypes, Unmount
  PROVE  StreamsInv'
<1> DEFINE n == mount.no
           o == Disconnected(streams[n])
<1>1. mount.no \in Nat /\ n \in Stream /\ n \in Nat
  BY DEF ViewTypes, Mounted, Unmount, StreamsInv
<1>2. mount'.no = n /\ ~mount'.on
  BY DEF Unmount, ViewTypes, Mounted
<1>3. streams' = [streams EXCEPT ![n] = o]
  BY <1>1, MethodSteps DEF Unmount, StreamsInv
<1>4. Owned(o) /\ o.closedByUser
  BY <1>1, DisconnectOwned DEF StreamsInv
<1> HIDE DEF n, o
<1>5. streams' \in [Stream -> StreamObject]
  BY <1>3, <1>4 DEF StreamsInv, Owned
<1>6. streams'[n] = o /\ \A t \in Stream \ {n} : streams'[t] = streams[t]
  BY <1>1, <1>3 DEF StreamsInv
<1>7. ASSUME NEW t \in Stream
      PROVE  /\ Owned(streams'[t])
             /\ t > n => streams'[t] = NewStream
             /\ t < n \/ t = n => streams'[t].closedByUser
  <2>1. CASE t = n
    BY <1>1, <1>4, <1>6, <2>1
  <2>2. CASE t # n
    BY <1>6, <2>2 DEF StreamsInv, n
  <2> QED BY <2>1, <2>2
<1> QED BY <1>2, <1>5, <1>7 DEF StreamsInv

\* The timer fires, or a socket's callback comes.
LEMMA StreamsTimer ==
  ASSUME StreamsInv, ViewTypes, NEW s \in Stream, Reconnect(s)
  PROVE  StreamsInv'
<1> DEFINE o == Fired(streams[s])
<1>1. mount.no \in Nat /\ Owned(streams[s]) /\ streams[s].timer
  BY DEF ViewTypes, Mounted, StreamsInv, Reconnect, TimerFires
<1>2. Owned(o) /\ ~o.closedByUser /\ ~streams[s].closedByUser
  BY <1>1, TimerOwned
<1>3. streams' = [streams EXCEPT ![s] = o]
  BY MethodSteps DEF Reconnect, StreamsInv
<1>4. s <= mount.no
  BY <1>1, Made
<1>5. MountKept
  BY DEF MountKept, Reconnect
<1>6. o.closedByUser = streams[s].closedByUser
  <2>1. o.closedByUser \in BOOLEAN /\ streams[s].closedByUser \in BOOLEAN
    BY <1>1, <1>2, Fields DEF Owned
  <2> HIDE DEF o
  <2> QED BY <1>2, <2>1
<1> HIDE DEF o
<1> QED BY <1>1, <1>2, <1>3, <1>4, <1>5, <1>6, OneStream

LEMMA StreamsOpen ==
  ASSUME StreamsInv, ViewTypes, NEW s \in Stream, NEW k \in Slot, OnOpen(s, k)
  PROVE  StreamsInv'
<1> DEFINE o == Opened1(streams[s], k)
<1>1. mount.no \in Nat /\ Owned(streams[s]) /\ streams[s].slots[k] = "connecting"
  BY DEF ViewTypes, Mounted, StreamsInv, OnOpen, Opens
<1>2. Owned(o) /\ o.closedByUser = streams[s].closedByUser
  BY <1>1, OpensOwned
<1>3. streams' = [streams EXCEPT ![s] = o]
  BY CallbackSteps DEF OnOpen, StreamsInv
<1>4. s <= mount.no
  BY <1>1, Made
<1>5. MountKept
  BY DEF MountKept, OnOpen
<1> HIDE DEF o
<1> QED BY <1>1, <1>2, <1>3, <1>4, <1>5, OneStream

LEMMA StreamsClose ==
  ASSUME StreamsInv, ViewTypes, NEW s \in Stream, NEW k \in Slot, OnClose(s, k)
  PROVE  StreamsInv'
<1> DEFINE o == Closed1(streams[s], k)
<1>1. mount.no \in Nat /\ Owned(streams[s]) /\ streams[s].slots[k] # "free"
  BY DEF ViewTypes, Mounted, StreamsInv, OnClose, Closes
<1>2. Owned(o) /\ o.closedByUser = streams[s].closedByUser
  BY <1>1, ClosesOwned
<1>3. streams' = [streams EXCEPT ![s] = o]
  BY CallbackSteps DEF OnClose, StreamsInv
<1>4. s <= mount.no
  BY <1>1, Made
<1>5. MountKept
  BY DEF MountKept, OnClose
<1> HIDE DEF o
<1> QED BY <1>1, <1>2, <1>3, <1>4, <1>5, OneStream

LEMMA StreamsElse ==
  ASSUME StreamsInv, streams' = streams, MountKept
  PROVE  StreamsInv'
BY DEF StreamsInv, MountKept

\* The steps that no object takes part in.
LEMMA OthersLeaveStreams ==
  ASSUME ViewTypes,
         \/ Server \/ Bootstrap \/ Poll \/ UNCHANGED vars
         \/ \E r \in 1..MaxRequests : AnswerRequest(r) \/ RequestFails(r) \/ Apply(r)
         \/ \E s \in Stream : OnEvent(s)
  PROVE  streams' = streams /\ MountKept
<1>1. CASE Server \/ Poll \/ UNCHANGED vars
  BY <1>1 DEF Server, Publish, Skip, Poll, vars, MountKept
<1>2. CASE Bootstrap
  BY <1>2, BootstrapSteps
<1>3. CASE \E r \in 1..MaxRequests : AnswerRequest(r) \/ RequestFails(r) \/ Apply(r)
  BY <1>3, RequestSteps DEF MountKept
<1>4. CASE \E s \in Stream : OnEvent(s)
  BY <1>4, EventShows DEF MountKept
<1> QED BY <1>1, <1>2, <1>3, <1>4

LEMMA StreamsInit == Init => StreamsInv
<1> SUFFICES ASSUME Init PROVE StreamsInv
  OBVIOUS
<1>1. Owned(NewStream) /\ NewStream \in StreamObject
  BY ConnectOwned DEF Owned
<1>2. mount.no = 0 /\ ~mount.on /\ streams = [s \in Stream |-> NewStream]
  BY DEF Init, InitStreams
<1>3. \A s \in Stream : ~(s < 0) /\ s # 0
  BY Numbered, DashboardConfig
<1> QED BY <1>1, <1>2, <1>3 DEF StreamsInv

LEMMA StreamsNext == StreamsInv /\ ViewTypes /\ [Next]_vars => StreamsInv'
BY StreamsMount, StreamsUnmount, StreamsTimer, StreamsOpen, StreamsClose, StreamsElse,
   OthersLeaveStreams DEF Next

\* What an object that is owned shows of its sockets.
LEMMA OwnedSockets ==
  ASSUME NEW o, Owned(o)
  PROVE  /\ Cardinality({k \in Slot : o.slots[k] # "free"}) <= 1
         /\ o.timer \/ o.closedByUser => \A k \in Slot : o.slots[k] \notin {"connecting", "open"}
         /\ o.closedByUser => ~o.timer
<1>1. PICK k \in Slot : \A j \in Slot \ {k} : o.slots[j] = "free"
  BY DEF Owned, Quiet, Active, Leaving, Slot
<1>2. {j \in Slot : o.slots[j] # "free"} \in {{}, {k}}
  BY <1>1
<1>3. Cardinality({}) = 0 /\ Cardinality({k}) = 1
  BY FS_EmptySet, FS_Singleton
<1>4. Cardinality({j \in Slot : o.slots[j] # "free"}) <= 1
  BY <1>2, <1>3
<1>5. o.timer \/ o.closedByUser => \A j \in Slot : o.slots[j] \notin {"connecting", "open"}
  BY DEF Owned, Quiet, Active, Leaving, Slot
<1>6. o.closedByUser => ~o.timer
  BY DEF Owned, Quiet, Active, Leaving
<1> QED BY <1>4, <1>5, <1>6

LEMMA StreamsFollow == StreamsInv => SocketsAreOwned
<1> SUFFICES ASSUME StreamsInv, NEW s \in Stream
             PROVE  /\ Cardinality({k \in Slot : streams[s].slots[k] # "free"}) <= 1
                    /\ streams[s].timer => Live(s) = {}
                    /\ (s < mount.no \/ (s = mount.no /\ ~mount.on)) => Live(s) = {} /\ ~streams[s].timer
  BY DEF SocketsAreOwned
<1>1. Owned(streams[s])
  BY DEF StreamsInv
<1>2. /\ Cardinality({k \in Slot : streams[s].slots[k] # "free"}) <= 1
      /\ streams[s].timer \/ streams[s].closedByUser =>
           \A k \in Slot : streams[s].slots[k] \notin {"connecting", "open"}
      /\ streams[s].closedByUser => ~streams[s].timer
  BY <1>1, OwnedSockets
<1>3. s < mount.no \/ (s = mount.no /\ ~mount.on) => streams[s].closedByUser
  BY DEF StreamsInv
<1> QED BY <1>2, <1>3 DEF Live

\* SocketsAreOwned (Dashboard.tla): however many mounts there are, and in
\* whatever order the sockets' callbacks, the timers and the cleanups come, an
\* object has one socket at a time, and none and no timer after its cleanup.
THEOREM SocketsOwned == Spec => []SocketsAreOwned
BY TypesInit, TypesNext, StreamsInit, StreamsNext, StreamsFollow, PTL DEF Spec

-----------------------------------------------------------------------------
(***************************************************************************)
(* The status line                                                         *)
(***************************************************************************)

HasSocket == \E s \in Stream : Held(streams[s])

\* Who says connected has seen a socket open, and it is there.
ConnectedInv == refs.open \/ state.connection = "connected" => HasSocket

LEMMA HeldElsewhere ==
  ASSUME StreamsInv, NEW s \in Stream, NEW o, streams' = [streams EXCEPT ![s] = o],
         Held(streams[s]) => Held(o), HasSocket
  PROVE  HasSocket'
<1>1. PICK t \in Stream : Held(streams[t])
  BY DEF HasSocket
<1>2. streams'[s] = o /\ \A u \in Stream \ {s} : streams'[u] = streams[u]
  BY DEF StreamsInv
<1>3. CASE t = s
  BY <1>1, <1>2, <1>3 DEF HasSocket
<1>4. CASE t # s
  <2>1. streams'[t] = streams[t]
    BY <1>2, <1>4
  <2> QED BY <1>1, <2>1 DEF HasSocket
<1> QED BY <1>3, <1>4

LEMMA ConnectedNext ==
  ASSUME StreamsInv, ViewTypes, ConnectedInv, [Next]_vars
  PROVE  ConnectedInv'
<1>1. streams \in [Stream -> StreamObject] /\ \A s \in Stream : Owned(streams[s])
  BY DEF StreamsInv
<1>2. CASE Mount
  <2> DEFINE n == mount.no + 1
  <2>1. n \in Stream /\ n > mount.no
    <3>1. mount.no \in Nat
      BY DEF ViewTypes, Mounted
    <3> QED BY <1>2, <3>1, Numbered DEF Mount
  <2>2. streams[n] = NewStream /\ streams' = [streams EXCEPT ![n] = Connected(streams[n])]
    BY <1>1, <1>2, <2>1, MethodSteps DEF Mount, StreamsInv
  <2>3. ~Held(streams[n])
    BY <2>2, ConnectOwned
  <2>4. HasSocket => HasSocket'
    BY <2>1, <2>2, <2>3, HeldElsewhere
  <2>5. state' = state /\ refs' = refs
    BY <1>2 DEF Mount
  <2> QED BY <2>4, <2>5 DEF ConnectedInv
<1>3. CASE Unmount
  <2> DEFINE n == mount.no
  <2>1. n \in Stream
    BY <1>3 DEF Unmount, StreamsInv
  <2>2. streams' = [streams EXCEPT ![n] = Disconnected(streams[n])]
    BY <1>1, <1>3, <2>1, MethodSteps DEF Unmount
  <2>3. Held(streams[n]) => Held(Disconnected(streams[n]))
    BY <1>1, <2>1, DisconnectOwned
  <2>4. HasSocket => HasSocket'
    BY <2>1, <2>2, <2>3, HeldElsewhere
  <2>5. state' = state /\ refs' = refs
    BY <1>3 DEF Unmount
  <2> QED BY <2>4, <2>5 DEF ConnectedInv
<1>4. ASSUME NEW s \in Stream, Reconnect(s) PROVE ConnectedInv'
  <2>1. streams[s].timer /\ Owned(streams[s])
    BY <1>1, <1>4 DEF Reconnect, TimerFires
  <2>2. ~Held(streams[s])
    BY <2>1, TimerOwned
  <2>3. streams' = [streams EXCEPT ![s] = Fired(streams[s])]
    BY <1>1, <1>4, MethodSteps DEF Reconnect
  <2>4. HasSocket => HasSocket'
    BY <2>2, <2>3, HeldElsewhere
  <2>5. state' = state /\ refs' = refs
    BY <1>4 DEF Reconnect
  <2> QED BY <2>4, <2>5 DEF ConnectedInv
<1>5. ASSUME NEW s \in Stream, NEW k \in Slot, OnOpen(s, k) PROVE ConnectedInv'
  <2>1. streams[s].slots[k] = "connecting" /\ Owned(streams[s])
    BY <1>1, <1>5 DEF OnOpen, Opens
  <2>2. Held(Opened1(streams[s], k))
    BY <2>1, OpensOwned
  <2>3. streams' = [streams EXCEPT ![s] = Opened1(streams[s], k)]
    BY <1>1, <1>5, CallbackSteps DEF OnOpen
  <2>4. streams'[s] = Opened1(streams[s], k)
    BY <1>1, <2>3
  <2>5. Held(streams'[s])
    BY <2>2, <2>4
  <2> QED BY <2>5 DEF ConnectedInv, HasSocket
<1>6. ASSUME NEW s \in Stream, NEW k \in Slot, OnClose(s, k) PROVE ConnectedInv'
  BY <1>6, CloseShows DEF ConnectedInv
<1>7. ASSUME NEW s \in Stream, OnEvent(s) PROVE ConnectedInv'
  <2>1. streams' = streams
    BY <1>7, EventShows
  <2>2. Held(streams[s])
    BY <1>7 DEF OnEvent, IsOpen, Held, Slot
  <2> QED BY <2>1, <2>2 DEF ConnectedInv, HasSocket
<1>8. ASSUME streams' = streams, refs' = refs,
             state'.connection = "connected" => refs.open \/ state.connection = "connected"
      PROVE  ConnectedInv'
  BY <1>8 DEF ConnectedInv, HasSocket
<1>9. CASE Server \/ Poll \/ UNCHANGED vars
  BY <1>8, <1>9 DEF Server, Publish, Skip, Poll, vars
<1>10. CASE Bootstrap
  BY <1>8, <1>10, BootstrapSteps
<1>11. ASSUME NEW r \in 1..MaxRequests, AnswerRequest(r) \/ RequestFails(r) \/ Apply(r)
       PROVE  ConnectedInv'
  BY <1>8, <1>11, RequestSteps
<1> QED BY <1>2, <1>3, <1>4, <1>5, <1>6, <1>7, <1>9, <1>10, <1>11 DEF Next

\* ConnectedIsOpen (Dashboard.tla): the dashboard never says connected without a
\* socket, whatever older streams, late answers and failing requests set.
THEOREM ConnectedHasSocket == Spec => []ConnectedIsOpen
<1>1. Init => ConnectedInv
  BY DEF Init, ConnectedInv
<1>2. ConnectedInv => ConnectedIsOpen
  BY DEF ConnectedInv, ConnectedIsOpen, HasSocket, Held, Slot
<1> QED BY <1>1, <1>2, ConnectedNext, TypesInit, TypesNext, StreamsInit, StreamsNext, PTL DEF Spec

-----------------------------------------------------------------------------
(***************************************************************************)
(* The timeline.  Its keys are distinct, because every merge leaves them   *)
(* so, and to merge one envelope then only drops the one with its key.     *)
(***************************************************************************)

\* The larger one of any two numbers is a number.
LEMMA MaxOfInts ==
  ASSUME NEW a \in Int, NEW b \in Int
  PROVE  Max({a, b}) \in Int
<1>1. \E x \in {a, b} : \A y \in {a, b} : x >= y
  <2>1. CASE a >= b
    BY <2>1
  <2>2. CASE b >= a
    BY <2>2
  <2> QED BY <2>1, <2>2
<1>2. Max({a, b}) \in {a, b}
  BY <1>1, Zenon DEF Max
<1> QED BY <1>2

\* The smaller one of two numbers.
LEMMA MinOfTwo ==
  ASSUME NEW a \in Int, NEW b \in Int
  PROVE  Min({a, b}) = IF a <= b THEN a ELSE b
<1>1. \E x \in {a, b} : \A y \in {a, b} : x <= y
  <2>1. CASE a <= b
    BY <2>1
  <2>2. CASE b <= a
    BY <2>2
  <2> QED BY <2>1, <2>2
<1>2. Min({a, b}) \in {a, b} /\ \A y \in {a, b} : Min({a, b}) <= y
  BY <1>1, Zenon DEF Min
<1> QED BY <1>2

\* A set of numbers has a least one.
LEMMA LeastOfSet ==
  ASSUME NEW S, S \subseteq Nat, NEW n \in S
  PROVE  \E m \in S : \A k \in S : m <= k
<1> DEFINE T == {1..k : k \in S}
<1>1. IsWellFoundedOn(StrictSubsetOrdering(Nat), FiniteSubsetsOf(Nat))
  BY FS_StrictSubsetOrderingWellFounded, Zenon
<1>2. T \subseteq FiniteSubsetsOf(Nat)
  BY FS_Interval DEF FiniteSubsetsOf
<1>3. 1..n \in T
  OBVIOUS
<1>4. \E x \in T : \A y \in T : ~ (<<y, x>> \in StrictSubsetOrdering(Nat))
  <2> HIDE DEF T
  <2> QED BY <1>1, <1>2, <1>3, WFMin, Zenon
<1>5. PICK m \in S : \A k \in S : ~ (<<1..k, 1..m>> \in StrictSubsetOrdering(Nat))
  BY <1>4
<1>6. ASSUME NEW k \in S, k < m PROVE FALSE
  <2>1. 1..k \subseteq 1..m /\ 1..k # 1..m /\ m \in 1..m /\ m \notin 1..k
    BY <1>6
  <2>2. <<1..k, 1..m>> \in StrictSubsetOrdering(Nat)
    BY <2>1 DEF StrictSubsetOrdering
  <2> QED BY <1>5, <2>2
<1> QED BY <1>5, <1>6

\* A set of positions, and its parts, are finite.
LEMMA PositionsFinite ==
  ASSUME NEW L \in Nat, NEW S, S \subseteq 1..L, NEW i
  PROVE  /\ IsFiniteSet(S) /\ Cardinality(S) \in Nat
         /\ IsFiniteSet({j \in S : j <= i}) /\ Rank(S, i) \in Nat
         /\ Rank(S, i) <= Cardinality(S)
<1>1. IsFiniteSet(1..L)
  BY FS_Interval
<1>2. IsFiniteSet(S)
  BY <1>1, FS_Subset
<1>3. {j \in S : j <= i} \in SUBSET S
  OBVIOUS
<1>4. IsFiniteSet({j \in S : j <= i}) /\ Cardinality({j \in S : j <= i}) <= Cardinality(S)
  BY <1>2, <1>3, FS_Subset
<1> QED BY <1>2, <1>4, FS_CardinalityType DEF Rank

\* The rank of a position that is in the set is its predecessor's and one.
StepsAt(S, i) == Rank(S, i) = IF i \in S THEN Rank(S, i - 1) + 1 ELSE Rank(S, i - 1)

LEMMA RankStep ==
  ASSUME NEW L \in Nat, NEW S, S \subseteq 1..L, NEW i \in 1..L
  PROVE  StepsAt(S, i)
<1> USE DEF StepsAt
<1> DEFINE below == {j \in S : j <= i - 1}
<1>0. \A j \in S : j \in Nat
  OBVIOUS
<1>1. IsFiniteSet(below) /\ Rank(S, i - 1) = Cardinality(below)
  BY PositionsFinite DEF Rank
<1>2. CASE i \in S
  <2>0. \A j \in S : j <= i <=> j <= i - 1 \/ j = i
    BY <1>0
  <2>1. {j \in S : j <= i} = below \cup {i} /\ i \notin below
    <3>1. ~(i <= i - 1)
      OBVIOUS
    <3>2. {j \in S : j <= i} = below \cup {i}
      BY <1>2, <2>0, Zenon
    <3> QED BY <3>1, <3>2
  <2> HIDE DEF below
  <2>2. Cardinality(below \cup {i}) = Cardinality(below) + 1
    BY <1>1, <2>1, FS_AddElement
  <2> QED BY <1>1, <1>2, <2>1, <2>2 DEF Rank
<1>3. CASE i \notin S
  <2>0. \A j \in S : j <= i <=> j <= i - 1
    BY <1>0, <1>3
  <2>1. {j \in S : j <= i} = below
    BY <2>0
  <2> QED BY <1>1, <1>3, <2>1 DEF Rank
<1> QED BY <1>2, <1>3

\* Every rank is that of a member.
LEMMA RankHits ==
  ASSUME NEW L \in Nat, NEW S, S \subseteq 1..L, NEW n \in 1..Cardinality(S)
  PROVE  \E i \in S : Rank(S, i) = n
<1> DEFINE D == {i \in 0..L : Rank(S, i) >= n}
<1>0. n \in Nat /\ n >= 1 /\ n <= Cardinality(S)
  <2>1. Cardinality(S) \in Nat
    BY PositionsFinite, Zenon
  <2> QED BY <2>1
<1>8. \A j \in S : j \in Nat /\ j >= 1 /\ j <= L
  OBVIOUS
<1>9. \A i \in 0..L : Rank(S, i) \in Nat
  BY PositionsFinite, Zenon
<1>1. L \in D
  <2>1. {j \in S : j <= L} = S
    BY <1>8
  <2> QED BY <1>0, <2>1 DEF Rank
<1>2. \E m \in D : \A k \in D : m <= k
  <2>1. D \subseteq Nat
    OBVIOUS
  <2> HIDE DEF D
  <2> QED BY <1>1, <2>1, LeastOfSet, Zenon
<1>3. PICK m \in D : \A k \in D : m <= k
  BY <1>2
<1>4. Rank(S, 0) = 0
  <2>0. \A j \in S : ~(j <= 0)
    BY <1>8
  <2>1. {j \in S : j <= 0} = {}
    BY <2>0
  <2> QED BY <2>1, FS_EmptySet DEF Rank
<1>5. m \in 1..L /\ m - 1 \in 0..L /\ m - 1 \notin D
  BY <1>0, <1>3, <1>4
<1>6. Rank(S, m - 1) < n /\ Rank(S, m) >= n /\ Rank(S, m - 1) \in Nat /\ Rank(S, m) \in Nat
  <2>1. Rank(S, m - 1) \in Nat /\ Rank(S, m) \in Nat
    BY <1>9, <1>5
  <2>2. ~(Rank(S, m - 1) >= n)
    BY <1>5
  <2>3. Rank(S, m) >= n
    BY <1>3
  <2> QED BY <1>0, <2>1, <2>2, <2>3
<1>7. Rank(S, m) = IF m \in S THEN Rank(S, m - 1) + 1 ELSE Rank(S, m - 1)
  <2>1. m \in 1..L
    BY <1>5
  <2>2. StepsAt(S, m)
    BY <2>1, RankStep, Zenon
  <2> QED BY <2>2 DEF StepsAt
<1> QED BY <1>0, <1>6, <1>7

\* Members with one rank are one.
LEMMA RankOnce ==
  ASSUME NEW L \in Nat, NEW S, S \subseteq 1..L, NEW i \in S, NEW k \in S, i < k
  PROVE  Rank(S, i) < Rank(S, k)
<1> DEFINE A == {j \in S : j <= i}
           B == {j \in S : j <= k}
<1>1. IsFiniteSet(B) /\ Cardinality(A) \in Nat /\ Cardinality(B) \in Nat
  BY PositionsFinite, Zenon DEF Rank
<1>2. A \in SUBSET B /\ k \in B /\ k \notin A
  <2>1. \A j \in S : j <= i => j <= k
    OBVIOUS
  <2>2. k <= k /\ ~(k <= i)
    OBVIOUS
  <2> QED BY <2>1, <2>2, Zenon
<1> HIDE DEF A, B
<1>3. Cardinality(A) <= Cardinality(B) /\ Cardinality(A) # Cardinality(B)
  BY <1>1, <1>2, FS_Subset
<1> QED BY <1>1, <1>3 DEF Rank, A, B

\* InOrder finds the member with each rank.
LEMMA Ordered ==
  ASSUME NEW L \in Nat, NEW S, S \subseteq 1..L, NEW n \in 1..Cardinality(S)
  PROVE  InOrder(S)[n] \in S /\ Rank(S, InOrder(S)[n]) = n
BY RankHits DEF InOrder

LEMMA OrderedIs ==
  ASSUME NEW L \in Nat, NEW S, S \subseteq 1..L, NEW n \in 1..Cardinality(S),
         NEW i \in S, Rank(S, i) = n
  PROVE  InOrder(S)[n] = i
<1>1. InOrder(S)[n] \in S /\ Rank(S, InOrder(S)[n]) = n
  BY Ordered
<1>2. ASSUME NEW k \in S, Rank(S, k) = n PROVE k = i
  <2>1. k \in Int /\ i \in Int /\ ~(n < n)
    <3>1. Cardinality(S) \in Nat
      BY PositionsFinite, Zenon
    <3> QED BY <3>1
  <2>2. ~(k < i) /\ ~(i < k)
    BY <1>2, <2>1, RankOnce, Zenon
  <2> QED BY <2>1, <2>2
<1> QED BY <1>1, <1>2

\* A timeline: envelopes with distinct keys, no more than MAX_EVENTS.
Timeline(s) ==
  /\ Len(s) \in 0..MaxEvents
  /\ s = [i \in 1..Len(s) |-> s[i]]
  /\ \A i, j \in 1..Len(s) : EventKey(s[i]) = EventKey(s[j]) => i = j

LEMMA LengthOf ==
  ASSUME NEW k \in Nat, NEW s, s = [n \in 1..k |-> s[n]]
  PROVE  Len(s) = k /\ DOMAIN s = 1..k
<1> DEFINE X == {s[n] : n \in 1..k}
<1>1. [n \in 1..k |-> s[n]] \in [1..k -> X]
  OBVIOUS
<1> HIDE DEF X
<1>2. s \in [1..k -> X]
  BY <1>1, Zenon
<1>3. s \in Seq(X)
  BY <1>2
<1> QED BY <1>2, <1>3

\* Envelopes are merged into one, whatever they are.
LEMMA MergeLeavesTimeline ==
  ASSUME NEW X, NEW all \in Seq(X), NEW s,
         s = [n \in 1..Min({Cardinality(FirstOfKey(all)), MaxEvents}) |->
                all[InOrder(FirstOfKey(all))[n]]]
  PROVE  /\ Timeline(s) /\ Len(s) = Min({Cardinality(FirstOfKey(all)), MaxEvents})
<1> DEFINE first == FirstOfKey(all)
           c == Cardinality(first)
           m == Min({c, MaxEvents})
           L == Len(all)
<1>1. L \in Nat /\ first \subseteq 1..L
  BY DEF FirstOfKey
<1>2. c \in Nat
  BY <1>1, PositionsFinite, Zenon
<1>3. m \in 0..MaxEvents /\ m <= c /\ MaxEvents \in Nat
  BY <1>2, MinOfTwo, DashboardConfig
<1>4. Len(s) = m /\ DOMAIN s = 1..m
  <2>1. s = [n \in 1..m |-> s[n]]
    BY Zenon
  <2> HIDE DEF m
  <2>2. m \in Nat
    BY <1>3
  <2> QED BY <2>1, <2>2, LengthOf, Zenon
<1>5. ASSUME NEW i \in 1..m, NEW j \in 1..m, EventKey(s[i]) = EventKey(s[j])
      PROVE  i = j
  <2> DEFINE p == InOrder(first)[i]
             q == InOrder(first)[j]
  <2>1. i \in 1..c /\ j \in 1..c
    BY <1>2, <1>3
  <2>2. p \in first /\ q \in first /\ Rank(first, p) = i /\ Rank(first, q) = j
    BY <1>1, <2>1, Ordered, Zenon
  <2>3. s[i] = all[p] /\ s[j] = all[q]
    OBVIOUS
  <2> HIDE DEF p, q
  <2>4. p = q
    <3>1. p \in 1..L /\ q \in 1..L
      BY <1>1, <2>2
    <3>2. /\ \A k \in 1..(p - 1) : EventKey(all[k]) # EventKey(all[p])
          /\ \A k \in 1..(q - 1) : EventKey(all[k]) # EventKey(all[q])
      BY <2>2 DEF FirstOfKey
    <3>3. EventKey(all[p]) = EventKey(all[q])
      BY <1>5, <2>3
    <3> HIDE DEF first, L
    <3>4. p \notin 1..(q - 1) /\ q \notin 1..(p - 1)
      BY <3>2, <3>3
    <3> QED BY <1>1, <3>1, <3>4
  <2> QED BY <2>2, <2>4
<1>6. s = [i \in 1..Len(s) |-> s[i]]
  BY <1>4
<1>7. Timeline(s)
  <2> HIDE DEF m
  <2>1. Len(s) \in 0..MaxEvents
    BY <1>3, <1>4, Zenon
  <2>2. \A i, j \in 1..Len(s) : EventKey(s[i]) = EventKey(s[j]) => i = j
    BY <1>4, <1>5, Zenon
  <2> QED BY <1>6, <2>1, <2>2, Zenon DEF Timeline
<1> QED BY <1>4, <1>7

\* Positions that move on by one, with a new first one, have ranks that do.
NewFirst(A) == {1} \cup {k + 1 : k \in A}

LEMMA NewFirstSize ==
  ASSUME NEW L \in Nat, NEW A, A \subseteq 1..L
  PROVE  IsFiniteSet(NewFirst(A)) /\ Cardinality(NewFirst(A)) = Cardinality(A) + 1
<1> DEFINE T == {k + 1 : k \in A}
           f == [k \in A |-> k + 1]
<1>1. IsFiniteSet(A)
  BY PositionsFinite
<1>2. \A k \in A : k \in Nat /\ k >= 1
  OBVIOUS
<1>3. f \in Bijection(A, T)
  <2>1. f \in [A -> T] /\ \A t \in T : \E k \in A : f[k] = t
    OBVIOUS
  <2>2. \A j, k \in A : f[j] = f[k] => j = k
    BY <1>2
  <2> HIDE DEF f, T
  <2> QED BY <2>1, <2>2 DEF Bijection, Injection, Surjection, IsInjective
<1>4. ExistsBijection(A, T)
  BY <1>3 DEF ExistsBijection
<1>5. 1 \notin T
  BY <1>2
<1> HIDE DEF f, T
<1>6. IsFiniteSet(T) /\ Cardinality(T) = Cardinality(A)
  BY <1>1, <1>4, FS_Bijection, Zenon
<1>7. IsFiniteSet(T \cup {1}) /\ Cardinality(T \cup {1}) = Cardinality(T) + 1
  BY <1>5, <1>6, FS_AddElement
<1>8. NewFirst(A) = T \cup {1}
  BY DEF NewFirst, T
<1> QED BY <1>6, <1>7, <1>8

ShiftsRank(A, k) == Rank(NewFirst(A), k + 1) = Rank(A, k) + 1

LEMMA NewFirstRank ==
  ASSUME NEW L \in Nat, NEW A, A \subseteq 1..L, NEW k \in Nat
  PROVE  ShiftsRank(A, k)
<1> DEFINE B == {j \in A : j <= k}
<1>1. \A j \in A : j \in Nat
  OBVIOUS
<1>2. {j \in NewFirst(A) : j <= k + 1} = NewFirst(B)
  <2>1. 1 <= k + 1 /\ \A j \in A : j + 1 <= k + 1 <=> j <= k
    BY <1>1
  <2> QED BY <2>1 DEF NewFirst
<1>3. B \subseteq 1..L
  OBVIOUS
<1> HIDE DEF B
<1>4. Cardinality(NewFirst(B)) = Cardinality(B) + 1
  BY <1>3, NewFirstSize
<1> QED BY <1>2, <1>4 DEF ShiftsRank, Rank, B

\* So the ones in order are the ones in order, moved on.
LEMMA NewFirstOrder ==
  ASSUME NEW L \in Nat, NEW A, A \subseteq 1..L
  PROVE  /\ InOrder(NewFirst(A))[1] = 1
         /\ \A n \in 1..Cardinality(A) : InOrder(NewFirst(A))[n + 1] = InOrder(A)[n] + 1
<1> DEFINE T == NewFirst(A)
           c == Cardinality(A)
<1>1. c \in Nat /\ Cardinality(T) = c + 1 /\ L + 1 \in Nat
  <2>1. c \in Nat
    BY PositionsFinite, Zenon
  <2>2. Cardinality(T) = c + 1
    BY NewFirstSize, Zenon
  <2> QED BY <2>1, <2>2
<1>2. T \subseteq 1..(L + 1)
  BY DEF NewFirst
<1>3. \A k \in Nat : Rank(T, k + 1) = Rank(A, k) + 1
  BY NewFirstRank DEF ShiftsRank
<1>4. InOrder(T)[1] = 1
  <2>1. {j \in A : j <= 0} = {}
    <3>1. \A j \in A : ~(j <= 0)
      OBVIOUS
    <3> QED BY <3>1
  <2>2. Rank(A, 0) = 0
    BY <2>1, FS_EmptySet DEF Rank
  <2>3. Rank(T, 1) = 1 /\ 1 \in T /\ 1 \in 1..Cardinality(T)
    BY <1>1, <1>3, <2>2 DEF NewFirst
  <2> HIDE DEF T
  <2> QED BY <1>1, <1>2, <2>3, OrderedIs, Zenon
<1>5. ASSUME NEW n \in 1..c PROVE InOrder(T)[n + 1] = InOrder(A)[n] + 1
  <2> DEFINE i == InOrder(A)[n]
  <2>1. i \in A /\ Rank(A, i) = n
    BY Ordered, Zenon
  <2>2. i \in Nat /\ i + 1 \in T /\ n + 1 \in 1..Cardinality(T)
    <3>1. n + 1 \in 1..Cardinality(T)
      <4> HIDE DEF c, T
      <4> QED BY <1>1
    <3>2. \A k \in A : k \in Nat /\ k + 1 \in T
      <4>1. \A k \in A : k \in Nat
        OBVIOUS
      <4>2. \A k \in A : k + 1 \in T
        BY Zenon DEF NewFirst
      <4> QED BY <4>1, <4>2, Zenon
    <3> HIDE DEF i, T
    <3> QED BY <2>1, <3>1, <3>2
  <2>3. Rank(T, i + 1) = n + 1
    BY <1>3, <2>1, <2>2
  <2> HIDE DEF T, i
  <2> DEFINE p == i + 1
             q == n + 1
  <2>4. p \in T /\ q \in 1..Cardinality(T) /\ Rank(T, p) = q
    BY <2>2, <2>3
  <2> HIDE DEF p, q
  <2>5. InOrder(T)[q] = p
    BY <1>1, <1>2, <2>4, OrderedIs, Zenon
  <2> QED BY <2>5 DEF p, q, i
<1> QED BY <1>4, <1>5

\* One envelope is merged into a timeline: it is the head, and the others
\* keep their order.
Kept(s, e) == {i \in 1..Len(s) : EventKey(s[i]) # EventKey(e)}

Grows(s, t) ==
  LET rest == Tail(t)
      kept == Kept(s, Head(t))
  IN  /\ t # <<>>
      /\ Len(rest) = Min({Cardinality(kept), MaxEvents - 1})
      /\ \A n \in 1..Len(rest) : rest[n] = s[InOrder(kept)[n]]

LEMMA MergeOne ==
  ASSUME NEW s, Timeline(s), NEW e
  PROVE  LET t == MergeEventsNewestFirst(s, <<e>>) IN Timeline(t) /\ Grows(s, t)
<1> DEFINE X == {s[i] : i \in 1..Len(s)} \cup {e}
           all == <<e>> \o s
           kept == Kept(s, e)
           c == Cardinality(kept)
           L == Len(s)
           t == MergeEventsNewestFirst(s, <<e>>)
<1>0. L \in Nat /\ MaxEvents \in Nat \ {0}
  BY DashboardConfig DEF Timeline
<1>1. s \in Seq(X) /\ <<e>> \in Seq(X)
  <2>1. [i \in 1..L |-> s[i]] \in [1..L -> X]
    OBVIOUS
  <2> HIDE DEF X, L
  <2>2. [i \in 1..L |-> s[i]] \in Seq(X)
    BY <1>0, <2>1
  <2>3. s \in Seq(X)
    BY <2>2 DEF Timeline, L
  <2> QED BY <2>3 DEF X
<1>2. /\ all \in Seq(X) /\ Len(all) = L + 1 /\ all[1] = e
      /\ \A i \in 1..L : all[i + 1] = s[i]
  <2> HIDE DEF X
  <2> QED BY <1>1
<1>3. FirstOfKey(all) = NewFirst(kept)
  <2> HIDE DEF all
  <2>1. ASSUME NEW k \in 1..L
        PROVE  k + 1 \in FirstOfKey(all) <=> k \in kept
    <3>1. all[k + 1] = s[k] /\ k + 1 \in 1..Len(all) /\ (k + 1) - 1 = k
      BY <1>0, <1>2
    <3>2. k + 1 \in FirstOfKey(all) <=> \A j \in 1..k : EventKey(all[j]) # EventKey(s[k])
      BY <3>1 DEF FirstOfKey
    <3>3. ASSUME NEW j \in 1..k, j # 1 PROVE EventKey(all[j]) # EventKey(s[k])
      <4>1. j - 1 \in 1..L /\ (j - 1) + 1 = j /\ j - 1 # k
        BY <1>0, <3>3
      <4>2. all[j] = s[j - 1]
        BY <1>2, <4>1
      <4> QED BY <4>1, <4>2 DEF Timeline
    <3>4. k \in kept <=> EventKey(s[k]) # EventKey(all[1])
      BY <1>2 DEF Kept
    <3>5. 1 \in 1..k
      OBVIOUS
    <3> HIDE DEF kept
    <3> QED BY <3>2, <3>3, <3>4, <3>5
  <2>2. 1 \in FirstOfKey(all)
    BY <1>0, <1>2 DEF FirstOfKey
  <2>3. \A i \in FirstOfKey(all) : i = 1 \/ (i - 1 \in 1..L /\ (i - 1) + 1 = i)
    BY <1>0, <1>2 DEF FirstOfKey
  <2>4. kept \subseteq 1..L
    BY DEF Kept
  <2> HIDE DEF kept
  <2> QED BY <2>1, <2>2, <2>3, <2>4 DEF NewFirst
<1>4. kept \subseteq 1..L
  BY DEF Kept
<1>5. c \in Nat /\ Cardinality(FirstOfKey(all)) = c + 1
  <2> HIDE DEF kept, all
  <2> QED BY <1>0, <1>3, <1>4, PositionsFinite, NewFirstSize
<1>6. /\ InOrder(FirstOfKey(all))[1] = 1
      /\ \A n \in 1..c : InOrder(FirstOfKey(all))[n + 1] = InOrder(kept)[n] + 1
  <2> HIDE DEF kept, all
  <2> QED BY <1>0, <1>3, <1>4, NewFirstOrder
<1>7. t = [n \in 1..Min({Cardinality(FirstOfKey(all)), MaxEvents}) |->
             all[InOrder(FirstOfKey(all))[n]]]
  BY DEF MergeEventsNewestFirst
<1> HIDE DEF t
<1>8. Timeline(t) /\ Len(t) = Min({Cardinality(FirstOfKey(all)), MaxEvents})
  <2> HIDE DEF X, all
  <2> QED BY <1>2, <1>7, MergeLeavesTimeline
<1>9. /\ Min({Cardinality(FirstOfKey(all)), MaxEvents}) = Min({c, MaxEvents - 1}) + 1
      /\ Min({c, MaxEvents - 1}) \in 0..c
  <2> HIDE DEF kept, all
  <2> QED BY <1>0, <1>5, MinOfTwo
<1> DEFINE m == Min({c, MaxEvents - 1})
<1>10. m \in 0..c /\ Len(t) = m + 1 /\ t[1] = e
       /\ \A n \in 1..m : t[n + 1] = s[InOrder(kept)[n]]
  <2>1. m \in 0..c /\ Len(t) = m + 1
    BY <1>8, <1>9
  <2>2. t[1] = e
    <3> HIDE DEF all, c, m, kept
    <3>1. 1 \in 1..(m + 1)
      BY <1>5, <2>1
    <3> QED BY <1>2, <1>6, <1>7, <1>9, <3>1 DEF m
  <2>3. ASSUME NEW n \in 1..m PROVE t[n + 1] = s[InOrder(kept)[n]]
    <3>1. n \in 1..c /\ n + 1 \in 1..(m + 1)
      <4> HIDE DEF c, m
      <4> QED BY <1>5, <2>1
    <3>2. InOrder(kept)[n] \in 1..L
      <4>1. InOrder(kept)[n] \in kept
        BY <1>0, <1>4, <3>1, Ordered, Zenon
      <4> QED BY <1>4, <4>1
    <3> HIDE DEF all, c, m, kept, L
    <3>3. t[n + 1] = all[InOrder(FirstOfKey(all))[n + 1]]
      BY <1>7, <1>9, <3>1 DEF m
    <3>4. InOrder(FirstOfKey(all))[n + 1] = InOrder(kept)[n] + 1
      BY <1>6, <3>1
    <3> QED BY <1>2, <3>2, <3>3, <3>4
  <2> QED BY <2>1, <2>2, <2>3
<1> HIDE DEF m, c
<1>11. /\ t # <<>> /\ Head(t) = e /\ Len(Tail(t)) = m
       /\ \A n \in 1..m : Tail(t)[n] = t[n + 1]
  <2>1. Len(t) \in Nat /\ t = [i \in 1..Len(t) |-> t[i]] /\ Len(t) = m + 1 /\ m \in Nat
    BY <1>5, <1>8, <1>10 DEF Timeline
  <2> DEFINE Y == {t[i] : i \in 1..Len(t)}
  <2>2. [i \in 1..Len(t) |-> t[i]] \in [1..Len(t) -> Y]
    OBVIOUS
  <2> HIDE DEF Y
  <2>3. [i \in 1..Len(t) |-> t[i]] \in Seq(Y)
    BY <2>1, <2>2
  <2>4. t \in Seq(Y)
    BY <2>1, <2>3
  <2>5. t # <<>>
    BY <2>1, <2>4
  <2> QED BY <1>10, <2>1, <2>4, <2>5, HeadTailProperties
<1>12. Grows(s, t)
  BY <1>10, <1>11 DEF Grows, m, c
<1> QED BY <1>8, <1>12 DEF t

\* The bootstrap's timeline is a merge too, of the envelopes the server has.
LEMMA SeedIsTimeline ==
  ASSUME ViewTypes, Seed
  PROVE  Timeline(state'.events)
<1> DEFINE n == mount.answer
           recent == RecentEnvelopes(n)
           newest == [i \in 1..Len(recent) |-> recent[Len(recent) - i + 1]]
           all == SubSeq(newest, 1, Min({Len(newest), MaxEvents})) \o <<>>
<1>1. n \in Nat /\ MaxEvents \in Nat \ {0}
  BY DashboardConfig DEF ViewTypes, Mounted
<1>2. Len(recent) \in Nat
  <2> DEFINE a == Max({1, n - MaxEvents + 1})
             shown == {i \in a..n : Surfaced(Script[i])}
  <2>1. a \in Int
    <3> DEFINE q == n - MaxEvents + 1
    <3>1. q \in Int /\ 1 \in Int
      BY <1>1
    <3> HIDE DEF q
    <3>2. Max({1, q}) \in Int
      BY <3>1, MaxOfInts, Zenon
    <3> QED BY <3>2 DEF q
  <2>2. IsFiniteSet(a..n)
    <3> HIDE DEF a
    <3> QED BY <1>1, <2>1, FS_Interval
  <2>3. shown \in SUBSET (a..n)
    OBVIOUS
  <2> HIDE DEF a
  <2>4. Cardinality(shown) \in Nat
    <3> HIDE DEF shown
    <3>1. IsFiniteSet(shown)
      BY <2>2, <2>3, FS_Subset
    <3> QED BY <3>1, FS_CardinalityType
  <2>5. recent = [k \in 1..Cardinality(shown) |-> Envelope(Script[InOrder(shown)[k]], n)]
    BY DEF RecentEnvelopes, a
  <2> HIDE DEF recent, shown
  <2>6. Len(recent) = Cardinality(shown)
    BY <2>4, <2>5
  <2> QED BY <2>4, <2>6
<1>3. \E X : all \in Seq(X)
  <2> DEFINE X == {newest[i] : i \in 1..Len(recent)}
  <2> HIDE DEF recent
  <2>1. newest \in [1..Len(recent) -> X]
    OBVIOUS
  <2> HIDE DEF X, newest
  <2>2. newest \in Seq(X) /\ Len(newest) \in Nat
    BY <1>2, <2>1
  <2>3. Min({Len(newest), MaxEvents}) \in 0..Len(newest)
    BY <1>1, <2>2, MinOfTwo
  <2> DEFINE m == Min({Len(newest), MaxEvents})
  <2> HIDE DEF m
  <2>4. SubSeq(newest, 1, m) \in Seq(X)
    <3>1. m \in 0..Len(newest)
      BY <2>3 DEF m
    <3>2. \A i \in 1..m : newest[i] \in X
      BY <2>2, <3>1
    <3> QED BY <2>2, <3>1, <3>2
  <2>5. SubSeq(newest, 1, m) \o <<>> \in Seq(X)
    BY <2>4, ConcatProperties
  <2> QED BY <2>5 DEF m
<1>4. PICK X : all \in Seq(X)
  BY <1>3
<1> DEFINE e == MergeEventsNewestFirst(<<>>, SubSeq(newest, 1, Min({Len(newest), MaxEvents})))
<1>5. e = [k \in 1..Min({Cardinality(FirstOfKey(all)), MaxEvents}) |->
             all[InOrder(FirstOfKey(all))[k]]]
  BY DEF MergeEventsNewestFirst
<1>6. Timeline(e)
  <2> HIDE DEF all, e
  <2> QED BY <1>4, <1>5, MergeLeavesTimeline
<1>7. state' = [state EXCEPT !.events = e]
  BY Zenon DEF Seed
<1>8. state'.events = e
  <2> HIDE DEF e
  <2> QED BY <1>7 DEF ViewTypes, Shows
<1> QED BY <1>6, <1>8

\* What a message does to it.
LEMMA EventMerges ==
  ASSUME ViewTypes, NEW s \in Stream, OnEvent(s)
  PROVE  \E e : state'.events = MergeEventsNewestFirst(state.events, <<e>>)
<1> DEFINE envelope == Envelope(Script[feed[s]], published)
           f == IF IsFrameEvent(envelope.type) THEN state.frames + 1 ELSE state.frames
           m == MergeEventsNewestFirst(state.events, <<envelope>>)
<1>1. state' = [state EXCEPT !.events = m, !.frames = f, !.connection = "connected"]
  BY Zenon DEF OnEvent
<1>2. state'.events = m
  <2> HIDE DEF m, f
  <2> QED BY <1>1, Zenon DEF ViewTypes, Shows
<1> HIDE DEF envelope
<1> QED BY <1>2

\* No other step changes it.
LEMMA ElseLeavesEvents ==
  ASSUME ViewTypes, [Next]_vars
  PROVE  \/ state'.events = state.events
         \/ Seed
         \/ \E s \in Stream : OnEvent(s)
<1>1. Shows(state)
  BY DEF ViewTypes
<1>2. CASE Bootstrap
  BY <1>1, <1>2, Zenon DEF Bootstrap, AnswerBootstrap, Fill, BootstrapFails, Shows
<1>3. ASSUME NEW r \in 1..MaxRequests, AnswerRequest(r) \/ RequestFails(r) \/ Apply(r)
      PROVE  state'.events = state.events
  BY <1>1, <1>3, Zenon DEF AnswerRequest, RequestFails, Apply, ApplyRest, Shows
<1>4. ASSUME NEW s \in Stream, NEW k \in Slot, OnOpen(s, k) \/ OnClose(s, k)
      PROVE  state'.events = state.events
  BY <1>1, <1>4, Zenon DEF OnOpen, OnClose, Shows
<1>5. CASE Server \/ Mount \/ Unmount \/ Poll \/ (\E s \in Stream : Reconnect(s)) \/ UNCHANGED vars
  BY <1>5, OtherSteps
<1> QED BY <1>2, <1>3, <1>4, <1>5 DEF Next

LEMMA TimelineNext ==
  ASSUME ViewTypes, Timeline(state.events), [Next]_vars
  PROVE  Timeline(state'.events)
<1>1. ASSUME NEW s \in Stream, OnEvent(s) PROVE Timeline(state'.events)
  <2> PICK e : state'.events = MergeEventsNewestFirst(state.events, <<e>>)
    BY <1>1, EventMerges
  <2> QED BY MergeOne
<1> QED BY <1>1, SeedIsTimeline, ElseLeavesEvents

\* TimelineOnlyGrows (Dashboard.tla): whatever is answered late, refetched,
\* closed or mounted again, a seeded timeline of any size changes only by the
\* stream's events, each of which is put first; the others keep their order,
\* and only one with the same key, or the last one of a full timeline, goes.
THEOREM TimelineGrows == Spec => TimelineOnlyGrows
<1> DEFINE TInv == Timeline(state.events)
<1>1. Init => TInv
  <2>1. Init => state.events = <<>>
    BY DEF Init
  <2>2. Timeline(<<>>)
    BY DashboardConfig DEF Timeline
  <2> QED BY <2>1, <2>2
<1>2. ViewTypes /\ TInv /\ [Next]_vars => TInv'
  BY TimelineNext
<1>3. ASSUME ViewTypes, TInv, [Next]_vars
      PROVE  [Seeded /\ state'.events # state.events => Grows(state.events, state'.events)]_vars
  <2> SUFFICES ASSUME Seeded, state'.events # state.events
               PROVE  Grows(state.events, state'.events)
    OBVIOUS
  <2>1. ~Seed
    BY DEF Seeded, Seed
  <2>2. PICK s \in Stream : OnEvent(s)
    BY <1>3, <2>1, ElseLeavesEvents
  <2>3. PICK e : state'.events = MergeEventsNewestFirst(state.events, <<e>>)
    BY <1>3, <2>2, EventMerges
  <2> QED BY <1>3, <2>3, MergeOne
<1>4. [Seeded /\ state'.events # state.events => Grows(state.events, state'.events)]_vars
        => [Seeded /\ state'.events # state.events =>
              /\ state'.events # <<>>
              /\ LET rest == Tail(state'.events)
                     kept == {i \in 1..Len(state.events) :
                                EventKey(state.events[i]) # EventKey(Head(state'.events))}
                 IN  /\ Len(rest) = Min({Cardinality(kept), MaxEvents - 1})
                     /\ \A n \in 1..Len(rest) : rest[n] = state.events[InOrder(kept)[n]]]_vars
  BY DEF Grows, Kept
<1> HIDE DEF TInv
<1> QED BY <1>1, <1>2, <1>3, <1>4, TypesInit, TypesNext, PTL DEF Spec, TimelineOnlyGrows
=============================================================================
