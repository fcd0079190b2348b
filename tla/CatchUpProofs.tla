----------------------------- MODULE CatchUpProofs -----------------------------
(***************************************************************************)
(* Theorems about a monitor that has caught up with the daemon: what it    *)
(* publishes is current, and every running container is found.  Behind     *)
(* both is CatchUpInv: in every state, where the cache differs from the    *)
(* daemon, an event that will correct it is still in the stream.           *)
(***************************************************************************)
EXTENDS RecordProofs

USE AddressingAssumption, DaemonAssumption, MonitorAssumption
-----------------------------------------------------------------------------
(***************************************************************************)
(* The stream                                                              *)
(***************************************************************************)
LEMMA StreamLen == ASSUME TypeOK PROVE Len(stream) \in Nat
  BY LenProperties DEF TypeOK, DaemonTypeOK

\* Emitting an event leaves what is in the stream, adds that event when the
\* listener is subscribed, and adds nothing else.
LEMMA EmittedInStream ==
    ASSUME TypeOK, NEW ev \in Event, Emit(ev), NEW e
    PROVE  /\ InStream(e) => InStream(e)'
           /\ InStream(e)' => InStream(e) \/ e = ev
           /\ subscribed => InStream(ev)'
  <1>1. Len(stream) \in Nat
    BY StreamLen
  <1>2. subscribed => Len(stream') = Len(stream) + 1 /\ stream'[Len(stream) + 1] = ev
    <2>1. stream \in Seq(Event)
      BY DEF TypeOK, DaemonTypeOK
    <2> QED  BY <2>1, AppendProperties DEF Emit
  <1> QED  BY <1>1, <1>2, EmittedStream DEF InStream

\* Receiving an event takes that one only.
LEMMA ReceivedInStream ==
    ASSUME TypeOK, NEW A, Receive(A), NEW e
    PROVE  /\ InStream(e)' => InStream(e)
           /\ InStream(e) /\ Head(stream) # e => InStream(e)'
  <1>1. InStream(e)' => InStream(e)
    <2> SUFFICES ASSUME NEW i \in 1 .. Len(stream'), stream'[i] = e
                 PROVE  InStream(e)
      BY DEF InStream
    <2>1. i + 1 \in 1 .. Len(stream) /\ stream[i + 1] = e
      BY ReceivedStream
    <2> QED  BY <2>1 DEF InStream
  <1>2. ASSUME NEW i \in 1 .. Len(stream), stream[i] = e, Head(stream) # e
        PROVE  InStream(e)'
    <2>1. i # 1
      BY <1>2, ReceivedStream
    <2>2. i - 1 \in 1 .. Len(stream') /\ stream'[i - 1] = e
      BY <1>2, <2>1, ReceivedStream
    <2> QED  BY <2>2 DEF InStream
  <1> QED  BY <1>1, <1>2 DEF InStream

\* An event b that follows every e keeps doing so unless another e is emitted;
\* emitting b makes it follow.
LEMMA EmittedFollowed ==
    ASSUME TypeOK, subscribed \/ stream = <<>>, NEW ev \in Event, Emit(ev),
           NEW e, NEW b, e # ev, Followed(e, b) \/ b = ev
    PROVE  Followed(e, b)'
  <1>1. Len(stream) \in Nat
    BY StreamLen
  <1>2. CASE stream' = stream
    <2>1. stream = <<>>
      <3>1. stream \in Seq(Event)
        BY DEF TypeOK, DaemonTypeOK
      <3>2. Append(stream, ev) # stream
        BY <1>1, <3>1, AppendProperties
      <3> QED  BY <1>2, <3>2 DEF Emit
    <2> QED  BY <1>2, <2>1 DEF Followed
  <1>3. CASE stream' # stream
    <2>1. /\ Len(stream') = Len(stream) + 1
          /\ \A i \in 1 .. Len(stream) : stream'[i] = stream[i]
          /\ stream'[Len(stream) + 1] = ev
      BY <1>3, EmittedStream
    <2> SUFFICES ASSUME NEW i \in 1 .. Len(stream'), stream'[i] = e
                 PROVE  \E j \in i + 1 .. Len(stream') : stream'[j] = b
      BY DEF Followed
    <2>2. i \in 1 .. Len(stream) /\ stream[i] = e
      BY <1>1, <2>1
    <2>3. CASE b = ev
      BY <1>1, <2>1, <2>2, <2>3
    <2>4. CASE Followed(e, b)
      <3>1. PICK j \in i + 1 .. Len(stream) : stream[j] = b
        BY <2>2, <2>4 DEF Followed
      <3> QED  BY <1>1, <2>1, <2>2, <3>1
    <2> QED  BY <2>3, <2>4
  <1> QED  BY <1>2, <1>3

\* Receiving keeps the order of the rest; the one received had its b behind it.
LEMMA ReceivedFollowed ==
    ASSUME TypeOK, NEW A, Receive(A), NEW e, NEW b, Followed(e, b)
    PROVE  /\ Followed(e, b)'
           /\ Head(stream) = e => InStream(b)'
  <1>1. /\ Len(stream) \in Nat \ {0}
        /\ stream[1] = Head(stream)
        /\ Len(stream') = Len(stream) - 1
        /\ \A i \in 1 .. Len(stream') : stream'[i] = stream[i + 1]
    BY ReceivedStream
  <1>2. \A i \in 1 .. Len(stream) : stream[i] = e =>
            \E j \in i + 1 .. Len(stream) : stream[j] = b
    BY DEF Followed
  <1>3. ASSUME NEW i \in 1 .. Len(stream), stream[i] = e
        PROVE  \E k \in i .. Len(stream') : stream'[k] = b
    <2>1. PICK j \in i + 1 .. Len(stream) : stream[j] = b
      BY <1>2, <1>3
    <2>2. j - 1 \in i .. Len(stream') /\ stream'[j - 1] = b
      BY <1>1, <1>3, <2>1
    <2> QED  BY <2>2
  <1>4. Followed(e, b)'
    <2> SUFFICES ASSUME NEW i \in 1 .. Len(stream'), stream'[i] = e
                 PROVE  \E k \in i + 1 .. Len(stream') : stream'[k] = b
      BY DEF Followed
    <2>1. i + 1 \in 1 .. Len(stream) /\ stream[i + 1] = e
      BY <1>1
    <2> QED  BY <1>3, <2>1
  <1>5. ASSUME Head(stream) = e PROVE InStream(b)'
    <2>1. \E k \in 1 .. Len(stream') : stream'[k] = b
      BY <1>1, <1>3, <1>5
    <2> QED  BY <2>1 DEF InStream
  <1> QED  BY <1>4, <1>5

\* An emitted event is a rename of c or leaves the renames of c as they are.
LEMMA EmittedRenames ==
    ASSUME TypeOK, NEW ev \in Event, Emit(ev), NEW c
    PROVE  /\ RenamesOf(c) \subseteq RenamesOf(c)'
           /\ \A i \in RenamesOf(c) : i \in 1 .. Len(stream) /\ stream'[i] = stream[i]
           /\ \A i \in RenamesOf(c)' \ RenamesOf(c) :
                  /\ subscribed /\ i = Len(stream) + 1 /\ stream'[i] = ev
                  /\ ev.action = "rename" /\ ev.container = c
           /\ subscribed /\ ev.action = "rename" /\ ev.container = c =>
                  Len(stream) + 1 \in RenamesOf(c)' /\ stream'[Len(stream) + 1] = ev
  <1>1. Len(stream) \in Nat
    BY StreamLen
  <1>2. CASE ~subscribed
    BY <1>2 DEF Emit, RenamesOf
  <1>3. CASE subscribed
    <2>0. stream \in Seq(Event)
      BY DEF TypeOK, DaemonTypeOK
    <2>1. /\ Len(stream') = Len(stream) + 1
          /\ \A i \in 1 .. Len(stream) : stream'[i] = stream[i]
          /\ stream'[Len(stream) + 1] = ev
      BY <1>3, <2>0, AppendProperties DEF Emit
    <2> QED  BY <1>1, <1>3, <2>1 DEF RenamesOf
  <1> QED  BY <1>2, <1>3

\* Receiving moves the renames of c one place to the front.
LEMMA ReceivedRenames ==
    ASSUME TypeOK, NEW A, Receive(A), NEW c
    PROVE  /\ \A i \in RenamesOf(c)' : i + 1 \in RenamesOf(c) /\ stream'[i] = stream[i + 1]
           /\ \A i \in RenamesOf(c) : i # 1 =>
                  i - 1 \in RenamesOf(c)' /\ stream'[i - 1] = stream[i]
           /\ 1 \in RenamesOf(c) <=>
                  Head(stream).action = "rename" /\ Head(stream).container = c
           /\ stream[1] = Head(stream)
           /\ RenamesOf(c) \subseteq Nat \ {0}
  BY ReceivedStream DEF RenamesOf

\* The events of a container are events.
LEMMA EventsTyped ==
    ASSUME NEW c \in Container
    PROVE  /\ ContainerEvent("start", c) \in Event /\ ContainerEvent("die", c) \in Event
           /\ \A n \in Network : /\ EndpointEvent("connect", c, n) \in Event
                                 /\ EndpointEvent("disconnect", c, n) \in Event
           /\ \A x, y \in CName :
                  [action |-> "rename", container |-> c, old |-> x, new |-> y] \in Event
           /\ [action |-> "other"] \in Event
  BY DEF ContainerEvent, EndpointEvent, Event

\* Events differ when their actions, containers or networks do.
LEMMA EventFields ==
    /\ \A a, c : ContainerEvent(a, c).action = a /\ ContainerEvent(a, c).container = c
    /\ \A a, c, n : /\ EndpointEvent(a, c, n).action = a
                    /\ EndpointEvent(a, c, n).container = c
                    /\ EndpointEvent(a, c, n).network = n
  BY DEF ContainerEvent, EndpointEvent
-----------------------------------------------------------------------------
(***************************************************************************)
(* StreamCurrent.  The daemon emits the event of each change with the      *)
(* change, and receiving keeps the order of what is left.                  *)
(***************************************************************************)
\* The part of StreamCurrent about the life and the endpoints of c.
EventsCurrent(c) ==
    /\ status[c] = "running" => Followed(ContainerEvent("die", c), ContainerEvent("start", c))
    /\ status[c] = "exited" => Followed(ContainerEvent("start", c), ContainerEvent("die", c))
    /\ status[c] = "removed" => Attached(c) = {}
    /\ \A n \in Network :
         /\ att[c][n] # {} =>
              Followed(EndpointEvent("disconnect", c, n), EndpointEvent("connect", c, n))
         /\ status[c] = "exited" =>
              Followed(EndpointEvent("connect", c, n), ContainerEvent("die", c))

\* StreamCurrent, container by container.
LEMMA StreamCurrentParts ==
    StreamCurrent <=> /\ subscribed \/ stream = <<>>
                      /\ \A c \in Container : RenamesChain(c) /\ EventsCurrent(c)
  BY DEF StreamCurrent, EventsCurrent

\* A rename of c that is emitted continues from the name c has.
LEMMA EmittedChain ==
    ASSUME TypeOK, subscribed \/ stream = <<>>, NEW ev \in Event, Emit(ev),
           NEW c \in Container, RenamesChain(c),
           \/ cname'[c] = cname[c] /\ ~(ev.action = "rename" /\ ev.container = c)
           \/ /\ ev.action = "rename" /\ ev.container = c
              /\ ev.old = cname[c] /\ ev.new = cname'[c]
    PROVE  RenamesChain(c)'
  <1>0. Len(stream) \in Nat
    BY StreamLen
  <1> SUFFICES ASSUME NEW i \in RenamesOf(c)'
               PROVE  \/ stream'[i].new = cname'[c]
                      \/ \E j \in RenamesOf(c)' : i < j /\ stream'[j].old = stream'[i].new
    BY DEF RenamesChain
  <1>1. CASE i \notin RenamesOf(c)
    BY <1>1, EmittedRenames
  <1>2. CASE i \in RenamesOf(c)
    <2>1. i \in 1 .. Len(stream) /\ stream'[i] = stream[i]
      BY <1>2, EmittedRenames
    <2>2. CASE \E j \in RenamesOf(c) : i < j /\ stream[j].old = stream[i].new
      BY <2>1, <2>2, EmittedRenames
    <2>3. CASE stream[i].new = cname[c]
      <3>1. CASE cname'[c] = cname[c]
        BY <2>1, <2>3, <3>1
      <3>2. CASE cname'[c] # cname[c]
        <4>1. ev.action = "rename" /\ ev.container = c /\ ev.old = cname[c]
          BY <3>2
        <4>2. subscribed
          BY <2>1
        <4>3. Len(stream) + 1 \in RenamesOf(c)' /\ stream'[Len(stream) + 1] = ev
          BY <4>1, <4>2, EmittedRenames
        <4> QED  BY <1>0, <2>1, <2>3, <4>1, <4>3
      <3> QED  BY <3>1, <3>2
    <2> QED  BY <1>2, <2>2, <2>3 DEF RenamesChain
  <1> QED  BY <1>1, <1>2

\* Steps of the daemon that are no step of c leave its part as it is.
LEMMA EmittedOther ==
    ASSUME TypeOK, subscribed \/ stream = <<>>, NEW ev \in Event, Emit(ev),
           NEW c \in Container, EventsCurrent(c),
           status'[c] = status[c], att'[c] = att[c],
           ev.action \in {"start", "die", "connect", "disconnect"} => ev.container # c
    PROVE  EventsCurrent(c)'
  <1>1. /\ ev # ContainerEvent("start", c) /\ ev # ContainerEvent("die", c)
        /\ \A n : ev # EndpointEvent("connect", c, n) /\ ev # EndpointEvent("disconnect", c, n)
    BY EventFields
  <1>2. \A e, b : Followed(e, b) /\ e # ev => Followed(e, b)'
    BY EmittedFollowed
  <1> QED  BY <1>1, <1>2 DEF EventsCurrent, Attached

\* Each step of the daemon announces the life and the endpoints of a container
\* with the event that comes last.
LEMMA DaemonEvents ==
    ASSUME TypeOK, subscribed \/ stream = <<>>, NEW c \in Container, EventsCurrent(c), DaemonNext
    PROVE  EventsCurrent(c)'
  <1>0. /\ status \in [Container -> {"created", "running", "exited", "removed"}]
        /\ att \in [Container -> [Network -> SUBSET Ip]]
    BY DEF TypeOK, DaemonTypeOK
  <1>a. ASSUME NEW ev \in Event, Emit(ev), NEW e, NEW b, e # ev, Followed(e, b) \/ b = ev
        PROVE  Followed(e, b)'
    BY <1>a, EmittedFollowed
  <1>1. CASE Subscribe
    BY <1>1 DEF Subscribe, daemonState, EventsCurrent, Attached, Followed
  <1>2. ASSUME NEW n \in Network, NetworkCreate(n) \/ NetworkDestroy(n) PROVE EventsCurrent(c)'
    <2>1. PICK ev \in Event : Emit(ev) /\ ev.action \in {"create", "destroy"}
      BY <1>2, CreateEmits, DestroyEmits, NetworkEventFacts
    <2> QED  BY <1>2, <2>1, EmittedOther DEF NetworkCreate, NetworkDestroy
  <1>3. ASSUME NEW d \in Container, ContainerStart(d) PROVE EventsCurrent(c)'
    <2> DEFINE ev == ContainerEvent("start", d)
    <2>1. ev \in Event /\ Emit(ev) /\ ev.container = d
      BY <1>3, EventsTyped, EventFields DEF ContainerStart, ContainerEvent
    <2>2. /\ att' = att /\ status'[d] = "running" /\ status[d] = "created"
          /\ d # c => status'[c] = status[c]
      BY <1>0, <1>3 DEF ContainerStart
    <2>3. CASE d # c
      BY <2>1, <2>2, <2>3, EmittedOther
    <2>4. CASE d = c
      <3>1. /\ ContainerEvent("die", c) # ev
            /\ \A n : EndpointEvent("disconnect", c, n) # ev
        BY EventFields
      <3> QED  BY <1>a, <2>1, <2>2, <2>4, <3>1 DEF EventsCurrent, Attached
    <2> QED  BY <2>3, <2>4
  <1>4. ASSUME NEW d \in Container, ContainerDie(d) PROVE EventsCurrent(c)'
    <2> DEFINE ev == ContainerEvent("die", d)
    <2>1. ev \in Event /\ Emit(ev) /\ ev.container = d
      BY <1>4, EventsTyped, EventFields DEF ContainerDie, ContainerEvent
    <2>2. /\ att' = att /\ status'[d] \in {"created", "exited"}
          /\ d # c => status'[c] = status[c]
      BY <1>0, <1>4 DEF ContainerDie
    <2>3. CASE d # c
      BY <2>1, <2>2, <2>3, EmittedOther
    <2>4. CASE d = c
      <3>1. /\ ContainerEvent("start", c) # ev
            /\ \A n : EndpointEvent("disconnect", c, n) # ev /\ EndpointEvent("connect", c, n) # ev
        BY EventFields
      <3> QED  BY <1>a, <2>1, <2>2, <2>4, <3>1 DEF EventsCurrent, Attached
    <2> QED  BY <2>3, <2>4
  <1>5. ASSUME NEW d \in Container, ContainerRemove(d) PROVE EventsCurrent(c)'
    <2> DEFINE ev == [action |-> "other"]
    <2>1. ev \in Event /\ Emit(ev) /\ ev.action = "other"
      BY <1>5, EventsTyped DEF ContainerRemove
    <2>2. /\ att' = att /\ status'[d] = "removed" /\ Attached(d) = {}
          /\ d # c => status'[c] = status[c]
      BY <1>0, <1>5 DEF ContainerRemove
    <2>3. CASE d # c
      BY <2>1, <2>2, <2>3, EmittedOther
    <2>4. CASE d = c
      <3>1. \A n : EndpointEvent("disconnect", c, n) # ev
        BY <2>1, EventFields
      <3> QED  BY <1>a, <2>1, <2>2, <2>4, <3>1 DEF EventsCurrent, Attached
    <2> QED  BY <2>3, <2>4
  <1>6. ASSUME NEW d \in Container, NEW new \in CName, ContainerRename(d, new)
        PROVE  EventsCurrent(c)'
    <2>1. PICK ev \in Event : Emit(ev) /\ ev.action = "rename"
      <3>1. cname[d] \in CName
        BY DEF TypeOK, DaemonTypeOK
      <3> QED  BY <1>6, <3>1, EventsTyped DEF ContainerRename
    <2> QED  BY <1>6, <2>1, EmittedOther DEF ContainerRename
  <1>7. ASSUME NEW d \in Container, NEW n \in Network, Connect(d, n) PROVE EventsCurrent(c)'
    <2> DEFINE ev == EndpointEvent("connect", d, n)
    <2>1. ev \in Event /\ Emit(ev) /\ ev.container = d
      BY <1>7, EventsTyped, EventFields DEF Connect, EndpointEvent
    <2>2. /\ status' = status /\ status[d] \in {"created", "running"}
          /\ d # c => att'[c] = att[c]
          /\ \A m \in Network \ {n} : att'[d][m] = att[d][m]
      BY <1>0, <1>7 DEF Connect
    <2>3. CASE d # c
      BY <2>1, <2>2, <2>3, EmittedOther
    <2>4. CASE d = c
      <3>1. /\ ContainerEvent("die", c) # ev
            /\ \A m : EndpointEvent("disconnect", c, m) # ev
        BY EventFields
      <3>2. status'[c] = "running" => Followed(ContainerEvent("die", c), ContainerEvent("start", c))'
        BY <1>a, <2>1, <2>2, <2>4, <3>1 DEF EventsCurrent
      <3>3. ASSUME NEW m \in Network, att'[c][m] # {}
            PROVE  Followed(EndpointEvent("disconnect", c, m), EndpointEvent("connect", c, m))'
        <4>1. CASE m = n
          BY <1>a, <2>1, <2>4, <3>1, <4>1
        <4>2. CASE m # n
          BY <1>a, <2>1, <2>2, <2>4, <3>1, <3>3, <4>2 DEF EventsCurrent
        <4> QED  BY <4>1, <4>2
      <3> QED  BY <2>2, <2>4, <3>2, <3>3 DEF EventsCurrent
    <2> QED  BY <2>3, <2>4
  <1>8. ASSUME NEW d \in Container, NEW n \in Network, Disconnect(d, n) PROVE EventsCurrent(c)'
    <2> DEFINE ev == EndpointEvent("disconnect", d, n)
    <2>1. ev \in Event /\ Emit(ev) /\ ev.container = d
      BY <1>8, EventsTyped, EventFields DEF Disconnect, EndpointEvent
    <2>2. /\ status'[d] = status[d] \/ status'[d] = "created"
          /\ d # c => att'[c] = att[c] /\ status'[c] = status[c]
          /\ att'[d][n] = {}
          /\ \A m \in Network \ {n} : att'[d][m] = att[d][m]
      BY <1>0, <1>8 DEF Disconnect
    <2>3. CASE d # c
      BY <2>1, <2>2, <2>3, EmittedOther
    <2>4. CASE d = c
      <3>1. /\ ContainerEvent("die", c) # ev /\ ContainerEvent("start", c) # ev
            /\ \A m : EndpointEvent("connect", c, m) # ev
            /\ \A m \in Network \ {n} : EndpointEvent("disconnect", c, m) # ev
        BY EventFields
      <3>2. Attached(c)' \subseteq Attached(c)
        BY <2>2, <2>4 DEF Attached
      <3> QED  BY <1>a, <2>1, <2>2, <2>4, <3>1, <3>2 DEF EventsCurrent
    <2> QED  BY <2>3, <2>4
  <1> QED  BY <1>1, <1>2, <1>3, <1>4, <1>5, <1>6, <1>7, <1>8 DEF DaemonNext

\* And each rename with one that continues from the name before.
LEMMA DaemonChain ==
    ASSUME TypeOK, subscribed \/ stream = <<>>, NEW c \in Container, RenamesChain(c), DaemonNext
    PROVE  RenamesChain(c)'
  <1>1. CASE Subscribe
    BY <1>1 DEF Subscribe, daemonState, RenamesChain, RenamesOf
  <1>2. ASSUME NEW d \in Container, NEW new \in CName, ContainerRename(d, new)
        PROVE  RenamesChain(c)'
    <2> DEFINE ev == [action |-> "rename", container |-> d, old |-> cname[d], new |-> new]
    <2>0. cname \in [Container -> CName]
      BY DEF TypeOK, DaemonTypeOK
    <2>1. ev \in Event /\ Emit(ev)
      BY <1>2, <2>0, EventsTyped DEF ContainerRename
    <2>2. cname'[d] = new /\ (d # c => cname'[c] = cname[c])
      BY <1>2, <2>0 DEF ContainerRename
    <2>3. /\ ev.action = "rename" /\ ev.container = d
          /\ ev.old = cname[d] /\ ev.new = new
      OBVIOUS
    <2> HIDE DEF ev
    <2> QED  BY <2>1, <2>2, <2>3, EmittedChain
  <1>3. ASSUME NEW ev \in Event, Emit(ev), ev.action # "rename", cname' = cname
        PROVE  RenamesChain(c)'
    BY <1>3, EmittedChain
  <1>4. CASE \E n \in Network : NetworkCreate(n) \/ NetworkDestroy(n)
    <2>1. \E ev \in Event : Emit(ev) /\ ev.action # "rename" /\ cname' = cname
      BY <1>4, CreateEmits, DestroyEmits, NetworkEventFacts DEF NetworkCreate, NetworkDestroy
    <2> QED  BY <1>3, <2>1
  <1>5. CASE \E d \in Container :
                \/ ContainerStart(d) \/ ContainerDie(d) \/ ContainerRemove(d)
                \/ \E n \in Network : Connect(d, n) \/ Disconnect(d, n)
    <2>1. \E ev \in Event : Emit(ev) /\ ev.action # "rename" /\ cname' = cname
      BY <1>5
      DEF ContainerStart, ContainerDie, ContainerRemove, Connect, Disconnect, Event
    <2> QED  BY <1>3, <2>1
  <1> QED  BY <1>1, <1>2, <1>4, <1>5 DEF DaemonNext

\* Taking the first event off leaves the last ones in place.
LEMMA ReceivedCurrent ==
    ASSUME TypeOK, StreamCurrent, NEW A, Receive(A) PROVE StreamCurrent'
  <1>1. subscribed' \/ stream' = <<>>
    <2>1. subscribed' = subscribed /\ stream # <<>>
      BY DEF Receive
    <2> QED  BY <2>1 DEF StreamCurrent
  <1>2. UNCHANGED <<status, cname, att>>
    BY DEF Receive, daemonState
  <1>3. ASSUME NEW c \in Container PROVE RenamesChain(c)'
    <2> SUFFICES ASSUME NEW i \in RenamesOf(c)'
                 PROVE  \/ stream'[i].new = cname[c]
                        \/ \E j \in RenamesOf(c)' : i < j /\ stream'[j].old = stream'[i].new
      BY <1>2 DEF RenamesChain
    <2>0. i \in Nat
      BY DEF RenamesOf
    <2>1. i + 1 \in RenamesOf(c) /\ stream'[i] = stream[i + 1]
      BY ReceivedRenames
    <2>2. CASE stream[i + 1].new = cname[c]
      BY <2>1, <2>2
    <2>3. ASSUME NEW j \in RenamesOf(c), i + 1 < j, stream[j].old = stream[i + 1].new
          PROVE  \E k \in RenamesOf(c)' : i < k /\ stream'[k].old = stream'[i].new
      <3>1. j \in Nat /\ j # 1
        BY <2>0, <2>1, <2>3, ReceivedRenames
      <3>2. j - 1 \in RenamesOf(c)' /\ stream'[j - 1] = stream[j]
        BY <3>1, ReceivedRenames
      <3> QED  BY <2>0, <2>1, <2>3, <3>1, <3>2
    <2> QED  BY <2>0, <2>1, <2>2, <2>3, StreamCurrentParts DEF RenamesChain
  <1>4. ASSUME NEW c \in Container PROVE EventsCurrent(c)'
    <2>1. EventsCurrent(c)
      BY StreamCurrentParts
    <2>2. ASSUME NEW e, NEW b, Followed(e, b) PROVE Followed(e, b)'
      BY <2>2, ReceivedFollowed
    <2> QED  BY <1>2, <2>1, <2>2 DEF EventsCurrent, Attached
  <1> QED  BY <1>1, <1>3, <1>4 DEF StreamCurrent, EventsCurrent

\* The stream stays current.
LEMMA StreamCurrentNext ==
    ASSUME TypeOK, StreamCurrent, [Next]_vars PROVE StreamCurrent'
  <1>1. CASE DaemonNext
    <2>1. subscribed' \/ stream' = <<>>
      <3>1. subscribed \/ stream = <<>>
        BY DEF StreamCurrent
      <3>2. subscribed' \/ (\E ev : Emit(ev))
        BY <1>1, DaemonSteps DEF Subscribe, NetworkCreate, NetworkDestroy
      <3> QED  BY <3>1, <3>2 DEF Emit
    <2>2. \A c \in Container : RenamesChain(c)' /\ EventsCurrent(c)'
      BY <1>1, DaemonEvents, DaemonChain, StreamCurrentParts
    <2> QED  BY <2>1, <2>2 DEF StreamCurrent, EventsCurrent
  <1>2. CASE MonitorNext
    <2>1. CASE \E A : Receive(A)
      BY <2>1, ReceivedCurrent
    <2>2. CASE ~\E A : Receive(A)
      <3>1. UNCHANGED <<status, cname, att, subscribed, stream>>
        BY <1>2, <2>2
        DEF MonitorNext, MonitorStep, StartListNetworks, StartRegisterNetwork,
            StartListContainers, StartFails, HandleContainerStart, HandleContainerRename,
            HandleContainerDie, HandleNetworkConnect, HandleNetworkDisconnect,
            HandleNetworkCreate, HandleNetworkDestroy, IgnoreEvent,
            daemonState, streamState, daemonVars
      <3> QED  BY <3>1 DEF StreamCurrent, RenamesChain, RenamesOf, Followed, Attached
    <2> QED  BY <2>1, <2>2
  <1>3. CASE UNCHANGED vars
    BY <1>3
    DEF vars, daemonVars, daemonState, streamState, StreamCurrent, RenamesChain,
        RenamesOf, Followed, Attached
  <1> QED  BY <1>1, <1>2, <1>3 DEF Next
-----------------------------------------------------------------------------
(***************************************************************************)
(* CacheFollows.  What the daemon does while the monitor looks away: where *)
(* it changes a container, the event is in the stream.                     *)
(***************************************************************************)
Announced(c) ==
    /\ hazard \subseteq hazard'
    /\ \A e : InStream(e) => InStream(e)'
    /\ \A n \in Network :
          \/ att'[c][n] = att[c][n]
          \/ att[c][n] = {} /\ InStream(EndpointEvent("connect", c, n))'
          \/ att'[c][n] = {} /\ InStream(EndpointEvent("disconnect", c, n))'
    /\ status'[c] = "exited" => status[c] = "exited" \/ InStream(ContainerEvent("die", c))'
    /\ status'[c] = "running" => status[c] = "running" \/ InStream(ContainerEvent("start", c))'
    /\ RenamesOf(c) \subseteq RenamesOf(c)'
    /\ \A i \in RenamesOf(c) : stream'[i] = stream[i]
    /\ cname'[c] = cname[c] \/ \E i \in RenamesOf(c)' : stream'[i].old = cname[c]

\* Each step of the daemon announces what it changes, as Announced says.
LEMMA DaemonAnnounces ==
    ASSUME TypeOK, DaemonNext, "missed_container" \notin hazard', NEW c \in Container
    PROVE  Announced(c)
  <1>0. /\ status \in [Container -> {"created", "running", "exited", "removed"}]
        /\ att \in [Container -> [Network -> SUBSET Ip]]
        /\ cname \in [Container -> CName]
    BY DEF TypeOK, DaemonTypeOK
  <1>a. ASSUME NEW ev \in Event, Emit(ev)
        PROVE  /\ hazard \subseteq hazard'
               /\ \A e : InStream(e) => InStream(e)'
               /\ RenamesOf(c) \subseteq RenamesOf(c)'
               /\ \A i \in RenamesOf(c) : stream'[i] = stream[i]
               /\ ev.action \notin {"create", "destroy"} => subscribed /\ InStream(ev)'
    <2>1. hazard \subseteq hazard' /\ (ev.action \notin {"create", "destroy"} => subscribed)
      BY <1>a DEF Emit
    <2>2. ASSUME NEW e, InStream(e) PROVE InStream(e)'
      BY <1>a, <2>2, EmittedInStream
    <2>3. subscribed => InStream(ev)'
      BY <1>a, EmittedInStream
    <2>4. /\ RenamesOf(c) \subseteq RenamesOf(c)'
          /\ \A i \in RenamesOf(c) : stream'[i] = stream[i]
      BY <1>a, EmittedRenames
    <2> QED  BY <2>1, <2>2, <2>3, <2>4
  <1>1. CASE Subscribe
    BY <1>1 DEF Subscribe, daemonState, Announced, InStream, RenamesOf
  <1>2. CASE \E n \in Network : NetworkCreate(n) \/ NetworkDestroy(n)
    <2>1. \E ev \in Event : Emit(ev) /\ UNCHANGED <<status, att, cname>>
      BY <1>2, CreateEmits, DestroyEmits DEF NetworkCreate, NetworkDestroy
    <2> QED  BY <1>a, <2>1 DEF Announced
  <1>3. ASSUME NEW d \in Container, ContainerStart(d) PROVE Announced(c)
    <2> DEFINE ev == ContainerEvent("start", d)
    <2>1. ev \in Event /\ Emit(ev) /\ ev.action = "start"
      BY <1>3, EventsTyped, EventFields DEF ContainerStart, ContainerEvent
    <2>2. UNCHANGED <<att, cname>> /\ status'[d] = "running" /\ (d # c => status'[c] = status[c])
      BY <1>0, <1>3 DEF ContainerStart
    <2> QED  BY <1>a, <2>1, <2>2 DEF Announced
  <1>4. ASSUME NEW d \in Container, ContainerDie(d) PROVE Announced(c)
    <2> DEFINE ev == ContainerEvent("die", d)
    <2>1. ev \in Event /\ Emit(ev) /\ ev.action = "die"
      BY <1>4, EventsTyped, EventFields DEF ContainerDie, ContainerEvent
    <2>2. /\ UNCHANGED <<att, cname>>
          /\ status'[d] \in {"created", "exited"} /\ (d # c => status'[c] = status[c])
      BY <1>0, <1>4 DEF ContainerDie
    <2> QED  BY <1>a, <2>1, <2>2 DEF Announced
  <1>5. ASSUME NEW d \in Container, ContainerRemove(d) PROVE Announced(c)
    <2>1. PICK ev \in Event : Emit(ev)
      BY <1>5, EventsTyped DEF ContainerRemove
    <2>2. /\ UNCHANGED <<att, cname>>
          /\ status'[d] = "removed" /\ (d # c => status'[c] = status[c])
      BY <1>0, <1>5 DEF ContainerRemove
    <2> QED  BY <1>a, <2>1, <2>2 DEF Announced
  <1>6. ASSUME NEW d \in Container, NEW new \in CName, ContainerRename(d, new)
        PROVE  Announced(c)
    <2> DEFINE ev == [action |-> "rename", container |-> d, old |-> cname[d], new |-> new]
    <2>1. ev \in Event /\ Emit(ev) /\ ev.action = "rename" /\ ev.container = d /\ ev.old = cname[d]
      BY <1>0, <1>6, EventsTyped DEF ContainerRename
    <2>2. UNCHANGED <<att, status>> /\ (d # c => cname'[c] = cname[c])
      BY <1>0, <1>6 DEF ContainerRename
    <2> HIDE DEF ev
    <2>3. d = c => \E i \in RenamesOf(c)' : stream'[i] = ev
      BY <1>a, <2>1, EmittedRenames
    <2> QED  BY <1>a, <2>1, <2>2, <2>3 DEF Announced
  <1>7. ASSUME NEW d \in Container, NEW n \in Network, Connect(d, n) PROVE Announced(c)
    <2> DEFINE ev == EndpointEvent("connect", d, n)
    <2>1. ev \in Event /\ Emit(ev) /\ ev.action = "connect"
      BY <1>7, EventsTyped, EventFields DEF Connect, EndpointEvent
    <2>2. /\ UNCHANGED <<status, cname>> /\ att[d][n] = {}
          /\ \A m \in Network : d # c \/ m # n => att'[c][m] = att[c][m]
      BY <1>0, <1>7 DEF Connect
    <2> QED  BY <1>a, <2>1, <2>2 DEF Announced
  <1>8. ASSUME NEW d \in Container, NEW n \in Network, Disconnect(d, n) PROVE Announced(c)
    <2> DEFINE ev == EndpointEvent("disconnect", d, n)
    <2>1. ev \in Event /\ Emit(ev) /\ ev.action = "disconnect"
      BY <1>8, EventsTyped, EventFields DEF Disconnect, EndpointEvent
    <2>2. /\ UNCHANGED cname /\ att'[d][n] = {}
          /\ status'[c] = status[c] \/ status'[c] = "created"
          /\ \A m \in Network : d # c \/ m # n => att'[c][m] = att[c][m]
      BY <1>0, <1>8 DEF Disconnect
    <2> QED  BY <1>a, <2>1, <2>2 DEF Announced
  <1> QED  BY <1>1, <1>2, <1>3, <1>4, <1>5, <1>6, <1>7, <1>8 DEF DaemonNext

\* The daemon's steps take no name out of a container's own.
LEMMA OwnNamesGrow ==
    ASSUME NEW c \in Container, Announced(c) PROVE OwnNames(c) \subseteq OwnNames(c)'
  <1>1. \A i \in RenamesOf(c) : Fqdn[stream[i].old] \in OwnNames(c)'
    BY DEF Announced, OwnNames
  <1>2. Fqdn[cname[c]] \in OwnNames(c)'
    BY DEF Announced, OwnNames
  <1> QED  BY <1>1, <1>2 DEF OwnNames

\* CacheFollows, for one container.
Misled == {"rename_refused", "rename_clash", "rename_stale", "overwritten", "claim_lost"}

Follows(c) ==
    /\ AddressesFollow(c)
    /\ "rename_refused" \notin hazard => NamesFollow(c)
    /\ hazard \cap {"inspect_failed", "paused_skipped"} = {} => AddressesArrive(c)
    /\ hazard \cap Misled = {} => OwnNamePublished(c)

\* CacheFollows, container by container.
LEMMA CacheFollowsParts ==
    CacheFollows <=> (phase = "consume" /\ "missed_container" \notin hazard =>
                          \A c \in Container : Follows(c))
  BY DEF CacheFollows, Follows, Misled

\* Where the daemon changes, the event that corrects the cache is in the stream.
LEMMA DaemonFollows ==
    ASSUME TypeOK, NEW c \in Container, Follows(c), DaemonNext, UNCHANGED monitorVars,
           "missed_container" \notin hazard'
    PROVE  Follows(c)'
  <1>0. UNCHANGED <<phase, containers, table>>
    BY DEF monitorVars
  <1>1. Announced(c)
    BY DaemonAnnounces
  <1>2. hazard \subseteq hazard'
    BY <1>1 DEF Announced
  <1>3. AddressesFollow(c)'
    BY <1>0, <1>1 DEF Follows, AddressesFollow, Announced, CachedAddresses
  <1>4. NamesFollow(c) => NamesFollow(c)'
    <2>1. RenamesOf(c)' = {} => RenamesOf(c) = {} /\ cname'[c] = cname[c]
      BY <1>1 DEF Announced
    <2> QED  BY <1>0, <1>2, <2>1 DEF NamesFollow, AllNames
  <1>5. AddressesArrive(c) => AddressesArrive(c)'
    BY <1>0, <1>1 DEF AddressesArrive, Announced
  <1>6. OwnNamePublished(c) => OwnNamePublished(c)'
    <2>1. OwnNames(c) \subseteq OwnNames(c)'
      BY <1>1, OwnNamesGrow
    <2> QED  BY <1>0, <2>1 DEF OwnNamePublished, CachedAddresses
  <1> QED  BY <1>2, <1>3, <1>4, <1>5, <1>6 DEF Follows
-----------------------------------------------------------------------------
(***************************************************************************)
(* What the monitor does: the listing of start(), then one handler after   *)
(* the other.                                                              *)
(***************************************************************************)
EmptyUnlessCached ==
    \A c \in Container : ~containers[c].cached => CachedAddresses(containers[c]) = {}

\* register_container_networks and the entry API, for what they leave behind.
LEMMA RegisteredEntry ==
    ASSUME TypeOK, EmptyUnlessCached, NEW c \in Container, NEW names \in SUBSET DnsName
    PROVE  /\ Registered(c, names).cached
           /\ Registered(c, names).names =
                IF containers[c].cached THEN containers[c].names ELSE names
           /\ \A n \in Network :
                Registered(c, names).networks[n] =
                    IF att[c][n] # {} THEN att[c][n] ELSE containers[c].networks[n]
           /\ RegisteredPairs(c, names) = Registered(c, names).names \X Addresses(c)
  <1> DEFINE E == Entry(c, names)
  <1>0. E \in ContainerState
    BY EntryType
  <1>1. /\ Registered(c, names).cached = E.cached
        /\ Registered(c, names).names = E.names
        /\ \A n \in Network : Registered(c, names).networks[n] =
                IF att[c][n] # {} THEN att[c][n] ELSE E.networks[n]
    BY <1>0 DEF Registered, ContainerState
  <1>2. ~containers[c].cached => \A n \in Network : containers[c].networks[n] = {}
    BY DEF EmptyUnlessCached, CachedAddresses
  <1> QED  BY <1>1, <1>2 DEF Entry, RegisteredPairs

\* The listing of start() fills an empty cache with what the daemon reports.
LEMMA ListingFollows ==
    ASSUME TypeOK, CacheInv, EmptyUnlessCached, StartListContainers, NEW c \in Container
    PROVE  /\ Follows(c)'
           /\ ~containers'[c].cached => CachedAddresses(containers'[c]) = {}
  <1> DEFINE names(d) == FullNames({cname[d]})
             Pairs(R) == UNION {RegisteredPairs(d, names(d)) : d \in R}
  <1>0. PICK running \in SUBSET {d \in Container : status[d] = "running"} :
        /\ UNCHANGED <<status, cname, att, stream>>
        /\ containers' = [d \in Container |->
                IF d \in running THEN Registered(d, names(d)) ELSE containers[d]]
        /\ \E f : table' = Upsert(table, f, Pairs(running))
        /\ \A d \in running : ComposeNames[d] # {} => "compose_omitted" \in hazard'
        /\ running # {d \in Container : status[d] = "running"} => "paused_skipped" \in hazard'
    BY DEF StartListContainers, daemonState, streamState
  <1> DEFINE pairs == Pairs(running)
  <1>a. ~containers[c].cached
    BY DEF StartListContainers, CacheInv
  <1>b. UNCHANGED <<status, cname, att, stream>>
    BY <1>0
  <1>1. names(c) \in SUBSET DnsName
    BY NamesType DEF TypeOK, DaemonTypeOK
  <1>2. pairs \subseteq table'.fwd
    <2>1. PICK f : table' = Upsert(table, f, pairs)
      BY <1>0
    <2>2. table \in Table
      BY DEF TypeOK, MonitorTypeOK
    <2> HIDE DEF pairs
    <2> QED  BY <2>1, <2>2 DEF Upsert, Table
  <1>3. CASE c \notin running
    <2>1. containers'[c] = containers[c] /\ CachedAddresses(containers[c]) = {}
      BY <1>0, <1>3, <1>a DEF EmptyUnlessCached
    <2> QED
      BY <1>0, <1>3, <1>a, <2>1
      DEF Follows, AddressesFollow, NamesFollow, AddressesArrive, OwnNamePublished,
          CachedAddresses
  <1>4. CASE c \in running
    <2>0. PICK N \in SUBSET DnsName : N = names(c)
      BY <1>1
    <2>1. containers'[c] = Registered(c, N)
      BY <1>0, <1>4, <2>0
    <2>2. /\ containers'[c].cached
          /\ containers'[c].names = N
          /\ \A n \in Network : containers'[c].networks[n] = att[c][n]
      <3>1. \A n \in Network : containers[c].networks[n] = {}
        BY <1>a DEF EmptyUnlessCached, CachedAddresses
      <3>2. ASSUME NEW n \in Network PROVE containers'[c].networks[n] = att[c][n]
        <4>1. containers'[c].networks[n] =
                  IF att[c][n] # {} THEN att[c][n] ELSE containers[c].networks[n]
          BY <2>1, RegisteredEntry
        <4>2. containers[c].networks[n] = {}
          BY <3>1
        <4> QED  BY <4>1, <4>2
      <3>3. containers'[c].cached /\ containers'[c].names = N
        BY <1>a, <2>1, RegisteredEntry
      <3> QED  BY <3>2, <3>3
    <2>3. N \X Addresses(c) \subseteq table'.fwd
      <3>1. RegisteredPairs(c, N) \subseteq table'.fwd
        <4> HIDE DEF names
        <4>1. RegisteredPairs(c, names(c)) \subseteq pairs
          BY <1>4
        <4> HIDE DEF pairs
        <4> QED  BY <1>2, <2>0, <4>1
      <3> QED  BY <2>1, <2>2, <3>1, RegisteredEntry
    <2>4. AddressesFollow(c)'
      BY <1>0, <1>4, <2>2 DEF AddressesFollow
    <2>5. NamesFollow(c)'
      <3>1. N \subseteq AllNames(c, cname[c])
        BY <2>0 DEF AllNames
      <3>2. "compose_omitted" \in hazard' \/ AllNames(c, cname[c]) \subseteq N
        BY <1>0, <1>4, <2>0 DEF AllNames
      <3> QED  BY <1>b, <2>2, <3>1, <3>2 DEF NamesFollow, AllNames
    <2>6. AddressesArrive(c)'
      BY <1>0, <2>2 DEF AddressesArrive
    <2>7. OwnNamePublished(c)'
      <3>1. CachedAddresses(containers'[c]) = Addresses(c)
        BY <2>2 DEF CachedAddresses, Addresses
      <3>2. Fqdn[cname[c]] # BadName =>
                Fqdn[cname[c]] \in N /\ {Fqdn[cname[c]]} \X Addresses(c) \subseteq table'.fwd
        BY <2>0, <2>3 DEF FullNames
      <3>3. Fqdn[cname[c]] \in OwnNames(c)'
        BY <1>0 DEF OwnNames
      <3> HIDE DEF names
      <3> QED  BY <2>2, <3>1, <3>2, <3>3 DEF OwnNamePublished
    <2> QED  BY <2>2, <2>4, <2>5, <2>6, <2>7 DEF Follows
  <1> QED  BY <1>3, <1>4

\* The handlers only add to the history.
LEMMA HandlerMarks ==
    ASSUME MonitorNext, phase = "consume" PROVE hazard \subseteq hazard'
  <1>1. CASE StartListNetworks \/ StartListContainers \/ StartFails
             \/ \E n \in Network : StartRegisterNetwork(n)
    BY <1>1 DEF StartListNetworks, StartListContainers, StartFails, StartRegisterNetwork
  <1>2. CASE HandleContainerStart \/ HandleNetworkCreate
    BY <1>2 DEF HandleContainerStart, HandleNetworkCreate, InspectError
  <1>3. CASE HandleContainerRename
    BY <1>3 DEF HandleContainerRename
  <1>4. CASE HandleContainerDie \/ HandleNetworkDisconnect
    BY <1>4, RemovalMarks DEF HandleContainerDie, HandleNetworkDisconnect
  <1>5. CASE HandleNetworkConnect
    <2>1. \A pairs : RemovalHazard(pairs) => hazard \subseteq hazard'
      BY RemovalMarks
    <2> QED  BY <1>5, <2>1 DEF HandleNetworkConnect, InspectError
  <1>6. CASE HandleNetworkDestroy \/ IgnoreEvent
    BY <1>6 DEF HandleNetworkDestroy, IgnoreEvent
  <1> QED  BY <1>1, <1>2, <1>3, <1>4, <1>5, <1>6 DEF MonitorNext, MonitorStep

\* y is published at every address of entry c of cache C, endpoint by endpoint.
PublishedAs(C, c, y, F) == \A n \in Network : \A ip \in C[c].networks[n] : <<y, ip>> \in F

\* PublishedAs, of all cached addresses at once.
LEMMA PublishedForm ==
    ASSUME NEW C, NEW c, NEW y, NEW F
    PROVE  {y} \X CachedAddresses(C[c]) \subseteq F <=> PublishedAs(C, c, y, F)
  BY DEF CachedAddresses, PublishedAs

\* OwnNamePublished, in terms of PublishedAs.
LEMMA OwnForm ==
    ASSUME NEW c
    PROVE  OwnNamePublished(c) <=>
             (containers[c].cached /\ BadName \notin OwnNames(c) =>
                \E y \in containers[c].names \cap OwnNames(c) :
                    PublishedAs(containers, c, y, table.fwd))
  BY DEF OwnNamePublished, PublishedAs, CachedAddresses

\* A container that an event is not about: nothing that concerns it changes,
\* and the handler takes none of its records.
LEMMA OthersFollow ==
    ASSUME TypeOK, NEW A, Receive(A), hazard \subseteq hazard',
           NEW c \in Container, Follows(c),
           Head(stream).action \in {"start", "die", "rename", "connect", "disconnect"} =>
               Head(stream).container # c,
           containers'[c] = containers[c],
           hazard' \cap Misled = {} =>
               \A p \in table.fwd : Claimed(containers', c, p) => p \in table'.fwd
    PROVE  Follows(c)'
  <1>0. UNCHANGED <<status, cname, att>>
    BY DEF Receive, daemonState
  <1>1. \A a, n : /\ Head(stream) # ContainerEvent("start", c)
                  /\ Head(stream) # ContainerEvent("die", c)
                  /\ Head(stream) # EndpointEvent("connect", c, n)
                  /\ Head(stream) # EndpointEvent("disconnect", c, n)
    BY EventFields
  <1>2. ASSUME NEW e, InStream(e), Head(stream) # e PROVE InStream(e)'
    BY <1>2, ReceivedInStream
  <1>3. AddressesFollow(c)'
    BY <1>0, <1>1, <1>2 DEF Follows, AddressesFollow
  <1>4. RenamesOf(c)' = {} => RenamesOf(c) = {}
    BY ReceivedRenames
  <1>5. NamesFollow(c) => NamesFollow(c)'
    BY <1>0, <1>4 DEF NamesFollow, AllNames
  <1>6. AddressesArrive(c) => AddressesArrive(c)'
    BY <1>0, <1>1, <1>2 DEF AddressesArrive
  <1>7. ASSUME OwnNamePublished(c), hazard' \cap Misled = {} PROVE OwnNamePublished(c)'
    <2>1. OwnNames(c) \subseteq OwnNames(c)'
      <3>1. \A i \in RenamesOf(c) : i - 1 \in RenamesOf(c)' /\ stream'[i - 1] = stream[i]
        BY ReceivedRenames
      <3> QED  BY <1>0, <3>1 DEF OwnNames
    <2> SUFFICES ASSUME containers[c].cached, BadName \notin OwnNames(c)
                 PROVE  \E y \in containers[c].names \cap OwnNames(c)' :
                            PublishedAs(containers', c, y, table'.fwd)
      BY <2>1 DEF OwnNamePublished, PublishedAs, CachedAddresses
    <2>2. PICK y \in containers[c].names \cap OwnNames(c) :
              PublishedAs(containers, c, y, table.fwd)
      BY <1>7, OwnForm
    <2>3. PublishedAs(containers', c, y, table'.fwd)
      BY <1>7, <2>2 DEF PublishedAs, Claimed
    <2> QED  BY <2>1, <2>2, <2>3
  <1> QED  BY <1>3, <1>5, <1>6, <1>7 DEF Follows

\* The event that is received, and what else about c is in the stream.
LEMMA ReceivedEvent ==
    ASSUME TypeOK, NEW A, Receive(A), A \subseteq {"start", "die", "rename", "connect", "disconnect"}
    PROVE  /\ Head(stream).container \in Container
           /\ Head(stream).action \in {"connect", "disconnect"} => Head(stream).network \in Network
           /\ Head(stream).action \in {"start", "die"} =>
                Head(stream) = ContainerEvent(Head(stream).action, Head(stream).container)
           /\ Head(stream).action \in {"connect", "disconnect"} =>
                Head(stream) = EndpointEvent(Head(stream).action, Head(stream).container,
                                             Head(stream).network)
  <1>1. Head(stream) \in Event /\ Head(stream).action \in A
    BY ReceiveType
  <1> QED  BY <1>1 DEF Event, ContainerEvent, EndpointEvent

\* Handlers that keep the names of c, or give c those the daemon reports:
\* no event but a rename of c disturbs NamesFollow.
LEMMA NamesFollowStep ==
    ASSUME TypeOK, NEW A, Receive(A), "rename" \notin A, hazard \subseteq hazard',
           NEW c \in Container, NamesFollow(c),
           \/ ~containers'[c].cached
           \/ /\ containers[c].cached
              /\ containers'[c].names = containers[c].names
           \/ containers'[c].names = AllNames(c, cname[c])
    PROVE  NamesFollow(c)'
  <1>0. UNCHANGED <<status, cname, att>>
    BY DEF Receive, daemonState
  <1>1. Head(stream).action # "rename"
    BY DEF Receive
  <1>2. RenamesOf(c)' = {} => RenamesOf(c) = {}
    BY <1>1, ReceivedRenames
  <1> QED  BY <1>0, <1>2 DEF NamesFollow, AllNames

\* The same for OwnNamePublished: what is left to show is that the name stays
\* published, or that a new entry is published under its own name.
LEMMA OwnNameStep ==
    ASSUME TypeOK, NEW A, Receive(A), "rename" \notin A,
           NEW c \in Container, OwnNamePublished(c),
           \/ ~containers'[c].cached
           \/ /\ containers[c].cached
              /\ containers'[c].names = containers[c].names
              /\ \A y \in containers[c].names :
                    PublishedAs(containers, c, y, table.fwd) =>
                        PublishedAs(containers', c, y, table'.fwd)
           \/ /\ containers'[c].names = AllNames(c, cname[c])
              /\ \A y \in containers'[c].names : PublishedAs(containers', c, y, table'.fwd)
    PROVE  OwnNamePublished(c)'
  <1>0. UNCHANGED <<status, cname, att>>
    BY DEF Receive, daemonState
  <1>1. Head(stream).action # "rename"
    BY DEF Receive
  <1>2. OwnNames(c) \subseteq OwnNames(c)'
    <2>1. \A i \in RenamesOf(c) : i - 1 \in RenamesOf(c)' /\ stream'[i - 1] = stream[i]
      BY <1>1, ReceivedRenames
    <2> QED  BY <1>0, <2>1 DEF OwnNames
  <1> SUFFICES ASSUME containers'[c].cached, BadName \notin OwnNames(c)'
               PROVE  \E y \in containers'[c].names \cap OwnNames(c)' :
                          PublishedAs(containers', c, y, table'.fwd)
    BY DEF OwnNamePublished, PublishedAs, CachedAddresses
  <1>3. CASE /\ containers[c].cached
             /\ containers'[c].names = containers[c].names
             /\ \A y \in containers[c].names :
                   PublishedAs(containers, c, y, table.fwd) =>
                       PublishedAs(containers', c, y, table'.fwd)
    <2>1. PICK y \in containers[c].names \cap OwnNames(c) :
              PublishedAs(containers, c, y, table.fwd)
      BY <1>2, <1>3, OwnForm
    <2> QED  BY <1>2, <1>3, <2>1
  <1>4. CASE /\ containers'[c].names = AllNames(c, cname[c])
             /\ \A y \in containers'[c].names : PublishedAs(containers', c, y, table'.fwd)
    <2>1. Fqdn[cname[c]] \in OwnNames(c)'
      BY <1>0 DEF OwnNames
    <2>2. Fqdn[cname[c]] \in AllNames(c, cname[c])
      BY <2>1 DEF AllNames, FullNames
    <2> QED  BY <1>4, <2>1, <2>2
  <1> QED  BY <1>3, <1>4

\* handle_container_start brings the cache entry up to what it inspects.
LEMMA StartFollows ==
    ASSUME TypeOK, StreamCurrent, EmptyUnlessCached, HandleContainerStart,
           hazard \subseteq hazard',
           NEW c, c = Head(stream).container, Follows(c)
    PROVE  Follows(c)'
  <1>0. /\ Receive({"start"}) /\ c \in Container
        /\ Head(stream) = ContainerEvent("start", c)
        /\ UNCHANGED <<status, cname, att>>
    <2>1. Receive({"start"})
      BY DEF HandleContainerStart
    <2>2. Head(stream).action = "start"
      BY <2>1 DEF Receive
    <2> QED  BY <2>1, <2>2, ReceivedEvent DEF Receive, daemonState
  <1>1. ASSUME NEW e, InStream(e), e # ContainerEvent("start", c) PROVE InStream(e)'
    BY <1>0, <1>1, ReceivedInStream
  <1>2. /\ ContainerEvent("start", c) # ContainerEvent("die", c)
        /\ \A n : /\ ContainerEvent("start", c) # EndpointEvent("connect", c, n)
                  /\ ContainerEvent("start", c) # EndpointEvent("disconnect", c, n)
    BY EventFields
  <1>3. status[c] = "exited" => InStream(ContainerEvent("die", c))'
    BY <1>0, ReceivedFollowed DEF StreamCurrent
  <1>4. CASE /\ UNCHANGED <<containers, table>>
             /\ status[c] # "removed" => "inspect_failed" \in hazard'
    <2>1. AddressesFollow(c)'
      BY <1>0, <1>1, <1>2, <1>3, <1>4 DEF Follows, AddressesFollow
    <2>2. NamesFollow(c) => NamesFollow(c)'
      BY <1>0, <1>4, NamesFollowStep DEF NamesFollow
    <2>3. hazard' \cap {"inspect_failed", "paused_skipped"} = {} => AddressesArrive(c)'
      BY <1>0, <1>4 DEF AddressesArrive
    <2>4. OwnNamePublished(c) => OwnNamePublished(c)'
      BY <1>0, <1>4, OwnNameStep
    <2> QED  BY <1>0, <1>4, <2>1, <2>2, <2>3, <2>4 DEF Follows
  <1>5. ASSUME NEW names \in SUBSET DnsName, names = AllNames(c, cname[c]),
               containers' = [containers EXCEPT ![c] = Registered(c, names)],
               NEW f, table' = Upsert(table, f, RegisteredPairs(c, names))
        PROVE  Follows(c)'
    <2>0. containers'[c] = Registered(c, names)
      BY <1>0, <1>5 DEF TypeOK, MonitorTypeOK
    <2>1. /\ containers'[c].cached
          /\ containers'[c].names = IF containers[c].cached THEN containers[c].names ELSE names
      BY <1>0, <2>0, RegisteredEntry
    <2>2. \A n \in Network : containers'[c].networks[n] =
              IF att[c][n] # {} THEN att[c][n] ELSE containers[c].networks[n]
      BY <1>0, <2>0, RegisteredEntry
    <2>3. table'.fwd = table.fwd \cup (containers'[c].names \X Addresses(c))
      <3>1. RegisteredPairs(c, names) = containers'[c].names \X Addresses(c)
        BY <1>0, <2>0, RegisteredEntry
      <3> QED  BY <1>5, <3>1 DEF Upsert, TypeOK, MonitorTypeOK, Table
    <2>4. AddressesFollow(c)'
      <3>1. \A n \in Network : containers[c].networks[n] \subseteq att[c][n]
                                 \/ InStream(EndpointEvent("disconnect", c, n))'
        BY <1>1, <1>2 DEF Follows, AddressesFollow
      <3> QED  BY <1>0, <1>3, <2>2, <3>1 DEF AddressesFollow
    <2>5. NamesFollow(c) => NamesFollow(c)'
      BY <1>0, <1>5, <2>1, NamesFollowStep
    <2>6. AddressesArrive(c)'
      BY <1>0, <2>2 DEF AddressesArrive
    <2>7. OwnNamePublished(c) => OwnNamePublished(c)'
      <3>1. \A n \in Network : att[c][n] \subseteq Addresses(c)
        BY DEF Addresses
      <3>2. ASSUME NEW y \in containers'[c].names, PublishedAs(containers, c, y, table.fwd)
            PROVE  PublishedAs(containers', c, y, table'.fwd)
        BY <2>2, <2>3, <3>1, <3>2 DEF PublishedAs
      <3>3. CASE containers[c].cached
        BY <1>0, <2>1, <3>2, <3>3, OwnNameStep
      <3>4. CASE ~containers[c].cached
        <4>1. \A y : PublishedAs(containers, c, y, table.fwd)
          BY <1>0, <3>4 DEF EmptyUnlessCached, CachedAddresses, PublishedAs
        <4> QED  BY <1>0, <1>5, <2>1, <3>2, <3>4, <4>1, OwnNameStep
      <3> QED  BY <3>3, <3>4
    <2> QED  BY <2>4, <2>5, <2>6, <2>7 DEF Follows
  <1>6. AllNames(c, cname[c]) \in SUBSET DnsName
    BY <1>0, NamesType DEF TypeOK, DaemonTypeOK
  <1> QED  BY <1>4, <1>5, <1>6 DEF HandleContainerStart, InspectError

\* After the die event an entry is empty; the start event of a container that
\* runs again is still to come.
LEMMA DieFollows ==
    ASSUME TypeOK, StreamCurrent, HandleContainerDie, hazard \subseteq hazard',
           NEW c, c = Head(stream).container, Follows(c)
    PROVE  Follows(c)'
  <1>0. /\ Receive({"die"}) /\ c \in Container
        /\ Head(stream) = ContainerEvent("die", c)
        /\ UNCHANGED <<status, cname, att>>
    <2>1. Receive({"die"})
      BY DEF HandleContainerDie
    <2>2. Head(stream).action = "die"
      BY <2>1 DEF Receive
    <2> QED  BY <2>1, <2>2, ReceivedEvent DEF Receive, daemonState
  <1>1. ~containers'[c].cached /\ \A n \in Network : containers'[c].networks[n] = {}
    <2>1. containers'[c] = NotCached
      BY <1>0 DEF HandleContainerDie, TypeOK, MonitorTypeOK
    <2> QED  BY <2>1 DEF NotCached
  <1>2. CachedAddresses(containers'[c]) = {}
    BY <1>1 DEF CachedAddresses
  <1>3. AddressesFollow(c)'
    BY <1>1, <1>2 DEF AddressesFollow
  <1>4. AddressesArrive(c)'
    <2>1. status[c] = "running" => InStream(ContainerEvent("start", c))'
      BY <1>0, ReceivedFollowed DEF StreamCurrent
    <2> QED  BY <1>0, <2>1 DEF AddressesArrive
  <1>5. NamesFollow(c)' /\ OwnNamePublished(c)'
    BY <1>1 DEF NamesFollow, OwnNamePublished
  <1> QED  BY <1>2, <1>3, <1>4, <1>5 DEF Follows

\* The addresses of one endpoint go; the others stay published.
LEMMA DisconnectFollows ==
    ASSUME TypeOK, TypeOK', StreamCurrent, HandleNetworkDisconnect,
           hazard \subseteq hazard', NEW c, c = Head(stream).container, Follows(c)
    PROVE  Follows(c)'
  <1>00. PICK n \in Network : Head(stream).network = n
    <2>1. Receive({"disconnect"})
      BY DEF HandleNetworkDisconnect
    <2> QED  BY <2>1, ReceivedEvent DEF Receive
  <1> DEFINE gone == containers[c].names \X containers[c].networks[n]
  <1>0. /\ Receive({"disconnect"}) /\ c \in Container /\ n \in Network
        /\ Head(stream) = EndpointEvent("disconnect", c, n)
        /\ UNCHANGED <<status, cname, att>>
    <2>1. Receive({"disconnect"})
      BY DEF HandleNetworkDisconnect
    <2>2. Head(stream).action = "disconnect"
      BY <2>1 DEF Receive
    <2> QED  BY <1>00, <2>1, <2>2, ReceivedEvent DEF Receive, daemonState
  <1>a. /\ containers \in [Container -> ContainerState] /\ table \in Table
        /\ table.fwd \in SUBSET Pair
    BY DEF TypeOK, MonitorTypeOK, Table
  <1>1. /\ containers' = [containers EXCEPT ![c].networks[n] = {}]
        /\ \E f : table' = RemoveAddresses(table, f, gone)
        /\ RemovalHazard(gone)
    <2>1. containers' = [containers EXCEPT ![c].networks[n] = {}]
      BY <1>00 DEF HandleNetworkDisconnect
    <2>2. \E f : table' = RemoveAddresses(table, f, gone)
      BY <1>00 DEF HandleNetworkDisconnect
    <2>3. RemovalHazard(gone)
      BY <1>00 DEF HandleNetworkDisconnect, RemovalHazard
    <2> QED  BY <2>1, <2>2, <2>3
  <1>2. table'.fwd = table.fwd \ gone
    BY <1>a, <1>1 DEF RemoveAddresses, Table
  <1> HIDE DEF gone
  <1>3. /\ containers'[c].cached = containers[c].cached
        /\ containers'[c].names = containers[c].names
        /\ \A m \in Network : containers'[c].networks[m] =
               IF m = n THEN {} ELSE containers[c].networks[m]
    BY <1>0, <1>a, <1>1 DEF ContainerState
  <1>4. ASSUME NEW e, InStream(e), e # EndpointEvent("disconnect", c, n) PROVE InStream(e)'
    BY <1>0, <1>4, ReceivedInStream
  <1>5. /\ EndpointEvent("disconnect", c, n) # ContainerEvent("die", c)
        /\ EndpointEvent("disconnect", c, n) # ContainerEvent("start", c)
        /\ \A m : EndpointEvent("disconnect", c, n) # EndpointEvent("connect", c, m)
        /\ \A m : m # n => EndpointEvent("disconnect", c, n) # EndpointEvent("disconnect", c, m)
    BY EventFields
  <1>6. CachedAddresses(containers'[c]) \subseteq CachedAddresses(containers[c])
    BY <1>3 DEF CachedAddresses
  <1>7. AddressesFollow(c)'
    <2>1. ASSUME NEW m \in Network
          PROVE  containers'[c].networks[m] \subseteq att[c][m]
                   \/ InStream(EndpointEvent("disconnect", c, m))'
      BY <1>3, <1>4, <1>5 DEF Follows, AddressesFollow
    <2>2. status[c] = "exited" /\ CachedAddresses(containers'[c]) # {} =>
              InStream(ContainerEvent("die", c))'
      BY <1>4, <1>5, <1>6 DEF Follows, AddressesFollow
    <2> QED  BY <1>0, <2>1, <2>2 DEF AddressesFollow
  <1>8. NamesFollow(c) => NamesFollow(c)'
    <2>1. CASE containers[c].cached
      BY <1>0, <1>3, <2>1, NamesFollowStep
    <2> QED  BY <1>3, <2>1 DEF NamesFollow
  <1>9. AddressesArrive(c) => AddressesArrive(c)'
    <2>1. att[c][n] # {} => InStream(EndpointEvent("connect", c, n))'
      <3>1. EventsCurrent(c)
        BY <1>0, StreamCurrentParts
      <3>2. att[c][n] # {} =>
                Followed(EndpointEvent("disconnect", c, n), EndpointEvent("connect", c, n))
        BY <1>0, <3>1 DEF EventsCurrent
      <3> QED  BY <1>0, <3>2, ReceivedFollowed
    <2>2. ASSUME AddressesArrive(c), status[c] = "running", NEW m \in Network, m # n
          PROVE  \/ att[c][m] \subseteq containers'[c].networks[m]
                 \/ InStream(EndpointEvent("connect", c, m))'
                 \/ InStream(ContainerEvent("start", c))'
      BY <1>3, <1>4, <1>5, <2>2 DEF AddressesArrive
    <2>3. ASSUME AddressesArrive(c), status[c] = "running", NEW m \in Network
          PROVE  \/ att[c][m] \subseteq containers'[c].networks[m]
                 \/ InStream(EndpointEvent("connect", c, m))'
                 \/ InStream(ContainerEvent("start", c))'
      <3>1. CASE m = n
        BY <2>1, <3>1
      <3> QED  BY <2>2, <2>3, <3>1
    <2>4. UNCHANGED <<status, att>>
      BY <1>0
    <2> QED  BY <2>3, <2>4 DEF AddressesArrive
  <1>10. ASSUME hazard' \cap Misled = {}, OwnNamePublished(c) PROVE OwnNamePublished(c)'
    <2>1. ASSUME NEW y \in containers[c].names, PublishedAs(containers, c, y, table.fwd)
          PROVE  PublishedAs(containers', c, y, table'.fwd)
      <3> SUFFICES ASSUME NEW m \in Network, NEW ip \in containers'[c].networks[m]
                   PROVE  <<y, ip>> \in table'.fwd
        BY DEF PublishedAs
      <3>1. <<y, ip>> \in table.fwd
        BY <1>3, <2>1 DEF PublishedAs
      <3>2. Claimed(containers', c, <<y, ip>>)
        BY <1>3 DEF Claimed
      <3>3. <<y, ip>> \notin gone
        <4>1. "claim_lost" \notin hazard'
          BY <1>10 DEF Misled
        <4>2. <<y, ip>> \in Pair
          BY <1>a, <3>1
        <4> QED  BY <1>0, <1>1, <3>2, <4>1, <4>2, RemovalSparesClaims
      <3> QED  BY <1>2, <3>1, <3>3
    <2>2. CASE containers[c].cached
      BY <1>0, <1>3, <1>10, <2>1, <2>2, OwnNameStep
    <2> QED  BY <1>3, <2>2 DEF OwnNamePublished
  <1>11. hazard \cap Misled # {} => hazard' \cap Misled # {}
    OBVIOUS
  <1> QED  BY <1>7, <1>8, <1>9, <1>10, <1>11 DEF Follows

\* The entry that an event finds or makes.
LEMMA EntryForm ==
    ASSUME TypeOK, EmptyUnlessCached, NEW c \in Container, NEW names \in SUBSET DnsName
    PROVE  /\ Entry(c, names) \in ContainerState
           /\ Entry(c, names).cached
           /\ Entry(c, names).names =
                IF containers[c].cached THEN containers[c].names ELSE names
           /\ \A n \in Network : Entry(c, names).networks[n] = containers[c].networks[n]
  <1>1. Entry(c, names) \in ContainerState
    BY EntryType
  <1>2. ~containers[c].cached => \A n \in Network : containers[c].networks[n] = {}
    BY DEF EmptyUnlessCached, CachedAddresses
  <1> QED  BY <1>1, <1>2 DEF Entry

\* The addresses of one endpoint become those the daemon reports, or stay when
\* it reports none.
LEMMA ConnectFollows ==
    ASSUME TypeOK, TypeOK', StreamCurrent, EmptyUnlessCached, HandleNetworkConnect,
           hazard \subseteq hazard', NEW c, c = Head(stream).container, Follows(c)
    PROVE  Follows(c)'
  <1>00. PICK n \in Network : Head(stream).network = n
    <2>1. Receive({"connect"})
      BY DEF HandleNetworkConnect
    <2> QED  BY <2>1, ReceivedEvent DEF Receive
  <1>0. /\ Receive({"connect"}) /\ c \in Container
        /\ Head(stream) = EndpointEvent("connect", c, n)
        /\ UNCHANGED <<status, cname, att>>
    <2>1. Receive({"connect"})
      BY DEF HandleNetworkConnect
    <2>2. Head(stream).action = "connect"
      BY <2>1 DEF Receive
    <2> QED  BY <1>00, <2>1, <2>2, ReceivedEvent DEF Receive, daemonState
  <1>a. /\ containers \in [Container -> ContainerState] /\ table \in Table
        /\ table.fwd \in SUBSET Pair
    BY DEF TypeOK, MonitorTypeOK, Table
  <1>b. PICK names \in SUBSET DnsName : names = AllNames(c, cname[c])
    BY <1>0, NamesType DEF TypeOK, DaemonTypeOK
  <1>c. PICK st : st = Entry(c, names)
    OBVIOUS
  <1>d. PICK old : old = st.networks[n]
    OBVIOUS
  <1>e. PICK new : new = att[c][n]
    OBVIOUS
  <1>1. ASSUME NEW e, InStream(e), e # EndpointEvent("connect", c, n) PROVE InStream(e)'
    BY <1>0, <1>1, ReceivedInStream
  <1>2. /\ EndpointEvent("connect", c, n) # ContainerEvent("die", c)
        /\ EndpointEvent("connect", c, n) # ContainerEvent("start", c)
        /\ \A m : EndpointEvent("connect", c, n) # EndpointEvent("disconnect", c, m)
        /\ \A m : m # n => EndpointEvent("connect", c, n) # EndpointEvent("connect", c, m)
    BY EventFields
  <1>3. status[c] = "exited" => InStream(ContainerEvent("die", c))'
    <2>1. EventsCurrent(c)
      BY <1>0, StreamCurrentParts
    <2>2. status[c] = "exited" =>
              Followed(EndpointEvent("connect", c, n), ContainerEvent("die", c))
      BY <2>1 DEF EventsCurrent
    <2> QED  BY <1>0, <2>2, ReceivedFollowed
  <1>4. ASSUME UNCHANGED <<containers, table>>,
               \/ att[c][n] = {}
               \/ status[c] # "removed" => "inspect_failed" \in hazard'
        PROVE  Follows(c)'
    <2>1. AddressesFollow(c)'
      BY <1>0, <1>1, <1>2, <1>3, <1>4 DEF Follows, AddressesFollow
    <2>2. NamesFollow(c) => NamesFollow(c)'
      BY <1>0, <1>4, NamesFollowStep DEF NamesFollow
    <2>3. AddressesArrive(c) => "inspect_failed" \in hazard' \/ AddressesArrive(c)'
      BY <1>0, <1>1, <1>2, <1>4 DEF AddressesArrive
    <2>4. OwnNamePublished(c) => OwnNamePublished(c)'
      BY <1>0, <1>4, OwnNameStep
    <2> QED  BY <1>0, <1>4, <2>1, <2>2, <2>3, <2>4 DEF Follows
  <1>5. ASSUME containers' = [containers EXCEPT ![c] = [st EXCEPT !.networks[n] = new]],
               \/ old = new /\ UNCHANGED table
               \/ /\ \E f : table' = Upsert(RemoveAddresses(table, f, st.names \X old),
                                            f, st.names \X new)
                  /\ RemovalHazard(st.names \X (old \ new))
        PROVE  Follows(c)'
    <2>1. /\ st \in ContainerState /\ st.cached
          /\ st.names = IF containers[c].cached THEN containers[c].names ELSE names
          /\ \A m \in Network : st.networks[m] = containers[c].networks[m]
      BY <1>0, <1>c, EntryForm
    <2>2. /\ containers'[c].cached
          /\ containers'[c].names = st.names
          /\ \A m \in Network : containers'[c].networks[m] =
                 IF m = n THEN new ELSE containers[c].networks[m]
      BY <1>0, <1>a, <1>5, <2>1 DEF ContainerState
    <2>3. AddressesFollow(c)'
      <3>1. \A m \in Network : containers[c].networks[m] \subseteq att[c][m]
                                 \/ InStream(EndpointEvent("disconnect", c, m))'
        BY <1>1, <1>2 DEF Follows, AddressesFollow
      <3> QED  BY <1>0, <1>3, <1>e, <2>2, <3>1 DEF AddressesFollow
    <2>4. NamesFollow(c) => NamesFollow(c)'
      <3>1. \/ /\ containers[c].cached
               /\ containers'[c].names = containers[c].names
            \/ containers'[c].names = AllNames(c, cname[c])
        BY <1>b, <2>1, <2>2
      <3> QED  BY <1>0, <3>1, NamesFollowStep
    <2>5. AddressesArrive(c) => AddressesArrive(c)'
      <3>1. ASSUME AddressesArrive(c), status[c] = "running", NEW m \in Network, m # n
            PROVE  \/ att[c][m] \subseteq containers'[c].networks[m]
                   \/ InStream(EndpointEvent("connect", c, m))'
                   \/ InStream(ContainerEvent("start", c))'
        BY <1>1, <1>2, <2>2, <3>1 DEF AddressesArrive
      <3>2. att[c][n] \subseteq containers'[c].networks[n]
        BY <1>e, <2>2
      <3>3. UNCHANGED <<status, att>>
        BY <1>0
      <3> QED  BY <3>1, <3>2, <3>3 DEF AddressesArrive
    <2>6. ASSUME hazard' \cap Misled = {}, NEW y \in st.names,
                 PublishedAs(containers, c, y, table.fwd)
          PROVE  PublishedAs(containers', c, y, table'.fwd)
      <3> SUFFICES ASSUME NEW m \in Network, NEW ip \in containers'[c].networks[m]
                   PROVE  <<y, ip>> \in table'.fwd
        BY DEF PublishedAs
      <3>1. m # n => <<y, ip>> \in table.fwd
        BY <2>2, <2>6 DEF PublishedAs
      <3>2. CASE old = new /\ UNCHANGED table
        <4>1. ip \in containers[c].networks[m]
          BY <1>d, <2>1, <2>2, <3>2, ZenonT(40)
        <4>2. <<y, ip>> \in table.fwd
          BY <2>6, <4>1 DEF PublishedAs
        <4> QED  BY <3>2, <4>2
      <3>3. CASE /\ \E f : table' = Upsert(RemoveAddresses(table, f, st.names \X old),
                                          f, st.names \X new)
                 /\ RemovalHazard(st.names \X (old \ new))
        <4>1. table'.fwd = (table.fwd \ (st.names \X old)) \cup (st.names \X new)
          <5>1. PICK f : table' = Upsert(RemoveAddresses(table, f, st.names \X old),
                                        f, st.names \X new)
            BY <3>3
          <5>2. Upsert(RemoveAddresses(table, f, st.names \X old), f, st.names \X new).fwd
                  = (table.fwd \ (st.names \X old)) \cup (st.names \X new)
            BY <1>a, ReplaceForward
          <5> QED  BY <5>1, <5>2
        <4>2. CASE m = n
          BY <2>2, <4>1, <4>2
        <4>3. CASE m # n
          <5>1. <<y, ip>> \in Pair
            BY <1>a, <3>1, <4>3
          <5>2. Claimed(containers', c, <<y, ip>>)
            BY <2>2 DEF Claimed
          <5>3. <<y, ip>> \notin st.names \X (old \ new)
            <6>1. "claim_lost" \notin hazard'
              BY <2>6 DEF Misled
            <6> QED  BY <1>0, <3>3, <5>1, <5>2, <6>1, RemovalSparesClaims
          <5> QED  BY <3>1, <4>1, <4>3, <5>3
        <4> QED  BY <4>2, <4>3
      <3> QED  BY <1>5, <3>2, <3>3
    <2>7. hazard' \cap Misled = {} /\ OwnNamePublished(c) => OwnNamePublished(c)'
      <3>1. CASE containers[c].cached
        BY <1>0, <2>1, <2>2, <2>6, <3>1, OwnNameStep
      <3>2. CASE ~containers[c].cached
        <4>1. \A y : PublishedAs(containers, c, y, table.fwd)
          BY <1>0, <3>2 DEF EmptyUnlessCached, CachedAddresses, PublishedAs
        <4>2. containers'[c].names = AllNames(c, cname[c])
          BY <1>b, <2>1, <2>2, <3>2
        <4>3. hazard' \cap Misled = {} =>
                 \A y \in containers'[c].names : PublishedAs(containers', c, y, table'.fwd)
          BY <2>2, <2>6, <4>1
        <4> QED  BY <1>0, <4>2, <4>3, OwnNameStep
      <3> QED  BY <3>1, <3>2
    <2>8. hazard \cap Misled # {} => hazard' \cap Misled # {}
      OBVIOUS
    <2> QED  BY <2>3, <2>4, <2>5, <2>7, <2>8 DEF Follows
  <1>6. \/ /\ containers' = [containers EXCEPT ![c] = [st EXCEPT !.networks[n] = new]]
           /\ \/ old = new /\ UNCHANGED table
              \/ /\ \E f : table' = Upsert(RemoveAddresses(table, f, st.names \X old),
                                           f, st.names \X new)
                 /\ RemovalHazard(st.names \X (old \ new))
        \/ /\ UNCHANGED <<containers, table>>
           /\ att[c][n] = {} \/ (status[c] # "removed" => "inspect_failed" \in hazard')
    BY <1>00, <1>b, <1>c, <1>d, <1>e DEF HandleNetworkConnect, InspectError
  <1> QED  BY <1>4, <1>5, <1>6

\* What the rename at the front leads to: the current name, or the next rename.
LEMMA RenameContinues ==
    ASSUME TypeOK, StreamCurrent, NEW A, Receive(A), Head(stream).action = "rename",
           NEW c \in Container, c = Head(stream).container
    PROVE  \/ Head(stream).new = cname[c]
           \/ \E j \in RenamesOf(c)' : stream'[j].old = Head(stream).new
  <1>1. 1 \in RenamesOf(c) /\ stream[1] = Head(stream)
    BY ReceivedRenames
  <1>2. CASE stream[1].new = cname[c]
    BY <1>1, <1>2
  <1>3. ASSUME NEW j \in RenamesOf(c), 1 < j, stream[j].old = stream[1].new
        PROVE  \E k \in RenamesOf(c)' : stream'[k].old = Head(stream).new
    <2>1. j # 1
      BY <1>3
    <2>2. j - 1 \in RenamesOf(c)' /\ stream'[j - 1] = stream[j]
      BY <2>1, ReceivedRenames
    <2> QED  BY <1>1, <1>3, <2>2
  <1>4. RenamesChain(c)
    BY StreamCurrentParts
  <1> QED  BY <1>1, <1>2, <1>3, <1>4 DEF RenamesChain

\* Receiving a rename of c takes its old name from OwnNames and no other.
LEMMA RenameOwnNames ==
    ASSUME TypeOK, NEW A, Receive(A), Head(stream).action = "rename",
           NEW c \in Container, c = Head(stream).container, NEW y \in OwnNames(c)
    PROVE  y = Fqdn[Head(stream).old] \/ y \in OwnNames(c)'
  <1>0. UNCHANGED cname
    BY DEF Receive, daemonState
  <1>1. CASE y = Fqdn[cname[c]]
    BY <1>0, <1>1 DEF OwnNames
  <1>2. ASSUME NEW i \in RenamesOf(c), y = Fqdn[stream[i].old], i # 1
        PROVE  y \in OwnNames(c)'
    <2>1. i - 1 \in RenamesOf(c)' /\ stream'[i - 1] = stream[i]
      BY <1>2, ReceivedRenames
    <2> QED  BY <1>2, <2>1 DEF OwnNames
  <1>3. stream[1] = Head(stream)
    BY ReceivedRenames
  <1> QED  BY <1>1, <1>2, <1>3 DEF OwnNames

\* The entry takes the names that go with the new name, and the records of the
\* old name, those of the container among them, move to it.
LEMMA RenameFollows ==
    ASSUME TypeOK, StreamCurrent, HandleContainerRename,
           hazard \subseteq hazard', NEW c, c = Head(stream).container, Follows(c)
    PROVE  Follows(c)'
  <1>0. /\ Receive({"rename"}) /\ c \in Container
        /\ Head(stream).action = "rename"
        /\ UNCHANGED <<status, cname, att>>
    <2>1. Receive({"rename"})
      BY DEF HandleContainerRename
    <2>2. Head(stream).action = "rename"
      BY <2>1 DEF Receive
    <2> QED  BY <2>1, <2>2, ReceivedEvent DEF Receive, daemonState
  <1>a. /\ containers \in [Container -> ContainerState] /\ table \in Table
        /\ table.fwd \in SUBSET Pair
    BY DEF TypeOK, MonitorTypeOK, Table
  <1>1. \A n \in Network :
            /\ InStream(EndpointEvent("connect", c, n)) => InStream(EndpointEvent("connect", c, n))'
            /\ InStream(EndpointEvent("disconnect", c, n)) =>
                   InStream(EndpointEvent("disconnect", c, n))'
    BY <1>0, ReceivedInStream, EventFields
  <1>2. /\ InStream(ContainerEvent("start", c)) => InStream(ContainerEvent("start", c))'
        /\ InStream(ContainerEvent("die", c)) => InStream(ContainerEvent("die", c))'
    BY <1>0, ReceivedInStream, EventFields
  <1>b. PICK x : x = Head(stream).old
    OBVIOUS
  <1>c. PICK z : z = Head(stream).new
    OBVIOUS
  <1>3. ASSUME containers'[c].networks = containers[c].networks
        PROVE  /\ AddressesFollow(c)'
               /\ AddressesArrive(c) => AddressesArrive(c)'
    BY <1>0, <1>1, <1>2, <1>3 DEF Follows, AddressesFollow, AddressesArrive, CachedAddresses
  <1>4. CASE UNCHANGED <<containers, table>> /\ "rename_refused" \in hazard'
    BY <1>0, <1>3, <1>4 DEF Follows, Misled
  <1>5. CASE ~containers[c].cached /\ UNCHANGED containers
    <2>1. NamesFollow(c)' /\ OwnNamePublished(c)'
      BY <1>5 DEF NamesFollow, OwnNamePublished
    <2> QED  BY <1>0, <1>3, <1>5, <2>1 DEF Follows
  <1>6. ASSUME containers[c].cached, Fqdn[x] # BadName, Fqdn[z] # BadName,
               containers' = [containers EXCEPT ![c].names = AllNames(c, z)],
               NEW f, table' = Rename(table, f, Fqdn[x], Fqdn[z]),
               "rename_stale" \notin hazard' =>
                   containers[c].names \subseteq {Fqdn[x]} \cup AllNames(c, z)
        PROVE  Follows(c)'
    <2>1. /\ containers'[c].cached
          /\ containers'[c].names = AllNames(c, z)
          /\ containers'[c].networks = containers[c].networks
      BY <1>0, <1>a, <1>6 DEF ContainerState
    <2>2. \/ z = cname[c]
          \/ \E j \in RenamesOf(c)' : stream'[j].old = z
      BY <1>0, <1>c, RenameContinues
    <2>3. NamesFollow(c)'
      BY <1>0, <2>1, <2>2 DEF NamesFollow, AllNames
    <2>4. Fqdn[z] \in OwnNames(c)'
      BY <1>0, <2>2 DEF OwnNames
    <2>5. Fqdn[z] \in containers'[c].names
      BY <1>6, <2>1 DEF AllNames, FullNames
    <2>6. /\ \A p \in table.fwd : p[1] # Fqdn[x] => p \in table'.fwd
          /\ \A ip \in Ip : <<Fqdn[x], ip>> \in table.fwd => <<Fqdn[z], ip>> \in table'.fwd
      <3>1. table'.fwd = (table.fwd \ ({Fqdn[x]} \X AddressesOf(table, Fqdn[x])))
                           \cup ({Fqdn[z]} \X AddressesOf(table, Fqdn[x]))
        BY <1>a, <1>6 DEF Rename, Table
      <3> QED  BY <3>1 DEF AddressesOf
    <2>7. ASSUME hazard' \cap Misled = {} PROVE OwnNamePublished(c)'
      <3> SUFFICES ASSUME BadName \notin OwnNames(c)'
                   PROVE  \E y \in containers'[c].names \cap OwnNames(c)' :
                              PublishedAs(containers', c, y, table'.fwd)
        BY DEF OwnNamePublished, PublishedAs, CachedAddresses
      <3>1. \A y \in OwnNames(c) : y = Fqdn[x] \/ y \in OwnNames(c)'
        BY <1>0, <1>b, RenameOwnNames
      <3>2. OwnNamePublished(c)
        BY <2>7 DEF Follows
      <3>3. PICK y \in containers[c].names \cap OwnNames(c) :
                PublishedAs(containers, c, y, table.fwd)
        BY <1>6, <3>1, <3>2, OwnForm
      <3>4. CASE y = Fqdn[x]
        <4>1. \A n \in Network : containers[c].networks[n] \subseteq Ip
          BY <1>0, <1>a DEF ContainerState
        <4>2. PublishedAs(containers', c, Fqdn[z], table'.fwd)
          BY <2>1, <2>6, <3>3, <3>4, <4>1 DEF PublishedAs
        <4> QED  BY <2>4, <2>5, <4>2
      <3>5. CASE y # Fqdn[x]
        <4>1. PublishedAs(containers', c, y, table'.fwd)
          BY <2>1, <2>6, <3>3, <3>5 DEF PublishedAs
        <4>2. "rename_stale" \notin hazard'
          BY <2>7 DEF Misled
        <4>3. y \in containers'[c].names
          BY <1>6, <2>1, <3>3, <3>5, <4>2
        <4> QED  BY <3>1, <3>3, <3>5, <4>1, <4>3
      <3> QED  BY <3>4, <3>5
    <2> QED  BY <1>3, <2>1, <2>3, <2>7 DEF Follows
  <1>7. \/ UNCHANGED <<containers, table>> /\ "rename_refused" \in hazard'
        \/ /\ Fqdn[x] # BadName /\ Fqdn[z] # BadName
           /\ \E f : table' = Rename(table, f, Fqdn[x], Fqdn[z])
           /\ containers' = IF containers[c].cached
                THEN [containers EXCEPT ![c].names = AllNames(c, z)] ELSE containers
           /\ containers[c].cached /\ "rename_stale" \notin hazard' =>
                  containers[c].names \subseteq {Fqdn[x]} \cup AllNames(c, z)
    <2>1. CASE BadName \in {Fqdn[Head(stream).old], Fqdn[Head(stream).new]}
      BY <2>1 DEF HandleContainerRename
    <2>2. CASE BadName \notin {Fqdn[Head(stream).old], Fqdn[Head(stream).new]}
      <3>1. /\ \E f : table' = Rename(table, f, Fqdn[x], Fqdn[z])
            /\ containers' = IF containers[c].cached
                 THEN [containers EXCEPT ![c].names = AllNames(c, z)] ELSE containers
        BY <1>b, <1>c, <2>2 DEF HandleContainerRename
      <3>2. "rename_stale" \in hazard'
               \/ ~(containers[c].cached
                    /\ ~(containers[c].names \subseteq {Fqdn[x]} \cup AllNames(c, z)))
        BY <1>b, <1>c, <2>2 DEF HandleContainerRename
      <3> QED  BY <1>b, <1>c, <2>2, <3>1, <3>2
    <2> QED  BY <2>1, <2>2
  <1> QED  BY <1>4, <1>5, <1>6, <1>7

\* The handlers leave the entries of other containers alone, and the records
\* those stand for too, unless one goes for two claims or in a rename.
LEMMA OthersKept ==
    ASSUME TypeOK, TypeOK', MonitorNext, phase = "consume", NEW d \in Container,
           Head(stream).action \in {"start", "die", "rename", "connect", "disconnect"} =>
               Head(stream).container # d
    PROVE  /\ \E A : Receive(A)
           /\ containers'[d] = containers[d]
           /\ hazard' \cap Misled = {} =>
                  \A p \in table.fwd : Claimed(containers', d, p) => p \in table'.fwd
  <1>a. /\ containers \in [Container -> ContainerState] /\ table \in Table
        /\ table.fwd \in SUBSET Pair
    BY DEF TypeOK, MonitorTypeOK, Table
  <1>b. ASSUME NEW A, Receive(A), A \subseteq {"start", "die", "rename", "connect", "disconnect"}
        PROVE  Head(stream).container \in Container \ {d}
    <2>1. Head(stream).action \in A
      BY <1>b DEF Receive
    <2> QED  BY <1>b, <2>1, ReceivedEvent
  \* A removal that is recorded spares what an entry still stands for.
  <1>c. ASSUME NEW pairs, RemovalHazard(pairs), hazard' \cap Misled = {},
               NEW p \in table.fwd, Claimed(containers', d, p)
        PROVE  p \notin pairs
    BY <1>a, <1>c, RemovalSparesClaims DEF Misled
  <1>1. CASE IgnoreEvent \/ HandleNetworkCreate \/ HandleNetworkDestroy
    <2>1. UNCHANGED containers /\ \E A : Receive(A)
      BY <1>1 DEF IgnoreEvent, HandleNetworkCreate, HandleNetworkDestroy
    <2>2. table'.fwd = table.fwd
      BY <1>a, <1>1 DEF IgnoreEvent, HandleNetworkCreate, HandleNetworkDestroy,
         RegisterNetwork, AddReverseZones, RemoveReverseZones, Table
    <2> QED  BY <2>1, <2>2
  <1>2. CASE HandleContainerStart
    <2>1. Receive({"start"})
      BY <1>2 DEF HandleContainerStart
    <2>2. Head(stream).container \in Container \ {d}
      BY <1>b, <2>1
    <2>3. \/ UNCHANGED <<containers, table>>
          \/ /\ \E st : containers' = [containers EXCEPT ![Head(stream).container] = st]
             /\ \E f, pairs : table' = Upsert(table, f, pairs)
      BY <1>2 DEF HandleContainerStart
    <2>4. ASSUME NEW f, NEW pairs, table' = Upsert(table, f, pairs)
          PROVE  table.fwd \subseteq table'.fwd
      BY <1>a, <2>4 DEF Upsert, Table
    <2> QED  BY <1>a, <2>1, <2>2, <2>3, <2>4
  <1>3. CASE HandleContainerDie
    <2>1. Receive({"die"})
      BY <1>3 DEF HandleContainerDie
    <2>2. Head(stream).container \in Container \ {d}
      BY <1>b, <2>1
    <2>3. PICK pairs : /\ containers' = [containers EXCEPT ![Head(stream).container] = NotCached]
                       /\ \E f : table' = RemoveAddresses(table, f, pairs)
                       /\ RemovalHazard(pairs)
      BY <1>3 DEF HandleContainerDie
    <2>4. table'.fwd = table.fwd \ pairs
      BY <1>a, <2>3 DEF RemoveAddresses, Table
    <2> QED  BY <1>a, <1>c, <2>1, <2>2, <2>3, <2>4
  <1>4. CASE HandleNetworkDisconnect
    <2>1. Receive({"disconnect"})
      BY <1>4 DEF HandleNetworkDisconnect
    <2>2. Head(stream).container \in Container \ {d}
      BY <1>b, <2>1
    <2>3. PICK pairs :
             /\ \E st : containers' = [containers EXCEPT ![Head(stream).container] = st]
             /\ \E f : table' = RemoveAddresses(table, f, pairs)
             /\ RemovalHazard(pairs)
      BY <1>4 DEF HandleNetworkDisconnect
    <2>4. table'.fwd = table.fwd \ pairs
      BY <1>a, <2>3 DEF RemoveAddresses, Table
    <2> QED  BY <1>a, <1>c, <2>1, <2>2, <2>3, <2>4
  <1>5. CASE HandleNetworkConnect
    <2>1. Receive({"connect"})
      BY <1>5 DEF HandleNetworkConnect
    <2>2. Head(stream).container \in Container \ {d}
      BY <1>b, <2>1
    <2>3. CASE UNCHANGED <<containers, table>>
      BY <2>1, <2>3
    <2>4. CASE ~UNCHANGED <<containers, table>>
      <3>1. /\ \E st : containers' = [containers EXCEPT ![Head(stream).container] = st]
            /\ \/ UNCHANGED table
               \/ \E N, old, new :
                     /\ \E f : table' = Upsert(RemoveAddresses(table, f, N \X old), f, N \X new)
                     /\ RemovalHazard(N \X (old \ new))
        BY <1>5, <2>4 DEF HandleNetworkConnect
      <3>2. ASSUME NEW N, NEW old, NEW new, NEW f,
                   table' = Upsert(RemoveAddresses(table, f, N \X old), f, N \X new),
                   RemovalHazard(N \X (old \ new)), hazard' \cap Misled = {},
                   NEW p \in table.fwd, Claimed(containers', d, p)
            PROVE  p \in table'.fwd
        <4>1. table'.fwd = (table.fwd \ (N \X old)) \cup (N \X new)
          BY <1>a, <3>2, ReplaceForward
        <4>2. p \notin N \X (old \ new)
          BY <1>c, <3>2
        <4> QED  BY <4>1, <4>2
      <3> QED  BY <1>a, <2>1, <2>2, <3>1, <3>2
    <2> QED  BY <2>3, <2>4
  <1>6. CASE HandleContainerRename
    <2> DEFINE c == Head(stream).container
               old == Fqdn[Head(stream).old]
               new == Fqdn[Head(stream).new]
    <2>1. Receive({"rename"})
      BY <1>6 DEF HandleContainerRename
    <2>2. c \in Container \ {d}
      BY <1>b, <2>1
    <2>3. CASE UNCHANGED <<containers, table>>
      BY <2>1, <2>3
    <2>4. CASE ~UNCHANGED <<containers, table>>
      <3>1. /\ \E f : table' = Rename(table, f, old, new)
            /\ \/ UNCHANGED containers
               \/ \E N : containers' = [containers EXCEPT ![c].names = N]
            /\ "rename_clash" \notin hazard' =>
                   \A e \in Container \ {c} : old \notin containers[e].names
        BY <1>6, <2>4 DEF HandleContainerRename
      <3>2. containers'[d] = containers[d]
        BY <1>a, <2>2, <3>1
      <3>3. \A p \in table.fwd : p[1] # old => p \in table'.fwd
        BY <1>a, <3>1 DEF Rename, Table
      <3>4. hazard' \cap Misled = {} => old \notin containers[d].names
        BY <2>2, <3>1 DEF Misled
      <3> QED  BY <2>1, <3>2, <3>3, <3>4 DEF Claimed
    <2> QED  BY <2>3, <2>4
  <1>7. ~(StartListNetworks \/ StartListContainers \/ StartFails
             \/ \E n \in Network : StartRegisterNetwork(n))
    BY DEF StartListNetworks, StartListContainers, StartFails, StartRegisterNetwork
  <1> QED  BY <1>1, <1>2, <1>3, <1>4, <1>5, <1>6, <1>7 DEF MonitorNext, MonitorStep

\* Each handler leaves the cache correct or an event that will correct it.
LEMMA HandlerFollows ==
    ASSUME TypeOK, TypeOK', StreamCurrent, EmptyUnlessCached, MonitorNext, phase = "consume",
           NEW c \in Container, Follows(c)
    PROVE  Follows(c)'
  <1>1. hazard \subseteq hazard'
    BY HandlerMarks
  <1>2. CASE Head(stream).action \in {"start", "die", "rename", "connect", "disconnect"} =>
                 Head(stream).container # c
    <2>1. PICK A : Receive(A)
      BY <1>2, OthersKept
    <2>2. /\ containers'[c] = containers[c]
          /\ hazard' \cap Misled = {} =>
                 \A p \in table.fwd : Claimed(containers', c, p) => p \in table'.fwd
      BY <1>2, OthersKept
    <2> QED  BY <1>1, <1>2, <2>1, <2>2, OthersFollow
  <1>3. CASE /\ Head(stream).action \in {"start", "die", "rename", "connect", "disconnect"}
             /\ Head(stream).container = c
    <2>1. CASE HandleContainerStart
      BY <1>1, <1>3, <2>1, StartFollows
    <2>2. CASE HandleContainerDie
      BY <1>1, <1>3, <2>2, DieFollows
    <2>3. CASE HandleContainerRename
      BY <1>1, <1>3, <2>3, RenameFollows
    <2>4. CASE HandleNetworkConnect
      BY <1>1, <1>3, <2>4, ConnectFollows
    <2>5. CASE HandleNetworkDisconnect
      BY <1>1, <1>3, <2>5, DisconnectFollows
    <2>6. ~(HandleNetworkCreate \/ HandleNetworkDestroy \/ IgnoreEvent)
      BY <1>3 DEF HandleNetworkCreate, HandleNetworkDestroy, IgnoreEvent, Receive
    <2>7. ~(StartListNetworks \/ StartListContainers \/ StartFails
               \/ \E n \in Network : StartRegisterNetwork(n))
      BY DEF StartListNetworks, StartListContainers, StartFails, StartRegisterNetwork
    <2> QED
      BY <2>1, <2>2, <2>3, <2>4, <2>5, <2>6, <2>7 DEF MonitorNext, MonitorStep
  <1> QED  BY <1>2, <1>3

\* An entry that a handler leaves or makes absent has no addresses.
LEMMA HandlerEmpties ==
    ASSUME TypeOK, EmptyUnlessCached, MonitorNext, phase = "consume"
    PROVE  EmptyUnlessCached'
  <1>a. containers \in [Container -> ContainerState]
    BY DEF TypeOK, MonitorTypeOK
  <1>b. ASSUME NEW c \in Container, NEW st,
               st.cached \/ \A n \in Network : st.networks[n] = {},
               containers' = [containers EXCEPT ![c] = st]
        PROVE  EmptyUnlessCached'
    BY <1>a, <1>b DEF EmptyUnlessCached, CachedAddresses
  <1>c. ASSUME NEW A, Receive(A), A \subseteq {"start", "die", "rename", "connect", "disconnect"}
        PROVE  Head(stream).container \in Container
    BY <1>c, ReceivedEvent DEF Receive
  <1>d. ASSUME UNCHANGED containers PROVE EmptyUnlessCached'
    BY <1>d DEF EmptyUnlessCached
  <1>e. ASSUME NEW c \in Container PROVE AllNames(c, cname[c]) \in SUBSET DnsName
    BY <1>e, NamesType DEF TypeOK, DaemonTypeOK
  <1>1. CASE IgnoreEvent \/ HandleNetworkCreate \/ HandleNetworkDestroy
    BY <1>1, <1>d DEF IgnoreEvent, HandleNetworkCreate, HandleNetworkDestroy
  <1>2. CASE HandleContainerStart
    <2>1. PICK c \in Container : c = Head(stream).container
      BY <1>2, <1>c DEF HandleContainerStart
    <2>2. Registered(c, AllNames(c, cname[c])).cached
      BY <2>1, <1>e, RegisteredEntry
    <2> QED  BY <1>2, <1>b, <1>d, <2>1, <2>2 DEF HandleContainerStart
  <1>3. CASE HandleContainerDie
    <2>1. Head(stream).container \in Container
      BY <1>3, <1>c DEF HandleContainerDie
    <2>2. \A n \in Network : NotCached.networks[n] = {}
      BY DEF NotCached
    <2>3. containers' = [containers EXCEPT ![Head(stream).container] = NotCached]
      BY <1>3 DEF HandleContainerDie
    <2> QED  BY <1>b, <2>1, <2>2, <2>3
  <1>4. CASE HandleContainerRename
    <2>1. PICK c \in Container : c = Head(stream).container
      BY <1>4, <1>c DEF HandleContainerRename
    <2>2. \/ UNCHANGED containers
          \/ /\ containers[c].cached
             /\ \E N : containers' = [containers EXCEPT ![c].names = N]
      BY <1>4, <2>1 DEF HandleContainerRename
    <2>3. ASSUME NEW N, containers[c].cached, containers' = [containers EXCEPT ![c].names = N]
          PROVE  EmptyUnlessCached'
      <3>1. [containers[c] EXCEPT !.names = N].cached
        BY <1>a, <2>1, <2>3 DEF ContainerState
      <3> QED  BY <1>b, <2>1, <2>3, <3>1
    <2> QED  BY <1>d, <2>2, <2>3
  <1>5. CASE HandleNetworkConnect
    <2>1. PICK c \in Container : c = Head(stream).container
      BY <1>5, <1>c DEF HandleNetworkConnect
    <2>2. PICK st : st = Entry(c, AllNames(c, cname[c]))
      OBVIOUS
    <2>3. st \in ContainerState /\ st.cached
      BY <2>1, <2>2, <1>e, EntryForm
    <2>4. UNCHANGED containers
            \/ \E n, new : containers' = [containers EXCEPT ![c] = [st EXCEPT !.networks[n] = new]]
      BY <1>5, <2>1, <2>2 DEF HandleNetworkConnect
    <2>5. ASSUME NEW n, NEW new,
                 containers' = [containers EXCEPT ![c] = [st EXCEPT !.networks[n] = new]]
          PROVE  EmptyUnlessCached'
      <3>1. [st EXCEPT !.networks[n] = new].cached
        BY <2>3 DEF ContainerState
      <3> QED  BY <1>b, <2>1, <2>5, <3>1
    <2> QED  BY <1>d, <2>4, <2>5
  <1>6. CASE HandleNetworkDisconnect
    <2>1. PICK c \in Container : c = Head(stream).container
      BY <1>6, <1>c DEF HandleNetworkDisconnect
    <2>2. PICK n : containers' = [containers EXCEPT ![c].networks[n] = {}]
      BY <1>6, <2>1 DEF HandleNetworkDisconnect
    <2>3. /\ \A d \in Container : containers'[d].cached = containers[d].cached
          /\ \A d \in Container : \A m \in Network :
                 containers'[d].networks[m] \subseteq containers[d].networks[m]
      BY <1>a, <2>2 DEF ContainerState
    <2> QED  BY <2>3 DEF EmptyUnlessCached, CachedAddresses
  <1>7. ~(StartListNetworks \/ StartListContainers \/ StartFails
             \/ \E n \in Network : StartRegisterNetwork(n))
    BY DEF StartListNetworks, StartListContainers, StartFails, StartRegisterNetwork
  <1> QED  BY <1>1, <1>2, <1>3, <1>4, <1>5, <1>6, <1>7 DEF MonitorNext, MonitorStep

\* A missed event is forgotten by the listing that makes up for it, and by
\* nothing else.
LEMMA MissedContainerStays ==
    ASSUME MonitorNext, phase = "consume", "missed_container" \notin hazard'
    PROVE  "missed_container" \notin hazard
  BY HandlerMarks

\* Each step of the monitor keeps CatchUpInv.
LEMMA MonitorFollows ==
    ASSUME TypeOK, TypeOK', CacheInv, CatchUpInv, MonitorNext PROVE CatchUpInv'
  <1>1. StreamCurrent /\ EmptyUnlessCached /\ CacheFollows
    BY DEF CatchUpInv, EmptyUnlessCached
  <1>2. StreamCurrent'
    BY <1>1, StreamCurrentNext DEF Next
  <1>3. CASE StartListNetworks \/ StartFails \/ \E n \in Network : StartRegisterNetwork(n)
    <2>1. UNCHANGED containers /\ phase' # "consume"
      BY <1>3 DEF StartListNetworks, StartFails, StartRegisterNetwork
    <2> QED  BY <1>2, <1>1, <2>1 DEF CatchUpInv, EmptyUnlessCached, CacheFollows
  <1>4. CASE StartListContainers
    <2>1. \A c \in Container : /\ Follows(c)'
                               /\ ~containers'[c].cached => CachedAddresses(containers'[c]) = {}
      BY <1>1, <1>4, ListingFollows
    <2> QED  BY <1>2, <2>1 DEF CatchUpInv, CacheFollows, Follows, Misled
  <1>5. CASE phase = "consume"
    <2>1. ASSUME "missed_container" \notin hazard', NEW c \in Container
          PROVE  Follows(c)'
      <3>1. Follows(c)
        BY <1>1, <1>5, <2>1, MissedContainerStays, CacheFollowsParts
      <3> QED  BY <1>1, <1>5, <3>1, HandlerFollows
    <2>2. EmptyUnlessCached'
      BY <1>1, <1>5, HandlerEmpties
    <2> QED  BY <1>2, <2>1, <2>2 DEF CatchUpInv, EmptyUnlessCached, CacheFollows, Follows, Misled
  <1>6. phase = "consume" \/ StartListNetworks \/ StartFails \/ StartListContainers
            \/ \E n \in Network : StartRegisterNetwork(n)
    BY DEF MonitorNext, MonitorStep, HandleContainerStart, HandleContainerRename,
       HandleContainerDie, HandleNetworkConnect, HandleNetworkDisconnect,
       HandleNetworkCreate, HandleNetworkDestroy, IgnoreEvent, Receive
  <1> QED  BY <1>3, <1>4, <1>5, <1>6
-----------------------------------------------------------------------------
\* Whatever order the events of a container come in, and however far the daemon
\* is ahead: where the cache differs from the daemon, an event that will
\* correct it is still in the stream.
THEOREM CatchUpInvariant == Spec => []CatchUpInv
  <1> DEFINE Inv == CacheInv /\ CatchUpInv
  <1>1. Init => Inv
    <2> SUFFICES ASSUME Init PROVE Inv
      OBVIOUS
    <2>1. /\ stream = <<>> /\ phase = "boot"
          /\ \A c \in Container : containers[c] = NotCached
          /\ \A c \in Container : status[c] # "removed"
      BY DEF Init, DaemonInit, MonitorInit
    <2>2. StreamCurrent
      BY <2>1 DEF StreamCurrent, RenamesChain, RenamesOf, Followed
    <2>3. \A c \in Container : /\ containers[c].names = {}
                               /\ CachedAddresses(containers[c]) = {}
                               /\ ~containers[c].cached
      BY <2>1 DEF NotCached, CachedAddresses
    <2> QED  BY <2>1, <2>2, <2>3 DEF CacheInv, CatchUpInv, CacheFollows
  <1>2. TypeOK /\ TypeOK' /\ Inv /\ [Next]_vars => Inv'
    <2> SUFFICES ASSUME TypeOK, TypeOK', Inv, [Next]_vars PROVE Inv'
      OBVIOUS
    <2>1. CASE DaemonNext /\ UNCHANGED monitorVars
      <3>1. UNCHANGED <<phase, containers>>
        BY <2>1 DEF monitorVars
      <3>2. hazard \subseteq hazard'
        BY <2>1, DaemonSteps DEF Subscribe, NetworkCreate, NetworkDestroy, Emit
      <3>3. StreamCurrent'
        BY StreamCurrentNext DEF CatchUpInv
      <3>4. ASSUME phase = "consume", "missed_container" \notin hazard', NEW c \in Container
            PROVE  Follows(c)'
        <4>1. Follows(c)
          BY <3>2, <3>4, CacheFollowsParts DEF CatchUpInv
        <4> QED  BY <2>1, <3>4, <4>1, DaemonFollows
      <3> QED  BY <3>1, <3>3, <3>4 DEF CacheInv, CatchUpInv, CacheFollows, Follows, Misled
    <2>2. CASE MonitorNext
      BY <2>2, MonitorCache, MonitorFollows
    <2>3. CASE UNCHANGED vars
      <3>1. StreamCurrent'
        BY StreamCurrentNext DEF CatchUpInv
      <3>2. UNCHANGED <<status, cname, att, stream, hazard, phase, containers, table>>
        BY <2>3 DEF vars, monitorVars, daemonVars, daemonState, streamState
      <3>3. CacheInv'
        BY <3>2 DEF CacheInv
      <3>4. ASSUME NEW c \in Container, Follows(c) PROVE Follows(c)'
        <4>1. RenamesOf(c)' = RenamesOf(c) /\ OwnNames(c)' = OwnNames(c)
          BY <3>2 DEF OwnNames, RenamesOf
        <4>2. \A e : InStream(e)' <=> InStream(e)
          BY <3>2 DEF InStream
        <4>3. AddressesFollow(c) => AddressesFollow(c)'
          BY <3>2, <4>2 DEF AddressesFollow
        <4>4. NamesFollow(c) => NamesFollow(c)'
          BY <3>2, <4>1 DEF NamesFollow, AllNames
        <4>5. AddressesArrive(c) => AddressesArrive(c)'
          BY <3>2, <4>2 DEF AddressesArrive
        <4>6. OwnNamePublished(c) => OwnNamePublished(c)'
          BY <3>2, <4>1 DEF OwnNamePublished
        <4> QED  BY <3>2, <3>4, <4>3, <4>4, <4>5, <4>6 DEF Follows
      <3>5. CacheFollows => CacheFollows'
        BY <3>2, <3>4 DEF CacheFollows, Follows, Misled
      <3> QED  BY <3>1, <3>2, <3>3, <3>5 DEF CatchUpInv
    <2> QED  BY <2>1, <2>2, <2>3 DEF Next
  <1>3. Inv => CatchUpInv
    OBVIOUS
  <1> QED  BY <1>1, <1>2, <1>3, TypeCorrect, PTL DEF Spec

\* What the invariant comes to when the stream is empty.
LEMMA IdleFollows ==
    ASSUME Idle, CatchUpInv, "missed_container" \notin hazard, NEW c \in Container
    PROVE  /\ \A n \in Network : containers[c].networks[n] \subseteq att[c][n]
           /\ status[c] = "exited" => CachedAddresses(containers[c]) = {}
           /\ status[c] = "removed" => \A n \in Network : att[c][n] = {}
           /\ "rename_refused" \notin hazard /\ containers[c].cached =>
                  /\ containers[c].names \subseteq AllNames(c, cname[c])
                  /\ "compose_omitted" \in hazard \/ AllNames(c, cname[c]) \subseteq containers[c].names
           /\ hazard \cap {"inspect_failed", "paused_skipped"} = {} /\ status[c] = "running" =>
                  \A n \in Network : att[c][n] \subseteq containers[c].networks[n]
           /\ hazard \cap Misled = {} /\ containers[c].cached /\ Fqdn[cname[c]] # BadName =>
                  {Fqdn[cname[c]]} \X CachedAddresses(containers[c]) \subseteq table.fwd
  <1>1. Follows(c)
    BY CacheFollowsParts DEF Idle, CatchUpInv
  <1>2. RenamesOf(c) = {} /\ \A e : ~InStream(e)
    BY DEF Idle, RenamesOf, InStream
  <1>3. OwnNames(c) = {Fqdn[cname[c]]}
    BY <1>2 DEF OwnNames
  <1>4. EventsCurrent(c)
    BY StreamCurrentParts DEF CatchUpInv
  <1>5. AddressesFollow(c)
    BY <1>1 DEF Follows
  <1>6. /\ \A n \in Network : containers[c].networks[n] \subseteq att[c][n]
        /\ status[c] = "exited" => CachedAddresses(containers[c]) = {}
    BY <1>2, <1>5 DEF AddressesFollow
  <1>7. status[c] = "removed" => \A n \in Network : att[c][n] = {}
    BY <1>4 DEF EventsCurrent, Attached
  <1>8. "rename_refused" \notin hazard /\ containers[c].cached =>
            /\ containers[c].names \subseteq AllNames(c, cname[c])
            /\ "compose_omitted" \in hazard \/ AllNames(c, cname[c]) \subseteq containers[c].names
    BY <1>1, <1>2 DEF Follows, NamesFollow
  <1>9. hazard \cap {"inspect_failed", "paused_skipped"} = {} /\ status[c] = "running" =>
            \A n \in Network : att[c][n] \subseteq containers[c].networks[n]
    BY <1>1, <1>2 DEF Follows, AddressesArrive
  <1>10. hazard \cap Misled = {} /\ containers[c].cached /\ Fqdn[cname[c]] # BadName =>
             {Fqdn[cname[c]]} \X CachedAddresses(containers[c]) \subseteq table.fwd
    BY <1>1, <1>3 DEF Follows, OwnNamePublished
  <1> QED  BY <1>6, <1>7, <1>8, <1>9, <1>10

\* Caught up, the monitor publishes nothing out of date: the cache entry that
\* owns a record agrees with the daemon by then.
THEOREM SoundHolds == Spec => []Sound
  <1>1. TypeOK /\ CatchUpInv /\ RecordsOwned => Sound
    <2> SUFFICES ASSUME TypeOK, CatchUpInv, RecordsOwned, Idle,
                        hazard \subseteq Harmless \cup {"inspect_failed", "paused_skipped", "claim_lost"},
                        NEW p \in table.fwd
                 PROVE  \E c \in Container :
                            /\ status[c] \in {"created", "running"}
                            /\ p \in AllNames(c, cname[c]) \X Addresses(c)
      BY DEF Sound, RecordsCurrent
    <2>1. /\ "missed_container" \notin hazard /\ "rename_refused" \notin hazard
          /\ hazard \cap {"rename_clash", "rename_stale", "overwritten"} = {}
      BY DEF Harmless
    <2>2. PICK c \in Container : p \in Claims(c)
      BY <2>1 DEF RecordsOwned
    <2>3. p[1] \in containers[c].names /\ p[2] \in CachedAddresses(containers[c]) /\ p = <<p[1], p[2]>>
      BY <2>2 DEF Claims
    <2>4. containers[c].cached
      BY <2>3 DEF CatchUpInv
    <2>5. p[1] \in AllNames(c, cname[c])
      BY <2>1, <2>3, <2>4, IdleFollows
    <2>6. PICK n \in Network : p[2] \in containers[c].networks[n]
      BY <2>3 DEF CachedAddresses
    <2>7. p[2] \in att[c][n]
      BY <2>1, <2>6, IdleFollows
    <2>8. status[c] \in {"created", "running", "exited", "removed"}
      BY DEF TypeOK, DaemonTypeOK
    <2>9. status[c] # "exited" /\ status[c] # "removed"
      <3>1. status[c] = "exited" => CachedAddresses(containers[c]) = {}
        BY <2>1, IdleFollows
      <3>2. status[c] = "removed" => att[c][n] = {}
        BY <2>1, IdleFollows
      <3> QED  BY <2>3, <2>7, <3>1, <3>2
    <2>10. p[2] \in Addresses(c)
      BY <2>7 DEF Addresses
    <2> QED  BY <2>3, <2>5, <2>8, <2>9, <2>10
  <1> QED  BY <1>1, TypeCorrect, CatchUpInvariant, RecordsOwnedHolds, PTL

\* Caught up, every running container is found by its names at all of its
\* addresses: the entry has those names and addresses, and what it stands for
\* is published.
THEOREM CompleteHolds == Spec => []Complete
  <1>1. CatchUpInv /\ ClaimsPublished => Complete
    <2> SUFFICES ASSUME CatchUpInv, ClaimsPublished, Idle, hazard \subseteq Harmless,
                        NEW c \in Container, status[c] = "running",
                        NEW p \in Reaches(c)
                 PROVE  p \in table.fwd
      BY DEF Complete
    <2>1. /\ "missed_container" \notin hazard /\ "rename_refused" \notin hazard
          /\ hazard \cap {"inspect_failed", "paused_skipped"} = {}
          /\ hazard \cap Misled = {} /\ "rename_clash" \notin hazard /\ "claim_lost" \notin hazard
      BY DEF Harmless, Misled
    <2>2. p = <<p[1], p[2]>> /\ p[2] \in Addresses(c)
      BY DEF Reaches
    <2>3. p[2] \in CachedAddresses(containers[c])
      <3>1. PICK n \in Network : p[2] \in att[c][n]
        BY <2>2 DEF Addresses
      <3>2. p[2] \in containers[c].networks[n]
        BY <2>1, <3>1, IdleFollows
      <3> QED  BY <3>2 DEF CachedAddresses
    <2>4. containers[c].cached
      BY <2>3 DEF CatchUpInv
    <2>5. CASE hazard \cap {"compose_omitted", "rename_unfounded"} # {}
      <3>1. p[1] = Fqdn[cname[c]] /\ Fqdn[cname[c]] # BadName
        BY <2>5 DEF Reaches, FullNames
      <3>2. {Fqdn[cname[c]]} \X CachedAddresses(containers[c]) \subseteq table.fwd
        BY <2>1, <2>4, <3>1, IdleFollows
      <3> QED  BY <2>2, <2>3, <3>1, <3>2
    <2>6. CASE hazard \cap {"compose_omitted", "rename_unfounded"} = {}
      <3>1. p[1] \in AllNames(c, cname[c])
        BY <2>6 DEF Reaches
      <3>2. p[1] \in containers[c].names
        BY <2>1, <2>4, <2>6, <3>1, IdleFollows
      <3>3. p \in Claims(c)
        BY <2>2, <2>3, <3>2 DEF Claims
      <3> QED  BY <2>1, <2>6, <3>3 DEF ClaimsPublished
    <2> QED  BY <2>5, <2>6
  <1> QED  BY <1>1, CatchUpInvariant, ClaimsPublishedHolds, PTL
=============================================================================
