------------------------- MODULE WaylandThread_proofs -------------------------
(* Proofs about WaylandThread, for a channel of any capacity and any number of *)
(* events and commands.                                                        *)
EXTENDS WaylandThread, SequenceFacts, FiniteSetTheorems, TLAPS

Early == {"start", "globals", "oldEvents"}

Message == [type : {"global"}, of : {"seat", "manager"}]
           \cup {Sync}
           \cup [type : {"event"}, n : 1 .. MaxEvents]

\* What may be on the wire: the globals before their sync, the events that
\* describe the old windows before theirs, then events only.
WireShape ==
    /\ wire \in Seq(Message)
    /\ main = "start" => wire = <<>> /\ sent = 0
    /\ main = "globals" =>
        /\ sent = 0 /\ wire # <<>>
        /\ \A i \in 1 .. Len(wire) - 1 : wire[i].type = "global"
        /\ wire[Len(wire)] = Sync
    /\ main = "oldEvents" =>
        /\ wire # <<>>
        /\ \A i \in 1 .. Len(wire) - 1 : wire[i].type = "event"
        /\ wire[Len(wire)] = Sync
    /\ main \notin Early => \A i \in DOMAIN wire : wire[i].type = "event"

\* Before the thread runs there is nothing but the wire and the globals.
NotStarted ==
    /\ main \in Early =>
        /\ thread = "none" /\ batch = 0 /\ ~lost /\ running
        /\ cmds = <<>> /\ asked = 0 /\ executed = 0
    /\ main \notin Early => thread # "none"

\* The thread ends for one of two reasons, and is joined only when it has ended.
EndOfThread ==
    /\ thread = "exited" => lost \/ ~running
    /\ main = "done" => thread = "exited"

HasQuit == cmds # <<>> /\ cmds[Len(cmds)] = "quit"

\* Quit is the last command; until the thread has met it, it is in the channel.
QuitIsLast ==
    /\ \A i \in DOMAIN cmds : cmds[i] = "quit" => i = Len(cmds)
    /\ HasQuit => main \in {"joining", "done"}
    /\ ~running => cmds = <<>> /\ main \in {"joining", "done"}
    /\ main \in {"joining", "done"} /\ running => HasQuit \/ lost

\* The commands of the user that are still in the channel
Waiting == IF HasQuit THEN Len(cmds) - 1 ELSE Len(cmds)

\* No command is executed twice, and with a seat none is dropped.
CommandsCounted ==
    /\ executed + Waiting <= asked
    /\ main \notin Early /\ ~lost /\ moduleSeat => executed + Waiting = asked

IInv ==
    /\ TypeOK /\ WireShape /\ NotStarted /\ EndOfThread
    /\ EventsInOrder /\ SeatReachesModule
    /\ QuitIsLast /\ CommandsCounted

-----------------------------------------------------------------------------
(* The initial state *)

LEMMA InitIInv == Init => IInv
<1> SUFFICES ASSUME Init PROVE IInv
  OBVIOUS
<1> USE CapAssumption, EventsAssumption, CmdsAssumption DEF Init
<1>1. TypeOK
  <2>1. sources \in SeqOf({"wayland", "commands"}, 2)
    <3>1. <<>> \in Seq({"wayland", "commands"}) /\ Len(<<>>) <= 2
      BY EmptySeq
    <3>2. <<>> \in SeqOf({"wayland", "commands"}, 2)
      BY <3>1, SeqOfMeans
    <3> QED BY <3>2
  <2>2. /\ batch \in 0 .. Len(wire) /\ Len(chan) <= Cap
        /\ sent \in 0 .. MaxEvents /\ asked \in 0 .. MaxCmds /\ executed \in 0 .. asked
    BY EmptySeq
  <2>3. /\ chan \in Seq(1 .. MaxEvents) /\ received \in Seq(1 .. MaxEvents)
        /\ cmds \in Seq({"close", "focus", "quit"})
    BY EmptySeq
  <2> QED BY <2>1, <2>2, <2>3 DEF TypeOK
<1>2. WireShape /\ NotStarted /\ EndOfThread
  BY EmptySeq DEF WireShape, NotStarted, EndOfThread, Early
<1>3. EventsInOrder /\ SeatReachesModule
  BY DEF EventsInOrder, SeatReachesModule
<1>4. QuitIsLast /\ CommandsCounted
  BY DEF QuitIsLast, CommandsCounted, HasQuit, Waiting, Early
<1> QED BY <1>1, <1>2, <1>3, <1>4 DEF IInv

-----------------------------------------------------------------------------
(* The steps.  First what IInv says of the wire and of the channels. *)

LEMMA Basics ==
    ASSUME IInv
    PROVE  /\ wire \in Seq(Message) /\ Len(wire) \in Nat /\ DOMAIN wire = 1 .. Len(wire)
           /\ chan \in Seq(1 .. MaxEvents) /\ Len(chan) \in Nat /\ DOMAIN chan = 1 .. Len(chan)
           /\ received \in Seq(1 .. MaxEvents) /\ Len(received) \in Nat
           /\ DOMAIN received = 1 .. Len(received)
           /\ cmds \in Seq({"close", "focus", "quit"}) /\ Len(cmds) \in Nat
           /\ DOMAIN cmds = 1 .. Len(cmds)
           /\ sent \in Nat /\ batch \in 0 .. Len(wire)
           /\ \A i \in 1 .. Len(wire) : wire[i] \in Message
<1>1. wire \in Seq(Message)
  BY DEF IInv, WireShape
<1>2. /\ chan \in Seq(1 .. MaxEvents) /\ received \in Seq(1 .. MaxEvents)
      /\ cmds \in Seq({"close", "focus", "quit"})
      /\ sent \in Nat /\ batch \in 0 .. Len(wire)
  BY EventsAssumption DEF IInv, TypeOK
<1>3. Len(wire) \in Nat /\ DOMAIN wire = 1 .. Len(wire) /\ \A i \in 1 .. Len(wire) : wire[i] \in Message
  BY <1>1, LenProperties, ElementOfSeq
<1>4. /\ Len(chan) \in Nat /\ DOMAIN chan = 1 .. Len(chan)
      /\ Len(received) \in Nat /\ DOMAIN received = 1 .. Len(received)
      /\ Len(cmds) \in Nat /\ DOMAIN cmds = 1 .. Len(cmds)
  BY <1>2, LenProperties
<1> QED BY <1>1, <1>2, <1>3, <1>4

LEMMA MessageKinds ==
    /\ \A g \in {"seat", "manager"} :
         Global(g) \in Message /\ Global(g).type = "global" /\ Global(g).of = g
    /\ Sync \in Message /\ Sync.type = "sync"
    /\ \A n \in 1 .. MaxEvents : Evt(n) \in Message /\ Evt(n).type = "event" /\ Evt(n).n = n
BY DEF Message, Global, Sync, Evt

LEMMA MessageTypes ==
    ASSUME NEW m \in Message
    PROVE  /\ m.type \in {"global", "sync", "event"}
           /\ m.type = "global" => m.of \in {"seat", "manager"}
           /\ m.type = "event" => m.n \in 1 .. MaxEvents
BY DEF Message, Sync

\* What a step leaves alone when it touches neither the wire nor the channel of
\* events nor the set-up.
LEMMA WireUntouched ==
    ASSUME IInv,
           UNCHANGED <<wire, sent, chan, received, seat, module, moduleSeat>>,
           main' = main \/ (main \notin Early /\ main' \notin Early)
    PROVE  WireShape' /\ EventsInOrder' /\ SeatReachesModule'
<1>1. WireShape'
  BY DEF IInv, WireShape, Early
<1>2. EventsInOrder' /\ SeatReachesModule'
  BY DEF IInv, EventsInOrder, SeatReachesModule
<1> QED BY <1>1, <1>2

\* A message is dispatched, by whichever thread.
LEMMA DispatchOneLemma ==
    ASSUME IInv, DispatchOne, UNCHANGED <<main, sent, received>>
    PROVE  /\ WireShape' /\ EventsInOrder' /\ SeatReachesModule'
           /\ chan' \in Seq(1 .. MaxEvents) /\ Len(chan)' <= Cap
           /\ seat' \in BOOLEAN /\ module' \in BOOLEAN /\ moduleSeat' \in BOOLEAN
           /\ Len(wire)' = Len(wire) - 1
           /\ main \notin Early => UNCHANGED <<seat, module, moduleSeat>>
<1> DEFINE m == Head(wire)
<1>1. /\ wire # <<>> /\ wire' = Tail(wire)
      /\ \/ m.type = "global" /\ HandleGlobal(m.of)
         \/ m.type = "event" /\ HandleEvent(m.n)
  BY DEF DispatchOne
<1>2. /\ Len(wire) \in Nat \ {0} /\ DOMAIN wire = 1 .. Len(wire)
      /\ m = wire[1] /\ m \in Message
      /\ wire' \in Seq(Message) /\ Len(wire') = Len(wire) - 1
      /\ DOMAIN wire' = 1 .. Len(wire) - 1
      /\ \A i \in 1 .. Len(wire) - 1 : wire'[i] = wire[i + 1]
  BY <1>1, Basics, TailFacts
<1> HIDE DEF m
<1>3. m.type # "sync"
  BY <1>1
<1>4. WireShape'
  <2>1. CASE main \in {"globals", "oldEvents"}
    <3>1. wire[Len(wire)] = Sync
      BY <2>1 DEF IInv, WireShape
    <3>2. Len(wire) # 1
      BY <1>2, <1>3, <3>1, MessageKinds
    <3>3. wire' # <<>> /\ wire'[Len(wire')] = Sync
      BY <1>2, <3>1, <3>2
    <3>4. \A i \in 1 .. Len(wire') - 1 : wire'[i] = wire[i + 1] /\ i + 1 \in 1 .. Len(wire) - 1
      BY <1>2
    <3> QED BY <2>1, <3>3, <3>4, <1>2 DEF IInv, WireShape, Early
  <2>2. CASE main \notin Early
    <3>1. \A i \in DOMAIN wire' : wire'[i] = wire[i + 1] /\ i + 1 \in DOMAIN wire
      BY <1>2
    <3> QED BY <2>2, <3>1, <1>2 DEF IInv, WireShape, Early
  <2>3. main # "start"
    BY <1>1 DEF IInv, WireShape
  <2> QED BY <2>1, <2>2, <2>3 DEF Early
<1>5. CASE m.type = "global" /\ HandleGlobal(m.of)
  <2>1. main = "globals"
    <3>1. main # "start"
      BY <1>1 DEF IInv, WireShape
    <3>2. main \notin Early => wire[1].type = "event"
      BY <1>2 DEF IInv, WireShape
    <3>3. main = "oldEvents" => wire[1].type # "global"
      BY <1>2, MessageKinds DEF IInv, WireShape
    <3> QED BY <1>2, <1>5, <3>1, <3>2, <3>3 DEF Early
  <2>2. EventsInOrder'
    <3>1. sent = 0 /\ Len(received) = 0 /\ Len(chan) = 0
      BY <2>1, Basics DEF IInv, WireShape, EventsInOrder
    <3>2. \A i \in DOMAIN wire' : ~IsEvent(wire'[i])
      <4>1. \A i \in DOMAIN wire : ~IsEvent(wire[i])
        BY <3>1, Basics DEF IInv, EventsInOrder
      <4> QED BY <4>1, <1>2
    <3> QED BY <1>2, <1>5, <3>1, <3>2, Basics DEF IInv, EventsInOrder, HandleGlobal
  <2>3. m.of \in {"seat", "manager"}
    BY <1>2, <1>5, MessageTypes
  <2>4. SeatReachesModule' /\ seat' \in BOOLEAN /\ module' \in BOOLEAN /\ moduleSeat' \in BOOLEAN
    BY <1>5, <2>3 DEF IInv, TypeOK, SeatReachesModule, HandleGlobal
  <2> QED BY <1>2, <1>4, <1>5, <2>1, <2>2, <2>4 DEF HandleGlobal, Early, IInv, TypeOK
<1>6. CASE m.type = "event" /\ HandleEvent(m.n)
  <2> DEFINE passed == Len(received) + Len(chan)
  <2>1. m.n \in 1 .. MaxEvents
    BY <1>2, <1>6, MessageTypes
  <2>2. /\ Len(chan') = Len(chan) + 1 /\ chan' \in Seq(1 .. MaxEvents)
        /\ DOMAIN chan' = 1 .. Len(chan) + 1 /\ chan'[Len(chan) + 1] = m.n
        /\ \A i \in 1 .. Len(chan) : chan'[i] = chan[i]
    BY <1>6, <2>1, Basics, AppendFacts DEF HandleEvent
  <2>3. 1 <= sent - passed /\ m.n = passed + 1
    <3>1. 1 \in DOMAIN wire /\ IsEvent(wire[1])
      BY <1>2, <1>6 DEF IsEvent
    <3>2. 1 <= sent - passed /\ wire[1] = Evt(passed + 1)
      BY <3>1 DEF IInv, EventsInOrder
    <3> QED BY <1>2, <3>2 DEF Evt
  <2>4. EventsInOrder'
    <3>1. passed' = passed + 1 /\ passed \in Nat
      BY <2>2, Basics
    <3>2. \A i \in DOMAIN chan' : chan'[i] = Len(received') + i
      <4>1. ASSUME NEW i \in 1 .. Len(chan) PROVE chan'[i] = Len(received') + i
        BY <2>2, Basics DEF IInv, EventsInOrder
      <4>2. chan'[Len(chan) + 1] = Len(received') + (Len(chan) + 1)
        BY <2>2, <2>3, Basics
      <4>3. \A i \in DOMAIN chan' : i \in 1 .. Len(chan) \/ i = Len(chan) + 1
        BY <2>2, Basics
      <4> QED BY <4>1, <4>2, <4>3
    <3>3. passed' <= sent' /\ sent' <= passed' + Len(wire')
      BY <3>1, <2>3, <1>2, Basics DEF IInv, EventsInOrder
    <3>4. ASSUME NEW i \in DOMAIN wire'
          PROVE  IF i <= sent' - passed' THEN wire'[i] = Evt(passed' + i) ELSE ~IsEvent(wire'[i])
      <4>1. i + 1 \in DOMAIN wire /\ wire'[i] = wire[i + 1]
        BY <1>2
      <4>2. IF i + 1 <= sent - passed THEN wire[i + 1] = Evt(passed + (i + 1))
                                      ELSE ~IsEvent(wire[i + 1])
        BY <4>1 DEF IInv, EventsInOrder
      <4>3. (i <= sent' - passed' <=> i + 1 <= sent - passed) /\ passed' + i = passed + (i + 1)
        BY <3>1, <1>2, Basics
      <4> QED BY <4>1, <4>2, <4>3
    <3>5. \A i \in DOMAIN received' : received'[i] = i
      BY DEF IInv, EventsInOrder
    <3> QED BY <3>2, <3>3, <3>4, <3>5 DEF EventsInOrder
  <2>5. Len(chan') <= Cap
    BY <1>6, <2>2, Basics, CapAssumption DEF HandleEvent, HasRoom
  <2>6. UNCHANGED <<seat, module, moduleSeat>> /\ SeatReachesModule'
    BY <1>6 DEF HandleEvent, connvars, IInv, SeatReachesModule
  <2> QED BY <1>2, <1>4, <2>2, <2>4, <2>5, <2>6 DEF IInv, TypeOK
<1> QED BY <1>1, <1>5, <1>6

\* What is left to show when a step touches neither the wire nor what has come
\* from it.
LEMMA StepOffWire ==
    ASSUME IInv,
           UNCHANGED <<wire, sent, chan, received, seat, module, moduleSeat>>,
           main' = main \/ (main \notin Early /\ main' \in {"joining", "done"}),
           thread' \in {"none", "top", "serving", "exited"},
           sources' \in SeqOf({"wayland", "commands"}, 2),
           batch' \in 0 .. Len(wire),
           running' \in BOOLEAN, lost' \in BOOLEAN,
           cmds' \in Seq({"close", "focus", "quit"}),
           asked' \in 0 .. MaxCmds, executed' \in 0 .. asked',
           NotStarted', EndOfThread', QuitIsLast', CommandsCounted'
    PROVE  IInv'
<1>1. WireShape' /\ EventsInOrder' /\ SeatReachesModule'
  <2>1. main' = main \/ (main \notin Early /\ main' \notin Early)
    BY DEF Early
  <2> QED BY <2>1, WireUntouched
<1>2. TypeOK'
  BY DEF IInv, TypeOK
<1> QED BY <1>1, <1>2 DEF IInv

\* Nothing that concerns the thread or its commands changes.
LEMMA ThreadUntouched ==
    ASSUME IInv, UNCHANGED <<loopvars, lost, cmdvars>>,
           main' = main \/ (main \in Early /\ main' \in Early)
    PROVE  /\ NotStarted' /\ EndOfThread' /\ QuitIsLast'
           /\ (main' = main \/ main' \in Early) /\ UNCHANGED moduleSeat => CommandsCounted'
<1>1. UNCHANGED <<thread, sources, batch, running, lost, cmds, asked, executed>>
  BY DEF loopvars, cmdvars
<1>2. NotStarted' /\ EndOfThread'
  BY <1>1 DEF IInv, NotStarted, EndOfThread, Early
<1>3. QuitIsLast'
  BY <1>1 DEF IInv, QuitIsLast, HasQuit, NotStarted, Early
<1>4. (main' = main \/ main' \in Early) /\ UNCHANGED moduleSeat => CommandsCounted'
  BY <1>1 DEF IInv, CommandsCounted, Waiting, HasQuit
<1> QED BY <1>2, <1>3, <1>4

LEMMA ConnectStep == ASSUME IInv, Connect PROVE IInv'
<1>1. PICK order \in GlobalOrders :
        wire' = wire \o [i \in DOMAIN order |-> Global(order[i])] \o <<Sync>>
  BY DEF Connect, Answer
<1>2. /\ main = "start" /\ main' = "globals"
      /\ UNCHANGED <<thread, sources, batch, running, seat, module, moduleSeat, sent, lost, chan,
                     received, cmds, asked, executed>>
  BY DEF Connect, loopvars, connvars, cmdvars
<1>3. wire = <<>> /\ sent = 0 /\ batch = 0
  BY <1>2, EmptySeq DEF IInv, WireShape, TypeOK
<1> DEFINE globals == [i \in DOMAIN order |-> Global(order[i])]
<1>4. order \in Seq({"seat", "manager"})
  <2>1. \A a, b \in {"seat", "manager"} :
          /\ <<>> \in Seq({"seat", "manager"})
          /\ <<a>> \in Seq({"seat", "manager"})
          /\ <<a, b>> \in Seq({"seat", "manager"})
    OBVIOUS
  <2> QED BY <2>1 DEF GlobalOrders
<1>5. Len(order) \in Nat /\ DOMAIN order = 1 .. Len(order)
      /\ \A i \in 1 .. Len(order) : order[i] \in {"seat", "manager"}
  BY <1>4, LenProperties, ElementOfSeq
<1>6. /\ globals \in Seq(Message) /\ Len(globals) = Len(order)
      /\ \A i \in 1 .. Len(order) : globals[i] = Global(order[i])
  <2>1. globals \in [1 .. Len(order) -> Message]
    BY <1>5, MessageKinds
  <2>2. globals \in Seq(Message)
    BY <2>1, <1>5, SeqDef
  <2> QED BY <2>1, <2>2, <1>5, LenProperties, IntervalSize
<1> HIDE DEF globals
<1>7. wire' = Append(globals, Sync)
  <2>1. wire' = globals \o <<Sync>>
    BY <1>1, <1>3, <1>6, ConcatEmptySeq DEF globals
  <2> QED BY <2>1, <1>6, MessageKinds, AppendIsConcat
<1>8. /\ wire' \in Seq(Message) /\ wire' # <<>> /\ Len(wire') = Len(order) + 1
      /\ DOMAIN wire' = 1 .. Len(order) + 1
      /\ \A i \in 1 .. Len(order) : wire'[i] = Global(order[i])
      /\ wire'[Len(order) + 1] = Sync
  BY <1>6, <1>7, MessageKinds, AppendFacts
<1>9. WireShape'
  BY <1>2, <1>3, <1>5, <1>8, MessageKinds DEF WireShape, Early
<1>10. EventsInOrder'
  <2>1. Len(received) = 0 /\ Len(chan) = 0
    BY <1>3, Basics DEF IInv, EventsInOrder
  <2>2. \A i \in DOMAIN wire' : ~IsEvent(wire'[i])
    BY <1>5, <1>8, MessageKinds DEF IsEvent
  <2> QED BY <1>2, <1>3, <1>5, <1>8, <2>1, <2>2, Basics DEF IInv, EventsInOrder
<1>11. NotStarted' /\ EndOfThread' /\ QuitIsLast' /\ CommandsCounted'
  BY <1>2, ThreadUntouched DEF loopvars, cmdvars, Early
<1>12. TypeOK' /\ SeatReachesModule'
  BY <1>2, <1>3, <1>5, <1>8 DEF IInv, TypeOK, SeatReachesModule
<1> QED BY <1>9, <1>10, <1>11, <1>12 DEF IInv

LEMMA RoundtripDispatchStep == ASSUME IInv, RoundtripDispatch PROVE IInv'
<1>1. DispatchOne /\ main \in Early
      /\ UNCHANGED <<main, thread, sources, batch, running, sent, lost, received, cmds, asked,
                     executed>>
  BY DEF RoundtripDispatch, mainvars, loopvars, cmdvars, Early
<1>2. /\ WireShape' /\ EventsInOrder' /\ SeatReachesModule'
      /\ chan' \in Seq(1 .. MaxEvents) /\ Len(chan)' <= Cap
      /\ seat' \in BOOLEAN /\ module' \in BOOLEAN /\ moduleSeat' \in BOOLEAN
      /\ Len(wire)' = Len(wire) - 1
  BY <1>1, DispatchOneLemma
<1>3. NotStarted' /\ EndOfThread' /\ QuitIsLast'
  BY <1>1, ThreadUntouched DEF loopvars, cmdvars
<1>4. CommandsCounted'
  BY <1>1 DEF IInv, CommandsCounted, Waiting, HasQuit
<1>5. TypeOK'
  <2>1. batch' \in 0 .. Len(wire')
    BY <1>1, <1>2, Basics DEF IInv, NotStarted
  <2> QED BY <1>1, <1>2, <2>1 DEF IInv, TypeOK
<1> QED BY <1>2, <1>3, <1>4, <1>5 DEF IInv

\* The old windows are described: as many events as the second roundtrip brings.
LEMMA SecondRoundtripStep == ASSUME IInv, SecondRoundtrip PROVE IInv'
<1> DEFINE old == IF module THEN Existing ELSE 0
           events == Numbered(1, old)
<1>1. /\ main = "globals" /\ main' = "oldEvents" /\ sent' = old /\ wire' = Append(events, Sync)
      /\ UNCHANGED <<thread, sources, batch, running, seat, module, moduleSeat, lost, chan,
                     received, cmds, asked, executed>>
  BY DEF SecondRoundtrip, loopvars, connvars, cmdvars
<1>2. old \in 0 .. MaxEvents
  BY EventsAssumption
<1> HIDE DEF old
<1>3. /\ events \in Seq(Message) /\ Len(events) = old
      /\ \A i \in 1 .. old : events[i] = Evt(i)
  <2>1. events = [i \in 1 .. old |-> Evt(i)]
    <3>1. old - 1 + 1 = old /\ \A i \in 1 .. old : 1 + i - 1 = i
      BY <1>2, EventsAssumption
    <3> QED BY <3>1 DEF Numbered
  <2>2. \A i \in 1 .. old : Evt(i) \in Message
    BY <1>2, MessageKinds, EventsAssumption
  <2>3. events \in [1 .. old -> Message]
    BY <2>1, <2>2
  <2>4. events \in Seq(Message)
    BY <2>3, <1>2, SeqDef, EventsAssumption
  <2>5. Len(events) \in Nat /\ DOMAIN events = 1 .. Len(events) /\ DOMAIN events = 1 .. old
    BY <2>3, <2>4, LenProperties
  <2>6. Len(events) = old
    BY <2>5, <1>2, IntervalSize, EventsAssumption
  <2> QED BY <2>1, <2>4, <2>6
<1> HIDE DEF events
<1>4. /\ wire' \in Seq(Message) /\ wire' # <<>> /\ Len(wire') = old + 1
      /\ DOMAIN wire' = 1 .. old + 1
      /\ \A i \in 1 .. old : wire'[i] = Evt(i)
      /\ wire'[old + 1] = Sync
  BY <1>1, <1>3, MessageKinds, AppendFacts
<1>5. WireShape'
  <2>1. \A i \in 1 .. Len(wire') - 1 : wire'[i].type = "event"
    BY <1>2, <1>4, MessageKinds, EventsAssumption
  <2>2. wire'[Len(wire')] = Sync
    BY <1>4
  <2> QED BY <1>1, <1>4, <2>1, <2>2 DEF WireShape, Early
<1>6. EventsInOrder'
  <2>1. Len(received') = 0 /\ Len(chan') = 0
    BY <1>1, Basics DEF IInv, WireShape, EventsInOrder
  <2>2. sent' = old /\ old \in Nat /\ Len(wire') = old + 1
    BY <1>1, <1>2, <1>4, EventsAssumption
  <2>3. \A i \in DOMAIN wire' :
          IF i <= old THEN wire'[i] = Evt(i) ELSE ~IsEvent(wire'[i])
    BY <1>2, <1>4, MessageKinds, EventsAssumption DEF IsEvent
  <2>4. /\ \A i \in DOMAIN received' : received'[i] = i
        /\ \A i \in DOMAIN chan' : chan'[i] = Len(received') + i
    BY <1>1 DEF IInv, EventsInOrder
  <2>5. old - (0 + 0) = old /\ \A i \in DOMAIN wire' : 0 + 0 + i = i
    BY <2>2, <1>4
  <2> QED BY <2>1, <2>2, <2>3, <2>4, <2>5 DEF EventsInOrder
<1>7. NotStarted' /\ EndOfThread' /\ QuitIsLast' /\ CommandsCounted'
  BY <1>1, ThreadUntouched DEF loopvars, cmdvars, Early
<1>8. batch' \in 0 .. Len(wire')
  BY <1>1, <1>2, <1>4, EventsAssumption DEF IInv, NotStarted, Early
<1>9. TypeOK' /\ SeatReachesModule'
  BY <1>1, <1>2, <1>8 DEF IInv, TypeOK, SeatReachesModule
<1> QED BY <1>5, <1>6, <1>7, <1>9 DEF IInv

LEMMA SpawnThreadStep == ASSUME IInv, SpawnThread PROVE IInv'
<1>1. /\ main = "oldEvents" /\ main' = "loop" /\ thread' = "top"
      /\ wire # <<>> /\ Head(wire) = Sync /\ wire' = Tail(wire)
      /\ UNCHANGED <<sources, batch, running, seat, module, moduleSeat, sent, lost, chan,
                     received, cmds, asked, executed>>
  BY DEF SpawnThread, connvars, cmdvars
<1>2. Len(wire) = 1
  <2>1. Len(wire) \in Nat \ {0} /\ wire[1] = Sync
    BY <1>1, Basics, TailFacts
  <2>2. Len(wire) > 1 => wire[1].type = "event"
    BY <1>1, <2>1 DEF IInv, WireShape
  <2>3. wire[1].type # "event"
    BY <2>1, MessageKinds
  <2> QED BY <2>1, <2>2, <2>3
<1>3. wire' \in Seq(Message) /\ Len(wire') = 0 /\ DOMAIN wire' = {}
  <2>1. wire' \in Seq(Message) /\ Len(wire') = Len(wire) - 1 /\ DOMAIN wire' = 1 .. Len(wire) - 1
    BY <1>1, Basics, TailFacts
  <2> QED BY <1>2, <2>1
<1>4. sent = Len(received) + Len(chan)
  <2>1. ~IsEvent(wire[1]) /\ 1 \in DOMAIN wire
    BY <1>1, <1>2, Basics, MessageKinds DEF IsEvent, IInv, WireShape
  <2>2. ~(1 <= sent - (Len(received) + Len(chan)))
    BY <2>1, <1>1, <1>2, MessageKinds, Basics DEF IInv, EventsInOrder, WireShape, Evt, Sync
  <2>3. Len(received) + Len(chan) <= sent
    BY DEF IInv, EventsInOrder
  <2>4. Len(received) \in Nat /\ Len(chan) \in Nat /\ sent \in Nat
    BY Basics
  <2> QED BY <2>2, <2>3, <2>4
<1>5. WireShape'
  BY <1>1, <1>3 DEF WireShape, Early
<1>6. EventsInOrder'
  BY <1>1, <1>3, <1>4, Basics DEF IInv, EventsInOrder
<1>7. NotStarted' /\ EndOfThread' /\ QuitIsLast' /\ CommandsCounted'
  BY <1>1 DEF IInv, NotStarted, EndOfThread, QuitIsLast, CommandsCounted, HasQuit, Waiting, Early
<1>8. batch' \in 0 .. Len(wire')
  BY <1>1, <1>3 DEF IInv, NotStarted, Early
<1>9. TypeOK' /\ SeatReachesModule'
  BY <1>1, <1>8 DEF IInv, TypeOK, SeatReachesModule
<1> QED BY <1>5, <1>6, <1>7, <1>9 DEF IInv

\* The turns of the loop that change only where the thread is
LEMMA TurnStep ==
    ASSUME IInv, Exit \/ Wake \/ Break \/ SourceDone
    PROVE  IInv'
<1>1. UNCHANGED <<main, running, seat, module, moduleSeat, wire, sent, lost, chan, received, cmds,
                 asked, executed>>
  BY DEF Exit, Wake, Break, SourceDone, mainvars, connvars, cmdvars
<1>2. /\ thread \in {"top", "serving"} /\ thread' \in {"top", "serving", "exited"}
      /\ thread' = "exited" => lost \/ ~running
  BY DEF Exit, Wake, Break, SourceDone, Serving, IInv, TypeOK
<1>3. NotStarted' /\ EndOfThread' /\ QuitIsLast' /\ CommandsCounted'
  BY <1>1, <1>2 DEF IInv, NotStarted, EndOfThread, QuitIsLast, CommandsCounted, HasQuit, Waiting,
                    Early
<1>4. sources \in Seq({"wayland", "commands"}) /\ Len(sources) <= 2
  BY SeqOfMeans DEF IInv, TypeOK
<1>5. sources' \in SeqOf({"wayland", "commands"}, 2)
  <2>1. CASE Wake
    <3>1. Ready \subseteq {"wayland", "commands"} /\ sources' \in SetToSeqs(Ready)
      BY <2>1 DEF Wake, Ready
    <3>2. Cardinality(Ready) \in Nat /\ Cardinality(Ready) <= 2
      <4>1. IsFiniteSet({"wayland", "commands"}) /\ Cardinality({"wayland", "commands"}) = 2
        <5>1. IsFiniteSet({"wayland"}) /\ Cardinality({"wayland"}) = 1
          BY FS_Singleton
        <5>2. {"wayland", "commands"} = {"wayland"} \cup {"commands"}
          OBVIOUS
        <5> QED BY <5>1, <5>2, FS_AddElement
      <4> QED BY <3>1, <4>1, FS_Subset, FS_CardinalityType
    <3>3. sources' \in [1 .. Cardinality(Ready) -> Ready]
      BY <3>1 DEF SetToSeqs
    <3>4. sources' \in [1 .. Cardinality(Ready) -> {"wayland", "commands"}]
      BY <3>1, <3>3
    <3> QED BY <3>2, <3>4 DEF SeqOf
  <2>2. CASE SourceDone
    <3>1. sources # <<>> /\ sources' = Tail(sources)
      BY <2>2 DEF SourceDone, Serving
    <3>2. /\ sources' \in Seq({"wayland", "commands"}) /\ Len(sources') = Len(sources) - 1
          /\ Len(sources) \in Nat
      BY <1>4, <3>1, TailFacts
    <3> QED BY <1>4, <3>2, SeqOfMeans
  <2>3. CASE Exit \/ Break
    BY <2>3 DEF Exit, Break, IInv, TypeOK
  <2> QED BY <2>1, <2>2, <2>3
<1>6. batch' \in 0 .. Len(wire)
  BY Basics DEF Exit, Wake, Break, SourceDone
<1> QED BY <1>1, <1>2, <1>3, <1>5, <1>6, StepOffWire DEF IInv, TypeOK

LEMMA ThreadDispatchStep == ASSUME IInv, ThreadDispatch PROVE IInv'
<1>1. /\ DispatchOne /\ thread = "serving" /\ batch > 0 /\ batch' = batch - 1
      /\ UNCHANGED <<main, thread, sources, running, sent, lost, received, cmds, asked, executed>>
  BY DEF ThreadDispatch, Serving, mainvars, cmdvars
<1>2. main \notin Early
  BY <1>1 DEF IInv, NotStarted
<1>3. /\ WireShape' /\ EventsInOrder' /\ SeatReachesModule'
      /\ chan' \in Seq(1 .. MaxEvents) /\ Len(chan)' <= Cap
      /\ Len(wire)' = Len(wire) - 1
      /\ UNCHANGED <<seat, module, moduleSeat>>
  BY <1>1, <1>2, DispatchOneLemma
<1>4. NotStarted' /\ EndOfThread' /\ QuitIsLast' /\ CommandsCounted'
  BY <1>1, <1>2, <1>3 DEF IInv, NotStarted, EndOfThread, QuitIsLast, CommandsCounted, HasQuit,
                          Waiting
<1>5. TypeOK'
  <2>1. batch' \in 0 .. Len(wire')
    BY <1>1, <1>3, Basics
  <2> QED BY <1>1, <1>3, <2>1 DEF IInv, TypeOK
<1> QED BY <1>3, <1>4, <1>5 DEF IInv

\* The thread takes the next command; a quit is the last one.
LEMMA ThreadCommandStep == ASSUME IInv, ThreadCommand PROVE IInv'
<1>1. /\ thread = "serving" /\ cmds # <<>>
      /\ running' = (running /\ Head(cmds) # "quit")
      /\ executed' = IF Executable(Head(cmds)) THEN executed + 1 ELSE executed
      /\ cmds' = Tail(cmds)
      /\ UNCHANGED <<main, thread, sources, batch, seat, module, moduleSeat, wire, sent, lost, chan,
                     received, asked>>
  BY DEF ThreadCommand, Serving, mainvars, connvars
<1>2. main \notin Early /\ running
  BY <1>1 DEF IInv, NotStarted, QuitIsLast
<1>3. /\ Len(cmds) \in Nat \ {0} /\ DOMAIN cmds = 1 .. Len(cmds)
      /\ Head(cmds) = cmds[1] /\ cmds[1] \in {"close", "focus", "quit"}
      /\ cmds' \in Seq({"close", "focus", "quit"}) /\ Len(cmds') = Len(cmds) - 1
      /\ DOMAIN cmds' = 1 .. Len(cmds) - 1
      /\ \A i \in 1 .. Len(cmds) - 1 : cmds'[i] = cmds[i + 1]
  BY <1>1, Basics, TailFacts
<1>4. /\ \A i \in 1 .. Len(cmds) : cmds[i] = "quit" => i = Len(cmds)
      /\ HasQuit <=> cmds[Len(cmds)] = "quit"
      /\ main \in {"joining", "done"} => HasQuit \/ lost
      /\ HasQuit => main \in {"joining", "done"}
  BY <1>1, <1>2, <1>3 DEF IInv, QuitIsLast, HasQuit
<1>5. cmds' = <<>> <=> Len(cmds) = 1
  BY <1>3, EmptySeq
<1>6. CASE cmds[1] = "quit"
  <2>1. Len(cmds) = 1 /\ HasQuit /\ cmds' = <<>> /\ ~running' /\ executed' = executed
    <3>1. Len(cmds) = 1
      <4>1. 1 \in 1 .. Len(cmds)
        BY <1>3
      <4>2. cmds[1] = "quit" => 1 = Len(cmds)
        BY <1>4, <4>1
      <4> QED BY <1>6, <4>2
    <3>2. HasQuit /\ cmds' = <<>>
      BY <1>4, <1>5, <1>6, <3>1
    <3>3. Head(cmds) = "quit"
      BY <1>3, <1>6
    <3>4. ~running'
      BY <1>1, <3>3, Zenon
    <3>5. executed' = executed
      BY <1>1, <3>3 DEF Executable
    <3> QED BY <3>1, <3>2, <3>4, <3>5
  <2>2. Waiting = 0 /\ ~HasQuit' /\ Waiting' = 0
    BY <2>1, EmptySeq DEF Waiting, HasQuit
  <2>3. QuitIsLast'
    BY <1>1, <1>4, <2>1, <2>2, EmptySeq DEF QuitIsLast
  <2>4. CommandsCounted' /\ executed' \in 0 .. asked'
    BY <1>1, <2>1, <2>2 DEF CommandsCounted, IInv, TypeOK
  <2> QED BY <1>1, <1>2, <1>3, <2>1, <2>3, <2>4, StepOffWire
          DEF IInv, TypeOK, NotStarted, EndOfThread
<1>7. CASE cmds[1] # "quit"
  <2>1. /\ running' /\ executed' \in {executed, executed + 1}
        /\ executed \in Nat /\ asked \in Nat /\ asked' = asked
    <3>1. Head(cmds) # "quit"
      BY <1>3, <1>7
    <3>2. running'
      BY <1>1, <1>2, <3>1, Zenon
    <3>3. executed \in Nat /\ asked \in Nat
      BY CmdsAssumption DEF IInv, TypeOK
    <3>4. executed' \in {executed, executed + 1} /\ asked' = asked
      BY <1>1
    <3> QED BY <3>2, <3>3, <3>4
  <2>2. HasQuit' <=> HasQuit
    <3>1. HasQuit => Len(cmds) # 1
      BY <1>3, <1>4, <1>7
    <3>2. cmds' # <<>> => Len(cmds) - 1 \in 1 .. Len(cmds) - 1 /\ cmds'[Len(cmds')] = cmds[Len(cmds)]
      BY <1>3, <1>5
    <3> QED BY <1>4, <1>5, <3>1, <3>2 DEF HasQuit
  <2>3. Waiting' = Waiting - 1 /\ Waiting \in Nat
    <3>1. HasQuit => Len(cmds) # 1
      BY <1>3, <1>4, <1>7
    <3> QED BY <1>3, <2>2, <3>1 DEF Waiting
  <2>4. QuitIsLast'
    <3>1. \A i \in DOMAIN cmds' : cmds'[i] = cmds[i + 1] /\ i + 1 \in 1 .. Len(cmds)
      BY <1>3
    <3>2. ASSUME NEW i \in DOMAIN cmds', cmds'[i] = "quit" PROVE i = Len(cmds')
      <4>1. i + 1 = Len(cmds)
        BY <1>4, <3>1, <3>2
      <4> QED BY <1>3, <4>1
    <3> QED BY <1>1, <1>4, <2>1, <2>2, <3>2 DEF QuitIsLast
  <2>5. moduleSeat => executed' = executed + 1
    BY <1>1, <1>3, <1>7 DEF Executable, IInv, SeatReachesModule
  <2>6. executed + Waiting <= asked /\ (~lost /\ moduleSeat => executed + Waiting = asked)
    BY <1>2 DEF IInv, CommandsCounted
  <2>7. CommandsCounted' /\ executed' \in 0 .. asked'
    <3> DEFINE e == executed'
               w == Waiting'
    <3>1. e \in {executed, executed + 1} /\ w = Waiting - 1 /\ e \in Nat
      BY <2>1, <2>3
    <3>2. w \in Nat
      <4>1. HasQuit' => Len(cmds') # 0
        BY <1>3, <1>5 DEF HasQuit
      <4> QED BY <1>3, <4>1 DEF Waiting
    <3>3. e + w <= asked /\ e \in 0 .. asked
      <4> HIDE DEF e, w
      <4> QED BY <2>1, <2>3, <2>6, <3>1, <3>2
    <3>4. ~lost /\ moduleSeat => e + w = asked
      BY <2>1, <2>3, <2>5, <2>6
    <3>5. main \notin Early /\ UNCHANGED <<main, lost, moduleSeat, asked>>
      BY <1>1, <1>2
    <3> QED BY <2>1, <3>3, <3>4, <3>5 DEF CommandsCounted
  <2> QED BY <1>1, <1>2, <1>3, <2>1, <2>4, <2>7, StepOffWire
          DEF IInv, TypeOK, NotStarted, EndOfThread
<1> QED BY <1>6, <1>7

\* The wire of a running connection holds exactly the events not yet dispatched.
LEMMA RunningWire ==
    ASSUME IInv, main \notin Early
    PROVE  sent = Len(received) + Len(chan) + Len(wire)
<1> DEFINE passed == Len(received) + Len(chan)
<1>1. passed \in Nat /\ sent \in Nat /\ Len(wire) \in Nat /\ DOMAIN wire = 1 .. Len(wire)
  BY Basics
<1>2. passed <= sent /\ sent <= passed + Len(wire)
  BY DEF IInv, EventsInOrder
<1>3. Len(wire) <= sent - passed
  <2>1. CASE Len(wire) = 0
    BY <1>1, <1>2, <2>1
  <2>2. CASE Len(wire) # 0
    <3>1. Len(wire) \in DOMAIN wire
      BY <1>1, <2>2
    <3>2. IsEvent(wire[Len(wire)])
      BY <3>1 DEF IInv, WireShape, IsEvent
    <3> QED BY <3>1, <3>2 DEF IInv, EventsInOrder
  <2> QED BY <2>1, <2>2
<1> HIDE DEF passed
<1>4. sent = passed + Len(wire)
  BY <1>1, <1>2, <1>3
<1> QED BY <1>4 DEF passed

LEMMA SendEventStep == ASSUME IInv, SendEvent PROVE IInv'
<1>1. /\ main \in {"loop", "joining"} /\ sent < MaxEvents /\ sent' = sent + 1
      /\ wire' = Append(wire, Evt(sent'))
      /\ UNCHANGED <<main, thread, sources, batch, running, seat, module, moduleSeat, lost, chan,
                     received, cmds, asked, executed>>
  BY DEF SendEvent, mainvars, loopvars, connvars, cmdvars
<1>2. main \notin Early
  BY <1>1 DEF Early
<1>3. sent' \in 1 .. MaxEvents
  BY <1>1, Basics, EventsAssumption
<1>4. Evt(sent') \in Message /\ Evt(sent').type = "event"
  BY <1>3, MessageKinds
<1>5. /\ Len(wire) \in Nat /\ wire' \in Seq(Message)
      /\ Len(wire') = Len(wire) + 1 /\ DOMAIN wire' = 1 .. Len(wire) + 1
      /\ \A i \in 1 .. Len(wire) : wire'[i] = wire[i]
      /\ wire'[Len(wire) + 1] = Evt(sent')
  BY <1>1, <1>4, Basics, AppendFacts
<1>6. \A i \in DOMAIN wire' : i \in 1 .. Len(wire) \/ i = Len(wire) + 1
  BY <1>5
<1>7. WireShape'
  <2>1. \A i \in DOMAIN wire' : wire'[i].type = "event"
    BY <1>2, <1>4, <1>5, <1>6, Basics DEF IInv, WireShape
  <2> QED BY <1>1, <1>2, <1>5, <2>1 DEF WireShape, Early
<1>8. EventsInOrder'
  <2> DEFINE passed == Len(received) + Len(chan)
             s == sent'
  <2>1. /\ passed \in Nat /\ sent \in Nat /\ sent = passed + Len(wire) /\ s = sent + 1
        /\ Len(wire) \in Nat
    BY <1>1, <1>2, Basics, RunningWire
  <2>2. \A i \in DOMAIN wire' : i <= s - passed
    BY <1>5, <2>1
  <2>3. ASSUME NEW i \in DOMAIN wire' PROVE wire'[i] = Evt(passed + i)
    <3>1. CASE i \in 1 .. Len(wire)
      <4>1. i <= sent - passed /\ i \in DOMAIN wire
        BY <2>1, <3>1, Basics
      <4> QED BY <4>1, <1>5, <3>1 DEF IInv, EventsInOrder
    <3>2. CASE i = Len(wire) + 1
      <4>1. passed + i = s
        BY <2>1, <3>2
      <4> QED BY <4>1, <3>2, <1>5
    <3> QED BY <3>1, <3>2, <1>6
  <2>4. passed <= s /\ s <= passed + (Len(wire) + 1)
    <3> HIDE DEF s
    <3> QED BY <2>1
  <2>5. /\ \A i \in DOMAIN received' : received'[i] = i
        /\ \A i \in DOMAIN chan' : chan'[i] = Len(received') + i
    BY <1>1 DEF IInv, EventsInOrder
  <2>6. Len(received') + Len(chan') = passed /\ Len(wire') = Len(wire) + 1
    BY <1>1, <1>5
  <2> HIDE DEF passed
  <2> QED BY <2>2, <2>3, <2>4, <2>5, <2>6 DEF EventsInOrder
<1>9. NotStarted' /\ EndOfThread' /\ QuitIsLast' /\ CommandsCounted'
  BY <1>1, ThreadUntouched DEF loopvars, cmdvars
<1>10. batch' \in 0 .. Len(wire')
  BY <1>1, <1>5, Basics
<1>11. sent' \in 0 .. MaxEvents
  BY <1>3
<1>12. TypeOK' /\ SeatReachesModule'
  BY <1>1, <1>10, <1>11 DEF IInv, TypeOK, SeatReachesModule
<1> QED BY <1>7, <1>8, <1>9, <1>12 DEF IInv

\* An event moves from the channel to what GTK has received.
LEMMA ReceiveStep == ASSUME IInv, Receive PROVE IInv'
<1>1. /\ main = "loop" /\ chan # <<>> /\ received' = Append(received, Head(chan))
      /\ chan' = Tail(chan)
      /\ UNCHANGED <<main, thread, sources, batch, running, seat, module, moduleSeat, wire, sent,
                     lost, cmds, asked, executed>>
  BY DEF Receive, mainvars, loopvars, connvars, cmdvars
<1>2. /\ Len(chan) \in Nat \ {0} /\ Head(chan) = chan[1] /\ chan[1] \in 1 .. MaxEvents
      /\ chan' \in Seq(1 .. MaxEvents) /\ Len(chan') = Len(chan) - 1
      /\ DOMAIN chan' = 1 .. Len(chan) - 1
      /\ \A i \in 1 .. Len(chan) - 1 : chan'[i] = chan[i + 1]
  BY <1>1, Basics, TailFacts
<1>3. /\ Len(received) \in Nat /\ received' \in Seq(1 .. MaxEvents)
      /\ Len(received') = Len(received) + 1 /\ DOMAIN received' = 1 .. Len(received) + 1
      /\ \A i \in 1 .. Len(received) : received'[i] = received[i]
      /\ received'[Len(received) + 1] = Head(chan)
  BY <1>1, <1>2, Basics, AppendFacts
<1>4. EventsInOrder'
  <2>1. Len(received') + Len(chan') = Len(received) + Len(chan)
    BY <1>2, <1>3
  <2>2. \A i \in DOMAIN chan' : chan'[i] = Len(received') + i
    <3>1. ASSUME NEW i \in DOMAIN chan' PROVE chan'[i] = Len(received') + i
      <4>1. i \in Int /\ i + 1 \in DOMAIN chan /\ chan'[i] = chan[i + 1]
        BY <1>2, Basics
      <4>2. chan[i + 1] = Len(received) + (i + 1)
        BY <4>1 DEF IInv, EventsInOrder
      <4> QED BY <4>1, <4>2, <1>3
    <3> QED BY <3>1
  <2>3. \A i \in DOMAIN received' : received'[i] = i
    <3>1. chan[1] = Len(received) + 1
      BY <1>2, Basics DEF IInv, EventsInOrder
    <3>2. \A i \in DOMAIN received' : i \in 1 .. Len(received) \/ i = Len(received) + 1
      BY <1>3
    <3> QED BY <1>2, <1>3, <3>1, <3>2, Basics DEF IInv, EventsInOrder
  <2> QED BY <1>1, <2>1, <2>2, <2>3 DEF IInv, EventsInOrder
<1>5. WireShape' /\ SeatReachesModule'
  BY <1>1 DEF IInv, WireShape, SeatReachesModule
<1>6. NotStarted' /\ EndOfThread' /\ QuitIsLast' /\ CommandsCounted'
  BY <1>1, ThreadUntouched DEF loopvars, cmdvars
<1>7. Len(chan') <= Cap
  BY <1>2, CapAssumption DEF IInv, TypeOK
<1>8. TypeOK'
  BY <1>1, <1>2, <1>3, <1>7 DEF IInv, TypeOK
<1> QED BY <1>4, <1>5, <1>6, <1>8 DEF IInv

\* A command, or quit, goes into the channel, or nowhere when the thread is gone.
LEMMA EnqueueFacts ==
    ASSUME IInv, main = "loop", NEW c \in {"close", "focus", "quit"}, Enqueue(c)
    PROVE  /\ ~HasQuit /\ Waiting = Len(cmds) /\ main \notin Early
           /\ cmds' \in Seq({"close", "focus", "quit"})
           /\ running
           /\ thread = "exited" => lost /\ cmds' = cmds /\ ~HasQuit' /\ Waiting' = Len(cmds)
           /\ thread # "exited" =>
                /\ cmds' # <<>> /\ Len(cmds') = Len(cmds) + 1 /\ DOMAIN cmds' = 1 .. Len(cmds) + 1
                /\ \A i \in 1 .. Len(cmds) : cmds'[i] = cmds[i] /\ cmds[i] # "quit"
                /\ cmds'[Len(cmds) + 1] = c
                /\ HasQuit' <=> c = "quit"
                /\ Waiting' = IF c = "quit" THEN Len(cmds) ELSE Len(cmds) + 1
<1>1. ~HasQuit /\ running /\ main \notin Early
  BY DEF IInv, QuitIsLast, Early
<1>2. Waiting = Len(cmds) /\ cmds \in Seq({"close", "focus", "quit"}) /\ Len(cmds) \in Nat
      /\ DOMAIN cmds = 1 .. Len(cmds)
  BY <1>1, Basics DEF Waiting
<1>3. CASE thread = "exited"
  <2>1. lost /\ cmds' = cmds
    BY <1>1, <1>3 DEF IInv, EndOfThread, Enqueue
  <2>2. ~HasQuit' /\ Waiting' = Len(cmds)
    BY <1>1, <2>1 DEF HasQuit, Waiting
  <2> QED BY <1>1, <1>2, <1>3, <2>1, <2>2
<1>4. CASE thread # "exited"
  <2>1. cmds' = Append(cmds, c)
    BY <1>4 DEF Enqueue
  <2>2. /\ cmds' \in Seq({"close", "focus", "quit"}) /\ cmds' # <<>>
        /\ Len(cmds') = Len(cmds) + 1 /\ DOMAIN cmds' = 1 .. Len(cmds) + 1
        /\ \A i \in 1 .. Len(cmds) : cmds'[i] = cmds[i]
        /\ cmds'[Len(cmds) + 1] = c
    BY <1>2, <2>1, AppendFacts
  <2>3. \A i \in 1 .. Len(cmds) : cmds[i] # "quit"
    <3>1. ASSUME NEW i \in 1 .. Len(cmds), cmds[i] = "quit" PROVE FALSE
      <4>1. i = Len(cmds) /\ cmds # <<>>
        BY <1>2, <3>1, EmptySeq DEF IInv, QuitIsLast
      <4> QED BY <1>1, <3>1, <4>1 DEF HasQuit
    <3> QED BY <3>1
  <2>4. HasQuit' <=> c = "quit"
    BY <2>2 DEF HasQuit
  <2>5. Waiting' = IF c = "quit" THEN Len(cmds) ELSE Len(cmds) + 1
    <3>1. Waiting' = IF HasQuit' THEN Len(cmds') - 1 ELSE Len(cmds')
      BY DEF Waiting
    <3>2. Len(cmds) + 1 - 1 = Len(cmds)
      BY <1>2
    <3> QED BY <2>2, <2>4, <3>1, <3>2
  <2> QED BY <1>1, <1>2, <1>4, <2>2, <2>3, <2>4, <2>5
<1> QED BY <1>3, <1>4

LEMMA SendCommandStep ==
    ASSUME IInv, NEW c \in {"close", "focus"}, SendCommand(c)
    PROVE  IInv'
<1>1. /\ main = "loop" /\ asked < MaxCmds /\ asked' = asked + 1 /\ Enqueue(c)
      /\ UNCHANGED <<main, thread, sources, batch, running, seat, module, moduleSeat, wire, sent,
                     lost, chan, received, executed>>
  BY DEF SendCommand, mainvars, loopvars, connvars
<1>2. /\ ~HasQuit /\ Waiting = Len(cmds) /\ main \notin Early
      /\ cmds' \in Seq({"close", "focus", "quit"})
      /\ running
      /\ thread = "exited" => lost /\ cmds' = cmds /\ ~HasQuit' /\ Waiting' = Len(cmds)
      /\ thread # "exited" =>
           /\ cmds' # <<>> /\ Len(cmds') = Len(cmds) + 1 /\ DOMAIN cmds' = 1 .. Len(cmds) + 1
           /\ \A i \in 1 .. Len(cmds) : cmds'[i] = cmds[i] /\ cmds[i] # "quit"
           /\ cmds'[Len(cmds) + 1] = c
           /\ ~HasQuit' /\ Waiting' = Len(cmds) + 1
  <2>1. c \in {"close", "focus", "quit"} /\ c # "quit"
    OBVIOUS
  <2> QED BY <1>1, <2>1, EnqueueFacts
<1>3. Len(cmds) \in Nat /\ asked \in Nat /\ executed \in 0 .. asked
  BY Basics, CmdsAssumption DEF IInv, TypeOK
<1>4. QuitIsLast'
  <2>1. CASE thread = "exited"
    BY <1>1, <1>2, <2>1 DEF IInv, QuitIsLast
  <2>2. CASE thread # "exited"
    <3>1. \A i \in DOMAIN cmds' : cmds'[i] # "quit"
      <4>1. \A i \in DOMAIN cmds' : i \in 1 .. Len(cmds) \/ i = Len(cmds) + 1
        BY <1>2, <1>3, <2>2
      <4> QED BY <4>1, <1>2, <2>2
    <3> QED BY <1>1, <1>2, <2>2, <3>1 DEF QuitIsLast
  <2> QED BY <2>1, <2>2
<1>5. CommandsCounted'
  <2> DEFINE a == asked'
             w == Waiting'
  <2>1. /\ executed + Len(cmds) <= asked
        /\ ~lost /\ moduleSeat => executed + Len(cmds) = asked
    BY <1>2 DEF IInv, CommandsCounted
  <2>2. a = asked + 1 /\ w \in {Len(cmds), Len(cmds) + 1} /\ (~lost => w = Len(cmds) + 1)
    BY <1>1, <1>2
  <2>3. executed + w <= a /\ (~lost /\ moduleSeat => executed + w = a)
    <3> HIDE DEF a, w
    <3> QED BY <1>3, <2>1, <2>2
  <2> QED BY <1>1, <2>3 DEF CommandsCounted
<1>6. asked' \in 0 .. MaxCmds /\ executed' \in 0 .. asked'
  <2> DEFINE a == asked'
  <2>1. a = asked + 1
    BY <1>1
  <2>2. a \in 0 .. MaxCmds /\ executed \in 0 .. a
    <3> HIDE DEF a
    <3> QED BY <1>1, <1>3, <2>1, CmdsAssumption
  <2> QED BY <1>1, <2>2
<1> QED BY <1>1, <1>2, <1>4, <1>5, <1>6, StepOffWire DEF IInv, TypeOK, NotStarted, EndOfThread

LEMMA DropRunnerStep == ASSUME IInv, DropRunner PROVE IInv'
<1>1. /\ main = "loop" /\ main' = "joining" /\ Enqueue("quit")
      /\ UNCHANGED <<thread, sources, batch, running, seat, module, moduleSeat, wire, sent, lost,
                     chan, received, asked, executed>>
  BY DEF DropRunner, loopvars, connvars
<1>2. /\ ~HasQuit /\ Waiting = Len(cmds) /\ main \notin Early
      /\ cmds' \in Seq({"close", "focus", "quit"})
      /\ running
      /\ Waiting' = Waiting
      /\ thread = "exited" => lost /\ cmds' = cmds /\ ~HasQuit'
      /\ thread # "exited" =>
           /\ cmds' # <<>> /\ Len(cmds') = Len(cmds) + 1 /\ DOMAIN cmds' = 1 .. Len(cmds) + 1
           /\ \A i \in 1 .. Len(cmds) : cmds'[i] = cmds[i] /\ cmds[i] # "quit"
           /\ HasQuit'
  BY <1>1, EnqueueFacts
<1>3. QuitIsLast'
  <2>1. CASE thread = "exited"
    BY <1>1, <1>2, <2>1 DEF IInv, QuitIsLast
  <2>2. CASE thread # "exited"
    <3>1. ASSUME NEW i \in DOMAIN cmds', cmds'[i] = "quit" PROVE i = Len(cmds')
      <4>1. i \in 1 .. Len(cmds) \/ i = Len(cmds) + 1
        BY <1>2, <2>2, Basics
      <4> QED BY <4>1, <1>2, <2>2, <3>1
    <3> QED BY <1>1, <1>2, <2>2, <3>1 DEF QuitIsLast
  <2> QED BY <2>1, <2>2
<1>4. CommandsCounted'
  BY <1>1, <1>2 DEF IInv, CommandsCounted
<1>5. EndOfThread' /\ NotStarted'
  BY <1>1, <1>2 DEF IInv, EndOfThread, NotStarted, Early
<1> QED BY <1>1, <1>2, <1>3, <1>4, <1>5, StepOffWire DEF IInv, TypeOK

\* The connection breaks, or the main thread finds the thread ended.
LEMMA LoseOrJoinStep == ASSUME IInv, LoseConnection \/ Join PROVE IInv'
<1>1. UNCHANGED <<thread, sources, batch, running, seat, module, moduleSeat, wire, sent, chan,
                  received, cmds, asked, executed>>
  BY DEF LoseConnection, Join, loopvars, connvars, cmdvars
<1>2. /\ main \in {"loop", "joining"} /\ main \notin Early
      /\ \/ main' = main /\ lost' = TRUE
         \/ main = "joining" /\ main' = "done" /\ lost' = lost /\ thread = "exited"
  BY DEF LoseConnection, Join, mainvars, Early
<1>3. NotStarted' /\ EndOfThread'
  BY <1>1, <1>2 DEF IInv, NotStarted, EndOfThread, Early
<1>4. QuitIsLast'
  BY <1>1, <1>2 DEF IInv, QuitIsLast, HasQuit
<1>5. CommandsCounted'
  BY <1>1, <1>2 DEF IInv, CommandsCounted, Waiting, HasQuit
<1>6. lost' \in BOOLEAN
  BY <1>2 DEF IInv, TypeOK
<1> QED BY <1>1, <1>2, <1>3, <1>4, <1>5, <1>6, StepOffWire DEF IInv, TypeOK

LEMMA StepIInv == ASSUME IInv, [Next]_vars PROVE IInv'
<1>1. CASE Connect BY <1>1, ConnectStep
<1>2. CASE RoundtripDispatch BY <1>2, RoundtripDispatchStep
<1>3. CASE SecondRoundtrip BY <1>3, SecondRoundtripStep
<1>4. CASE SpawnThread BY <1>4, SpawnThreadStep
<1>5. CASE Join BY <1>5, LoseOrJoinStep
<1>6. CASE Exit \/ Wake \/ Break \/ SourceDone BY <1>6, TurnStep
<1>7. CASE ThreadDispatch BY <1>7, ThreadDispatchStep
<1>8. CASE ThreadCommand BY <1>8, ThreadCommandStep
<1>9. CASE Receive BY <1>9, ReceiveStep
<1>10. CASE SendEvent BY <1>10, SendEventStep
<1>11. CASE LoseConnection BY <1>11, LoseOrJoinStep
<1>12. CASE \E c \in {"close", "focus"} : SendCommand(c) BY <1>12, SendCommandStep
<1>13. CASE DropRunner BY <1>13, DropRunnerStep
<1>14. CASE UNCHANGED vars
  <2>1. UNCHANGED <<main, thread, sources, batch, running, seat, module, moduleSeat,
                    wire, sent, lost, chan, received, cmds, asked, executed>>
    BY <1>14 DEF vars
  <2>2. WireShape' /\ EventsInOrder' /\ SeatReachesModule'
    BY <2>1, WireUntouched
  <2>3. NotStarted' /\ EndOfThread' /\ QuitIsLast' /\ CommandsCounted'
    BY <2>1, ThreadUntouched DEF loopvars, cmdvars
  <2>4. TypeOK'
    BY <2>1 DEF IInv, TypeOK
  <2> QED BY <2>2, <2>3, <2>4 DEF IInv
<1> QED BY <1>1, <1>2, <1>3, <1>4, <1>5, <1>6, <1>7, <1>8, <1>9, <1>10, <1>11, <1>12, <1>13,
           <1>14 DEF Next, MainStep, ThreadStep, Outside

-----------------------------------------------------------------------------
(* The theorems *)

\* The inductive invariant holds of every behaviour, whatever the capacity of
\* the channel and the number of events and commands.
THEOREM ThreadInvariant == Spec => []IInv
<1>1. Init => IInv
  BY InitIInv
<1>2. IInv /\ [Next]_vars => IInv'
  BY StepIInv
<1> QED BY <1>1, <1>2, PTL DEF Spec

\* Every variable has its type; in particular the event channel never holds more
\* than its capacity (bridge.rs:27) and no command is executed twice.
THEOREM TypeCorrect == Spec => []TypeOK
<1>1. IInv => TypeOK
  BY DEF IInv
<1> QED BY <1>1, ThreadInvariant, PTL

\* GTK receives the events in the order of the compositor, none lost or
\* repeated (dispatcher.rs:75-83, 127-129).
THEOREM AlwaysEventsInOrder == Spec => []EventsInOrder
<1>1. IInv => EventsInOrder
  BY DEF IInv
<1> QED BY <1>1, ThreadInvariant, PTL

\* The seat reaches the module whichever of the two globals comes first
\* (dispatcher.rs:176-202).
THEOREM AlwaysSeatReachesModule == Spec => []SeatReachesModule
<1>1. IInv => SeatReachesModule
  BY DEF IInv
<1> QED BY <1>1, ThreadInvariant, PTL

\* When the Runner is gone every command the user gave before has become a
\* request, unless the connection broke (runner.rs:37-46, dispatcher.rs:122-137):
\* a joined thread has ended, it ended because it met quit, and quit is the last
\* command of the channel.
THEOREM AlwaysQuitOvertakesNothing == Spec => []QuitOvertakesNothing
<1>1. IInv => QuitOvertakesNothing
  <2> SUFFICES ASSUME IInv, main = "done", ~lost, moduleSeat PROVE executed = asked
    BY DEF QuitOvertakesNothing
  <2>1. ~running
    BY DEF IInv, EndOfThread
  <2>2. cmds = <<>>
    BY <2>1 DEF IInv, QuitIsLast
  <2>3. Waiting = 0
    BY <2>2, EmptySeq DEF Waiting, HasQuit
  <2>4. executed + Waiting = asked
    BY DEF IInv, CommandsCounted, Early
  <2>5. executed \in Int
    BY CmdsAssumption DEF IInv, TypeOK
  <2> QED BY <2>3, <2>4, <2>5
<1> QED BY <1>1, ThreadInvariant, PTL

=============================================================================
