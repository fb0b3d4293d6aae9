---------------------------- MODULE WaylandThread ----------------------------
(***************************************************************************)
(* The life of the Wayland connection (rain-client/src/wayland):           *)
(* dispatcher.rs, runner.rs and bridge.rs, with the main function of       *)
(* rain-shell that owns them.                                              *)
(*                                                                         *)
(* The main thread connects, makes two roundtrips by itself, then hands    *)
(* the event queue to the Wayland thread and runs GTK; when GTK returns it *)
(* drops the Runner, which asks the thread to quit and joins it.  Events   *)
(* travel to GTK through a bounded channel, whose send blocks; commands    *)
(* travel back through an unbounded one.                                   *)
(*                                                                         *)
(* What an event says is Toplevel's matter: here an event is its number in *)
(* the order in which the compositor sent them.                            *)
(***************************************************************************)
EXTENDS Integers, SequencesExt

CONSTANTS
    Cap,        \* the capacity of the event channel (32 in bridge.rs)
    Existing,   \* the events that describe the windows open at the start
    MaxEvents,  \* bound on the events of a run
    MaxCmds     \* bound on the commands of a run

ASSUME CapAssumption == Cap \in Nat \ {0}
ASSUME EventsAssumption == Existing \in Nat /\ MaxEvents \in Nat /\ Existing <= MaxEvents
ASSUME CmdsAssumption == MaxCmds \in Nat

VARIABLES
    main,       \* where the main thread is
    thread,     \* where the Wayland thread is
    sources,    \* the event sources left to serve in this turn of its loop
    batch,      \* the messages read from the socket and not yet dispatched
    running,    \* WaylandState.still_running
    seat,       \* WaylandState.seat is set
    module,     \* WaylandState.toplevel is set
    moduleSeat, \* ToplevelModule.seat is set
    wire,       \* the compositor's messages
    sent,       \* how many events the compositor has sent
    lost,       \* the connection has broken
    chan,       \* the event channel
    received,   \* the events GTK has taken from it
    cmds,       \* the command channel
    asked,      \* how many commands GTK has sent
    executed    \* how many of them became requests to the compositor

mainvars == <<main>>
connvars == <<seat, module, moduleSeat>>
loopvars == <<thread, sources, batch, running>>
cmdvars  == <<cmds, asked, executed>>
vars == <<main, thread, sources, batch, running, seat, module, moduleSeat,
          wire, sent, lost, chan, received, cmds, asked, executed>>

-----------------------------------------------------------------------------
(* The compositor *)

Global(g) == [type |-> "global", of |-> g]
Sync      == [type |-> "sync"]
Evt(n)    == [type |-> "event", n |-> n]

Numbered(from, to) == [i \in 1 .. (to - from + 1) |-> Evt(from + i - 1)]

\* Which of the two globals there are, and in which order they are announced
GlobalOrders == {<<>>, <<"seat">>, <<"manager">>, <<"seat", "manager">>, <<"manager", "seat">>}

\* The compositor answers requests in their order: a sync comes after the
\* answers to all that was asked before it.
Answer(msgs) == wire' = wire \o msgs \o <<Sync>>

\* Something happens on the screen.
SendEvent ==
    /\ module /\ ~lost /\ sent < MaxEvents
    /\ main \in {"loop", "joining"}
    /\ sent' = sent + 1
    /\ wire' = Append(wire, Evt(sent'))
    /\ UNCHANGED <<mainvars, loopvars, connvars, lost, chan, received, cmdvars>>

-----------------------------------------------------------------------------
(* Dispatching a message: by the main thread during its roundtrips, by the *)
(* Wayland thread afterwards *)

\* Faulty: a manager announced after the seat does not get it
HandleGlobalSeatLast(g) ==
    /\ module'     = (module \/ g = "manager")
    /\ seat'       = (seat \/ g = "seat")
    /\ moduleSeat' = (moduleSeat \/ (g = "seat" /\ module))
    /\ UNCHANGED chan

\* The registry handler: whichever global comes second passes the seat on.
HandleGlobal(g) ==
    /\ module'     = (module \/ g = "manager")
    /\ seat'       = (seat \/ g = "seat")
    /\ moduleSeat' = (moduleSeat \/ (g = "manager" /\ seat) \/ (g = "seat" /\ module))
    /\ UNCHANGED chan

\* Faulty: the channel has no bound
HasRoomAlways == TRUE

\* Faulty: one place of the channel is never used
HasRoomOneLess == Len(chan) < Cap - 1

HasRoom == Len(chan) < Cap

\* Faulty: an event that finds the channel full is dropped
HandleEventLossy(n) ==
    /\ chan' = IF HasRoom THEN Append(chan, n) ELSE chan
    /\ UNCHANGED connvars

\* The send blocks while the channel is full.
HandleEvent(n) ==
    /\ HasRoom
    /\ chan' = Append(chan, n)
    /\ UNCHANGED connvars

DispatchOne ==
    /\ wire # <<>>
    /\ LET m == Head(wire)
       IN  \/ m.type = "global" /\ HandleGlobal(m.of)
           \/ m.type = "event" /\ HandleEvent(m.n)
    /\ wire' = Tail(wire)

-----------------------------------------------------------------------------
(* The main thread: WaylandState::new *)

\* The first roundtrip: get_registry and a sync
Connect ==
    /\ main = "start"
    /\ main' = "globals"
    /\ \E order \in GlobalOrders : Answer([i \in DOMAIN order |-> Global(order[i])])
    /\ UNCHANGED <<loopvars, connvars, sent, lost, chan, received, cmdvars>>

RoundtripDispatch ==
    /\ main \in {"globals", "oldEvents"}
    /\ DispatchOne
    /\ UNCHANGED <<mainvars, loopvars, sent, lost, received, cmdvars>>

\* The second roundtrip carries the bind requests and a sync; if the manager
\* is bound the compositor introduces every window before it answers the sync.
SecondRoundtrip ==
    /\ main = "globals"
    /\ wire = <<Sync>>
    /\ main' = "oldEvents"
    /\ LET old == IF module THEN Existing ELSE 0
       IN  sent' = old /\ wire' = Append(Numbered(1, old), Sync)
    /\ UNCHANGED <<loopvars, connvars, lost, chan, received, cmdvars>>

\* The thread is spawned and has reported that its sources are in place; the
\* main thread goes on to run GTK.
SpawnThread ==
    /\ main = "oldEvents"
    /\ wire # <<>> /\ Head(wire) = Sync
    /\ wire' = Tail(wire)
    /\ main' = "loop"
    /\ thread' = "top"
    /\ UNCHANGED <<sources, batch, running, connvars, sent, lost, chan, received, cmdvars>>

-----------------------------------------------------------------------------
(* The Wayland thread: one turn of its loop serves the sources that are ready, *)
(* in any order. *)

\* Faulty: a command does not wake the thread
ReadyWithWayland == {s \in {"wayland", "commands"} :
                        (wire # <<>> \/ lost) /\ (s = "commands" => cmds # <<>>)}

\* A broken connection is readable, too.
Ready == {s \in {"wayland", "commands"} :
             IF s = "wayland" THEN wire # <<>> \/ lost ELSE cmds # <<>>}

Exit ==
    /\ thread = "top" /\ ~running
    /\ thread' = "exited"
    /\ UNCHANGED <<mainvars, sources, batch, running, connvars, wire, sent, lost, chan,
                   received, cmdvars>>

\* The poll reads from the socket what is there; what comes later waits for
\* the next turn.
Wake ==
    /\ thread = "top" /\ running
    /\ Ready # {}
    /\ thread' = "serving"
    /\ sources' \in SetToSeqs(Ready)
    /\ batch' = IF lost THEN 0 ELSE Len(wire)
    /\ UNCHANGED <<mainvars, running, connvars, wire, sent, lost, chan, received, cmdvars>>

Serving(s) == thread = "serving" /\ sources # <<>> /\ Head(sources) = s

\* The write before the poll or the read after it reports the broken
\* connection: the loop ends with what it has not served.
Break ==
    /\ lost
    /\ \/ thread = "top" /\ running
       \/ Serving("wayland") /\ batch = 0
    /\ thread' = "exited"
    /\ UNCHANGED <<mainvars, sources, batch, running, connvars, wire, sent, lost, chan,
                   received, cmdvars>>

ThreadDispatch ==
    /\ Serving("wayland") /\ batch > 0
    /\ DispatchOne
    /\ batch' = batch - 1
    /\ UNCHANGED <<mainvars, thread, sources, running, sent, lost, received, cmdvars>>

\* handle_wayland_command: without the module a command is dropped, and
\* without the seat a focus command is.
Executable(c) == (c = "close" /\ module) \/ (c = "focus" /\ moduleSeat)

ThreadCommand ==
    /\ Serving("commands") /\ cmds # <<>>
    /\ running' = (running /\ Head(cmds) # "quit")
    /\ executed' = IF Executable(Head(cmds)) THEN executed + 1 ELSE executed
    /\ cmds' = Tail(cmds)
    /\ UNCHANGED <<mainvars, thread, sources, batch, connvars, wire, sent, lost, chan,
                   received, asked>>

SourceDone ==
    /\ \/ Serving("wayland") /\ batch = 0 /\ ~lost
       \/ Serving("commands") /\ cmds = <<>>
    /\ sources' = Tail(sources)
    /\ thread' = IF sources' = <<>> THEN "top" ELSE thread
    /\ UNCHANGED <<mainvars, batch, running, connvars, wire, sent, lost, chan, received, cmdvars>>

\* The compositor goes away.
LoseConnection ==
    /\ main \in {"loop", "joining"} /\ ~lost
    /\ lost' = TRUE
    /\ UNCHANGED <<mainvars, loopvars, connvars, wire, sent, chan, received, cmdvars>>

-----------------------------------------------------------------------------
(* GTK: the dock's task takes events, its clicks send commands *)

Receive ==
    /\ main = "loop"
    /\ chan # <<>>
    /\ received' = Append(received, Head(chan))
    /\ chan' = Tail(chan)
    /\ UNCHANGED <<mainvars, loopvars, connvars, wire, sent, lost, cmdvars>>

\* A command is lost when the thread and its end of the channel are gone.
Enqueue(c) == cmds' = IF thread = "exited" THEN cmds ELSE Append(cmds, c)

SendCommand(c) ==
    /\ main = "loop" /\ asked < MaxCmds
    /\ asked' = asked + 1
    /\ Enqueue(c)
    /\ UNCHANGED <<mainvars, loopvars, connvars, wire, sent, lost, chan, received, executed>>

\* Faulty: the Runner only joins
DropRunnerSilently ==
    /\ main = "loop"
    /\ main' = "joining"
    /\ UNCHANGED <<loopvars, connvars, wire, sent, lost, chan, received, cmdvars>>

\* Faulty: the Runner clears the thread's flag itself
DropRunnerByFlag ==
    /\ main = "loop"
    /\ main' = "joining"
    /\ running' = FALSE
    /\ UNCHANGED <<thread, sources, batch, connvars, wire, sent, lost, chan, received, cmdvars>>

\* app.run() returns and _runner_guard is dropped.
DropRunner ==
    /\ main = "loop"
    /\ main' = "joining"
    /\ Enqueue("quit")
    /\ UNCHANGED <<loopvars, connvars, wire, sent, lost, chan, received, asked, executed>>

Join ==
    /\ main = "joining" /\ thread = "exited"
    /\ main' = "done"
    /\ UNCHANGED <<loopvars, connvars, wire, sent, lost, chan, received, cmdvars>>

-----------------------------------------------------------------------------
Init ==
    /\ main = "start" /\ thread = "none"
    /\ sources = <<>> /\ batch = 0 /\ running = TRUE
    /\ seat = FALSE /\ module = FALSE /\ moduleSeat = FALSE
    /\ wire = <<>> /\ sent = 0 /\ lost = FALSE
    /\ chan = <<>> /\ received = <<>>
    /\ cmds = <<>> /\ asked = 0 /\ executed = 0

MainStep == Connect \/ RoundtripDispatch \/ SecondRoundtrip \/ SpawnThread \/ Join

ThreadStep == Exit \/ Wake \/ Break \/ ThreadDispatch \/ ThreadCommand \/ SourceDone

\* What the user and the compositor may do, or never do
Outside == SendEvent \/ LoseConnection \/ (\E c \in {"close", "focus"} : SendCommand(c)) \/ DropRunner

Next == MainStep \/ ThreadStep \/ Receive \/ Outside

\* The two threads are scheduled, and GTK's main loop polls the task that waits
\* for events as long as it runs.
Fairness == WF_vars(MainStep) /\ WF_vars(ThreadStep) /\ WF_vars(Receive)

Spec == Init /\ [][Next]_vars /\ Fairness

-----------------------------------------------------------------------------
(* Properties *)

IsEvent(m) == m.type = "event"

TypeOK ==
    /\ main \in {"start", "globals", "oldEvents", "loop", "joining", "done"}
    /\ thread \in {"none", "top", "serving", "exited"}
    /\ sources \in SeqOf({"wayland", "commands"}, 2)
    /\ batch \in 0 .. Len(wire)
    /\ running \in BOOLEAN /\ lost \in BOOLEAN
    /\ seat \in BOOLEAN /\ module \in BOOLEAN /\ moduleSeat \in BOOLEAN
    /\ sent \in 0 .. MaxEvents
    /\ chan \in Seq(1 .. MaxEvents) /\ Len(chan) <= Cap
    /\ received \in Seq(1 .. MaxEvents)
    /\ cmds \in Seq({"close", "focus", "quit"})
    /\ asked \in 0 .. MaxCmds /\ executed \in 0 .. asked

\* GTK receives the events in the order of the compositor, none lost or repeated, although two threads
\* dispatch one after the other and either may block in the middle of a batch
\* (dispatcher.rs:75-83, 127-129).
EventsInOrder ==
    LET passed == Len(received) + Len(chan)
    IN  /\ \A i \in DOMAIN received : received[i] = i
        /\ \A i \in DOMAIN chan : chan[i] = Len(received) + i
        /\ passed <= sent /\ sent <= passed + Len(wire)
        /\ \A i \in DOMAIN wire :
             IF i <= sent - passed THEN wire[i] = Evt(passed + i) ELSE ~IsEvent(wire[i])

\* The module can focus windows as soon as both globals have been announced, in
\* either order (dispatcher.rs:176-202).
SeatReachesModule == moduleSeat <=> seat /\ module

\* Quit overtakes no command: unless the connection breaks, what the user asked
\* for before GTK returned has been requested from the compositor when the
\* Runner is gone (runner.rs:37-46, dispatcher.rs:122-137).
QuitOvertakesNothing == main = "done" /\ ~lost /\ moduleSeat => executed = asked

\* The connection is set up and GTK runs (bridge.rs:24-46).
StartupCompletes == <>(main = "loop")

\* Every event reaches GTK unless GTK stops or the connection breaks.
EventsDelivered ==
    \A n \in 1 .. MaxEvents : sent >= n ~> Len(received) >= n \/ main \in {"joining", "done"} \/ lost

\* Every command is taken up, also while events fill the channel
CommandsTaken == cmds # <<>> ~> cmds = <<>> \/ main \in {"joining", "done"} \/ lost

\* The next thing the thread has to dispatch is an event, for which there is no room.
Blocked ==
    /\ Serving("wayland") /\ batch > 0
    /\ IsEvent(Head(wire)) /\ ~HasRoom

\* Dropping the Runner quits the thread, and the main thread goes on, unless the
\* thread waits for room in the channel, which nobody empties any more
\* (runner.rs:10-12, 37-46, dispatcher.rs:122-137).
DropJoinsWithRoom == main = "joining" ~> main = "done" \/ Blocked

=============================================================================
