------------------------------- MODULE Toplevel -------------------------------
(***************************************************************************)
(* The toplevel protocol module of the Wayland thread                      *)
(* (rain-client/src/wayland/modules/toplevel/module.rs) between its two    *)
(* neighbours: the compositor, which is not part of the repository and is  *)
(* modelled by what the module's handlers expect of it, and the bounded    *)
(* channel of bridge.rs that carries its events to the dock.               *)
(*                                                                         *)
(* The compositor describes a window piecemeal (app_id, title, state) and  *)
(* marks the end of each batch with done; the module collects the pieces   *)
(* and tells the dock at every done of a window it can name.               *)
(***************************************************************************)
EXTENDS Integers, FiniteSets, SequencesExt, Functions

CONSTANTS
    Classes,            \* the values of app_id
    Windows,            \* the toplevel handles
    NoClass,            \* app_id not known yet
    NoWindow,           \* no window is active
    Cap,                \* the capacity of the event channel (32 in bridge.rs)
    MaxWire,            \* bound on the messages the compositor has under way
    AppIdChanges,       \* may a window change its app_id?
    DoneAfterClosed     \* does the compositor send done after closed?

ASSUME CapAssumption == Cap \in Nat \ {0}
ASSUME MaxWireAssumption == MaxWire \in Nat
ASSUME NullAssumption == NoClass \notin Classes /\ NoWindow \notin Windows
ASSUME ChoiceAssumption == AppIdChanges \in BOOLEAN /\ DoneAfterClosed \in BOOLEAN

VARIABLES
    screen,     \* compositor: windows with their app_id, title and life
    active,     \* compositor: the window with the keyboard focus
    untold,     \* compositor: open windows it has yet to introduce to this client
    wire,       \* the messages on their way to the Wayland thread
    pending,    \* the module's `windows': what it knows of each handle
    chan        \* the event channel

tvars == <<screen, active, untold, wire, pending, chan>>

-----------------------------------------------------------------------------
(* Values *)

Life == {"unborn", "open", "gone"}

Screen == [life : Life, appId : Classes \cup {NoClass}, titled : BOOLEAN]

Pending == [type    : {"Opened", "StateChanged", "Closed"},
            appId   : Classes \cup {NoClass},
            titled  : BOOLEAN,
            focused : BOOLEAN]

Event == [type : {"Opened", "StateChanged", "Closed"}, win : Windows,
          class : Classes, focused : BOOLEAN]

OpenWindows == {w \in Windows : screen[w].life = "open"}

\* ToplevelPendingWindow::default
NewPending == [type |-> "Opened", appId |-> NoClass, titled |-> FALSE, focused |-> FALSE]

-----------------------------------------------------------------------------
(* The compositor: each action sends one batch. *)

AppIdMsg(w, c) == [msg |-> "app_id", win |-> w, class |-> c]
StateMsg(w, f) == [msg |-> "state", win |-> w, focused |-> f]
Msg(m, w)      == [msg |-> m, win |-> w]

Sends(batch) == Len(wire) + Len(batch) <= MaxWire /\ wire' = wire \o batch

\* The batch that introduces a window; the title may still be missing.
Introduction(w, c, titled, f) ==
    <<Msg("toplevel", w), AppIdMsg(w, c)>>
    \o (IF titled THEN <<Msg("title", w)>> ELSE <<>>)
    \o <<StateMsg(w, f), Msg("done", w)>>

Map(w, c, titled) ==
    /\ screen[w].life = "unborn"
    /\ screen' = [screen EXCEPT ![w] = [life |-> "open", appId |-> c, titled |-> titled]]
    /\ Sends(Introduction(w, c, titled, FALSE))
    /\ UNCHANGED active

SetTitle(w) ==
    /\ screen[w].life = "open"
    /\ screen' = [screen EXCEPT ![w].titled = TRUE]
    /\ Sends(<<Msg("title", w), Msg("done", w)>>)
    /\ UNCHANGED active

SetAppId(w, c) ==
    /\ AppIdChanges
    /\ screen[w].life = "open" /\ c # screen[w].appId
    /\ screen' = [screen EXCEPT ![w].appId = c]
    /\ Sends(<<AppIdMsg(w, c), Msg("done", w)>>)
    /\ UNCHANGED active

Focus(w, f) == <<StateMsg(w, f), Msg("done", w)>>

\* Moving the focus updates both windows, in an order of the compositor's.
Activate(w) ==
    /\ screen[w].life = "open" /\ active # w
    /\ active' = w
    /\ IF active = NoWindow THEN Sends(Focus(w, TRUE))
       ELSE \/ Sends(Focus(active, FALSE) \o Focus(w, TRUE))
            \/ Sends(Focus(w, TRUE) \o Focus(active, FALSE))
    /\ UNCHANGED screen

Deactivate ==
    /\ active # NoWindow
    /\ active' = NoWindow
    /\ Sends(Focus(active, FALSE))
    /\ UNCHANGED screen

Unmap(w) ==
    /\ screen[w].life = "open"
    /\ screen' = [screen EXCEPT ![w].life = "gone"]
    /\ active' = IF active = w THEN NoWindow ELSE active
    /\ Sends(<<Msg("closed", w)>> \o (IF DoneAfterClosed THEN <<Msg("done", w)>> ELSE <<>>))

WindowChange(w) ==
    \/ \E c \in Classes, titled \in BOOLEAN : Map(w, c, titled)
    \/ \E c \in Classes : SetAppId(w, c)
    \/ SetTitle(w)
    \/ Activate(w)
    \/ Unmap(w)

\* A new client is told of every open window, in an order of the compositor's.
Introduce(w) ==
    /\ w \in untold
    /\ untold' = untold \ {w}
    /\ Sends(Introduction(w, screen[w].appId, screen[w].titled, w = active))
    /\ UNCHANGED <<screen, active>>

\* The introductions answer one request: nothing changes on the screen meanwhile.
Change ==
    /\ untold = {}
    /\ (\E w \in Windows : WindowChange(w)) \/ Deactivate
    /\ UNCHANGED untold

Compositor ==
    /\ Change \/ \E w \in Windows : Introduce(w)
    /\ UNCHANGED <<pending, chan>>

-----------------------------------------------------------------------------
(* ToplevelModule: the handlers, one message at a time *)

Known(w) == w \in DOMAIN pending

\* with_pedding_window and get_pedding_window: a message for a handle the
\* module does not hold is ignored.
Update(w, p) == pending' = IF Known(w) THEN [pending EXCEPT ![w] = p] ELSE pending

\* insert_pending_event
HandleToplevel(m) ==
    /\ m.msg = "toplevel"
    /\ pending' = [w \in DOMAIN pending \cup {m.win} |->
                      IF w = m.win THEN NewPending ELSE pending[w]]
    /\ UNCHANGED chan

\* Faulty: the title starts the description anew
HandleTitleAfresh(m) ==
    /\ m.msg = "title"
    /\ Update(m.win, [NewPending EXCEPT !.titled = TRUE])
    /\ UNCHANGED chan

HandleTitle(m) ==
    /\ m.msg = "title"
    /\ Update(m.win, [pending[m.win] EXCEPT !.titled = TRUE])
    /\ UNCHANGED chan

HandleAppId(m) ==
    /\ m.msg = "app_id"
    /\ Update(m.win, [pending[m.win] EXCEPT !.appId = m.class])
    /\ UNCHANGED chan

HandleState(m) ==
    /\ m.msg = "state"
    /\ Update(m.win, [pending[m.win] EXCEPT !.focused = m.focused])
    /\ UNCHANGED chan

HandleClosed(m) ==
    /\ m.msg = "closed"
    /\ Update(m.win, [pending[m.win] EXCEPT !.type = "Closed"])
    /\ UNCHANGED chan

\* The module can name the window.
Described(w) == Known(w) /\ pending[w].appId # NoClass /\ pending[w].titled

\* Faulty: the channel has no bound
HasRoomAlways == TRUE

HasRoom == Len(chan) < Cap

Forgotten(w) == Restrict(pending, DOMAIN pending \ {w})

\* Faulty: a closed window is not removed
AfterReportKeepClosed(w) ==
    IF pending[w].type = "Opened" THEN [pending EXCEPT ![w].type = "StateChanged"] ELSE pending

\* Faulty: an opened window stays one that is to be announced
AfterReportKeepOpened(w) ==
    IF pending[w].type = "Closed" THEN Forgotten(w) ELSE pending

\* What the module holds after it has reported window w
AfterReport(w) ==
    CASE pending[w].type = "Opened"       -> [pending EXCEPT ![w].type = "StateChanged"]
      [] pending[w].type = "Closed"       -> Forgotten(w)
      [] pending[w].type = "StateChanged" -> pending

Report(w) == [type |-> pending[w].type, win |-> w, class |-> pending[w].appId,
              focused |-> pending[w].focused]

\* The channel send blocks the thread while the channel is full.
HandleDone(m) ==
    /\ m.msg = "done"
    /\ IF Described(m.win)
       THEN /\ HasRoom
            /\ chan' = Append(chan, Report(m.win))
            /\ pending' = AfterReport(m.win)
       ELSE UNCHANGED <<pending, chan>>

Dispatch ==
    /\ wire # <<>>
    /\ LET m == Head(wire)
       IN  \/ HandleToplevel(m) \/ HandleTitle(m) \/ HandleAppId(m)
           \/ HandleState(m) \/ HandleClosed(m) \/ HandleDone(m)
    /\ wire' = Tail(wire)
    /\ UNCHANGED <<screen, active, untold>>

\* The other end of the channel takes an event.
Receive ==
    /\ chan # <<>>
    /\ chan' = Tail(chan)
    /\ UNCHANGED <<screen, active, untold, wire, pending>>

\* The process dies, and a new one connects with nothing of the old one's.
Reconnect ==
    /\ untold' = OpenWindows
    /\ wire' = <<>>
    /\ pending' = <<>>
    /\ chan' = <<>>
    /\ UNCHANGED <<screen, active>>

\* Before the first connection nothing is on screen.
Init ==
    /\ screen = [w \in Windows |-> [life |-> "unborn", appId |-> NoClass, titled |-> FALSE]]
    /\ active = NoWindow
    /\ untold = {}
    /\ wire = <<>>
    /\ pending = <<>>
    /\ chan = <<>>

Next == Compositor \/ Dispatch \/ Receive \/ Reconnect

Spec == Init /\ [][Next]_tvars

-----------------------------------------------------------------------------
(* Properties *)

TypeOK ==
    /\ screen \in [Windows -> Screen]
    /\ active \in Windows \cup {NoWindow}
    /\ untold \subseteq OpenWindows
    /\ DOMAIN pending \subseteq Windows
    /\ \A w \in DOMAIN pending : pending[w] \in Pending
    /\ chan \in Seq(Event) /\ Len(chan) <= Cap

\* The compositor has said all there is to say, and the module has read it.
CaughtUp == untold = {} /\ wire = <<>>

\* What the module knows of a window catches up with the compositor whenever
\* it is caught up, although every piece arrived in a message of its own and
\* pieces of several windows alternate (module.rs:180-208).
KnowsOpenWindows ==
    CaughtUp =>
        \A w \in OpenWindows :
            /\ Known(w)
            /\ pending[w].appId = screen[w].appId
            /\ pending[w].titled = screen[w].titled
            /\ pending[w].focused = (w = active)
            /\ pending[w].type = (IF screen[w].titled THEN "StateChanged" ELSE "Opened")

\* The only handles held for windows that are gone are those that never had
\* both a title and an app_id (module.rs:77-79).
OnlyUnnamedHandlesStay ==
    wire = <<>> => \A w \in DOMAIN pending : screen[w].life = "gone" => ~screen[w].titled

=============================================================================
