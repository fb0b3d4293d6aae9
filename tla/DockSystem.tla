------------------------------ MODULE DockSystem ------------------------------
(***************************************************************************)
(* The dock at the end of the pipeline that feeds it: the compositor, the  *)
(* toplevel module of the Wayland thread and the event channel (Toplevel)  *)
(* composed with the dock's state (DockState), which takes the events from *)
(* the channel one by one on the GTK main loop                             *)
(* (rain-dock/src/state/manager.rs, recv_wayland_events).                  *)
(*                                                                         *)
(* DockState alone accepts any event a window of any class may cause; here *)
(* the events are those the compositor and the module produce, so what the *)
(* dock shows can be compared with what is on the screen.                  *)
(***************************************************************************)
EXTENDS Integers, FiniteSets, SequencesExt

CONSTANTS Classes, Windows, NoClass, NoWindow, NoMenu,
          Cap, MaxWire, AppIdChanges, DoneAfterClosed, InitFiles, MaxSaves

ASSUME PipelineAssumption ==
    /\ Cap \in Nat \ {0} /\ MaxWire \in Nat
    /\ NoClass \notin Classes /\ NoWindow \notin Windows
    /\ AppIdChanges \in BOOLEAN /\ DoneAfterClosed \in BOOLEAN

ASSUME DockAssumption ==
    /\ NoMenu \notin [class : Classes, isPinned : BOOLEAN]
    /\ InitFiles \subseteq Seq(Classes)
    /\ MaxSaves \in Nat

VARIABLES screen, active, untold, wire, pending, chan,
          dock, announced, toLoad, menu, drag, file, saves

Wl   == INSTANCE Toplevel
Dock == INSTANCE DockState

wlvars   == <<screen, active, untold, wire, pending, chan>>
dockvars == <<dock, announced, toLoad, menu, drag, file, saves>>
vars     == <<wlvars, dockvars>>

Init == Wl!Init /\ Dock!Init

\* recv_wayland_events takes one event and applies it in the same callback.
Deliver ==
    /\ chan # <<>>
    /\ LET e == Head(chan)
       IN  \/ e.type = "Opened" /\ Dock!Opened(e.class, e.win, e.focused)
           \/ e.type = "StateChanged" /\ Dock!StateChanged(e.class, e.win, e.focused)
           \/ e.type = "Closed" /\ Dock!Closed(e.class, e.win)
    /\ Wl!Receive

WaylandStep == (Wl!Compositor \/ Wl!Dispatch) /\ UNCHANGED dockvars

SaveStep == \E i \in DOMAIN saves : Dock!CompleteSave(i) \/ Dock!FailSave(i)

DockStep ==
    /\ Dock!LoadNext \/ Dock!UseMenu \/ Dock!UseDrag \/ SaveStep
    /\ UNCHANGED wlvars

\* A new process starts from the file, on a connection of its own.
Restart == Dock!Restart /\ Wl!Reconnect

Next == WaylandStep \/ Deliver \/ DockStep \/ Restart

Spec == Init /\ [][Next]_vars

-----------------------------------------------------------------------------
(* Properties *)

\* The module reports a window to the dock as Opened once, before all else, and
\* reports nothing after Closed: the assumption under which DockState models the
\* handlers of the events (module.rs:75-120).
EventsLegal ==
    chan # <<>> =>
        LET e == Head(chan) IN (e.win \in announced) <=> (e.type # "Opened")

\* Everything the compositor said has been applied.
Quiet == Wl!CaughtUp /\ chan = <<>> /\ Dock!Running

\* The windows of class c that the compositor has described in full
Shown(c) == {w \in Wl!OpenWindows : screen[w].titled /\ screen[w].appId = c}

\* When the pipeline is empty the dock shows exactly the windows on the screen,
\* whatever the user did to the buckets meanwhile: a Closed event finds the
\* bucket its Opened event filled (manager.rs:125-152, 190-206).
WindowsConverge == Quiet => \A c \in Classes : Dock!WinsOf(dock, c) = Shown(c)

\* ... and the dock marks as active the one window that has the focus, which is
\* what a click asks before it minimizes a window (bucket.rs:135-151).
ActiveConverges ==
    Quiet =>
        \A c \in Classes : Dock!Located(dock, c) =>
            Dock!FindBucket(dock, c).active = Shown(c) \cap {active}

\* When the dock says that an application has the focus, it has: pins, drags,
\* closings and the two events of a focus change, in either order, never leave
\* bucket_focused with an application that has lost it (manager.rs:677-720).
FocusTruthful ==
    Quiet /\ dock.focus # NoClass => active \in Shown(dock.focus)

\* When the pipeline is empty, the one bucket drawn as focused is that of the
\* active window, and none is when no window is active: change_focus is to
\* "Change the dock's focus" (manager.rs:676-720).
FocusShown ==
    Quiet =>
        \A c \in Classes : Dock!Located(dock, c) =>
            (Dock!FindBucket(dock, c).isFocused <=> active \in Shown(c))

=============================================================================
