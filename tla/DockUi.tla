-------------------------------- MODULE DockUi --------------------------------
(***************************************************************************)
(* What the user sees of a bucket and does with it: the icon and the       *)
(* command that appd provides (Appd, EntryResolver) and the bar and menus  *)
(* through which the bucket is reached (AutoHide).                         *)
(*                                                                         *)
(* The buckets come, move and go as DockState makes them, here in any      *)
(* order.  Everything of the dock runs on the GTK main loop, one callback  *)
(* at a time; the daemon is another process.                               *)
(***************************************************************************)
EXTENDS Naturals, FiniteSets, Sequences, SequencesExt

CONSTANTS Classes, NoEntry, NoBucket, NoClass, ChannelCap, FilesOnDisk, MaxTasks

VARIABLES scan, queue, index,
          proxy, cache, icon, tasks,
          pointer, revealed, popover, popupIsOpen,
          misled,       \* the classes appd has failed to answer for, or has
                        \* answered for before it had read all their files
          launched      \* the program and arguments run last, and for which class

Daemon   == INSTANCE Appd
Resolver == INSTANCE EntryResolver
Bar      == INSTANCE AutoHide

appdvars == <<scan, queue, index>>
rvars    == <<proxy, cache, icon, tasks>>
hvars    == <<pointer, revealed, popover, popupIsOpen>>
vars     == <<appdvars, rvars, hvars, misled, launched>>

Files == UNION {Range(s) : s \in FilesOnDisk}

Dtos == {Daemon!FromEntry(f) : f \in Files} \cup {Resolver!DefaultEntry(c) : c \in Classes}

Icons == {<<e.icon>> : e \in Dtos} \cup {<<c, Resolver!GenericIcon>> : c \in Classes}

ASSUME BoundsAssumption == ChannelCap \in Nat \ {0} /\ MaxTasks \in Nat
ASSUME FilesAssumption ==
    \A s \in FilesOnDisk : s \in Seq(Range(s)) /\ \A f \in Range(s) : f.id \in Classes
\* What stands for "none" is none of the values it is told apart from.
ASSUME NoneAssumption ==
    NoEntry \notin Files \cup Dtos /\ NoBucket \notin Icons /\ NoClass \notin Classes

Init ==
    /\ Daemon!AppdInit /\ Resolver!ResolverInit /\ Bar!HideInit
    /\ misled = {}
    /\ launched = [class |-> NoClass, words |-> <<>>]

-----------------------------------------------------------------------------
(* The daemon and the session bus *)

DaemonIndexes == (Daemon!Provide \/ Daemon!Consume) /\ UNCHANGED <<rvars, hvars, misled, launched>>

\* Requests are served concurrently, in any order.
Answer(i) ==
    /\ Resolver!Answered(i, Daemon!GetEntry(tasks[i].class))
    /\ misled' = IF Daemon!Unindexed(tasks[i].class) = {}
                 THEN misled ELSE misled \cup {tasks[i].class}
    /\ UNCHANGED <<appdvars, hvars, launched>>

\* No daemon under its name, or a lost connection: the call returns an error.
CallFails(i) ==
    /\ Resolver!Answered(i, NoEntry)
    /\ misled' = misled \cup {tasks[i].class}
    /\ UNCHANGED <<appdvars, hvars, launched>>

-----------------------------------------------------------------------------
(* The dock's main loop *)

Connect ==
    /\ Resolver!SetAppdProxy \/ Resolver!ConnectFails
    /\ UNCHANGED <<appdvars, hvars, misled, launched>>

Poll == Resolver!PollTask /\ UNCHANGED <<appdvars, hvars, misled, launched>>

Resume(i) == Resolver!Resume(i) /\ UNCHANGED <<appdvars, hvars, misled, launched>>

Appear(c) == Resolver!AddBucket(c) /\ UNCHANGED <<appdvars, hvars, misled, launched>>

\* A bucket changes its place or leaves: the item it had is unbound.
Disappear(c) ==
    /\ Resolver!ReinsertBucket(c) \/ Resolver!RemoveBucket(c)
    /\ Bar!Unbind(c)
    /\ UNCHANGED <<appdvars, misled, launched>>

UsePointer ==
    /\ \/ Bar!Enter(Resolver!OnDock)
       \/ Bar!Leave
       \/ \E c \in Resolver!OnDock : Bar!RightClick(c)
       \/ popover # NoClass /\ Bar!Popdown
    /\ UNCHANGED <<appdvars, rvars, misled, launched>>

\* The pin button moves the bucket, or removes it, and pops its menu down.
PinButton ==
    /\ popover # NoClass
    /\ Resolver!ReinsertBucket(popover) \/ Resolver!RemoveBucket(popover)
    /\ Bar!Popdown
    /\ UNCHANGED <<appdvars, misled, launched>>

\* "Open New Window" launches what the cache holds when it is clicked; without
\* an entry it only warns.
OpenNewWindow ==
    /\ popover # NoClass
    /\ launched' = IF cache[popover] = NoEntry THEN launched
                   ELSE [class |-> popover, words |-> Daemon!LaunchWithGtk(cache[popover])]
    /\ Bar!Popdown
    /\ UNCHANGED <<appdvars, rvars, misled>>

UserStep ==
    \/ UsePointer \/ PinButton \/ OpenNewWindow
    \/ \E c \in Classes : Appear(c) \/ Disappear(c)

TaskStep == Poll \/ \E i \in DOMAIN tasks : Resume(i)

BusStep == \E i \in DOMAIN tasks : Answer(i) \/ CallFails(i)

Next == DaemonIndexes \/ BusStep \/ Connect \/ TaskStep \/ UserStep

\* The main loop polls every task that is ready, and the bus answers every call:
\* with the daemon's reply, or with an error when the daemon is gone.
Fairness == WF_vars(TaskStep) /\ WF_vars(BusStep)

Spec == Init /\ [][Next]_vars /\ Fairness

-----------------------------------------------------------------------------
(* Properties *)

Requests == [class : Classes, shown : BOOLEAN, stage : {"spawned", "asked", "answered"},
             reply : Dtos \cup {NoEntry}]

\* Every variable has its type, and the channel and the requests their bounds.
TypeOK ==
    /\ scan \in UNION {Suffixes(s) : s \in FilesOnDisk}
    /\ queue \in BoundedSeq(Files, ChannelCap)
    /\ index \in [Classes -> Files \cup {NoEntry}]
    /\ proxy \in {"connecting", "connected", "failed"}
    /\ cache \in [Classes -> Dtos \cup {NoEntry}]
    /\ icon \in [Classes -> Icons \cup {NoBucket}]
    /\ tasks \in Seq(Requests) /\ Len(tasks) =< MaxTasks
    /\ \A i \in DOMAIN tasks : tasks[i].shown => tasks[i].class \in Resolver!OnDock
    /\ pointer \in {"in", "out"} /\ revealed \in BOOLEAN
    /\ popover \in Classes \cup {NoClass} /\ popupIsOpen \in BOOLEAN
    /\ misled \subseteq Classes

\* Once appd is connected no bucket on the dock is forgotten: its class is cached
\* or a request for this very bucket is on its way, however the connection and
\* the tasks started before it interleave (manager.rs:405-448, 591-622).
NobodyForgotten ==
    proxy = "connected" =>
        \A c \in Resolver!OnDock :
            \/ cache[c] # NoEntry
            \/ \E i \in DOMAIN tasks : tasks[i].class = c /\ tasks[i].shown

\* When all requests are done, a bucket has the icon, and the cache the entry,
\* that the daemon has for its class, although the bucket may have left, come
\* back and moved while several requests for it were on their way, and their
\* answers came in any order.  A class without desktop file keeps a generic icon.
\* Only a class that the daemon failed to answer for, or answered for too early,
\* may differ (manager.rs:405-448, state.rs:86-97).
IconsSettle ==
    proxy = "connected" /\ tasks = <<>> =>
        \A c \in Resolver!OnDock \ misled :
            LET e == Daemon!GetEntry(c)
            IN  IF e = NoEntry
                THEN Resolver!GenericIcon \in Range(icon[c])
                ELSE icon[c] = <<e.icon>> /\ cache[c] = e

Codes == {"u", "U", "f", "F", "c", "i"}

\* A command as the desktop files have it: a % stands only before one of the
\* codes above, and a name is a whole token.
WellFormedCommands ==
    \A f \in Files : f.exec # Daemon!NoField =>
        /\ f.exec \in Seq(Range(f.exec)) /\ Daemon!Field(f.name) # "%"
        /\ \A i \in DOMAIN f.exec :
             f.exec[i] = "%" => i < Len(f.exec) /\ f.exec[i + 1] \in Codes

\* What a desktop file's command stands for, code by code from the left
CodeText(f, code) ==
    IF code = "c" THEN <<Daemon!Field(f.name)>>
    ELSE IF code = "i" /\ Daemon!Field(f.icon) # "" THEN <<"--icon", " ", f.icon>>
    ELSE <<>>

Expansion(f) ==
    LET from[i \in 1..Len(f.exec) + 2] ==
            IF i > Len(f.exec) THEN <<>>
            ELSE IF f.exec[i] = "%" THEN CodeText(f, f.exec[i + 1]) \o from[i + 2]
            ELSE <<f.exec[i]>> \o from[i + 1]
    IN from[1]

\* A launch runs the command of a desktop file of the class, each code in it
\* replaced by what it stands for and none made by the replacement of another,
\* and no word of it is empty; the default entry launches nothing
\* (app.rs:104-220, popover_menu.rs:247-257).
LaunchesAsWritten ==
    launched.words # <<>> =>
        \E f \in Files :
            /\ f.id = launched.class /\ f.exec # Daemon!NoField
            /\ launched.words = Daemon!SplitWhitespace(Expansion(f))

\* A menu is only ever open on a bucket that is on the dock and on a bar that is
\* out, with the flag set that keeps the bar out when the pointer leaves it for
\* the menu (bar.rs:61-79, factory.rs:73-88, 229-235).
MenuOnShownBar ==
    popover # NoClass => popover \in Resolver!OnDock /\ revealed /\ popupIsOpen

\* Once appd is connected, every bucket's class gets its entry, real or default.
EntriesResolve ==
    \A c \in Classes :
        proxy = "connected" /\ c \in Resolver!OnDock ~> cache[c] # NoEntry

=============================================================================
