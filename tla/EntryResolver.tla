---------------------------- MODULE EntryResolver ----------------------------
(***************************************************************************)
(* How the dock gets the icon and the command of an application: a cache   *)
(* of the entries appd has answered with, and one task on the GTK main     *)
(* loop per request (rain-dock/src/state/manager.rs, resolve_entry;        *)
(* rain-client/src/appd/entry.rs).                                         *)
(*                                                                         *)
(* A task holds on to the bucket object it was started for.  When that     *)
(* bucket leaves the dock, what the task sets on it is never seen, and a   *)
(* bucket made later for the same class has to get its icon otherwise.     *)
(***************************************************************************)
EXTENDS Naturals, FiniteSets, Sequences, SequencesExt

CONSTANTS Classes, NoEntry,
          NoBucket,     \* no bucket of the class on the dock
          MaxTasks      \* bound on the requests in flight

VARIABLES proxy,        \* "connecting", "connected" or "failed" (appd_proxy)
          cache,        \* app_entries_cache: class -> entry or NoEntry
          icon,         \* class -> the app_icon of its bucket, or NoBucket
          tasks         \* the requests in flight, in the order of their start

rvars == <<proxy, cache, icon, tasks>>

OnDock == {c \in Classes : icon[c] # NoBucket}

Unresolved == {c \in OnDock : cache[c] = NoEntry}

GenericIcon == "application-x-executable"

DefaultEntry(c) == [name |-> c, icon |-> GenericIcon, exec |-> <<>>]

\* A themed icon is a sequence of names to look for; a class is taken to be in lower
\* case already.
ResolveIconFromClass(c) ==
    IF cache[c] # NoEntry THEN <<cache[c].icon>> ELSE <<c, GenericIcon>>

\* The task for the bucket of class c; shown: that bucket is still on the dock
Task(c) == [class |-> c, shown |-> TRUE, stage |-> "spawned", reply |-> NoEntry]

\* Faulty variant: no second request for a class while one is in flight
ResolveEntryOnce(c, ts) ==
    IF cache[c] # NoEntry \/ \E i \in DOMAIN ts : ts[i].class = c THEN ts ELSE Append(ts, Task(c))

\* The tasks after resolve_entry for class c
ResolveEntry(c, ts) == IF cache[c] # NoEntry THEN ts ELSE Append(ts, Task(c))

ResolverInit ==
    /\ proxy = "connecting"
    /\ cache = [c \in Classes |-> NoEntry]
    /\ icon = [c \in Classes |-> NoBucket]
    /\ tasks = <<>>

\* The first window of c, or a pin of a class that is not on the dock
AddBucket(c) ==
    /\ c \notin OnDock /\ Len(tasks) < MaxTasks
    /\ icon' = [icon EXCEPT ![c] = ResolveIconFromClass(c)]
    /\ tasks' = ResolveEntry(c, tasks)
    /\ UNCHANGED <<proxy, cache>>

\* A pin, an unpin or a drop inserts the same bucket again.
ReinsertBucket(c) ==
    /\ c \in OnDock /\ Len(tasks) < MaxTasks
    /\ tasks' = ResolveEntry(c, tasks)
    /\ UNCHANGED <<proxy, cache, icon>>

Orphaned(c, ts) ==
    [i \in DOMAIN ts |-> IF ts[i].class = c THEN [ts[i] EXCEPT !.shown = FALSE] ELSE ts[i]]

\* The last window of an unpinned bucket closes, or an empty bucket is unpinned.
RemoveBucket(c) ==
    /\ c \in OnDock
    /\ icon' = [icon EXCEPT ![c] = NoBucket]
    /\ tasks' = Orphaned(c, tasks)
    /\ UNCHANGED <<proxy, cache>>

\* The connection to the session bus succeeds or fails; nobody tries again.
ConnectFails ==
    /\ proxy = "connecting"
    /\ proxy' = "failed"
    /\ UNCHANGED <<cache, icon, tasks>>

\* Faulty variant: nothing is asked again.
SetAppdProxyNoRetry ==
    /\ proxy = "connecting"
    /\ Len(tasks) + Cardinality(Unresolved) =< MaxTasks
    /\ proxy' = "connected"
    /\ UNCHANGED <<cache, icon, tasks>>

\* set_appd_proxy asks again for every bucket on the dock that has no entry,
\* pinned or free, in the order in which they stand there.
SetAppdProxy ==
    /\ proxy = "connecting"
    /\ Len(tasks) + Cardinality(Unresolved) =< MaxTasks
    /\ proxy' = "connected"
    /\ \E order \in SetToSeqs(Unresolved) :
         tasks' = tasks \o [i \in DOMAIN order |-> Task(order[i])]
    /\ UNCHANGED <<cache, icon>>

\* The main loop polls the tasks in the order of their start.
NextSpawned(i) ==
    /\ tasks[i].stage = "spawned"
    /\ \A j \in 1 .. i - 1 : tasks[j].stage # "spawned"

\* Without a connection a task gives up, else it sends its request.
PollTask ==
    /\ \E i \in DOMAIN tasks :
        /\ NextSpawned(i)
        /\ tasks' = IF proxy = "connected" THEN [tasks EXCEPT ![i].stage = "asked"]
                    ELSE RemoveAt(tasks, i)
    /\ UNCHANGED <<proxy, cache, icon>>

\* Task i is answered with entry e, or with an error if e is NoEntry.
Answered(i, e) ==
    /\ tasks[i].stage = "asked"
    /\ tasks' = [tasks EXCEPT ![i].stage = "answered", ![i].reply = e]
    /\ UNCHANGED <<proxy, cache, icon>>

\* Faulty variant: an error is not cached.
ResumeKeepError(i) ==
    LET t == tasks[i] IN
    /\ t.stage = "answered"
    /\ IF t.reply # NoEntry
       THEN /\ icon' = IF t.shown THEN [icon EXCEPT ![t.class] = <<t.reply.icon>>] ELSE icon
            /\ cache' = [cache EXCEPT ![t.class] = t.reply]
       ELSE UNCHANGED <<icon, cache>>
    /\ tasks' = RemoveAt(tasks, i)
    /\ UNCHANGED proxy

\* The task goes on: an entry sets the icon of its bucket and is cached; an error
\* caches a default entry and leaves the icon alone.
Resume(i) ==
    LET t == tasks[i] IN
    /\ t.stage = "answered"
    /\ \/ /\ t.reply # NoEntry
          /\ icon' = IF t.shown THEN [icon EXCEPT ![t.class] = <<t.reply.icon>>] ELSE icon
          /\ cache' = [cache EXCEPT ![t.class] = t.reply]
       \/ /\ t.reply = NoEntry
          /\ cache' = [cache EXCEPT ![t.class] = DefaultEntry(t.class)]
          /\ UNCHANGED icon
    /\ tasks' = RemoveAt(tasks, i)
    /\ UNCHANGED proxy

=============================================================================
