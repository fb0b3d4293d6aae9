----------------------------- MODULE DockUi_proofs -----------------------------
(***************************************************************************)
(* Proofs about DockUi, for any classes, desktop files and bounds.         *)
(*                                                                         *)
(* IInv is inductive and has all but one of the safety properties.  That   *)
(* launches run what the desktop files say (LaunchesAsWritten) has two     *)
(* parts of its own: what the chain of replacements makes of a command     *)
(* (Commands, up to SanitizedIsExpansion), and that whatever the daemon,   *)
(* its replies and the cache hold for a class is of that class (OwnInv).   *)
(***************************************************************************)
EXTENDS DockUi, SequenceFacts, FiniteSetTheorems, TLAPS

OnDock == Resolver!OnDock

\* The requests in flight: their order is nothing the invariant speaks of.
Pending == Range(tasks)

\* A request for the bucket that class c has now is on its way.
Requested(c) == \E t \in Pending : t.class = c /\ t.shown

\* The daemon has read every file of class c: what it answers is final.
Indexed(c) == Daemon!Unindexed(c) = {}

\* What the cache ends up with for class c
Final(c) == IF Daemon!GetEntry(c) = NoEntry THEN Resolver!DefaultEntry(c) ELSE Daemon!GetEntry(c)

\* TypeOK by component
DaemonTyped ==
    /\ scan \in UNION {Suffixes(s) : s \in FilesOnDisk}
    /\ queue \in BoundedSeq(Files, ChannelCap)
    /\ index \in [Classes -> Files \cup {NoEntry}]

ResolverTyped ==
    /\ proxy \in {"connecting", "connected", "failed"}
    /\ cache \in [Classes -> Dtos \cup {NoEntry}]
    /\ icon \in [Classes -> Icons \cup {NoBucket}]
    /\ tasks \in Seq(Requests) /\ Len(tasks) =< MaxTasks
    /\ \A t \in Pending : t.shown => t.class \in OnDock
    /\ misled \subseteq Classes

BarTyped ==
    /\ pointer \in {"in", "out"} /\ revealed \in BOOLEAN
    /\ popover \in Classes \cup {NoClass} /\ popupIsOpen \in BOOLEAN

\* Nothing is asked, and so nothing known, before the connection.
NothingAsked ==
    proxy # "connected" =>
        /\ \A c \in Classes : cache[c] = NoEntry
        /\ \A t \in Pending : t.stage = "spawned"

\* An answer to a class that is not misled is the daemon's last word on it, ...
RepliesFinal ==
    \A t \in Pending :
        t.stage = "answered" /\ t.class \notin misled =>
            Indexed(t.class) /\ t.reply = Daemon!GetEntry(t.class)

\* ... and so is what the cache has of it.
CacheFinal ==
    \A c \in Classes \ misled : cache[c] # NoEntry => Indexed(c) /\ cache[c] = Final(c)

\* An icon is the generic one of its class or that of the cached entry.
IconsKnown ==
    \A c \in OnDock \ misled :
        \/ icon[c] = <<c, Resolver!GenericIcon>>
        \/ cache[c] # NoEntry /\ icon[c] = <<cache[c].icon>>

\* Once connected, an icon is settled or a request will settle it.
IconsUnderWay ==
    proxy = "connected" =>
        \A c \in OnDock \ misled :
            \/ Requested(c)
            \/ cache[c] # NoEntry /\ (icon[c] = <<cache[c].icon>> \/ Daemon!GetEntry(c) = NoEntry)

\* NobodyForgotten, of the requests as a set
AllRequested == proxy = "connected" => \A c \in OnDock : cache[c] # NoEntry \/ Requested(c)

\* The part of the invariant that the bar has nothing to do with
EntriesInv ==
    /\ ResolverTyped
    /\ IsFiniteSet(OnDock)
    /\ NothingAsked /\ RepliesFinal /\ CacheFinal
    /\ IconsKnown /\ IconsUnderWay /\ AllRequested

IInv == DaemonTyped /\ EntriesInv /\ BarTyped /\ MenuOnShownBar

-----------------------------------------------------------------------------
(* What the properties are, in terms of the invariant *)

LEMMA PendingByIndex ==
    ASSUME ResolverTyped
    PROVE  /\ \A i \in DOMAIN tasks : tasks[i] \in Pending /\ tasks[i] \in Requests
           /\ \A t \in Pending : t \in Requests /\ \E i \in DOMAIN tasks : tasks[i] = t
           /\ Len(tasks) \in Nat /\ DOMAIN tasks = 1 .. Len(tasks)
<1>1. tasks \in Seq(Requests)
  BY DEF ResolverTyped
<1>2. Len(tasks) \in Nat /\ DOMAIN tasks = 1 .. Len(tasks)
  BY <1>1, LenProperties
<1>3. \A i \in DOMAIN tasks : tasks[i] \in Requests
  BY <1>1, <1>2, ElementOfSeq
<1>4. /\ \A i \in DOMAIN tasks : tasks[i] \in Pending
      /\ \A t \in Pending : \E i \in DOMAIN tasks : tasks[i] = t
  BY DEF Pending, Range
<1> QED BY <1>2, <1>3, <1>4

LEMMA TypeOKByParts == ASSUME DaemonTyped, ResolverTyped, BarTyped PROVE TypeOK
<1>1. \A i \in DOMAIN tasks : tasks[i].shown => tasks[i].class \in Resolver!OnDock
  BY PendingByIndex DEF ResolverTyped, OnDock
<1> QED BY <1>1 DEF TypeOK, DaemonTyped, ResolverTyped, BarTyped

LEMMA NobodyForgottenBySets == ASSUME ResolverTyped, AllRequested PROVE NobodyForgotten
<1> SUFFICES ASSUME proxy = "connected", NEW c \in Resolver!OnDock, cache[c] = NoEntry
             PROVE  \E i \in DOMAIN tasks : tasks[i].class = c /\ tasks[i].shown
  BY DEF NobodyForgotten
<1>1. PICK t \in Pending : t.class = c /\ t.shown
  BY DEF AllRequested, Requested, OnDock
<1> QED BY <1>1, PendingByIndex

-----------------------------------------------------------------------------
(* The operators of the library are the same in an instance. *)
LEMMA InstanceOperators ==
    /\ \A S : Resolver!Cardinality(S) = Cardinality(S)
    /\ \A S : Resolver!SetToSeqs(S) = SetToSeqs(S)
    /\ \A s, i : Resolver!RemoveAt(s, i) = RemoveAt(s, i)
    /\ \A s : Daemon!Range(s) = Range(s)
<1>1. \A S : Resolver!Cardinality(S) = Cardinality(S)
  BY DEF Resolver!Cardinality, Cardinality
<1>2. \A S : Resolver!SetToSeqs(S) = SetToSeqs(S)
  BY <1>1 DEF Resolver!SetToSeqs, SetToSeqs
<1>3. \A s, i : Resolver!RemoveAt(s, i) = RemoveAt(s, i)
  BY DEF Resolver!RemoveAt, RemoveAt
<1>4. \A s : Daemon!Range(s) = Range(s)
  BY DEF Daemon!Range, Range
<1> QED BY <1>1, <1>2, <1>3, <1>4

-----------------------------------------------------------------------------
(* Values and what stands for none *)

LEMMA Values ==
    /\ NoEntry \notin Dtos /\ NoBucket \notin Icons
    /\ \A c \in Classes :
        /\ Resolver!DefaultEntry(c) \in Dtos
        /\ Resolver!DefaultEntry(c).icon = Resolver!GenericIcon
        /\ <<c, Resolver!GenericIcon>> \in Icons
    /\ \A e \in Dtos : <<e.icon>> \in Icons
    /\ \A f \in Files : Daemon!FromEntry(f) \in Dtos /\ f.id \in Classes
<1>1. NoEntry \notin Dtos /\ NoBucket \notin Icons
  BY NoneAssumption
<1>2. \A c \in Classes :
        /\ Resolver!DefaultEntry(c) \in Dtos
        /\ Resolver!DefaultEntry(c).icon = Resolver!GenericIcon
        /\ <<c, Resolver!GenericIcon>> \in Icons
  BY DEF Dtos, Icons, Resolver!DefaultEntry
<1>3. \A e \in Dtos : <<e.icon>> \in Icons
  BY DEF Icons
<1>4. \A f \in Files : Daemon!FromEntry(f) \in Dtos /\ f.id \in Classes
  BY FilesAssumption DEF Dtos, Files
<1> QED BY <1>1, <1>2, <1>3, <1>4

LEMMA GetEntryTyped ==
    ASSUME DaemonTyped, NEW c \in Classes
    PROVE  Daemon!GetEntry(c) \in Dtos \cup {NoEntry}
<1>1. index[c] \in Files \cup {NoEntry}
  BY DEF DaemonTyped
<1> QED BY <1>1, Values DEF Daemon!GetEntry

LEMMA TaskTyped ==
    ASSUME NEW c \in Classes
    PROVE  /\ Resolver!Task(c) \in Requests
           /\ Resolver!Task(c).class = c /\ Resolver!Task(c).shown
           /\ Resolver!Task(c).stage = "spawned"
BY DEF Resolver!Task, Requests

LEMMA RequestFields ==
    ASSUME NEW t \in Requests
    PROVE  /\ t.class \in Classes /\ t.shown \in BOOLEAN
           /\ t.stage \in {"spawned", "asked", "answered"} /\ t.reply \in Dtos \cup {NoEntry}
BY DEF Requests

-----------------------------------------------------------------------------
(* How the requests change *)

LEMMA RequestAppended ==
    ASSUME ResolverTyped, NEW t \in Requests, tasks' = Append(tasks, t)
    PROVE  /\ tasks' \in Seq(Requests) /\ Len(tasks') = Len(tasks) + 1
           /\ Pending' = Pending \cup {t}
<1>1. tasks \in Seq(Requests)
  BY DEF ResolverTyped
<1>2. /\ Len(tasks) \in Nat /\ DOMAIN tasks = 1 .. Len(tasks)
      /\ tasks' \in Seq(Requests) /\ Len(tasks') = Len(tasks) + 1
      /\ DOMAIN tasks' = 1 .. Len(tasks) + 1
      /\ \A i \in 1 .. Len(tasks) : tasks'[i] = tasks[i]
      /\ tasks'[Len(tasks) + 1] = t
  BY <1>1, AppendFacts
<1>3. DOMAIN tasks' = DOMAIN tasks \cup {Len(tasks) + 1}
  BY <1>2
<1>4. Pending' = {tasks'[i] : i \in DOMAIN tasks'} /\ Pending = {tasks[i] : i \in DOMAIN tasks}
  BY DEF Pending, Range
<1> QED BY <1>2, <1>3, <1>4

LEMMA RequestsAppended ==
    ASSUME ResolverTyped, NEW s \in Seq(Requests), tasks' = tasks \o s
    PROVE  /\ tasks' \in Seq(Requests) /\ Len(tasks') = Len(tasks) + Len(s)
           /\ Pending' = Pending \cup Range(s)
<1>1. tasks \in Seq(Requests)
  BY DEF ResolverTyped
<1>2. tasks' \in Seq(Requests) /\ Len(tasks') = Len(tasks) + Len(s)
  BY <1>1, ConcatProperties
<1>3. Range(tasks') = Range(tasks) \cup Range(s)
  BY <1>1, RangeConcatenation
<1> QED BY <1>2, <1>3 DEF Pending

LEMMA RequestReplaced ==
    ASSUME ResolverTyped, NEW i \in DOMAIN tasks, NEW u \in Requests, tasks' = [tasks EXCEPT ![i] = u]
    PROVE  /\ tasks' \in Seq(Requests) /\ Len(tasks') = Len(tasks)
           /\ u \in Pending' /\ Pending' \subseteq Pending \cup {u}
           /\ \A t \in Pending : t # tasks[i] => t \in Pending'
<1>1. tasks \in Seq(Requests)
  BY DEF ResolverTyped
<1>2. Len(tasks) \in Nat /\ DOMAIN tasks = 1 .. Len(tasks)
  BY <1>1, LenProperties
<1>3. tasks' \in Seq(Requests) /\ Len(tasks') = Len(tasks)
  BY <1>1, <1>2, ExceptSeq
<1>4. /\ DOMAIN tasks' = DOMAIN tasks /\ tasks'[i] = u
      /\ \A j \in DOMAIN tasks : j # i => tasks'[j] = tasks[j]
  OBVIOUS
<1>5. Pending' = {tasks'[j] : j \in DOMAIN tasks'} /\ Pending = {tasks[j] : j \in DOMAIN tasks}
  BY DEF Pending, Range
<1> QED BY <1>3, <1>4, <1>5

LEMMA RequestRemoved ==
    ASSUME ResolverTyped, NEW i \in DOMAIN tasks, tasks' = RemoveAt(tasks, i)
    PROVE  /\ tasks' \in Seq(Requests) /\ Len(tasks') = Len(tasks) - 1
           /\ Pending' \subseteq Pending
           /\ \A t \in Pending : t # tasks[i] => t \in Pending'
<1>1. tasks \in Seq(Requests)
  BY DEF ResolverTyped
<1>2. /\ tasks' \in Seq(Requests) /\ Len(tasks') = Len(tasks) - 1
      /\ \A j \in DOMAIN tasks' : \E k \in DOMAIN tasks : k # i /\ tasks'[j] = tasks[k]
      /\ \A k \in DOMAIN tasks : k # i => \E j \in DOMAIN tasks' : tasks'[j] = tasks[k]
  BY <1>1, RemoveAtKeeps
<1>3. Pending' = {tasks'[j] : j \in DOMAIN tasks'} /\ Pending = {tasks[j] : j \in DOMAIN tasks}
  BY DEF Pending, Range
<1> QED BY <1>2, <1>3

\* What the invariant says of the daemon stays true while the daemon rests.
LEMMA DaemonRests ==
    ASSUME UNCHANGED <<scan, queue, index>>, NEW c
    PROVE  /\ (Daemon!GetEntry(c))' = Daemon!GetEntry(c)
           /\ (Final(c))' = Final(c)
           /\ (Indexed(c))' <=> Indexed(c)
<1>1. (Daemon!GetEntry(c))' = Daemon!GetEntry(c)
  BY DEF Daemon!GetEntry
<1>2. (Daemon!Unindexed(c))' = Daemon!Unindexed(c)
  BY DEF Daemon!Unindexed
<1> QED BY <1>1, <1>2 DEF Final, Indexed

\* The dock asks for the classes of A: those of new buckets that have no entry
\* must be among them, and all the dock's when the connection comes.
LEMMA AskedFor ==
    ASSUME EntriesInv, UNCHANGED <<cache, misled, scan, queue, index>>,
           NEW A \in SUBSET Classes,
           tasks' \in Seq(Requests), Len(tasks') =< MaxTasks,
           Pending' = Pending \cup {Resolver!Task(c) : c \in A},
           icon' \in [Classes -> Icons \cup {NoBucket}],
           proxy' \in {"connecting", "connected", "failed"},
           IsFiniteSet(OnDock'), OnDock \subseteq OnDock', A \subseteq OnDock',
           \A c \in OnDock : icon'[c] = icon[c],
           \A c \in OnDock' : c \notin OnDock =>
             icon'[c] = Resolver!ResolveIconFromClass(c) /\ (cache[c] = NoEntry => c \in A),
           proxy' = "connected" => proxy = "connected" \/ OnDock \subseteq A,
           proxy = "connected" => proxy' = "connected"
    PROVE  EntriesInv'
<1>1. \A c \in A : /\ Resolver!Task(c) \in Pending'
                   /\ Resolver!Task(c).class = c /\ Resolver!Task(c).shown
                   /\ Resolver!Task(c).stage = "spawned"
  BY TaskTyped
<1>2. \A t \in Pending' : t \in Pending \/ \E c \in A : t = Resolver!Task(c)
  OBVIOUS
<1>3. Pending \subseteq Pending'
  OBVIOUS
<1>4. \A c : Requested(c) => (Requested(c))'
  BY <1>3 DEF Requested
<1>5. \A c \in A : (Requested(c))'
  BY <1>1 DEF Requested
<1>6. ResolverTyped'
  <2>1. \A t \in Pending' : t.shown => t.class \in OnDock'
    BY <1>1, <1>2 DEF EntriesInv, ResolverTyped
  <2> QED BY <2>1 DEF EntriesInv, ResolverTyped
<1>7. NothingAsked'
  BY <1>1, <1>2 DEF EntriesInv, NothingAsked
<1>8. RepliesFinal'
  <2> SUFFICES ASSUME NEW t \in Pending', t.stage = "answered", t.class \notin misled
               PROVE  (Indexed(t.class))' /\ t.reply = (Daemon!GetEntry(t.class))'
    BY DEF RepliesFinal
  <2>1. t \in Pending
    BY <1>1, <1>2
  <2> QED BY <2>1, DaemonRests DEF EntriesInv, RepliesFinal
<1>9. CacheFinal'
  BY DaemonRests DEF EntriesInv, CacheFinal
<1>10. \A c \in Classes : c \in OnDock' /\ c \notin OnDock =>
         \/ icon'[c] = <<c, Resolver!GenericIcon>> /\ (Requested(c))'
         \/ cache[c] # NoEntry /\ icon'[c] = <<cache[c].icon>>
  BY <1>5 DEF Resolver!ResolveIconFromClass, Resolver!GenericIcon
<1>11. OnDock' \subseteq Classes
  BY DEF OnDock, Resolver!OnDock
<1>12. IconsKnown'
  BY <1>10, <1>11 DEF EntriesInv, IconsKnown
<1>13. proxy' = "connected" =>
         \A c \in OnDock' : \/ (Requested(c))'
                            \/ proxy = "connected" /\ c \in OnDock
                            \/ cache[c] # NoEntry /\ icon'[c] = <<cache[c].icon>>
  BY <1>5, <1>10, <1>11
<1>14. IconsUnderWay'
  <2> SUFFICES ASSUME proxy' = "connected", NEW c \in OnDock', c \notin misled
               PROVE  \/ (Requested(c))'
                      \/ cache[c] # NoEntry /\ ( \/ icon'[c] = <<cache[c].icon>>
                                                 \/ (Daemon!GetEntry(c))' = NoEntry )
    BY DEF IconsUnderWay
  <2>1. CASE proxy = "connected" /\ c \in OnDock
    BY <2>1, <1>4, DaemonRests DEF EntriesInv, IconsUnderWay
  <2> QED BY <2>1, <1>13
<1>15. AllRequested'
  <2> SUFFICES ASSUME proxy' = "connected", NEW c \in OnDock'
               PROVE  cache[c] # NoEntry \/ (Requested(c))'
    BY DEF AllRequested
  <2>1. CASE proxy = "connected" /\ c \in OnDock
    BY <2>1, <1>4 DEF EntriesInv, AllRequested
  <2> QED BY <2>1, <1>13
<1> QED BY <1>6, <1>7, <1>8, <1>9, <1>12, <1>14, <1>15 DEF EntriesInv

\* resolve_entry asks for a class unless it is cached.
LEMMA Asks ==
    ASSUME EntriesInv, NEW c \in Classes, Len(tasks) < MaxTasks, tasks' = Resolver!ResolveEntry(c, tasks)
    PROVE  /\ tasks' \in Seq(Requests) /\ Len(tasks') =< MaxTasks
           /\ \E A \in SUBSET {c} : /\ Pending' = Pending \cup {Resolver!Task(d) : d \in A}
                                    /\ cache[c] = NoEntry => A = {c}
<1>1. Len(tasks) \in Nat /\ MaxTasks \in Nat /\ tasks \in Seq(Requests) /\ ResolverTyped
  BY PendingByIndex, BoundsAssumption DEF EntriesInv, ResolverTyped
<1>2. CASE cache[c] # NoEntry
  <2>1. tasks' = tasks
    BY <1>2 DEF Resolver!ResolveEntry
  <2>2. Pending' = Pending \cup {Resolver!Task(d) : d \in {}}
    BY <2>1 DEF Pending
  <2> QED BY <1>1, <1>2, <2>1, <2>2
<1>3. CASE cache[c] = NoEntry
  <2>1. tasks' = Append(tasks, Resolver!Task(c))
    BY <1>3 DEF Resolver!ResolveEntry
  <2>2. /\ tasks' \in Seq(Requests) /\ Len(tasks') = Len(tasks) + 1
        /\ Pending' = Pending \cup {Resolver!Task(c)}
    BY <1>1, <2>1, TaskTyped, RequestAppended
  <2>3. {c} \in SUBSET {c} /\ Pending' = Pending \cup {Resolver!Task(d) : d \in {c}}
    BY <2>2
  <2>4. Len(tasks') =< MaxTasks
    BY <1>1, <2>2
  <2> QED BY <2>2, <2>3, <2>4
<1> QED BY <1>2, <1>3

LEMMA AddBucketStep ==
    ASSUME EntriesInv, NEW c \in Classes, Resolver!AddBucket(c),
           UNCHANGED <<scan, queue, index, misled>>
    PROVE  EntriesInv' /\ OnDock' = OnDock \cup {c}
<1>1. /\ c \notin OnDock /\ Len(tasks) < MaxTasks
      /\ icon' = [icon EXCEPT ![c] = Resolver!ResolveIconFromClass(c)]
      /\ tasks' = Resolver!ResolveEntry(c, tasks)
      /\ UNCHANGED <<proxy, cache>>
  BY DEF Resolver!AddBucket, OnDock
<1>2. /\ icon \in [Classes -> Icons \cup {NoBucket}] /\ cache \in [Classes -> Dtos \cup {NoEntry}]
      /\ proxy \in {"connecting", "connected", "failed"} /\ IsFiniteSet(OnDock)
  BY DEF EntriesInv, ResolverTyped
<1>3. Resolver!ResolveIconFromClass(c) \in Icons
  <2>1. cache[c] # NoEntry => cache[c] \in Dtos
    BY <1>2
  <2> QED BY <2>1, Values DEF Resolver!ResolveIconFromClass, Resolver!GenericIcon
<1>4. /\ icon' \in [Classes -> Icons \cup {NoBucket}]
      /\ icon'[c] = Resolver!ResolveIconFromClass(c)
      /\ \A d \in Classes : d # c => icon'[d] = icon[d]
  BY <1>1, <1>2, <1>3
<1>5. OnDock' = OnDock \cup {c}
  BY <1>3, <1>4, Values DEF OnDock, Resolver!OnDock
<1>6. IsFiniteSet(OnDock')
  BY <1>2, <1>5, FS_AddElement
<1>7. tasks' \in Seq(Requests) /\ Len(tasks') =< MaxTasks
  BY <1>1, Asks
<1>8. PICK A \in SUBSET {c} : /\ Pending' = Pending \cup {Resolver!Task(d) : d \in A}
                              /\ cache[c] = NoEntry => A = {c}
  BY <1>1, Asks
<1>9. A \in SUBSET Classes /\ A \subseteq OnDock' /\ OnDock \subseteq OnDock'
  BY <1>5
<1>10. \A d \in OnDock : icon'[d] = icon[d]
  BY <1>1, <1>4 DEF OnDock, Resolver!OnDock
<1>11. \A d \in OnDock' : d \notin OnDock =>
         icon'[d] = Resolver!ResolveIconFromClass(d) /\ (cache[d] = NoEntry => d \in A)
  BY <1>4, <1>5, <1>8
<1>12. EntriesInv'
  BY <1>1, <1>2, <1>4, <1>6, <1>7, <1>8, <1>9, <1>10, <1>11, AskedFor
<1> QED BY <1>5, <1>12

LEMMA ReinsertBucketStep ==
    ASSUME EntriesInv, NEW c \in Classes, Resolver!ReinsertBucket(c),
           UNCHANGED <<scan, queue, index, misled>>
    PROVE  EntriesInv' /\ OnDock' = OnDock
<1>1. /\ c \in OnDock /\ Len(tasks) < MaxTasks
      /\ tasks' = Resolver!ResolveEntry(c, tasks)
      /\ UNCHANGED <<proxy, cache, icon>>
  BY DEF Resolver!ReinsertBucket, OnDock
<1>2. OnDock' = OnDock
  BY <1>1 DEF OnDock, Resolver!OnDock
<1>3. tasks' \in Seq(Requests) /\ Len(tasks') =< MaxTasks
  BY <1>1, Asks
<1>4. PICK A \in SUBSET {c} : Pending' = Pending \cup {Resolver!Task(d) : d \in A}
  BY <1>1, Asks
<1>5. A \in SUBSET Classes /\ A \subseteq OnDock' /\ OnDock \subseteq OnDock' /\ IsFiniteSet(OnDock')
  BY <1>1, <1>2 DEF EntriesInv
<1>6. EntriesInv'
  BY <1>1, <1>2, <1>3, <1>4, <1>5, AskedFor DEF EntriesInv, ResolverTyped
<1> QED BY <1>2, <1>6

\* Every bucket on the dock is asked for again when the connection comes.
LEMMA ConnectStep ==
    ASSUME EntriesInv, Resolver!SetAppdProxy \/ Resolver!ConnectFails,
           UNCHANGED <<scan, queue, index, misled>>
    PROVE  EntriesInv' /\ OnDock' = OnDock
<1>1. OnDock' = OnDock
  BY DEF Resolver!SetAppdProxy, Resolver!ConnectFails, OnDock, Resolver!OnDock
<1>2. CASE Resolver!ConnectFails
  <2>1. proxy = "connecting" /\ proxy' = "failed" /\ UNCHANGED <<cache, icon, tasks>>
    BY <1>2 DEF Resolver!ConnectFails
  <2>2. Pending' = Pending \cup {Resolver!Task(d) : d \in {}}
    BY <2>1 DEF Pending
  <2>3. {} \in SUBSET Classes /\ {} \subseteq OnDock' /\ OnDock \subseteq OnDock'
    BY <1>1
  <2> QED BY <1>1, <2>1, <2>2, <2>3, AskedFor DEF EntriesInv, ResolverTyped
<1>3. CASE Resolver!SetAppdProxy
  <2>1. /\ proxy = "connecting" /\ proxy' = "connected" /\ UNCHANGED <<cache, icon>>
        /\ Len(tasks) + Cardinality(Resolver!Unresolved) =< MaxTasks
    BY <1>3, InstanceOperators DEF Resolver!SetAppdProxy
  <2>2. PICK order \in SetToSeqs(Resolver!Unresolved) :
          tasks' = tasks \o [i \in DOMAIN order |-> Resolver!Task(order[i])]
    BY <1>3, InstanceOperators DEF Resolver!SetAppdProxy
  <2> DEFINE s == [i \in DOMAIN order |-> Resolver!Task(order[i])]
  <2>3. Resolver!Unresolved = OnDock /\ OnDock \subseteq Classes
    <3>1. \A c \in Classes : cache[c] = NoEntry
      BY <2>1 DEF EntriesInv, NothingAsked
    <3> QED BY <3>1 DEF Resolver!Unresolved, OnDock, Resolver!OnDock
  <2>4. /\ order \in Seq(OnDock) /\ Len(order) = Cardinality(OnDock)
        /\ DOMAIN order = 1 .. Cardinality(OnDock)
        /\ \A c \in OnDock : \E i \in DOMAIN order : order[i] = c
    BY <2>2, <2>3, SetToSeqsLists DEF EntriesInv
  <2>5. Cardinality(OnDock) \in Nat
    BY FS_CardinalityType DEF EntriesInv
  <2>6. \A i \in DOMAIN order : order[i] \in OnDock
    BY <2>2, <2>3 DEF SetToSeqs
  <2>7. s \in [1 .. Cardinality(OnDock) -> Requests]
    BY <2>3, <2>4, <2>6, TaskTyped
  <2>8. s \in Seq(Requests)
    BY <2>5, <2>7, SeqDef
  <2>9. Len(s) = Cardinality(OnDock)
    BY <2>4, <2>5
  <2>10. Range(s) = {Resolver!Task(c) : c \in OnDock}
    BY <2>4, <2>6 DEF Range
  <2> HIDE DEF s
  <2>11. /\ tasks' \in Seq(Requests) /\ Len(tasks') = Len(tasks) + Len(s)
         /\ Pending' = Pending \cup Range(s)
    BY <2>2, <2>8, RequestsAppended DEF EntriesInv, s
  <2>12. Len(tasks') =< MaxTasks
    BY <2>1, <2>3, <2>9, <2>11
  <2>13. OnDock \in SUBSET Classes /\ OnDock \subseteq OnDock'
    BY <1>1, <2>3
  <2> QED BY <1>1, <2>1, <2>10, <2>11, <2>12, <2>13, AskedFor DEF EntriesInv, ResolverTyped
<1> QED BY <1>1, <1>2, <1>3

\* A bucket leaves the dock: its requests go on without it.
LEMMA RemoveBucketStep ==
    ASSUME EntriesInv, NEW c \in Classes, Resolver!RemoveBucket(c),
           UNCHANGED <<scan, queue, index, misled>>
    PROVE  EntriesInv' /\ OnDock' = OnDock \ {c}
<1> DEFINE Orphan(t) == IF t.class = c THEN [t EXCEPT !.shown = FALSE] ELSE t
<1>1. /\ icon' = [icon EXCEPT ![c] = NoBucket]
      /\ tasks' = [i \in DOMAIN tasks |-> Orphan(tasks[i])]
      /\ UNCHANGED <<proxy, cache>>
  BY DEF Resolver!RemoveBucket, Resolver!Orphaned
<1>2. ResolverTyped /\ tasks \in Seq(Requests) /\ icon \in [Classes -> Icons \cup {NoBucket}]
  BY DEF EntriesInv, ResolverTyped
<1>3. /\ icon' \in [Classes -> Icons \cup {NoBucket}] /\ icon'[c] = NoBucket
      /\ \A d \in Classes : d # c => icon'[d] = icon[d]
  BY <1>1, <1>2
<1>4. OnDock' = OnDock \ {c}
  BY <1>3 DEF OnDock, Resolver!OnDock
<1>5. \A t \in Requests :
        /\ Orphan(t) \in Requests
        /\ Orphan(t).class = t.class /\ Orphan(t).stage = t.stage /\ Orphan(t).reply = t.reply
        /\ Orphan(t).shown => t.shown /\ t.class # c
        /\ t.class # c => Orphan(t) = t
  BY DEF Requests
<1> HIDE DEF Orphan
<1>6. tasks' \in Seq(Requests) /\ Len(tasks') = Len(tasks)
  <2>1. Len(tasks) \in Nat /\ DOMAIN tasks = 1 .. Len(tasks) /\ \A j \in DOMAIN tasks : tasks[j] \in Requests
    BY <1>2, PendingByIndex
  <2>2. tasks' \in [1 .. Len(tasks) -> Requests]
    BY <1>1, <1>5, <2>1
  <2>3. tasks' \in Seq(Requests)
    BY <2>1, <2>2, SeqDef
  <2>4. Len(tasks') = Len(tasks)
    BY <2>1, <2>2, <1>1
  <2> QED BY <2>3, <2>4
<1>7. Pending' = {Orphan(t) : t \in Pending} /\ Pending \subseteq Requests
  <2>1. Pending' = {tasks'[j] : j \in DOMAIN tasks'} /\ Pending = {tasks[j] : j \in DOMAIN tasks}
    BY DEF Pending, Range
  <2> QED BY <2>1, <1>1, <1>2, PendingByIndex
<1>8. \A u \in Pending' : \E t \in Pending :
        /\ u.class = t.class /\ u.stage = t.stage /\ u.reply = t.reply
        /\ u.shown => t.shown /\ t.class # c
  BY <1>5, <1>7
<1>9. \A t \in Pending : t.class # c => t \in Pending'
  BY <1>5, <1>7
<1>10. \A d : d # c /\ Requested(d) => (Requested(d))'
  BY <1>9 DEF Requested
<1>11. ResolverTyped' /\ IsFiniteSet(OnDock')
  <2>1. IsFiniteSet(OnDock')
    BY <1>4, FS_Subset DEF EntriesInv
  <2>2. \A u \in Pending' : u.shown => u.class \in OnDock'
    BY <1>4, <1>8 DEF EntriesInv, ResolverTyped
  <2> QED BY <1>1, <1>3, <1>6, <2>1, <2>2 DEF EntriesInv, ResolverTyped
<1>12. NothingAsked'
  BY <1>1, <1>8 DEF EntriesInv, NothingAsked
<1>13. RepliesFinal' /\ CacheFinal'
  BY <1>1, <1>8, DaemonRests DEF EntriesInv, RepliesFinal, CacheFinal
<1>14. \A d \in OnDock' : d \in OnDock /\ d # c /\ icon'[d] = icon[d]
  BY <1>3, <1>4 DEF OnDock, Resolver!OnDock
<1>15. IconsKnown' /\ AllRequested'
  BY <1>1, <1>10, <1>14 DEF EntriesInv, IconsKnown, AllRequested
<1>16. IconsUnderWay'
  BY <1>1, <1>10, <1>14, DaemonRests DEF EntriesInv, IconsUnderWay
<1> QED BY <1>4, <1>11, <1>12, <1>13, <1>15, <1>16 DEF EntriesInv

\* A request gets on, for the same bucket.
LEMMA RequestAdvances ==
    ASSUME EntriesInv, proxy = "connected",
           NEW i \in DOMAIN tasks, NEW u \in Requests, tasks' = [tasks EXCEPT ![i] = u],
           u.class = tasks[i].class, u.shown = tasks[i].shown,
           UNCHANGED <<scan, queue, index, proxy, cache, icon>>,
           misled \subseteq misled', misled' \subseteq Classes,
           u.stage = "answered" /\ u.class \notin misled' =>
             Indexed(u.class) /\ u.reply = Daemon!GetEntry(u.class)
    PROVE  EntriesInv'
<1>1. ResolverTyped
  BY DEF EntriesInv
<1>2. /\ tasks' \in Seq(Requests) /\ Len(tasks') = Len(tasks)
      /\ u \in Pending' /\ Pending' \subseteq Pending \cup {u}
      /\ \A t \in Pending : t # tasks[i] => t \in Pending'
  BY <1>1, RequestReplaced
<1>3. tasks[i] \in Pending
  BY <1>1, PendingByIndex
<1>4. OnDock' = OnDock
  BY DEF OnDock, Resolver!OnDock
<1>5. ResolverTyped'
  <2>1. \A t \in Pending' : t.shown => t.class \in OnDock'
    BY <1>2, <1>3, <1>4 DEF EntriesInv, ResolverTyped
  <2> QED BY <1>2, <1>4, <2>1 DEF EntriesInv, ResolverTyped
<1>6. \A d : Requested(d) => (Requested(d))'
  BY <1>2 DEF Requested
<1>7. NothingAsked' /\ CacheFinal'
  BY DaemonRests DEF EntriesInv, NothingAsked, CacheFinal
<1>8. RepliesFinal'
  BY <1>2, DaemonRests DEF EntriesInv, RepliesFinal
<1>9. IconsKnown' /\ AllRequested' /\ IconsUnderWay'
  BY <1>4, <1>6, DaemonRests DEF EntriesInv, IconsKnown, AllRequested, IconsUnderWay
<1> QED BY <1>4, <1>5, <1>7, <1>8, <1>9 DEF EntriesInv

LEMMA PollTaskStep ==
    ASSUME EntriesInv, Resolver!PollTask, UNCHANGED <<scan, queue, index, misled>>
    PROVE  EntriesInv' /\ OnDock' = OnDock
<1>1. PICK i \in DOMAIN tasks :
        tasks' = IF proxy = "connected" THEN [tasks EXCEPT ![i].stage = "asked"]
                 ELSE RemoveAt(tasks, i)
  BY InstanceOperators DEF Resolver!PollTask
<1>2. UNCHANGED <<proxy, cache, icon>> /\ OnDock' = OnDock
  BY DEF Resolver!PollTask, OnDock, Resolver!OnDock
<1>3. ResolverTyped /\ misled' \subseteq Classes
  BY DEF EntriesInv, ResolverTyped
<1>4. tasks[i] \in Requests
  BY <1>3, PendingByIndex
<1>5. CASE proxy = "connected"
  <2> DEFINE u == [tasks[i] EXCEPT !.stage = "asked"]
  <2>1. tasks' = [tasks EXCEPT ![i] = u]
    BY <1>1, <1>5
  <2>2. /\ u \in Requests /\ u.class = tasks[i].class /\ u.shown = tasks[i].shown
        /\ u.stage # "answered"
    BY <1>4 DEF Requests
  <2> HIDE DEF u
  <2> QED BY <1>2, <1>3, <1>5, <2>1, <2>2, RequestAdvances
<1>6. CASE proxy # "connected"
  <2>1. /\ tasks' \in Seq(Requests) /\ Len(tasks') = Len(tasks) - 1
        /\ Pending' \subseteq Pending
    BY <1>1, <1>3, <1>6, RequestRemoved
  <2>2. Len(tasks') =< MaxTasks
    BY <1>3, <2>1, PendingByIndex, BoundsAssumption DEF ResolverTyped
  <2>3. ResolverTyped'
    BY <1>2, <2>1, <2>2 DEF EntriesInv, ResolverTyped
  <2>4. NothingAsked' /\ RepliesFinal' /\ CacheFinal'
    BY <1>2, <2>1, DaemonRests DEF EntriesInv, NothingAsked, RepliesFinal, CacheFinal
  <2>5. IconsKnown' /\ IconsUnderWay' /\ AllRequested'
    BY <1>2, <1>6 DEF EntriesInv, IconsKnown, IconsUnderWay, AllRequested
  <2> QED BY <1>2, <2>3, <2>4, <2>5 DEF EntriesInv
<1> QED BY <1>2, <1>5, <1>6

\* A request is answered, by the daemon or by an error of the bus.
LEMMA BusStepLemma ==
    ASSUME EntriesInv, DaemonTyped, NEW i \in DOMAIN tasks, Answer(i) \/ CallFails(i)
    PROVE  EntriesInv' /\ OnDock' = OnDock
<1> DEFINE c == tasks[i].class
           e == IF Answer(i) THEN Daemon!GetEntry(c) ELSE NoEntry
           u == [tasks[i] EXCEPT !.stage = "answered", !.reply = e]
<1>1. /\ Resolver!Answered(i, e)
      /\ misled' = IF Answer(i) /\ Daemon!Unindexed(c) = {} THEN misled ELSE misled \cup {c}
      /\ UNCHANGED <<scan, queue, index>>
  BY DEF Answer, CallFails, appdvars
<1>2. ResolverTyped
  BY DEF EntriesInv
<1>3. tasks[i] \in Requests /\ tasks[i] \in Pending /\ c \in Classes
  BY <1>2, PendingByIndex, RequestFields
<1>4. e \in Dtos \cup {NoEntry}
  BY <1>3, GetEntryTyped
<1>5. /\ tasks[i].stage = "asked" /\ UNCHANGED <<proxy, cache, icon>>
      /\ tasks' = [tasks EXCEPT ![i] = u]
  BY <1>1 DEF Resolver!Answered
<1>6. /\ u \in Requests /\ u.class = c /\ u.shown = tasks[i].shown /\ u.reply = e
  BY <1>3, <1>4 DEF Requests
<1>7. proxy = "connected"
  BY <1>3, <1>5 DEF EntriesInv, NothingAsked
<1>8. misled \subseteq misled' /\ misled' \subseteq Classes
  BY <1>1, <1>3 DEF EntriesInv, ResolverTyped
<1>9. c \notin misled' => Answer(i) /\ Indexed(c)
  BY <1>1 DEF Indexed
<1>10. EntriesInv'
  <2>1. u.class \notin misled' => Indexed(u.class) /\ u.reply = Daemon!GetEntry(u.class)
    BY <1>6, <1>9
  <2> HIDE DEF u, e
  <2> QED BY <1>1, <1>5, <1>6, <1>7, <1>8, <2>1, RequestAdvances
<1> QED BY <1>5, <1>10 DEF OnDock, Resolver!OnDock

\* A task resumes with its answer: of a class that is not misled both the icon
\* and the cache get the daemon's last word.
LEMMA ResumeStep ==
    ASSUME EntriesInv, NEW i \in DOMAIN tasks, Resolver!Resume(i),
           UNCHANGED <<scan, queue, index, misled>>
    PROVE  EntriesInv' /\ OnDock' = OnDock
<1>2. ResolverTyped /\ tasks[i] \in Pending /\ tasks[i] \in Requests
  BY PendingByIndex DEF EntriesInv
<1>0. PICK t \in Requests, c \in Classes, e \in Dtos :
        /\ t = tasks[i] /\ t \in Pending /\ c = t.class
        /\ e = IF t.reply # NoEntry THEN t.reply ELSE Resolver!DefaultEntry(c)
  BY <1>2, RequestFields, Values
<1>1. /\ t.stage = "answered" /\ UNCHANGED proxy
      /\ tasks' = RemoveAt(tasks, i)
      /\ cache' = [cache EXCEPT ![c] = e]
      /\ icon' = IF t.reply # NoEntry /\ t.shown THEN [icon EXCEPT ![c] = <<e.icon>>] ELSE icon
  BY <1>0, InstanceOperators DEF Resolver!Resume
<1>3. e # NoEntry /\ <<e.icon>> \in Icons /\ <<e.icon>> # NoBucket
  BY Values
<1>4. /\ cache \in [Classes -> Dtos \cup {NoEntry}] /\ icon \in [Classes -> Icons \cup {NoBucket}]
      /\ tasks \in Seq(Requests) /\ Len(tasks) =< MaxTasks
  BY <1>2 DEF ResolverTyped
<1>5. proxy = "connected"
  BY <1>0, <1>1 DEF EntriesInv, NothingAsked
<1>6. t.shown => c \in OnDock
  BY <1>0, <1>2 DEF ResolverTyped
<1>7. c \notin misled => /\ Indexed(c) /\ t.reply = Daemon!GetEntry(c) /\ e = Final(c)
  BY <1>0, <1>1 DEF EntriesInv, RepliesFinal, Final
<1>8. /\ tasks' \in Seq(Requests) /\ Len(tasks') = Len(tasks) - 1
      /\ Pending' \subseteq Pending
      /\ \A r \in Pending : r # t => r \in Pending'
  BY <1>0, <1>1, <1>2, RequestRemoved
<1>9. /\ cache' \in [Classes -> Dtos \cup {NoEntry}] /\ cache'[c] = e
      /\ \A d \in Classes : d # c => cache'[d] = cache[d]
  BY <1>1, <1>3, <1>4
<1>10. /\ icon' \in [Classes -> Icons \cup {NoBucket}]
       /\ \A d \in Classes : d # c => icon'[d] = icon[d]
       /\ icon'[c] = IF t.reply # NoEntry /\ t.shown THEN <<e.icon>> ELSE icon[c]
  BY <1>1, <1>3, <1>4
<1>11. OnDock' = OnDock /\ OnDock \subseteq Classes
  BY <1>3, <1>6, <1>10 DEF OnDock, Resolver!OnDock
<1>12. \A d : d # c /\ Requested(d) => (Requested(d))'
  BY <1>0, <1>8 DEF Requested
<1>13. ASSUME ~t.shown, Requested(c) PROVE (Requested(c))'
  <2>1. PICK r \in Pending : r.class = c /\ r.shown
    BY <1>13 DEF Requested
  <2>2. r # t
    BY <1>13, <2>1
  <2>3. r \in Pending'
    BY <1>8, <2>2
  <2> QED BY <2>1, <2>3 DEF Requested
<1>14. ResolverTyped'
  <2>1. Len(tasks') =< MaxTasks
    BY <1>2, <1>8, PendingByIndex, BoundsAssumption DEF ResolverTyped
  <2> QED BY <1>1, <1>8, <1>9, <1>10, <1>11, <2>1 DEF EntriesInv, ResolverTyped
<1>15. NothingAsked' /\ RepliesFinal'
  BY <1>1, <1>5, <1>8, DaemonRests DEF EntriesInv, NothingAsked, RepliesFinal
<1>16. CacheFinal'
  BY <1>7, <1>9, DaemonRests DEF EntriesInv, CacheFinal
<1>17. ASSUME NEW d \in OnDock, d \notin misled, d # c
       PROVE  icon'[d] = icon[d] /\ cache'[d] = cache[d]
  BY <1>9, <1>10, <1>11, <1>17
<1>18. c \notin misled /\ cache[c] # NoEntry => cache[c] = e
  BY <1>3, <1>7 DEF EntriesInv, CacheFinal
<1>19. IconsKnown'
  BY <1>3, <1>9, <1>10, <1>11, <1>17, <1>18 DEF EntriesInv, IconsKnown
<1>20. IconsUnderWay'
  <2> SUFFICES ASSUME NEW d \in OnDock, d \notin misled
               PROVE  \/ (Requested(d))'
                      \/ cache'[d] # NoEntry /\ ( \/ icon'[d] = <<cache'[d].icon>>
                                                  \/ (Daemon!GetEntry(d))' = NoEntry )
    BY <1>11 DEF IconsUnderWay
  <2>1. \/ Requested(d)
        \/ cache[d] # NoEntry /\ (icon[d] = <<cache[d].icon>> \/ Daemon!GetEntry(d) = NoEntry)
    BY <1>5 DEF EntriesInv, IconsUnderWay
  <2>2. CASE d # c
    BY <2>1, <2>2, <1>12, <1>17, DaemonRests
  <2>3. CASE d = c
    <3>1. cache'[d] = e /\ e # NoEntry /\ (Daemon!GetEntry(d))' = t.reply
      BY <2>3, <1>3, <1>7, <1>9, DaemonRests
    <3>2. CASE t.reply = NoEntry
      BY <3>1, <3>2
    <3>3. CASE t.reply # NoEntry /\ t.shown
      <4>1. icon'[c] = <<e.icon>>
        BY <1>10, <3>3
      <4> QED BY <2>3, <3>1, <4>1
    <3>4. CASE t.reply # NoEntry /\ ~t.shown
      <4>1. icon'[c] = icon[c]
        BY <1>10, <3>4
      <4>2. CASE Requested(d)
        BY <1>13, <2>3, <3>4, <4>2
      <4>3. CASE cache[d] # NoEntry /\ icon[d] = <<cache[d].icon>>
        <5>1. cache[d] = e
          BY <1>18, <2>3, <4>3
        <5> QED BY <2>3, <3>1, <4>1, <4>3, <5>1
      <4>4. CASE Daemon!GetEntry(d) = NoEntry
        BY <3>1, <3>4, <4>4, DaemonRests
      <4> QED BY <2>1, <4>2, <4>3, <4>4
    <3> QED BY <3>2, <3>3, <3>4
  <2> QED BY <2>2, <2>3
<1>21. AllRequested'
  BY <1>1, <1>3, <1>9, <1>11, <1>12 DEF EntriesInv, AllRequested
<1> QED BY <1>11, <1>14, <1>15, <1>16, <1>19, <1>20, <1>21 DEF EntriesInv

-----------------------------------------------------------------------------
(* The daemon reads on: what is indexed stays as it is. *)

LEMMA DaemonStepTyped == ASSUME DaemonTyped, Daemon!Provide \/ Daemon!Consume PROVE DaemonTyped'
<1>1. PICK s \in FilesOnDisk : scan \in Suffixes(s)
  BY DEF DaemonTyped
<1>2. /\ s \in Seq(Range(s)) /\ Range(s) \subseteq Files
      /\ Len(s) \in Nat /\ DOMAIN s = 1 .. Len(s)
  BY FilesAssumption, LenProperties DEF Files
<1>3. queue \in Seq(Files) /\ Len(queue) =< ChannelCap /\ ChannelCap \in Nat
  BY SeqOfMeans, BoundsAssumption DEF DaemonTyped, BoundedSeq
<1>4. Len(queue) \in Nat
  BY <1>3, LenProperties
<1>5. CASE Daemon!Provide
  <2>1. /\ scan # <<>> /\ Len(queue) < ChannelCap
        /\ queue' = Append(queue, Head(scan)) /\ scan' = Tail(scan) /\ index' = index
    BY <1>5 DEF Daemon!Provide, Daemon!HasPlace
  <2>2. PICK l \in 1 .. Len(s) : scan = SubSeq(s, l, Len(s))
    BY <1>1, <2>1 DEF Suffixes
  <2>3. Len(s) \in l .. Len(s) /\ Len(s) \in (l - 1) .. Len(s) /\ l \in 1 .. Len(s) + 1
    BY <1>2, <2>2
  <2>4. Head(scan) = s[l] /\ Tail(scan) = SubSeq(s, l + 1, Len(s))
    BY <1>2, <2>2, <2>3, HeadTailOfSubSeq
  <2>5. Head(scan) \in Files
    BY <1>2, <2>2, <2>4, ElementOfSeq
  <2>6. scan' \in Suffixes(s)
    <3>1. CASE l = Len(s)
      <4>1. scan' = <<>>
        BY <1>2, <2>1, <2>4, <3>1, SubSeqEmpty
      <4> QED BY <4>1 DEF Suffixes
    <3>2. CASE l # Len(s)
      <4>1. l + 1 \in 1 .. Len(s)
        <5>1. Len(s) \in Nat /\ l \in 1 .. Len(s) /\ l # Len(s)
          BY <1>2, <3>2
        <5> QED BY ONLY <5>1
      <4> QED BY <2>1, <2>4, <4>1 DEF Suffixes
    <3> QED BY <3>1, <3>2
  <2>7. queue' \in Seq(Files) /\ Len(queue') = Len(queue) + 1
    BY <1>3, <2>1, <2>5, AppendFacts
  <2>8. Len(queue') =< ChannelCap
    BY <1>3, <1>4, <2>1, <2>7
  <2>9. queue' \in BoundedSeq(Files, ChannelCap)
    BY <1>3, <2>7, <2>8, SeqOfMeans DEF BoundedSeq
  <2> QED BY <2>1, <2>6, <2>9 DEF DaemonTyped
<1>6. CASE Daemon!Consume
  <2>1. /\ queue # <<>> /\ queue' = Tail(queue) /\ scan' = scan
        /\ index' = [index EXCEPT ![Head(queue).id] = Head(queue)]
    BY <1>6 DEF Daemon!Consume
  <2>2. Head(queue) \in Files /\ queue' \in Seq(Files) /\ Len(queue') = Len(queue) - 1
    BY <1>3, <2>1, TailFacts
  <2>3. Len(queue') =< ChannelCap
    BY <1>3, <1>4, <2>2
  <2>4. queue' \in BoundedSeq(Files, ChannelCap)
    BY <1>3, <2>2, <2>3, SeqOfMeans DEF BoundedSeq
  <2>5. index' \in [Classes -> Files \cup {NoEntry}]
    BY <2>1, <2>2, Values DEF DaemonTyped
  <2> QED BY <2>1, <2>4, <2>5 DEF DaemonTyped
<1> QED BY <1>5, <1>6

LEMMA IndexedIsFinal ==
    ASSUME DaemonTyped, Daemon!Provide \/ Daemon!Consume, NEW c \in Classes, Indexed(c)
    PROVE  /\ (Indexed(c))'
           /\ (Daemon!GetEntry(c))' = Daemon!GetEntry(c)
           /\ (Final(c))' = Final(c)
<1>1. \A f \in Range(queue) \cup Range(scan) : f.id # c
  BY InstanceOperators DEF Indexed, Daemon!Unindexed
<1>2. queue \in Seq(Files)
  BY SeqOfMeans, BoundsAssumption DEF DaemonTyped, BoundedSeq
<1>3. scan \in Seq(Files)
  <2>1. PICK s \in FilesOnDisk : scan \in Suffixes(s)
    BY DEF DaemonTyped
  <2>2. s \in Seq(Range(s)) /\ Range(s) \subseteq Files /\ Len(s) \in Nat
    BY FilesAssumption, LenProperties DEF Files
  <2>3. s \in Seq(Files)
    BY <2>2, SeqMonotonic
  <2>4. \A l \in 1 .. Len(s) : SubSeq(s, l, Len(s)) \in Seq(Files)
    <3>1. ASSUME NEW l \in 1 .. Len(s) PROVE SubSeq(s, l, Len(s)) \in Seq(Files)
      <4>1. l \in 1 .. Len(s) + 1 /\ Len(s) \in l - 1 .. Len(s)
        BY <2>2
      <4> QED BY <2>3, <4>1, SubSeqProperties
    <3> QED BY <3>1
  <2> QED BY <2>1, <2>4, EmptySeq DEF Suffixes
<1>4. /\ Range(queue') \cup Range(scan') \subseteq Range(queue) \cup Range(scan)
      /\ index'[c] = index[c]
  <2>1. CASE Daemon!Provide
    <3>1. /\ scan # <<>> /\ queue' = Append(queue, Head(scan)) /\ scan' = Tail(scan)
          /\ index' = index
      BY <2>1 DEF Daemon!Provide
    <3>2. /\ DOMAIN scan = 1 .. Len(scan) /\ Head(scan) = scan[1] /\ Head(scan) \in Files
          /\ Len(scan) \in Nat \ {0}
          /\ DOMAIN scan' = 1 .. Len(scan) - 1
          /\ \A i \in 1 .. Len(scan) - 1 : scan'[i] = scan[i + 1]
      BY <1>3, <3>1, TailFacts
    <3>3. /\ DOMAIN queue = 1 .. Len(queue) /\ DOMAIN queue' = 1 .. Len(queue) + 1 /\ Len(queue) \in Nat
          /\ \A i \in 1 .. Len(queue) : queue'[i] = queue[i]
          /\ queue'[Len(queue) + 1] = Head(scan)
      BY <1>2, <3>1, <3>2, AppendFacts
    <3>4. Head(scan) \in Range(scan)
      BY <3>2 DEF Range
    <3>5. Range(scan') \subseteq Range(scan)
      <4>1. \A i \in DOMAIN scan' : i + 1 \in DOMAIN scan /\ scan'[i] = scan[i + 1]
        BY <3>2
      <4> QED BY <4>1 DEF Range
    <3>6. Range(queue') \subseteq Range(queue) \cup {Head(scan)}
      <4>1. \A i \in DOMAIN queue' : i \in DOMAIN queue \/ i = Len(queue) + 1
        BY <3>3
      <4> QED BY <3>3, <4>1 DEF Range
    <3> QED BY <3>1, <3>4, <3>5, <3>6
  <2>2. CASE Daemon!Consume
    <3>1. /\ queue # <<>> /\ queue' = Tail(queue) /\ scan' = scan
          /\ index' = [index EXCEPT ![Head(queue).id] = Head(queue)]
      BY <2>2 DEF Daemon!Consume
    <3>2. /\ DOMAIN queue = 1 .. Len(queue) /\ Head(queue) = queue[1] /\ Len(queue) \in Nat \ {0}
          /\ DOMAIN queue' = 1 .. Len(queue) - 1
          /\ \A i \in 1 .. Len(queue) - 1 : queue'[i] = queue[i + 1]
      BY <1>2, <3>1, TailFacts
    <3>3. Head(queue) \in Range(queue)
      BY <3>2 DEF Range
    <3>4. Range(queue') \subseteq Range(queue)
      <4>1. \A i \in DOMAIN queue' : i + 1 \in DOMAIN queue /\ queue'[i] = queue[i + 1]
        BY <3>2
      <4> QED BY <4>1 DEF Range
    <3>5. Head(queue).id # c
      BY <1>1, <3>3
    <3>6. index'[c] = index[c]
      BY <3>1, <3>5 DEF DaemonTyped
    <3> QED BY <3>1, <3>4, <3>6
  <2> QED BY <2>1, <2>2
<1>5. (Indexed(c))'
  <2>1. \A f \in Range(queue') \cup Range(scan') : f.id # c
    BY <1>1, <1>4
  <2> QED BY <2>1, InstanceOperators DEF Indexed, Daemon!Unindexed
<1>6. (Daemon!GetEntry(c))' = Daemon!GetEntry(c)
  BY <1>4 DEF Daemon!GetEntry
<1> QED BY <1>5, <1>6 DEF Final

LEMMA DaemonStep ==
    ASSUME EntriesInv, DaemonTyped, Daemon!Provide \/ Daemon!Consume,
           UNCHANGED <<proxy, cache, icon, tasks, misled>>
    PROVE  EntriesInv' /\ DaemonTyped' /\ OnDock' = OnDock
<1>1. OnDock' = OnDock /\ Pending' = Pending /\ \A c : (Requested(c))' <=> Requested(c)
  BY DEF OnDock, Resolver!OnDock, Pending, Requested
<1>2. ResolverTyped' /\ NothingAsked'
  BY <1>1 DEF EntriesInv, ResolverTyped, NothingAsked
<1>3. \A c \in Classes : Indexed(c) => /\ (Indexed(c))'
                                       /\ (Daemon!GetEntry(c))' = Daemon!GetEntry(c)
                                       /\ (Final(c))' = Final(c)
  BY IndexedIsFinal
<1>4. RepliesFinal'
  <2> SUFFICES ASSUME NEW t \in Pending', t.stage = "answered", t.class \notin misled
               PROVE  (Indexed(t.class))' /\ t.reply = (Daemon!GetEntry(t.class))'
    BY DEF RepliesFinal
  <2>1. t \in Pending /\ t.class \in Classes
    BY <1>1, PendingByIndex, RequestFields DEF EntriesInv
  <2> QED BY <1>3, <2>1 DEF EntriesInv, RepliesFinal
<1>5. CacheFinal'
  BY <1>3 DEF EntriesInv, CacheFinal
<1>6. IconsKnown' /\ AllRequested'
  BY <1>1 DEF EntriesInv, IconsKnown, AllRequested
<1>7. IconsUnderWay'
  <2> SUFFICES ASSUME proxy = "connected", NEW c \in OnDock, c \notin misled
               PROVE  \/ (Requested(c))'
                      \/ cache[c] # NoEntry /\ ( \/ icon[c] = <<cache[c].icon>>
                                                 \/ (Daemon!GetEntry(c))' = NoEntry )
    BY <1>1 DEF IconsUnderWay
  <2>1. c \in Classes
    BY DEF OnDock, Resolver!OnDock
  <2>2. cache[c] # NoEntry => Indexed(c)
    BY <2>1 DEF EntriesInv, CacheFinal
  <2> QED BY <1>1, <1>3, <2>1, <2>2 DEF EntriesInv, IconsUnderWay
<1> QED BY <1>1, <1>2, <1>4, <1>5, <1>6, <1>7, DaemonStepTyped DEF EntriesInv

-----------------------------------------------------------------------------
(* The bar and its menus *)

BarInv == BarTyped /\ MenuOnShownBar

LEMMA BarRests ==
    ASSUME BarInv, UNCHANGED <<pointer, revealed, popover, popupIsOpen>>, OnDock \subseteq OnDock'
    PROVE  BarInv'
<1>1. BarTyped'
  BY DEF BarInv, BarTyped
<1>2. MenuOnShownBar'
  BY DEF BarInv, MenuOnShownBar, OnDock
<1> QED BY <1>1, <1>2 DEF BarInv

\* The item of class c is unbound; the other buckets stay.
LEMMA UnbindStep ==
    ASSUME BarInv, NEW c \in Classes, Bar!Unbind(c), OnDock \ {c} \subseteq OnDock'
    PROVE  BarInv'
<1>1. /\ UNCHANGED <<pointer, revealed>>
      /\ \/ popover # c /\ UNCHANGED <<popover, popupIsOpen>>
         \/ popover = c /\ popover' = NoClass /\ popupIsOpen' \in BOOLEAN
  BY DEF Bar!Unbind
<1>2. BarTyped'
  BY <1>1 DEF BarInv, BarTyped
<1>3. MenuOnShownBar'
  BY <1>1 DEF BarInv, MenuOnShownBar, OnDock
<1> QED BY <1>2, <1>3 DEF BarInv

LEMMA PopdownStep == ASSUME BarInv, Bar!Popdown PROVE BarInv'
<1>1. popover' = NoClass /\ popupIsOpen' = FALSE /\ UNCHANGED <<pointer, revealed>>
  BY DEF Bar!Popdown
<1> QED BY <1>1 DEF BarInv, BarTyped, MenuOnShownBar

LEMMA PointerStep ==
    ASSUME BarInv, OnDock' = OnDock,
           \/ Bar!Enter(OnDock) \/ Bar!Leave
           \/ \E c \in OnDock : Bar!RightClick(c)
    PROVE  BarInv'
<1>1. CASE Bar!Enter(OnDock)
  <2>1. /\ pointer' = "in" /\ UNCHANGED <<popover, popupIsOpen>>
        /\ revealed' \in BOOLEAN /\ (revealed => revealed')
    BY <1>1 DEF Bar!Enter
  <2> QED BY <2>1 DEF BarInv, BarTyped, MenuOnShownBar, OnDock
<1>2. CASE Bar!Leave
  <2>1. /\ pointer' = "out" /\ UNCHANGED <<popover, popupIsOpen>>
        /\ revealed' = (revealed /\ ~Bar!HidesOnLeave)
    BY <1>2 DEF Bar!Leave
  <2>2. revealed' \in BOOLEAN /\ (revealed /\ popupIsOpen => revealed')
    BY <2>1 DEF Bar!HidesOnLeave
  <2> QED BY <2>1, <2>2 DEF BarInv, BarTyped, MenuOnShownBar, OnDock
<1>3. ASSUME NEW c \in OnDock, Bar!RightClick(c) PROVE BarInv'
  <2>1. revealed /\ popover' = c /\ popupIsOpen' = TRUE /\ UNCHANGED <<pointer, revealed>>
    BY <1>3 DEF Bar!RightClick
  <2>2. c \in Classes
    BY DEF OnDock, Resolver!OnDock
  <2> QED BY <2>1, <2>2 DEF BarInv, BarTyped, MenuOnShownBar, OnDock
<1> QED BY <1>1, <1>2, <1>3

-----------------------------------------------------------------------------
(* The induction *)

LEMMA InitIInv == Init => IInv
<1> SUFFICES ASSUME Init PROVE IInv
  OBVIOUS
<1>1. /\ scan \in FilesOnDisk /\ queue = <<>> /\ index = [c \in Classes |-> NoEntry]
      /\ proxy = "connecting" /\ cache = [c \in Classes |-> NoEntry]
      /\ icon = [c \in Classes |-> NoBucket] /\ tasks = <<>>
      /\ pointer = "out" /\ revealed = FALSE /\ popover = NoClass /\ popupIsOpen = FALSE
      /\ misled = {}
  BY DEF Init, Daemon!AppdInit, Resolver!ResolverInit, Bar!HideInit
<1>2. DaemonTyped
  <2>1. scan \in Suffixes(scan)
    <3>1. scan \in Seq(Range(scan))
      BY <1>1, FilesAssumption
    <3>2. CASE scan = <<>>
      BY <3>2 DEF Suffixes
    <3>3. CASE scan # <<>>
      <4>1. scan = SubSeq(scan, 1, Len(scan)) /\ 1 \in 1 .. Len(scan)
        BY <3>1, <3>3, SubSeqFull, TailFacts
      <4> QED BY <4>1 DEF Suffixes
    <3> QED BY <3>2, <3>3
  <2>2. queue \in BoundedSeq(Files, ChannelCap)
    <3>1. queue \in Seq(Files) /\ Len(queue) =< ChannelCap /\ ChannelCap \in Nat
      BY <1>1, EmptySeq, BoundsAssumption
    <3> QED BY <3>1, SeqOfMeans, BoundsAssumption DEF BoundedSeq
  <2> QED BY <1>1, <2>1, <2>2 DEF DaemonTyped
<1>3. OnDock = {} /\ Pending = {}
  BY <1>1 DEF OnDock, Resolver!OnDock, Pending, Range
<1>4. tasks \in Seq(Requests) /\ Len(tasks) =< MaxTasks
  BY <1>1, EmptySeq, BoundsAssumption
<1>5. ResolverTyped
  BY <1>1, <1>3, <1>4 DEF ResolverTyped
<1>6. NothingAsked /\ RepliesFinal /\ CacheFinal /\ IconsKnown /\ IconsUnderWay /\ AllRequested
  BY <1>1, <1>3 DEF NothingAsked, RepliesFinal, CacheFinal, IconsKnown, IconsUnderWay, AllRequested
<1>7. IsFiniteSet(OnDock)
  BY <1>3, FS_EmptySet
<1>8. BarTyped /\ MenuOnShownBar
  BY <1>1 DEF BarTyped, MenuOnShownBar
<1> QED BY <1>2, <1>5, <1>6, <1>7, <1>8 DEF IInv, EntriesInv

LEMMA StepIInv == ASSUME IInv, [Next]_vars PROVE IInv'
<1>1. EntriesInv /\ DaemonTyped /\ BarInv
  BY DEF IInv, BarInv
<1> SUFFICES EntriesInv' /\ DaemonTyped' /\ BarInv'
  BY DEF IInv, BarInv
<1>2. UNCHANGED appdvars => DaemonTyped' /\ UNCHANGED <<scan, queue, index>>
  BY <1>1 DEF appdvars, DaemonTyped
<1>3. UNCHANGED hvars => UNCHANGED <<pointer, revealed, popover, popupIsOpen>>
  BY DEF hvars
<1>4. UNCHANGED <<rvars, misled>> => UNCHANGED <<proxy, cache, icon, tasks, misled>>
  BY DEF rvars
<1>5. UNCHANGED <<appdvars, rvars, misled>> => EntriesInv' /\ DaemonTyped' /\ OnDock' = OnDock
  <2> SUFFICES ASSUME UNCHANGED <<appdvars, rvars, misled>>
               PROVE  EntriesInv' /\ DaemonTyped' /\ OnDock' = OnDock
    OBVIOUS
  <2>1. UNCHANGED <<scan, queue, index, proxy, cache, icon, tasks, misled>> /\ DaemonTyped'
    BY <1>2, <1>4
  <2>2. OnDock' = OnDock /\ Pending' = Pending /\ \A c : (Requested(c))' <=> Requested(c)
    BY <2>1 DEF OnDock, Resolver!OnDock, Pending, Requested
  <2>3. ResolverTyped' /\ NothingAsked'
    BY <1>1, <2>1, <2>2 DEF EntriesInv, ResolverTyped, NothingAsked
  <2>4. RepliesFinal' /\ CacheFinal'
    BY <1>1, <2>1, <2>2, DaemonRests DEF EntriesInv, RepliesFinal, CacheFinal
  <2>5. IconsKnown' /\ IconsUnderWay' /\ AllRequested'
    BY <1>1, <2>1, <2>2, DaemonRests DEF EntriesInv, IconsKnown, IconsUnderWay, AllRequested
  <2> QED BY <1>1, <2>1, <2>2, <2>3, <2>4, <2>5 DEF EntriesInv
<1>6. CASE DaemonIndexes
  BY <1>1, <1>3, <1>4, <1>6, DaemonStep, BarRests DEF DaemonIndexes
<1>7. CASE BusStep
  <2>1. PICK i \in DOMAIN tasks : Answer(i) \/ CallFails(i)
    BY <1>7 DEF BusStep
  <2>2. UNCHANGED <<appdvars, hvars>>
    BY <2>1 DEF Answer, CallFails
  <2> QED BY <1>1, <1>2, <1>3, <2>1, <2>2, BusStepLemma, BarRests
<1>8. CASE Connect
  BY <1>1, <1>2, <1>3, <1>8, ConnectStep, BarRests DEF Connect
<1>9. CASE Poll
  BY <1>1, <1>2, <1>3, <1>9, PollTaskStep, BarRests DEF Poll
<1>10. CASE \E i \in DOMAIN tasks : Resume(i)
  BY <1>1, <1>2, <1>3, <1>10, ResumeStep, BarRests DEF Resume
<1>11. CASE UsePointer
  <2>1. UNCHANGED <<appdvars, rvars, misled>>
    BY <1>11 DEF UsePointer
  <2>2. \/ Bar!Enter(OnDock) \/ Bar!Leave \/ (\E c \in OnDock : Bar!RightClick(c)) \/ Bar!Popdown
    BY <1>11 DEF UsePointer, OnDock
  <2> QED BY <1>1, <1>5, <2>1, <2>2, PointerStep, PopdownStep
<1>12. CASE PinButton
  <2>1. /\ popover # NoClass
        /\ Resolver!ReinsertBucket(popover) \/ Resolver!RemoveBucket(popover)
        /\ Bar!Popdown /\ UNCHANGED <<appdvars, misled>>
    BY <1>12 DEF PinButton
  <2>2. popover \in Classes
    BY <1>1, <2>1 DEF BarInv, BarTyped
  <2>3. EntriesInv'
    <3>1. PICK c \in Classes : c = popover
      BY <2>2
    <3> QED BY <1>1, <1>2, <2>1, <3>1, ReinsertBucketStep, RemoveBucketStep
  <2> QED BY <1>1, <1>2, <2>1, <2>3, PopdownStep
<1>13. CASE OpenNewWindow
  BY <1>1, <1>5, <1>13, PopdownStep DEF OpenNewWindow
<1>14. ASSUME NEW c \in Classes, Appear(c) PROVE EntriesInv' /\ DaemonTyped' /\ BarInv'
  BY <1>1, <1>2, <1>3, <1>14, AddBucketStep, BarRests DEF Appear
<1>15. ASSUME NEW c \in Classes, Disappear(c) PROVE EntriesInv' /\ DaemonTyped' /\ BarInv'
  <2>1. /\ Resolver!ReinsertBucket(c) \/ Resolver!RemoveBucket(c)
        /\ Bar!Unbind(c) /\ UNCHANGED <<appdvars, misled>>
    BY <1>15 DEF Disappear
  <2>2. EntriesInv' /\ OnDock \ {c} \subseteq OnDock'
    BY <1>1, <1>2, <2>1, ReinsertBucketStep, RemoveBucketStep
  <2> QED BY <1>1, <1>2, <2>1, <2>2, UnbindStep
<1>16. CASE UNCHANGED vars
  BY <1>1, <1>3, <1>5, <1>16, BarRests DEF vars
<1> QED BY <1>6, <1>7, <1>8, <1>9, <1>10, <1>11, <1>12, <1>13, <1>14, <1>15, <1>16
        DEF Next, TaskStep, UserStep

-----------------------------------------------------------------------------
(* Commands *)

\* The step of Replaced, and what it comes to
ReplaceFrom(f, s, code, r, i) ==
    IF i > Len(s) THEN <<>>
    ELSE IF s[i] = "%" /\ i < Len(s) /\ s[i + 1] = code
    THEN r \o f[i + 2]
    ELSE <<s[i]>> \o f[i + 1]

Replaces(f, s, code, r) ==
    /\ f[Len(s) + 1] = <<>>
    /\ \A i \in 1 .. Len(s) : f[i] = ReplaceFrom(f, s, code, r, i)

\* Replaced is the first value of a function from positions to what is made of the
\* rest.
LEMMA ReplacedSteps ==
    ASSUME NEW s, Len(s) \in Nat, NEW code, NEW r
    PROVE  \E f : Replaces(f, s, code, r) /\ Daemon!Replaced(s, code, r) = f[1]
<1> PICK n \in Nat : n = Len(s)
  OBVIOUS
<1> DEFINE S == {k \in Nat :
                   \E f : f = [i \in n + 1 - k .. n + 1 |-> ReplaceFrom(f, s, code, r, i)]}
<1>1. 0 \in S
  <2> DEFINE f == [i \in n + 1 - 0 .. n + 1 |-> <<>>]
  <2>1. f = [i \in n + 1 - 0 .. n + 1 |-> ReplaceFrom(f, s, code, r, i)]
    BY DEF ReplaceFrom
  <2>2. \E g : g = [i \in n + 1 - 0 .. n + 1 |-> ReplaceFrom(g, s, code, r, i)]
    BY <2>1
  <2> QED BY <2>2
<1>2. ASSUME NEW k \in Nat, k \in S PROVE k + 1 \in S
  <2>1. PICK f : f = [i \in n + 1 - k .. n + 1 |-> ReplaceFrom(f, s, code, r, i)]
    BY <1>2
  <2> PICK m \in Int : m = n + 1 - (k + 1)
    OBVIOUS
  <2> DEFINE g == [i \in m .. n + 1 |-> IF i = m THEN ReplaceFrom(f, s, code, r, i) ELSE f[i]]
  <2>2. ASSUME NEW i \in m .. n + 1 PROVE g[i] = ReplaceFrom(g, s, code, r, i)
    <3>1. i + 1 \in m .. n + 1 => g[i + 1] = f[i + 1]
      OBVIOUS
    <3>2. i + 2 \in m .. n + 1 => g[i + 2] = f[i + 2]
      OBVIOUS
    <3>3. /\ i <= n => i + 1 \in m .. n + 1
          /\ i < n => i + 2 \in m .. n + 1
      OBVIOUS
    <3>4. i # m => i \in n + 1 - k .. n + 1
      OBVIOUS
    <3>5. i # m => f[i] = ReplaceFrom(f, s, code, r, i)
      BY <2>1, <3>4
    <3>6. g[i] = ReplaceFrom(f, s, code, r, i)
      BY <3>5
    <3> HIDE DEF g
    <3>7. CASE i > n
      BY <3>6, <3>7 DEF ReplaceFrom
    <3>8. CASE i <= n
      <4>1. g[i + 1] = f[i + 1] /\ (i < n => g[i + 2] = f[i + 2])
        BY <3>1, <3>2, <3>3, <3>8
      <4> QED BY <3>6, <4>1 DEF ReplaceFrom
    <3> QED BY <3>7, <3>8
  <2>3. g = [i \in m .. n + 1 |-> ReplaceFrom(g, s, code, r, i)]
    BY <2>2
  <2>4. \E h : h = [i \in n + 1 - (k + 1) .. n + 1 |-> ReplaceFrom(h, s, code, r, i)]
    BY <2>3
  <2> QED BY <2>4
<1> HIDE DEF S
<1>3. n \in S
  BY <1>1, <1>2, Induct
<1>4. \E f : f = [i \in 1 .. n + 1 |-> ReplaceFrom(f, s, code, r, i)]
  <2>1. \E f : f = [i \in n + 1 - n .. n + 1 |-> ReplaceFrom(f, s, code, r, i)]
    BY <1>3 DEF S
  <2>2. n + 1 - n = 1
    OBVIOUS
  <2> QED BY <2>1, <2>2
<1> DEFINE c == CHOOSE f : f = [i \in 1 .. n + 1 |-> ReplaceFrom(f, s, code, r, i)]
<1>5. c = [i \in 1 .. n + 1 |-> ReplaceFrom(c, s, code, r, i)]
  BY <1>4, Zenon
<1>6. Daemon!Replaced(s, code, r) = c[1]
  BY DEF Daemon!Replaced, ReplaceFrom
<1> HIDE DEF c
<1>7. \A i \in 1 .. n + 1 : c[i] = ReplaceFrom(c, s, code, r, i)
  BY <1>5
<1>8. c[n + 1] = <<>>
  <2>1. n + 1 \in 1 .. n + 1 /\ n + 1 > n
    OBVIOUS
  <2>2. ReplaceFrom(c, s, code, r, n + 1) = <<>>
    BY <2>1 DEF ReplaceFrom
  <2> QED BY <1>7, <2>1, <2>2
<1> QED BY <1>6, <1>7, <1>8 DEF Replaces

\* A code that is replaced, and a token that is kept
LEMMA ReplaceHit ==
    ASSUME NEW s, NEW n \in Nat, n = Len(s), NEW code, NEW r,
           NEW f, Replaces(f, s, code, r), NEW i \in 1 .. n,
           s[i] = "%", i < n, s[i + 1] = code
    PROVE  f[i] = r \o f[i + 2]
<1>1. ~(i > Len(s))
  OBVIOUS
<1>2. f[i] = ReplaceFrom(f, s, code, r, i)
  BY DEF Replaces
<1> QED BY <1>1, <1>2, Zenon DEF ReplaceFrom

LEMMA ReplaceMiss ==
    ASSUME NEW s, NEW n \in Nat, n = Len(s), NEW code, NEW r,
           NEW f, Replaces(f, s, code, r), NEW i \in 1 .. n,
           s[i] = "%" /\ i < n => s[i + 1] # code
    PROVE  f[i] = <<s[i]>> \o f[i + 1]
<1>1. ~(i > Len(s))
  OBVIOUS
<1>2. f[i] = ReplaceFrom(f, s, code, r, i)
  BY DEF Replaces
<1> QED BY <1>1, <1>2, Zenon DEF ReplaceFrom

\* A text of tokens of U in which every % stands before another token
Text(s, U) ==
    /\ s \in Seq(U)
    /\ \A i \in 1 .. Len(s) : s[i] = "%" => i < Len(s) /\ s[i + 1] # "%"

\* Two texts make a text.
LEMMA TextConcat ==
    ASSUME NEW U, NEW a, NEW b, Text(a, U), Text(b, U)
    PROVE  Text(a \o b, U)
<1> PICK ab : ab = a \o b
  OBVIOUS
<1> PICK m, n : m = Len(a) /\ n = Len(b)
  OBVIOUS
<1>1. /\ a \in Seq(U) /\ b \in Seq(U) /\ m \in Nat /\ n \in Nat
      /\ \A i \in 1 .. m : a[i] = "%" => i < m /\ a[i + 1] # "%"
      /\ \A i \in 1 .. n : b[i] = "%" => i < n /\ b[i + 1] # "%"
  BY LenProperties DEF Text
<1>2. /\ ab \in Seq(U) /\ Len(ab) = m + n
      /\ \A i \in 1 .. m + n : ab[i] = IF i <= m THEN a[i] ELSE b[i - m]
  BY <1>1, ConcatProperties
<1>3. ASSUME NEW i \in 1 .. m + n, ab[i] = "%" PROVE i < m + n /\ ab[i + 1] # "%"
  <2>1. CASE i <= m
    <3>1. i \in 1 .. m /\ a[i] = "%"
      BY <1>1, <1>2, <1>3, <2>1
    <3>2. i < m /\ a[i + 1] # "%"
      BY <1>1, <3>1
    <3>3. i + 1 \in 1 .. m + n /\ i + 1 <= m
      BY <1>1, <3>2
    <3> QED BY <1>1, <1>2, <3>2, <3>3
  <2>2. CASE i > m
    <3> PICK j : j = i - m
      OBVIOUS
    <3>1. j \in 1 .. n /\ i = j + m
      BY <1>1, <2>2
    <3>2. b[j] = "%"
      BY <1>1, <1>2, <1>3, <2>2
    <3>3. j < n /\ b[j + 1] # "%"
      BY <1>1, <3>1, <3>2
    <3>4. i + 1 \in 1 .. m + n /\ ~(i + 1 <= m) /\ i + 1 - m = j + 1 /\ i < m + n
      BY <1>1, <3>1, <3>3
    <3>5. ab[i + 1] = b[j + 1]
      BY <1>2, <3>4
    <3> QED BY <3>3, <3>4, <3>5
  <2> QED BY <1>1, <2>1, <2>2
<1> QED BY <1>2, <1>3 DEF Text

\* Down from the end of a text
LEMMA Down ==
    ASSUME NEW n \in Nat, NEW S, n + 1 \in S,
           \A i \in 1 .. n : (\A j \in i + 1 .. n + 1 : j \in S) => i \in S
    PROVE  \A i \in 1 .. n + 1 : i \in S
<1> DEFINE T == {k \in Nat : \A j \in 1 .. n + 1 : j >= n + 1 - k => j \in S}
<1>1. 0 \in T
  <2>1. \A j \in 1 .. n + 1 : j >= n + 1 - 0 => j = n + 1
    OBVIOUS
  <2> QED BY <2>1
<1>2. ASSUME NEW k \in Nat, k \in T PROVE k + 1 \in T
  <2> SUFFICES ASSUME NEW j \in 1 .. n + 1, j >= n + 1 - (k + 1) PROVE j \in S
    OBVIOUS
  <2>1. CASE j >= n + 1 - k
    BY <1>2, <2>1
  <2>2. CASE j < n + 1 - k
    <3>1. j \in 1 .. n
      BY <2>2
    <3>2. \A x \in j + 1 .. n + 1 : x \in 1 .. n + 1 /\ x >= n + 1 - k
      OBVIOUS
    <3>3. \A x \in j + 1 .. n + 1 : x \in S
      BY <1>2, <3>2
    <3> QED BY <3>1, <3>3
  <2> QED BY <2>1, <2>2
<1> HIDE DEF T
<1>3. n + 1 \in T
  <2>1. n + 1 \in Nat
    OBVIOUS
  <2> QED BY <1>1, <1>2, <2>1, Induct
<1> QED BY <1>3 DEF T

\* Nothing, a token and a code are texts.
LEMMA TokenTexts ==
    ASSUME NEW U, NEW a \in U, NEW b \in U, b # "%"
    PROVE  /\ Text(<<>>, U) /\ Text(<<b>>, U) /\ Text(<<a>> \o <<b>>, U)
           /\ \A w \in Seq(U) : <<a>> \o (<<b>> \o w) = (<<a>> \o <<b>>) \o w
<1>1. /\ <<>> \in Seq(U) /\ Len(<<>>) = 0 /\ <<a>> \in Seq(U) /\ <<b>> \in Seq(U)
      /\ Len(<<a>>) = 1 /\ Len(<<b>>) = 1 /\ <<a>>[1] = a /\ <<b>>[1] = b
  OBVIOUS
<1>2. Text(<<>>, U)
  BY <1>1 DEF Text
<1>3. Text(<<b>>, U)
  BY <1>1 DEF Text
<1>4. Text(<<a>> \o <<b>>, U)
  <2> PICK s : s = <<a>> \o <<b>>
    OBVIOUS
  <2>1. /\ s \in Seq(U) /\ Len(s) = 1 + 1
        /\ \A i \in 1 .. 1 + 1 : s[i] = IF i <= 1 THEN <<a>>[i] ELSE <<b>>[i - 1]
    BY <1>1, ConcatProperties
  <2>2. s \in Seq(U) /\ Len(s) = 2 /\ s[2] = b
    BY <1>1, <2>1
  <2>3. \A i \in 1 .. 2 : i = 1 \/ i = 2
    OBVIOUS
  <2> QED BY <2>2, <2>3 DEF Text
<1>5. ASSUME NEW w \in Seq(U) PROVE <<a>> \o (<<b>> \o w) = (<<a>> \o <<b>>) \o w
  BY <1>1, ConcatAssociative
<1> QED BY <1>2, <1>3, <1>4, <1>5

\* What is made of a sequence of tokens of U is one again.
LEMMA ReplacesSeqs ==
    ASSUME NEW U, NEW s \in Seq(U), NEW code, NEW r \in Seq(U),
           NEW f, Replaces(f, s, code, r)
    PROVE  \A i \in 1 .. Len(s) + 1 : f[i] \in Seq(U)
<1> PICK n \in Nat : n = Len(s)
  BY LenProperties
<1>1. f[n + 1] = <<>> /\ \A i \in 1 .. n : f[i] = ReplaceFrom(f, s, code, r, i)
  BY DEF Replaces
<1> DEFINE S == {i \in 1 .. n + 1 : f[i] \in Seq(U)}
<1>2. n + 1 \in S
  <2>1. n + 1 \in 1 .. n + 1 /\ <<>> \in Seq(U)
    BY EmptySeq
  <2> QED BY <1>1, <2>1
<1>3. ASSUME NEW i \in 1 .. n, \A j \in i + 1 .. n + 1 : j \in S PROVE i \in S
  <2>1. s[i] \in U /\ <<s[i]>> \in Seq(U)
    BY ElementOfSeq
  <2>2. i + 1 \in i + 1 .. n + 1 /\ (i < n => i + 2 \in i + 1 .. n + 1)
    OBVIOUS
  <2>3. f[i + 1] \in Seq(U) /\ (i < n => f[i + 2] \in Seq(U))
    BY <1>3, <2>2
  <2>4. (i < n /\ f[i] = r \o f[i + 2]) \/ f[i] = <<s[i]>> \o f[i + 1]
    <3>1. CASE s[i] = "%" /\ i < n /\ s[i + 1] = code
      BY <3>1, ReplaceHit
    <3>2. CASE s[i] = "%" /\ i < n => s[i + 1] # code
      BY <3>2, ReplaceMiss
    <3> QED BY <3>1, <3>2
  <2>5. f[i] \in Seq(U)
    BY <2>1, <2>3, <2>4, ConcatProperties
  <2> QED BY <2>5
<1> HIDE DEF S
<1>4. \A i \in 1 .. n + 1 : i \in S
  BY <1>2, <1>3, Down
<1> QED BY <1>4 DEF S

\* Replacing a code by a text leaves a text.
LEMMA ReplacedText ==
    ASSUME NEW U, NEW s, Text(s, U), NEW code, NEW r, Text(r, U)
    PROVE  Text(Daemon!Replaced(s, code, r), U)
<1> PICK n \in Nat : n = Len(s)
  BY LenProperties DEF Text
<1>1. /\ s \in Seq(U) /\ r \in Seq(U)
      /\ \A i \in 1 .. n : s[i] = "%" => i < n /\ s[i + 1] # "%"
  BY DEF Text
<1> PICK f : Replaces(f, s, code, r) /\ Daemon!Replaced(s, code, r) = f[1]
  BY ReplacedSteps
<1>2. f[n + 1] = <<>> /\ \A i \in 1 .. n : f[i] = ReplaceFrom(f, s, code, r, i)
  BY DEF Replaces
<1>3. \A i \in 1 .. n + 1 : f[i] \in Seq(U)
  BY <1>1, ReplacesSeqs
<1> DEFINE S == {i \in 1 .. n + 1 : Text(f[i], U)}
<1>4. n + 1 \in S
  <2>1. Text(<<>>, U)
    <3>1. <<>> \in Seq(U) /\ Len(<<>>) = 0
      BY EmptySeq
    <3> QED BY <3>1 DEF Text
  <2> QED BY <1>2, <2>1
<1>5. ASSUME NEW i \in 1 .. n, \A j \in i + 1 .. n + 1 : j \in S PROVE i \in S
  <2>1. i + 1 \in i + 1 .. n + 1 /\ (i < n => i + 2 \in i + 1 .. n + 1)
    OBVIOUS
  <2>2. Text(f[i + 1], U) /\ (i < n => Text(f[i + 2], U))
    BY <1>5, <2>1
  <2>3. s[i] \in U /\ (i < n => s[i + 1] \in U)
    BY <1>1, ElementOfSeq
  <2>4. CASE s[i] # "%"
    <3>1. f[i] = <<s[i]>> \o f[i + 1]
      BY <2>4, ReplaceMiss
    <3>2. Text(<<s[i]>>, U)
      BY <2>3, <2>4, TokenTexts
    <3>3. Text(f[i], U)
      BY <2>2, <3>1, <3>2, TextConcat
    <3> QED BY <3>3
  <2>5. CASE s[i] = "%" /\ s[i + 1] = code
    <3>1. i < n /\ f[i] = r \o f[i + 2]
      <4>1. i < n
        BY <1>1, <2>5
      <4> QED BY <2>5, <4>1, ReplaceHit
    <3>2. Text(f[i], U)
      BY <2>2, <3>1, TextConcat
    <3> QED BY <3>2
  <2>6. CASE s[i] = "%" /\ s[i + 1] # code
    <3>1. i < n /\ s[i + 1] # "%" /\ f[i] = <<s[i]>> \o f[i + 1]
      <4>1. i < n /\ s[i + 1] # "%"
        BY <1>1, <2>6
      <4> QED BY <2>6, <4>1, ReplaceMiss
    <3>2. f[i + 1] = <<s[i + 1]>> \o f[i + 2]
      <4> PICK j : j = i + 1
        OBVIOUS
      <4>1. j \in 1 .. n /\ j + 1 = i + 2
        BY <3>1
      <4>2. f[j] = <<s[j]>> \o f[j + 1]
        BY <3>1, <4>1, ReplaceMiss
      <4> QED BY <4>1, <4>2
    <3>3. f[i + 2] \in Seq(U)
      BY <2>2, <3>1 DEF Text
    <3>4. f[i] = (<<s[i]>> \o <<s[i + 1]>>) \o f[i + 2]
      BY <2>3, <3>1, <3>2, <3>3, TokenTexts
    <3>5. Text(f[i], U)
      <4> PICK p, q : p = <<s[i]>> \o <<s[i + 1]>> /\ q = f[i + 2]
        OBVIOUS
      <4>1. Text(p, U)
        BY <2>3, <3>1, TokenTexts
      <4>2. Text(q, U)
        BY <2>2, <3>1
      <4>3. Text(p \o q, U)
        BY <4>1, <4>2, TextConcat
      <4> QED BY <3>4, <4>3
    <3> QED BY <3>5
  <2> QED BY <2>4, <2>5, <2>6
<1> HIDE DEF S
<1>6. \A i \in 1 .. n + 1 : i \in S
  BY <1>4, <1>5, Down
<1> QED BY <1>6 DEF S

\* A text is replaced part by part.
LEMMA ReplacedConcat ==
    ASSUME NEW U, NEW x, Text(x, U), NEW w \in Seq(U), NEW code, NEW r \in Seq(U)
    PROVE  Daemon!Replaced(x \o w, code, r)
             = Daemon!Replaced(x, code, r) \o Daemon!Replaced(w, code, r)
<1> PICK m \in Nat, n \in Nat : m = Len(x) /\ n = Len(w)
  BY LenProperties DEF Text
<1>s. PICK s : s = x \o w
  OBVIOUS
<1>l. PICK l \in Nat : l = m + n
  OBVIOUS
<1>1. x \in Seq(U) /\ \A i \in 1 .. m : x[i] = "%" => i < m
  BY DEF Text
<1>2. /\ s \in Seq(U) /\ Len(s) = m + n
      /\ \A i \in 1 .. m + n : s[i] = IF i <= m THEN x[i] ELSE w[i - m]
  BY <1>1, <1>s, ConcatProperties
<1>f. PICK f : Replaces(f, s, code, r) /\ Daemon!Replaced(s, code, r) = f[1]
  <2>1. Len(s) \in Nat
    BY <1>2
  <2> QED BY <2>1, ReplacedSteps
<1>g. PICK g : Replaces(g, x, code, r) /\ Daemon!Replaced(x, code, r) = g[1]
  BY ReplacedSteps
<1>h. PICK h : Replaces(h, w, code, r) /\ Daemon!Replaced(w, code, r) = h[1]
  BY ReplacedSteps
<1>3. f[m + n + 1] = <<>> /\ \A i \in 1 .. m + n : f[i] = ReplaceFrom(f, s, code, r, i)
  BY <1>2, <1>f DEF Replaces
<1>4. g[m + 1] = <<>> /\ \A i \in 1 .. m : g[i] = ReplaceFrom(g, x, code, r, i)
  BY <1>g DEF Replaces
<1>5. h[n + 1] = <<>> /\ \A i \in 1 .. n : h[i] = ReplaceFrom(h, w, code, r, i)
  BY <1>h DEF Replaces
<1>6. \A i \in 1 .. m + 1 : g[i] \in Seq(U)
  BY <1>1, <1>g, ReplacesSeqs
<1>7. \A i \in 1 .. n + 1 : h[i] \in Seq(U)
  BY <1>h, ReplacesSeqs
<1>8. \A i \in 1 .. n + 1 : f[m + i] = h[i]
  <2> DEFINE S == {i \in 1 .. n + 1 : f[m + i] = h[i]}
  <2>1. n + 1 \in S
    <3>1. m + (n + 1) = m + n + 1
      OBVIOUS
    <3> QED BY <1>3, <1>5, <3>1
  <2>2. ASSUME NEW i \in 1 .. n, \A j \in i + 1 .. n + 1 : j \in S PROVE i \in S
    <3>1. /\ i + 1 \in i + 1 .. n + 1 /\ (i < n => i + 2 \in i + 1 .. n + 1)
          /\ m + i \in 1 .. m + n /\ (m + i) + 1 = m + (i + 1) /\ (m + i) + 2 = m + (i + 2)
          /\ ~(m + i <= m) /\ (m + i) - m = i /\ (m + i < m + n <=> i < n)
          /\ ~(m + i > m + n) /\ ~(i > n)
      OBVIOUS
    <3>2. f[(m + i) + 1] = h[i + 1] /\ (i < n => f[(m + i) + 2] = h[i + 2])
      BY <2>2, <3>1
    <3>3. s[m + i] = w[i]
      BY <1>2, <3>1
    <3>4. i < n => s[(m + i) + 1] = w[i + 1]
      <4> SUFFICES ASSUME i < n PROVE s[(m + i) + 1] = w[i + 1]
        OBVIOUS
      <4>1. /\ (m + i) + 1 \in 1 .. m + n /\ ~((m + i) + 1 <= m)
            /\ ((m + i) + 1) - m = i + 1
        OBVIOUS
      <4> QED BY <1>2, <4>1
    <3>5. f[m + i] = ReplaceFrom(f, s, code, r, m + i) /\ h[i] = ReplaceFrom(h, w, code, r, i)
      BY <1>3, <1>5, <3>1
    <3> PICK k : k = m + i
      OBVIOUS
    <3>6. f[k] = h[i]
      BY <1>2, <3>1, <3>2, <3>3, <3>4, <3>5 DEF ReplaceFrom
    <3> QED BY <3>6
  <2> HIDE DEF S
  <2>3. \A i \in 1 .. n + 1 : i \in S
    BY <2>1, <2>2, Down
  <2> QED BY <2>3 DEF S
<1>9. f[m + 1] = h[1] /\ h[1] \in Seq(U)
  BY <1>7, <1>8
<1>a. ASSUME NEW a \in Seq(U), NEW b \in Seq(U), NEW c \in Seq(U)
      PROVE  (a \o b) \o c = a \o (b \o c)
  BY ConcatAssociative
<1>10. \A i \in 1 .. m + 1 : f[i] = g[i] \o h[1]
  <2> DEFINE S == {i \in 1 .. m + 1 : f[i] = g[i] \o h[1]}
  <2>1. m + 1 \in S
    <3>1. <<>> \o h[1] = h[1]
      BY <1>9, ConcatEmptySeq
    <3>2. f[m + 1] = g[m + 1] \o h[1]
      BY <1>4, <1>9, <3>1
    <3>3. m + 1 \in 1 .. m + 1
      OBVIOUS
    <3> QED BY <3>2, <3>3
  <2>2. ASSUME NEW i \in 1 .. m, \A j \in i + 1 .. m + 1 : j \in S PROVE i \in S
    <3>1. /\ i + 1 \in i + 1 .. m + 1 /\ (i < m => i + 2 \in i + 1 .. m + 1)
          /\ i \in 1 .. m + n /\ i <= m /\ (i < m => i + 1 \in 1 .. m + n /\ i + 1 <= m)
          /\ (i < m => i < m + n) /\ ~(i > m + n) /\ ~(i > m)
      OBVIOUS
    <3>2. /\ f[i + 1] = g[i + 1] \o h[1] /\ g[i + 1] \in Seq(U)
          /\ i < m => f[i + 2] = g[i + 2] \o h[1] /\ g[i + 2] \in Seq(U)
      BY <1>6, <2>2, <3>1
    <3>3. s[i] = x[i] /\ (i < m => s[i + 1] = x[i + 1]) /\ x[i] \in U
      BY <1>1, <1>2, <3>1, ElementOfSeq
    <3>4. f[i] = ReplaceFrom(f, s, code, r, i) /\ g[i] = ReplaceFrom(g, x, code, r, i)
      BY <1>3, <1>4, <3>1
    <3>5. ASSUME x[i] = "%" /\ x[i + 1] = code PROVE f[i] = g[i] \o h[1]
      <4>1. i < m
        BY <1>1, <3>5
      <4>2. f[i] = r \o f[i + 2] /\ g[i] = r \o g[i + 2]
        <5>1. f[i] = r \o f[i + 2]
          <6>1. s[i] = "%" /\ i < l /\ s[i + 1] = code /\ i \in 1 .. l /\ l = Len(s)
            BY <1>2, <1>l, <3>1, <3>3, <3>5, <4>1
          <6> QED BY <1>f, <6>1, ReplaceHit
        <5>2. g[i] = r \o g[i + 2]
          BY <1>g, <3>5, <4>1, ReplaceHit
        <5> QED BY <5>1, <5>2
      <4>3. (r \o g[i + 2]) \o h[1] = r \o (g[i + 2] \o h[1])
        <5>0. PICK a, b, c : a = r /\ b = g[i + 2] /\ c = h[1]
          OBVIOUS
        <5>1. a \in Seq(U) /\ b \in Seq(U) /\ c \in Seq(U)
          BY <1>9, <5>0, <3>2, <4>1
        <5>2. (a \o b) \o c = a \o (b \o c)
          BY <1>a, <5>1
        <5> QED BY <5>0, <5>2
      <4>4. f[i] = g[i] \o h[1]
        BY <3>2, <4>1, <4>2, <4>3
      <4> QED BY <4>4
    <3>6. ASSUME ~(x[i] = "%" /\ x[i + 1] = code) PROVE f[i] = g[i] \o h[1]
      <4>1. x[i] = "%" => i < m
        BY <1>1
      <4>2. f[i] = <<x[i]>> \o f[i + 1] /\ g[i] = <<x[i]>> \o g[i + 1]
        <5>1. f[i] = <<x[i]>> \o f[i + 1]
          <6>1. /\ s[i] = "%" /\ i < l => s[i + 1] # code
                /\ i \in 1 .. l /\ l = Len(s)
            BY <1>2, <1>l, <3>1, <3>3, <3>6, <4>1
          <6>2. f[i] = <<s[i]>> \o f[i + 1]
            BY <1>f, <6>1, ReplaceMiss
          <6> QED BY <3>3, <6>2
        <5>2. g[i] = <<x[i]>> \o g[i + 1]
          BY <1>g, <3>6, ReplaceMiss
        <5> QED BY <5>1, <5>2
      <4>3. <<x[i]>> \in Seq(U)
        BY <3>3
      <4>4. (<<x[i]>> \o g[i + 1]) \o h[1] = <<x[i]>> \o (g[i + 1] \o h[1])
        <5>0. PICK a, b, c : a = <<x[i]>> /\ b = g[i + 1] /\ c = h[1]
          OBVIOUS
        <5>1. a \in Seq(U) /\ b \in Seq(U) /\ c \in Seq(U)
          BY <1>9, <5>0, <3>2, <4>3
        <5>2. (a \o b) \o c = a \o (b \o c)
          BY <1>a, <5>1
        <5> QED BY <5>0, <5>2
      <4>5. f[i] = g[i] \o h[1]
        BY <3>2, <4>2, <4>4
      <4> QED BY <4>5
    <3>7. f[i] = g[i] \o h[1]
      BY <3>5, <3>6, Zenon
    <3>8. i \in 1 .. m + 1
      OBVIOUS
    <3> QED BY <3>7, <3>8, Zenon
  <2> HIDE DEF S
  <2>3. \A i \in 1 .. m + 1 : i \in S
    BY <2>1, <2>2, Down
  <2> QED BY <2>3 DEF S
<1>11. f[1] = g[1] \o h[1]
  <2>1. 1 \in 1 .. m + 1
    OBVIOUS
  <2> QED BY <1>10, <2>1
<1> QED BY <1>s, <1>f, <1>g, <1>h, <1>11

\* The code of letter c
Code(c) == <<"%">> \o <<c>>

\* What is made of a part: nothing of nothing, a token of itself, and a code of
\* what it is replaced by.
Replacing(code, r) ==
    /\ Daemon!Replaced(<<>>, code, r) = <<>>
    /\ \A t : t # "%" => Daemon!Replaced(<<t>>, code, r) = <<t>>
    /\ \A c : c # "%" => /\ c = code => Daemon!Replaced(Code(c), code, r) = r
                         /\ c # code => Daemon!Replaced(Code(c), code, r) = Code(c)

LEMMA ReplacedParts ==
    ASSUME NEW code, NEW r, NEW V, r \in Seq(V)
    PROVE  Replacing(code, r)
<1>1. Daemon!Replaced(<<>>, code, r) = <<>>
  <2> PICK s : s = <<>>
    OBVIOUS
  <2> PICK n \in Nat : n = Len(s)
    OBVIOUS
  <2>1. PICK f : Replaces(f, s, code, r) /\ Daemon!Replaced(s, code, r) = f[1]
    BY ReplacedSteps
  <2>2. f[n + 1] = <<>>
    BY <2>1 DEF Replaces
  <2>3. n + 1 = 1
    OBVIOUS
  <2> QED BY <2>1, <2>2, <2>3
<1>2. ASSUME NEW t, t # "%" PROVE Daemon!Replaced(<<t>>, code, r) = <<t>>
  <2>s. PICK s : s = <<t>>
    OBVIOUS
  <2>n. PICK n \in Nat : n = Len(s)
    BY <2>s
  <2>1. s[1] = t /\ 1 \in 1 .. n /\ ~(1 < n) /\ n + 1 = 2
    BY <2>s, <2>n
  <2>2. PICK f : Replaces(f, s, code, r) /\ Daemon!Replaced(s, code, r) = f[1]
    BY <2>n, ReplacedSteps
  <2>3. f[n + 1] = <<>>
    BY <2>2, <2>n DEF Replaces
  <2>4. f[1] = <<s[1]>> \o f[1 + 1]
    BY <2>n, <2>1, <2>2, ReplaceMiss
  <2>5. <<t>> \o <<>> = <<t>>
    <3>1. <<t>> \in Seq({t})
      OBVIOUS
    <3> QED BY <3>1, ConcatEmptySeq
  <2>6. f[1] = <<t>> \o <<>>
    <3>1. 1 + 1 = 2
      OBVIOUS
    <3> QED BY <2>1, <2>3, <2>4, <3>1
  <2> QED BY <2>s, <2>2, <2>5, <2>6
<1>3. ASSUME NEW c, c # "%"
      PROVE  /\ c = code => Daemon!Replaced(Code(c), code, r) = r
             /\ c # code => Daemon!Replaced(Code(c), code, r) = Code(c)
  <2>a. PICK a, b, U : a = <<"%">> /\ b = <<c>> /\ U = {"%", c}
    OBVIOUS
  <2>s. PICK s : s = a \o b
    OBVIOUS
  <2>t. s = Code(c)
    BY <2>a, <2>s DEF Code
  <2>0. /\ a \in Seq(U) /\ b \in Seq(U) /\ Len(a) = 1 /\ Len(b) = 1
        /\ a[1] = "%" /\ b[1] = c
    BY <2>a
  <2>1. Len(s) = 2 /\ s[1] = "%" /\ s[2] = c
    <3>1. /\ Len(s) = 1 + 1
          /\ \A i \in 1 .. 1 + 1 : s[i] = IF i <= 1 THEN a[i] ELSE b[i - 1]
      BY <2>0, <2>s, ConcatProperties
    <3>2. 1 \in 1 .. 1 + 1 /\ 2 \in 1 .. 1 + 1 /\ 1 <= 1 /\ ~(2 <= 1) /\ 2 - 1 = 1
      OBVIOUS
    <3> QED BY <2>0, <3>1, <3>2
  <2>n. PICK n \in Nat : n = Len(s)
    BY <2>1
  <2>5. /\ n + 1 = 3 /\ 1 \in 1 .. n /\ 1 < n /\ 2 \in 1 .. n /\ ~(2 < n)
        /\ 1 + 1 = 2 /\ 1 + 2 = 3 /\ 2 + 1 = 3
    BY <2>1, <2>n
  <2>2. PICK f : Replaces(f, s, code, r) /\ Daemon!Replaced(s, code, r) = f[1]
    BY <2>n, ReplacedSteps
  <2>3. f[3] = <<>>
    <3>1. f[n + 1] = <<>>
      BY <2>2, <2>n DEF Replaces
    <3> QED BY <2>5, <3>1
  <2>4. f[2] = b
    <3>2. f[2] = <<s[2]>> \o f[2 + 1]
      BY <2>n, <2>2, <2>5, ReplaceMiss
    <3>3. b \o <<>> = b
      BY <2>0, ConcatEmptySeq
    <3> QED BY <2>a, <2>1, <2>3, <2>5, <3>2, <3>3
  <2>6. ASSUME c = code PROVE Daemon!Replaced(s, code, r) = r
    <3>1. s[1 + 1] = code
      BY <2>1, <2>5, <2>6
    <3>2. f[1] = r \o f[1 + 2]
      <4> PICK i : i = 1
        OBVIOUS
      <4>1. i \in 1 .. n /\ i < n /\ s[i] = "%" /\ s[i + 1] = code
        BY <2>1, <2>5, <3>1
      <4> QED BY <2>n, <2>2, <4>1, ReplaceHit
    <3>3. r \o <<>> = r
      BY ConcatEmptySeq
    <3> QED BY <2>2, <2>3, <2>5, <3>2, <3>3
  <2>7. ASSUME c # code PROVE Daemon!Replaced(s, code, r) = s
    <3>1. s[1 + 1] # code
      BY <2>1, <2>5, <2>7
    <3>2. f[1] = <<s[1]>> \o f[1 + 1]
      BY <2>n, <2>2, <2>5, <3>1, ReplaceMiss
    <3>3. f[1] = a \o b
      BY <2>a, <2>1, <2>4, <2>5, <3>2
    <3> QED BY <2>s, <2>2, <3>3
  <2> QED BY <2>t, <2>6, <2>7
<1> QED BY <1>1, <1>2, <1>3 DEF Replacing

-----------------------------------------------------------------------------
(* The command of an entry *)

\* The codes of x \o w are those of x and those of w.
Splits(x, w, code, r) ==
    Daemon!Replaced(x \o w, code, r) = Daemon!Replaced(x, code, r) \o Daemon!Replaced(w, code, r)

\* Replacing a code in two texts leaves two texts, the parts of the whole.
LEMMA ReplacedBoth ==
    ASSUME NEW U, NEW x, Text(x, U), NEW w, Text(w, U), NEW code, NEW r, Text(r, U)
    PROVE  /\ Text(Daemon!Replaced(x, code, r), U) /\ Text(Daemon!Replaced(w, code, r), U)
           /\ Splits(x, w, code, r)
<1>1. w \in Seq(U) /\ r \in Seq(U)
  BY DEF Text
<1>2. Splits(x, w, code, r)
  BY <1>1, ReplacedConcat DEF Splits
<1> QED BY <1>2, ReplacedText

\* All codes one after the other, as GetSanitizeExecCmd replaces them
Bare(s) == Daemon!Without(Daemon!Without(Daemon!Without(Daemon!Without(s, "u"), "U"), "f"), "F")

Sanitized(s, name, arg) == Daemon!Replaced(Daemon!Replaced(Bare(s), "c", <<name>>), "i", arg)

BareSplits(x, w) == Bare(x \o w) = Bare(x) \o Bare(w)

\* The codes of files and URLs go part by part, ...
LEMMA BareParts ==
    ASSUME NEW U, NEW x, Text(x, U), NEW w, Text(w, U)
    PROVE  Text(Bare(x), U) /\ Text(Bare(w), U) /\ BareSplits(x, w)
<1>0. Text(<<>>, U)
  <2>1. <<>> \in Seq(U) /\ Len(<<>>) = 0
    BY EmptySeq
  <2> QED BY <2>1 DEF Text
<1>a. PICK x1, w1, s1 : /\ x1 = Daemon!Without(x, "u") /\ w1 = Daemon!Without(w, "u")
                        /\ s1 = Daemon!Without(x \o w, "u")
  OBVIOUS
<1>b. PICK x2, w2, s2 : /\ x2 = Daemon!Without(x1, "U") /\ w2 = Daemon!Without(w1, "U")
                        /\ s2 = Daemon!Without(s1, "U")
  OBVIOUS
<1>c. PICK x3, w3, s3 : /\ x3 = Daemon!Without(x2, "f") /\ w3 = Daemon!Without(w2, "f")
                        /\ s3 = Daemon!Without(s2, "f")
  OBVIOUS
<1>d. PICK x4, w4, s4 : /\ x4 = Daemon!Without(x3, "F") /\ w4 = Daemon!Without(w3, "F")
                        /\ s4 = Daemon!Without(s3, "F")
  OBVIOUS
<1> DEFINE Cut(a, b, code) == Daemon!Without(a \o b, code) = Daemon!Without(a, code) \o Daemon!Without(b, code)
<1>p. ASSUME NEW a, Text(a, U), NEW b, Text(b, U), NEW code
      PROVE  /\ Text(Daemon!Without(a, code), U) /\ Text(Daemon!Without(b, code), U)
             /\ Cut(a, b, code)
  <2> PICK r : r = <<>> /\ Text(r, U)
    BY <1>0
  <2>1. /\ Text(Daemon!Replaced(a, code, r), U) /\ Text(Daemon!Replaced(b, code, r), U)
        /\ Splits(a, b, code, r)
    BY <1>p, ReplacedBoth, Zenon
  <2>2. /\ Daemon!Without(a, code) = Daemon!Replaced(a, code, r)
        /\ Daemon!Without(b, code) = Daemon!Replaced(b, code, r)
        /\ Daemon!Without(a \o b, code) = Daemon!Replaced(a \o b, code, r)
    BY DEF Daemon!Without
  <2> QED BY <2>1, <2>2 DEF Splits
<1> HIDE DEF Cut
<1>1. Text(x1, U) /\ Text(w1, U) /\ s1 = x1 \o w1
  <2>1. Cut(x, w, "u") /\ Text(Daemon!Without(x, "u"), U) /\ Text(Daemon!Without(w, "u"), U)
    BY <1>p, Zenon
  <2> QED BY <1>a, <2>1 DEF Cut
<1>2. Text(x2, U) /\ Text(w2, U) /\ s2 = x2 \o w2
  <2>1. Cut(x1, w1, "U") /\ Text(Daemon!Without(x1, "U"), U) /\ Text(Daemon!Without(w1, "U"), U)
    BY <1>1, <1>p, Zenon
  <2> QED BY <1>1, <1>b, <2>1 DEF Cut
<1>3. Text(x3, U) /\ Text(w3, U) /\ s3 = x3 \o w3
  <2>1. Cut(x2, w2, "f") /\ Text(Daemon!Without(x2, "f"), U) /\ Text(Daemon!Without(w2, "f"), U)
    BY <1>2, <1>p, Zenon
  <2> QED BY <1>2, <1>c, <2>1 DEF Cut
<1>4. Text(x4, U) /\ Text(w4, U) /\ s4 = x4 \o w4
  <2>1. Cut(x3, w3, "F") /\ Text(Daemon!Without(x3, "F"), U) /\ Text(Daemon!Without(w3, "F"), U)
    BY <1>3, <1>p, Zenon
  <2> QED BY <1>3, <1>d, <2>1 DEF Cut
<1>5. Bare(x) = x4 /\ Bare(w) = w4 /\ Bare(x \o w) = s4
  BY <1>a, <1>b, <1>c, <1>d DEF Bare
<1> QED BY <1>4, <1>5 DEF BareSplits

Splitting(x, w, name, arg) ==
    Sanitized(x \o w, name, arg) = Sanitized(x, name, arg) \o Sanitized(w, name, arg)

\* ... and so does all of the command.
LEMMA SanitizedParts ==
    ASSUME NEW U, NEW x, Text(x, U), NEW w, Text(w, U),
           NEW name \in U, name # "%", NEW arg \in Seq(U)
    PROVE  Splitting(x, w, name, arg)
<1>a. PICK x1, w1, s1 : x1 = Bare(x) /\ w1 = Bare(w) /\ s1 = Bare(x \o w)
  OBVIOUS
<1>b. PICK x2, w2, s2 : /\ x2 = Daemon!Replaced(x1, "c", <<name>>)
                        /\ w2 = Daemon!Replaced(w1, "c", <<name>>)
                        /\ s2 = Daemon!Replaced(s1, "c", <<name>>)
  OBVIOUS
<1>1. Text(x1, U) /\ Text(w1, U) /\ s1 = x1 \o w1
  <2>1. Text(Bare(x), U) /\ Text(Bare(w), U) /\ BareSplits(x, w)
    BY BareParts, Zenon
  <2> QED BY <1>a, <2>1 DEF BareSplits
<1>2. PICK nm : nm = <<name>> /\ Text(nm, U)
  BY TokenTexts
<1>3. Text(x2, U) /\ Text(w2, U) /\ s2 = x2 \o w2
  <2>1. /\ Text(Daemon!Replaced(x1, "c", nm), U) /\ Text(Daemon!Replaced(w1, "c", nm), U)
        /\ Splits(x1, w1, "c", nm)
    BY <1>1, <1>2, ReplacedBoth, Zenon
  <2> QED BY <1>1, <1>2, <1>b, <2>1 DEF Splits
<1>4. w2 \in Seq(U)
  BY <1>3 DEF Text
<1>5. Daemon!Replaced(x2 \o w2, "i", arg)
        = Daemon!Replaced(x2, "i", arg) \o Daemon!Replaced(w2, "i", arg)
  BY <1>3, <1>4, ReplacedConcat
<1> QED BY <1>3, <1>5, <1>a, <1>b DEF Sanitized, Splitting

\* What becomes of nothing, of a token and of each code
LEMMA SanitizedTokens ==
    ASSUME NEW U, NEW name, name # "%", NEW arg \in Seq(U)
    PROVE  /\ Sanitized(<<>>, name, arg) = <<>>
           /\ \A t : t # "%" => Sanitized(<<t>>, name, arg) = <<t>>
           /\ \A code \in {"u", "U", "f", "F"} :
                Sanitized(Code(code), name, arg) = <<>>
           /\ Sanitized(Code("c"), name, arg) = <<name>>
           /\ Sanitized(Code("i"), name, arg) = arg
<1>w. \A code :
        /\ Daemon!Without(<<>>, code) = <<>>
        /\ \A t : t # "%" => Daemon!Without(<<t>>, code) = <<t>>
        /\ code # "%" => Daemon!Without(Code(code), code) = <<>>
        /\ \A c : c # "%" /\ c # code => Daemon!Without(Code(c), code) = Code(c)
  <2> SUFFICES ASSUME NEW code
               PROVE  /\ Daemon!Without(<<>>, code) = <<>>
                      /\ \A t : t # "%" => Daemon!Without(<<t>>, code) = <<t>>
                      /\ code # "%" => Daemon!Without(Code(code), code) = <<>>
                      /\ \A c : c # "%" /\ c # code => Daemon!Without(Code(c), code) = Code(c)
    OBVIOUS
  <2>0. PICK r : r = <<>> /\ r \in Seq({})
    BY EmptySeq
  <2>1. Replacing(code, r)
    BY <2>0, ReplacedParts, Zenon
  <2>2. \A s : Daemon!Without(s, code) = Daemon!Replaced(s, code, r)
    BY <2>0 DEF Daemon!Without
  <2> QED BY <2>0, <2>1, <2>2, Zenon DEF Replacing
<1>c. Replacing("c", <<name>>)
  <2>1. <<name>> \in Seq({name})
    OBVIOUS
  <2> PICK r : r = <<name>>
    OBVIOUS
  <2>2. Replacing("c", r)
    BY <2>1, ReplacedParts, Zenon
  <2> QED BY <2>2
<1>i. Replacing("i", arg)
  BY ReplacedParts, Zenon
<1>1. \A code : Daemon!Without(<<>>, code) = <<>>
  BY <1>w
<1>2. \A code, t : t # "%" => Daemon!Without(<<t>>, code) = <<t>>
  BY <1>w
<1>3. \A code : code # "%" => Daemon!Without(Code(code), code) = <<>>
  BY <1>w
<1>4. \A code, c : c # "%" /\ c # code =>
        Daemon!Without(Code(c), code) = Code(c)
  BY <1>w
<1>5. Bare(<<>>) = <<>> /\ \A t : t # "%" => Bare(<<t>>) = <<t>>
  BY <1>1, <1>2 DEF Bare
<1>6. \A code \in {"u", "U", "f", "F"} : Bare(Code(code)) = <<>>
  <2>1. Bare(Code("u")) = <<>>
    BY <1>1, <1>3 DEF Bare
  <2>2. Bare(Code("U")) = <<>>
    <3>1. Daemon!Without(Code("U"), "u") = Code("U")
      BY <1>4
    <3> QED BY <1>1, <1>3, <3>1 DEF Bare
  <2>3. Bare(Code("f")) = <<>>
    <3>1. /\ Daemon!Without(Code("f"), "u") = Code("f")
          /\ Daemon!Without(Code("f"), "U") = Code("f")
      BY <1>4
    <3> QED BY <1>1, <1>3, <3>1 DEF Bare
  <2>4. Bare(Code("F")) = <<>>
    <3>1. /\ Daemon!Without(Code("F"), "u") = Code("F")
          /\ Daemon!Without(Code("F"), "U") = Code("F")
          /\ Daemon!Without(Code("F"), "f") = Code("F")
      BY <1>4
    <3> QED BY <1>1, <1>3, <3>1 DEF Bare
  <2> QED BY <2>1, <2>2, <2>3, <2>4
<1>7. \A code \in {"c", "i"} : Bare(Code(code)) = Code(code)
  <2> SUFFICES ASSUME NEW code \in {"c", "i"} PROVE Bare(Code(code)) = Code(code)
    OBVIOUS
  <2>1. /\ code # "%" /\ code # "u" /\ code # "U" /\ code # "f" /\ code # "F"
    OBVIOUS
  <2>2. /\ Daemon!Without(Code(code), "u") = Code(code)
        /\ Daemon!Without(Code(code), "U") = Code(code)
        /\ Daemon!Without(Code(code), "f") = Code(code)
        /\ Daemon!Without(Code(code), "F") = Code(code)
    BY <1>4, <2>1
  <2> QED BY <2>2 DEF Bare
<1>8. /\ Daemon!Replaced(<<>>, "c", <<name>>) = <<>> /\ Daemon!Replaced(<<>>, "i", arg) = <<>>
      /\ \A t : t # "%" => /\ Daemon!Replaced(<<t>>, "c", <<name>>) = <<t>>
                           /\ Daemon!Replaced(<<t>>, "i", arg) = <<t>>
  BY <1>c, <1>i, Zenon DEF Replacing
<1>9. /\ Daemon!Replaced(Code("c"), "c", <<name>>) = <<name>>
      /\ Daemon!Replaced(Code("i"), "c", <<name>>) = Code("i")
      /\ Daemon!Replaced(Code("i"), "i", arg) = arg
  <2>1. "c" # "%" /\ "i" # "%" /\ "i" # "c"
    OBVIOUS
  <2> QED BY <1>c, <1>i, <2>1, Zenon DEF Replacing
<1>10. Sanitized(<<>>, name, arg) = <<>>
  BY <1>5, <1>8 DEF Sanitized
<1>11. \A t : t # "%" => Sanitized(<<t>>, name, arg) = <<t>>
  BY <1>5, <1>8 DEF Sanitized
<1>12. \A code \in {"u", "U", "f", "F"} : Sanitized(Code(code), name, arg) = <<>>
  BY <1>6, <1>8 DEF Sanitized
<1>13. Sanitized(Code("c"), name, arg) = <<name>>
  BY <1>7, <1>8, <1>9 DEF Sanitized
<1>14. Sanitized(Code("i"), name, arg) = arg
  BY <1>7, <1>9 DEF Sanitized
<1> QED BY <1>10, <1>11, <1>12, <1>13, <1>14

\* The step of Expansion, and what it comes to
ExpandAt(g, f, i) ==
    IF i > Len(f.exec) THEN <<>>
    ELSE IF f.exec[i] = "%" THEN CodeText(f, f.exec[i + 1]) \o g[i + 2]
    ELSE <<f.exec[i]>> \o g[i + 1]

LEMMA ExpansionSteps ==
    ASSUME NEW f, Len(f.exec) \in Nat
    PROVE  \E g : /\ Expansion(f) = g[1]
                  /\ \A i \in 1 .. Len(f.exec) + 2 : g[i] = ExpandAt(g, f, i)
<1>n. PICK n \in Nat : n = Len(f.exec)
  OBVIOUS
<1> DEFINE S == {k \in Nat :
                   \E g : g = [i \in n + 1 - k .. n + 2 |-> ExpandAt(g, f, i)]}
<1>1. 0 \in S
  <2> DEFINE g == [i \in n + 1 - 0 .. n + 2 |-> <<>>]
  <2>1. \A i \in n + 1 - 0 .. n + 2 : ExpandAt(g, f, i) = <<>>
    <3> SUFFICES ASSUME NEW i \in n + 1 - 0 .. n + 2 PROVE ExpandAt(g, f, i) = <<>>
      OBVIOUS
    <3>1. i > n
      OBVIOUS
    <3> HIDE DEF g
    <3> QED BY <1>n, <3>1 DEF ExpandAt
  <2>2. \E h : h = [i \in n + 1 - 0 .. n + 2 |-> ExpandAt(h, f, i)]
    BY <2>1
  <2> QED BY <2>2
<1>2. ASSUME NEW k \in Nat, k \in S PROVE k + 1 \in S
  <2>1. PICK h : h = [i \in n + 1 - k .. n + 2 |-> ExpandAt(h, f, i)]
    BY <1>2
  <2> PICK m \in Int : m = n + 1 - (k + 1)
    OBVIOUS
  <2> DEFINE g == [i \in m .. n + 2 |-> IF i = m THEN ExpandAt(h, f, i) ELSE h[i]]
  <2>2. ASSUME NEW i \in m .. n + 2 PROVE g[i] = ExpandAt(g, f, i)
    <3>1. i + 1 \in m .. n + 2 => g[i + 1] = h[i + 1]
      OBVIOUS
    <3>2. i + 2 \in m .. n + 2 => g[i + 2] = h[i + 2]
      OBVIOUS
    <3>3. i <= n => i + 1 \in m .. n + 2 /\ i + 2 \in m .. n + 2
      OBVIOUS
    <3>4. i # m => i \in n + 1 - k .. n + 2
      OBVIOUS
    <3>5. i # m => h[i] = ExpandAt(h, f, i)
      BY <2>1, <3>4
    <3>6. g[i] = ExpandAt(h, f, i)
      BY <3>5
    <3> HIDE DEF g
    <3>7. CASE i > n
      BY <1>n, <3>6, <3>7 DEF ExpandAt
    <3>8. CASE i <= n
      <4>1. g[i + 1] = h[i + 1] /\ g[i + 2] = h[i + 2]
        BY <3>1, <3>2, <3>3, <3>8
      <4> QED BY <1>n, <3>6, <3>8, <4>1 DEF ExpandAt
    <3> QED BY <3>7, <3>8
  <2>3. g = [i \in m .. n + 2 |-> ExpandAt(g, f, i)]
    BY <2>2
  <2>4. \E e : e = [i \in n + 1 - (k + 1) .. n + 2 |-> ExpandAt(e, f, i)]
    BY <2>3
  <2> QED BY <2>4
<1> HIDE DEF S
<1>3. n \in S
  BY <1>1, <1>2, Induct
<1>4. \E g : g = [i \in 1 .. n + 2 |-> ExpandAt(g, f, i)]
  <2>1. \E g : g = [i \in n + 1 - n .. n + 2 |-> ExpandAt(g, f, i)]
    BY <1>3 DEF S
  <2>2. n + 1 - n = 1
    OBVIOUS
  <2> QED BY <2>1, <2>2
<1> DEFINE c == CHOOSE g : g = [i \in 1 .. n + 2 |-> ExpandAt(g, f, i)]
<1>5. c = [i \in 1 .. n + 2 |-> ExpandAt(c, f, i)]
  BY <1>4, Zenon
<1>6. Expansion(f) = c[1]
  BY <1>n DEF Expansion, ExpandAt
<1> HIDE DEF c
<1>7. \A i \in 1 .. n + 2 : c[i] = ExpandAt(c, f, i)
  BY <1>5
<1> QED BY <1>n, <1>6, <1>7

\* A well-formed command is a text, and so is each rest of it.
LEMMA WellFormedText ==
    ASSUME WellFormedCommands, NEW f \in Files, f.exec # Daemon!NoField,
           NEW U, Range(f.exec) \subseteq U
    PROVE  /\ f.exec \in Seq(U) /\ Daemon!Field(f.name) # "%"
           /\ \A i \in 1 .. Len(f.exec) :
                f.exec[i] = "%" => i < Len(f.exec) /\ f.exec[i + 1] \in Codes
<1>1. /\ f.exec \in Seq(Range(f.exec)) /\ Daemon!Field(f.name) # "%"
      /\ \A i \in DOMAIN f.exec :
           f.exec[i] = "%" => i < Len(f.exec) /\ f.exec[i + 1] \in Codes
  BY DEF WellFormedCommands
<1>2. PICK x : x = f.exec
  OBVIOUS
<1>3. x \in Seq(Range(x)) /\ Range(x) \subseteq U
  BY <1>1, <1>2
<1>4. x \in Seq(U) /\ DOMAIN x = 1 .. Len(x)
  BY <1>3
<1> QED BY <1>1, <1>2, <1>4

LEMMA RestOfText ==
    ASSUME NEW U, NEW x \in Seq(U), NEW n \in Nat, n = Len(x),
           \A i \in 1 .. n : x[i] = "%" => i < n /\ x[i + 1] # "%",
           NEW k \in 1 .. n + 1
    PROVE  Text(SubSeq(x, k, n), U)
<1> PICK y : y = SubSeq(x, k, n)
  OBVIOUS
<1>1. y \in Seq(U) /\ Len(y) = n - k + 1 /\ \A i \in 1 .. n - k + 1 : y[i] = x[k + i - 1]
  BY SubSeqProperties
<1>2. ASSUME NEW i \in 1 .. n - k + 1, y[i] = "%"
      PROVE  i < n - k + 1 /\ y[i + 1] # "%"
  <2> PICK j \in Int : j = k + i - 1
    OBVIOUS
  <2>1. j \in 1 .. n /\ x[j] = "%"
    BY <1>1, <1>2
  <2>2. j < n /\ x[j + 1] # "%"
    BY <2>1
  <2>3. i + 1 \in 1 .. n - k + 1 /\ k + (i + 1) - 1 = j + 1 /\ i < n - k + 1
    BY <2>2
  <2> QED BY <1>1, <2>2, <2>3
<1> QED BY <1>1, <1>2 DEF Text

\* A rest is its first token and the rest after it.
LEMMA FirstOfRest ==
    ASSUME NEW U, NEW x \in Seq(U), NEW n \in Nat, n = Len(x), NEW k \in 1 .. n
    PROVE  SubSeq(x, k, n) = <<x[k]>> \o SubSeq(x, k + 1, n)
<1> PICK y, z, a, b : /\ y = SubSeq(x, k, n) /\ z = SubSeq(x, k + 1, n)
                      /\ a = <<x[k]>> /\ b = a \o z
  OBVIOUS
<1>1. y \in Seq(U) /\ Len(y) = n - k + 1 /\ \A i \in 1 .. n - k + 1 : y[i] = x[k + i - 1]
  BY SubSeqProperties
<1>2. z \in Seq(U) /\ Len(z) = n - k /\ \A i \in 1 .. n - k : z[i] = x[k + i]
  <2>1. n - (k + 1) + 1 = n - k /\ \A i \in Int : (k + 1) + i - 1 = k + i
    OBVIOUS
  <2>2. /\ z \in Seq(U) /\ Len(z) = n - (k + 1) + 1
        /\ \A i \in 1 .. n - (k + 1) + 1 : z[i] = x[(k + 1) + i - 1]
    BY SubSeqProperties
  <2> QED BY <2>1, <2>2
<1>3. a \in Seq(U) /\ Len(a) = 1 /\ a[1] = x[k]
  OBVIOUS
<1>4. /\ b \in Seq(U) /\ Len(b) = 1 + (n - k)
      /\ \A i \in 1 .. 1 + (n - k) : b[i] = IF i <= 1 THEN a[i] ELSE z[i - 1]
  BY <1>2, <1>3, ConcatProperties
<1>5. ASSUME NEW i \in 1 .. n - k + 1 PROVE y[i] = b[i]
  <2>1. CASE i = 1
    BY <1>1, <1>3, <1>4, <2>1
  <2>2. CASE i > 1
    <3>1. i - 1 \in 1 .. n - k /\ k + (i - 1) = k + i - 1 /\ i \in 1 .. 1 + (n - k) /\ ~(i <= 1)
      BY <2>2
    <3> QED BY <1>1, <1>2, <1>4, <3>1
  <2> QED BY <2>1, <2>2
<1>6. Len(y) = Len(b) /\ Len(y) = n - k + 1
  BY <1>1, <1>4
<1>7. y = b
  BY <1>1, <1>4, <1>5, <1>6, SeqEqual
<1> QED BY <1>7

LEMMA TripleInSeq ==
    ASSUME NEW U, NEW a \in U, NEW b \in U, NEW c \in U
    PROVE  <<a, b, c>> \in Seq(U)
<1> PICK s : s = <<a, b, c>>
  OBVIOUS
<1>1. Len(s) = 3 /\ s[1] = a /\ s[2] = b /\ s[3] = c /\ DOMAIN s = 1 .. 3
  OBVIOUS
<1>2. s = [i \in 1 .. 3 |-> s[i]]
  OBVIOUS
<1>3. \A i \in 1 .. 3 : i = 1 \/ i = 2 \/ i = 3
  OBVIOUS
<1>4. s \in [1 .. 3 -> U]
  BY <1>1, <1>2, <1>3
<1> QED BY <1>4, SeqDef

\* What an entry has for a code is what the code stands for in its file.
LEMMA CodeArg ==
    ASSUME NEW f, NEW U, NEW name, name = Daemon!Field(f.name), name \in U,
           {"--icon", " ", f.icon} \subseteq U
    PROVE  /\ Daemon!IconArg(Daemon!FromEntry(f)) \in Seq(U)
           /\ CodeText(f, "c") = <<name>>
           /\ CodeText(f, "i") = Daemon!IconArg(Daemon!FromEntry(f))
           /\ \A code \in {"u", "U", "f", "F"} : CodeText(f, code) = <<>>
<1>1. Daemon!FromEntry(f).icon = Daemon!Field(f.icon)
  BY DEF Daemon!FromEntry
<1>2. Daemon!Field(f.icon) # "" => Daemon!Field(f.icon) = f.icon
  BY DEF Daemon!Field
<1>3. CodeText(f, "i") = Daemon!IconArg(Daemon!FromEntry(f))
  BY <1>1, <1>2 DEF CodeText, Daemon!IconArg
<1>4. Daemon!IconArg(Daemon!FromEntry(f)) \in Seq(U)
  <2>b. "--icon" \in U /\ " " \in U /\ f.icon \in U
    OBVIOUS
  <2>1. <<>> \in Seq(U) /\ <<"--icon", " ", f.icon>> \in Seq(U)
    <3>1. <<"--icon", " ", f.icon>> \in Seq(U)
      BY <2>b, TripleInSeq, Zenon
    <3> QED BY <3>1, EmptySeq
  <2> QED BY <1>1, <1>2, <2>1 DEF Daemon!IconArg
<1>5. CodeText(f, "c") = <<name>>
  BY DEF CodeText
<1>6. \A code \in {"u", "U", "f", "F"} : CodeText(f, code) = <<>>
  BY DEF CodeText
<1> QED BY <1>3, <1>4, <1>5, <1>6

\* What the daemon's client makes of a well-formed command is what it stands for.
LEMMA SanitizedIsExpansion ==
    ASSUME WellFormedCommands, NEW f \in Files, f.exec # Daemon!NoField
    PROVE  Daemon!GetSanitizeExecCmd(Daemon!FromEntry(f)) = Expansion(f)
<1>e. PICK e, x, name, arg, U :
        /\ e = Daemon!FromEntry(f) /\ x = f.exec /\ name = Daemon!Field(f.name)
        /\ arg = Daemon!IconArg(e)
        /\ U = Range(x) \cup {name, "%", "--icon", " ", f.icon} \cup Codes
  OBVIOUS
<1>1. e.exec = x /\ e.name = name
  BY <1>e DEF Daemon!FromEntry, Daemon!ExecField
<1>2. /\ x \in Seq(U) /\ name # "%" /\ name \in U
      /\ \A i \in 1 .. Len(x) : x[i] = "%" => i < Len(x) /\ x[i + 1] \in Codes
  <2>1. Range(f.exec) \subseteq U
    BY <1>e
  <2> QED BY <1>e, <2>1, WellFormedText
<1>n. PICK n \in Nat : n = Len(x)
  BY <1>2
<1>3. /\ arg \in Seq(U)
      /\ CodeText(f, "c") = <<name>> /\ CodeText(f, "i") = arg
      /\ \A code \in {"u", "U", "f", "F"} : CodeText(f, code) = <<>>
  <2>1. name \in U /\ {"--icon", " ", f.icon} \subseteq U
    BY <1>e
  <2> QED BY <1>e, <2>1, CodeArg, Zenon
<1>4. Daemon!GetSanitizeExecCmd(e) = Sanitized(x, name, arg)
  BY <1>1, <1>e DEF Daemon!GetSanitizeExecCmd, Sanitized, Bare
<1>5. PICK g : /\ Expansion(f) = g[1]
               /\ \A i \in 1 .. n + 2 : g[i] = ExpandAt(g, f, i)
  <2>1. Len(f.exec) \in Nat
    BY <1>e, <1>n
  <2> QED BY <1>e, <1>n, <2>1, ExpansionSteps
<1>6. \A code \in Codes : code # "%" /\ code \in U
  BY <1>e DEF Codes
<1>7. \A k \in 1 .. n + 1 : Text(SubSeq(x, k, n), U)
  <2>1. \A i \in 1 .. n : x[i] = "%" => i < n /\ x[i + 1] # "%"
    BY <1>2, <1>6, <1>n
  <2> QED BY <1>2, <1>n, <2>1, RestOfText
<1>8. \A code \in Codes : Sanitized(Code(code), name, arg) = CodeText(f, code)
  BY <1>2, <1>3, SanitizedTokens DEF Codes
<1> DEFINE S == {k \in 1 .. n + 1 : Sanitized(SubSeq(x, k, n), name, arg) = g[k]}
<1>9. n + 1 \in S
  <2>1. SubSeq(x, n + 1, n) = <<>>
    BY SubSeqEmpty
  <2>2. Sanitized(<<>>, name, arg) = <<>>
    BY <1>2, <1>3, SanitizedTokens
  <2>3. n + 1 \in 1 .. n + 2 /\ n + 1 > n
    OBVIOUS
  <2>4. g[n + 1] = <<>>
    BY <1>5, <1>e, <1>n, <2>3 DEF ExpandAt
  <2>5. n + 1 \in 1 .. n + 1
    OBVIOUS
  <2>6. Sanitized(SubSeq(x, n + 1, n), name, arg) = g[n + 1]
    BY <2>1, <2>2, <2>4, Zenon
  <2> QED BY <2>5, <2>6, Zenon
<1>10. ASSUME NEW k \in 1 .. n, \A j \in k + 1 .. n + 1 : j \in S PROVE k \in S
  <2>1. /\ k + 1 \in k + 1 .. n + 1 /\ (k < n => k + 2 \in k + 1 .. n + 1)
        /\ k \in 1 .. n + 2 /\ ~(k > n) /\ k \in 1 .. n + 1 /\ k + 1 \in 1 .. n + 1
        /\ (k < n => k + 1 \in 1 .. n /\ k + 2 \in 1 .. n + 1 /\ (k + 1) + 1 = k + 2)
    OBVIOUS
  <2>r. PICK y, z, t : y = SubSeq(x, k, n) /\ z = SubSeq(x, k + 1, n) /\ t = x[k]
    OBVIOUS
  <2>2. y = <<t>> \o z /\ Text(z, U) /\ t \in U
    <3>1. t \in U
      BY <1>2, <1>n, <2>r, ElementOfSeq
    <3> QED BY <1>2, <1>7, <1>n, <2>1, <2>r, <3>1, FirstOfRest
  <2>3. CASE t # "%"
    <3>1. g[k] = <<t>> \o g[k + 1]
      BY <1>5, <1>e, <1>n, <2>1, <2>3, <2>r DEF ExpandAt
    <3>2. Sanitized(z, name, arg) = g[k + 1]
      BY <1>10, <2>1, <2>r
    <3>3. Sanitized(<<t>>, name, arg) = <<t>> /\ Text(<<t>>, U)
      BY <1>2, <1>3, <2>2, <2>3, SanitizedTokens, TokenTexts
    <3>4. Splitting(<<t>>, z, name, arg)
      BY <1>2, <1>3, <2>2, <3>3, SanitizedParts
    <3>5. Sanitized(y, name, arg) = g[k]
      BY <2>2, <3>1, <3>2, <3>3, <3>4 DEF Splitting
    <3> QED BY <2>1, <2>r, <3>5
  <2>4. CASE t = "%"
    <3>1. k < n /\ x[k + 1] \in Codes
      BY <1>2, <1>n, <2>4, <2>r
    <3>r. PICK c, w : c = x[k + 1] /\ w = SubSeq(x, k + 2, n)
      OBVIOUS
    <3>2. g[k] = CodeText(f, c) \o g[k + 2]
      BY <1>5, <1>e, <1>n, <2>1, <2>4, <2>r, <3>r DEF ExpandAt
    <3>3. Sanitized(w, name, arg) = g[k + 2]
      BY <1>10, <2>1, <3>1, <3>r
    <3>4. z = <<c>> \o w /\ Text(w, U) /\ w \in Seq(U)
      <4>1. Text(w, U)
        BY <1>7, <2>1, <3>1, <3>r
      <4>2. SubSeq(x, k + 1, n) = <<x[k + 1]>> \o SubSeq(x, (k + 1) + 1, n)
        BY <1>2, <1>n, <2>1, <3>1, FirstOfRest
      <4> QED BY <2>1, <2>r, <3>1, <3>r, <4>1, <4>2 DEF Text
    <3>5. Text(Code(c), U) /\ y = Code(c) \o w
      <4>1. c # "%" /\ c \in U /\ "%" \in U
        BY <1>6, <1>e, <3>1, <3>r
      <4>2. Text(<<"%">> \o <<c>>, U) /\ <<"%">> \o (<<c>> \o w) = (<<"%">> \o <<c>>) \o w
        BY <3>4, <4>1, TokenTexts
      <4> QED BY <2>2, <2>4, <3>4, <4>2 DEF Code
    <3>6. Splitting(Code(c), w, name, arg)
      BY <1>2, <1>3, <3>4, <3>5, SanitizedParts
    <3>7. Sanitized(Code(c), name, arg) = CodeText(f, c)
      BY <1>8, <3>1, <3>r
    <3>8. Sanitized(y, name, arg) = g[k]
      BY <3>2, <3>3, <3>5, <3>6, <3>7 DEF Splitting
    <3> QED BY <2>1, <2>r, <3>8
  <2> QED BY <2>3, <2>4
<1> HIDE DEF S
<1>11. \A k \in 1 .. n + 1 : k \in S
  BY <1>9, <1>10, Down
<1>12. Sanitized(SubSeq(x, 1, n), name, arg) = g[1]
  <2>1. 1 \in 1 .. n + 1
    OBVIOUS
  <2> QED BY <1>11, <2>1 DEF S
<1>13. SubSeq(x, 1, n) = x
  BY <1>2, <1>n, SubSeqFull
<1> QED BY <1>4, <1>5, <1>12, <1>13, <1>e

-----------------------------------------------------------------------------
(* An empty command *)

\* The step of SplitWhitespace
CutAt(f, s, i) ==
    IF i = 0 THEN [words |-> <<>>, word |-> <<>>]
    ELSE IF s[i] = " " THEN [words |-> Daemon!Closed(f[i - 1]), word |-> <<>>]
    ELSE [f[i - 1] EXCEPT !.word = Append(@, s[i])]

LEMMA NothingSplit == Daemon!SplitWhitespace(<<>>) = <<>>
<1> PICK s : s = <<>>
  OBVIOUS
<1>1. Len(s) = 0
  OBVIOUS
<1>2. \E f : f = [i \in 0 .. Len(s) |-> CutAt(f, s, i)]
  <2> DEFINE h == [i \in 0 .. Len(s) |-> [words |-> <<>>, word |-> <<>>]]
  <2>1. \A i \in 0 .. Len(s) : i = 0
    BY <1>1
  <2>2. h = [i \in 0 .. Len(s) |-> CutAt(h, s, i)]
    BY <2>1 DEF CutAt
  <2> HIDE DEF h
  <2> QED BY <2>2
<1> DEFINE c == CHOOSE f : f = [i \in 0 .. Len(s) |-> CutAt(f, s, i)]
<1>3. c = [i \in 0 .. Len(s) |-> CutAt(c, s, i)]
  BY <1>2, Zenon
<1>4. Daemon!SplitWhitespace(s) = Daemon!Closed(c[Len(s)])
  BY DEF Daemon!SplitWhitespace, CutAt
<1> HIDE DEF c
<1>5. c[0] = [words |-> <<>>, word |-> <<>>]
  BY <1>1, <1>3 DEF CutAt
<1>6. Daemon!Closed(c[0]) = <<>>
  BY <1>5 DEF Daemon!Closed
<1> QED BY <1>1, <1>4, <1>6

\* An entry without a command launches nothing.
LEMMA EmptyCommand ==
    ASSUME NEW e, e.exec = <<>>
    PROVE  Daemon!LaunchWithGtk(e) = <<>>
<1> DEFINE U == {e.name, "--icon", " ", e.icon}
<1>1. <<>> \in Seq(U)
  BY EmptySeq
<1>2. <<e.name>> \in Seq(U)
  <2>1. e.name \in U
    OBVIOUS
  <2> HIDE DEF U
  <2> QED BY <2>1
<1>3. Daemon!IconArg(e) \in Seq(U)
  <2>1. "--icon" \in U /\ " " \in U /\ e.icon \in U
    OBVIOUS
  <2> HIDE DEF U
  <2>2. <<"--icon", " ", e.icon>> \in Seq(U)
    BY <2>1, TripleInSeq, Zenon
  <2> QED BY <1>1, <2>2 DEF Daemon!IconArg
<1> HIDE DEF U
<1>4. /\ Replacing("u", <<>>) /\ Replacing("U", <<>>) /\ Replacing("f", <<>>) /\ Replacing("F", <<>>)
      /\ Replacing("c", <<e.name>>) /\ Replacing("i", Daemon!IconArg(e))
  BY <1>1, <1>2, <1>3, ReplacedParts, Zenon
<1>5. /\ Daemon!Replaced(<<>>, "u", <<>>) = <<>> /\ Daemon!Replaced(<<>>, "U", <<>>) = <<>>
      /\ Daemon!Replaced(<<>>, "f", <<>>) = <<>> /\ Daemon!Replaced(<<>>, "F", <<>>) = <<>>
      /\ Daemon!Replaced(<<>>, "c", <<e.name>>) = <<>>
      /\ Daemon!Replaced(<<>>, "i", Daemon!IconArg(e)) = <<>>
  BY <1>4, Zenon DEF Replacing
<1>6. Daemon!GetSanitizeExecCmd(e) = <<>>
  BY <1>5 DEF Daemon!GetSanitizeExecCmd, Daemon!Without
<1> QED BY <1>6, NothingSplit DEF Daemon!LaunchWithGtk

-----------------------------------------------------------------------------
(* Whose command it is *)

\* The entries that can be had for class c: of its files, and the default one
Own(c) == {Daemon!FromEntry(f) : f \in {x \in Files : x.id = c}} \cup {Resolver!DefaultEntry(c)}

\* The daemon, its replies and the cache have a class's own entries only.
IndexOwn == \A c \in Classes : index[c] # NoEntry => index[c] \in Files /\ index[c].id = c

RepliesOwn == \A t \in Pending : t.reply # NoEntry => t.reply \in Own(t.class)

CacheOwn == \A c \in Classes : cache[c] # NoEntry => cache[c] \in Own(c)

OwnInv == IndexOwn /\ RepliesOwn /\ CacheOwn /\ LaunchesAsWritten

\* The command of an entry of class c is that of one of its files.
LEMMA OwnCommand ==
    ASSUME WellFormedCommands, NEW c, NEW e \in Own(c), Daemon!LaunchWithGtk(e) # <<>>
    PROVE  \E f \in Files :
             /\ f.id = c /\ f.exec # Daemon!NoField
             /\ Daemon!LaunchWithGtk(e) = Daemon!SplitWhitespace(Expansion(f))
<1>1. e # Resolver!DefaultEntry(c)
  <2>1. Resolver!DefaultEntry(c).exec = <<>>
    BY DEF Resolver!DefaultEntry
  <2> QED BY <2>1, EmptyCommand
<1>2. PICK f \in Files : f.id = c /\ e = Daemon!FromEntry(f)
  BY <1>1 DEF Own
<1>3. f.exec # Daemon!NoField
  <2>1. f.exec = Daemon!NoField => e.exec = <<>>
    BY <1>2 DEF Daemon!FromEntry, Daemon!ExecField
  <2> QED BY <2>1, EmptyCommand
<1>4. Daemon!GetSanitizeExecCmd(Daemon!FromEntry(f)) = Expansion(f)
  BY <1>3, SanitizedIsExpansion
<1> QED BY <1>2, <1>3, <1>4 DEF Daemon!LaunchWithGtk

\* The daemon answers with an entry of the class it is asked for.
LEMMA AnswerOwn ==
    ASSUME IndexOwn, NEW c \in Classes, Daemon!GetEntry(c) # NoEntry
    PROVE  Daemon!GetEntry(c) \in Own(c)
BY DEF IndexOwn, Daemon!GetEntry, Own

\* Nothing is launched, and what is known is known of the same class as before.
LEMMA KnownKept ==
    ASSUME OwnInv, UNCHANGED <<index, cache, launched>>,
           \A u \in Pending' : \/ u.reply = NoEntry
                               \/ \E t \in Pending : u.class = t.class /\ u.reply = t.reply
    PROVE  OwnInv'
<1>1. IndexOwn' /\ CacheOwn'
  BY DEF OwnInv, IndexOwn, CacheOwn
<1>2. RepliesOwn'
  BY DEF OwnInv, RepliesOwn
<1>3. LaunchesAsWritten'
  BY DEF OwnInv, LaunchesAsWritten
<1> QED BY <1>1, <1>2, <1>3 DEF OwnInv

\* New requests have no reply yet.
LEMMA AskedOwn ==
    ASSUME OwnInv, UNCHANGED <<index, cache, launched>>,
           NEW A, Pending' = Pending \cup {Resolver!Task(d) : d \in A}
    PROVE  OwnInv'
<1>1. \A d : Resolver!Task(d).reply = NoEntry
  BY DEF Resolver!Task
<1>2. \A u \in Pending' : u.reply = NoEntry \/ u \in Pending
  BY <1>1
<1> QED BY <1>2, KnownKept

\* One lemma per step
LEMMA IndexesOwn ==
    ASSUME OwnInv, DaemonTyped, Daemon!Provide \/ Daemon!Consume,
           UNCHANGED <<cache, tasks, launched>>
    PROVE  OwnInv'
<1>1. Pending' = Pending
  BY DEF Pending
<1>2. CASE Daemon!Provide
  <2>1. index' = index
    BY <1>2 DEF Daemon!Provide
  <2> QED BY <1>1, <2>1, KnownKept
<1>3. CASE Daemon!Consume
  <2>1. queue # <<>> /\ index' = [index EXCEPT ![Head(queue).id] = Head(queue)]
    BY <1>3 DEF Daemon!Consume
  <2>2. queue \in Seq(Files)
    BY SeqOfMeans, BoundsAssumption DEF DaemonTyped, BoundedSeq
  <2>3. Head(queue) \in Files
    BY <2>1, <2>2, TailFacts
  <2>4. IndexOwn'
    BY <2>1, <2>3 DEF OwnInv, IndexOwn, DaemonTyped
  <2>5. RepliesOwn' /\ CacheOwn' /\ LaunchesAsWritten'
    BY <1>1 DEF OwnInv, RepliesOwn, CacheOwn, LaunchesAsWritten
  <2> QED BY <2>4, <2>5 DEF OwnInv
<1> QED BY <1>2, <1>3

LEMMA BucketOwn ==
    ASSUME OwnInv, EntriesInv, NEW c \in Classes, UNCHANGED <<index, launched>>,
           Resolver!AddBucket(c) \/ Resolver!ReinsertBucket(c) \/ Resolver!RemoveBucket(c)
    PROVE  OwnInv'
<1>1. CASE Resolver!AddBucket(c) \/ Resolver!ReinsertBucket(c)
  <2>1. Len(tasks) < MaxTasks /\ tasks' = Resolver!ResolveEntry(c, tasks) /\ cache' = cache
    BY <1>1 DEF Resolver!AddBucket, Resolver!ReinsertBucket
  <2>2. PICK A \in SUBSET {c} : Pending' = Pending \cup {Resolver!Task(d) : d \in A}
    BY <2>1, Asks
  <2> QED BY <2>1, <2>2, AskedOwn
<1>2. CASE Resolver!RemoveBucket(c)
  <2>1. /\ tasks' = [i \in DOMAIN tasks |-> IF tasks[i].class = c THEN [tasks[i] EXCEPT !.shown = FALSE]
                                            ELSE tasks[i]]
        /\ cache' = cache
    BY <1>2 DEF Resolver!RemoveBucket, Resolver!Orphaned
  <2>2. /\ \A i \in DOMAIN tasks : tasks[i] \in Pending /\ tasks[i] \in Requests
        /\ DOMAIN tasks' = DOMAIN tasks
    BY <2>1, PendingByIndex DEF EntriesInv
  <2>3. \A i \in DOMAIN tasks : /\ tasks'[i].class = tasks[i].class
                                /\ tasks'[i].reply = tasks[i].reply
    BY <2>1, <2>2 DEF Requests
  <2>4. \A u \in Pending' : \E i \in DOMAIN tasks : u = tasks'[i]
    BY <2>2 DEF Pending, Range
  <2>5. \A u \in Pending' : \E t \in Pending : u.class = t.class /\ u.reply = t.reply
    BY <2>2, <2>3, <2>4
  <2> QED BY <2>1, <2>5, KnownKept
<1> QED BY <1>1, <1>2

LEMMA ConnectOwn ==
    ASSUME OwnInv, EntriesInv, Resolver!SetAppdProxy \/ Resolver!ConnectFails,
           UNCHANGED <<index, launched>>
    PROVE  OwnInv'
<1>1. CASE Resolver!ConnectFails
  <2>1. Pending' = Pending /\ cache' = cache
    BY <1>1 DEF Resolver!ConnectFails, Pending
  <2> QED BY <2>1, KnownKept
<1>2. CASE Resolver!SetAppdProxy
  <2>1. cache' = cache
    BY <1>2 DEF Resolver!SetAppdProxy
  <2>2. PICK order \in SetToSeqs(Resolver!Unresolved) :
          tasks' = tasks \o [i \in DOMAIN order |-> Resolver!Task(order[i])]
    BY <1>2, InstanceOperators DEF Resolver!SetAppdProxy
  <2> DEFINE s == [i \in DOMAIN order |-> Resolver!Task(order[i])]
  <2>3. Resolver!Unresolved \subseteq Classes /\ IsFiniteSet(Resolver!Unresolved)
    <3>1. Resolver!Unresolved \subseteq OnDock /\ OnDock \subseteq Classes
      BY DEF Resolver!Unresolved, OnDock, Resolver!OnDock
    <3> QED BY <3>1, FS_Subset DEF EntriesInv
  <2>4. order \in Seq(Classes) /\ Len(order) \in Nat /\ DOMAIN order = 1 .. Len(order)
    <3>1. order \in Seq(Resolver!Unresolved)
      BY <2>2, <2>3, SetToSeqsLists
    <3>2. Len(order) \in Nat /\ DOMAIN order = 1 .. Len(order)
      BY <3>1, LenProperties
    <3>3. \A i \in 1 .. Len(order) : order[i] \in Classes
      BY <2>3, <3>1, <3>2, ElementOfSeq
    <3>4. order = [i \in 1 .. Len(order) |-> order[i]]
      BY <3>1, <3>2, SeqDef
    <3>5. order \in [1 .. Len(order) -> Classes]
      BY <3>3, <3>4
    <3> QED BY <3>2, <3>5, SeqDef
  <2>5. \A i \in DOMAIN order : Resolver!Task(order[i]) \in Requests
    BY <2>4, ElementOfSeq, TaskTyped
  <2>6. s \in Seq(Requests)
    <3>1. s \in [1 .. Len(order) -> Requests]
      BY <2>4, <2>5
    <3> QED BY <2>4, <3>1, SeqDef
  <2>7. Range(s) = {Resolver!Task(d) : d \in Range(order)}
    BY DEF Range
  <2> HIDE DEF s
  <2>8. Pending' = Pending \cup Range(s)
    BY <2>2, <2>6, RequestsAppended DEF EntriesInv, s
  <2> QED BY <2>1, <2>7, <2>8, AskedOwn
<1> QED BY <1>1, <1>2

LEMMA PollOwn ==
    ASSUME OwnInv, EntriesInv, Resolver!PollTask, UNCHANGED <<index, launched>>
    PROVE  OwnInv'
<1>1. PICK i \in DOMAIN tasks :
        tasks' = IF proxy = "connected" THEN [tasks EXCEPT ![i].stage = "asked"]
                 ELSE RemoveAt(tasks, i)
  BY InstanceOperators DEF Resolver!PollTask
<1>2. cache' = cache
  BY DEF Resolver!PollTask
<1>3. ResolverTyped /\ tasks[i] \in Requests /\ tasks[i] \in Pending
  BY PendingByIndex DEF EntriesInv
<1>4. CASE proxy = "connected"
  <2> DEFINE u == [tasks[i] EXCEPT !.stage = "asked"]
  <2>1. tasks' = [tasks EXCEPT ![i] = u]
    BY <1>1, <1>4
  <2>2. u \in Requests /\ u.class = tasks[i].class /\ u.reply = tasks[i].reply
    BY <1>3 DEF Requests
  <2> HIDE DEF u
  <2>3. Pending' \subseteq Pending \cup {u}
    BY <1>3, <2>1, <2>2, RequestReplaced
  <2> QED BY <1>2, <1>3, <2>2, <2>3, KnownKept
<1>5. CASE proxy # "connected"
  <2>1. Pending' \subseteq Pending
    BY <1>1, <1>3, <1>5, RequestRemoved
  <2> QED BY <1>2, <2>1, KnownKept
<1> QED BY <1>4, <1>5

LEMMA AnsweredOwn ==
    ASSUME OwnInv, EntriesInv, DaemonTyped, NEW i \in DOMAIN tasks, Answer(i) \/ CallFails(i)
    PROVE  OwnInv'
<1>1. ResolverTyped /\ tasks[i] \in Requests /\ tasks[i].class \in Classes
  BY PendingByIndex, RequestFields DEF EntriesInv
<1> DEFINE c == tasks[i].class
           e == IF Answer(i) THEN Daemon!GetEntry(c) ELSE NoEntry
           u == [tasks[i] EXCEPT !.stage = "answered", !.reply = e]
<1>2. tasks' = [tasks EXCEPT ![i] = u] /\ UNCHANGED <<index, cache, launched>>
  BY DEF Answer, CallFails, Resolver!Answered, appdvars
<1>3. e # NoEntry => e \in Own(c)
  BY <1>1, AnswerOwn DEF OwnInv
<1>4. u \in Requests /\ u.class = c /\ u.reply = e
  <2>1. e \in Dtos \cup {NoEntry}
    BY <1>1, GetEntryTyped
  <2> QED BY <1>1, <2>1 DEF Requests
<1> HIDE DEF c, e, u
<1>5. Pending' \subseteq Pending \cup {u}
  BY <1>1, <1>2, <1>4, RequestReplaced
<1>6. RepliesOwn'
  BY <1>3, <1>4, <1>5 DEF OwnInv, RepliesOwn
<1>7. IndexOwn' /\ CacheOwn' /\ LaunchesAsWritten'
  BY <1>2 DEF OwnInv, IndexOwn, CacheOwn, LaunchesAsWritten
<1> QED BY <1>6, <1>7 DEF OwnInv

LEMMA ResumedOwn ==
    ASSUME OwnInv, EntriesInv, NEW i \in DOMAIN tasks, Resolver!Resume(i),
           UNCHANGED <<index, launched>>
    PROVE  OwnInv'
<1>1. ResolverTyped /\ tasks[i] \in Pending /\ tasks[i] \in Requests
  BY PendingByIndex DEF EntriesInv
<1>2. PICK t \in Requests, c \in Classes, e \in Dtos :
        /\ t = tasks[i] /\ t \in Pending /\ c = t.class
        /\ e = IF t.reply # NoEntry THEN t.reply ELSE Resolver!DefaultEntry(c)
  BY <1>1, RequestFields, Values
<1>3. tasks' = RemoveAt(tasks, i) /\ cache' = [cache EXCEPT ![c] = e]
  BY <1>2, InstanceOperators DEF Resolver!Resume
<1>4. e \in Own(c)
  BY <1>2 DEF OwnInv, RepliesOwn, Own
<1>5. CacheOwn'
  BY <1>3, <1>4 DEF OwnInv, CacheOwn, EntriesInv, ResolverTyped
<1>6. RepliesOwn'
  <2>1. Pending' \subseteq Pending
    BY <1>1, <1>3, RequestRemoved
  <2> QED BY <2>1 DEF OwnInv, RepliesOwn
<1>7. IndexOwn' /\ LaunchesAsWritten'
  BY DEF OwnInv, IndexOwn, LaunchesAsWritten
<1> QED BY <1>5, <1>6, <1>7 DEF OwnInv

LEMMA LaunchOwn ==
    ASSUME WellFormedCommands, OwnInv, popover \in Classes \cup {NoClass}, OpenNewWindow
    PROVE  OwnInv'
<1>1. /\ popover # NoClass /\ UNCHANGED <<index, cache, tasks>>
      /\ launched' = IF cache[popover] = NoEntry THEN launched
                     ELSE [class |-> popover, words |-> Daemon!LaunchWithGtk(cache[popover])]
  BY DEF OpenNewWindow, appdvars, rvars
<1>2. Pending' = Pending
  BY <1>1 DEF Pending
<1>3. IndexOwn' /\ RepliesOwn' /\ CacheOwn'
  BY <1>1, <1>2 DEF OwnInv, IndexOwn, RepliesOwn, CacheOwn
<1>4. LaunchesAsWritten'
  <2>1. CASE cache[popover] = NoEntry
    BY <1>1, <2>1 DEF OwnInv, LaunchesAsWritten
  <2>2. CASE cache[popover] # NoEntry
    <3>1. cache[popover] \in Own(popover)
      BY <1>1, <2>2 DEF OwnInv, CacheOwn
    <3>2. launched'.class = popover /\ launched'.words = Daemon!LaunchWithGtk(cache[popover])
      BY <1>1, <2>2
    <3> QED BY <3>1, <3>2, OwnCommand DEF LaunchesAsWritten
  <2> QED BY <2>1, <2>2
<1> QED BY <1>3, <1>4 DEF OwnInv

LEMMA InitOwn == Init => OwnInv
<1> SUFFICES ASSUME Init PROVE OwnInv
  OBVIOUS
<1>1. /\ index = [c \in Classes |-> NoEntry] /\ cache = [c \in Classes |-> NoEntry]
      /\ tasks = <<>> /\ launched = [class |-> NoClass, words |-> <<>>]
  BY DEF Init, Daemon!AppdInit, Resolver!ResolverInit
<1>2. Pending = {}
  BY <1>1 DEF Pending, Range
<1> QED BY <1>1, <1>2 DEF OwnInv, IndexOwn, RepliesOwn, CacheOwn, LaunchesAsWritten

LEMMA StepOwn == ASSUME WellFormedCommands, IInv, OwnInv, [Next]_vars PROVE OwnInv'
<1>1. EntriesInv /\ DaemonTyped /\ popover \in Classes \cup {NoClass}
  BY DEF IInv, BarTyped
<1>2. UNCHANGED appdvars => UNCHANGED index
  BY DEF appdvars
<1>3. UNCHANGED rvars => UNCHANGED <<cache, tasks>>
  BY DEF rvars
<1>4. ASSUME UNCHANGED <<index, cache, tasks, launched>> PROVE OwnInv'
  <2>1. Pending' = Pending
    BY <1>4 DEF Pending
  <2> QED BY <1>4, <2>1, KnownKept
<1>5. CASE DaemonIndexes
  BY <1>1, <1>3, <1>5, IndexesOwn DEF DaemonIndexes
<1>6. CASE BusStep
  BY <1>1, <1>6, AnsweredOwn DEF BusStep
<1>7. CASE Connect
  BY <1>1, <1>2, <1>7, ConnectOwn DEF Connect
<1>8. CASE Poll
  BY <1>1, <1>2, <1>8, PollOwn DEF Poll
<1>9. CASE \E i \in DOMAIN tasks : Resume(i)
  BY <1>1, <1>2, <1>9, ResumedOwn DEF Resume
<1>10. CASE UsePointer
  BY <1>2, <1>3, <1>4, <1>10 DEF UsePointer
<1>11. CASE PinButton
  <2>1. PICK c \in Classes : c = popover
    BY <1>1, <1>11 DEF PinButton
  <2>2. Resolver!ReinsertBucket(c) \/ Resolver!RemoveBucket(c)
    BY <1>11, <2>1 DEF PinButton
  <2>3. UNCHANGED <<index, launched>>
    BY <1>2, <1>11 DEF PinButton
  <2> QED BY <1>1, <2>2, <2>3, BucketOwn
<1>12. CASE OpenNewWindow
  BY <1>1, <1>12, LaunchOwn
<1>13. ASSUME NEW c \in Classes, Appear(c) \/ Disappear(c) PROVE OwnInv'
  <2>1. Resolver!AddBucket(c) \/ Resolver!ReinsertBucket(c) \/ Resolver!RemoveBucket(c)
    BY <1>13 DEF Appear, Disappear
  <2>2. UNCHANGED <<index, launched>>
    BY <1>2, <1>13 DEF Appear, Disappear
  <2> QED BY <1>1, <2>1, <2>2, BucketOwn
<1>14. CASE UNCHANGED vars
  BY <1>2, <1>3, <1>4, <1>14 DEF vars
<1> QED BY <1>5, <1>6, <1>7, <1>8, <1>9, <1>10, <1>11, <1>12, <1>13, <1>14
        DEF Next, TaskStep, UserStep

-----------------------------------------------------------------------------
(* The theorems *)

\* The inductive invariant holds of every behaviour, for any classes, files and
\* bounds.
THEOREM UiInvariant == Spec => []IInv
<1>1. Init => IInv
  BY InitIInv
<1>2. IInv /\ [Next]_vars => IInv'
  BY StepIInv
<1> QED BY <1>1, <1>2, PTL DEF Spec

\* Every variable has its type: the daemon's channel keeps its bound, and a
\* request marked as shown is for a bucket that is on the dock.
THEOREM TypeCorrect == Spec => []TypeOK
<1>1. IInv => TypeOK
  BY TypeOKByParts DEF IInv, EntriesInv
<1> QED BY <1>1, UiInvariant, PTL

\* No bucket on the dock is forgotten once appd is connected: the retry at the
\* connection and the requests of new buckets leave no gap, however they
\* interleave (manager.rs:405-448, 591-622).
THEOREM AlwaysNobodyForgotten == Spec => []NobodyForgotten
<1>1. IInv => NobodyForgotten
  BY NobodyForgottenBySets DEF IInv, EntriesInv
<1> QED BY <1>1, UiInvariant, PTL

\* Icons and cache settle on what the daemon has, in whatever order the answers
\* come and however often a bucket leaves and comes back meanwhile
\* (manager.rs:405-448, state.rs:86-97).
THEOREM AlwaysIconsSettle == Spec => []IconsSettle
<1>1. IInv => IconsSettle
  <2> SUFFICES ASSUME IInv, proxy = "connected", tasks = <<>>,
                      NEW c \in Resolver!OnDock \ misled
               PROVE  IF Daemon!GetEntry(c) = NoEntry
                      THEN Resolver!GenericIcon \in Range(icon[c])
                      ELSE icon[c] = <<Daemon!GetEntry(c).icon>> /\ cache[c] = Daemon!GetEntry(c)
    BY DEF IconsSettle
  <2>1. c \in OnDock /\ c \in Classes /\ c \notin misled
    BY DEF OnDock, Resolver!OnDock
  <2>2. ~Requested(c)
    BY DEF Requested, Pending, Range
  <2>3. /\ cache[c] # NoEntry
        /\ icon[c] = <<cache[c].icon>> \/ Daemon!GetEntry(c) = NoEntry
    BY <2>1, <2>2 DEF IInv, EntriesInv, IconsUnderWay
  <2>4. cache[c] = Final(c)
    BY <2>1, <2>3 DEF IInv, EntriesInv, CacheFinal
  <2>5. CASE Daemon!GetEntry(c) = NoEntry
    <3>1. cache[c].icon = Resolver!GenericIcon
      BY <2>1, <2>4, <2>5, Values DEF Final
    <3>2. icon[c] = <<c, Resolver!GenericIcon>> \/ icon[c] = <<Resolver!GenericIcon>>
      BY <2>1, <3>1 DEF IInv, EntriesInv, IconsKnown
    <3>3. /\ Resolver!GenericIcon \in Range(<<c, Resolver!GenericIcon>>)
          /\ Resolver!GenericIcon \in Range(<<Resolver!GenericIcon>>)
      BY DEF Range
    <3> QED BY <2>5, <3>2, <3>3
  <2>6. CASE Daemon!GetEntry(c) # NoEntry
    BY <2>3, <2>4, <2>6 DEF Final
  <2> QED BY <2>5, <2>6
<1> QED BY <1>1, UiInvariant, PTL

\* A menu is only ever open on a bucket that is on the dock, on a bar that is
\* out and stays out (bar.rs:61-79, factory.rs:73-88, 229-235).
THEOREM AlwaysMenuOnShownBar == Spec => []MenuOnShownBar
<1>1. IInv => MenuOnShownBar
  BY DEF IInv
<1> QED BY <1>1, UiInvariant, PTL

\* What is launched is the command of a desktop file of the class whose menu was
\* clicked, each of its codes replaced by what it stands for, for any desktop
\* files whose commands are well formed (app.rs:104-220, popover_menu.rs:247-257).
THEOREM AlwaysLaunchesAsWritten ==
    ASSUME WellFormedCommands
    PROVE  Spec => []LaunchesAsWritten
<1>1. Init => OwnInv
  BY InitOwn
<1>2. IInv /\ OwnInv /\ [Next]_vars => OwnInv'
  BY StepOwn
<1>3. OwnInv => LaunchesAsWritten
  BY DEF OwnInv
<1> QED BY <1>1, <1>2, <1>3, UiInvariant, PTL DEF Spec

=============================================================================
