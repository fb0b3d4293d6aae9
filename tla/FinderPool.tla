----------------------------- MODULE FinderPool -----------------------------
(***************************************************************************)
(* finder/runner.rs and finder/dispatcher.rs: a pool of worker threads,    *)
(* each with an engine over its chunk of the candidates and a channel of   *)
(* two tasks.  A submit takes a new epoch, sends one task to each worker   *)
(* and collects the responses; a worker drops what a later epoch has       *)
(* overtaken.  A submit is known by its epoch.                             *)
(***************************************************************************)
EXTENDS Engine, FiniteSets

CONSTANTS
    Candidates,     \* the sequence of records id, text
    Requests,       \* the numbers of workers asked for
    Sessions,       \* bound: the sequences of patterns that are submitted
    MaxAbandons     \* bound: submits that are abandoned

ASSUME CandidatesAssumption == Candidates \in Seq(ToSet(Candidates))
\* An id is a position.
ASSUME IdsAssumption ==
    \A i, j \in DOMAIN Candidates : Candidates[i].id = Candidates[j].id => i = j
ASSUME TextsAssumption == \A c \in ToSet(Candidates) : c.text \in Seq(ToSet(c.text))
ASSUME RequestsAssumption == Requests \subseteq Nat
ASSUME SessionsAssumption == \A patterns \in Sessions : patterns \in Seq(ToSet(patterns))
ASSUME PatternsAssumption ==
    \A patterns \in Sessions : \A p \in ToSet(patterns) : p \in Seq(ToSet(p))
ASSUME MaxAbandonsAssumption == MaxAbandons \in Nat

\* The longest session.
MaxSubmits == Max({Len(patterns) : patterns \in Sessions})

TaskCapacity == 2

VARIABLES
    session,        \* the patterns, by epoch
    epoch,
    tasks,          \* the epochs queued in the channel of each worker
    worker,         \* each worker's program counter, task and result
    engines,
    submits,        \* the submits that have begun, by epoch
    responses,      \* the responses of each submit not received yet
    runner,         \* the workers it reports and its program counter
    closed          \* the task channels the drop has closed

poolVars == <<session, epoch, tasks, worker, engines, submits, responses, runner, closed>>

Threads == DOMAIN worker

-----------------------------------------------------------------------------
\* Runner::new

\* Faulty variant: a chunk begins with the last candidate of the one before.
OverlappingChunks(wanted) ==
    LET size == (Len(Candidates) + wanted - 1) \div wanted
    IN  [k \in 1 .. (Len(Candidates) + size - 1) \div size |->
           SubSeq(Candidates, Max({(k - 1) * size, 1}), Min({k * size, Len(Candidates)}))]

\* Chunks of equal size, the last one possibly shorter: there may be fewer of
\* them than workers reported.
Chunks(wanted) ==
    LET size == (Len(Candidates) + wanted - 1) \div wanted
    IN  [k \in 1 .. (Len(Candidates) + size - 1) \div size |->
           SubSeq(Candidates, (k - 1) * size + 1, Min({k * size, Len(Candidates)}))]

Chunk(w) == Chunks(runner.workers)[w]

Receiving == [pc |-> "receiving", epoch |-> 0, matches |-> <<>>]

\* No candidates or no workers: an error, and no pool.
PoolInit ==
    /\ session \in Sessions
    /\ epoch = 0
    /\ submits = <<>>
    /\ responses = <<>>
    /\ closed = {}
    /\ \E wanted \in Requests :
         IF Candidates = <<>> \/ wanted = 0
         THEN /\ runner = [workers |-> 0, pc |-> "none"]
              /\ worker = <<>>
              /\ tasks = <<>>
              /\ engines = <<>>
         ELSE LET n == Min({wanted, Len(Candidates)})
              IN  /\ runner = [workers |-> n, pc |-> "alive"]
                  /\ worker = [w \in DOMAIN Chunks(n) |-> Receiving]
                  /\ tasks = [w \in DOMAIN Chunks(n) |-> <<>>]
                  /\ engines = [w \in DOMAIN Chunks(n) |-> NewEngine]

-----------------------------------------------------------------------------
\* The workers

\* Has the future or the call gone, and with it the response receiver?
Gone(s) == submits[s].pc \in {"abandoned", "failed"}

\* recv, and the first test of the epoch.
Take(w) ==
    /\ worker[w].pc = "receiving"
    /\ tasks[w] # <<>>
    /\ tasks' = [tasks EXCEPT ![w] = Tail(@)]
    /\ worker' = IF Head(tasks[w]) < epoch
                 THEN worker
                 ELSE [worker EXCEPT ![w].pc = "searching", ![w].epoch = Head(tasks[w])]
    /\ UNCHANGED <<session, epoch, engines, submits, responses, runner, closed>>

\* Faulty variant: an overtaken search ends the worker.
OvertakenEnds(s) == IF s < epoch THEN "ended" ELSE "answering"

\* The second test of the epoch.
AfterSearch(s) == IF s < epoch THEN "receiving" ELSE "answering"

\* The search and the second test.
Finish(w) ==
    LET s == worker[w].epoch
        result == Search(engines[w], Chunk(w), session[s])
        pc == AfterSearch(s)
    IN  /\ worker[w].pc = "searching"
        /\ engines' = [engines EXCEPT ![w] = result.engine]
        /\ worker' = [worker EXCEPT ![w] =
                        IF pc = "answering"
                        THEN [pc |-> pc, epoch |-> s, matches |-> result.matches]
                        ELSE [Receiving EXCEPT !.pc = pc]]
        /\ UNCHANGED <<session, epoch, tasks, submits, responses, runner, closed>>

\* Faulty variant: the worker stays with its task.
AnsweredAgain(w) == worker[w]

\* The task, with its response sender, is dropped.
Answered(w) == Receiving

\* The response.  A worker that cannot deliver it ends, and its task receiver
\* with it; whether the channel then keeps its tasks is the library's choice.
Answer(w) ==
    LET s == worker[w].epoch
    IN  /\ worker[w].pc = "answering"
        /\ IF Gone(s)
           THEN /\ worker' = [worker EXCEPT ![w] = [Receiving EXCEPT !.pc = "ended"]]
                /\ \/ tasks' = [tasks EXCEPT ![w] = <<>>]
                   \/ UNCHANGED tasks
                /\ UNCHANGED responses
           ELSE /\ Len(responses[s]) < runner.workers
                /\ worker' = [worker EXCEPT ![w] = Answered(w)]
                /\ responses' = [responses EXCEPT ![s] = Append(@, worker[w].matches)]
                /\ UNCHANGED tasks
        /\ UNCHANGED <<session, epoch, engines, submits, runner, closed>>

\* recv fails once the channel is closed.
End(w) ==
    /\ worker[w].pc = "receiving"
    /\ w \in closed
    /\ worker' = [worker EXCEPT ![w].pc = "ended"]
    /\ UNCHANGED <<session, epoch, tasks, engines, submits, responses, runner, closed>>

WorkerStep(w) == Take(w) \/ Finish(w) \/ Answer(w) \/ End(w)

-----------------------------------------------------------------------------
\* Dispatcher::submit and submit_blocking

\* Late, for ever after, is a submit that begins when a channel is closed already.
Submit ==
    /\ epoch < Len(session)
    /\ runner.pc # "none"
    /\ epoch' = epoch + 1
    /\ submits' = Append(submits, [pc |-> "sending", next |-> 1, matches |-> <<>>,
                                   undisturbed |-> FALSE, late |-> closed # {}])
    /\ responses' = Append(responses, <<>>)
    /\ UNCHANGED <<session, tasks, worker, engines, runner, closed>>

\* Faulty variant: the channel takes any number of tasks.
HasRoomAlways(w) == TRUE

HasRoom(w) == Len(tasks[w]) < TaskCapacity

\* Does a send to the worker fail?
Broken(w) == w \in closed \/ worker[w].pc = "ended"

\* One task to the next worker: the send waits for room and fails when the
\* channel is closed or the worker has ended, and then the submit fails.  After
\* the last one the submit drops its own response sender.
Send(s) ==
    LET w == submits[s].next
    IN  /\ submits[s].pc = "sending"
        /\ IF Broken(w)
           THEN /\ submits' = [submits EXCEPT ![s].pc = "failed", ![s].next = 0]
                /\ responses' = [responses EXCEPT ![s] = <<>>]
                /\ UNCHANGED tasks
           ELSE /\ HasRoom(w)
                /\ tasks' = [tasks EXCEPT ![w] = Append(@, s)]
                /\ submits' = IF w + 1 \in Threads
                              THEN [submits EXCEPT ![s].next = w + 1]
                              ELSE [submits EXCEPT ![s].next = 0, ![s].pc = "collecting"]
                /\ UNCHANGED responses
        /\ UNCHANGED <<session, epoch, worker, engines, runner, closed>>

\* Faulty variant: the submit keeps its own sender.
HasOwnSender(s) ==
    \/ submits[s].pc \in {"sending", "collecting"}
    \/ \E w \in Threads : s \in ToSet(tasks[w]) \/ worker[w].epoch = s

\* A response sender is held by the submit until it has sent its tasks, by each
\* queued task and by each worker at work on one.
HasSender(s) ==
    \/ submits[s].pc = "sending"
    \/ \E w \in Threads : s \in ToSet(tasks[w]) \/ worker[w].epoch = s

AnyAbandoned == \E s \in DOMAIN submits : submits[s].pc = "abandoned"

\* The receive loop ends when no sender is left and nothing is queued; what it
\* has received before nobody else sees.
Return(s) ==
    /\ submits[s].pc = "collecting"
    /\ ~HasSender(s)
    /\ submits' = [submits EXCEPT ![s].pc = "returned",
                                  ![s].matches = FlattenSeq(responses[s]),
                                  ![s].undisturbed = epoch = s /\ closed = {} /\ ~AnyAbandoned]
    /\ responses' = [responses EXCEPT ![s] = <<>>]
    /\ UNCHANGED <<session, epoch, tasks, worker, engines, runner, closed>>

\* The caller of submit drops the future.
Abandon(s) ==
    /\ submits[s].pc \in {"sending", "collecting"}
    /\ Cardinality({t \in DOMAIN submits : submits[t].pc = "abandoned"}) < MaxAbandons
    /\ submits' = [submits EXCEPT ![s].pc = "abandoned", ![s].next = 0]
    /\ responses' = [responses EXCEPT ![s] = <<>>]
    /\ UNCHANGED <<session, epoch, tasks, worker, engines, runner, closed>>

SubmitStep(s) == Send(s) \/ Return(s)

-----------------------------------------------------------------------------
\* Runner::drop

DropRunner ==
    /\ runner.pc = "alive"
    /\ runner' = [runner EXCEPT !.pc = "closing"]
    /\ UNCHANGED <<session, epoch, tasks, worker, engines, submits, responses, closed>>

\* Faulty variant: one channel is left open.
CloseChannelButLast(w) ==
    /\ runner.pc = "closing"
    /\ closed = 1 .. w - 1
    /\ closed' = closed \cup ({w} \ {Cardinality(Threads)})
    /\ runner' = IF w = Cardinality(Threads) THEN [runner EXCEPT !.pc = "joining"] ELSE runner
    /\ tasks' = [tasks EXCEPT ![w] = <<>>]
    /\ UNCHANGED <<session, epoch, worker, engines, submits, responses>>

\* The channels are closed one after the other; a closed one loses its tasks.
CloseChannel(w) ==
    /\ runner.pc = "closing"
    /\ closed = 1 .. w - 1
    /\ closed' = closed \cup {w}
    /\ runner' = IF w = Cardinality(Threads) THEN [runner EXCEPT !.pc = "joining"] ELSE runner
    /\ tasks' = [tasks EXCEPT ![w] = <<>>]
    /\ UNCHANGED <<session, epoch, worker, engines, submits, responses>>

Join ==
    /\ runner.pc = "joining"
    /\ \A w \in Threads : worker[w].pc = "ended"
    /\ runner' = [runner EXCEPT !.pc = "dropped"]
    /\ UNCHANGED <<session, epoch, tasks, worker, engines, submits, responses, closed>>

DropStep == Join \/ \E w \in Threads : CloseChannel(w)

PoolNext ==
    \/ \E w \in Threads : WorkerStep(w)
    \/ Submit
    \/ \E s \in DOMAIN submits : SubmitStep(s) \/ Abandon(s)
    \/ DropRunner \/ DropStep

\* The worker threads and the dropping thread run, and every search ends; a task
\* that polls a submit is polled again, a blocked submit is woken.  Nobody has to
\* submit, to abandon or to drop anything.
PoolFairness ==
    /\ \A w \in 1 .. Len(Candidates) :
         /\ WF_poolVars(w \in Threads /\ (Take(w) \/ Answer(w) \/ End(w)))
         /\ []<>~(w \in Threads /\ worker[w].pc = "searching")
    /\ \A s \in 1 .. MaxSubmits : WF_poolVars(s \in DOMAIN submits /\ SubmitStep(s))
    /\ WF_poolVars(DropStep)

-----------------------------------------------------------------------------
\* Properties

PoolTypeOK ==
    /\ epoch \in 0 .. Len(session)
    /\ Len(submits) = epoch /\ Len(responses) = epoch
    /\ closed \subseteq Threads
    /\ \A w \in Threads :
         /\ Len(tasks[w]) <= TaskCapacity
         /\ worker[w].pc \in {"receiving", "searching", "answering", "ended"}
    /\ \A s \in DOMAIN submits :
         submits[s].pc \in {"sending", "collecting", "returned", "failed", "abandoned"}

\* No worker ever waits to deliver a response: the channel of a submit has room
\* for one response of every worker, and no worker answers twice.
ResponsesFit ==
    \A w \in Threads :
        worker[w].pc = "answering" => Len(responses[worker[w].epoch]) < runner.workers

\* A submit that returns while it is the latest, on a pool that is not being
\* dropped and on which nobody has abandoned a submit, returns every match of
\* every chunk, whatever its engines had cached from other submits.
LatestIsComplete ==
    \A s \in DOMAIN submits :
        submits[s].undisturbed =>
            ToSet(submits[s].matches) = ToSet(FullSearch(Candidates, session[s]))

\* Whatever is overtaken, abandoned or dropped, a submit collects only true
\* matches, each once.
ResultsSound ==
    \A s \in DOMAIN submits :
        LET found == submits[s].matches
        IN  /\ ToSet(found) \subseteq ToSet(FullSearch(Candidates, session[s]))
            /\ Cardinality({found[k].id : k \in DOMAIN found}) = Len(found)

\* A worker ends only because its channel was closed or a submit was abandoned;
\* the second is against the guard that "keeps the worker threads active"
\* (runner.rs:14, 97-111).
WorkersLast ==
    \A w \in Threads : worker[w].pc = "ended" => w \in closed \/ AnyAbandoned

\* Every submit comes to an end, also when the runner is dropped under it, and
\* nobody waits for ever for room or for responses, unless some submit is
\* abandoned.  With what a pending submit ends then is PendingSubmitsFail's matter.
SubmitsEnd ==
    \A s \in 1 .. MaxSubmits :
        (s \in DOMAIN submits) ~>
            (s \in DOMAIN submits /\ submits[s].pc \in {"returned", "failed"}) \/ AnyAbandoned

\* "Any pending [...] requests [...] will fail" once the Runner is dropped
\* (dispatcher.rs:27-30): a submit that is still under way when the drop has
\* joined the workers does not return normally.
PendingSubmitsFail ==
    [][\A s \in DOMAIN submits :
         runner.pc = "dropped" /\ submits[s].pc \in {"sending", "collecting"} =>
             submits'[s].pc # "returned"]_poolVars

\* "... or future requests": a submit that begins after the drop has closed a
\* channel never gets past its sends, whatever the other workers are still doing.
FutureSubmitsFail ==
    \A s \in DOMAIN submits :
        submits[s].late => submits[s].pc \in {"sending", "failed", "abandoned"}

\* The drop of the runner joins every worker, whatever they are doing.
DropJoins == runner.pc = "closing" ~> runner.pc = "dropped"
=============================================================================
