# Executable Markdown: a TLA+ verification of the durable engine

`xmd` runs Markdown documents as durable workflows.  What makes it more than a script runner is
one package, `packages/durable-streams`: it journals every effect before the program sees its
result, replays the journal after a crash, and keeps that history consistent while coroutines
run, fail, are raced, halted and stopped.  This directory models that engine, checks the model
with TLC and proves the parts that hold for every instance with TLAPS.  Around the engine stand
three more models: a workflow run over its life (`packages/workflow` and the command that drives
it), which decides who may execute a run, what the run says of itself and who may answer it; a
retained agent conversation (`packages/core/src/agent`), the durable root that never completes; and
the HTTP journal backend of the engine.

All paths below are relative to `src/packages/` unless they start with `src/`.

## 1. Inventory

| Component | State it keeps | Operations | Hard behaviour | What makes it correct |
|---|---|---|---|---|
| Durable root, `durable-streams/run.ts` | terminal `phase`, retained terminal, root control | `durableRun`, `requestInterruption`, `settled` | a Stop, the return, a throw, a halt and a refused Close race for one terminal | one terminal, reported exactly as journaled; a Stop is never answered with success |
| Durable children, `combinators.ts` | one Close per child, claim of its identity | `runDurableChild`, `durableAll`, `durableRace`, `durableSpawn` | finalizers append while the tree unwinds; restart between two closes | leaves close first, a Close is final, no restored child waits for ever |
| Durable effects, `effect.ts`, `divergence.ts`, `replay-guard.ts` | none of their own | `checkReplay`, `createDurableEffect`, `createDurableOperation` | crash between execution, append and resumption | persist before resume, replay in order, once |
| Append path, `durability.ts`, `guard.ts`, `stream.ts` | append fence, sticky failure | `appendDurableEvent`, `hold`, `guardDurableStream` | a halt while waiting, a failure while waiting, a refusal | one writer, first come first served, nothing after a failure |
| Replay index, `replay-index.ts` | cursors, disabled set, claims, closes | `peekYield`, `consumeYield`, `claim`, `hasClose`, `firstUnaligned` | a definition that changed since the journal was written | retained history is consumed in order or reported |
| Retained values, `retained.ts`, `parse.ts`, `serialize.ts` | frozen copies | copy, parse, serialize | none concurrent | values are not aliased |
| Durable iteration, `each.ts` | one module-level slot | `durableEach`, `durableEach.next` | two iterations of one process around an await | each loop advances its own source |
| HTTP journal, `http-stream.ts` | producer epoch, sequence, fatal error | `readAll`, `append` | lost answers, stale producers, cancelled callers | an event is stored once, in order, or the producer is fatal |
| Workflow lifecycle, `workflow/src/deno/transitions.ts`, `executor.ts`, `cli/src/workflow.ts` | run and execution rows, executor lock and hold, the command's phase | acquire, begin, settle, reconcile, cancel, delete, fork | an executor that dies, teardown racing settlement, refused transactions | one live execution, each settled once; status and rows agree; an outcome that won stands |
| Connection lock, `workflow/src/deno/lock.ts` | holder, waiters | `hold` | as the append fence | as the append fence |
| Suspension and answers, `workflow/src/suspension`, `deno/suspension.ts`, `delivery.ts`, `answers.ts` | request and answer events, answer row, the named wait | suspend, deliver, claim | a delivery judged between two transactions while the run moves; an answer read in one transaction and consumed in another | one value per wait, published once; no delivered answer is stranded |
| Workspace effects, `workspace/effect.ts`, `recovery-coordination.ts` | savepoint, journal route | run, publish | a failure between files and journal | files and journal entry commit together |
| Forks and artifacts, `fork-*.ts`, `artifact/` | copied rows | fork, export | source changes while copied | the copy is a prefix |
| Document pipeline, `core/src` | expansion state | scan, expand, validate, execute | stop and halt of an execution | mostly text; endings rest on the root control |
| Agent conversations, `core/src/agent/conversation.ts`, `cli/src/repl/sidekick/history.ts` | mailbox, known configuration, native conversation, next order; the history file and the writer's memory of it | open, prompt, options, evaluate, cancel, release | a call halted while its turn appends, a teardown that fails, a reopening | one call at a time, gone only when its work is; one configuration and one native conversation for ever |
| ACP provider, `acp/src` | sessions, serial queue | agent, session, prompt | one prompt at a time per session | order per key |
| CLI, git, runtime, testing, web | host state | commands, adapters | host integration | not a model-checking subject |

Interactions.  A document execution calls `durableRun`; the run hands every effect a
`DurableContext` (index, stream, shared durability state); effects and children append through
one fence to one `DurableStream`; the host may wrap that stream with a gate
(`guardDurableStream`).  A workflow executor opens the journal under its lock and uses the root
control to stop a run.  The journal is the only thing a crash leaves.

One workflow run is a database shared by processes.  The executor takes the kernel's lock on the
run, begins an execution, lets the document run over the retained journal, settles what it became
and leaves; if it dies, the next holder of the lock accounts for its execution.  A canceller takes
the same lock.  A person's answer arrives from a third process *without* the lock, in transactions
of its own, and is taken up by whichever execution next stands at that wait.

An agent conversation is a durable root whose document never ends: one element inside it reads a
mailbox, so a call from the host is queued, taken, answered and joined by code that runs as part of
the durable run.  Closing the conversation halts that run; opening it again replays what the
history holds before the first call is taken.

`PROJECT.json` lists the hazards of this code line by line, with the property that watches each,
or the reason none does yet.

## 2. Modules

| Module | Models | State |
|---|---|---|
| `AppendFence` | `createAppendFence` (and the identical `workflow/src/deno/lock.ts`) | `held`, `waiting`, `granted` as in the closure |
| `ReplayIndex` | `replay-index.ts` over a journal | `journal` (durable); `indexed`, `cursors`, `disabled`, `claimed` (memory) |
| `DurableRun` | `run.ts`, `combinators.ts`, `effect.ts`, `durability.ts`, `guard.ts` over the two above | `pc`, `pos`, `pending`, `outcome` per coroutine; `failure`; `phase`, `retained`, `closer`; `winner`, `halting` for Effection |
| `DurableHistory` | the abstract promise: results decided once, endings final, a program that sees exactly the decided results | `decided`, `ended`, `seen` |
| `WorkflowLifecycle` | `transitions.ts`, `executor.ts`, the command in `cli/src/workflow.ts` | `status`, `waitingAt`, `journal`, `unfinished` (rows); `lock`; `hold` (what a process remembers) |
| `WorkflowRun` | composes it with the document (`workspace/effect.ts`, `suspension.ts`, `database.ts`) and with deliveries (`delivery.ts`) | `root`, `answer` (durable); `delivery` |
| `DurableWait` | the abstract promise of a wait: asked once, one value accepted, exactly it published | `wait` |
| `AgentConversation` | `core/src/agent/conversation.ts`, `persistPrompt`, and the writer of `cli/src/repl/sidekick/history.ts`, with an external provider and file system | `file` (durable), `memory` (the writer); `known`, `established`, `used`, `order`, `aligned` (the element's view); `jobs`, `work`, `wire`; per call `call`, `answer`, `cancelled`, `joined`; `busy`, `open` |
| `HttpStream` | `http-stream.ts`, with an external network and server | `nextSeq`, `queue`, `posting`, `fatal`, `appended` per producer; `wire`, `reply`; the server's `log`, `last` |
| `Subsequence` | reading the records of one kind out of a history (`replay-index.ts:42`, `conversation.ts:1302`) | - |
| `AppendFenceProofs`, `SubsequenceProofs`, `DurableRunProofs`, `DurableJournalProofs`, `DurableReplayProofs`, `WorkflowRunProofs`, `AgentConversationProofs`, `HttpStreamProofs` | theorems and the lemmas they rest on (section 5) | - |
| `MCDurableRun`, `MCWorkflowRun`, `MCHttpStream` | definitions, trees, gates, documents and producers of the TLC instances | - |

How `DurableRun` reads the code.

* A *definition* gives each coroutine the list of durable steps its generator takes: a call, an
  `all` or `race` over children, a throw; a step says whether the generator catches its error.
  A run is started with any definition of the constant `Definition`, so a restart may execute
  another edition of the document.
* An event is who, what, and how it settled.  Values, messages and diagnostics are abstracted;
  replay compares the effect's name as `checkReplay` compares type and name.
* `pc` follows a coroutine through the code: `ready` (in its generator), `live` (executor
  running), `turn` (in `hold`), `write` (in `stream.append`), `stored` (durable, append not yet
  returned), `join` (in a combinator), `parked` (restored from `Close(cancelled)`, suspended),
  `threw`, `closing` (finalizer due), `compensate` (root's catch after a refused Close), `ended`.
* `write` and `stored` are two states so that a crash, a halt or a backend error can fall on
  either side of durability.  `BackendFailed` in `stored` is an answer lost after the write.
* `failure` is `DurabilityState.failure`: the first one sticks, and it is tested where the code
  tests it: on entry, before live work starts, before and after waiting for the fence.
* The root's three closing paths - return, catch, finalizer - are told apart by `closer`,
  because a refused Close means something else in each.
* `Crash` drops everything but the journal; `Start` rebuilds the index as `durableRun` does;
  `Restore` is the retained root Close that answers without running anything.
* History variables: `seen` (results a generator was resumed with) and `accepted` (an
  interruption was accepted in this run).  No action reads them.

How `WorkflowLifecycle` and `WorkflowRun` read the code.

* A lifecycle transition is one synchronous SQLite transaction (`inLifecycleTransaction`), so it
  is one action: `Begin` is recovery, admission and the new row together, and a refusal still
  commits the recovery.  A `WorkflowRunDatabase.transact` is not synchronous; it is two actions,
  `Stage` (everything before COMMIT) and `Commit`, with crashes, interrupts and refusals between.
* `hold[h].pc` follows one executor: `acquired`, `replaying`, `live`, `claiming` (an answer was
  found, its transaction not yet open), `writing` (a transaction is open), `executed` (the document
  is over, its outcome unsettled: the command's phase `executed`), `leaving`, `idle`.
  `execution` is the hold's own field, which a failed begin clears; `document` the receipt the
  command kept.  The settler of the hold exists exactly while `execution` is set.
* The document is a straight line of edits, requests and answers.  Its position is the length of
  the journal, so replay is the jump from `replaying` to `live`; how replay itself works is
  `DurableRun`'s subject.  It may throw anywhere except inside the wait, where nothing can
  be caught.
* Three writers end an execution, in the order of the code's scopes: the command's `settle`, its
  finalizer (`Interrupt`, only while the document still runs), and the hold's settler (`Leave`,
  always, finding the row finished or not).  Each may be refused by storage, and `Crash` skips all.
* A delivery reads the wait (`DeliverJudged`), lets go of everything, and asks the same question
  again under the write lock (`Retain`, or `RefuseDelivery`).
* The document of a replayed settled run is attached to no Workspace, so a live edit there is
  refused (`EditUnattached`).

How `AgentConversation` reads the code.

* `conv` follows the resource: `opening` (the history is being bound and replayed), `serving`
  (the element reads its mailbox), `failing` (the element threw, its execution has not ended:
  `live.open` still holds), `ended` (`serve` is over), `releasing` (its owner lets go), `refused`.
  `open` says that a handle was given out and `live.open` holds; where it is false after that,
  `live.ended` is resolved.  `live.closed` is resolved exactly where `conv` is `down`.
* A call is `waiting` in `awaiting()`, then `joining` in its own `ensure`, then `gone`.  A refused
  call (`admit`) leaves no trace and is no action.  Calls are numbered by admission.
* `work` is the element: the job's caller, where the turn stands (`resolving` agent, session and
  configuration; `saving` the configuration; `settled`; `writing` its record; `leaving`;
  `unwinding` after a halt) and the record on its way.  `options` and `evaluate` are `aside`: they
  journal nothing in the conversation's own sequence.
* `wire` is the append in flight, between the bytes handed over, in the file, and remembered by
  the writer.  When the task that appends is halted or fails (`Abandoned`), a record on its way
  lands or does not, and one that landed is remembered by the writer or is not.
* A configuration and a native conversation are interchangeable values, numbered in the order in
  which they first reach the file.
* History variables: `missed` (the file holds a record the open conversation never learnt of),
  `forked` (something was appended while one was missed), `told` and `under` (the native
  conversations of the turns that were answered with their own outcome, the configurations a
  provider was authorised under).  No guard reads them.

How `HttpStream` reads the code.  `append()` takes its number and its place in the queue at once;
the worker posts one event at a time; `Answered` is the switch over the status.  A post that was
sent may arrive after its producer gave up, was replaced or died: `wire` is a set the server
serves in any order.  A body that cannot be read is outside the code's `try`, so `BodyLost`
rejects the caller and does not set `fatalError`.  A post is not duplicated: nothing in the client
sends one twice, and HTTP does not.  The server follows the idempotent producer
protocol of `durable-streams/specs/durable-streams.md`; epochs grow with every producer, as the
option's comment requires.

Effection is a dependency, not part of the repository.  What the model takes from it, each
needed by the code that uses it: a combinator starts all its children before any decision takes
effect (`durable-streams/tests/structured-concurrency.test.ts:454`); halting a scope unwinds
what is beneath it first; a scope that is already running its finalizer is not interrupted by
another halt; a halt can fall between any two steps, also between two replays.

## 3. Runs

| Run | Instance | Properties |
|---|---|---|
| `AppendFence` | 5 turns | `MutualExclusion`, `NoStrandedFence`, `FirstComeFirstServed`, `EveryTurnIsServed` |
| `DurableRunEditions` | root and two children, 3 editions, 2 runs; Stop, halt, crash | `TypeOK`, `LeafFirst`, `ClosedIsFinal`, `AcceptedNeverErr`, `ImplementsHistory` |
| `DurableRunReplay` | nested tree of four, 1 edition, 3 runs; Stop, crash, failing backend; fair; deadlock checked | `LeafFirst`, `ParkedIsCancellable`, `OnlyHaltedDiverge`, `RunEnds` |
| `DurableRunPolicies` | 3 editions, two of them without children, 2 runs; Stop, halt, crash, gate, stale inputs, run-live, failing backend; fair | `SingleWriter`, `ClosedIsFinal`, `PersistBeforeResume`, `RetainedIsJournaled`, `AcceptedNeverOk`, `FailStop`, `ChildlessRunEnds` |
| `WorkflowRun` | 2 hosts, 2 executions, a document of two edits and two waits, 2 deliveries, 3 faults; fair; deadlock checked | `TypeOK`, `LiveIsUnfinished`, `HalvesAgree`, `SuspendedAtOpenWait`, `CloseBeatsCancel`, `WorkspaceMatchesJournal`, `CancelledIsFinal`, `ImplementsWait`, `DeliveredIsSpent` |
| `HttpStream` | 3 events, then a second producer's 2; 2 faults; fair | `TypeOK`, `ResolvedIsStored`, `ZombieFenced`, `FatalIsFinal`, `AppendsSettle` |
| `AgentConversation` | 3 calls, 2 openings, 2 configurations, 2 native conversations, 1 failure; fair | `TypeOK`, `StoppedMeansStopped`, `OneContinuation`, `ViewIsHistory`, `ReopensUnlessForked`, `StoppedCallsReturn` |
| `TerminalStands` | one edit, 1 fault | `TerminalStands`, violated (section 4) |
| `StoppedRootErr`, `HaltedChildrenPark`, `RefusedYieldDiverges`, `CancelledBeforeReplayed` | the smallest instance that shows it | one each, violated (section 4) |

Why the bounds are enough.  Two children make every pair of finalizers, appends and decisions
race; the nested tree adds a halt that has to pass through a parent.  Two runs let anything a
first run left be replayed; the third lets what a *replaying* run left be replayed again.  Two
names make every mismatch possible.  Two calls in a root make one effect follow another, which
is what a hole in the journal needs.  The journal grows only with events of finite definitions,
so nothing else has to be bounded: `MaxRuns` is the only artificial bound of `DurableRun`.
The last permitted run does not crash, since no later run could observe what the crash left.

For a workflow run two hosts let one find what the other left, and two executions are as many as
can matter: at most one is unfinished, and an identity is used again only once nobody holds it.
Two waits tell an answer of the first from one of the second, two deliveries race for one.
`MaxFaults` (3) allows a failure, a failure while it is recovered, and one more; a fault is a
crash, an interrupt, a refused transaction or an unreadable journal.  `MaxBegins` (2) lets a
second begin be attempted under one lock and be refused, and also stops short of a third: see the
end of section 4.  For the HTTP backend three events make one answered, one posted and one queued
at once; a second producer is what a restart adds, and `MaxFaults` (2) lets an answer be lost in
each producer.  For a conversation three calls let one be halted, the next write past what the first
may have left, and a third meet the result; two openings let the second read what the first left;
two configurations and two natives are enough to differ.  `MaxFaults` (1) is one failing append,
host or teardown; crashes and halts are not counted.  In both `CHECK_DEADLOCK FALSE` says that
everything may be gone: all producers, or the conversation after its last opening.

Deadlock.  A run with `CHECK_DEADLOCK FALSE` contains states the model knows to be stuck: the
parked children of finding 2 (`DurableRunEditions` halts runs; in `DurableRunPolicies` a gate
that refuses a Close in one run and lets it pass in the next has the same effect, and so has a halt).  That is
why liveness is stated there for documents without children only (`ChildlessRunEnds`).  `Finished`
stutters when the last permitted run is over, so where deadlock is checked a stuck run is found.

Fairness.  `FairSpec` assumes weak fairness of `Progress` as a whole, and of `Start`: the
JavaScript event loop keeps running what can run, executors settle, the backend answers one way
or the other.  No fairness is assumed of a Stop, a halt, a crash or a particular coroutine.
`AppendFence` assumes that a holder's scope unwinds in the end, which is what every append does.
In `WorkflowRun` weak fairness of one disjunction, "some host executes", says that somebody keeps
resuming the run and that an undisturbed executor goes on; no fairness is assumed of a particular
host, of a delivery, a cancellation or a fault, so the run may wait for ever for its answer.  In
`AgentConversation` the file system takes what it was given, the element serves, unwinds and ends,
and a caller that has its answer leaves; a teardown that has begun is assumed to finish.  Nothing
is assumed of a provider that was asked, of the owner or of the callers.  In
`HttpStream` the worker of each producer goes on, and every post in the wire is served unless it
is lost: `fetch` has no timeout of its own here, so a server that never answers would indeed leave
`append` waiting, and the fairness of `Serve` is an assumption about the server.

What the properties say:

* `ImplementsHistory` - refinement of `DurableHistory`.  Whatever is crashed, halted or edited,
  results are decided once per coroutine, no result is decided and no coroutine ends at or below
  one that ended, and the generator sees exactly the decided results, in order.
* `PersistBeforeResume` - the same with the policies switched on, where run-live may legally
  append past retained history: what was seen is the consumed prefix and then this run's appends.
* `LeafFirst`, `ClosedIsFinal` - the shape of the journal (protocol 7.4, 8), across editions.
* `FailStop` - after the first durability failure no replay, no executor, no admission.
* `RetainedIsJournaled`, `AcceptedNeverOk`, `AcceptedNeverErr` - the root control tells the
  truth.  `AcceptedNeverErr` passes where no gate refuses and fails where one does (finding 1).
* `OnlyHaltedDiverge` - under an unchanged definition, whatever runs to its end agrees with the
  journal; only the finalizer of a cancelled child can find a divergence (finding 4 shows it
  does).
* `ParkedIsCancellable` - a suspended child always has a combinator above it that somebody can
  still decide.
* `RunEnds`, `ChildlessRunEnds` - every run ends or its process dies.
* `LiveIsUnfinished`, `HalvesAgree` - nobody accounts for an execution that is alive, and the
  run's status never disagrees with its execution rows, whichever of six transactions came last.
* `SuspendedAtOpenWait`, `ImplementsWait`, `DeliveredIsSpent` - the wait a person is told to
  answer is open; one value is accepted for it and exactly that value ends it, once; and it is
  spent, whatever is crashed or refused, while somebody resumes the run.
* `CloseBeatsCancel`, `CancelledIsFinal` - what the root recorded wins over a cancellation, and a
  cancellation, once it won, over everything after it.
* `WorkspaceMatchesJournal` - the published root holds exactly the edits journaled as successful.
* `StoppedMeansStopped`, `StoppedCallsReturn` - a call that was answered or halted returns once,
  and only once, nothing is done or queued for it any more.
* `OneContinuation` - over every opening, all turns that were answered with their own outcome ran
  in one native conversation, and, as long as nobody wrote past a record they missed, all sessions
  were authorised under one configuration.
* `ViewIsHistory`, `ReopensUnlessForked` - what the element knows between two jobs is what a
  reopening would read, and the only thing that keeps a history from replaying is that somebody
  wrote past a record it did not know of.
* `ResolvedIsStored`, `ZombieFenced`, `FatalIsFinal`, `AppendsSettle` - a resolved append
  is stored with all before it, a replaced producer adds nothing more, and no caller is stranded.
  After a fatal error no append of the producer resolves, queued behind the failure or posted beside
  it, and what is stored late is only the event in doubt, whose caller was let go.

## 4. Findings

1. **A stopped root can acknowledge `err`** (`run.ts:368`, run `StoppedRootErr`).  On the return
   path `settleStopped` leaves `claimed` for `appending` before its append; if the gate refuses
   `Close(cancelled)` the catch no longer sees the claim and writes `Close(err)`.
2. **An ordinary halt can make a workflow unresumable** (`combinators.ts:81`, run
   `HaltedChildrenPark`).  The children of a `durableAll` journal `Close(cancelled)`, the root
   nothing; the next run suspends both children and nobody will cancel them.
   `DurableRunReplay` therefore has `MayHalt = FALSE`.
3. **A caught gate rejection is not replayable** (`durability.ts:141`, run
   `RefusedYieldDiverges`).  The refused effect leaves no entry, the later one does.
4. **A crash between the deciding Close and the `Close(cancelled)` of the others is fatal**
   (`combinators.ts:109`, run `CancelledBeforeReplayed`).  On restart the restored winner decides
   before the loser has replayed, which is terminal divergence; the tests of
   `terminal-boundary.test.ts` expect that divergence, the protocol text promises completion.

5. **An interrupted replay relabels a settled run** (`transitions.ts:796`, run
   `TerminalStands`).  A completed or failed run may be started again, which replays it and
   leaves its status alone.  If that replay is interrupted, the command's finalizer and the hold's
   settler both publish `interrupted` over the outcome; only `reconcile` preserves it.  A run
   that had failed without a recorded Close may then be resumed or cancelled; one with a recorded
   Close says `interrupted` until the next begin or cancellation finds the Close.

More disagreements, which have no run of their own.

* `cli/src/workflow.ts:1129` says that once the document is over "teardown must not relabel this
  run interrupted, even if what follows refuses".  The command's own finalizer keeps to that.
  The hold's settler does not know of it: a refused settlement (`SettleFails`) is followed by
  `Leave`, which publishes `interrupted`.
* `executor.ts:58-62` says that an acquisition begins at most one execution.  `beginExecution`
  clears the hold's execution when its transaction fails (`transitions.ts:157-160`), also when
  what failed was a refused *second* begin, so a third is admitted and accounts for the live
  first execution.  The shipped command begins once; with `MaxBegins = 3` TLC shows
  `LiveIsUnfinished` violated.
* `core/src/agent/conversation.ts:272-274` says of `live.ended`: "Without this the caller would wait
  for an answer that cannot arrive, holding the resource whose release is the only other thing that
  could have ended the wait."  A call may still be admitted after the element threw and before
  `serve` is over: a turn was cancelled, its teardown failed, its call returned.  That call is
  queued where nobody reads.  `ended` answers it, but its cleanup (line 463) then waits for
  `joined`, which no one is left to resolve, or for the release of the conversation.  TLC shows it
  as a fair behaviour of `AgentConversation` in which a waiting call of an ended conversation is
  never gone.  `StoppedCallsReturn` is therefore about calls the element serves or has joined.
* `conversation.ts:960` says that cancelling a call cancels its turn: "its append never lands".
  An append that was already handed to the host may land.  The conversation goes on without
  knowing of it (`missed`), and once it writes past that record (`forked`) - a second
  configuration, the same turn order again - the next opening diverges or is refused.
* `openable()` refuses a history of two native conversations but of two configurations takes the last
  (`conversation.ts:1321`, where a conversation resolves its configuration once and for all).  Two
  turns halted while they saved a configuration can leave two: the first remembered by the writer,
  the second only in the file.  A reopening in that process then continues under the first, one
  after a crash under the second.  The attempt to prove `OneContinuation` without its exception for
  `forked` found this; TLC shows it in 32 steps with `MaxCalls = 4`, `MaxOpens = 3`, two
  configurations, one native conversation and no failure, beyond the bounds of the run.
* `conversation.ts:759-760`, of the established native conversation: "a turn naming a different one
  was refused before it could record anything".  A turn whose provider names a different one only
  when it runs is recorded first (`Recorded`) and its caller then refused.  The history names two
  native conversations from then on and cannot be opened again.
* `conversation.ts:1283-1284`: a turn that committed no record "was interrupted, and continuing it
  is exactly what a continuation must not do".  A process that dies while the provider works leaves
  nothing at all, so the next opening cannot tell and continues.
* `durable-streams/specs/durable-streams.md:214`: "Disconnect during append: Retry with the same
  `(Id, Epoch, Seq)` tuple", and line 211 has transient server errors retried.  `http-stream.ts` makes
  both fatal (`NetworkFails`, `Answered`), as its own comment at 132-134 says.

## 5. Proofs

Proved for every set of coroutines, every tree, definition, gate, policy and number of restarts.
Likewise for every set of hosts, executions, deliveries and faults and every document, for
every number of producers, appends and faults, and for every number of calls, openings, values and
failures of a conversation.  Assumptions: the named ones of the modules (`TreeAssumption`,
`ChildrenAssumption`, `NameAssumption`, `PolicyAssumption`, `DefinitionAssumption`,
`NilAssumption`, `BoundAssumption`, `ScriptAssumption`, `DelivererAssumption`,
`AppendsAssumption`, `MaxFaultsAssumption`, `BoundsAssumption`), which TLC evaluates on every
instance.  `TreeAssumption` says that `Subtree` is a tree: whatever lies beneath two coroutines
has one of them beneath the other, because an identity is prefixed by those above it.
`ChildrenAssumption` says that a step's children are directly beneath the coroutine that forks
them and belong to no other step: what `runDurableChild` gets from numbering the children of a
coroutine in one sequence.

Six theorems, or groups of them, carry a hypothesis of their own.

| Theorem | Hypothesis | Without it |
|---|---|---|
| those of `WorkflowRunProofs` | `MaxBegins <= 2` | a third begin accounts for a live execution (section 4) |
| `RunLeafFirst` | `Refusable = {}`, `LivePolicy = FALSE` | a child whose Close was refused is open when its parent closes; run-live closes a coroutine whose old children it never reached |
| `RunImplementsHistory` | `LivePolicy = FALSE` | run-live decides results the program has not seen decided |
| `RunAcceptedNeverErr` | the gate lets the root's Close pass | `StoppedRootErr` (finding 1) |
| `RunOnlyHaltedDiverge`, `RunParkedIsCancellable` | every run executes the same document (`OneDefinition`) | an edited document diverges, and should |
| | `Refusable = {}` | a refused yield that the document survives has no entry: `RefusedYieldDiverges` (finding 3); a child whose Close is refused cancels its siblings and may succeed in the next run, where nothing cancels them |
| `RunOnlyHaltedDiverge` | a document catches the error of its races | how a race fell is in no entry: both children may have closed, a replay may decide for the other one, and what follows is then another step |
| | not both `MayHalt` and `MayStop` | a root that is stopped *and* halted closes as cancelled in mid-body, over history it did not reach |
| `RunParkedIsCancellable` | no races, `MayHalt = FALSE` | `HaltedChildrenPark` (finding 2): nothing cancels again what the end of the run cancelled.  Races are left out for the proof's sake (below) |

* `AppendFenceProofs`.  `FenceInv` strengthens the two safety properties with `OneTurnEach` (no
  turn queued twice, none both queued and granted): without it `Release` could grant a turn that
  already holds the fence, and the release of one of two grants would strand the other.  From it
  `FenceMutualExclusion`, `FenceNeverStranded`, and the action property
  `FenceFirstComeFirstServed`, by one lemma per action about positions in the queue.
* `SubsequenceProofs`.  What `Picked` returns for every history: its type, that appending a record
  appends it to what is picked or leaves that alone (`PickedAppend`), that it is empty exactly where
  nothing is of the kind.  `SelectSeq` and the library's induction theorems take operators, which
  the provers cannot instantiate; `Picked` takes a set instead, and the induction is by least
  counterexample (`LeastElement`, from the well-foundedness of `<`, whose parameter is a relation).
* `DurableRunProofs`.  The inductive invariant is `RunInv`:
  types; `Busy` (who appends has an event, who closes has an outcome, who works is at a step);
  the fence's own invariant, reused through `INSTANCE AppendFenceProofs`;
  `WritersHoldTheFence`; `RootPhase` (where the root stands determines its phase);
  `Claim` (an accepted interruption means the phase left `open`); `AcceptedNeverOk`.
  `SingleWriter` does not follow from the fence alone: it needs that nobody writes without a
  grant, through every refusal, failure, halt and crash.  `AcceptedNeverOk` needs `RootPhase`,
  because a claim must imply that no `ok` close is already on its way.  The proof has one lemma
  for each way an action moves a coroutine (`ResumeKeeps`, `BeginAppendKeeps`, `RaisedKeeps`,
  `UnwindKeeps`, ...), then one step per action.
  Theorems: `RunInvariant`, `RunTypes`, `RunSingleWriter`, `RunAcceptedNeverOk`, `RunFailStop`.
* `DurableJournalProofs`, over `RunInv`.  `ControlInv` adds that who closed is spent
  (`ClosedAreSpent`: it waits to be restored, was, or is leaving), that who has something running
  beneath it waits for it at the step that forked it (`JoinsWhatRuns`), that what a `stored`
  coroutine wrote is in the journal, and that children of later steps have not begun.
  `ClosedIsFinal` needs all four: an event after a Close would have to come from a coroutine that
  runs, and the one that runs is not spent.  `RetainedIsJournaled` comes with it.  Under the
  hypotheses of the table `LeafInv` adds that who writes its Close has nothing beneath it with
  events and no Close (`CloseIsLast`), which needs that a coroutine which left has closed
  (`EndedIsClosed`) and that one which did not begin has touched nothing (`IdleIsUntouched`).
  `ErrInv` is `AcceptedNeverErr` with the absence of the compensating append.
  Theorems: `RunClosedIsFinal`, `RunRetainedIsJournaled`, `RunJoinsWhatRuns`, `RunLeafFirst`,
  `RunAcceptedNeverErr`.
  Over both, `HistoryInv` says of every coroutine that its journal is what
  the index retained followed by what this run appended, that it appends only once it consumed what
  was retained (`ReadsBeforeWriting`), and that its program was given all of that but for one result
  that is stored and not acknowledged (`SeesWhatIsKnown`).  From it `RunPersistBeforeResume`, under
  every policy.  With run-live excluded every step is one of `DurableHistory`: an append in the
  journal is `DecideResult` or `End` (nothing decided in or beneath what has ended, by
  `ClosedAreSpent` and `JoinsWhatRuns`), a result given to the program is `See`, a start is
  `StartOver`, and everything else stutters.  That is `RunImplementsHistory`.
* `DurableReplayProofs`, over all of these: runs of one document.  An invariant of replay has to
  relate a coroutine to the state in which an earlier run wrote each of its entries, and those
  states are gone.  `TellInv` says it through the journal and the document alone: the journal
  *tells* how far every coroutine came.  A call was passed when its entry is there and did not
  end the body, an all when its children closed as they must (`Passed`); the n-th entry of a
  coroutine belongs to its n-th call, and whatever has entries lies beneath steps that were passed
  (`JournalIsTold`).  What the journal tells it tells for good (`PassedStays`), across crashes.
  A running coroutine stands where its entries say (`Places`), the children of the steps behind it
  have begun (`KidsBegan`), and one that came to its end left nothing retained beneath it
  (`EndedAligned`).  Then a replayed call finds its entry (`CallsAgree`), and a body that ends has
  consumed its own and reached what is beneath it (`EndsAligned`): the step at which it ended is
  one the journal does not get past (`EndsWhereTold`).  `TellInv` and `LeafInv` are inductive only
  together: no call mismatches, so run-live never begins (`NothingRunsLive`), and the policy need not
  be a hypothesis here as it is of `RunLeafFirst`.  What remains is `RunOnlyHaltedDiverge`: the
  one step that can find a run of an unchanged document divergent is a cancelled child's, which
  finding 4 is about.
  `ParkInv` adds why a child was cancelled.  Without races and halts from outside, somebody is
  halted only by an all that a failed child decided (`HaltedRightly`, `WinnersFailed`); that
  failure was closed before the all was decided, so the entry of a cancelled child always has the
  `Close(err)` of a sibling, its own or of one above it, before it (`CancelledRightly`).
  Whoever restores the one has restored the other with it (`RestoredRightly`), at the step that is
  being joined (`BeneathOne`, from the two assumptions about the tree).  That is
  `RunParkedIsCancellable`.  A race would weaken the reason: it is decided by a child whose Close
  is not written yet, and which a later run may cancel instead.
* `WorkflowRunProofs`, in two layers.  `LifecycleInv` adds to types, `LiveIsUnfinished` and
  `HalvesAgree` that whoever is not idle holds the lock (`HoldsLock`), what an acquisition knows of
  what it began (`Begun`) and that only a suspended run names a wait.  It is inductive without
  knowing what documents do: `DocumentStep` says all that a document's step may do to it.
  `RunInv` adds `JournalFollowsScript` (the journal is a prefix of the document, then
  perhaps a Close), `AnswersAgree` (each answer row against its two journal entries) and `Work`
  (an open transaction stages the event of the step in hand, and only where a pending answer is
  what it publishes).  From it every safety property of the run `WorkflowRun`, and the whole
  refinement: `RunImplementsWait` maps every step to a step of `DurableWait` or a stutter, by one
  lemma for each way a step can touch a wait.
* `AgentConversationProofs`, in three layers, each inductive over the one before.
  `MailInv`: one admitted call (`OneAdmitted`), which is queued, in the
  element's hands or joined and never two of these (`MailboxHasCaller`, `ElementHasCaller`).
  `StoppedMeansStopped` needs that `joined` is resolved by the step that lets go of the job, on
  each of the five ways out of one; and that nothing is served while the history is still being
  bound, which is why the invariant speaks of the append in flight.
  `ElementInv`: which record the element may hold at which step (`WorkShape`), what goes on in
  which part of the conversation's lifetime (`LifeShape`), and that an order is never beyond the
  calls that were admitted (`OrderFits`).  The last is what makes the range of `order` in `TypeOK`
  a fact: an order only ever follows an earlier turn's.
  `KnowsInv`: a conversation that missed nothing is one record behind its file at most (`InSight`);
  what it knows, with the record about to be taken note of, is what its history says (`ViewInv`);
  whatever was answered or authorised is on the disk *and* in the writer's memory (`KeptInv`); and
  the open conversation is held to it (`HeldInv`).  `Consistent` is the three together.
  `ConversationIsOne` needs `KeptInv` of both histories, because either may be what the next
  opening reads; `ConversationReopens` needs that a history which nobody forked has an exact shape
  (`Shape`: the binding, one configuration, then turns in order).
  Theorems: `MailboxIsSound`, `StoppedStaysStopped`, `ConversationTyped`,
  `ConversationIsConsistent`, `ConversationIsOne`, `ConversationKnowsItsHistory`,
  `ConversationReopens`.
* `HttpStreamProofs`.  `StreamInv`: the server's record bounds its stream (`RecordBoundsLog`),
  the stream is closed under predecessors (`PrefixClosed`), and only what is stored was answered
  positively (`PositiveIsStored`).  `ResolvedIsStored` needs `PrefixClosed`, which needs that the
  record moves by one: what a late post of an older producer cannot do.  `FatalIsFinal` has an
  invariant of its own, `FatalInv`, over that one: a failed producer has no post outstanding, because
  its worker posts one at a time, and a post whose caller waits is outstanding, because whatever ends
  a post lets its caller go and `append()` numbers an event before anything can post it.

Only model-checked.

* Liveness (`RunEnds`, `ChildlessRunEnds`, `EveryTurnIsServed`, `DeliveredIsSpent`,
  `StoppedCallsReturn`, `AppendsSettle`) and the absence of deadlock: they need fairness and
  ENABLED, which TLAPS does not reason about.
* `ParkedIsCancellable` where documents race: the reason for a cancellation would have to be
  found anew each time a later run decides a race differently.

## 6. Not modelled

* `durableSpawn`: a child that runs beside its parent's later steps.
* The check and admit phases of replay guards, which may refuse a run before it starts.
* Live-operation coordinators other than the default one, and the durable position counter.
* Durable effects in the `finally` blocks of a halted workflow, which
  `durable-streams/specs/durable-streams.md:252` wants after the child's Close.
* Continuing past a retained Close is in `Mismatch` as in the code, but a closed coroutine is
  never run again, so no composition reaches it.
* In `DurableRun`, a backend that stores an event *after* its append was cancelled: there a
  cancelled append was stored before the cancellation or never.  `HttpStream` has it (`Abandon`,
  then `Serve`), and the two are not composed.  Nor is `readAll`: a post of an older producer that
  lands after a restarted run has read the stream, and before its first append is stored, is an entry
  that run does not know of (hazard `http-stream.ts:217`).  `ZombieFenced` starts at that append.
* The moment at which a child is claimed.  `Fork` claims all children of a step at once; in the code
  each claims itself when its task starts (`combinators.ts:54`), and one that is halted before that
  has no finalizer yet and writes no Close.
* Whether a scheduled executor has started: `Execute` is both, so the second failure test of
  `effect.ts:389` is a guard here and nothing a property could miss.
* Deleting a run, listing, exporting, inspecting and forking one, and authenticating its sources.
  `xmd workflow delete` takes the executor lock; that a delivery, which does not, may then
  meet a file that is gone is left out.
* A root Close of `cancelled` in a workflow run's journal: the code translates it, but no workflow
  command stops a root.
* Documents with concurrency inside a workflow run: a straight line of steps is enough for the
  lifecycle; coroutines are `DurableRun`'s subject.
* `durableEach`.  Its guard tests the process-wide slot before the first fetch is awaited and
  sets it afterwards, so two sibling coroutines both pass it (hazard `each.ts:135`).
* In a conversation: turn records without an outcome (`runPrompt` throws nothing that would write
  one), the report of an evaluation's failure at release (`live.fatal`) and the coroutine an
  evaluation runs in, refusals of another id, agent or provider (nothing follows them), the turns
  other conversations take with the same writer, and an append that lands only after the next one
  was begun.  A caller still leaving an earlier opening is taken to have left.
* The ACP provider behind a conversation: protocol sessions with an external process.
* The text pipeline, the REPL, rendering and the host adapters: sequential data
  handling or I/O, whose correctness is about strings and protocols of other programs.
* Everything marked `not_modelled` in `PROJECT.json`.

## 7. Plan

1. `DurableEach` (the shared slot under sibling coroutines) and `durableSpawn`.
2. Delete, against deliveries and readers that hold no executor lock; recovery coordination;
   forks as a copied prefix of a run.
3. The serial queue of the ACP provider, under the turns of several conversations.
4. `HttpStream` as the backend of `DurableRun`, where a cancelled append may still be stored later,
   with `readAll`.
5. Proofs: `ParkedIsCancellable` of documents that race their children.
