# Rummy in TLA+

Rummy is a server that runs language-model agents: clients send prompts to *runs*
over a WebSocket, the server works the prompts off in *loops* of *turns*, each turn
asks a model for a reply, parses the commands in it, records them as entries of an
SQLite database and dispatches them one after the other; commands that touch the
client's files or its shell become *proposals* that a client (or the `yolo` plugin)
has to settle. This directory models the parts of that machinery that are hard to
test: what happens between two awaits.

## The system

All code is JavaScript in one process. The database is an external worker: a query is
an `await`, so between any two statements of one handler other handlers run. The
database answers one process in the order it was asked, one statement at a time. Every
action of these modules is therefore *one database statement and the synchronous code
that follows its answer*; where a statement only fetches what the model already knows
to be constant, it is left out. A database statement fails only by a constraint or a
trigger of the schema; a handler (a plugin, the model's provider) or a listener of an
event may throw anywhere, also after the statement it tells of has been written.

| Component | State | Operations | Talks to |
|---|---|---|---|
| Prompt queue and run lifecycle (`agent/AgentLoop.js`, `loops.sql`, `runs.sql`, `service.js`) | `runs.status`, `runs.next_loop`, table `loops`; in memory `#activeRuns` with an AbortController per run | `run`, `inject`, `set run://`, `abort`, `abortAll`, the drain (`#drainQueue`, `#executeLoop`), boot recovery | every client connection has its own `AgentLoop` over the one database |
| Turn dispatch and proposals (`TurnExecutor.js`, `Entries.js`, `yolo.js`, handlers of `set rm mv cp sh env ask_user`) | log entries and their state (`run_views.state`); in memory the resolvers of `waitForResolution`, one set per connection | `execute`, the handlers, `waitForResolution`, `resolve`, `set` of a state, stale-proposal cleanup | drained by the loop; settled by RPC calls of any connection |
| Streaming entries and wake (`stream.js`, `finalize.js`, `yolo.js`, `sh.js`, `env.js`) | channel entries `_1`, `_2`, their bodies and states; the log entry of the command | `stream`, `stream/completed`, `stream/aborted`, `stream/cancel`, `run.wake` | the producer of the output (a client, or yolo's child process), the prompt queue |
| Strikes and verdict (`error.js`) | per loop: streak, history of fingerprints, errors of the turn | `error.log`, `verdict` | the loop asks for a verdict after each turn |
| Entry store (`Entries.js`, `known_*.sql`, the schema) | `entries` (one row for a scope and a path), `run_views` (which rows a run sees) | `set`, appends, attribute and pattern writes, `cp`, `mv`, `rm`, fork | every handler, every client; runs of one family share rows |
| Context budget (`budget.js`, `materializeContext.js`, `ContextAssembler.js`) | the log entries' bodies and outcomes; per enforcement the overflow that remains | the measurement of a turn's packet, `enforce` | before each call of the model |
| LLM retry (`llm/retry.js`, `LlmProvider.js`, `errors.js`) | attempts, start and category of the last failures | `retryClassified`, the sleep | the provider; the run's abort; the turn |
| RPC server (`ClientConnection.js`, `SocketServer.js`, `RpcRegistry.js`, `rpc.js`) | sockets, calls in flight and their timers, `#rpcLogPending`, `#connections`, `#shutdownPromise` | a call from message to log row, timeout, disconnect, `close` | clients; the AgentLoop of each connection |
| Hooks, tools, policy (`hooks/*`, `policy.js`, `file.js`) | registrations | filters, events, tool sets of a mode | all |
| Parser, edit matching, rendering, providers, CLI, telemetry | none that outlives a call | text in, text out | a turn |

Hard behaviour: two connections draining one run, or one connection draining it twice;
a call looking at `#activeRuns` before and after its awaits; a listener that throws after
a status was written; a proposal settled, or opened again, before, while or after the
turn begins to wait; two clients settling one proposal; an abort that finds the turn
waiting; a restart between any two statements; chunks, refused chunks, closes and
cancellations of a channel in any order; a fork between the two statements of a `set`; an
abort between two attempts; a handler that outlasts its timeout; clients that come and go
while the server closes. `PROJECT.json` lists each of these at its line under `hazards`.

What makes the modelled components correct:

* *Prompt queue*: one loop of a run executes at a time, in the order of the rows; a
  closed loop is final; a claimed loop is closed; a restart loses nothing; of the drains'
  own status writes the trigger rejects one only in the catch block, when a listener threw
  after the status was written (500 over 200 or 499).
* *Dispatch*: no command runs past an open proposal of its turn; a wait misses no
  write it could see; a yolo run needs no client, but for a proposal that a client itself
  writes open after yolo has settled it.
* *Streams*: chunks stay in order and, unless somebody cancels, complete but for chunks
  the database refuses for their size; the log entry tells the end of a command after its
  channels do; every end is recorded.
* *Verdict*: a loop that repeats itself or keeps failing ends by the limit, and no other
  loop is given up; the model's 200 counts on the turn that says it, unless that turn is a
  strike short of the limit, which overrides it.
* *Entry store*: trees of forks never share a row; what a run sets reaches its
  descendants only; a run gains no entry it (or a plugin for it) did not write; where no
  fork is involved a path names one entry.
* *Budget*: a turn is refused only as far as the estimate misleads; no body is cleared
  twice; the model is told of every body that is missing from what it reads.
* *Retry*: a storm of one kind of failure ends with its deadline, an aborted call soon
  after the abort; a server that asks to wait is obeyed as far as the deadline allows.
* *Connections*: a call is answered by its handler or its timeout, never both; a row of
  the log holds the outcome of a call with its id; a closed server leaves no run behind
  but one begun after its connection's shutdown, or one of two drains of one row.

## Modules

| Module | Models | State and actions |
|---|---|---|
| `PromptQueue` | What a run's queue promises, without connections, drains or statuses | `prompt`, `submitted`; `Submit`, `Take`, `Close`, `Restart` |
| `AgentLoop` | The queue as the code has it | `runStatus`, `nextLoop`, `loopStatus`, `loopSequence` are the columns; `Drains` are identities of drains under way: `dpc[d]`, `cur`, `iter`, `res`, `aborted` are the local variables of drain `d`, `home[d]` the connection it belongs to; `entry[c]` is the drain under the run's key in `#activeRuns` of `c` (a drain can run without one); `cpc[k]`, `conn`, `op`, `arg` are the local variables of a call under way. `ClaimNone`, `ClaimRejected`, `Claim` are the three answers of `claim_next_loop`; `BeginLoop` to `CatchLoop` follow `#executeLoop`, `TellListeners` its listeners after a status was written, who may throw; `CompleteLoop` and `FailLoop` are the two ends of the loop in `#drainQueue`, `DrainEnds` its `finally`, which deletes the entry whosever it is; `CallRun`, `TakeNumber`, `EnqueueRun` are `run`; `CallInject`, `CurrentLoop`, `EnqueueInject`, `WritePrompt`, `StartInjected` are `inject`, which looks at `#activeRuns` (`WritePrompt`), awaits `get_project_by_id` and starts a drain without another look; `Crash` is the death of the process and `service.js`'s recovery |
| `MCAgentLoop` | Symmetry sets for TLC | |
| `AgentLoop_proofs` | Theorems about `AgentLoop` | |
| `Proposals` | One run's dispatch | `state[p]` is the state of the `p`-th log entry, in the order paths are allocated, `opened` the entries a client has itself written open; `tpc`, `at`, `pend`, `cur`, `todo`, `crashed` are the local variables of `TurnExecutor.execute` and of the handler under way; `kpc[k]` is where a call stands. `BeginTurn` records the commands; `SkipRefused`, `AbortEntry`, `DispatchThrows`, `Propose`, `ProposeEach`, `ProposeMove`, `Settle` are what one iteration of the dispatch loop can do first; `ListUnresolved`, `PickProposal`, `WaitForResolution`, `NextEntry` are the wait; `YoloWrite`, `YoloAccepted` the yolo plugin inside it; `CallSet`, `Reject`, `Accept`, `Accepted`, `RawWrite` the `set` call; `CallRun`, `CancelStale` the cleanup |
| `MCProposals` | Symmetry set for TLC | |
| `TurnBarrier` | What dispatch promises about proposals, without calls, connections, waits or yolo | `entry`, `turn`, `mine`; `Begin`, `Refuse`, `Enter`, `ProposeMore`, `Answer`, `Pass` (the barrier), `Stop` |
| `Proposals_proofs` | Theorems about `Proposals` | |
| `Streams` | The channels of one accepted `sh` or `env` command | `emitted[c]`, `appended[c]`: how many chunks the command wrote to channel `c`, and how many of them the database was asked to append (what lies between is the promise chain, or under way from a client); `refused[c]`: which of these it refused for the size of the body (`RefuseChunk`); `body`, `chan` are the channel entries, `log` the command's log entry; `hpc[h]`, `snap[h]`, `left[h]` are the local variables of a handler under way. `Close` is yolo's close handler or a client's `stream/completed`, `Launch` yolo's handler of a failed launch, `Cancels` are calls of `stream/aborted` and `stream/cancel`. `ReadChannels`, `WriteBody`, `WriteState`, `WriteLog`, `CheckDormant`, `CheckCompleted`, `Wake` are `finalizeStream` statement by statement; the cancellations share its first four |
| `StreamLog` | What the reader of a command's output is promised, without handlers and snapshots | `text`, `shown`, `dropped`, `final`, `told`, `cut`; `Show`, `Drop`, `Finish`, `Tell`, and after a `Cut` also `Rewrite` |
| `Streams_proofs` | Theorems about `Streams` | |
| `Verdict` | How one loop ends | `streak`, `history`, `turnErrors` are error.js's `loopState`; `reply`, `failed`, `summary` are what a turn passes to the verdict; `iter` is `loopIteration`. `CallFails`, `Reply`, `EntryFails`, `LogOverflow`, `Resolve` are the turn as error.js sees it; `Finish`, `GoOn`, `StrikeOne`, `StrikeOut` the four ends of `#verdict` |
| `Verdict_proofs` | Theorems about `Verdict` | |
| `Store` | Rows and views of all runs | `entry[i]` is row `i` with its scope, its path and the marks of those who wrote it; `view[r]` the rows of `run_views` of run `r`; `lineage[r]` the run and its ancestors; `logs[r]` the log paths taken; `task[k]` what a call has still to do. `Set` and `WriteEntry` are `upsert_entry`, `WriteView` is `upsert_run_view` (refused without a loop); `NewLog` takes a log path; `Copy`, `Move`, `RemoveSource` are `cp` and `mv`; `Edit` stands for the writes of one statement through a view (append, attributes, pattern), `Remove` for `rm`; `Create`, `Fork` are `ensureRun` |
| `MCStore` | Symmetry sets for TLC | |
| `Store_proofs` | Theorems about `Store` | |
| `Budget` | The budget of one run over its loops | `log` are the log entries with their sizes; `packet`, `remaining`, `cleared`, `pending` are enforce's local variables. `StartTurn` measures; `ClearNext` clears the body enforce comes to next, `Report` writes the error entry that follows, `Settle` measures again; `Reply` adds what the model's answer leaves, `Refused` is the turn that is not sent |
| `Budget_proofs` | Theorems about `Budget` | |
| `Retry` | One completion call | `category`, `start`, `cap` are retryClassified's state, `wake` and `deaf` the sleep, `now` the clock. `Attempt`, `Answer`, `Cut`, `Refuse`, `Exhausted`, `Retry` are what one turn of its loop can come to, `Wake` and `Interrupt` the ends of the sleep; `outcome` is what `TurnExecutor` makes of the end |
| `MCRetry` | Two policies for TLC | |
| `Retry_proofs` | Theorems about `Retry` | |
| `Connection` | Connections, their calls and the runs these start | `socket`, `shutdown`, `waits` are a connection; `stage`, `handler`, `answers` a call between the awaits of `#handleMessage`; `pending` is `#rpcLogPending`, `filed` the rows; `run`, `host`, `key` the drains of the AgentLoops and the rows they drain, `entries` their `#activeRuns`; `closing`, `listed`, `awaited` the server. `Receive` to `Finish` follow `#handleMessage`; `KickOff` is the look at `#activeRuns` of a call of set or of `run.wake`, `Start` the start without another look, `RunEnds` deletes the row's entry whosever it is; `Crash` is the failure after an error was answered, which ends the process; `Disconnect`, `Down` are the client's close and the drained shutdown; `CloseServer`, `Drained`, `Closed` are `SocketServer.close` |
| `MCConnection` | Symmetry sets for TLC | |
| `Connection_proofs` | Theorems about `Connection` | |

`AgentLoop` leaves the inside of a turn to `Proposals`: `TurnDone` and `TurnThrows` are
the turn as the loop sees it. `Proposals` leaves the loop to `AgentLoop`: a turn begins
whenever none is under way. Signals meet in `Abort` (`Proposals`, `Streams`) and `Signal`
(`AgentLoop`). Whether `TurnDone` continues or closes, and with 200 or 499, is `Verdict`'s
matter: `Finish` and `StrikeOut` give the status. `Streams` begins where `Proposals`
emits `proposal.accepted`, and its `Wake` is `AgentLoop`'s `CallInject`; of the run's
loops it keeps the two facts that `finalizeStream` asks for.

`Store` takes calls apart where `Proposals` and `Streams` have the states of one run's
entries: between the row and the view of one `set` other calls, forks and removals step
in. `Budget` stands between a turn's beginning and its call of the model (its `Refused`
is `Verdict`'s `LogOverflow`), and `Retry` is that call: its `outcome` is `Verdict`'s
`CallFails` or `Throws`. `Connection` hosts the callers and drains of `AgentLoop`: a
run that is `"active"` there is a drain that is not `"off"`. The parts are not composed
into one module: each keeps of its neighbours the choices they can make.

A `set` leaves the mark `"set"` of its run on the row, a write through a view the mark
`"edit"`; contents, states and visibility decide nothing in `Store`. Sizes in `Budget`
are tokens; an entry cleared in place keeps up to `Slack` tokens in the packet, and one
inherited from a fork's parent is shadowed by the run's own.

`Entries.set` with a body is two statements that write, the body and then the state
(`WriteBody`, `WriteState`); with `append` it is one. The fingerprint of a turn holds the
text of its commands, hence the status and body of its update: `Verdict` sorts
fingerprints into `Terminals`, `Progress`, `Blanks` and `Silent` and keeps nothing else
of the text. A soft error changes nothing that `Verdict` models.

History variables: `missed` and `opened` of `Proposals`, `refused` of `Streams`, `erred` of `Verdict`, the marks, `lineage` of
`Store`, the `clears` and `about` of entries in `Budget`, `abortedAt`, `failedAt` and `hint` of
`Retry`, `late`, `early` and `doubled` of `Connection`. They record what happened (a write of
another connection during the wait, a chunk that was refused, whether a turn had a hard error, who wrote a row, why
an error entry was written, when) and no guard of the code's actions reads them.

## Runs

| Run | Question | Answer |
|---|---|---|
| `agentloop_safety` | Two drains, of two connections or of one that started both, two calls, two loops, client status writes (200, 499), disconnects, restarts | type correct; at most one drain executes, it executes the row that is 102, every 102 has its drain; closed is final |
| `agentloop_queue` | Two connections, two calls, three loops; only drains write `runs.status` | the trigger rejects a drain in the catch block only, after a listener threw; loops close in row order; sequences are unique; the abstract queue is implemented |
| `agentloop_live` | Two connections, one call, between restarts | a claimed loop is closed; a loop that waits behind an executing drain is claimed unless an exception ends that drain |
| `agentloop_lost_loop` | Is every queued loop claimed when no exception ends a drain? | No: enqueued after the drain's last claim, looked for before it left `#activeRuns` |
| `proposals_safety` | Two connections, one call at a time, two log paths, yolo and not, cancellations, restarts | type correct; no lost wakeup; no command past an open proposal, unless a client wrote it open; every yolo turn ends, unless it meets an entry that a client wrote open after yolo |
| `proposals_abort` | Does an aborted turn end? | No: nothing wakes it from `waitForResolution` |
| `streams_safety` | Two channels of two chunks, run by yolo, one cancellation at any time, one refused chunk, aborts, restarts | type correct; in order; complete unless cancelled, but for the refused chunk; the log tells the end last; every end is recorded |
| `verdict_safety` | All sequences of up to seven turns of five kinds, hard errors anywhere | type correct; repetition and failure end the loop; no loop is given up for less; a 200 is overridden on strikes short of the limit only |
| `store_safety` | Two runs, one a fork of the other or not, two calls at once, one name and one log path each, restarts | type correct; families apart; sets flow down only; no path of a root names two entries; nothing intrudes |
| `budget_safety` | Two loops of three turns, a fork's inherited entry or none, entries of 1 and 4 tokens, a ceiling of 6, restarts | type correct; refused by no more than the estimate's error; no body cleared twice; all told before sending |
| `retry_safety` | Two categories, hints below and beyond the deadlines, calls of up to two ticks, an abort at any tick | type correct; an abort, a storm and a hint end or are kept as stated |
| `connection_safety` | Two connections, two calls of one id, two drains of one row, disconnects, the server's close, its death | type correct; one answer; rows of one id; close waits for every drain begun before the shutdown that was alone on its row |

Violation runs state what a document or comment of the repository says; `findings` in
`PROJECT.json` quotes each text.

### Bounds

`MaxLoops` bounds the loops of a run. Two are enough for a drain to find a second loop
behind the first, three for two to be reordered behind a running one. `MaxTurns` is a
setting of the program (`RUMMY_MAX_LOOP_TURNS`); 1 reaches both sides of the limit.
`Drains` 2 bounds the drains under way at a time, not their number: one connection that
started two, or two connections with one each. `Callers`/`Calls` bound the calls in flight at once, not their number. `MaxPaths` bounds
the log entries over all turns; with two, one command can propose twice, a
turn can hold two commands, or a second turn can find what the first left behind.
`MaxChunks` 2 lets a chunk be read by a handler, one come while it writes back and be
lost or doubled, `MaxRefused` 1 a refused chunk be the first or the last of its channel.
`Locals` is `{TRUE}` in the run: a client's command has the same steps without the failed
launch and the kill by an abort; the proofs cover both. The settings of `Verdict` (3 strikes, 2 cycles, periods up to 2) are the
smallest that tell the periods apart: the longest window is then 6 of 7 turns. No
state constraint is used: every bound is a guard. Connections and calls are
interchangeable and are reduced by symmetry in runs that check safety only.

`Store`: two runs are a parent and its fork, or two strangers, and two rows suffice for
each of two paths, or for the two scopes of one path; `MaxEntries` bounds rows of the
table, not steps, as edits, removals and sets go on for ever. The families of three and
more runs are the proofs' matter. `Budget`: 4 tokens twice exceed the ceiling of 6 and one
of them does not, so enforcements clear none, one or several bodies, and the slack of one
token makes the estimate fail; `MaxTokens` is beyond what the turns can add. `Retry`:
`MaxTime` 24 is beyond two deadlines, their last calls and an abort, and the doubling of
the short category reaches its cap. `Connection`: two calls are enough to share an id, two
drains of one row to be started both by one connection or one each, before, during or
after a shutdown, two connections for one to leave and one to come while the server
drains. The run has one id, so every two calls of a connection share it; calls of
different ids touch different rows, which the proof of `RowsOfOneId` covers.

Sizes: 0.9 million distinct states (`agentloop_safety`), 2.6 (`agentloop_queue`), 0.05
(`agentloop_live`), 0.5 (`proposals_safety`), 2.1 (`streams_safety`), 4.8
(`verdict_safety`), 8.3 (`connection_safety`), none above three minutes with two workers.

### Fairness

`AgentLoop!Fairness`: each drain and each call under way goes on. Every await in them is
a database statement, which is answered, or the model's reply, which is bounded by the
provider's deadline. It holds between restarts, so `LiveSpec` has no `Crash` there.
`Proposals!LiveSpec`: the turn and each call under way go on, restarts included; that a
client answers a proposal is *not* assumed, and a turn that waits is not enabled.
`Streams!LiveSpec`: a channel's chain and a handler under way go on, as each of their
steps is a database statement, answered or refused (`AppendChunk \/ RefuseChunk`); nothing is assumed of the command, of clients or of the
run's loops, so a command may run for ever. The four later modules state safety and
bounds in time only (`Retry` measures it in ticks); they assume no fairness.

## Proofs

`tlapm` proves, for any number of connections, calls, loops, turns and paths:

* `AgentLoop_proofs`: `TypeCorrect`, `Exclusive` (`ExclusiveExecution`), `Fifo`
  (`ClosedInOrder`), `UniqueSequences`, `StatusAgrees` (`StatusFollowsLoop`), `Final`
  (`TerminalIsFinal`) and `Refinement` (`ImplementsQueue`); `BoundedClosing`
  (`ClosedInBoundedSteps`), `NotOvertaken` (`NoOvertaking`), `AbortsHold` (`AbortHolds`).
* `Proposals_proofs`: `TypeCorrect`, `NextAfterSettled` (`SettledBeforeNext`),
  `WakesInTime` (`NoLostWakeup`); `YoloHeldByClientOnly` (`HeldByClientOnly`),
  `TurnsAdvance` (`TurnAdvances`), `StaysSettled` (`SettledForGood`), `BarrierRefined` (`ImplementsBarrier`).
* `Streams_proofs`: `TypeCorrect`, `OrderKept` (`InOrder`), `Complete` (`NothingLost`),
  `ChannelsFirst` (`OutcomeLast`), for any channels, chunks and cancellations; `HandlersGoOn`
  (`HandlersAdvance`), `ExitsHandled` (`ExitHandled`), `ReaderRefined` (`ImplementsLog`).
* `Store_proofs`: `TypeCorrect`, `Families` (`FamiliesApart`), `FlowDown` (`SetsFlowDown`),
  `RootPaths` (`RootsUnambiguous`), `Intrusion` (`NothingIntrudes`), for any runs, forks,
  calls and paths; `RowsStay` (`RowsEndure`), `RemovalsArePrivate` (`RemovalIsPrivate`),
  `PathsAreBounded` (`PathsBounded`).
* `Budget_proofs`: `TypeCorrect`, `EstimateClose` (`NearMiss`), `Once`
  (`BodiesClearedOnce`), `ToldFirst` (`ToldBeforeSent`), for any ceiling, sizes and slack;
  `EnforcementEnds` (`EnforceAdvances`), `HistoryIsKept` (`HistoryKept`), `ReplayCostsOnce`
  (`ReplayToldOnce`).
* `Retry_proofs`: `TypeCorrect`, `AbortEnds` (`AbortedEndsSoon`), `StormEnds`
  (`OneCategoryEnds`), `HintKept` (`HintHonored`), for any categories and policies; `SleepsEnd`
  (`SleepsBounded`), `AbortStops` (`AbortStopsCalls`), `StrikesAreDue` (`StrikesAreTimeouts`).
* `Connection_proofs`: `TypeCorrect`, `OneAnswer` (`AnsweredOnce`), `RowsMatch`
  (`RowsOfOneId`), `Drains` (`CloseDrains`), for any connections, calls, ids and runs;
  `CallsEnd` (`CallsAdvance`), `DrainsEnd` (`DrainsShrink`), `ClosedIsSilent`
  (`SilentOnceClosed`).
* `Verdict_proofs`: `TypeCorrect`, `NoEndlessRepetition` (`RepetitionEnds`),
  `NoEndlessFailing` (`StrikesEnd`), `NoHastyEnd` (`StruckForCause`), `TerminalHeard`
  (`TerminalCounts`), for any settings; and `CycleIsRepetition`, that the comparison of
  `detectCycle` is exact; `LoopsEnd` (`LoopsBounded`).

The properties named after a semicolon are stated in the proof modules, where they are
proved, and belong to no run; TLC found no counterexample to any of them on the constants
of the safety runs before it was proved.

Assumptions are the named `ASSUME`s of the modules: bounds are naturals, client statuses
are statuses, `Home` is a connection, policies have a base delay between 1 and their
maximum, sizes are not zero, `None` is none of the values it stands beside.

*Progress.* Ten of the theorems are what remains of an eventuality without fairness: the
actor's own steps bring it nearer to its end by a measure that cannot fall for ever, and
nobody else's step sets it back. `BoundedClosing` and `NotOvertaken` stand to
`ClaimedIsClosed` and `WaitingIsClaimed`, `TurnsAdvance` and `YoloHeldByClientOnly` to
`YoloTurnEnds`, and `HandlersGoOn` with `ExitsHandled` to `ExitIsRecorded`, as the bound to
the promise: what is missing is only that an enabled step is taken (the fairness above).
`LoopsEnd`, `EnforcementEnds` and `CallsEnd` bound a loop's turns, an enforcement and a call
the same way, `DrainsEnd` says the same of a shutdown, which then ends if its runs do. The
measures are sums or lexicographic orders over the program counters: no induction over data
is needed, as each theorem speaks of one step.

*AgentLoop.* The inductive invariant is `IndInv`. `ExclusiveExecution` is not inductive:
that a claim finds no running row must become "no drain executes", which needs the
converse (each running row has a drain whose `cur` it is), and that rows above `lastId` do
not exist, for the order. `QueueInv` holds these with the order of closed rows; `SeqInv`
relates the numbers callers hold to `nextLoop` and to the rows, so that an insert cannot
repeat one; `StatusFollowsLoop` needs exclusiveness, as only the executing drain writes
the status: where clients leave it alone, a drain tells its listeners the status the run
has, and a write in the catch block meets 102 or the terminal status a listener threw at.
`BoundedClosing` counts those listeners: a claimed loop is closed within
`2 * MaxTurns + 9` steps of its drain. `Refinement` maps every action to `Submit`, `Take`, `Close`, `Restart` or a
stutter; the mapping reads `loopStatus` alone, and the order of `Take` is that of `Claim`.
`NotOvertaken` needs no more than that rows are numbered in the order they come and that
nothing opens a closed one. `AbortsHold` adds that a signal is set only for a drain that has
an entry, and that an entry is of a drain under way (`EntriesAreLive`); a drain that has lost
its entry is out of reach of any signal, and the theorem does not say that it gets one.

*Proposals.* `SettledBeforeNext` speaks of one point of the dispatch loop and needs to
know of all others which proposals may be open: `Tracked` says that, outside the handler
and the moment before the list is read, an open proposal of this turn is among those
still to be looked at (`pend`), the one being looked at (`cur`) or one that a client has
itself written open (`opened`). It is kept because no other write makes an entry open
except the handler's own, on paths above those a call or a pending list can hold: an
`opened` row is open and a `streaming` one `opened` (`RowsExist`), recorded entries have no
row before their dispatch (`Unwritten`), and a call that resolves holds a state that
settles, while a raw write may hold an open one (`CallsHold`). `NoLostWakeup` is inductive
with these. `HeldByClientOnly` is inductive with `Placed` (where the turn stands among its
entries): between yolo's write and the look of `waitForResolution` others may write the
proposal, and only a raw write of `proposed` or `streaming` can leave it unsettled.
`StaysSettled` names that write (`Reopens`) as the one step that opens a settled entry.
`BarrierRefined` maps a turn that has
taken up a command to `"within"` until its proposals are worked off; that `Pass` finds none
open is `SettledBeforeNext` again, and every write of a call, a cleanup or yolo is one
`Answer` or a stutter. A client that writes an entry open has answered it there: the turn
waits for it as long as it has not looked, and not if it has.

*Streams.* `IndInv` adds to the types what a handler's snapshot is worth. `OrderInv`:
bodies and snapshots hold increasing chunks none of which is still to be appended or was
refused, so an append or a write-back keeps the order. `EndInv`: a handler of the producer's end that
has read the channels read them after the last chunk was appended or refused. `LossInv`: without a cancellation
a channel holds exactly the chunks that came and were not refused, what such a handler has
read is the body, and only they end channels. `LogInv`: channels a handler has written are terminal for ever, whoever
writes them again, and the log entry is rewritten by one that has none left. `ReaderRefined`
rests on all four: without a cancellation a write-back changes nothing (`LossInv`), so it is
a stutter of `StreamLog`; after one it is a `Rewrite`, whose order `OrderInv` gives.

*Verdict.* `StreakInv` says that the streak is the longest stretch of strikes the turns
end with; the theorems then speak of turns and not of counters. That a repetition of `k`
turns is seen in each of its last `MaxStrikes` positions needs `PeriodicRepeats`, that
strikes of earlier turns do not change when one is pushed needs `CycleKept`. The
properties define repetition by distance (turns `k` apart are equal), the model as the
code does, by blocks compared with the first; `CycleIsRepetition` is their equivalence.
`DoneInv` says that a strike ends a loop well only after `MaxStrikes` of them in a row, for
the second half of `TerminalCounts`.

*Store.* `IndInv` joins the types with five facts: lineages are closed (what a run
descends from is its ancestors' too, and its roots are theirs), a row's marks are those
of its scope's lineage or, for edits, of the family, the pair of scope and path is unique
among rows (what `Slot` reads is what the unique index keeps), views hold rows of the
run's lineage only, and a call that has yet to write the view holds a row of its own run.
The last is what a fork or a removal between the two statements cannot disturb.
`PathsBounded` counts: the rows a run views at one path have different scopes, all of its
lineage, so sending a row to its scope is an injection; that lineages are finite is an
invariant of its own, kept by every fork.

*Budget.* `EstimateInv` says that `packet` exceeds the ceiling by no more than `remaining`
and the slack of what was cleared; clearing an entry of size s takes s from both. `OnceInv`
says that a cleared replay counts for nothing (empty, or shadowed and inherited), hence
is no candidate; `ToldInv` that every cleared entry but the pending one has its error
entry in this turn. `LogKinds` sorts all steps by what they do to the log (nothing, one
entry emptied, its report, an entry more), and the three later theorems go by these kinds.
`ReplayToldOnce` is strengthened by `CostInv`: no error is about a replay that has not been
cleared, or whose report is still to come; with `OnceInv` there is never a second.

*Retry.* The sleep's end is never later than the category's deadline, as `Smaller` takes
what remains of it; a provider call begins no later than that and lasts `CallTime`; a
deaf sleep began after the abort, and no call is begun after it. The first theorems read
their bounds off these; the later three are inductive with a conjunct or two each.

*Connection.* The answers of a call are determined by its stage: none before the reply,
one result after it, and an error only behind it. A pending row belongs to a call of the
connection and id under way. A drain that is alone on its row has the row's entry in
`#activeRuns`, and entries are of drains under way (`Entries`). So a run that is active on a
connection whose shutdown has begun is among the awaited (`waits`), late, or one that met
another drain of its row (`doubled`), whose entry the other may have overwritten or
deleted; a connection whose socket has closed stays listed until it is done: so `close`
can miss no other. `CallKinds` sorts the
steps by what they do to stages and handlers; a handler starts once because a call that is
not dispatched has none. `DrainsShrink` rests on a run being drained once: one that is over
does not come back, and the snapshot holds only runs that have begun. `SilentOnceClosed` allows a
server that has closed to be `"crashed"` by a failure after an error answer.

Only model-checked: liveness itself (`ClaimedIsClosed`, `WaitingIsClaimed`, `YoloTurnEnds`,
`ExitIsRecorded`), as fairness and `ENABLED` are outside this prover (that a step of the
measure is enabled is what the runs add to the theorems under *Progress*), and the
refutations. The budget's sum over the log (`LogTokens`) is a recursive function of which
nothing is proved: the theorems speak of entries and of the measured packet.

## Not modelled

Of the modelled components: renaming a run, persona and settings; a client that removes
a proposal's log entry or promotes by pattern while a turn waits (`Store` has removal,
`Proposals` the wait; they are not composed); a command accepted twice, a client that goes on streaming after a restart, and
the prompts that one wake gives through several listeners; a fork between its own
statements (AgentLoop.js:117-130 are several, `Store` has one action; nobody knows the
run's alias before `run.created` is emitted, but its parent's views may change); visibility, write counts,
`slugPath`, the file scan and the queries of the store; a context whose size is unknown;
notifications, the handshake and `getContextSize`.

Hooks and the tool registry hold registrations made at start; permissions are decided for
one command by its path and mode alone. Parser, edit matching, rendering, providers,
command line, digest and telemetry are text processing or input and output and hold no
state that decides anything; what they may answer is a choice in the modules above.

## Plan

`PromptQueue`, `AgentLoop`, `Proposals`, `Streams`, `Verdict`, `Store`, `Budget`, `Retry`
and `Connection` are written, checked and proved. What remains worth doing, in this order:

1. `Store` composed with `Proposals`, for a proposal whose row is removed or promoted
   while its turn waits.
2. `Verdict` shown to implement the turn and its verdict as `AgentLoop` has them, and
   `Retry` the call as `Verdict` has it.
3. The notifications of a connection with `since`, as a replica of the store's rows.

## Texts and code

Met while modelling, beside the `findings` of `PROJECT.json`, without a run of their own:

* SPEC.md:636-638 counts any `state="failed"` entry as a strike; error.js:113-121 leaves
  out `not_found`, `conflict` and `unparsed`. SPEC.md:632-634 says that no separate error
  entry is written for the failure of an action; Entries.js:423-432 and
  ProjectAgent.js:31-40 write one.
* error_verdict.test.js:275-279 wants a cycle never to be told to the model; the loop
  that is given up for it logs `Loop detected` (AgentLoop.js:517-524), which later loops
  of the run have in their context.
* SPEC.md:885-887 calls the transition of a stream to its end terminal; a close that
  follows a cancellation makes the channel resolved or failed again.
* yolo.js:166-167 says that no close follows a failed launch; node emits one.
* inject() into a drain whose last turn is under way writes a prompt that no turn's
  context will hold (AgentLoop.js:734-747; finalize.js:90-92 relies on the contrary).
* SPEC.md:429-430 says "Abort stops the current loop; pending loops survive."; the aborted
  drain claims each of them and closes it at 499 (AgentLoop.js:295-337, 433-444).
* rpc.js:533-535 says that the first resolver alone emits `proposal.accepted`; two calls
  whose getState (rpc.js:505) both read `proposed` both emit it.
* SPEC.md:529-530 says "A failed entry sets abortAfter"; TurnExecutor.js:357-364 tests
  `status`, which `get_entry_state` (known_store.sql:160-164) does not return.
* finalize.js:11-13 says that cancellations do not summon a turn; the close handler of a
  child killed by an abort or a cancelled stream wakes the run (yolo.js:141, 185-200).
* SPEC.md:234-235 and runs.sql:138-140 let a forked run diverge; writes through a view
  reach the row it shares with its parent (known_store.sql:42-53, 176-186, 261-273).
* The client's calls `cp` and `mv` pass no loop (rpc.js:85-113): for a new path the row is
  written and the view refused (Entries.js:410). So is a tool called through the fallback
  (rpc.js:815-832), against rpc.js:479. `get` asks for the next turn without a loop
  (rpc.js:770, Entries.js:121-128).
* `mv` of a client removes its source although there was nothing to copy (Entries.js:519,
  531-554); the command `mv` does not (mv.js:148-149).
* `since` (rpc.js:377) goes by the id of rows: a row that is viewed again after a removal,
  or whose view comes later than its row, is missed.
* SPEC.md:1194-1197 counts turns across the lineage; they are counted in each loop
  (Entries.js:121-128), and budget.js:233-235 compares them across loops.
* SPEC.md:1180 has a single 413 emitted; each cleared body has an error entry and a strike
  of its own (Entries.js:435-453) beside it. SPEC.md:1183-1184 ends the loop on a hard 413;
  the verdict may go on.
* SPEC.md:1187 clears non-empty bodies; a failed set whose view is made of its attributes
  (set.js:447-461) is cleared, reported and struck in every turn that overflows. `Budget`
  keeps such entries apart as `"notice"`.
* The second measurement of enforce leaves out the persona (budget.js:195-208), which the
  packet of SPEC.md:928 and 960 has.
* retry.js:1 says "mid-sleep AbortSignal-aware"; a sleep that begins after the abort sleeps
  to its end (retry.js:107). Failures that alternate between categories renew each other's
  deadlines without end (retry.js:66).
* A message that fails after its result was sent is answered a second time, by an error
  (ClientConnection.js:196-220). A connection accepted while `close` drains is forgotten
  without a shutdown (SocketServer.js:49).
* SPEC.md:550-554 overrides a terminal update whose turn has a failed action "to a
  continuation" and has the update resolved to 409. error.js:135-146 overrides it on a strike
  short of the limit only: on the last one "Same-turn terminal update wins" and the loop ends
  at 200 (as error_verdict.test.js:126 wants it), a soft failure does not override it at all
  (error.js:113-121), and nothing writes 409. `TerminalCounts` states what the code and its
  test do; its second half says in which turns alone the code departs from SPEC.md:550 by a
  strike. SPEC.md:1662-1670 has further updates (204, 422) end a loop; `resolve` takes 200 alone.
* AgentLoop.js:269 pairs controller and promise "so abortAll can both signal and await drain";
  inject() looks (745), awaits (750) and starts without another look (752-760): two calls of
  one connection start two drains of a run, and the first to end deletes the other's entry
  (381). abortAll neither signals nor awaits that drain, nor does `abort` find it.
* A listener that throws after a status was written (AgentLoop.js:437-443, 516-551, error.log
  and loop.completed) sends the drain to its catch block, which writes 500 over 200 or 499;
  the trigger rejects that, and the loop's row is closed by #drainQueue's catch (338-347): the
  run is at 200 or 499 and its last loop at 500.
* A client may `set` a log entry to `proposed` or `streaming` (rpc.js:45, 580-595). Neither
  settles it for waitForResolution (Entries.js:628-634), so a turn of a yolo run that meets
  such an entry after yolo's write waits for a client; a turn that is already waiting is woken
  by any state (Entries.js:334-343) and goes on over it.
* A chunk that would make a channel's body too large is refused (Entries.js:319-329,
  001_initial_schema.sql:154), reported, and the stream goes on without it
  (yolo.js:148-155): a channel that nobody cancelled can lack chunks in its middle.
* A failure after an error was answered (ClientConnection.js:221-229: a listener of
  `rpc.error`, the log's update) is rejected to nobody, which ends the process.
