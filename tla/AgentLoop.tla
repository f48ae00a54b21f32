----------------------------- MODULE AgentLoop -----------------------------
(***************************************************************************)
(* The prompt queue of one run and the drains that work it off             *)
(* (src/agent/AgentLoop.js, src/agent/loops.sql, the runs and loops tables *)
(* of the schema, the boot recovery of service.js).                        *)
(*                                                                         *)
(* Every client connection has an AgentLoop of its own over the one        *)
(* database.  A drain is one call of #drainQueue with the #executeLoop it  *)
(* awaits; it is known to others by its entry in the AgentLoop's           *)
(* #activeRuns alone, and the two may part.  A caller is one call of       *)
(* run(), inject() or of the lifecycle part of `set run://`.  An action is *)
(* the code between two awaits: the database statement it waited for and   *)
(* the synchronous code that follows.  (The database answers one process   *)
(* in the order it was asked, so no other code sees the statement's effect *)
(* before that synchronous code has run.)                                  *)
(***************************************************************************)
EXTENDS Integers, FiniteSets

CONSTANTS
  Conns,            \* client connections, each with its own AgentLoop
  Callers,          \* calls of run / inject / set run:// in flight at a time
  NoConn,           \* the connection of a caller or drain that is not there
  Drains,           \* bound: drains under way at a time, of all connections
  NoDrain,          \* no entry in #activeRuns
  MaxLoops,         \* bound: rows of the loops table, values of runs.next_loop
  MaxTurns,         \* RUMMY_MAX_LOOP_TURNS
  ClientStatuses    \* statuses that clients write with `set run:// state=...`

RunStatus  == {100, 102, 200, 202, 499, 500}
Terminal   == {200, 499, 500}
NoRow      == 0
LoopStatus == {NoRow, 100, 102} \cup Terminal
LoopIds    == 1..MaxLoops

ASSUME BoundAssumption  == MaxLoops \in Nat /\ MaxTurns \in Nat
ASSUME ClientAssumption == ClientStatuses \subseteq RunStatus
ASSUME ConnAssumption   == NoConn \notin Conns /\ NoDrain \notin Drains

\* trg_run_state_transition: the changes of runs.status the database accepts.
RunTransition ==
  ({100} \X {102, 499}) \cup ({102} \X {200, 202, 500, 499})
    \cup ({202} \X {102, 200, 499}) \cup ({200, 500} \X {102, 499})
    \cup ({499} \X {102})

Allowed(old, new) == old = new \/ <<old, new>> \in RunTransition

\* Where a drain stands.  "closed" and "caught": the run's status is written, in
\* the try block or in the catch block, and the listeners are being told.
DrainPc == {"off", "claim", "begin", "start", "ready", "top", "turn", "close",
            "closed", "catch", "caught", "complete", "fail", "exit"}

\* Where a caller stands.
CallerPc == {"idle", "number", "enqueue",   \* run, inject
             "current", "write", "project", \* inject
             "setstate"}                    \* set run:// state=...

VARIABLES
  runStatus,     \* runs.status
  nextLoop,      \* runs.next_loop
  lastId,        \* the highest id of a row of loops
  loopStatus,    \* loopStatus[i]: status of the row with id i, NoRow if none
  loopSequence,  \* loopSequence[i]: its sequence
  entry,         \* entry[c]: the drain under the run's key in #activeRuns of c
  home,          \* home[d]: the connection whose AgentLoop drain d belongs to
  aborted,       \* aborted[d]: its AbortController's signal is set
  dpc,           \* dpc[d]: where drain d stands
  cur,           \* cur[d]: the id of the loop it executes, or NoRow
  iter,          \* iter[d]: loopIteration
  res,           \* res[d]: the status it is about to write
  cpc,           \* cpc[k]: where caller k stands
  conn,          \* conn[k]: the connection caller k is on
  op,            \* op[k]: "run", "inject" or "set"; "none" when idle
  arg            \* arg[k]: the sequence or status the caller holds, or 0

entryVars  == <<entry, home, aborted>>
drainVars  == <<entryVars, dpc, cur, iter, res>>
callerVars == <<cpc, conn, op, arg>>
tableVars  == <<nextLoop, lastId, loopStatus, loopSequence>>
vars == <<runStatus, tableVars, drainVars, callerVars>>

TypeOK ==
  /\ runStatus \in RunStatus
  /\ nextLoop \in 1..(MaxLoops + 1)
  /\ lastId \in 0..MaxLoops
  /\ loopStatus \in [LoopIds -> LoopStatus]
  /\ loopSequence \in [LoopIds -> 0..MaxLoops]
  /\ entry \in [Conns -> Drains \cup {NoDrain}]
  /\ home \in [Drains -> Conns \cup {NoConn}]
  /\ aborted \in [Drains -> BOOLEAN]
  /\ dpc \in [Drains -> DrainPc]
  /\ cur \in [Drains -> 0..MaxLoops]
  /\ iter \in [Drains -> 0..MaxTurns]
  /\ res \in [Drains -> RunStatus \cup {0}]
  /\ cpc \in [Callers -> CallerPc]
  /\ conn \in [Callers -> Conns \cup {NoConn}]
  /\ op \in [Callers -> {"none", "run", "inject", "set"}]
  /\ arg \in [Callers -> RunStatus \cup (0..MaxLoops)]

Init ==
  /\ runStatus = 100
  /\ nextLoop = 1
  /\ lastId = 0
  /\ loopStatus = [i \in LoopIds |-> NoRow]
  /\ loopSequence = [i \in LoopIds |-> 0]
  /\ entry = [c \in Conns |-> NoDrain]
  /\ home = [d \in Drains |-> NoConn]
  /\ aborted = [d \in Drains |-> FALSE]
  /\ dpc = [d \in Drains |-> "off"]
  /\ cur = [d \in Drains |-> NoRow]
  /\ iter = [d \in Drains |-> 0]
  /\ res = [d \in Drains |-> 0]
  /\ cpc = [k \in Callers |-> "idle"]
  /\ conn = [k \in Callers |-> NoConn]
  /\ op = [k \in Callers |-> "none"]
  /\ arg = [k \in Callers |-> 0]

Active(c)  == entry[c] # NoDrain                 \* #activeRuns.has(runId)
Pending    == {i \in LoopIds : loopStatus[i] = 100}
RunningIds == {i \in LoopIds : loopStatus[i] = 102}

-----------------------------------------------------------------------------
(* Drains *)

Step(d, from, to) ==
  /\ dpc[d] = from
  /\ dpc' = [dpc EXCEPT ![d] = to]

\* The finally of #drainQueue takes the entry under the run's key out of
\* #activeRuns, the entry of a later drain of the connection too.
Leave(d, from) ==
  /\ Step(d, from, "off")
  /\ entry' = [entry EXCEPT ![home[d]] = NoDrain]
  /\ home' = [home EXCEPT ![d] = NoConn]
  /\ aborted' = [aborted EXCEPT ![d] = FALSE]

\* claim_next_loop: the pending row of the lowest id becomes 102; without a
\* pending row the statement changes nothing, and while another row is 102 the
\* unique index on running rows rejects it, which ends the drain.
ClaimNone(d) ==
  /\ Pending = {}
  /\ Step(d, "claim", "exit")
  /\ UNCHANGED <<runStatus, tableVars, cur, iter, res, entryVars, callerVars>>

ClaimRejected(d) ==
  /\ Pending # {} /\ RunningIds # {}
  /\ Leave(d, "claim")
  /\ UNCHANGED <<runStatus, tableVars, cur, iter, res, callerVars>>

ClaimRow(d, i) ==
  /\ Step(d, "claim", "begin")
  /\ loopStatus' = [loopStatus EXCEPT ![i] = 102]
  /\ cur' = [cur EXCEPT ![d] = i]
  /\ iter' = [iter EXCEPT ![d] = 0]
  /\ UNCHANGED <<runStatus, nextLoop, lastId, loopSequence, res, entryVars,
                 callerVars>>

\* Mutant of Claim: without the unique index a second row may become 102.
Claim_NoUniqueIndex(d, i) ==
  i \in Pending /\ (\A j \in Pending : i <= j) /\ ClaimRow(d, i)

\* Mutant of Claim: ORDER BY id DESC.
Claim_NewestFirst(d, i) ==
  RunningIds = {} /\ i \in Pending /\ (\A j \in Pending : i >= j) /\ ClaimRow(d, i)

Claim(d, i) ==
  RunningIds = {} /\ i \in Pending /\ (\A j \in Pending : i <= j) /\ ClaimRow(d, i)

\* Mutant of BeginLoop: the run is not put at 102.
BeginLoop_NoStart(d) ==
  /\ Step(d, "begin", "ready")
  /\ UNCHANGED <<runStatus, tableVars, cur, iter, res, entryVars, callerVars>>

\* get_run_by_id: the status read decides whether 102 is written.
BeginLoop(d) ==
  /\ Step(d, "begin", IF runStatus = 102 THEN "ready" ELSE "start")
  /\ UNCHANGED <<runStatus, tableVars, cur, iter, res, entryVars, callerVars>>

StartLoop(d) ==
  /\ Step(d, "start", "ready")
  /\ Allowed(runStatus, 102)
  /\ runStatus' = 102
  /\ UNCHANGED <<tableVars, cur, iter, res, entryVars, callerVars>>

\* getContextSize and loop.started: outside the try, so an exception goes to
\* #drainQueue's handler.
LoopReady(d) ==
  /\ Step(d, "ready", "top") \/ Step(d, "ready", "fail")
  /\ UNCHANGED <<runStatus, tableVars, cur, iter, res, entryVars, callerVars>>

\* Mutant of LoopTop: RUMMY_MAX_LOOP_TURNS is not looked at.
LoopTop_NoTurnLimit(d) ==
  /\ IF ~aborted[d] /\ iter[d] <= MaxTurns
     THEN /\ Step(d, "top", "turn")
          /\ iter' = [iter EXCEPT ![d] = @ + 1]
          /\ UNCHANGED res
     ELSE /\ Step(d, "top", "close")
          /\ res' = [res EXCEPT ![d] = 499]
          /\ UNCHANGED iter
  /\ UNCHANGED <<runStatus, tableVars, cur, entryVars, callerVars>>

\* The head of the while loop: out of turns or aborted, the loop closes at 499;
\* else a turn starts.
LoopTop(d) ==
  /\ IF iter[d] < MaxTurns /\ ~aborted[d]
     THEN /\ Step(d, "top", "turn")
          /\ iter' = [iter EXCEPT ![d] = @ + 1]
          /\ UNCHANGED res
     ELSE /\ Step(d, "top", "close")
          /\ res' = [res EXCEPT ![d] = 499]
          /\ UNCHANGED iter
  /\ UNCHANGED <<runStatus, tableVars, cur, entryVars, callerVars>>

\* The turn and its verdict: continue, or close with the verdict's status.
TurnDone(d) ==
  /\ \/ Step(d, "turn", "top") /\ UNCHANGED res
     \/ /\ Step(d, "turn", "close")
        /\ \E s \in {200, 499} : res' = [res EXCEPT ![d] = s]
  /\ UNCHANGED <<runStatus, tableVars, cur, iter, entryVars, callerVars>>

\* The catch block is entered: it picks the status from the signal.
Caught(d, from) ==
  /\ Step(d, from, "catch")
  /\ res' = [res EXCEPT ![d] = IF aborted[d] THEN 499 ELSE 500]
  /\ UNCHANGED runStatus

TurnThrows(d) ==
  /\ Caught(d, "turn")
  /\ UNCHANGED <<tableVars, cur, iter, entryVars, callerVars>>

\* #setRunStatus inside the try: a rejected transition lands in the catch block.
CloseLoop(d) ==
  /\ IF Allowed(runStatus, res[d])
     THEN Step(d, "close", "closed") /\ runStatus' = res[d] /\ UNCHANGED res
     ELSE Caught(d, "close")
  /\ UNCHANGED <<tableVars, cur, iter, entryVars, callerVars>>

\* #setRunStatus inside the catch block: a rejected transition is thrown on.
CatchLoop(d) ==
  /\ IF Allowed(runStatus, res[d])
     THEN Step(d, "catch", "caught") /\ runStatus' = res[d]
     ELSE Step(d, "catch", "fail") /\ UNCHANGED runStatus
  /\ UNCHANGED <<tableVars, cur, iter, res, entryVars, callerVars>>

\* error.log.emit, #emitCompleted and, in the finally, loop.completed.emit: the
\* loop returns its result, or a listener throws.  What the first two throw in the
\* try block lands in the catch block although the status is written.
TellListeners(d) ==
  /\ \/ /\ \E from \in {"closed", "caught"}, to \in {"complete", "fail"} : Step(d, from, to)
        /\ UNCHANGED <<runStatus, res>>
     \/ Caught(d, "closed")
  /\ UNCHANGED <<tableVars, cur, iter, entryVars, callerVars>>

CloseRow(d, s) ==
  /\ loopStatus' = [loopStatus EXCEPT ![cur[d]] = s]
  /\ cur' = [cur EXCEPT ![d] = NoRow]
  /\ iter' = [iter EXCEPT ![d] = 0]
  /\ res' = [res EXCEPT ![d] = 0]
  /\ UNCHANGED <<runStatus, nextLoop, lastId, loopSequence, callerVars>>

\* Mutant of CompleteLoop: the drain executes one loop and leaves.
CompleteLoop_OneLoop(d) ==
  Step(d, "complete", "exit") /\ CloseRow(d, res[d]) /\ UNCHANGED entryVars

\* complete_loop with the loop's result, then the next claim.
CompleteLoop(d) ==
  Step(d, "complete", "claim") /\ CloseRow(d, res[d]) /\ UNCHANGED entryVars

\* Mutant of FailLoop: the exception ends the drain without complete_loop.
FailLoop_NoComplete(d) == Leave(d, "fail") /\ CloseRow(d, 102)

\* complete_loop with 500; the exception then ends the drain.
FailLoop(d) == Leave(d, "fail") /\ CloseRow(d, 500)

\* get_run_by_alias for the answer, and the drain ends.
DrainEnds(d) ==
  /\ Leave(d, "exit")
  /\ UNCHANGED <<runStatus, tableVars, cur, iter, res, callerVars>>

DrainStep(d) ==
  \/ ClaimNone(d) \/ ClaimRejected(d) \/ (\E i \in LoopIds : Claim(d, i))
  \/ BeginLoop(d) \/ StartLoop(d) \/ LoopReady(d) \/ LoopTop(d)
  \/ TurnDone(d) \/ TurnThrows(d)
  \/ CloseLoop(d) \/ CatchLoop(d) \/ TellListeners(d)
  \/ CompleteLoop(d) \/ FailLoop(d) \/ DrainEnds(d)

-----------------------------------------------------------------------------
(* Callers *)

\* AbortController.abort() of the drain that connection c has an entry for, if any.
Signal(c) ==
  /\ aborted' = [d \in Drains |-> aborted[d] \/ d = entry[c]]
  /\ UNCHANGED <<entry, home>>

Call(k, c, o, pc, a) ==
  /\ cpc[k] = "idle"
  /\ cpc' = [cpc EXCEPT ![k] = pc]
  /\ conn' = [conn EXCEPT ![k] = c]
  /\ op' = [op EXCEPT ![k] = o]
  /\ arg' = [arg EXCEPT ![k] = a]

Continue(k, from, to) ==
  /\ cpc[k] = from
  /\ cpc' = [cpc EXCEPT ![k] = to]

Return(k, from) ==
  /\ Continue(k, from, "idle")
  /\ conn' = [conn EXCEPT ![k] = NoConn]
  /\ op' = [op EXCEPT ![k] = "none"]
  /\ arg' = [arg EXCEPT ![k] = 0]

\* Bound: no call starts that could find the table full.
Room == nextLoop + Cardinality({k \in Callers : cpc[k] = "number"}) <= MaxLoops

\* run(): ensureRun finds the row and aborts this connection's drain of it.
CallRun(k, c) ==
  /\ Room
  /\ Call(k, c, "run", "number", 0)
  /\ Signal(c)
  /\ UNCHANGED <<runStatus, tableVars, dpc, cur, iter, res>>

\* inject(): with a drain active the prompt is meant for its current loop,
\* without one it gets a loop of its own.
CallInject(k, c) ==
  /\ Active(c) \/ Room
  /\ Call(k, c, "inject", IF Active(c) THEN "current" ELSE "number", 0)
  /\ UNCHANGED <<runStatus, tableVars, drainVars>>

\* `set run:// state=...`: cancelled first aborts this connection's drain.
CallSetState(k, c) ==
  /\ \E s \in ClientStatuses :
       /\ Call(k, c, "set", "setstate", s)
       /\ IF s = 499 THEN Signal(c) ELSE UNCHANGED entryVars
  /\ UNCHANGED <<runStatus, tableVars, dpc, cur, iter, res>>

\* Mutant of TakeNumber: the sequence is computed from the rows there are.
TakeNumber_FromRows(k) ==
  /\ nextLoop <= MaxLoops
  /\ Continue(k, "number", "enqueue")
  /\ arg' = [arg EXCEPT ![k] = lastId + 1]
  /\ nextLoop' = nextLoop + 1
  /\ UNCHANGED <<runStatus, lastId, loopStatus, loopSequence, drainVars, conn, op>>

\* next_loop
TakeNumber(k) ==
  /\ nextLoop <= MaxLoops
  /\ Continue(k, "number", "enqueue")
  /\ arg' = [arg EXCEPT ![k] = nextLoop]
  /\ nextLoop' = nextLoop + 1
  /\ UNCHANGED <<runStatus, lastId, loopStatus, loopSequence, drainVars, conn, op>>

\* A drain is called and put under the run's key in #activeRuns, in place of the
\* entry that may be there.
StartDrain(c) ==
  \E d \in Drains :
    /\ Step(d, "off", "claim")
    /\ entry' = [entry EXCEPT ![c] = d]
    /\ home' = [home EXCEPT ![d] = c]
    /\ UNCHANGED aborted

\* enqueue_loop: a pending row under the next id.  run() then looks for an entry in
\* #activeRuns and starts a drain when there is none; inject() first writes the
\* prompt entry.
EnqueueRow(k) ==
  /\ lastId < MaxLoops
  /\ lastId' = lastId + 1
  /\ loopStatus' = [loopStatus EXCEPT ![lastId + 1] = 100]
  /\ loopSequence' = [loopSequence EXCEPT ![lastId + 1] = arg[k]]
  /\ UNCHANGED <<runStatus, nextLoop, cur, iter, res>>

EnqueueRun(k) ==
  /\ op[k] = "run"
  /\ EnqueueRow(k)
  /\ Return(k, "enqueue")
  /\ IF Active(conn[k]) THEN UNCHANGED <<dpc, entryVars>> ELSE StartDrain(conn[k])

EnqueueInject(k) ==
  /\ op[k] = "inject"
  /\ EnqueueRow(k)
  /\ Continue(k, "enqueue", "write")
  /\ arg' = [arg EXCEPT ![k] = 0]
  /\ UNCHANGED <<dpc, entryVars, conn, op>>

\* get_current_loop; reading .id of no row throws a TypeError at the caller.
CurrentLoop(k) ==
  /\ \/ RunningIds # {} /\ Continue(k, "current", "write") /\ UNCHANGED <<conn, op, arg>>
     \/ RunningIds = {} /\ Return(k, "current")
  /\ UNCHANGED <<runStatus, tableVars, drainVars>>

\* entries.set of prompt://<next_turn>, and the second look: a drain that has an
\* entry will see to the prompt.
WritePrompt(k) ==
  /\ \/ Return(k, "write") /\ Active(conn[k])
     \/ Continue(k, "write", "project") /\ ~Active(conn[k]) /\ UNCHANGED <<conn, op, arg>>
  /\ UNCHANGED <<runStatus, tableVars, drainVars>>

\* get_project_by_id, and a drain is started without another look.
StartInjected(k) ==
  /\ Return(k, "project")
  /\ StartDrain(conn[k])
  /\ UNCHANGED <<runStatus, tableVars, cur, iter, res>>

\* set_run_state of a client; the trigger may reject it.
WriteState(k) ==
  /\ Return(k, "setstate")
  /\ runStatus' = IF Allowed(runStatus, arg[k]) THEN arg[k] ELSE runStatus
  /\ UNCHANGED <<tableVars, drainVars>>

BeginCall(k) ==
  \E c \in Conns : CallRun(k, c) \/ CallInject(k, c) \/ CallSetState(k, c)

CallerStep(k) ==
  \/ TakeNumber(k) \/ EnqueueRun(k) \/ EnqueueInject(k)
  \/ CurrentLoop(k) \/ WritePrompt(k) \/ StartInjected(k) \/ WriteState(k)

\* A client leaves or the server shuts down: abortAll signals the entries' drains.
Disconnect(c) ==
  /\ Active(c)
  /\ Signal(c)
  /\ UNCHANGED <<runStatus, tableVars, dpc, cur, iter, res, callerVars>>

\* What is in memory is gone; abort_stuck_runs puts a run left at 100 or 102 to 499.
Reboot ==
  /\ runStatus' = IF runStatus \in {100, 102} THEN 499 ELSE runStatus
  /\ entry' = [c \in Conns |-> NoDrain]
  /\ home' = [d \in Drains |-> NoConn]
  /\ aborted' = [d \in Drains |-> FALSE]
  /\ dpc' = [d \in Drains |-> "off"]
  /\ cur' = [d \in Drains |-> NoRow]
  /\ iter' = [d \in Drains |-> 0]
  /\ res' = [d \in Drains |-> 0]
  /\ cpc' = [k \in Callers |-> "idle"]
  /\ conn' = [k \in Callers |-> NoConn]
  /\ op' = [k \in Callers |-> "none"]
  /\ arg' = [k \in Callers |-> 0]
  /\ UNCHANGED <<nextLoop, lastId, loopSequence>>

\* Mutant of Crash: boot puts aborted loops back into the queue as well.
Crash_Reopens ==
  /\ loopStatus' = [i \in LoopIds |->
                      IF loopStatus[i] \in {102, 499} THEN 100 ELSE loopStatus[i]]
  /\ Reboot

\* The process dies and boots again: reset_active_loops, then abort_stuck_runs.
Crash ==
  /\ loopStatus' = [i \in LoopIds |-> IF i \in RunningIds THEN 100 ELSE loopStatus[i]]
  /\ Reboot

StepNext ==
  \/ \E d \in Drains : DrainStep(d)
  \/ \E c \in Conns : Disconnect(c)
  \/ \E k \in Callers : BeginCall(k) \/ CallerStep(k)

Next == StepNext \/ Crash

Spec == Init /\ [][Next]_vars

\* Between restarts.  Every await of a drain or of a call under way returns:
\* the database answers, the model answers or its request times out, and no
\* turn waits for a client to resolve a proposal.  Calls need not be made.
Fairness ==
  /\ \A d \in Drains : WF_vars(DrainStep(d))
  /\ \A k \in Callers : WF_vars(CallerStep(k))

LiveSpec == Init /\ [][StepNext]_vars /\ Fairness

-----------------------------------------------------------------------------
(* Properties *)

Executing(d) ==
  dpc[d] \in {"begin", "start", "ready", "top", "turn", "close", "closed",
              "catch", "caught", "complete", "fail"}

\* However many drains the run has, of one connection or of several, at most one
\* executes a loop, the loop it executes is the row that is 102, and a row that is
\* 102 has its drain: no exit of a drain, not even by an exception, leaves a running
\* row behind.
ExclusiveExecution ==
  /\ \A d \in Drains : Executing(d) <=> cur[d] # NoRow
  /\ \A d \in Drains : Executing(d) => loopStatus[cur[d]] = 102
  /\ \A d, e \in Drains : Executing(d) /\ Executing(e) => d = e
  /\ \A i \in RunningIds : \E d \in Drains : cur[d] = i

\* Loops are closed in the order of their ids, across drains, connections,
\* exceptions and restarts: nothing after the oldest open loop was ever taken.
ClosedInOrder ==
  \A i, j \in LoopIds :
    i < j /\ loopStatus[i] \in {100, 102} => loopStatus[j] \in {NoRow, 100}

\* Concurrent calls never produce two rows of the same sequence, so that
\* UNIQUE (run_id, sequence) rejects no enqueue_loop.
SequencesUnique ==
  \A i, j \in LoopIds :
    loopStatus[i] # NoRow /\ loopStatus[j] # NoRow /\ loopSequence[i] = loopSequence[j]
      => i = j

\* As long as no client writes the status itself, runs.status is 102 while a loop
\* executes, whatever other calls and drains do, and a loop that returns is
\* completed with the status its run has.  The trigger rejects a write of a drain
\* only in the catch block, when a listener threw after the status was written
\* (500 over 200 or 499); the run then keeps the status it has.
StatusFollowsLoop ==
  ClientStatuses = {} =>
    \A d \in Drains :
      /\ dpc[d] \in {"ready", "top", "turn", "close"} => runStatus = 102
      /\ dpc[d] \in {"closed", "caught", "complete"} => runStatus = res[d]
      /\ dpc[d] = "catch" => runStatus \in {102, 200, 499}

\* A loop that was closed stays as it was closed, restarts included.
TerminalIsFinal ==
  [][\A i \in LoopIds : loopStatus[i] \in Terminal => loopStatus'[i] = loopStatus[i]]_vars

\* The prompt queue that the run's connections implement together.
PromptState(status) ==
  CASE status = NoRow -> "absent"
    [] status = 100 -> "queued"
    [] status = 102 -> "running"
    [] OTHER -> "closed"

Queue == INSTANCE PromptQueue
           WITH Prompts   <- LoopIds,
                prompt    <- [i \in LoopIds |-> PromptState(loopStatus[i])],
                submitted <- lastId

\* The drains of all connections together implement the abstract prompt queue.
ImplementsQueue == Queue!QueueSpec

\* A loop that was claimed is closed: aborts, thrown turns, rejected status writes
\* and failed starts all end in complete_loop.
ClaimedIsClosed ==
  \A i \in LoopIds : loopStatus[i] = 102 ~> loopStatus[i] \in Terminal

\* A loop that waits while a drain executes another is claimed in turn, unless an
\* exception ends a drain that executes.
WaitingIsClaimed ==
  \A i \in LoopIds :
    loopStatus[i] = 100 /\ (\E d \in Drains : Executing(d))
      ~> loopStatus[i] # 100 \/ (\E d \in Drains : dpc[d] = "fail")

\* When no exception ever ends a drain, every loop in the queue is claimed (the
\* schema: "Worker claims FIFO per run").  Lost all the same when the row is
\* enqueued after a drain's last claim and the caller looks before the drain has
\* left #activeRuns.
QueuedIsClaimed ==
  [](\A d \in Drains : dpc[d] # "fail")
    => \A i \in LoopIds : loopStatus[i] = 100 ~> loopStatus[i] # 100

=============================================================================
