-------------------------- MODULE AgentLoop_proofs --------------------------
(***************************************************************************)
(* Proofs about AgentLoop, for every set of connections and callers and    *)
(* every bound: the inductive invariant, the safety invariants and the     *)
(* action property that follow from it, and the refinement of PromptQueue. *)
(***************************************************************************)
EXTENDS AgentLoop, TLAPS

\* What the callers and drains hold between two awaits is of the kind their next
\* statement needs.
HeldValues ==
  /\ \A k \in Callers :
       /\ cpc[k] = "enqueue" => arg[k] \in 1..MaxLoops
       /\ cpc[k] = "setstate" => arg[k] \in ClientStatuses
       /\ cpc[k] # "idle" => conn[k] \in Conns
  /\ \A d \in Drains :
       /\ dpc[d] \in {"close", "closed"} => res[d] \in {200, 499}
       /\ dpc[d] \in {"catch", "caught", "complete"} => res[d] \in Terminal

\* Rows exist exactly up to the last id.
RowsAreDense == \A i \in LoopIds : loopStatus[i] = NoRow <=> i > lastId

\* A sequence is taken from the counter once: by a row, or by a caller that has
\* not stored its row yet.
SequencesTaken ==
  /\ \A i \in LoopIds : loopStatus[i] # NoRow => loopSequence[i] < nextLoop
  /\ \A k \in Callers : cpc[k] = "enqueue" =>
       /\ arg[k] < nextLoop
       /\ \A i \in LoopIds : loopStatus[i] # NoRow => loopSequence[i] # arg[k]
  /\ \A k, l \in Callers :
       cpc[k] = "enqueue" /\ cpc[l] = "enqueue" /\ arg[k] = arg[l] => k = l

TypeInv == TypeOK /\ HeldValues
QueueInv == ExclusiveExecution /\ RowsAreDense /\ ClosedInOrder
SeqInv == SequencesUnique /\ SequencesTaken

IndInv == TypeInv /\ QueueInv /\ SeqInv /\ StatusFollowsLoop

\* Which statuses are of which kind, so that the sets need not be expanded below.
LEMMA Statuses ==
  /\ Terminal \subseteq RunStatus /\ {200, 499, 500} \subseteq LoopStatus
  /\ Terminal \subseteq LoopStatus
  /\ {100, 102, 200, 499, 500} \subseteq RunStatus
  /\ {NoRow, 100, 102} \subseteq LoopStatus
  /\ {200, 499, 500} \subseteq Terminal
  /\ {NoRow, 100, 102} \cap Terminal = {}
BY DEF Terminal, RunStatus, LoopStatus, NoRow

LEMMA InitInv == Init => IndInv
<1> SUFFICES ASSUME Init
             PROVE  IndInv
  OBVIOUS
<1>1. TypeOK
  <2>1. /\ loopStatus \in [LoopIds -> LoopStatus] /\ loopSequence \in [LoopIds -> 0..MaxLoops]
        /\ runStatus \in RunStatus
    BY BoundAssumption, Statuses DEF Init
  <2>2. /\ cur \in [Drains -> 0..MaxLoops] /\ iter \in [Drains -> 0..MaxTurns]
        /\ res \in [Drains -> RunStatus \cup {0}]
    BY BoundAssumption DEF Init, NoRow
  <2>3. /\ dpc \in [Drains -> DrainPc] /\ cpc \in [Callers -> CallerPc]
        /\ arg \in [Callers -> RunStatus \cup (0..MaxLoops)]
    BY BoundAssumption DEF Init, DrainPc, CallerPc
  <2>4. /\ nextLoop \in 1..(MaxLoops + 1) /\ lastId \in 0..MaxLoops
    BY BoundAssumption DEF Init
  <2>5. /\ aborted \in [Drains -> BOOLEAN]
        /\ entry \in [Conns -> Drains \cup {NoDrain}] /\ home \in [Drains -> Conns \cup {NoConn}]
        /\ conn \in [Callers -> Conns \cup {NoConn}]
        /\ op \in [Callers -> {"none", "run", "inject", "set"}]
    BY DEF Init
  <2> QED
    BY <2>1, <2>2, <2>3, <2>4, <2>5 DEF TypeOK
<1>2. HeldValues
  BY DEF Init, HeldValues
<1>3. QueueInv
  BY DEF Init, QueueInv, ExclusiveExecution, Executing, RunningIds, RowsAreDense,
         ClosedInOrder, LoopIds, NoRow
<1>4. SeqInv /\ StatusFollowsLoop
  BY DEF Init, SeqInv, SequencesUnique, SequencesTaken, StatusFollowsLoop
<1> QED
  BY <1>1, <1>2, <1>3, <1>4 DEF IndInv, TypeInv

-----------------------------------------------------------------------------
(* Types, and the values held between two awaits *)

LEMMA TypeOKDrain ==
  ASSUME TypeOK, HeldValues, NEW d \in Drains, DrainStep(d)
  PROVE  TypeOK'
<1> USE DEF TypeOK, Step, Leave, DrainPc, callerVars, tableVars, entryVars
<1>1. CASE ClaimNone(d)
  BY <1>1 DEF ClaimNone
<1>2. CASE ClaimRejected(d)
  BY <1>2 DEF ClaimRejected
<1>3. CASE \E i \in LoopIds : Claim(d, i)
  BY <1>3, BoundAssumption, Statuses DEF Claim, ClaimRow, LoopIds
<1>4. CASE BeginLoop(d)
  BY <1>4 DEF BeginLoop
<1>5. CASE StartLoop(d)
  BY <1>5, Statuses DEF StartLoop
<1>6. CASE LoopReady(d)
  BY <1>6 DEF LoopReady
<1>7. CASE LoopTop(d)
  BY <1>7, BoundAssumption, Statuses DEF LoopTop
<1>8. CASE TurnDone(d)
  BY <1>8, Statuses DEF TurnDone
<1>9. CASE TurnThrows(d)
  BY <1>9, Statuses DEF TurnThrows, Caught
<1>10. CASE CloseLoop(d)
  BY <1>10, Statuses DEF CloseLoop, Caught, HeldValues
<1>11. CASE CatchLoop(d) \/ TellListeners(d)
  BY <1>11, Statuses DEF CatchLoop, TellListeners, Caught, HeldValues
<1>12. CASE CompleteLoop(d)
  <2>1. loopStatus' \in [LoopIds -> LoopStatus] /\ dpc' \in [Drains -> DrainPc]
    BY <1>12, Statuses DEF CompleteLoop, CloseRow, HeldValues
  <2>2. /\ cur' \in [Drains -> 0..MaxLoops] /\ iter' \in [Drains -> 0..MaxTurns]
        /\ res' \in [Drains -> RunStatus \cup {0}]
    BY <1>12, BoundAssumption DEF CompleteLoop, CloseRow, NoRow
  <2> QED
    BY <1>12, <2>1, <2>2 DEF CompleteLoop, CloseRow
<1>13. CASE FailLoop(d)
  <2>1. loopStatus' \in [LoopIds -> LoopStatus] /\ dpc' \in [Drains -> DrainPc]
    BY <1>13, Statuses DEF FailLoop, CloseRow
  <2>2. /\ cur' \in [Drains -> 0..MaxLoops] /\ iter' \in [Drains -> 0..MaxTurns]
        /\ res' \in [Drains -> RunStatus \cup {0}]
    BY <1>13, BoundAssumption DEF FailLoop, CloseRow, NoRow
  <2> QED
    BY <1>13, <2>1, <2>2 DEF FailLoop, CloseRow
<1>14. CASE DrainEnds(d)
  BY <1>14 DEF DrainEnds
<1> QED
  BY <1>1, <1>2, <1>3, <1>4, <1>5, <1>6, <1>7, <1>8, <1>9, <1>10, <1>11, <1>12,
       <1>13, <1>14 DEF DrainStep

LEMMA TypeOKCaller ==
  ASSUME TypeOK, HeldValues, NEW k \in Callers, BeginCall(k) \/ CallerStep(k)
  PROVE  TypeOK'
<1> USE DEF TypeOK, CallerPc, Call, Continue, Return, Signal, Active, tableVars, drainVars,
            entryVars
<1>1. CASE \E c \in Conns : CallRun(k, c)
  BY <1>1, BoundAssumption DEF CallRun
<1>2. CASE \E c \in Conns : CallInject(k, c)
  BY <1>2, BoundAssumption DEF CallInject
<1>3. CASE \E c \in Conns : CallSetState(k, c)
  <2>1. PICK c \in Conns : CallSetState(k, c)
    BY <1>3
  <2>2. PICK s \in ClientStatuses :
          /\ Call(k, c, "set", "setstate", s)
          /\ (IF s = 499 THEN Signal(c) ELSE UNCHANGED entryVars)
    BY <2>1 DEF CallSetState
  <2>3. aborted' \in [Drains -> BOOLEAN] /\ UNCHANGED <<entry, home>>
    <3>1. CASE s = 499
      BY <2>2, <3>1
    <3>2. CASE s # 499
      BY <2>2, <3>2
    <3> QED
      BY <3>1, <3>2
  <2> QED
    BY <2>1, <2>2, <2>3, ClientAssumption DEF CallSetState
<1>4. CASE TakeNumber(k)
  BY <1>4, BoundAssumption DEF TakeNumber
<1>5. CASE EnqueueRun(k)
  <2>1. conn[k] \in Conns
    BY <1>5 DEF EnqueueRun, HeldValues
  <2>2. /\ dpc' \in [Drains -> DrainPc] /\ aborted' \in [Drains -> BOOLEAN]
        /\ entry' \in [Conns -> Drains \cup {NoDrain}] /\ home' \in [Drains -> Conns \cup {NoConn}]
    BY <1>5, <2>1 DEF EnqueueRun, StartDrain, Step, DrainPc
  <2>3. arg' \in [Callers -> RunStatus \cup (0..MaxLoops)]
    BY <1>5, BoundAssumption DEF EnqueueRun
  <2>4. /\ lastId' \in 0..MaxLoops /\ loopStatus' \in [LoopIds -> LoopStatus]
        /\ loopSequence' \in [LoopIds -> 0..MaxLoops]
    BY <1>5, BoundAssumption, Statuses DEF EnqueueRun, EnqueueRow, HeldValues, LoopIds
  <2> QED
    BY <1>5, <2>2, <2>3, <2>4 DEF EnqueueRun, EnqueueRow
<1>6. CASE EnqueueInject(k)
  <2>1. /\ lastId' \in 0..MaxLoops /\ loopStatus' \in [LoopIds -> LoopStatus]
        /\ loopSequence' \in [LoopIds -> 0..MaxLoops]
    BY <1>6, BoundAssumption, Statuses DEF EnqueueInject, EnqueueRow, HeldValues, LoopIds
  <2> QED
    BY <1>6, <2>1, BoundAssumption DEF EnqueueInject, EnqueueRow
<1>7. CASE CurrentLoop(k)
  BY <1>7, BoundAssumption DEF CurrentLoop
<1>8. CASE WritePrompt(k)
  BY <1>8, BoundAssumption DEF WritePrompt
<1>9. CASE StartInjected(k)
  <2>1. conn[k] \in Conns
    BY <1>9 DEF StartInjected, HeldValues
  <2>2. /\ dpc' \in [Drains -> DrainPc] /\ aborted' \in [Drains -> BOOLEAN]
        /\ entry' \in [Conns -> Drains \cup {NoDrain}] /\ home' \in [Drains -> Conns \cup {NoConn}]
    BY <1>9, <2>1 DEF StartInjected, StartDrain, Step, DrainPc
  <2>3. arg' \in [Callers -> RunStatus \cup (0..MaxLoops)]
    BY <1>9, BoundAssumption DEF StartInjected
  <2> QED
    BY <1>9, <2>2, <2>3 DEF StartInjected
<1>10. CASE WriteState(k)
  BY <1>10, BoundAssumption, ClientAssumption DEF WriteState, HeldValues
<1> QED
  BY <1>1, <1>2, <1>3, <1>4, <1>5, <1>6, <1>7, <1>8, <1>9, <1>10 DEF BeginCall, CallerStep

LEMMA HeldDrain ==
  ASSUME TypeOK, HeldValues, NEW d \in Drains, DrainStep(d)
  PROVE  HeldValues'
<1> USE DEF TypeOK, HeldValues, Step, Leave, callerVars, tableVars
<1>1. CASE ClaimNone(d)
  BY <1>1 DEF ClaimNone
<1>2. CASE ClaimRejected(d)
  BY <1>2 DEF ClaimRejected
<1>3. CASE \E i \in LoopIds : Claim(d, i)
  BY <1>3 DEF Claim, ClaimRow
<1>4. CASE BeginLoop(d)
  BY <1>4 DEF BeginLoop
<1>5. CASE StartLoop(d)
  BY <1>5 DEF StartLoop
<1>6. CASE LoopReady(d)
  BY <1>6 DEF LoopReady
<1>7. CASE LoopTop(d)
  BY <1>7, Statuses DEF LoopTop
<1>8. CASE TurnDone(d)
  BY <1>8, Statuses DEF TurnDone
<1>9. CASE TurnThrows(d)
  BY <1>9, Statuses DEF TurnThrows, Caught
<1>10. CASE CloseLoop(d)
  BY <1>10, Statuses DEF CloseLoop, Caught
<1>11. CASE CatchLoop(d) \/ TellListeners(d)
  BY <1>11, Statuses DEF CatchLoop, TellListeners, Caught
<1>12. CASE CompleteLoop(d)
  BY <1>12 DEF CompleteLoop, CloseRow
<1>13. CASE FailLoop(d)
  BY <1>13 DEF FailLoop, CloseRow
<1>14. CASE DrainEnds(d)
  BY <1>14 DEF DrainEnds
<1> QED
  BY <1>1, <1>2, <1>3, <1>4, <1>5, <1>6, <1>7, <1>8, <1>9, <1>10, <1>11, <1>12,
       <1>13, <1>14 DEF DrainStep

LEMMA HeldCaller ==
  ASSUME TypeOK, HeldValues, NEW k \in Callers, BeginCall(k) \/ CallerStep(k)
  PROVE  HeldValues'
<1> USE DEF TypeOK, HeldValues, Call, Continue, Return, tableVars, drainVars
<1>1. CASE \E c \in Conns : CallRun(k, c)
  BY <1>1 DEF CallRun
<1>2. CASE \E c \in Conns : CallInject(k, c)
  BY <1>2 DEF CallInject
<1>3. CASE \E c \in Conns : CallSetState(k, c)
  BY <1>3 DEF CallSetState
<1>4. CASE TakeNumber(k)
  BY <1>4, BoundAssumption DEF TakeNumber
<1>5. CASE EnqueueRun(k)
  BY <1>5 DEF EnqueueRun, EnqueueRow, StartDrain, Step
<1>6. CASE EnqueueInject(k)
  BY <1>6 DEF EnqueueInject, EnqueueRow
<1>7. CASE CurrentLoop(k)
  BY <1>7 DEF CurrentLoop
<1>8. CASE WritePrompt(k) \/ StartInjected(k)
  BY <1>8 DEF WritePrompt, StartInjected, StartDrain, Step
<1>9. CASE WriteState(k)
  BY <1>9 DEF WriteState
<1> QED
  BY <1>1, <1>2, <1>3, <1>4, <1>5, <1>6, <1>7, <1>8, <1>9 DEF BeginCall, CallerStep

LEMMA TypeStep ==
  ASSUME TypeInv, [Next]_vars
  PROVE  TypeInv'
<1> USE DEF TypeInv
<1>1. CASE \E d \in Drains : DrainStep(d)
  BY <1>1, TypeOKDrain, HeldDrain
<1>2. CASE \E k \in Callers : BeginCall(k) \/ CallerStep(k)
  BY <1>2, TypeOKCaller, HeldCaller
<1>3. CASE \E c \in Conns : Disconnect(c)
  BY <1>3 DEF Disconnect, Signal, TypeOK, HeldValues, tableVars, callerVars
<1>4. CASE Crash
  <2>1. runStatus' \in RunStatus /\ loopStatus' \in [LoopIds -> LoopStatus]
    BY <1>4, Statuses DEF Crash, Reboot, TypeOK
  <2>2. TypeOK'
    BY <1>4, <2>1, BoundAssumption DEF Crash, Reboot, TypeOK, DrainPc, CallerPc, NoRow
  <2>3. HeldValues'
    BY <1>4 DEF Crash, Reboot, HeldValues
  <2> QED
    BY <2>2, <2>3
<1>5. CASE UNCHANGED vars
  BY <1>5 DEF vars, tableVars, drainVars, entryVars, callerVars, TypeOK, HeldValues
<1> QED
  BY <1>1, <1>2, <1>3, <1>4, <1>5 DEF Next, StepNext

-----------------------------------------------------------------------------
(* The queue: what a step does to rows and drains *)

\* The step changes no row, and no drain starts or stops executing a loop.
QueueKept ==
  /\ UNCHANGED <<loopStatus, lastId, cur>>
  /\ \A d \in Drains : Executing(d)' <=> Executing(d)

\* The step stores a row, and no drain starts or stops executing a loop.
Enqueues(k) ==
  /\ EnqueueRow(k)
  /\ \A d \in Drains : Executing(d)' <=> Executing(d)

\* Starting a drain: it waits for its claim; the others go on as they were.
LEMMA StartKeeps ==
  ASSUME TypeOK, NEW c, StartDrain(c)
  PROVE  \A d \in Drains : (Executing(d)' <=> Executing(d)) /\ dpc'[d] \in {dpc[d], "claim"}
BY DEF StartDrain, Step, Executing, TypeOK

LEMMA DrainKinds ==
  ASSUME TypeOK, NEW d \in Drains, DrainStep(d)
  PROVE  \/ QueueKept
         \/ \E i \in LoopIds : Claim(d, i)
         \/ CompleteLoop(d) \/ FailLoop(d)
<1> USE DEF QueueKept, Executing, TypeOK, Step, Leave, tableVars
<1>1. CASE ClaimNone(d)
  BY <1>1 DEF ClaimNone
<1>2. CASE ClaimRejected(d)
  BY <1>2 DEF ClaimRejected
<1>3. CASE BeginLoop(d)
  BY <1>3 DEF BeginLoop
<1>4. CASE StartLoop(d)
  BY <1>4 DEF StartLoop
<1>5. CASE LoopReady(d)
  BY <1>5 DEF LoopReady
<1>6. CASE LoopTop(d)
  BY <1>6 DEF LoopTop
<1>7. CASE TurnDone(d)
  BY <1>7 DEF TurnDone
<1>8. CASE TurnThrows(d)
  BY <1>8 DEF TurnThrows, Caught
<1>9. CASE CloseLoop(d)
  BY <1>9 DEF CloseLoop, Caught
<1>10. CASE CatchLoop(d) \/ TellListeners(d)
  BY <1>10 DEF CatchLoop, TellListeners, Caught
<1>11. CASE DrainEnds(d)
  BY <1>11 DEF DrainEnds
<1> QED
  BY <1>1, <1>2, <1>3, <1>4, <1>5, <1>6, <1>7, <1>8, <1>9, <1>10, <1>11 DEF
       DrainStep

LEMMA StepKinds ==
  ASSUME TypeOK, [Next]_vars
  PROVE  \/ QueueKept
         \/ \E d \in Drains : (\E i \in LoopIds : Claim(d, i)) \/ CompleteLoop(d) \/
              FailLoop(d)
         \/ \E k \in Callers : Enqueues(k)
         \/ Crash
<1>1. CASE \E d \in Drains : DrainStep(d)
  BY <1>1, DrainKinds
<1>2. ASSUME NEW k \in Callers, BeginCall(k)
      PROVE  QueueKept
  BY <1>2 DEF BeginCall, CallRun, CallInject, CallSetState, QueueKept, Executing,
       tableVars,
              drainVars
<1>3. ASSUME NEW k \in Callers, CallerStep(k)
      PROVE  QueueKept \/ Enqueues(k)
  <2>1. CASE StartInjected(k)
    BY <2>1, StartKeeps DEF StartInjected, QueueKept, tableVars
  <2>2. CASE TakeNumber(k) \/ CurrentLoop(k) \/ WritePrompt(k) \/ WriteState(k)
    BY <2>2 DEF TakeNumber, CurrentLoop, WritePrompt, WriteState, QueueKept, Executing,
                tableVars, drainVars
  <2>3. CASE EnqueueRun(k)
    BY <2>3, StartKeeps DEF EnqueueRun, Enqueues, EnqueueRow, Executing
  <2>4. CASE EnqueueInject(k)
    BY <2>4 DEF EnqueueInject, Enqueues, EnqueueRow, Executing
  <2> QED
    BY <1>3, <2>1, <2>2, <2>3, <2>4 DEF CallerStep
<1>4. CASE \E c \in Conns : Disconnect(c)
  BY <1>4 DEF Disconnect, QueueKept, Executing, tableVars
<1>5. CASE UNCHANGED vars
  BY <1>5 DEF vars, QueueKept, Executing, tableVars, drainVars
<1> QED
  BY <1>1, <1>2, <1>3, <1>4, <1>5 DEF Next, StepNext

LEMMA QueueKeptStep ==
  ASSUME QueueInv, QueueKept
  PROVE  QueueInv'
BY DEF QueueInv, QueueKept, ExclusiveExecution, RunningIds, RowsAreDense, ClosedInOrder

LEMMA QueueClaim ==
  ASSUME TypeOK, QueueInv, NEW d \in Drains, NEW i \in LoopIds, Claim(d, i)
  PROVE  QueueInv'
<1> USE DEF QueueInv, Claim, ClaimRow, Pending, TypeOK
<1>1. \A e \in Drains : ~Executing(e)
  BY BoundAssumption DEF ExclusiveExecution, RunningIds, LoopIds, NoRow
<1>2. \A e \in Drains : Executing(e)' <=> e = d
  BY <1>1 DEF Executing, Step
<1>3. /\ loopStatus' = [loopStatus EXCEPT ![i] = 102] /\ loopStatus[i] = 100
      /\ cur'[d] = i /\ \A e \in Drains : e # d => cur'[e] = cur[e]
  OBVIOUS
<1>4. RunningIds' = {i}
  BY <1>3 DEF RunningIds
<1>5. ExclusiveExecution'
  BY <1>1, <1>2, <1>3, <1>4, BoundAssumption DEF ExclusiveExecution, LoopIds, NoRow
<1>6. RowsAreDense'
  BY <1>3 DEF RowsAreDense, NoRow
<1>7. ClosedInOrder'
  <2>1. \A j \in LoopIds : loopStatus[j] # 102 /\ (loopStatus[j] = 100 => i <= j)
    BY DEF RunningIds
  <2>2. LoopIds \subseteq Int
    BY BoundAssumption DEF LoopIds
  <2> QED
    BY <1>3, <2>1, <2>2 DEF ClosedInOrder, NoRow
<1> QED
  BY <1>5, <1>6, <1>7

LEMMA QueueClose ==
  ASSUME TypeOK, HeldValues, QueueInv, NEW d \in Drains, CompleteLoop(d) \/ FailLoop(d)
  PROVE  QueueInv'
<1> USE DEF QueueInv, TypeOK
<1>1. PICK s \in Terminal : loopStatus' = [loopStatus EXCEPT ![cur[d]] = s]
  BY DEF CompleteLoop, FailLoop, CloseRow, Step, Leave, HeldValues, Terminal
<1> s \notin {NoRow, 100, 102}
  BY DEF Terminal, NoRow
<1>2. /\ Executing(d) /\ ~Executing(d)' /\ cur' = [cur EXCEPT ![d] = NoRow]
      /\ \A e \in Drains : e # d => (Executing(e)' <=> Executing(e))
      /\ lastId' = lastId
  BY DEF CompleteLoop, FailLoop, CloseRow, Step, Leave, Executing
<1>3. cur[d] \in LoopIds /\ loopStatus[cur[d]] = 102
  BY <1>2, BoundAssumption DEF ExclusiveExecution, LoopIds, NoRow
<1>4. \A e \in Drains : (Executing(e) => e = d) /\ ~Executing(e)'
  BY <1>2 DEF ExclusiveExecution
<1>5. \A j \in LoopIds : loopStatus[j] = 102 => j = cur[d]
  <2>1. \A j \in LoopIds : loopStatus[j] = 102 => \E e \in Drains : cur[e] = j
    BY DEF ExclusiveExecution, RunningIds
  <2>2. \A e \in Drains : cur[e] \in LoopIds => e = d
    BY <1>4, BoundAssumption DEF ExclusiveExecution, LoopIds, NoRow
  <2> QED
    BY <2>1, <2>2
<1>6. ExclusiveExecution'
  <2>1. RunningIds' = {}
    BY <1>1, <1>3, <1>5 DEF RunningIds
  <2> QED
    BY <1>2, <1>4, <2>1 DEF ExclusiveExecution
<1>7. RowsAreDense'
  BY <1>1, <1>2, <1>3 DEF RowsAreDense, NoRow
<1>8. ClosedInOrder'
  <2>1. \A j \in LoopIds : j < cur[d] => loopStatus[j] # 100
    BY <1>3 DEF ClosedInOrder, NoRow
  <2> QED
    BY <1>1, <1>3, <1>5, <2>1 DEF ClosedInOrder, NoRow
<1> QED
  BY <1>6, <1>7, <1>8

LEMMA QueueEnqueue ==
  ASSUME TypeOK, QueueInv, NEW k \in Callers, Enqueues(k)
  PROVE  QueueInv'
<1> USE BoundAssumption DEF QueueInv, TypeOK, Enqueues, EnqueueRow
<1>1. /\ lastId + 1 \in LoopIds /\ loopStatus[lastId + 1] = NoRow
      /\ loopStatus' = [loopStatus EXCEPT ![lastId + 1] = 100]
      /\ \A d \in Drains : (Executing(d)' <=> Executing(d)) /\ cur'[d] = cur[d]
  BY DEF RowsAreDense, LoopIds
<1>2. RunningIds' = RunningIds
  BY <1>1 DEF RunningIds, NoRow
<1>3. ExclusiveExecution'
  <2>1. \A d \in Drains : Executing(d) => loopStatus'[cur[d]] = 102
    BY <1>1 DEF ExclusiveExecution, LoopIds, NoRow
  <2> QED
    BY <1>1, <1>2, <2>1 DEF ExclusiveExecution
<1>4. RowsAreDense'
  BY <1>1 DEF RowsAreDense, LoopIds, NoRow
<1>5. ClosedInOrder'
  BY <1>1 DEF ClosedInOrder, RowsAreDense, LoopIds
<1> QED
  BY <1>3, <1>4, <1>5

LEMMA QueueCrash ==
  ASSUME TypeOK, QueueInv, Crash
  PROVE  QueueInv'
<1> USE DEF QueueInv, Crash, Reboot
<1>1. \A i \in LoopIds :
        loopStatus'[i] = (IF loopStatus[i] = 102 THEN 100 ELSE loopStatus[i])
  BY DEF RunningIds
<1>2. ExclusiveExecution'
  BY <1>1 DEF ExclusiveExecution, Executing, RunningIds, NoRow
<1>3. RowsAreDense'
  BY <1>1 DEF RowsAreDense, NoRow
<1>4. ClosedInOrder'
  BY <1>1 DEF ClosedInOrder, NoRow
<1> QED
  BY <1>2, <1>3, <1>4

LEMMA QueueStep ==
  ASSUME TypeInv, QueueInv, [Next]_vars
  PROVE  QueueInv'
BY StepKinds, QueueKeptStep, QueueClaim, QueueClose, QueueEnqueue, QueueCrash DEF TypeInv

-----------------------------------------------------------------------------
(* Sequences *)

\* A step that takes no sequence and stores none.
LEMMA SeqKept ==
  ASSUME SeqInv, UNCHANGED <<nextLoop, loopSequence>>,
         \A i \in LoopIds : loopStatus'[i] # NoRow => loopStatus[i] # NoRow,
         \A k \in Callers : cpc'[k] = "enqueue" => cpc[k] = "enqueue" /\ arg'[k] = arg[k]
  PROVE  SeqInv'
BY DEF SeqInv, SequencesUnique, SequencesTaken

LEMMA SeqDrain ==
  ASSUME TypeOK, QueueInv, SeqInv, NEW d \in Drains, DrainStep(d)
  PROVE  SeqInv'
<1>1. UNCHANGED <<nextLoop, loopSequence, cpc, arg>>
  BY DEF DrainStep, ClaimNone, ClaimRejected, Claim, ClaimRow, BeginLoop, StartLoop, LoopReady,
         LoopTop, TurnDone, TurnThrows, Caught, CloseLoop, CatchLoop, TellListeners, CompleteLoop,
         FailLoop, CloseRow, DrainEnds, tableVars, callerVars
<1>2. \A i \in LoopIds : loopStatus'[i] # NoRow => loopStatus[i] # NoRow
  <2>1. CASE QueueKept
    BY <2>1 DEF QueueKept
  <2>2. CASE \E i \in LoopIds : Claim(d, i)
    BY <2>2 DEF Claim, ClaimRow, Pending, TypeOK, NoRow
  <2>3. CASE CompleteLoop(d) \/ FailLoop(d)
    <3>1. Executing(d) /\ loopStatus[cur[d]] = 102
      BY <2>3 DEF CompleteLoop, FailLoop, CloseRow, Step, Leave, Executing, QueueInv,
           ExclusiveExecution
    <3> QED
      BY <2>3, <3>1 DEF CompleteLoop, FailLoop, CloseRow, TypeOK, NoRow
  <2> QED
    BY <2>1, <2>2, <2>3, DrainKinds
<1> QED
  BY <1>1, <1>2, SeqKept

LEMMA SeqCaller ==
  ASSUME TypeInv, QueueInv, SeqInv, NEW k \in Callers, BeginCall(k) \/ CallerStep(k)
  PROVE  SeqInv'
<1> USE DEF TypeInv, TypeOK, tableVars, drainVars
<1>1. CASE BeginCall(k)
  <2>1. /\ UNCHANGED <<nextLoop, loopSequence, loopStatus>>
        /\ \A l \in Callers :
             cpc'[l] = "enqueue" => cpc[l] = "enqueue" /\ arg'[l] = arg[l]
    BY <1>1 DEF BeginCall, CallRun, CallInject, CallSetState, Call
  <2> QED
    BY <2>1, SeqKept
<1>2. CASE TakeNumber(k)
  <2>1. SequencesUnique'
    BY <1>2 DEF TakeNumber, SeqInv, SequencesUnique
  <2>2. /\ nextLoop' = nextLoop + 1 /\ nextLoop \in Int
        /\ arg'[k] = nextLoop /\ UNCHANGED <<loopStatus, loopSequence>>
        /\ \A l \in Callers :
             l # k => (cpc'[l] = "enqueue" <=> cpc[l] = "enqueue") /\ arg'[l] = arg[l]
    BY <1>2, BoundAssumption DEF TakeNumber, Continue
  <2>3. \A i \in LoopIds : loopSequence[i] \in Int
    BY BoundAssumption
  <2>4. \A l \in Callers : cpc[l] = "enqueue" => arg[l] \in Int
    BY BoundAssumption DEF HeldValues
  <2>5. SequencesTaken'
    BY <2>2, <2>3, <2>4 DEF SeqInv, SequencesTaken
  <2> QED
    BY <2>1, <2>5 DEF SeqInv
<1>3. CASE EnqueueRun(k) \/ EnqueueInject(k)
  <2>1. /\ cpc[k] = "enqueue" /\ nextLoop' = nextLoop
        /\ \A l \in Callers : cpc'[l] = "enqueue" => l # k /\ cpc[l] = "enqueue"
                                                     /\ arg'[l] = arg[l]
    BY <1>3 DEF EnqueueRun, EnqueueInject, EnqueueRow, Continue, Return
  <2>2. /\ lastId + 1 \in LoopIds
        /\ loopStatus' = [loopStatus EXCEPT ![lastId + 1] = 100]
        /\ loopSequence' = [loopSequence EXCEPT ![lastId + 1] = arg[k]]
    BY <1>3, BoundAssumption DEF EnqueueRun, EnqueueInject, EnqueueRow, LoopIds
  <2>3. SequencesUnique'
    BY <2>1, <2>2 DEF SeqInv, SequencesUnique, SequencesTaken, NoRow
  <2>4. SequencesTaken'
    BY <2>1, <2>2 DEF SeqInv, SequencesTaken, NoRow
  <2> QED
    BY <2>3, <2>4 DEF SeqInv
<1>4. CASE CurrentLoop(k) \/ WritePrompt(k) \/ StartInjected(k) \/ WriteState(k)
  <2>1. /\ UNCHANGED <<nextLoop, loopSequence, loopStatus>>
        /\ \A l \in Callers :
             cpc'[l] = "enqueue" => cpc[l] = "enqueue" /\ arg'[l] = arg[l]
    BY <1>4 DEF CurrentLoop, WritePrompt, StartInjected, WriteState, Return, Continue
  <2> QED
    BY <2>1, SeqKept
<1> QED
  BY <1>1, <1>2, <1>3, <1>4 DEF CallerStep

LEMMA SeqStep ==
  ASSUME TypeInv, QueueInv, SeqInv, [Next]_vars
  PROVE  SeqInv'
<1>1. CASE \E d \in Drains : DrainStep(d)
  BY <1>1, SeqDrain DEF TypeInv
<1>2. CASE \E k \in Callers : BeginCall(k) \/ CallerStep(k)
  BY <1>2, SeqCaller
<1>3. CASE (\E c \in Conns : Disconnect(c)) \/ UNCHANGED vars
  BY <1>3, SeqKept DEF Disconnect, vars, tableVars, drainVars, callerVars
<1>4. CASE Crash
  <2>1. \A i \in LoopIds : loopStatus'[i] # NoRow => loopStatus[i] # NoRow
    BY <1>4 DEF Crash, Reboot, RunningIds, NoRow
  <2>2. /\ UNCHANGED <<nextLoop, loopSequence>>
        /\ \A k \in Callers : cpc'[k] = "idle"
    BY <1>4 DEF Crash, Reboot
  <2> QED
    BY <2>1, <2>2, SeqKept
<1> QED
  BY <1>1, <1>2, <1>3, <1>4 DEF Next, StepNext

-----------------------------------------------------------------------------
(* The status of the run *)

\* An executing drain is the only one; all other drains leave runs.status alone.
LEMMA StatusDrain ==
  ASSUME TypeInv, QueueInv, StatusFollowsLoop, ClientStatuses = {},
         NEW d \in Drains, DrainStep(d)
  PROVE  StatusFollowsLoop'
<1>1. SUFFICES ASSUME NEW e \in Drains
               PROVE  /\ dpc'[e] \in {"ready", "top", "turn", "close"} => runStatus' = 102
                      /\ dpc'[e] \in {"closed", "caught", "complete"} => runStatus' = res'[e]
                      /\ dpc'[e] = "catch" => runStatus' \in {102, 200, 499}
  BY DEF StatusFollowsLoop
<1>2. /\ dpc[e] \in {"ready", "top", "turn", "close"} => runStatus = 102
      /\ dpc[e] \in {"closed", "caught", "complete"} => runStatus = res[e]
      /\ dpc[e] = "catch" => runStatus \in {102, 200, 499}
      /\ dpc[d] \in {"ready", "top", "turn", "close"} => runStatus = 102
      /\ dpc[d] \in {"closed", "caught", "complete"} => runStatus = res[d]
      /\ dpc[d] = "catch" => runStatus \in {102, 200, 499}
  BY DEF StatusFollowsLoop
<1>3. Executing(d) /\ Executing(e) => d = e
  BY DEF QueueInv, ExclusiveExecution
<1> USE DEF TypeInv, TypeOK, Step, Leave, Executing
<1>4. CASE ClaimNone(d) \/ ClaimRejected(d) \/ (\E i \in LoopIds : Claim(d, i)) \/
     DrainEnds(d)
  BY <1>2, <1>4 DEF ClaimNone, ClaimRejected, Claim, ClaimRow, DrainEnds
<1>5. CASE BeginLoop(d) \/ StartLoop(d)
  BY <1>2, <1>3, <1>5 DEF BeginLoop, StartLoop
<1>6. CASE LoopReady(d) \/ LoopTop(d)
  BY <1>2, <1>3, <1>6 DEF LoopReady, LoopTop
<1>7. CASE TurnDone(d) \/ TurnThrows(d)
  BY <1>2, <1>3, <1>7 DEF TurnDone, TurnThrows, Caught
<1>8. CASE CloseLoop(d)
  BY <1>2, <1>3, <1>8 DEF CloseLoop, Caught
<1>9. CASE CatchLoop(d)
  BY <1>2, <1>3, <1>9 DEF CatchLoop
<1>10. CASE TellListeners(d)
  <2>1. dpc[d] = "closed" => res[d] \in {200, 499}
    BY DEF HeldValues
  <2> QED
    BY <1>2, <1>3, <1>10, <2>1 DEF TellListeners, Caught
<1>11. CASE CompleteLoop(d) \/ FailLoop(d)
  BY <1>2, <1>3, <1>11 DEF CompleteLoop, FailLoop, CloseRow
<1> QED
  BY <1>4, <1>5, <1>6, <1>7, <1>8, <1>9, <1>10, <1>11 DEF DrainStep

LEMMA StatusStep ==
  ASSUME TypeInv, QueueInv, StatusFollowsLoop, [Next]_vars
  PROVE  StatusFollowsLoop'
<1> SUFFICES ASSUME ClientStatuses = {}
             PROVE  StatusFollowsLoop'
  BY DEF StatusFollowsLoop
<1>1. CASE \E d \in Drains : DrainStep(d)
  BY <1>1, StatusDrain
<1>2. ASSUME NEW k \in Callers, BeginCall(k) \/ CallerStep(k)
      PROVE  StatusFollowsLoop'
  <2>1. UNCHANGED <<runStatus, res>>
    BY <1>2 DEF BeginCall, CallerStep, CallRun, CallInject, CallSetState, TakeNumber,
                EnqueueRun, EnqueueInject, EnqueueRow, CurrentLoop, WritePrompt, StartInjected,
                     WriteState,
                Return, Continue, TypeInv, HeldValues, drainVars
  <2>2. \A d \in Drains : dpc'[d] \in {dpc[d], "claim"}
    BY <1>2, StartKeeps
       DEF BeginCall, CallerStep, CallRun, CallInject, CallSetState, TakeNumber, EnqueueRun,
           EnqueueInject, CurrentLoop, WritePrompt, StartInjected, WriteState, drainVars, TypeInv
  <2> QED
    BY <2>1, <2>2 DEF StatusFollowsLoop
<1>3. CASE (\E c \in Conns : Disconnect(c)) \/ UNCHANGED vars
  BY <1>3 DEF Disconnect, vars, drainVars, StatusFollowsLoop
<1>4. CASE Crash
  BY <1>4 DEF Crash, Reboot, StatusFollowsLoop
<1> QED
  BY <1>1, <1>2, <1>3, <1>4 DEF Next, StepNext

-----------------------------------------------------------------------------
(* Theorems *)

LEMMA IndInvStep == IndInv /\ [Next]_vars => IndInv'
BY TypeStep, QueueStep, SeqStep, StatusStep DEF IndInv

\* The inductive invariant holds in every state of every behaviour.
THEOREM Invariance == Spec => []IndInv
<1>1. Init => IndInv
  BY InitInv
<1>2. IndInv /\ [Next]_vars => IndInv'
  BY IndInvStep
<1> QED
  BY <1>1, <1>2, PTL DEF Spec

\* Every variable keeps its type.
THEOREM TypeCorrect == Spec => []TypeOK
<1>1. IndInv => TypeOK
  BY DEF IndInv, TypeInv
<1> QED
  BY <1>1, Invariance, PTL

\* One drain executes at a time, the row that is 102, and every 102 row has its drain.
THEOREM Exclusive == Spec => []ExclusiveExecution
<1>1. IndInv => ExclusiveExecution
  BY DEF IndInv, QueueInv
<1> QED
  BY <1>1, Invariance, PTL

\* Loops are closed in the order of their ids.
THEOREM Fifo == Spec => []ClosedInOrder
<1>1. IndInv => ClosedInOrder
  BY DEF IndInv, QueueInv
<1> QED
  BY <1>1, Invariance, PTL

\* No two rows get the same sequence.
THEOREM UniqueSequences == Spec => []SequencesUnique
<1>1. IndInv => SequencesUnique
  BY DEF IndInv, SeqInv
<1> QED
  BY <1>1, Invariance, PTL

\* Without client status writes, runs.status is what the executing loop makes it.
THEOREM StatusAgrees == Spec => []StatusFollowsLoop
<1>1. IndInv => StatusFollowsLoop
  BY DEF IndInv
<1> QED
  BY <1>1, Invariance, PTL

LEMMA FinalStep ==
  ASSUME IndInv, [Next]_vars, NEW i \in LoopIds, loopStatus[i] \in Terminal
  PROVE  loopStatus'[i] = loopStatus[i]
<1> USE DEF IndInv, TypeInv, TypeOK
<1> loopStatus[i] \notin {NoRow, 100, 102}
  BY DEF Terminal, NoRow
<1>1. CASE QueueKept
  BY <1>1 DEF QueueKept
<1>2. ASSUME NEW d \in Drains, NEW j \in LoopIds, Claim(d, j)
      PROVE  loopStatus'[i] = loopStatus[i]
  BY <1>2 DEF Claim, ClaimRow, Pending
<1>3. ASSUME NEW d \in Drains, CompleteLoop(d) \/ FailLoop(d)
      PROVE  loopStatus'[i] = loopStatus[i]
  <2>1. Executing(d) /\ loopStatus[cur[d]] = 102
    BY <1>3 DEF CompleteLoop, FailLoop, CloseRow, Step, Leave, Executing, QueueInv,
         ExclusiveExecution
  <2> QED
    BY <1>3, <2>1 DEF CompleteLoop, FailLoop, CloseRow
<1>4. ASSUME NEW k \in Callers, Enqueues(k)
      PROVE  loopStatus'[i] = loopStatus[i]
  <2>1. i # lastId + 1
    BY BoundAssumption DEF QueueInv, RowsAreDense, LoopIds
  <2> QED
    BY <1>4, <2>1 DEF Enqueues, EnqueueRow
<1>5. CASE Crash
  BY <1>5 DEF Crash, Reboot, RunningIds
<1> QED
  BY <1>1, <1>2, <1>3, <1>4, <1>5, StepKinds

\* A closed loop stays as it was closed, restarts of the service included.
THEOREM Final == Spec => TerminalIsFinal
<1>1. IndInv /\ [Next]_vars
        => [\A i \in LoopIds : loopStatus[i] \in Terminal
                                 => loopStatus'[i] = loopStatus[i]]_vars
  BY FinalStep
<1> QED
  BY <1>1, Invariance, PTL DEF Spec, TerminalIsFinal

LEMMA PromptStates ==
  /\ PromptState(NoRow) = "absent" /\ PromptState(100) = "queued"
  /\ PromptState(102) = "running"
  /\ \A st \in LoopStatus :
       /\ PromptState(st) = "queued" => st = 100
       /\ PromptState(st) = "running" => st = 102
  /\ \A st \in Terminal : PromptState(st) = "closed"
BY DEF PromptState, Terminal, LoopStatus, NoRow

LEMMA QueueStepRefined ==
  ASSUME IndInv, [Next]_vars
  PROVE  [Queue!QueueNext]_Queue!queueVars
<1> DEFINE state == [i \in LoopIds |-> PromptState(loopStatus[i])]
<1> USE DEF IndInv, TypeInv, TypeOK
<1>1. /\ Queue!Queued = {i \in LoopIds : loopStatus[i] = 100}
      /\ Queue!Running = {i \in LoopIds : loopStatus[i] = 102}
  BY PromptStates DEF Queue!Queued, Queue!Running
<1>2. CASE QueueKept
  BY <1>2 DEF QueueKept, Queue!queueVars
<1>3. ASSUME NEW d \in Drains, NEW i \in LoopIds, Claim(d, i)
      PROVE  Queue!Take(i)
  <2>1. state' = [state EXCEPT ![i] = "running"]
    BY <1>3, PromptStates DEF Claim, ClaimRow
  <2> QED
    BY <1>1, <1>3, <2>1 DEF Claim, ClaimRow, Pending, RunningIds, Queue!Take
<1>4. ASSUME NEW d \in Drains, CompleteLoop(d) \/ FailLoop(d)
      PROVE  \E i \in LoopIds : Queue!Close(i)
  <2>1. cur[d] \in LoopIds /\ loopStatus[cur[d]] = 102
    BY <1>4, BoundAssumption
       DEF CompleteLoop, FailLoop, CloseRow, Step, Leave, Executing, QueueInv,
           ExclusiveExecution,
            LoopIds,
           NoRow
  <2>2. PICK st \in Terminal : loopStatus' = [loopStatus EXCEPT ![cur[d]] = st]
    BY <1>4 DEF CompleteLoop, FailLoop, CloseRow, Step, Leave, HeldValues, Terminal
  <2>3. PromptState(st) = "closed"
    BY PromptStates
  <2>4. state' = [state EXCEPT ![cur[d]] = "closed"]
    BY <2>1, <2>2, <2>3
  <2> QED
    BY <1>1, <1>4, <2>1, <2>4 DEF CompleteLoop, FailLoop, CloseRow, Queue!Close
<1>5. ASSUME NEW k \in Callers, Enqueues(k)
      PROVE  Queue!Submit
  <2>1. lastId + 1 \in LoopIds
    BY <1>5, BoundAssumption DEF Enqueues, EnqueueRow, LoopIds
  <2>2. state' = [state EXCEPT ![lastId + 1] = "queued"]
    BY <1>5, <2>1, PromptStates DEF Enqueues, EnqueueRow
  <2> QED
    BY <1>5, <2>1, <2>2 DEF Enqueues, EnqueueRow, Queue!Submit
<1>6. CASE Crash
  <2>1. state' = [i \in LoopIds |-> IF i \in Queue!Running THEN "queued" ELSE state[i]]
    BY <1>1, <1>6, PromptStates DEF Crash, Reboot, RunningIds
  <2>2. lastId' = lastId
    BY <1>6 DEF Crash, Reboot
  <2> QED
    BY <2>1, <2>2 DEF Queue!Restart, Queue!QueueNext
<1> QED
  BY <1>2, <1>3, <1>4, <1>5, <1>6, StepKinds DEF Queue!QueueNext

\* The drains of all connections, together with restarts, implement PromptQueue.
THEOREM Refinement == Spec => ImplementsQueue
<1>1. Init => Queue!QueueInit
  BY PromptStates DEF Init, Queue!QueueInit
<1>2. IndInv /\ [Next]_vars => [Queue!QueueNext]_Queue!queueVars
  BY QueueStepRefined
<1> QED
  BY <1>1, <1>2, Invariance, PTL DEF Spec, ImplementsQueue, Queue!QueueSpec

-----------------------------------------------------------------------------
(* Bounded steps: what is left of ClaimedIsClosed and WaitingIsClaimed without fairness *)

\* The most steps of its own that a drain needs until the row of its loop is closed.
StepsLeft(d) ==
  2 * (MaxTurns - iter[d]) +
    CASE dpc[d] = "begin" -> 9
      [] dpc[d] = "start" -> 8
      [] dpc[d] \in {"ready", "turn"} -> 7
      [] dpc[d] = "top" -> 6
      [] dpc[d] = "close" -> 5
      [] dpc[d] = "closed" -> 4
      [] dpc[d] = "catch" -> 3
      [] dpc[d] = "caught" -> 2
      [] OTHER -> 1

\* A loop that was claimed is closed within 2 * MaxTurns + 9 steps of its drain, whatever
\* aborts, clients' status writes and exceptions come between: every step of the drain closes
\* the row or leaves fewer to take, nobody else moves the drain or writes the row, and only a
\* restart puts it back.
ClosedInBoundedSteps ==
  [][\A d \in Drains : Executing(d) =>
       \/ /\ DrainStep(d)
          /\ \/ loopStatus'[cur[d]] \in Terminal
             \/ /\ cur'[d] = cur[d] /\ Executing(d)'
                /\ 0 < StepsLeft(d)' /\ StepsLeft(d)' < StepsLeft(d)
       \/ Crash
       \/ /\ UNCHANGED <<dpc[d], cur[d], iter[d]>>
          /\ loopStatus'[cur[d]] = loopStatus[cur[d]]]_vars

\* Nobody is overtaken: the open loops before a waiting one only become fewer, whichever
\* connection enqueues, claims, fails or restarts meanwhile.
NoOvertaking ==
  [][\A i, j \in LoopIds :
       loopStatus[i] = 100 /\ j < i /\ loopStatus'[j] \in {100, 102} =>
         loopStatus[j] \in {100, 102}]_vars

\* An abort holds until the drain is over: no call that comes later takes the signal back,
\* not even one that starts another drain in its place, and no turn begins under it, in
\* whichever loop the drain is by then.  (So the loops enqueued after an abort are closed
\* without a turn when the same drain claims them.)
AbortHolds ==
  [][\A d \in Drains : aborted[d] =>
       /\ aborted'[d] \/ dpc'[d] = "off"
       /\ iter'[d] <= iter[d]]_vars

LEMMA ExecutingRow ==
  ASSUME IndInv, NEW d \in Drains, Executing(d)
  PROVE  cur[d] \in LoopIds /\ loopStatus[cur[d]] = 102
BY BoundAssumption DEF IndInv, TypeInv, TypeOK, QueueInv, ExclusiveExecution, LoopIds, NoRow

\* The step of a drain that executes: the row is closed, or fewer steps are left.
LEMMA OwnStep ==
  ASSUME IndInv, NEW d \in Drains, Executing(d), DrainStep(d)
  PROVE  \/ loopStatus'[cur[d]] \in Terminal
         \/ /\ cur'[d] = cur[d] /\ Executing(d)'
            /\ 0 < StepsLeft(d)' /\ StepsLeft(d)' < StepsLeft(d)
<1> USE BoundAssumption DEF IndInv, TypeInv, TypeOK, Step, Leave, Executing, StepsLeft
<1>1. CASE ClaimNone(d) \/ ClaimRejected(d) \/ (\E i \in LoopIds : Claim(d, i))
             \/ DrainEnds(d)
  BY <1>1 DEF ClaimNone, ClaimRejected, Claim, ClaimRow, DrainEnds
<1>2. CASE BeginLoop(d) \/ StartLoop(d) \/ LoopReady(d)
  BY <1>2 DEF BeginLoop, StartLoop, LoopReady
<1>3. CASE LoopTop(d)
  BY <1>3 DEF LoopTop
<1>4. CASE TurnDone(d) \/ TurnThrows(d)
  BY <1>4 DEF TurnDone, TurnThrows, Caught
<1>5. CASE CloseLoop(d) \/ CatchLoop(d) \/ TellListeners(d)
  BY <1>5 DEF CloseLoop, CatchLoop, TellListeners, Caught
<1>6. CASE CompleteLoop(d) \/ FailLoop(d)
  BY <1>6, ExecutingRow DEF CompleteLoop, FailLoop, CloseRow, HeldValues, Terminal
<1> QED
  BY <1>1, <1>2, <1>3, <1>4, <1>5, <1>6 DEF DrainStep

\* What a drain does to the other drains, and to the entries when it is over.
LEMMA OtherDrains ==
  ASSUME TypeOK, NEW e \in Drains, DrainStep(e)
  PROVE  /\ \A d \in Drains \ {e} : UNCHANGED <<dpc[d], cur[d], iter[d], home[d], aborted[d]>>
         /\ \/ dpc'[e] # "off" /\ UNCHANGED <<entry, home, aborted>>
            \/ dpc'[e] = "off" /\ ~aborted'[e] /\ entry' = [entry EXCEPT ![home[e]] = NoDrain]
<1> USE DEF TypeOK, Step, Leave, entryVars, callerVars, tableVars
<1>1. CASE ClaimNone(e) \/ ClaimRejected(e) \/ (\E i \in LoopIds : Claim(e, i)) \/ DrainEnds(e)
  BY <1>1 DEF ClaimNone, ClaimRejected, Claim, ClaimRow, DrainEnds
<1>2. CASE BeginLoop(e) \/ StartLoop(e) \/ LoopReady(e) \/ LoopTop(e)
  BY <1>2 DEF BeginLoop, StartLoop, LoopReady, LoopTop
<1>3. CASE TurnDone(e) \/ TurnThrows(e) \/ CloseLoop(e)
  BY <1>3 DEF TurnDone, TurnThrows, CloseLoop, Caught
<1>4. CASE CatchLoop(e) \/ TellListeners(e)
  BY <1>4 DEF CatchLoop, TellListeners, Caught
<1>5. CASE CompleteLoop(e) \/ FailLoop(e)
  BY <1>5 DEF CompleteLoop, FailLoop, CloseRow
<1> QED
  BY <1>1, <1>2, <1>3, <1>4, <1>5 DEF DrainStep

\* A call may start a drain that was not there.
Starts(c, d) ==
  /\ dpc[d] = "off" /\ dpc' = [dpc EXCEPT ![d] = "claim"]
  /\ entry' = [entry EXCEPT ![c] = d] /\ home' = [home EXCEPT ![d] = c]
  /\ UNCHANGED aborted

\* What calls, disconnections and stuttering do to drains: iterations are left alone, a drain
\* is started, or those that connections have entries for are signalled.
LEMMA CallsAndDrains ==
  ASSUME TypeInv,
         \/ \E k \in Callers : BeginCall(k) \/ CallerStep(k)
         \/ \E c \in Conns : Disconnect(c)
         \/ UNCHANGED vars
  PROVE  /\ UNCHANGED <<cur, iter>>
         /\ \/ UNCHANGED <<dpc, entry, home, aborted>>
            \/ UNCHANGED dpc /\ \E c \in Conns : Signal(c)
            \/ \E c \in Conns, d \in Drains : Starts(c, d)
<1> USE DEF TypeInv, TypeOK, tableVars, drainVars, entryVars
<1>1. ASSUME NEW k \in Callers, BeginCall(k)
      PROVE  /\ UNCHANGED <<cur, iter, dpc>>
             /\ UNCHANGED <<entry, home, aborted>> \/ \E c \in Conns : Signal(c)
  <2>1. PICK c \in Conns : CallRun(k, c) \/ CallInject(k, c) \/ CallSetState(k, c)
    BY <1>1 DEF BeginCall
  <2>2. CASE CallRun(k, c) \/ CallInject(k, c)
    BY <2>2 DEF CallRun, CallInject
  <2>3. CASE CallSetState(k, c)
    <3>1. Signal(c) \/ UNCHANGED entryVars
      BY <2>3 DEF CallSetState
    <3> QED
      BY <2>3, <3>1 DEF CallSetState
  <2> QED
    BY <2>1, <2>2, <2>3
<1>2. ASSUME NEW k \in Callers, CallerStep(k)
      PROVE  /\ UNCHANGED <<cur, iter>>
             /\ \/ UNCHANGED <<dpc, entry, home, aborted>>
                \/ \E c \in Conns, d \in Drains : Starts(c, d)
  <2>1. CASE EnqueueRun(k) \/ StartInjected(k)
    <3>1. conn[k] \in Conns
      BY <2>1 DEF HeldValues, EnqueueRun, StartInjected, Return, Continue
    <3>2. StartDrain(conn[k]) \/ UNCHANGED <<dpc, entryVars>>
      BY <2>1 DEF EnqueueRun, StartInjected
    <3>3. StartDrain(conn[k]) => \E d \in Drains : Starts(conn[k], d)
      BY DEF StartDrain, Step, Starts
    <3> QED
      BY <2>1, <3>1, <3>2, <3>3 DEF EnqueueRun, EnqueueRow, StartInjected
  <2>2. CASE TakeNumber(k) \/ EnqueueInject(k) \/ CurrentLoop(k) \/ WritePrompt(k) \/ WriteState(k)
    BY <2>2 DEF TakeNumber, EnqueueInject, EnqueueRow, CurrentLoop, WritePrompt, WriteState
  <2> QED
    BY <1>2, <2>1, <2>2 DEF CallerStep
<1>3. CASE (\E c \in Conns : Disconnect(c)) \/ UNCHANGED vars
  BY <1>3 DEF Disconnect, vars
<1> QED
  BY <1>1, <1>2, <1>3

LEMMA BoundedStep ==
  ASSUME IndInv, [Next]_vars, NEW d \in Drains, Executing(d)
  PROVE  \/ /\ DrainStep(d)
            /\ \/ loopStatus'[cur[d]] \in Terminal
               \/ /\ cur'[d] = cur[d] /\ Executing(d)'
                  /\ 0 < StepsLeft(d)' /\ StepsLeft(d)' < StepsLeft(d)
         \/ Crash
         \/ /\ UNCHANGED <<dpc[d], cur[d], iter[d]>>
            /\ loopStatus'[cur[d]] = loopStatus[cur[d]]
<1>1. CASE DrainStep(d)
  BY <1>1, OwnStep
<1>2. ASSUME ~DrainStep(d), ~Crash
      PROVE  /\ UNCHANGED <<dpc[d], cur[d], iter[d]>>
             /\ loopStatus'[cur[d]] = loopStatus[cur[d]]
  <2>1. cur[d] \in LoopIds /\ loopStatus[cur[d]] = 102
    BY ExecutingRow
  <2>2. ASSUME NEW e \in Drains, DrainStep(e)
        PROVE  UNCHANGED <<dpc[d], cur[d], iter[d]>> /\ QueueKept
    <3>1. e # d
      BY <1>2, <2>2
    <3>2. ~\E i \in LoopIds : Claim(e, i)
      BY <2>1 DEF Claim, RunningIds
    <3>3. ~(CompleteLoop(e) \/ FailLoop(e))
      BY <3>1 DEF CompleteLoop, FailLoop, Step, Leave, Executing, IndInv, QueueInv,
                  ExclusiveExecution
    <3> QED
      BY <2>2, <3>1, <3>2, <3>3, DrainKinds, OtherDrains DEF IndInv, TypeInv
  <2>3. CASE \E e \in Drains : DrainStep(e)
    BY <2>2, <2>3 DEF QueueKept
  <2>4. CASE ~\E e \in Drains : DrainStep(e)
    <3>1. UNCHANGED <<dpc[d], cur[d], iter[d]>>
      <4>1. /\ UNCHANGED <<cur, iter>>
            /\ UNCHANGED dpc \/ \E c \in Conns, e \in Drains : Starts(c, e)
        BY <1>2, <2>4, CallsAndDrains DEF IndInv, Next, StepNext
      <4> QED
        BY <4>1 DEF Starts, Executing, IndInv, TypeInv, TypeOK
    <3>2. QueueKept \/ \E k \in Callers : Enqueues(k)
      BY <1>2, <2>4, StepKinds DEF IndInv, TypeInv, DrainStep
    <3>3. ASSUME NEW k \in Callers, Enqueues(k)
          PROVE  loopStatus'[cur[d]] = loopStatus[cur[d]]
      <4>1. cur[d] # lastId + 1
        BY <2>1, BoundAssumption DEF IndInv, TypeInv, TypeOK, QueueInv, RowsAreDense, LoopIds,
                                     NoRow
      <4> QED
        BY <3>3, <4>1 DEF Enqueues, EnqueueRow, IndInv, TypeInv, TypeOK
    <3> QED
      BY <3>1, <3>2, <3>3 DEF QueueKept
  <2> QED
    BY <2>3, <2>4
<1> QED
  BY <1>1, <1>2

\* A claimed loop is closed within a bounded number of steps of its drain.
THEOREM BoundedClosing == Spec => ClosedInBoundedSteps
<1>1. IndInv /\ [Next]_vars
        => [\A d \in Drains : Executing(d) =>
              \/ /\ DrainStep(d)
                 /\ \/ loopStatus'[cur[d]] \in Terminal
                    \/ /\ cur'[d] = cur[d] /\ Executing(d)'
                       /\ 0 < StepsLeft(d)' /\ StepsLeft(d)' < StepsLeft(d)
              \/ Crash
              \/ /\ UNCHANGED <<dpc[d], cur[d], iter[d]>>
                 /\ loopStatus'[cur[d]] = loopStatus[cur[d]]]_vars
  BY BoundedStep
<1> QED
  BY <1>1, Invariance, PTL DEF Spec, ClosedInBoundedSteps

LEMMA OvertakingStep ==
  ASSUME IndInv, [Next]_vars, NEW i \in LoopIds, NEW j \in LoopIds,
         loopStatus[i] = 100, j < i, loopStatus'[j] \in {100, 102}
  PROVE  loopStatus[j] \in {100, 102}
<1> USE DEF IndInv, TypeInv, TypeOK
<1>1. CASE QueueKept
  BY <1>1 DEF QueueKept
<1>2. ASSUME NEW d \in Drains, NEW l \in LoopIds, Claim(d, l)
      PROVE  loopStatus[j] \in {100, 102}
  BY <1>2 DEF Claim, ClaimRow, Pending
<1>3. ASSUME NEW d \in Drains, CompleteLoop(d) \/ FailLoop(d)
      PROVE  loopStatus[j] \in {100, 102}
  <2>1. PICK s \in Terminal : loopStatus' = [loopStatus EXCEPT ![cur[d]] = s]
    BY <1>3 DEF CompleteLoop, FailLoop, CloseRow, Step, Leave, HeldValues, Terminal
  <2> QED
    BY <2>1 DEF Terminal
<1>4. ASSUME NEW k \in Callers, Enqueues(k)
      PROVE  loopStatus[j] \in {100, 102}
  <2>1. j # lastId + 1
    <3>1. ~(i > lastId)
      BY DEF QueueInv, RowsAreDense, NoRow
    <3>2. i \in Int /\ j \in Int /\ lastId \in Int
      BY BoundAssumption DEF LoopIds
    <3> QED
      BY <3>1, <3>2
  <2> QED
    BY <1>4, <2>1 DEF Enqueues, EnqueueRow
<1>5. CASE Crash
  BY <1>5 DEF Crash, Reboot, RunningIds
<1> QED
  BY <1>1, <1>2, <1>3, <1>4, <1>5, StepKinds

\* The loops before a waiting one only become fewer.
THEOREM NotOvertaken == Spec => NoOvertaking
<1>1. IndInv /\ [Next]_vars
        => [\A i, j \in LoopIds :
              loopStatus[i] = 100 /\ j < i /\ loopStatus'[j] \in {100, 102} =>
                loopStatus[j] \in {100, 102}]_vars
  BY OvertakingStep
<1> QED
  BY <1>1, Invariance, PTL DEF Spec, NoOvertaking

-----------------------------------------------------------------------------
(* Aborts *)

\* An entry is that of a drain of the connection that is under way (though one under way may
\* have none), and only a drain under way has a signal that is set.
EntriesAreLive ==
  /\ \A c \in Conns : entry[c] # NoDrain => dpc[entry[c]] # "off" /\ home[entry[c]] = c
  /\ \A d \in Drains : aborted[d] => dpc[d] # "off"

LEMMA EntriesStep ==
  ASSUME TypeInv, EntriesAreLive, [Next]_vars
  PROVE  EntriesAreLive'
<1> USE ConnAssumption DEF TypeInv, TypeOK, EntriesAreLive
<1>1. ASSUME NEW e \in Drains, DrainStep(e)
      PROVE  EntriesAreLive'
  <2>1. /\ \A d \in Drains \ {e} : UNCHANGED <<dpc[d], home[d], aborted[d]>>
        /\ \/ dpc'[e] # "off" /\ UNCHANGED <<entry, home, aborted>>
           \/ dpc'[e] = "off" /\ ~aborted'[e] /\ entry' = [entry EXCEPT ![home[e]] = NoDrain]
    BY <1>1, OtherDrains
  <2>2. \A c \in Conns : entry'[c] # NoDrain => entry'[c] = entry[c]
    BY <2>1
  <2>3. \A c \in Conns : entry'[c] = e => dpc'[e] # "off" /\ home'[e] = home[e]
    BY <2>1, <2>2
  <2> QED
    BY <2>1, <2>2, <2>3
<1>2. CASE Crash
  BY <1>2 DEF Crash, Reboot
<1>3. CASE \/ \E k \in Callers : BeginCall(k) \/ CallerStep(k)
           \/ \E c \in Conns : Disconnect(c)
           \/ UNCHANGED vars
  <2>1. CASE UNCHANGED <<dpc, entry, home, aborted>>
    BY <2>1
  <2>2. CASE UNCHANGED dpc /\ \E c \in Conns : Signal(c)
    BY <2>2 DEF Signal
  <2>3. CASE \E c \in Conns, d \in Drains : Starts(c, d)
    BY <2>3 DEF Starts
  <2> QED
    BY <1>3, <2>1, <2>2, <2>3, CallsAndDrains
<1> QED
  BY <1>1, <1>2, <1>3 DEF Next, StepNext

LEMMA AbortStep ==
  ASSUME TypeInv, EntriesAreLive, [Next]_vars, NEW d \in Drains, aborted[d]
  PROVE  (aborted'[d] \/ dpc'[d] = "off") /\ iter'[d] <= iter[d]
<1> USE BoundAssumption DEF TypeInv, TypeOK, EntriesAreLive
<1>1. CASE DrainStep(d)
  <2>1. aborted'[d] \/ dpc'[d] = "off"
    BY <1>1, OtherDrains
  <2> USE DEF Step, Leave
  <2>2. CASE ClaimNone(d) \/ ClaimRejected(d) \/ (\E i \in LoopIds : Claim(d, i)) \/ DrainEnds(d)
    BY <2>1, <2>2 DEF ClaimNone, ClaimRejected, Claim, ClaimRow, DrainEnds
  <2>3. CASE BeginLoop(d) \/ StartLoop(d) \/ LoopReady(d) \/ LoopTop(d)
    BY <2>1, <2>3 DEF BeginLoop, StartLoop, LoopReady, LoopTop
  <2>4. CASE TurnDone(d) \/ TurnThrows(d) \/ CloseLoop(d) \/ CatchLoop(d) \/ TellListeners(d)
    BY <2>1, <2>4 DEF TurnDone, TurnThrows, CloseLoop, CatchLoop, TellListeners
  <2>5. CASE CompleteLoop(d) \/ FailLoop(d)
    BY <2>1, <2>5 DEF CompleteLoop, FailLoop, CloseRow
  <2> QED
    BY <1>1, <2>2, <2>3, <2>4, <2>5 DEF DrainStep
<1>2. CASE \E e \in Drains : e # d /\ DrainStep(e)
  BY <1>2, OtherDrains
<1>3. CASE Crash
  BY <1>3 DEF Crash, Reboot
<1>4. CASE \/ \E k \in Callers : BeginCall(k) \/ CallerStep(k)
           \/ \E c \in Conns : Disconnect(c)
           \/ UNCHANGED vars
  BY <1>4, CallsAndDrains DEF Signal, Starts
<1> QED
  BY <1>1, <1>2, <1>3, <1>4 DEF Next, StepNext

\* The signal of a drain stays set until the drain is gone, and no turn begins under it.
THEOREM AbortsHold == Spec => AbortHolds
<1>1. Init => EntriesAreLive
  BY DEF Init, EntriesAreLive
<1>2. IndInv /\ EntriesAreLive /\ [Next]_vars => EntriesAreLive'
  BY EntriesStep DEF IndInv
<1>3. IndInv /\ EntriesAreLive /\ [Next]_vars
        => [\A d \in Drains : aborted[d] =>
              /\ aborted'[d] \/ dpc'[d] = "off"
              /\ iter'[d] <= iter[d]]_vars
  BY AbortStep DEF IndInv
<1> QED
  BY <1>1, <1>2, <1>3, Invariance, PTL DEF Spec, AbortHolds
=============================================================================
