-------------------------- MODULE Proposals_proofs --------------------------
(***************************************************************************)
(* Proofs about Proposals, for any number of calls, connections and paths. *)
(* The inductive invariant IndInv says, besides the types, which rows exist *)
(* (RowsExist), that calls hold existing rows and may write an open state   *)
(* only raw (CallsHold), and where in the dispatch loop a proposal of the   *)
(* turn may still be open (Tracked): SettledBeforeNext is one instance of  *)
(* Tracked, and does not hold up on its own, since the steps from "list"   *)
(* to "next" keep it only through what pend and cur say.                   *)
(***************************************************************************)
EXTENDS Proposals, TLAPS

Looking == {"accept", "accepted", "check", "wait"}

Rows == {p \in Paths : state[p] # "none"}

RowsExist ==
  /\ stop <= last
  /\ tpc \in {"propose", "list", "pick"} \cup Looking => at <= stop
  /\ tpc = "propose" => todo >= 1 /\ last < MaxPaths /\ last + todo <= MaxPaths
  /\ \A p \in Paths : p > last => state[p] = "none"
  /\ \A p \in opened : state[p] \in Open
  /\ \A p \in Paths : state[p] = "streaming" => p \in opened
  /\ tpc \in {"pick"} \cup Looking => \A p \in pend : state[p] # "none"
  /\ tpc \in Looking => cur \in Paths /\ state[cur] # "none"

\* Recorded entries that were not refused have no row until they are dispatched.
Unwritten ==
  /\ tpc = "next" => \A p \in at..stop : p \notin refused => state[p] = "none"
  /\ tpc \in {"propose", "list", "pick"} \cup Looking =>
       \A p \in (at + 1)..stop : p \notin refused => state[p] = "none"

CallsHold ==
  \A k \in Calls :
    /\ kpc[k] \in {"resolve", "accepted"} => kpath[k] \in Rows /\ kstate[k] \in Settled
    /\ kpc[k] = "raw" => kpath[k] \in Rows /\ kstate[k] \in Open \cup Settled
    /\ kpend[k] \subseteq Rows

Tracked ==
  /\ SettledBeforeNext
  /\ tpc = "pick" =>
       \A p \in Paths : p >= first /\ state[p] \in Open => p \in pend \/ p \in opened
  /\ tpc \in Looking =>
       \A p \in Paths : p >= first /\ state[p] \in Open => p \in pend \/ p = cur \/ p \in opened

IndInv ==
  TypeOK /\ RowsExist /\ Unwritten /\ CallsHold /\ Tracked /\ NoLostWakeup

\* What SetState, the write every call ends in, does to the invariant's parts: written
\* once for the four actions that make it.
LEMMA SetStateKeeps ==
  ASSUME IndInv,
         NEW c, NEW p \in Rows, NEW s \in Open \cup Settled, SetState(c, p, s)
  PROVE  /\ state' \in [Paths -> {"none"} \cup Open \cup Settled]
         /\ opened' \subseteq Paths /\ tpc' \in TurnPc /\ missed' \in BOOLEAN
         /\ RowsExist' /\ Unwritten' /\ Tracked' /\ NoLostWakeup'
         /\ Rows \subseteq Rows'
<1> USE PathAssumption DEF SetState, Put, Open, Settled, planVars
<1>0. /\ p \in Paths /\ state[p] # "none" /\ s # "none"
      /\ p \in 1..last
  BY DEF IndInv, TypeOK, StoreOK, RowsExist, Rows, Paths
<1>1. /\ state' = [state EXCEPT ![p] = s]
      /\ state \in [Paths -> {"none"} \cup Open \cup Settled]
      /\ tpc \in TurnPc /\ missed \in BOOLEAN
  BY DEF IndInv, TypeOK, StoreOK, TurnOK, FlagsOK
<1>2. state' \in [Paths -> {"none"} \cup Open \cup Settled]
  BY <1>1, <1>0
<1>3. \A q \in Paths : state'[q] = IF q = p THEN s ELSE state[q]
  BY <1>1, <1>0
<1>4. tpc' = tpc \/ (tpc = "wait" /\ tpc' = "pick" /\ cur = p)
  BY DEF Wake
<1>5. opened' \subseteq Paths /\ tpc' \in TurnPc /\ missed' \in BOOLEAN
  BY <1>0, <1>1, <1>4 DEF IndInv, TypeOK, StoreOK, TurnPc
<1>6. RowsExist'
  BY <1>0, <1>3, <1>4 DEF IndInv, TypeOK, StoreOK, TurnOK, RowsExist, Looking, Paths
<1>9. Unwritten' /\ Rows \subseteq Rows'
  BY <1>0, <1>3, <1>4 DEF IndInv, TypeOK, StoreOK, TurnOK, RowsExist, Unwritten, Looking,
     Paths, Rows
<1>7. Tracked'
  BY <1>0, <1>3, <1>4 DEF IndInv, TypeOK, StoreOK, TurnOK, Tracked, SettledBeforeNext, Looking
<1>8. NoLostWakeup'
  <2> SUFFICES ASSUME tpc' = "wait", state'[cur'] \in Settled PROVE missed'
    BY DEF NoLostWakeup
  <2>1. tpc = "wait" /\ cur' = cur /\ cur \in Paths
    BY <1>4 DEF IndInv, RowsExist, Looking
  <2>2. CASE cur = p
    BY <2>1, <2>2 DEF Wake
  <2>3. CASE cur # p
    BY <2>1, <2>3, <1>3 DEF IndInv, NoLostWakeup
  <2> QED BY <2>2, <2>3
<1> QED BY <1>2, <1>5, <1>6, <1>7, <1>8, <1>9

\* What yolo writes is settled, and so no longer opened by a client.
LEMMA YoloPut ==
  ASSUME StoreOK, cur \in Paths, NEW s \in {"resolved", "failed"}, Put(cur, s)
  PROVE  /\ \A p \in Paths : state'[p] = IF p = cur THEN s ELSE state[p]
         /\ opened' = opened \ {cur}
         /\ s \in Settled /\ s \notin Open /\ s # "none"
BY DEF StoreOK, Put, Open, Settled

\* A turn's step keeps the types of what the turn and the store hold; calls are not
\* touched by it.
LEMMA TurnTypes == IndInv /\ (BeginTurn \/ TurnStep) => StoreOK' /\ TurnOK'
<1> SUFFICES ASSUME StoreOK, TurnOK, RowsExist, BeginTurn \/ TurnStep
             PROVE  StoreOK' /\ TurnOK'
  BY DEF IndInv, TypeOK
<1> USE PathAssumption
<1>1. CASE BeginTurn
  <2>1. PICK n \in 1..(MaxPaths - last) :
          /\ refused' \in SUBSET ((last + 1)..(last + n))
          /\ state' = [p \in Paths |-> IF p \in refused' THEN "failed" ELSE state[p]]
          /\ first' = last + 1 /\ at' = last + 1
          /\ stop' = last + n /\ last' = last + n
    BY <1>1 DEF BeginTurn
  <2>2. state' \in [Paths -> {"none"} \cup Open \cup Settled]
    BY <2>1 DEF StoreOK, Settled
  <2>3. /\ first' \in 1..(MaxPaths + 1) /\ at' \in 1..(MaxPaths + 1)
        /\ stop' \in 0..MaxPaths /\ last' \in 0..MaxPaths /\ refused' \subseteq Paths
    BY <2>1 DEF StoreOK, Paths
  <2>5. StoreOK'
    BY <1>1, <2>2, <2>3 DEF BeginTurn, StoreOK
  <2>6. /\ tpc' \in TurnPc /\ pend' \subseteq Paths /\ cur' \in 0..MaxPaths
        /\ todo' \in 0..2
    BY <1>1 DEF BeginTurn, TurnPc
  <2> QED BY <2>3, <2>5, <2>6 DEF TurnOK
<1>2. CASE SkipRefused
  BY <1>2 DEF SkipRefused, Advance, StoreOK, TurnOK, TurnPc, storeVars, planVars, restVars
<1>3. CASE AbortEntry
  <2>1. /\ at <= stop /\ at' = at + 1 /\ tpc' = "next"
        /\ state' = [state EXCEPT ![at] = "failed"]
        /\ UNCHANGED <<opened, last, first, stop, refused, todo, pend, cur>>
    BY <1>3 DEF AbortEntry, Advance, planVars
  <2>2. StoreOK'
    BY <2>1 DEF StoreOK, Open, Settled
  <2>3. at' \in 1..(MaxPaths + 1)
    BY <2>1 DEF TurnOK
  <2> QED BY <2>1, <2>2, <2>3 DEF TurnOK, TurnPc
<1>4. CASE DispatchThrows
  BY <1>4 DEF DispatchThrows, CanDispatch, Advance, StoreOK, TurnOK, TurnPc, storeVars,
     planVars, restVars
<1>5. CASE Dispatch
  <2>1. PICK own \in {"none", "proposed", "resolved", "failed"}, n \in 0..2 :
          Handled(own, n)
    BY <1>5 DEF Dispatch, Propose, ProposeEach, ProposeMove, Settle
  <2>2. state' \in [Paths -> {"none"} \cup Open \cup Settled]
    BY <2>1 DEF Handled, StoreOK, Open, Settled
  <2> QED BY <2>1, <2>2 DEF Handled, StoreOK, TurnOK, TurnPc, restVars
<1>6. CASE ListUnresolved
  BY <1>6 DEF ListUnresolved, Unresolved, StoreOK, TurnOK, TurnPc, storeVars, planVars,
     restVars
<1>13. CASE ProposeNext
  <2>1. state' \in [Paths -> {"none"} \cup Open \cup Settled]
    BY <1>13 DEF ProposeNext, StoreOK, Open
  <2>2. last' \in 0..MaxPaths
    BY <1>13 DEF ProposeNext, StoreOK
  <2>3. todo' \in 0..2
    BY <1>13 DEF ProposeNext, TurnOK, RowsExist
  <2> QED BY <1>13, <2>1, <2>2, <2>3 DEF ProposeNext, StoreOK, TurnOK, TurnPc
<1>14. CASE ProposeOverflow
  BY <1>14 DEF ProposeOverflow, storeVars, StoreOK, TurnOK, TurnPc
<1>7. ASSUME NEW p \in Paths, PickProposal(p) PROVE StoreOK' /\ TurnOK'
  BY <1>7 DEF PickProposal, StoreOK, TurnOK, TurnPc, Paths, storeVars, planVars, restVars
<1>8. CASE NextEntry
  BY <1>8 DEF NextEntry, Advance, StoreOK, TurnOK, RowsExist, TurnPc, storeVars, planVars,
     restVars
<1>9. CASE YoloWrite \/ YoloAccepted
  <2>1. /\ tpc' \in TurnPc /\ cur \in Paths
        /\ UNCHANGED <<last, first, stop, refused, todo, at, pend, cur>>
    BY <1>9 DEF YoloWrite, YoloAccepted, planVars, TurnPc, RowsExist, Looking
  <2>2. CASE UNCHANGED <<state, opened>>
    BY <2>1, <2>2 DEF StoreOK, TurnOK
  <2>3. ASSUME NEW s \in {"resolved", "failed"}, Put(cur, s) PROVE StoreOK' /\ TurnOK'
    <3>1. state' = [state EXCEPT ![cur] = s] /\ s \in Settled /\ opened' = opened \ {cur}
      BY <2>1, <2>3, YoloPut DEF Put
    <3> QED BY <2>1, <3>1 DEF StoreOK, TurnOK
  <2> QED BY <1>9, <2>2, <2>3 DEF YoloWrite, YoloAccepted
<1>11. CASE YoloThrows \/ EndTurn
  BY <1>11 DEF YoloThrows, EndTurn, Idle, StoreOK, TurnOK, TurnPc, storeVars
<1>12. CASE WaitForResolution
  BY <1>12 DEF WaitForResolution, StoreOK, TurnOK, TurnPc, storeVars, planVars, restVars
<1> QED BY <1>1, <1>2, <1>3, <1>4, <1>5, <1>6, <1>7, <1>8, <1>9, <1>11, <1>12,
        <1>13, <1>14 DEF TurnStep

\* Every step keeps the flags Booleans.
LEMMA FlagTypes == FlagsOK /\ [Next]_vars => FlagsOK'
<1> SUFFICES ASSUME FlagsOK, [Next]_vars PROVE FlagsOK'
  OBVIOUS
<1> USE DEF FlagsOK
<1>1. CASE UNCHANGED vars
  BY <1>1 DEF vars, turnVars, planVars
<1>2. CASE BeginTurn
  BY <1>2, YoloAssumption DEF BeginTurn, restVars
<1>3. CASE SkipRefused
  BY <1>3 DEF SkipRefused, planVars, restVars
<1>4. CASE AbortEntry
  BY <1>4 DEF AbortEntry, planVars, restVars
<1>5. CASE DispatchThrows
  BY <1>5 DEF DispatchThrows, planVars, restVars
<1>6. CASE Dispatch
  <2>1. PICK own, n : Handled(own, n)
    BY <1>6 DEF Dispatch, Propose, ProposeEach, ProposeMove, Settle
  <2> QED BY <2>1 DEF Handled, restVars
<1>17. CASE ProposeNext
  BY <1>17 DEF ProposeNext, restVars
<1>18. CASE ProposeOverflow
  BY <1>18 DEF ProposeOverflow, restVars
<1>7. CASE ListUnresolved
  BY <1>7 DEF ListUnresolved, planVars, restVars
<1>8. ASSUME NEW p \in Paths, PickProposal(p) PROVE FlagsOK'
  BY <1>8 DEF PickProposal, planVars, restVars
<1>9. CASE NextEntry
  BY <1>9 DEF NextEntry, planVars, restVars
<1>10. CASE YoloWrite
  BY <1>10 DEF YoloWrite, planVars, restVars
<1>11. CASE YoloAccepted
  BY <1>11 DEF YoloAccepted, planVars, restVars
<1>12. CASE YoloThrows \/ EndTurn \/ Crash
  BY <1>12 DEF YoloThrows, EndTurn, Crash, Idle
<1>13. CASE WaitForResolution
  BY <1>13 DEF WaitForResolution, planVars, restVars
<1>14. CASE Abort
  BY <1>14 DEF Abort, turnVars, planVars
<1>15. ASSUME NEW k \in Calls, BeginCall(k) PROVE FlagsOK'
  <2>1. ASSUME NEW c, CallRun(k, c) PROVE FlagsOK'
    BY <2>1 DEF CallRun, turnVars, planVars
  <2>2. ASSUME NEW c, NEW p, NEW s, CallSet(k, c, p, s) PROVE FlagsOK'
    BY <2>2 DEF CallSet, turnVars, planVars
  <2> QED BY <1>15, <2>1, <2>2 DEF BeginCall
<1>16. ASSUME NEW k \in Calls, CallStep(k) PROVE FlagsOK'
  <2>1. ASSUME NEW c, NEW p, NEW s, SetState(c, p, s), UNCHANGED aborted PROVE FlagsOK'
    BY <2>1 DEF SetState, planVars
  <2>2. CASE Reject(k)
    BY <2>1, <2>2 DEF Reject
  <2>3. CASE Accept(k)
    BY <2>1, <2>3 DEF Accept
  <2>4. CASE RawWrite(k)
    <3>1. CASE UNCHANGED turnVars
      BY <2>4, <3>1 DEF RawWrite, turnVars, planVars
    <3> QED BY <2>1, <2>4, <3>1 DEF RawWrite
  <2>5. ASSUME NEW p, CancelStale(k, p) PROVE FlagsOK'
    BY <2>1, <2>5 DEF CancelStale
  <2>6. CASE CancelDone(k)
    BY <2>6 DEF CancelDone, turnVars, planVars
  <2>7. CASE Accepted(k)
    <3>1. CASE UNCHANGED turnVars
      BY <2>7, <3>1 DEF Accepted, turnVars, planVars
    <3> QED BY <2>1, <2>7, <3>1 DEF Accepted
  <2> QED BY <1>16, <2>2, <2>3, <2>4, <2>5, <2>6, <2>7 DEF CallStep
<1> QED BY <1>1, <1>2, <1>3, <1>4, <1>5, <1>6, <1>7, <1>8, <1>9, <1>10, <1>11, <1>12, <1>13,
        <1>14, <1>15, <1>16, <1>17, <1>18 DEF Next, TurnStep

\* What a call's step writes is of its type, and leaves the turn and the store so.
LEMMA CallTypes ==
  ASSUME IndInv, NEW k \in Calls, BeginCall(k) \/ CallStep(k)
  PROVE  StoreOK' /\ TurnOK' /\ CallsOK'
<1> USE PathAssumption, HomeAssumption
<1>0. StoreOK /\ TurnOK /\ CallsOK /\ CallsHold
  BY DEF IndInv, TypeOK
<1>1. ASSUME NEW c \in Conns, CallRun(k, c) PROVE StoreOK' /\ TurnOK' /\ CallsOK'
  <2>1. StoreOK' /\ TurnOK'
    BY <1>0, <1>1 DEF CallRun, storeVars, turnVars, planVars, StoreOK, TurnOK
  <2>2. CallsOK'
    BY <1>0, <1>1 DEF CallRun, Goto, Unresolved, CallsOK, CallPc
  <2> QED BY <2>1, <2>2
<1>2. ASSUME NEW c \in Conns, NEW p \in Paths, NEW s \in Open \cup Settled,
             CallSet(k, c, p, s)
      PROVE StoreOK' /\ TurnOK' /\ CallsOK'
  <2>1. StoreOK' /\ TurnOK'
    BY <1>0, <1>2 DEF CallSet, storeVars, turnVars, planVars, StoreOK, TurnOK
  <2>2. CallsOK'
    BY <1>0, <1>2 DEF CallSet, Goto, CallsOK, CallPc, Paths
  <2> QED BY <2>1, <2>2
<1>3. ASSUME NEW c, NEW p \in Rows, NEW s \in Open \cup Settled, SetState(c, p, s)
      PROVE StoreOK' /\ TurnOK'
  <2>1. /\ state' \in [Paths -> {"none"} \cup Open \cup Settled]
        /\ opened' \subseteq Paths /\ tpc' \in TurnPc
    BY <1>3, SetStateKeeps
  <2> QED BY <1>0, <1>3, <2>1 DEF SetState, planVars, StoreOK, TurnOK
<1>4. ASSUME NEW from, Return(k, from) PROVE CallsOK'
  BY <1>0, <1>4 DEF Return, Goto, CallsOK, CallPc
<1>5. CASE Reject(k)
  <2>1. kpath[k] \in Rows /\ "failed" \in Settled
    BY <1>0, <1>5 DEF Reject, Return, Goto, CallsHold, Settled
  <2> QED BY <1>3, <1>4, <1>5, <2>1 DEF Reject
<1>6. CASE Accept(k)
  <2>1. kpath[k] \in Rows /\ "resolved" \in Settled
    BY <1>0, <1>6 DEF Accept, Goto, CallsHold, Settled
  <2>2. CallsOK'
    BY <1>0, <1>6 DEF Accept, Goto, CallsOK, CallPc
  <2> QED BY <1>3, <1>6, <2>1, <2>2 DEF Accept
<1>7. CASE Accepted(k)
  <2>1. kpath[k] \in Rows /\ "resolved" \in Settled
    BY <1>0, <1>7 DEF Accepted, Return, Goto, CallsHold, Settled
  <2>2. CASE UNCHANGED <<storeVars, turnVars>>
    BY <1>0, <1>4, <1>7, <2>2 DEF Accepted, storeVars, turnVars, planVars, StoreOK, TurnOK
  <2>3. CASE SetState(kconn[k], kpath[k], "resolved")
    BY <1>3, <1>4, <1>7, <2>1, <2>3 DEF Accepted
  <2> QED BY <1>7, <2>2, <2>3 DEF Accepted
<1>8. CASE RawWrite(k)
  <2>1. kpath[k] \in Rows /\ kstate[k] \in Open \cup Settled
    BY <1>0, <1>8 DEF RawWrite, Return, Goto, CallsHold
  <2>2. CASE UNCHANGED <<storeVars, turnVars>>
    BY <1>0, <1>4, <1>8, <2>2 DEF RawWrite, storeVars, turnVars, planVars, StoreOK, TurnOK
  <2> QED BY <1>3, <1>4, <1>8, <2>1, <2>2 DEF RawWrite
<1>9. ASSUME NEW p \in Paths, CancelStale(k, p) PROVE StoreOK' /\ TurnOK' /\ CallsOK'
  <2>1. p \in Rows /\ "cancelled" \in Settled
    BY <1>0, <1>9 DEF CancelStale, CallsHold, Settled
  <2>2. CallsOK'
    BY <1>0, <1>9 DEF CancelStale, CallsOK
  <2> QED BY <1>3, <1>9, <2>1, <2>2 DEF CancelStale
<1>10. CASE CancelDone(k)
  <2>1. StoreOK' /\ TurnOK'
    BY <1>0, <1>10 DEF CancelDone, storeVars, turnVars, planVars, StoreOK, TurnOK
  <2> QED BY <1>4, <1>10, <2>1 DEF CancelDone
<1> QED BY <1>1, <1>2, <1>5, <1>6, <1>7, <1>8, <1>9, <1>10 DEF BeginCall, CallStep

\* A step of the turn keeps what the invariant says of the rows, of the proposals still
\* open and of the wait.
LEMMA TurnKeeps ==
  IndInv /\ (BeginTurn \/ TurnStep) => RowsExist' /\ Tracked' /\ NoLostWakeup'
<1> SUFFICES ASSUME StoreOK, TurnOK, RowsExist, Unwritten, Tracked, NoLostWakeup,
                    BeginTurn \/ TurnStep
             PROVE  RowsExist' /\ Tracked' /\ NoLostWakeup'
  BY DEF IndInv, TypeOK
<1> USE PathAssumption DEF Looking
<1>1. CASE BeginTurn
  <2>1. PICK n \in 1..(MaxPaths - last) :
          /\ refused' \in SUBSET ((last + 1)..(last + n))
          /\ state' = [p \in Paths |-> IF p \in refused' THEN "failed" ELSE state[p]]
          /\ first' = last + 1 /\ at' = last + 1
          /\ stop' = last + n /\ last' = last + n
    BY <1>1 DEF BeginTurn
  <2>2. tpc' = "next"
    BY <1>1 DEF BeginTurn
  <2>3. \A p \in Paths : p >= last + 1 => state'[p] \in {"none", "failed"}
    BY <2>1 DEF StoreOK, RowsExist, Paths
  <2>4. \A p \in Paths : p > last' => state'[p] = "none"
    BY <2>1 DEF StoreOK, RowsExist, Paths
  <2>5. SettledBeforeNext'
    BY <2>1, <2>3 DEF SettledBeforeNext, Open
  <2>6. opened' = opened /\ \A p \in Paths : state'[p] \in Open => state'[p] = state[p]
    BY <1>1, <2>1 DEF BeginTurn, Open
  <2>7. \A p \in opened : p \notin refused'
    BY <2>1 DEF StoreOK, RowsExist, Open, Paths
  <2>8. /\ \A p \in opened' : state'[p] \in Open
        /\ \A p \in Paths : state'[p] = "streaming" => p \in opened'
    BY <2>1, <2>6, <2>7 DEF StoreOK, RowsExist, Open
  <2> QED BY <2>1, <2>2, <2>4, <2>5, <2>8 DEF StoreOK, RowsExist, Tracked, NoLostWakeup
<1>2. CASE SkipRefused
  BY <1>2 DEF SkipRefused, Advance, storeVars, planVars, RowsExist, Tracked,
     SettledBeforeNext, NoLostWakeup
<1>3. CASE AbortEntry
  <2>1. /\ at <= stop /\ tpc = "next" /\ tpc' = "next"
        /\ state' = [state EXCEPT ![at] = "failed"]
        /\ UNCHANGED <<opened, last, first, stop>>
    BY <1>3 DEF AbortEntry, Advance, planVars
  <2>2. \A p \in Paths : state'[p] = IF p = at THEN "failed" ELSE state[p]
    BY <2>1 DEF StoreOK
  <2>3. at \notin opened
    BY <1>3 DEF AbortEntry, RowsExist, Unwritten, TurnOK, Open
  <2> QED BY <2>1, <2>2, <2>3 DEF Open, StoreOK, TurnOK, RowsExist, Tracked, SettledBeforeNext,
          NoLostWakeup, Paths
<1>4. CASE DispatchThrows
  BY <1>4 DEF DispatchThrows, CanDispatch, Advance, storeVars, planVars, RowsExist, Tracked,
     SettledBeforeNext, NoLostWakeup
<1>5. CASE Dispatch
  <2>1. PICK own \in {"none", "proposed", "resolved", "failed"}, n \in 0..2 :
          Handled(own, n)
    BY <1>5 DEF Dispatch, Propose, ProposeEach, ProposeMove, Settle
  <2>2. /\ tpc = "next" /\ at <= stop /\ at \in Paths /\ last + n <= MaxPaths
        /\ todo' = n /\ tpc' = IF n > 0 THEN "propose" ELSE "list"
        /\ at \notin opened
        /\ UNCHANGED <<opened, first, stop, at, last, pend, cur>>
    BY <2>1 DEF Handled, Unwritten, Open, CanDispatch, TurnOK, StoreOK, RowsExist, Paths
  <2>3. \A p \in Paths : state'[p] = IF p = at THEN own ELSE state[p]
    BY <2>1 DEF Handled, StoreOK
  <2>4. RowsExist' /\ NoLostWakeup'
    BY <2>2, <2>3 DEF StoreOK, TurnOK, RowsExist, NoLostWakeup, Paths
  <2>5. Tracked'
    BY <2>1, <2>2, <2>3 DEF Tracked, SettledBeforeNext, Paths
  <2> QED BY <2>4, <2>5
<1>13. CASE ProposeNext
  <2>1. /\ tpc = "propose" /\ last' = last + 1 /\ last + 1 \in Paths
        /\ todo' = todo - 1 /\ tpc' = IF todo = 1 THEN "list" ELSE "propose"
        /\ last + 1 \notin opened
        /\ UNCHANGED <<opened, first, stop, at, pend, cur>>
    BY <1>13 DEF ProposeNext, StoreOK, RowsExist, Open, Paths
  <2>2. \A p \in Paths : state'[p] = IF p = last + 1 THEN "proposed" ELSE state[p]
    BY <1>13 DEF ProposeNext, StoreOK
  <2>3. RowsExist' /\ NoLostWakeup'
    BY <2>1, <2>2 DEF StoreOK, TurnOK, RowsExist, NoLostWakeup, Paths
  <2> QED BY <2>1, <2>3 DEF Tracked, SettledBeforeNext
<1>14. CASE ProposeOverflow
  BY <1>14 DEF ProposeOverflow, storeVars, RowsExist, Tracked, SettledBeforeNext,
     NoLostWakeup
<1>6. CASE ListUnresolved
  BY <1>6 DEF ListUnresolved, Unresolved, Open, storeVars, planVars, RowsExist, Tracked,
     SettledBeforeNext, NoLostWakeup
<1>7. ASSUME NEW p \in Paths, PickProposal(p)
      PROVE RowsExist' /\ Tracked' /\ NoLostWakeup'
  BY <1>7 DEF PickProposal, storeVars, planVars, RowsExist, Tracked, SettledBeforeNext,
     NoLostWakeup
<1>8. CASE NextEntry
  BY <1>8 DEF NextEntry, Advance, storeVars, planVars, RowsExist, Tracked,
     SettledBeforeNext, NoLostWakeup
<1>9. CASE YoloWrite
  <2>1. PICK s \in {"resolved", "failed"} :
          /\ Put(cur, s)
          /\ tpc' = IF s = "resolved" THEN "accepted" ELSE "check"
    BY <1>9 DEF YoloWrite
  <2>2. /\ tpc = "accept" /\ cur \in Paths /\ state[cur] # "none"
        /\ UNCHANGED <<last, first, stop, at, pend, cur>>
    BY <1>9 DEF YoloWrite, planVars, RowsExist
  <2>3. /\ \A p \in Paths : state'[p] = IF p = cur THEN s ELSE state[p]
        /\ opened' = opened \ {cur} /\ s \notin Open /\ s # "none"
    BY <2>1, <2>2, YoloPut
  <2> QED BY <2>1, <2>2, <2>3 DEF StoreOK, TurnOK, RowsExist, Tracked, SettledBeforeNext,
          NoLostWakeup, Paths
<1>10. CASE YoloAccepted
  <2>1. /\ tpc = "accepted" /\ tpc' = "check"
        /\ cur \in Paths /\ state[cur] # "none"
        /\ UNCHANGED <<last, first, stop, at, pend, cur>>
    BY <1>10 DEF YoloAccepted, planVars, RowsExist
  <2>2. CASE UNCHANGED <<state, opened>>
    BY <2>1, <2>2 DEF RowsExist, Tracked, SettledBeforeNext, NoLostWakeup
  <2>3. CASE Put(cur, "resolved")
    <3>1. /\ \A p \in Paths : state'[p] = IF p = cur THEN "resolved" ELSE state[p]
          /\ opened' = opened \ {cur} /\ "resolved" \notin Open
      BY <2>1, <2>3, YoloPut
    <3> QED BY <2>1, <3>1 DEF StoreOK, TurnOK, RowsExist, Tracked, SettledBeforeNext,
            NoLostWakeup, Paths
  <2> QED BY <1>10, <2>2, <2>3 DEF YoloAccepted
<1>11. CASE YoloThrows \/ EndTurn
  BY <1>11 DEF YoloThrows, EndTurn, Idle, storeVars, StoreOK, RowsExist, Tracked,
     SettledBeforeNext, NoLostWakeup
<1>12. CASE WaitForResolution
  <2>1. /\ tpc = "check" /\ cur \in Paths /\ state[cur] # "none"
        /\ state[cur] \in {"none"} \cup Open \cup Settled
    BY <1>12 DEF WaitForResolution, RowsExist, StoreOK
  <2>2. \A p \in Paths : state[p] \in Open => state[p] \notin Settled
    BY DEF Open, Settled
  <2> QED BY <1>12, <2>1, <2>2 DEF WaitForResolution, storeVars, planVars, RowsExist, Tracked,
          SettledBeforeNext, NoLostWakeup
<1> QED BY <1>1, <1>2, <1>3, <1>4, <1>5, <1>6, <1>7, <1>8, <1>9, <1>10, <1>11, <1>12,
        <1>13, <1>14 DEF TurnStep


\* Dispatch comes to an entry that has no row yet and is not refused, and no row is ever
\* taken away.
LEMMA TurnRows == IndInv /\ (BeginTurn \/ TurnStep) => Unwritten' /\ Rows \subseteq Rows'
<1> SUFFICES ASSUME StoreOK, TurnOK, RowsExist, Unwritten, BeginTurn \/ TurnStep
             PROVE  Unwritten' /\ Rows \subseteq Rows'
  BY DEF IndInv, TypeOK
<1> USE PathAssumption DEF Looking, Rows
<1>1. CASE BeginTurn
  <2>1. PICK n \in 1..(MaxPaths - last) :
          /\ refused' \in SUBSET ((last + 1)..(last + n))
          /\ state' = [p \in Paths |-> IF p \in refused' THEN "failed" ELSE state[p]]
          /\ at' = last + 1 /\ stop' = last + n
    BY <1>1 DEF BeginTurn
  <2>2. tpc' = "next"
    BY <1>1 DEF BeginTurn
  <2>3. \A p \in (last + 1)..(last + n) : p \notin refused' => state'[p] = "none"
    BY <2>1 DEF StoreOK, RowsExist, Paths
  <2>4. Unwritten'
    BY <2>1, <2>2, <2>3 DEF Unwritten
  <2>5. Rows \subseteq Rows'
    BY <2>1
  <2> QED BY <2>4, <2>5
<1>2. ASSUME UNCHANGED state PROVE Rows \subseteq Rows'
  BY <1>2
<1>3. CASE SkipRefused \/ DispatchThrows
  BY <1>3 DEF SkipRefused, DispatchThrows, CanDispatch, Advance, storeVars, planVars,
     TurnOK, Unwritten
<1>4. CASE AbortEntry
  <2>1. /\ at <= stop /\ tpc = "next" /\ tpc' = "next" /\ at' = at + 1
        /\ state' = [state EXCEPT ![at] = "failed"]
        /\ UNCHANGED <<stop, refused>>
    BY <1>4 DEF AbortEntry, Advance, planVars
  <2> QED BY <2>1 DEF StoreOK, TurnOK, Unwritten
<1>5. CASE Dispatch
  <2>1. PICK own \in {"none", "proposed", "resolved", "failed"}, n \in 0..2 :
          Handled(own, n)
    BY <1>5 DEF Dispatch, Propose, ProposeEach, ProposeMove, Settle
  <2>2. /\ tpc = "next" /\ at <= stop /\ at \notin refused /\ tpc' \in {"propose", "list"}
        /\ state' = [state EXCEPT ![at] = own]
        /\ UNCHANGED <<stop, refused, at>>
    BY <2>1 DEF Handled, CanDispatch
  <2>3. state[at] = "none"
    BY <2>2 DEF TurnOK, Unwritten
  <2> QED BY <2>2, <2>3 DEF StoreOK, TurnOK, Unwritten
<1>6. CASE ProposeNext
  <2>1. /\ tpc = "propose" /\ tpc' \in {"propose", "list"}
        /\ state' = [state EXCEPT ![last + 1] = "proposed"]
        /\ UNCHANGED <<stop, refused, at>>
    BY <1>6 DEF ProposeNext
  <2> QED BY <2>1 DEF StoreOK, TurnOK, RowsExist, Unwritten
<1>7. CASE ProposeOverflow \/ NextEntry
  BY <1>7 DEF ProposeOverflow, NextEntry, Advance, storeVars, planVars, TurnOK, Unwritten
<1>8. CASE ListUnresolved \/ WaitForResolution
  BY <1>8 DEF ListUnresolved, WaitForResolution, storeVars, planVars, Unwritten
<1>9. ASSUME NEW p \in Paths, PickProposal(p) PROVE Unwritten' /\ Rows \subseteq Rows'
  BY <1>9 DEF PickProposal, storeVars, planVars, Unwritten
<1>10. CASE YoloWrite
  <2>1. PICK s \in {"resolved", "failed"} :
          /\ Put(cur, s)
          /\ tpc' = IF s = "resolved" THEN "accepted" ELSE "check"
    BY <1>10 DEF YoloWrite
  <2>2. /\ tpc = "accept" /\ cur \in Paths /\ state[cur] # "none"
        /\ UNCHANGED <<stop, at, refused>>
    BY <1>10 DEF YoloWrite, planVars, RowsExist
  <2>3. \A p \in Paths : state'[p] = IF p = cur THEN s ELSE state[p]
    BY <2>1, <2>2, YoloPut
  <2>4. Rows \subseteq Rows'
    BY <2>3
  <2>5. \A p \in (at + 1)..stop : p \in Paths
    BY DEF TurnOK, Paths
  <2> QED BY <2>1, <2>2, <2>3, <2>4, <2>5 DEF Unwritten
<1>11. CASE YoloAccepted
  <2>1. /\ tpc = "accepted" /\ tpc' = "check" /\ cur \in Paths /\ state[cur] # "none"
        /\ state' \in {state, [state EXCEPT ![cur] = "resolved"]}
        /\ UNCHANGED <<stop, at, refused>>
    BY <1>11 DEF YoloAccepted, Put, planVars, RowsExist
  <2>2. \A p \in Paths : p # cur => state'[p] = state[p]
    BY <2>1 DEF StoreOK
  <2>3. state'[cur] # "none"
    BY <2>1 DEF StoreOK
  <2>4. \A p \in (at + 1)..stop : p \in Paths
    BY DEF TurnOK, Paths
  <2> QED BY <2>1, <2>2, <2>3, <2>4 DEF Unwritten
<1>12. CASE YoloThrows \/ EndTurn
  BY <1>12 DEF YoloThrows, EndTurn, Idle, storeVars, Unwritten
<1> QED BY <1>1, <1>3, <1>4, <1>5, <1>6, <1>7, <1>8, <1>9, <1>10, <1>11, <1>12 DEF TurnStep

\* A step of a call does so too: it writes to rows that exist, and marks what it opens.
LEMMA CallKeeps ==
  ASSUME IndInv, NEW k \in Calls, BeginCall(k) \/ CallStep(k)
  PROVE  /\ RowsExist' /\ Unwritten' /\ Tracked' /\ NoLostWakeup'
         /\ Rows \subseteq Rows'
<1>1. CASE UNCHANGED <<storeVars, turnVars>>
  BY <1>1 DEF IndInv, storeVars, turnVars, planVars, RowsExist, Unwritten, Tracked,
     SettledBeforeNext, NoLostWakeup, Rows
<1>2. CASE Reject(k)
  <2>1. kpath[k] \in Rows /\ "failed" \in Settled
    BY <1>2 DEF Reject, Return, Goto, IndInv, CallsHold, Settled
  <2> QED BY <1>2, <2>1, SetStateKeeps DEF Reject
<1>3. CASE Accept(k)
  <2>1. kpath[k] \in Rows /\ "resolved" \in Settled
    BY <1>3 DEF Accept, Goto, IndInv, CallsHold, Settled
  <2> QED BY <1>3, <2>1, SetStateKeeps DEF Accept
<1>4. CASE RawWrite(k)
  <2>1. kpath[k] \in Rows /\ kstate[k] \in Open \cup Settled
    BY <1>4 DEF RawWrite, Return, Goto, IndInv, CallsHold
  <2>2. CASE UNCHANGED <<storeVars, turnVars>>
    BY <2>2 DEF storeVars, turnVars, planVars, IndInv, RowsExist, Unwritten, Tracked,
       SettledBeforeNext, NoLostWakeup, Rows
  <2> QED BY <1>4, <2>1, <2>2, SetStateKeeps DEF RawWrite
<1>5. ASSUME NEW p \in Paths, CancelStale(k, p)
      PROVE  /\ RowsExist' /\ Unwritten' /\ Tracked' /\ NoLostWakeup'
             /\ Rows \subseteq Rows'
  <2>1. p \in Rows /\ "cancelled" \in Settled
    BY <1>5 DEF CancelStale, IndInv, CallsHold, Settled
  <2> QED BY <1>5, <2>1, SetStateKeeps DEF CancelStale
<1>6. CASE Accepted(k)
  <2>1. kpath[k] \in Rows /\ "resolved" \in Settled
    BY <1>6 DEF Accepted, Return, Goto, IndInv, CallsHold, Settled
  <2>2. CASE UNCHANGED <<storeVars, turnVars>>
    BY <2>2 DEF storeVars, turnVars, planVars, IndInv, RowsExist, Unwritten, Tracked,
       SettledBeforeNext, NoLostWakeup, Rows
  <2>3. CASE SetState(kconn[k], kpath[k], "resolved")
    BY <2>1, <2>3, SetStateKeeps
  <2> QED BY <1>6, <2>2, <2>3 DEF Accepted
<1>7. CASE CancelDone(k)
  BY <1>1, <1>7 DEF CancelDone
<1>8. CASE BeginCall(k)
  BY <1>1, <1>8 DEF BeginCall, CallRun, CallSet
<1> QED BY <1>2, <1>3, <1>4, <1>5, <1>6, <1>7, <1>8 DEF CallStep

\* Whatever is in flight refers to rows that exist: rows are never taken away.
LEMMA CallsHoldStep == IndInv /\ [Next]_vars => CallsHold'
<1> SUFFICES ASSUME IndInv, CallsOK, CallsHold, [Next]_vars PROVE CallsHold'
  BY DEF IndInv, TypeOK
<1>1. ASSUME UNCHANGED callVars, Rows \subseteq Rows' PROVE CallsHold'
  BY <1>1 DEF callVars, CallsHold
<1>2. UNCHANGED state => Rows \subseteq Rows'
  BY DEF Rows
<1>3. CASE UNCHANGED vars
  BY <1>1, <1>2, <1>3 DEF vars, storeVars
<1>4. CASE BeginTurn \/ TurnStep
  <2>1. UNCHANGED callVars
    BY <1>4 DEF BeginTurn, TurnStep, SkipRefused, AbortEntry, DispatchThrows, Dispatch,
       Propose, ProposeEach, ProposeMove, Settle, Handled, ProposeNext, ProposeOverflow,
       ListUnresolved, PickProposal, NextEntry, YoloWrite, YoloAccepted, YoloThrows,
       WaitForResolution, EndTurn, restVars
  <2> QED BY <1>1, <1>4, <2>1, TurnRows
<1>6. CASE Abort
  BY <1>1, <1>2, <1>6 DEF Abort, storeVars
<1>7. CASE Crash
  BY <1>7 DEF Crash, CallsHold
<1>8. ASSUME NEW k \in Calls, BeginCall(k) \/ CallStep(k) PROVE CallsHold'
  <2>0. Rows \subseteq Rows'
    BY <1>8, CallKeeps
  <2>1. ASSUME NEW from, Return(k, from) PROVE CallsHold'
    BY <2>0, <2>1 DEF Return, Goto, CallsHold, CallsOK
  <2>2. ASSUME NEW c \in Conns, CallRun(k, c) PROVE CallsHold'
    <3>1. Unresolved \subseteq Rows
      BY DEF Unresolved, Rows
    <3> QED BY <2>0, <2>2, <3>1 DEF CallRun, Goto, CallsHold, CallsOK
  <2>3. ASSUME NEW c \in Conns, NEW p \in Paths, NEW s \in Open \cup Settled,
             CallSet(k, c, p, s)
        PROVE CallsHold'
    <3>1. p \in Rows
      BY <2>3 DEF CallSet, Rows
    <3> QED BY <2>0, <2>3, <3>1 DEF CallSet, Goto, CallsHold, CallsOK
  <2>4. CASE Accept(k)
    BY <2>0, <2>4 DEF Accept, Goto, CallsHold, CallsOK
  <2>5. ASSUME NEW p \in Paths, CancelStale(k, p) PROVE CallsHold'
    BY <2>0, <2>5 DEF CancelStale, CallsHold, CallsOK
  <2> QED BY <1>8, <2>1, <2>2, <2>3, <2>4, <2>5 DEF BeginCall, CallStep, Reject, Accepted,
          RawWrite, CancelDone
<1> QED BY <1>3, <1>4, <1>6, <1>7, <1>8 DEF Next

LEMMA Initially == Init => IndInv
<1> SUFFICES ASSUME Init PROVE IndInv
  OBVIOUS
<1>1. TypeOK
  <2>1. StoreOK /\ TurnOK /\ CallsOK
    BY PathAssumption, HomeAssumption DEF Init, StoreOK, TurnOK, CallsOK, TurnPc, CallPc
  <2>2. FlagsOK
    BY DEF Init, FlagsOK
  <2> QED BY <2>1, <2>2 DEF TypeOK
<1>2. RowsExist /\ Unwritten /\ CallsHold
  BY PathAssumption DEF Init, RowsExist, Unwritten, CallsHold, Looking
<1>3. Tracked /\ NoLostWakeup
  BY DEF Init, Tracked, SettledBeforeNext, NoLostWakeup, Looking
<1> QED BY <1>1, <1>2, <1>3 DEF IndInv

LEMMA Inductive == IndInv /\ [Next]_vars => IndInv'
<1> SUFFICES ASSUME IndInv, [Next]_vars PROVE IndInv'
  OBVIOUS
<1>1. FlagsOK' /\ CallsHold'
  BY FlagTypes, CallsHoldStep DEF IndInv, TypeOK
<1>2. CASE BeginTurn \/ TurnStep
  <2>1. UNCHANGED callVars
    BY <1>2 DEF BeginTurn, TurnStep, SkipRefused, AbortEntry, DispatchThrows, Dispatch,
       Propose, ProposeEach, ProposeMove, Settle, Handled, ProposeNext, ProposeOverflow,
       ListUnresolved, PickProposal,
       NextEntry, YoloWrite, YoloAccepted, YoloThrows, WaitForResolution, EndTurn, restVars
  <2>2. CallsOK'
    BY <2>1 DEF IndInv, TypeOK, CallsOK, callVars
  <2> QED BY <1>1, <1>2, <2>2, TurnTypes, TurnKeeps, TurnRows DEF IndInv, TypeOK
<1>3. ASSUME NEW k \in Calls, BeginCall(k) \/ CallStep(k) PROVE IndInv'
  BY <1>1, <1>3, CallTypes, CallKeeps DEF IndInv, TypeOK
<1>4. CASE UNCHANGED vars \/ Abort
  <2>1. UNCHANGED <<storeVars, turnVars, callVars>>
    BY <1>4 DEF vars, Abort
  <2>2. StoreOK' /\ TurnOK' /\ CallsOK'
    BY <2>1 DEF storeVars, turnVars, planVars, callVars, IndInv, TypeOK, StoreOK, TurnOK,
       CallsOK
  <2>3. RowsExist' /\ Unwritten' /\ Tracked' /\ NoLostWakeup'
    BY <2>1 DEF storeVars, turnVars, planVars, IndInv, RowsExist, Unwritten, Tracked,
       SettledBeforeNext, NoLostWakeup
  <2> QED BY <1>1, <2>2, <2>3 DEF IndInv, TypeOK
<1>5. CASE Crash
  <2>1. StoreOK' /\ TurnOK' /\ CallsOK'
    BY <1>5, PathAssumption, HomeAssumption DEF Crash, Idle, storeVars, IndInv, TypeOK,
       StoreOK, TurnOK, CallsOK, TurnPc, CallPc
  <2>2. RowsExist' /\ Unwritten' /\ Tracked' /\ NoLostWakeup'
    BY <1>5, PathAssumption DEF Crash, Idle, storeVars, IndInv, TypeOK, StoreOK, RowsExist,
       Unwritten, Tracked, SettledBeforeNext, NoLostWakeup, Looking
  <2> QED BY <1>1, <2>1, <2>2 DEF IndInv, TypeOK
<1> QED BY <1>2, <1>3, <1>4, <1>5 DEF Next

THEOREM Invariance == Spec => []IndInv
<1>1. Init => IndInv
  BY Initially
<1>2. IndInv /\ [Next]_vars => IndInv'
  BY Inductive
<1> QED BY <1>1, <1>2, PTL DEF Spec

\* What each variable holds is of its type, in every reachable state.
THEOREM TypeCorrect == Spec => []TypeOK
<1>1. IndInv => TypeOK
  BY DEF IndInv
<1> QED BY <1>1, Invariance, PTL

\* TurnExecutor.execute does not dispatch an entry while a proposal made by an earlier
\* one of the turn is open, however many proposals a command makes and whatever calls,
\* cancellations and yolo writes come in between.
THEOREM NextAfterSettled == Spec => []SettledBeforeNext
<1>1. IndInv => SettledBeforeNext
  BY DEF IndInv, Tracked
<1> QED BY <1>1, Invariance, PTL

\* waitForResolution misses no write of its own connection's Entries: a turn that waits
\* for a settled proposal does so only because another connection settled it.
THEOREM WakesInTime == Spec => []NoLostWakeup
<1>1. IndInv => NoLostWakeup
  BY DEF IndInv
<1> QED BY <1>1, Invariance, PTL

-----------------------------------------------------------------------------
(* What the turn does under yolo, and how far it has come *)

\* A turn is at one of the entries it recorded, or past the last.
Placed == tpc # "idle" => first <= at /\ at <= stop + 1

\* In a yolo run waitForResolution finds a proposal unsettled only if a client has written it
\* open since the yolo plugin settled it: answers, cleanups and second writes of any
\* connection never make the turn wait.  Once it waits, only another connection can have
\* settled it without waking it.
HeldByClientOnly ==
  /\ yolo /\ tpc = "wait" => cur \in opened \/ missed
  /\ yolo /\ tpc \in {"accepted", "check"} => state[cur] \in Settled \/ cur \in opened

\* The stages of an entry, and of one proposal that is looked at, last one first.
Phase(pc) == CASE pc = "next" -> 3 [] pc = "propose" -> 2 [] pc = "list" -> 1 [] OTHER -> 0
Look(pc)  == CASE pc = "accept" -> 4 [] pc = "accepted" -> 3 [] pc = "check" -> 2
               [] pc = "wait" -> 1 [] OTHER -> 0

\* The turn has come nearer to its end, in the lexicographic order of its position, the stage
\* of its entry, the proposals left to write or to look at and the stage of the current one.
Nearer ==
  \/ at' > at
  \/ /\ at' = at
     /\ \/ Phase(tpc') < Phase(tpc)
        \/ tpc = "propose" /\ tpc' = "propose" /\ todo' < todo
        \/ /\ Phase(tpc) = 0 /\ Phase(tpc') = 0
           /\ \/ pend' \subseteq pend /\ pend' # pend
              \/ pend' = pend /\ Look(tpc') < Look(tpc)

\* Nothing that clients, cleanups or other connections do throws a turn back: every step of
\* the turn brings it nearer to its end, and every other step leaves it where it is or wakes
\* it.  So a turn takes boundedly many steps, and only a wait can keep it from its end.
TurnAdvances ==
  [][tpc # "idle" /\ tpc' # "idle" =>
       /\ stop' = stop /\ at' <= stop + 1
       /\ Nearer \/ UNCHANGED <<tpc, at, todo, pend>>
       /\ TurnStep => Nearer]_vars

\* This step is the raw write by which a client's `set` puts p into an open state.
Reopens(p) ==
  \E k \in Calls :
    kpc[k] = "raw" /\ kpc'[k] = "idle" /\ kpath[k] = p /\ kstate[k] \in Open

\* A proposal that is settled stays settled, and no entry is taken away: a late answer, a
\* second one, a cleanup, yolo or a later turn may change how it was settled, but none of
\* them opens it again.  That takes a client that writes `proposed` or `streaming` itself.
SettledForGood ==
  [][\A p \in Paths :
       /\ state[p] \in Settled => state'[p] \in Settled \/ Reopens(p)
       /\ state[p] # "none" => state'[p] # "none"]_vars

\* Open means that nobody has answered the proposal; a client that writes an entry open has.
EntryState(p) ==
  IF state[p] = "none" THEN "absent"
  ELSE IF state[p] \in Open /\ p \notin opened THEN "open" ELSE "answered"

Barrier == INSTANCE TurnBarrier
             WITH Entries <- Paths,
                  entry   <- [p \in Paths |-> EntryState(p)],
                  turn    <- CASE tpc = "idle" -> "off" [] tpc = "next" -> "between"
                               [] OTHER -> "within",
                  mine    <- first

\* Turn, calls, yolo and restarts together implement the barrier.
ImplementsBarrier == Barrier!BarrierSpec

TurnInv == Placed /\ HeldByClientOnly

\* A call leaves the turn and the store alone, or writes one row; open only if a client asks.
LEMMA CallEffect ==
  ASSUME IndInv, NEW k \in Calls, BeginCall(k) \/ CallStep(k)
  PROVE  \/ UNCHANGED <<storeVars, turnVars>>
         \/ \E c \in Conns, p \in Rows, s \in Open \cup Settled :
              SetState(c, p, s) /\ (s \in Open => Reopens(p))
<1>0. kconn[k] \in Conns /\ Open \cap Settled = {} /\ kpc \in [Calls -> CallPc]
  BY DEF IndInv, TypeOK, CallsOK, Open, Settled
<1>1. CASE BeginCall(k) \/ CancelDone(k)
  BY <1>1 DEF BeginCall, CallRun, CallSet, CancelDone
<1>2. CASE Reject(k) \/ Accept(k) \/ Accepted(k)
  BY <1>0, <1>2 DEF Reject, Accept, Accepted, Return, Goto, IndInv, CallsHold, Settled
<1>3. CASE RawWrite(k)
  <2>1. kpath[k] \in Rows /\ kstate[k] \in Open \cup Settled
    BY <1>3 DEF RawWrite, Return, Goto, IndInv, CallsHold
  <2>2. kstate[k] \in Open => Reopens(kpath[k])
    BY <1>0, <1>3 DEF RawWrite, Return, Goto, Reopens
  <2> QED BY <1>0, <1>3, <2>1, <2>2 DEF RawWrite
<1>4. ASSUME NEW p \in Paths, CancelStale(k, p)
      PROVE  \E c \in Conns, q \in Rows, s \in Settled : SetState(c, q, s)
  BY <1>0, <1>4 DEF CancelStale, IndInv, CallsHold, Settled
<1> QED BY <1>0, <1>1, <1>2, <1>3, <1>4 DEF CallStep

\* The steps that are not the turn's: nothing the turn knows changes, or one row is written,
\* or the turn is gone.
LEMMA OtherSteps ==
  ASSUME IndInv, [Next]_vars
  PROVE  \/ BeginTurn \/ TurnStep
         \/ UNCHANGED <<storeVars, turnVars>>
         \/ \E c \in Conns, p \in Rows, s \in Open \cup Settled :
              SetState(c, p, s) /\ (s \in Open => Reopens(p))
         \/ Idle /\ UNCHANGED storeVars
<1>1. CASE UNCHANGED vars
  BY <1>1 DEF vars
<1>2. CASE Abort \/ Crash
  BY <1>2 DEF Abort, Crash
<1> QED BY <1>1, <1>2, CallEffect DEF Next

LEMMA TurnInvStep == IndInv /\ TurnInv /\ [Next]_vars => TurnInv'
<1> SUFFICES ASSUME StoreOK, TurnOK, RowsExist, Placed, HeldByClientOnly, IndInv, [Next]_vars
             PROVE  TurnInv'
  BY DEF IndInv, TypeOK, TurnInv
<1> USE PathAssumption
    DEF TurnInv, Placed, HeldByClientOnly, storeVars, planVars, restVars, Looking
<1>1. CASE BeginTurn
  BY <1>1 DEF BeginTurn, StoreOK
<1>2. CASE SkipRefused \/ AbortEntry \/ DispatchThrows
  BY <1>2 DEF SkipRefused, AbortEntry, DispatchThrows, CanDispatch, Advance, TurnOK
<1>3. CASE Dispatch
  BY <1>3 DEF Dispatch, Propose, ProposeEach, ProposeMove, Settle, Handled, CanDispatch
<1>4. CASE ProposeNext \/ ProposeOverflow \/ ListUnresolved
  BY <1>4 DEF ProposeNext, ProposeOverflow, ListUnresolved
<1>5. ASSUME NEW p \in Paths, PickProposal(p) PROVE TurnInv'
  BY <1>5 DEF PickProposal
<1>6. CASE NextEntry
  BY <1>6 DEF NextEntry, Advance, TurnOK, RowsExist
<1>7. CASE YoloWrite \/ YoloAccepted
  <2>1. cur \in Paths /\ UNCHANGED <<first, at, stop, yolo, cur>> /\ tpc' \in {"accepted", "check"}
    BY <1>7 DEF YoloWrite, YoloAccepted, RowsExist
  <2>2. CASE tpc = "accepted" /\ UNCHANGED <<state, opened>>
    BY <2>1, <2>2
  <2>3. ASSUME NEW s \in {"resolved", "failed"}, Put(cur, s) PROVE state'[cur] \in Settled
    BY <2>1, <2>3, YoloPut
  <2> QED BY <1>7, <2>1, <2>2, <2>3 DEF YoloWrite, YoloAccepted
<1>8. CASE WaitForResolution
  BY <1>8 DEF WaitForResolution
<1>9. CASE YoloThrows \/ EndTurn \/ Idle
  BY <1>9 DEF YoloThrows, EndTurn, Idle
<1>10. CASE UNCHANGED <<storeVars, turnVars>>
  BY <1>10 DEF turnVars
<1>11. ASSUME NEW c \in Conns, NEW p \in Rows, NEW s \in Open \cup Settled, SetState(c, p, s)
       PROVE  TurnInv'
  BY <1>11 DEF SetState, Put, Wake, StoreOK, RowsExist, Rows
<1> QED BY <1>1, <1>2, <1>3, <1>4, <1>5, <1>6, <1>7, <1>8, <1>9, <1>10, <1>11, OtherSteps
        DEF TurnStep

LEMMA TurnInvAlways == Spec => []TurnInv
<1>1. Init => TurnInv
  BY DEF Init, TurnInv, Placed, HeldByClientOnly
<1> QED BY <1>1, TurnInvStep, Invariance, PTL DEF Spec

\* Under yolo the dispatch loop waits only at a proposal that a client has reopened.
THEOREM YoloHeldByClientOnly == Spec => []HeldByClientOnly
<1>1. TurnInv => HeldByClientOnly
  BY DEF TurnInv
<1> QED BY <1>1, TurnInvAlways, PTL

LEMMA AdvanceStep ==
  ASSUME IndInv, TurnInv, [Next]_vars, tpc # "idle", tpc' # "idle"
  PROVE  /\ stop' = stop /\ at' <= stop + 1
         /\ Nearer \/ UNCHANGED <<tpc, at, todo, pend>>
         /\ TurnStep => Nearer
<1> SUFFICES ASSUME StoreOK, TurnOK, RowsExist
             PROVE  /\ stop' = stop /\ at' <= stop + 1
                    /\ Nearer \/ UNCHANGED <<tpc, at, todo, pend>>
                    /\ TurnStep => Nearer
  BY DEF IndInv, TypeOK
<1> USE PathAssumption DEF TurnOK, TurnPc, storeVars, planVars, restVars, Looking
<1>1. ASSUME TurnStep PROVE stop' = stop /\ at' <= stop + 1 /\ Nearer
  <2>1. CASE SkipRefused \/ AbortEntry \/ DispatchThrows
    BY <2>1 DEF SkipRefused, AbortEntry, DispatchThrows, CanDispatch, Advance, Nearer
  <2>2. CASE Dispatch
    BY <2>2 DEF Dispatch, Propose, ProposeEach, ProposeMove, Settle, Handled, CanDispatch,
                Nearer, Phase
  <2>3. CASE ProposeNext \/ ProposeOverflow
    BY <2>3 DEF ProposeNext, ProposeOverflow, RowsExist, Nearer, Phase
  <2>4. CASE ListUnresolved
    BY <2>4 DEF ListUnresolved, RowsExist, Nearer, Phase
  <2>5. ASSUME NEW p \in Paths, PickProposal(p)
        PROVE  stop' = stop /\ at' <= stop + 1 /\ Nearer
    BY <2>5 DEF PickProposal, RowsExist, Nearer, Phase
  <2>6. CASE NextEntry
    BY <2>6 DEF NextEntry, Advance, RowsExist, Nearer
  <2>7. CASE YoloWrite \/ YoloAccepted
    BY <2>7 DEF YoloWrite, YoloAccepted, RowsExist, Nearer, Phase, Look
  <2>8. CASE WaitForResolution
    BY <2>8 DEF WaitForResolution, RowsExist, Nearer, Phase, Look
  <2>9. CASE YoloThrows \/ EndTurn
    BY <2>9 DEF YoloThrows, EndTurn, Idle
  <2> QED BY <1>1, <2>1, <2>2, <2>3, <2>4, <2>5, <2>6, <2>7, <2>8, <2>9 DEF TurnStep
<1>2. ASSUME ~TurnStep
      PROVE  /\ stop' = stop /\ at' <= stop + 1
             /\ Nearer \/ UNCHANGED <<tpc, at, todo, pend>>
  <2>0. at <= stop + 1
    BY DEF TurnInv, Placed
  <2>1. CASE UNCHANGED <<storeVars, turnVars>>
    BY <2>0, <2>1 DEF turnVars
  <2>2. ASSUME NEW c \in Conns, NEW p \in Rows, NEW s \in Open \cup Settled,
               SetState(c, p, s)
        PROVE  /\ stop' = stop /\ at' <= stop + 1
               /\ Nearer \/ UNCHANGED <<tpc, at, todo, pend>>
    BY <2>0, <2>2 DEF SetState, Wake, Nearer, Phase, Look
  <2> QED BY <1>2, <2>1, <2>2, OtherSteps DEF BeginTurn, Idle
<1> QED BY <1>1, <1>2

\* No call moves a turn back, and every step of its own brings it nearer to its end.
THEOREM TurnsAdvance == Spec => TurnAdvances
<1>1. IndInv /\ TurnInv /\ [Next]_vars
        => [tpc # "idle" /\ tpc' # "idle" =>
              /\ stop' = stop /\ at' <= stop + 1
              /\ Nearer \/ UNCHANGED <<tpc, at, todo, pend>>
              /\ TurnStep => Nearer]_vars
  BY AdvanceStep
<1> QED BY <1>1, Invariance, TurnInvAlways, PTL DEF Spec, TurnAdvances

LEMMA SettledStep ==
  ASSUME IndInv, [Next]_vars, NEW p \in Paths
  PROVE  /\ state[p] \in Settled => state'[p] \in Settled \/ Reopens(p)
         /\ state[p] # "none" => state'[p] # "none"
<1> SUFFICES ASSUME StoreOK, TurnOK, RowsExist, Unwritten
             PROVE  /\ state[p] \in Settled => state'[p] \in Settled \/ Reopens(p)
                    /\ state[p] # "none" => state'[p] # "none"
  BY DEF IndInv, TypeOK
<1> USE PathAssumption DEF StoreOK, TurnOK, Settled, storeVars, planVars, restVars
<1>1. CASE UNCHANGED state
  BY <1>1
<1>2. CASE BeginTurn
  BY <1>2 DEF BeginTurn
<1>3. CASE AbortEntry
  BY <1>3 DEF AbortEntry
<1>4. CASE Dispatch
  <2>1. PICK own, n : Handled(own, n)
    BY <1>4 DEF Dispatch, Propose, ProposeEach, ProposeMove, Settle
  <2>2. state[at] = "none" /\ state' = [state EXCEPT ![at] = own]
    BY <2>1 DEF Handled, CanDispatch, Unwritten
  <2> QED BY <2>2
<1>5. CASE ProposeNext
  BY <1>5 DEF ProposeNext, RowsExist, Paths
<1>6. CASE YoloWrite \/ YoloAccepted
  BY <1>6 DEF YoloWrite, YoloAccepted, Put
<1>7. CASE SkipRefused \/ DispatchThrows \/ ProposeOverflow \/ ListUnresolved \/ NextEntry
             \/ (\E q \in Paths : PickProposal(q)) \/ WaitForResolution \/ YoloThrows
             \/ EndTurn
  BY <1>1, <1>7 DEF SkipRefused, DispatchThrows, ProposeOverflow, ListUnresolved, NextEntry,
                    PickProposal, WaitForResolution, YoloThrows, EndTurn
<1>8. ASSUME NEW c \in Conns, NEW q \in Rows, NEW s \in Open \cup Settled,
             SetState(c, q, s), s \in Open => Reopens(q)
      PROVE  /\ state[p] \in Settled => state'[p] \in Settled \/ Reopens(p)
             /\ state[p] # "none" => state'[p] # "none"
  BY <1>8 DEF SetState, Put, Open
<1> QED BY <1>1, <1>2, <1>3, <1>4, <1>5, <1>6, <1>7, <1>8, OtherSteps DEF TurnStep

\* What was settled stays settled, unless a client asks for an open state.
THEOREM StaysSettled == Spec => SettledForGood
<1>1. IndInv /\ [Next]_vars
        => [\A p \in Paths :
              /\ state[p] \in Settled => state'[p] \in Settled \/ Reopens(p)
              /\ state[p] # "none" => state'[p] # "none"]_vars
  BY SettledStep
<1> QED BY <1>1, Invariance, PTL DEF Spec, SettledForGood

-----------------------------------------------------------------------------
(* The barrier *)

LEMMA EntryStates ==
  \A p : /\ state[p] = "none" => EntryState(p) = "absent"
         /\ state[p] = "proposed" /\ p \notin opened => EntryState(p) = "open"
         /\ state[p] \in Settled => EntryState(p) = "answered"
         /\ p \in opened /\ state[p] # "none" => EntryState(p) = "answered"
BY DEF EntryState, Open, Settled

\* The turn writes an entry that had no row: the mapped entries change in one place.
LEMMA NewEntry ==
  ASSUME StoreOK, RowsExist, NEW p \in Paths, state[p] = "none",
         NEW s \in {"none", "proposed", "resolved", "failed"},
         state' = [state EXCEPT ![p] = s], UNCHANGED opened
  PROVE  [q \in Paths |-> EntryState(q)]' =
           [[q \in Paths |-> EntryState(q)] EXCEPT
              ![p] = IF s = "none" THEN "absent"
                     ELSE IF s = "proposed" THEN "open" ELSE "answered"]
<1>1. p \notin opened
  BY DEF RowsExist, Open
<1>2. \A q \in Paths : state'[q] = IF q = p THEN s ELSE state[q]
  BY DEF StoreOK
<1>3. \A q \in Paths \ {p} : EntryState(q)' = EntryState(q)
  BY <1>2 DEF EntryState
<1>4. EntryState(p)' = IF s = "none" THEN "absent"
                       ELSE IF s = "proposed" THEN "open" ELSE "answered"
  BY <1>1, <1>2 DEF EntryState, Open
<1> QED BY <1>3, <1>4

\* What the mapping makes of the proposals that are open.
LEMMA OpenEntries ==
  Barrier!Open = {p \in Paths : state[p] \in Open /\ p \notin opened}
BY DEF Barrier!Open, EntryState, Open

\* A row that exists is written: a proposal is answered, or nothing the barrier knows changes.
LEMMA AnswerRefined ==
  ASSUME StoreOK, RowsExist, NEW p \in Rows, NEW s \in Open \cup Settled, Put(p, s),
         UNCHANGED first,
         UNCHANGED (CASE tpc = "idle" -> "off" [] tpc = "next" -> "between"
                      [] OTHER -> "within")
  PROVE  [Barrier!BarrierNext]_Barrier!barrierVars
<1>1. p \in Paths /\ state[p] # "none"
  BY DEF Rows
<1>2. /\ \A q \in Paths : state'[q] = IF q = p THEN s ELSE state[q]
      /\ \A q \in Paths \ {p} : q \in opened' <=> q \in opened
      /\ s \in Open => p \in opened'
  BY <1>1 DEF StoreOK, Put
<1>3. EntryState(p)' = "answered"
  BY <1>1, <1>2 DEF EntryState, Open, Settled
<1>4. \A q \in Paths \ {p} : EntryState(q)' = EntryState(q)
  BY <1>2 DEF EntryState
<1>5. CASE EntryState(p) = "open"
  <2>1. [q \in Paths |-> EntryState(q)]' =
          [[q \in Paths |-> EntryState(q)] EXCEPT ![p] = "answered"]
    BY <1>3, <1>4
  <2> QED BY <1>1, <1>5, <2>1 DEF Barrier!BarrierNext, Barrier!Answer, Barrier!Open
<1>6. CASE EntryState(p) = "answered"
  <2>1. [q \in Paths |-> EntryState(q)]' = [q \in Paths |-> EntryState(q)]
    BY <1>3, <1>4, <1>6
  <2> QED BY <2>1 DEF Barrier!barrierVars
<1> QED BY <1>1, <1>5, <1>6 DEF EntryState

LEMMA BarrierStep ==
  ASSUME IndInv, TurnInv, [Next]_vars
  PROVE  [Barrier!BarrierNext]_Barrier!barrierVars
<1> SUFFICES ASSUME StoreOK, TurnOK, RowsExist, Unwritten, Tracked, Placed
             PROVE  [Barrier!BarrierNext]_Barrier!barrierVars
  BY DEF IndInv, TypeOK, TurnInv
<1> DEFINE entry == [p \in Paths |-> EntryState(p)]
           turn  == CASE tpc = "idle" -> "off" [] tpc = "next" -> "between"
                      [] OTHER -> "within"
<1> USE PathAssumption
    DEF storeVars, planVars, restVars, Looking, Barrier!barrierVars
<1>1. CASE BeginTurn
  <2>1. PICK n \in 1..(MaxPaths - last) :
          /\ refused' \in SUBSET ((last + 1)..(last + n))
          /\ state' = [p \in Paths |-> IF p \in refused' THEN "failed" ELSE state[p]]
          /\ first' = last + 1
    BY <1>1 DEF BeginTurn
  <2>2. refused' \in SUBSET Barrier!Own'
    BY <2>1 DEF Barrier!Own, StoreOK, Paths
  <2>3. \A p \in Barrier!Own' : state[p] = "none"
    BY <2>1 DEF Barrier!Own, StoreOK, RowsExist, Paths
  <2>6. \A p \in Barrier!Own' : entry[p] = "absent"
    BY <2>3 DEF EntryState, Barrier!Own
  <2>7. /\ opened' = opened
        /\ \A p \in Paths : state'[p] = IF p \in refused' THEN "failed" ELSE state[p]
    BY <1>1, <2>1 DEF BeginTurn
  <2>8. \A p \in Paths : EntryState(p)' = IF p \in refused' THEN "answered" ELSE EntryState(p)
    BY <2>7 DEF EntryState, Open
  <2>4. entry' = [p \in Paths |-> IF p \in refused' THEN "answered" ELSE entry[p]]
    BY <2>8
  <2>5. turn = "off" /\ turn' = "between"
    BY <1>1 DEF BeginTurn
  <2> QED BY <2>2, <2>6, <2>4, <2>5 DEF Barrier!BarrierNext, Barrier!Begin
<1>2. CASE AbortEntry
  <2>1. /\ tpc = "next" /\ tpc' = "next" /\ at <= stop /\ at \notin refused
        /\ state' = [state EXCEPT ![at] = "failed"] /\ UNCHANGED <<opened, first>>
    BY <1>2 DEF AbortEntry, Advance
  <2>2. at \in Paths /\ at \in Barrier!Own /\ state[at] = "none"
    BY <2>1 DEF TurnOK, Placed, Unwritten, Paths, Barrier!Own
  <2>3. entry' = [entry EXCEPT ![at] = "answered"] /\ entry[at] = "absent"
    BY <2>1, <2>2, EntryStates, NewEntry
  <2> QED BY <2>1, <2>2, <2>3 DEF Barrier!BarrierNext, Barrier!Refuse
<1>3. CASE Dispatch
  <2>1. PICK own \in {"none", "proposed", "resolved", "failed"}, n \in 0..2 :
          Handled(own, n)
    BY <1>3 DEF Dispatch, Propose, ProposeEach, ProposeMove, Settle
  <2>2. /\ tpc = "next" /\ tpc' \in {"propose", "list"} /\ at <= stop /\ at \notin refused
        /\ state' = [state EXCEPT ![at] = own] /\ UNCHANGED <<opened, first>>
    BY <2>1 DEF Handled, CanDispatch
  <2>3. at \in Paths /\ at \in Barrier!Own /\ state[at] = "none"
    BY <2>2 DEF TurnOK, Placed, Unwritten, Paths, Barrier!Own
  <2>4. /\ \E s \in {"absent", "open", "answered"} : entry' = [entry EXCEPT ![at] = s]
        /\ entry[at] = "absent"
    BY <2>2, <2>3, EntryStates, NewEntry
  <2>5. turn = "between" /\ turn' = "within"
    BY <2>2
  <2> QED BY <2>2, <2>3, <2>4, <2>5 DEF Barrier!BarrierNext, Barrier!Enter
<1>4. CASE ProposeNext
  <2>1. /\ tpc = "propose" /\ tpc' \in {"propose", "list"} /\ last + 1 \in Paths
        /\ state' = [state EXCEPT ![last + 1] = "proposed"] /\ UNCHANGED <<opened, first>>
    BY <1>4 DEF ProposeNext, StoreOK, Paths
  <2>2. last + 1 \in Barrier!Own /\ state[last + 1] = "none"
    BY <2>1 DEF StoreOK, TurnOK, RowsExist, Placed, Barrier!Own
  <2>3. entry' = [entry EXCEPT ![last + 1] = "open"] /\ entry[last + 1] = "absent"
    BY <2>1, <2>2, EntryStates, NewEntry
  <2>4. turn = "within" /\ turn' = "within"
    BY <2>1
  <2> QED BY <2>1, <2>2, <2>3, <2>4 DEF Barrier!BarrierNext, Barrier!ProposeMore
<1>5. CASE NextEntry
  <2>1. turn = "within" /\ turn' = "between" /\ UNCHANGED <<state, opened, first>>
    BY <1>5 DEF NextEntry, Advance
  <2>2. Barrier!Own \cap Barrier!Open = {}
    BY <1>5, OpenEntries DEF NextEntry, Tracked, Barrier!Own
  <2>3. entry' = entry
    BY <2>1 DEF EntryState
  <2> QED BY <2>1, <2>2, <2>3 DEF Barrier!BarrierNext, Barrier!Pass
<1>6. CASE YoloWrite \/ YoloAccepted
  <2>1. cur \in Rows /\ {"resolved", "failed"} \subseteq Settled
    BY <1>6 DEF YoloWrite, YoloAccepted, RowsExist, Rows, Settled
  <2>2. UNCHANGED first /\ turn' = turn
    BY <1>6 DEF YoloWrite, YoloAccepted
  <2>3. UNCHANGED <<state, opened>> \/ \E s \in {"resolved", "failed"} : Put(cur, s)
    BY <1>6 DEF YoloWrite, YoloAccepted
  <2>4. CASE UNCHANGED <<state, opened>>
    BY <2>2, <2>4 DEF EntryState
  <2> QED BY <2>1, <2>2, <2>3, <2>4, AnswerRefined
<1>7. CASE SkipRefused \/ DispatchThrows \/ ProposeOverflow \/ ListUnresolved
             \/ (\E q \in Paths : PickProposal(q)) \/ WaitForResolution
  <2>1. UNCHANGED <<state, opened, first>>
    BY <1>7 DEF SkipRefused, DispatchThrows, ProposeOverflow, ListUnresolved, PickProposal,
                WaitForResolution
  <2>2. turn' = turn
    BY <1>7 DEF SkipRefused, DispatchThrows, CanDispatch, Advance, ProposeOverflow,
                ListUnresolved, PickProposal, WaitForResolution
  <2> QED BY <2>1, <2>2 DEF EntryState
<1>8. CASE (YoloThrows \/ EndTurn \/ Idle) /\ UNCHANGED storeVars
  BY <1>8 DEF YoloThrows, EndTurn, Idle, EntryState, Barrier!BarrierNext, Barrier!Stop
<1>9. CASE UNCHANGED <<storeVars, turnVars>>
  BY <1>9 DEF turnVars, EntryState
<1>10. ASSUME NEW c \in Conns, NEW p \in Rows, NEW s \in Open \cup Settled,
              SetState(c, p, s)
       PROVE  [Barrier!BarrierNext]_Barrier!barrierVars
  <2>1. UNCHANGED first /\ turn' = turn /\ Put(p, s)
    BY <1>10 DEF SetState, Wake
  <2> QED BY <2>1, AnswerRefined
<1> QED BY <1>1, <1>2, <1>3, <1>4, <1>5, <1>6, <1>7, <1>8, <1>9, <1>10, OtherSteps
        DEF TurnStep, YoloThrows, EndTurn

\* The dispatch loop, the calls of all connections, the yolo plugin and restarts together
\* implement TurnBarrier.
THEOREM BarrierRefined == Spec => ImplementsBarrier
<1>1. Init => Barrier!BarrierInit
  BY EntryStates DEF Init, Barrier!BarrierInit
<1>2. IndInv /\ TurnInv /\ [Next]_vars => [Barrier!BarrierNext]_Barrier!barrierVars
  BY BarrierStep
<1> QED BY <1>1, <1>2, Invariance, TurnInvAlways, PTL
        DEF Spec, ImplementsBarrier, Barrier!BarrierSpec
=============================================================================
