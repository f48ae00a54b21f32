---------------------------- MODULE Verdict_proofs ----------------------------
(***************************************************************************)
(* Proofs about Verdict, for any settings and any fingerprints.            *)
(***************************************************************************)
EXTENDS Verdict, TLAPS

Running == phase \in {"between", "asked", "dispatch", "replied"}

\* A strike as the code sees it.
Hit(h, e, i) == e[i] \/ DetectCycle(h, i)

-----------------------------------------------------------------------------
(* Blocks *)

\* Where a repetition's turns lie.
LEMMA Index ==
  ASSUME NEW k \in Nat \ {0}, NEW rep \in 0..MinCycles - 1, NEW j \in 1..k
  PROVE  /\ k * MinCycles \in Nat
         /\ rep * k \in Nat
         /\ rep * k + j \in 1..(k * MinCycles)
<1>1. MinCycles \in Nat \ {0} BY LimitAssumption
<1>2. PICK d \in Nat : MinCycles = rep + 1 + d BY <1>1, SMT
<1>3. k * MinCycles = rep * k + k + d * k BY <1>2, SMT
<1>4. rep * k \in Nat /\ d * k \in Nat BY <1>2, SMT
<1> QED BY <1>1, <1>3, <1>4, SMT

\* A number splits into blocks and a rest.
LEMMA Blocks ==
  ASSUME NEW k \in Nat \ {0}, NEW x \in Nat
  PROVE  \E q \in Nat, j \in 1..k : x + 1 = q * k + j
<1>1. x = k * (x \div k) + (x % k) /\ x % k \in 0..k - 1 /\ x \div k \in Nat
  BY SMT
<1>2. WITNESS x \div k \in Nat, (x % k) + 1 \in 1..k
<1> QED BY <1>1, SMT

\* The code's comparison finds a repetition that is there.
LEMMA PeriodicRepeats ==
  ASSUME NEW h, NEW n \in Nat, NEW m \in Nat, NEW w \in Nat, NEW k \in 1..MaxPeriod,
         m <= n, k * MinCycles <= w - (n - m), Periodic(h, n, w, k)
  PROVE  Repeats(h, m, k)
<1> DEFINE K == k * MinCycles
<1>0. k \in Nat \ {0} /\ MinCycles \in Nat \ {0} BY LimitAssumption
<1>1. K \in Nat /\ w <= n BY <1>0 DEF Periodic
<1>2. K <= m BY <1>1
<1>3. ASSUME NEW rep \in 0..MinCycles - 1, NEW j \in 1..k
      PROVE  h[(m - K) + (rep * k + j)] = h[(m - K) + j]
  <2> DEFINE i == (m - K) + j
  <2>1. rep * k \in Nat /\ rep * k + j \in 1..K BY <1>0, Index
  <2>2. i \in (n - w + 1)..n BY <1>0, <1>1, <1>2, <2>1
  <2>3. i + rep * k <= n BY <1>1, <1>2, <2>1
  <2>4. rep * k >= rep BY <1>0, SMT
  <2>5. rep \in 0..w BY <1>0, <1>1, <2>1, <2>4
  <2>6. h[i + rep * k] = h[i]
    <3> HIDE DEF i
    <3> QED BY <2>2, <2>3, <2>5 DEF Periodic
  <2>7. (m - K) + (rep * k + j) = i + rep * k BY <1>1, <2>1
  <2> QED BY <2>6, <2>7
<1> QED BY <1>2, <1>3 DEF Repeats

\* And finds nothing else.
LEMMA RepeatsPeriodic ==
  ASSUME NEW h, NEW n \in Nat, NEW k \in 1..MaxPeriod, Repeats(h, n, k)
  PROVE  Periodic(h, n, k * MinCycles, k)
<1> DEFINE K == k * MinCycles
<1>0. k \in Nat \ {0} /\ MinCycles \in Nat \ {0} BY LimitAssumption
<1>1. K \in Nat /\ K <= n BY <1>0 DEF Repeats
<1>2. ASSUME NEW i \in (n - K + 1)..n, NEW r \in 0..K, i + r * k <= n
      PROVE  h[i + r * k] = h[i]
  <2>1. PICK q \in Nat, j \in 1..k : i - (n - K) = q * k + j
    <3>1. i - (n - K) - 1 \in Nat BY <1>1
    <3>2. PICK q \in Nat, j \in 1..k : (i - (n - K) - 1) + 1 = q * k + j
      BY <1>0, <3>1, Blocks
    <3>3. (i - (n - K) - 1) + 1 = i - (n - K) BY <1>1
    <3> QED BY <3>2, <3>3
  <2>2. q * k \in Nat /\ r * k \in Nat /\ (q + r) * k = q * k + r * k BY <1>0, SMT
  <2>3. (q + r) * k < MinCycles * k BY <1>0, <1>1, <1>2, <2>1, <2>2
  <2>4. q + r < MinCycles
    <3>1. SUFFICES ASSUME q + r >= MinCycles PROVE FALSE BY <1>0
    <3>2. PICK d \in Nat : q + r = MinCycles + d BY <1>0, <3>1, SMT
    <3>3. (q + r) * k = MinCycles * k + d * k /\ d * k \in Nat BY <1>0, <3>2, SMT
    <3> QED BY <1>0, <2>3, <3>3, SMT
  <2>5. q \in 0..MinCycles - 1 /\ q + r \in 0..MinCycles - 1 BY <1>0, <2>4
  <2>6. h[(n - K) + (q * k + j)] = h[(n - K) + j] BY <2>5 DEF Repeats
  <2>7. h[(n - K) + ((q + r) * k + j)] = h[(n - K) + j]
    <3> DEFINE s == q + r
    <3>1. s \in 0..MinCycles - 1 BY <2>5
    <3> HIDE DEF s
    <3>2. h[(n - K) + (s * k + j)] = h[(n - K) + j] BY <3>1 DEF Repeats
    <3> QED BY <3>2 DEF s
  <2>8. i = (n - K) + (q * k + j) BY <1>1, <2>1, <2>2
  <2>9. i + r * k = (n - K) + ((q + r) * k + j)
    <3> DEFINE a == q * k
               b == r * k
               c == (q + r) * k
    <3>1. a \in Nat /\ b \in Nat /\ c = a + b /\ i = (n - K) + (a + j) BY <2>2, <2>8
    <3>2. j \in Int BY <1>0
    <3>3. SUFFICES i + b = (n - K) + (c + j) OBVIOUS
    <3> HIDE DEF a, b, c, K
    <3> QED BY <1>1, <3>1, <3>2
  <2> QED BY <2>6, <2>7, <2>8, <2>9
<1> QED BY <1>1, <1>2 DEF Periodic

\* detectCycle is exact: it reports a cycle of the turns so far if and only if they end
\* with MinCycles equal blocks of at most MaxPeriod turns.
THEOREM CycleIsRepetition ==
  ASSUME NEW h, NEW n \in Nat
  PROVE  DetectCycle(h, n) <=> EndsRepetition(h, n)
<1>1. ASSUME NEW k \in 1..MaxPeriod
      PROVE  Repeats(h, n, k) <=> Periodic(h, n, k * MinCycles, k)
  <2>1. k * MinCycles \in Nat BY LimitAssumption, SMT
  <2>2. n <= n /\ k * MinCycles <= k * MinCycles - (n - n) BY <2>1
  <2>3. ASSUME Periodic(h, n, k * MinCycles, k) PROVE Repeats(h, n, k)
    <3> DEFINE w == k * MinCycles
    <3>1. w \in Nat /\ k * MinCycles <= w - (n - n) /\ Periodic(h, n, w, k)
      BY <2>1, <2>2, <2>3
    <3> HIDE DEF w
    <3> QED BY <2>2, <3>1, PeriodicRepeats
  <2> QED BY <2>3, RepeatsPeriodic
<1> QED BY <1>1 DEF DetectCycle, EndsRepetition

\* A further turn leaves the verdicts on the earlier ones as they were.
LEMMA CycleKept ==
  ASSUME NEW S, NEW h \in Seq(S), NEW x \in S, NEW n \in 0..Len(h)
  PROVE  DetectCycle(Append(h, x), n) <=> DetectCycle(h, n)
<1>1. ASSUME NEW k \in 1..MaxPeriod
      PROVE  Repeats(Append(h, x), n, k) <=> Repeats(h, n, k)
  <2> DEFINE K == k * MinCycles
  <2>1. k \in Nat \ {0} /\ K \in Nat BY LimitAssumption, SMT
  <2>2. ASSUME NEW i \in 1..n PROVE Append(h, x)[i] = h[i] BY SMT
  <2>3. ASSUME K <= n, NEW rep \in 0..MinCycles - 1, NEW j \in 1..k
        PROVE  /\ (n - K) + (rep * k + j) \in 1..n
               /\ (n - K) + j \in 1..n
    <3> DEFINE a == rep * k
    <3>1. a \in Nat /\ a + j \in 1..K BY <2>1, Index
    <3>2. j \in Nat \ {0} /\ n \in Nat BY <2>1
    <3>3. SUFFICES (n - K) + (a + j) \in 1..n /\ (n - K) + j \in 1..n OBVIOUS
    <3> HIDE DEF a, K
    <3> QED BY <2>1, <2>3, <3>1, <3>2
  <2> QED BY <2>2, <2>3 DEF Repeats
<1> QED BY <1>1 DEF DetectCycle
-----------------------------------------------------------------------------
(* The invariant *)

\* The streak is the stretch of strikes the loop's turns end with.
StreakInv ==
  /\ streak <= Len(history)
  /\ \A i \in (Len(history) - streak + 1)..Len(history) : Hit(history, erred, i)
  /\ Running /\ streak < Len(history) =>
       ~Hit(history, erred, Len(history) - streak)
  /\ Running => streak < MaxStrikes

\* A turn that said nothing has an error by the time it is judged, and so has one that
\* ends with a terminal update and no summary.
ReplyInv ==
  /\ phase = "replied" /\ reply \in Blanks \cup {Silent} => turnErrors \/ failed
  /\ phase = "replied" /\ reply \in Terminals /\ ~summary => failed \/ turnErrors
  /\ phase = "replied" /\ summary => reply \in Terminals
  /\ phase \in {"asked", "dispatch"} => ~summary
  /\ phase = "asked" => reply = Silent

\* The judged turns that said nothing.
BlankInv ==
  \A i \in 1..Len(history) : history[i] \in Blanks \cup {Silent} => erred[i]

\* How the loop stands after its last verdict.
EndInv ==
  /\ outcome # "open" => ~Running
  /\ outcome = "struck" => streak = MaxStrikes /\ ~summary
  /\ outcome = "done" => history # <<>> /\ history[Len(history)] \in Terminals
  /\ phase = "between" /\ history # <<>> /\ history[Len(history)] \in Terminals =>
       Hit(history, erred, Len(history))

\* A loop that a strike has ended well would have been given up.
DoneInv ==
  outcome = "done" /\ Hit(history, erred, Len(history)) =>
    /\ Len(history) >= MaxStrikes
    /\ \A i \in (Len(history) - MaxStrikes + 1)..Len(history) : Hit(history, erred, i)

IndInv == TypeOK /\ StreakInv /\ ReplyInv /\ BlankInv /\ EndInv /\ DoneInv

LEMMA InitInv == Init => IndInv
<1> SUFFICES ASSUME Init PROVE IndInv OBVIOUS
<1>1. TypeOK
  <2>1. history = <<>> /\ erred = <<>> BY DEF Init
  <2>2. history \in Seq(Fingerprints) /\ erred \in Seq(BOOLEAN) /\ Len(history) = Len(erred)
    BY <2>1
  <2>3. iter \in 0..MaxTurns /\ streak \in 0..MaxStrikes BY LimitAssumption DEF Init
  <2>4. turnErrors \in BOOLEAN /\ failed \in BOOLEAN /\ summary \in BOOLEAN
    BY DEF Init
  <2> QED BY <2>2, <2>3, <2>4 DEF Init, TypeOK, Phases, Outcomes, Fingerprints
<1>2. StreakInv BY LimitAssumption DEF Init, StreakInv, Running
<1>3. ReplyInv /\ BlankInv /\ EndInv /\ DoneInv
  BY DEF Init, ReplyInv, BlankInv, EndInv, DoneInv, Running
<1> QED BY <1>1, <1>2, <1>3 DEF IndInv

\* What pushing a turn does to the strikes: the earlier ones stay, the new one is Struck.
LEMMA Pushed ==
  ASSUME TypeOK, PushTurn
  PROVE  /\ history' \in Seq(Fingerprints) /\ erred' \in Seq(BOOLEAN)
         /\ Len(history') = Len(history) + 1 /\ Len(erred') = Len(history')
         /\ history'[Len(history')] = reply
         /\ \A i \in 1..Len(history) : history'[i] = history[i] /\ erred'[i] = erred[i]
         /\ erred'[Len(history')] = (turnErrors \/ failed)
         /\ \A i \in 1..Len(history) : Hit(history', erred', i) <=> Hit(history, erred, i)
         /\ Hit(history', erred', Len(history')) <=> Struck
<1>1. history \in Seq(Fingerprints) /\ reply \in Fingerprints /\ Len(history) = Len(erred)
      /\ history' = Append(history, reply)
  BY DEF TypeOK, PushTurn
<1>2. erred \in Seq(BOOLEAN) /\ turnErrors \in BOOLEAN /\ failed \in BOOLEAN
      /\ erred' = Append(erred, turnErrors \/ failed)
  BY DEF TypeOK, PushTurn
<1>3. (turnErrors \/ failed) \in BOOLEAN OBVIOUS
<1>4. history' \in Seq(Fingerprints) /\ Len(history') = Len(history) + 1
      /\ history'[Len(history')] = reply
      /\ \A i \in 1..Len(history) : history'[i] = history[i]
  BY <1>1
<1>5. erred' \in Seq(BOOLEAN) /\ Len(erred') = Len(history')
      /\ erred'[Len(history')] = (turnErrors \/ failed)
      /\ \A i \in 1..Len(history) : erred'[i] = erred[i]
  <2> DEFINE e == turnErrors \/ failed
  <2>1. e \in BOOLEAN /\ erred' = Append(erred, e) BY <1>2
  <2> HIDE DEF e
  <2>2. erred' \in Seq(BOOLEAN) /\ Len(erred') = Len(erred) + 1 /\ erred'[Len(erred) + 1] = e
        /\ \A i \in 1..Len(erred) : erred'[i] = erred[i]
    BY <1>2, <2>1
  <2> QED BY <1>1, <1>4, <2>2 DEF e
<1>6. ASSUME NEW i \in 1..Len(history)
      PROVE  Hit(history', erred', i) <=> Hit(history, erred, i)
  <2>1. i \in 0..Len(history) OBVIOUS
  <2>2. DetectCycle(history', i) <=> DetectCycle(history, i) BY <1>1, <2>1, CycleKept
  <2> QED BY <1>5, <2>2 DEF Hit
<1>7. Hit(history', erred', Len(history')) <=> Struck
  BY <1>5 DEF Hit, Struck
<1> QED BY <1>4, <1>5, <1>6, <1>7

\* A step of the turn: nothing that was judged changes.
LEMMA TurnStep ==
  ASSUME IndInv, StartTurn \/ LogOverflow \/ CallFails \/ Reply \/ EntryFails \/ Resolve
  PROVE  IndInv'
<1>1. TypeOK'
  <2>1. CASE StartTurn
    <3>1. iter' \in 0..MaxTurns BY <2>1, LimitAssumption DEF IndInv, TypeOK, StartTurn
    <3>2. turnErrors' \in BOOLEAN /\ failed' \in BOOLEAN /\ summary' \in BOOLEAN
          /\ reply' \in Fingerprints /\ phase' \in Phases
      BY <2>1 DEF StartTurn, Fingerprints, Phases
    <3>3. TypeOK /\ UNCHANGED loopVars /\ UNCHANGED outcome BY <2>1 DEF IndInv, StartTurn
    <3> QED BY <3>1, <3>2, <3>3 DEF TypeOK, loopVars
  <2>2. CASE LogOverflow
    BY <2>2 DEF IndInv, TypeOK, LogOverflow, loopVars, Phases
  <2>3. CASE CallFails
    BY <2>3 DEF IndInv, TypeOK, CallFails, loopVars, Phases
  <2>4. CASE Reply
    BY <2>4 DEF IndInv, TypeOK, Reply, loopVars, Phases, Fingerprints
  <2>5. CASE EntryFails
    BY <2>5 DEF IndInv, TypeOK, EntryFails, loopVars, Phases
  <2>6. CASE Resolve
    <3>1. summary' \in BOOLEAN /\ turnErrors' \in BOOLEAN BY <2>6 DEF Resolve, IndInv, TypeOK
    <3> QED BY <2>6, <3>1 DEF IndInv, TypeOK, Resolve, loopVars, Phases
  <2> QED BY <2>1, <2>2, <2>3, <2>4, <2>5, <2>6
<1>2. UNCHANGED loopVars /\ UNCHANGED outcome /\ Running /\ Running' /\ phase' # "between"
  BY DEF StartTurn, LogOverflow, CallFails, Reply, EntryFails, Resolve, Running
<1>3. StreakInv' BY <1>2 DEF IndInv, StreakInv, Running, loopVars, Hit, DetectCycle, Repeats
<1>4. BlankInv' BY <1>2 DEF IndInv, BlankInv, loopVars
<1>5. EndInv' BY <1>2 DEF IndInv, EndInv, Running
<1>7. DoneInv' BY <1>2 DEF IndInv, EndInv, DoneInv
<1>6. ReplyInv'
  <2>0. ReplyInv /\ TypeOK BY DEF IndInv
  <2>1. CASE StartTurn BY <2>1 DEF ReplyInv, StartTurn
  <2>2. CASE LogOverflow BY <2>0, <2>2 DEF ReplyInv, LogOverflow
  <2>3. CASE CallFails
    BY <2>0, <2>3 DEF ReplyInv, CallFails
  <2>4. CASE Reply BY <2>0, <2>4 DEF ReplyInv, Reply
  <2>5. CASE EntryFails BY <2>0, <2>5 DEF ReplyInv, EntryFails
  <2>6. CASE Resolve BY <2>0, <2>6 DEF ReplyInv, Resolve, TypeOK
  <2> QED BY <2>1, <2>2, <2>3, <2>4, <2>5, <2>6
<1> QED BY <1>1, <1>3, <1>4, <1>5, <1>6, <1>7 DEF IndInv

\* The loop begins, or ends without a verdict.
LEMMA LoopStep ==
  ASSUME IndInv, StartLoop \/ RunOut \/ Aborted \/ Throws \/ Crash
  PROVE  IndInv'
<1>1. CASE StartLoop
  <2>1. TypeOK'
    <3>1. history' = <<>> /\ erred' = <<>> BY <1>1 DEF StartLoop
    <3>2. history' \in Seq(Fingerprints) /\ erred' \in Seq(BOOLEAN)
          /\ Len(history') = Len(erred')
      BY <3>1
    <3>3. iter' \in 0..MaxTurns /\ streak' \in 0..MaxStrikes
      BY <1>1, LimitAssumption DEF StartLoop
    <3>4. turnErrors' \in BOOLEAN /\ phase' \in Phases /\ outcome' \in Outcomes
      BY <1>1 DEF StartLoop, Phases, Outcomes
    <3>5. TypeOK /\ UNCHANGED <<reply, failed, summary>> BY <1>1 DEF IndInv, StartLoop
    <3> QED BY <3>2, <3>3, <3>4, <3>5 DEF TypeOK
  <2>2. history' = <<>> /\ Len(history') = 0 /\ streak' = 0 BY <1>1 DEF StartLoop
  <2>3. StreakInv' BY <2>2, LimitAssumption DEF StreakInv
  <2>4. BlankInv' BY <2>2 DEF BlankInv
  <2>5. ReplyInv' BY <1>1 DEF StartLoop, ReplyInv
  <2>6. EndInv' /\ DoneInv' BY <1>1 DEF StartLoop, EndInv, DoneInv
  <2> QED BY <2>1, <2>3, <2>4, <2>5, <2>6 DEF IndInv
<1>2. CASE RunOut \/ Aborted \/ Throws \/ Crash
  <2>1. UNCHANGED <<iter, turnVars, loopVars>> /\ phase' \in {"over", "off"}
        /\ (outcome' = outcome \/ outcome' \in {"turns", "aborted", "threw"})
    BY <1>2 DEF RunOut, Aborted, Throws, Crash, CloseWith
  <2>2. TypeOK' BY <2>1 DEF IndInv, TypeOK, Phases, Outcomes, turnVars, loopVars
  <2>3. ~Running' BY <2>1 DEF Running
  <2>4. StreakInv' BY <2>1, <2>3 DEF IndInv, StreakInv, loopVars, Hit, DetectCycle, Repeats
  <2>5. BlankInv' BY <2>1 DEF IndInv, BlankInv, loopVars
  <2>6. ReplyInv' BY <2>1 DEF ReplyInv
  <2>7. EndInv' BY <2>1, <2>3 DEF IndInv, EndInv, turnVars, loopVars
  <2>8. DoneInv' BY <2>1 DEF IndInv, DoneInv, loopVars, Hit, DetectCycle, Repeats
  <2> QED BY <2>2, <2>4, <2>5, <2>6, <2>7, <2>8 DEF IndInv
<1> QED BY <1>1, <1>2

\* The verdict.
LEMMA VerdictStep ==
  ASSUME IndInv, Finish \/ GoOn \/ StrikeOne \/ StrikeOut
  PROVE  IndInv'
<1> DEFINE n == Len(history)
<1>0. PushTurn /\ TypeOK /\ UNCHANGED turnVars /\ UNCHANGED iter
  BY DEF Finish, GoOn, StrikeOne, StrikeOut, IndInv
<1>1. /\ history' \in Seq(Fingerprints) /\ erred' \in Seq(BOOLEAN)
      /\ Len(history') = n + 1 /\ Len(erred') = n + 1 /\ history'[n + 1] = reply
      /\ \A i \in 1..n : history'[i] = history[i] /\ erred'[i] = erred[i]
      /\ erred'[n + 1] = (turnErrors \/ failed)
      /\ \A i \in 1..n : Hit(history', erred', i) <=> Hit(history, erred, i)
      /\ Hit(history', erred', n + 1) <=> Struck
  BY <1>0, Pushed
<1>2. n \in Nat /\ streak \in 0..MaxStrikes /\ MaxStrikes \in Nat \ {0}
  BY <1>0, LimitAssumption DEF TypeOK
<1>3. StreakInv /\ ReplyInv /\ BlankInv /\ EndInv /\ phase = "replied" /\ Running
      /\ streak < MaxStrikes /\ outcome = "open"
  BY <1>0 DEF IndInv, PushTurn, Running, StreakInv, EndInv
<1>4. TypeOK'
  <2>1. streak' \in 0..MaxStrikes BY <1>2, <1>3 DEF Finish, GoOn, StrikeOne, StrikeOut
  <2>2. phase' \in Phases /\ outcome' \in Outcomes
    BY <1>0 DEF Finish, GoOn, StrikeOne, StrikeOut, CloseWith, Phases, Outcomes, TypeOK
  <2> QED BY <1>0, <1>1, <2>1, <2>2 DEF TypeOK, turnVars
<1>5. BlankInv'
  <2>1. reply \in Blanks \cup {Silent} => turnErrors \/ failed BY <1>3 DEF ReplyInv
  <2>2. ASSUME NEW i \in 1..n + 1, history'[i] \in Blanks \cup {Silent} PROVE erred'[i]
    BY <1>1, <1>2, <1>3, <2>1, <2>2 DEF BlankInv
  <2> QED BY <1>1, <2>2 DEF BlankInv
<1>6. ReplyInv'
  <2>1. phase' \in {"between", "over"}
    BY DEF Finish, GoOn, StrikeOne, StrikeOut, CloseWith
  <2> QED BY <2>1 DEF ReplyInv
<1>7. StreakInv'
  <2>1. CASE Finish \/ GoOn
    <3>1. streak' = 0 /\ ~Struck BY <2>1 DEF Finish, GoOn
    <3>2. ~Hit(history', erred', n + 1) BY <1>1, <3>1
    <3> QED BY <1>1, <1>2, <3>1, <3>2 DEF StreakInv
  <2>2. CASE Struck /\ streak' = streak + 1 /\ (Running' => streak + 1 < MaxStrikes)
    <3>1. streak + 1 <= n + 1 BY <1>2, <1>3 DEF StreakInv
    <3>2. ASSUME NEW i \in (n + 1 - (streak + 1) + 1)..n + 1
          PROVE  Hit(history', erred', i)
      <4>1. CASE i = n + 1 BY <1>1, <2>2, <4>1
      <4>2. CASE i <= n
        <5>1. i \in 1..n /\ i \in (n - streak + 1)..n BY <1>2, <3>1, <4>2
        <5>2. Hit(history, erred, i) BY <1>3, <5>1 DEF StreakInv
        <5> QED BY <1>1, <5>1, <5>2
      <4> QED BY <1>2, <3>1, <4>1, <4>2
    <3>3. ASSUME streak + 1 < n + 1
          PROVE  ~Hit(history', erred', n + 1 - (streak + 1))
      <4> DEFINE m == n - streak
      <4>1. m \in 1..n /\ n + 1 - (streak + 1) = m BY <1>2, <3>3
      <4>2. ~Hit(history, erred, m) BY <1>2, <1>3, <3>3 DEF StreakInv
      <4> HIDE DEF m
      <4> QED BY <1>1, <4>1, <4>2
    <3> QED BY <1>1, <2>2, <3>1, <3>2, <3>3 DEF StreakInv
  <2>3. CASE StrikeOut /\ summary
    <3>1. streak' = 0 /\ ~Running' BY <2>3 DEF StrikeOut, CloseWith, Running
    <3> QED BY <1>1, <1>2, <3>1 DEF StreakInv
  <2>4. CASE StrikeOne BY <2>2, <2>4 DEF StrikeOne
  <2>5. CASE StrikeOut /\ ~summary
    BY <2>2, <2>5 DEF StrikeOut, CloseWith, Running
  <2> QED BY <2>1, <2>3, <2>4, <2>5
<1>8. EndInv'
  <2>0. history' # <<>> /\ history'[Len(history')] = reply
        /\ (Hit(history', erred', Len(history')) <=> Struck)
    BY <1>1, <1>2
  <2>1. CASE Finish
    BY <1>3, <2>0, <2>1 DEF Finish, CloseWith, EndInv, ReplyInv, Running
  <2>2. CASE GoOn
    <3>1. reply \notin Terminals BY <1>3, <2>2 DEF GoOn, Struck, ReplyInv
    <3> QED BY <1>3, <2>0, <2>2, <3>1 DEF GoOn, EndInv
  <2>3. CASE StrikeOne BY <1>3, <2>0, <2>3 DEF StrikeOne, EndInv
  <2>4. CASE StrikeOut
    <3>1. ~Running' BY <2>4 DEF StrikeOut, CloseWith, Running
    <3>2. phase' = "over" BY <2>4 DEF StrikeOut, CloseWith
    <3>3. CASE summary
      BY <1>3, <2>0, <2>4, <3>1, <3>2, <3>3 DEF StrikeOut, CloseWith, EndInv, ReplyInv
    <3>4. CASE ~summary
      <4>1. streak' = MaxStrikes BY <1>2, <1>3, <2>4, <3>4 DEF StrikeOut
      <4>2. outcome' = "struck" /\ ~summary'
        BY <1>0, <2>4, <3>4 DEF StrikeOut, CloseWith, turnVars
      <4> QED BY <3>1, <3>2, <4>1, <4>2 DEF EndInv
    <3> QED BY <3>3, <3>4
  <2> QED BY <2>1, <2>2, <2>3, <2>4
<1>9. DoneInv'
  <2>1. CASE Finish
    <3>1. ~Hit(history', erred', n + 1) BY <1>1, <2>1 DEF Finish
    <3> QED BY <1>1, <3>1 DEF DoneInv
  <2>2. CASE GoOn \/ StrikeOne
    <3>1. outcome' # "done" BY <1>3, <2>2 DEF GoOn, StrikeOne
    <3> QED BY <3>1 DEF DoneInv
  <2>3. CASE StrikeOut
    <3>1. Struck /\ streak = MaxStrikes - 1 BY <1>2, <1>3, <2>3 DEF StrikeOut
    <3>2. n + 1 >= MaxStrikes BY <1>2, <1>3, <3>1 DEF StreakInv
    <3>3. ASSUME NEW i \in (n + 1 - MaxStrikes + 1)..n + 1 PROVE Hit(history', erred', i)
      <4>1. CASE i = n + 1 BY <1>1, <3>1, <4>1
      <4>2. CASE i <= n
        <5>1. i \in 1..n /\ i \in (n - streak + 1)..n BY <1>2, <3>1, <3>2, <4>2
        <5>2. Hit(history, erred, i) BY <1>3, <5>1 DEF StreakInv
        <5> QED BY <1>1, <5>1, <5>2
      <4> QED BY <1>2, <3>2, <4>1, <4>2
    <3> QED BY <1>1, <1>2, <3>2, <3>3 DEF DoneInv
  <2> QED BY <2>1, <2>2, <2>3
<1> QED BY <1>4, <1>5, <1>6, <1>7, <1>8, <1>9 DEF IndInv

LEMMA NextInv == IndInv /\ [Next]_vars => IndInv'
<1> SUFFICES ASSUME IndInv, [Next]_vars PROVE IndInv' OBVIOUS
<1>1. CASE UNCHANGED vars
  <2> USE <1>1 DEF vars, turnVars, loopVars, IndInv
  <2>1. TypeOK' BY DEF TypeOK
  <2>2. StreakInv' BY DEF StreakInv, Running, Hit, DetectCycle, Repeats
  <2>3. ReplyInv' BY DEF ReplyInv
  <2>4. BlankInv' BY DEF BlankInv
  <2>5. EndInv' BY DEF EndInv, Running, Hit, DetectCycle, Repeats
  <2>6. DoneInv' BY DEF DoneInv, Hit, DetectCycle, Repeats
  <2> QED BY <2>1, <2>2, <2>3, <2>4, <2>5, <2>6
<1>2. CASE Next BY <1>2, TurnStep, LoopStep, VerdictStep DEF Next
<1> QED BY <1>1, <1>2

\* The invariant of the loop's verdicts holds for any settings and fingerprints.
THEOREM Invariance == Spec => []IndInv
<1> QED BY InitInv, NextInv, PTL DEF Spec

\* Type correctness: the streak stays within its limit, the turns within theirs.
THEOREM TypeCorrect == Spec => []TypeOK
<1>1. IndInv => TypeOK BY DEF IndInv
<1> QED BY <1>1, Invariance, PTL

\* A strike as the code sees it is one as the properties do.
LEMMA HitIsStrike ==
  ASSUME TypeOK, NEW i \in Nat
  PROVE  Hit(history, erred, i) <=> Strike(i)
<1> QED BY CycleIsRepetition DEF Hit, Strike

\* A loop that repeats itself is ended, whichever block it repeats (verdict).
THEOREM NoEndlessRepetition == Spec => []RepetitionEnds
<1>1. ASSUME IndInv PROVE RepetitionEnds
  <2>1. SUFFICES ASSUME phase = "between", NEW k \in 1..MaxPeriod,
                        Periodic(history, Len(history), k * MinCycles + MaxStrikes - 1, k)
                 PROVE  FALSE
    BY DEF RepetitionEnds
  <2> DEFINE n == Len(history)
             K == k * MinCycles
             w == K + MaxStrikes - 1
  <2>2. K \in Nat \ {0}
    <3>1. k \in Nat \ {0} /\ MinCycles \in Nat \ {0} BY LimitAssumption
    <3> QED BY <3>1, SMT
  <2>3. n \in Nat /\ MaxStrikes \in Nat \ {0} /\ streak \in Nat /\ streak < MaxStrikes
        /\ streak <= n
    BY <1>1, <2>1, LimitAssumption DEF IndInv, TypeOK, StreakInv, Running
  <2>4. w \in Nat /\ w <= n /\ Periodic(history, n, w, k)
    <3>1. w \in Nat BY <2>2, <2>3
    <3> QED BY <2>1, <3>1 DEF Periodic
  <2>5. streak < n BY <2>2, <2>3, <2>4
  <2> DEFINE m == n - streak
  <2>6. m \in Nat /\ m <= n /\ K <= w - (n - m) BY <2>2, <2>3, <2>5
  <2>7. Repeats(history, m, k)
    <3> HIDE DEF n, m, w
    <3> QED BY <2>3, <2>4, <2>6, PeriodicRepeats
  <2>8. Hit(history, erred, m) BY <2>7 DEF Hit, DetectCycle
  <2> QED BY <1>1, <2>1, <2>5, <2>8 DEF IndInv, StreakInv, Running
<1> QED BY <1>1, Invariance, PTL

\* A loop does not go on after MaxStrikes strikes, silent turns being strikes.
THEOREM NoEndlessFailing == Spec => []StrikesEnd
<1>1. ASSUME IndInv PROVE StrikesEnd
  <2>1. SUFFICES ASSUME phase = "between", Len(history) >= MaxStrikes
                 PROVE  \E i \in (Len(history) - MaxStrikes + 1)..Len(history) :
                          ~Strike(i) /\ history[i] \notin Blanks \cup {Silent}
    BY DEF StrikesEnd
  <2> DEFINE n == Len(history)
             m == n - streak
  <2>2. n \in Nat /\ MaxStrikes \in Nat \ {0} /\ streak \in Nat /\ streak < MaxStrikes
    BY <1>1, <2>1, LimitAssumption DEF IndInv, TypeOK, StreakInv, Running
  <2>3. m \in (n - MaxStrikes + 1)..n /\ m \in 1..n /\ streak < n BY <2>1, <2>2
  <2>4. ~Hit(history, erred, m) BY <1>1, <2>1, <2>3 DEF IndInv, StreakInv, Running
  <2>5. ~Strike(m)
    <3>1. m \in Nat /\ TypeOK BY <1>1, <2>3 DEF IndInv
    <3> HIDE DEF m
    <3> QED BY <2>4, <3>1, HitIsStrike
  <2>6. history[m] \notin Blanks \cup {Silent}
    BY <1>1, <2>3, <2>4 DEF IndInv, BlankInv, Hit
  <2> HIDE DEF m
  <2> QED BY <2>3, <2>5, <2>6
<1> QED BY <1>1, Invariance, PTL

\* A loop that is given up had MaxStrikes turns in a row that deserved it.
THEOREM NoHastyEnd == Spec => []StruckForCause
<1>1. ASSUME IndInv PROVE StruckForCause
  <2>1. SUFFICES ASSUME outcome = "struck"
                 PROVE  /\ Len(history) >= MaxStrikes
                        /\ \A i \in (Len(history) - MaxStrikes + 1)..Len(history) : Strike(i)
    BY DEF StruckForCause, StrikesUp
  <2>2. streak = MaxStrikes /\ MaxStrikes \in Nat /\ Len(history) \in Nat /\ streak <= Len(history)
    BY <1>1, <2>1, LimitAssumption DEF IndInv, TypeOK, StreakInv, EndInv
  <2>3. ASSUME NEW i \in (Len(history) - MaxStrikes + 1)..Len(history) PROVE Strike(i)
    <3>1. Hit(history, erred, i) BY <1>1, <2>2 DEF IndInv, StreakInv
    <3>2. i \in Nat /\ TypeOK BY <1>1, <2>2 DEF IndInv
    <3> QED BY <3>1, <3>2, HitIsStrike
  <2> QED BY <2>2, <2>3
<1> QED BY <1>1, Invariance, PTL

\* The model's 200 ends the loop except on a turn that is a strike, and on a strike only if
\* that would give the loop up (error.js:128-160; SPEC.md:550-554 has no such exception).
THEOREM TerminalHeard == Spec => []TerminalCounts
<1>1. ASSUME IndInv PROVE TerminalCounts
  <2>1. ASSUME phase = "between", history # <<>>, history[Len(history)] \in Terminals
        PROVE  Strike(Len(history))
    <3>1. TypeOK /\ Len(history) \in Nat BY <1>1 DEF IndInv, TypeOK
    <3>2. Hit(history, erred, Len(history)) BY <1>1, <2>1 DEF IndInv, EndInv
    <3> QED BY <3>1, <3>2, HitIsStrike
  <2>2. ASSUME outcome = "done", Strike(Len(history)) PROVE StrikesUp
    <3>1. TypeOK /\ Len(history) \in Nat /\ MaxStrikes \in Nat
      BY <1>1, LimitAssumption DEF IndInv, TypeOK
    <3>2. Hit(history, erred, Len(history)) BY <2>2, <3>1, HitIsStrike
    <3>3. /\ Len(history) >= MaxStrikes
          /\ \A i \in (Len(history) - MaxStrikes + 1)..Len(history) : Hit(history, erred, i)
      BY <1>1, <2>2, <3>2 DEF IndInv, DoneInv
    <3>4. ASSUME NEW i \in (Len(history) - MaxStrikes + 1)..Len(history) PROVE Strike(i)
      <4>1. i \in Nat BY <3>1, <3>3
      <4> QED BY <3>1, <3>3, <4>1, HitIsStrike
    <3> QED BY <3>3, <3>4 DEF StrikesUp
  <2> QED BY <1>1, <2>1, <2>2 DEF IndInv, EndInv, TerminalCounts
<1> QED BY <1>1, Invariance, PTL

-----------------------------------------------------------------------------
(* More properties, for which the runs have no room *)

\* The steps that a loop has left at most: six for each turn to come, and those of its turn.
StepsLeft ==
  6 * (MaxTurns - iter) + (IF turnErrors THEN 0 ELSE 1) + (IF failed THEN 0 ELSE 1)
    + CASE phase = "asked" -> 3 [] phase = "dispatch" -> 2 [] phase = "replied" -> 1
        [] OTHER -> 0

\* A loop that is going on ends within a number of steps that is fixed by its limit of turns,
\* whatever the model replies, whatever fails and however the strikes come and go: no turn is
\* judged twice or gone back to, and none is begun over the limit (AgentLoop.js, #executeLoop).
LoopsBounded ==
  [][phase \notin {"off", "over"} =>
       /\ StepsLeft >= 0
       /\ phase' \in {"off", "over"} \/ StepsLeft' < StepsLeft]_vars

\* A loop cannot go on for ever.
THEOREM LoopsEnd == Spec => LoopsBounded
<1> DEFINE Step == phase \notin {"off", "over"} =>
                     /\ StepsLeft >= 0
                     /\ phase' \in {"off", "over"} \/ StepsLeft' < StepsLeft
<1>1. TypeOK /\ [Next]_vars => [Step]_vars
  <2> SUFFICES ASSUME TypeOK, Next, vars' # vars, phase \notin {"off", "over"},
                      phase' \notin {"off", "over"}
               PROVE  StepsLeft' < StepsLeft
    <3>1. TypeOK => MaxTurns - iter \in Nat
      BY LimitAssumption DEF TypeOK
    <3>2. TypeOK => StepsLeft >= 0
      BY <3>1 DEF StepsLeft
    <3> QED BY <3>2
  <2>t. iter \in Int /\ MaxTurns \in Int /\ turnErrors \in BOOLEAN /\ failed \in BOOLEAN
    BY LimitAssumption DEF TypeOK
  <2>1. CASE StartTurn
    BY <2>t, <2>1 DEF StartTurn, StepsLeft
  <2>2. CASE LogOverflow
    BY <2>t, <2>2 DEF LogOverflow, StepsLeft
  <2>3. CASE CallFails
    BY <2>t, <2>3 DEF CallFails, StepsLeft
  <2>4. CASE Reply
    <3>1. phase = "asked" /\ phase' = "dispatch" /\ iter' = iter /\ failed' = failed
      BY <2>4 DEF Reply
    <3>2. turnErrors' = turnErrors \/ turnErrors' = TRUE
      BY <2>4 DEF Reply
    <3> QED BY <2>t, <3>1, <3>2 DEF StepsLeft
  <2>5. CASE EntryFails
    <3>1. iter' = iter /\ phase = "dispatch" /\ phase' = "dispatch" /\ turnErrors' = TRUE
      BY <2>5 DEF EntryFails
    <3>2. failed' = failed \/ failed' = TRUE
      BY <2>5 DEF EntryFails
    <3>3. turnErrors' # turnErrors \/ failed' # failed
      <4>1. UNCHANGED <<phase, iter, outcome, reply, summary, loopVars>>
        BY <2>5 DEF EntryFails
      <4> QED BY <4>1 DEF vars, turnVars, loopVars
    <3>4. turnErrors = FALSE \/ (failed = FALSE /\ failed' = TRUE)
      BY <2>t, <3>1, <3>2, <3>3
    <3> QED BY <2>t, <3>1, <3>2, <3>4 DEF StepsLeft
  <2>6. CASE Resolve
    BY <2>t, <2>6 DEF Resolve, StepsLeft
  <2>7. CASE GoOn \/ StrikeOne
    <3>1. /\ phase = "replied" /\ phase' = "between" /\ iter' = iter
          /\ turnErrors' = turnErrors /\ failed' = failed
      BY <2>7 DEF GoOn, StrikeOne, PushTurn, turnVars
    <3> QED BY <2>t, <3>1 DEF StepsLeft
  <2>8. CASE StartLoop \/ RunOut \/ Aborted \/ Throws \/ Crash \/ Finish \/ StrikeOut
    BY <2>8 DEF StartLoop, RunOut, Aborted, Throws, Crash, Finish, StrikeOut, CloseWith
  <2> QED BY <2>1, <2>2, <2>3, <2>4, <2>5, <2>6, <2>7, <2>8 DEF Next
<1> QED BY <1>1, TypeCorrect, PTL DEF Spec, LoopsBounded
=============================================================================
