--------------------------- MODULE Budget_proofs ---------------------------
(***************************************************************************)
(* Proofs about Budget, for any sizes, ceiling, slack and bounds.          *)
(***************************************************************************)
EXTENDS Budget, FiniteSetTheorems, TLAPS

\* What the packet is above the ceiling is the estimate and what cleared entries still take.
EstimateInv ==
  /\ phase \in {"grind", "refused"} => packet - Ceiling <= remaining + Slack * Cardinality(cleared)
  /\ phase = "refused" => remaining = 0 \/ Candidates = {}

\* A replay that was cleared counts for nothing from then on.
OnceInv ==
  \A i \in Positions : log[i].kind = "replay" =>
    log[i].clears = 0 \/ (log[i].clears = 1 /\ Tokens(log[i]) = 0)

Told(i) ==
  \E j \in Positions :
    log[j].kind = "error" /\ log[j].about = i /\ log[j].loop = loop /\ log[j].turn = turn

\* Every entry this enforcement has cleared is told of, but the one it is about to report.
ToldInv ==
  /\ pending # 0 => phase = "grind"
  /\ phase \in {"grind", "sent", "refused"} => \A i \in cleared : i = pending \/ Told(i)
  /\ phase \in {"sent", "refused"} /\ cleared # {} => Told(0)

IndInv == TypeOK /\ EstimateInv /\ OnceInv /\ ToldInv

USE SizesAssumption, BoundsAssumption

-----------------------------------------------------------------------------
(* The log *)

\* A new entry at the end changes no candidate and no told entry, and is no candidate if it
\* is an error.
LEMMA AppendFacts ==
  ASSUME TypeOK, NEW e \in Entry, log' = Append(log, e)
  PROVE  /\ log' \in Seq(Entry) /\ Len(log') = Len(log) + 1
         /\ log'[Len(log) + 1] = e
         /\ \A i \in Positions : i \in Positions' /\ log'[i] = log[i]
         /\ \A i \in Positions' : i \in Positions \/ i = Len(log) + 1
         /\ Len(log) + 1 \in Positions'
<1>1. log \in Seq(Entry) /\ Len(log) \in Nat
  BY DEF TypeOK
<1>2. Len(log') = Len(log) + 1 /\ log'[Len(log) + 1] = e /\ \A i \in 1..Len(log) : log'[i] = log[i]
  BY <1>1
<1>3. log' \in Seq(Entry)
  BY <1>1
<1> QED BY <1>1, <1>2, <1>3 DEF Positions

LEMMA NewEntryFits ==
  ASSUME TypeOK, NEW kind \in {"replay", "notice", "error", "other"}, NEW s \in Nat, NEW about \in Nat
  PROVE  /\ NewEntry(kind, s, about) \in Entry
         /\ NewEntry(kind, s, about).kind = kind /\ NewEntry(kind, s, about).about = about
         /\ NewEntry(kind, s, about).loop = loop /\ NewEntry(kind, s, about).turn = turn
         /\ NewEntry(kind, s, about).clears = 0
BY DEF TypeOK, NewEntry, Entry

\* What appending an entry keeps of the invariant.
LEMMA AppendKeeps ==
  ASSUME IndInv, NEW e \in Entry, e.clears = 0, log' = Append(log, e)
  PROVE  /\ OnceInv'
         /\ \A i : Told(i) /\ loop' = loop /\ turn' = turn => Told(i)'
<1>1. /\ log'[Len(log) + 1] = e
      /\ \A i \in Positions : i \in Positions' /\ log'[i] = log[i]
      /\ \A i \in Positions' : i \in Positions \/ i = Len(log) + 1
  BY AppendFacts DEF IndInv
<1>2. OnceInv'
  BY <1>1 DEF IndInv, OnceInv, Tokens
<1>3. \A i : Told(i) /\ loop' = loop /\ turn' = turn => Told(i)'
  BY <1>1 DEF Told
<1> QED BY <1>2, <1>3

-----------------------------------------------------------------------------
(* Clearing *)

LEMMA EmptiedFits ==
  ASSUME NEW e \in Entry
  PROVE  /\ Emptied(e) \in Entry
         /\ Emptied(e).kind = e.kind /\ Emptied(e).clears = e.clears + 1
         /\ Emptied(e).loop = e.loop /\ Emptied(e).turn = e.turn /\ Emptied(e).about = e.about
         /\ e.kind = "replay" => Tokens(Emptied(e)) = 0
<1> DEFINE sh == e.loop = 0
           sz == IF e.kind = "replay" /\ e.loop # 0 THEN 0 ELSE e.size
<1>1. Emptied(e) = [e EXCEPT !.clears = @ + 1, !.shadowed = sh, !.size = sz]
  BY DEF Emptied, Entry
<1>2. sh \in BOOLEAN /\ sz \in Nat /\ e.clears + 1 \in Nat
  BY DEF Entry
<1>3. e.kind = "replay" => sh \/ sz = 0
  BY DEF Entry
<1> HIDE DEF sh, sz
<1>4. /\ Emptied(e) \in Entry /\ Emptied(e).kind = e.kind /\ Emptied(e).clears = e.clears + 1
      /\ Emptied(e).loop = e.loop /\ Emptied(e).turn = e.turn /\ Emptied(e).about = e.about
      /\ Emptied(e).shadowed = sh /\ Emptied(e).size = sz
  BY <1>1, <1>2 DEF Entry
<1>5. e.kind = "replay" => Tokens(Emptied(e)) = 0
  BY <1>3, <1>4 DEF Tokens
<1> QED BY <1>4, <1>5

LEMMA ClearNextKeeps ==
  ASSUME IndInv, ClearNext
  PROVE  IndInv'
<1>t. TypeOK
  BY DEF IndInv
<1>1. PICK i \in Candidates :
        /\ \E d \in 0..Slack : packet' = packet - Tokens(log[i]) + d
        /\ remaining' = IF remaining > Tokens(log[i]) THEN remaining - Tokens(log[i]) ELSE 0
        /\ log' = [log EXCEPT ![i] = Emptied(@)]
        /\ cleared' = cleared \cup {i}
        /\ pending' = i
  BY DEF ClearNext
<1>2. /\ phase = "grind" /\ phase' = phase /\ pending = 0
      /\ loop' = loop /\ turn' = turn /\ catalog' = catalog
  BY DEF ClearNext
<1>3. PICK d \in 0..Slack : packet' = packet - Tokens(log[i]) + d
  BY <1>1
<1>4. i \in Positions /\ i \notin cleared /\ log[i] \in Entry /\ Tokens(log[i]) \in Nat /\ Tokens(log[i]) > 0
  <2>1. i \in Positions /\ i \notin cleared /\ Tokens(log[i]) > 0
    BY DEF Candidates
  <2>2. log[i] \in Entry
    BY <1>t, <2>1 DEF TypeOK, Positions
  <2> QED BY <2>1, <2>2 DEF Tokens, Entry
<1>5. /\ log' \in Seq(Entry) /\ Len(log') = Len(log) /\ Positions' = Positions
      /\ log'[i] = Emptied(log[i])
      /\ \A j \in Positions : j # i => log'[j] = log[j]
  <2>1. Emptied(log[i]) \in Entry
    BY <1>4, EmptiedFits
  <2> QED BY <1>t, <1>1, <1>4, <2>1 DEF TypeOK, Positions
<1>6. TypeOK'
  <2>1. packet' \in Int /\ remaining' \in Nat
    BY <1>t, <1>1, <1>3, <1>4 DEF TypeOK
  <2>2. cleared' \subseteq Positions' /\ pending' \in {0} \cup cleared'
    BY <1>t, <1>1, <1>4, <1>5 DEF TypeOK
  <2> QED BY <1>t, <1>2, <1>5, <2>1, <2>2 DEF TypeOK
<1>7. EstimateInv'
  <2>1. IsFiniteSet(cleared)
    <3>1. 1 \in Int /\ Len(log) \in Int /\ cleared \in SUBSET (1..Len(log))
      BY <1>t DEF TypeOK, Positions
    <3>2. IsFiniteSet(1..Len(log))
      BY <3>1, FS_Interval
    <3> QED BY <3>1, <3>2, FS_Subset
  <2>2. Cardinality(cleared) \in Nat /\ Cardinality(cleared') = Cardinality(cleared) + 1
    BY <1>1, <1>4, <2>1, FS_AddElement, FS_CardinalityType
  <2>3. Slack * (Cardinality(cleared) + 1) = Slack * Cardinality(cleared) + Slack
        /\ Slack * Cardinality(cleared) \in Nat
    BY <2>2
  <2>4. packet - Ceiling <= remaining + Slack * Cardinality(cleared)
    BY <1>2 DEF IndInv, EstimateInv
  <2>5. packet' - Ceiling <= remaining' + Slack * Cardinality(cleared')
    <3> DEFINE c == Slack * Cardinality(cleared)
    <3>1. c \in Nat /\ Slack * Cardinality(cleared') = c + Slack /\ packet - Ceiling <= remaining + c
      BY <2>2, <2>3, <2>4
    <3> DEFINE k == Tokens(log[i])
    <3>2. /\ k \in Nat /\ packet \in Int /\ remaining \in Nat /\ Ceiling \in Nat /\ Slack \in Nat
          /\ packet' = packet - k + d /\ d \in Int /\ d <= Slack
          /\ remaining' = IF remaining > k THEN remaining - k ELSE 0
      BY <1>t, <1>1, <1>3, <1>4 DEF TypeOK
    <3> HIDE DEF c, k
    <3>3. packet' - Ceiling <= remaining' + (c + Slack)
      BY <3>1, <3>2
    <3> QED BY <3>1, <3>3
  <2> QED BY <1>2, <2>5 DEF EstimateInv
<1>8. OnceInv'
  <2> SUFFICES ASSUME NEW j \in Positions, log'[j].kind = "replay"
      PROVE log'[j].clears = 0 \/ (log'[j].clears = 1 /\ Tokens(log'[j]) = 0)
    BY <1>5 DEF OnceInv, Tokens
  <2>1. CASE j = i
    <3>1. /\ log'[j].clears = log[i].clears + 1 /\ log[i].kind = "replay"
          /\ Tokens(log'[j]) = 0
      BY <1>4, <1>5, <2>1, EmptiedFits
    <3>2. log[i].clears = 0
      BY <1>4, <3>1 DEF IndInv, OnceInv
    <3> QED BY <3>1, <3>2
  <2>2. CASE j # i
    BY <1>5, <2>2 DEF IndInv, OnceInv
  <2> QED BY <2>1, <2>2
<1>9. ToldInv'
  <2>1. \A j : Told(j) => Told(j)'
    <3>1. \A j \in Positions : log'[j].kind = log[j].kind /\ log'[j].about = log[j].about
                               /\ log'[j].loop = log[j].loop /\ log'[j].turn = log[j].turn
      BY <1>4, <1>5, EmptiedFits
    <3> QED BY <1>2, <1>5, <3>1 DEF Told
  <2>2. \A j \in cleared : Told(j)
    <3>1. 0 \notin cleared
      BY <1>t DEF TypeOK, Positions
    <3> QED BY <1>2, <3>1 DEF IndInv, ToldInv
  <2> QED BY <1>1, <1>2, <2>1, <2>2 DEF ToldInv
<1> QED BY <1>6, <1>7, <1>8, <1>9 DEF IndInv

LEMMA ReportKeeps ==
  ASSUME IndInv, Report
  PROVE  IndInv'
<1>t. TypeOK
  BY DEF IndInv
<1> DEFINE e == NewEntry("error", ErrorSize, pending)
<1>1. /\ pending # 0 /\ phase = "grind" /\ log' = Append(log, e) /\ pending' = 0
      /\ loop' = loop /\ turn' = turn /\ catalog' = catalog /\ phase' = phase
      /\ packet' = packet /\ remaining' = remaining /\ cleared' = cleared
  BY DEF Report, IndInv, ToldInv
<1>2. e \in Entry /\ e.kind = "error" /\ e.about = pending /\ e.loop = loop /\ e.turn = turn /\ e.clears = 0
  <2>1. pending \in Nat
    BY <1>t DEF TypeOK, Positions
  <2> QED BY <1>t, <2>1, NewEntryFits
<1> HIDE DEF e
<1>3. /\ log' \in Seq(Entry) /\ log'[Len(log) + 1] = e /\ Len(log) + 1 \in Positions'
      /\ \A i \in Positions : i \in Positions'
  BY <1>t, <1>1, <1>2, AppendFacts
<1>4. TypeOK'
  BY <1>t, <1>1, <1>3 DEF TypeOK
<1>5. OnceInv' /\ \A i : Told(i) => Told(i)'
  BY <1>1, <1>2, AppendKeeps
<1>6. EstimateInv'
  BY <1>1 DEF IndInv, EstimateInv
<1>7. ToldInv'
  <2>1. ASSUME NEW i \in cleared, i = pending PROVE Told(i)'
    BY <1>1, <1>2, <1>3, <2>1 DEF Told
  <2>2. \A i \in cleared : Told(i)'
    <3>1. \A i \in cleared : i = pending \/ Told(i)
      BY <1>1 DEF IndInv, ToldInv
    <3> QED BY <1>5, <2>1, <3>1
  <2> QED BY <1>1, <2>2 DEF ToldInv
<1> QED BY <1>4, <1>5, <1>6, <1>7 DEF IndInv

LEMMA SettleKeeps ==
  ASSUME IndInv, Settle
  PROVE  IndInv'
<1>t. TypeOK
  BY DEF IndInv
<1> DEFINE e == NewEntry("error", ErrorSize, 0)
<1>1. /\ phase = "grind" /\ pending = 0 /\ (remaining = 0 \/ Candidates = {})
      /\ packet' = IF cleared = {} THEN packet ELSE packet - Persona
      /\ phase' \in {"sent", "refused"} /\ log' = Append(log, e)
      /\ loop' = loop /\ turn' = turn /\ catalog' = catalog
      /\ remaining' = remaining /\ cleared' = cleared /\ pending' = pending
  BY DEF Settle
<1>2. e \in Entry /\ e.kind = "error" /\ e.about = 0 /\ e.loop = loop /\ e.turn = turn /\ e.clears = 0
  BY <1>t, NewEntryFits
<1> HIDE DEF e
<1>3. /\ log' \in Seq(Entry) /\ log'[Len(log) + 1] = e /\ Len(log) + 1 \in Positions'
      /\ \A i \in Positions : i \in Positions' /\ log'[i] = log[i]
      /\ \A i \in Positions' : i \in Positions \/ i = Len(log) + 1
  BY <1>t, <1>1, <1>2, AppendFacts
<1>4. TypeOK'
  <2>1. packet' \in Int
    BY <1>t, <1>1 DEF TypeOK
  <2> QED BY <1>t, <1>1, <1>3, <2>1 DEF TypeOK
<1>5. OnceInv' /\ \A i : Told(i) => Told(i)'
  BY <1>1, <1>2, AppendKeeps
<1>6. EstimateInv'
  <2>1. packet' <= packet
    BY <1>t, <1>1 DEF TypeOK
  <2>2. packet - Ceiling <= remaining + Slack * Cardinality(cleared)
    BY <1>1 DEF IndInv, EstimateInv
  <2>3. packet' - Ceiling <= remaining' + Slack * Cardinality(cleared')
    <3>1. packet \in Int /\ packet' \in Int /\ remaining \in Int /\ Ceiling \in Int
      BY <1>t, <1>4 DEF TypeOK
    <3>2. Cardinality(cleared) \in Nat
      <4>1. 1 \in Int /\ Len(log) \in Int /\ cleared \in SUBSET (1..Len(log))
        BY <1>t DEF TypeOK, Positions
      <4>2. IsFiniteSet(1..Len(log))
        BY <4>1, FS_Interval
      <4> QED BY <4>1, <4>2, FS_Subset, FS_CardinalityType
    <3> DEFINE c == Slack * Cardinality(cleared)
    <3>3. c \in Int /\ packet - Ceiling <= remaining + c
      BY <2>2, <3>2
    <3> HIDE DEF c
    <3>4. \A x, y, z, r \in Int : y <= x /\ x - Ceiling <= r + z => y - Ceiling <= r + z
      BY <3>1
    <3>5. packet' - Ceiling <= remaining + c
      BY <2>1, <3>1, <3>3, <3>4
    <3> QED BY <1>1, <3>5 DEF c
  <2>4. Candidates' \subseteq Candidates
    BY <1>1, <1>2, <1>3 DEF Candidates, Tokens
  <2> QED BY <1>1, <2>3, <2>4 DEF EstimateInv
<1>7. ToldInv'
  <2>1. Told(0)'
    BY <1>1, <1>2, <1>3 DEF Told
  <2>2. \A i \in cleared : Told(i)'
    <3>1. 0 \notin cleared
      BY <1>t DEF TypeOK, Positions
    <3>2. \A i \in cleared : Told(i)
      BY <1>1, <3>1 DEF IndInv, ToldInv
    <3> QED BY <1>5, <3>2
  <2> QED BY <1>1, <2>1, <2>2 DEF ToldInv
<1> QED BY <1>4, <1>5, <1>6, <1>7 DEF IndInv

-----------------------------------------------------------------------------
(* Loops and turns *)

LEMMA ReplyKeeps ==
  ASSUME IndInv, Reply
  PROVE  IndInv'
<1>t. TypeOK
  BY DEF IndInv
<1>1. /\ phase = "sent" /\ phase' \in {"between", "out"} /\ catalog' \in Catalogs
      /\ loop' = loop /\ turn' = turn /\ packet' = packet /\ remaining' = remaining
      /\ cleared' = cleared /\ pending' = pending
  BY DEF Reply
<1>2. pending = 0
  BY <1>1 DEF IndInv, ToldInv
<1>3. /\ log' \in Seq(Entry) /\ OnceInv'
      /\ \A i \in Positions : i \in Positions'
  <2>1. CASE log' = log
    BY <1>t, <2>1 DEF TypeOK, IndInv, OnceInv, Positions, Tokens
  <2>2. ASSUME NEW kind \in {"replay", "notice", "other"}, NEW s \in Sizes,
               log' = Append(log, NewEntry(kind, s, 0))
        PROVE  /\ log' \in Seq(Entry) /\ OnceInv'
               /\ \A i \in Positions : i \in Positions'
    <3>1. NewEntry(kind, s, 0) \in Entry /\ NewEntry(kind, s, 0).clears = 0
      BY <1>t, NewEntryFits
    <3> QED BY <1>t, <2>2, <3>1, AppendFacts, AppendKeeps
  <2> QED BY <2>1, <2>2 DEF Reply
<1>4. TypeOK'
  BY <1>t, <1>1, <1>3 DEF TypeOK
<1> QED BY <1>1, <1>2, <1>3, <1>4 DEF IndInv, EstimateInv, ToldInv

LEMMA StartTurnKeeps ==
  ASSUME IndInv, StartTurn
  PROVE  IndInv'
<1>t. TypeOK
  BY DEF IndInv
<1>1. PICK p \in 0..MaxTokens :
        /\ packet' = p
        /\ IF p <= Ceiling THEN phase' = "sent" /\ remaining' = 0
                           ELSE phase' = "grind" /\ remaining' = p - Ceiling
  BY DEF StartTurn, Fits
<1>2. /\ phase = "between" /\ turn < MaxTurns /\ turn' = turn + 1 /\ cleared' = {}
      /\ loop' = loop /\ log' = log /\ catalog' = catalog /\ pending' = pending
  BY DEF StartTurn
<1>3. pending = 0
  BY <1>2 DEF IndInv, ToldInv
<1>4. TypeOK'
  BY <1>t, <1>1, <1>2, <1>3 DEF TypeOK, Positions
<1>5. EstimateInv'
  <2>1. Cardinality(cleared') = 0
    BY <1>2, FS_EmptySet
  <2>2. Slack * 0 = 0
    OBVIOUS
  <2> QED BY <1>1, <2>1, <2>2 DEF EstimateInv
<1>6. OnceInv'
  BY <1>2 DEF IndInv, OnceInv, Positions, Tokens
<1>7. ToldInv'
  BY <1>2, <1>3 DEF ToldInv
<1> QED BY <1>4, <1>5, <1>6, <1>7 DEF IndInv

\* Steps that touch neither log nor packet and leave the enforcement.
LEMMA LeaveKeeps ==
  ASSUME IndInv, StartLoop \/ Refused \/ Stop \/ Crash
  PROVE  IndInv'
<1>t. TypeOK
  BY DEF IndInv
<1>1. /\ phase' \in {"between", "out"} /\ log' = log /\ packet' = packet /\ catalog' = catalog
      /\ pending' = 0
      /\ cleared' = cleared \/ cleared' = {}
      /\ remaining' = remaining \/ remaining' = 0
      /\ loop' \in 0..MaxLoops /\ turn' \in 0..MaxTurns
  BY <1>t DEF StartLoop, Refused, Stop, Crash, IndInv, ToldInv, TypeOK
<1>2. TypeOK'
  <2>1. phase' \in {"out", "between", "grind", "sent", "refused"}
    BY <1>1
  <2>2. cleared' \subseteq Positions' /\ pending' \in {0} \cup cleared'
    BY <1>t, <1>1 DEF TypeOK, Positions
  <2>3. packet' \in Int /\ remaining' \in Nat /\ log' \in Seq(Entry) /\ catalog' \in Catalogs
    BY <1>t, <1>1 DEF TypeOK
  <2> QED BY <1>1, <2>1, <2>2, <2>3 DEF TypeOK
<1>3. OnceInv'
  BY <1>1 DEF IndInv, OnceInv, Positions, Tokens
<1> QED BY <1>1, <1>2, <1>3 DEF IndInv, EstimateInv, ToldInv

-----------------------------------------------------------------------------
(* The inductive invariant *)

LEMMA InitFits == Init => IndInv
<1> SUFFICES ASSUME Init PROVE IndInv
  OBVIOUS
<1>1. loop = 0 /\ turn = 0
  BY DEF Init
<1>2. log \in Seq(Entry) /\ \A i \in Positions : log[i].clears = 0
  <2>1. CASE log = <<>>
    BY <2>1 DEF Positions
  <2>2. ASSUME NEW s \in Sizes, NEW t \in 1..MaxTurns,
               log = <<[NewEntry("replay", s, 0) EXCEPT !.turn = t]>>
        PROVE  log \in Seq(Entry) /\ \A i \in Positions : log[i].clears = 0
    <3> DEFINE e == [NewEntry("replay", s, 0) EXCEPT !.turn = t]
    <3>1. NewEntry("replay", s, 0) \in Entry /\ NewEntry("replay", s, 0).clears = 0
      BY <1>1 DEF NewEntry, Entry
    <3>2. t \in Nat
      OBVIOUS
    <3>3. e \in Entry /\ e.clears = 0
      BY <3>1, <3>2 DEF Entry
    <3> HIDE DEF e
    <3>4. log = <<e>>
      BY <2>2 DEF e
    <3>5. log \in Seq(Entry) /\ Len(log) = 1 /\ log[1] = e
      BY <3>3, <3>4
    <3> QED BY <3>3, <3>5 DEF Positions
  <2> QED BY <2>1, <2>2 DEF Init
<1>3. TypeOK
  BY <1>2 DEF Init, TypeOK, Positions
<1> QED BY <1>2, <1>3 DEF Init, IndInv, EstimateInv, OnceInv, ToldInv

LEMMA Inductive == Spec => []IndInv
<1>1. IndInv /\ [Next]_vars => IndInv'
  <2> SUFFICES ASSUME IndInv, [Next]_vars PROVE IndInv'
    OBVIOUS
  <2>1. CASE StartLoop \/ Refused \/ Stop \/ Crash
    BY <2>1, LeaveKeeps
  <2>2. CASE StartTurn
    BY <2>2, StartTurnKeeps
  <2>3. CASE Reply
    BY <2>3, ReplyKeeps
  <2>4. CASE ClearNext
    BY <2>4, ClearNextKeeps
  <2>5. CASE Report
    BY <2>5, ReportKeeps
  <2>6. CASE Settle
    BY <2>6, SettleKeeps
  <2>7. CASE UNCHANGED vars
    BY <2>7 DEF vars, IndInv, TypeOK, EstimateInv, OnceInv, ToldInv, Told, Positions, Candidates, Tokens
  <2> QED BY <2>1, <2>2, <2>3, <2>4, <2>5, <2>6, <2>7 DEF Next
<1> QED BY <1>1, InitFits, PTL DEF Spec

-----------------------------------------------------------------------------
(* The properties *)

\* budget.js keeps its counters and the log to their types: the estimate never goes below 0
\* and what is reported has been cleared.
THEOREM TypeCorrect == Spec => []TypeOK
BY Inductive, PTL DEF IndInv

\* A hard 413 with candidates left is a near miss: for any sizes, ceiling and slack.
THEOREM EstimateClose == Spec => []NearMiss
<1>1. IndInv => NearMiss
  <2> SUFFICES ASSUME IndInv, phase = "refused", Candidates # {}
      PROVE packet - Ceiling <= Slack * Cardinality(cleared)
    BY DEF NearMiss
  <2>1. remaining = 0 /\ packet - Ceiling <= remaining + Slack * Cardinality(cleared)
    BY DEF IndInv, EstimateInv
  <2>2. Cardinality(cleared) \in Nat
    <3>1. 1 \in Int /\ Len(log) \in Int /\ cleared \in SUBSET (1..Len(log))
      BY DEF IndInv, TypeOK, Positions
    <3>2. IsFiniteSet(1..Len(log))
      BY <3>1, FS_Interval
    <3> QED BY <3>1, <3>2, FS_Subset, FS_CardinalityType
  <2> QED BY <2>1, <2>2
<1> QED BY <1>1, Inductive, PTL

\* A cleared body stays cleared, in a fork too.
THEOREM Once == Spec => []BodiesClearedOnce
<1>1. IndInv => BodiesClearedOnce
  BY DEF IndInv, OnceInv, BodiesClearedOnce
<1> QED BY <1>1, Inductive, PTL

\* No packet goes out, or is refused, before its missing entries are told of.
THEOREM ToldFirst == Spec => []ToldBeforeSent
<1>1. IndInv => ToldBeforeSent
  <2> SUFFICES ASSUME IndInv, phase \in {"sent", "refused"}, cleared # {}, NEW i \in cleared \cup {0}
      PROVE Told(i)
    BY DEF ToldBeforeSent, Told
  <2>1. pending = 0
    BY DEF IndInv, ToldInv
  <2>2. 0 \notin cleared
    BY DEF IndInv, TypeOK, Positions
  <2> QED BY <2>1, <2>2 DEF IndInv, ToldInv
<1> QED BY <1>1, Inductive, PTL

-----------------------------------------------------------------------------
(* How long enforcement takes, what it may touch, and what it costs the run *)

\* Enforcement ends: clearing takes an entry from the candidates, reporting it adds none, so
\* after at most two steps for each candidate of the turn the packet is measured again.
EnforceAdvances ==
  [][phase = "grind" =>
       \/ phase' # "grind"
       \/ pending = 0 /\ Candidates' \subseteq Candidates /\ Candidates' # Candidates
       \/ pending # 0 /\ pending' = 0 /\ Candidates' = Candidates]_vars

\* The log only grows, and what stands in it keeps its place, kind, turn and loop; only get
\* and set entries of turns before the current one are ever changed, each by the enforcement
\* that from then on counts it as cleared.
HistoryKept ==
  [][/\ Len(log) <= Len(log')
     /\ \A i \in Positions :
          \/ log'[i] = log[i]
          \/ /\ phase = "grind" /\ i \in cleared' \ cleared
             /\ log[i].kind \in {"replay", "notice"} /\ log[i].turn < turn
             /\ log'[i] = Emptied(log[i])]_vars

\* An old body costs the run one error entry at most: however many turns, loops and restarts
\* follow, no second entry tells of its clearing.
ReplayToldOnce ==
  \A j, k \in Positions :
    /\ log[j].kind = "error" /\ log[k].kind = "error" /\ log[j].about = log[k].about
    /\ log[j].about # 0 /\ log[log[j].about].kind = "replay"
    => j = k

\* The four things a step does to the log: nothing, clearing entry i, reporting the entry
\* that was cleared, or adding entry e that reports no clearing.
Leaves == log' = log /\ pending' \in {0, pending} /\ (phase = "grind" => phase' # "grind")

Clears(i) ==
  /\ phase = "grind" /\ pending = 0 /\ UNCHANGED <<phase, turn>>
  /\ i \in Candidates
  /\ log' = [log EXCEPT ![i] = Emptied(@)]
  /\ cleared' = cleared \cup {i} /\ pending' = i

Reports(e) ==
  /\ phase = "grind" /\ pending # 0 /\ pending' = 0 /\ UNCHANGED <<phase, turn, cleared>>
  /\ log' = Append(log, e) /\ e.kind = "error" /\ e.about = pending /\ e.clears = 0

Adds(e) ==
  /\ pending = 0 /\ pending' = 0 /\ phase' # "grind"
  /\ log' = Append(log, e) /\ e.clears = 0 /\ (e.kind = "error" => e.about = 0)

LEMMA LogKinds ==
  ASSUME IndInv, [Next]_vars
  PROVE  \/ Leaves \/ UNCHANGED vars
         \/ \E i \in Positions : Clears(i)
         \/ \E e \in Entry : Reports(e) \/ Adds(e)
<1>t. TypeOK /\ ToldInv
  BY DEF IndInv
<1>1. CASE StartLoop \/ StartTurn \/ Refused \/ Stop \/ Crash
  BY <1>1 DEF StartLoop, StartTurn, Refused, Stop, Crash, Leaves
<1>2. CASE Reply
  <2>1. CASE log' = log
    BY <1>2, <2>1 DEF Reply, Leaves
  <2>2. ASSUME NEW kind \in {"replay", "notice", "other"}, NEW s \in Sizes,
               log' = Append(log, NewEntry(kind, s, 0))
        PROVE  \E e \in Entry : Adds(e)
    <3> DEFINE e == NewEntry(kind, s, 0)
    <3>1. e \in Entry /\ e.kind = kind /\ e.clears = 0
      BY <1>t, NewEntryFits
    <3>2. pending = 0 /\ pending' = 0 /\ phase' # "grind"
      BY <1>t, <1>2 DEF Reply, ToldInv
    <3> HIDE DEF e
    <3>3. log' = Append(log, e)
      BY <2>2 DEF e
    <3> QED BY <3>1, <3>2, <3>3 DEF Adds
  <2> QED BY <1>2, <2>1, <2>2 DEF Reply
<1>3. CASE ClearNext
  BY <1>3 DEF ClearNext, Clears, Candidates
<1>4. CASE Report
  <2> DEFINE e == NewEntry("error", ErrorSize, pending)
  <2>1. pending \in Nat
    BY <1>t DEF TypeOK, Positions
  <2>2. e \in Entry /\ e.kind = "error" /\ e.about = pending /\ e.clears = 0
    BY <1>t, <2>1, NewEntryFits
  <2>3. /\ phase = "grind" /\ pending # 0 /\ pending' = 0
        /\ log' = Append(log, e) /\ UNCHANGED <<phase, turn, cleared>>
    BY <1>t, <1>4 DEF Report, ToldInv
  <2> HIDE DEF e
  <2> QED BY <2>2, <2>3 DEF Reports
<1>5. CASE Settle
  <2> DEFINE e == NewEntry("error", ErrorSize, 0)
  <2>1. e \in Entry /\ e.kind = "error" /\ e.about = 0 /\ e.clears = 0
    BY <1>t, NewEntryFits
  <2>2. /\ pending = 0 /\ pending' = 0 /\ phase' # "grind" /\ log' = Append(log, e)
    BY <1>5 DEF Settle
  <2> HIDE DEF e
  <2> QED BY <2>1, <2>2 DEF Adds
<1> QED BY <1>1, <1>2, <1>3, <1>4, <1>5 DEF Next

\* Clearing entry i changes that entry alone.
LEMMA ClearsFacts ==
  ASSUME TypeOK, NEW i \in Positions, Clears(i)
  PROVE  /\ Positions' = Positions /\ Len(log') = Len(log)
         /\ log[i] \in Entry /\ log'[i] = Emptied(log[i])
         /\ \A j \in Positions : j # i => log'[j] = log[j]
BY DEF TypeOK, Positions, Clears

LEMMA EnforceStep ==
  ASSUME IndInv, [Next]_vars, phase = "grind", vars' # vars
  PROVE  \/ phase' # "grind"
         \/ pending = 0 /\ Candidates' \subseteq Candidates /\ Candidates' # Candidates
         \/ pending # 0 /\ pending' = 0 /\ Candidates' = Candidates
<1>t. TypeOK
  BY DEF IndInv
<1>1. ASSUME NEW i \in Positions, Clears(i)
      PROVE  Candidates' \subseteq Candidates /\ Candidates' # Candidates
  <2>1. /\ Positions' = Positions /\ \A j \in Positions : j # i => log'[j] = log[j]
        /\ cleared' = cleared \cup {i} /\ turn' = turn /\ i \in Candidates
    BY <1>t, <1>1, ClearsFacts DEF Clears
  <2>2. i \notin Candidates'
    BY <2>1 DEF Candidates
  <2>3. Candidates' \subseteq Candidates
    BY <2>1 DEF Candidates, Tokens
  <2> QED BY <2>1, <2>2, <2>3
<1>2. ASSUME NEW e \in Entry, Reports(e) PROVE Candidates' = Candidates
  <2>1. /\ \A j \in Positions : j \in Positions' /\ log'[j] = log[j]
        /\ \A j \in Positions' : j \in Positions \/ log'[j].kind = "error"
        /\ cleared' = cleared /\ turn' = turn
    BY <1>t, <1>2, AppendFacts DEF Reports
  <2> QED BY <2>1 DEF Candidates, Tokens
<1>3. ASSUME NEW e \in Entry, Adds(e) PROVE phase' # "grind"
  BY <1>3 DEF Adds
<1> QED BY <1>1, <1>2, <1>3, LogKinds DEF Leaves, Clears, Reports

\* Every step of an enforcement brings its end nearer, whatever sizes and estimates are.
THEOREM EnforcementEnds == Spec => EnforceAdvances
<1>1. IndInv /\ [Next]_vars
        => [phase = "grind" =>
              \/ phase' # "grind"
              \/ pending = 0 /\ Candidates' \subseteq Candidates /\ Candidates' # Candidates
              \/ pending # 0 /\ pending' = 0 /\ Candidates' = Candidates]_vars
  BY EnforceStep
<1> QED BY <1>1, Inductive, PTL DEF Spec, EnforceAdvances

LEMMA HistoryStep ==
  ASSUME IndInv, [Next]_vars
  PROVE  /\ Len(log) <= Len(log')
         /\ \A i \in Positions :
              \/ log'[i] = log[i]
              \/ /\ phase = "grind" /\ i \in cleared' \ cleared
                 /\ log[i].kind \in {"replay", "notice"} /\ log[i].turn < turn
                 /\ log'[i] = Emptied(log[i])
<1>t. TypeOK /\ Len(log) \in Nat
  BY DEF IndInv, TypeOK
<1>1. ASSUME Leaves \/ UNCHANGED vars
      PROVE  Len(log) <= Len(log') /\ \A i \in Positions : log'[i] = log[i]
  BY <1>t, <1>1 DEF Leaves, vars
<1>2. ASSUME NEW i \in Positions, Clears(i)
      PROVE  /\ Len(log) <= Len(log')
             /\ \A j \in Positions :
                  \/ log'[j] = log[j]
                  \/ /\ phase = "grind" /\ j \in cleared' \ cleared
                     /\ log[j].kind \in {"replay", "notice"} /\ log[j].turn < turn
                     /\ log'[j] = Emptied(log[j])
  <2>1. /\ Len(log') = Len(log) /\ log'[i] = Emptied(log[i])
        /\ \A j \in Positions : j # i => log'[j] = log[j]
    BY <1>t, <1>2, ClearsFacts
  <2>2. /\ phase = "grind" /\ i \in cleared' \ cleared
        /\ log[i].kind \in {"replay", "notice"} /\ log[i].turn < turn
    BY <1>2 DEF Clears, Candidates
  <2> QED BY <1>t, <2>1, <2>2
<1>3. ASSUME NEW e \in Entry, log' = Append(log, e)
      PROVE  Len(log) <= Len(log') /\ \A i \in Positions : log'[i] = log[i]
  <2>1. Len(log') = Len(log) + 1 /\ \A i \in Positions : log'[i] = log[i]
    BY <1>t, <1>3, AppendFacts DEF TypeOK
  <2> QED BY <1>t, <2>1
<1>4. CASE \E i \in Positions : Clears(i)
  BY <1>2, <1>4
<1>5. CASE \E e \in Entry : Reports(e) \/ Adds(e)
  BY <1>3, <1>5 DEF Reports, Adds
<1> QED BY <1>1, <1>4, <1>5, LogKinds

\* What the log holds is kept: nothing but the body of an old get or set entry is ever lost,
\* and only to an enforcement.
THEOREM HistoryIsKept == Spec => HistoryKept
<1>1. IndInv /\ [Next]_vars
        => [/\ Len(log) <= Len(log')
            /\ \A i \in Positions :
                 \/ log'[i] = log[i]
                 \/ /\ phase = "grind" /\ i \in cleared' \ cleared
                    /\ log[i].kind \in {"replay", "notice"} /\ log[i].turn < turn
                    /\ log'[i] = Emptied(log[i])]_vars
  BY HistoryStep
<1> QED BY <1>1, Inductive, PTL DEF Spec, HistoryKept

-----------------------------------------------------------------------------
(* One error entry at most *)

IsError(j) == log[j].kind = "error"

\* An error entry is about an entry before it; no error is about a replay that was never
\* cleared, or whose clearing is still to be reported; and there is never a second one.
CostInv ==
  /\ \A j \in Positions : IsError(j) => log[j].about \in {0} \cup Positions
  /\ pending # 0 => log[pending].clears # 0
  /\ \A i, j \in Positions :
       log[i].kind = "replay" /\ (log[i].clears = 0 \/ i = pending) /\ IsError(j)
         => log[j].about # i
  /\ ReplayToldOnce

\* An entry that reports no clearing, or that of an entry no error is about, may be added.
LEMMA CostAppend ==
  ASSUME TypeOK, CostInv, NEW e \in Entry, log' = Append(log, e), e.clears = 0,
         \/ (e.kind = "error" => e.about = 0) /\ pending' = 0
         \/ e.kind = "error" /\ e.about = pending /\ pending # 0 /\ pending' = 0
  PROVE  CostInv'
<1> DEFINE n == Len(log) + 1
<1>1. /\ log'[n] = e /\ n \in Positions' /\ n \notin Positions /\ n # 0 /\ 0 \notin Positions
      /\ \A i \in Positions : i \in Positions' /\ log'[i] = log[i]
      /\ \A i \in Positions' : i \in Positions \/ i = n
      /\ pending \in {0} \cup Positions
  BY AppendFacts DEF TypeOK, Positions
<1> HIDE DEF n
<1>2. \A j \in Positions' : IsError(j)' => log'[j].about \in {0} \cup Positions
  BY <1>1 DEF CostInv, IsError
<1>3. \A i, j \in Positions' :
        log'[i].kind = "replay" /\ (log'[i].clears = 0 \/ i = pending') /\ IsError(j)'
          => log'[j].about # i
  <2> SUFFICES ASSUME NEW i \in Positions', NEW j \in Positions', log'[i].kind = "replay",
                      log'[i].clears = 0 \/ i = pending', IsError(j)', log'[j].about = i
               PROVE  FALSE
    OBVIOUS
  <2>1. i # 0 /\ pending' = 0 /\ log'[i].clears = 0
    BY <1>1
  <2>2. i \in Positions
    BY <1>2, <2>1
  <2>3. ASSUME j = n PROVE FALSE
    <3>1. e.kind = "error" /\ e.about = i
      BY <1>1, <2>3 DEF IsError
    <3>2. i = pending /\ pending # 0 /\ log[i].clears = 0
      BY <1>1, <2>1, <2>2, <3>1
    <3> QED BY <3>2 DEF CostInv
  <2> QED BY <1>1, <2>1, <2>2, <2>3 DEF CostInv, IsError
<1>4. ReplayToldOnce'
  <2> SUFFICES ASSUME NEW j \in Positions', NEW k \in Positions', IsError(j)', IsError(k)',
                      log'[j].about = log'[k].about, log'[j].about # 0,
                      log'[log'[j].about].kind = "replay"
               PROVE  j = k
    BY DEF ReplayToldOnce, IsError
  <2>1. /\ log'[j].about \in Positions /\ log[log'[j].about].kind = "replay"
    BY <1>1, <1>2
  <2>2. ASSUME e.kind = "error", e.about = log'[j].about, NEW b \in Positions, IsError(b)',
               log'[b].about = log'[j].about
        PROVE  FALSE
    <3>1. pending = log'[j].about /\ pending \in Positions /\ log[pending].kind = "replay"
      BY <2>1, <2>2
    <3>2. IsError(b) /\ log[b].about = pending
      BY <1>1, <2>2, <3>1 DEF IsError
    <3> QED BY <3>1, <3>2 DEF CostInv
  <2>3. CASE j \in Positions /\ k \in Positions
    <3>1. log'[j] = log[j] /\ log'[k] = log[k]
      BY <1>1, <2>3
    <3>2. ReplayToldOnce
      BY DEF CostInv
    <3> QED BY <2>1, <2>3, <3>1, <3>2 DEF ReplayToldOnce, IsError
  <2>4. j = n \/ k = n => e.kind = "error" /\ e.about = log'[j].about
    BY <1>1 DEF IsError
  <2> QED BY <1>1, <2>2, <2>3, <2>4
<1> QED BY <1>1, <1>2, <1>3, <1>4 DEF CostInv

LEMMA CostClears ==
  ASSUME IndInv, CostInv, NEW i \in Positions, Clears(i)
  PROVE  CostInv'
<1>1. /\ Positions' = Positions /\ log'[i] = Emptied(log[i])
      /\ \A j \in Positions : j # i => log'[j] = log[j]
      /\ log[i] \in Entry /\ 0 \notin Positions
  BY ClearsFacts DEF IndInv, Positions
<1>2. /\ \A j \in Positions : log'[j].kind = log[j].kind /\ log'[j].about = log[j].about
      /\ log'[i].clears = log[i].clears + 1 /\ log[i].clears \in Nat
      /\ pending = 0 /\ pending' = i
  <2>1. log[i].clears \in Nat
    BY <1>1 DEF Entry
  <2> QED BY <1>1, <2>1, EmptiedFits DEF Clears
<1>3. log[i].kind = "replay" => log[i].clears = 0
  BY DEF Clears, Candidates, IndInv, OnceInv, Tokens
<1>4. ReplayToldOnce'
  BY <1>1, <1>2 DEF CostInv, ReplayToldOnce, IsError
<1>5. \A k, j \in Positions :
        log'[k].kind = "replay" /\ (log'[k].clears = 0 \/ k = pending') /\ IsError(j)'
          => log'[j].about # k
  BY <1>1, <1>2, <1>3 DEF CostInv, IsError
<1> QED BY <1>1, <1>2, <1>4, <1>5 DEF CostInv, IsError

\* No old body costs a second error entry, however many loops and restarts follow.
THEOREM ReplayCostsOnce == Spec => []ReplayToldOnce
<1>1. Init => CostInv
  <2> SUFFICES ASSUME Init PROVE \A j \in Positions : ~IsError(j)
    BY DEF Init, CostInv, ReplayToldOnce, IsError
  <2>1. CASE log = <<>>
    BY <2>1 DEF Positions
  <2>2. ASSUME NEW s \in Sizes, NEW t \in 1..MaxTurns,
               log = <<[NewEntry("replay", s, 0) EXCEPT !.turn = t]>>
        PROVE  \A j \in Positions : ~IsError(j)
    BY <2>2 DEF Positions, IsError, NewEntry
  <2> QED BY <2>1, <2>2 DEF Init
<1>2. IndInv /\ CostInv /\ [Next]_vars => CostInv'
  <2> SUFFICES ASSUME IndInv, CostInv, [Next]_vars PROVE CostInv'
    OBVIOUS
  <2>1. CASE Leaves \/ UNCHANGED vars
    BY <2>1 DEF Leaves, vars, CostInv, ReplayToldOnce, IsError, IndInv, TypeOK, Positions
  <2>2. ASSUME NEW i \in Positions, Clears(i) PROVE CostInv'
    BY <2>2, CostClears
  <2>3. ASSUME NEW e \in Entry, Reports(e) \/ Adds(e) PROVE CostInv'
    BY <2>3, CostAppend DEF Reports, Adds, IndInv
  <2> QED BY <2>1, <2>2, <2>3, LogKinds
<1>3. CostInv => ReplayToldOnce
  BY DEF CostInv
<1> QED BY <1>1, <1>2, <1>3, Inductive, PTL DEF Spec
=============================================================================
