------------------------------- MODULE Budget -------------------------------
(***************************************************************************)
(* The token budget of one run (budget.js, materializeContext.js).  Before *)
(* a packet is sent it is measured; one above the ceiling has the bodies   *)
(* of old get and set log entries cleared, the latest turn and the largest *)
(* body first, until the estimate fits, and is then measured again.        *)
(*                                                                         *)
(* Sizes are tokens.  What is left of a cleared entry (its header with the *)
(* new outcome, the rounding of countTokens) is up to Slack tokens.  A     *)
(* context size is known, and log paths of the run and those it inherited  *)
(* from the run it was forked from do not meet.                            *)
(***************************************************************************)
EXTENDS Integers, Sequences, FiniteSets

CONSTANTS
  Ceiling,    \* ceiling(contextSize)
  Persona,    \* tokens of the persona
  Catalogs,   \* tokens that the rest of the packet may take: files, known entries, the prompt
  Sizes,      \* tokens of the log entries a turn adds
  ErrorSize,  \* tokens of an error entry
  Slack,      \* tokens that clearing a body saves less than its size, at most
  MaxLoops,   \* bound: loops of the run
  MaxTurns,   \* bound: turns of a loop
  MaxTokens   \* bound: tokens of a packet

ASSUME SizesAssumption ==
  /\ Ceiling \in Nat /\ Persona \in Nat /\ Slack \in Nat /\ ErrorSize \in Nat \ {0}
  /\ Catalogs \subseteq Nat /\ Sizes \subseteq Nat \ {0}
ASSUME BoundsAssumption == MaxLoops \in Nat /\ MaxTurns \in Nat /\ MaxTokens \in Nat

VARIABLES
  loop,       \* loops.sequence of the last loop
  turn,       \* loops.next_turn - 1: turns are counted anew in every loop
  log,        \* the run's log entries, oldest first
  catalog,    \* tokens of what is neither log nor persona
  phase,      \* where the turn is
  packet,     \* tokens the packet measures, or would measure if assembled now
  remaining,  \* enforce's remaining overflow
  cleared,    \* the entries this enforcement has cleared
  pending     \* the cleared entry whose error entry is still to be written, or 0

vars == <<loop, turn, log, catalog, phase, packet, remaining, cleared, pending>>

\* "replay": a get or set entry whose view is its body.  "notice": a set that failed with an
\* error attribute, which its view renders in the body's place.  An inherited entry belongs to
\* the parent (loop 0); a set of its path makes an entry of the run's own that shadows it.
Entry == [kind : {"replay", "notice", "error", "other"}, loop : Nat, turn : Nat, size : Nat,
          shadowed : BOOLEAN, clears : Nat, about : Nat]

NewEntry(kind, size, about) ==
  [kind |-> kind, loop |-> loop, turn |-> turn, size |-> size,
   shadowed |-> FALSE, clears |-> 0, about |-> about]

Positions == 1..Len(log)

TypeOK ==
  /\ loop \in 0..MaxLoops /\ turn \in 0..MaxTurns
  /\ log \in Seq(Entry)
  /\ catalog \in Catalogs
  /\ phase \in {"out", "between", "grind", "sent", "refused"}
  /\ packet \in Int /\ remaining \in Nat
  /\ cleared \subseteq Positions
  /\ pending \in {0} \cup cleared

Init ==
  /\ loop = 0 /\ turn = 0
  /\ log \in {<<>>} \cup
       {<<[NewEntry("replay", s, 0) EXCEPT !.turn = t]>> : s \in Sizes, t \in 1..MaxTurns}
  /\ catalog \in Catalogs
  /\ phase = "out"
  /\ packet = 0 /\ remaining = 0
  /\ cleared = {} /\ pending = 0

-----------------------------------------------------------------------------
(* Measuring *)

Tokens_ByRow(e) == e.size

\* Token accounting goes by path: an entry and the one that shadows it both count as the latter.
Tokens(e) == IF e.shadowed THEN 0 ELSE e.size

LogTokens ==
  LET sum[n \in 0..Len(log)] == IF n = 0 THEN 0 ELSE sum[n - 1] + Tokens(log[n])
  IN  sum[Len(log)]

PacketTokens == Persona + catalog + LogTokens

\* computeBudget: no overflow.
Fits(tokens) == tokens <= Ceiling

\* enforce's candidates that it has not come to yet.
Candidates ==
  {i \in Positions : /\ log[i].kind \in {"replay", "notice"} /\ log[i].turn < turn
                     /\ i \notin cleared /\ Tokens(log[i]) > 0}

Ahead(i, j) ==
  \/ log[i].turn > log[j].turn
  \/ log[i].turn = log[j].turn /\ Tokens(log[i]) >= Tokens(log[j])

-----------------------------------------------------------------------------
(* Loops and turns *)

StartLoop ==
  /\ phase = "out" /\ loop < MaxLoops
  /\ loop' = loop + 1 /\ turn' = 0
  /\ phase' = "between"
  /\ UNCHANGED <<log, catalog, packet, remaining, cleared, pending>>

\* The context is materialized and checked.
StartTurn ==
  /\ phase = "between" /\ turn < MaxTurns
  /\ turn' = turn + 1
  /\ \E p \in 0..MaxTokens :
       /\ p = PacketTokens
       /\ packet' = p
       /\ IF Fits(p) THEN phase' = "sent" /\ remaining' = 0
                     ELSE phase' = "grind" /\ remaining' = p - Ceiling
  /\ cleared' = {}
  /\ UNCHANGED <<loop, log, catalog, pending>>

\* The model's answer is dispatched: a log entry more or none, and changes of the catalogue.
Reply ==
  /\ phase = "sent"
  /\ \/ log' = log
     \/ \E kind \in {"replay", "notice", "other"}, s \in Sizes :
          log' = Append(log, NewEntry(kind, s, 0))
  /\ catalog' \in Catalogs
  /\ phase' \in {"between", "out"}
  /\ UNCHANGED <<loop, turn, packet, remaining, cleared, pending>>

\* A refused turn is a strike; the loop goes on until the verdict ends it.
Refused ==
  /\ phase = "refused"
  /\ phase' \in {"between", "out"}
  /\ UNCHANGED <<loop, turn, log, catalog, packet, remaining, cleared, pending>>

Stop ==
  /\ phase = "between"
  /\ phase' = "out"
  /\ UNCHANGED <<loop, turn, log, catalog, packet, remaining, cleared, pending>>

\* The process dies; what is in the database stays.
Crash ==
  /\ phase \in {"grind", "sent", "refused"}
  /\ phase' = "out" /\ cleared' = {} /\ pending' = 0 /\ remaining' = 0
  /\ UNCHANGED <<loop, turn, log, catalog, packet>>

-----------------------------------------------------------------------------
(* enforce *)

\* What is stored of an entry once its body is set to "" and its state to failed.
Emptied(e) ==
  [e EXCEPT !.clears = @ + 1,
            !.shadowed = e.loop = 0,
            !.size = IF e.kind = "replay" /\ e.loop # 0 THEN 0 ELSE @]

ClearNext_One ==
  /\ phase = "grind" /\ pending = 0 /\ remaining > 0
  /\ \E i \in Candidates :
       /\ \A j \in Candidates : Ahead(i, j)
       /\ \E d \in 0..Slack : packet' = packet - Tokens(log[i]) + d
       /\ remaining' = 0
       /\ log' = [log EXCEPT ![i] = Emptied(@)]
       /\ cleared' = cleared \cup {i}
       /\ pending' = i
  /\ UNCHANGED <<loop, turn, catalog, phase>>

ClearNext_NoFloor ==
  /\ phase = "grind" /\ pending = 0 /\ remaining > 0
  /\ \E i \in Candidates :
       /\ \A j \in Candidates : Ahead(i, j)
       /\ \E d \in 0..Slack : packet' = packet - Tokens(log[i]) + d
       /\ remaining' = remaining - Tokens(log[i])
       /\ log' = [log EXCEPT ![i] = Emptied(@)]
       /\ cleared' = cleared \cup {i}
       /\ pending' = i
  /\ UNCHANGED <<loop, turn, catalog, phase>>

ClearNext ==
  /\ phase = "grind" /\ pending = 0 /\ remaining > 0
  /\ \E i \in Candidates :
       /\ \A j \in Candidates : Ahead(i, j)
       /\ \E d \in 0..Slack : packet' = packet - Tokens(log[i]) + d
       /\ remaining' = IF remaining > Tokens(log[i]) THEN remaining - Tokens(log[i]) ELSE 0
       /\ log' = [log EXCEPT ![i] = Emptied(@)]
       /\ cleared' = cleared \cup {i}
       /\ pending' = i
  /\ UNCHANGED <<loop, turn, catalog, phase>>

Report_Soft ==
  /\ pending # 0
  /\ log' = log
  /\ pending' = 0
  /\ UNCHANGED <<loop, turn, catalog, phase, packet, remaining, cleared>>

\* A set to failed has an error entry of its own written (fireFailed).
Report ==
  /\ pending # 0
  /\ log' = Append(log, NewEntry("error", ErrorSize, pending))
  /\ pending' = 0
  /\ UNCHANGED <<loop, turn, catalog, phase, packet, remaining, cleared>>

\* The packet is assembled again, without the persona, measured, and reported.
Settle ==
  /\ phase = "grind" /\ pending = 0
  /\ remaining = 0 \/ Candidates = {}
  /\ packet' = IF cleared = {} THEN packet ELSE packet - Persona
  /\ phase' = IF cleared # {} /\ Fits(packet') THEN "sent" ELSE "refused"
  /\ log' = Append(log, NewEntry("error", ErrorSize, 0))
  /\ UNCHANGED <<loop, turn, catalog, remaining, cleared, pending>>

-----------------------------------------------------------------------------

Next ==
  \/ StartLoop \/ StartTurn \/ Reply \/ Refused \/ Stop \/ Crash
  \/ ClearNext \/ Report \/ Settle

Spec == Init /\ [][Next]_vars

-----------------------------------------------------------------------------
(* Properties *)

\* enforce goes by an estimate.  When it refuses a turn (a hard 413) with candidates left,
\* the estimate was wrong by no more than what the cleared entries still take.
NearMiss ==
  phase = "refused" /\ Candidates # {} => packet - Ceiling <= Slack * Cardinality(cleared)

\* A body is cleared once in the life of a run, one inherited by a fork included: no later
\* turn finds it again and pays for it with another error entry.
BodiesClearedOnce == \A i \in Positions : log[i].kind = "replay" => log[i].clears <= 1

\* A packet from which entries are missing is sent, or refused, only after the turn has an
\* error entry for each of them and one for the whole.
ToldBeforeSent ==
  phase \in {"sent", "refused"} /\ cleared # {} =>
    \A i \in cleared \cup {0} : \E j \in Positions :
      log[j].kind = "error" /\ log[j].about = i /\ log[j].loop = loop /\ log[j].turn = turn
=============================================================================
