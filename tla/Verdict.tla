------------------------------- MODULE Verdict -------------------------------
(***************************************************************************)
(* How a loop of turns ends (error.js's verdict, driven by AgentLoop's     *)
(* #executeLoop).  Each turn leaves a fingerprint of its commands; a turn  *)
(* in which something failed hard, or with which the last turns repeat a   *)
(* block, is a strike.  Consecutive strikes give the loop up; a terminal   *)
(* update ends it, unless the turn is a strike short of the limit.         *)
(*                                                                         *)
(* A turn is what error.js can see of it: the reply's fingerprint, the     *)
(* errors logged on the way, the states of its entries.  The text of a     *)
(* reply, and so the status its update states, is part of the fingerprint. *)
(***************************************************************************)
EXTENDS Integers, Sequences

CONSTANTS
  Terminals,    \* fingerprints of turns whose last update says 200
  Progress,     \* of turns whose last update says something else
  Blanks,       \* of turns whose update says nothing
  Silent,       \* of turns that recorded nothing (no update, no command, no reply)
  MaxTurns,     \* RUMMY_MAX_LOOP_TURNS
  MaxStrikes,   \* RUMMY_MAX_STRIKES
  MinCycles,    \* RUMMY_MIN_CYCLES
  MaxPeriod     \* RUMMY_MAX_CYCLE_PERIOD

Replies      == Terminals \cup Progress \cup Blanks
Fingerprints == Replies \cup {Silent}

ASSUME KindAssumption ==
  /\ Terminals \cap (Progress \cup Blanks) = {} /\ Progress \cap Blanks = {}
  /\ Silent \notin Replies
ASSUME LimitAssumption ==
  /\ MaxTurns \in Nat /\ MaxPeriod \in Nat
  /\ MaxStrikes \in Nat \ {0} /\ MinCycles \in Nat \ {0}

VARIABLES
  phase,       \* "off", "between" turns, "asked", "dispatch", "replied", "over"
  iter,        \* loopIteration
  streak,      \* loopState's
  history,     \* loopState's: the fingerprints of the loop's turns
  turnErrors,  \* whether loopState's counter is above 0
  reply,       \* the fingerprint of the turn under way
  failed,      \* an entry of the turn is failed, with an outcome that is not soft
  summary,     \* the turn has a summaryText
  outcome,     \* how the loop ended: "done", "struck", "turns", "aborted", "threw"
  erred        \* history: whether each turn had a hard error or a failed entry

turnVars == <<turnErrors, reply, failed, summary>>
loopVars == <<streak, history, erred>>
vars == <<phase, iter, outcome, turnVars, loopVars>>

Phases   == {"off", "between", "asked", "dispatch", "replied", "over"}
Outcomes == {"open", "done", "struck", "turns", "aborted", "threw"}

TypeOK ==
  /\ phase \in Phases /\ outcome \in Outcomes
  /\ iter \in 0..MaxTurns
  /\ streak \in 0..MaxStrikes
  /\ history \in Seq(Fingerprints) /\ erred \in Seq(BOOLEAN)
  /\ Len(history) = Len(erred)
  /\ turnErrors \in BOOLEAN /\ failed \in BOOLEAN /\ summary \in BOOLEAN
  /\ reply \in Fingerprints

Init ==
  /\ phase = "off" /\ iter = 0 /\ outcome = "open"
  /\ streak = 0 /\ history = <<>> /\ erred = <<>>
  /\ turnErrors = FALSE /\ failed = FALSE /\ summary = FALSE
  /\ reply = Silent

-----------------------------------------------------------------------------
(* Repetition *)

\* Mutant of Repeats: the last block is not compared.
Repeats_ButLast(h, n, k) ==
  /\ k * MinCycles <= n
  /\ \A rep \in 0..MinCycles - 2, j \in 1..k :
       h[(n - k * MinCycles) + (rep * k + j)] = h[(n - k * MinCycles) + j]

\* The first n fingerprints of h end with MinCycles equal blocks of k.
Repeats(h, n, k) ==
  /\ k * MinCycles <= n
  /\ \A rep \in 0..MinCycles - 1, j \in 1..k :
       h[(n - k * MinCycles) + (rep * k + j)] = h[(n - k * MinCycles) + j]

\* Mutant of DetectCycle: only blocks of one turn.
DetectCycle_Same(h, n) == 1 <= MaxPeriod /\ Repeats(h, n, 1)

DetectCycle(h, n) == \E k \in 1..MaxPeriod : Repeats(h, n, k)

-----------------------------------------------------------------------------
(* The loop *)

\* onLoopStarted
StartLoop ==
  /\ phase \in {"off", "over"}
  /\ phase' = "between" /\ iter' = 0 /\ outcome' = "open"
  /\ streak' = 0 /\ history' = <<>> /\ erred' = <<>>
  /\ turnErrors' = FALSE
  /\ UNCHANGED <<reply, failed, summary>>

\* Mutant of StartTurn: the limit is looked at after the turn.
StartTurn_Late ==
  /\ phase = "between" /\ iter <= MaxTurns
  /\ phase' = "asked" /\ iter' = iter + 1
  /\ turnErrors' = FALSE /\ reply' = Silent /\ failed' = FALSE /\ summary' = FALSE
  /\ UNCHANGED <<outcome, loopVars>>

\* onTurnStarted
StartTurn ==
  /\ phase = "between" /\ iter < MaxTurns
  /\ phase' = "asked" /\ iter' = iter + 1
  /\ turnErrors' = FALSE /\ reply' = Silent /\ failed' = FALSE /\ summary' = FALSE
  /\ UNCHANGED <<outcome, loopVars>>

CloseWith(o) == phase' = "over" /\ outcome' = o

RunOut ==
  /\ phase = "between" /\ iter = MaxTurns
  /\ CloseWith("turns")
  /\ UNCHANGED <<iter, turnVars, loopVars>>

Aborted ==
  /\ phase = "between" /\ iter < MaxTurns
  /\ CloseWith("aborted")
  /\ UNCHANGED <<iter, turnVars, loopVars>>

\* An exception of the turn or the verdict: 499 if the run is aborted, else 500.
Throws ==
  /\ phase \in {"asked", "dispatch", "replied"}
  /\ \E o \in {"aborted", "threw"} : CloseWith(o)
  /\ UNCHANGED <<iter, turnVars, loopVars>>

\* The process dies; the loop, if it had not ended, will be started afresh.
Crash ==
  /\ phase # "off"
  /\ phase' = "off"
  /\ UNCHANGED <<iter, outcome, turnVars, loopVars>>

-----------------------------------------------------------------------------
(* A turn *)

\* enforce demotes entries, which it marks failed, and logs the overflow.
LogOverflow ==
  /\ phase = "asked" /\ ~turnErrors
  /\ turnErrors' = TRUE
  /\ UNCHANGED <<phase, iter, outcome, reply, failed, summary, loopVars>>

\* The context does not fit, or the provider refuses it or does not answer in time:
\* an error, and a turn that recorded nothing.
CallFails ==
  /\ phase = "asked"
  /\ phase' = "replied" /\ turnErrors' = TRUE
  /\ UNCHANGED <<iter, outcome, reply, failed, summary, loopVars>>

\* A reply.  Without an update, its commands are not recorded; one that has neither
\* commands nor a parser's warning is an error.
Reply ==
  /\ phase = "asked"
  /\ phase' = "dispatch"
  /\ \/ reply' \in Replies /\ UNCHANGED turnErrors
     \/ reply' = Silent /\ turnErrors' \in {turnErrors, TRUE}
  /\ UNCHANGED <<iter, outcome, failed, summary, loopVars>>

\* A refusal, a rejection, an aborted or overflowing entry, a handler that throws: a
\* failed entry logs an error (onFailed); it may be one the handler made, not the
\* recorded one.  Soft outcomes leave no trace here.
EntryFails ==
  /\ phase = "dispatch" /\ reply \in Replies
  /\ turnErrors' = TRUE /\ failed' \in {failed, TRUE}
  /\ UNCHANGED <<phase, iter, outcome, reply, summary, loopVars>>

\* Mutant of Resolve: an update that says nothing is let pass.
Resolve_NoContract ==
  /\ phase = "dispatch"
  /\ phase' = "replied"
  /\ \E refused \in BOOLEAN :
       /\ refused => failed
       /\ summary' = (reply \in Terminals /\ ~refused)
  /\ UNCHANGED <<iter, outcome, turnErrors, reply, failed, loopVars>>

\* update.resolve.  The update itself may have been refused when it was recorded.
Resolve ==
  /\ phase = "dispatch"
  /\ phase' = "replied"
  /\ \E refused \in BOOLEAN :
       /\ refused => failed
       /\ summary' = (reply \in Terminals /\ ~refused)
       /\ turnErrors' = (turnErrors \/ (reply \in Blanks \cup {Silent} /\ ~refused))
  /\ UNCHANGED <<iter, outcome, reply, failed, loopVars>>

-----------------------------------------------------------------------------
(* The verdict *)

\* The turn's fingerprint is pushed, then looked at with the others.
PushTurn ==
  /\ phase = "replied"
  /\ history' = Append(history, reply)
  /\ erred' = Append(erred, turnErrors \/ failed)

Struck == turnErrors \/ failed \/ DetectCycle(history', Len(history'))

Finish ==
  /\ PushTurn /\ ~Struck /\ summary
  /\ CloseWith("done") /\ streak' = 0
  /\ UNCHANGED <<iter, turnVars>>

\* A clean turn without a terminal update.
GoOn ==
  /\ PushTurn /\ ~Struck /\ ~summary
  /\ phase' = "between" /\ streak' = 0
  /\ UNCHANGED <<iter, outcome, turnVars>>

StrikeOne ==
  /\ PushTurn /\ Struck /\ streak + 1 < MaxStrikes
  /\ phase' = "between" /\ streak' = streak + 1
  /\ UNCHANGED <<iter, outcome, turnVars>>

\* Mutant of StrikeOut: the terminal update of the turn is not looked at.
StrikeOut_Deaf ==
  /\ PushTurn /\ Struck /\ streak + 1 >= MaxStrikes
  /\ CloseWith("struck") /\ streak' = streak + 1
  /\ UNCHANGED <<iter, turnVars>>

\* "Same-turn terminal update wins over 499."
StrikeOut ==
  /\ PushTurn /\ Struck /\ streak + 1 >= MaxStrikes
  /\ CloseWith(IF summary THEN "done" ELSE "struck")
  /\ streak' = IF summary THEN 0 ELSE streak + 1
  /\ UNCHANGED <<iter, turnVars>>

Next ==
  \/ StartLoop \/ StartTurn \/ RunOut \/ Aborted \/ Throws \/ Crash
  \/ LogOverflow \/ CallFails \/ Reply \/ EntryFails \/ Resolve
  \/ Finish \/ GoOn \/ StrikeOne \/ StrikeOut

Spec == Init /\ [][Next]_vars

-----------------------------------------------------------------------------
(* Properties *)

\* h ends, at n, with a stretch of w turns that repeats a block of k.
Periodic(h, n, w, k) ==
  /\ w <= n
  /\ \A i \in (n - w + 1)..n, r \in 0..w : i + r * k <= n => h[i + r * k] = h[i]

EndsRepetition(h, n) == \E k \in 1..MaxPeriod : Periodic(h, n, k * MinCycles, k)

Strike(i) == erred[i] \/ EndsRepetition(history, i)

\* A loop that repeats a block of k turns is not let go on: it has ended by the
\* MaxStrikes-th turn from the one that completed MinCycles blocks, whichever block and
\* whatever came before ("once the silent strike streak reaches MAX_STRIKES, the run
\* abandons").
RepetitionEnds ==
  phase = "between" =>
    \A k \in 1..MaxPeriod :
      ~Periodic(history, Len(history), k * MinCycles + MaxStrikes - 1, k)

\* A loop does not go on after MaxStrikes turns in a row each of which failed, was
\* silent, said nothing, or completed a repetition.
StrikesEnd ==
  phase = "between" /\ Len(history) >= MaxStrikes =>
    \E i \in (Len(history) - MaxStrikes + 1)..Len(history) :
      ~Strike(i) /\ history[i] \notin Blanks \cup {Silent}

\* The last MaxStrikes turns were strikes.
StrikesUp ==
  /\ Len(history) >= MaxStrikes
  /\ \A i \in (Len(history) - MaxStrikes + 1)..Len(history) : Strike(i)

\* A loop is given up for its strikes only after MaxStrikes turns in a row that each
\* deserved one: a clean turn gives all of them back.
StruckForCause == outcome = "struck" => StrikesUp

\* What the model's 200 does, as error.js:128-160 and its tests have it.  On a turn that is
\* no strike it ends the loop.  On a strike it is overridden and the loop goes on, but for
\* the strike that would give the loop up: there the 200 is believed ("Same-turn terminal
\* update wins over 499").  Nothing else is taken for an end.  SPEC.md:550-554 has the 200
\* overridden on that turn too, and after a soft failure, which is no strike.
TerminalCounts ==
  /\ phase = "between" /\ history # <<>> /\ history[Len(history)] \in Terminals =>
       Strike(Len(history))
  /\ outcome = "struck" => ~summary
  /\ outcome = "done" =>
       /\ history[Len(history)] \in Terminals
       /\ Strike(Len(history)) => StrikesUp
=============================================================================
