------------------------------- MODULE Retry -------------------------------
(***************************************************************************)
(* One completion call of a turn: the retries of LlmProvider.completion    *)
(* (retry.js, retryClassified) and what TurnExecutor makes of the error.   *)
(*                                                                         *)
(* Time is counted in ticks and a timer that is due fires before the next  *)
(* tick.  A provider call ends by its own timeout (RUMMY_FETCH_TIMEOUT) or *)
(* when the run's signal aborts it, unless it has just been answered.      *)
(***************************************************************************)
EXTENDS Integers

CONSTANTS
  Categories,  \* what classifyTransient calls a failure that is worth a retry
  Deadline,    \* Deadline[c]: deadlineMs of the policy of c
  Base,        \* Base[c]: baseDelayMs
  MaxDelay,    \* MaxDelay[c]: maxDelayMs
  Hints,       \* values of Retry-After; 0 is none
  CallTime,    \* the provider's timeout
  MaxTime,     \* bound: ticks
  None

ASSUME PolicyAssumption ==
  /\ Deadline \in [Categories -> Nat]
  /\ Base \in [Categories -> Nat] /\ MaxDelay \in [Categories -> Nat]
  /\ \A c \in Categories : 1 <= Base[c] /\ Base[c] <= MaxDelay[c]
ASSUME TimeAssumption == Hints \subseteq Nat /\ CallTime \in Nat /\ MaxTime \in Nat
ASSUME NoneAssumption == None \notin Categories

VARIABLES
  now,
  phase,      \* "ready" to try, "calling" the provider, "sleeping", "done"
  outcome,    \* what the turn makes of the end: an answer, a strike (413, 504) or a rethrow
  aborted,    \* the run's signal
  abortedAt,
  category,   \* lastCategory
  start,      \* the time of the category's first failure
  cap,        \* expCap of the next delay: doubles with every attempt
  callStart,  \* when the last provider call began
  wake,       \* when the sleep ends
  deaf,       \* the sleep began after the abort: its listener will not be called
  failedAt,   \* the time of the last failure
  hint        \* its Retry-After

signal == <<aborted, abortedAt>>
allowance == <<category, start, cap>>
failure == <<failedAt, hint>>
vars == <<now, phase, outcome, signal, allowance, callStart, wake, deaf, failure>>

TypeOK ==
  /\ now \in Nat
  /\ phase \in {"ready", "calling", "sleeping", "done"}
  /\ outcome \in {"none", "answer", "413", "504", "rethrown"}
  /\ aborted \in BOOLEAN /\ abortedAt \in Nat
  /\ category \in Categories \cup {None}
  /\ start \in Nat /\ cap \in Nat
  /\ category # None => 1 <= cap /\ cap <= MaxDelay[category]
  /\ callStart \in Nat /\ wake \in Nat /\ deaf \in BOOLEAN
  /\ failedAt \in Nat /\ hint \in Hints \cup {0}

Init ==
  /\ now = 0
  /\ phase = "ready" /\ outcome = "none"
  /\ aborted \in BOOLEAN /\ abortedAt = 0
  /\ category = None /\ start = 0 /\ cap = 0
  /\ callStart = 0 /\ wake = 0 /\ deaf = FALSE
  /\ failedAt = 0 /\ hint = 0

Smaller(a, b) == IF a < b THEN a ELSE b
Larger(a, b) == IF a < b THEN b ELSE a

-----------------------------------------------------------------------------

End(how) ==
  /\ phase' = "done" /\ outcome' = how
  /\ UNCHANGED <<now, signal, allowance, callStart, wake, deaf, failure>>

Attempt_Unchecked ==
  /\ phase = "ready"
  /\ phase' = "calling" /\ callStart' = now
  /\ UNCHANGED <<now, outcome, signal, allowance, wake, deaf, failure>>

\* The top of the loop: throwIfAborted, then the call.
Attempt ==
  /\ phase = "ready"
  /\ \/ aborted /\ End("rethrown")
     \/ /\ ~aborted
        /\ phase' = "calling" /\ callStart' = now
        /\ UNCHANGED <<now, outcome, signal, allowance, wake, deaf, failure>>

Answer == phase = "calling" /\ End("answer")

\* The call's timeout or the abort ends it.  The turn takes a timeout for a strike, if the run
\* is not aborted.
Cut ==
  /\ phase = "calling"
  /\ aborted \/ now = callStart + CallTime
  /\ End(IF aborted THEN "rethrown" ELSE "504")

\* A failure that is not worth a retry.  Any message that sounds like a context that is too
\* long is a 413.
Refuse ==
  /\ phase = "calling"
  /\ \E how \in {"413", "rethrown"} : End(how)

\* The failure of category c is counted from its first one without another in between.
FirstOf(c) == IF c = category THEN start ELSE now
CapOf(c) == IF c = category THEN cap ELSE Base[c]

Exhausted(c) ==
  /\ phase = "calling"
  /\ Deadline[c] - (now - FirstOf(c)) <= 0
  /\ \E how \in {"413", "rethrown"} : End(how)

Sleep_Doubling(c, h, delay) ==
  /\ phase' = "sleeping"
  /\ wake' = now + delay /\ deaf' = aborted
  /\ category' = c /\ start' = FirstOf(c)
  /\ cap' = 2 * CapOf(c)
  /\ failedAt' = now /\ hint' = h
  /\ UNCHANGED <<now, outcome, signal, callStart>>

Sleep(c, h, delay) ==
  /\ phase' = "sleeping"
  /\ wake' = now + delay /\ deaf' = aborted
  /\ category' = c /\ start' = FirstOf(c)
  /\ cap' = Smaller(MaxDelay[c], 2 * CapOf(c))
  /\ failedAt' = now /\ hint' = h
  /\ UNCHANGED <<now, outcome, signal, callStart>>

Retry_Uncapped(c, h) ==
  LET remaining == Deadline[c] - (now - FirstOf(c)) IN
    /\ phase = "calling" /\ remaining > 0
    /\ \E jitter \in 0..(CapOf(c) - 1) : Sleep(c, h, Larger(h, jitter))

Retry_NoFloor(c, h) ==
  LET remaining == Deadline[c] - (now - FirstOf(c)) IN
    /\ phase = "calling" /\ remaining > 0
    /\ \E jitter \in 0..(CapOf(c) - 1) : Sleep(c, h, Smaller(remaining, jitter))

\* A transient failure of category c with the hint h.
Retry(c, h) ==
  LET remaining == Deadline[c] - (now - FirstOf(c)) IN
    /\ phase = "calling" /\ remaining > 0
    /\ \E jitter \in 0..(CapOf(c) - 1) : Sleep(c, h, Smaller(remaining, Larger(h, jitter)))

Wake ==
  /\ phase = "sleeping" /\ now = wake
  /\ ~aborted \/ deaf
  /\ phase' = "ready"
  /\ UNCHANGED <<now, outcome, signal, allowance, callStart, wake, deaf, failure>>

\* An abort ends a sleep that listens.
Interrupt ==
  /\ phase = "sleeping" /\ aborted /\ ~deaf
  /\ End("rethrown")

Abort ==
  /\ ~aborted /\ phase # "done"
  /\ aborted' = TRUE /\ abortedAt' = now
  /\ UNCHANGED <<now, phase, outcome, allowance, callStart, wake, deaf, failure>>

Tick ==
  /\ now < MaxTime
  /\ \/ phase = "calling" /\ ~aborted /\ now < callStart + CallTime
     \/ phase = "sleeping" /\ now < wake /\ (~aborted \/ deaf)
  /\ now' = now + 1
  /\ UNCHANGED <<phase, outcome, signal, allowance, callStart, wake, deaf, failure>>

Next ==
  \/ Attempt \/ Answer \/ Cut \/ Refuse \/ Wake \/ Interrupt \/ Abort \/ Tick
  \/ \E c \in Categories : Exhausted(c)
  \/ \E c \in Categories, h \in Hints : Retry(c, h)

Spec == Init /\ [][Next]_vars

-----------------------------------------------------------------------------
(* Properties *)

\* An abort that no sleep hears, because it came while the provider was about to fail, holds
\* the run no longer than the deadline of that failure's category: it never leads to another.
AbortedEndsSoon ==
  aborted /\ phase # "done" =>
    now - abortedAt <= IF category = None THEN 0 ELSE Deadline[category]

\* Failures of one category end with its deadline and one more call, however long the calls
\* take, the delays grow and the server asks to wait.
OneCategoryEnds ==
  category # None /\ phase # "done" => now - start <= Deadline[category] + CallTime

\* "Honors err.retryAfter (seconds) as a delay floor": no call comes earlier than the server
\* asked, but the last before the deadline.
HintHonored ==
  phase = "calling" /\ category # None =>
    callStart >= failedAt + hint \/ callStart = start + Deadline[category]
=============================================================================
