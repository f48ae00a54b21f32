---------------------------- MODULE Retry_proofs ----------------------------
(***************************************************************************)
(* Proofs about Retry, for any policies, any timeout and any hints of the  *)
(* server.  The invariant says of each phase where the clock stands.       *)
(***************************************************************************)
EXTENDS Retry, TLAPS

\* No time recorded lies ahead.
Past == start <= now /\ failedAt <= now /\ callStart <= now /\ abortedAt <= now

\* A sleep lasts to the deadline of its category at most and as long as the server asked, but
\* for the deadline.  One that does not hear the abort began after it.
Asleep ==
  phase = "sleeping" =>
    /\ category # None
    /\ now <= wake /\ wake <= start + Deadline[category]
    /\ wake >= failedAt + hint \/ wake = start + Deadline[category]
    /\ aborted /\ ~deaf => now = abortedAt
    /\ deaf => aborted /\ wake <= abortedAt + Deadline[category]

\* The next try comes when the sleep has ended.
Due ==
  phase = "ready" =>
    /\ category # None => /\ now <= start + Deadline[category]
                          /\ now >= failedAt + hint \/ now = start + Deadline[category]
    /\ aborted => now - abortedAt <= IF category = None THEN 0 ELSE Deadline[category]

\* A call began then, lasts CallTime at most, and no time passes once the run is aborted.
InCall ==
  phase = "calling" =>
    /\ category # None => /\ callStart <= start + Deadline[category]
                          /\ callStart >= failedAt + hint \/ callStart = start + Deadline[category]
    /\ now <= callStart + CallTime
    /\ aborted => now = abortedAt

IndInv == TypeOK /\ Past /\ Asleep /\ Due /\ InCall

-----------------------------------------------------------------------------
(* Arithmetic of a delay *)

\* The delay of a retry: positive or nothing, no later than the deadline, no earlier than asked.
LEMMA DelayBounds ==
  ASSUME NEW remaining \in Int, remaining > 0, NEW h \in Nat, NEW jitter \in Nat
  PROVE  LET delay == Smaller(remaining, Larger(h, jitter)) IN
           /\ delay \in Nat /\ delay <= remaining
           /\ delay >= h \/ delay = remaining
  BY DEF Smaller, Larger

\* What the policies are, as the provers need it.
LEMMA Policies ==
  ASSUME NEW c \in Categories
  PROVE  Deadline[c] \in Nat /\ Base[c] \in Nat /\ MaxDelay[c] \in Nat /\ c # None
         /\ 1 <= Base[c] /\ Base[c] <= MaxDelay[c]
  BY PolicyAssumption, NoneAssumption

-----------------------------------------------------------------------------
(* Each action keeps the invariant *)

LEMMA InitInv == Init => IndInv
<1> SUFFICES ASSUME Init PROVE IndInv
  OBVIOUS
<1>1. TypeOK
  BY DEF Init, TypeOK
<1>2. Past /\ Asleep /\ InCall
  BY DEF Init, Past, Asleep, InCall
<1>3. Due
  BY DEF Init, Due
<1> QED
  BY <1>1, <1>2, <1>3 DEF IndInv

\* An end keeps the type and the past; nothing else speaks of it.
LEMMA EndInv ==
  ASSUME IndInv, NEW how \in {"answer", "413", "504", "rethrown"}, End(how)
  PROVE  IndInv'
  BY DEF IndInv, TypeOK, Past, Asleep, Due, InCall, End, signal, allowance, failure

LEMMA AttemptInv == ASSUME IndInv, Attempt PROVE IndInv'
<1>1. CASE aborted /\ End("rethrown")
  BY <1>1, EndInv
<1>2. CASE ~aborted /\ phase' = "calling" /\ callStart' = now
           /\ UNCHANGED <<now, outcome, signal, allowance, wake, deaf, failure>>
  BY <1>2, TimeAssumption DEF Attempt, IndInv, TypeOK, Past, Asleep, Due, InCall, signal, allowance, failure
<1> QED
  BY <1>1, <1>2 DEF Attempt

\* The sleep of a retry.
LEMMA RetryInv ==
  ASSUME IndInv, NEW c \in Categories, NEW h \in Hints, Retry(c, h)
  PROVE  IndInv'
<1> DEFINE first == FirstOf(c)
           remaining == Deadline[c] - (now - first)
<1>1. /\ now \in Nat /\ start \in Nat /\ cap \in Nat /\ h \in Nat /\ abortedAt \in Nat
      /\ aborted \in BOOLEAN /\ outcome \in {"none", "answer", "413", "504", "rethrown"}
  BY TimeAssumption DEF IndInv, TypeOK
<1>2. first \in Nat /\ first <= now
  BY <1>1 DEF FirstOf, IndInv, Past
<1>3. /\ Deadline[c] \in Nat /\ Base[c] \in Nat /\ MaxDelay[c] \in Nat /\ c # None
      /\ 1 <= Base[c] /\ Base[c] <= MaxDelay[c]
  BY Policies
<1>4. CapOf(c) \in Nat /\ 1 <= CapOf(c) /\ CapOf(c) <= MaxDelay[c]
  BY <1>3 DEF CapOf, IndInv, TypeOK
<1>5. /\ remaining \in Int /\ remaining > 0 /\ phase = "calling"
      /\ \E jitter \in 0..(CapOf(c) - 1) : Sleep(c, h, Smaller(remaining, Larger(h, jitter)))
  BY <1>1, <1>2, <1>3 DEF Retry
<1> HIDE DEF first, remaining
<1>6. PICK jitter \in 0..(CapOf(c) - 1) : Sleep(c, h, Smaller(remaining, Larger(h, jitter)))
  BY <1>5
<1> DEFINE delay == Smaller(remaining, Larger(h, jitter))
<1>7. jitter \in Nat
  BY <1>4, <1>6
<1>8. delay \in Nat /\ delay <= remaining /\ (delay >= h \/ delay = remaining)
  BY <1>1, <1>5, <1>7, DelayBounds
<1> HIDE DEF delay
<1>9. /\ phase' = "sleeping" /\ wake' = now + delay /\ deaf' = aborted
      /\ category' = c /\ start' = first /\ cap' = Smaller(MaxDelay[c], 2 * CapOf(c))
      /\ failedAt' = now /\ hint' = h
      /\ now' = now /\ outcome' = outcome /\ callStart' = callStart
      /\ aborted' = aborted /\ abortedAt' = abortedAt
  BY <1>6 DEF Sleep, delay, first, signal
<1>10. cap' \in Nat /\ 1 <= cap' /\ cap' <= MaxDelay[c]
  BY <1>3, <1>4, <1>9 DEF Smaller
<1>11. TypeOK'
  BY <1>1, <1>2, <1>3, <1>8, <1>9, <1>10 DEF IndInv, TypeOK
<1>12. Past'
  BY <1>1, <1>2, <1>9 DEF IndInv, Past
<1>13. remaining = Deadline[c] - (now - first)
  BY DEF remaining
<1>14. wake' <= first + Deadline[c] /\ (wake' >= now + h \/ wake' = first + Deadline[c])
  BY <1>1, <1>2, <1>3, <1>8, <1>9, <1>13
<1>15. aborted => now = abortedAt
  BY <1>5 DEF IndInv, InCall
<1>16. aborted => wake' <= abortedAt + Deadline[c]
  <2>1. \A x, y, t, w, d \in Int : w <= x + d /\ x <= t /\ t = y => w <= y + d
    OBVIOUS
  <2>2. wake' \in Int
    BY <1>1, <1>8, <1>9
  <2> QED
    BY <1>1, <1>2, <1>3, <1>14, <1>15, <2>1, <2>2
<1>17. now' <= wake'
  BY <1>1, <1>8, <1>9
<1>18. Asleep'
  BY <1>3, <1>9, <1>14, <1>15, <1>16, <1>17 DEF Asleep
<1> QED
  BY <1>9, <1>11, <1>12, <1>18 DEF IndInv, Due, InCall

LEMMA WakeInv == ASSUME IndInv, Wake PROVE IndInv'
<1>1. /\ phase = "sleeping" /\ now = wake /\ (~aborted \/ deaf) /\ phase' = "ready"
      /\ UNCHANGED <<now, outcome, signal, allowance, callStart, wake, deaf, failure>>
  BY DEF Wake
<1>2. category \in Categories /\ now \in Nat /\ abortedAt \in Nat
  BY <1>1 DEF IndInv, TypeOK, Asleep
<1>3. Deadline[category] \in Nat
  BY <1>2, Policies
<1>4. TypeOK' /\ Past' /\ Asleep' /\ InCall'
  BY <1>1 DEF IndInv, TypeOK, Past, Asleep, InCall, signal, allowance, failure
<1>5. Due'
  BY <1>1, <1>2, <1>3 DEF IndInv, Asleep, Due, signal, allowance, failure
<1> QED
  BY <1>4, <1>5 DEF IndInv

LEMMA AbortInv == ASSUME IndInv, Abort PROVE IndInv'
<1>1. /\ ~aborted /\ phase # "done" /\ aborted' = TRUE /\ abortedAt' = now
      /\ UNCHANGED <<now, phase, outcome, allowance, callStart, wake, deaf, failure>>
  BY DEF Abort
<1>2. now \in Nat
  BY DEF IndInv, TypeOK
<1>3. category # None => Deadline[category] \in Nat
  BY Policies DEF IndInv, TypeOK
<1>4. TypeOK' /\ Past' /\ InCall'
  BY <1>1, <1>2 DEF IndInv, TypeOK, Past, InCall, allowance, failure
<1>5. Asleep'
  BY <1>1 DEF IndInv, Asleep, allowance, failure
<1>6. Due'
  BY <1>1, <1>2, <1>3 DEF IndInv, Due, allowance, failure
<1> QED
  BY <1>4, <1>5, <1>6 DEF IndInv

LEMMA TickInv == ASSUME IndInv, Tick PROVE IndInv'
<1>1. /\ now' = now + 1
      /\ UNCHANGED <<phase, outcome, signal, allowance, callStart, wake, deaf, failure>>
  BY DEF Tick
<1>2. now \in Nat /\ wake \in Nat /\ callStart \in Nat
      /\ start \in Nat /\ failedAt \in Nat /\ abortedAt \in Nat /\ CallTime \in Nat
  BY TimeAssumption DEF IndInv, TypeOK
<1>3. TypeOK' /\ Past'
  BY <1>1, <1>2 DEF IndInv, TypeOK, Past, signal, allowance, failure
<1>4. CASE phase = "calling" /\ ~aborted /\ now < callStart + CallTime
  BY <1>1, <1>2, <1>3, <1>4 DEF IndInv, Asleep, Due, InCall, signal, allowance, failure
<1>5. CASE phase = "sleeping" /\ now < wake /\ (~aborted \/ deaf)
  BY <1>1, <1>2, <1>3, <1>5 DEF IndInv, Asleep, Due, InCall, signal, allowance, failure
<1> QED
  BY <1>4, <1>5 DEF Tick

\* Every step keeps the invariant.
LEMMA StepInv == IndInv /\ [Next]_vars => IndInv'
<1> SUFFICES ASSUME IndInv, [Next]_vars PROVE IndInv'
  OBVIOUS
<1>1. CASE Answer
  BY <1>1, EndInv DEF Answer
<1>2. CASE Cut
  BY <1>2, EndInv DEF Cut
<1>3. CASE Refuse
  BY <1>3, EndInv DEF Refuse
<1>4. CASE Interrupt
  BY <1>4, EndInv DEF Interrupt
<1>5. ASSUME NEW c \in Categories, Exhausted(c) PROVE IndInv'
  BY <1>5, EndInv DEF Exhausted
<1>6. CASE UNCHANGED vars
  BY <1>6 DEF vars, signal, allowance, failure, IndInv, TypeOK, Past, Asleep, Due, InCall
<1> QED
  BY <1>1, <1>2, <1>3, <1>4, <1>5, <1>6, AttemptInv, RetryInv, WakeInv, AbortInv, TickInv DEF Next

LEMMA Invariant == Spec => []IndInv
  BY InitInv, StepInv, PTL DEF Spec

-----------------------------------------------------------------------------
(* Theorems *)

\* The variables keep their types; the cap of the delays is never above that of the category,
\* however long a storm of failures lasts (retry.js:74-77).
THEOREM TypeCorrect == Spec => []TypeOK
<1>1. IndInv => TypeOK
  BY DEF IndInv
<1> QED
  BY <1>1, Invariant, PTL

\* A run that was aborted leaves its call within the deadline of one category, also when the
\* sleep that follows a last failure does not hear the abort (retry.js:100-109).
THEOREM AbortEnds == Spec => []AbortedEndsSoon
<1>1. IndInv => AbortedEndsSoon
  <2> SUFFICES ASSUME IndInv, aborted, phase # "done"
               PROVE  now - abortedAt <= IF category = None THEN 0 ELSE Deadline[category]
    BY DEF AbortedEndsSoon
  <2>1. /\ now \in Nat /\ abortedAt \in Nat /\ wake \in Nat
        /\ category # None => Deadline[category] \in Nat
        /\ phase \in {"ready", "calling", "sleeping"}
    BY Policies DEF IndInv, TypeOK
  <2>2. CASE phase = "ready"
    BY <2>2 DEF IndInv, Due
  <2>3. CASE phase = "calling"
    BY <2>1, <2>3 DEF IndInv, InCall
  <2>4. CASE phase = "sleeping"
    BY <2>1, <2>4 DEF IndInv, TypeOK, Asleep
  <2> QED
    BY <2>1, <2>2, <2>3, <2>4
<1> QED
  BY <1>1, Invariant, PTL

\* A storm of one category is over after its deadline and one more call (retry.js:62-73).
THEOREM StormEnds == Spec => []OneCategoryEnds
<1>1. IndInv => OneCategoryEnds
  <2> SUFFICES ASSUME IndInv, category # None, phase # "done"
               PROVE  now - start <= Deadline[category] + CallTime
    BY DEF OneCategoryEnds
  <2>1. /\ now \in Nat /\ start \in Nat /\ wake \in Nat /\ callStart \in Nat /\ CallTime \in Nat
        /\ Deadline[category] \in Nat
        /\ phase \in {"ready", "calling", "sleeping"}
    BY Policies, TimeAssumption DEF IndInv, TypeOK
  <2>2. CASE phase = "ready"
    BY <2>1, <2>2 DEF IndInv, Due
  <2>3. CASE phase = "calling"
    BY <2>1, <2>3 DEF IndInv, InCall
  <2>4. CASE phase = "sleeping"
    BY <2>1, <2>4 DEF IndInv, Asleep
  <2> QED
    BY <2>1, <2>2, <2>3, <2>4
<1> QED
  BY <1>1, Invariant, PTL

\* A call is made no earlier than the server asked, unless the deadline comes first
\* (retry.js:79-82).
THEOREM HintKept == Spec => []HintHonored
<1>1. IndInv => HintHonored
  BY DEF IndInv, InCall, HintHonored
<1> QED
  BY <1>1, Invariant, PTL

-----------------------------------------------------------------------------
(* More properties, for which the runs have no room *)

\* A sleep is no longer than the server asked or the policy allows, whichever is more, and ends
\* within the allowance of its category: a hint of the server can stretch a delay over the
\* policy's maximum but never over its deadline (retry.js:76-85).
SleepsBounded ==
  phase = "sleeping" =>
    /\ wake <= failedAt + Larger(hint, MaxDelay[category])
    /\ wake <= start + Deadline[category]

\* No provider call begins once the run is aborted, not even after a sleep that did not hear
\* it (retry.js, throwIfAborted at the top of the loop).
AbortStopsCalls == aborted => callStart <= abortedAt

\* A turn is charged with a strike for a timeout only when the provider had the whole of it and
\* the run was not aborted: a user's abort is never taken for a slow model (TurnExecutor.js).
StrikesAreTimeouts == outcome = "504" => ~aborted /\ now = callStart + CallTime

\* What a sleep of category c is worth.
LEMMA SleepLength ==
  ASSUME IndInv, NEW c \in Categories, NEW h \in Hints, Retry(c, h)
  PROVE  wake' <= now + Larger(h, MaxDelay[c]) /\ failedAt' = now /\ hint' = h /\ category' = c
<1>1. PICK jitter \in 0..(CapOf(c) - 1) :
        Sleep(c, h, Smaller(Deadline[c] - (now - FirstOf(c)), Larger(h, jitter)))
  BY DEF Retry
<1>2. /\ now \in Nat /\ start \in Nat /\ h \in Nat /\ cap \in Nat
      /\ Deadline[c] \in Nat /\ Base[c] \in Nat /\ MaxDelay[c] \in Nat /\ Base[c] <= MaxDelay[c]
  BY Policies, TimeAssumption DEF IndInv, TypeOK
<1>3. CapOf(c) \in Nat /\ CapOf(c) <= MaxDelay[c]
  BY <1>2, Policies DEF CapOf, IndInv, TypeOK
<1>4. FirstOf(c) \in Nat
  BY <1>2 DEF FirstOf
<1> DEFINE remaining == Deadline[c] - (now - FirstOf(c))
<1>5. remaining \in Int
  BY <1>2, <1>4
<1>6. /\ wake' = now + Smaller(remaining, Larger(h, jitter))
      /\ failedAt' = now /\ hint' = h /\ category' = c
  BY <1>1 DEF Sleep
<1> HIDE DEF remaining
<1>7. jitter \in Int /\ jitter <= MaxDelay[c]
  BY <1>2, <1>3
<1>8. Smaller(remaining, Larger(h, jitter)) <= Larger(h, MaxDelay[c])
  BY <1>2, <1>5, <1>7 DEF Smaller, Larger
<1>9. Smaller(remaining, Larger(h, jitter)) \in Int /\ Larger(h, MaxDelay[c]) \in Int
  BY <1>2, <1>5, <1>7 DEF Smaller, Larger
<1> QED BY <1>2, <1>6, <1>8, <1>9

\* No sleep is longer than hint and policy, nor does it outlast the deadline.
THEOREM SleepsEnd == Spec => []SleepsBounded
<1> DEFINE Short == phase = "sleeping" => wake <= failedAt + Larger(hint, MaxDelay[category])
<1>1. Init => Short
  BY DEF Init
<1>2. IndInv /\ Short /\ [Next]_vars => Short'
  <2> SUFFICES ASSUME IndInv, Short, [Next]_vars PROVE Short'
    OBVIOUS
  <2>1. CASE phase' # "sleeping"
    BY <2>1
  <2>2. CASE phase' = phase /\ UNCHANGED <<allowance, wake, failure>>
    BY <2>2 DEF allowance, failure
  <2>3. ASSUME NEW c \in Categories, NEW h \in Hints, Retry(c, h) PROVE Short'
    BY <2>3, SleepLength
  <2>4. \/ phase' # "sleeping"
        \/ phase' = phase /\ UNCHANGED <<allowance, wake, failure>>
        \/ \E c \in Categories, h \in Hints : Retry(c, h)
    BY DEF Next, Attempt, Answer, Cut, Refuse, Exhausted, End, Wake, Interrupt, Abort, Tick, vars
  <2> QED BY <2>1, <2>2, <2>3, <2>4
<1>3. IndInv /\ Short => SleepsBounded
  BY DEF IndInv, Asleep, SleepsBounded
<1> QED BY <1>1, <1>2, <1>3, Invariant, PTL DEF Spec

\* Once the run is aborted the provider is not called again.
THEOREM AbortStops == Spec => []AbortStopsCalls
<1>1. Init => AbortStopsCalls
  BY DEF Init, AbortStopsCalls
<1>2. IndInv /\ AbortStopsCalls /\ [Next]_vars => AbortStopsCalls'
  <2> SUFFICES ASSUME IndInv, AbortStopsCalls, [Next]_vars PROVE AbortStopsCalls'
    OBVIOUS
  <2>1. CASE UNCHANGED <<signal, callStart>>
    BY <2>1 DEF AbortStopsCalls, signal
  <2>2. CASE UNCHANGED signal /\ ~aborted
    BY <2>2 DEF AbortStopsCalls, signal
  <2>3. CASE Abort
    BY <2>3 DEF Abort, IndInv, Past, AbortStopsCalls
  <2>4. \/ UNCHANGED <<signal, callStart>> \/ (UNCHANGED signal /\ ~aborted) \/ Abort
    <3>1. ASSUME NEW c \in Categories, NEW h \in Hints, Retry(c, h)
          PROVE  UNCHANGED <<signal, callStart>>
      BY <3>1 DEF Retry, Sleep
    <3>2. ASSUME NEW c \in Categories, Exhausted(c) PROVE UNCHANGED <<signal, callStart>>
      BY <3>2 DEF Exhausted, End
    <3>3. CASE Attempt
      BY <3>3 DEF Attempt, End
    <3> QED BY <3>1, <3>2, <3>3 DEF Next, Answer, Cut, Refuse, End, Wake, Interrupt, Tick, vars
  <2> QED BY <2>1, <2>2, <2>3, <2>4
<1> QED BY <1>1, <1>2, Invariant, PTL DEF Spec

\* A strike for a timeout is one.
THEOREM StrikesAreDue == Spec => []StrikesAreTimeouts
<1> DEFINE Strike == StrikesAreTimeouts /\ (phase # "done" => outcome = "none")
<1>1. Init => Strike
  BY DEF Init, StrikesAreTimeouts
<1>2. Strike /\ [Next]_vars => Strike'
  <2> SUFFICES ASSUME Strike, [Next]_vars PROVE Strike'
    OBVIOUS
  <2>1. CASE outcome' # "504" /\ phase' = "done"
    BY <2>1 DEF StrikesAreTimeouts
  <2>2. CASE outcome' = outcome /\ phase # "done"
    BY <2>2 DEF StrikesAreTimeouts
  <2>3. CASE UNCHANGED vars
    BY <2>3 DEF vars, signal, StrikesAreTimeouts
  <2>4. CASE Cut
    BY <2>4 DEF Cut, End, signal, StrikesAreTimeouts
  <2>5. ASSUME NEW c \in Categories, NEW h \in Hints, Retry(c, h)
        PROVE  outcome' = outcome /\ phase # "done"
    BY <2>5 DEF Retry, Sleep
  <2>6. ASSUME NEW c \in Categories, Exhausted(c) PROVE outcome' # "504" /\ phase' = "done"
    BY <2>6 DEF Exhausted, End
  <2>7. CASE Attempt \/ Wake \/ Abort \/ Tick
    BY <2>1, <2>2, <2>7 DEF Attempt, Wake, Abort, Tick, End
  <2>8. CASE Answer \/ Refuse \/ Interrupt
    BY <2>1, <2>8 DEF Answer, Refuse, Interrupt, End
  <2> QED BY <2>1, <2>2, <2>3, <2>4, <2>5, <2>6, <2>7, <2>8 DEF Next
<1>3. Strike => StrikesAreTimeouts
  OBVIOUS
<1> QED BY <1>1, <1>2, <1>3, PTL DEF Spec
=============================================================================
