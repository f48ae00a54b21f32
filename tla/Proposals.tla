----------------------------- MODULE Proposals -----------------------------
(***************************************************************************)
(* The dispatch of a turn's recorded commands and the resolution of the    *)
(* proposals they make (TurnExecutor.execute, Entries.set and              *)
(* waitForResolution, AgentLoop.resolve, the stale-proposal cleanup of     *)
(* ensureRun, the yolo plugin, the `set` RPC).                             *)
(*                                                                         *)
(* A path is the log://<L>/<T>/<S>/<action> entry of one command or of one *)
(* proposal a command's handler makes; paths are numbered in the order they *)
(* are allocated.  The turn runs on connection Home; calls come in on every *)
(* connection, and each connection has an Entries object of its own: only a *)
(* write through Home's can wake the turn.  As in AgentLoop, an action is a *)
(* database statement with the synchronous code after it; reads whose       *)
(* answers nothing depends on are left out.                                 *)
(***************************************************************************)
EXTENDS Integers, FiniteSets

CONSTANTS
  Calls,       \* RPC calls in flight at a time
  Conns,       \* client connections
  Home,        \* the connection whose AgentLoop executes the turn
  MaxPaths,    \* bound: log entries of the run
  YoloModes    \* the values of the run's yolo attribute that are explored

ASSUME HomeAssumption == Home \in Conns
ASSUME PathAssumption == MaxPaths \in Nat
ASSUME YoloAssumption == YoloModes \subseteq BOOLEAN

Paths   == 1..MaxPaths
Settled == {"resolved", "failed", "cancelled"}
Open    == {"proposed", "streaming"}    \* what waitForResolution waits at

\* Where the turn stands in the dispatch loop.
TurnPc == {"idle", "next", "propose", "list", "pick",
           "accept", "accepted",            \* inside proposal.pending: yolo
           "check", "wait"}                 \* waitForResolution

\* Where a call stands: `set` of a state, and run()'s cleanup ("cancel").
CallPc == {"idle", "resolve", "accepted", "raw", "cancel"}

VARIABLES
  state,     \* state[p]: run_views.state of the entry, "none" without a row
  opened,    \* history: entries whose last state a client wrote, and wrote open
  last,      \* the highest path allocated
  first,     \* the first path of the current turn
  stop,      \* the last path the current turn recorded
  todo,      \* proposals the handler under way has yet to write
  refused,   \* recorded entries whose state in memory is failed
  at,        \* the recorded entry the dispatch loop is at
  tpc,       \* where the turn stands
  yolo,      \* the run is a yolo run
  crashed,   \* abortAfter: a dispatch of this turn has thrown
  pend,      \* proposals of the last getUnresolved still to be looked at
  cur,       \* the proposal being looked at, 0 if none
  aborted,   \* the signal of the drain the turn runs in is set
  kpc,       \* kpc[k]: where call k stands
  kconn,     \* kconn[k]: the connection it is on
  kpath,     \* kpath[k]: the path it resolves, 0 if none
  kstate,    \* kstate[k]: the state it asks for
  kpend,     \* kpend[k]: proposals its cleanup has yet to cancel
  missed     \* history: another connection has written to cur since the wait began

callVars  == <<kpc, kconn, kpath, kstate, kpend>>
storeVars == <<state, opened, last>>
planVars  == <<first, stop, refused, yolo, todo>>
turnVars  == <<planVars, at, tpc, crashed, pend, cur, missed>>
restVars  == <<aborted, callVars>>
vars == <<storeVars, turnVars, aborted, callVars>>

StoreOK ==
  /\ state \in [Paths -> {"none"} \cup Open \cup Settled] /\ opened \subseteq Paths
  /\ last \in 0..MaxPaths

TurnOK ==
  /\ first \in 1..(MaxPaths + 1) /\ stop \in 0..MaxPaths /\ at \in 1..(MaxPaths + 1)
  /\ tpc \in TurnPc
  /\ todo \in 0..2
  /\ pend \subseteq Paths /\ refused \subseteq Paths
  /\ cur \in 0..MaxPaths

FlagsOK ==
  /\ yolo \in BOOLEAN /\ crashed \in BOOLEAN /\ aborted \in BOOLEAN /\ missed \in BOOLEAN

CallsOK ==
  /\ kpc \in [Calls -> CallPc]
  /\ kconn \in [Calls -> Conns]
  /\ kpath \in [Calls -> 0..MaxPaths]
  /\ kstate \in [Calls -> {"none"} \cup Open \cup Settled]
  /\ kpend \in [Calls -> SUBSET Paths]

TypeOK == StoreOK /\ TurnOK /\ FlagsOK /\ CallsOK

Init ==
  /\ state = [p \in Paths |-> "none"]
  /\ opened = {} /\ last = 0 /\ first = 1 /\ stop = 0 /\ at = 1
  /\ tpc = "idle" /\ yolo = FALSE /\ crashed = FALSE /\ aborted = FALSE
  /\ pend = {} /\ cur = 0 /\ refused = {} /\ todo = 0
  /\ kpc = [k \in Calls |-> "idle"]
  /\ kconn = [k \in Calls |-> Home]
  /\ kpath = [k \in Calls |-> 0]
  /\ kstate = [k \in Calls |-> "none"]
  /\ kpend = [k \in Calls |-> {}]
  /\ missed = FALSE

Unresolved == {p \in Paths : state[p] = "proposed"}    \* getUnresolved

-----------------------------------------------------------------------------
(* The turn *)

\* What a turn holds when there is none.
Idle ==
  /\ tpc' = "idle" /\ first' = 1 /\ stop' = 0 /\ at' = 1
  /\ yolo' = FALSE /\ crashed' = FALSE /\ missed' = FALSE /\ aborted' = FALSE
  /\ pend' = {} /\ cur' = 0 /\ refused' = {} /\ todo' = 0

\* The response is parsed and every command recorded: those a filter or the path
\* check refuses are written as failed at once, the others only get their path.
BeginTurn ==
  /\ tpc = "idle" /\ ~aborted
  /\ \E n \in 1..(MaxPaths - last) :
       /\ refused' \in SUBSET ((last + 1)..(last + n))
       /\ state' = [p \in Paths |-> IF p \in refused' THEN "failed" ELSE state[p]]
       /\ first' = last + 1 /\ at' = last + 1
       /\ stop' = last + n /\ last' = last + n
  /\ yolo' \in YoloModes
  /\ tpc' = "next" /\ crashed' = FALSE /\ pend' = {} /\ cur' = 0 /\ todo' = 0
  /\ UNCHANGED <<opened, missed, restVars>>

\* Mutant of Advance: an entry that is passed over is counted twice.
Advance_Twice == at' = at + 2 /\ tpc' = "next"

Advance == at' = at + 1 /\ tpc' = "next"

\* A recorded entry that is failed is passed over.
SkipRefused ==
  /\ tpc = "next" /\ at <= stop /\ at \in refused
  /\ Advance
  /\ UNCHANGED <<storeVars, planVars, missed, crashed, pend, cur, restVars>>

\* After a dispatch that threw, the entries that follow are written as failed.
AbortEntry ==
  /\ tpc = "next" /\ at <= stop /\ at \notin refused /\ crashed
  /\ state' = [state EXCEPT ![at] = "failed"]
  /\ Advance
  /\ UNCHANGED <<opened, last, missed, planVars, crashed, pend, cur, restVars>>

CanDispatch == tpc = "next" /\ at <= stop /\ at \notin refused /\ ~crashed

\* The handler throws before it has written: PermissionError is soft, anything else
\* aborts the entries that follow.
DispatchThrows ==
  /\ CanDispatch
  /\ crashed' \in BOOLEAN
  /\ Advance
  /\ UNCHANGED <<storeVars, planVars, missed, pend, cur, restVars>>

\* What a handler writes: own is the state its entry gets ("none": no row), n the
\* number of proposals it then makes, each under a path it allocates.
Handled(own, n) ==
  /\ CanDispatch
  /\ last + n <= MaxPaths
  /\ state' = [state EXCEPT ![at] = own]
  /\ todo' = n
  /\ tpc' = IF n > 0 THEN "propose" ELSE "list"
  /\ UNCHANGED <<opened, last, missed, first, stop, refused, yolo, at, crashed, pend, cur,
                 restVars>>

\* sh, env, ask_user, <set> of a file, <rm> of one file: the entry is the proposal.
Propose == Handled("proposed", 0)

\* <rm> of several files: a proposal for each under a path of its own.
ProposeEach == \E n \in 1..2 : Handled("none", n)

\* <mv>, <cp> to a file: a resolved recap, and a proposal to write the destination.
ProposeMove == Handled("resolved", 1)

\* Every other outcome: done, failed, or nothing written.
Settle == \E own \in {"none", "resolved", "failed"} : Handled(own, 0)

Dispatch == Propose \/ ProposeEach \/ ProposeMove \/ Settle

\* The next of them is written; a client may settle it before the others exist.
ProposeNext ==
  /\ tpc = "propose" /\ last < MaxPaths
  /\ last' = last + 1
  /\ state' = [state EXCEPT ![last + 1] = "proposed"]
  /\ todo' = todo - 1
  /\ tpc' = IF todo = 1 THEN "list" ELSE "propose"
  /\ UNCHANGED <<opened, missed, first, stop, refused, yolo, at, crashed, pend, cur,
                 restVars>>

\* <mv>, <cp>: the diff that is to be the proposal's body is too large for a row;
\* set() reports it and returns, without a proposal.
ProposeOverflow ==
  /\ tpc = "propose" /\ state[at] # "none"
  /\ todo' = 0 /\ tpc' = "list"
  /\ UNCHANGED <<storeVars, first, stop, refused, yolo, at, crashed, missed, pend, cur,
                 restVars>>

\* Mutant of ListUnresolved: only the entry's own path is waited for.
ListUnresolved_Own ==
  /\ tpc = "list"
  /\ pend' = Unresolved \cap {at}
  /\ tpc' = "pick"
  /\ UNCHANGED <<storeVars, planVars, at, missed, crashed, cur, restVars>>

\* getUnresolved: the run's proposals, left-overs of earlier turns included.
ListUnresolved ==
  /\ tpc = "list"
  /\ pend' = Unresolved
  /\ tpc' = "pick"
  /\ UNCHANGED <<storeVars, planVars, at, missed, crashed, cur, restVars>>

\* proposal.pending for the next one: yolo accepts it, a client is only notified.
PickProposal(p) ==
  /\ tpc = "pick" /\ p \in pend
  /\ pend' = pend \ {p} /\ cur' = p
  /\ tpc' = IF yolo THEN "accept" ELSE "check"
  /\ UNCHANGED <<storeVars, planVars, at, missed, crashed, restVars>>

\* All looked at: the loop goes on.  (The states read here carry no `status`, so
\* abortAfter is never set from them.)
NextEntry ==
  /\ tpc = "pick" /\ pend = {}
  /\ Advance /\ cur' = 0
  /\ UNCHANGED <<storeVars, planVars, missed, crashed, pend, restVars>>

\* resolve_known_entry_view: whatever state the row is in.
Put(p, s) ==
  /\ state' = [state EXCEPT ![p] = s]
  /\ opened' = IF s \in Open THEN opened \cup {p} ELSE opened \ {p}

\* yolo's serverResolve: a veto fails the proposal, else it is resolved, whatever
\* state it is in by now, and then proposal.accepted is emitted.
YoloWrite ==
  /\ tpc = "accept"
  /\ \E s \in {"resolved", "failed"} :
       /\ Put(cur, s)
       /\ tpc' = IF s = "resolved" THEN "accepted" ELSE "check"
  /\ UNCHANGED <<last, missed, planVars, at, crashed, pend, cur, restVars>>

\* (The subscribers of sh and env write the state once more.)
YoloAccepted ==
  /\ tpc = "accepted"
  /\ Put(cur, "resolved") \/ UNCHANGED <<state, opened>>
  /\ tpc' = "check"
  /\ UNCHANGED <<last, missed, planVars, at, crashed, pend, cur, restVars>>

\* Mutant of WaitForResolution: no look at the state before the wait.
WaitForResolution_NoPreCheck ==
  /\ tpc = "check"
  /\ tpc' = "wait"
  /\ missed' = FALSE
  /\ UNCHANGED <<storeVars, planVars, at, crashed, pend, cur, restVars>>

\* waitForResolution: settled already, or a resolver is registered with Home's Entries.  An
\* entry that streams counts as unresolved.
WaitForResolution ==
  /\ tpc = "check"
  /\ tpc' = IF state[cur] \in Settled THEN "pick" ELSE "wait"
  /\ missed' = FALSE
  /\ UNCHANGED <<storeVars, planVars, at, crashed, pend, cur, restVars>>

\* A subscriber of proposal.accepted throws under yolo: the turn is abandoned, what it
\* had yet to look at stays proposed.
YoloThrows ==
  /\ tpc \in {"accept", "accepted"}
  /\ Idle
  /\ UNCHANGED <<storeVars, callVars>>

EndTurn ==
  /\ tpc = "next" /\ at > stop
  /\ Idle
  /\ UNCHANGED <<storeVars, callVars>>

TurnStep ==
  \/ SkipRefused \/ AbortEntry \/ DispatchThrows
  \/ Dispatch \/ ProposeNext \/ ProposeOverflow
  \/ ListUnresolved \/ (\E p \in Paths : PickProposal(p)) \/ NextEntry
  \/ YoloWrite \/ YoloAccepted \/ YoloThrows \/ WaitForResolution \/ EndTurn

-----------------------------------------------------------------------------
(* Calls *)

\* #drainPendingResolution of connection c's Entries.
Wake(c, p) ==
  tpc' = IF c = Home /\ tpc = "wait" /\ cur = p THEN "pick" ELSE tpc

\* entries.set of a state through connection c.  Any state wakes a turn that waits at p.
SetState(c, p, s) ==
  /\ Put(p, s)
  /\ Wake(c, p)
  /\ missed' = (missed \/ (c # Home /\ tpc = "wait" /\ cur = p))
  /\ UNCHANGED <<last, planVars, at, crashed, pend, cur>>

Goto(k, from, to) == kpc[k] = from /\ kpc' = [kpc EXCEPT ![k] = to]

Return(k, from) ==
  /\ Goto(k, from, "idle")
  /\ kpath' = [kpath EXCEPT ![k] = 0]
  /\ kstate' = [kstate EXCEPT ![k] = "none"]
  /\ kpend' = [kpend EXCEPT ![k] = {}]
  /\ kconn' = [kconn EXCEPT ![k] = Home]

\* `set path state`: what getState answers decides between AgentLoop.resolve and a raw
\* write, also of an open state, and of the state there is when attributes come along
\* (without them that is a confirmation, which writes nothing).
CallSet(k, c, p, s) ==
  /\ state[p] # "none"
  /\ Goto(k, "idle", IF state[p] = "proposed" /\ s \in Settled THEN "resolve" ELSE "raw")
  /\ kconn' = [kconn EXCEPT ![k] = c]
  /\ kpath' = [kpath EXCEPT ![k] = p]
  /\ kstate' = [kstate EXCEPT ![k] = s]
  /\ UNCHANGED <<storeVars, turnVars, aborted, kpend>>

\* resolve(): "cancelled" rejects, "failed" is an error, "resolved" accepts unless a
\* plugin vetoes.  The state it is in by now is not looked at.
Reject(k) ==
  /\ Return(k, "resolve")
  /\ SetState(kconn[k], kpath[k], "failed")
  /\ UNCHANGED aborted

Accept(k) ==
  /\ kstate[k] = "resolved"
  /\ Goto(k, "resolve", "accepted")
  /\ SetState(kconn[k], kpath[k], "resolved")
  /\ UNCHANGED <<aborted, kconn, kpath, kstate, kpend>>

\* proposal.accepted: files are written, removed, moved, channels opened; the
\* subscribers of sh and env write the state once more.
Accepted(k) ==
  /\ Return(k, "accepted")
  /\ SetState(kconn[k], kpath[k], "resolved") \/ UNCHANGED <<storeVars, turnVars>>
  /\ UNCHANGED aborted

\* Clients may not write the body of a log entry: a `set` that has one is refused.
RawWrite(k) ==
  /\ Return(k, "raw")
  /\ SetState(kconn[k], kpath[k], kstate[k]) \/ UNCHANGED <<storeVars, turnVars>>
  /\ UNCHANGED aborted

\* run() on an existing run: ensureRun aborts its own connection's drain and lists the
\* proposals left, then cancels them one by one.
CallRun(k, c) ==
  /\ Goto(k, "idle", "cancel")
  /\ kconn' = [kconn EXCEPT ![k] = c]
  /\ kpend' = [kpend EXCEPT ![k] = Unresolved]
  /\ aborted' = (aborted \/ (c = Home /\ tpc # "idle"))
  /\ UNCHANGED <<storeVars, turnVars, kpath, kstate>>

CancelStale(k, p) ==
  /\ kpc[k] = "cancel" /\ p \in kpend[k]
  /\ SetState(kconn[k], p, "cancelled")
  /\ kpend' = [kpend EXCEPT ![k] = @ \ {p}]
  /\ UNCHANGED <<aborted, kpc, kconn, kpath, kstate>>

CancelDone(k) ==
  /\ kpend[k] = {}
  /\ Return(k, "cancel")
  /\ UNCHANGED <<storeVars, turnVars, aborted>>

BeginCall(k) ==
  \E c \in Conns :
    CallRun(k, c) \/ \E p \in Paths, s \in Open \cup Settled : CallSet(k, c, p, s)

CallStep(k) ==
  \/ Reject(k) \/ Accept(k) \/ Accepted(k) \/ RawWrite(k)
  \/ (\E p \in Paths : CancelStale(k, p)) \/ CancelDone(k)

\* The client cancels the run, leaves, or the server shuts down: the drain's signal
\* is set; a turn that waits is not woken by it.
Abort ==
  /\ tpc # "idle" /\ ~aborted
  /\ aborted' = TRUE
  /\ UNCHANGED <<storeVars, turnVars, callVars>>

\* The process dies: the rows stay, the turn, the resolvers and the calls are gone.
Crash ==
  /\ Idle
  /\ kpc' = [k \in Calls |-> "idle"]
  /\ kconn' = [k \in Calls |-> Home]
  /\ kpath' = [k \in Calls |-> 0]
  /\ kstate' = [k \in Calls |-> "none"]
  /\ kpend' = [k \in Calls |-> {}]
  /\ UNCHANGED storeVars

Next ==
  \/ BeginTurn \/ TurnStep \/ Abort \/ Crash
  \/ \E k \in Calls : BeginCall(k) \/ CallStep(k)

Spec == Init /\ [][Next]_vars

\* A turn under way and a call under way go on (their handlers return); that a client
\* answers a proposal is not assumed.
LiveSpec ==
  /\ Init /\ [][Next]_vars
  /\ WF_vars(TurnStep)
  /\ \A k \in Calls : WF_vars(CallStep(k))

-----------------------------------------------------------------------------
(* Properties *)

\* Dispatch does not move past a proposal: when the turn goes on to its next entry,
\* every proposal an earlier entry of the turn made, under its own path or under one
\* its handler allocated, has been settled.  Only what a client itself writes `proposed`
\* or `streaming` may be open: that write wakes the turn like any other.
SettledBeforeNext ==
  tpc = "next" => \A p \in Paths : p >= first /\ state[p] \in Open => p \in opened

\* A turn that waits for a proposal that is settled has missed no write of its own
\* connection: whether the write came before the wait began (yolo's, a fast client's)
\* or while it lasted.
NoLostWakeup ==
  tpc = "wait" /\ state[cur] \in Settled => missed

\* A yolo run needs no client: every turn comes to its end, whatever proposals it makes
\* and whatever settled states clients write to them meanwhile ("The
\* entries.waitForResolution blocking call wakes immediately; the loop continues without
\* RPC roundtrip"), unless it finds an entry that a client has written open after yolo
\* had resolved it: for that one it waits, and the answer may come by another connection.
YoloTurnEnds ==
  yolo ~> tpc = "idle" \/ (tpc = "wait" /\ (cur \in opened \/ missed))

\* "Abort all in-flight runs and drain": a turn whose drain is aborted ends.
AbortedTurnEnds == aborted ~> tpc = "idle"
=============================================================================
