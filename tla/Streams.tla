------------------------------ MODULE Streams ------------------------------
(***************************************************************************)
(* The output of one accepted sh or env command (stream.js, finalize.js,   *)
(* the child process of the yolo plugin).  The command writes chunks to    *)
(* channels; each channel is an entry that grows, then gets a terminal     *)
(* state.  Four kinds of handlers end a stream: the producer's end (yolo's *)
(* close handler, or a client's stream/completed), yolo's handler of a      *)
(* failed launch, and calls of stream/aborted and stream/cancel.  All read  *)
(* the channels and write each one back with a terminal state; only the    *)
(* first two go on to wake the run.                                        *)
(*                                                                         *)
(* Entries.set with a body is two statements that write: the body          *)
(* (upsert_entry), then the state (upsert_run_view).  With `append` it is   *)
(* one.  The run's loops, which AgentLoop models, are here what finalize    *)
(* sees of them.                                                           *)
(***************************************************************************)
EXTENDS Integers, Sequences, FiniteSets

CONSTANTS
  Channels,    \* numbers of the channels (1 is stdout, 2 is stderr)
  MaxChunks,   \* bound: chunks the command writes to a channel
  MaxRefused,  \* bound: chunks of the command that the database refuses
  Close,       \* the handler of the producer's end
  Launch,      \* yolo's handler of a failed launch
  Cancels,     \* calls of stream/aborted and stream/cancel
  Locals       \* who runs the command: TRUE is yolo, FALSE is a client

ASSUME ChannelAssumption == Channels \subseteq Nat /\ IsFiniteSet(Channels)
ASSUME ChunkAssumption   == MaxChunks \in Nat /\ MaxRefused \in Nat
ASSUME HandlerAssumption == Close # Launch /\ {Close, Launch} \cap Cancels = {}
ASSUME LocalAssumption   == Locals \subseteq BOOLEAN

Finals     == {Close, Launch}              \* the handlers that run finalizeStream
Handlers   == Finals \cup Cancels
Terminal   == {"resolved", "failed", "cancelled"}
HandlerPc  == {"idle", "read", "body", "state", "log", "dormant", "latest", "wake", "done"}
LoopStatus == {"running", "ended", "cancelled"}

VARIABLES
  local,      \* yolo runs the command
  child,      \* the command: "starting", "running", "exited", or "gone" with the process
  killed,     \* the run's abort has killed it
  emitted,    \* emitted[c]: chunks it has written to channel c
  appended,   \* appended[c]: chunks of them that the database was asked to append
  refused,    \* history: refused[c], those of them the database refused as too much
  body,       \* body[c]: the body of channel c, the numbers of its chunks
  chan,       \* chan[c]: the state of channel c
  log,        \* what the command's log entry tells: "open", "ran" or "cancelled"
  hpc,        \* hpc[h]: where handler h stands
  snap,       \* snap[h][c]: the body of c that h has read
  left,       \* left[h]: the channels it has yet to write
  loop,       \* the run's latest loop: 100 or 102, 200 or 500, 499
  completed,  \* a loop of the run has ended at 200 or 500
  own,        \* the latest loop is of the drain that started the command
  woken       \* prompts that run.wake has put to the run

commandVars == <<local, child, killed, emitted>>
channelVars == <<appended, refused, body, chan, log>>
handlerVars == <<hpc, snap, left>>
loopVars    == <<loop, completed, own, woken>>
vars == <<commandVars, channelVars, handlerVars, loopVars>>

Chunks(s) == {s[i] : i \in 1..Len(s)}    \* the chunks that a body shows

Empty == [c \in Channels |-> <<>>]

Bodies == [Channels -> Seq(1..MaxChunks)]

TypeOK ==
  /\ local \in BOOLEAN /\ killed \in BOOLEAN
  /\ child \in {"starting", "running", "exited", "gone"}
  /\ emitted \in [Channels -> 0..MaxChunks]
  /\ appended \in [Channels -> 0..MaxChunks]
  /\ \A c \in Channels : appended[c] <= emitted[c]
  /\ refused \in [Channels -> SUBSET (1..MaxChunks)]
  /\ body \in Bodies
  /\ chan \in [Channels -> {"streaming"} \cup Terminal]
  /\ log \in {"open", "ran", "cancelled"}
  /\ hpc \in [Handlers -> HandlerPc]
  /\ snap \in [Handlers -> Bodies]
  /\ left \in [Handlers -> SUBSET Channels]
  /\ loop \in LoopStatus /\ completed \in BOOLEAN /\ own \in BOOLEAN
  /\ woken \in 0..2

\* The proposal has been accepted and its channels are open.
Init ==
  /\ local \in Locals
  /\ child = "starting" /\ killed = FALSE
  /\ emitted = [c \in Channels |-> 0]
  /\ appended = [c \in Channels |-> 0]
  /\ refused = [c \in Channels |-> {}]
  /\ body = Empty
  /\ chan = [c \in Channels |-> "streaming"]
  /\ log = "open"
  /\ hpc = [h \in Handlers |-> "idle"]
  /\ snap = [h \in Handlers |-> Empty]
  /\ left = [h \in Handlers |-> {}]
  /\ loop = "running" /\ own = TRUE /\ woken = 0
  /\ completed \in BOOLEAN

-----------------------------------------------------------------------------
(* The command *)

Spawned ==
  /\ child = "starting"
  /\ child' = "running"
  /\ UNCHANGED <<local, killed, emitted, channelVars, handlerVars, loopVars>>

\* The spawn fails: node emits "error", and "close" after it.
LaunchFails ==
  /\ child = "starting" /\ local
  /\ child' = "exited"
  /\ hpc' = [hpc EXCEPT ![Launch] = "read", ![Close] = "read"]
  /\ UNCHANGED <<local, killed, emitted, channelVars, snap, left, loopVars>>

Emit(c) ==
  /\ child = "running"
  /\ emitted[c] < MaxChunks
  /\ emitted' = [emitted EXCEPT ![c] = @ + 1]
  /\ UNCHANGED <<local, child, killed, channelVars, handlerVars, loopVars>>

\* Mutant of AppendChunk: the chunk is read when its turn comes, not kept in the chain.
AppendChunk_Newest(c) ==
  /\ child # "gone" /\ appended[c] < emitted[c]
  /\ body' = [body EXCEPT ![c] = Append(@, emitted[c])]
  /\ appended' = [appended EXCEPT ![c] = @ + 1]
  /\ UNCHANGED <<commandVars, refused, chan, log, handlerVars, loopVars>>

\* Mutant of AppendChunk: it does not look whether there is a chunk.
AppendChunk_Unguarded(c) ==
  /\ child # "gone"
  /\ body' = [body EXCEPT ![c] = Append(@, appended[c] + 1)]
  /\ appended' = [appended EXCEPT ![c] = @ + 1]
  /\ UNCHANGED <<commandVars, refused, chan, log, handlerVars, loopVars>>

\* append_entry_body of the oldest chunk in the channel's chain (yolo) or under way to
\* the database (a client's stream calls); the state of the channel is not looked at.
AppendChunk(c) ==
  /\ child # "gone" /\ appended[c] < emitted[c]
  /\ body' = [body EXCEPT ![c] = Append(@, appended[c] + 1)]
  /\ appended' = [appended EXCEPT ![c] = @ + 1]
  /\ UNCHANGED <<commandVars, refused, chan, log, handlerVars, loopVars>>

\* The chunk would make the body larger than an entry may be: append_entry_body fails by
\* the CHECK of the schema, yolo's chain reports it and goes on (a client gets an error).
\* The chunk is lost; a smaller one that follows may fit.
RefuseChunk(c) ==
  /\ child # "gone" /\ appended[c] < emitted[c]
  /\ Cardinality(UNION {{d} \X refused[d] : d \in Channels}) < MaxRefused
  /\ refused' = [refused EXCEPT ![c] = @ \cup {appended[c] + 1}]
  /\ appended' = [appended EXCEPT ![c] = @ + 1]
  /\ UNCHANGED <<commandVars, body, chan, log, handlerVars, loopVars>>

\* Mutant of Exit: a child killed by a signal (code null) is not finalized.
Exit_NotKilled ==
  /\ child = "running"
  /\ child' = "exited"
  /\ hpc' = IF killed THEN hpc ELSE [hpc EXCEPT ![Close] = "read"]
  /\ UNCHANGED <<local, killed, emitted, channelVars, snap, left, loopVars>>

\* The command ends, by itself or killed: "close", or the client's stream/completed.
Exit ==
  /\ child = "running"
  /\ child' = "exited"
  /\ hpc' = [hpc EXCEPT ![Close] = "read"]
  /\ UNCHANGED <<local, killed, emitted, channelVars, snap, left, loopVars>>

-----------------------------------------------------------------------------
(* Handlers *)

At(h, from, to) == hpc[h] = from /\ hpc' = [hpc EXCEPT ![h] = to]

Drained == \A c \in Channels : appended[c] = emitted[c]

\* Mutant of ReadChannels: the chains are not waited for.
ReadChannels_NoDrain(h) ==
  /\ At(h, "read", "body")
  /\ snap' = [snap EXCEPT ![h] = body]
  /\ left' = [left EXCEPT ![h] = Channels]
  /\ UNCHANGED <<commandVars, channelVars, loopVars>>

\* Mutant of ReadChannels: channels without output are not written back.
ReadChannels_WithOutput(h) ==
  /\ At(h, "read", "body")
  /\ h = Close => Drained
  /\ snap' = [snap EXCEPT ![h] = body]
  /\ left' = [left EXCEPT ![h] = {c \in Channels : body[c] # <<>>}]
  /\ UNCHANGED <<commandVars, channelVars, loopVars>>

\* getEntriesByPattern.  Close waits for the channels' chains (a client's chunks are
\* ahead of its stream/completed); a cancellation waits for nothing.
ReadChannels(h) ==
  /\ At(h, "read", "body")
  /\ h = Close => Drained
  /\ snap' = [snap EXCEPT ![h] = body]
  /\ left' = [left EXCEPT ![h] = Channels]
  /\ UNCHANGED <<commandVars, channelVars, loopVars>>

NextChannel(h, c) == c \in left[h] /\ \A d \in left[h] : c <= d

\* upsert_entry: the body that was read is written back.
WriteBody(h, c) ==
  /\ At(h, "body", "state")
  /\ NextChannel(h, c)
  /\ body' = [body EXCEPT ![c] = snap[h][c]]
  /\ UNCHANGED <<commandVars, appended, refused, chan, log, snap, left, loopVars>>

\* The states a handler may write: a failed launch is exit 127 and then the close's
\* negative code; a killed child is exit 130, or what it makes of the signal.
Outcome(h) ==
  CASE h \in Cancels -> {"cancelled"}
    [] h \in Finals /\ hpc[Launch] # "idle" -> {"failed"}
    [] OTHER -> {"resolved", "failed"}

\* upsert_run_view: whatever state the channel is in by now.
WriteState(h, c) ==
  /\ hpc[h] = "state"
  /\ NextChannel(h, c)
  /\ \E s \in Outcome(h) : chan' = [chan EXCEPT ![c] = s]
  /\ left' = [left EXCEPT ![h] = @ \ {c}]
  /\ hpc' = [hpc EXCEPT ![h] = IF left[h] = {c} THEN "log" ELSE "body"]
  /\ UNCHANGED <<commandVars, appended, refused, body, log, snap, loopVars>>

\* The log entry is rewritten; a cancellation ends here.
WriteLog(h) ==
  /\ At(h, "log", IF h \in Finals THEN "dormant" ELSE "done")
  /\ log' = IF h \in Finals THEN "ran" ELSE "cancelled"
  /\ UNCHANGED <<commandVars, appended, refused, body, chan, snap, left, loopVars>>

\* get_pending_loops
CheckDormant(h) ==
  /\ At(h, "dormant", IF loop = "running" THEN "done" ELSE "latest")
  /\ UNCHANGED <<commandVars, channelVars, snap, left, loopVars>>

\* get_latest_completed_loop
CheckCompleted(h) ==
  /\ At(h, "latest", IF completed THEN "wake" ELSE "done")
  /\ UNCHANGED <<commandVars, channelVars, snap, left, loopVars>>

\* run.wake: inject puts a prompt to the run, with a loop of its own unless one is
\* active by now.
Wake(h) ==
  /\ At(h, "wake", "done")
  /\ woken' = woken + 1
  /\ loop' = "running"
  /\ own' = (own /\ loop = "running")
  /\ UNCHANGED <<commandVars, channelVars, snap, left, completed>>

\* A call of stream/aborted or stream/cancel begins, at any time.
CallCancel(k) ==
  /\ k \in Cancels
  /\ At(k, "idle", "read")
  /\ UNCHANGED <<commandVars, channelVars, snap, left, loopVars>>

HandlerStep(h) ==
  \/ ReadChannels(h)
  \/ \E c \in Channels : WriteBody(h, c) \/ WriteState(h, c)
  \/ WriteLog(h) \/ CheckDormant(h) \/ CheckCompleted(h) \/ Wake(h)

-----------------------------------------------------------------------------
(* The run's loops *)

EndLoop ==
  /\ loop = "running"
  /\ loop' \in {"ended", "cancelled"}
  /\ completed' = (completed \/ loop' = "ended")
  /\ UNCHANGED <<own, woken, commandVars, channelVars, handlerVars>>

\* A prompt of a client, taken by the same drain or by a later one.
StartLoop ==
  /\ loop # "running"
  /\ loop' = "running"
  /\ own' \in {own, FALSE}
  /\ UNCHANGED <<completed, woken, commandVars, channelVars, handlerVars>>

\* The run is aborted: the drain's signal is the child's.
Abort ==
  /\ loop = "running" /\ own /\ local
  /\ child \in {"starting", "running"} /\ ~killed
  /\ killed' = TRUE
  /\ UNCHANGED <<local, child, emitted, channelVars, handlerVars, loopVars>>

\* The server dies: chunks that were not yet appended and the handlers are gone, and
\* with them the command's link to its channels.
Crash ==
  /\ child # "gone"
  /\ child' = "gone"
  /\ emitted' = appended
  /\ hpc' = [h \in Handlers |-> IF hpc[h] = "idle" THEN "idle" ELSE "done"]
  /\ left' = [h \in Handlers |-> {}]
  /\ UNCHANGED <<local, killed, channelVars, snap, loopVars>>

Next ==
  \/ Spawned \/ LaunchFails \/ Exit
  \/ \E c \in Channels : Emit(c) \/ AppendChunk(c) \/ RefuseChunk(c)
  \/ \E h \in Handlers : CallCancel(h) \/ HandlerStep(h)
  \/ EndLoop \/ StartLoop \/ Abort \/ Crash

Spec == Init /\ [][Next]_vars

\* A chain and a handler under way go on: the database answers.  Nothing is assumed of
\* the command, the clients and the run's loops.
LiveSpec ==
  /\ Spec
  /\ \A c \in Channels : WF_vars(AppendChunk(c) \/ RefuseChunk(c))
  /\ \A h \in Handlers : WF_vars(HandlerStep(h))

-----------------------------------------------------------------------------
(* Properties *)

\* However chunks, the close and cancellations interleave, no chunk shows twice or
\* before an earlier one of its channel ("per-channel promise chains so concurrent
\* appends don't race for body order").
InOrder ==
  \A c \in Channels : \A i, j \in DOMAIN body[c] : i < j => body[c][i] < body[c][j]

\* A stream nobody cancels loses nothing that the database has not refused: a channel that
\* has its terminal state has every other chunk the command wrote to it ("the terminal-state
\* write can't land before the last chunk"), and a refused one costs none that follow it.
NothingLost ==
  (\A k \in Cancels : hpc[k] = "idle") =>
    \A c \in Channels :
      chan[c] # "streaming" => Chunks(body[c]) = (1..emitted[c]) \ refused[c]

\* When the log entry tells how the command ended, by whichever handler, no channel is
\* still streaming: the model never reads a finished command with live output.
OutcomeLast ==
  log # "open" => \A c \in Channels : chan[c] # "streaming"

\* However the command ends (by itself, killed, not launched), and whatever calls come
\* in between, its channels become terminal and its log entry tells the end, unless the
\* server dies first.
ExitIsRecorded ==
  child = "exited" ~>
    \/ child = "gone"
    \/ log # "open" /\ \A c \in Channels : chan[c] # "streaming"

=============================================================================
