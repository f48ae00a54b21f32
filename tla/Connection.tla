----------------------------- MODULE Connection -----------------------------
(***************************************************************************)
(* The WebSocket server: connections (ClientConnection.js), the calls of   *)
(* their clients from the message to the last line of the log, the runs    *)
(* the calls kick off on the connection's AgentLoop, and the shutdown of a *)
(* connection and of the server (SocketServer.js).                         *)
(*                                                                         *)
(* A call is a chain of steps with an await between any two: calls of one  *)
(* connection interleave.  The handler of any method but set races a       *)
(* timeout and goes on when it loses.  Two calls may carry one id, and a   *)
(* message that cannot be read is answered and filed under the id Null, as *)
(* a client's own null is.                                                 *)
(***************************************************************************)
EXTENDS Naturals, Sequences

CONSTANTS
  Conns,  \* connections
  Calls,  \* messages of the clients
  Runs,   \* drains of an AgentLoop
  Keys,   \* rows of runs, the keys of #activeRuns
  Ids,    \* JSON-RPC ids, Null among them
  Null,
  None

ASSUME IdsAssumption == Null \in Ids
ASSUME NoneAssumption == None \notin Calls \cup Conns \cup Runs \cup Keys

VARIABLES
  socket,    \* of a connection: "new", "open" (readyState 1) or "closed"
  shutdown,  \* its #shutdownPromise: "none", "draining", "done"
  waits,     \* the runs whose promises abortAll collected
  stage,     \* of a call: how far #handleMessage is
  handler,   \* its handler: "none", "short", "long" (that of set) or "ended"
  conn, id,  \* where it came from and with which id
  answers,   \* what was sent for it
  pending,   \* #rpcLogPending: the call whose row an id stands for
  filed,     \* whose outcome the row of a call holds
  run,       \* of a drain: "none", "looked" (at #activeRuns), "active", "over"
  host, key, \* the connection whose AgentLoop it is, the row it drains
  late,      \* it was started after the connection's shutdown had begun
  doubled,   \* another drain of its row was active beside it in its AgentLoop
  entries,   \* #activeRuns of a connection's AgentLoop
  closing,   \* the server's close(): "no", "draining", "closing", "closed"; or "crashed"
  listed,    \* #connections
  awaited,   \* the connections close() waits for
  early      \* the connections accepted before close() was called

sockets == <<socket, shutdown, waits>>
calls == <<stage, handler, conn, id, answers>>
log == <<pending, filed>>
runs == <<run, host, key, late, doubled, entries>>
server == <<closing, listed, awaited, early>>
vars == <<sockets, calls, log, runs, server>>

Stages == {"unsent", "received", "logged", "waiting", "returned", "replied", "failing", "told", "done"}
Handling(k) == stage[k] \notin {"unsent", "done"}

TypeOK ==
  /\ socket \in [Conns -> {"new", "open", "closed"}]
  /\ shutdown \in [Conns -> {"none", "draining", "done"}]
  /\ waits \in [Conns -> SUBSET Runs]
  /\ \A c \in Conns : shutdown[c] = "done" => socket[c] = "closed"
  /\ stage \in [Calls -> Stages]
  /\ handler \in [Calls -> {"none", "short", "long", "ended"}]
  /\ conn \in [Calls -> Conns \cup {None}] /\ id \in [Calls -> Ids]
  /\ \A k \in Calls : Handling(k) => conn[k] # None /\ socket[conn[k]] # "new"
  /\ answers \in [Calls -> Seq({"result", "error"})]
  /\ pending \in [Conns -> [Ids -> Calls \cup {None}]]
  /\ filed \in [Calls -> Calls \cup {None}]
  /\ run \in [Runs -> {"none", "looked", "active", "over"}]
  /\ host \in [Runs -> Conns \cup {None}] /\ key \in [Runs -> Keys \cup {None}]
  /\ late \in [Runs -> BOOLEAN] /\ doubled \in [Runs -> BOOLEAN]
  /\ \A r \in Runs : run[r] \in {"looked", "active"} => host[r] # None /\ key[r] # None
  /\ entries \in [Conns -> [Keys -> Runs \cup {None}]]
  /\ closing \in {"no", "draining", "closing", "closed", "crashed"}
  /\ listed \subseteq Conns /\ awaited \subseteq Conns /\ early \subseteq Conns

Init ==
  /\ socket = [c \in Conns |-> "new"] /\ shutdown = [c \in Conns |-> "none"]
  /\ waits = [c \in Conns |-> {}]
  /\ stage = [k \in Calls |-> "unsent"] /\ handler = [k \in Calls |-> "none"]
  /\ conn = [k \in Calls |-> None] /\ id = [k \in Calls |-> Null]
  /\ answers = [k \in Calls |-> <<>>]
  /\ pending = [c \in Conns |-> [i \in Ids |-> None]] /\ filed = [k \in Calls |-> None]
  /\ run = [r \in Runs |-> "none"]
  /\ host = [r \in Runs |-> None] /\ key = [r \in Runs |-> None]
  /\ late = [r \in Runs |-> FALSE] /\ doubled = [r \in Runs |-> FALSE]
  /\ entries = [c \in Conns |-> [q \in Keys |-> None]]
  /\ closing = "no" /\ listed = {} /\ awaited = {} /\ early = {}

-----------------------------------------------------------------------------
(* A call *)

To(k, s) == stage' = [stage EXCEPT ![k] = s]

\* #send: nothing goes out on a socket that is not open.
Send(k, what) ==
  answers' = IF socket[conn[k]] = "open" THEN [answers EXCEPT ![k] = Append(@, what)] ELSE answers

\* A message with an id that can be read, and one that cannot.
Receive(c, k, i) ==
  /\ socket[c] = "open" /\ stage[k] = "unsent"
  /\ \/ To(k, "received")
     \/ i = Null /\ To(k, "failing")
  /\ conn' = [conn EXCEPT ![k] = c] /\ id' = [id EXCEPT ![k] = i]
  /\ UNCHANGED <<sockets, handler, answers, log, runs, server>>

\* The row of the call, found again by the id alone.
Log(k) ==
  /\ stage[k] = "received" /\ To(k, "logged")
  /\ pending' = [pending EXCEPT ![conn[k]][id[k]] = k]
  /\ UNCHANGED <<sockets, handler, conn, id, answers, filed, runs, server>>

\* A listener, the row (a call without a method), the method, the handshake or the filter of
\* the result fails; so does what comes after the result was sent.
Fail(k) ==
  /\ stage[k] \in {"received", "logged", "returned", "replied"} /\ To(k, "failing")
  /\ UNCHANGED <<sockets, handler, conn, id, answers, log, runs, server>>

Dispatch(k) ==
  /\ stage[k] = "logged" /\ To(k, "waiting")
  /\ \E kind \in {"short", "long"} : handler' = [handler EXCEPT ![k] = kind]
  /\ UNCHANGED <<sockets, conn, id, answers, log, runs, server>>

\* RUMMY_RPC_TIMEOUT; set alone is registered as longRunning.
Timeout(k) ==
  /\ stage[k] = "waiting" /\ handler[k] = "short" /\ To(k, "failing")
  /\ UNCHANGED <<sockets, handler, conn, id, answers, log, runs, server>>

Ending(k) ==
  /\ handler[k] \in {"short", "long"}
  /\ handler' = [handler EXCEPT ![k] = "ended"]

HandlerEnd_Unraced(k) ==
  /\ Ending(k)
  /\ \E end \in {"returned", "failing"} : To(k, end)
  /\ UNCHANGED <<sockets, conn, id, answers, log, runs, server>>

\* The handler returns or throws; nobody listens when the timeout has won.
HandlerEnd(k) ==
  /\ Ending(k)
  /\ IF stage[k] = "waiting" THEN \E end \in {"returned", "failing"} : To(k, end)
                             ELSE UNCHANGED stage
  /\ UNCHANGED <<sockets, conn, id, answers, log, runs, server>>

Reply(k) ==
  /\ stage[k] = "returned" /\ To(k, "replied")
  /\ Send(k, "result")
  /\ UNCHANGED <<sockets, handler, conn, id, log, runs, server>>

ReplyError(k) ==
  /\ stage[k] = "failing" /\ To(k, "told")
  /\ Send(k, "error")
  /\ UNCHANGED <<sockets, handler, conn, id, log, runs, server>>

Write(k) ==
  LET row == pending[conn[k]][id[k]] IN
    filed' = IF row = None THEN filed ELSE [filed EXCEPT ![row] = k]

File_Kept(k) == Write(k) /\ UNCHANGED pending

\* The outcome goes to the row its id stands for, which is then forgotten.
File(k) ==
  /\ pending' = [pending EXCEPT ![conn[k]][id[k]] = None]
  /\ Write(k)

\* The last steps of both paths; the row of a result may fail to be written.
Finish(k) ==
  /\ \/ stage[k] \in {"replied", "told"} /\ File(k) /\ To(k, "done")
     \/ /\ stage[k] = "replied" /\ To(k, "failing")
        /\ pending' = [pending EXCEPT ![conn[k]][id[k]] = None] /\ UNCHANGED filed
  /\ UNCHANGED <<sockets, handler, conn, id, answers, runs, server>>

\* A listener or the log fails after an error was answered: nobody awaits #handleMessage, and
\* a rejection that nobody handles ends the process.
Crash(k) ==
  /\ stage[k] = "told" /\ closing' = "crashed"
  /\ socket' = [c \in Conns |-> IF socket[c] = "open" THEN "closed" ELSE socket[c]]
  /\ UNCHANGED <<shutdown, waits, calls, log, runs, listed, awaited, early>>

-----------------------------------------------------------------------------
(* Runs *)

\* A call of set, some awaits after it was received, finds no drain of its run under way: it may
\* be answered by then and its client gone.  So may run.wake, which every AgentLoop hears, that
\* of a closed connection too.
KickOff(c, r, q) ==
  /\ socket[c] # "new" /\ entries[c][q] = None
  /\ run[r] = "none" /\ run' = [run EXCEPT ![r] = "looked"]
  /\ host' = [host EXCEPT ![r] = c] /\ key' = [key EXCEPT ![r] = q]
  /\ UNCHANGED <<sockets, calls, log, late, doubled, entries, server>>

Twins(r) == {s \in Runs : run[s] = "active" /\ host[s] = host[r] /\ key[s] = key[r]}

\* inject reads the project between its look at the map and the start of the drain: whoever
\* has started one in between loses its entry.
Start(r) ==
  /\ run[r] = "looked" /\ run' = [run EXCEPT ![r] = "active"]
  /\ late' = [late EXCEPT ![r] = shutdown[host[r]] # "none"]
  /\ entries' = [entries EXCEPT ![host[r]][key[r]] = r]
  /\ doubled' = [s \in Runs |-> doubled[s] \/ s \in Twins(r) \/ (s = r /\ Twins(r) # {})]
  /\ UNCHANGED <<sockets, calls, log, host, key, server>>

\* The finally of a drain deletes the entry of its row, whosever it is.
RunEnds(r) ==
  /\ run[r] = "active" /\ run' = [run EXCEPT ![r] = "over"]
  /\ entries' = [entries EXCEPT ![host[r]][key[r]] = None]
  /\ host' = [host EXCEPT ![r] = None] /\ key' = [key EXCEPT ![r] = None]
  /\ late' = [late EXCEPT ![r] = FALSE] /\ doubled' = [doubled EXCEPT ![r] = FALSE]
  /\ UNCHANGED <<sockets, calls, log, server>>

-----------------------------------------------------------------------------
(* Shutdown *)

Active(c) == {entries[c][q] : q \in Keys} \ {None}

\* shutdown(): the first call snapshots and aborts the connection's runs, later ones share it.
Shutdown(S) ==
  LET first == {c \in S : shutdown[c] = "none"} IN
    /\ shutdown' = [c \in Conns |-> IF c \in first THEN "draining" ELSE shutdown[c]]
    /\ waits' = [c \in Conns |-> IF c \in first THEN Active(c) ELSE waits[c]]

Accept(c) ==
  /\ closing \in {"no", "draining"}
  /\ socket[c] = "new" /\ socket' = [socket EXCEPT ![c] = "open"]
  /\ listed' = listed \cup {c}
  /\ UNCHANGED <<shutdown, waits, calls, log, runs, closing, awaited, early>>

Disconnect_Forgets(c) ==
  /\ socket[c] = "open" /\ socket' = [socket EXCEPT ![c] = "closed"]
  /\ Shutdown({c})
  /\ listed' = listed \ {c}
  /\ UNCHANGED <<calls, log, runs, closing, awaited, early>>

\* The client closes.
Disconnect(c) ==
  /\ socket[c] = "open" /\ socket' = [socket EXCEPT ![c] = "closed"]
  /\ Shutdown({c})
  /\ UNCHANGED <<calls, log, runs, server>>

Down_Unterminated(c) ==
  /\ shutdown[c] = "draining" /\ \A r \in waits[c] : run[r] # "active"
  /\ shutdown' = [shutdown EXCEPT ![c] = "done"] /\ waits' = [waits EXCEPT ![c] = {}]
  /\ listed' = listed \ {c}
  /\ UNCHANGED <<socket, calls, log, runs, closing, awaited, early>>

\* Drained: no listener is left but that of run.wake, the socket is terminated and its close
\* event takes the connection off the server's list.
Down(c) ==
  /\ shutdown[c] = "draining" /\ \A r \in waits[c] : run[r] # "active"
  /\ shutdown' = [shutdown EXCEPT ![c] = "done"] /\ waits' = [waits EXCEPT ![c] = {}]
  /\ socket' = [socket EXCEPT ![c] = "closed"]
  /\ listed' = listed \ {c}
  /\ UNCHANGED <<calls, log, runs, closing, awaited, early>>

CloseServer ==
  /\ closing = "no" /\ closing' = "draining"
  /\ awaited' = listed /\ early' = {c \in Conns : socket[c] # "new"}
  /\ Shutdown(listed)
  /\ UNCHANGED <<socket, calls, log, runs, listed>>

Drained ==
  /\ closing = "draining" /\ \A c \in awaited : shutdown[c] = "done"
  /\ closing' = "closing" /\ listed' = {}
  /\ UNCHANGED <<sockets, calls, log, runs, awaited, early>>

\* wss.close ends when the last socket has.
Closed ==
  /\ closing = "closing" /\ \A c \in Conns : socket[c] # "open"
  /\ closing' = "closed"
  /\ UNCHANGED <<sockets, calls, log, runs, listed, awaited, early>>

CallStep(k) ==
  \/ Log(k) \/ Fail(k) \/ Dispatch(k) \/ Timeout(k) \/ HandlerEnd(k)
  \/ Reply(k) \/ ReplyError(k) \/ Finish(k) \/ Crash(k)

Next ==
  /\ closing # "crashed"
  /\ \/ \E c \in Conns, k \in Calls, i \in Ids : Receive(c, k, i)
     \/ \E k \in Calls : CallStep(k)
     \/ \E c \in Conns, r \in Runs, q \in Keys : KickOff(c, r, q)
     \/ \E r \in Runs : Start(r) \/ RunEnds(r)
     \/ \E c \in Conns : Accept(c) \/ Disconnect(c) \/ Down(c)
     \/ CloseServer \/ Drained \/ Closed

Spec == Init /\ [][Next]_vars

-----------------------------------------------------------------------------
(* Properties *)

\* A call that timed out is never answered by its handler as well: a second answer is only the
\* error of what failed after the result was sent.  A call is answered unless its client left.
AnsweredOnce ==
  \A k \in Calls :
    /\ Len(answers[k]) <= 2
    /\ Len(answers[k]) = 2 => answers[k][1] = "result" /\ answers[k][2] = "error"
    /\ stage[k] = "done" /\ socket[conn[k]] = "open" => Len(answers[k]) > 0

\* The row of a call is written once, by itself or by a call with the same id of the same
\* connection, and while it is being handled: ids used one after the other never mix.
RowsOfOneId ==
  [][\A k \in Calls : filed'[k] # filed[k] =>
       /\ filed[k] = None /\ Handling(k)
       /\ id[filed'[k]] = id[k] /\ conn[filed'[k]] = conn[k]]_vars

\* "Drain in-flight runs first": once close() has drained, a run that still goes on was started
\* on a connection whose shutdown had begun, or on one accepted during the drain, or it is one
\* of two drains of a row, of which the first to end takes the other's entry in #activeRuns
\* away.  That of a client that left is waited for as well.
CloseDrains ==
  closing \in {"closing", "closed"} =>
    \A r \in Runs : run[r] = "active" /\ host[r] \in early => late[r] \/ doubled[r]
=============================================================================
