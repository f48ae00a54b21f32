-------------------------- MODULE Connection_proofs --------------------------
(***************************************************************************)
(* Proofs about Connection, for any connections, calls, ids and runs.  The *)
(* invariant has a part for the answers, one for the rows of the log and   *)
(* one for the drain; each is proved by itself over the type.              *)
(***************************************************************************)
EXTENDS Connection, TLAPS

\* A call has a connection from the moment it is received, and a handler only later.
Received ==
  \A k \in Calls :
    /\ stage[k] # "unsent" => conn[k] \in Conns /\ socket[conn[k]] # "new"
    /\ handler[k] # "none" => stage[k] # "unsent"

\* A call has had no answer, or its result.
AtMostResult(k) ==
  Len(answers[k]) = 0 \/ (Len(answers[k]) = 1 /\ answers[k][1] = "result")

\* How many answers a call has had when #handleMessage is at a stage.
Answers ==
  \A k \in Calls :
    /\ stage[k] \in {"unsent", "received", "logged", "waiting", "returned"} => Len(answers[k]) = 0
    /\ stage[k] \in {"replied", "failing"} => AtMostResult(k)
    /\ Len(answers[k]) <= 2
    /\ Len(answers[k]) = 2 => answers[k][1] = "result" /\ answers[k][2] = "error"
    /\ stage[k] \in {"replied", "told", "done"} /\ socket[conn[k]] = "open" => Len(answers[k]) > 0

\* A pending row is the unwritten row of a call in flight, with that id on that connection.
Rows ==
  /\ \A c \in Conns, i \in Ids : pending[c][i] # None =>
       LET k == pending[c][i] IN
         /\ conn[k] = c /\ id[k] = i /\ filed[k] = None
         /\ stage[k] \notin {"unsent", "received", "done"}
  /\ \A k \in Calls : stage[k] \in {"unsent", "received"} => filed[k] = None

\* A drain that is alone on its row has the entry of the row; an entry is of a drain under way.
Entries ==
  /\ \A c \in Conns, q \in Keys : entries[c][q] # None =>
       LET r == entries[c][q] IN run[r] = "active" /\ host[r] = c /\ key[r] = q
  /\ \A r \in Runs : run[r] = "active" /\ ~doubled[r] =>
       /\ entries[host[r]][key[r]] = r
       /\ \A s \in Twins(r) : s = r

\* A run alone on its row and not started late is waited for; the server waits for every
\* connection that was accepted before close() and is not down.
Drain ==
  /\ \A r \in Runs : run[r] = "active" /\ ~late[r] /\ ~doubled[r] =>
       /\ shutdown[host[r]] = "draining" => r \in waits[host[r]]
       /\ shutdown[host[r]] # "done"
  /\ closing = "no" => \A c \in Conns : socket[c] # "new" => shutdown[c] = "done" \/ c \in listed
  /\ closing \notin {"no", "crashed"} => \A c \in early : shutdown[c] = "done" \/ c \in awaited
  /\ closing \in {"closing", "closed"} => \A c \in awaited : shutdown[c] = "done"

IndInv == TypeOK /\ Received /\ Answers /\ Rows /\ Entries /\ Drain

USE IdsAssumption, NoneAssumption

LEMMA InitInv == Init => IndInv
<1> SUFFICES ASSUME Init PROVE IndInv
  OBVIOUS
<1>1. TypeOK
  BY DEF Init, TypeOK, Stages, Handling
<1>2. Received /\ Answers
  BY DEF Init, Received, Answers
<1>3. Rows
  BY DEF Init, Rows
<1>4. Entries /\ Drain
  BY DEF Init, Entries, Drain
<1> QED
  BY <1>1, <1>2, <1>3, <1>4 DEF IndInv

-----------------------------------------------------------------------------
(* The type *)

LEMMA TypeStep == TypeOK /\ Received /\ [Next]_vars => TypeOK' /\ Received'
<1> SUFFICES ASSUME TypeOK, Received, [Next]_vars PROVE TypeOK' /\ Received'
  OBVIOUS
<1> USE DEF TypeOK, Received, Stages, Handling, sockets, calls, log, runs, server, To
<1>1. ASSUME NEW c \in Conns, NEW k \in Calls, NEW i \in Ids, Receive(c, k, i)
      PROVE  TypeOK' /\ Received'
  BY <1>1 DEF Receive
<1>2. ASSUME NEW k \in Calls, Log(k) PROVE TypeOK' /\ Received'
  BY <1>2 DEF Log
<1>3. ASSUME NEW k \in Calls, Fail(k) PROVE TypeOK' /\ Received'
  BY <1>3 DEF Fail
<1>4. ASSUME NEW k \in Calls, Dispatch(k) PROVE TypeOK' /\ Received'
  BY <1>4 DEF Dispatch
<1>5. ASSUME NEW k \in Calls, Timeout(k) PROVE TypeOK' /\ Received'
  BY <1>5 DEF Timeout
<1>6. ASSUME NEW k \in Calls, HandlerEnd(k) PROVE TypeOK' /\ Received'
  <2>1. /\ handler[k] \in {"short", "long"}
        /\ handler' = [handler EXCEPT ![k] = "ended"]
        /\ UNCHANGED <<sockets, conn, id, answers, log, runs, server>>
    BY <1>6 DEF HandlerEnd, Ending
  <2>2. \/ stage' = stage
        \/ stage[k] = "waiting" /\ \E end \in {"returned", "failing"} : stage' = [stage EXCEPT ![k] = end]
    BY <1>6 DEF HandlerEnd
  <2>3. stage' \in [Calls -> Stages]
    <3>1. CASE stage' = stage
      BY <3>1
    <3>2. ASSUME NEW end \in {"returned", "failing"}, stage' = [stage EXCEPT ![k] = end]
          PROVE  stage' \in [Calls -> Stages]
      BY <3>2
    <3> QED
      BY <2>2, <3>1, <3>2
  <2>4. \A j \in Calls : stage'[j] = stage[j] \/ (j = k /\ Handling(j) /\ stage'[j] # "unsent")
    BY <2>2
  <2>5. \A j \in Calls : Handling(j)' => Handling(j)
    BY <2>4
  <2>6. /\ handler' \in [Calls -> {"none", "short", "long", "ended"}]
        /\ \A j \in Calls : handler'[j] # "none" => handler[j] # "none"
    BY <2>1
  <2> QED
    BY <2>1, <2>3, <2>4, <2>5, <2>6
<1>7. ASSUME NEW k \in Calls, NEW what \in {"result", "error"}, Send(k, what)
      PROVE  answers' \in [Calls -> Seq({"result", "error"})]
  BY <1>7 DEF Send
<1>8. ASSUME NEW k \in Calls, Reply(k) PROVE TypeOK' /\ Received'
  BY <1>7, <1>8 DEF Reply
<1>9. ASSUME NEW k \in Calls, ReplyError(k) PROVE TypeOK' /\ Received'
  BY <1>7, <1>9 DEF ReplyError
<1>10. ASSUME NEW k \in Calls, Finish(k) PROVE TypeOK' /\ Received'
  <2>1. conn[k] \in Conns
    BY <1>10 DEF Finish
  <2>2. /\ pending' \in [Conns -> [Ids -> Calls \cup {None}]]
        /\ filed' \in [Calls -> Calls \cup {None}]
    <3>1. pending' = [pending EXCEPT ![conn[k]][id[k]] = None]
      BY <1>10 DEF Finish, File
    <3>2. filed' = filed \/ \E row \in Calls : filed' = [filed EXCEPT ![row] = k]
      BY <1>10, <2>1 DEF Finish, File, Write
    <3>3. filed' \in [Calls -> Calls \cup {None}]
      BY <3>2
    <3>4. pending' \in [Conns -> [Ids -> Calls \cup {None}]]
      BY <2>1, <3>1
    <3> QED
      BY <3>3, <3>4
  <2>3. /\ \E next \in {"done", "failing"} : stage' = [stage EXCEPT ![k] = next]
        /\ stage[k] \in {"replied", "told"}
        /\ UNCHANGED <<sockets, handler, conn, id, answers, runs, server>>
    BY <1>10 DEF Finish
  <2> QED
    BY <2>2, <2>3
<1>11. ASSUME NEW r \in Runs, Start(r) PROVE TypeOK' /\ Received'
  <2>1. host[r] \in Conns /\ key[r] \in Keys
    BY <1>11 DEF Start
  <2>2. /\ run' \in [Runs -> {"none", "looked", "active", "over"}]
        /\ late' \in [Runs -> BOOLEAN] /\ doubled' \in [Runs -> BOOLEAN]
        /\ entries' \in [Conns -> [Keys -> Runs \cup {None}]]
        /\ \A s \in Runs : run'[s] \in {"looked", "active"} => run[s] \in {"looked", "active"}
    BY <1>11, <2>1 DEF Start
  <2> QED
    BY <1>11, <2>2 DEF Start
<1>12. ASSUME NEW c \in Conns, NEW r \in Runs, NEW q \in Keys, KickOff(c, r, q)
       PROVE  TypeOK' /\ Received'
  BY <1>12 DEF KickOff
<1>13. ASSUME NEW k \in Calls, Crash(k) PROVE TypeOK' /\ Received'
  BY <1>13 DEF Crash
<1>14. ASSUME NEW r \in Runs, RunEnds(r) PROVE TypeOK' /\ Received'
  <2>1. host[r] \in Conns /\ key[r] \in Keys
    BY <1>14 DEF RunEnds
  <2>2. /\ run' \in [Runs -> {"none", "looked", "active", "over"}]
        /\ host' \in [Runs -> Conns \cup {None}] /\ key' \in [Runs -> Keys \cup {None}]
        /\ late' \in [Runs -> BOOLEAN] /\ doubled' \in [Runs -> BOOLEAN]
        /\ entries' \in [Conns -> [Keys -> Runs \cup {None}]]
        /\ \A s \in Runs : run'[s] \in {"looked", "active"} => host'[s] # None /\ key'[s] # None
    BY <1>14, <2>1 DEF RunEnds
  <2> QED
    BY <1>14, <2>2 DEF RunEnds
<1>15. ASSUME NEW S \in SUBSET Conns, Shutdown(S)
       PROVE  /\ shutdown' \in [Conns -> {"none", "draining", "done"}]
              /\ waits' \in [Conns -> SUBSET Runs]
              /\ \A c \in Conns : shutdown'[c] = "done" => shutdown[c] = "done"
  BY <1>15 DEF Shutdown, Active
<1>16. ASSUME NEW c \in Conns, Accept(c) PROVE TypeOK' /\ Received'
  BY <1>16 DEF Accept
<1>17. ASSUME NEW c \in Conns, Disconnect(c) PROVE TypeOK' /\ Received'
  BY <1>15, <1>17 DEF Disconnect
<1>18. ASSUME NEW c \in Conns, Down(c) PROVE TypeOK' /\ Received'
  BY <1>18 DEF Down
<1>19. CASE CloseServer
  BY <1>15, <1>19 DEF CloseServer
<1>20. CASE Drained
  BY <1>20 DEF Drained
<1>21. CASE Closed
  BY <1>21 DEF Closed
<1>22. CASE UNCHANGED vars
  BY <1>22 DEF vars
<1> QED
  BY <1>1, <1>2, <1>3, <1>4, <1>5, <1>6, <1>8, <1>9, <1>10, <1>11, <1>12, <1>13, <1>14, <1>16,
     <1>17, <1>18, <1>19, <1>20, <1>21, <1>22 DEF Next, CallStep

-----------------------------------------------------------------------------
(* The answers *)

\* What concerns neither a call nor opens a socket that a call came from.
LEMMA AnswersFrame ==
  ASSUME TypeOK, Received, Answers, UNCHANGED calls,
         \A c \in Conns : socket[c] # "new" /\ socket'[c] = "open" => socket[c] = "open"
  PROVE  Answers'
  BY DEF TypeOK, Stages, Received, Answers, AtMostResult, calls

\* A call that moves on without an answer.
LEMMA AnswersMove ==
  ASSUME TypeOK, Received, Answers, NEW k \in Calls, NEW s \in Stages, To(k, s),
         UNCHANGED <<answers, conn, socket>>,
         \/ s \in {"received", "logged", "waiting", "returned"} /\ Len(answers[k]) = 0
         \/ s = "failing" /\ AtMostResult(k)
         \/ s = "done" /\ stage[k] \in {"replied", "told"}
  PROVE  Answers'
  BY DEF TypeOK, Received, Answers, AtMostResult, To

\* A call that is answered.
LEMMA AnswersSend ==
  ASSUME TypeOK, Received, Answers, NEW k \in Calls, UNCHANGED <<conn, socket>>,
         \/ stage[k] = "returned" /\ To(k, "replied") /\ Send(k, "result")
         \/ stage[k] = "failing" /\ To(k, "told") /\ Send(k, "error")
  PROVE  Answers'
<1>1. /\ \A j \in Calls : j # k => stage'[j] = stage[j] /\ answers'[j] = answers[j]
      /\ stage'[k] \in {"replied", "told"}
  BY DEF TypeOK, To, Send
<1>2. answers[k] \in Seq({"result", "error"})
  BY DEF TypeOK
<1>3. PICK what \in {"result", "error"} :
        \/ socket[conn[k]] = "open" /\ answers'[k] = Append(answers[k], what)
        \/ socket[conn[k]] # "open" /\ answers'[k] = answers[k]
  BY DEF Send, TypeOK
<1>4. \/ stage'[k] = "replied" /\ Len(answers[k]) = 0
         /\ (socket[conn[k]] = "open" => answers'[k] = Append(answers[k], "result"))
      \/ stage'[k] = "told" /\ AtMostResult(k)
         /\ (socket[conn[k]] = "open" => answers'[k] = Append(answers[k], "error"))
  BY DEF Answers, TypeOK, To, Send
<1>5. \A w \in {"result", "error"} :
        /\ Len(Append(answers[k], w)) = Len(answers[k]) + 1
        /\ Append(answers[k], w)[Len(answers[k]) + 1] = w
        /\ \A i \in 1..Len(answers[k]) : Append(answers[k], w)[i] = answers[k][i]
  BY <1>2
<1>6. /\ stage'[k] = "replied" => AtMostResult(k)'
      /\ Len(answers'[k]) <= 2
      /\ Len(answers'[k]) = 2 => answers'[k][1] = "result" /\ answers'[k][2] = "error"
      /\ socket[conn[k]] = "open" => Len(answers'[k]) > 0
  <2>1. Len(answers[k]) \in Nat
    BY <1>2
  <2>2. CASE socket[conn[k]] # "open"
    BY <1>3, <1>4, <2>1, <2>2 DEF AtMostResult, Answers
  <2>3. CASE socket[conn[k]] = "open" /\ stage'[k] = "replied"
    <3>1. Len(answers[k]) = 0 /\ answers'[k] = Append(answers[k], "result")
      BY <1>4, <2>3
    <3>2. Len(answers'[k]) = 1 /\ answers'[k][1] = "result"
      BY <1>5, <3>1
    <3> QED
      BY <2>3, <3>2 DEF AtMostResult
  <2>4. CASE socket[conn[k]] = "open" /\ stage'[k] = "told"
    <3>1. AtMostResult(k) /\ answers'[k] = Append(answers[k], "error")
      BY <1>4, <2>4
    <3>2. Len(answers'[k]) = Len(answers[k]) + 1 /\ answers'[k][Len(answers[k]) + 1] = "error"
      BY <1>5, <3>1
    <3>3. Len(answers[k]) = 1 => answers'[k][1] = "result"
      BY <1>5, <3>1 DEF AtMostResult
    <3> QED
      BY <2>1, <2>4, <3>1, <3>2, <3>3 DEF AtMostResult
  <2> QED
    BY <1>1, <2>2, <2>3, <2>4
<1>7. \A j \in Calls : j # k => (AtMostResult(j)' <=> AtMostResult(j))
  BY <1>1 DEF AtMostResult
<1> QED
  BY <1>1, <1>4, <1>6, <1>7 DEF Answers

LEMMA AnswersStep == TypeOK /\ Received /\ Answers /\ [Next]_vars => Answers'
<1> SUFFICES ASSUME TypeOK, Received, Answers, [Next]_vars PROVE Answers'
  OBVIOUS
<1> USE DEF sockets, log, runs, server
<1>1. ASSUME NEW c \in Conns, NEW k \in Calls, NEW i \in Ids, Receive(c, k, i) PROVE Answers'
  <2>1. /\ stage[k] = "unsent" /\ Len(answers[k]) = 0 /\ answers' = answers
        /\ \A j \in Calls : j # k => stage'[j] = stage[j] /\ conn'[j] = conn[j]
        /\ stage'[k] \in {"received", "failing"} /\ socket' = socket
    BY <1>1 DEF Receive, Answers, TypeOK, To
  <2> QED
    BY <2>1 DEF Answers, AtMostResult
<1>2. ASSUME NEW k \in Calls, CallStep(k) PROVE Answers'
  <2>1. CASE Log(k)
    BY <2>1, AnswersMove DEF Log, Answers, Stages
  <2>2. CASE Fail(k)
    BY <2>2, AnswersMove DEF Fail, Answers, AtMostResult, Stages
  <2>3. CASE Dispatch(k)
    BY <2>3, AnswersMove DEF Dispatch, Answers, Stages
  <2>4. CASE Timeout(k)
    BY <2>4, AnswersMove DEF Timeout, Answers, AtMostResult, Stages
  <2>5. CASE HandlerEnd(k)
    <3>1. CASE stage[k] = "waiting"
      BY <2>5, <3>1, AnswersMove DEF HandlerEnd, Answers, AtMostResult, Stages
    <3>2. CASE stage[k] # "waiting"
      BY <2>5, <3>2 DEF HandlerEnd, Answers, AtMostResult
    <3> QED
      BY <3>1, <3>2
  <2>6. CASE Reply(k) \/ ReplyError(k)
    BY <2>6, AnswersSend DEF Reply, ReplyError
  <2>7. CASE Finish(k)
    BY <2>7, AnswersMove DEF Finish, Answers, Stages
  <2>8. CASE Crash(k)
    BY <2>8, AnswersFrame DEF Crash, TypeOK
  <2> QED
    BY <1>2, <2>1, <2>2, <2>3, <2>4, <2>5, <2>6, <2>7, <2>8 DEF CallStep
<1>3. ASSUME NEW r \in Runs, Start(r) PROVE Answers'
  BY <1>3, AnswersFrame DEF Start
<1>4. ASSUME NEW c \in Conns, NEW r \in Runs, NEW q \in Keys, KickOff(c, r, q) PROVE Answers'
  BY <1>4, AnswersFrame DEF KickOff
<1>5. ASSUME NEW r \in Runs, RunEnds(r) PROVE Answers'
  BY <1>5, AnswersFrame DEF RunEnds
<1>6. ASSUME NEW c \in Conns, Accept(c) \/ Disconnect(c) \/ Down(c) PROVE Answers'
  BY <1>6, AnswersFrame DEF Accept, Disconnect, Down, TypeOK
<1>7. CASE CloseServer \/ Drained \/ Closed
  BY <1>7, AnswersFrame DEF CloseServer, Drained, Closed
<1>8. CASE UNCHANGED vars
  BY <1>8, AnswersFrame DEF vars
<1> QED
  BY <1>1, <1>2, <1>3, <1>4, <1>5, <1>6, <1>7, <1>8 DEF Next

-----------------------------------------------------------------------------
(* The rows of the log *)

\* What neither files nor logs, when no call in flight loses its place.
LEMMA RowsFrame ==
  ASSUME TypeOK, Rows, UNCHANGED <<pending, filed, conn, id>>,
         \A k \in Calls :
           /\ stage[k] \notin {"unsent", "received", "done"} =>
                stage'[k] \notin {"unsent", "received", "done"}
           /\ stage'[k] \in {"unsent", "received"} => stage[k] \in {"unsent", "received"}
  PROVE  Rows'
<1>1. ASSUME NEW c \in Conns, NEW i \in Ids, pending[c][i] # None
      PROVE  LET k == pending[c][i] IN
               /\ conn'[k] = c /\ id'[k] = i /\ filed'[k] = None
               /\ stage'[k] \notin {"unsent", "received", "done"}
  <2> DEFINE j == pending[c][i]
  <2>1. j \in Calls
    BY <1>1 DEF TypeOK
  <2>2. conn[j] = c /\ id[j] = i /\ filed[j] = None /\ stage[j] \notin {"unsent", "received", "done"}
    BY <1>1 DEF Rows
  <2>3. stage'[j] \notin {"unsent", "received", "done"}
    BY <2>1, <2>2
  <2> QED
    BY <2>2, <2>3
<1>2. \A k \in Calls : stage'[k] \in {"unsent", "received"} => filed'[k] = None
  BY DEF Rows
<1> QED
  BY <1>1, <1>2 DEF Rows

\* A pending row is filed and forgotten.
LEMMA RowsFile ==
  ASSUME TypeOK, Rows, NEW k \in Calls, conn[k] \in Conns, UNCHANGED <<conn, id>>,
         stage[k] \in {"replied", "told"},
         pending' = [pending EXCEPT ![conn[k]][id[k]] = None],
         \/ Write(k) /\ To(k, "done")
         \/ filed' = filed /\ To(k, "failing")
  PROVE  Rows'
<1> DEFINE row == pending[conn[k]][id[k]]
<1>1. id[k] \in Ids /\ row \in Calls \cup {None}
  BY DEF TypeOK
<1>2. \A c \in Conns, i \in Ids :
        pending'[c][i] = IF c = conn[k] /\ i = id[k] THEN None ELSE pending[c][i]
  BY <1>1 DEF TypeOK
<1>3. \A j \in Calls : j # k => stage'[j] = stage[j]
  BY DEF TypeOK, To
<1>4. \A j \in Calls : j # row => filed'[j] = filed[j]
  <2>1. CASE filed' = filed
    BY <2>1
  <2>2. CASE Write(k)
    BY <1>1, <2>2 DEF Write, TypeOK
  <2> QED
    BY <2>1, <2>2
<1>5. stage'[k] \notin {"unsent", "received"}
  BY DEF TypeOK, To
<1>6. ASSUME NEW c \in Conns, NEW i \in Ids, pending'[c][i] # None
      PROVE  LET j == pending'[c][i] IN
               /\ conn'[j] = c /\ id'[j] = i /\ filed'[j] = None
               /\ stage'[j] \notin {"unsent", "received", "done"}
  <2> DEFINE j == pending[c][i]
  <2>1. pending'[c][i] = j /\ j # None /\ ~(c = conn[k] /\ i = id[k])
    BY <1>2, <1>6
  <2>2. j \in Calls /\ conn[j] = c /\ id[j] = i /\ filed[j] = None
        /\ stage[j] \notin {"unsent", "received", "done"}
    BY <2>1 DEF Rows, TypeOK
  <2>3. row # None => conn[row] = conn[k] /\ id[row] = id[k]
    BY <1>1 DEF Rows
  <2>4. j # k /\ j # row
    BY <2>1, <2>2, <2>3
  <2> QED
    BY <1>3, <1>4, <2>1, <2>2, <2>4
<1>7. ASSUME NEW j \in Calls, stage'[j] \in {"unsent", "received"}
      PROVE  filed'[j] = None
  <2>1. j # k /\ stage[j] \in {"unsent", "received"}
    BY <1>3, <1>5, <1>7
  <2>2. j # row
    BY <1>1, <2>1, NoneAssumption DEF Rows
  <2> QED
    BY <1>4, <2>1, <2>2 DEF Rows
<1> QED
  BY <1>6, <1>7 DEF Rows

LEMMA RowsStep == TypeOK /\ Received /\ Rows /\ [Next]_vars => Rows'
<1> SUFFICES ASSUME TypeOK, Received, Rows, [Next]_vars PROVE Rows'
  OBVIOUS
<1> USE DEF calls, log
<1>1. ASSUME NEW c \in Conns, NEW k \in Calls, NEW i \in Ids, Receive(c, k, i) PROVE Rows'
  <2>1. /\ stage[k] = "unsent" /\ UNCHANGED <<pending, filed>>
        /\ \A j \in Calls : j # k => stage'[j] = stage[j] /\ conn'[j] = conn[j] /\ id'[j] = id[j]
        /\ stage'[k] \in {"received", "failing"}
    BY <1>1 DEF Receive, TypeOK, To
  <2>2. \A d \in Conns, e \in Ids : pending[d][e] # None => pending[d][e] \in Calls /\ pending[d][e] # k
    BY <2>1 DEF Rows, TypeOK
  <2> QED
    BY <2>1, <2>2 DEF Rows
<1>2. ASSUME NEW k \in Calls, CallStep(k) PROVE Rows'
  <2>1. CASE Log(k)
    <3>1. /\ stage[k] = "received" /\ UNCHANGED <<filed, conn, id>> /\ conn[k] \in Conns /\ id[k] \in Ids
          /\ \A j \in Calls : stage'[j] = IF j = k THEN "logged" ELSE stage[j]
      BY <2>1 DEF Log, TypeOK, To, Received
    <3>2. \A c \in Conns, i \in Ids :
            pending'[c][i] = IF c = conn[k] /\ i = id[k] THEN k ELSE pending[c][i]
      BY <2>1, <3>1 DEF Log, TypeOK
    <3>3. \A c \in Conns, i \in Ids : pending[c][i] # None => pending[c][i] \in Calls
      BY DEF TypeOK
    <3> QED
      BY <3>1, <3>2, <3>3 DEF Rows
  <2>2. CASE Fail(k)
    BY <2>2, RowsFrame DEF Fail, TypeOK, To
  <2>3. CASE Dispatch(k)
    BY <2>3, RowsFrame DEF Dispatch, TypeOK, To
  <2>4. CASE Timeout(k)
    BY <2>4, RowsFrame DEF Timeout, TypeOK, To
  <2>5. CASE HandlerEnd(k)
    <3>1. CASE stage[k] = "waiting"
      BY <2>5, <3>1, RowsFrame DEF HandlerEnd, TypeOK, To
    <3>2. CASE stage[k] # "waiting"
      BY <2>5, <3>2, RowsFrame DEF HandlerEnd
    <3> QED
      BY <3>1, <3>2
  <2>6. CASE Reply(k)
    BY <2>6, RowsFrame DEF Reply, TypeOK, To
  <2>7. CASE ReplyError(k)
    BY <2>7, RowsFrame DEF ReplyError, TypeOK, To
  <2>8. CASE Finish(k)
    <3>1. conn[k] \in Conns
      BY <2>8 DEF Finish, Received
    <3> QED
      BY <2>8, <3>1, RowsFile DEF Finish, File
  <2>9. CASE Crash(k)
    BY <2>9, RowsFrame DEF Crash
  <2> QED
    BY <1>2, <2>1, <2>2, <2>3, <2>4, <2>5, <2>6, <2>7, <2>8, <2>9 DEF CallStep
<1>3. ASSUME NEW r \in Runs, Start(r) PROVE Rows'
  BY <1>3, RowsFrame DEF Start
<1>4. ASSUME NEW c \in Conns, NEW r \in Runs, NEW q \in Keys, KickOff(c, r, q) PROVE Rows'
  BY <1>4, RowsFrame DEF KickOff
<1>5. ASSUME NEW r \in Runs, RunEnds(r) PROVE Rows'
  BY <1>5, RowsFrame DEF RunEnds
<1>6. ASSUME NEW c \in Conns, Accept(c) \/ Disconnect(c) \/ Down(c) PROVE Rows'
  BY <1>6, RowsFrame DEF Accept, Disconnect, Down
<1>7. CASE CloseServer \/ Drained \/ Closed
  BY <1>7, RowsFrame DEF CloseServer, Drained, Closed
<1>8. CASE UNCHANGED vars
  BY <1>8, RowsFrame DEF vars
<1> QED
  BY <1>1, <1>2, <1>3, <1>4, <1>5, <1>6, <1>7, <1>8 DEF Next

-----------------------------------------------------------------------------
(* The drain *)

LEMMA EntriesStep == TypeOK /\ Entries /\ [Next]_vars => Entries'
<1> SUFFICES ASSUME TypeOK, Entries, [Next]_vars PROVE Entries'
  OBVIOUS
<1>1. CASE UNCHANGED runs
  BY <1>1 DEF Entries, Twins, runs
<1>2. ASSUME NEW c \in Conns, NEW r \in Runs, NEW q \in Keys, KickOff(c, r, q) PROVE Entries'
  <2>1. /\ run[r] = "none" /\ UNCHANGED <<doubled, entries>>
        /\ \A s \in Runs : s # r => run'[s] = run[s] /\ host'[s] = host[s] /\ key'[s] = key[s]
        /\ run'[r] = "looked"
    BY <1>2 DEF KickOff, TypeOK
  <2>2. \A d \in Conns, p \in Keys : entries[d][p] \in Runs \cup {None}
    BY DEF TypeOK
  <2> QED
    BY <2>1, <2>2 DEF Entries, Twins
<1>3. ASSUME NEW r \in Runs, Start(r) PROVE Entries'
  <2>1. /\ run[r] = "looked" /\ UNCHANGED <<host, key>>
        /\ \A s \in Runs : run'[s] = IF s = r THEN "active" ELSE run[s]
        /\ host[r] \in Conns /\ key[r] \in Keys
    BY <1>3 DEF Start, TypeOK
  <2>2. \A c \in Conns, q \in Keys :
          entries'[c][q] = IF c = host[r] /\ q = key[r] THEN r ELSE entries[c][q]
    BY <1>3, <2>1 DEF Start, TypeOK
  <2>3. \A s \in Runs : doubled'[s] = (doubled[s] \/ s \in Twins(r) \/ (s = r /\ Twins(r) # {}))
    BY <1>3 DEF Start
  <2>4. \A c \in Conns, q \in Keys : entries[c][q] # None => entries[c][q] # r
    BY <2>1 DEF Entries
  <2>5. \A c \in Conns, q \in Keys : entries[c][q] \in Runs \cup {None}
    BY DEF TypeOK
  <2>6. ASSUME NEW c \in Conns, NEW q \in Keys, entries'[c][q] # None
        PROVE  LET s == entries'[c][q] IN run'[s] = "active" /\ host'[s] = c /\ key'[s] = q
    BY <2>1, <2>2, <2>4, <2>5, <2>6 DEF Entries
  <2>7. ASSUME NEW s \in Runs, run'[s] = "active", ~doubled'[s]
        PROVE  entries'[host'[s]][key'[s]] = s /\ \A o \in Twins(s)' : o = s
    <3>1. CASE s = r
      <4>1. Twins(r) = {}
        BY <2>3, <2>7, <3>1
      <4> QED
        BY <2>1, <2>2, <3>1, <4>1 DEF Twins
    <3>2. CASE s # r
      <4>1. run[s] = "active" /\ ~doubled[s] /\ s \notin Twins(r)
        BY <2>1, <2>3, <2>7, <3>2
      <4>2. ~(host[s] = host[r] /\ key[s] = key[r])
        BY <4>1 DEF Twins
      <4>3. host[s] \in Conns /\ key[s] \in Keys
        BY <4>1 DEF TypeOK
      <4>4. entries[host[s]][key[s]] = s /\ \A o \in Twins(s) : o = s
        BY <4>1 DEF Entries
      <4>5. entries'[host'[s]][key'[s]] = s
        BY <2>1, <2>2, <4>2, <4>3, <4>4
      <4>6. \A o \in Twins(s)' : o \in Twins(s)
        BY <2>1, <4>2 DEF Twins
      <4> QED
        BY <4>4, <4>5, <4>6
    <3> QED
      BY <3>1, <3>2
  <2> QED
    BY <2>6, <2>7 DEF Entries
<1>4. ASSUME NEW r \in Runs, RunEnds(r) PROVE Entries'
  <2>1. /\ run[r] = "active" /\ doubled' = [doubled EXCEPT ![r] = FALSE]
        /\ \A s \in Runs : s # r => run'[s] = run[s] /\ host'[s] = host[s] /\ key'[s] = key[s]
                                    /\ doubled'[s] = doubled[s]
        /\ run'[r] = "over" /\ host[r] \in Conns /\ key[r] \in Keys
    BY <1>4 DEF RunEnds, TypeOK
  <2>2. \A c \in Conns, q \in Keys :
          entries'[c][q] = IF c = host[r] /\ q = key[r] THEN None ELSE entries[c][q]
    BY <1>4, <2>1 DEF RunEnds, TypeOK
  <2>3. \A c \in Conns, q \in Keys : entries[c][q] \in Runs \cup {None}
    BY DEF TypeOK
  <2>4. ASSUME NEW c \in Conns, NEW q \in Keys, entries'[c][q] # None
        PROVE  LET s == entries'[c][q] IN run'[s] = "active" /\ host'[s] = c /\ key'[s] = q
    <3>1. entries'[c][q] = entries[c][q] /\ ~(c = host[r] /\ q = key[r])
      BY <2>2, <2>4
    <3>2. entries[c][q] \in Runs /\ host[entries[c][q]] = c /\ key[entries[c][q]] = q
          /\ run[entries[c][q]] = "active"
      BY <2>3, <2>4, <3>1 DEF Entries
    <3> QED
      BY <2>1, <3>1, <3>2
  <2>5. ASSUME NEW s \in Runs, run'[s] = "active", ~doubled'[s]
        PROVE  entries'[host'[s]][key'[s]] = s /\ \A o \in Twins(s)' : o = s
    <3>1. s # r /\ run[s] = "active" /\ ~doubled[s]
      BY <2>1, <2>5
    <3>2. entries[host[s]][key[s]] = s /\ \A o \in Twins(s) : o = s
      BY <3>1 DEF Entries
    <3>3. ~(host[s] = host[r] /\ key[s] = key[r])
      BY <2>1, <3>1, <3>2 DEF Twins
    <3>4. host[s] \in Conns /\ key[s] \in Keys
      BY <3>1 DEF TypeOK
    <3>5. entries'[host'[s]][key'[s]] = s
      BY <2>1, <2>2, <3>1, <3>2, <3>3, <3>4
    <3>6. \A o \in Twins(s)' : o \in Twins(s)
      BY <2>1, <3>1 DEF Twins
    <3> QED
      BY <3>2, <3>5, <3>6
  <2> QED
    BY <2>4, <2>5 DEF Entries
<1>5. ASSUME NEW k \in Calls, CallStep(k) PROVE UNCHANGED runs
  BY <1>5 DEF CallStep, Log, Fail, Dispatch, Timeout, HandlerEnd, Reply, ReplyError, Finish, Crash
<1>6. ASSUME NEW c \in Conns, NEW k \in Calls, NEW i \in Ids, Receive(c, k, i)
      PROVE  UNCHANGED runs
  BY <1>6 DEF Receive
<1>7. ASSUME NEW c \in Conns, Accept(c) \/ Disconnect(c) \/ Down(c) PROVE UNCHANGED runs
  BY <1>7 DEF Accept, Disconnect, Down
<1>8. CASE CloseServer \/ Drained \/ Closed \/ UNCHANGED vars
  BY <1>1, <1>8 DEF CloseServer, Drained, Closed, vars
<1> QED
  BY <1>1, <1>2, <1>3, <1>4, <1>5, <1>6, <1>7, <1>8 DEF Next

\* What neither starts a run nor concerns a connection.
LEMMA DrainFrame ==
  ASSUME TypeOK, Drain, UNCHANGED <<sockets, server>>,
         \A r \in Runs : run'[r] = "active" => /\ run[r] = "active" /\ host'[r] = host[r]
                                               /\ late'[r] = late[r] /\ doubled'[r] = doubled[r]
  PROVE  Drain'
  BY DEF TypeOK, Drain, sockets, server

\* A shutdown waits for every run of its connection that is alone on its row.
LEMMA DrainShutdown ==
  ASSUME TypeOK, Entries, Drain, NEW S \in SUBSET Conns, Shutdown(S), UNCHANGED runs
  PROVE  /\ \A r \in Runs : run'[r] = "active" /\ ~late'[r] /\ ~doubled'[r] =>
              /\ shutdown'[host'[r]] = "draining" => r \in waits'[host'[r]]
              /\ shutdown'[host'[r]] # "done"
         /\ \A c \in Conns : shutdown'[c] = "done" <=> shutdown[c] = "done"
<1>1. \A c \in Conns :
        \/ shutdown'[c] = "draining" /\ shutdown[c] = "none" /\ waits'[c] = Active(c)
        \/ shutdown'[c] = shutdown[c] /\ waits'[c] = waits[c]
  BY DEF Shutdown
<1>2. ASSUME NEW r \in Runs, run[r] = "active", ~late[r], ~doubled[r]
      PROVE  /\ shutdown'[host[r]] = "draining" => r \in waits'[host[r]]
             /\ shutdown'[host[r]] # "done"
  <2>1. host[r] \in Conns /\ key[r] \in Keys
    BY <1>2 DEF TypeOK
  <2>2. r \in Active(host[r])
    BY <1>2, <2>1 DEF Entries, Active
  <2> QED
    BY <1>1, <1>2, <2>1, <2>2 DEF Drain
<1> QED
  BY <1>1, <1>2 DEF runs

LEMMA DrainStep == TypeOK /\ Entries /\ Drain /\ [Next]_vars => Drain'
<1> SUFFICES ASSUME TypeOK, Entries, Drain, [Next]_vars PROVE Drain'
  OBVIOUS
<1> USE DEF sockets, calls, log, runs, server
<1>1. ASSUME NEW c \in Conns, NEW k \in Calls, NEW i \in Ids, Receive(c, k, i) PROVE Drain'
  BY <1>1, DrainFrame DEF Receive
<1>2. ASSUME NEW k \in Calls, CallStep(k) PROVE Drain'
  <2>1. CASE Log(k) \/ Fail(k) \/ Dispatch(k) \/ Timeout(k) \/ HandlerEnd(k)
             \/ Reply(k) \/ ReplyError(k) \/ Finish(k)
    BY <2>1, DrainFrame
       DEF Log, Fail, Dispatch, Timeout, HandlerEnd, Reply, ReplyError, Finish
  <2>2. CASE Crash(k)
    BY <2>2 DEF Crash, Drain
  <2> QED
    BY <1>2, <2>1, <2>2 DEF CallStep
<1>3. ASSUME NEW r \in Runs, Start(r) PROVE Drain'
  <2>1. /\ \A q \in Runs : q # r => run'[q] = run[q] /\ late'[q] = late[q]
        /\ late'[r] = (shutdown[host[r]] # "none")
        /\ \A q \in Runs : ~doubled'[q] => ~doubled[q]
        /\ UNCHANGED <<sockets, host, server>>
    BY <1>3 DEF Start, TypeOK
  <2> QED
    BY <2>1 DEF Drain
<1>4. ASSUME NEW c \in Conns, NEW r \in Runs, NEW q \in Keys, KickOff(c, r, q) PROVE Drain'
  BY <1>4, DrainFrame DEF KickOff, TypeOK
<1>6. ASSUME NEW r \in Runs, RunEnds(r) PROVE Drain'
  BY <1>6, DrainFrame DEF RunEnds, TypeOK
<1>7. ASSUME NEW c \in Conns, Accept(c) PROVE Drain'
  BY <1>7 DEF Accept, Drain, TypeOK
<1>8. ASSUME NEW c \in Conns, Disconnect(c) PROVE Drain'
  <2>1. /\ Shutdown({c}) /\ UNCHANGED runs /\ UNCHANGED server
        /\ socket[c] = "open" /\ \A d \in Conns : socket'[d] # "new" => socket[d] # "new"
    BY <1>8 DEF Disconnect, TypeOK
  <2> QED
    BY <2>1, DrainShutdown DEF Drain, TypeOK
<1>9. ASSUME NEW c \in Conns, Down(c) PROVE Drain'
  <2>1. /\ shutdown[c] = "draining" /\ \A r \in waits[c] : run[r] # "active"
        /\ \A d \in Conns : shutdown'[d] = IF d = c THEN "done" ELSE shutdown[d]
        /\ \A d \in Conns : d # c => socket'[d] = socket[d]
        /\ listed' = listed \ {c}
        /\ \A d \in Conns : d # c => waits'[d] = waits[d]
        /\ UNCHANGED <<runs, closing, awaited, early>>
    BY <1>9 DEF Down, TypeOK
  <2>2. ASSUME NEW r \in Runs, run'[r] = "active", ~late'[r], ~doubled'[r]
        PROVE  /\ shutdown'[host'[r]] = "draining" => r \in waits'[host'[r]]
               /\ shutdown'[host'[r]] # "done"
    <3>1. /\ run[r] = "active" /\ ~late[r] /\ ~doubled[r]
          /\ host'[r] = host[r] /\ host[r] \in Conns
      BY <2>1, <2>2 DEF TypeOK
    <3>2. host[r] # c
      BY <2>1, <3>1 DEF Drain
    <3> QED
      BY <2>1, <3>1, <3>2 DEF Drain
  <2> QED
    BY <2>1, <2>2 DEF Drain, TypeOK
<1>10. CASE CloseServer
  <2>1. /\ Shutdown(listed) /\ UNCHANGED runs /\ closing = "no" /\ closing' = "draining"
        /\ awaited' = listed /\ early' = {c \in Conns : socket[c] # "new"}
    BY <1>10 DEF CloseServer
  <2>2. \A c \in early' : shutdown'[c] = "done" \/ c \in awaited'
    BY <2>1, DrainShutdown DEF Drain, TypeOK
  <2> QED
    BY <2>1, <2>2, DrainShutdown DEF Drain, TypeOK
<1>11. CASE Drained
  BY <1>11 DEF Drained, Drain
<1>12. CASE Closed
  BY <1>12 DEF Closed, Drain
<1>13. CASE UNCHANGED vars
  BY <1>13, DrainFrame DEF vars
<1> QED
  BY <1>1, <1>2, <1>3, <1>4, <1>6, <1>7, <1>8, <1>9, <1>10, <1>11, <1>12, <1>13 DEF Next

LEMMA Invariant == Spec => []IndInv
<1>1. IndInv /\ [Next]_vars => IndInv'
  BY TypeStep, AnswersStep, RowsStep, EntriesStep, DrainStep DEF IndInv
<1> QED
  BY <1>1, InitInv, PTL DEF Spec

-----------------------------------------------------------------------------
(* Theorems *)

\* The variables keep their types, and a connection that is down has no open socket
\* (ClientConnection.js:92-101).
THEOREM TypeCorrect == Spec => []TypeOK
<1>1. IndInv => TypeOK
  BY DEF IndInv
<1> QED
  BY <1>1, Invariant, PTL

\* The race of a handler with its timeout never sends two answers; an answer is missing only
\* if the client has left (ClientConnection.js:158-227).
THEOREM OneAnswer == Spec => []AnsweredOnce
<1>1. IndInv => AnsweredOnce
  BY DEF IndInv, Answers, AnsweredOnce
<1> QED
  BY <1>1, Invariant, PTL

\* However calls with one id interleave and fail, a row of the log gets one outcome, of a call
\* with its id, and while its own call is handled (ClientConnection.js:140-146, 205-244).
THEOREM RowsMatch == Spec => RowsOfOneId
<1> DEFINE Step == \A k \in Calls : filed'[k] # filed[k] =>
                     /\ filed[k] = None /\ Handling(k)
                     /\ id[filed'[k]] = id[k] /\ conn[filed'[k]] = conn[k]
<1>1. IndInv /\ [Next]_vars => [Step]_vars
  <2> SUFFICES ASSUME IndInv, Next, NEW k \in Calls, filed'[k] # filed[k]
               PROVE  /\ filed[k] = None /\ Handling(k)
                      /\ id[filed'[k]] = id[k] /\ conn[filed'[k]] = conn[k]
    OBVIOUS
  <2>1. PICK w \in Calls : Finish(w)
    BY DEF Next, CallStep, Receive, Log, Fail, Dispatch, Timeout, HandlerEnd, Reply, ReplyError,
           Crash, KickOff, Start, RunEnds, Accept, Disconnect, Down, CloseServer, Drained, Closed,
           log
  <2> DEFINE row == pending[conn[w]][id[w]]
  <2>2. conn[w] \in Conns /\ id[w] \in Ids /\ Write(w)
    BY <2>1 DEF Finish, File, IndInv, Received, TypeOK
  <2>3. row # None /\ row = k /\ filed'[k] = w
    BY <2>2 DEF Write, IndInv, TypeOK
  <2> QED
    BY <2>2, <2>3 DEF IndInv, Rows, Handling
<1> QED
  BY <1>1, Invariant, PTL DEF Spec, RowsOfOneId

\* close() of the server waits for every run that was going when the shutdown of its connection
\* began, that of a client that left included, unless two drains met on its row
\* (SocketServer.js:16-20, 35-47; AgentLoop.js:54-62, 266-281, 381, 745-760).
THEOREM Drains == Spec => []CloseDrains
<1>1. IndInv => CloseDrains
  BY DEF IndInv, Drain, CloseDrains
<1> QED
  BY <1>1, Invariant, PTL

-----------------------------------------------------------------------------
(* More properties, for which the runs have no room *)

\* The steps a call can take at most before it is done.
StepsLeft ==
  [unsent |-> 8, received |-> 7, logged |-> 6, waiting |-> 5, returned |-> 4,
   replied |-> 3, failing |-> 2, told |-> 1, done |-> 0]

\* Whatever fails on the way, a failure of the failure's handling included, a call never goes
\* back: it is over after eight steps, and its handler is started once and ends once, also when
\* the timeout has answered for it (ClientConnection.js, #handleMessage).
CallsAdvance ==
  [][\A k \in Calls :
       /\ stage'[k] # stage[k] => StepsLeft[stage'[k]] < StepsLeft[stage[k]]
       /\ handler'[k] # handler[k] =>
            \/ handler[k] = "none" /\ stage'[k] = "waiting"
            \/ handler[k] \in {"short", "long"} /\ handler'[k] = "ended"]_vars

Awaits(c) == {r \in waits[c] : run[r] = "active"}
Undrained == {c \in awaited : shutdown[c] # "done"}

\* A drain that has begun is not prolonged: whatever runs are started meanwhile, by a wake or by
\* a call that was under way, the runs a shutdown waits for and the connections close() waits
\* for only get fewer (ClientConnection.js, shutdown; SocketServer.js, close).
DrainsShrink ==
  [][/\ \A c \in Conns : shutdown[c] # "none" =>
          shutdown'[c] # "none" /\ waits'[c] \subseteq waits[c] /\ Awaits(c)' \subseteq Awaits(c)
     /\ closing # "no" =>
          closing' # "no" /\ awaited' = awaited /\ Undrained' \subseteq Undrained]_vars

\* When close() has resolved nothing is sent any more and no client gets in, though calls may
\* still be handled and late runs go on.
SilentOnceClosed ==
  [][closing = "closed" =>
       /\ closing' \in {"closed", "crashed"}
       /\ answers' = answers /\ \A c \in Conns : socket'[c] # "open"]_vars

\* Before it is dispatched a call has no handler.
Undispatched == \A k \in Calls : stage[k] \in {"unsent", "received", "logged"} => handler[k] = "none"

\* What a step does to the calls: nothing, or it takes one call further.
Moves(k, s) ==
  /\ stage' = [stage EXCEPT ![k] = s] /\ StepsLeft[s] < StepsLeft[stage[k]] /\ s \in Stages

LEMMA CallKinds ==
  ASSUME TypeOK, [Next]_vars
  PROVE  \/ UNCHANGED <<stage, handler>>
         \/ \E k \in Calls, s \in Stages :
              \/ /\ Moves(k, s) /\ handler' = handler
                 /\ s \in {"received", "logged"} => stage[k] \in {"unsent", "received"}
              \/ /\ Moves(k, "waiting") /\ stage[k] = "logged"
                 /\ \E kind \in {"short", "long"} : handler' = [handler EXCEPT ![k] = kind]
              \/ /\ handler[k] \in {"short", "long"} /\ handler' = [handler EXCEPT ![k] = "ended"]
                 /\ \/ stage' = stage
                    \/ Moves(k, s) /\ s \in {"returned", "failing"}
<1> USE DEF StepsLeft, To, Stages, Moves
<1>1. ASSUME NEW c \in Conns, NEW k \in Calls, NEW i \in Ids, Receive(c, k, i)
      PROVE  \E s \in Stages :
               /\ Moves(k, s) /\ handler' = handler
               /\ s \in {"received", "logged"} => stage[k] \in {"unsent", "received"}
  BY <1>1 DEF Receive
<1>2. ASSUME NEW k \in Calls, Log(k) \/ Fail(k) \/ Timeout(k) \/ Reply(k) \/ ReplyError(k) \/ Finish(k)
      PROVE  \E s \in Stages :
               /\ Moves(k, s) /\ handler' = handler
               /\ s \in {"received", "logged"} => stage[k] \in {"unsent", "received"}
  BY <1>2 DEF Log, Fail, Timeout, Reply, ReplyError, Finish
<1>3. ASSUME NEW k \in Calls, Dispatch(k)
      PROVE  /\ Moves(k, "waiting") /\ stage[k] = "logged"
             /\ \E kind \in {"short", "long"} : handler' = [handler EXCEPT ![k] = kind]
  <2>1. \E kind \in {"short", "long"} : handler' = [handler EXCEPT ![k] = kind]
    BY <1>3 DEF Dispatch
  <2>2. Moves(k, "waiting") /\ stage[k] = "logged"
    BY <1>3 DEF Dispatch
  <2> QED BY <2>1, <2>2
<1>4. ASSUME NEW k \in Calls, HandlerEnd(k)
      PROVE  \E s \in Stages :
               /\ handler[k] \in {"short", "long"} /\ handler' = [handler EXCEPT ![k] = "ended"]
               /\ stage' = stage \/ (Moves(k, s) /\ s \in {"returned", "failing"})
  BY <1>4 DEF HandlerEnd, Ending
<1>5. CASE \/ \E c \in Conns, r \in Runs, q \in Keys : KickOff(c, r, q)
           \/ \E r \in Runs : Start(r) \/ RunEnds(r)
           \/ \E k \in Calls : Crash(k)
           \/ \E c \in Conns : Accept(c) \/ Disconnect(c) \/ Down(c)
           \/ CloseServer \/ Drained \/ Closed \/ UNCHANGED vars
  BY <1>5 DEF KickOff, Start, RunEnds, Crash, Accept, Disconnect, Down, CloseServer, Drained,
              Closed, vars, calls
<1>6. "waiting" \in Stages
  OBVIOUS
<1> HIDE DEF StepsLeft, To, Stages, Moves
<1> QED BY <1>1, <1>2, <1>3, <1>4, <1>5, <1>6 DEF Next, CallStep

\* A call is over in eight steps and has one handler.
THEOREM CallsEnd == Spec => CallsAdvance
<1> DEFINE Step == \A k \in Calls :
                     /\ stage'[k] # stage[k] => StepsLeft[stage'[k]] < StepsLeft[stage[k]]
                     /\ handler'[k] # handler[k] =>
                          \/ handler[k] = "none" /\ stage'[k] = "waiting"
                          \/ handler[k] \in {"short", "long"} /\ handler'[k] = "ended"
<1>t. TypeOK => /\ stage \in [Calls -> Stages]
                /\ handler \in [Calls -> {"none", "short", "long", "ended"}]
  BY DEF TypeOK
<1>1. Init => Undispatched
  BY DEF Init, Undispatched
<1>2. IndInv /\ Undispatched /\ [Next]_vars => Undispatched'
  <2> SUFFICES ASSUME TypeOK, Undispatched, [Next]_vars, NEW j \in Calls,
                      stage'[j] \in {"unsent", "received", "logged"}
               PROVE  handler'[j] = "none"
    BY DEF IndInv, Undispatched
  <2>1. CASE UNCHANGED <<stage, handler>>
    BY <2>1 DEF Undispatched
  <2>2. ASSUME NEW k \in Calls, NEW s \in Stages, Moves(k, s), handler' = handler,
               s \in {"received", "logged"} => stage[k] \in {"unsent", "received"}
        PROVE  handler'[j] = "none"
    <3>1. s # "unsent"
      BY <1>t, <2>2 DEF Moves, StepsLeft, Stages
    <3>2. stage' = [stage EXCEPT ![k] = s]
      BY <2>2 DEF Moves
    <3>3. stage[j] \in {"unsent", "received", "logged"}
      BY <1>t, <2>2, <3>1, <3>2
    <3> QED BY <2>2, <3>3 DEF Undispatched
  <2>3. ASSUME NEW k \in Calls, Moves(k, "waiting"),
               NEW kind \in {"short", "long"}, handler' = [handler EXCEPT ![k] = kind]
        PROVE  handler'[j] = "none"
    BY <1>t, <2>3 DEF Moves, Undispatched
  <2>4. ASSUME NEW k \in Calls, NEW s \in Stages, handler[k] \in {"short", "long"},
               handler' = [handler EXCEPT ![k] = "ended"],
               stage' = stage \/ (Moves(k, s) /\ s \in {"returned", "failing"})
        PROVE  handler'[j] = "none"
    <3>1. stage[j] \in {"unsent", "received", "logged"}
      BY <1>t, <2>4 DEF Moves
    <3> QED BY <1>t, <2>4, <3>1 DEF Undispatched
  <2> QED BY <2>1, <2>2, <2>3, <2>4, CallKinds
<1>3. IndInv /\ Undispatched /\ [Next]_vars => [Step]_vars
  <2> SUFFICES ASSUME TypeOK, Undispatched, [Next]_vars, NEW k \in Calls
               PROVE  /\ stage'[k] # stage[k] => StepsLeft[stage'[k]] < StepsLeft[stage[k]]
                      /\ handler'[k] # handler[k] =>
                           \/ handler[k] = "none" /\ stage'[k] = "waiting"
                           \/ handler[k] \in {"short", "long"} /\ handler'[k] = "ended"
    BY DEF IndInv
  <2>1. stage'[k] # stage[k] => StepsLeft[stage'[k]] < StepsLeft[stage[k]]
    BY <1>t, CallKinds DEF Moves
  <2>2. ASSUME NEW j \in Calls, Moves(j, "waiting"), stage[j] = "logged",
               NEW kind \in {"short", "long"}, handler' = [handler EXCEPT ![j] = kind],
               handler'[k] # handler[k]
        PROVE  handler[k] = "none" /\ stage'[k] = "waiting"
    <3>1. j = k
      BY <1>t, <2>2
    <3> QED BY <1>t, <2>2, <3>1 DEF Moves, Undispatched
  <2>3. ASSUME NEW j \in Calls, handler[j] \in {"short", "long"},
               handler' = [handler EXCEPT ![j] = "ended"], handler'[k] # handler[k]
        PROVE  handler[k] \in {"short", "long"} /\ handler'[k] = "ended"
    BY <1>t, <2>3
  <2>4. \/ handler' = handler
        \/ \E j \in Calls : /\ Moves(j, "waiting") /\ stage[j] = "logged"
                             /\ \E kind \in {"short", "long"} : handler' = [handler EXCEPT ![j] = kind]
        \/ \E j \in Calls : /\ handler[j] \in {"short", "long"}
                             /\ handler' = [handler EXCEPT ![j] = "ended"]
    BY CallKinds
  <2>5. handler'[k] # handler[k] =>
          \/ handler[k] = "none" /\ stage'[k] = "waiting"
          \/ handler[k] \in {"short", "long"} /\ handler'[k] = "ended"
    BY <2>2, <2>3, <2>4
  <2> QED BY <2>1, <2>5
<1> QED BY <1>1, <1>2, <1>3, Invariant, PTL DEF Spec, CallsAdvance

\* A shutdown that has begun keeps the runs it waits for, and one that is done stays done.
LEMMA ShutdownsStay ==
  ASSUME TypeOK, [Next]_vars, NEW c \in Conns, shutdown[c] # "none"
  PROVE  /\ shutdown'[c] # "none" /\ waits'[c] \subseteq waits[c]
         /\ shutdown[c] = "done" => shutdown'[c] = "done"
<1> USE DEF sockets
<1>1. CASE \E d \in Conns : Disconnect(d)
  BY <1>1 DEF Disconnect, Shutdown
<1>2. CASE CloseServer
  BY <1>2 DEF CloseServer, Shutdown
<1>3. ASSUME NEW d \in Conns, Down(d)
      PROVE  /\ shutdown'[c] # "none" /\ waits'[c] \subseteq waits[c]
             /\ shutdown[c] = "done" => shutdown'[c] = "done"
  BY <1>3 DEF Down, TypeOK
<1>4. CASE UNCHANGED <<shutdown, waits>>
  BY <1>4
<1>5. ASSUME NEW k \in Calls, CallStep(k) PROVE UNCHANGED <<shutdown, waits>>
  BY <1>5 DEF CallStep, Log, Fail, Dispatch, Timeout, HandlerEnd, Reply, ReplyError, Finish, Crash
<1>6. \/ \E d \in Conns : Disconnect(d) \/ Down(d)
      \/ CloseServer
      \/ UNCHANGED <<shutdown, waits>>
  BY <1>5 DEF Next, Receive, KickOff, Start, RunEnds, Accept, Drained, Closed, vars
<1> QED BY <1>1, <1>2, <1>3, <1>4, <1>6

\* A run is drained once; the connections that close() waits for are settled when it begins.
LEMMA RunsStay ==
  ASSUME TypeOK, [Next]_vars
  PROVE  /\ \A r \in Runs : run[r] = "over" => run'[r] = "over"
         /\ \A r \in Runs : run[r] = "active" => run'[r] \in {"active", "over"}
         /\ closing # "no" => closing' # "no" /\ awaited' = awaited
<1> USE DEF runs, server
<1>1. ASSUME NEW k \in Calls, CallStep(k)
      PROVE  UNCHANGED <<runs, awaited>> /\ (closing # "no" => closing' # "no")
  BY <1>1 DEF CallStep, Log, Fail, Dispatch, Timeout, HandlerEnd, Reply, ReplyError, Finish, Crash
<1>2. ASSUME NEW r \in Runs, Start(r) \/ \E c \in Conns, q \in Keys : KickOff(c, r, q)
      PROVE  /\ \A s \in Runs : run[s] \in {"active", "over"} => run'[s] = run[s]
             /\ UNCHANGED server
  BY <1>2 DEF KickOff, Start, TypeOK
<1>3. ASSUME NEW r \in Runs, RunEnds(r)
      PROVE  /\ run' = [run EXCEPT ![r] = "over"] /\ UNCHANGED server
  BY <1>3 DEF RunEnds
<1>4. ASSUME NEW c \in Conns, Accept(c) \/ Disconnect(c) \/ Down(c)
      PROVE  run' = run /\ UNCHANGED <<closing, awaited>>
  BY <1>4 DEF Accept, Disconnect, Down
<1>5. CASE CloseServer \/ Drained \/ Closed
  BY <1>5 DEF CloseServer, Drained, Closed
<1>6. CASE UNCHANGED vars
  BY <1>6 DEF vars
<1>7. ASSUME NEW c \in Conns, NEW k \in Calls, NEW i \in Ids, Receive(c, k, i)
      PROVE  UNCHANGED <<runs, server>>
  BY <1>7 DEF Receive
<1>8. CASE \E r \in Runs : RunEnds(r)
  BY <1>3, <1>8 DEF TypeOK
<1>9. CASE \E r \in Runs : Start(r) \/ \E c \in Conns, q \in Keys : KickOff(c, r, q)
  BY <1>2, <1>9
<1> QED BY <1>1, <1>4, <1>5, <1>6, <1>7, <1>8, <1>9 DEF Next

\* A connection's set of runs to wait for is changed only by a snapshot of its active runs.
LEMMA WaitsChange ==
  ASSUME TypeOK, [Next]_vars, NEW c \in Conns
  PROVE  waits'[c] \subseteq waits[c] \/ waits'[c] = Active(c)
<1> USE DEF sockets
<1>1. CASE \E d \in Conns : Disconnect(d)
  BY <1>1 DEF Disconnect, Shutdown
<1>2. CASE CloseServer
  BY <1>2 DEF CloseServer, Shutdown
<1>3. ASSUME NEW k \in Calls, CallStep(k) PROVE waits' = waits
  BY <1>3 DEF CallStep, Log, Fail, Dispatch, Timeout, HandlerEnd, Reply, ReplyError, Finish, Crash
<1>5. CASE \E d \in Conns : Down(d)
  BY <1>5 DEF Down, TypeOK
<1>4. \/ \E d \in Conns : Disconnect(d) \/ Down(d)
      \/ CloseServer
      \/ waits' = waits
  BY <1>3 DEF Next, Receive, KickOff, Start, RunEnds, Accept, Drained, Closed, vars
<1> QED BY <1>1, <1>2, <1>4, <1>5

\* No drain is prolonged: with runs that end, every shutdown does.
THEOREM DrainsEnd == Spec => DrainsShrink
<1> DEFINE Step ==
      /\ \A c \in Conns : shutdown[c] # "none" =>
           shutdown'[c] # "none" /\ waits'[c] \subseteq waits[c] /\ Awaits(c)' \subseteq Awaits(c)
      /\ closing # "no" =>
           closing' # "no" /\ awaited' = awaited /\ Undrained' \subseteq Undrained
<1> DEFINE Settled ==
      \A c \in Conns : waits[c] \subseteq {r \in Runs : run[r] \in {"active", "over"}}
<1>1. Init => Settled
  BY DEF Init
<1>2. TypeOK /\ Entries /\ Settled /\ [Next]_vars => Settled'
  <2> SUFFICES ASSUME TypeOK, Entries, Settled, [Next]_vars, NEW c \in Conns
               PROVE  waits'[c] \subseteq {r \in Runs : run'[r] \in {"active", "over"}}
    OBVIOUS
  <2>1. \A r \in Runs : run[r] \in {"active", "over"} => run'[r] \in {"active", "over"}
    BY RunsStay
  <2>2. waits'[c] \subseteq waits[c] \/ waits'[c] \subseteq Active(c)
    BY WaitsChange
  <2>3. Active(c) \subseteq {r \in Runs : run[r] \in {"active", "over"}}
    BY DEF Active, Entries, TypeOK
  <2> QED BY <2>1, <2>2, <2>3
<1>3. TypeOK /\ Settled /\ [Next]_vars => [Step]_vars
  <2> SUFFICES ASSUME TypeOK, Settled, [Next]_vars PROVE Step
    OBVIOUS
  <2>1. ASSUME NEW c \in Conns, shutdown[c] # "none"
        PROVE  shutdown'[c] # "none" /\ waits'[c] \subseteq waits[c] /\ Awaits(c)' \subseteq Awaits(c)
    <3>1. \A r \in waits[c] : r \in Runs /\ run[r] \in {"active", "over"}
      BY DEF TypeOK
    <3>2. \A r \in waits[c] : run'[r] = "active" => run[r] = "active"
      BY <3>1, RunsStay
    <3> QED BY <2>1, <3>2, ShutdownsStay DEF Awaits
  <2>2. ASSUME closing # "no"
        PROVE  closing' # "no" /\ awaited' = awaited /\ Undrained' \subseteq Undrained
    <3>1. \A c \in awaited : shutdown[c] = "done" => shutdown'[c] = "done"
      BY ShutdownsStay DEF TypeOK
    <3> QED BY <2>2, <3>1, RunsStay DEF Undrained
  <2> QED BY <2>1, <2>2
<1>4. IndInv => TypeOK /\ Entries
  BY DEF IndInv
<1> QED BY <1>1, <1>2, <1>3, <1>4, Invariant, PTL DEF Spec, DrainsShrink

\* Nothing is sent by a server that is closed.
THEOREM ClosedIsSilent == Spec => SilentOnceClosed
<1> DEFINE Shut == closing = "closed" => \A c \in Conns : socket[c] # "open"
           Step == closing = "closed" =>
                     /\ closing' \in {"closed", "crashed"}
                     /\ answers' = answers /\ \A c \in Conns : socket'[c] # "open"
<1>1. Init => Shut
  BY DEF Init
<1>2. IndInv /\ Shut /\ [Next]_vars => Shut' /\ Step
  <2> SUFFICES ASSUME TypeOK, Received, Shut, [Next]_vars PROVE Shut' /\ Step
    BY DEF IndInv
  <2> USE DEF sockets, calls, server
  <2>1. ASSUME NEW c \in Conns, NEW k \in Calls, NEW i \in Ids, Receive(c, k, i) PROVE Shut' /\ Step
    BY <2>1 DEF Receive
  <2>2. ASSUME NEW k \in Calls, Reply(k) \/ ReplyError(k) PROVE Shut' /\ Step
    <3>1. conn[k] \in Conns
      BY <2>2 DEF Reply, ReplyError, Received
    <3> QED BY <2>2, <3>1 DEF Reply, ReplyError, Send
  <2>3. ASSUME NEW k \in Calls,
               Log(k) \/ Fail(k) \/ Dispatch(k) \/ Timeout(k) \/ HandlerEnd(k) \/ Finish(k)
        PROVE  Shut' /\ Step
    BY <2>3 DEF Log, Fail, Dispatch, Timeout, HandlerEnd, Finish
  <2>4. ASSUME NEW c \in Conns, NEW r \in Runs, NEW q \in Keys, KickOff(c, r, q)
        PROVE  Shut' /\ Step
    BY <2>4 DEF KickOff
  <2>5. ASSUME NEW c \in Conns, Accept(c) \/ Disconnect(c) \/ Down(c) PROVE Shut' /\ Step
    BY <2>5 DEF Accept, Disconnect, Down, TypeOK
  <2>6. CASE CloseServer \/ Drained
    BY <2>6 DEF CloseServer, Drained
  <2>7. CASE Closed
    BY <2>7 DEF Closed
  <2>8. CASE UNCHANGED vars
    BY <2>8 DEF vars
  <2>9. ASSUME NEW r \in Runs, Start(r) \/ RunEnds(r) PROVE Shut' /\ Step
    BY <2>9 DEF Start, RunEnds
  <2>10. ASSUME NEW k \in Calls, Crash(k) PROVE Shut' /\ Step
    BY <2>10 DEF Crash, TypeOK
  <2> QED BY <2>1, <2>2, <2>3, <2>4, <2>5, <2>6, <2>7, <2>8, <2>9, <2>10 DEF Next, CallStep
<1>3. IndInv /\ Shut /\ [Next]_vars => [Step]_vars
  BY <1>2
<1> QED BY <1>1, <1>2, <1>3, Invariant, PTL DEF Spec, SilentOnceClosed
=============================================================================
