--------------------------- MODULE Streams_proofs ---------------------------
(***************************************************************************)
(* Proofs about Streams, for any channels, chunks and cancelling calls.    *)
(* Beside the types, the inductive invariant has a part for each property: *)
(* OrderInv (what handlers have read is ordered like the bodies and shows   *)
(* no refused chunk, so that writing it back keeps both), LossInv (a final  *)
(* handler reads only when every chunk has been appended or refused, and    *)
(* none follows) and LogInv (a handler has given a terminal state to each   *)
(* channel it is done with).                                               *)
(***************************************************************************)
EXTENDS Streams, TLAPS

Began(h) == hpc[h] \notin {"idle", "read"}

Count(h) == IF hpc[h] = "done" THEN 1 ELSE 0

Typed ==
  /\ TypeOK
  /\ woken <= Count(Close) + Count(Launch)

Ascending(s, n, d) ==
  /\ \A i \in 1..Len(s) : s[i] <= n /\ s[i] \notin d
  /\ \A i, j \in 1..Len(s) : i < j => s[i] < s[j]

OrderInv ==
  \A c \in Channels :
    /\ refused[c] \subseteq 1..appended[c]
    /\ Ascending(body[c], appended[c], refused[c])
    /\ \A h \in Handlers : Ascending(snap[h][c], appended[c], refused[c])

Uncancelled == \A k \in Cancels : hpc[k] = "idle"

\* What is so whether or not the stream is cancelled.
EndInv ==
  /\ hpc[Close] # "idle" => child \in {"exited", "gone"}
  /\ hpc[Launch] # "idle" => child \in {"exited", "gone"}
  /\ child = "starting" \/ hpc[Launch] # "idle" => \A c \in Channels : emitted[c] = 0
  /\ \A h \in Finals : Began(h) => \A c \in Channels : appended[c] = emitted[c]
  /\ \A k \in Cancels : hpc[k] \notin {"dormant", "latest", "wake"}

LossInv ==
  Uncancelled =>
    \A c \in Channels :
      /\ Chunks(body[c]) = (1..appended[c]) \ refused[c]
      /\ \A h \in Finals : hpc[h] \in {"body", "state"} => snap[h][c] = body[c]
      /\ chan[c] # "streaming" => \E h \in Finals : Began(h)

\* Handler h has written the state of channel c.
Written(h, c) ==
  \/ hpc[h] \in {"body", "state"} /\ c \notin left[h]
  \/ hpc[h] \in {"log", "dormant", "latest", "wake"}

LogInv ==
  /\ OutcomeLast
  /\ \A h \in Handlers, c \in Channels :
       Written(h, c) => chan[c] # "streaming"

IndInv == Typed /\ OrderInv /\ EndInv /\ LossInv /\ LogInv

\* A chunk that is appended is shown, with those that were.
LEMMA ChunksGrow ==
  ASSUME NEW s \in Seq(Nat), NEW n \in Nat
  PROVE  Chunks(Append(s, n)) = Chunks(s) \cup {n}
<1>1. /\ Len(Append(s, n)) = Len(s) + 1 /\ Len(s) \in Nat
      /\ \A i \in 1..Len(s) : Append(s, n)[i] = s[i]
      /\ Append(s, n)[Len(s) + 1] = n
  OBVIOUS
<1>2. 1..(Len(s) + 1) = (1..Len(s)) \cup {Len(s) + 1}
  BY <1>1
<1>3. ASSUME NEW x \in Chunks(Append(s, n)) PROVE x \in Chunks(s) \cup {n}
  BY <1>1, <1>2, <1>3 DEF Chunks
<1>4. ASSUME NEW x \in Chunks(s) PROVE x \in Chunks(Append(s, n))
  BY <1>1, <1>2, <1>4 DEF Chunks
<1>5. n \in Chunks(Append(s, n))
  BY <1>1, <1>2 DEF Chunks
<1> QED BY <1>3, <1>4, <1>5

\* A next chunk, whether it is shown or refused, leaves what is shown ascending.
LEMMA AscendingGrows ==
  ASSUME NEW s \in Seq(Nat), NEW n \in Nat, NEW d, Ascending(s, n, d)
  PROVE  /\ Ascending(s, n + 1, d)
         /\ Ascending(s, n + 1, d \cup {n + 1})
         /\ n + 1 \notin d => Ascending(Append(s, n + 1), n + 1, d)
<1>1. /\ Len(s) \in Nat
      /\ \A i \in 1..Len(s) : s[i] \in Nat /\ s[i] <= n /\ s[i] \notin d
      /\ \A i, j \in 1..Len(s) : i < j => s[i] < s[j]
  BY DEF Ascending
<1>2. Ascending(s, n + 1, d)
  BY <1>1 DEF Ascending
<1>3. Ascending(s, n + 1, d \cup {n + 1})
  BY <1>1 DEF Ascending
<1>4. ASSUME n + 1 \notin d PROVE Ascending(Append(s, n + 1), n + 1, d)
  <2> DEFINE t == Append(s, n + 1)
  <2>1. /\ Len(t) = Len(s) + 1 /\ t[Len(s) + 1] = n + 1
        /\ \A i \in 1..Len(s) : t[i] = s[i]
    OBVIOUS
  <2>2. \A i \in 1..(Len(s) + 1) : i \in 1..Len(s) \/ i = Len(s) + 1
    BY <1>1
  <2>3. \A i \in 1..Len(t) : t[i] <= n + 1 /\ t[i] \notin d
    <3>1. ASSUME NEW i \in 1..Len(t), i \in 1..Len(s) PROVE t[i] <= n + 1 /\ t[i] \notin d
      BY <1>1, <2>1, <3>1
    <3>2. ASSUME NEW i \in 1..Len(t), i = Len(s) + 1 PROVE t[i] <= n + 1 /\ t[i] \notin d
      BY <1>4, <2>1, <3>2
    <3> QED BY <2>1, <2>2, <3>1, <3>2
  <2>4. \A i, j \in 1..Len(t) : i < j => t[i] < t[j]
    <3> SUFFICES ASSUME NEW i \in 1..Len(t), NEW j \in 1..Len(t), i < j PROVE t[i] < t[j]
      OBVIOUS
    <3>1. i \in 1..Len(s)
      BY <1>1, <2>1
    <3>2. CASE j \in 1..Len(s)
      BY <1>1, <2>1, <3>1, <3>2
    <3>3. CASE j = Len(s) + 1
      BY <1>1, <2>1, <3>1, <3>3
    <3> QED BY <2>1, <2>2, <3>2, <3>3
  <2> QED BY <2>3, <2>4 DEF Ascending
<1> QED BY <1>2, <1>3, <1>4

LEMMA HandlersTyped == Close \in Handlers /\ Launch \in Handlers /\ Finals \subseteq Handlers
                       /\ Cancels \subseteq Handlers /\ Finals \cap Cancels = {}
  BY HandlerAssumption DEF Handlers, Finals

\* Every step keeps the types; a wake is the end of its handler, so at most two happen.
LEMMA TypedStep == Typed /\ EndInv /\ [Next]_vars => Typed'
<1> SUFFICES ASSUME Typed, EndInv, [Next]_vars PROVE Typed'
  OBVIOUS
<1> USE HandlersTyped, ChunkAssumption, HandlerAssumption
    DEF Typed, TypeOK, Count, commandVars, channelVars, handlerVars, loopVars, HandlerPc,
        LoopStatus, Terminal
<1>1. CASE Spawned
  BY <1>1 DEF Spawned
<1>2. CASE LaunchFails
  <2>1. hpc[Close] = "idle" /\ hpc[Launch] = "idle"
    BY <1>2 DEF LaunchFails, EndInv
  <2>2. hpc' \in [Handlers -> HandlerPc] /\ Count(Close)' = 0 /\ Count(Launch)' = 0
    BY <1>2 DEF LaunchFails
  <2> QED BY <1>2, <2>1, <2>2 DEF LaunchFails
<1>3. CASE Exit
  <2>1. hpc[Close] = "idle"
    BY <1>3 DEF Exit, EndInv
  <2>2. hpc' \in [Handlers -> HandlerPc] /\ Count(Close)' = 0 /\ Count(Launch)' = Count(Launch)
    BY <1>3 DEF Exit
  <2> QED BY <1>3, <2>1, <2>2 DEF Exit
<1>4. ASSUME NEW c \in Channels, Emit(c) PROVE Typed'
  BY <1>4 DEF Emit
<1>5. ASSUME NEW c \in Channels, AppendChunk(c) PROVE Typed'
  <2>1. appended[c] + 1 \in 1..MaxChunks /\ body[c] \in Seq(1..MaxChunks)
    BY <1>5 DEF AppendChunk, Bodies
  <2>2. Append(body[c], appended[c] + 1) \in Seq(1..MaxChunks)
    BY <2>1
  <2>3. body' \in Bodies
    BY <1>5, <2>2 DEF AppendChunk, Bodies
  <2> QED BY <1>5, <2>1, <2>3 DEF AppendChunk
<1>17. ASSUME NEW c \in Channels, RefuseChunk(c) PROVE Typed'
  <2>1. appended[c] + 1 \in 1..MaxChunks
    BY <1>17 DEF RefuseChunk
  <2>2. refused' \in [Channels -> SUBSET (1..MaxChunks)]
    BY <1>17, <2>1 DEF RefuseChunk
  <2> QED BY <1>17, <2>1, <2>2 DEF RefuseChunk
<1>6. ASSUME NEW h \in Handlers, CallCancel(h) PROVE Typed'
  BY <1>6 DEF CallCancel, At
<1>7. ASSUME NEW h \in Handlers, ReadChannels(h) PROVE Typed'
  BY <1>7 DEF ReadChannels, At
<1>8. ASSUME NEW h \in Handlers, NEW c \in Channels, WriteBody(h, c) PROVE Typed'
  <2>1. body' \in Bodies
    BY <1>8 DEF WriteBody, Bodies
  <2> QED BY <1>8, <2>1 DEF WriteBody, At
<1>9. ASSUME NEW h \in Handlers, NEW c \in Channels, WriteState(h, c) PROVE Typed'
  <2>1. PICK s \in Outcome(h) : chan' = [chan EXCEPT ![c] = s]
    BY <1>9 DEF WriteState
  <2>2. s \in Terminal
    BY <2>1 DEF Outcome, Handlers
  <2> QED BY <1>9, <2>1, <2>2 DEF WriteState
<1>10. ASSUME NEW h \in Handlers, WriteLog(h) PROVE Typed'
  BY <1>10 DEF WriteLog, At
<1>11. ASSUME NEW h \in Handlers, CheckDormant(h) \/ CheckCompleted(h) PROVE Typed'
  BY <1>11 DEF CheckDormant, CheckCompleted, At
<1>12. ASSUME NEW h \in Handlers, Wake(h) PROVE Typed'
  <2>1. h \in Finals /\ hpc[h] = "wake" /\ hpc' = [hpc EXCEPT ![h] = "done"]
    BY <1>12 DEF Wake, At, EndInv, Handlers
  <2>2. Count(Close)' + Count(Launch)' = Count(Close) + Count(Launch) + 1
    BY <2>1 DEF Finals
  <2>3. woken + 1 \in 0..2 /\ woken + 1 <= Count(Close)' + Count(Launch)'
    BY <2>2
  <2>4. hpc' \in [Handlers -> HandlerPc]
    BY <2>1
  <2> QED BY <1>12, <2>3, <2>4 DEF Wake
<1>13. CASE EndLoop \/ StartLoop
  BY <1>13 DEF EndLoop, StartLoop
<1>14. CASE Abort
  BY <1>14 DEF Abort
<1>15. CASE Crash
  BY <1>15 DEF Crash
<1>16. CASE UNCHANGED vars
  BY <1>16 DEF vars
<1> QED BY <1>1, <1>2, <1>3, <1>4, <1>5, <1>6, <1>7, <1>8, <1>9, <1>10, <1>11, <1>12,
           <1>13, <1>14, <1>15, <1>16, <1>17 DEF Next, HandlerStep

\* The chunks a body and its copies hold are ascending and have been appended, none refused.
LEMMA OrderStep == Typed /\ OrderInv /\ [Next]_vars => OrderInv'
<1> SUFFICES ASSUME Typed, OrderInv, [Next]_vars PROVE OrderInv'
  OBVIOUS
<1> USE HandlersTyped, ChunkAssumption
    DEF OrderInv, commandVars, channelVars, handlerVars, loopVars
<1>0. /\ body \in Bodies /\ snap \in [Handlers -> Bodies]
      /\ appended \in [Channels -> 0..MaxChunks]
      /\ refused \in [Channels -> SUBSET (1..MaxChunks)]
  BY DEF Typed, TypeOK
<1>1. ASSUME NEW c \in Channels, AppendChunk(c) PROVE OrderInv'
  <2>1. body[c] \in Seq(Nat) /\ appended[c] \in Nat
    BY <1>0 DEF Bodies
  <2>2. /\ body' = [body EXCEPT ![c] = Append(@, appended[c] + 1)]
        /\ appended' = [appended EXCEPT ![c] = @ + 1] /\ snap' = snap
        /\ refused' = refused
    BY <1>1 DEF AppendChunk
  <2>3. body'[c] = Append(body[c], appended[c] + 1) /\ appended'[c] = appended[c] + 1
    BY <2>2, <1>0 DEF Bodies
  <2>4. ASSUME NEW d \in Channels, d # c
        PROVE  body'[d] = body[d] /\ appended'[d] = appended[d]
    BY <2>2, <2>4, <1>0 DEF Bodies
  <2>5. Ascending(body'[c], appended'[c], refused[c])
    <3>1. appended[c] + 1 \notin refused[c] /\ Ascending(body[c], appended[c], refused[c])
      BY <2>1
    <3> QED BY <3>1, <2>1, <2>3, AscendingGrows
  <2>6. ASSUME NEW h \in Handlers PROVE Ascending(snap'[h][c], appended'[c], refused[c])
    <3>1. snap[h][c] \in Seq(Nat) /\ Ascending(snap[h][c], appended[c], refused[c])
      BY <1>0 DEF Bodies
    <3> QED BY <3>1, <2>1, <2>2, <2>3, AscendingGrows
  <2>7. refused[c] \subseteq 1..appended'[c]
    BY <2>1, <2>3
  <2> QED BY <2>2, <2>4, <2>5, <2>6, <2>7
<1>6. ASSUME NEW c \in Channels, RefuseChunk(c) PROVE OrderInv'
  <2>1. body[c] \in Seq(Nat) /\ appended[c] \in Nat
    BY <1>0 DEF Bodies
  <2>2. /\ refused' = [refused EXCEPT ![c] = @ \cup {appended[c] + 1}]
        /\ appended' = [appended EXCEPT ![c] = @ + 1]
        /\ UNCHANGED <<body, snap>>
    BY <1>6 DEF RefuseChunk
  <2>3. refused'[c] = refused[c] \cup {appended[c] + 1} /\ appended'[c] = appended[c] + 1
    BY <2>2, <1>0
  <2>4. ASSUME NEW d \in Channels, d # c
        PROVE  refused'[d] = refused[d] /\ appended'[d] = appended[d]
    BY <2>2, <2>4, <1>0
  <2>5. ASSUME NEW s \in Seq(Nat), Ascending(s, appended[c], refused[c])
        PROVE  Ascending(s, appended'[c], refused'[c])
    BY <2>1, <2>3, <2>5, AscendingGrows
  <2>6. ASSUME NEW h \in Handlers PROVE Ascending(snap[h][c], appended'[c], refused'[c])
    <3>1. snap[h][c] \in Seq(Nat)
      BY <1>0 DEF Bodies
    <3> QED BY <3>1, <2>5
  <2>7. refused'[c] \subseteq 1..appended'[c]
    BY <2>1, <2>3
  <2>8. Ascending(body[c], appended'[c], refused'[c])
    BY <2>1, <2>5
  <2> QED BY <2>2, <2>4, <2>6, <2>7, <2>8
<1>2. ASSUME NEW h \in Handlers, ReadChannels(h) PROVE OrderInv'
  BY <1>0, <1>2 DEF ReadChannels
<1>3. ASSUME NEW h \in Handlers, NEW c \in Channels, WriteBody(h, c) PROVE OrderInv'
  BY <1>0, <1>3 DEF WriteBody, Bodies
<1>4. CASE UNCHANGED <<body, snap, appended, refused>>
  BY <1>4
<1>5. \/ \E c \in Channels : AppendChunk(c) \/ RefuseChunk(c)
      \/ \E h \in Handlers : ReadChannels(h)
      \/ \E h \in Handlers, c \in Channels : WriteBody(h, c)
      \/ UNCHANGED <<body, snap, appended, refused>>
  BY DEF Next, vars, HandlerStep, Spawned, LaunchFails, Exit, Emit, CallCancel, WriteState,
     WriteLog, CheckDormant, CheckCompleted, Wake, EndLoop, StartLoop, Abort, Crash
<1> QED BY <1>1, <1>2, <1>3, <1>4, <1>5, <1>6

\* The command is over before its end is handled, and the close's handler begins when
\* every chunk has been appended or refused.
LEMMA EndStep == Typed /\ EndInv /\ [Next]_vars => EndInv'
<1> SUFFICES ASSUME Typed, EndInv, [Next]_vars PROVE EndInv'
  OBVIOUS
<1> USE HandlersTyped, HandlerAssumption
    DEF EndInv, Began, Finals, commandVars, channelVars, handlerVars, loopVars
<1>0. /\ hpc \in [Handlers -> HandlerPc]
      /\ emitted \in [Channels -> 0..MaxChunks] /\ appended \in [Channels -> 0..MaxChunks]
      /\ \A c \in Channels : appended[c] <= emitted[c]
  BY DEF Typed, TypeOK
<1>1. CASE Spawned \/ LaunchFails \/ Exit
  BY <1>0, <1>1 DEF Spawned, LaunchFails, Exit
<1>2. ASSUME NEW c \in Channels, Emit(c) \/ AppendChunk(c) \/ RefuseChunk(c) PROVE EndInv'
  BY <1>0, <1>2, ChunkAssumption DEF Emit, AppendChunk, RefuseChunk
<1>3. ASSUME NEW h \in Handlers, CallCancel(h) PROVE EndInv'
  BY <1>0, <1>3 DEF CallCancel, At
<1>4. ASSUME NEW h \in Handlers, ReadChannels(h) PROVE EndInv'
  <2>1. hpc[h] = "read" /\ hpc' = [hpc EXCEPT ![h] = "body"]
        /\ UNCHANGED <<child, emitted, appended>>
    BY <1>4 DEF ReadChannels, At
  <2>2. h \in Finals => \A c \in Channels : appended[c] = emitted[c]
    BY <1>0, <1>4, <2>1, ChunkAssumption DEF ReadChannels, Drained
  <2> QED BY <1>0, <2>1, <2>2
<1>5. ASSUME NEW h \in Handlers, NEW c \in Channels, WriteBody(h, c) \/ WriteState(h, c)
      PROVE  EndInv'
  BY <1>0, <1>5 DEF WriteBody, WriteState, At
<1>6. ASSUME NEW h \in Handlers, WriteLog(h) PROVE EndInv'
  BY <1>0, <1>6 DEF WriteLog, At
<1>7. ASSUME NEW h \in Handlers, CheckDormant(h) \/ CheckCompleted(h) \/ Wake(h) PROVE EndInv'
  BY <1>0, <1>7 DEF CheckDormant, CheckCompleted, Wake, At
<1>8. CASE EndLoop \/ StartLoop \/ Abort \/ UNCHANGED vars
  BY <1>8 DEF EndLoop, StartLoop, Abort, vars
<1>9. CASE Crash
  BY <1>0, <1>9, ChunkAssumption DEF Crash
<1> QED BY <1>1, <1>2, <1>3, <1>4, <1>5, <1>6, <1>7, <1>8, <1>9 DEF Next, HandlerStep
-----------------------------------------------------------------------------

\* As long as nobody cancels, a body shows every chunk that came but the refused ones, and
\* what a final handler writes back is the body.
LEMMA LossStep == Typed /\ OrderInv /\ EndInv /\ LossInv /\ [Next]_vars => LossInv'
<1> SUFFICES ASSUME Typed, OrderInv, EndInv, LossInv, [Next]_vars, Uncancelled' PROVE LossInv'
  BY DEF LossInv
<1> USE HandlersTyped, HandlerAssumption
    DEF Finals, commandVars, channelVars, handlerVars, loopVars
<1>0. /\ hpc \in [Handlers -> HandlerPc] /\ body \in Bodies
      /\ snap \in [Handlers -> Bodies]
      /\ chan \in [Channels -> {"streaming"} \cup Terminal]
      /\ emitted \in [Channels -> 0..MaxChunks] /\ appended \in [Channels -> 0..MaxChunks]
      /\ \A c \in Channels : appended[c] <= emitted[c]
  BY DEF Typed, TypeOK
<1>00. refused \in [Channels -> SUBSET (1..MaxChunks)]
  BY DEF Typed, TypeOK
<1>1. ASSUME NEW c \in Channels, AppendChunk(c) \/ RefuseChunk(c) PROVE LossInv'
  <2>1. Uncancelled
    BY <1>1 DEF AppendChunk, RefuseChunk, Uncancelled
  <2>2. /\ appended' = [appended EXCEPT ![c] = @ + 1]
        /\ UNCHANGED <<snap, chan, hpc>> /\ appended[c] < emitted[c]
        /\ body[c] \in Seq(Nat) /\ appended[c] \in Nat
        /\ Chunks(body[c]) = (1..appended[c]) \ refused[c] /\ refused[c] \subseteq 1..appended[c]
    <3>1. /\ appended' = [appended EXCEPT ![c] = @ + 1]
          /\ UNCHANGED <<snap, chan, hpc>> /\ appended[c] < emitted[c]
      BY <1>1 DEF AppendChunk, RefuseChunk
    <3>2. body[c] \in Seq(Nat) /\ appended[c] \in Nat
      BY <1>0, ChunkAssumption DEF Bodies
    <3>3. Chunks(body[c]) = (1..appended[c]) \ refused[c]
      BY <2>1 DEF LossInv
    <3>4. refused[c] \subseteq 1..appended[c]
      BY DEF OrderInv
    <3> QED BY <3>1, <3>2, <3>3, <3>4
  <2>3. \A h \in Finals : ~Began(h)
    BY <1>0, <2>2, ChunkAssumption DEF EndInv
  <2>4. 1..appended'[c] = (1..appended[c]) \cup {appended[c] + 1} /\ appended[c] + 1 \notin refused[c]
    BY <1>0, <2>2
  <2>5. Chunks(body'[c]) = (1..appended'[c]) \ refused'[c]
    <3>1. CASE AppendChunk(c)
      <4>1. body'[c] = Append(body[c], appended[c] + 1) /\ refused' = refused
        BY <1>0, <3>1 DEF AppendChunk, Bodies
      <4>2. Chunks(body'[c]) = Chunks(body[c]) \cup {appended[c] + 1}
        BY <4>1, <2>2, ChunksGrow
      <4> QED BY <4>1, <4>2, <2>2, <2>4
    <3>2. CASE RefuseChunk(c)
      <4>1. body' = body /\ refused'[c] = refused[c] \cup {appended[c] + 1}
        BY <1>00, <3>2 DEF RefuseChunk
      <4>2. appended[c] + 1 \notin 1..appended[c]
        BY <2>2
      <4> QED BY <4>1, <4>2, <2>2, <2>4
    <3> QED BY <1>1, <3>1, <3>2
  <2>6. ASSUME NEW d \in Channels PROVE Chunks(body'[d]) = (1..appended'[d]) \ refused'[d]
    <3>1. CASE d = c
      BY <3>1, <2>5
    <3>2. CASE d # c
      <4>1. body'[d] = body[d] /\ appended'[d] = appended[d] /\ refused'[d] = refused[d]
        BY <1>0, <1>00, <1>1, <3>2 DEF AppendChunk, RefuseChunk, Bodies
      <4> QED BY <4>1, <2>1 DEF LossInv
    <3> QED BY <3>1, <3>2
  <2> QED BY <2>1, <2>2, <2>3, <2>6 DEF LossInv, Began
<1>2. ASSUME NEW h \in Handlers, ReadChannels(h) PROVE LossInv'
  <2>1. /\ hpc[h] = "read" /\ hpc' = [hpc EXCEPT ![h] = "body"]
        /\ snap' = [snap EXCEPT ![h] = body]
        /\ UNCHANGED <<body, chan, appended, refused>>
    BY <1>2 DEF ReadChannels, At
  <2>2. Uncancelled /\ h \notin Cancels
    BY <1>0, <2>1 DEF Uncancelled
  <2> QED BY <1>0, <2>1, <2>2 DEF LossInv, Began
<1>3. ASSUME NEW h \in Handlers, NEW c \in Channels, WriteBody(h, c) PROVE LossInv'
  <2>1. /\ hpc[h] = "body" /\ hpc' = [hpc EXCEPT ![h] = "state"]
        /\ body' = [body EXCEPT ![c] = snap[h][c]]
        /\ UNCHANGED <<snap, chan, appended, refused>>
    BY <1>3 DEF WriteBody, At
  <2>2. Uncancelled /\ h \in Finals
    BY <1>0, <2>1 DEF Uncancelled, Handlers
  <2>3. snap[h][c] = body[c]
    BY <2>1, <2>2 DEF LossInv
  <2>4. body' = body
    BY <1>0, <2>1, <2>3 DEF Bodies
  <2> QED BY <1>0, <2>1, <2>2, <2>4 DEF LossInv, Began
<1>4. ASSUME NEW h \in Handlers, NEW c \in Channels, WriteState(h, c) PROVE LossInv'
  <2>1. /\ hpc[h] = "state" /\ \E to \in {"log", "body"} : hpc' = [hpc EXCEPT ![h] = to]
        /\ UNCHANGED <<snap, body, appended, refused>>
    BY <1>4 DEF WriteState
  <2>2. Uncancelled /\ h \in Finals
    BY <1>0, <2>1 DEF Uncancelled, Handlers
  <2>3. Began(h)' /\ \A g \in Finals : Began(g) => Began(g)'
    BY <1>0, <2>1, <2>2 DEF Began
  <2>4. \A g \in Finals : hpc'[g] \in {"body", "state"} => hpc[g] \in {"body", "state"}
    BY <1>0, <2>1, <2>2
  <2> QED BY <2>1, <2>2, <2>3, <2>4 DEF LossInv
<1>5. ASSUME NEW h \in Handlers,
             WriteLog(h) \/ CheckDormant(h) \/ CheckCompleted(h) \/ Wake(h) \/ CallCancel(h)
      PROVE  LossInv'
  <2>1. /\ \E to \in {"dormant", "done", "latest", "wake", "read"} :
             hpc' = [hpc EXCEPT ![h] = to]
        /\ UNCHANGED <<snap, body, chan, appended, refused>>
    BY <1>5 DEF WriteLog, CheckDormant, CheckCompleted, Wake, CallCancel, At
  <2>2. Uncancelled /\ h \in Finals
    BY <1>0, <2>1 DEF Uncancelled, Handlers
  <2>3. hpc[h] \notin {"idle", "read"} /\ hpc'[h] \notin {"idle", "read", "body", "state"}
    BY <1>0, <1>5, <2>2 DEF WriteLog, CheckDormant, CheckCompleted, Wake, CallCancel, At
  <2>4. \A g \in Finals : /\ Began(g) => Began(g)'
                          /\ hpc'[g] \in {"body", "state"} => hpc[g] \in {"body", "state"}
    BY <1>0, <2>1, <2>2, <2>3 DEF Began
  <2> QED BY <2>1, <2>2, <2>4 DEF LossInv
<1>6. CASE LaunchFails \/ Exit
  <2>1. Uncancelled
    BY <1>0, <1>6 DEF LaunchFails, Exit, Uncancelled
  <2>2. \A h \in Finals : hpc[h] # hpc'[h] => hpc[h] = "idle" /\ hpc'[h] = "read"
    BY <1>0, <1>6 DEF LaunchFails, Exit, EndInv
  <2> QED BY <1>6, <2>1, <2>2 DEF LossInv, Began, LaunchFails, Exit
<1>7. CASE Crash
  <2>1. Uncancelled
    BY <1>0, <1>7 DEF Crash, Uncancelled
  <2> QED BY <1>0, <1>7, <2>1 DEF LossInv, Began, Crash
<1>8. CASE UNCHANGED <<body, chan, appended, refused, hpc, snap>>
  BY <1>8 DEF LossInv, Uncancelled, Began
<1>9. ASSUME NEW c \in Channels, Emit(c) PROVE LossInv'
  BY <1>8, <1>9 DEF Emit
<1>10. CASE Spawned \/ EndLoop \/ StartLoop \/ Abort \/ UNCHANGED vars
  BY <1>8, <1>10 DEF Spawned, EndLoop, StartLoop, Abort, vars
<1> QED BY <1>1, <1>2, <1>3, <1>4, <1>5, <1>6, <1>7, <1>9, <1>10 DEF Next, HandlerStep

\* What a handler is done with is terminal and stays so.
LEMMA LogStep == Typed /\ LogInv /\ [Next]_vars => LogInv'
<1> SUFFICES ASSUME Typed, LogInv, [Next]_vars PROVE LogInv'
  OBVIOUS
<1> USE HandlersTyped
    DEF LogInv, Written, OutcomeLast, commandVars, channelVars, handlerVars, loopVars
<1>0. /\ hpc \in [Handlers -> HandlerPc]
      /\ chan \in [Channels -> {"streaming"} \cup Terminal]
      /\ left \in [Handlers -> SUBSET Channels]
  BY DEF Typed, TypeOK
<1>1. ASSUME NEW h \in Handlers, ReadChannels(h) PROVE LogInv'
  BY <1>0, <1>1 DEF ReadChannels, At
<1>2. ASSUME NEW h \in Handlers, NEW c \in Channels, WriteBody(h, c) PROVE LogInv'
  BY <1>0, <1>2 DEF WriteBody, At
<1>3. ASSUME NEW h \in Handlers, NEW c \in Channels, WriteState(h, c) PROVE LogInv'
  <2>1. PICK s \in Outcome(h) : chan' = [chan EXCEPT ![c] = s]
    BY <1>3 DEF WriteState
  <2>2. s # "streaming"
    BY <2>1 DEF Outcome, Handlers
  <2>3. \A d \in Channels : chan'[d] = (IF d = c THEN s ELSE chan[d])
    BY <1>0, <2>1
  <2>4. /\ hpc[h] = "state" /\ log' = log /\ left' = [left EXCEPT ![h] = @ \ {c}]
        /\ hpc' = [hpc EXCEPT ![h] = IF left[h] = {c} THEN "log" ELSE "body"]
    BY <1>3 DEF WriteState
  <2>5. OutcomeLast'
    BY <2>2, <2>3, <2>4
  <2>6. ASSUME NEW g \in Handlers, NEW d \in Channels, Written(g, d)'
        PROVE  chan'[d] # "streaming"
    <3>1. CASE d = c
      BY <2>2, <2>3, <3>1
    <3>2. CASE d # c /\ g = h
      BY <1>0, <2>3, <2>4, <2>6, <3>2
    <3>3. CASE d # c /\ g # h
      <4>1. hpc'[g] = hpc[g] /\ left'[g] = left[g] /\ chan'[d] = chan[d]
        BY <1>0, <2>3, <2>4, <3>3
      <4>2. Written(g, d)
        BY <2>6, <4>1
      <4>3. chan[d] # "streaming"
        BY <4>2
      <4> QED BY <4>1, <4>3
    <3> QED BY <3>1, <3>2, <3>3
  <2> QED BY <2>5, <2>6
<1>4. ASSUME NEW h \in Handlers,
             WriteLog(h) \/ CheckDormant(h) \/ CheckCompleted(h) \/ Wake(h)
      PROVE  LogInv'
  BY <1>0, <1>4 DEF WriteLog, CheckDormant, CheckCompleted, Wake, At
<1>5. ASSUME NEW h \in Handlers, CallCancel(h) PROVE LogInv'
  BY <1>0, <1>5 DEF CallCancel, At
<1>6. CASE LaunchFails \/ Exit
  BY <1>0, <1>6 DEF LaunchFails, Exit
<1>7. CASE Crash
  BY <1>0, <1>7 DEF Crash
<1>8. CASE UNCHANGED <<log, chan, hpc, left>>
  BY <1>8
<1>9. ASSUME NEW c \in Channels, Emit(c) \/ AppendChunk(c) \/ RefuseChunk(c) PROVE LogInv'
  BY <1>8, <1>9 DEF Emit, AppendChunk, RefuseChunk
<1>10. CASE Spawned \/ EndLoop \/ StartLoop \/ Abort \/ UNCHANGED vars
  BY <1>8, <1>10 DEF Spawned, EndLoop, StartLoop, Abort, vars
<1> QED BY <1>1, <1>2, <1>3, <1>4, <1>5, <1>6, <1>7, <1>9, <1>10 DEF Next, HandlerStep

LEMMA Initially == Init => IndInv
<1> SUFFICES ASSUME Init PROVE IndInv
  OBVIOUS
<1> USE HandlersTyped, ChunkAssumption DEF Init
<1>1. Empty \in Bodies /\ \A c \in Channels : Empty[c] = <<>>
  BY DEF Empty, Bodies
<1>2. Typed
  <2>1. /\ emitted \in [Channels -> 0..MaxChunks] /\ appended \in [Channels -> 0..MaxChunks]
        /\ \A c \in Channels : appended[c] <= emitted[c]
    OBVIOUS
  <2>2. /\ body \in Bodies /\ snap \in [Handlers -> Bodies]
        /\ refused \in [Channels -> SUBSET (1..MaxChunks)]
    BY <1>1
  <2>3. /\ chan \in [Channels -> {"streaming"} \cup Terminal]
        /\ hpc \in [Handlers -> HandlerPc] /\ left \in [Handlers -> SUBSET Channels]
    BY DEF HandlerPc
  <2>4. /\ local \in BOOLEAN /\ killed \in BOOLEAN /\ completed \in BOOLEAN /\ own \in BOOLEAN
        /\ loop \in LoopStatus /\ log \in {"open", "ran", "cancelled"}
        /\ child \in {"starting", "running", "exited", "gone"}
    BY LocalAssumption DEF LoopStatus
  <2>5. woken \in 0..2 /\ woken <= Count(Close) + Count(Launch)
    BY DEF Count
  <2> QED BY <2>1, <2>2, <2>3, <2>4, <2>5 DEF Typed, TypeOK
<1>3. OrderInv
  BY <1>1 DEF OrderInv, Ascending
<1>4. EndInv /\ LogInv
  BY DEF EndInv, LogInv, Written, OutcomeLast, Began, Finals
<1>5. LossInv
  <2>1. Chunks(<<>>) = {} /\ 1..0 = {}
    BY DEF Chunks
  <2> QED BY <1>1, <2>1 DEF LossInv, Finals
<1> QED BY <1>2, <1>3, <1>4, <1>5 DEF IndInv

\* The inductive invariant holds throughout.
THEOREM Invariance == Spec => []IndInv
<1>1. IndInv /\ [Next]_vars => IndInv'
  BY TypedStep, OrderStep, EndStep, LossStep, LogStep DEF IndInv
<1> QED BY Initially, <1>1, PTL DEF Spec

\* Type correctness of a stream: channels, handlers and the command are always in the
\* states the code knows, and the end of one command wakes the run at most twice.
THEOREM TypeCorrect == Spec => []TypeOK
<1>1. IndInv => TypeOK
  BY DEF IndInv, Typed
<1> QED BY Invariance, <1>1, PTL

\* Whatever appends, closes and cancellations do to a channel, its body shows the
\* command's chunks in the order they were written, none twice.
THEOREM OrderKept == Spec => []InOrder
<1>1. IndInv => InOrder
  <2> SUFFICES ASSUME IndInv, NEW c \in Channels
               PROVE  \A i, j \in DOMAIN body[c] : i < j => body[c][i] < body[c][j]
    BY DEF InOrder
  <2>1. DOMAIN body[c] = 1..Len(body[c])
    <3>1. body[c] \in Seq(1..MaxChunks)
      BY DEF IndInv, Typed, TypeOK, Bodies
    <3> QED BY <3>1
  <2> QED BY <2>1 DEF IndInv, OrderInv, Ascending
<1> QED BY Invariance, <1>1, PTL

\* finalizeStream's write-back of what it has read loses no chunk, and the size limit of an
\* entry only the chunks that do not fit, as long as no call of stream/aborted or
\* stream/cancel is made.
THEOREM Complete == Spec => []NothingLost
<1>1. IndInv => NothingLost
  BY DEF IndInv, NothingLost, LossInv, EndInv, Uncancelled
<1> QED BY Invariance, <1>1, PTL

\* A log entry that tells the end of a command never stands beside a channel that still
\* streams, whichever of the handlers came first.
THEOREM ChannelsFirst == Spec => []OutcomeLast
<1>1. IndInv => OutcomeLast
  BY DEF IndInv, LogInv
<1> QED BY Invariance, <1>1, PTL

-----------------------------------------------------------------------------
(* The way of a handler: what is left of ExitIsRecorded without fairness *)

\* A command that has exited is in the hands of Close, and once Close has passed its write
\* of the log entry the end is recorded: all channels terminal, and the entry tells it,
\* whatever cancellations, late chunks and the run's loops have done meanwhile.
ExitHandled ==
  child = "exited" =>
    /\ hpc[Close] # "idle"
    /\ hpc[Close] \in {"dormant", "latest", "wake", "done"}
         => log # "open" /\ \A c \in Channels : chan[c] # "streaming"

\* The stages of a handler, last one first; "body" and "state" alternate.
Stage(pc) ==
  CASE pc = "idle" -> 7 [] pc = "read" -> 6 [] pc \in {"body", "state"} -> 5 [] pc = "log" -> 4
    [] pc = "dormant" -> 3 [] pc = "latest" -> 2 [] pc = "wake" -> 1 [] OTHER -> 0

\* Handler h goes on: to a later stage, or to the next statement of its loop.
Onward(h) ==
  \/ Stage(hpc'[h]) < Stage(hpc[h])
  \/ /\ Stage(hpc[h]) = 5 /\ Stage(hpc'[h]) = 5
     /\ \/ left'[h] \subseteq left[h] /\ left'[h] # left[h]
        \/ left'[h] = left[h] /\ hpc[h] = "body" /\ hpc'[h] = "state"

\* A handler that has begun is never set back or begun again: each of its steps goes on, no
\* other step but the server's death moves it, and the channels it has yet to write only
\* become fewer.  So it is done after 2 * Cardinality(Channels) + 5 steps.
HandlersAdvance ==
  [][\A h \in Handlers : hpc[h] # "idle" =>
       /\ HandlerStep(h) => Onward(h)
       /\ Onward(h) \/ (hpc'[h] = hpc[h] /\ left'[h] \subseteq left[h])]_vars

Reader == INSTANCE StreamLog
            WITH Outputs <- Channels,
                 text    <- body,
                 shown   <- appended,
                 dropped <- refused,
                 final   <- [c \in Channels |-> chan[c] # "streaming"],
                 told    <- log # "open",
                 cut     <- \E k \in Cancels : hpc[k] # "idle"

\* The command, its handlers, the cancelling calls and crashes implement the reader's view.
ImplementsLog == Reader!LogSpec

LEMMA AdvanceStep ==
  ASSUME IndInv, [Next]_vars, NEW h \in Handlers, hpc[h] # "idle"
  PROVE  /\ HandlerStep(h) => Onward(h)
         /\ Onward(h) \/ (hpc'[h] = hpc[h] /\ left'[h] \subseteq left[h])
<1> USE HandlersTyped
    DEF Onward, Stage, HandlerPc, commandVars, channelVars, handlerVars, loopVars
<1>0. /\ hpc \in [Handlers -> HandlerPc] /\ left \in [Handlers -> SUBSET Channels]
  BY DEF IndInv, Typed, TypeOK
<1>1. ASSUME HandlerStep(h) PROVE Onward(h)
  <2>1. CASE ReadChannels(h)
    BY <1>0, <2>1 DEF ReadChannels, At
  <2>2. ASSUME NEW c \in Channels, WriteBody(h, c) PROVE Onward(h)
    BY <1>0, <2>2 DEF WriteBody, At
  <2>3. ASSUME NEW c \in Channels, WriteState(h, c) PROVE Onward(h)
    BY <1>0, <2>3 DEF WriteState, NextChannel
  <2>4. CASE WriteLog(h)
    BY <1>0, <2>4 DEF WriteLog, At
  <2>5. CASE CheckDormant(h) \/ CheckCompleted(h) \/ Wake(h)
    BY <1>0, <2>5 DEF CheckDormant, CheckCompleted, Wake, At
  <2> QED BY <1>1, <2>1, <2>2, <2>3, <2>4, <2>5 DEF HandlerStep
<1> SUFFICES ASSUME ~HandlerStep(h)
             PROVE  Onward(h) \/ (hpc'[h] = hpc[h] /\ left'[h] \subseteq left[h])
  BY <1>1
<1>2. ASSUME NEW g \in Handlers, g # h, HandlerStep(g) \/ CallCancel(g)
      PROVE  hpc'[h] = hpc[h] /\ left'[h] = left[h]
  BY <1>0, <1>2 DEF HandlerStep, CallCancel, ReadChannels, WriteBody, WriteState, WriteLog,
                    CheckDormant, CheckCompleted, Wake, At
<1>3. ~CallCancel(h)
  BY DEF CallCancel, At
<1>4. CASE LaunchFails \/ Exit
  <2>1. \A g \in Finals : hpc[g] = "idle" \/ hpc'[g] = hpc[g]
    BY <1>0, <1>4 DEF LaunchFails, Exit, IndInv, EndInv, Finals
  <2>2. \A g \in Cancels : hpc'[g] = hpc[g]
    BY <1>0, <1>4, HandlerAssumption DEF LaunchFails, Exit
  <2> QED BY <1>4, <2>1, <2>2 DEF LaunchFails, Exit, Handlers
<1>5. CASE Crash
  BY <1>0, <1>5 DEF Crash
<1>6. CASE UNCHANGED <<hpc, left>>
  BY <1>6
<1>7. ASSUME NEW c \in Channels, Emit(c) \/ AppendChunk(c) \/ RefuseChunk(c)
      PROVE  UNCHANGED <<hpc, left>>
  BY <1>7 DEF Emit, AppendChunk, RefuseChunk
<1>8. CASE Spawned \/ EndLoop \/ StartLoop \/ Abort \/ UNCHANGED vars
  BY <1>6, <1>8 DEF Spawned, EndLoop, StartLoop, Abort, vars
<1> QED BY <1>2, <1>3, <1>4, <1>5, <1>6, <1>7, <1>8 DEF Next

\* A handler that has begun goes its way to the end, and nothing sets it back.
THEOREM HandlersGoOn == Spec => HandlersAdvance
<1>1. IndInv /\ [Next]_vars
        => [\A h \in Handlers : hpc[h] # "idle" =>
              /\ HandlerStep(h) => Onward(h)
              /\ Onward(h) \/ (hpc'[h] = hpc[h] /\ left'[h] \subseteq left[h])]_vars
  BY AdvanceStep
<1> QED BY <1>1, Invariance, PTL DEF Spec, HandlersAdvance

LEMMA ExitStep == IndInv /\ ExitHandled /\ [Next]_vars => ExitHandled'
<1> SUFFICES ASSUME IndInv, ExitHandled, [Next]_vars PROVE ExitHandled'
  OBVIOUS
<1> USE HandlersTyped, HandlerAssumption
    DEF ExitHandled, commandVars, channelVars, handlerVars, loopVars
<1>0. /\ hpc \in [Handlers -> HandlerPc]
      /\ chan \in [Channels -> {"streaming"} \cup Terminal]
      /\ hpc[Close] # "idle" => child \in {"exited", "gone"}
      /\ \A h \in Handlers : hpc[h] = "log" => \A c \in Channels : chan[c] # "streaming"
  BY DEF IndInv, Typed, TypeOK, EndInv, LogInv, Written
<1>1. CASE Spawned \/ LaunchFails \/ Exit \/ Crash
  BY <1>0, <1>1 DEF Spawned, LaunchFails, Exit, Crash
<1>2. ASSUME NEW c \in Channels, Emit(c) \/ AppendChunk(c) \/ RefuseChunk(c)
      PROVE  ExitHandled'
  BY <1>2 DEF Emit, AppendChunk, RefuseChunk
<1>3. ASSUME NEW h \in Handlers, CallCancel(h) \/ ReadChannels(h) PROVE ExitHandled'
  BY <1>0, <1>3 DEF CallCancel, ReadChannels, At
<1>4. ASSUME NEW h \in Handlers, NEW c \in Channels, WriteBody(h, c) PROVE ExitHandled'
  BY <1>0, <1>4 DEF WriteBody, At
<1>5. ASSUME NEW h \in Handlers, NEW c \in Channels, WriteState(h, c) PROVE ExitHandled'
  <2>1. PICK s \in Outcome(h) : chan' = [chan EXCEPT ![c] = s]
    BY <1>5 DEF WriteState
  <2>2. s # "streaming"
    BY <2>1 DEF Outcome, Handlers
  <2>3. /\ \E to \in {"log", "body"} : hpc' = [hpc EXCEPT ![h] = to]
        /\ UNCHANGED <<child, log>>
    BY <1>5 DEF WriteState
  <2> QED BY <1>0, <2>1, <2>2, <2>3
<1>6. ASSUME NEW h \in Handlers, WriteLog(h) PROVE ExitHandled'
  <2>1. /\ hpc[h] = "log" /\ \E to \in {"dormant", "done"} : hpc' = [hpc EXCEPT ![h] = to]
        /\ log' # "open" /\ UNCHANGED <<child, chan>>
    BY <1>6 DEF WriteLog, At
  <2> QED BY <1>0, <2>1
<1>7. ASSUME NEW h \in Handlers, CheckDormant(h) \/ CheckCompleted(h) \/ Wake(h)
      PROVE  ExitHandled'
  <2>1. /\ hpc[h] \in {"dormant", "latest", "wake"}
        /\ \E to \in {"latest", "wake", "done"} : hpc' = [hpc EXCEPT ![h] = to]
        /\ UNCHANGED <<child, chan, log>>
    BY <1>7 DEF CheckDormant, CheckCompleted, Wake, At
  <2> QED BY <1>0, <2>1
<1>8. CASE EndLoop \/ StartLoop \/ Abort \/ UNCHANGED vars
  BY <1>8 DEF EndLoop, StartLoop, Abort, vars
<1> QED BY <1>1, <1>2, <1>3, <1>4, <1>5, <1>6, <1>7, <1>8 DEF Next, HandlerStep

\* Once Close is past the log entry of a command that has exited, the end is recorded.
THEOREM ExitsHandled == Spec => []ExitHandled
<1>1. Init => ExitHandled
  BY DEF Init, ExitHandled
<1> QED BY <1>1, ExitStep, Invariance, PTL DEF Spec

-----------------------------------------------------------------------------
(* The reader's view *)

LEMMA ReaderStep ==
  ASSUME IndInv, [Next]_vars
  PROVE  [Reader!LogNext]_Reader!streamVars
<1> DEFINE final == [c \in Channels |-> chan[c] # "streaming"]
           cut   == \E k \in Cancels : hpc[k] # "idle"
<1> USE HandlersTyped
    DEF Reader!streamVars, commandVars, channelVars, handlerVars, loopVars
<1>0. /\ hpc \in [Handlers -> HandlerPc] /\ body \in Bodies
      /\ chan \in [Channels -> {"streaming"} \cup Terminal]
      /\ emitted \in [Channels -> 0..MaxChunks] /\ appended \in [Channels -> 0..MaxChunks]
      /\ DOMAIN body = Channels
      /\ ~cut <=> Uncancelled
  BY DEF IndInv, Typed, TypeOK, Bodies, Uncancelled
<1>00. refused \in [Channels -> SUBSET (1..MaxChunks)]
  BY DEF IndInv, Typed, TypeOK
<1>1. ASSUME NEW c \in Channels, AppendChunk(c) \/ RefuseChunk(c)
      PROVE  Reader!Show(c) \/ Reader!Drop(c)
  <2>1. /\ appended' = [appended EXCEPT ![c] = @ + 1] /\ appended[c] < emitted[c]
        /\ UNCHANGED <<chan, log, hpc>>
    BY <1>1 DEF AppendChunk, RefuseChunk
  <2>2. Reader!Growing
    <3> SUFFICES ASSUME Uncancelled, NEW d \in Channels, chan[d] # "streaming" PROVE FALSE
      BY <1>0 DEF Reader!Growing
    <3>1. PICK h \in Finals : Began(h)
      BY DEF IndInv, LossInv
    <3>2. appended[c] = emitted[c]
      BY <3>1 DEF IndInv, EndInv
    <3> QED BY <1>0, <2>1, <3>2, ChunkAssumption
  <2>3. appended'[c] = appended[c] + 1
    BY <1>0, <2>1
  <2>4. final' = final /\ cut' = cut
    BY <2>1
  <2>5. CASE AppendChunk(c)
    <3>1. body' = [body EXCEPT ![c] = Append(@, appended[c] + 1)] /\ refused' = refused
      BY <2>5 DEF AppendChunk
    <3> QED BY <3>1, <2>1, <2>2, <2>3, <2>4 DEF Reader!Show
  <2>6. CASE RefuseChunk(c)
    <3>1. refused' = [refused EXCEPT ![c] = @ \cup {appended[c] + 1}] /\ body' = body
      BY <2>6 DEF RefuseChunk
    <3> QED BY <3>1, <2>1, <2>2, <2>3, <2>4 DEF Reader!Drop
  <2> QED BY <1>1, <2>5, <2>6
<1>2. ASSUME NEW h \in Handlers, NEW c \in Channels, WriteBody(h, c)
      PROVE  Reader!Rewrite(c) \/ UNCHANGED Reader!streamVars
  <2>1. /\ hpc[h] = "body" /\ hpc' = [hpc EXCEPT ![h] = "state"]
        /\ body' = [body EXCEPT ![c] = snap[h][c]]
        /\ UNCHANGED <<appended, refused, chan, log>>
    BY <1>2 DEF WriteBody, At
  <2>2. cut' = cut
    BY <1>0, <2>1
  <2>3. final' = final
    BY <2>1
  <2>4. CASE cut
    <3>1. body'[c] = snap[h][c] /\ Reader!Excerpt(snap[h][c], appended[c], refused[c])
      BY <1>0, <2>1 DEF IndInv, OrderInv, Ascending, Reader!Excerpt
    <3> QED BY <2>1, <2>2, <2>3, <2>4, <3>1 DEF Reader!Rewrite
  <2>5. CASE ~cut
    <3>1. h \in Finals
      BY <2>1, <2>5 DEF Handlers
    <3>2. snap[h][c] = body[c]
      BY <1>0, <2>1, <2>5, <3>1 DEF IndInv, LossInv
    <3>3. body' = body
      BY <1>0, <2>1, <3>2 DEF Bodies
    <3> QED BY <2>1, <2>2, <2>3, <3>3
  <2> QED BY <2>4, <2>5
<1>3. ASSUME NEW h \in Handlers, NEW c \in Channels, WriteState(h, c) PROVE Reader!Finish(c)
  <2>1. PICK s \in Outcome(h) : chan' = [chan EXCEPT ![c] = s]
    BY <1>3 DEF WriteState
  <2>2. s # "streaming"
    BY <2>1 DEF Outcome, Handlers
  <2>3. /\ hpc[h] = "state" /\ \E to \in {"log", "body"} : hpc' = [hpc EXCEPT ![h] = to]
        /\ UNCHANGED <<appended, refused, body, log>>
    BY <1>3 DEF WriteState
  <2>4. final' = [final EXCEPT ![c] = TRUE]
    BY <1>0, <2>1, <2>2
  <2>5. cut' = cut
    BY <1>0, <2>3
  <2> QED BY <2>3, <2>4, <2>5 DEF Reader!Finish
<1>4. ASSUME NEW h \in Handlers, WriteLog(h) PROVE Reader!Tell
  <2>1. /\ hpc[h] = "log" /\ \E to \in {"dormant", "done"} : hpc' = [hpc EXCEPT ![h] = to]
        /\ log' # "open" /\ UNCHANGED <<appended, refused, body, chan>>
    BY <1>4 DEF WriteLog, At
  <2>2. \A c \in Channels : chan[c] # "streaming"
    BY <2>1 DEF IndInv, LogInv, Written
  <2>3. cut' = cut
    BY <1>0, <2>1
  <2>4. final' = final
    BY <2>1
  <2> QED BY <2>1, <2>2, <2>3, <2>4 DEF Reader!Tell
<1>5. ASSUME NEW k \in Handlers, CallCancel(k) PROVE Reader!Cut
  <2>1. k \in Cancels /\ hpc' = [hpc EXCEPT ![k] = "read"] /\ UNCHANGED channelVars
    BY <1>5 DEF CallCancel, At
  <2>2. cut'
    BY <1>0, <2>1
  <2>3. final' = final
    BY <2>1
  <2> QED BY <2>1, <2>2, <2>3 DEF Reader!Cut
<1>6. ASSUME UNCHANGED channelVars, \A k \in Cancels : hpc'[k] = "idle" <=> hpc[k] = "idle"
      PROVE  UNCHANGED Reader!streamVars
  BY <1>6
<1>7. ASSUME NEW h \in Handlers,
             ReadChannels(h) \/ CheckDormant(h) \/ CheckCompleted(h) \/ Wake(h)
      PROVE  UNCHANGED Reader!streamVars
  <2>1. /\ hpc[h] # "idle" /\ UNCHANGED channelVars
        /\ \E to \in HandlerPc : to # "idle" /\ hpc' = [hpc EXCEPT ![h] = to]
    BY <1>7 DEF ReadChannels, CheckDormant, CheckCompleted, Wake, At, HandlerPc
  <2>2. \A k \in Cancels : hpc'[k] = "idle" <=> hpc[k] = "idle"
    BY <1>0, <2>1
  <2> QED BY <1>6, <2>1, <2>2
<1>8. CASE LaunchFails \/ Exit \/ Crash
  <2>1. \A k \in Cancels : hpc'[k] = "idle" <=> hpc[k] = "idle"
    BY <1>0, <1>8, HandlerAssumption DEF LaunchFails, Exit, Crash
  <2>2. UNCHANGED channelVars
    BY <1>8 DEF LaunchFails, Exit, Crash
  <2> QED BY <1>6, <2>1, <2>2
<1>9. ASSUME NEW c \in Channels, Emit(c) PROVE UNCHANGED Reader!streamVars
  BY <1>6, <1>9 DEF Emit
<1>10. CASE Spawned \/ EndLoop \/ StartLoop \/ Abort \/ UNCHANGED vars
  BY <1>6, <1>10 DEF Spawned, EndLoop, StartLoop, Abort, vars
<1> QED BY <1>1, <1>2, <1>3, <1>4, <1>5, <1>7, <1>8, <1>9, <1>10
        DEF Next, HandlerStep, Reader!LogNext

\* The command, yolo's and the clients' handlers, cancellations and crashes together
\* implement StreamLog.
THEOREM ReaderRefined == Spec => ImplementsLog
<1>1. Init => Reader!LogInit
  BY HandlersTyped DEF Init, Empty, Reader!LogInit
<1>2. IndInv /\ [Next]_vars => [Reader!LogNext]_Reader!streamVars
  BY ReaderStep
<1> QED BY <1>1, <1>2, Invariance, PTL DEF Spec, ImplementsLog, Reader!LogSpec
=============================================================================
