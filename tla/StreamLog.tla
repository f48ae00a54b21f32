----------------------------- MODULE StreamLog -----------------------------
(***************************************************************************)
(* What the reader of a command's output is promised, without handlers,    *)
(* snapshots or processes: a channel grows by the command's chunks in the  *)
(* order they were written, but for those too large for it, each of which  *)
(* is dropped when its turn comes and never shows; once a channel is final *)
(* no channel grows, and the end is told when all are final; what is final, *)
(* or told, stays so.  A cancellation voids one thing only: from then on a *)
(* channel may lose chunks and late ones still show, but never out of       *)
(* order or twice.  Streams implements this specification.                 *)
(***************************************************************************)
EXTENDS Integers, Sequences

CONSTANT Outputs    \* the channels of the command

VARIABLES
  text,             \* text[c]: the numbers of the chunks that channel c shows
  shown,            \* shown[c]: the number of the last chunk that came on c
  dropped,          \* dropped[c]: the numbers of those that were dropped
  final,            \* final[c]: channel c has its terminal state
  told,             \* the log entry tells how the command ended
  cut               \* somebody has cancelled the stream

streamVars == <<text, shown, dropped, final, told, cut>>

LogInit ==
  /\ text = [c \in Outputs |-> <<>>]
  /\ shown = [c \in Outputs |-> 0]
  /\ dropped = [c \in Outputs |-> {}]
  /\ final = [c \in Outputs |-> FALSE]
  /\ told = FALSE /\ cut = FALSE

\* Chunks of the first n but without those of d, each at most once and in order.
Excerpt(s, n, d) ==
  /\ \A i \in 1..Len(s) : s[i] <= n /\ s[i] \notin d
  /\ \A i, j \in 1..Len(s) : i < j => s[i] < s[j]

Growing == cut \/ \A c \in Outputs : ~final[c]

Show(c) ==
  /\ Growing
  /\ shown' = [shown EXCEPT ![c] = @ + 1]
  /\ text' = [text EXCEPT ![c] = Append(@, shown'[c])]
  /\ UNCHANGED <<dropped, final, told, cut>>

Drop(c) ==
  /\ Growing
  /\ shown' = [shown EXCEPT ![c] = @ + 1]
  /\ dropped' = [dropped EXCEPT ![c] = @ \cup {shown'[c]}]
  /\ UNCHANGED <<text, final, told, cut>>

Finish(c) ==
  /\ final' = [final EXCEPT ![c] = TRUE]
  /\ UNCHANGED <<text, shown, dropped, told, cut>>

Tell ==
  /\ \A c \in Outputs : final[c]
  /\ told' = TRUE
  /\ UNCHANGED <<text, shown, dropped, final, cut>>

Cut ==
  /\ cut' = TRUE
  /\ UNCHANGED <<text, shown, dropped, final, told>>

Rewrite(c) ==
  /\ cut
  /\ Excerpt(text'[c], shown[c], dropped[c])
  /\ text' = [text EXCEPT ![c] = text'[c]]
  /\ UNCHANGED <<shown, dropped, final, told, cut>>

LogNext ==
  \/ \E c \in Outputs : Show(c) \/ Drop(c) \/ Finish(c) \/ Rewrite(c)
  \/ Tell \/ Cut

LogSpec == LogInit /\ [][LogNext]_streamVars
=============================================================================
