---------------------------- MODULE TurnBarrier ----------------------------
(***************************************************************************)
(* What the dispatch of a turn promises about proposals, without calls,    *)
(* connections, waits or yolo: a turn works its commands off one at a time *)
(* and goes on to the next only when everything it has proposed has been   *)
(* answered; it waits for its own proposals alone, however many are left   *)
(* over from before; an entry never disappears, and what has been answered *)
(* is never unanswered again.  An answer is a settled state, or any state  *)
(* a client writes itself, an open one included.  Proposals implements     *)
(* this specification.                                                     *)
(***************************************************************************)
EXTENDS Integers

CONSTANT Entries    \* the log entries of the run, in the order of their paths

VARIABLES
  entry,            \* entry[p]: "absent", "open" or "answered"
  turn,             \* "off", "between" two commands or "within" one
  mine              \* the first entry of the turn

barrierVars == <<entry, turn, mine>>

BarrierInit ==
  /\ entry = [p \in Entries |-> "absent"]
  /\ turn = "off" /\ mine = 1

Own  == {p \in Entries : p >= mine}
Open == {p \in Entries : entry[p] = "open"}

\* The turn starts after all entries there are; commands refused at once are answered.
Begin ==
  /\ turn = "off" /\ turn' = "between"
  /\ \A p \in Own' : entry[p] = "absent"
  /\ \E refused \in SUBSET Own' :
       entry' = [p \in Entries |-> IF p \in refused THEN "answered" ELSE entry[p]]

\* A command is given up without having been dispatched.
Refuse(p) ==
  /\ turn = "between" /\ p \in Own /\ entry[p] = "absent"
  /\ entry' = [entry EXCEPT ![p] = "answered"]
  /\ UNCHANGED <<turn, mine>>

\* A command is dispatched; its own entry is written in any state, or not at all.
Enter(p) ==
  /\ turn = "between" /\ turn' = "within"
  /\ p \in Own /\ entry[p] = "absent"
  /\ \E s \in {"absent", "open", "answered"} : entry' = [entry EXCEPT ![p] = s]
  /\ UNCHANGED mine

\* It makes a further proposal.
ProposeMore(p) ==
  /\ turn = "within" /\ p \in Own /\ entry[p] = "absent"
  /\ entry' = [entry EXCEPT ![p] = "open"]
  /\ UNCHANGED <<turn, mine>>

\* Somebody answers a proposal, of this turn or of an earlier one.
Answer(p) ==
  /\ p \in Open
  /\ entry' = [entry EXCEPT ![p] = "answered"]
  /\ UNCHANGED <<turn, mine>>

\* The barrier.
Pass ==
  /\ turn = "within" /\ turn' = "between"
  /\ Own \cap Open = {}
  /\ UNCHANGED <<entry, mine>>

\* The turn ends, is abandoned or lost; its entries stay as they are.
Stop ==
  /\ turn' = "off" /\ mine' = 1
  /\ UNCHANGED entry

BarrierNext ==
  \/ Begin \/ Pass \/ Stop
  \/ \E p \in Entries : Refuse(p) \/ Enter(p) \/ ProposeMore(p) \/ Answer(p)

BarrierSpec == BarrierInit /\ [][BarrierNext]_barrierVars
=============================================================================
