------------------------------- MODULE Store -------------------------------
(***************************************************************************)
(* The entry store (Entries.js, known_store.sql).  The table entries holds *)
(* content, one row for each scope and path; the table run_views says      *)
(* which rows a run sees.  A fork copies its parent's views and shares its *)
(* rows.                                                                   *)
(*                                                                         *)
(* Every statement of the database is an action.  A set with a body is two *)
(* of them, the row and then the view.  A statement names its target by    *)
(* run and path and takes any one row that fits (LIMIT 1 without order).   *)
(*                                                                         *)
(* A row's content (body and attributes) is abstracted to the marks of who *)
(* has written it and how: "set" is a write to the run's own scope, "edit" *)
(* one through a view; a copy is a set by the run that copies.  Of a view  *)
(* only its existence is kept: states are the matter of Proposals and      *)
(* Streams, and visibility decides nothing here.  Every scheme of the      *)
(* repository has the scope of a run.                                      *)
(***************************************************************************)
EXTENDS Integers, FiniteSets

CONSTANTS
  Runs,        \* rows of the table runs
  Names,       \* paths that clients, the model and plugins choose
  MaxLogs,     \* bound: log paths a run takes
  MaxEntries,  \* bound: rows of entries
  Callers,     \* calls of Entries under way at once
  None

Paths        == Names \cup 1..MaxLogs
Ids          == 1..MaxEntries
Marks        == Runs \X {"set", "edit"}
Row  == [scope : Runs, path : Paths, marks : SUBSET Marks]
Task == [step : {"entry", "view", "remove"}, run : Runs, path : Paths, id : Ids \cup {None},
         looped : BOOLEAN, source : Paths \cup {None}]

ASSUME BoundAssumption == MaxLogs \in Nat /\ MaxEntries \in Nat
ASSUME NoneAssumption ==
  None \notin Paths /\ None \notin Ids /\ None \notin Row /\ None \notin Task

VARIABLES
  lineage,  \* lineage[r]: r and the runs it descends from, nothing while r does not exist
  logs,     \* logs[r]: turns.next_seq, the log paths of its turn that r has taken
  entry,    \* entry[i]: row i of entries
  last,     \* the last id given to a row
  view,     \* view[r]: the rows of entries that run_views has for run r
  task      \* task[k]: what a call has still to do

vars == <<lineage, logs, entry, last, view, task>>

Born(r) == lineage[r] # {}

At(r, p) == {i \in view[r] : entry[i].path = p}

TypeOK ==
  /\ lineage \in [Runs -> SUBSET Runs]
  /\ logs \in [Runs -> 0..MaxLogs]
  /\ entry \in [Ids -> Row \cup {None}]
  /\ last \in 0..MaxEntries
  /\ \A i \in Ids : entry[i] # None <=> i <= last
  /\ view \in [Runs -> SUBSET (1..last)]
  /\ \A r \in Runs : ~Born(r) => view[r] = {}
  /\ task \in [Callers -> Task \cup {None}]

Init ==
  /\ lineage = [r \in Runs |-> {}]
  /\ logs = [r \in Runs |-> 0]
  /\ entry = [i \in Ids |-> None]
  /\ last = 0
  /\ view = [r \in Runs |-> {}]
  /\ task = [k \in Callers |-> None]

-----------------------------------------------------------------------------
(* Runs *)

Create(r) ==
  /\ ~Born(r)
  /\ lineage' = [lineage EXCEPT ![r] = {r}]
  /\ UNCHANGED <<logs, entry, last, view, task>>

\* fork_known_entries: the rows stay shared.
Fork(r, c) ==
  /\ Born(r) /\ ~Born(c)
  /\ lineage' = [lineage EXCEPT ![c] = lineage[r] \cup {c}]
  /\ view' = [view EXCEPT ![c] = view[r]]
  /\ UNCHANGED <<logs, entry, last, task>>

-----------------------------------------------------------------------------
(* set with a body *)

Fits(i, r, p) == i <= last /\ entry[i].scope = r /\ entry[i].path = p

Slot_Viewed(r, p) == {i \in Ids : i \in At(r, p) \/ (At(r, p) = {} /\ i = last + 1)}

Slot_New(r, p) == {i \in Ids : i = last + 1}

\* The row that an upsert writes: the one of the scope and path, or a new one.
Slot(r, p) ==
  {i \in Ids : Fits(i, r, p) \/ (i = last + 1 /\ \A j \in Ids : ~Fits(j, r, p))}

\* upsert_entry
UpsertEntry(i, r, p) ==
  /\ i \in Slot(r, p)
  /\ last' = IF i > last THEN i ELSE last
  /\ entry' = [entry EXCEPT ![i] = [scope |-> r, path |-> p,
                 marks |-> IF i > last THEN {<<r, "set">>} ELSE entry[i].marks \cup {<<r, "set">>}]]

\* A set of path p that has yet to write the row.
SetTask(r, p) ==
  [step |-> "entry", run |-> r, path |-> p, id |-> None, looped |-> TRUE, source |-> None]

Set(k) ==
  /\ task[k] = None
  /\ \E r \in Runs, p \in Paths, i \in Ids :
       /\ Born(r)
       /\ UpsertEntry(i, r, p)
       /\ task' = [task EXCEPT ![k] = [SetTask(r, p) EXCEPT !.step = "view", !.id = i]]
  /\ UNCHANGED <<lineage, logs, view>>

\* A new log entry (a command's record, an update, the error entry that follows a failed
\* write) takes its path before it is set.
NewLog(k) ==
  /\ task[k] = None
  /\ \E r \in Runs :
       /\ Born(r) /\ logs[r] < MaxLogs
       /\ logs' = [logs EXCEPT ![r] = @ + 1]
       /\ task' = [task EXCEPT ![k] = SetTask(r, logs[r] + 1)]
  /\ UNCHANGED <<lineage, entry, last, view>>

WriteEntry(k) ==
  LET t == task[k] IN
    /\ t # None /\ t.step = "entry"
    /\ \E i \in Ids :
         /\ UpsertEntry(i, t.run, t.path)
         /\ task' = [task EXCEPT ![k].step = "view", ![k].id = i]
    /\ UNCHANGED <<lineage, logs, view>>

\* A move has its source to remove.
AfterView(t) == IF t.source = None THEN None ELSE [t EXCEPT !.step = "remove", !.id = None]

WriteView_Children(k) ==
  LET t == task[k] IN
    /\ t # None /\ t.step = "view"
    /\ view' = [r \in Runs |-> IF t.run \in lineage[r] THEN view[r] \cup {t.id} ELSE view[r]]
    /\ task' = [task EXCEPT ![k] = AfterView(t)]
    /\ UNCHANGED <<lineage, logs, entry, last>>

\* upsert_run_view.  run_views.loop_id may not be null: without a loop the statement is
\* refused, after the row has been written.
WriteView(k) ==
  LET t == task[k] IN
    /\ t # None /\ t.step = "view"
    /\ \/ /\ t.looped
          /\ view' = [view EXCEPT ![t.run] = @ \cup {t.id}]
          /\ task' = [task EXCEPT ![k] = AfterView(t)]
       \/ /\ ~t.looped
          /\ view' = view
          /\ task' = [task EXCEPT ![k] = None]
    /\ UNCHANGED <<lineage, logs, entry, last>>

-----------------------------------------------------------------------------
(* cp and mv *)

\* The source's body is read, then set at the destination; without one nothing is done.  The
\* cp and mv calls of a client pass no loop.
Copy(k) ==
  /\ task[k] = None
  /\ \E r \in Runs, from \in Paths, to \in Paths, looped \in BOOLEAN :
       /\ Born(r) /\ At(r, from) # {}
       /\ task' = [task EXCEPT ![k] = [SetTask(r, to) EXCEPT !.looped = looped]]
  /\ UNCHANGED <<lineage, logs, entry, last, view>>

\* Without a body to set, a client's move still removes the source, which may have come since.
Move(k) ==
  /\ task[k] = None
  /\ \E r \in Runs, from \in Paths, to \in Paths, looped \in BOOLEAN :
       /\ Born(r)
       /\ LET step == IF At(r, from) = {} THEN "remove" ELSE "entry"
          IN task' = [task EXCEPT ![k] =
                        [SetTask(r, to) EXCEPT !.step = step, !.looped = looped, !.source = from]]
  /\ UNCHANGED <<lineage, logs, entry, last, view>>

RemoveSource(k) ==
  LET t == task[k] IN
    /\ t # None /\ t.step = "remove"
    /\ \/ \E i \in At(t.run, t.source) : view' = [view EXCEPT ![t.run] = @ \ {i}]
       \/ At(t.run, t.source) = {} /\ view' = view
    /\ task' = [task EXCEPT ![k] = None]
    /\ UNCHANGED <<lineage, logs, entry, last>>

-----------------------------------------------------------------------------
(* Writes of one statement, through a view *)

Edit_AllRuns(r, M) ==
  /\ Born(r) /\ M # {} /\ M \subseteq 1..last
  /\ entry' = [i \in Ids |-> IF i \in M THEN [entry[i] EXCEPT !.marks = @ \cup {<<r, "edit">>}] ELSE entry[i]]
  /\ UNCHANGED <<lineage, logs, last, view, task>>

\* append_entry_body, update_entry_attributes: a row the run views at the path;
\* update_body_by_pattern: any of the rows it views may match.
Edit(r, M) ==
  /\ M # {} /\ M \subseteq view[r]
  /\ entry' = [i \in Ids |-> IF i \in M THEN [entry[i] EXCEPT !.marks = @ \cup {<<r, "edit">>}] ELSE entry[i]]
  /\ UNCHANGED <<lineage, logs, last, view, task>>

Remove_Rows(r, M) ==
  /\ M # {} /\ M \subseteq view[r]
  /\ view' = [view EXCEPT ![r] = @ \ M]
  /\ entry' = [i \in Ids |-> IF i \in M THEN None ELSE entry[i]]
  /\ UNCHANGED <<lineage, logs, last, task>>

\* delete_known_entry, delete_entries_by_pattern: views go, rows stay.
Remove(r, M) ==
  /\ M # {} /\ M \subseteq view[r]
  /\ view' = [view EXCEPT ![r] = @ \ M]
  /\ UNCHANGED <<lineage, logs, entry, last, task>>

-----------------------------------------------------------------------------

\* The process dies: calls are gone, the tables stay.
Crash ==
  /\ task # [k \in Callers |-> None]
  /\ task' = [k \in Callers |-> None]
  /\ UNCHANGED <<lineage, logs, entry, last, view>>

Next ==
  \/ \E r \in Runs : Create(r) \/ \E c \in Runs : Fork(r, c)
  \/ \E r \in Runs, M \in SUBSET Ids :
       Edit(r, M) \/ Remove(r, M)
  \/ \E k \in Callers : \/ Set(k) \/ NewLog(k) \/ WriteEntry(k)
                        \/ WriteView(k) \/ Copy(k) \/ Move(k) \/ RemoveSource(k)
  \/ Crash

Spec == Init /\ [][Next]_vars

-----------------------------------------------------------------------------
(* Properties *)

Roots(r) == {q \in lineage[r] : lineage[q] = {q}}

\* Whatever forks, copies, appends and pattern writes come together, what a run reads was
\* written by runs of its own family: two trees of forks never meet in a row.
FamiliesApart ==
  \A r \in Runs : \A i \in view[r] : \A m \in entry[i].marks : Roots(m[1]) = Roots(r)

\* "Child's subsequent writes diverge via upsert into a new run-scoped entry": what a run
\* reads was never set by a run that descends from it or by a sibling; only edits pass
\* upwards.
SetsFlowDown ==
  \A r, q \in Runs : \A i \in view[r] : <<q, "set">> \in entry[i].marks => q \in lineage[r]

\* For a run that is no fork a path names one entry, whatever calls race to create it or
\* are cut off between row and view.
RootsUnambiguous ==
  \A r \in Runs : lineage[r] = {r} =>
    \A i, j \in view[r] : entry[i].path = entry[j].path => i = j

\* Nothing appears in a run but what is written in its own scope: after the fork, no new
\* entry of the parent, and never one of another run.
NothingIntrudes ==
  [][\A r \in Runs : Born(r) => \A i \in view'[r] \ view[r] : entry'[i].scope = r]_vars
=============================================================================
