---------------------------- MODULE Store_proofs ----------------------------
(***************************************************************************)
(* Proofs about Store, for any runs, paths, bounds and calls.              *)
(***************************************************************************)
EXTENDS Store, FiniteSetTheorems, TLAPS

\* A run's line holds the run itself and the whole line of each of its ancestors, which
\* all exist and are of its family.
LineageInv ==
  /\ \A r \in Runs : Born(r) => r \in lineage[r]
  /\ \A r \in Runs : \A q \in lineage[r] : Born(q) /\ lineage[q] \subseteq lineage[r] /\ Roots(q) = Roots(r)

\* A row is marked by runs that exist and are of its family, and set by its own run.
RowsInv ==
  \A i \in 1..last :
    /\ Born(entry[i].scope)
    /\ \A m \in entry[i].marks : Born(m[1]) /\ Roots(m[1]) = Roots(entry[i].scope)
    /\ \A q \in Runs : <<q, "set">> \in entry[i].marks => q = entry[i].scope

\* The index on scope and path is unique.
UniqueInv ==
  \A i, j \in 1..last :
    entry[i].scope = entry[j].scope /\ entry[i].path = entry[j].path => i = j

\* A run views rows of its own and of its ancestors.
ViewsInv == \A r \in Runs : \A i \in view[r] : entry[i].scope \in lineage[r]

\* A call that has written its row holds a row of its run.
TaskInv ==
  \A k \in Callers : task[k] # None =>
    /\ Born(task[k].run)
    /\ task[k].step = "view" => task[k].id \in 1..last /\ entry[task[k].id].scope = task[k].run

IndInv == TypeOK /\ LineageInv /\ RowsInv /\ UniqueInv /\ ViewsInv /\ TaskInv

USE BoundAssumption, NoneAssumption

-----------------------------------------------------------------------------
(* A new run *)

\* A run that is added with a line of runs that exist changes the family of no other.
LEMMA RootsKept ==
  ASSUME TypeOK, LineageInv, NEW c \in Runs, ~Born(c), NEW L \in SUBSET Runs,
         lineage' = [lineage EXCEPT ![c] = L \cup {c}],
         NEW r \in Runs, r # c
  PROVE  Roots(r)' = Roots(r)
  BY DEF TypeOK, LineageInv, Roots, Born

LEMMA RootsOfFork ==
  ASSUME TypeOK, LineageInv, NEW c \in Runs, ~Born(c), NEW r \in Runs, Born(r),
         lineage' = [lineage EXCEPT ![c] = lineage[r] \cup {c}]
  PROVE  Roots(c)' = Roots(r)
<1>1. r # c /\ r \in lineage[r] /\ c \notin lineage[r]
  BY DEF TypeOK, LineageInv, Born
<1>2. lineage'[c] = lineage[r] \cup {c} /\ lineage'[c] # {c}
  BY <1>1 DEF TypeOK
<1>3. \A q \in lineage[r] : lineage'[q] = lineage[q]
  BY <1>1 DEF TypeOK
<1> QED BY <1>1, <1>2, <1>3 DEF Roots

\* What the invariants say of runs, rows, views and calls carries over to a state with one
\* more run.
LEMMA OldRowsKept ==
  ASSUME IndInv, NEW c \in Runs, ~Born(c), NEW L \in SUBSET Runs,
         lineage' = [lineage EXCEPT ![c] = L \cup {c}], entry' = entry, last' = last, task' = task
  PROVE  RowsInv' /\ UniqueInv' /\ TaskInv'
<1>1. \A r \in Runs : Born(r) => Born(r)' /\ Roots(r)' = Roots(r)
  BY RootsKept DEF IndInv, TypeOK, Born
<1>2. \A i \in 1..last : entry[i] \in Row
  BY DEF IndInv, TypeOK, Ids
<1>3. RowsInv'
  <2> SUFFICES ASSUME NEW i \in 1..last
      PROVE /\ Born(entry[i].scope)'
            /\ \A m \in entry[i].marks : Born(m[1])' /\ Roots(m[1])' = Roots(entry[i].scope)'
            /\ \A q \in Runs : <<q, "set">> \in entry[i].marks => q = entry[i].scope
    BY DEF RowsInv
  <2>1. entry[i].scope \in Runs /\ entry[i].marks \subseteq Marks
    BY <1>2 DEF Row
  <2>2. \A m \in entry[i].marks : m[1] \in Runs
    BY <2>1 DEF Marks
  <2> QED BY <1>1, <2>1, <2>2 DEF IndInv, RowsInv
<1>4. UniqueInv'
  BY DEF IndInv, UniqueInv
<1>5. TaskInv'
  <2>1. \A k \in Callers : task[k] # None => task[k].run \in Runs
    BY DEF IndInv, TypeOK, Task
  <2> QED BY <1>1, <2>1 DEF IndInv, TaskInv
<1> QED BY <1>3, <1>4, <1>5

LEMMA CreateKeeps ==
  ASSUME IndInv, NEW r \in Runs, Create(r)
  PROVE  IndInv'
<1>1. lineage' = [lineage EXCEPT ![r] = {} \cup {r}] /\ ~Born(r)
      /\ entry' = entry /\ last' = last /\ task' = task /\ view' = view /\ logs' = logs
  BY DEF Create
<1>2. TypeOK'
  BY <1>1 DEF IndInv, TypeOK, Born, Ids
<1>a. {} \in SUBSET Runs
  OBVIOUS
<1>3. RowsInv' /\ UniqueInv' /\ TaskInv'
  BY <1>1, <1>a, OldRowsKept
<1>4. \A q \in Runs : q # r => lineage'[q] = lineage[q] /\ Roots(q)' = Roots(q)
  BY <1>1, RootsKept DEF IndInv, TypeOK
<1>5. lineage'[r] = {r} /\ r \notin UNION {lineage[q] : q \in Runs}
  BY <1>1 DEF IndInv, TypeOK, LineageInv, Born
<1>6. LineageInv'
  BY <1>1, <1>4, <1>5 DEF IndInv, TypeOK, LineageInv, Born
<1>7. ViewsInv'
  BY <1>1, <1>4, <1>5 DEF IndInv, TypeOK, ViewsInv, Born
<1> QED BY <1>2, <1>3, <1>6, <1>7 DEF IndInv

LEMMA ForkKeeps ==
  ASSUME IndInv, NEW r \in Runs, NEW c \in Runs, Fork(r, c)
  PROVE  IndInv'
<1>1. /\ lineage' = [lineage EXCEPT ![c] = lineage[r] \cup {c}] /\ Born(r) /\ ~Born(c)
      /\ view' = [view EXCEPT ![c] = view[r]]
      /\ entry' = entry /\ last' = last /\ task' = task /\ logs' = logs
  BY DEF Fork
<1>a. lineage[r] \in SUBSET Runs
  BY DEF IndInv, TypeOK
<1>2. TypeOK'
  BY <1>1 DEF IndInv, TypeOK, Born, Ids
<1>3. RowsInv' /\ UniqueInv' /\ TaskInv'
  BY <1>1, <1>a, OldRowsKept
<1>4. \A q \in Runs : q # c => lineage'[q] = lineage[q] /\ Roots(q)' = Roots(q)
  BY <1>1, <1>a, RootsKept DEF IndInv, TypeOK
<1>5. lineage'[c] = lineage[r] \cup {c} /\ c \notin UNION {lineage[q] : q \in Runs} /\ r # c
  BY <1>1 DEF IndInv, TypeOK, LineageInv, Born
<1>6. Roots(c)' = Roots(r)
  BY <1>1, RootsOfFork DEF IndInv
<1>7. LineageInv'
  <2>1. \A q \in Runs : Born(q)' => q \in lineage'[q]
    BY <1>4, <1>5 DEF IndInv, LineageInv, Born
  <2>2. ASSUME NEW q \in Runs, q # c, NEW p \in lineage'[q]
        PROVE Born(p)' /\ lineage'[p] \subseteq lineage'[q] /\ Roots(p)' = Roots(q)'
    <3>1. p \in lineage[q] /\ p \in Runs /\ p # c
      BY <1>4, <1>5, <2>2 DEF IndInv, TypeOK
    <3> QED BY <1>4, <2>2, <3>1 DEF IndInv, LineageInv, Born
  <2>3. ASSUME NEW p \in lineage'[c]
        PROVE Born(p)' /\ lineage'[p] \subseteq lineage'[c] /\ Roots(p)' = Roots(c)'
    <3>1. CASE p = c
      BY <1>5, <3>1 DEF Born
    <3>2. CASE p \in lineage[r]
      <4>1. p \in Runs /\ p # c
        BY <1>5, <3>2 DEF IndInv, TypeOK
      <4>2. Born(p) /\ lineage[p] \subseteq lineage[r] /\ Roots(p) = Roots(r)
        BY <3>2 DEF IndInv, LineageInv
      <4> QED BY <1>4, <1>5, <1>6, <4>1, <4>2 DEF Born
    <3> QED BY <1>5, <3>1, <3>2
  <2> QED BY <2>1, <2>2, <2>3 DEF LineageInv
<1>8. ViewsInv'
  BY <1>1, <1>4, <1>5 DEF IndInv, TypeOK, ViewsInv
<1> QED BY <1>2, <1>3, <1>7, <1>8 DEF IndInv

-----------------------------------------------------------------------------
(* Writes of rows *)

\* An upsert writes a row of the run's own scope and no other; rows keep scope and path.
LEMMA UpsertRow ==
  ASSUME TypeOK, NEW r \in Runs, NEW p \in Paths, NEW i \in Ids, UpsertEntry(i, r, p)
  PROVE  /\ last' \in 0..MaxEntries /\ last <= last' /\ last' <= last + 1
         /\ entry' \in [Ids -> Row \cup {None}]
         /\ \A j \in Ids : entry'[j] # None <=> j <= last'
         /\ i \in 1..last' /\ entry'[i].scope = r /\ entry'[i].path = p
         /\ \A j \in 1..last' : j # i => j \in 1..last /\ entry'[j] = entry[j]
         /\ i \in 1..last => /\ entry[i].scope = r /\ entry[i].path = p
                             /\ entry'[i].marks = entry[i].marks \cup {<<r, "set">>}
         /\ i \notin 1..last => /\ entry'[i].marks = {<<r, "set">>}
                                /\ \A j \in Ids : ~Fits(j, r, p)
<1>1. i \in 1..MaxEntries /\ last \in 0..MaxEntries /\ last \in Int
  BY DEF TypeOK, Ids
<1>2. \/ i <= last /\ entry[i].scope = r /\ entry[i].path = p
      \/ i = last + 1 /\ \A j \in Ids : ~Fits(j, r, p)
  BY DEF UpsertEntry, Slot, Fits
<1>3. last' = IF i > last THEN i ELSE last
  BY DEF UpsertEntry
<1>4. \A j \in Ids : j # i => entry'[j] = entry[j]
  BY DEF UpsertEntry, TypeOK
<1>5. entry'[i] = [scope |-> r, path |-> p,
                   marks |-> IF i > last THEN {<<r, "set">>} ELSE entry[i].marks \cup {<<r, "set">>}]
  BY DEF UpsertEntry, TypeOK
<1>6. i <= last => entry[i] \in Row /\ entry[i].marks \subseteq Marks
  BY <1>1 DEF TypeOK, Row, Ids
<1>7. {<<r, "set">>} \subseteq Marks
  BY DEF Marks
<1>8. entry'[i] \in Row
  <2>1. CASE i > last
    BY <1>5, <1>7, <2>1 DEF Row
  <2>2. CASE ~(i > last)
    <3>1. i <= last
      BY <1>1, <2>2
    <3>2. entry[i].marks \cup {<<r, "set">>} \in SUBSET Marks
      BY <1>6, <1>7, <3>1
    <3> QED BY <1>5, <2>2, <3>2 DEF Row
  <2> QED BY <2>1, <2>2
<1>9. entry' \in [Ids -> Row \cup {None}]
  <2>1. entry' = [entry EXCEPT ![i] = entry'[i]]
    BY <1>5 DEF UpsertEntry
  <2> QED BY <1>8, <2>1 DEF TypeOK
<1>10. \A j \in Ids : entry'[j] # None <=> j <= last'
  <2> TAKE j \in Ids
  <2>1. CASE j = i
    BY <1>1, <1>3, <1>8, <2>1
  <2>2. CASE j # i
    BY <1>1, <1>2, <1>3, <1>4, <2>2 DEF TypeOK, Ids
  <2> QED BY <2>1, <2>2
<1>11. \A j \in 1..last' : j # i => j \in 1..last /\ entry'[j] = entry[j]
  BY <1>1, <1>2, <1>3, <1>4 DEF Ids
<1>12. i \in 1..last => entry'[i].marks = entry[i].marks \cup {<<r, "set">>}
  BY <1>1, <1>5
<1>13. i \notin 1..last => entry'[i].marks = {<<r, "set">>}
  BY <1>1, <1>5
<1> QED BY <1>1, <1>2, <1>3, <1>5, <1>9, <1>10, <1>11, <1>12, <1>13

LEMMA UpsertKeeps ==
  ASSUME IndInv, NEW r \in Runs, Born(r), NEW p \in Paths, NEW i \in Ids, UpsertEntry(i, r, p),
         lineage' = lineage, view' = view
  PROVE  /\ RowsInv' /\ UniqueInv' /\ ViewsInv'
         /\ \A q \in Runs : view'[q] \subseteq 1..last'
         /\ \A j \in 1..last : j \in 1..last' /\ entry'[j].scope = entry[j].scope
<1>t. TypeOK
  BY DEF IndInv
<1>1. /\ last' \in 0..MaxEntries /\ last <= last' /\ last \in 0..MaxEntries
      /\ i \in 1..last' /\ entry'[i].scope = r /\ entry'[i].path = p
      /\ \A j \in 1..last' : j # i => j \in 1..last /\ entry'[j] = entry[j]
      /\ i \in 1..last => /\ entry[i].scope = r /\ entry[i].path = p
                          /\ entry'[i].marks = entry[i].marks \cup {<<r, "set">>}
      /\ i \notin 1..last => /\ entry'[i].marks = {<<r, "set">>}
                             /\ \A j \in Ids : ~Fits(j, r, p)
  BY <1>t, UpsertRow DEF TypeOK
<1>2. \A q \in Runs : Born(q)' = Born(q) /\ Roots(q)' = Roots(q)
  BY DEF Born, Roots
<1>3. \A j \in 1..last : j \in 1..last' /\ entry'[j].scope = entry[j].scope
  BY <1>1
<1>4. \A j \in 1..last : entry[j] \in Row /\ j \in Ids
  BY <1>t, <1>1 DEF TypeOK, Ids
<1>5. RowsInv'
  <2> SUFFICES ASSUME NEW j \in 1..last'
      PROVE /\ lineage'[entry'[j].scope] # {}
            /\ \A m \in entry'[j].marks : Born(m[1])' /\ Roots(m[1])' = Roots(entry[j].scope)'
            /\ \A q \in Runs : <<q, "set">> \in entry'[j].marks => q = entry'[j].scope
    BY DEF RowsInv, Born
  <2>1. CASE j # i
    BY <1>1, <2>1 DEF IndInv, RowsInv, Born, Roots
  <2>2. CASE j = i /\ i \in 1..last
    BY <1>1, <2>2 DEF IndInv, RowsInv, Born, Roots
  <2>3. CASE j = i /\ i \notin 1..last
    BY <1>1, <2>3 DEF Born, Roots
  <2> QED BY <2>1, <2>2, <2>3
<1>6. UniqueInv'
  <2> SUFFICES ASSUME NEW j \in 1..last', NEW k \in 1..last',
                      entry'[j].scope = entry'[k].scope, entry'[j].path = entry'[k].path
      PROVE j = k
    BY DEF UniqueInv
  <2>1. \A n \in 1..last : i \in 1..last \/ ~(entry[n].scope = r /\ entry[n].path = p)
    BY <1>1, <1>4 DEF Fits
  <2>2. CASE j # i /\ k # i
    BY <1>1, <2>2 DEF IndInv, UniqueInv
  <2>3. CASE j = i \/ k = i
    BY <1>1, <2>1, <2>3 DEF IndInv, UniqueInv
  <2> QED BY <2>2, <2>3
<1>7. ViewsInv'
  BY <1>3 DEF IndInv, TypeOK, ViewsInv
<1>8. \A q \in Runs : view'[q] \subseteq 1..last'
  BY <1>3 DEF IndInv, TypeOK
<1> QED BY <1>3, <1>5, <1>6, <1>7, <1>8

LEMMA SetKeeps ==
  ASSUME IndInv, NEW k \in Callers, Set(k)
  PROVE  IndInv'
<1>1. PICK r \in Runs, p \in Paths, i \in Ids :
        /\ Born(r) /\ UpsertEntry(i, r, p)
        /\ task' = [task EXCEPT ![k] = [SetTask(r, p) EXCEPT !.step = "view", !.id = i]]
  BY DEF Set
<1>2. lineage' = lineage /\ logs' = logs /\ view' = view
  BY DEF Set
<1>3. /\ RowsInv' /\ UniqueInv' /\ ViewsInv' /\ (\A q \in Runs : view'[q] \subseteq 1..last')
      /\ \A j \in 1..last : j \in 1..last' /\ entry'[j].scope = entry[j].scope
  BY <1>1, <1>2, UpsertKeeps
<1>4. /\ last' \in 0..MaxEntries /\ entry' \in [Ids -> Row \cup {None}]
      /\ (\A j \in Ids : entry'[j] # None <=> j <= last')
      /\ i \in 1..last' /\ entry'[i].scope = r
  BY <1>1, UpsertRow DEF IndInv
<1>5. LineageInv'
  BY <1>2 DEF IndInv, LineageInv, Born, Roots
<1> DEFINE t == [SetTask(r, p) EXCEPT !.step = "view", !.id = i]
<1>6. t \in Task /\ t.run = r /\ t.step = "view" /\ t.id = i
  BY DEF SetTask, Task
<1>7. TypeOK'
  <2>1. task' \in [Callers -> Task \cup {None}]
    BY <1>1, <1>6 DEF IndInv, TypeOK
  <2> QED BY <1>2, <1>3, <1>4, <2>1 DEF IndInv, TypeOK, Born
<1>8. TaskInv'
  <2> SUFFICES ASSUME NEW c \in Callers, task'[c] # None
      PROVE /\ lineage'[task'[c].run] # {}
            /\ task'[c].step = "view" => task'[c].id \in 1..last' /\ entry'[task'[c].id].scope = task'[c].run
    BY DEF TaskInv, Born
  <2>1. CASE c = k
    <3>1. task'[c] = t
      BY <1>1, <2>1 DEF IndInv, TypeOK
    <3> QED BY <1>1, <1>2, <1>4, <1>6, <3>1 DEF Born
  <2>2. CASE c # k
    <3>1. task'[c] = task[c]
      BY <1>1, <2>2 DEF IndInv, TypeOK
    <3> QED BY <1>2, <1>3, <3>1 DEF IndInv, TaskInv, Born
  <2> QED BY <2>1, <2>2
<1> QED BY <1>3, <1>5, <1>7, <1>8 DEF IndInv

LEMMA WriteEntryKeeps ==
  ASSUME IndInv, NEW k \in Callers, WriteEntry(k)
  PROVE  IndInv'
<1> DEFINE t == task[k]
<1>1. t # None /\ t.step = "entry" /\ t \in Task /\ Born(t.run)
  BY DEF WriteEntry, IndInv, TypeOK, TaskInv
<1>2. t.run \in Runs /\ t.path \in Paths
  BY <1>1 DEF Task
<1>3. PICK i \in Ids :
        /\ UpsertEntry(i, t.run, t.path)
        /\ task' = [task EXCEPT ![k].step = "view", ![k].id = i]
  BY DEF WriteEntry
<1>4. lineage' = lineage /\ logs' = logs /\ view' = view
  BY DEF WriteEntry
<1>5. /\ RowsInv' /\ UniqueInv' /\ ViewsInv' /\ (\A q \in Runs : view'[q] \subseteq 1..last')
      /\ \A j \in 1..last : j \in 1..last' /\ entry'[j].scope = entry[j].scope
  BY <1>1, <1>2, <1>3, <1>4, UpsertKeeps
<1>6. /\ last' \in 0..MaxEntries /\ entry' \in [Ids -> Row \cup {None}]
      /\ (\A j \in Ids : entry'[j] # None <=> j <= last')
      /\ i \in 1..last' /\ entry'[i].scope = t.run
  BY <1>2, <1>3, UpsertRow DEF IndInv
<1>7. LineageInv'
  BY <1>4 DEF IndInv, LineageInv, Born, Roots
<1> DEFINE u == [t EXCEPT !.step = "view", !.id = i]
<1>8. u \in Task /\ u.run = t.run /\ u.step = "view" /\ u.id = i
  BY <1>1 DEF Task
<1>9. task' = [task EXCEPT ![k] = u]
  BY <1>1, <1>3 DEF IndInv, TypeOK, Task
<1>10. TypeOK'
  <2>1. task' \in [Callers -> Task \cup {None}]
    BY <1>8, <1>9 DEF IndInv, TypeOK
  <2> QED BY <1>4, <1>5, <1>6, <2>1 DEF IndInv, TypeOK, Born
<1>11. TaskInv'
  <2> SUFFICES ASSUME NEW c \in Callers, task'[c] # None
      PROVE /\ lineage'[task'[c].run] # {}
            /\ task'[c].step = "view" => task'[c].id \in 1..last' /\ entry'[task'[c].id].scope = task'[c].run
    BY DEF TaskInv, Born
  <2>1. CASE c = k
    <3>1. task'[c] = u
      BY <1>9, <2>1 DEF IndInv, TypeOK
    <3> QED BY <1>1, <1>4, <1>6, <1>8, <3>1 DEF Born
  <2>2. CASE c # k
    <3>1. task'[c] = task[c]
      BY <1>9, <2>2 DEF IndInv, TypeOK
    <3> QED BY <1>4, <1>5, <3>1 DEF IndInv, TaskInv, Born
  <2> QED BY <2>1, <2>2
<1> QED BY <1>5, <1>7, <1>10, <1>11 DEF IndInv

-----------------------------------------------------------------------------
(* The other steps of calls *)

\* A call that changes neither runs nor rows, and holds what calls may hold, keeps all that
\* is said of them.
LEMMA CallKeeps ==
  ASSUME IndInv, NEW k \in Callers, NEW t \in Task \cup {None},
         t # None => Born(t.run) /\ t.step # "view",
         task' = [task EXCEPT ![k] = t],
         lineage' = lineage, entry' = entry, last' = last
  PROVE  /\ LineageInv' /\ RowsInv' /\ UniqueInv' /\ TaskInv'
         /\ task' \in [Callers -> Task \cup {None}]
<1>1. LineageInv'
  BY DEF IndInv, LineageInv, Born, Roots
<1>2. RowsInv' /\ UniqueInv'
  BY DEF IndInv, RowsInv, UniqueInv, Born, Roots
<1>3. task' \in [Callers -> Task \cup {None}]
  BY DEF IndInv, TypeOK
<1>4. TaskInv'
  <2> SUFFICES ASSUME NEW c \in Callers, task'[c] # None
      PROVE /\ lineage'[task'[c].run] # {}
            /\ task'[c].step = "view" => task'[c].id \in 1..last' /\ entry'[task'[c].id].scope = task'[c].run
    BY DEF TaskInv, Born
  <2>1. CASE c = k
    <3>1. task'[c] = t
      BY <2>1 DEF IndInv, TypeOK
    <3> QED BY <3>1 DEF Born
  <2>2. CASE c # k
    <3>1. task'[c] = task[c]
      BY <2>2 DEF IndInv, TypeOK
    <3> QED BY <3>1 DEF IndInv, TaskInv, Born
  <2> QED BY <2>1, <2>2
<1> QED BY <1>1, <1>2, <1>3, <1>4

LEMMA NewLogKeeps ==
  ASSUME IndInv, NEW k \in Callers, NewLog(k)
  PROVE  IndInv'
<1>1. PICK r \in Runs :
        /\ Born(r) /\ logs[r] < MaxLogs
        /\ logs' = [logs EXCEPT ![r] = @ + 1]
        /\ task' = [task EXCEPT ![k] = SetTask(r, logs[r] + 1)]
  BY DEF NewLog
<1>2. lineage' = lineage /\ entry' = entry /\ last' = last /\ view' = view
  BY DEF NewLog
<1>3. logs[r] + 1 \in 1..MaxLogs /\ logs[r] + 1 \in 0..MaxLogs
  BY <1>1 DEF IndInv, TypeOK
<1>4. SetTask(r, logs[r] + 1) \in Task /\ SetTask(r, logs[r] + 1).run = r
      /\ SetTask(r, logs[r] + 1).step # "view"
  BY <1>3 DEF SetTask, Task, Paths
<1>5. /\ LineageInv' /\ RowsInv' /\ UniqueInv' /\ TaskInv'
      /\ task' \in [Callers -> Task \cup {None}]
  BY <1>1, <1>2, <1>4, CallKeeps
<1>6. TypeOK'
  <2>1. logs' \in [Runs -> 0..MaxLogs]
    BY <1>1, <1>3 DEF IndInv, TypeOK
  <2> QED BY <1>2, <1>5, <2>1 DEF IndInv, TypeOK, Born
<1>7. ViewsInv'
  BY <1>2 DEF IndInv, ViewsInv
<1> QED BY <1>5, <1>6, <1>7 DEF IndInv

LEMMA CopyKeeps ==
  ASSUME IndInv, NEW k \in Callers, Copy(k) \/ Move(k)
  PROVE  IndInv'
<1>1. lineage' = lineage /\ logs' = logs /\ entry' = entry /\ last' = last /\ view' = view
  BY DEF Copy, Move
<1>2. PICK t \in Task : t.step # "view" /\ Born(t.run) /\ task' = [task EXCEPT ![k] = t]
  <2>1. CASE Copy(k)
    <3>1. PICK r \in Runs, to \in Paths, looped \in BOOLEAN :
            Born(r) /\ task' = [task EXCEPT ![k] = [SetTask(r, to) EXCEPT !.looped = looped]]
      BY <2>1 DEF Copy
    <3> QED BY <3>1 DEF SetTask, Task
  <2>2. CASE Move(k)
    <3>1. PICK r \in Runs, from \in Paths, to \in Paths, looped \in BOOLEAN,
               step \in {"remove", "entry"} :
            Born(r) /\ task' = [task EXCEPT ![k] = [SetTask(r, to) EXCEPT !.step = step,
                                                       !.looped = looped, !.source = from]]
      BY <2>2 DEF Move
    <3> QED BY <3>1 DEF SetTask, Task
  <2> QED BY <2>1, <2>2
<1>3. /\ LineageInv' /\ RowsInv' /\ UniqueInv' /\ TaskInv'
      /\ task' \in [Callers -> Task \cup {None}]
  BY <1>1, <1>2, CallKeeps
<1>4. TypeOK' /\ ViewsInv'
  BY <1>1, <1>3 DEF IndInv, TypeOK, ViewsInv, Born
<1> QED BY <1>3, <1>4 DEF IndInv

\* What is left of a call once its view is written.
LEMMA AfterViewFits ==
  ASSUME NEW t \in Task, Born(t.run)
  PROVE  /\ AfterView(t) \in Task \cup {None}
         /\ AfterView(t) # None => Born(AfterView(t).run) /\ AfterView(t).step # "view"
<1>1. CASE t.source = None
  BY <1>1 DEF AfterView
<1>2. CASE t.source # None
  <2>1. AfterView(t) = [t EXCEPT !.step = "remove", !.id = None]
    BY <1>2 DEF AfterView
  <2>2. AfterView(t) \in Task /\ AfterView(t).run = t.run /\ AfterView(t).step = "remove"
    BY <2>1 DEF Task
  <2> QED BY <2>2
<1> QED BY <1>1, <1>2

LEMMA WriteViewKeeps ==
  ASSUME IndInv, NEW k \in Callers, WriteView(k)
  PROVE  IndInv'
<1> DEFINE t == task[k]
<1>1. lineage' = lineage /\ logs' = logs /\ entry' = entry /\ last' = last
  BY DEF WriteView
<1>2. t # None /\ t.step = "view" /\ t \in Task
  BY DEF WriteView, IndInv, TypeOK
<1>3. Born(t.run) /\ t.id \in 1..last /\ entry[t.id].scope = t.run /\ t.run \in Runs
  BY <1>2 DEF IndInv, TaskInv, Task
<1>4. \/ view' = [view EXCEPT ![t.run] = @ \cup {t.id}] /\ task' = [task EXCEPT ![k] = AfterView(t)]
      \/ view' = view /\ task' = [task EXCEPT ![k] = None]
  BY DEF WriteView
<1>5. /\ LineageInv' /\ RowsInv' /\ UniqueInv' /\ TaskInv'
      /\ task' \in [Callers -> Task \cup {None}]
  <2>1. CASE task' = [task EXCEPT ![k] = AfterView(t)]
    <3>1. /\ AfterView(t) \in Task \cup {None}
          /\ AfterView(t) # None => Born(AfterView(t).run) /\ AfterView(t).step # "view"
      BY <1>2, <1>3, AfterViewFits
    <3> QED BY <1>1, <2>1, <3>1, CallKeeps
  <2>2. CASE task' = [task EXCEPT ![k] = None]
    BY <1>1, <2>2, CallKeeps
  <2> QED BY <1>4, <2>1, <2>2
<1>6. \A r \in Runs : \A i \in view'[r] : i \in view[r] \/ (r = t.run /\ i = t.id)
  BY <1>3, <1>4 DEF IndInv, TypeOK
<1>7. TypeOK'
  <2>1. view' \in [Runs -> SUBSET (1..last')] /\ \A r \in Runs : ~Born(r)' => view'[r] = {}
    BY <1>1, <1>3, <1>4, <1>6 DEF IndInv, TypeOK, Born
  <2> QED BY <1>1, <1>5, <2>1 DEF IndInv, TypeOK
<1>8. ViewsInv'
  BY <1>1, <1>3, <1>6 DEF IndInv, ViewsInv, LineageInv
<1> QED BY <1>5, <1>7, <1>8 DEF IndInv

\* Taking views away keeps the invariant.
LEMMA FewerViewsKeep ==
  ASSUME IndInv, NEW r \in Runs, NEW M, view' = [view EXCEPT ![r] = @ \ M],
         lineage' = lineage, logs' = logs, entry' = entry, last' = last,
         task' \in [Callers -> Task \cup {None}]
  PROVE  TypeOK' /\ ViewsInv'
<1>1. \A q \in Runs : view'[q] \subseteq view[q]
  BY DEF IndInv, TypeOK
<1>2. view' \in [Runs -> SUBSET (1..last')]
  BY <1>1 DEF IndInv, TypeOK
<1>3. \A q \in Runs : ~Born(q)' => view'[q] = {}
  BY <1>1 DEF IndInv, TypeOK, Born
<1> QED BY <1>1, <1>2, <1>3 DEF IndInv, TypeOK, ViewsInv

LEMMA RemoveSourceKeeps ==
  ASSUME IndInv, NEW k \in Callers, RemoveSource(k)
  PROVE  IndInv'
<1>1. /\ task' = [task EXCEPT ![k] = None]
      /\ lineage' = lineage /\ logs' = logs /\ entry' = entry /\ last' = last
  BY DEF RemoveSource
<1>2. /\ LineageInv' /\ RowsInv' /\ UniqueInv' /\ TaskInv'
      /\ task' \in [Callers -> Task \cup {None}]
  BY <1>1, CallKeeps
<1>3. task[k].run \in Runs
  BY DEF RemoveSource, IndInv, TypeOK, Task
<1>4. TypeOK' /\ ViewsInv'
  <2>1. CASE view' = view
    BY <1>1, <1>2, <2>1 DEF IndInv, TypeOK, ViewsInv, Born
  <2>2. CASE \E i : view' = [view EXCEPT ![task[k].run] = @ \ {i}]
    <3>1. PICK i : view' = [view EXCEPT ![task[k].run] = @ \ {i}]
      BY <2>2
    <3> QED BY <1>1, <1>2, <1>3, <3>1, FewerViewsKeep
  <2> QED BY <2>1, <2>2 DEF RemoveSource
<1> QED BY <1>2, <1>4 DEF IndInv

-----------------------------------------------------------------------------
(* Writes of one statement, and the end of the process *)

LEMMA RemoveKeeps ==
  ASSUME IndInv, NEW r \in Runs, NEW M \in SUBSET Ids, Remove(r, M)
  PROVE  IndInv'
<1>1. /\ view' = [view EXCEPT ![r] = @ \ M]
      /\ lineage' = lineage /\ logs' = logs /\ entry' = entry /\ last' = last /\ task' = task
  BY DEF Remove
<1>2. TypeOK' /\ ViewsInv'
  <2>1. task' \in [Callers -> Task \cup {None}]
    BY <1>1 DEF IndInv, TypeOK
  <2> QED BY <1>1, <2>1, FewerViewsKeep
<1>3. LineageInv' /\ RowsInv' /\ UniqueInv' /\ TaskInv'
  BY <1>1 DEF IndInv, LineageInv, RowsInv, UniqueInv, TaskInv, Born, Roots
<1> QED BY <1>2, <1>3 DEF IndInv

\* An edit marks rows that the run views: rows of its own line.
LEMMA EditKeeps ==
  ASSUME IndInv, NEW r \in Runs, NEW M \in SUBSET Ids, Edit(r, M)
  PROVE  IndInv'
<1>1. /\ M \subseteq view[r] /\ M # {}
      /\ entry' = [i \in Ids |-> IF i \in M THEN [entry[i] EXCEPT !.marks = @ \cup {<<r, "edit">>}] ELSE entry[i]]
      /\ lineage' = lineage /\ logs' = logs /\ last' = last /\ view' = view /\ task' = task
  BY DEF Edit
<1>2. Born(r) /\ M \subseteq 1..last /\ last \in 0..MaxEntries
  BY <1>1 DEF IndInv, TypeOK
<1>3. \A i \in 1..last : i \in Ids /\ entry[i] \in Row /\ entry[i].marks \subseteq Marks
  BY <1>2 DEF IndInv, TypeOK, Ids, Row
<1>4. \A i \in 1..last :
        /\ entry'[i] \in Row /\ entry'[i].scope = entry[i].scope /\ entry'[i].path = entry[i].path
        /\ entry'[i].marks \subseteq entry[i].marks \cup {<<r, "edit">>}
        /\ i \notin M => entry'[i] = entry[i]
  <2> TAKE i \in 1..last
  <2>1. CASE i \notin M
    BY <1>1, <1>3, <2>1
  <2>2. CASE i \in M
    <3>1. entry'[i] = [entry[i] EXCEPT !.marks = @ \cup {<<r, "edit">>}]
      BY <1>1, <1>3, <2>2
    <3>2. <<r, "edit">> \in Marks
      BY DEF Marks
    <3>3. entry[i] \in Row /\ entry[i].marks \cup {<<r, "edit">>} \in SUBSET Marks
      BY <1>3, <3>2
    <3> QED BY <2>2, <3>1, <3>3 DEF Row
  <2> QED BY <2>1, <2>2
<1>5. TypeOK'
  <2>1. \A i \in Ids : i \notin 1..last => entry'[i] = entry[i] /\ entry[i] = None
    BY <1>1, <1>2 DEF IndInv, TypeOK, Ids
  <2>2. entry' \in [Ids -> Row \cup {None}] /\ \A i \in Ids : entry'[i] # None <=> i <= last'
    <3>1. \A i \in Ids : entry'[i] \in Row \cup {None}
      BY <1>4, <2>1
    <3>2. \A i \in Ids : i \in 1..last <=> i <= last'
      BY <1>1, <1>2 DEF Ids
    <3>3. \A i \in 1..last : entry'[i] # None
      BY <1>4
    <3>4. \A i \in Ids : entry'[i] # None <=> i <= last'
      BY <2>1, <3>2, <3>3
    <3> QED BY <1>1, <3>1, <3>4
  <2> QED BY <1>1, <2>2 DEF IndInv, TypeOK, Born
<1>6. LineageInv'
  BY <1>1 DEF IndInv, LineageInv, Born, Roots
<1>7. RowsInv'
  <2> SUFFICES ASSUME NEW i \in 1..last
      PROVE /\ lineage'[entry'[i].scope] # {}
            /\ \A m \in entry'[i].marks : Born(m[1]) /\ Roots(m[1]) = Roots(entry[i].scope)
            /\ \A q \in Runs : <<q, "set">> \in entry'[i].marks => q = entry'[i].scope
    <3>1. last' = last /\ lineage' = lineage
      BY <1>1
    <3>2. \A i \in 1..last : entry'[i].scope = entry[i].scope
      BY <1>4
    <3> QED BY <3>1, <3>2 DEF RowsInv, Born, Roots
  <2>1. /\ Born(entry[i].scope)
        /\ \A m \in entry[i].marks : Born(m[1]) /\ Roots(m[1]) = Roots(entry[i].scope)
        /\ \A q \in Runs : <<q, "set">> \in entry[i].marks => q = entry[i].scope
    BY DEF IndInv, RowsInv
  <2>2. CASE i \notin M
    BY <1>1, <1>4, <2>1, <2>2 DEF Born
  <2>3. CASE i \in M
    <3>1. entry[i].scope \in lineage[r]
      BY <1>1, <2>3 DEF IndInv, ViewsInv
    <3>2. Roots(entry[i].scope) = Roots(r)
      BY <3>1 DEF IndInv, LineageInv
    <3>3. \A m \in entry'[i].marks : m \in entry[i].marks \/ m[1] = r
      BY <1>4
    <3>4. \A m \in entry'[i].marks : Born(m[1]) /\ Roots(m[1]) = Roots(entry[i].scope)
      BY <1>2, <2>1, <3>2, <3>3
    <3>5. \A q \in Runs : <<q, "set">> \in entry'[i].marks => <<q, "set">> \in entry[i].marks
      BY <1>4
    <3> QED BY <1>1, <1>4, <2>1, <3>4, <3>5 DEF Born
  <2> QED BY <2>2, <2>3
<1>8. UniqueInv'
  <2>1. last' = last /\ \A i \in 1..last : entry'[i].scope = entry[i].scope /\ entry'[i].path = entry[i].path
    BY <1>1, <1>4
  <2> QED BY <2>1 DEF IndInv, UniqueInv
<1>9. ViewsInv'
  <2>1. \A q \in Runs : \A i \in view[q] : i \in 1..last
    BY DEF IndInv, TypeOK
  <2> QED BY <1>1, <1>4, <2>1 DEF IndInv, ViewsInv
<1>10. TaskInv'
  BY <1>1, <1>4 DEF IndInv, TaskInv, Born
<1> QED BY <1>5, <1>6, <1>7, <1>8, <1>9, <1>10 DEF IndInv

LEMMA CrashKeeps ==
  ASSUME IndInv, Crash
  PROVE  IndInv'
<1>1. /\ lineage' = lineage /\ logs' = logs /\ entry' = entry /\ last' = last /\ view' = view
      /\ task' = [k \in Callers |-> None]
  BY DEF Crash
<1>2. TypeOK'
  BY <1>1 DEF IndInv, TypeOK, Born
<1>3. LineageInv' /\ RowsInv' /\ UniqueInv' /\ ViewsInv'
  BY <1>1 DEF IndInv, LineageInv, RowsInv, UniqueInv, ViewsInv, Born, Roots
<1>4. TaskInv'
  BY <1>1 DEF TaskInv
<1> QED BY <1>2, <1>3, <1>4 DEF IndInv

-----------------------------------------------------------------------------
(* The inductive invariant *)

LEMMA Inductive == Spec => []IndInv
<1>1. Init => IndInv
  <2> SUFFICES ASSUME Init PROVE IndInv
    OBVIOUS
  <2>1. TypeOK
    BY DEF Init, TypeOK, Born, Ids
  <2> QED BY <2>1 DEF Init, IndInv, LineageInv, RowsInv, UniqueInv, ViewsInv, TaskInv, Born
<1>2. IndInv /\ [Next]_vars => IndInv'
  <2> SUFFICES ASSUME IndInv, [Next]_vars PROVE IndInv'
    OBVIOUS
  <2>1. ASSUME NEW r \in Runs, NEW c \in Runs, Create(r) \/ Fork(r, c) PROVE IndInv'
    BY <2>1, CreateKeeps, ForkKeeps
  <2>2. ASSUME NEW r \in Runs, NEW M \in SUBSET Ids, Edit(r, M) \/ Remove(r, M) PROVE IndInv'
    BY <2>2, EditKeeps, RemoveKeeps
  <2>3. ASSUME NEW k \in Callers,
               \/ Set(k) \/ NewLog(k) \/ WriteEntry(k) \/ WriteView(k) \/ Copy(k) \/ Move(k) \/ RemoveSource(k)
        PROVE IndInv'
    BY <2>3, SetKeeps, NewLogKeeps, WriteEntryKeeps, WriteViewKeeps, CopyKeeps, RemoveSourceKeeps
  <2>4. CASE Crash
    BY <2>4, CrashKeeps
  <2>5. CASE UNCHANGED vars
    <3>1. TypeOK' /\ LineageInv'
      BY <2>5 DEF vars, IndInv, TypeOK, LineageInv, Born, Roots
    <3>2. RowsInv' /\ UniqueInv' /\ ViewsInv' /\ TaskInv'
      BY <2>5 DEF vars, IndInv, RowsInv, UniqueInv, ViewsInv, TaskInv, Born, Roots
    <3> QED BY <3>1, <3>2 DEF IndInv
  <2> QED BY <2>1, <2>2, <2>3, <2>4, <2>5 DEF Next
<1> QED BY <1>1, <1>2, PTL DEF Spec

-----------------------------------------------------------------------------
(* The properties *)

\* Entries.js and known_store.sql keep runs, rows and views to the types of the schema:
\* ids are given in order, no view is without its row, and a run that does not exist has none.
THEOREM TypeCorrect == Spec => []TypeOK
BY Inductive, PTL DEF IndInv

\* Two trees of forks never meet in a row: what a run reads, runs of its family wrote.
THEOREM Families == Spec => []FamiliesApart
<1>1. IndInv => FamiliesApart
  <2> SUFFICES ASSUME IndInv, NEW r \in Runs, NEW i \in view[r], NEW m \in entry[i].marks
      PROVE Roots(m[1]) = Roots(r)
    BY DEF FamiliesApart
  <2>1. i \in 1..last /\ entry[i].scope \in lineage[r]
    BY DEF IndInv, TypeOK, ViewsInv
  <2> QED BY <2>1 DEF IndInv, RowsInv, LineageInv
<1> QED BY <1>1, Inductive, PTL

\* Sets reach a run from the runs it descends from and from no other.
THEOREM FlowDown == Spec => []SetsFlowDown
<1>1. IndInv => SetsFlowDown
  <2> SUFFICES ASSUME IndInv, NEW r \in Runs, NEW q \in Runs, NEW i \in view[r],
                      <<q, "set">> \in entry[i].marks
      PROVE q \in lineage[r]
    BY DEF SetsFlowDown
  <2>1. i \in 1..last /\ entry[i].scope \in lineage[r]
    BY DEF IndInv, TypeOK, ViewsInv
  <2> QED BY <2>1 DEF IndInv, RowsInv
<1> QED BY <1>1, Inductive, PTL

\* A run without a parent has one entry for a path.
THEOREM RootPaths == Spec => []RootsUnambiguous
<1>1. IndInv => RootsUnambiguous
  <2> SUFFICES ASSUME IndInv, NEW r \in Runs, lineage[r] = {r},
                      NEW i \in view[r], NEW j \in view[r], entry[i].path = entry[j].path
      PROVE i = j
    BY DEF RootsUnambiguous
  <2>1. i \in 1..last /\ j \in 1..last /\ entry[i].scope = r /\ entry[j].scope = r
    BY DEF IndInv, TypeOK, ViewsInv
  <2> QED BY <2>1 DEF IndInv, UniqueInv
<1> QED BY <1>1, Inductive, PTL

\* After the fork a run gains only rows of its own scope.
THEOREM Intrusion == Spec => NothingIntrudes
<1> DEFINE Own == \A r \in Runs : Born(r) => \A i \in view'[r] \ view[r] : entry'[i].scope = r
<1>1. ASSUME IndInv, [Next]_vars PROVE Own
  <2>1. ASSUME NEW r \in Runs, Create(r) PROVE Own
    BY <2>1 DEF Create
  <2>2. ASSUME NEW r \in Runs, NEW c \in Runs, Fork(r, c) PROVE Own
    BY <1>1, <2>2 DEF Fork, IndInv, TypeOK
  <2>3. ASSUME NEW r \in Runs, NEW M \in SUBSET Ids, Edit(r, M) \/ Remove(r, M) PROVE Own
    BY <1>1, <2>3 DEF Edit, Remove, IndInv, TypeOK
  <2>4. ASSUME NEW k \in Callers, Set(k) \/ NewLog(k) \/ WriteEntry(k) \/ Copy(k) \/ Move(k)
       PROVE Own
    BY <2>4 DEF Set, NewLog, WriteEntry, Copy, Move
  <2>5. ASSUME NEW k \in Callers, WriteView(k) PROVE Own
    <3>1. task[k] # None /\ task[k].step = "view" /\ entry' = entry
      BY <2>5 DEF WriteView
    <3>2. entry[task[k].id].scope = task[k].run
      BY <1>1, <3>1 DEF IndInv, TaskInv
    <3>3. view' = [view EXCEPT ![task[k].run] = @ \cup {task[k].id}] \/ view' = view
      BY <2>5 DEF WriteView
    <3> QED BY <1>1, <3>1, <3>2, <3>3 DEF IndInv, TypeOK
  <2>6. ASSUME NEW k \in Callers, RemoveSource(k) PROVE Own
    <3>1. \/ \E i : view' = [view EXCEPT ![task[k].run] = @ \ {i}]
          \/ view' = view
      BY <2>6 DEF RemoveSource
    <3> QED BY <1>1, <3>1 DEF IndInv, TypeOK
  <2>7. CASE Crash \/ UNCHANGED vars
    BY <2>7 DEF Crash, vars
  <2> QED BY <1>1, <2>1, <2>2, <2>3, <2>4, <2>5, <2>6, <2>7 DEF Next
<1> QED BY <1>1, Inductive, PTL DEF Spec, NothingIntrudes

-----------------------------------------------------------------------------
(* More properties, for which the runs have no room *)

\* A path names more than one entry only in a fork, and then at most one for each run of its
\* line: forks copy the views of their parent, and a set of a path that is inherited adds a row
\* of the run's own and leaves the parent's in sight (known_store.sql, upsert_entry,
\* fork_known_entries).
PathsBounded ==
  \A r \in Runs, p \in Paths : Cardinality(At(r, p)) <= Cardinality(lineage[r])

\* Row i is still there, at its scope and path, with all that was written to it.
Endures(i) ==
  /\ i \in 1..last'
  /\ entry'[i].scope = entry[i].scope /\ entry'[i].path = entry[i].path
  /\ entry[i].marks \subseteq entry'[i].marks

\* "Views go, rows stay": no call takes a row from the runs that share it, moves it to another
\* scope or path, or undoes what was written, and no run changes its line.
RowsEndure ==
  [][/\ \A i \in 1..last : Endures(i)
     /\ \A r \in Runs : Born(r) => lineage'[r] = lineage[r]]_vars

\* Whatever a run removes, by path, by pattern or by a move, only its own view of it goes: no
\* other run, parent or fork, loses anything, and no content changes.
RemovalIsPrivate ==
  [][\A r \in Runs : \A i \in view[r] \ view'[r] :
       entry' = entry /\ \A q \in Runs : q # r => view'[q] = view[q]]_vars

\* What a step does to rows and lines: it adds a run, writes a row by an upsert, marks rows that
\* are there, or neither.
LEMMA RowKinds ==
  ASSUME TypeOK, [Next]_vars
  PROVE  \/ \E c \in Runs, L \in SUBSET Runs :
              ~Born(c) /\ lineage' = [lineage EXCEPT ![c] = L] /\ entry' = entry /\ last' = last
         \/ /\ lineage' = lineage
            /\ \/ \E r \in Runs, p \in Paths, i \in Ids : UpsertEntry(i, r, p)
               \/ \E r \in Runs, M \in SUBSET Ids : Edit(r, M)
               \/ entry' = entry /\ last' = last
<1>1. ASSUME NEW r \in Runs, Create(r)
      PROVE  \E c \in Runs, L \in SUBSET Runs :
               ~Born(c) /\ lineage' = [lineage EXCEPT ![c] = L] /\ entry' = entry /\ last' = last
  <2>1. {r} \in SUBSET Runs
    OBVIOUS
  <2> QED BY <1>1, <2>1 DEF Create
<1>2. ASSUME NEW r \in Runs, NEW d \in Runs, Fork(r, d)
      PROVE  \E c \in Runs, L \in SUBSET Runs :
               ~Born(c) /\ lineage' = [lineage EXCEPT ![c] = L] /\ entry' = entry /\ last' = last
  <2>1. lineage[r] \cup {d} \in SUBSET Runs
    BY DEF TypeOK
  <2> QED BY <1>2, <2>1 DEF Fork
<1>3. ASSUME NEW k \in Callers, Set(k)
      PROVE  lineage' = lineage /\ \E r \in Runs, p \in Paths, i \in Ids : UpsertEntry(i, r, p)
  BY <1>3 DEF Set
<1>4. ASSUME NEW k \in Callers, WriteEntry(k)
      PROVE  lineage' = lineage /\ \E r \in Runs, p \in Paths, i \in Ids : UpsertEntry(i, r, p)
  <2>1. task[k].run \in Runs /\ task[k].path \in Paths
    BY <1>4 DEF WriteEntry, TypeOK, Task
  <2> QED BY <1>4, <2>1 DEF WriteEntry
<1>5. ASSUME NEW k \in Callers, NewLog(k) \/ WriteView(k) \/ Copy(k) \/ Move(k) \/ RemoveSource(k)
      PROVE  lineage' = lineage /\ entry' = entry /\ last' = last
  BY <1>5 DEF NewLog, WriteView, Copy, Move, RemoveSource
<1>6. ASSUME NEW r \in Runs, NEW M \in SUBSET Ids, Edit(r, M) PROVE lineage' = lineage
  BY <1>6 DEF Edit
<1>7. ASSUME NEW r \in Runs, NEW M \in SUBSET Ids, Remove(r, M)
      PROVE  lineage' = lineage /\ entry' = entry /\ last' = last
  BY <1>7 DEF Remove
<1>8. CASE Crash \/ UNCHANGED vars
  BY <1>8 DEF Crash, vars
<1> QED BY <1>1, <1>2, <1>3, <1>4, <1>5, <1>6, <1>7, <1>8 DEF Next

LEMMA RowsStep ==
  ASSUME IndInv, [Next]_vars
  PROVE  /\ \A i \in 1..last : Endures(i)
         /\ \A r \in Runs : Born(r) => lineage'[r] = lineage[r]
<1>t. TypeOK /\ last \in 0..MaxEntries
  BY DEF IndInv, TypeOK
<1>1. ASSUME NEW r \in Runs, NEW p \in Paths, NEW i \in Ids, UpsertEntry(i, r, p), NEW j \in 1..last
      PROVE  Endures(j)
  <2>1. CASE j = i
    BY <1>t, <1>1, <2>1, UpsertRow DEF Endures
  <2>2. CASE j # i
    <3>1. last' \in 0..MaxEntries /\ last <= last' /\ entry'[j] = entry[j]
      BY <1>t, <1>1, <2>2, UpsertRow
    <3> QED BY <1>t, <3>1 DEF Endures
  <2> QED BY <2>1, <2>2
<1>2. ASSUME NEW r \in Runs, NEW M \in SUBSET Ids, Edit(r, M), NEW j \in 1..last
      PROVE  Endures(j)
  <2>1. j \in Ids /\ last' = last /\ entry[j] \in Row
    BY <1>t, <1>2 DEF Edit, TypeOK, Ids
  <2>2. entry'[j] = IF j \in M THEN [entry[j] EXCEPT !.marks = @ \cup {<<r, "edit">>}] ELSE entry[j]
    BY <1>2, <2>1 DEF Edit
  <2> QED BY <2>1, <2>2 DEF Row, Endures
<1>3. \A r \in Runs : Born(r) => lineage'[r] = lineage[r]
  BY <1>t, RowKinds DEF TypeOK, Edit
<1>4. entry' = entry /\ last' = last => \A j \in 1..last : Endures(j)
  BY DEF Endures
<1>5. \A j \in 1..last : Endures(j)
  BY <1>t, <1>1, <1>2, <1>4, RowKinds
<1> QED BY <1>3, <1>5

\* Content that runs share is never lost, moved or undone by any of them.
THEOREM RowsStay == Spec => RowsEndure
<1>1. IndInv /\ [Next]_vars
        => [/\ \A i \in 1..last : Endures(i)
            /\ \A r \in Runs : Born(r) => lineage'[r] = lineage[r]]_vars
  BY RowsStep
<1> QED BY <1>1, Inductive, PTL DEF Spec, RowsEndure

\* A step that takes a view from run r is a removal by r.
LEMMA RemovalStep ==
  ASSUME IndInv, [Next]_vars, NEW r \in Runs, NEW i \in view[r], i \notin view'[r]
  PROVE  entry' = entry /\ \A q \in Runs : q # r => view'[q] = view[q]
<1>t. view \in [Runs -> SUBSET (1..last)] /\ \A q \in Runs : ~Born(q) => view[q] = {}
  BY DEF IndInv, TypeOK
<1>1. ASSUME NEW q \in Runs, NEW c \in Runs, Create(q) \/ Fork(q, c) PROVE FALSE
  BY <1>t, <1>1 DEF Create, Fork
<1>2. ASSUME NEW q \in Runs, NEW M \in SUBSET Ids, Edit(q, M) PROVE FALSE
  BY <1>2 DEF Edit
<1>3. ASSUME NEW q \in Runs, NEW M \in SUBSET Ids, Remove(q, M)
      PROVE  entry' = entry /\ \A s \in Runs : s # r => view'[s] = view[s]
  BY <1>t, <1>3 DEF Remove
<1>4. ASSUME NEW k \in Callers, Set(k) \/ NewLog(k) \/ WriteEntry(k) \/ Copy(k) \/ Move(k)
      PROVE  FALSE
  BY <1>4 DEF Set, NewLog, WriteEntry, Copy, Move
<1>5. ASSUME NEW k \in Callers, WriteView(k) PROVE FALSE
  <2>1. view' = [view EXCEPT ![task[k].run] = @ \cup {task[k].id}] \/ view' = view
    BY <1>5 DEF WriteView
  <2> QED BY <1>t, <2>1
<1>6. ASSUME NEW k \in Callers, RemoveSource(k)
      PROVE  entry' = entry /\ \A s \in Runs : s # r => view'[s] = view[s]
  <2>1. /\ entry' = entry
        /\ \/ \E j : view' = [view EXCEPT ![task[k].run] = @ \ {j}]
           \/ view' = view
    BY <1>6 DEF RemoveSource
  <2> QED BY <1>t, <2>1
<1>7. CASE Crash \/ UNCHANGED vars
  BY <1>7 DEF Crash, vars
<1>8. CASE \E q \in Runs : Create(q) \/ \E c \in Runs : Fork(q, c)
  BY <1>1, <1>8
<1> QED BY <1>2, <1>3, <1>4, <1>5, <1>6, <1>7, <1>8 DEF Next

\* No run's removal is seen by another.
THEOREM RemovalsArePrivate == Spec => RemovalIsPrivate
<1>1. IndInv /\ [Next]_vars
        => [\A r \in Runs : \A i \in view[r] \ view'[r] :
              entry' = entry /\ \A q \in Runs : q # r => view'[q] = view[q]]_vars
  BY RemovalStep
<1> QED BY <1>1, Inductive, PTL DEF Spec, RemovalIsPrivate

\* Every line is finite: it grows by one run with each fork.
LEMMA FiniteLines == Spec => [](\A r \in Runs : IsFiniteSet(lineage[r]))
<1> DEFINE Finite == \A r \in Runs : IsFiniteSet(lineage[r])
<1>1. Init => Finite
  BY FS_EmptySet DEF Init
<1>2. IndInv /\ Finite /\ [Next]_vars => Finite'
  <2> SUFFICES ASSUME IndInv, Finite, [Next]_vars, NEW q \in Runs PROVE IsFiniteSet(lineage'[q])
    OBVIOUS
  <2>t. lineage \in [Runs -> SUBSET Runs]
    BY DEF IndInv, TypeOK
  <2>1. ASSUME NEW r \in Runs, Create(r) PROVE IsFiniteSet(lineage'[q])
    <3>1. IsFiniteSet({r})
      BY FS_Singleton
    <3> QED BY <2>t, <2>1, <3>1 DEF Create
  <2>2. ASSUME NEW r \in Runs, NEW c \in Runs, Fork(r, c) PROVE IsFiniteSet(lineage'[q])
    <3>1. IsFiniteSet(lineage[r] \cup {c})
      BY FS_AddElement
    <3> QED BY <2>t, <2>2, <3>1 DEF Fork
  <2>3. CASE lineage' = lineage
    BY <2>3
  <2>4. CASE \E r \in Runs : Create(r) \/ \E c \in Runs : Fork(r, c)
    BY <2>1, <2>2, <2>4
  <2>5. \/ \E r \in Runs : Create(r) \/ \E c \in Runs : Fork(r, c)
        \/ lineage' = lineage
    BY DEF Next, Edit, Remove, Set, NewLog, WriteEntry, WriteView, Copy, Move, RemoveSource,
           Crash, vars
  <2> QED BY <2>3, <2>4, <2>5
<1> QED BY <1>1, <1>2, Inductive, PTL DEF Spec

\* However deep a tree of forks grows, a path has no more entries in a run than the run has
\* ancestors, itself included.
THEOREM PathsAreBounded == Spec => []PathsBounded
<1>1. IndInv /\ (\A r \in Runs : IsFiniteSet(lineage[r])) => PathsBounded
  <2> SUFFICES ASSUME IndInv, NEW r \in Runs, IsFiniteSet(lineage[r]), NEW p \in Paths
               PROVE  Cardinality(At(r, p)) <= Cardinality(lineage[r])
    BY DEF PathsBounded
  <2> DEFINE scope == [i \in At(r, p) |-> entry[i].scope]
  <2>1. \A i \in At(r, p) : /\ i \in 1..last /\ entry[i].path = p
                            /\ entry[i].scope \in lineage[r]
    BY DEF At, IndInv, TypeOK, ViewsInv
  <2>2. \A i, j \in At(r, p) : entry[i].scope = entry[j].scope => i = j
    BY <2>1 DEF IndInv, UniqueInv
  <2>3. scope \in Injection(At(r, p), lineage[r])
    BY <2>1, <2>2 DEF Injection, IsInjective
  <2> HIDE DEF scope
  <2> QED BY <2>3, FS_Injection
<1> QED BY <1>1, Inductive, FiniteLines, PTL
=============================================================================
