----------------------------- MODULE UpdaterProofs -----------------------------
(***************************************************************************)
(* Theorems about module Updater, for any binaries, versions and bounds: a  *)
(* file that was swapped in is whole, an install that fails leaves the      *)
(* binary it found, a unit runs the installed binary between jobs, and a    *)
(* binary to run or to roll back to is never lost.                          *)
(***************************************************************************)
EXTENDS Updater, TLAPS

\* The files of a component, and the lists of files a task still has to do.
FileSet(c) == IF c = "geodata" THEN GeoFiles ELSE {c}
Both == <<"geoip", "geosite">>
Second == <<"geosite">>
Todos == {<<>>, Both, Second} \cup {<<b>> : b \in Binaries}
TaskRec == [comp : Components, act : Actions, ver : Versions \cup {None}, todo : Todos, step : Steps]

Early == {"fetch", "open", "close", "drop", "stash", "place", "back"}
Copying == {"copy", "copied"}
Late == {"state", "restart", "settle", "restore", "again", "bounce"}

\* What a task at a step has to do, and with which version.
Shape(t) ==
    /\ t.step \in Early => t.todo \in IF t.comp = "geodata" THEN {Both, Second} ELSE {<<t.comp>>}
    /\ t.step \in Copying => t.comp \in Binaries /\ t.todo \in {Both, Second}
    /\ t.step \in {"keep", "label"} => t.comp = "geodata"
    /\ t.step \in Late => t.comp \in Binaries
    /\ t.step \in {"back", "bounce"} => t.act = "rollback"
    /\ t.act = "rollback" => t.step \in {"back", "bounce", "label"}
    /\ t.act # "rollback" => t.ver \in Versions

Slots == [Files -> File \cup {None}]

Typed ==
    /\ cur \in Slots /\ new \in Slots /\ prev \in Slots
    /\ label \in Versions \cup {None, Empty} /\ oldLabel \in Versions \cup {None, Empty}
    /\ unit \in [Binaries -> Versions \cup {None}]
    /\ collided \subseteq Components /\ loose \subseteq Binaries
    /\ tasks \in 0 .. MaxTasks /\ faults \in 0 .. MaxFaults /\ crashes \in 0 .. MaxCrashes

TasksTyped ==
    /\ task \in [Procs -> TaskRec \cup {None}]
    /\ \A p \in Procs : task[p] # None =>
        /\ Shape(task[p])
        /\ p = "seed" <=> task[p].act = "seed"

Results == {"succeeded", "restored", "stuck", "gone", "failed"}
USE DEF Results

\* The process of p works on component c.
Owner(p, c) == task[p] # None /\ task[p].comp = c

\* The job that runs is the one the table says is running.
JobsOK ==
    /\ jobs \in [Components -> Job \cup {None}]
    /\ \A c \in Components : (jobs[c] # None /\ jobs[c].state = "running") <=> Owner("job", c)

TInv == Typed /\ TasksTyped /\ JobsOK

-------------------------------------------------------------------------------
(* The lists of files. *)

\* The first and the rest of every list a task can have.
LEMMA Lists ==
    /\ Head(Both) = "geoip" /\ Tail(Both) = Second /\ Len(Both) = 2 /\ Both # <<>>
    /\ Head(Second) = "geosite" /\ Tail(Second) = <<>> /\ Len(Second) = 1 /\ Second # <<>>
    /\ \A b \in Binaries : Head(<<b>>) = b /\ Tail(<<b>>) = <<>> /\ Len(<<b>>) = 1 /\ <<b>> # <<>>
BY DEF Both, Second

\* FilesOf lists the files of the component.
LEMMA FilesOfFacts ==
    ASSUME NEW c \in Components
    PROVE  /\ Range(FilesOf(c)) = FileSet(c)
           /\ FileSet(c) \subseteq Files
           /\ FilesOf(c) = IF c = "geodata" THEN Both ELSE <<c>>
           /\ FilesOf(c) \in Todos
<1>1. Range(<<c>>) = {c}
  BY DEF Range
<1>2. Range(Both) = GeoFiles
  <2>1. DOMAIN Both = {1, 2} /\ Both[1] = "geoip" /\ Both[2] = "geosite"
    BY DEF Both
  <2> QED BY <2>1 DEF Range, GeoFiles
<1>3. FilesOf(c) = IF c = "geodata" THEN Both ELSE <<c>>
  BY DEF FilesOf, Both
<1> QED BY <1>1, <1>2, <1>3 DEF FileSet, Files, Components, Todos

\* No None among the tasks, the jobs and the files; the lists are sequences.
LEMMA NoneIsNoRecord == None \notin TaskRec /\ None \notin Job /\ None \notin File /\ TaskRec \subseteq Task
<1>1. Todos \subseteq Seq(Files)
  <2>1. "geoip" \in Files /\ "geosite" \in Files /\ Binaries \subseteq Files
    BY DEF Files, GeoFiles
  <2>2. Both \in Seq(Files) /\ Second \in Seq(Files) /\ <<>> \in Seq(Files)
    BY <2>1 DEF Both, Second
  <2>3. \A b \in Binaries : <<b>> \in Seq(Files)
    BY <2>1
  <2> QED BY <2>2, <2>3 DEF Todos
<1>2. TaskRec \subseteq Task
  BY <1>1 DEF TaskRec, Task
<1> QED BY <1>2, NoRecordAssumption

\* A file being worked on is one of the component's, or one of the geodata's
\* that a job of Xray copies.
LEMMA FirstFile ==
    ASSUME NEW t \in TaskRec, Shape(t)
    PROVE  /\ t.step \in Early => Head(t.todo) \in FileSet(t.comp) /\ t.todo # <<>>
           /\ t.step \in Early /\ t.comp \in Binaries => Head(t.todo) = t.comp /\ Tail(t.todo) = <<>> /\ Len(t.todo) = 1
           /\ t.step \in Copying => Head(t.todo) \in GeoFiles /\ t.todo # <<>> /\ t.comp \in Binaries
           /\ t.step \in Early \cup Copying => Head(t.todo) \in Files
<1>1. t.comp \in Components /\ FileSet(t.comp) \subseteq Files /\ GeoFiles \subseteq Files
  BY FilesOfFacts DEF TaskRec, Files
<1>2. "geodata" \notin Binaries
  BY UpdaterAssumption
<1>3. CASE t.step \in Early
  <2>1. CASE t.comp = "geodata"
    BY <1>1, <1>2, <1>3, <2>1, Lists DEF Shape, FileSet, GeoFiles, Early, Copying
  <2>2. CASE t.comp # "geodata"
    <3>1. t.comp \in Binaries /\ t.todo = <<t.comp>>
      BY <1>1, <1>3, <2>2 DEF Shape, Components
    <3> QED BY <1>1, <1>3, <2>2, <3>1, Lists DEF FileSet, Early, Copying
  <2> QED BY <2>1, <2>2
<1>4. CASE t.step \in Copying
  BY <1>1, <1>4, Lists DEF Shape, GeoFiles, Early, Copying
<1> QED BY <1>1, <1>3, <1>4

-------------------------------------------------------------------------------
(* What a step does to the task of its process. *)

Others(p) == \A q \in Procs : q # p => task'[q] = task[q]

\* The task of p, that was t, becomes u, for the same component.
Becomes(p, t, u) ==
    /\ Others(p)
    /\ task[p] = t /\ t \in TaskRec /\ t # None /\ Shape(t)
    /\ task'[p] = u /\ u \in TaskRec /\ u # None /\ Shape(u)
    /\ u.comp = t.comp /\ u.act = t.act /\ u.ver = t.ver

\* The task of p, that was t, ends.
Ends(p, t) ==
    /\ Others(p)
    /\ task[p] = t /\ t \in TaskRec /\ t # None /\ Shape(t)
    /\ task'[p] = None

\* A process at a step has a task.
LEMMA AtFacts ==
    ASSUME TasksTyped, NEW p \in Procs, NEW s, At(p, s)
    PROVE  \E t \in TaskRec : /\ t = task[p] /\ t # None /\ t.step = s /\ Shape(t)
                              /\ p = "seed" <=> t.act = "seed"
BY NoneIsNoRecord DEF TasksTyped, At

\* A task that goes on for its component keeps the types and the table true.
LEMMA BecomesFacts ==
    ASSUME TasksTyped, JobsOK, NEW p \in Procs, NEW t, NEW u, task[p] = t, t # None,
           u \in TaskRec, Shape(u), u.comp = t.comp, u.act = t.act, u.ver = t.ver,
           task' = [task EXCEPT ![p] = u], jobs' = jobs
    PROVE  TasksTyped' /\ JobsOK' /\ Becomes(p, t, u)
<1>1. t \in TaskRec /\ Shape(t) /\ u # None
  BY NoneIsNoRecord DEF TasksTyped
<1>2. task'[p] = u /\ Others(p) /\ task' \in [Procs -> TaskRec \cup {None}]
  BY DEF TasksTyped, Others
<1>3. TasksTyped'
  BY <1>2 DEF TasksTyped, Others
<1>4. \A q \in Procs, c \in Components : Owner(q, c)' <=> Owner(q, c)
  BY <1>1, <1>2 DEF Owner, Others
<1>5. JobsOK'
  BY <1>4 DEF JobsOK, Procs
<1> QED BY <1>1, <1>2, <1>3, <1>5 DEF Becomes

\* So does one that goes to another step with the list it has.
LEMMA GotoFacts ==
    ASSUME TasksTyped, JobsOK, NEW p \in Procs, NEW t \in TaskRec, task[p] = t, t # None,
           NEW s \in Steps, Shape([t EXCEPT !.step = s]), Goto(p, s), jobs' = jobs
    PROVE  /\ TasksTyped' /\ JobsOK'
           /\ Becomes(p, t, [t EXCEPT !.step = s])
<1>1. PICK u : u = [t EXCEPT !.step = s]
  OBVIOUS
<1>2. u \in TaskRec /\ u.comp = t.comp /\ u.act = t.act /\ u.ver = t.ver /\ Shape(u)
  BY <1>1 DEF TaskRec
<1>3. task' = [task EXCEPT ![p] = u]
  BY <1>1 DEF Goto, TasksTyped
<1>4. TasksTyped' /\ JobsOK' /\ Becomes(p, t, u)
  BY <1>2, <1>3, BecomesFacts
<1> QED BY <1>1, <1>4

\* A task that ends leaves its result, when it was a job.
LEMMA FinishFacts ==
    ASSUME TasksTyped, JobsOK, NEW p \in Procs, NEW t \in TaskRec, task[p] = t, t # None,
           NEW r \in Results, Finish(p, r)
    PROVE  /\ TasksTyped' /\ JobsOK' /\ Ends(p, t)
           /\ p = "job" => \E j \in Job : /\ j = jobs[t.comp]
                                          /\ jobs' = [jobs EXCEPT ![t.comp] =
                                                [state |-> r, before |-> IF r = "succeeded" THEN None ELSE j.before]]
           /\ p # "job" => jobs' = jobs
<1>1. t \in TaskRec /\ Shape(t) /\ t.comp \in Components
  BY DEF TasksTyped, TaskRec
<1>2. task'[p] = None /\ Others(p) /\ task' \in [Procs -> TaskRec \cup {None}]
  BY DEF TasksTyped, Others, Finish
<1>3. TasksTyped'
  BY <1>2 DEF TasksTyped, Others
<1>4. ASSUME p = "job"
      PROVE  /\ JobsOK'
             /\ \E j \in Job : /\ j = jobs[t.comp]
                               /\ jobs' = [jobs EXCEPT ![t.comp] =
                                     [state |-> r, before |-> IF r = "succeeded" THEN None ELSE j.before]]
  <2>1. PICK j : j = jobs[t.comp]
    OBVIOUS
  <2>2. j \in Job
    BY <1>1, <1>4, <2>1 DEF JobsOK, Owner
  <2>3. PICK k : k = [state |-> r, before |-> IF r = "succeeded" THEN None ELSE j.before]
    OBVIOUS
  <2>4. jobs' = [jobs EXCEPT ![t.comp] = k]
    BY <1>4, <2>1, <2>3 DEF Finish, Comp, JobsOK
  <2>5. k \in Job /\ k.state # "running"
    BY <2>2, <2>3 DEF Job
  <2>6. \A c \in Components : Owner("job", c) <=> c = t.comp
    BY <1>4 DEF Owner
  <2>7. \A c \in Components : ~ Owner("job", c)'
    BY <1>2, <1>4 DEF Owner
  <2>8. JobsOK'
    BY <1>1, <2>4, <2>5, <2>6, <2>7 DEF JobsOK
  <2> QED BY <2>1, <2>2, <2>3, <2>4, <2>8
<1>5. ASSUME p # "job" PROVE JobsOK' /\ jobs' = jobs
  <2>1. jobs' = jobs /\ task'["job"] = task["job"]
    BY <1>2, <1>5 DEF Finish, Others, Procs
  <2> QED BY <2>1 DEF JobsOK, Owner
<1> QED BY <1>1, <1>2, <1>3, <1>4, <1>5 DEF Ends

\* The steps that Goto joins.
Edges ==
    {<<"fetch", "open">>, <<"open", "close">>, <<"close", "drop">>, <<"drop", "place">>,
     <<"drop", "stash">>, <<"stash", "place">>, <<"copy", "copied">>, <<"keep", "label">>,
     <<"state", "restart">>, <<"restart", "settle">>, <<"restart", "restore">>,
     <<"settle", "restore">>, <<"restore", "again">>}

\* p goes on from its task t to step s, with the list it has.
GoesOn(p, t, u, s) == Becomes(p, t, u) /\ u.step = s /\ u.todo = t.todo

\* Each of them is a step of one and the same list.
LEMMA EdgeFacts ==
    ASSUME TasksTyped, JobsOK, NEW p \in Procs, NEW s, NEW r, <<s, r>> \in Edges,
           At(p, s), Goto(p, r), jobs' = jobs
    PROVE  /\ TasksTyped' /\ JobsOK'
           /\ \E t, u \in TaskRec : GoesOn(p, t, u, r) /\ t.step = s
<1>1. PICK t \in TaskRec : t = task[p] /\ t # None /\ t.step = s /\ Shape(t)
  BY AtFacts
<1>2. r \in Steps
  BY DEF Edges, Steps
<1>3. PICK u : u = [t EXCEPT !.step = r]
  OBVIOUS
<1>4. u \in TaskRec /\ u.step = r /\ u.todo = t.todo /\ u.comp = t.comp /\ u.act = t.act /\ u.ver = t.ver
  BY <1>2, <1>3 DEF TaskRec
<1>5. Shape(u)
  BY <1>1, <1>4 DEF Shape, Edges, Early, Copying, Late
<1>6. Shape([t EXCEPT !.step = r])
  BY <1>3, <1>5
<1>7. TasksTyped' /\ JobsOK' /\ Becomes(p, t, [t EXCEPT !.step = r])
  BY <1>1, <1>2, <1>6, GotoFacts
<1> QED BY <1>1, <1>3, <1>4, <1>7 DEF GoesOn

\* The end of a task at a step.
LEMMA EndFacts ==
    ASSUME TasksTyped, JobsOK, NEW p \in Procs, NEW s, At(p, s),
           NEW r \in Results, Finish(p, r)
    PROVE  /\ TasksTyped' /\ JobsOK'
           /\ \E t \in TaskRec :
                /\ Ends(p, t) /\ t.step = s
                /\ p = "job" => \E j \in Job : /\ j = jobs[t.comp]
                                               /\ jobs' = [jobs EXCEPT ![t.comp] =
                                                     [state |-> r, before |-> IF r = "succeeded" THEN None ELSE j.before]]
                /\ p # "job" => jobs' = jobs
<1>1. PICK t \in TaskRec : t = task[p] /\ t # None /\ t.step = s /\ Shape(t)
  BY AtFacts
<1> QED BY <1>1, FinishFacts

-------------------------------------------------------------------------------
(* What a step does to the files. *)

\* The operations on a name keep the types.
LEMMA SlotFacts ==
    ASSUME NEW g \in Slots
    PROVE  /\ \A f \in Files, x \in File \cup {None} : [g EXCEPT ![f] = x] \in Slots
           /\ \A p \in Procs : ClosedBy(g, p) \in Slots
           /\ Abandoned(g) \in Slots
<1>1. ASSUME NEW f \in Files PROVE g[f] \in File \cup {None}
  BY DEF Slots
<1>2. ASSUME NEW r \in File, NEW W \in SUBSET Procs PROVE [r EXCEPT !.writers = W] \in File
  BY <1>2 DEF File
<1>3. ASSUME NEW p \in Procs PROVE ClosedBy(g, p) \in Slots
  <2>1. ASSUME NEW f \in Files, g[f] # None PROVE [g[f] EXCEPT !.writers = @ \ {p}] \in File
    <3>1. PICK r \in File : r = g[f]
      BY <1>1, <2>1
    <3>2. r.writers \ {p} \in SUBSET Procs
      BY DEF File
    <3> QED BY <1>2, <3>1, <3>2
  <2> QED BY <2>1 DEF ClosedBy, Slots
<1>4. Abandoned(g) \in Slots
  <2>1. ASSUME NEW f \in Files, g[f] # None
        PROVE [g[f] EXCEPT !.writers = {}, !.torn = TRUE] \in File
    <3>1. PICK r \in File : r = g[f]
      BY <1>1, <2>1
    <3>2. [r EXCEPT !.writers = {}, !.torn = TRUE] \in File
      BY DEF File
    <3> QED BY <3>1, <3>2
  <2> QED BY <1>1, <2>1 DEF Abandoned, Slots
<1> QED BY <1>3, <1>4 DEF Slots

\* A file that p does not write is left alone when p closes what it writes.
LEMMA ClosedKeeps ==
    ASSUME NEW g \in Slots, NEW p \in Procs, NEW f \in Files
    PROVE  /\ g[f] = None => ClosedBy(g, p)[f] = None
           /\ g[f] # None /\ p \notin g[f].writers => ClosedBy(g, p)[f] = g[f]
           /\ g[f] # None => \E r, w \in File : /\ r = g[f] /\ w = ClosedBy(g, p)[f]
                                                /\ w.ver = r.ver /\ w.how = r.how /\ (w.torn <=> r.torn)
                                                /\ w.writers = r.writers \ {p}
<1>1. CASE g[f] = None
  BY <1>1 DEF ClosedBy
<1>2. CASE g[f] # None
  <2>1. PICK r \in File : r = g[f]
    BY <1>2 DEF Slots
  <2>2. PICK w : w = [r EXCEPT !.writers = r.writers \ {p}]
    OBVIOUS
  <2>3. ClosedBy(g, p)[f] = w
    BY <1>2, <2>1, <2>2 DEF ClosedBy
  <2>4. w \in File /\ w.ver = r.ver /\ w.how = r.how /\ w.torn = r.torn /\ w.writers = r.writers \ {p}
    BY <2>2 DEF File
  <2>5. ASSUME p \notin r.writers PROVE w = r
    <3>1. r.writers \ {p} = r.writers
      BY <2>5
    <3> QED BY <2>2, <3>1 DEF File
  <2> QED BY <1>2, <2>1, <2>3, <2>4, <2>5
<1> QED BY <1>1, <1>2

\* A file opened by p for its task.
LEMMA OpenedFacts ==
    ASSUME NEW p \in Procs, NEW x \in File \cup {None}, task[p].ver \in Versions,
           NEW how \in {"swap", "copy"}
    PROVE  LET w == Opened(x, p, how)
           IN  /\ w \in File /\ w # None /\ w.how = how /\ w.ver = task[p].ver
               /\ w.writers = IF x = None THEN {p} ELSE x.writers \cup {p}
               /\ (x = None \/ x.writers = {}) => ~w.torn
<1>1. PICK v \in Versions : v = task[p].ver
  OBVIOUS
<1>2. PICK W : W = IF x = None THEN {p} ELSE x.writers \cup {p}
  OBVIOUS
<1>3. W \in SUBSET Procs
  <2>1. x # None => x.writers \subseteq Procs
    BY DEF File
  <2> QED BY <1>2, <2>1
<1>4. PICK b \in BOOLEAN : b = (x # None /\ x.writers # {} /\ (x.torn \/ x.ver # v))
  OBVIOUS
<1>5. PICK w : w = [ver |-> v, how |-> how, writers |-> W, torn |-> b]
  OBVIOUS
<1>6. w = Opened(x, p, how)
  BY <1>1, <1>2, <1>4, <1>5 DEF Opened
<1>7. w \in File /\ w.how = how /\ w.ver = v /\ w.writers = W /\ w.torn = b
  BY <1>3, <1>5 DEF File
<1> QED BY <1>1, <1>2, <1>4, <1>6, <1>7, NoneIsNoRecord

-------------------------------------------------------------------------------
(* The steps that change the list of files. *)

\* After a file the task goes on with the next one, or with what follows.
LEMMA AfterFileFacts ==
    ASSUME TasksTyped, JobsOK, NEW p \in Procs, At(p, "place"), AfterFile(p), jobs' = jobs
    PROVE  /\ TasksTyped' /\ JobsOK'
           /\ \E t, u \in TaskRec :
                /\ Becomes(p, t, u) /\ t.step = "place"
                /\ u.step \in {"open", "copy", "state", "keep", "label"}
                /\ t.comp \in Binaries => u.step \in {"copy", "state"}
<1>1. PICK t \in TaskRec : /\ t = task[p] /\ t # None /\ t.step = "place" /\ Shape(t)
                           /\ p = "seed" <=> t.act = "seed"
  BY AtFacts
<1>2. t.act # "rollback" /\ t.ver \in Versions /\ t.comp \in Components
  BY <1>1 DEF Shape, TaskRec
<1>3. t.comp = "geodata" => t.todo = Both \/ t.todo = Second
  BY <1>1 DEF Shape, Early
<1>4. t.comp # "geodata" => t.comp \in Binaries /\ t.todo = <<t.comp>>
  BY <1>1, <1>2 DEF Shape, Early, Components
<1>5. "geodata" \notin Binaries /\ Xray \in Binaries
  BY UpdaterAssumption
<1> DEFINE rest == Tail(t.todo)
           ships == t.comp = Xray /\ t.act = "update" /\ cur["geosite"] = None
           next == [t EXCEPT !.todo = rest, !.step = "open"]
           geo == [t EXCEPT !.todo = rest, !.step = IF t.act = "update" THEN "keep" ELSE "label"]
           copy == [t EXCEPT !.todo = FilesOf("geodata"), !.step = "copy"]
           run == [t EXCEPT !.todo = rest, !.step = "state"]
           w == CASE rest # <<>> -> next
                  [] rest = <<>> /\ t.comp = "geodata" -> geo
                  [] rest = <<>> /\ ships -> copy
                  [] OTHER -> run
<1>6. PICK u : u = w
  OBVIOUS
<1>7. task' = [task EXCEPT ![p] = u]
  BY <1>1, <1>6 DEF AfterFile, Comp, TasksTyped
<1>8. Second \in Todos /\ <<>> \in Todos /\ Both \in Todos /\ FilesOf("geodata") = Both
  BY DEF Todos, FilesOf, Both
<1>9. /\ u \in TaskRec /\ u.comp = t.comp /\ u.act = t.act /\ u.ver = t.ver /\ Shape(u)
      /\ u.step \in {"open", "copy", "state", "keep", "label"}
      /\ t.comp \in Binaries => u.step \in {"copy", "state"}
  <2>1. CASE t.comp = "geodata" /\ t.todo = Both
    <3>1. u = [t EXCEPT !.todo = Second, !.step = "open"]
      BY <1>6, <2>1, Lists
    <3>2. u \in TaskRec /\ u.comp = t.comp /\ u.act = t.act /\ u.ver = t.ver /\ u.step = "open" /\ u.todo = Second
      BY <1>8, <3>1 DEF TaskRec, Steps
    <3> QED BY <1>1, <1>2, <1>5, <2>1, <3>2 DEF Shape, Early, Copying, Late
  <2>2. CASE t.comp = "geodata" /\ t.todo = Second
    <3>1. rest = <<>>
      BY <2>2, Lists
    <3>2. PICK s \in {"keep", "label"} : u = [t EXCEPT !.todo = rest, !.step = s]
      <4> HIDE DEF next, geo, copy, run, rest, ships
      <4>1. u = geo
        <5>1. ~ships
          BY <1>5, <2>2 DEF ships
        <5> QED BY <1>6, <2>2, <3>1, <5>1
      <4>2. geo = [t EXCEPT !.todo = rest, !.step = IF t.act = "update" THEN "keep" ELSE "label"]
        BY DEF geo
      <4> QED BY <4>1, <4>2
    <3>3. /\ u \in TaskRec /\ u.comp = t.comp /\ u.act = t.act /\ u.ver = t.ver
          /\ u.step \in {"keep", "label"} /\ u.todo = <<>>
      BY <1>8, <3>1, <3>2 DEF TaskRec, Steps
    <3> QED BY <1>1, <1>2, <1>5, <2>2, <3>3 DEF Shape, Early, Copying, Late
  <2>3. CASE t.comp # "geodata" /\ ships
    <3>1. u = [t EXCEPT !.todo = Both, !.step = "copy"]
      BY <1>4, <1>6, <1>8, <2>3, Lists
    <3>2. u \in TaskRec /\ u.comp = t.comp /\ u.act = t.act /\ u.ver = t.ver /\ u.step = "copy" /\ u.todo = Both
      BY <1>8, <3>1 DEF TaskRec, Steps
    <3> QED BY <1>1, <1>2, <1>4, <2>3, <3>2 DEF Shape, Early, Copying, Late
  <2>4. CASE t.comp # "geodata" /\ ~ships
    <3>1. u = [t EXCEPT !.todo = <<>>, !.step = "state"]
      BY <1>4, <1>6, <2>4, Lists
    <3>2. u \in TaskRec /\ u.comp = t.comp /\ u.act = t.act /\ u.ver = t.ver /\ u.step = "state" /\ u.todo = <<>>
      BY <1>8, <3>1 DEF TaskRec, Steps
    <3> QED BY <1>1, <1>2, <1>4, <2>4, <3>2 DEF Shape, Early, Copying, Late
  <2> QED BY <1>3, <2>1, <2>2, <2>3, <2>4
<1> HIDE DEF next, geo, copy, run, rest, ships, w
<1> QED BY <1>1, <1>7, <1>9, BecomesFacts

\* After a copy the task copies the next file or goes on to the unit.
LEMMA AfterCopyFacts ==
    ASSUME TasksTyped, JobsOK, NEW p \in Procs, At(p, "copied"), AfterCopy(p), jobs' = jobs
    PROVE  /\ TasksTyped' /\ JobsOK'
           /\ \E t, u \in TaskRec :
                /\ Becomes(p, t, u) /\ t.step = "copied" /\ t.comp \in Binaries
                /\ u.step \in {"copy", "state"}
<1>1. PICK t \in TaskRec : /\ t = task[p] /\ t # None /\ t.step = "copied" /\ Shape(t)
                           /\ p = "seed" <=> t.act = "seed"
  BY AtFacts
<1>2. t.comp \in Binaries /\ t.todo \in {Both, Second} /\ t.act # "rollback" /\ t.ver \in Versions
  BY <1>1 DEF Shape, Copying
<1>3. PICK s : s = IF Len(t.todo) > 1 THEN "copy" ELSE "state"
  OBVIOUS
<1>4. PICK r : r = Tail(t.todo)
  OBVIOUS
<1>5. r \in Todos /\ ((s = "copy" /\ r = Second) \/ (s = "state" /\ r = <<>>))
  BY <1>2, <1>3, <1>4, Lists DEF Todos
<1>6. PICK u : u = [t EXCEPT !.todo = r, !.step = s]
  OBVIOUS
<1>7. u \in TaskRec /\ u.comp = t.comp /\ u.act = t.act /\ u.ver = t.ver /\ u.todo = r /\ u.step = s
  BY <1>5, <1>6 DEF TaskRec, Steps
<1>8. task' = [task EXCEPT ![p] = u]
  BY <1>1, <1>3, <1>4, <1>6 DEF AfterCopy, TasksTyped
<1>9. Shape(u)
  BY <1>2, <1>5, <1>7 DEF Shape, Early, Copying, Late
<1> QED BY <1>1, <1>2, <1>5, <1>7, <1>8, <1>9, BecomesFacts

\* A rollback takes the next file, then the label or the unit.
LEMMA RollbackFacts ==
    ASSUME TasksTyped, JobsOK, NEW p \in Procs, Rollback(p)
    PROVE  /\ TasksTyped' /\ JobsOK'
           /\ \E t, u \in TaskRec :
                /\ Becomes(p, t, u) /\ t.step = "back"
                /\ u.step \in {"back", "label", "bounce"}
                /\ t.comp \in Binaries => u.step = "bounce"
<1>1. PICK t \in TaskRec : /\ t = task[p] /\ t # None /\ t.step = "back" /\ Shape(t)
                           /\ p = "seed" <=> t.act = "seed"
  BY AtFacts DEF Rollback
<1>2. t.act = "rollback" /\ t.comp \in Components
  BY <1>1 DEF Shape, TaskRec
<1>3. \/ t.comp = "geodata" /\ t.todo \in {Both, Second}
      \/ t.comp \in Binaries /\ t.comp # "geodata" /\ t.todo = <<t.comp>>
  BY <1>1, <1>2 DEF Shape, Early, Components
<1>4. PICK s : s = CASE Len(t.todo) > 1 -> "back"
                     [] Len(t.todo) = 1 /\ t.comp = "geodata" -> "label"
                     [] OTHER -> "bounce"
  OBVIOUS
<1>5. PICK r : r = Tail(t.todo)
  OBVIOUS
<1>6. /\ r \in Todos
      /\ \/ s = "back" /\ r = Second /\ t.comp = "geodata"
         \/ s = "label" /\ r = <<>> /\ t.comp = "geodata"
         \/ s = "bounce" /\ r = <<>> /\ t.comp \in Binaries
  BY <1>3, <1>4, <1>5, Lists DEF Todos
<1>7. PICK u : u = [t EXCEPT !.todo = r, !.step = s]
  OBVIOUS
<1>8. u \in TaskRec /\ u.comp = t.comp /\ u.act = t.act /\ u.ver = t.ver /\ u.todo = r /\ u.step = s
  BY <1>6, <1>7 DEF TaskRec, Steps
<1>9. task' = [task EXCEPT ![p] = u] /\ jobs' = jobs
  <2>1. task' = [task EXCEPT ![p].todo = Tail(@), ![p].step = s] /\ jobs' = jobs
    BY <1>1, <1>4, Zenon DEF Rollback, Comp
  <2> QED BY <1>1, <1>5, <1>7, <2>1 DEF TasksTyped
<1>10. Shape(u)
  BY <1>2, <1>6, <1>8 DEF Shape, Early, Copying, Late
<1>11. "geodata" \notin Binaries
  BY UpdaterAssumption
<1> QED BY <1>1, <1>2, <1>6, <1>8, <1>9, <1>10, <1>11, BecomesFacts

-------------------------------------------------------------------------------
(* The types, the tasks and the table of jobs. *)

\* The file at hand of a task that opens, closes, moves or copies one, and the
\* version of a task that writes.
LEMMA Working ==
    ASSUME TInv, NEW p \in Procs, NEW s \in Steps, At(p, s)
    PROVE  /\ s \in Early \cup Copying => F(p) \in Files
           /\ s \in Late => Comp(p) \in Binaries
           /\ Comp(p) \in Components
           /\ s \notin {"back", "bounce", "label"} => task[p].ver \in Versions
           /\ task[p].act # "rollback" => task[p].ver \in Versions
<1>1. PICK t \in TaskRec : /\ t = task[p] /\ t # None /\ t.step = s /\ Shape(t)
                           /\ p = "seed" <=> t.act = "seed"
  BY AtFacts DEF TInv
<1> QED BY <1>1, FirstFile DEF Comp, F, Shape, TaskRec, Late

\* The counters of the bounds.
LEMMA FaultFacts ==
    ASSUME Typed, Fault \/ UNCHANGED bounds
    PROVE  tasks' \in 0 .. MaxTasks /\ faults' \in 0 .. MaxFaults /\ crashes' \in 0 .. MaxCrashes
<1>1. faults \in Nat /\ MaxFaults \in Nat
  BY UpdaterAssumption DEF Typed
<1> QED BY <1>1 DEF Typed, Fault, bounds

\* Moving f.prev back keeps the types.
LEMMA MoveBackTyped ==
    ASSUME Typed, NEW f \in Files, MoveBack(f)
    PROVE  cur' \in Slots /\ prev' \in Slots
<1>1. prev[f] \in File \cup {None}
  BY DEF Typed, Slots
<1> QED BY <1>1, SlotFacts DEF Typed, MoveBack

\* A unit that is restarted runs a version or nothing.
LEMMA RunsTyped ==
    ASSUME Typed, NEW b \in Binaries
    PROVE  Runs(b) \in Versions \cup {None}
<1>1. b \in Files
  BY DEF Files
<1>2. cur[b] # None => cur[b] \in File
  BY <1>1 DEF Typed, Slots
<1> QED BY <1>2 DEF Runs, Whole, Complete, File

\* What a failed restart leaves has the types.
LEMMA RestartFailsTyped ==
    ASSUME Typed, NEW b \in Binaries, RestartFails(b)
    PROVE  /\ unit' \in [Binaries -> Versions \cup {None}] /\ loose' \subseteq Binaries
           /\ tasks' \in 0 .. MaxTasks /\ faults' \in 0 .. MaxFaults /\ crashes' \in 0 .. MaxCrashes
<1>1. PICK v \in {None, unit[b], Runs(b)} : unit' = [unit EXCEPT ![b] = v]
  BY DEF RestartFails
<1>2. v \in Versions \cup {None}
  BY RunsTyped DEF Typed
<1> QED BY <1>1, <1>2, FaultFacts DEF RestartFails, Typed

\* SwapFile keeps the types.
LEMMA SwapTyped ==
    ASSUME TInv, NEW p \in Procs, Swap(p)
    PROVE  TInv'
<1> USE DEF TInv
<1>1. CASE Fetch(p)
  <2>1. TasksTyped' /\ JobsOK'
    BY <1>1, EdgeFacts DEF Fetch, Edges
  <2> QED BY <1>1, <2>1 DEF Fetch, Typed, files, labels, bounds
<1>2. CASE FetchError(p)
  <2>1. TasksTyped' /\ JobsOK'
    BY <1>2, EndFacts DEF FetchError
  <2> QED BY <1>2, <2>1, FaultFacts DEF FetchError, Typed, files, labels
<1>3. CASE OpenNew(p)
  <2>1. TasksTyped' /\ JobsOK'
    BY <1>3, EdgeFacts DEF OpenNew, Edges
  <2>2. F(p) \in Files /\ task[p].ver \in Versions
    BY <1>3, Working DEF OpenNew, Early, Steps
  <2>3. new[F(p)] \in File \cup {None}
    BY <2>2 DEF Typed, Slots
  <2>4. Opened(new[F(p)], p, "swap") \in File
    BY <2>2, <2>3, OpenedFacts
  <2>5. new' \in Slots
    BY <1>3, <2>2, <2>4, SlotFacts DEF OpenNew, Typed
  <2> QED BY <1>3, <2>1, <2>5 DEF OpenNew, Typed, labels, bounds
<1>4. CASE CloseNew(p)
  <2>1. TasksTyped' /\ JobsOK'
    BY <1>4, EdgeFacts DEF CloseNew, Edges
  <2>2. cur' \in Slots /\ new' \in Slots /\ prev' \in Slots
    BY <1>4, SlotFacts DEF CloseNew, Typed
  <2> QED BY <1>4, <2>1, <2>2 DEF CloseNew, Typed, labels, bounds
<1>5. CASE WriteError(p)
  <2>1. TasksTyped' /\ JobsOK'
    BY <1>5, EndFacts DEF WriteError
  <2>2. F(p) \in Files
    BY <1>5, Working DEF WriteError, Early, Steps
  <2>3. cur' \in Slots /\ new' \in Slots /\ prev' \in Slots
    BY <1>5, <2>2, SlotFacts DEF WriteError, Typed
  <2> QED BY <1>5, <2>1, <2>3, FaultFacts DEF WriteError, Typed, labels
<1>6. CASE DropPrev(p)
  <2>1. TasksTyped' /\ JobsOK'
    BY <1>6, EdgeFacts DEF DropPrev, Edges
  <2>2. F(p) \in Files
    BY <1>6, Working DEF DropPrev, Early, Steps
  <2>3. prev' \in Slots
    BY <1>6, <2>2, SlotFacts DEF DropPrev, Typed
  <2> QED BY <1>6, <2>1, <2>3 DEF DropPrev, Typed, labels, bounds
<1>7. CASE Stash(p)
  <2>1. TasksTyped' /\ JobsOK'
    BY <1>7, EdgeFacts DEF Stash, Edges
  <2>2. F(p) \in Files
    BY <1>7, Working DEF Stash, Early, Steps
  <2>3. cur[F(p)] \in File \cup {None}
    BY <2>2 DEF Typed, Slots
  <2>4. prev' \in Slots /\ cur' \in Slots
    BY <1>7, <2>2, <2>3, SlotFacts DEF Stash, Typed
  <2> QED BY <1>7, <2>1, <2>4 DEF Stash, Typed, labels, bounds
<1>8. CASE StashError(p)
  <2>1. TasksTyped' /\ JobsOK'
    BY <1>8, EndFacts DEF StashError
  <2>2. F(p) \in Files
    BY <1>8, Working DEF StashError, Early, Steps
  <2>3. new' \in Slots
    BY <1>8, <2>2, SlotFacts DEF StashError, Typed
  <2>4. Fault \/ UNCHANGED bounds
    BY <1>8 DEF StashError
  <2> QED BY <1>8, <2>1, <2>3, <2>4, FaultFacts DEF StashError, Typed, labels
<1>9. CASE Place(p)
  <2>1. TasksTyped' /\ JobsOK'
    BY <1>9, AfterFileFacts DEF Place
  <2>2. F(p) \in Files
    BY <1>9, Working DEF Place, Early, Steps
  <2>3. new[F(p)] \in File \cup {None}
    BY <2>2 DEF Typed, Slots
  <2>4. new' \in Slots /\ cur' \in Slots
    BY <1>9, <2>2, <2>3, SlotFacts DEF Place, Typed
  <2> QED BY <1>9, <2>1, <2>4 DEF Place, Typed, labels, bounds
<1>10. CASE PlaceError(p)
  <2>1. TasksTyped' /\ JobsOK'
    BY <1>10, EndFacts DEF PlaceError
  <2>2. F(p) \in Files
    BY <1>10, Working DEF PlaceError, Early, Steps
  <2>3. cur' \in Slots /\ prev' \in Slots
    BY <1>10, <2>2, MoveBackTyped DEF PlaceError
  <2>4. Fault \/ UNCHANGED bounds
    BY <1>10 DEF PlaceError
  <2> QED BY <1>10, <2>1, <2>3, <2>4, FaultFacts DEF PlaceError, Typed, labels
<1>11. CASE MoveBackError(p)
  <2>1. TasksTyped' /\ JobsOK'
    BY <1>11, EndFacts DEF MoveBackError
  <2> QED BY <1>11, <2>1, FaultFacts DEF MoveBackError, Typed, files, labels
<1> QED BY <1>1, <1>2, <1>3, <1>4, <1>5, <1>6, <1>7, <1>8, <1>9, <1>10, <1>11 DEF Swap

\* What follows the files keeps the types.
LEMMA AfterTyped ==
    ASSUME TInv, NEW p \in Procs, After(p)
    PROVE  TInv'
<1> USE DEF TInv
<1>1. CASE CopyGeodata(p)
  <2>1. TasksTyped' /\ JobsOK'
    BY <1>1, EdgeFacts DEF CopyGeodata, Edges
  <2>2. F(p) \in Files /\ task[p].ver \in Versions
    BY <1>1, Working DEF CopyGeodata, Copying, Steps
  <2>3. cur[F(p)] \in File \cup {None}
    BY <2>2 DEF Typed, Slots
  <2>4. Opened(cur[F(p)], p, "copy") \in File
    BY <2>2, <2>3, OpenedFacts
  <2>5. cur' \in Slots
    BY <1>1, <2>2, <2>4, SlotFacts DEF CopyGeodata, Typed
  <2> QED BY <1>1, <2>1, <2>5 DEF CopyGeodata, Typed, labels, bounds
<1>2. CASE CopiedGeodata(p)
  <2>1. TasksTyped' /\ JobsOK'
    BY <1>2, AfterCopyFacts DEF CopiedGeodata
  <2>2. cur' \in Slots /\ new' \in Slots /\ prev' \in Slots
    BY <1>2, SlotFacts DEF CopiedGeodata, Typed
  <2> QED BY <1>2, <2>1, <2>2 DEF CopiedGeodata, Typed, labels, bounds
<1>3. CASE CopyError(p)
  <2>1. TasksTyped' /\ JobsOK'
    BY <1>3, AfterCopyFacts DEF CopyError
  <2>2. F(p) \in Files
    BY <1>3, Working DEF CopyError, Copying, Steps
  <2>3. ClosedBy(cur, p) \in Slots /\ new' \in Slots /\ prev' \in Slots
    BY <1>3, SlotFacts DEF CopyError, Typed
  <2>4. cur' \in Slots
    BY <1>3, <2>2, <2>3, SlotFacts DEF CopyError
  <2> QED BY <1>3, <2>1, <2>3, <2>4, FaultFacts DEF CopyError, Typed, labels
<1>4. CASE KeepLabel(p)
  <2>1. TasksTyped' /\ JobsOK'
    BY <1>4, EdgeFacts DEF KeepLabel, Edges
  <2> QED BY <1>4, <2>1 DEF KeepLabel, Typed, files, bounds
<1>5. CASE WriteLabel(p)
  <2>1. TasksTyped' /\ JobsOK'
    BY <1>5, EndFacts DEF WriteLabel
  <2>2. task[p].ver \in Versions
    BY <1>5, Working DEF WriteLabel, Steps
  <2> QED BY <1>5, <2>1, <2>2 DEF WriteLabel, Typed, files, bounds
<1>6. CASE WriteLabelError(p)
  <2>1. TasksTyped' /\ JobsOK'
    BY <1>6, EndFacts DEF WriteLabelError
  <2> QED BY <1>6, <2>1, FaultFacts DEF WriteLabelError, Typed, files
<1>7. CASE ReadState(p)
  <2>1. TasksTyped' /\ JobsOK'
    BY <1>7, EndFacts, EdgeFacts DEF ReadState, Edges
  <2> QED BY <1>7, <2>1 DEF ReadState, Typed, files, labels, bounds
<1>8. CASE ReadStateError(p)
  <2>1. TasksTyped' /\ JobsOK'
    BY <1>8, EndFacts DEF ReadStateError
  <2>2. Comp(p) \in Binaries
    BY <1>8, Working DEF ReadStateError, Late, Steps
  <2> QED BY <1>8, <2>1, <2>2, FaultFacts DEF ReadStateError, Typed, files, labels
<1>9. CASE Restart(p)
  <2>1. TasksTyped' /\ JobsOK'
    <3>1. CASE Goto(p, "settle")
      BY <1>9, <3>1, EdgeFacts DEF Restart, Edges
    <3>2. CASE Goto(p, "restore")
      BY <1>9, <3>2, EdgeFacts DEF Restart, Edges
    <3> QED BY <1>9, <3>1, <3>2 DEF Restart
  <2>2. Comp(p) \in Binaries
    BY <1>9, Working DEF Restart, Late, Steps
  <2>3. unit' \in [Binaries -> Versions \cup {None}]
    BY <1>9, <2>2, RunsTyped DEF Restart, RestartUnit, Typed
  <2> QED BY <1>9, <2>1, <2>3 DEF Restart, Typed, files, labels, bounds
<1>10. CASE RestartError(p)
  <2>1. TasksTyped' /\ JobsOK'
    BY <1>10, EdgeFacts DEF RestartError, Edges
  <2>2. Comp(p) \in Binaries
    BY <1>10, Working DEF RestartError, Late, Steps
  <2> QED BY <1>10, <2>1, <2>2, RestartFailsTyped DEF RestartError, Typed, files, labels
<1>11. CASE Settle(p)
  <2>1. TasksTyped' /\ JobsOK'
    BY <1>11, EndFacts, EdgeFacts DEF Settle, Edges
  <2> QED BY <1>11, <2>1 DEF Settle, Typed, files, labels, bounds
<1>12. CASE SettleError(p)
  <2>1. TasksTyped' /\ JobsOK'
    BY <1>12, EdgeFacts DEF SettleError, Edges
  <2> QED BY <1>12, <2>1, FaultFacts DEF SettleError, Typed, files, labels
<1>13. CASE Restore(p)
  <2>1. TasksTyped' /\ JobsOK'
    BY <1>13, EdgeFacts DEF Restore, Edges
  <2>2. Comp(p) \in Files
    BY <1>13, Working DEF Restore, Late, Steps, Files
  <2>3. cur' \in Slots /\ prev' \in Slots
    BY <1>13, <2>2, MoveBackTyped DEF Restore
  <2> QED BY <1>13, <2>1, <2>3 DEF Restore, Typed, labels, bounds
<1>14. CASE RestoreError(p)
  <2>1. TasksTyped' /\ JobsOK'
    BY <1>14, EndFacts DEF RestoreError
  <2>2. Fault \/ UNCHANGED bounds
    BY <1>14 DEF RestoreError
  <2> QED BY <1>14, <2>1, <2>2, FaultFacts DEF RestoreError, Typed, files, labels
<1>15. CASE RestartAgain(p)
  <2>1. TasksTyped' /\ JobsOK'
    BY <1>15, EndFacts DEF RestartAgain
  <2>2. Comp(p) \in Binaries
    BY <1>15, Working DEF RestartAgain, Late, Steps
  <2>3. unit' \in [Binaries -> Versions \cup {None}]
    BY <1>15, <2>2, RunsTyped DEF RestartAgain, RestartUnit, Typed
  <2> QED BY <1>15, <2>1, <2>3 DEF RestartAgain, Typed, files, labels, bounds
<1>16. CASE RestartAgainError(p)
  <2>1. TasksTyped' /\ JobsOK'
    BY <1>16, EndFacts DEF RestartAgainError
  <2>2. Comp(p) \in Binaries
    BY <1>16, Working DEF RestartAgainError, Late, Steps
  <2> QED BY <1>16, <2>1, <2>2, RestartFailsTyped DEF RestartAgainError, Typed, files, labels
<1> QED BY <1>1, <1>2, <1>3, <1>4, <1>5, <1>6, <1>7, <1>8, <1>9, <1>10, <1>11, <1>12, <1>13, <1>14, <1>15, <1>16
        DEF After

\* A rollback keeps the types.
LEMMA BackTyped ==
    ASSUME TInv, NEW p \in Procs, Back(p)
    PROVE  TInv'
<1> USE DEF TInv
<1>1. CASE Rollback(p)
  <2>1. TasksTyped' /\ JobsOK'
    BY <1>1, RollbackFacts
  <2>2. F(p) \in Files
    BY <1>1, Working DEF Rollback, Early, Steps
  <2>3. cur' \in Slots /\ prev' \in Slots
    BY <1>1, <2>2, MoveBackTyped DEF Rollback
  <2> QED BY <1>1, <2>1, <2>3 DEF Rollback, Typed, labels, bounds
<1>2. CASE RollbackError(p)
  <2>1. TasksTyped' /\ JobsOK'
    BY <1>2, EndFacts DEF RollbackError
  <2>2. Fault \/ UNCHANGED bounds
    BY <1>2 DEF RollbackError
  <2> QED BY <1>2, <2>1, <2>2, FaultFacts DEF RollbackError, Typed, files, labels
<1>3. CASE RollbackLabel(p)
  <2>1. TasksTyped' /\ JobsOK'
    BY <1>3, EndFacts DEF RollbackLabel
  <2> QED BY <1>3, <2>1 DEF RollbackLabel, Typed, files, labels, bounds
<1>4. CASE Bounce(p)
  <2>1. PICK r \in {"succeeded", "failed"} : Finish(p, r)
    BY <1>4 DEF Bounce
  <2>2. TasksTyped' /\ JobsOK'
    BY <1>4, <2>1, EndFacts DEF Bounce
  <2>3. Comp(p) \in Binaries
    BY <1>4, Working DEF Bounce, Late, Steps
  <2>4. unit' \in [Binaries -> Versions \cup {None}]
    BY <1>4, <2>3, RunsTyped DEF Bounce, RestartUnit, Typed
  <2> QED BY <1>4, <2>2, <2>3, <2>4 DEF Bounce, Typed, files, labels, bounds
<1>5. CASE BounceError(p)
  <2>1. TasksTyped' /\ JobsOK'
    BY <1>5, EndFacts DEF BounceError
  <2>2. Comp(p) \in Binaries
    BY <1>5, Working DEF BounceError, Late, Steps
  <2>3. CASE RestartFails(Comp(p))
    BY <1>5, <2>1, <2>2, <2>3, RestartFailsTyped DEF BounceError, Typed, files, labels
  <2>4. CASE ~RestartFails(Comp(p))
    BY <1>5, <2>1, <2>2, <2>4, FaultFacts DEF BounceError, Typed, files, labels
  <2> QED BY <2>3, <2>4
<1> QED BY <1>1, <1>2, <1>3, <1>4, <1>5 DEF Back

\* Process p starts with task u on component c.
Begins(p, c, u) ==
    /\ task[p] = None /\ Others(p)
    /\ task'[p] = u /\ u \in TaskRec /\ u # None /\ Shape(u)
    /\ u.comp = c /\ u.step \in {"fetch", "open", "back"}

\* The ways a task can start: what it does, the version and the first step.
Starts ==
    [act : {"update", "upload"}, ver : Versions, step : {"fetch"}]
        \cup [act : {"bundled", "seed"}, ver : {Bundle}, step : {"open"}]
        \cup [act : {"rollback"}, ver : {None}, step : {"back"}]

\* Begin gives an idle process a task on its component, with the component's
\* files to do.
LEMMA BeginFacts ==
    ASSUME TInv, NEW p \in Procs, NEW c \in Components, NEW s \in Starts,
           p = "seed" <=> s.act = "seed", Begin(p, c, s.act, s.ver, s.step)
    PROVE  /\ TasksTyped'
           /\ cur' = cur /\ new' = new /\ prev' = prev /\ unit' = unit /\ loose' = loose
           /\ \E u \in TaskRec : Begins(p, c, u) /\ u.act = s.act /\ u.step = s.step
<1>1. PICK u : u = [comp |-> c, act |-> s.act, ver |-> s.ver, todo |-> FilesOf(c), step |-> s.step]
  OBVIOUS
<1>2. task' = [task EXCEPT ![p] = u] /\ task[p] = None
  BY <1>1 DEF Begin
<1>3. /\ s.act \in Actions /\ s.ver \in Versions \cup {None} /\ s.step \in {"fetch", "open", "back"}
      /\ s.act = "rollback" <=> s.step = "back"
      /\ s.act # "rollback" => s.ver \in Versions
  BY DEF Starts, Actions, Versions
<1>4. FilesOf(c) \in Todos /\ FilesOf(c) = IF c = "geodata" THEN Both ELSE <<c>>
  BY FilesOfFacts
<1>5. u \in TaskRec /\ u.comp = c /\ u.act = s.act /\ u.ver = s.ver /\ u.step = s.step /\ u.todo = FilesOf(c)
  BY <1>1, <1>3, <1>4 DEF TaskRec, Steps
<1>6. Shape(u)
  BY <1>3, <1>4, <1>5 DEF Shape, Early, Copying, Late
<1>7. task'[p] = u /\ Others(p) /\ task' \in [Procs -> TaskRec \cup {None}]
  BY <1>2, <1>5 DEF TInv, TasksTyped, Others
<1>8. TasksTyped'
  BY <1>5, <1>6, <1>7 DEF TInv, TasksTyped, Others
<1>9. u # None
  BY <1>5, NoneIsNoRecord
<1> QED BY <1>2, <1>3, <1>5, <1>6, <1>7, <1>8, <1>9 DEF Begins, Begin, files

\* A start marks the component whose other process is at work.
Meets(p, c) ==
    collided' = IF \E q \in Procs \ {p} : task[q] # None /\ Comp(q) = c
                  THEN collided \cup {c} ELSE collided

\* What a start by the job process does.
Started(c, act, s) ==
    /\ \E u \in TaskRec : Begins("job", c, u) /\ u.act = act /\ u.step = s
    /\ jobs' = [jobs EXCEPT ![c] =
                  [state |-> "running",
                   before |-> IF c = "geodata" \/ act = "rollback" THEN None ELSE VersionOf(cur, c)]]
    /\ cur' = cur /\ new' = new /\ prev' = prev /\ unit' = unit /\ loose' = loose
    /\ Meets("job", c)

\* The four requests that start a job.
StartJob(c) ==
    \/ \E v \in Releases : StartUpdate(c, v)
    \/ \E v \in Uploads : InstallUpload(c, v)
    \/ StartBundled(c) \/ StartRollback(c)

\* The job that starts is the one the table says is running.
LEMMA StartFacts ==
    ASSUME TInv, NEW c \in Components, StartJob(c)
    PROVE  TInv' /\ \E act \in Actions, s \in {"fetch", "open", "back"} :
                        Started(c, act, s) /\ (s = "back" <=> act = "rollback")
<1>1. PICK s \in Starts : s.act # "seed" /\ Start(c, s.act, s.ver, s.step)
  <2>1. CASE \E v \in Releases : StartUpdate(c, v)
    <3>1. PICK v \in Releases : StartUpdate(c, v)
      BY <2>1
    <3>2. PICK s : s = [act |-> "update", ver |-> v, step |-> "fetch"]
      OBVIOUS
    <3> QED BY <3>1, <3>2 DEF StartUpdate, Starts, Versions
  <2>2. CASE \E v \in Uploads : InstallUpload(c, v)
    <3>1. PICK v \in Uploads : InstallUpload(c, v)
      BY <2>2
    <3>2. PICK s : s = [act |-> "upload", ver |-> v, step |-> "fetch"]
      OBVIOUS
    <3> QED BY <3>1, <3>2 DEF InstallUpload, Starts, Versions
  <2>3. CASE StartBundled(c)
    <3>1. PICK s : s = [act |-> "bundled", ver |-> Bundle, step |-> "open"]
      OBVIOUS
    <3> QED BY <2>3, <3>1 DEF StartBundled, Starts
  <2>4. CASE StartRollback(c)
    <3>1. PICK s : s = [act |-> "rollback", ver |-> None, step |-> "back"]
      OBVIOUS
    <3> QED BY <2>4, <3>1 DEF StartRollback, Starts
  <2> QED BY <2>1, <2>2, <2>3, <2>4 DEF StartJob
<1>2. Begin("job", c, s.act, s.ver, s.step)
  BY <1>1 DEF Start
<1>3. /\ TasksTyped'
      /\ cur' = cur /\ new' = new /\ prev' = prev /\ unit' = unit /\ loose' = loose
      /\ \E u \in TaskRec : Begins("job", c, u) /\ u.act = s.act /\ u.step = s.step
  BY <1>1, <1>2, BeginFacts DEF Procs
<1>4. PICK k : k = [state |-> "running",
                    before |-> IF c = "geodata" \/ s.act = "rollback" THEN None ELSE VersionOf(cur, c)]
  OBVIOUS
<1>5. VersionOf(cur, c) \in Versions \cup {None} \/ c = "geodata"
  <2>1. c # "geodata" => c \in Files
    BY DEF Components, Files
  <2>2. c # "geodata" => cur[c] \in File \cup {None}
    BY <2>1 DEF TInv, Typed, Slots
  <2> QED BY <2>2 DEF VersionOf, File
<1>6. k \in Job /\ k.state = "running"
  BY <1>4, <1>5 DEF Job
<1>7. jobs' = [jobs EXCEPT ![c] = k]
  BY <1>1, <1>4 DEF Start
<1>8. JobsOK'
  <2>1. \A d \in Components : Owner("job", d)' <=> d = c
    BY <1>3 DEF Owner, Begins
  <2>2. \A d \in Components : ~ (jobs[d] # None /\ jobs[d].state = "running")
    BY <1>1 DEF Start
  <2> QED BY <1>6, <1>7, <2>1, <2>2, NoneIsNoRecord DEF TInv, JobsOK
<1>9. Typed'
  <2>1. tasks' \in 0 .. MaxTasks
    BY <1>2, UpdaterAssumption DEF Begin, TInv, Typed
  <2> QED BY <1>2, <1>3, <2>1 DEF Begin, TInv, Typed, labels
<1>10. Meets("job", c)
  BY <1>2 DEF Begin, Meets
<1>11. s.act \in Actions /\ s.step \in {"fetch", "open", "back"} /\ (s.step = "back" <=> s.act = "rollback")
  BY DEF Starts, Actions
<1> QED BY <1>3, <1>4, <1>7, <1>8, <1>9, <1>10, <1>11 DEF Started, TInv

\* The seeding starts without a look at the jobs.
LEMMA SeedFacts ==
    ASSUME TInv, NEW c \in Components, Seed(c)
    PROVE  /\ TInv'
           /\ \E u \in TaskRec : Begins("seed", c, u) /\ u.step = "open"
           /\ cur' = cur /\ new' = new /\ prev' = prev /\ unit' = unit /\ loose' = loose /\ jobs' = jobs
           /\ Meets("seed", c)
           /\ c \in Binaries => cur[c] = None
<1>1. PICK s : s = [act |-> "seed", ver |-> Bundle, step |-> "open"]
  OBVIOUS
<1>2. s \in Starts /\ s.act = "seed" /\ s.ver = Bundle /\ s.step = "open"
  BY <1>1 DEF Starts
<1>3. Begin("seed", c, s.act, s.ver, s.step) /\ jobs' = jobs
  BY <1>2 DEF Seed
<1>4. /\ TasksTyped'
      /\ cur' = cur /\ new' = new /\ prev' = prev /\ unit' = unit /\ loose' = loose
      /\ \E u \in TaskRec : Begins("seed", c, u) /\ u.act = s.act /\ u.step = s.step
  BY <1>2, <1>3, BeginFacts DEF Procs
<1>5. JobsOK'
  <2>1. task'["job"] = task["job"]
    BY <1>4 DEF Begins, Others, Procs
  <2> QED BY <1>3, <2>1 DEF TInv, JobsOK, Owner
<1>6. Typed'
  <2>1. tasks' \in 0 .. MaxTasks
    BY <1>3, UpdaterAssumption DEF Begin, TInv, Typed
  <2> QED BY <1>3, <1>4, <2>1 DEF Begin, TInv, Typed, labels
<1>7. Meets("seed", c)
  BY <1>3 DEF Begin, Meets
<1>8. c \in Binaries => cur[c] = None
  BY UpdaterAssumption DEF Seed
<1> QED BY <1>2, <1>3, <1>4, <1>5, <1>6, <1>7, <1>8 DEF TInv

\* The unit of a binary comes up or dies.
EnvUnit(b) == UnitRestarts(b) \/ UnitDies(b)

\* A unit that comes up or dies keeps the types.
LEMMA EnvTyped ==
    ASSUME TInv, NEW b \in Binaries, EnvUnit(b)
    PROVE  TInv'
<1> USE DEF TInv
<1>1. CASE UnitRestarts(b)
  <2>1. unit' \in [Binaries -> Versions \cup {None}]
    BY <1>1, RunsTyped DEF UnitRestarts, RestartUnit, Typed
  <2> QED BY <1>1, <2>1 DEF UnitRestarts, Typed, TasksTyped, JobsOK, Owner, files, labels, bounds
<1>2. CASE UnitDies(b)
  BY <1>2, FaultFacts DEF UnitDies, Typed, TasksTyped, JobsOK, Owner, files, labels
<1> QED BY <1>1, <1>2 DEF EnvUnit

\* A crash leaves no task and no job.
LEMMA CrashTyped ==
    ASSUME TInv, Crash
    PROVE  TInv'
<1> USE DEF TInv
<1>1. cur' \in Slots /\ new' \in Slots /\ prev' \in Slots
  BY SlotFacts DEF Crash, Typed
<1>2. unit' \in [Binaries -> Versions \cup {None}]
  BY RunsTyped DEF Crash, Typed
<1>3. TasksTyped' /\ JobsOK'
  BY DEF Crash, TasksTyped, JobsOK, Owner, Procs
<1>4. label' \in Versions \cup {None, Empty}
  BY DEF Crash, Typed
<1>5. crashes' \in 0 .. MaxCrashes
  BY UpdaterAssumption DEF Crash, Typed
<1> QED BY <1>1, <1>2, <1>3, <1>4, <1>5 DEF Crash, Typed

\* The steps of the specification, by who takes them.
LEMMA NextCases ==
    ASSUME Next
    PROVE  \/ \E c \in Components : StartJob(c)
           \/ \E c \in Components : Seed(c)
           \/ \E p \in Procs : Swap(p)
           \/ \E p \in Procs : After(p)
           \/ Back("job")
           \/ \E b \in Binaries : EnvUnit(b)
           \/ Crash
BY Zenon DEF Next, StartJob, EnvUnit

\* Every step keeps the types.
LEMMA NextTyped ==
    ASSUME TInv, [Next]_vars
    PROVE  TInv'
<1>1. CASE UNCHANGED vars
  BY <1>1 DEF vars, TInv, Typed, TasksTyped, JobsOK, Owner
<1>2. CASE Next
  <2>1. "job" \in Procs
    BY DEF Procs
  <2> QED BY <1>2, <2>1, NextCases, StartFacts, SeedFacts, SwapTyped, AfterTyped, BackTyped, EnvTyped, CrashTyped
<1> QED BY <1>1, <1>2

\* They hold initially.
LEMMA InitTyped == Init => TInv
<1>1. ASSUME Init PROVE Typed
  BY <1>1, UpdaterAssumption DEF Init, Typed, Slots
<1>2. ASSUME Init PROVE TasksTyped /\ JobsOK
  BY <1>2 DEF Init, TasksTyped, JobsOK, Owner, Procs
<1> QED BY <1>1, <1>2 DEF TInv

\* Every version, task, job and file of a behaviour is of its type, whatever
\* fails and wherever the process dies; in particular a task at a step that
\* takes a file has one to take.
THEOREM TypesHold == Spec => []TypeOK
<1>1. TInv => TypeOK
  <2> SUFFICES ASSUME TInv PROVE TypeOK
    OBVIOUS
  <2>1. ASSUME NEW p \in Procs, task[p] # None
        PROVE  task[p] \in Task /\
               (task[p].step \in {"open", "close", "drop", "stash", "place", "copy", "copied", "back"}
                    => task[p].todo # <<>>)
    BY <2>1, NoneIsNoRecord, FirstFile DEF TInv, TasksTyped, Early, Copying
  <2>2. \A g \in {cur, new, prev} : DOMAIN g = Files /\ \A f \in Files : g[f] # None => g[f] \in File
    BY DEF TInv, Typed, Slots
  <2>3. \A c \in Components : jobs[c] # None => jobs[c] \in Job
    BY DEF TInv, JobsOK
  <2> QED BY <2>1, <2>2, <2>3 DEF TypeOK, TInv, Typed
<1>2. Init => TInv
  BY InitTyped
<1>3. TInv /\ [Next]_vars => TInv'
  BY NextTyped
<1> QED BY <1>1, <1>2, <1>3, PTL DEF Spec

-------------------------------------------------------------------------------
(* The files of a component that the job and the seeding do not work on at   *)
(* once.                                                                      *)

Alone(c) == \A p, q \in Procs : Owner(p, c) /\ Owner(q, c) => p = q

\* p is between the opening of f.new and its move to f.
Moving == {"drop", "stash", "place"}
WorksOn(p, c, f) == Owner(p, c) /\ task[p].step \in Moving \cup {"close"} /\ Head(task[p].todo) = f

\* A file that was swapped in is complete, for a binary there is no other.
Sound(c, x) ==
    x # None => /\ x.how = "swap" => Complete(x)
                /\ c \in Binaries => x.how = "swap"

\* f.new is written by its owners only, and complete once it is closed.
FileOK(c, f) ==
    /\ Sound(c, cur[f]) /\ Sound(c, prev[f])
    /\ new[f] # None =>
        /\ new[f].how = "swap"
        /\ \A p \in new[f].writers : WorksOn(p, c, f) /\ task[p].step = "close"
    /\ \A p \in Procs : WorksOn(p, c, f) =>
        /\ task[p].step \in Moving => Complete(new[f])
        /\ task[p].step = "close" => new[f] # None /\ ~new[f].torn
        /\ task[p].step = "place" /\ c \in Binaries => cur[f] = None

FilesOK == \A c \in Components \ collided : Alone(c) /\ \A f \in FileSet(c) : FileOK(c, f)

\* What a copy over a geodata file may leave there.
Copied(c, x) == c = "geodata" /\ (x = None \/ x.how = "copy")

\* A step that does not work on f, unless to copy over it, keeps what holds of it.
LEMMA FileFrame ==
    ASSUME NEW c \in Components, NEW f \in FileSet(c), FileOK(c, f), new'[f] = new[f],
           new[f] # None => new[f].writers \subseteq Procs,
           cur'[f] = cur[f] \/ Copied(c, cur'[f]),
           prev'[f] = prev[f] \/ Copied(c, prev'[f]),
           \A q \in Procs : task'[q] = task[q] \/ (~WorksOn(q, c, f) /\ ~WorksOn(q, c, f)')
    PROVE  FileOK(c, f)'
<1>1. "geodata" \notin Binaries
  BY UpdaterAssumption
<1>2. Sound(c, cur'[f]) /\ Sound(c, prev'[f])
  BY <1>1 DEF FileOK, Sound, Copied
<1>3. \A q \in Procs : WorksOn(q, c, f)' => task'[q] = task[q] /\ WorksOn(q, c, f)
  BY DEF WorksOn, Owner
<1>4. \A q \in Procs : WorksOn(q, c, f) => task'[q] = task[q] /\ WorksOn(q, c, f)'
  BY DEF WorksOn, Owner
<1>5. ASSUME new'[f] # None
      PROVE  new'[f].how = "swap" /\ \A p \in new'[f].writers : WorksOn(p, c, f)' /\ task'[p].step = "close"
  BY <1>4, <1>5 DEF FileOK
<1>6. ASSUME NEW q \in Procs, WorksOn(q, c, f)'
      PROVE  /\ task'[q].step \in Moving => Complete(new'[f])
             /\ task'[q].step = "close" => new'[f] # None /\ ~new'[f].torn
             /\ task'[q].step = "place" /\ c \in Binaries => cur'[f] = None
  BY <1>1, <1>3, <1>6 DEF FileOK, Copied
<1> QED BY <1>2, <1>5, <1>6 DEF FileOK

\* The writers and the files of a component.
LEMMA FileTypes ==
    ASSUME Typed, NEW c \in Components, NEW f \in FileSet(c)
    PROVE  /\ f \in Files
           /\ \A g \in {cur, new, prev} : g[f] # None => g[f] \in File /\ g[f].writers \subseteq Procs
<1>1. f \in Files
  BY FilesOfFacts
<1> QED BY <1>1 DEF Typed, Slots, File

\* Two components have no file in common.
LEMMA Apart ==
    ASSUME NEW c \in Components, NEW d \in Components, c # d
    PROVE  FileSet(c) \cap FileSet(d) = {} /\ (c \in Binaries => FileSet(c) \cap GeoFiles = {})
BY UpdaterAssumption DEF FileSet, Components, GeoFiles

\* A process that goes on, or ends, leaves its component to itself.
LEMMA AloneStep ==
    ASSUME NEW p \in Procs, NEW t, NEW c \in Components, Alone(c),
           (\E u : Becomes(p, t, u)) \/ Ends(p, t)
    PROVE  Alone(c)'
<1>1. \A q \in Procs : Owner(q, c)' => Owner(q, c)
  BY DEF Becomes, Ends, Owner, Others
<1> QED BY <1>1 DEF Alone

\* A step of p, from its task t, that is about no file but f.
AboutFile(p, t, f) ==
    /\ (\E u : Becomes(p, t, u) /\ (u.step \in Moving \cup {"close"} => Head(u.todo) = f)) \/ Ends(p, t)
    /\ t.step \in Moving \cup {"close"} => Head(t.todo) = f

\* Every file but f of component c is left as it is, unless it is copied over.
Spares(c, f) ==
    \A d \in Components \ collided : \A g \in FileSet(d) :
        d # c \/ g # f =>
          /\ new'[g] = new[g]
          /\ cur'[g] = cur[g] \/ Copied(d, cur'[g])
          /\ prev'[g] = prev[g] \/ Copied(d, prev'[g])

\* Only the file at hand is to be looked at.
LEMMA LeavesAlone ==
    ASSUME Typed, FilesOK, collided' = collided, NEW p \in Procs, NEW t, NEW f,
           AboutFile(p, t, f), Spares(t.comp, f),
           t.comp \in Components \ collided /\ f \in FileSet(t.comp) => FileOK(t.comp, f)'
    PROVE  FilesOK'
<1> USE DEF AboutFile, Spares
<1> SUFFICES ASSUME NEW d \in Components, d \notin collided
             PROVE  Alone(d)' /\ \A g \in FileSet(d) : FileOK(d, g)'
  BY DEF FilesOK
<1>1. Alone(d)'
  BY AloneStep DEF FilesOK
<1>2. ASSUME NEW g \in FileSet(d) PROVE FileOK(d, g)'
  <2>1. CASE d = t.comp /\ g = f
    BY <2>1 DEF FilesOK
  <2>2. CASE d # t.comp \/ g # f
    <3>1. /\ new'[g] = new[g]
          /\ cur'[g] = cur[g] \/ Copied(d, cur'[g])
          /\ prev'[g] = prev[g] \/ Copied(d, prev'[g])
      BY <1>2, <2>2
    <3>2. \A q \in Procs : task'[q] = task[q] \/ (~WorksOn(q, d, g) /\ ~WorksOn(q, d, g)')
      BY <2>2 DEF Becomes, Ends, Others, WorksOn, Owner
    <3>3. FileOK(d, g) /\ (new[g] # None => new[g].writers \subseteq Procs)
      BY <1>2, FileTypes DEF FilesOK
    <3> QED BY <1>2, <3>1, <3>2, <3>3, FileFrame
  <2> QED BY <2>1, <2>2
<1> QED BY <1>1, <1>2

\* A step that leaves the files alone, and is not about one being swapped in.
LEMMA QuietFiles ==
    ASSUME Typed, FilesOK, UNCHANGED <<files, collided>>, NEW p \in Procs, NEW t,
           t.step \notin Moving \cup {"close"},
           (\E u : Becomes(p, t, u) /\ u.step \notin Moving \cup {"close"}) \/ Ends(p, t)
    PROVE  FilesOK'
<1>1. \A d \in Components : "geodata" \notin FileSet(d)
  BY UpdaterAssumption DEF FileSet, GeoFiles, Components
<1>2. cur' = cur /\ new' = new /\ prev' = prev /\ collided' = collided
  BY DEF files
<1>3. AboutFile(p, t, "geodata") /\ Spares(t.comp, "geodata")
  BY <1>2 DEF AboutFile, Spares
<1> QED BY <1>1, <1>2, <1>3, LeavesAlone

\* Closing what p writes leaves the complete files alone, and f.new of the
\* files that p does not write.
LEMMA ClosingOthers ==
    ASSUME Typed, FilesOK, NEW p \in Procs, NEW d \in Components \ collided, NEW g \in FileSet(d)
    PROVE  /\ ~WorksOn(p, d, g) \/ task[p].step # "close" => ClosedBy(new, p)[g] = new[g]
           /\ ClosedBy(cur, p)[g] = cur[g] \/ Copied(d, ClosedBy(cur, p)[g])
           /\ ClosedBy(prev, p)[g] = prev[g] \/ Copied(d, ClosedBy(prev, p)[g])
<1>1. FileOK(d, g) /\ g \in Files
  BY FilesOfFacts DEF FilesOK
<1>2. ASSUME NEW h \in Slots, Sound(d, h[g])
      PROVE  ClosedBy(h, p)[g] = h[g] \/ Copied(d, ClosedBy(h, p)[g])
  <2>1. CASE h[g] = None
    BY <1>1, <2>1, ClosedKeeps
  <2>2. CASE h[g] # None /\ h[g].how = "swap"
    BY <1>1, <1>2, <2>2, ClosedKeeps DEF Sound, Complete
  <2>3. CASE h[g] # None /\ h[g].how # "swap"
    <3>1. d = "geodata"
      BY <1>2, <2>3 DEF Sound, Components
    <3>2. PICK r, w \in File : r = h[g] /\ w = ClosedBy(h, p)[g] /\ w.how = r.how
      BY <1>1, <2>3, ClosedKeeps
    <3> QED BY <2>3, <3>1, <3>2 DEF Copied, File
  <2> QED BY <2>1, <2>2, <2>3
<1>3. cur \in Slots /\ new \in Slots /\ prev \in Slots /\ Sound(d, cur[g]) /\ Sound(d, prev[g])
  BY <1>1 DEF Typed, FileOK
<1>4. ASSUME ~WorksOn(p, d, g) \/ task[p].step # "close" PROVE ClosedBy(new, p)[g] = new[g]
  BY <1>1, <1>3, <1>4, ClosedKeeps DEF FileOK
<1> QED BY <1>2, <1>3, <1>4

\* The file at hand belongs to the component, and nobody else works on it.
LEMMA AtHand ==
    ASSUME TInv, FilesOK, NEW p \in Procs, NEW t \in TaskRec, task[p] = t, t # None,
           t.step \in Early, t.comp \notin collided
    PROVE  /\ t.comp \in Components /\ F(p) = Head(t.todo) /\ F(p) \in FileSet(t.comp) /\ F(p) \in Files
           /\ FileOK(t.comp, F(p)) /\ Alone(t.comp)
           /\ \A q \in Procs : Owner(q, t.comp) <=> q = p
           /\ t.comp \in Binaries => F(p) = t.comp
<1>1. Shape(t) /\ t.comp \in Components
  BY DEF TInv, TasksTyped, TaskRec
<1>2. F(p) = Head(t.todo) /\ F(p) \in FileSet(t.comp) /\ F(p) \in Files
  BY <1>1, FirstFile DEF F
<1>3. FileOK(t.comp, F(p)) /\ Alone(t.comp)
  BY <1>1, <1>2 DEF FilesOK
<1>4. \A q \in Procs : Owner(q, t.comp) <=> q = p
  BY <1>3 DEF Alone, Owner
<1>5. t.comp \in Binaries => F(p) = t.comp
  BY <1>2, UpdaterAssumption DEF FileSet
<1> QED BY <1>1, <1>2, <1>3, <1>4, <1>5

\* f.new is opened by the only owner: nobody else is writing it.
LEMMA OpenFiles ==
    ASSUME TInv, FilesOK, NEW p \in Procs, OpenNew(p)
    PROVE  FilesOK'
<1>1. PICK t, u \in TaskRec : GoesOn(p, t, u, "close") /\ t.step = "open"
  BY EdgeFacts DEF OpenNew, Edges, TInv
<1>2. PICK f \in Files : f = F(p)
  BY Working DEF OpenNew, Early, Steps
<1>3. task[p].ver \in Versions
  BY Working DEF OpenNew, Steps
<1>4. PICK x \in File \cup {None} : x = new[f]
  BY DEF TInv, Typed, Slots
<1>0. "swap" \in {"swap", "copy"}
  OBVIOUS
<1>5. PICK w \in File : /\ w = Opened(x, p, "swap") /\ w # None /\ w.how = "swap"
                        /\ w.writers = IF x = None THEN {p} ELSE x.writers \cup {p}
                        /\ (x = None \/ x.writers = {}) => ~w.torn
  BY <1>0, <1>3, <1>4, OpenedFacts
<1>6. new'[f] = w /\ (\A g \in Files : g # f => new'[g] = new[g]) /\ cur' = cur /\ prev' = prev /\ collided' = collided
  BY <1>2, <1>4, <1>5 DEF OpenNew, TInv, Typed, Slots
<1>7. task[p] = t /\ t # None /\ task'[p] = u /\ u # None /\ u.step = "close" /\ Head(u.todo) = f /\ u.comp = t.comp /\ Others(p)
  BY <1>1, <1>2 DEF GoesOn, Becomes, F
<1>8. ASSUME t.comp \notin collided PROVE FileOK(t.comp, f)'
  <2>1. /\ t.comp \in Components /\ FileOK(t.comp, f) /\ f \in FileSet(t.comp)
        /\ \A q \in Procs : Owner(q, t.comp) <=> q = p
    BY <1>1, <1>2, <1>7, <1>8, AtHand DEF Early
  <2>2. x # None => x.writers \subseteq Procs
    BY DEF File
  <2>3. x # None => x.writers = {}
    BY <1>1, <1>4, <1>7, <2>1, <2>2 DEF FileOK, WorksOn
  <2>4. w.writers = {p} /\ ~w.torn
    BY <1>5, <2>3
  <2>5. \A q \in Procs : Owner(q, t.comp)' <=> q = p
    BY <1>7, <2>1 DEF Owner, Others
  <2>6. WorksOn(p, t.comp, f)' /\ task'[p].step = "close"
    BY <1>7 DEF WorksOn, Owner
  <2>7. \A q \in Procs : WorksOn(q, t.comp, f)' => q = p
    BY <2>5 DEF WorksOn
  <2>8. Sound(t.comp, cur'[f]) /\ Sound(t.comp, prev'[f])
    BY <1>6, <2>1 DEF FileOK
  <2> QED BY <1>5, <1>6, <2>4, <2>6, <2>7, <2>8 DEF FileOK, Moving
<1>9. Spares(t.comp, f)
  <2>1. t.comp \in Components /\ f \in FileSet(t.comp)
    BY <1>1, <1>2, <1>7, FirstFile DEF GoesOn, Becomes, Early, TaskRec, F
  <2> QED BY <1>6, <2>1, Apart, FilesOfFacts DEF Spares
<1>10. AboutFile(p, t, f)
  BY <1>1, <1>7 DEF AboutFile, GoesOn, Moving
<1> QED BY <1>6, <1>8, <1>9, <1>10, LeavesAlone DEF TInv

\* A step that changes the names of one file only.
OnlyFile(f) == \A g \in Files : g # f => cur'[g] = cur[g] /\ new'[g] = new[g] /\ prev'[g] = prev[g]

\* A step about one file of a component spares every other file.
LEMMA OnlyFileSpares ==
    ASSUME NEW c \in Components, NEW f \in FileSet(c), OnlyFile(f)
    PROVE  Spares(c, f)
BY Apart, FilesOfFacts DEF OnlyFile, Spares

\* The file at hand after a step of its only owner: what was swapped is sound,
\* f.new is closed, and complete as long as it is to be moved.
LEMMA OwnFile ==
    ASSUME NEW p \in Procs, NEW c, NEW f,
           \A q \in Procs : q # p => ~Owner(q, c)',
           Sound(c, cur'[f]), Sound(c, prev'[f]),
           new'[f] # None => new'[f].how = "swap" /\ new'[f].writers = {},
           WorksOn(p, c, f)' => /\ task'[p].step \in Moving /\ Complete(new'[f])
                                /\ task'[p].step = "place" /\ c \in Binaries => cur'[f] = None
    PROVE  FileOK(c, f)'
<1>1. \A q \in Procs : WorksOn(q, c, f)' => q = p
  BY DEF WorksOn
<1> QED BY <1>1 DEF FileOK, Moving

\* The owner of a component that goes on or ends is the only one after it, too.
LEMMA OnlyOwner ==
    ASSUME NEW p \in Procs, NEW t, NEW c, \A q \in Procs : Owner(q, c) <=> q = p,
           (\E u : Becomes(p, t, u)) \/ Ends(p, t)
    PROVE  \A q \in Procs : q # p => ~Owner(q, c)'
BY DEF Becomes, Ends, Owner, Others

\* Closing makes f.new complete, and leaves every other file as it is.
LEMMA CloseFiles ==
    ASSUME TInv, FilesOK, NEW p \in Procs, CloseNew(p)
    PROVE  FilesOK'
<1>1. PICK t, u \in TaskRec : GoesOn(p, t, u, "drop") /\ t.step = "close"
  BY EdgeFacts DEF CloseNew, Edges, TInv
<1>2. PICK f : f = F(p)
  OBVIOUS
<1>3. /\ cur' = ClosedBy(cur, p) /\ new' = ClosedBy(new, p) /\ prev' = ClosedBy(prev, p)
      /\ collided' = collided
  BY DEF CloseNew
<1>4. task[p] = t /\ t # None /\ Shape(t) /\ task'[p] = u /\ u.step = "drop" /\ Head(u.todo) = f /\ Head(t.todo) = f
  BY <1>1, <1>2 DEF GoesOn, Becomes, F
<1>5. ASSUME NEW d \in Components \ collided, NEW g \in FileSet(d)
      PROVE  /\ d # t.comp \/ g # f => new'[g] = new[g]
             /\ cur'[g] = cur[g] \/ Copied(d, cur'[g])
             /\ prev'[g] = prev[g] \/ Copied(d, prev'[g])
  BY <1>3, <1>4, ClosingOthers DEF TInv, WorksOn, Owner
<1>6. Spares(t.comp, f)
  BY <1>5 DEF Spares
<1>7. AboutFile(p, t, f)
  BY <1>1, <1>4 DEF AboutFile, GoesOn, Moving
<1>8. ASSUME t.comp \notin collided PROVE FileOK(t.comp, f)'
  <2>1. /\ t.comp \in Components /\ FileOK(t.comp, f) /\ f \in FileSet(t.comp) /\ f \in Files
        /\ \A q \in Procs : Owner(q, t.comp) <=> q = p
    BY <1>1, <1>2, <1>4, <1>8, AtHand DEF Early
  <2>2. WorksOn(p, t.comp, f) /\ new[f] # None /\ ~new[f].torn
    BY <1>1, <1>4, <2>1 DEF FileOK, WorksOn, Owner
  <2>3. PICK r, w \in File : /\ r = new[f] /\ w = new'[f]
                             /\ w.ver = r.ver /\ w.how = r.how /\ (w.torn <=> r.torn)
                             /\ w.writers = r.writers \ {p}
    BY <1>3, <2>1, <2>2, ClosedKeeps DEF TInv, Typed
  <2>4. r.writers \subseteq {p} /\ r.how = "swap"
    <3>1. r.writers \subseteq Procs
      BY DEF File
    <3> QED BY <2>1, <2>2, <2>3, <3>1 DEF FileOK, WorksOn
  <2>5. w # None /\ w.writers = {} /\ ~w.torn /\ w.how = "swap"
    BY <2>2, <2>3, <2>4, NoneIsNoRecord
  <2>6. Complete(new'[f])
    BY <2>3, <2>5 DEF Complete
  <2>7. Sound(t.comp, cur'[f]) /\ Sound(t.comp, prev'[f])
    BY <1>5, <1>8, <2>1, UpdaterAssumption DEF FileOK, Sound, Copied
  <2>8. \A q \in Procs : q # p => ~Owner(q, t.comp)'
    BY <1>1, <2>1, OnlyOwner DEF GoesOn
  <2> QED BY <1>4, <2>3, <2>5, <2>6, <2>7, <2>8, OwnFile DEF Moving
<1> QED BY <1>3, <1>6, <1>7, <1>8, LeavesAlone DEF TInv

\* A failed write removes f.new.
LEMMA WriteErrorFiles ==
    ASSUME TInv, FilesOK, NEW p \in Procs, WriteError(p)
    PROVE  FilesOK'
<1>1. PICK t \in TaskRec : Ends(p, t) /\ t.step = "close"
  BY EndFacts DEF WriteError, TInv
<1>2. PICK f \in Files : f = F(p)
  BY Working DEF WriteError, Early, Steps
<1>3. /\ cur' = ClosedBy(cur, p) /\ prev' = ClosedBy(prev, p) /\ collided' = collided
      /\ new'[f] = None /\ \A g \in Files : g # f => new'[g] = new[g]
  BY <1>2 DEF WriteError, TInv, Typed, Slots
<1>4. task[p] = t /\ t # None /\ Shape(t) /\ task'[p] = None /\ Head(t.todo) = f
  BY <1>1, <1>2 DEF Ends, F
<1>5. t.comp \in Components /\ f \in FileSet(t.comp)
  BY <1>1, <1>4, FirstFile DEF Early, TaskRec
<1>6. ASSUME NEW d \in Components \ collided, NEW g \in FileSet(d)
      PROVE  /\ d # t.comp \/ g # f => new'[g] = new[g]
             /\ cur'[g] = cur[g] \/ Copied(d, cur'[g])
             /\ prev'[g] = prev[g] \/ Copied(d, prev'[g])
  <2>1. d # t.comp \/ g # f => new'[g] = new[g]
    BY <1>3, <1>5, Apart, FilesOfFacts
  <2> QED BY <1>3, <2>1, ClosingOthers DEF TInv
<1>7. Spares(t.comp, f)
  BY <1>6 DEF Spares
<1>8. AboutFile(p, t, f)
  BY <1>1, <1>4 DEF AboutFile
<1>9. ASSUME t.comp \notin collided PROVE FileOK(t.comp, f)'
  <2>1. /\ FileOK(t.comp, f)
        /\ \A q \in Procs : Owner(q, t.comp) <=> q = p
    BY <1>1, <1>2, <1>4, <1>9, AtHand DEF Early
  <2>2. Sound(t.comp, cur'[f]) /\ Sound(t.comp, prev'[f])
    BY <1>5, <1>6, <1>9, <2>1, UpdaterAssumption DEF FileOK, Sound, Copied
  <2>3. \A q \in Procs : q # p => ~Owner(q, t.comp)'
    BY <1>1, <2>1, OnlyOwner
  <2>4. ~WorksOn(p, t.comp, f)'
    BY <1>4 DEF WorksOn, Owner
  <2> QED BY <1>3, <2>2, <2>3, <2>4, OwnFile
<1> QED BY <1>3, <1>7, <1>8, <1>9, LeavesAlone DEF TInv

\* Nobody writes f.new when its component's only owner is not writing it.
LEMMA NoWriters ==
    ASSUME Typed, NEW p \in Procs, NEW c \in Components, NEW f \in FileSet(c), FileOK(c, f),
           \A q \in Procs : Owner(q, c) <=> q = p, task[p].step # "close", new[f] # None
    PROVE  new[f].writers = {} /\ new[f].how = "swap"
<1>1. new[f].writers \subseteq Procs
  BY FileTypes
<1> QED BY <1>1 DEF FileOK, WorksOn

\* f.prev is removed only when there is an f.
LEMMA DropFiles ==
    ASSUME TInv, FilesOK, NEW p \in Procs, DropPrev(p)
    PROVE  FilesOK'
<1>1. PICK f \in Files : f = F(p)
  BY Working DEF DropPrev, Early, Steps
<1>2. \E t, u \in TaskRec : /\ Becomes(p, t, u) /\ u.todo = t.todo /\ t.step = "drop"
                            /\ u.step \in {"place", "stash"} /\ (u.step = "place" => cur[f] = None)
  <2>1. CASE cur[f] = None
    <3>1. Goto(p, "place") /\ At(p, "drop") /\ jobs' = jobs
      BY <1>1, <2>1 DEF DropPrev
    <3>2. \E t, u \in TaskRec : GoesOn(p, t, u, "place") /\ t.step = "drop"
      BY <3>1, EdgeFacts DEF TInv, Edges
    <3> QED BY <2>1, <3>2 DEF GoesOn
  <2>2. CASE cur[f] # None
    <3>1. Goto(p, "stash") /\ At(p, "drop") /\ jobs' = jobs
      BY <1>1, <2>2 DEF DropPrev
    <3>2. \E t, u \in TaskRec : GoesOn(p, t, u, "stash") /\ t.step = "drop"
      BY <3>1, EdgeFacts DEF TInv, Edges
    <3> QED BY <3>2 DEF GoesOn
  <2> QED BY <2>1, <2>2
<1>3. PICK t, u \in TaskRec : /\ Becomes(p, t, u) /\ u.todo = t.todo /\ t.step = "drop"
                              /\ u.step \in {"place", "stash"} /\ (u.step = "place" => cur[f] = None)
  BY <1>2
<1>4. /\ cur' = cur /\ new' = new /\ collided' = collided
      /\ prev'[f] = prev[f] \/ prev'[f] = None
      /\ \A g \in Files : g # f => prev'[g] = prev[g]
  BY <1>1 DEF DropPrev, TInv, Typed, Slots
<1>5. task[p] = t /\ t # None /\ Shape(t) /\ task'[p] = u /\ Head(u.todo) = f /\ Head(t.todo) = f
  BY <1>1, <1>3 DEF Becomes, F
<1>6. t.comp \in Components /\ f \in FileSet(t.comp)
  BY <1>3, <1>5, FirstFile DEF Early, TaskRec
<1>7. Spares(t.comp, f)
  BY <1>4, <1>6, OnlyFileSpares DEF OnlyFile
<1>8. AboutFile(p, t, f)
  BY <1>3, <1>5 DEF AboutFile
<1>9. ASSUME t.comp \notin collided PROVE FileOK(t.comp, f)'
  <2>1. FileOK(t.comp, f) /\ \A q \in Procs : Owner(q, t.comp) <=> q = p
    BY <1>1, <1>3, <1>5, <1>9, AtHand DEF Early
  <2>2. Complete(new[f])
    BY <1>3, <1>5, <2>1 DEF FileOK, WorksOn, Owner, Moving
  <2>3. new[f].how = "swap" /\ new[f].writers = {}
    BY <2>1, <2>2 DEF FileOK, Complete
  <2>4. \A q \in Procs : q # p => ~Owner(q, t.comp)'
    BY <1>3, <2>1, OnlyOwner
  <2>5. Sound(t.comp, cur'[f]) /\ Sound(t.comp, prev'[f])
    BY <1>4, <2>1 DEF FileOK, Sound
  <2> QED BY <1>3, <1>4, <1>5, <2>2, <2>3, <2>4, <2>5, OwnFile DEF Moving
<1> QED BY <1>4, <1>7, <1>8, <1>9, LeavesAlone DEF TInv

\* f becomes f.prev, complete as it was.
LEMMA StashFiles ==
    ASSUME TInv, FilesOK, NEW p \in Procs, Stash(p)
    PROVE  FilesOK'
<1>1. PICK f \in Files : f = F(p)
  BY Working DEF Stash, Early, Steps
<1>2. PICK t, u \in TaskRec : GoesOn(p, t, u, "place") /\ t.step = "stash"
  BY EdgeFacts DEF Stash, Edges, TInv
<1>3. /\ new' = new /\ collided' = collided
      /\ prev'[f] = cur[f] /\ cur'[f] = None
      /\ \A g \in Files : g # f => prev'[g] = prev[g] /\ cur'[g] = cur[g]
  BY <1>1 DEF Stash, TInv, Typed, Slots
<1>4. /\ task[p] = t /\ t # None /\ Shape(t) /\ task'[p] = u /\ u.step = "place"
      /\ Head(u.todo) = f /\ Head(t.todo) = f
  BY <1>1, <1>2 DEF GoesOn, Becomes, F
<1>5. t.comp \in Components /\ f \in FileSet(t.comp)
  BY <1>2, <1>4, FirstFile DEF Early, TaskRec
<1>6. Spares(t.comp, f)
  BY <1>3, <1>5, OnlyFileSpares DEF OnlyFile
<1>7. AboutFile(p, t, f)
  BY <1>2, <1>4 DEF AboutFile, GoesOn
<1>8. ASSUME t.comp \notin collided PROVE FileOK(t.comp, f)'
  <2>1. FileOK(t.comp, f) /\ \A q \in Procs : Owner(q, t.comp) <=> q = p
    BY <1>1, <1>2, <1>4, <1>8, AtHand DEF Early
  <2>2. Complete(new[f])
    BY <1>2, <1>4, <2>1 DEF FileOK, WorksOn, Owner, Moving
  <2>3. new[f].how = "swap" /\ new[f].writers = {}
    BY <2>1, <2>2 DEF FileOK, Complete
  <2>4. \A q \in Procs : q # p => ~Owner(q, t.comp)'
    BY <1>2, <2>1, OnlyOwner DEF GoesOn
  <2>5. Sound(t.comp, cur'[f]) /\ Sound(t.comp, prev'[f])
    BY <1>3, <2>1 DEF FileOK, Sound
  <2> QED BY <1>3, <1>4, <2>2, <2>3, <2>4, <2>5, OwnFile DEF Moving
<1> QED BY <1>3, <1>6, <1>7, <1>8, LeavesAlone DEF TInv

\* A failed rename removes f.new and leaves f.
LEMMA StashErrorFiles ==
    ASSUME TInv, FilesOK, NEW p \in Procs, StashError(p)
    PROVE  FilesOK'
<1>1. PICK f \in Files : f = F(p)
  BY Working DEF StashError, Early, Steps
<1>2. PICK t \in TaskRec : Ends(p, t) /\ t.step = "stash"
  BY EndFacts DEF StashError, TInv
<1>3. /\ cur' = cur /\ prev' = prev /\ collided' = collided
      /\ new'[f] = None /\ \A g \in Files : g # f => new'[g] = new[g]
  BY <1>1 DEF StashError, TInv, Typed, Slots
<1>4. task[p] = t /\ t # None /\ Shape(t) /\ task'[p] = None /\ Head(t.todo) = f
  BY <1>1, <1>2 DEF Ends, F
<1>5. t.comp \in Components /\ f \in FileSet(t.comp)
  BY <1>2, <1>4, FirstFile DEF Early, TaskRec
<1>6. Spares(t.comp, f)
  BY <1>3, <1>5, OnlyFileSpares DEF OnlyFile
<1>7. AboutFile(p, t, f)
  BY <1>2, <1>4 DEF AboutFile
<1>8. ASSUME t.comp \notin collided PROVE FileOK(t.comp, f)'
  <2>1. FileOK(t.comp, f) /\ \A q \in Procs : Owner(q, t.comp) <=> q = p
    BY <1>1, <1>2, <1>4, <1>8, AtHand DEF Early
  <2>2. \A q \in Procs : q # p => ~Owner(q, t.comp)'
    BY <1>2, <2>1, OnlyOwner
  <2>3. Sound(t.comp, cur'[f]) /\ Sound(t.comp, prev'[f])
    BY <1>3, <2>1 DEF FileOK
  <2>4. ~WorksOn(p, t.comp, f)'
    BY <1>4 DEF WorksOn, Owner
  <2> QED BY <1>3, <2>2, <2>3, <2>4, OwnFile
<1> QED BY <1>3, <1>6, <1>7, <1>8, LeavesAlone DEF TInv

\* f.new, complete, becomes f.
LEMMA PlaceFiles ==
    ASSUME TInv, FilesOK, NEW p \in Procs, Place(p)
    PROVE  FilesOK'
<1>1. PICK f \in Files : f = F(p)
  BY Working DEF Place, Early, Steps
<1>2. PICK t, u \in TaskRec : /\ Becomes(p, t, u) /\ t.step = "place"
                              /\ u.step \in {"open", "copy", "state", "keep", "label"}
  BY AfterFileFacts DEF Place, TInv
<1>3. /\ prev' = prev /\ collided' = collided
      /\ cur'[f] = new[f] /\ new'[f] = None
      /\ \A g \in Files : g # f => new'[g] = new[g] /\ cur'[g] = cur[g]
  BY <1>1 DEF Place, TInv, Typed, Slots
<1>4. task[p] = t /\ t # None /\ Shape(t) /\ task'[p] = u /\ Head(t.todo) = f
  BY <1>1, <1>2 DEF Becomes, F
<1>5. t.comp \in Components /\ f \in FileSet(t.comp)
  BY <1>2, <1>4, FirstFile DEF Early, TaskRec
<1>6. Spares(t.comp, f)
  BY <1>3, <1>5, OnlyFileSpares DEF OnlyFile
<1>7. AboutFile(p, t, f)
  BY <1>2, <1>4 DEF AboutFile, Moving
<1>8. ASSUME t.comp \notin collided PROVE FileOK(t.comp, f)'
  <2>1. FileOK(t.comp, f) /\ \A q \in Procs : Owner(q, t.comp) <=> q = p
    BY <1>1, <1>2, <1>4, <1>8, AtHand DEF Early
  <2>2. Complete(new[f]) /\ new[f].how = "swap"
    BY <1>2, <1>4, <2>1 DEF FileOK, WorksOn, Owner, Moving, Complete
  <2>3. \A q \in Procs : q # p => ~Owner(q, t.comp)'
    BY <1>2, <2>1, OnlyOwner
  <2>4. Sound(t.comp, cur'[f]) /\ Sound(t.comp, prev'[f])
    BY <1>3, <2>1, <2>2 DEF FileOK, Sound
  <2>5. ~WorksOn(p, t.comp, f)'
    BY <1>2, <1>4 DEF WorksOn, Moving
  <2> QED BY <1>3, <2>3, <2>4, <2>5, OwnFile
<1> QED BY <1>3, <1>6, <1>7, <1>8, LeavesAlone DEF TInv

\* What a step that moves f.prev back leaves of the names.
LEMMA MovedBack ==
    ASSUME Typed, NEW f \in Files, MoveBack(f)
    PROVE  /\ (cur'[f] = cur[f] /\ prev'[f] = prev[f] /\ prev[f] = None)
                \/ (cur'[f] = prev[f] /\ prev'[f] = None /\ prev[f] # None)
           /\ \A g \in Files : g # f => cur'[g] = cur[g] /\ prev'[g] = prev[g]
BY DEF MoveBack, Typed, Slots

\* f.prev, complete as it was, becomes f again.
LEMMA MoveBackFiles ==
    ASSUME TInv, FilesOK, NEW p \in Procs, NEW t \in TaskRec, NEW f,
           t.comp \in Components, f \in FileSet(t.comp),
           MoveBack(f), new' = new, collided' = collided, task[p] = t, t # None, t.step # "close",
           t.step \in Moving => Head(t.todo) = f,
           (\E u : Becomes(p, t, u) /\ u.step \notin Moving \cup {"close"}) \/ Ends(p, t)
    PROVE  FilesOK'
<1>1. f \in Files
  BY FilesOfFacts
<1>2. /\ (cur'[f] = cur[f] /\ prev'[f] = prev[f]) \/ (cur'[f] = prev[f] /\ prev'[f] = None)
      /\ \A g \in Files : g # f => cur'[g] = cur[g] /\ prev'[g] = prev[g]
  BY <1>1, MovedBack DEF TInv
<1>3. Spares(t.comp, f)
  BY <1>2, OnlyFileSpares DEF OnlyFile
<1>4. AboutFile(p, t, f)
  BY DEF AboutFile
<1>5. ASSUME t.comp \notin collided PROVE FileOK(t.comp, f)'
  <2>1. FileOK(t.comp, f) /\ Alone(t.comp)
    BY <1>5 DEF FilesOK
  <2>2. \A q \in Procs : Owner(q, t.comp) <=> q = p
    BY <2>1 DEF Alone, Owner
  <2>3. \A q \in Procs : q # p => ~Owner(q, t.comp)'
    BY <2>2, OnlyOwner
  <2>4. Sound(t.comp, cur'[f]) /\ Sound(t.comp, prev'[f])
    BY <1>2, <2>1 DEF FileOK, Sound
  <2>5. ~WorksOn(p, t.comp, f)'
    BY DEF WorksOn, Becomes, Ends, Owner
  <2>6. new[f] # None => new[f].how = "swap" /\ new[f].writers = {}
    BY <2>1, <2>2, NoWriters DEF TInv
  <2> QED BY <2>3, <2>4, <2>5, <2>6, OwnFile
<1> QED BY <1>3, <1>4, <1>5, LeavesAlone DEF TInv

\* A step that copies, or is done copying, geodata files.
LEMMA CopyingFiles ==
    ASSUME TInv, FilesOK, NEW p \in Procs, CopyGeodata(p) \/ CopiedGeodata(p) \/ CopyError(p)
    PROVE  FilesOK'
<1>1. PICK t, u \in TaskRec : Becomes(p, t, u) /\ t.step \in Copying /\ u.step \in {"copied", "copy", "state"}
  <2>1. CASE CopyGeodata(p)
    <3>1. \E t, u \in TaskRec : GoesOn(p, t, u, "copied") /\ t.step = "copy"
      BY <2>1, EdgeFacts DEF CopyGeodata, Edges, TInv
    <3> QED BY <3>1 DEF GoesOn, Copying
  <2>2. CASE CopiedGeodata(p) \/ CopyError(p)
    <3>1. At(p, "copied") /\ AfterCopy(p) /\ jobs' = jobs
      BY <2>2 DEF CopiedGeodata, CopyError
    <3> QED BY <3>1, AfterCopyFacts DEF TInv, Copying
  <2> QED BY <2>1, <2>2
<1>2. PICK f : f = F(p)
  OBVIOUS
<1>3. task[p] = t /\ t # None /\ f = Head(t.todo) /\ f \in GeoFiles /\ f \in Files /\ t.step # "close"
  BY <1>1, <1>2, FirstFile DEF Becomes, F, Copying
<1>4. collided' = collided
  BY DEF CopyGeodata, CopiedGeodata, CopyError
<1>5. ASSUME NEW d \in Components \ collided, NEW g \in FileSet(d)
      PROVE  /\ new'[g] = new[g]
             /\ cur'[g] = cur[g] \/ Copied(d, cur'[g])
             /\ prev'[g] = prev[g] \/ Copied(d, prev'[g])
  <2>1. g \in Files /\ (g = f => d = "geodata")
    BY <1>3, FilesOfFacts, UpdaterAssumption DEF FileSet, GeoFiles, Components
  <2>2. CASE CopyGeodata(p)
    <3>1. task[p].ver \in Versions
      BY <2>2, Working DEF CopyGeodata, Steps
    <3>2. PICK x \in File \cup {None} : x = cur[f]
      BY <1>3 DEF TInv, Typed, Slots
    <3>5. Opened(x, p, "copy") \in File /\ Opened(x, p, "copy").how = "copy"
      BY <3>1, OpenedFacts
    <3>3. PICK w \in File : w = Opened(x, p, "copy") /\ w.how = "copy"
      BY <3>5
    <3>4. cur'[f] = w /\ (\A h \in Files : h # f => cur'[h] = cur[h]) /\ new' = new /\ prev' = prev
      BY <1>2, <1>3, <2>2, <3>2, <3>3 DEF CopyGeodata, TInv, Typed, Slots
    <3> QED BY <2>1, <3>3, <3>4 DEF Copied
  <2>3. CASE CopiedGeodata(p)
    BY <1>3, <2>3, ClosingOthers DEF CopiedGeodata, TInv
  <2>4. CASE CopyError(p)
    <3>1. ClosedBy(cur, p) \in Slots
      BY SlotFacts DEF TInv, Typed
    <3>2. cur'[f] = None /\ \A h \in Files : h # f => cur'[h] = ClosedBy(cur, p)[h]
      BY <1>2, <1>3, <2>4, <3>1 DEF CopyError, Slots
    <3>3. /\ ClosedBy(new, p)[g] = new[g]
          /\ ClosedBy(cur, p)[g] = cur[g] \/ Copied(d, ClosedBy(cur, p)[g])
          /\ ClosedBy(prev, p)[g] = prev[g] \/ Copied(d, ClosedBy(prev, p)[g])
      BY <1>3, ClosingOthers DEF TInv
    <3>4. new' = ClosedBy(new, p) /\ prev' = ClosedBy(prev, p)
      BY <2>4 DEF CopyError
    <3> QED BY <2>1, <3>2, <3>3, <3>4 DEF Copied
  <2> QED BY <2>2, <2>3, <2>4
<1>6. Spares(t.comp, "geodata")
  BY <1>5 DEF Spares
<1>7. AboutFile(p, t, "geodata")
  BY <1>1 DEF AboutFile, Moving, Copying
<1>8. \A d \in Components : "geodata" \notin FileSet(d)
  BY UpdaterAssumption DEF FileSet, GeoFiles, Components
<1> QED BY <1>4, <1>6, <1>7, <1>8, LeavesAlone DEF TInv

\* A move back that fails leaves every file where it is.
LEMMA MoveBackErrorFiles ==
    ASSUME TInv, FilesOK, NEW p \in Procs, MoveBackError(p)
    PROVE  FilesOK'
<1>1. PICK f \in Files : f = F(p)
  BY Working DEF MoveBackError, Early, Steps
<1>2. PICK t \in TaskRec : Ends(p, t) /\ t.step = "place"
  BY EndFacts DEF MoveBackError, TInv
<1>3. cur' = cur /\ new' = new /\ prev' = prev /\ collided' = collided
  BY DEF MoveBackError, files
<1>4. task[p] = t /\ t # None /\ Shape(t) /\ task'[p] = None /\ Head(t.todo) = f
  BY <1>1, <1>2 DEF Ends, F
<1>5. t.comp \in Components /\ f \in FileSet(t.comp)
  BY <1>2, <1>4, FirstFile DEF Early, TaskRec
<1>6. Spares(t.comp, f)
  BY <1>3 DEF Spares
<1>7. AboutFile(p, t, f)
  BY <1>2, <1>4 DEF AboutFile
<1>8. ASSUME t.comp \notin collided PROVE FileOK(t.comp, f)'
  <2>1. FileOK(t.comp, f) /\ \A q \in Procs : Owner(q, t.comp) <=> q = p
    BY <1>1, <1>2, <1>4, <1>8, AtHand DEF Early
  <2>2. \A q \in Procs : q # p => ~Owner(q, t.comp)'
    BY <1>2, <2>1, OnlyOwner
  <2>3. Sound(t.comp, cur'[f]) /\ Sound(t.comp, prev'[f])
    BY <1>3, <2>1 DEF FileOK
  <2>4. ~WorksOn(p, t.comp, f)'
    BY <1>4 DEF WorksOn, Owner
  <2>5. new'[f] # None => new'[f].how = "swap" /\ new'[f].writers = {}
    <3>1. WorksOn(p, t.comp, f)
      BY <1>2, <1>4 DEF WorksOn, Owner, Moving
    <3> QED BY <1>2, <1>3, <1>4, <2>1, <3>1 DEF FileOK, Complete, Moving
  <2> QED BY <2>2, <2>3, <2>4, <2>5, OwnFile
<1> QED BY <1>3, <1>6, <1>7, <1>8, LeavesAlone DEF TInv

\* SwapFile keeps the files sound.
LEMMA SwapFiles ==
    ASSUME TInv, FilesOK, NEW p \in Procs, Swap(p)
    PROVE  FilesOK'
<1>1. CASE Fetch(p)
  <2>1. PICK t, u \in TaskRec : GoesOn(p, t, u, "open") /\ t.step = "fetch"
    BY <1>1, EdgeFacts DEF Fetch, Edges, TInv
  <2> QED BY <1>1, <2>1, QuietFiles DEF Fetch, GoesOn, TInv, Moving
<1>2. CASE FetchError(p)
  <2>1. PICK t \in TaskRec : Ends(p, t) /\ t.step = "fetch"
    BY <1>2, EndFacts DEF FetchError, TInv
  <2> QED BY <1>2, <2>1, QuietFiles DEF FetchError, TInv, Moving
<1>3. CASE PlaceError(p)
  <2>1. PICK t \in TaskRec : Ends(p, t) /\ t.step = "place"
    BY <1>3, EndFacts DEF PlaceError, TInv
  <2>2. PICK f : f = F(p)
    OBVIOUS
  <2>3. task[p] = t /\ t # None /\ t.comp \in Components /\ f = Head(t.todo) /\ f \in FileSet(t.comp)
    BY <2>1, <2>2, FirstFile DEF Ends, F, Early, TaskRec
  <2>4. MoveBack(f) /\ new' = new /\ collided' = collided
    BY <1>3, <2>2 DEF PlaceError
  <2> QED BY <2>1, <2>3, <2>4, MoveBackFiles
<1>4. CASE MoveBackError(p)
  BY <1>4, MoveBackErrorFiles
<1> QED BY <1>1, <1>2, <1>3, <1>4, OpenFiles, CloseFiles, WriteErrorFiles, DropFiles, StashFiles,
           StashErrorFiles, PlaceFiles DEF Swap

\* So does what follows the files.
LEMMA AfterFiles ==
    ASSUME TInv, FilesOK, NEW p \in Procs, After(p)
    PROVE  FilesOK'
<1>1. CASE CopyGeodata(p) \/ CopiedGeodata(p) \/ CopyError(p)
  BY <1>1, CopyingFiles
<1>2. CASE Restore(p)
  <2>1. PICK t, u \in TaskRec : GoesOn(p, t, u, "again") /\ t.step = "restore"
    BY <1>2, EdgeFacts DEF Restore, Edges, TInv
  <2>2. PICK f : f = Comp(p)
    OBVIOUS
  <2>3. task[p] = t /\ t # None /\ t.comp = f /\ t.comp \in Components /\ f \in FileSet(t.comp)
    <3>1. task[p] = t /\ t # None /\ Shape(t) /\ t.comp = f /\ t.comp \in Components
      BY <2>1, <2>2 DEF GoesOn, Becomes, Comp, TaskRec
    <3>2. t.comp \in Binaries
      BY <2>1, <3>1 DEF Shape, Late
    <3> QED BY <3>1, <3>2, UpdaterAssumption DEF FileSet
  <2>4. MoveBack(f) /\ new' = new /\ collided' = collided
    BY <1>2, <2>2 DEF Restore
  <2>5. t.step # "close" /\ t.step \notin Moving /\ u.step \notin Moving \cup {"close"} /\ Becomes(p, t, u)
    BY <2>1 DEF Moving, GoesOn
  <2> QED BY <2>3, <2>4, <2>5, MoveBackFiles
<1>3. CASE KeepLabel(p)
  <2>1. PICK t, u \in TaskRec : GoesOn(p, t, u, "label") /\ t.step = "keep"
    BY <1>3, EdgeFacts DEF KeepLabel, Edges, TInv
  <2> QED BY <1>3, <2>1, QuietFiles DEF KeepLabel, GoesOn, TInv, Moving
<1>4. CASE WriteLabel(p) \/ WriteLabelError(p)
  <2>1. PICK t \in TaskRec : Ends(p, t) /\ t.step = "label"
    BY <1>4, EndFacts DEF WriteLabel, WriteLabelError, TInv
  <2> QED BY <1>4, <2>1, QuietFiles DEF WriteLabel, WriteLabelError, TInv, Moving
<1>5. CASE ReadState(p)
  <2>1. CASE Finish(p, "succeeded")
    <3>1. PICK t \in TaskRec : Ends(p, t) /\ t.step = "state"
      BY <1>5, <2>1, EndFacts DEF ReadState, TInv
    <3> QED BY <1>5, <3>1, QuietFiles DEF ReadState, TInv, Moving
  <2>2. CASE Goto(p, "restart") /\ jobs' = jobs
    <3>1. PICK t, u \in TaskRec : GoesOn(p, t, u, "restart") /\ t.step = "state"
      BY <1>5, <2>2, EdgeFacts DEF ReadState, Edges, TInv
    <3> QED BY <1>5, <3>1, QuietFiles DEF ReadState, GoesOn, TInv, Moving
  <2> QED BY <1>5, <2>1, <2>2 DEF ReadState
<1>6. CASE ReadStateError(p)
  <2>1. PICK t \in TaskRec : Ends(p, t) /\ t.step = "state"
    BY <1>6, EndFacts DEF ReadStateError, TInv
  <2> QED BY <1>6, <2>1, QuietFiles DEF ReadStateError, TInv, Moving
<1>7. CASE Restart(p) \/ RestartError(p)
  <2>1. PICK s \in {"settle", "restore"} : Goto(p, s) /\ At(p, "restart") /\ jobs' = jobs
    BY <1>7 DEF Restart, RestartError
  <2>2. PICK t, u \in TaskRec : GoesOn(p, t, u, s) /\ t.step = "restart"
    BY <2>1, EdgeFacts DEF Edges, TInv
  <2>3. u.step \notin Moving \cup {"close"} /\ t.step \notin Moving \cup {"close"} /\ Becomes(p, t, u)
    BY <2>1, <2>2 DEF Moving, GoesOn
  <2>4. UNCHANGED <<files, collided>>
    BY <1>7 DEF Restart, RestartError
  <2> QED BY <2>3, <2>4, QuietFiles DEF TInv
<1>8. CASE Settle(p) \/ SettleError(p)
  <2>1. UNCHANGED <<files, collided>> /\ At(p, "settle")
    BY <1>8 DEF Settle, SettleError
  <2>2. CASE Finish(p, "succeeded")
    <3>1. PICK t \in TaskRec : Ends(p, t) /\ t.step = "settle"
      BY <2>1, <2>2, EndFacts DEF TInv
    <3> QED BY <2>1, <3>1, QuietFiles DEF TInv, Moving
  <2>3. CASE Goto(p, "restore") /\ jobs' = jobs
    <3>1. PICK t, u \in TaskRec : GoesOn(p, t, u, "restore") /\ t.step = "settle"
      BY <2>1, <2>3, EdgeFacts DEF Edges, TInv
    <3> QED BY <2>1, <3>1, QuietFiles DEF GoesOn, TInv, Moving
  <2> QED BY <1>8, <2>2, <2>3 DEF Settle, SettleError
<1>9. CASE RestoreError(p)
  <2>1. PICK t \in TaskRec : Ends(p, t) /\ t.step = "restore"
    BY <1>9, EndFacts DEF RestoreError, TInv
  <2> QED BY <1>9, <2>1, QuietFiles DEF RestoreError, TInv, Moving
<1>10. CASE RestartAgain(p) \/ RestartAgainError(p)
  <2>1. At(p, "again") /\ Finish(p, "restored") /\ UNCHANGED <<files, collided>>
    BY <1>10 DEF RestartAgain, RestartAgainError
  <2>2. PICK t \in TaskRec : Ends(p, t) /\ t.step = "again"
    BY <2>1, EndFacts DEF TInv
  <2> QED BY <2>1, <2>2, QuietFiles DEF TInv, Moving
<1> QED BY <1>1, <1>2, <1>3, <1>4, <1>5, <1>6, <1>7, <1>8, <1>9, <1>10 DEF After

\* So does a rollback.
LEMMA BackFiles ==
    ASSUME TInv, FilesOK, NEW p \in Procs, Back(p)
    PROVE  FilesOK'
<1>1. CASE Rollback(p)
  <2>1. PICK t, u \in TaskRec : Becomes(p, t, u) /\ t.step = "back" /\ u.step \in {"back", "label", "bounce"}
    BY <1>1, RollbackFacts DEF TInv
  <2>2. PICK f : f = F(p)
    OBVIOUS
  <2>3. task[p] = t /\ t # None /\ t.comp \in Components /\ f = Head(t.todo) /\ f \in FileSet(t.comp)
    BY <2>1, <2>2, FirstFile DEF Becomes, F, Early, TaskRec
  <2>4. MoveBack(f) /\ new' = new /\ collided' = collided
    BY <1>1, <2>2 DEF Rollback
  <2>5. t.step # "close" /\ t.step \notin Moving /\ u.step \notin Moving \cup {"close"}
    BY <2>1 DEF Moving
  <2> QED BY <2>1, <2>3, <2>4, <2>5, MoveBackFiles
<1>2. CASE RollbackError(p)
  <2>1. PICK t \in TaskRec : Ends(p, t) /\ t.step = "back"
    BY <1>2, EndFacts DEF RollbackError, TInv
  <2> QED BY <1>2, <2>1, QuietFiles DEF RollbackError, TInv, Moving
<1>3. CASE RollbackLabel(p)
  <2>1. PICK t \in TaskRec : Ends(p, t) /\ t.step = "label"
    BY <1>3, EndFacts DEF RollbackLabel, TInv
  <2> QED BY <1>3, <2>1, QuietFiles DEF RollbackLabel, TInv, Moving
<1>4. CASE Bounce(p) \/ BounceError(p)
  <2>1. PICK r \in {"succeeded", "failed"} : Finish(p, r) /\ At(p, "bounce")
    BY <1>4 DEF Bounce, BounceError
  <2>2. PICK t \in TaskRec : Ends(p, t) /\ t.step = "bounce"
    BY <2>1, EndFacts DEF TInv
  <2>3. UNCHANGED <<files, collided>>
    BY <1>4 DEF Bounce, BounceError
  <2> QED BY <2>2, <2>3, QuietFiles DEF TInv, Moving
<1> QED BY <1>1, <1>2, <1>3, <1>4 DEF Back

\* A start leaves the files alone, and a component with two owners is marked.
LEMMA StartFiles ==
    ASSUME TInv, FilesOK, NEW p \in Procs, NEW c \in Components, NEW u, Begins(p, c, u), Meets(p, c),
           cur' = cur, new' = new, prev' = prev
    PROVE  FilesOK'
<1> SUFFICES ASSUME NEW d \in Components, d \notin collided'
             PROVE  Alone(d)' /\ \A g \in FileSet(d) : FileOK(d, g)'
  BY DEF FilesOK
<1>1. d \notin collided /\ (d = c => \A q \in Procs : q # p => ~Owner(q, c))
  BY DEF Meets, Comp, Owner
<1>2. Alone(d)'
  BY <1>1 DEF FilesOK, Alone, Begins, Others, Owner
<1>3. ASSUME NEW g \in FileSet(d) PROVE FileOK(d, g)'
  <2>1. \A q \in Procs : task'[q] = task[q] \/ (~WorksOn(q, d, g) /\ ~WorksOn(q, d, g)')
    BY DEF Begins, Others, WorksOn, Owner, Moving
  <2>2. FileOK(d, g) /\ (new[g] # None => new[g].writers \subseteq Procs)
    BY <1>1, <1>3, FileTypes DEF FilesOK, TInv
  <2> QED BY <1>3, <2>1, <2>2, FileFrame
<1> QED BY <1>2, <1>3

\* A crash leaves what was being written torn, and nothing that was swapped in
\* was being written.
LEMMA CrashFiles ==
    ASSUME TInv, FilesOK, Crash
    PROVE  FilesOK'
<1>1. /\ cur' = Abandoned(cur) /\ new' = Abandoned(new) /\ prev' = Abandoned(prev) /\ collided' = collided
      /\ \A q \in Procs : task'[q] = None
  BY DEF Crash
<1>2. ASSUME NEW h \in Slots, NEW g \in Files, h[g] # None
      PROVE  /\ Complete(h[g]) => Abandoned(h)[g] = h[g]
             /\ Abandoned(h)[g] # None /\ Abandoned(h)[g].how = h[g].how /\ Abandoned(h)[g].writers = {}
  <2>1. PICK r \in File : r = h[g]
    BY <1>2 DEF Slots
  <2>2. PICK w : w = [r EXCEPT !.writers = {}, !.torn = TRUE]
    OBVIOUS
  <2>3. w \in File /\ w.how = r.how /\ w.writers = {} /\ w # None
    <3>1. w \in File /\ w.how = r.how /\ w.writers = {}
      BY <2>2 DEF File
    <3> QED BY <3>1, NoneIsNoRecord
  <2>4. Abandoned(h)[g] = IF r.writers = {} THEN r ELSE w
    BY <1>2, <2>1, <2>2 DEF Abandoned
  <2> QED BY <1>2, <2>1, <2>3, <2>4 DEF Complete
<1> SUFFICES ASSUME NEW d \in Components, d \notin collided
             PROVE  Alone(d)' /\ \A g \in FileSet(d) : FileOK(d, g)'
  BY <1>1 DEF FilesOK
<1>3. Alone(d)' /\ \A q \in Procs : ~Owner(q, d)'
  BY <1>1 DEF Alone, Owner
<1>4. ASSUME NEW g \in FileSet(d) PROVE FileOK(d, g)'
  <2>1. FileOK(d, g) /\ g \in Files /\ cur \in Slots /\ new \in Slots /\ prev \in Slots
    BY <1>4, FilesOfFacts DEF FilesOK, TInv, Typed
  <2>2. ASSUME NEW h \in Slots, Sound(d, h[g]) PROVE Sound(d, Abandoned(h)[g])
    <3>1. CASE h[g] = None
      BY <2>1, <3>1 DEF Abandoned, Sound
    <3>2. CASE h[g] # None
      BY <1>2, <2>1, <2>2, <3>2 DEF Sound
    <3> QED BY <3>1, <3>2
  <2>3. Sound(d, cur'[g]) /\ Sound(d, prev'[g])
    BY <1>1, <2>1, <2>2 DEF FileOK
  <2>4. new'[g] # None => new'[g].how = "swap" /\ new'[g].writers = {}
    <3>1. new[g] = None => new'[g] = None
      BY <1>1, <2>1 DEF Abandoned
    <3> QED BY <1>1, <1>2, <2>1, <3>1 DEF FileOK
  <2> QED BY <1>3, <2>3, <2>4 DEF FileOK, WorksOn
<1> QED BY <1>3, <1>4

\* Every step keeps the files sound.
LEMMA NextFiles ==
    ASSUME TInv, FilesOK, [Next]_vars
    PROVE  FilesOK'
<1>1. ASSUME UNCHANGED <<files, task, collided>> PROVE FilesOK'
  BY <1>1 DEF FilesOK, Alone, Owner, FileOK, WorksOn, files
<1>2. CASE UNCHANGED vars
  BY <1>1, <1>2 DEF vars, files
<1>3. CASE \E c \in Components : StartJob(c)
  <2>1. PICK c \in Components : StartJob(c)
    BY <1>3
  <2>2. PICK act, s : Started(c, act, s)
    BY <2>1, StartFacts
  <2> QED BY <2>2, StartFiles DEF Started, Procs
<1>4. CASE \E c \in Components : Seed(c)
  <2>1. PICK c \in Components : Seed(c)
    BY <1>4
  <2>2. PICK u : Begins("seed", c, u)
    BY <2>1, SeedFacts
  <2> QED BY <2>1, <2>2, SeedFacts, StartFiles DEF Procs
<1>5. CASE \E b \in Binaries : EnvUnit(b)
  BY <1>1, <1>5 DEF EnvUnit, UnitRestarts, UnitDies
<1>6. "job" \in Procs
  BY DEF Procs
<1> QED BY <1>2, <1>3, <1>4, <1>5, <1>6, NextCases, SwapFiles, AfterFiles, BackFiles, CrashFiles

\* There are none initially.
LEMMA InitFiles == Init => FilesOK
<1> SUFFICES ASSUME Init PROVE FilesOK
  OBVIOUS
<1>1. \A c \in Components : FileSet(c) \subseteq Files
  BY FilesOfFacts
<1> QED BY <1>1 DEF Init, FilesOK, Alone, Owner, FileOK, WorksOn, Sound, Procs

\* Whatever fails and wherever the process dies, a file that was swapped in is
\* complete: its writer had closed it before it was moved, and nobody opens it
\* again where it is, unless the seeding and a job work on the component at once.
THEOREM InstalledFilesAreWhole == Spec => []InstalledIsWhole
<1>1. TInv /\ FilesOK => InstalledIsWhole
  <2> SUFFICES ASSUME TInv, FilesOK, NEW c \in Components \ collided, NEW f \in Range(FilesOf(c)),
                      cur[f] # None, cur[f].how = "swap"
               PROVE  Whole(f)
    BY DEF InstalledIsWhole
  <2>1. f \in FileSet(c)
    BY FilesOfFacts
  <2> QED BY <2>1 DEF FilesOK, FileOK, Sound, Whole
<1>2. Init => TInv /\ FilesOK
  BY InitTyped, InitFiles
<1>3. TInv /\ FilesOK /\ [Next]_vars => TInv' /\ FilesOK'
  BY NextTyped, NextFiles
<1> QED BY <1>1, <1>2, <1>3, PTL DEF Spec

-------------------------------------------------------------------------------
(* One binary: what the steps of its owner do to it, and what the others do. *)

SameFiles(b) == cur'[b] = cur[b] /\ prev'[b] = prev[b]
SameUnit(b) == unit'[b] = unit[b] /\ (b \in loose' <=> b \in loose)
TakenBack(b) == prev[b] # None /\ cur'[b] = prev[b] /\ prev'[b] = None

\* The owner of b goes from step s to step r.
Go(b, s, r) ==
    \/ /\ <<s, r>> \in {<<"fetch", "open">>, <<"open", "close">>, <<"close", "drop">>,
                        <<"copy", "copied">>, <<"copied", "copy">>, <<"copied", "state">>,
                        <<"state", "restart">>, <<"settle", "restore">>}
       /\ SameFiles(b) /\ SameUnit(b)
    \/ s = "drop" /\ r = "place" /\ cur[b] = None /\ SameFiles(b) /\ SameUnit(b)
    \/ s = "drop" /\ r = "stash" /\ cur[b] # None /\ cur'[b] = cur[b] /\ prev'[b] = None /\ SameUnit(b)
    \/ s = "stash" /\ r = "place" /\ cur[b] # None /\ prev'[b] = cur[b] /\ cur'[b] = None /\ SameUnit(b)
    \/ s = "place" /\ r \in {"copy", "state"} /\ Complete(cur'[b]) /\ prev'[b] = prev[b] /\ SameUnit(b)
    \/ /\ s = "restart" /\ r \in {"settle", "restore"} /\ SameFiles(b)
       /\ unit'[b] \in {Runs(b), None} \/ b \in loose'
    \/ s = "restore" /\ r = "again" /\ TakenBack(b) /\ SameUnit(b)
    \/ s = "back" /\ r = "bounce" /\ TakenBack(b) /\ SameUnit(b)

\* The owner of b ends at step s with a result.
End(b, s, res) ==
    \/ s \in {"fetch", "close", "stash", "back"} /\ res = "failed" /\ SameFiles(b) /\ SameUnit(b)
    \/ /\ s = "place" /\ res = "failed" /\ SameUnit(b)
       /\ TakenBack(b) \/ (prev[b] = None /\ SameFiles(b))
    \/ s = "place" /\ res = "gone" /\ SameFiles(b) /\ b \in loose'
    \/ /\ s = "state" /\ res = "succeeded" /\ SameFiles(b) /\ unit'[b] = unit[b]
       /\ unit[b] = None \/ b \in loose'
    \/ s = "settle" /\ res = "succeeded" /\ SameFiles(b) /\ SameUnit(b)
    \/ s = "restore" /\ res = "stuck" /\ SameFiles(b) /\ SameUnit(b)
    \/ s = "again" /\ res = "restored" /\ SameFiles(b) /\ (unit'[b] = Runs(b) \/ b \in loose')
    \/ /\ s = "bounce" /\ res \in {"succeeded", "failed"} /\ SameFiles(b)
       /\ unit'[b] \in {Runs(b), None} \/ b \in loose'

\* The table of jobs after an end.
Result(p, b, res) ==
    /\ p # "job" => jobs' = jobs
    /\ p = "job" => \E j \in Job : /\ j = jobs[b]
                                   /\ jobs' = [jobs EXCEPT ![b] =
                                         [state |-> res, before |-> IF res = "succeeded" THEN None ELSE j.before]]

Turn(p, b) ==
    \/ \E t, u \in TaskRec : Becomes(p, t, u) /\ t.comp = b /\ Go(b, t.step, u.step) /\ jobs' = jobs
    \/ \E t \in TaskRec : \E res \in Results :
         Ends(p, t) /\ t.comp = b /\ End(b, t.step, res) /\ Result(p, b, res)

\* What the steps of a process do to the binary of another component.
Elsewhere(p, b) ==
    /\ SameFiles(b) /\ SameUnit(b) /\ jobs'[b] = jobs[b]
    /\ Others(p) /\ ~Owner(p, b) /\ ~Owner(p, b)'

\* The file at hand is not the binary of another component.
LEMMA NotMine ==
    ASSUME TInv, NEW p \in Procs, NEW s \in Early \cup Copying, At(p, s), NEW b \in Binaries
    PROVE  /\ F(p) \in Files /\ b \in Files /\ b \in Components
           /\ (s \in Copying \/ ~Owner(p, b)) => F(p) # b
           /\ Owner(p, b) /\ s \in Early => F(p) = b
<1>1. PICK t \in TaskRec : t = task[p] /\ t # None /\ t.step = s /\ Shape(t)
  BY AtFacts DEF TInv
<1>2. b \in Components /\ b \in Files /\ b \in FileSet(b) /\ b \notin GeoFiles /\ b # "geodata"
  BY UpdaterAssumption DEF Components, Files, FileSet, GeoFiles
<1>3. CASE s \in Early
  <2>1. F(p) = Head(t.todo) /\ F(p) \in FileSet(t.comp) /\ F(p) \in Files /\ t.comp \in Components
    BY <1>1, <1>3, FirstFile DEF F, TaskRec
  <2>2. s \notin Copying
    BY <1>3 DEF Early, Copying
  <2>3. t.comp # b => F(p) # b
    BY <1>2, <2>1, Apart
  <2>4. t.comp = b => F(p) = b
    BY <1>2, <2>1 DEF FileSet
  <2> QED BY <1>1, <1>2, <2>1, <2>2, <2>3, <2>4 DEF Owner
<1>4. CASE s \in Copying
  <2>1. F(p) = Head(t.todo) /\ F(p) \in GeoFiles /\ F(p) \in Files
    BY <1>1, <1>4, FirstFile DEF F
  <2>2. s \notin Early
    BY <1>4 DEF Early, Copying
  <2> QED BY <1>2, <2>1, <2>2
<1> QED BY <1>3, <1>4

\* Closing does not touch a binary, which is not written where it is.
LEMMA BinClosed ==
    ASSUME TInv, FilesOK, NEW p \in Procs, NEW b \in Binaries \ collided
    PROVE  ClosedBy(cur, p)[b] = cur[b] /\ ClosedBy(prev, p)[b] = prev[b]
<1>1. b \in Components \ collided /\ b \in FileSet(b) /\ b # "geodata"
  BY UpdaterAssumption DEF Components, FileSet
<1> QED BY <1>1, ClosingOthers DEF TInv, Copied

\* The end of p's task, as seen from the binary of another component.
LEMMA EndElsewhere ==
    ASSUME TInv, NEW p \in Procs, NEW s, At(p, s), NEW r \in Results,
           Finish(p, r), NEW b \in Binaries, ~Owner(p, b)
    PROVE  jobs'[b] = jobs[b] /\ Others(p) /\ ~Owner(p, b)'
<1>1. PICK t \in TaskRec :
                /\ Ends(p, t) /\ t.step = s
                /\ p = "job" => \E j \in Job : /\ j = jobs[t.comp]
                                               /\ jobs' = [jobs EXCEPT ![t.comp] =
                                                     [state |-> r, before |-> IF r = "succeeded" THEN None ELSE j.before]]
                /\ p # "job" => jobs' = jobs
  BY EndFacts DEF TInv
<1>2. t.comp # b /\ b \in Components
  BY <1>1 DEF Ends, Owner, Components
<1> QED BY <1>1, <1>2 DEF Ends, Owner, TInv, JobsOK

\* So with a task that goes on.
LEMMA GoElsewhere ==
    ASSUME NEW p \in Procs, NEW t, NEW u, Becomes(p, t, u), NEW b, ~Owner(p, b)
    PROVE  Others(p) /\ ~Owner(p, b)'
BY DEF Becomes, Owner

\* So with one that goes to another step.
LEMMA GotoElsewhere ==
    ASSUME TInv, NEW p \in Procs, NEW s, NEW r, <<s, r>> \in Edges, At(p, s), Goto(p, r), jobs' = jobs,
           NEW b, ~Owner(p, b)
    PROVE  Others(p) /\ ~Owner(p, b)'
<1>1. PICK t, u \in TaskRec : GoesOn(p, t, u, r) /\ t.step = s
  BY EdgeFacts DEF TInv
<1> QED BY <1>1, GoElsewhere DEF GoesOn

\* A swap of another component leaves the binary alone.
LEMMA SwapElsewhere ==
    ASSUME TInv, FilesOK, NEW p \in Procs, Swap(p), NEW b \in Binaries \ collided, ~Owner(p, b)
    PROVE  Elsewhere(p, b)
<1> USE DEF Elsewhere
<1>0. b \in Files /\ b \in Components
  BY DEF Files, Components
<1>1. CASE Fetch(p)
  <2>1. Others(p) /\ ~Owner(p, b)'
    BY <1>1, GotoElsewhere DEF Fetch, Edges
  <2> QED BY <1>1, <2>1 DEF Fetch, SameFiles, SameUnit, files
<1>2. CASE FetchError(p)
  BY <1>2, EndElsewhere DEF FetchError, SameFiles, SameUnit, files
<1>3. CASE OpenNew(p)
  <2>1. Others(p) /\ ~Owner(p, b)'
    BY <1>3, GotoElsewhere DEF OpenNew, Edges
  <2> QED BY <1>3, <2>1 DEF OpenNew, SameFiles, SameUnit
<1>4. CASE CloseNew(p)
  <2>1. Others(p) /\ ~Owner(p, b)'
    BY <1>4, GotoElsewhere DEF CloseNew, Edges
  <2> QED BY <1>4, <2>1, BinClosed DEF CloseNew, SameFiles, SameUnit
<1>5. CASE WriteError(p)
  BY <1>5, EndElsewhere, BinClosed DEF WriteError, SameFiles, SameUnit
<1>6. CASE DropPrev(p)
  <2>1. Others(p) /\ ~Owner(p, b)'
    BY <1>6, GotoElsewhere DEF DropPrev, Edges
  <2>2. F(p) # b
    BY <1>6, NotMine DEF DropPrev, Early
  <2> QED BY <1>0, <1>6, <2>1, <2>2 DEF DropPrev, SameFiles, SameUnit, TInv, Typed, Slots
<1>7. CASE Stash(p)
  <2>1. Others(p) /\ ~Owner(p, b)'
    BY <1>7, GotoElsewhere DEF Stash, Edges
  <2>2. F(p) # b
    BY <1>7, NotMine DEF Stash, Early
  <2> QED BY <1>0, <1>7, <2>1, <2>2 DEF Stash, SameFiles, SameUnit, TInv, Typed, Slots
<1>8. CASE StashError(p)
  BY <1>8, EndElsewhere DEF StashError, SameFiles, SameUnit
<1>9. CASE Place(p)
  <2>1. Others(p) /\ ~Owner(p, b)'
    <3>1. PICK t, u \in TaskRec : Becomes(p, t, u)
      BY <1>9, AfterFileFacts DEF Place, TInv
    <3> QED BY <3>1, GoElsewhere
  <2>2. F(p) # b
    BY <1>9, NotMine DEF Place, Early
  <2> QED BY <1>0, <1>9, <2>1, <2>2 DEF Place, SameFiles, SameUnit, TInv, Typed, Slots
<1>10. CASE PlaceError(p)
  <2>1. F(p) # b /\ F(p) \in Files
    BY <1>10, NotMine DEF PlaceError, Early
  <2>2. MoveBack(F(p)) /\ unit' = unit /\ loose' = loose
    BY <1>10 DEF PlaceError
  <2>3. jobs'[b] = jobs[b] /\ Others(p) /\ ~Owner(p, b)'
    BY <1>10, EndElsewhere DEF PlaceError
  <2>4. SameFiles(b)
    BY <1>0, <2>1, <2>2, MovedBack DEF SameFiles, TInv
  <2> QED BY <2>2, <2>3, <2>4 DEF SameUnit
<1>11. CASE MoveBackError(p)
  <2>1. jobs'[b] = jobs[b] /\ Others(p) /\ ~Owner(p, b)'
    BY <1>11, EndElsewhere DEF MoveBackError
  <2>2. Comp(p) # b
    BY <1>11 DEF MoveBackError, At, Owner, Comp
  <2> QED BY <1>11, <2>1, <2>2 DEF MoveBackError, SameFiles, SameUnit, files
<1> QED BY <1>1, <1>2, <1>3, <1>4, <1>5, <1>6, <1>7, <1>8, <1>9, <1>10, <1>11 DEF Swap

\* So does what follows it.
LEMMA AfterElsewhere ==
    ASSUME TInv, FilesOK, NEW p \in Procs, After(p), NEW b \in Binaries \ collided, ~Owner(p, b)
    PROVE  Elsewhere(p, b)
<1> USE DEF Elsewhere
<1>0. b \in Files /\ b \in Components
  BY DEF Files, Components
<1>a. ASSUME NEW s, At(p, s) PROVE Comp(p) # b
  BY <1>a DEF At, Owner, Comp
<1>1. CASE CopyGeodata(p)
  <2>1. Others(p) /\ ~Owner(p, b)'
    BY <1>1, GotoElsewhere DEF CopyGeodata, Edges
  <2>2. F(p) # b
    BY <1>1, NotMine DEF CopyGeodata, Copying
  <2> QED BY <1>0, <1>1, <2>1, <2>2 DEF CopyGeodata, SameFiles, SameUnit, TInv, Typed, Slots
<1>2. CASE CopiedGeodata(p) \/ CopyError(p)
  <2>1. Others(p) /\ ~Owner(p, b)'
    <3>1. PICK t, u \in TaskRec : Becomes(p, t, u)
      BY <1>2, AfterCopyFacts DEF CopiedGeodata, CopyError, TInv
    <3> QED BY <3>1, GoElsewhere
  <2>2. F(p) # b
    BY <1>2, NotMine DEF CopiedGeodata, CopyError, Copying
  <2>3. ClosedBy(cur, p) \in Slots
    BY SlotFacts DEF TInv, Typed
  <2>4. cur'[b] = ClosedBy(cur, p)[b] /\ prev' = ClosedBy(prev, p)
    BY <1>0, <1>2, <2>2, <2>3 DEF CopiedGeodata, CopyError, Slots
  <2> QED BY <1>2, <2>1, <2>4, BinClosed DEF CopiedGeodata, CopyError, SameFiles, SameUnit
<1>3. CASE KeepLabel(p)
  <2>1. Others(p) /\ ~Owner(p, b)'
    BY <1>3, GotoElsewhere DEF KeepLabel, Edges
  <2> QED BY <1>3, <2>1 DEF KeepLabel, SameFiles, SameUnit, files
<1>4. CASE WriteLabel(p) \/ WriteLabelError(p)
  BY <1>4, EndElsewhere DEF WriteLabel, WriteLabelError, SameFiles, SameUnit, files
<1>5. CASE ReadState(p)
  <2>1. jobs'[b] = jobs[b] /\ Others(p) /\ ~Owner(p, b)'
    <3>1. CASE Finish(p, "succeeded")
      BY <1>5, <3>1, EndElsewhere DEF ReadState
    <3>2. CASE Goto(p, "restart") /\ jobs' = jobs
      BY <1>5, <3>2, GotoElsewhere DEF ReadState, Edges
    <3> QED BY <1>5, <3>1, <3>2 DEF ReadState
  <2> QED BY <1>5, <2>1 DEF ReadState, SameFiles, SameUnit, files
<1>6. CASE ReadStateError(p)
  <2>1. Comp(p) # b
    BY <1>6, <1>a DEF ReadStateError
  <2> QED BY <1>6, <2>1, EndElsewhere DEF ReadStateError, SameFiles, SameUnit, files
<1>7. CASE Restart(p) \/ RestartError(p)
  <2>1. PICK s \in {"settle", "restore"} : Goto(p, s) /\ At(p, "restart") /\ jobs' = jobs
    BY <1>7 DEF Restart, RestartError
  <2>2. Comp(p) # b /\ Others(p) /\ ~Owner(p, b)'
    BY <1>a, <2>1, GotoElsewhere DEF Edges
  <2>3. unit'[b] = unit[b] /\ (b \in loose' <=> b \in loose)
    BY <1>7, <2>2 DEF Restart, RestartError, RestartUnit, RestartFails, TInv, Typed
  <2> QED BY <1>7, <2>1, <2>2, <2>3 DEF Restart, RestartError, SameFiles, SameUnit, files
<1>8. CASE Settle(p) \/ SettleError(p)
  <2>1. jobs'[b] = jobs[b] /\ Others(p) /\ ~Owner(p, b)'
    <3>1. CASE Finish(p, "succeeded")
      BY <1>8, <3>1, EndElsewhere DEF Settle, SettleError
    <3>2. CASE Goto(p, "restore") /\ jobs' = jobs
      BY <1>8, <3>2, GotoElsewhere DEF Settle, SettleError, Edges
    <3> QED BY <1>8, <3>1, <3>2 DEF Settle, SettleError
  <2> QED BY <1>8, <2>1 DEF Settle, SettleError, SameFiles, SameUnit, files
<1>9. CASE Restore(p)
  <2>1. Comp(p) # b /\ Others(p) /\ ~Owner(p, b)'
    BY <1>9, <1>a, GotoElsewhere DEF Restore, Edges
  <2>2. Comp(p) \in Files
    BY <1>9, Working DEF Restore, Late, Steps, Files
  <2>3. SameFiles(b)
    BY <1>0, <1>9, <2>1, <2>2, MovedBack DEF Restore, SameFiles, TInv
  <2> QED BY <1>9, <2>1, <2>3 DEF Restore, SameUnit
<1>10. CASE RestoreError(p)
  BY <1>10, EndElsewhere DEF RestoreError, SameFiles, SameUnit, files
<1>11. CASE RestartAgain(p) \/ RestartAgainError(p)
  <2>1. At(p, "again") /\ Finish(p, "restored") /\ Comp(p) # b /\ SameFiles(b)
    BY <1>11, <1>a DEF RestartAgain, RestartAgainError, SameFiles, files
  <2>2. SameUnit(b)
    BY <1>11, <2>1 DEF RestartAgain, RestartAgainError, RestartUnit, RestartFails, SameUnit, TInv, Typed
  <2> QED BY <2>1, <2>2, EndElsewhere
<1> QED BY <1>1, <1>2, <1>3, <1>4, <1>5, <1>6, <1>7, <1>8, <1>9, <1>10, <1>11 DEF After

\* So does a rollback of another component.
LEMMA BackElsewhere ==
    ASSUME TInv, FilesOK, NEW p \in Procs, Back(p), NEW b \in Binaries \ collided, ~Owner(p, b)
    PROVE  Elsewhere(p, b)
<1> USE DEF Elsewhere
<1>0. b \in Files /\ b \in Components
  BY DEF Files, Components
<1>1. CASE Rollback(p)
  <2>1. Others(p) /\ ~Owner(p, b)'
    <3>1. PICK t, u \in TaskRec : Becomes(p, t, u)
      BY <1>1, RollbackFacts DEF TInv
    <3> QED BY <3>1, GoElsewhere
  <2>2. F(p) # b /\ F(p) \in Files
    BY <1>1, NotMine DEF Rollback, Early
  <2>3. SameFiles(b)
    BY <1>0, <1>1, <2>2, MovedBack DEF Rollback, SameFiles, TInv
  <2> QED BY <1>1, <2>1, <2>3 DEF Rollback, SameUnit
<1>2. CASE RollbackError(p)
  BY <1>2, EndElsewhere DEF RollbackError, SameFiles, SameUnit, files
<1>3. CASE RollbackLabel(p)
  BY <1>3, EndElsewhere DEF RollbackLabel, SameFiles, SameUnit, files
<1>4. CASE Bounce(p) \/ BounceError(p)
  <2>1. PICK r \in {"succeeded", "failed"} : Finish(p, r) /\ At(p, "bounce")
    BY <1>4 DEF Bounce, BounceError
  <2>2. Comp(p) # b
    BY <2>1 DEF At, Owner, Comp
  <2>3. jobs'[b] = jobs[b] /\ Others(p) /\ ~Owner(p, b)'
    BY <2>1, EndElsewhere
  <2>4. unit'[b] = unit[b] /\ (b \in loose' <=> b \in loose)
    BY <1>4, <2>2 DEF Bounce, BounceError, RestartUnit, RestartFails, TInv, Typed
  <2> QED BY <1>4, <2>3, <2>4 DEF Bounce, BounceError, SameFiles, SameUnit, files
<1> QED BY <1>1, <1>2, <1>3, <1>4 DEF Back

\* The turns of a binary's owner that only change its task.
LEMMA EdgeTurn ==
    ASSUME TInv, NEW p \in Procs, NEW s, NEW r, <<s, r>> \in Edges, At(p, s), Goto(p, r), jobs' = jobs,
           NEW b \in Binaries, Owner(p, b), Go(b, s, r)
    PROVE  Turn(p, b)
<1>1. PICK t, u \in TaskRec : GoesOn(p, t, u, r) /\ t.step = s
  BY EdgeFacts DEF TInv
<1>2. Becomes(p, t, u) /\ t.comp = b /\ u.step = r
  BY <1>1 DEF GoesOn, Becomes, Owner
<1> QED BY <1>1, <1>2 DEF Turn

\* And those that end it.
LEMMA EndTurn ==
    ASSUME TInv, NEW p \in Procs, NEW s, At(p, s), NEW r \in Results,
           Finish(p, r), NEW b \in Binaries, Owner(p, b), End(b, s, r)
    PROVE  Turn(p, b)
<1>1. PICK t \in TaskRec :
                /\ Ends(p, t) /\ t.step = s
                /\ p = "job" => \E j \in Job : /\ j = jobs[t.comp]
                                               /\ jobs' = [jobs EXCEPT ![t.comp] =
                                                     [state |-> r, before |-> IF r = "succeeded" THEN None ELSE j.before]]
                /\ p # "job" => jobs' = jobs
  BY EndFacts DEF TInv
<1>2. t.comp = b
  BY <1>1 DEF Ends, Owner
<1>3. Result(p, b, r)
  BY <1>1, <1>2 DEF Result
<1> QED BY <1>1, <1>2, <1>3 DEF Turn

\* SwapFile as its own binary sees it.
LEMMA SwapTurn ==
    ASSUME TInv, FilesOK, NEW p \in Procs, Swap(p), NEW b \in Binaries \ collided, Owner(p, b)
    PROVE  Turn(p, b)
<1>0. b \in Files /\ b \in Components /\ cur \in Slots /\ new \in Slots /\ prev \in Slots
  BY DEF Files, Components, TInv, Typed
<1>1. CASE Fetch(p)
  <2>1. Go(b, "fetch", "open")
    BY <1>1 DEF Fetch, Go, SameFiles, SameUnit, files
  <2> QED BY <1>1, <2>1, EdgeTurn DEF Fetch, Edges
<1>2. CASE FetchError(p)
  <2>1. End(b, "fetch", "failed")
    BY <1>2 DEF FetchError, End, SameFiles, SameUnit, files
  <2> QED BY <1>2, <2>1, EndTurn DEF FetchError
<1>3. CASE OpenNew(p)
  <2>1. Go(b, "open", "close")
    BY <1>3 DEF OpenNew, Go, SameFiles, SameUnit
  <2> QED BY <1>3, <2>1, EdgeTurn DEF OpenNew, Edges
<1>4. CASE CloseNew(p)
  <2>1. Go(b, "close", "drop")
    BY <1>4, BinClosed DEF CloseNew, Go, SameFiles, SameUnit
  <2> QED BY <1>4, <2>1, EdgeTurn DEF CloseNew, Edges
<1>5. CASE WriteError(p)
  <2>1. End(b, "close", "failed")
    BY <1>5, BinClosed DEF WriteError, End, SameFiles, SameUnit
  <2> QED BY <1>5, <2>1, EndTurn DEF WriteError
<1>6. CASE DropPrev(p)
  <2>1. F(p) = b
    BY <1>6, NotMine DEF DropPrev, Early
  <2>2. CASE cur[b] = None
    <3>1. Go(b, "drop", "place")
      BY <1>6, <2>1, <2>2 DEF DropPrev, Go, SameFiles, SameUnit
    <3> QED BY <1>6, <2>1, <2>2, <3>1, EdgeTurn DEF DropPrev, Edges
  <2>3. CASE cur[b] # None
    <3>1. Go(b, "drop", "stash")
      BY <1>0, <1>6, <2>1, <2>3 DEF DropPrev, Go, SameFiles, SameUnit, Slots
    <3> QED BY <1>6, <2>1, <2>3, <3>1, EdgeTurn DEF DropPrev, Edges
  <2> QED BY <2>2, <2>3
<1>7. CASE Stash(p)
  <2>1. F(p) = b
    BY <1>7, NotMine DEF Stash, Early
  <2>2. Go(b, "stash", "place")
    BY <1>0, <1>7, <2>1 DEF Stash, Go, SameFiles, SameUnit, Slots
  <2> QED BY <1>7, <2>2, EdgeTurn DEF Stash, Edges
<1>8. CASE StashError(p)
  <2>1. End(b, "stash", "failed")
    BY <1>8 DEF StashError, End, SameFiles, SameUnit
  <2> QED BY <1>8, <2>1, EndTurn DEF StashError
<1>9. CASE Place(p)
  <2>1. F(p) = b
    BY <1>9, NotMine DEF Place, Early
  <2>2. PICK t, u \in TaskRec : /\ Becomes(p, t, u) /\ t.step = "place"
                                /\ t.comp \in Binaries => u.step \in {"copy", "state"}
    BY <1>9, AfterFileFacts DEF Place, TInv
  <2>3. task[p] = t /\ t # None /\ t.comp = b
    BY <2>2 DEF Becomes, Owner
  <2>4. WorksOn(p, b, b) /\ FileOK(b, b)
    <3>1. Head(t.todo) = b
      BY <2>1, <2>3 DEF F
    <3>2. b \in FileSet(b)
      BY UpdaterAssumption DEF FileSet
    <3> QED BY <1>0, <2>2, <2>3, <3>1, <3>2 DEF WorksOn, Owner, FilesOK, Moving
  <2>5. Complete(new[b])
    BY <2>2, <2>3, <2>4 DEF FileOK, Moving
  <2>6. cur'[b] = new[b] /\ prev'[b] = prev[b] /\ SameUnit(b) /\ jobs' = jobs
    BY <1>0, <1>9, <2>1 DEF Place, SameUnit, Slots
  <2>7. Go(b, "place", u.step)
    BY <2>2, <2>3, <2>5, <2>6 DEF Go
  <2> QED BY <2>2, <2>3, <2>6, <2>7 DEF Turn
<1>10. CASE PlaceError(p)
  <2>1. F(p) = b
    BY <1>10, NotMine DEF PlaceError, Early
  <2>2. TakenBack(b) \/ (prev[b] = None /\ SameFiles(b))
    BY <1>0, <1>10, <2>1, MovedBack DEF PlaceError, TakenBack, SameFiles, TInv
  <2>3. End(b, "place", "failed")
    BY <1>10, <2>2 DEF PlaceError, End, SameUnit
  <2> QED BY <1>10, <2>3, EndTurn DEF PlaceError
<1>11. CASE MoveBackError(p)
  <2>1. Comp(p) = b
    BY DEF Owner, Comp
  <2>2. End(b, "place", "gone")
    BY <1>11, <2>1 DEF MoveBackError, End, SameFiles, files
  <2> QED BY <1>11, <2>2, EndTurn DEF MoveBackError
<1> QED BY <1>1, <1>2, <1>3, <1>4, <1>5, <1>6, <1>7, <1>8, <1>9, <1>10, <1>11 DEF Swap

\* What follows the swap, as the binary sees it.
LEMMA AfterTurn ==
    ASSUME TInv, FilesOK, NEW p \in Procs, After(p), NEW b \in Binaries \ collided, Owner(p, b)
    PROVE  Turn(p, b)
<1>0. b \in Files /\ b \in Components /\ cur \in Slots /\ new \in Slots /\ prev \in Slots
  BY DEF Files, Components, TInv, Typed
<1>a. Comp(p) = b /\ b # "geodata"
  BY UpdaterAssumption DEF Owner, Comp
<1>b. ASSUME At(p, "keep") \/ At(p, "label") PROVE FALSE
  <2>1. PICK t \in TaskRec : t = task[p] /\ t.step \in {"keep", "label"} /\ Shape(t)
    BY <1>b, AtFacts DEF TInv
  <2> QED BY <1>a, <2>1 DEF Shape, Comp
<1>1. CASE CopyGeodata(p)
  <2>1. F(p) # b
    BY <1>1, NotMine DEF CopyGeodata, Copying
  <2>2. Go(b, "copy", "copied")
    BY <1>0, <1>1, <2>1 DEF CopyGeodata, Go, SameFiles, SameUnit, Slots
  <2> QED BY <1>1, <2>2, EdgeTurn DEF CopyGeodata, Edges
<1>2. CASE CopiedGeodata(p) \/ CopyError(p)
  <2>1. F(p) # b
    BY <1>2, NotMine DEF CopiedGeodata, CopyError, Copying
  <2>2. ClosedBy(cur, p) \in Slots
    BY SlotFacts DEF TInv, Typed
  <2>3. cur'[b] = ClosedBy(cur, p)[b] /\ prev' = ClosedBy(prev, p)
    BY <1>0, <1>2, <2>1, <2>2 DEF CopiedGeodata, CopyError, Slots
  <2>4. SameFiles(b) /\ SameUnit(b) /\ jobs' = jobs
    BY <1>2, <2>3, BinClosed DEF CopiedGeodata, CopyError, SameFiles, SameUnit
  <2>5. PICK t, u \in TaskRec : Becomes(p, t, u) /\ t.step = "copied" /\ u.step \in {"copy", "state"}
    BY <1>2, AfterCopyFacts DEF CopiedGeodata, CopyError, TInv
  <2>6. t.comp = b
    BY <2>5 DEF Becomes, Owner
  <2> QED BY <2>4, <2>5, <2>6 DEF Turn, Go
<1>3. CASE KeepLabel(p) \/ WriteLabel(p) \/ WriteLabelError(p)
  BY <1>3, <1>b DEF KeepLabel, WriteLabel, WriteLabelError
<1>4. CASE ReadState(p)
  <2>1. CASE unit[b] = None
    <3>1. End(b, "state", "succeeded")
      BY <1>4, <2>1 DEF ReadState, End, SameFiles, files
    <3> QED BY <1>4, <1>a, <2>1, <3>1, EndTurn DEF ReadState
  <2>2. CASE unit[b] # None
    <3>1. Go(b, "state", "restart")
      BY <1>4 DEF ReadState, Go, SameFiles, SameUnit, files
    <3> QED BY <1>4, <1>a, <2>2, <3>1, EdgeTurn DEF ReadState, Edges
  <2> QED BY <2>1, <2>2
<1>5. CASE ReadStateError(p)
  <2>1. End(b, "state", "succeeded")
    BY <1>5, <1>a DEF ReadStateError, End, SameFiles, files
  <2> QED BY <1>5, <2>1, EndTurn DEF ReadStateError
<1>6. CASE Restart(p) \/ RestartError(p)
  <2>1. PICK s \in {"settle", "restore"} : Goto(p, s) /\ At(p, "restart") /\ jobs' = jobs
    BY <1>6 DEF Restart, RestartError
  <2>2. unit'[b] \in {Runs(b), None} \/ b \in loose'
    BY <1>6, <1>a DEF Restart, RestartError, RestartUnit, RestartFails, TInv, Typed
  <2>3. SameFiles(b)
    BY <1>6 DEF Restart, RestartError, SameFiles, files
  <2>4. Go(b, "restart", s)
    BY <2>1, <2>2, <2>3 DEF Go
  <2>5. <<"restart", s>> \in Edges
    BY DEF Edges
  <2> QED BY <2>1, <2>4, <2>5, EdgeTurn
<1>7. CASE Settle(p) \/ SettleError(p)
  <2>1. At(p, "settle") /\ SameFiles(b) /\ SameUnit(b)
    BY <1>7 DEF Settle, SettleError, SameFiles, SameUnit, files
  <2>2. CASE Finish(p, "succeeded")
    <3>1. End(b, "settle", "succeeded")
      BY <2>1 DEF End
    <3> QED BY <2>1, <2>2, <3>1, EndTurn
  <2>3. CASE Goto(p, "restore") /\ jobs' = jobs
    <3>1. Go(b, "settle", "restore")
      BY <2>1 DEF Go
    <3> QED BY <2>1, <2>3, <3>1, EdgeTurn DEF Edges
  <2> QED BY <1>7, <2>2, <2>3 DEF Settle, SettleError
<1>8. CASE Restore(p)
  <2>1. TakenBack(b)
    BY <1>0, <1>8, <1>a, MovedBack DEF Restore, TakenBack, TInv
  <2>2. Go(b, "restore", "again")
    BY <1>8, <2>1 DEF Restore, Go, SameUnit
  <2> QED BY <1>8, <2>2, EdgeTurn DEF Restore, Edges
<1>9. CASE RestoreError(p)
  <2>1. End(b, "restore", "stuck")
    BY <1>9 DEF RestoreError, End, SameFiles, SameUnit, files
  <2> QED BY <1>9, <2>1, EndTurn DEF RestoreError
<1>10. CASE RestartAgain(p) \/ RestartAgainError(p)
  <2>1. At(p, "again") /\ Finish(p, "restored") /\ SameFiles(b)
    BY <1>10 DEF RestartAgain, RestartAgainError, SameFiles, files
  <2>2. unit'[b] = Runs(b) \/ b \in loose'
    BY <1>10, <1>a DEF RestartAgain, RestartAgainError, RestartUnit, RestartFails, TInv, Typed
  <2>3. End(b, "again", "restored")
    BY <2>1, <2>2 DEF End
  <2> QED BY <2>1, <2>3, EndTurn
<1> QED BY <1>1, <1>2, <1>3, <1>4, <1>5, <1>6, <1>7, <1>8, <1>9, <1>10 DEF After

\* A rollback, as the binary sees it.
LEMMA BackTurn ==
    ASSUME TInv, FilesOK, NEW p \in Procs, Back(p), NEW b \in Binaries \ collided, Owner(p, b)
    PROVE  Turn(p, b)
<1>0. b \in Files /\ b \in Components /\ cur \in Slots /\ prev \in Slots
  BY DEF Files, Components, TInv, Typed
<1>a. Comp(p) = b /\ b # "geodata"
  BY UpdaterAssumption DEF Owner, Comp
<1>1. CASE Rollback(p)
  <2>1. F(p) = b
    BY <1>1, NotMine DEF Rollback, Early
  <2>2. PICK t, u \in TaskRec : Becomes(p, t, u) /\ t.step = "back" /\ (t.comp \in Binaries => u.step = "bounce")
    BY <1>1, RollbackFacts DEF TInv
  <2>3. t.comp = b
    BY <2>2 DEF Becomes, Owner
  <2>4. TakenBack(b) /\ SameUnit(b) /\ jobs' = jobs
    BY <1>0, <1>1, <2>1, MovedBack DEF Rollback, TakenBack, SameUnit, TInv
  <2> QED BY <2>2, <2>3, <2>4 DEF Turn, Go
<1>2. CASE RollbackError(p)
  <2>1. End(b, "back", "failed")
    BY <1>2 DEF RollbackError, End, SameFiles, SameUnit, files
  <2> QED BY <1>2, <2>1, EndTurn DEF RollbackError
<1>3. CASE RollbackLabel(p)
  <2>1. PICK t \in TaskRec : t = task[p] /\ t.step = "label" /\ Shape(t)
    BY <1>3, AtFacts DEF TInv, RollbackLabel
  <2> QED BY <1>a, <2>1 DEF Shape, Comp
<1>4. CASE Bounce(p) \/ BounceError(p)
  <2>1. PICK r \in {"succeeded", "failed"} : Finish(p, r) /\ At(p, "bounce")
    BY <1>4 DEF Bounce, BounceError
  <2>2. unit'[b] \in {Runs(b), None} \/ b \in loose'
    BY <1>4, <1>a DEF Bounce, BounceError, RestartUnit, RestartFails, TInv, Typed
  <2>3. End(b, "bounce", r)
    BY <1>4, <2>1, <2>2 DEF Bounce, BounceError, End, SameFiles, files
  <2> QED BY <2>1, <2>3, EndTurn
<1> QED BY <1>1, <1>2, <1>3, <1>4 DEF Back

\* Only a start can find the other process at work on its component.
LEMMA SameCollided ==
    ASSUME NEW p \in Procs, Swap(p) \/ After(p) \/ Back(p)
    PROVE  collided' = collided
<1>1. Swap(p) => collided' = collided
  BY DEF Swap, Fetch, FetchError, OpenNew, CloseNew, WriteError, DropPrev, Stash, StashError, Place, PlaceError,
         MoveBackError
<1>2. After(p) => collided' = collided
  BY DEF After, CopyGeodata, CopiedGeodata, CopyError, KeepLabel, WriteLabel, WriteLabelError, ReadState,
         ReadStateError, Restart, RestartError, Settle, SettleError, Restore, RestoreError, RestartAgain,
         RestartAgainError
<1>3. Back(p) => collided' = collided
  BY DEF Back, Rollback, RollbackError, RollbackLabel, Bounce, BounceError
<1> QED BY <1>1, <1>2, <1>3

\* Every step, as a binary with at most one owner sees it.
LEMMA BinaryStep ==
    ASSUME TInv, FilesOK, Next, NEW b \in Binaries \ collided
    PROVE  \/ \E c \in Components : StartJob(c) \/ Seed(c)
           \/ \E p \in Procs : ((Turn(p, b) /\ Owner(p, b)) \/ Elsewhere(p, b)) /\ collided' = collided
           \/ \E d \in Binaries : EnvUnit(d)
           \/ Crash
<1>1. ASSUME NEW p \in Procs, Swap(p) \/ After(p) \/ Back(p)
      PROVE  ((Turn(p, b) /\ Owner(p, b)) \/ Elsewhere(p, b)) /\ collided' = collided
  <2>1. collided' = collided
    BY <1>1, SameCollided
  <2> QED BY <1>1, <2>1, SwapTurn, AfterTurn, BackTurn, SwapElsewhere, AfterElsewhere, BackElsewhere
<1>2. "job" \in Procs
  BY DEF Procs
<1> QED BY <1>1, <1>2, NextCases

-------------------------------------------------------------------------------
(* A complete binary to run or to roll back to. *)

Available(b) == Complete(cur[b]) \/ Complete(prev[b])

\* What is there of a binary is complete, and nothing but the swap moves it.
LEMMA BinarySound ==
    ASSUME FilesOK, NEW b \in Binaries \ collided
    PROVE  (cur[b] # None => Complete(cur[b])) /\ (prev[b] # None => Complete(prev[b])) /\ FileOK(b, b)
<1>1. b \in FileSet(b) /\ b \in Components
  BY UpdaterAssumption DEF FileSet, Components
<1> QED BY <1>1 DEF FilesOK, FileOK, Sound

\* A crash does not touch a complete file.
LEMMA CrashKeeps ==
    ASSUME TInv, NEW f \in Files, Crash
    PROVE  /\ Complete(cur[f]) => cur'[f] = cur[f]
           /\ Complete(prev[f]) => prev'[f] = prev[f]
           /\ cur[f] = None => cur'[f] = None
BY DEF Crash, Abandoned, Complete

\* No step takes away the last complete file of a binary.
LEMMA StaysAvailable ==
    ASSUME TInv, FilesOK, [Next]_vars, NEW b \in Binaries \ collided, Available(b)
    PROVE  Available(b)'
<1>0. b \in Files
  BY DEF Files
<1>1. ASSUME cur' = cur, prev' = prev PROVE Available(b)'
  BY <1>1 DEF Available
<1>2. CASE UNCHANGED vars
  BY <1>1, <1>2 DEF vars
<1>3. CASE \E c \in Components : StartJob(c) \/ Seed(c)
  BY <1>1, <1>3, StartFacts, SeedFacts DEF Started
<1>4. CASE \E p \in Procs : Turn(p, b) \/ Elsewhere(p, b)
  <2>1. PICK p \in Procs : Turn(p, b) \/ Elsewhere(p, b)
    BY <1>4
  <2>2. CASE SameFiles(b)
    BY <2>2 DEF SameFiles, Available
  <2>3. CASE \E s, r : Go(b, s, r)
    BY <2>2, <2>3, BinarySound DEF Go, TakenBack, Available
  <2>4. CASE \E s, r : End(b, s, r)
    BY <2>2, <2>4, BinarySound DEF End, TakenBack, Available
  <2> QED BY <2>1, <2>2, <2>3, <2>4 DEF Turn, Elsewhere
<1>5. CASE \E d \in Binaries : EnvUnit(d)
  BY <1>1, <1>5 DEF EnvUnit, UnitRestarts, UnitDies, files
<1>6. CASE Crash
  BY <1>0, <1>6, CrashKeeps DEF Available
<1> QED BY <1>2, <1>3, <1>4, <1>5, <1>6, BinaryStep

\* Once a binary is installed there is, whatever fails and wherever the process
\* dies, a complete one to run or to roll back to: the old one becomes f.prev
\* before the new one becomes f, and f.prev is removed only when there is an f.
THEOREM ABinaryIsNeverLost == Spec => NothingIsLost
<1>1. TInv /\ FilesOK /\ [Next]_vars =>
        [\A b \in Binaries \ collided :
           (Complete(cur[b]) \/ Complete(prev[b])) => (Complete(cur'[b]) \/ Complete(prev'[b]))]_vars
  BY StaysAvailable DEF Available
<1>2. Init => TInv /\ FilesOK
  BY InitTyped, InitFiles
<1>3. TInv /\ FilesOK /\ [Next]_vars => TInv' /\ FilesOK'
  BY NextTyped, NextFiles
<1> QED BY <1>1, <1>2, <1>3, PTL DEF Spec, NothingIsLost

-------------------------------------------------------------------------------
(* An install that fails leaves the binary it found. *)

Unowned(b) == \A p \in Procs : ~Owner(p, b)

\* Until the old binary is moved away it is f; from then on, until it is moved
\* back, it is f.prev.
InPlace == {"fetch", "open", "close", "drop", "stash", "again"}
Aside == {"place", "copy", "copied", "state", "restart", "settle", "restore"}

\* An install whose files could not be moved back left nothing in place, and
\* only the seeding can start there: the old binary is f.prev until that moves
\* it back.
GoneOK(b) ==
    jobs[b] # None /\ jobs[b].before # None /\ jobs[b].state = "gone" =>
        /\ jobs[b].before \in {VersionOf(cur, b), VersionOf(prev, b)}
        /\ Owner("seed", b) =>
            /\ task["seed"].step \in {"open", "close", "drop", "place"} => cur[b] = None
            /\ task["seed"].step \in Aside => VersionOf(prev, b) = jobs[b].before
            /\ task["seed"].step \notin {"fetch", "stash", "back", "bounce"}

KeepOK(b) ==
    jobs[b] # None /\ jobs[b].before # None =>
        /\ jobs[b].state \in {"failed", "restored"} => VersionOf(cur, b) = jobs[b].before /\ Unowned(b)
        /\ jobs[b].state = "running" =>
            /\ task["job"].act # "rollback"
            /\ task["job"].step \in InPlace => VersionOf(cur, b) = jobs[b].before
            /\ task["job"].step \in Aside => VersionOf(prev, b) = jobs[b].before

KeepsOK == \A b \in Binaries \ collided : KeepOK(b) /\ GoneOK(b)

\* Steps that leave b, its job and its owners alone.
LEMMA KeepFrame ==
    ASSUME TInv, NEW b \in Binaries, KeepOK(b), VersionOf(cur, b)' = VersionOf(cur, b),
           VersionOf(prev, b)' = VersionOf(prev, b), jobs'[b] = jobs[b],
           \A q \in Procs : Owner(q, b) => task'[q] = task[q],
           \A q \in Procs : Owner(q, b)' => Owner(q, b)
    PROVE  KeepOK(b)'
<1>1. b \in Components /\ "job" \in Procs
  BY DEF Components, Procs
<1>2. jobs[b] # None /\ jobs[b].state = "running" => task'["job"] = task["job"]
  BY <1>1 DEF TInv, JobsOK
<1>3. Unowned(b) => Unowned(b)'
  BY DEF Unowned
<1> QED BY <1>2, <1>3 DEF KeepOK

\* So for a binary whose install left nothing.
LEMMA GoneFrame ==
    ASSUME NEW b \in Binaries, GoneOK(b), cur'[b] = cur[b], prev'[b] = prev[b], jobs'[b] = jobs[b],
           Owner("seed", b)' => Owner("seed", b) /\ task'["seed"] = task["seed"]
    PROVE  GoneOK(b)'
BY DEF GoneOK, VersionOf

\* The seeding of a binary that is gone keeps the old one as f.prev, or moves it
\* back.
LEMMA GoneTurn ==
    ASSUME TInv, FilesOK, NEW b \in Binaries \ collided, KeepOK(b), GoneOK(b),
           NEW p \in Procs, Turn(p, b), Owner(p, b)
    PROVE  GoneOK(b)'
<1>0. b \in Components /\ "job" \in Procs /\ Alone(b) /\ jobs[b] \in Job \cup {None}
  BY DEF Components, Procs, FilesOK, TInv, JobsOK
<1>1. \A q \in Procs : Owner(q, b) <=> q = p
  BY <1>0 DEF Alone
<1>2. CASE p = "job"
  <2>1. jobs[b] \in Job /\ jobs[b].state = "running"
    BY <1>0, <1>1, <1>2 DEF TInv, JobsOK
  <2>2. CASE jobs' = jobs
    BY <2>1, <2>2 DEF GoneOK
  <2>3. CASE \E t \in TaskRec : \E res \in Results :
               Ends(p, t) /\ t.comp = b /\ End(b, t.step, res) /\ Result(p, b, res)
    <3>1. PICK t \in TaskRec, res \in Results :
               Ends(p, t) /\ t.comp = b /\ End(b, t.step, res) /\ Result(p, b, res)
      BY <2>3
    <3>2. PICK j \in Job : /\ j = jobs[b]
                           /\ jobs' = [jobs EXCEPT ![b] =
                                  [state |-> res, before |-> IF res = "succeeded" THEN None ELSE j.before]]
      BY <1>2, <3>1 DEF Result
    <3>3. PICK k : k = [state |-> res, before |-> IF res = "succeeded" THEN None ELSE j.before]
      OBVIOUS
    <3>4. jobs'[b] = k /\ k.state = res /\ k.before = IF res = "succeeded" THEN None ELSE j.before
      BY <1>0, <3>2, <3>3 DEF TInv, JobsOK
    <3>5. ~Owner("seed", b)'
      BY <1>1, <1>2, <3>1 DEF Ends, Owner, Others, Procs
    <3>6. task["job"] = t
      BY <1>2, <3>1 DEF Ends
    <3>7. ASSUME res = "gone", j.before # None
          PROVE  VersionOf(prev, b)' = j.before
      <4>1. t.step = "place" /\ prev'[b] = prev[b]
        BY <3>1, <3>7 DEF End, SameFiles
      <4>2. VersionOf(prev, b) = j.before
        BY <2>1, <3>2, <3>6, <3>7, <4>1, NoneIsNoRecord DEF KeepOK, Aside
      <4> QED BY <4>1, <4>2 DEF VersionOf
    <3> QED BY <3>4, <3>5, <3>7 DEF GoneOK
  <2> QED BY <2>2, <2>3 DEF Turn
<1>3. CASE p # "job"
  <2>1. p = "seed" /\ jobs'[b] = jobs[b]
    BY <1>3 DEF Turn, Result, Procs
  <2> SUFFICES ASSUME jobs[b] # None, jobs[b].before # None, jobs[b].state = "gone"
               PROVE  GoneOK(b)'
    BY <2>1 DEF GoneOK
  <2>2. PICK v : v = jobs[b].before
    OBVIOUS
  <2>3. /\ v \in {VersionOf(cur, b), VersionOf(prev, b)} /\ v # None
        /\ task["seed"].step \in {"open", "close", "drop", "place"} => cur[b] = None
        /\ task["seed"].step \in Aside => VersionOf(prev, b) = v
        /\ task["seed"].step \notin {"fetch", "stash", "back", "bounce"}
    BY <2>1, <2>2 DEF GoneOK
  <2>4. SameFiles(b) => VersionOf(cur, b)' = VersionOf(cur, b) /\ VersionOf(prev, b)' = VersionOf(prev, b)
    BY DEF SameFiles, VersionOf
  <2>5. cur[b] = None => VersionOf(cur, b) = None
    BY DEF VersionOf
  <2>6. CASE \E t, u \in TaskRec : Becomes(p, t, u) /\ t.comp = b /\ Go(b, t.step, u.step) /\ jobs' = jobs
    <3>1. PICK t, u \in TaskRec : Becomes(p, t, u) /\ t.comp = b /\ Go(b, t.step, u.step) /\ jobs' = jobs
      BY <2>6
    <3>2. task["seed"] = t /\ task'["seed"] = u
      BY <2>1, <3>1 DEF Becomes
    <3>3. /\ v \in {VersionOf(cur, b)', VersionOf(prev, b)'}
          /\ u.step \in {"open", "close", "drop", "place"} => cur'[b] = None
          /\ u.step \in Aside => VersionOf(prev, b)' = v
          /\ u.step \notin {"fetch", "stash", "back", "bounce"}
      <4>1. CASE t.step = "restore" /\ u.step = "again" /\ TakenBack(b)
        BY <2>3, <3>2, <4>1 DEF TakenBack, VersionOf, Aside
      <4>2. CASE t.step = "place" /\ u.step \in {"copy", "state"} /\ prev'[b] = prev[b]
        BY <2>3, <3>2, <4>2 DEF VersionOf, Aside
      <4>3. CASE t.step = "drop" /\ u.step = "place" /\ cur[b] = None /\ SameFiles(b)
        BY <2>3, <2>4, <2>5, <3>2, <4>3 DEF SameFiles, Aside
      <4>4. CASE <<t.step, u.step>> \in {<<"open", "close">>, <<"close", "drop">>} /\ SameFiles(b)
        BY <2>3, <2>4, <2>5, <3>2, <4>4 DEF SameFiles, Aside
      <4>5. CASE /\ <<t.step, u.step>> \in {<<"copy", "copied">>, <<"copied", "copy">>, <<"copied", "state">>,
                        <<"state", "restart">>, <<"settle", "restore">>, <<"restart", "settle">>,
                        <<"restart", "restore">>}
                 /\ SameFiles(b)
        BY <2>3, <2>4, <3>2, <4>5 DEF Aside
      <4>6. t.step \notin {"fetch", "stash", "back"} /\ ~(t.step = "drop" /\ cur[b] # None)
        BY <2>3, <3>2
      <4> QED BY <3>1, <4>1, <4>2, <4>3, <4>4, <4>5, <4>6 DEF Go
    <3> QED BY <2>1, <2>2, <3>2, <3>3 DEF GoneOK
  <2>7. CASE \E t \in TaskRec : \E res \in Results :
               Ends(p, t) /\ t.comp = b /\ End(b, t.step, res) /\ Result(p, b, res)
    <3>1. PICK t \in TaskRec, res \in Results : Ends(p, t) /\ t.comp = b /\ End(b, t.step, res)
      BY <2>7
    <3>2. task["seed"] = t /\ ~Owner("seed", b)'
      BY <2>1, <3>1 DEF Ends, Owner
    <3>3. v \in {VersionOf(cur, b)', VersionOf(prev, b)'}
      <4>1. CASE SameFiles(b)
        BY <2>3, <2>4, <4>1
      <4>2. CASE t.step = "place" /\ TakenBack(b)
        BY <2>3, <3>2, <4>2 DEF TakenBack, VersionOf, Aside
      <4> QED BY <3>1, <4>1, <4>2 DEF End
    <3> QED BY <2>1, <2>2, <3>2, <3>3 DEF GoneOK
  <2> QED BY <2>6, <2>7 DEF Turn
<1> QED BY <1>2, <1>3

\* A step of the owner keeps the old binary where its step says it is.
LEMMA KeepTurn ==
    ASSUME TInv, FilesOK, NEW b \in Binaries \ collided, KeepOK(b), NEW p \in Procs, Turn(p, b), Owner(p, b)
    PROVE  KeepOK(b)'
<1>0. b \in Components /\ "job" \in Procs /\ Alone(b) /\ jobs[b] \in Job \cup {None}
  BY DEF Components, Procs, FilesOK, TInv, JobsOK
<1>1. \A q \in Procs : Owner(q, b) <=> q = p
  BY <1>0 DEF Alone
<1>2. CASE p # "job"
  <2>1. jobs'[b] = jobs[b]
    BY <1>2 DEF Turn, Result
  <2>2. ~ (jobs[b] # None /\ jobs[b].state = "running")
    BY <1>0, <1>1, <1>2 DEF TInv, JobsOK
  <2>3. ~ Unowned(b)
    BY <1>1 DEF Unowned
  <2> QED BY <2>1, <2>2, <2>3 DEF KeepOK
<1>3. CASE p = "job"
  <2>1. jobs[b] \in Job /\ jobs[b].state = "running"
    BY <1>0, <1>1, <1>3 DEF TInv, JobsOK
  <2>2. CASE \E t, u \in TaskRec : Becomes(p, t, u) /\ t.comp = b /\ Go(b, t.step, u.step) /\ jobs' = jobs
    <3>1. PICK t, u \in TaskRec : Becomes(p, t, u) /\ t.comp = b /\ Go(b, t.step, u.step) /\ jobs' = jobs
      BY <2>2
    <3>2. task["job"] = t /\ task'["job"] = u /\ u.act = t.act /\ Shape(t)
      BY <1>3, <3>1 DEF Becomes
    <3>3. ASSUME jobs[b].before # None
          PROVE  /\ u.act # "rollback"
                 /\ u.step \in InPlace => VersionOf(cur, b)' = jobs[b].before
                 /\ u.step \in Aside => VersionOf(prev, b)' = jobs[b].before
      <4>1. /\ t.act # "rollback"
            /\ t.step \in InPlace => VersionOf(cur, b) = jobs[b].before
            /\ t.step \in Aside => VersionOf(prev, b) = jobs[b].before
        BY <2>1, <3>2, <3>3, NoneIsNoRecord DEF KeepOK
      <4>2. SameFiles(b) => VersionOf(cur, b)' = VersionOf(cur, b) /\ VersionOf(prev, b)' = VersionOf(prev, b)
        BY DEF SameFiles, VersionOf
      <4>3. t.step # "back"
        BY <3>2, <4>1 DEF Shape
      <4> QED BY <3>1, <3>2, <3>3, <4>1, <4>2, <4>3 DEF Go, InPlace, Aside, VersionOf, TakenBack
    <3> QED BY <2>1, <3>1, <3>2, <3>3 DEF KeepOK
  <2>3. CASE \E t \in TaskRec : \E res \in Results :
               Ends(p, t) /\ t.comp = b /\ End(b, t.step, res) /\ Result(p, b, res)
    <3>1. PICK t \in TaskRec, res \in Results :
               Ends(p, t) /\ t.comp = b /\ End(b, t.step, res) /\ Result(p, b, res)
      BY <2>3
    <3>2. PICK j \in Job : /\ j = jobs[b]
                           /\ jobs' = [jobs EXCEPT ![b] =
                                  [state |-> res, before |-> IF res = "succeeded" THEN None ELSE j.before]]
      BY <1>3, <3>1 DEF Result
    <3>3. PICK k : k = [state |-> res, before |-> IF res = "succeeded" THEN None ELSE j.before]
      OBVIOUS
    <3>4. jobs'[b] = k /\ k.state = res /\ k.before = IF res = "succeeded" THEN None ELSE j.before
      BY <1>0, <3>2, <3>3 DEF TInv, JobsOK
    <3>5. Unowned(b)'
      BY <1>1, <3>1 DEF Ends, Unowned, Owner, Others
    <3>6. task["job"] = t /\ Shape(t)
      BY <1>3, <3>1 DEF Ends
    <3>7. ASSUME j.before # None, res \in {"failed", "restored"}
          PROVE  VersionOf(cur, b)' = j.before
      <4>1. /\ t.act # "rollback"
            /\ t.step \in InPlace => VersionOf(cur, b) = j.before
            /\ t.step \in Aside => VersionOf(prev, b) = j.before
        BY <2>1, <3>2, <3>6, <3>7, NoneIsNoRecord DEF KeepOK
      <4>2. SameFiles(b) => VersionOf(cur, b)' = VersionOf(cur, b) /\ VersionOf(prev, b)' = VersionOf(prev, b)
        BY DEF SameFiles, VersionOf
      <4>3. t.step # "back" /\ t.step # "bounce"
        BY <3>6, <4>1 DEF Shape
      <4> QED BY <3>1, <3>7, <4>1, <4>2, <4>3 DEF End, InPlace, Aside, VersionOf, TakenBack
    <3>8. res # "running"
      OBVIOUS
    <3> QED BY <3>4, <3>5, <3>7, <3>8 DEF KeepOK
  <2> QED BY <2>2, <2>3 DEF Turn
<1> QED BY <1>2, <1>3

\* A start of a job takes down what it finds; the seeding only starts where
\* nothing is installed.
LEMMA KeepStart ==
    ASSUME TInv, FilesOK, KeepsOK, NEW c \in Components, StartJob(c) \/ Seed(c)
    PROVE  KeepsOK'
<1> SUFFICES ASSUME NEW b \in Binaries, b \notin collided' PROVE KeepOK(b)' /\ GoneOK(b)'
  BY DEF KeepsOK
<1>0. b \in Components /\ "job" \in Procs /\ "seed" \in Procs /\ b # "geodata"
  BY UpdaterAssumption DEF Components, Procs
<1>1. CASE StartJob(c)
  <2>1. PICK act \in Actions, s \in {"fetch", "open", "back"} : Started(c, act, s) /\ (s = "back" <=> act = "rollback")
    BY <1>1, StartFacts
  <2>2. PICK u \in TaskRec : Begins("job", c, u) /\ u.act = act /\ u.step = s
    BY <2>1 DEF Started
  <2>3. b \notin collided /\ KeepOK(b) /\ GoneOK(b)
    BY <2>1 DEF Started, Meets, KeepsOK
  <2>4. /\ task'["job"] = u /\ u.comp = c /\ task["job"] = None /\ Others("job")
        /\ VersionOf(cur, b)' = VersionOf(cur, b) /\ VersionOf(prev, b)' = VersionOf(prev, b)
    BY <2>1, <2>2 DEF Begins, Started, VersionOf
  <2>5. CASE b = c
    <3>1. PICK k : k = [state |-> "running",
                        before |-> IF c = "geodata" \/ act = "rollback" THEN None ELSE VersionOf(cur, c)]
      OBVIOUS
    <3>2. jobs'[b] = k
      BY <1>0, <2>1, <2>5, <3>1 DEF Started, TInv, JobsOK
    <3>3. /\ k.state = "running" /\ (act # "rollback" => k.before = VersionOf(cur, b))
          /\ (act = "rollback" => k.before = None)
      BY <1>0, <2>5, <3>1
    <3>4. KeepOK(b)'
      BY <2>1, <2>2, <2>4, <3>2, <3>3 DEF KeepOK, Aside
    <3>5. GoneOK(b)'
      BY <3>2, <3>3 DEF GoneOK
    <3> QED BY <3>4, <3>5
  <2>6. CASE b # c
    <3>1. jobs'[b] = jobs[b]
      BY <1>0, <2>1, <2>6 DEF Started, TInv, JobsOK
    <3>2. \A q \in Procs : (Owner(q, b) => task'[q] = task[q]) /\ (Owner(q, b)' => Owner(q, b))
      BY <2>4, <2>6 DEF Owner, Others
    <3>3. cur'[b] = cur[b] /\ prev'[b] = prev[b]
      BY <2>1 DEF Started
    <3> QED BY <1>0, <2>3, <2>4, <3>1, <3>2, <3>3, KeepFrame, GoneFrame
  <2> QED BY <2>5, <2>6
<1>2. CASE Seed(c)
  <2>1. PICK u \in TaskRec : Begins("seed", c, u) /\ u.step = "open"
    BY <1>2, SeedFacts
  <2>2. /\ cur' = cur /\ prev' = prev /\ jobs' = jobs /\ Meets("seed", c)
        /\ c \in Binaries => cur[c] = None
    BY <1>2, SeedFacts
  <2>3. b \notin collided /\ KeepOK(b) /\ GoneOK(b)
    BY <2>2 DEF Meets, KeepsOK
  <2>4. /\ task'["seed"] = u /\ u.comp = c /\ task["seed"] = None /\ Others("seed")
        /\ VersionOf(cur, b)' = VersionOf(cur, b) /\ VersionOf(prev, b)' = VersionOf(prev, b)
    BY <2>1, <2>2 DEF Begins, VersionOf
  <2>5. CASE b = c
    <3>1. VersionOf(cur, b) = None
      BY <2>2, <2>5 DEF VersionOf
    <3>2. ~ Owner("job", b)
      BY <1>0, <2>2, <2>5 DEF Meets, Comp, Owner
    <3>3. ~ (jobs[b] # None /\ jobs[b].state = "running")
      BY <1>0, <3>2 DEF TInv, JobsOK
    <3>4. KeepOK(b)'
      BY <2>2, <2>3, <3>1, <3>3 DEF KeepOK
    <3>5. GoneOK(b)'
      <4>1. cur'[b] = None /\ VersionOf(cur, b)' = VersionOf(cur, b) /\ VersionOf(prev, b)' = VersionOf(prev, b)
        BY <2>2, <2>4, <2>5
      <4>2. task'["seed"].step = "open"
        BY <2>1, <2>4
      <4> QED BY <2>2, <2>3, <4>1, <4>2 DEF GoneOK, Aside
    <3> QED BY <3>4, <3>5
  <2>6. CASE b # c
    <3>1. \A q \in Procs : (Owner(q, b) => task'[q] = task[q]) /\ (Owner(q, b)' => Owner(q, b))
      BY <2>4, <2>6 DEF Owner, Others
    <3> QED BY <1>0, <2>2, <2>3, <2>4, <3>1, KeepFrame, GoneFrame
  <2> QED BY <2>5, <2>6
<1> QED BY <1>1, <1>2

\* Every step does.
LEMMA NextKeeps ==
    ASSUME TInv, FilesOK, KeepsOK, [Next]_vars
    PROVE  KeepsOK'
<1>1. ASSUME UNCHANGED <<files, jobs, task, collided>> PROVE KeepsOK'
  BY <1>1 DEF KeepsOK, KeepOK, GoneOK, VersionOf, Unowned, Owner, files
<1>2. CASE UNCHANGED vars
  BY <1>1, <1>2 DEF vars, files
<1>3. CASE \E c \in Components : StartJob(c) \/ Seed(c)
  BY <1>3, KeepStart
<1>4. CASE \E d \in Binaries : EnvUnit(d)
  BY <1>1, <1>4 DEF EnvUnit, UnitRestarts, UnitDies
<1>5. CASE Crash
  BY <1>5 DEF Crash, KeepsOK, KeepOK, GoneOK, Components
<1>6. ASSUME Next, ~ (\E c \in Components : StartJob(c) \/ Seed(c)), ~ (\E d \in Binaries : EnvUnit(d)), ~Crash
      PROVE  KeepsOK'
  <2> SUFFICES ASSUME NEW b \in Binaries, b \notin collided' PROVE KeepOK(b)' /\ GoneOK(b)'
    BY DEF KeepsOK
  <2>1. collided' = collided
    BY <1>6, NextCases, SameCollided DEF Procs
  <2>2. PICK p \in Procs : (Turn(p, b) /\ Owner(p, b)) \/ Elsewhere(p, b)
    BY <1>6, <2>1, BinaryStep
  <2>3. KeepOK(b) /\ GoneOK(b)
    BY <2>1 DEF KeepsOK
  <2>4. CASE Turn(p, b) /\ Owner(p, b)
    BY <2>1, <2>3, <2>4, KeepTurn, GoneTurn
  <2>5. CASE Elsewhere(p, b)
    <3>1. \A q \in Procs : (Owner(q, b) => task'[q] = task[q]) /\ (Owner(q, b)' => Owner(q, b))
      BY <2>5 DEF Elsewhere, Others, Owner
    <3>2. VersionOf(cur, b)' = VersionOf(cur, b) /\ VersionOf(prev, b)' = VersionOf(prev, b)
      BY <2>5 DEF Elsewhere, SameFiles, VersionOf
    <3> QED BY <2>3, <2>5, <3>1, <3>2, KeepFrame, GoneFrame DEF Elsewhere, SameFiles, Procs
  <2> QED BY <2>2, <2>4, <2>5
<1> QED BY <1>2, <1>3, <1>4, <1>5, <1>6

\* An install that fails leaves the binary it found, or says that the previous
\* one could not be restored: at every step of a swap and of restartOrRollback
\* the old binary is either in place or kept as f.prev, and it stays there when
\* it cannot be moved back.
THEOREM FailedInstallsKeepTheBinary == Spec => []FailedInstallKeepsOld
<1>1. KeepsOK => FailedInstallKeepsOld
  BY DEF KeepsOK, KeepOK, GoneOK, FailedInstallKeepsOld
<1>2. Init => TInv /\ FilesOK /\ KeepsOK
  <2>1. Init => KeepsOK
    BY DEF Init, KeepsOK, KeepOK, GoneOK, Components
  <2> QED BY <2>1, InitTyped, InitFiles
<1>3. TInv /\ FilesOK /\ KeepsOK /\ [Next]_vars => TInv' /\ FilesOK' /\ KeepsOK'
  BY NextTyped, NextFiles, NextKeeps
<1> QED BY <1>1, <1>2, <1>3, PTL DEF Spec

-------------------------------------------------------------------------------
(* A unit runs the installed binary between jobs. *)

Good(b) == unit[b] # None => Whole(b) /\ unit[b] = cur[b].ver

\* While the binary is moved the unit runs the one that was moved away; from
\* the move to the restart nothing is claimed.
RunOK(b) ==
    /\ Unowned(b) => Good(b)
    /\ \A p \in Procs : Owner(p, b) =>
        /\ task[p].step \in {"fetch", "open", "close", "drop", "stash", "settle", "restore", "back"} => Good(b)
        /\ task[p].step = "place" /\ unit[b] # None => Complete(prev[b]) /\ unit[b] = prev[b].ver

RunsOK == \A b \in Binaries \ (collided \cup loose) : RunOK(b)

\* A unit that is down, or was just restarted, is good.
LEMMA RunsGood ==
    ASSUME NEW b \in Binaries, SameFiles(b), unit'[b] \in {Runs(b), None}
    PROVE  Good(b)'
<1>1. unit'[b] # None => Whole(b) /\ unit'[b] = cur[b].ver
  BY DEF Runs
<1> QED BY <1>1 DEF Good, Whole, SameFiles

\* Steps that leave b and its owners alone.
LEMMA RunFrame ==
    ASSUME NEW b \in Binaries, RunOK(b), SameFiles(b), unit'[b] = unit[b],
           \A q \in Procs : task'[q] = task[q] \/ (~Owner(q, b) /\ ~Owner(q, b)')
    PROVE  RunOK(b)'
<1>1. \A q \in Procs : (Owner(q, b)' <=> Owner(q, b)) /\ (Owner(q, b) => task'[q] = task[q])
  BY DEF Owner
<1>2. Good(b)' <=> Good(b)
  BY DEF Good, Whole, SameFiles
<1>3. Unowned(b)' <=> Unowned(b)
  BY <1>1 DEF Unowned
<1> QED BY <1>1, <1>2, <1>3 DEF RunOK, SameFiles

\* A step of the owner keeps the unit at the binary its step says it runs.
LEMMA RunTurn ==
    ASSUME TInv, FilesOK, NEW b \in Binaries \ collided, NEW p \in Procs, Turn(p, b), Owner(p, b),
           b \notin loose => RunOK(b), b \notin loose'
    PROVE  RunOK(b)'
<1>0. Alone(b) /\ (cur[b] # None => Complete(cur[b])) /\ (prev[b] # None => Complete(prev[b]))
  BY BinarySound DEF FilesOK, Components
<1>1. \A q \in Procs : Owner(q, b) <=> q = p
  BY <1>0 DEF Alone
<1>2. SameFiles(b) /\ unit'[b] = unit[b] => (Good(b)' <=> Good(b))
  BY DEF SameFiles, Good, Whole
<1>3. SameUnit(b) => RunOK(b) /\ unit'[b] = unit[b]
  BY DEF SameUnit
<1>4. CASE \E t, u \in TaskRec : Becomes(p, t, u) /\ t.comp = b /\ Go(b, t.step, u.step) /\ jobs' = jobs
  <2>1. PICK t, u \in TaskRec : Becomes(p, t, u) /\ t.comp = b /\ Go(b, t.step, u.step)
    BY <1>4
  <2>2. task[p] = t /\ task'[p] = u /\ Owner(p, b)' /\ \A q \in Procs : Owner(q, b)' => q = p
    BY <1>1, <2>1 DEF Becomes, Owner, Others
  <2>3. RunOK(b) => /\ t.step \in {"fetch", "open", "close", "drop", "stash", "settle", "restore", "back"} => Good(b)
                    /\ t.step = "place" /\ unit[b] # None => Complete(prev[b]) /\ unit[b] = prev[b].ver
    BY <2>2 DEF RunOK
  <2>4. /\ u.step \in {"fetch", "open", "close", "drop", "stash", "settle", "restore", "back"} => Good(b)'
        /\ u.step = "place" /\ unit'[b] # None => Complete(prev'[b]) /\ unit'[b] = prev'[b].ver
    <3>1. CASE SameFiles(b) /\ SameUnit(b) /\ u.step # "place" /\ t.step # "restart"
      <4>1. RunOK(b) /\ (Good(b)' <=> Good(b))
        BY <1>2, <1>3, <3>1
      <4>2. u.step \in {"fetch", "open", "close", "drop", "stash", "settle", "restore", "back"} => Good(b)
        BY <2>1, <2>3, <3>1, <4>1 DEF Go, TakenBack, SameFiles
      <4> QED BY <3>1, <4>1, <4>2
    <3>2. CASE t.step = "drop" /\ u.step = "place" /\ cur[b] = None /\ SameUnit(b)
      BY <1>3, <2>3, <3>2 DEF Good, Whole, Complete
    <3>3. CASE t.step = "drop" /\ u.step = "stash" /\ cur'[b] = cur[b] /\ SameUnit(b)
      BY <1>3, <2>3, <3>3 DEF Good, Whole
    <3>4. CASE t.step = "stash" /\ u.step = "place" /\ prev'[b] = cur[b] /\ SameUnit(b)
      BY <1>3, <2>3, <3>4 DEF Good, Whole
    <3>5. CASE t.step = "restart" /\ u.step \in {"settle", "restore"} /\ SameFiles(b) /\ unit'[b] \in {Runs(b), None}
      BY <3>5, RunsGood
    <3>6. CASE u.step \in {"copy", "state", "again", "bounce"}
      BY <3>6
    <3> QED BY <2>1, <3>1, <3>2, <3>3, <3>4, <3>5, <3>6 DEF Go
  <2>5. ~Unowned(b)'
    BY <2>2 DEF Unowned
  <2> QED BY <2>2, <2>4, <2>5 DEF RunOK
<1>5. CASE \E t \in TaskRec : \E res \in Results :
             Ends(p, t) /\ t.comp = b /\ End(b, t.step, res) /\ Result(p, b, res)
  <2>1. PICK t \in TaskRec, res \in Results : Ends(p, t) /\ t.comp = b /\ End(b, t.step, res)
    BY <1>5
  <2>2. task[p] = t /\ \A q \in Procs : ~Owner(q, b)'
    BY <1>1, <2>1 DEF Ends, Owner, Others
  <2>3. RunOK(b) => /\ t.step \in {"fetch", "open", "close", "drop", "stash", "settle", "restore", "back"} => Good(b)
                    /\ t.step = "place" /\ unit[b] # None => Complete(prev[b]) /\ unit[b] = prev[b].ver
    BY <2>2 DEF RunOK
  <2>4. Good(b)'
    <3>1. CASE /\ SameFiles(b) /\ SameUnit(b)
               /\ t.step \in {"fetch", "close", "stash", "back", "settle", "restore"}
      BY <1>2, <1>3, <2>3, <3>1
    <3>2. CASE t.step = "place" /\ SameUnit(b) /\ TakenBack(b)
      BY <1>3, <2>3, <3>2 DEF Good, Whole, TakenBack
    <3>3. CASE t.step = "place" /\ SameUnit(b) /\ prev[b] = None
      BY <1>3, <2>3, <3>3 DEF Good, Complete
    <3>4. CASE SameFiles(b) /\ unit'[b] \in {Runs(b), None}
      BY <3>4, RunsGood
    <3> QED BY <2>1, <3>1, <3>2, <3>3, <3>4 DEF End
  <2> QED BY <2>2, <2>4 DEF RunOK
<1> QED BY <1>4, <1>5 DEF Turn

\* A start finds the unit as it is between jobs.
LEMMA RunStart ==
    ASSUME FilesOK, NEW p \in Procs, NEW c \in Components, NEW u, Begins(p, c, u), Meets(p, c),
           cur' = cur, prev' = prev, unit' = unit, NEW b \in Binaries, b \notin collided', RunOK(b)
    PROVE  RunOK(b)'
<1>1. CASE b = c
  <2>1. \A q \in Procs : q # p => ~Owner(q, b)
    BY <1>1 DEF Meets, Comp, Owner
  <2>2. Unowned(b)
    BY <2>1 DEF Unowned, Begins, Owner
  <2>3. Good(b)'
    BY <2>2 DEF RunOK, Good, Whole
  <2>4. \A q \in Procs : Owner(q, b)' => q = p
    BY <2>1 DEF Owner, Begins, Others
  <2>5. task'[p] = u /\ u.step # "place"
    BY DEF Begins
  <2> QED BY <2>3, <2>4, <2>5 DEF RunOK
<1>2. CASE b # c
  <2>1. \A q \in Procs : task'[q] = task[q] \/ (~Owner(q, b) /\ ~Owner(q, b)')
    BY <1>2 DEF Begins, Others, Owner
  <2> QED BY <2>1, RunFrame DEF SameFiles
<1> QED BY <1>1, <1>2

\* A unit that comes up or dies; it cannot come up while its binary is moved.
LEMMA RunEnv ==
    ASSUME TInv, FilesOK, NEW d \in Binaries, EnvUnit(d), NEW b \in Binaries \ collided,
           b \notin loose', b \notin loose => RunOK(b)
    PROVE  RunOK(b)'
<1>1. cur' = cur /\ prev' = prev /\ task' = task
  BY DEF EnvUnit, UnitRestarts, UnitDies, files
<1>2. CASE b # d
  <2>1. unit'[b] = unit[b] /\ b \notin loose
    BY <1>2 DEF EnvUnit, UnitRestarts, UnitDies, RestartUnit, TInv, Typed
  <2> QED BY <1>1, <2>1, RunFrame DEF SameFiles
<1>3. CASE b = d
  <2>1. unit'[b] \in {Runs(b), None} /\ ((unit'[b] = Runs(b) /\ Runs(b) # None) \/ unit'[b] = None)
    BY <1>3 DEF EnvUnit, UnitRestarts, UnitDies, RestartUnit, TInv, Typed
  <2>2. Good(b)'
    BY <1>1, <2>1, RunsGood DEF SameFiles
  <2>3. ASSUME NEW p \in Procs, Owner(p, b), task[p].step = "place", unit'[b] # None PROVE FALSE
    <3>1. Complete(cur[b])
      BY <2>1, <2>3 DEF Runs, Whole
    <3>2. FileOK(b, b)
      BY BinarySound
    <3>3. WorksOn(p, b, b)
      <4>1. At(p, "place")
        BY <2>3 DEF At, Owner
      <4>2. F(p) = b
        BY <2>3, <4>1, NotMine DEF Early
      <4> QED BY <2>3, <4>2 DEF WorksOn, F, Moving
    <3> QED BY <2>3, <3>1, <3>2, <3>3 DEF FileOK, Complete
  <2>4. \A p \in Procs : Owner(p, b)' <=> Owner(p, b)
    BY <1>1 DEF Owner
  <2> QED BY <1>1, <2>2, <2>3, <2>4 DEF RunOK
<1> QED BY <1>2, <1>3

\* After a crash every unit was started again.
LEMMA RunCrash ==
    ASSUME TInv, Crash, NEW b \in Binaries
    PROVE  RunOK(b)'
<1>1. \A q \in Procs : ~Owner(q, b)'
  BY DEF Crash, Owner
<1>2. b \in Files
  BY DEF Files
<1>3. unit'[b] # None => Complete(cur[b]) /\ unit'[b] = cur[b].ver
  BY DEF Crash, Runs, Whole
<1>4. Good(b)'
  BY <1>2, <1>3, CrashKeeps DEF Good, Whole
<1> QED BY <1>1, <1>4 DEF RunOK

\* Every step does.
LEMMA NextRuns ==
    ASSUME TInv, FilesOK, RunsOK, [Next]_vars
    PROVE  RunsOK'
<1> SUFFICES ASSUME NEW b \in Binaries, b \notin collided', b \notin loose' PROVE RunOK(b)'
  BY DEF RunsOK
<1>1. ASSUME b \notin collided, b \notin loose PROVE RunOK(b)
  BY <1>1 DEF RunsOK
<1>2. CASE UNCHANGED vars
  BY <1>1, <1>2, RunFrame DEF vars, SameFiles
<1>3. CASE \E c \in Components : StartJob(c)
  <2>1. PICK c \in Components : StartJob(c)
    BY <1>3
  <2>2. PICK act, s : Started(c, act, s)
    BY <2>1, StartFacts
  <2>3. PICK u : Begins("job", c, u)
    BY <2>2 DEF Started
  <2>4. Meets("job", c) /\ cur' = cur /\ prev' = prev /\ unit' = unit /\ loose' = loose
    BY <2>2 DEF Started
  <2>5. b \notin collided
    BY <2>4 DEF Meets
  <2> QED BY <1>1, <2>3, <2>4, <2>5, RunStart DEF Procs
<1>4. CASE \E c \in Components : Seed(c)
  <2>1. PICK c \in Components : Seed(c)
    BY <1>4
  <2>2. PICK u : Begins("seed", c, u)
    BY <2>1, SeedFacts
  <2>3. Meets("seed", c) /\ cur' = cur /\ prev' = prev /\ unit' = unit /\ loose' = loose
    BY <2>1, SeedFacts
  <2>4. b \notin collided
    BY <2>3 DEF Meets
  <2> QED BY <1>1, <2>2, <2>3, <2>4, RunStart DEF Procs
<1>5. CASE \E d \in Binaries : EnvUnit(d)
  <2>1. b \notin collided
    BY <1>5 DEF EnvUnit, UnitRestarts, UnitDies
  <2> QED BY <1>1, <1>5, <2>1, RunEnv
<1>6. CASE Crash
  BY <1>6, RunCrash
<1>7. CASE \E p \in Procs : Swap(p) \/ After(p) \/ Back(p)
  <2>1. PICK p \in Procs : Swap(p) \/ After(p) \/ Back(p)
    BY <1>7
  <2>2. b \notin collided
    BY <2>1, SameCollided
  <2>3. (Turn(p, b) /\ Owner(p, b)) \/ Elsewhere(p, b)
    BY <2>1, <2>2, SwapTurn, AfterTurn, BackTurn, SwapElsewhere, AfterElsewhere, BackElsewhere
  <2>4. CASE Turn(p, b) /\ Owner(p, b)
    BY <1>1, <2>2, <2>4, RunTurn
  <2>5. CASE Elsewhere(p, b)
    <3>1. \A q \in Procs : task'[q] = task[q] \/ (~Owner(q, b) /\ ~Owner(q, b)')
      BY <2>5 DEF Elsewhere, Others
    <3> QED BY <1>1, <2>2, <2>5, <3>1, RunFrame DEF Elsewhere, SameUnit
  <2> QED BY <2>3, <2>4, <2>5
<1> QED BY <1>2, <1>3, <1>4, <1>5, <1>6, <1>7, NextCases DEF Procs

\* Between jobs a unit that is up runs the binary that is installed: every swap,
\* and every one taken back, is followed by a restart before the job ends, unless
\* a call of systemd failed, the old binary could not be moved back, or the
\* seeding and a job met; and by the next restart all but the last is mended.
THEOREM UnitsRunTheInstalledBinary == Spec => []RunsInstalled
<1>1. RunsOK => RunsInstalled
  <2> SUFFICES ASSUME RunsOK, NEW b \in Binaries \ (collided \cup loose), Idle(b), unit[b] # None
               PROVE  Whole(b) /\ unit[b] = cur[b].ver
    BY DEF RunsInstalled
  <2>1. Unowned(b)
    BY DEF Idle, Unowned, Owner, Comp
  <2> QED BY <2>1 DEF RunsOK, RunOK, Good
<1>2. Init => TInv /\ FilesOK /\ RunsOK
  <2>1. Init => RunsOK
    BY DEF Init, RunsOK, RunOK, Good, Owner, Procs
  <2> QED BY <2>1, InitTyped, InitFiles
<1>3. TInv /\ FilesOK /\ RunsOK /\ [Next]_vars => TInv' /\ FilesOK' /\ RunsOK'
  BY NextTyped, NextFiles, NextRuns
<1> QED BY <1>1, <1>2, <1>3, PTL DEF Spec

===============================================================================
