------------------------ MODULE DebugPackages_proofs ------------------------
(***************************************************************************)
(* What the rows say of the packages on storage, for any number of runs,   *)
(* of tasks that package and prune them, of steps that raise, of workers   *)
(* that die and of deletions among them.                                   *)
(***************************************************************************)
EXTENDS DebugPackages, Lists_proofs

\* What typing the actions needs beyond TypeOK: a task at work has a run, a job that
\* is to save a prune has listed a run, and packages are named after their runs.
FormedJob(b) ==
    /\ b.pc # "idle" => b.run \in Runs
    /\ b.pc = "name" => b.name \in Package /\ b.name[1] = b.run
    /\ b.pc = "prune_save" => b.todo # <<>>
    /\ \A i \in 1..Len(b.todo) : b.todo[i].name[1] = b.todo[i].run

Formed ==
    /\ \A w \in Workers : FormedJob(job[w])
    /\ \A r \in Runs :
          /\ column[r] # NoPackage => column[r][1] = r
          /\ del[r].name # NoPackage => del[r].name[1] = r
          /\ r \in rows <=> del[r].pc \in {"ready", "delete_row"}

Typed == TypeOK /\ Formed

\* How a step changes the jobs: w alone, which goes on to pc, becomes idle, or goes to
\* the except clause.
Others(w) == job' \in [Workers -> Job] /\ \A v \in Workers : v # w => job'[v] = job[v]

Kept(w) == job'[w].run = job[w].run /\ job'[w].name = job[w].name /\ job'[w].todo = job[w].todo

Moved(w, pc) == Others(w) /\ Kept(w) /\ job'[w].pc = pc /\ job'[w].handling = job[w].handling

Left(w) == Others(w) /\ job'[w] = IdleJob

Caught(w) == Others(w) /\ Kept(w) /\ job'[w].pc = "handler" /\ job'[w].handling = TRUE

\* A step of w that raises, or its death.
Breaks(w) ==
    /\ ~At(w, "idle")
    /\ Thrown(w) \/ Dies(w)
    /\ UNCHANGED <<runVars, packages, del>>

-----------------------------------------------------------------------------
(* How jobs and lists change *)

LEMMA JobSet ==
    ASSUME TypeOK, NEW w \in Workers, NEW rec \in Job, job' = [job EXCEPT ![w] = rec]
    PROVE  Others(w) /\ job'[w] = rec
  BY DEF TypeOK, Others

LEMMA JobTyped ==
    ASSUME TypeOK, NEW w \in Workers
    PROVE  /\ job[w] \in Job /\ job[w].todo \in Seq(Listed)
           /\ job[w].run \in Runs \cup {NoRun} /\ job[w].pc \in JobPc
           /\ job[w].handling \in BOOLEAN /\ job[w].name \in Package \cup {NoPackage}
  BY DEF TypeOK, Job

LEMMA StepMoves ==
    ASSUME TypeOK, NEW w \in Workers, NEW pc \in JobPc, Step(w, pc)
    PROVE  Moved(w, pc)
  <1> DEFINE rec == [job[w] EXCEPT !.pc = pc]
  <1>1. rec \in Job /\ job' = [job EXCEPT ![w] = rec]
    BY JobTyped DEF Job, Step
  <1>2. Others(w) /\ job'[w] = rec
    <2> HIDE DEF rec
    <2> QED BY <1>1, JobSet
  <1> QED
    BY <1>2, JobTyped DEF Moved, Kept, Job

LEMMA IdleTyped == IdleJob \in Job
  <1>1. <<>> \in Seq(Listed)
    OBVIOUS
  <1> QED
    BY <1>1 DEF IdleJob, Job, JobPc

LEMMA QuitLeaves ==
    ASSUME TypeOK, NEW w \in Workers, Quit(w)
    PROVE  Left(w)
  BY IdleTyped, JobSet DEF Quit, Left

LEMMA ThrownGoes ==
    ASSUME TypeOK, NEW w \in Workers, Thrown(w), ~Dies(w)
    PROVE  ~job[w].handling /\ Caught(w)
  <1> DEFINE rec == [job[w] EXCEPT !.pc = "handler", !.handling = TRUE]
  <1>1. rec \in Job /\ rec.pc = "handler" /\ rec.handling = TRUE /\ rec.run = job[w].run
        /\ rec.name = job[w].name /\ rec.todo = job[w].todo
    BY JobTyped DEF Job, JobPc
  <1>2. ~job[w].handling /\ job' = [job EXCEPT ![w] = rec]
    BY DEF Thrown, TypeOK
  <1> HIDE DEF rec
  <1>3. Others(w) /\ job'[w] = rec
    BY <1>1, <1>2, JobSet
  <1> QED
    BY <1>1, <1>2, <1>3 DEF Caught, Kept

\* What Without does to the list of the ended runs.
LEMMA Again ==
    ASSUME TypeOK, NEW r \in Runs
    PROVE  /\ Without(ended, r) \in Seq(Runs) /\ Once(Without(ended, r))
           /\ ~In(r, Without(ended, r))
           /\ <<r>> \o Without(ended, r) \in Seq(Runs) /\ Once(<<r>> \o Without(ended, r))
  <1>1. ended \in Seq(Runs) /\ Once(ended)
    BY DEF TypeOK, Once
  <1>2. /\ Without(ended, r) \in Seq(Runs) /\ Once(Without(ended, r))
        /\ ~In(r, Without(ended, r))
    BY <1>1, FilterMembers DEF Without
  <1> QED
    BY <1>2, PutFirst

LEMMA CachedTyped ==
    ASSUME TypeOK
    PROVE  /\ Cached \in Seq(Runs) /\ Once(Cached)
           /\ \A i \in 1..Len(Cached) : Cached[i] \in rows /\ column[Cached[i]] \in Package
           /\ Stale \in Seq(Runs)
           /\ \A i \in 1..Len(Stale) : \E j \in 1..Len(Cached) : j > Keep /\ Stale[i] = Cached[j]
           /\ \A j \in 1..Len(Cached) : j > Keep => \E i \in 1..Len(Stale) : Stale[i] = Cached[j]
  <1>1. ended \in Seq(Runs) /\ Once(ended)
    BY DEF TypeOK, Once
  <1>2. /\ Cached \in Seq(Runs) /\ Once(Cached)
        /\ \A x : In(x, Cached) => x \in rows /\ column[x] # NoPackage
    BY <1>1, FilterMembers DEF Cached
  <1>3. \A i \in 1..Len(Cached) : Cached[i] \in rows /\ column[Cached[i]] \in Package
    BY <1>2 DEF In, TypeOK
  <1>4. Len(Cached) \in Nat /\ Keep \in Nat
    BY <1>2, DebugPackagesAssumption
  <1>5. /\ Stale \in Seq(Runs)
        /\ Len(Stale) = IF Keep + 1 <= Len(Cached) THEN Len(Cached) - Keep ELSE 0
        /\ \A i \in 1..Len(Stale) : Stale[i] = Cached[Keep + i]
    BY <1>2, <1>4 DEF Stale
  <1>6. ASSUME NEW i \in 1..Len(Stale)
        PROVE  \E j \in 1..Len(Cached) : j > Keep /\ Stale[i] = Cached[j]
    BY <1>4, <1>5
  <1>7. ASSUME NEW j \in 1..Len(Cached), j > Keep
        PROVE  \E i \in 1..Len(Stale) : Stale[i] = Cached[j]
    <2>1. j - Keep \in 1..Len(Stale) /\ Keep + (j - Keep) = j
      BY <1>4, <1>5, <1>7
    <2> QED
      BY <1>5, <2>1
  <1> QED
    BY <1>2, <1>3, <1>5, <1>6, <1>7

LEMMA FirstOfTodo ==
    ASSUME Typed, NEW w \in Workers, job[w].todo # <<>>
    PROVE  /\ Head(job[w].todo) = job[w].todo[1] /\ 1 \in 1..Len(job[w].todo)
           /\ Head(job[w].todo).run \in Runs /\ Head(job[w].todo).name \in Package
           /\ Head(job[w].todo).name[1] = Head(job[w].todo).run
           /\ Tail(job[w].todo) \in Seq(Listed)
           /\ \A i \in 1..Len(Tail(job[w].todo)) :
                 i + 1 \in 1..Len(job[w].todo) /\ Tail(job[w].todo)[i] = job[w].todo[i + 1]
           /\ \A i \in 1..Len(job[w].todo) :
                 i = 1 \/ (i - 1 \in 1..Len(Tail(job[w].todo))
                           /\ job[w].todo[i] = Tail(job[w].todo)[i - 1])
  <1> DEFINE todo == job[w].todo
  <1>1. todo \in Seq(Listed) /\ todo # <<>>
    BY JobTyped DEF Typed
  <1>2. \A i \in 1..Len(todo) : todo[i].name[1] = todo[i].run
    BY DEF Typed, Formed, FormedJob
  <1> HIDE DEF todo
  <1>3. /\ Head(todo) = todo[1] /\ 1 \in 1..Len(todo) /\ todo[1] \in Listed
        /\ Tail(todo) \in Seq(Listed) /\ Len(Tail(todo)) = Len(todo) - 1
        /\ Len(todo) \in Nat
        /\ \A i \in 1..Len(Tail(todo)) : Tail(todo)[i] = todo[i + 1]
    BY <1>1
  <1>4. /\ \A i \in 1..Len(Tail(todo)) : i + 1 \in 1..Len(todo) /\ Tail(todo)[i] = todo[i + 1]
        /\ \A i \in 1..Len(todo) : i = 1 \/ (i - 1 \in 1..Len(Tail(todo))
                                            /\ todo[i] = Tail(todo)[i - 1])
    BY <1>3
  <1>5. Head(todo).run \in Runs /\ Head(todo).name \in Package
        /\ Head(todo).name[1] = Head(todo).run
    BY <1>2, <1>3 DEF Listed
  <1> QED
    BY <1>3, <1>4, <1>5 DEF todo

-----------------------------------------------------------------------------
(* What each action does, in a form the proofs below can cite *)

SameQueue == rows' = rows /\ del' = del
SameRuns == SameQueue /\ status' = status /\ ended' = ended
SameHistory == cut' = cut /\ torn' = torn /\ revived' = revived /\ left' = left

LEMMA BreaksDoes ==
    ASSUME Typed, NEW w \in Workers, Breaks(w)
    PROVE  /\ ~At(w, "idle") /\ job[w].run \in Runs
           /\ SameRuns /\ UNCHANGED <<column, files, revived>>
           /\ cut' = IF job[w].pc \in {"name", "list", "prune", "prune_save"}
                       THEN cut \cup {job[w].run} ELSE cut
           /\ torn' = IF At(w, "prune_save") THEN torn \cup {Head(job[w].todo).run} ELSE torn
           /\ \/ ~job[w].handling /\ Caught(w) /\ left' = left
              \/ Left(w) /\ At(w, "pipeline") /\ left' = left
              \/ Left(w) /\ ~At(w, "pipeline") /\ left' = {Stale[i] : i \in DOMAIN Stale}
  <1>1. job[w].run \in Runs
    BY DEF Breaks, Typed, Formed, FormedJob, At
  <1>2. SameRuns /\ UNCHANGED <<column, files>> /\ ~At(w, "idle")
    BY DEF Breaks, runVars, packages, SameRuns, SameQueue
  <1>3. CASE Dies(w)
    <2>1. Left(w)
      BY <1>3, QuitLeaves DEF Dies, Typed
    <2>2. CASE At(w, "pipeline")
      BY <1>1, <1>2, <1>3, <2>1, <2>2 DEF Dies, history, At
    <2>3. CASE ~At(w, "pipeline")
      BY <1>1, <1>2, <1>3, <2>1, <2>3 DEF Dies, Broken
    <2> QED
      BY <2>2, <2>3
  <1>4. CASE ~Dies(w)
    <2>1. ~job[w].handling /\ Caught(w) /\ Thrown(w)
      BY <1>4, ThrownGoes DEF Breaks, Typed
    <2> QED
      BY <1>1, <1>2, <2>1 DEF Thrown, Broken
  <1> QED
    BY <1>3, <1>4

LEMMA DeathBreaks ==
    ASSUME NEW w, Revoked(w) \/ Die(w)
    PROVE  Breaks(w)
  BY DEF Revoked, Die, Breaks

LEMMA ThrownBreaks ==
    ASSUME Typed, NEW w \in Workers, ~At(w, "idle"), Thrown(w) \/ Dies(w),
           SameRuns, UNCHANGED <<column, files>>
    PROVE  Breaks(w)
  BY DEF Breaks, runVars, packages, SameRuns, SameQueue

LEMMA TakeDoes ==
    ASSUME Typed, NEW w \in Workers, NEW r \in Runs, Take(w, r)
    PROVE  /\ At(w, "idle") /\ r \in rows /\ status[r] = "queued"
           /\ SameQueue /\ UNCHANGED <<ended, column, files>> /\ SameHistory
           /\ status' = [status EXCEPT ![r] = "running"]
           /\ Others(w) /\ job'[w].pc = "pipeline" /\ job'[w].run = r
           /\ job'[w].handling = FALSE /\ job'[w].todo = <<>> /\ job'[w].name = NoPackage
  <1> DEFINE rec == [IdleJob EXCEPT !.pc = "pipeline", !.run = r]
  <1>1. rec \in Job /\ rec.pc = "pipeline" /\ rec.run = r
        /\ rec.handling = FALSE /\ rec.todo = <<>> /\ rec.name = NoPackage
    BY IdleTyped DEF IdleJob, Job, JobPc
  <1>2. job' = [job EXCEPT ![w] = rec]
    BY DEF Take
  <1> HIDE DEF rec
  <1>3. Others(w) /\ job'[w] = rec
    BY <1>1, <1>2, JobSet DEF Typed
  <1> QED
    BY <1>1, <1>3 DEF Take, SameQueue, SameHistory, packages, history

LEMMA FinishDoes ==
    ASSUME Typed, NEW w \in Workers, Finish(w), ~Breaks(w)
    PROVE  /\ At(w, "pipeline") /\ job[w].run \in Runs
           /\ SameQueue /\ UNCHANGED <<column, files>> /\ SameHistory
           /\ job[w].run \in rows /\ Moved(w, "record")
           /\ status' = [status EXCEPT ![job[w].run] = "done"]
           /\ ended' = <<job[w].run>> \o Without(ended, job[w].run)
  <1>1. At(w, "pipeline") /\ job[w].run \in Runs
    BY DEF Finish, Typed, Formed, FormedJob, At
  <1>2. /\ job[w].run \in rows
        /\ status' = [status EXCEPT ![job[w].run] = "done"]
        /\ EndsNow(job[w].run) /\ Step(w, "record") /\ UNCHANGED history
    <2>1. CASE (Thrown(w) \/ Dies(w)) /\ UNCHANGED <<status, ended>>
      BY <1>1, <2>1 DEF Finish, Breaks, At, runVars, packages
    <2> QED
      BY <2>1 DEF Finish
  <1>3. Moved(w, "record")
    BY <1>2, StepMoves DEF Typed, JobPc
  <1> QED
    BY <1>1, <1>2, <1>3 DEF Finish, EndsNow, SameQueue, SameHistory, packages, history

LEMMA FailDoes ==
    ASSUME Typed, NEW w \in Workers, Fail(w), ~Breaks(w)
    PROVE  /\ At(w, "handler") /\ job[w].run \in Runs
           /\ SameQueue /\ UNCHANGED <<column, files, cut, torn, left>>
           /\ job[w].run \in rows /\ Moved(w, "record")
           /\ status' = [status EXCEPT ![job[w].run] = "failed"]
           /\ ended' = <<job[w].run>> \o Without(ended, job[w].run)
           /\ revived \subseteq revived' /\ revived' \subseteq revived \cup {job[w].run}
           /\ job[w].run \notin revived' =>
                job[w].run \notin torn /\ \A v \in Workers : job[w].run \notin ToPrune(v)
  <1>1. At(w, "handler") /\ job[w].run \in Runs
    BY DEF Fail, Typed, Formed, FormedJob, At
  <1>2. ~(SaveRaises(w, job[w].run) /\ UNCHANGED <<status, ended>>)
    BY <1>1 DEF Fail, SaveRaises, Breaks, At, runVars, packages
  <1>3. Moved(w, "record")
    BY <1>2, StepMoves DEF Fail, Typed, JobPc
  <1>4. revived' = IF job[w].run \in torn \/ \E v \in Workers : job[w].run \in ToPrune(v)
                     THEN revived \cup {job[w].run} ELSE revived
    BY <1>2 DEF Fail
  <1>5. job[w].run \notin revived' =>
          job[w].run \notin torn /\ \A v \in Workers : job[w].run \notin ToPrune(v)
    BY <1>4
  <1>6. revived \subseteq revived' /\ revived' \subseteq revived \cup {job[w].run}
    BY <1>4
  <1> QED
    BY <1>1, <1>2, <1>3, <1>5, <1>6 DEF Fail, EndsNow, SameQueue, packages

LEMMA RecordDoes ==
    ASSUME Typed, NEW w \in Workers, Record(w), ~Breaks(w)
    PROVE  /\ At(w, "record") /\ job[w].run \in Runs
           /\ SameRuns /\ UNCHANGED <<column, files>> /\ SameHistory
           /\ job[w].run \in rows /\ Moved(w, "write")
  <1>1. At(w, "record") /\ job[w].run \in Runs
    BY DEF Record, Typed, Formed, FormedJob, At
  <1>2. SameRuns /\ UNCHANGED <<column, files>>
    BY DEF Record, SameRuns, SameQueue, runVars, packages
  <1>3. job[w].run \in rows /\ Step(w, "write") /\ UNCHANGED history
    BY <1>1, <1>2, ThrownBreaks DEF Record, SaveRaises, At
  <1>4. Moved(w, "write")
    BY <1>3, StepMoves DEF Typed, JobPc
  <1> QED
    BY <1>1, <1>2, <1>3, <1>4 DEF SameHistory, history

\* The name storage picks.
Picked(r) == <<r, IF <<r, "plain">> \in files THEN "suffixed" ELSE "plain">>

LEMMA WriteDoes ==
    ASSUME Typed, NEW w \in Workers, Write(w), ~Breaks(w)
    PROVE  /\ At(w, "write") /\ job[w].run \in Runs
           /\ SameRuns /\ UNCHANGED column /\ SameHistory
           /\ Picked(job[w].run) \in Package /\ Picked(job[w].run)[1] = job[w].run
           /\ files' = files \cup {Picked(job[w].run)}
           /\ Others(w) /\ job'[w].pc = "name" /\ job'[w].run = job[w].run
           /\ job'[w].handling = job[w].handling /\ job'[w].todo = job[w].todo
           /\ job'[w].name = Picked(job[w].run)
  <1>1. At(w, "write") /\ job[w].run \in Runs
    BY DEF Write, Typed, Formed, FormedJob, At
  <1>2. Picked(job[w].run) \in Package /\ Picked(job[w].run)[1] = job[w].run
    BY <1>1 DEF Picked, Package
  <1>3. SameRuns /\ UNCHANGED column
    BY DEF Write, SameRuns, SameQueue, runVars
  <1>4. /\ files' = files \cup {Picked(job[w].run)} /\ UNCHANGED history
        /\ job' = [job EXCEPT ![w].pc = "name", ![w].name = Picked(job[w].run)]
    BY <1>1, <1>3, ThrownBreaks DEF Write, Picked, At
  <1> DEFINE rec == [job[w] EXCEPT !.pc = "name", !.name = Picked(job[w].run)]
  <1>5. rec \in Job /\ rec.pc = "name" /\ rec.handling = job[w].handling
        /\ rec.run = job[w].run /\ rec.name = Picked(job[w].run) /\ rec.todo = job[w].todo
    BY <1>2, JobTyped DEF Typed, Job, JobPc
  <1>6. job' = [job EXCEPT ![w] = rec]
    BY <1>4 DEF Typed, TypeOK
  <1> HIDE DEF rec, Picked
  <1>7. Others(w) /\ job'[w] = rec
    BY <1>5, <1>6, JobSet DEF Typed
  <1> QED
    BY <1>1, <1>2, <1>3, <1>4, <1>5, <1>7 DEF SameHistory, history

LEMMA NameDoes ==
    ASSUME Typed, NEW w \in Workers, Name(w), ~Breaks(w)
    PROVE  /\ At(w, "name") /\ job[w].run \in Runs
           /\ SameRuns /\ UNCHANGED files /\ SameHistory
           /\ job[w].name \in Package /\ job[w].name[1] = job[w].run
           /\ job[w].run \in rows /\ Moved(w, "list")
           /\ column' = [column EXCEPT ![job[w].run] = job[w].name]
  <1>1. At(w, "name") /\ job[w].run \in Runs /\ job[w].name \in Package
        /\ job[w].name[1] = job[w].run
    BY DEF Name, Typed, Formed, FormedJob, At
  <1>2. SameRuns /\ UNCHANGED files
    BY DEF Name, SameRuns, SameQueue, runVars
  <1>3. /\ job[w].run \in rows /\ Step(w, "list") /\ UNCHANGED history
        /\ column' = [column EXCEPT ![job[w].run] = job[w].name]
    BY <1>1, <1>2, ThrownBreaks DEF Name, SaveRaises, At
  <1>4. Moved(w, "list")
    BY <1>3, StepMoves DEF Typed, JobPc
  <1> QED
    BY <1>1, <1>2, <1>3, <1>4 DEF SameHistory, history

LEMMA ListDoes ==
    ASSUME Typed, NEW w \in Workers, List(w), ~Breaks(w)
    PROVE  /\ At(w, "list") /\ job[w].run \in Runs
           /\ SameRuns /\ UNCHANGED <<column, files, cut, torn, revived>> /\ left' = {}
           /\ Others(w) /\ job'[w].pc = "prune" /\ job'[w].run = job[w].run
           /\ job'[w].handling = job[w].handling /\ job'[w].name = job[w].name
           /\ Len(job'[w].todo) = Len(Stale)
           /\ \A i \in 1..Len(Stale) : /\ job'[w].todo[i].run = Stale[i]
                                       /\ job'[w].todo[i].name = column[Stale[i]]
                                       /\ Stale[i] \in Runs /\ column[Stale[i]] \in Package
  <1>1. At(w, "list") /\ job[w].run \in Runs
    BY DEF List, Typed, Formed, FormedJob, At
  <1>2. Stale \in Seq(Runs) /\ \A i \in 1..Len(Stale) : column[Stale[i]] \in Package
    BY CachedTyped DEF Typed
  <1> DEFINE todo == [i \in DOMAIN Stale |-> [run |-> Stale[i], name |-> column[Stale[i]]]]
             rec == [job[w] EXCEPT !.pc = "prune", !.todo = todo]
  <1>3. todo \in Seq(Listed) /\ Len(todo) = Len(Stale)
        /\ \A i \in 1..Len(Stale) : /\ todo[i].run = Stale[i] /\ Stale[i] \in Runs
                                    /\ todo[i].name = column[Stale[i]]
    <2> HIDE DEF Stale
    <2>1. DOMAIN Stale = 1..Len(Stale) /\ Len(Stale) \in Nat
      BY <1>2
    <2>2. \A i \in 1..Len(Stale) : todo[i] \in Listed
      BY <1>2, <2>1 DEF Listed
    <2>3. todo \in [1..Len(Stale) -> Listed]
      BY <2>1, <2>2
    <2>4. todo \in Seq(Listed) /\ Len(todo) = Len(Stale)
      <3> HIDE DEF todo
      <3> QED BY <2>1, <2>3
    <2> QED
      BY <1>2, <2>1, <2>4
  <1> HIDE DEF todo
  <1>4. rec \in Job /\ rec.pc = "prune" /\ rec.run = job[w].run /\ rec.name = job[w].name
        /\ rec.handling = job[w].handling /\ rec.todo = todo
    BY <1>3, JobTyped DEF Typed, Job, JobPc
  <1>5. job' = [job EXCEPT ![w] = rec] /\ left' = {} /\ UNCHANGED <<cut, torn, revived>>
    <2>1. SameRuns /\ UNCHANGED <<column, files>>
      BY DEF List, SameRuns, SameQueue, runVars, packages
    <2>2. ~Thrown(w)
      BY <1>1, <2>1, ThrownBreaks DEF At
    <2>3. /\ job' = [job EXCEPT ![w].pc = "prune", ![w].todo = todo]
          /\ left' = {} /\ UNCHANGED <<cut, torn, revived>>
      BY <2>2 DEF List, todo
    <2> QED
      BY <2>3 DEF Typed, TypeOK
  <1> HIDE DEF rec
  <1>6. Others(w) /\ job'[w] = rec
    BY <1>4, <1>5, JobSet DEF Typed
  <1> QED
    BY <1>1, <1>2, <1>3, <1>4, <1>5, <1>6 DEF List, SameRuns, SameQueue, runVars, packages

LEMMA PruneFileDoes ==
    ASSUME Typed, NEW w \in Workers, PruneFile(w), ~Breaks(w)
    PROVE  /\ At(w, "prune") /\ job[w].todo # <<>> /\ job[w].run \in Runs
           /\ SameRuns /\ UNCHANGED column /\ SameHistory
           /\ files' = files \ {Head(job[w].todo).name}
           /\ Moved(w, "prune_save")
  <1>1. At(w, "prune") /\ job[w].run \in Runs /\ job[w].todo # <<>>
    BY DEF PruneFile, Typed, Formed, FormedJob, At
  <1>2. SameRuns /\ UNCHANGED column
    BY DEF PruneFile, SameRuns, SameQueue, runVars
  <1>3. files' = files \ {Head(job[w].todo).name} /\ Step(w, "prune_save") /\ UNCHANGED history
    BY <1>1, <1>2, ThrownBreaks DEF PruneFile, At
  <1>4. Moved(w, "prune_save")
    BY <1>3, StepMoves DEF Typed, JobPc
  <1> QED
    BY <1>1, <1>2, <1>3, <1>4 DEF SameHistory, history

LEMMA PruneSaveDoes ==
    ASSUME Typed, NEW w \in Workers, PruneSave(w), ~Breaks(w)
    PROVE  /\ At(w, "prune_save") /\ job[w].todo # <<>> /\ job[w].run \in Runs
           /\ SameRuns /\ UNCHANGED files /\ SameHistory
           /\ Head(job[w].todo).run \in rows
           /\ column' = [column EXCEPT ![Head(job[w].todo).run] = NoPackage]
           /\ Others(w) /\ job'[w].pc = "prune" /\ job'[w].run = job[w].run
           /\ job'[w].handling = job[w].handling /\ job'[w].name = job[w].name
           /\ job'[w].todo = Tail(job[w].todo)
  <1>1. At(w, "prune_save") /\ job[w].run \in Runs /\ job[w].todo # <<>>
    BY DEF PruneSave, Typed, Formed, FormedJob, At
  <1>2. SameRuns /\ UNCHANGED files
    BY DEF PruneSave, SameRuns, SameQueue, runVars
  <1>3. /\ Head(job[w].todo).run \in rows /\ UNCHANGED history
        /\ column' = [column EXCEPT ![Head(job[w].todo).run] = NoPackage]
        /\ job' = [job EXCEPT ![w].pc = "prune", ![w].todo = Tail(@)]
    BY <1>1, <1>2, ThrownBreaks DEF PruneSave, SaveRaises, At
  <1> DEFINE rec == [job[w] EXCEPT !.pc = "prune", !.todo = Tail(@)]
  <1>4. Tail(job[w].todo) \in Seq(Listed)
    BY <1>1, FirstOfTodo
  <1>5. rec \in Job /\ rec.pc = "prune" /\ rec.run = job[w].run /\ rec.name = job[w].name
        /\ rec.handling = job[w].handling /\ rec.todo = Tail(job[w].todo)
    BY <1>4, JobTyped DEF Typed, Job, JobPc
  <1>6. job' = [job EXCEPT ![w] = rec]
    BY <1>3 DEF Typed, TypeOK
  <1> HIDE DEF rec
  <1>7. Others(w) /\ job'[w] = rec
    BY <1>5, <1>6, JobSet DEF Typed
  <1> QED
    BY <1>1, <1>2, <1>3, <1>5, <1>7 DEF SameHistory, history

LEMMA EndDoes ==
    ASSUME Typed, NEW w \in Workers, End(w), ~Breaks(w)
    PROVE  /\ At(w, "prune") /\ job[w].todo = <<>>
           /\ SameRuns /\ UNCHANGED <<column, files>> /\ SameHistory /\ Left(w)
  <1>1. At(w, "prune") /\ SameRuns /\ UNCHANGED <<column, files>>
    BY DEF End, SameRuns, SameQueue, runVars, packages
  <1>2. Quit(w) /\ UNCHANGED history
    BY <1>1, ThrownBreaks DEF End, At
  <1> QED
    BY <1>1, <1>2, QuitLeaves DEF End, Typed, SameHistory, history

LEMMA DeleteReadDoes ==
    ASSUME Typed, NEW r \in Runs, DeleteRead(r)
    PROVE  /\ r \in rows /\ UNCHANGED <<rows, status, ended, column, files, job>> /\ SameHistory
           /\ del' \in [Runs -> Del] /\ \A s \in Runs : s # r => del'[s] = del[s]
           /\ del[r].pc = "ready" /\ del'[r].pc = "delete_row" /\ del'[r].name = column[r]
  <1>1. [pc |-> "delete_row", name |-> column[r], running |-> status[r] = "running"] \in Del
    BY DEF Typed, TypeOK, Del
  <1> QED
    BY <1>1 DEF DeleteRead, Typed, TypeOK, runVars, packages, history, SameHistory

LEMMA DeleteRowDoes ==
    ASSUME Typed, NEW r \in Runs, DeleteRow(r)
    PROVE  /\ UNCHANGED <<status, files, job>> /\ SameHistory
           /\ rows' = rows \ {r} /\ ended' = Without(ended, r)
           /\ column' = [column EXCEPT ![r] = NoPackage]
           /\ del' \in [Runs -> Del] /\ \A s \in Runs : s # r => del'[s] = del[s]
           /\ del[r].pc = "delete_row" /\ del'[r].pc = "unlink" /\ del'[r].name = del[r].name
  BY DEF DeleteRow, Typed, TypeOK, Del, history, SameHistory

LEMMA DeleteUnlinkDoes ==
    ASSUME Typed, NEW r \in Runs, DeleteUnlink(r)
    PROVE  /\ UNCHANGED <<rows, status, ended, column, job>> /\ SameHistory
           /\ r \notin rows /\ (files' = files \ {del[r].name} \/ files' = files)
           /\ del' \in [Runs -> Del] /\ \A s \in Runs : s # r => del'[s] = del[s]
           /\ del[r].pc = "unlink" /\ del'[r].pc = "over" /\ del'[r].name = del[r].name
  BY DEF DeleteUnlink, Typed, Formed, TypeOK, Del, runVars, history, SameHistory

-----------------------------------------------------------------------------
(* Types *)

LEMMA InitTyped == Init => Typed
  <1> SUFFICES ASSUME Init PROVE Typed
    OBVIOUS
  <1>1. /\ <<>> \in Seq(Runs) /\ Len(<<>>) = 0 /\ DOMAIN <<>> = 1..0
        /\ \A i : i \notin 1..0
    OBVIOUS
  <1>2. ReadyDel \in Del
    BY DEF ReadyDel, Del
  <1>3. TypeOK
    BY <1>1, <1>2, IdleTyped DEF Init, TypeOK
  <1>4. Formed
    BY <1>1 DEF Init, Formed, FormedJob, At, IdleJob, ReadyDel
  <1> QED
    BY <1>3, <1>4 DEF Typed

\* The history variables have their types.
LEMMA HistoryTyped ==
    ASSUME Typed
    PROVE  /\ cut \subseteq Runs /\ torn \subseteq Runs /\ revived \subseteq Runs
           /\ left \subseteq Runs
  BY DEF Typed, TypeOK

LEMMA FormedStays ==
    ASSUME Typed, NEW w \in Workers,
           \/ Left(w)
           \/ /\ job[w].pc # "idle" /\ Kept(w)
              /\ job'[w].pc \notin {"name", "prune_save"}
    PROVE  FormedJob(job'[w])
  <1>1. CASE Left(w)
    <2>1. \A i \in 1..Len(<<>>) : FALSE
      OBVIOUS
    <2> QED
      BY <1>1, <2>1 DEF Left, FormedJob, IdleJob
  <1>2. CASE job[w].pc # "idle" /\ Kept(w) /\ job'[w].pc \notin {"name", "prune_save"}
    BY <1>2 DEF Typed, Formed, FormedJob, Kept
  <1> QED
    BY <1>1, <1>2

\* What is left to show of a step of one job.
LEMMA JobStepTyped ==
    ASSUME Typed, NEW w \in Workers, Others(w), FormedJob(job'[w]), SameQueue,
           status' \in [Runs -> {"queued", "running", "done", "failed"}],
           ended' \in Seq(Runs), Once(ended'), files' \subseteq Package,
           column' \in [Runs -> Package \cup {NoPackage}],
           \A r \in Runs : column'[r] # NoPackage => column'[r][1] = r,
           cut' \subseteq Runs, torn' \subseteq Runs, revived' \subseteq Runs, left' \subseteq Runs
    PROVE  Typed'
  <1>1. \A i, j \in DOMAIN ended' : ended'[i] = ended'[j] => i = j
    <2>1. DOMAIN ended' = 1..Len(ended')
      OBVIOUS
    <2> QED
      BY <2>1 DEF Once
  <1>2. TypeOK'
    BY <1>1 DEF Typed, TypeOK, SameQueue, Others
  <1>3. Formed'
    BY DEF Typed, Formed, SameQueue, Others
  <1> QED
    BY <1>2, <1>3 DEF Typed

\* A step of a task: one case for each action.
LEMMA WorkTyped ==
    ASSUME Typed, NEW w \in Workers, Work(w)
    PROVE  Typed'
  <1>0. /\ status \in [Runs -> {"queued", "running", "done", "failed"}]
        /\ ended \in Seq(Runs) /\ Once(ended) /\ files \subseteq Package
        /\ column \in [Runs -> Package \cup {NoPackage}]
        /\ \A r \in Runs : column[r] # NoPackage => column[r][1] = r
    BY DEF Typed, TypeOK, Formed, Once
  <1>01. SameHistory => /\ cut' \subseteq Runs /\ torn' \subseteq Runs
                        /\ revived' \subseteq Runs /\ left' \subseteq Runs
    BY HistoryTyped DEF SameHistory
  <1>1. ASSUME NEW r \in Runs, Take(w, r)
        PROVE  Typed'
    <2>1. FormedJob(job'[w])
      <3>1. \A i \in 1..Len(<<>>) : FALSE
        OBVIOUS
      <3> QED
        BY <1>1, <3>1, TakeDoes DEF FormedJob
    <2>2. Others(w) /\ SameQueue /\ UNCHANGED <<ended, files, column>> /\ SameHistory
          /\ status' \in [Runs -> {"queued", "running", "done", "failed"}]
      BY <1>0, <1>1, TakeDoes
    <2> QED
      BY <1>0, <1>01, <2>1, <2>2, JobStepTyped
  <1>2. CASE Breaks(w)
    <2>1. FormedJob(job'[w]) /\ Others(w)
      BY <1>2, BreaksDoes, FormedStays DEF Left, Caught, At
    <2>2. SameRuns /\ UNCHANGED <<column, files>>
      BY <1>2, BreaksDoes
    <2>3. cut' \subseteq Runs /\ revived' \subseteq Runs
      BY <1>2, BreaksDoes, HistoryTyped
    <2>4. torn' \subseteq Runs
      <3>1. At(w, "prune_save") => Head(job[w].todo).run \in Runs
        BY FirstOfTodo DEF Typed, Formed, FormedJob, At
      <3> QED
        BY <1>2, <3>1, BreaksDoes, HistoryTyped
    <2>5. left' \subseteq Runs
      <3>1. Stale \in Seq(Runs)
        BY CachedTyped DEF Typed
      <3>2. \A i \in DOMAIN Stale : Stale[i] \in Runs
        BY <3>1
      <3> QED
        BY <1>2, <3>2, BreaksDoes, HistoryTyped
    <2> QED
      BY <1>0, <2>1, <2>2, <2>3, <2>4, <2>5, JobStepTyped DEF SameRuns
  <1>3. CASE Finish(w) /\ ~Breaks(w)
    <2>1. FormedJob(job'[w]) /\ Others(w)
      BY <1>3, FinishDoes, FormedStays DEF At, Moved
    <2>2. SameQueue /\ UNCHANGED <<files, column>> /\ SameHistory
          /\ status' \in [Runs -> {"queued", "running", "done", "failed"}]
      BY <1>0, <1>3, FinishDoes
    <2>3. ended' \in Seq(Runs) /\ Once(ended')
      <3>1. job[w].run \in Runs /\ ended' = <<job[w].run>> \o Without(ended, job[w].run)
        BY <1>3, FinishDoes
      <3> QED
        BY <3>1, Again DEF Typed
    <2> QED
      BY <1>0, <1>01, <2>1, <2>2, <2>3, JobStepTyped
  <1>4. CASE Fail(w) /\ ~Breaks(w)
    <2>1. FormedJob(job'[w]) /\ Others(w)
      BY <1>4, FailDoes, FormedStays DEF At, Moved
    <2>2. SameQueue /\ UNCHANGED <<files, column, cut, torn, left>>
          /\ status' \in [Runs -> {"queued", "running", "done", "failed"}]
          /\ revived' \subseteq Runs
      BY <1>0, <1>4, FailDoes, HistoryTyped
    <2>3. ended' \in Seq(Runs) /\ Once(ended')
      <3>1. job[w].run \in Runs /\ ended' = <<job[w].run>> \o Without(ended, job[w].run)
        BY <1>4, FailDoes
      <3> QED
        BY <3>1, Again DEF Typed
    <2> QED
      BY <1>0, <2>1, <2>2, <2>3, HistoryTyped, JobStepTyped
  <1>5. CASE Record(w) /\ ~Breaks(w)
    <2>1. FormedJob(job'[w]) /\ Others(w)
      BY <1>5, RecordDoes, FormedStays DEF At, Moved
    <2> QED
      BY <1>0, <1>01, <1>5, <2>1, RecordDoes, JobStepTyped DEF SameRuns
  <1>6. CASE Write(w) /\ ~Breaks(w)
    <2>1. FormedJob(job'[w])
      BY <1>6, WriteDoes DEF Typed, Formed, FormedJob
    <2>2. files' \subseteq Package
      BY <1>0, <1>6, WriteDoes
    <2> QED
      BY <1>0, <1>01, <1>6, <2>1, <2>2, WriteDoes, JobStepTyped DEF SameRuns
  <1>7. CASE Name(w) /\ ~Breaks(w)
    <2>1. FormedJob(job'[w]) /\ Others(w)
      BY <1>7, NameDoes, FormedStays DEF At, Moved
    <2>2. /\ column' \in [Runs -> Package \cup {NoPackage}]
          /\ \A r \in Runs : column'[r] # NoPackage => column'[r][1] = r
      BY <1>0, <1>7, NameDoes
    <2> QED
      BY <1>0, <1>01, <1>7, <2>1, <2>2, NameDoes, JobStepTyped DEF SameRuns
  <1>8. CASE List(w) /\ ~Breaks(w)
    <2>1. \A i \in 1..Len(job'[w].todo) : job'[w].todo[i].name[1] = job'[w].todo[i].run
      <3>1. \A r \in Runs : column[r] \in Package => column[r][1] = r
        BY <1>0, DebugPackagesAssumption
      <3> QED
        BY <1>8, <3>1, ListDoes
    <2>2. FormedJob(job'[w])
      BY <1>8, <2>1, ListDoes DEF FormedJob
    <2>3. cut' \subseteq Runs /\ torn' \subseteq Runs /\ revived' \subseteq Runs /\ left' \subseteq Runs
      BY <1>8, ListDoes, HistoryTyped
    <2> QED
      BY <1>0, <1>8, <2>2, <2>3, ListDoes, JobStepTyped DEF SameRuns
  <1>9. CASE PruneFile(w) /\ ~Breaks(w)
    <2>1. FormedJob(job'[w]) /\ Others(w)
      BY <1>9, PruneFileDoes DEF Typed, Formed, FormedJob, Moved, Kept
    <2>2. files' \subseteq Package
      BY <1>0, <1>9, PruneFileDoes
    <2> QED
      BY <1>0, <1>01, <1>9, <2>1, <2>2, PruneFileDoes, JobStepTyped DEF SameRuns
  <1>10. CASE PruneSave(w) /\ ~Breaks(w)
    <2>1. \A i \in 1..Len(Tail(job[w].todo)) :
             Tail(job[w].todo)[i].name[1] = Tail(job[w].todo)[i].run
      BY <1>10, PruneSaveDoes, FirstOfTodo DEF Typed, Formed, FormedJob
    <2>2. FormedJob(job'[w]) /\ Others(w)
      BY <1>10, <2>1, PruneSaveDoes DEF FormedJob
    <2>3. /\ column' \in [Runs -> Package \cup {NoPackage}]
          /\ \A r \in Runs : column'[r] # NoPackage => column'[r][1] = r
      BY <1>0, <1>10, PruneSaveDoes
    <2> QED
      BY <1>0, <1>01, <1>10, <2>2, <2>3, PruneSaveDoes, JobStepTyped DEF SameRuns
  <1>11. CASE End(w) /\ ~Breaks(w)
    <2>1. Left(w) /\ FormedJob(job'[w])
      BY <1>11, EndDoes, FormedStays
    <2> QED
      BY <1>0, <1>01, <1>11, <2>1, EndDoes, JobStepTyped DEF SameRuns, Left
  <1> QED
    BY <1>1, <1>2, <1>3, <1>4, <1>5, <1>6, <1>7, <1>8, <1>9, <1>10, <1>11, DeathBreaks DEF Work

LEMMA DeleteTyped ==
    ASSUME Typed, NEW r \in Runs, Delete(r)
    PROVE  Typed'
  <1>1. CASE DeleteRead(r)
    BY <1>1, DeleteReadDoes DEF Typed, TypeOK, Formed, SameHistory
  <1>2. CASE DeleteRow(r)
    <2>1. Without(ended, r) \in Seq(Runs) /\ Once(Without(ended, r))
      BY Again DEF Typed
    <2>2. /\ rows' \subseteq Runs /\ UNCHANGED <<status, files, job>>
          /\ column' \in [Runs -> Package \cup {NoPackage}] /\ del' \in [Runs -> Del]
          /\ SameHistory
      BY <1>2, DeleteRowDoes DEF Typed, TypeOK
    <2>3. ended' \in Seq(Runs) /\ \A i, j \in DOMAIN ended' : ended'[i] = ended'[j] => i = j
      <3>1. ended' \in Seq(Runs) /\ Once(ended')
        BY <1>2, <2>1, DeleteRowDoes
      <3>2. DOMAIN ended' = 1..Len(ended')
        BY <3>1
      <3> QED
        BY <3>1, <3>2 DEF Once
    <2>4. TypeOK'
      BY <2>2, <2>3 DEF Typed, TypeOK, SameHistory
    <2>5. Formed'
      BY <1>2, DeleteRowDoes DEF Typed, TypeOK, Formed
    <2> QED
      BY <2>4, <2>5 DEF Typed
  <1>3. CASE DeleteUnlink(r)
    BY <1>3, DeleteUnlinkDoes DEF Typed, TypeOK, Formed, SameHistory
  <1> QED
    BY <1>1, <1>2, <1>3 DEF Delete

LEMMA TypedNext == Typed /\ [Next]_vars => Typed'
  <1>1. Typed /\ UNCHANGED vars => Typed'
    BY DEF vars, Typed, TypeOK, Formed
  <1> QED
    BY <1>1, WorkTyped, DeleteTyped DEF Next

\* Whatever runs overlap, fail, die and are deleted, the variables keep their types:
\* the runs a task lists are runs with a package, and the list of ended runs has each
\* run once, though a task may end its run more than once.
THEOREM TypeCorrect == Spec => []TypeOK
  <1>1. Typed => TypeOK
    BY DEF Typed
  <1> QED
    BY InitTyped, TypedNext, <1>1, PTL DEF Spec

-----------------------------------------------------------------------------
(* One task to a run, and a package named once *)

\* The prunes of w that are still to be done include r.
Lists(w, r) == /\ job[w].pc \in {"prune", "prune_save"}
               /\ \E i \in 1..Len(job[w].todo) : job[w].todo[i].run = r

Spared(r) == \A w \in Workers : ~Lists(w, r)

\* A run is taken once, by one task, and has no package before.
Owned ==
    /\ \A w, v \in Workers :
          ~At(w, "idle") /\ ~At(v, "idle") /\ job[w].run = job[v].run => w = v
    /\ \A w \in Workers : ~At(w, "idle") => status[job[w].run] # "queued"
    /\ \A r \in Runs : status[r] = "queued" =>
          column[r] = NoPackage /\ Spared(r) /\ r \notin cut

\* Until the task of a run names a package the run has none that another task could
\* prune, unless the task was cut short with one; and then the run has failed.
FirstJob(b) ==
    /\ b.pc = "pipeline" => b.run \notin cut
    /\ b.pc = "handler" => b.handling
    /\ b.pc # "idle" /\ (b.handling => b.pc = "handler") => status[b.run] # "failed"
    /\ b.pc \in {"record", "write", "name"} /\ b.run \in cut => status[b.run] = "failed"
    /\ b.pc \in {"pipeline", "handler", "record", "write", "name"} /\ b.run \notin cut
         => /\ column[b.run] = NoPackage /\ Spared(b.run)
            /\ b.pc = "name" /\ b.run \in rows => b.name \in files

First == \A w \in Workers : FirstJob(job[w])

\* The runs of tasks, the columns and the lists that a step may change.
Narrow(w) ==
    /\ SameQueue /\ Others(w)
    /\ \/ job'[w].pc = "idle"
       \/ ~At(w, "idle") /\ job'[w].run = job[w].run
       \/ /\ At(w, "idle") /\ job'[w].run \in Runs
          /\ status[job'[w].run] = "queued" /\ status'[job'[w].run] # "queued"
    /\ \A r \in Runs :
          \/ status'[r] = status[r]
          \/ status'[r] # "queued" /\ job'[w].pc # "idle" /\ job'[w].run = r
    /\ \A r \in Runs :
          \/ column'[r] = column[r]
          \/ column'[r] = NoPackage /\ Lists(w, r)
          \/ At(w, "name") /\ job[w].run = r
    /\ \A v \in Workers, r \in Runs :
          Lists(v, r)' => Lists(v, r) \/ (v = w /\ At(w, "list") /\ column[r] # NoPackage)
    /\ \A r \in Runs :
          (r \in cut' <=> r \in cut) \/ (~At(w, "idle") /\ job[w].run = r /\ r \in cut')

LEMMA NoList ==
    ASSUME NEW w \in Workers, job'[w].pc \notin {"prune", "prune_save"}, NEW r
    PROVE  ~Lists(w, r)'
  BY DEF Lists

LEMMA OthersList ==
    ASSUME NEW w \in Workers, Others(w),
           \A r \in Runs : Lists(w, r)' => Lists(w, r) \/ (At(w, "list") /\ column[r] # NoPackage)
    PROVE  \A v \in Workers, r \in Runs :
              Lists(v, r)' => Lists(v, r) \/ (v = w /\ At(w, "list") /\ column[r] # NoPackage)
  BY DEF Others, Lists

\* No step of a task does more than this.
LEMMA WorkNarrow ==
    ASSUME Typed, NEW w \in Workers, Work(w)
    PROVE  Narrow(w)
  <1> DEFINE Goes == /\ SameQueue /\ Others(w)
                     /\ job'[w].pc = "idle" \/ (~At(w, "idle") /\ job'[w].run = job[w].run)
             Same == UNCHANGED <<status, column, cut>>
             Off == job'[w].pc \notin {"prune", "prune_save"}
             NoMore == \A r \in Runs : Lists(w, r)' => Lists(w, r) \/ (At(w, "list") /\ column[r] # NoPackage)
  <1>0. /\ status \in [Runs -> {"queued", "running", "done", "failed"}]
        /\ column \in [Runs -> Package \cup {NoPackage}]
    BY DEF Typed, TypeOK
  <1>01. Off => NoMore
    BY NoList
  <1>02. Goes /\ Same /\ NoMore => Narrow(w)
    BY OthersList DEF Narrow
  <1>1. ASSUME NEW r \in Runs, Take(w, r)
        PROVE  Narrow(w)
    <2>1. NoMore
      BY <1>1, TakeDoes, NoList
    <2>2. /\ SameQueue /\ Others(w) /\ column' = column /\ cut' = cut
          /\ At(w, "idle") /\ job'[w].run = r /\ status[r] = "queued"
          /\ status' = [status EXCEPT ![r] = "running"] /\ job'[w].pc = "pipeline"
      BY <1>1, TakeDoes DEF SameHistory
    <2>3. \A v \in Workers, s \in Runs :
             Lists(v, s)' => Lists(v, s) \/ (v = w /\ At(w, "list") /\ column[s] # NoPackage)
      BY <2>1, <2>2, OthersList
    <2> QED
      BY <1>0, <2>2, <2>3 DEF Narrow
  <1>2. CASE Breaks(w)
    <2>1. Goes /\ Off /\ UNCHANGED <<status, column>>
      <3>1. SameRuns /\ UNCHANGED column /\ ~At(w, "idle") /\ (Left(w) \/ Caught(w))
        BY <1>2, BreaksDoes
      <3> QED
        BY <3>1 DEF Left, Caught, Kept, IdleJob, SameRuns
    <2>2. ~At(w, "idle") /\ (cut' = cut \/ cut' = cut \cup {job[w].run})
      BY <1>2, BreaksDoes
    <2> QED
      BY <1>01, <2>1, <2>2, OthersList DEF Narrow
  <1>3. CASE (Finish(w) \/ Fail(w)) /\ ~Breaks(w)
    <2>1. Goes /\ Off /\ column' = column /\ cut' = cut
          /\ job[w].run \in Runs /\ job'[w].pc = "record" /\ job'[w].run = job[w].run
      BY <1>3, FinishDoes, FailDoes DEF Moved, Kept, At, SameHistory
    <2>2. \/ status' = [status EXCEPT ![job[w].run] = "done"]
          \/ status' = [status EXCEPT ![job[w].run] = "failed"]
      BY <1>3, FinishDoes, FailDoes
    <2> QED
      BY <1>0, <1>01, <2>1, <2>2, OthersList DEF Narrow
  <1>4. CASE (Record(w) \/ Write(w) \/ End(w)) /\ ~Breaks(w)
    <2>1. Goes /\ Same /\ Off
      BY <1>4, RecordDoes, WriteDoes, EndDoes
         DEF Moved, Kept, Left, IdleJob, At, SameRuns, SameHistory
    <2> QED
      BY <1>01, <1>02, <2>1
  <1>5. CASE Name(w) /\ ~Breaks(w)
    <2>1. Goes /\ Off /\ status' = status /\ cut' = cut /\ At(w, "name")
          /\ column' = [column EXCEPT ![job[w].run] = job[w].name]
      BY <1>5, NameDoes DEF Moved, Kept, At, SameRuns, SameHistory
    <2>2. \A r \in Runs : column'[r] = column[r] \/ job[w].run = r
      BY <1>0, <2>1
    <2>3. \A v \in Workers, r \in Runs :
             Lists(v, r)' => Lists(v, r) \/ (v = w /\ At(w, "list") /\ column[r] # NoPackage)
      BY <1>01, <2>1, OthersList
    <2> QED
      BY <2>1, <2>2, <2>3 DEF Narrow
  <1>6. CASE List(w) /\ ~Breaks(w)
    <2>1. Goes /\ Same
      BY <1>6, ListDoes DEF At, SameRuns
    <2>2. NoMore
      BY <1>6, ListDoes, DebugPackagesAssumption DEF Lists
    <2> QED
      BY <1>02, <2>1, <2>2
  <1>7. CASE PruneFile(w) /\ ~Breaks(w)
    <2>1. Goes /\ Same
      BY <1>7, PruneFileDoes DEF Moved, Kept, At, SameRuns, SameHistory
    <2>2. NoMore
      BY <1>7, PruneFileDoes DEF Moved, Kept, At, Lists
    <2> QED
      BY <1>02, <2>1, <2>2
  <1>8. CASE PruneSave(w) /\ ~Breaks(w)
    <2>1. /\ Goes /\ status' = status /\ cut' = cut
          /\ At(w, "prune_save") /\ job[w].todo # <<>> /\ job'[w].todo = Tail(job[w].todo)
          /\ column' = [column EXCEPT ![Head(job[w].todo).run] = NoPackage]
      BY <1>8, PruneSaveDoes DEF At, SameRuns, SameHistory
    <2>2. Lists(w, Head(job[w].todo).run)
      BY <2>1, FirstOfTodo DEF Lists, At
    <2>3. \A r \in Runs : column'[r] = column[r] \/ (column'[r] = NoPackage /\ Lists(w, r))
      BY <1>0, <2>1, <2>2
    <2>4. NoMore
      BY <2>1, FirstOfTodo DEF Lists, At
    <2> QED
      BY <2>1, <2>3, <2>4, OthersList DEF Narrow
  <1> QED
    BY <1>1, <1>2, <1>3, <1>4, <1>5, <1>6, <1>7, <1>8, DeathBreaks DEF Work

LEMMA SparedStays ==
    ASSUME NEW w \in Workers, Narrow(w), NEW r \in Runs, column[r] = NoPackage, Spared(r)
    PROVE  Spared(r)'
  <1>1. ASSUME NEW v \in Workers, Lists(v, r)' PROVE FALSE
    BY <1>1 DEF Narrow, Spared
  <1> QED
    BY <1>1 DEF Spared

\* No two tasks get the same run: Take moves it out of the queue.
LEMMA WorkOwned ==
    ASSUME Typed, Owned, NEW w \in Workers, Narrow(w)
    PROVE  Owned'
  <1>1. \A v \in Workers : v # w => At(v, "idle")' = At(v, "idle") /\ job'[v].run = job[v].run
    BY DEF Narrow, Others, At
  <1>2. \A v \in Workers : ~At(v, "idle") => job[v].run \in Runs
    BY DEF Typed, Formed, FormedJob, At
  <1>3. \A v \in Workers : v # w /\ ~At(v, "idle") /\ ~At(w, "idle")' => job[v].run # job'[w].run
    BY DEF Owned, Narrow, At
  <1>4. ASSUME NEW v \in Workers, NEW u \in Workers,
               ~At(v, "idle")', ~At(u, "idle")', job'[v].run = job'[u].run
        PROVE  v = u
    BY <1>1, <1>3, <1>4 DEF Owned
  <1>5. ASSUME NEW v \in Workers, ~At(v, "idle")'
        PROVE  status'[job'[v].run] # "queued"
    <2>1. CASE v # w
      <3>1. job'[v].run \in Runs /\ status[job'[v].run] # "queued"
        BY <1>1, <1>2, <1>5, <2>1 DEF Owned
      <3> QED
        BY <3>1 DEF Narrow
    <2>2. CASE v = w
      <3>1. CASE ~At(w, "idle")
        <4>1. job'[w].run = job[w].run /\ job[w].run \in Runs /\ status[job[w].run] # "queued"
          BY <1>2, <1>5, <2>2, <3>1 DEF Owned, Narrow, At
        <4> QED
          BY <2>2, <4>1 DEF Narrow
      <3>2. CASE At(w, "idle")
        <4>1. job'[w].run \in Runs
          BY <1>5, <2>2, <3>2 DEF Narrow, At
        <4> QED
          BY <1>5, <2>2, <3>2, <4>1 DEF Narrow, At
      <3> QED
        BY <3>1, <3>2
    <2> QED
      BY <2>1, <2>2
  <1>6. ASSUME NEW r \in Runs, status'[r] = "queued"
        PROVE  column'[r] = NoPackage /\ Spared(r)' /\ r \notin cut'
    <2>1. status[r] = "queued" /\ column[r] = NoPackage /\ Spared(r) /\ r \notin cut
      BY <1>6 DEF Narrow, Owned
    <2>2. ~(At(w, "name") /\ job[w].run = r)
      BY <2>1 DEF Owned, At
    <2>3. column'[r] = NoPackage
      BY <2>1, <2>2 DEF Narrow
    <2>4. Spared(r)'
      BY <2>1, SparedStays
    <2>5. r \notin cut'
      BY <2>1 DEF Narrow, Owned
    <2> QED
      BY <2>3, <2>4, <2>5
  <1> QED
    BY <1>4, <1>5, <1>6 DEF Owned

\* A task that the step is not of keeps what First says of it.
LEMMA OtherFirst ==
    ASSUME Typed, Owned, First, NEW w \in Workers, Narrow(w), NEW v \in Workers, v # w,
           files \subseteq files' \/ \E r \in Runs : Lists(w, r) /\
               \A f \in files : f[1] = r \/ f \in files'
    PROVE  FirstJob(job[v])'
  <1>1. job'[v] = job[v] /\ rows' = rows
    BY DEF Narrow, Others, SameQueue
  <1>2. CASE At(v, "idle")
    BY <1>1, <1>2 DEF First, FirstJob, At
  <1>3. CASE ~At(v, "idle")
    <2> DEFINE r == job[v].run
    <2>1. r \in Runs /\ status[r] # "queued" /\ FirstJob(job[v])
      BY <1>3 DEF Typed, Formed, FormedJob, Owned, First, At
    <2>2. job'[w].pc = "idle" \/ job'[w].run # r
      BY <1>3 DEF Narrow, Owned, At
    <2>3. ~(At(w, "name") /\ job[w].run = r)
      BY <1>3 DEF Owned, At
    <2>4. status'[r] = status[r]
      BY <2>1, <2>2 DEF Narrow
    <2>5. column[r] = NoPackage => column'[r] = NoPackage
      BY <2>1, <2>3 DEF Narrow
    <2>6. \A s \in Runs : column[s] = NoPackage /\ Spared(s) => Spared(s)'
      BY SparedStays
    <2>7. At(v, "name") /\ Spared(r) /\ job[v].name \in files => job[v].name \in files'
      <3>1. At(v, "name") => job[v].name[1] = r
        BY DEF Typed, Formed, FormedJob, At
      <3> QED
        BY <3>1 DEF Spared
    <2>8. r \in cut' <=> r \in cut
      BY <1>3, <2>1 DEF Narrow, Owned, At
    <2> QED
      BY <1>1, <1>3, <2>1, <2>4, <2>5, <2>6, <2>7, <2>8 DEF FirstJob, At
  <1> QED
    BY <1>2, <1>3

\* A step of the task of a run keeps its own part of First.
LEMMA WorkFirst ==
    ASSUME Typed, Owned, First, NEW w \in Workers, Work(w)
    PROVE  First'
  <1>1. Narrow(w)
    BY WorkNarrow
  <1>2. FirstJob(job[w]) /\ (job[w].pc # "idle" => job[w].run \in Runs) /\ job[w].pc \in JobPc
    BY JobTyped DEF First, Typed, Formed, FormedJob
  <1>3. \A r \in Runs : column[r] = NoPackage /\ Spared(r) => Spared(r)'
    BY <1>1, SparedStays
  <1> DEFINE Files == files \subseteq files' \/ \E r \in Runs : Lists(w, r) /\
                         \A f \in files : f[1] = r \/ f \in files'
  <1>4. Files /\ FirstJob(job[w])'
    <2>1. ASSUME NEW r \in Runs, Take(w, r)
          PROVE  Files /\ FirstJob(job[w])'
      <3>1. /\ status[r] = "queued" /\ status' = [status EXCEPT ![r] = "running"]
            /\ files' = files /\ column' = column /\ cut' = cut
            /\ job'[w].pc = "pipeline" /\ job'[w].run = r
        BY <2>1, TakeDoes DEF SameHistory
      <3>2. column[r] = NoPackage /\ Spared(r) /\ r \notin cut
        BY <3>1 DEF Owned
      <3>3. status'[r] = "running"
        BY <3>1 DEF Typed, TypeOK
      <3>4. Spared(r)'
        BY <1>3, <3>2
      <3>5. FirstJob(job[w])'
        BY <3>1, <3>2, <3>3, <3>4 DEF FirstJob
      <3> QED
        BY <3>1, <3>5
    <2>2. CASE Breaks(w)
      <3>1. files' = files /\ column' = column /\ status' = status /\ ~At(w, "idle")
            /\ (Left(w) \/ (~job[w].handling /\ Caught(w)))
            /\ cut' = IF job[w].pc \in {"name", "list", "prune", "prune_save"}
                        THEN cut \cup {job[w].run} ELSE cut
        BY <2>2, BreaksDoes DEF SameRuns
      <3>2. CASE Left(w)
        <4>1. job'[w].pc = "idle"
          BY <3>2 DEF Left, IdleJob
        <4>2. FirstJob(job[w])'
          BY <4>1 DEF FirstJob
        <4> QED
          BY <3>1, <4>2
      <3>3. CASE ~job[w].handling /\ Caught(w)
        <4>1. job[w].run \notin cut' =>
                job[w].run \notin cut /\ job[w].pc \in {"pipeline", "handler", "record", "write"}
          BY <1>2, <3>1 DEF JobPc, At
        <4>2. job[w].run \notin cut' => column[job[w].run] = NoPackage /\ Spared(job[w].run)
          BY <1>2, <4>1 DEF FirstJob
        <4>3. \A r \in Runs : r = job[w].run /\ r \notin cut' => Spared(r)'
          BY <1>3, <4>2
        <4>4. status[job[w].run] # "failed" /\ job[w].run \in Runs
          BY <1>2, <3>1, <3>3 DEF FirstJob, At
        <4>5. job'[w].pc = "handler" /\ job'[w].run = job[w].run /\ job'[w].handling = TRUE
          BY <3>3 DEF Caught, Kept
        <4>6. FirstJob(job[w])'
          BY <3>1, <4>2, <4>3, <4>4, <4>5 DEF FirstJob
        <4> QED
          BY <3>1, <4>6
      <3> QED
        BY <3>1, <3>2, <3>3
    <2>3. CASE Finish(w) /\ ~Breaks(w)
      <3>1. /\ At(w, "pipeline") /\ files' = files /\ column' = column /\ cut' = cut
            /\ job[w].run \in Runs /\ Moved(w, "record")
            /\ status' = [status EXCEPT ![job[w].run] = "done"]
        BY <2>3, FinishDoes DEF SameHistory
      <3>2. column[job[w].run] = NoPackage /\ Spared(job[w].run) /\ job[w].run \notin cut
        BY <1>2, <3>1 DEF FirstJob, At
      <3>3. \A r \in Runs : r = job[w].run => Spared(r)'
        BY <1>3, <3>2
      <3>4. status'[job[w].run] = "done"
        BY <3>1 DEF Typed, TypeOK
      <3> QED
        BY <3>1, <3>2, <3>3, <3>4 DEF FirstJob, Moved, Kept
    <2>4. CASE Fail(w) /\ ~Breaks(w)
      <3>1. /\ At(w, "handler") /\ files' = files /\ column' = column /\ cut' = cut
            /\ job[w].run \in Runs /\ Moved(w, "record")
            /\ status' = [status EXCEPT ![job[w].run] = "failed"]
        BY <2>4, FailDoes
      <3>2. /\ job[w].run \notin cut => column[job[w].run] = NoPackage /\ Spared(job[w].run)
            /\ job[w].handling
        BY <1>2, <3>1 DEF FirstJob, At
      <3>3. \A r \in Runs : r = job[w].run /\ r \notin cut => Spared(r)'
        BY <1>3, <3>2
      <3>4. status'[job[w].run] = "failed"
        BY <3>1 DEF Typed, TypeOK
      <3> QED
        BY <3>1, <3>2, <3>3, <3>4 DEF FirstJob, Moved, Kept
    <2>5. CASE Record(w) /\ ~Breaks(w)
      <3>1. /\ At(w, "record") /\ SameRuns /\ files' = files /\ column' = column /\ cut' = cut
            /\ Moved(w, "write") /\ job[w].run \in Runs
        BY <2>5, RecordDoes DEF SameHistory
      <3>2. \A r \in Runs : r = job[w].run /\ r \notin cut => Spared(r)'
        BY <1>2, <1>3, <3>1 DEF FirstJob, At
      <3> QED
        BY <1>2, <3>1, <3>2 DEF Moved, Kept, FirstJob, SameRuns, At
    <2>6. CASE Write(w) /\ ~Breaks(w)
      <3>1. /\ At(w, "write") /\ SameRuns /\ column' = column /\ cut' = cut
            /\ job[w].run \in Runs /\ job'[w].pc = "name" /\ job'[w].run = job[w].run
            /\ job'[w].handling = job[w].handling /\ job'[w].name \in files'
            /\ files \subseteq files'
        BY <2>6, WriteDoes DEF SameHistory
      <3>2. \A r \in Runs : r = job[w].run /\ r \notin cut => Spared(r)'
        BY <1>2, <1>3, <3>1 DEF FirstJob, At
      <3> QED
        BY <1>2, <3>1, <3>2 DEF FirstJob, SameRuns, At
    <2>7. CASE Name(w) /\ ~Breaks(w)
      <3>1. /\ At(w, "name") /\ SameRuns /\ files' = files /\ cut' = cut /\ Moved(w, "list")
        BY <2>7, NameDoes DEF SameHistory
      <3> QED
        BY <1>2, <3>1 DEF Moved, Kept, FirstJob, SameRuns, At
    <2>8. CASE List(w) /\ ~Breaks(w)
      BY <1>2, <2>8, ListDoes DEF FirstJob, SameRuns, At
    <2>9. CASE PruneFile(w) /\ ~Breaks(w)
      <3>1. Lists(w, Head(job[w].todo).run) /\ Head(job[w].todo).run \in Runs
        BY <2>9, PruneFileDoes, FirstOfTodo DEF Lists, At
      <3>2. \A f \in files : f[1] = Head(job[w].todo).run \/ f \in files'
        BY <2>9, PruneFileDoes, FirstOfTodo
      <3>3. At(w, "prune") /\ SameRuns /\ cut' = cut /\ Moved(w, "prune_save")
        BY <2>9, PruneFileDoes DEF SameHistory
      <3>4. FirstJob(job[w])'
        BY <1>2, <3>3 DEF Moved, Kept, FirstJob, SameRuns, At
      <3> QED
        BY <3>1, <3>2, <3>4
    <2>10. CASE PruneSave(w) /\ ~Breaks(w)
      BY <1>2, <2>10, PruneSaveDoes DEF FirstJob, SameRuns, At
    <2>11. CASE End(w) /\ ~Breaks(w)
      BY <2>11, EndDoes DEF Left, IdleJob, FirstJob
    <2> QED
      BY <2>1, <2>2, <2>3, <2>4, <2>5, <2>6, <2>7, <2>8, <2>9, <2>10, <2>11, DeathBreaks DEF Work
  <1>5. ASSUME NEW v \in Workers, v # w
        PROVE  FirstJob(job[v])'
    BY <1>1, <1>4, <1>5, OtherFirst
  <1> QED
    BY <1>4, <1>5 DEF First

LEMMA DeleteOwned ==
    ASSUME Typed, Owned, First, NEW r \in Runs, Delete(r)
    PROVE  Owned' /\ First'
  <1>1. /\ UNCHANGED <<status, job, cut>> /\ rows' \subseteq rows
        /\ column' = column \/ column' = [column EXCEPT ![r] = NoPackage]
        /\ files' = files \/ (r \notin rows /\ files' = files \ {del[r].name})
    BY DeleteReadDoes, DeleteRowDoes, DeleteUnlinkDoes DEF Delete, SameHistory
  <1>2. /\ \A s : Spared(s)' <=> Spared(s)
        /\ \A s \in Runs : column[s] = NoPackage => column'[s] = NoPackage
    BY <1>1 DEF Spared, Lists, Typed, TypeOK
  <1>3. Owned'
    BY <1>1, <1>2 DEF Owned, At
  <1>4. ASSUME NEW w \in Workers
        PROVE  FirstJob(job[w])'
    <2>1. FirstJob(job[w]) /\ (job[w].pc # "idle" => job[w].run \in Runs)
      BY DEF First, Typed, Formed, FormedJob
    <2>2. /\ job[w].pc = "name" => job[w].name \in Package /\ job[w].name[1] = job[w].run
          /\ del[r].name # NoPackage => del[r].name[1] = r
      BY DEF Typed, Formed, FormedJob
    <2>3. job[w].pc = "name" /\ job[w].run \in rows' /\ job[w].name \in files
            => job[w].name \in files'
      BY <1>1, <2>2, DebugPackagesAssumption
    <2> QED
      BY <1>1, <1>2, <2>1, <2>3 DEF FirstJob
  <1> QED
    BY <1>3, <1>4 DEF First

LEMMA InitOwned == Init => Owned /\ First
  <1> SUFFICES ASSUME Init PROVE Owned /\ First
    OBVIOUS
  <1>1. \A w \in Workers : job[w].pc = "idle" /\ job[w].handling = FALSE
    BY DEF Init, IdleJob
  <1>2. \A r : Spared(r)
    BY <1>1 DEF Spared, Lists
  <1> QED
    BY <1>1, <1>2 DEF Init, Owned, First, FirstJob, At

LEMMA OwnedNext == Typed /\ Owned /\ First /\ [Next]_vars => Owned' /\ First'
  <1>1. Typed /\ Owned /\ First /\ UNCHANGED vars => Owned' /\ First'
    BY DEF vars, Owned, First, FirstJob, At, Spared, Lists
  <1> QED
    BY <1>1, WorkNarrow, WorkOwned, WorkFirst, DeleteOwned DEF Next

-----------------------------------------------------------------------------
(* A name has its file *)

LEMMA PruningStays ==
    ASSUME NEW w \in Workers, Others(w), ~At(w, "prune_save"), NEW r, Pruning(r)
    PROVE  Pruning(r)'
  <1>1. PICK v \in Workers : At(v, "prune_save") /\ Head(job[v].todo).run = r
    BY DEF Pruning
  <1>2. v # w /\ job'[v] = job[v]
    BY <1>1 DEF Others
  <1> QED
    BY <1>1, <1>2 DEF Pruning, At

\* A run that may name what is not there.
Excused(r) == Pruning(r) \/ r \in torn \/ (status[r] = "failed" /\ r \in cut)

LEMMA NamedMeans ==
    NamedIsThere <=> \A r \in rows : column[r] # NoPackage => column[r] \in files \/ Excused(r)
  BY DEF NamedIsThere, Excused

\* A step that takes nothing away.
LEMMA NothingLost ==
    ASSUME NamedIsThere, Typed, NEW w \in Workers, Others(w), ~At(w, "prune_save"),
           rows' = rows, torn \subseteq torn', cut \subseteq cut', files \subseteq files',
           \A r \in Runs : \/ column'[r] \in files' \cup {NoPackage}
                           \/ status'[r] = "failed" /\ r \in cut'
                           \/ column'[r] = column[r] /\ (status[r] = "failed" => status'[r] = "failed")
    PROVE  NamedIsThere'
  <1> SUFFICES ASSUME NEW r \in rows, column'[r] # NoPackage
               PROVE  column'[r] \in files' \/ Excused(r)'
    BY DEF NamedIsThere, Excused
  <1>1. r \in Runs
    BY DEF Typed, TypeOK
  <1>2. CASE column'[r] = column[r] /\ (status[r] = "failed" => status'[r] = "failed")
    <2>1. column[r] \in files \/ Excused(r)
      BY <1>2, NamedMeans
    <2> QED
      BY <1>2, <2>1, PruningStays DEF Excused
  <1>3. CASE status'[r] = "failed" /\ r \in cut'
    BY <1>3 DEF Excused
  <1> QED
    BY <1>1, <1>2, <1>3

\* Only PruneFile takes a file away, and it is the file of a run whose prune is then
\* to be saved: or is cut short.
LEMMA WorkNamed ==
    ASSUME Typed, Owned, First, NamedIsThere, NEW w \in Workers, Work(w)
    PROVE  NamedIsThere'
  <1>0. /\ Narrow(w) /\ FirstJob(job[w])
        /\ status \in [Runs -> {"queued", "running", "done", "failed"}]
        /\ column \in [Runs -> Package \cup {NoPackage}] /\ rows \subseteq Runs
    BY WorkNarrow DEF Typed, TypeOK, First
  <1>1. ASSUME NEW r \in Runs, Take(w, r)
        PROVE  NamedIsThere'
    <2>1. /\ Others(w) /\ ~At(w, "prune_save") /\ rows' = rows /\ SameHistory /\ files' = files
          /\ column' = column /\ status[r] = "queued"
          /\ status' = [status EXCEPT ![r] = "running"]
      BY <1>1, TakeDoes DEF SameQueue, At
    <2>2. column[r] = NoPackage
      BY <2>1 DEF Owned
    <2> QED
      BY <1>0, <2>1, <2>2, NothingLost DEF SameHistory
  <1>2. CASE Breaks(w)
    <2>1. /\ SameRuns /\ UNCHANGED <<column, files>> /\ Others(w) /\ cut \subseteq cut'
          /\ torn' = IF At(w, "prune_save") THEN torn \cup {Head(job[w].todo).run} ELSE torn
      BY <1>2, BreaksDoes DEF Caught, Left
    <2>2. CASE ~At(w, "prune_save")
      BY <2>1, <2>2, NothingLost DEF SameRuns, SameQueue
    <2>3. CASE At(w, "prune_save")
      <3> SUFFICES ASSUME NEW r \in rows, column[r] # NoPackage
                   PROVE  column[r] \in files \/ Excused(r)'
        BY <2>1 DEF NamedIsThere, Excused, SameRuns, SameQueue
      <3>1. column[r] \in files \/ Excused(r)
        BY NamedMeans
      <3>2. CASE r = Head(job[w].todo).run
        BY <2>1, <2>3, <3>2 DEF Excused
      <3>3. CASE Pruning(r) /\ r # Head(job[w].todo).run
        <4>1. PICK v \in Workers : At(v, "prune_save") /\ Head(job[v].todo).run = r
          BY <3>3 DEF Pruning
        <4>2. v # w /\ job'[v] = job[v]
          BY <2>1, <3>3, <4>1 DEF Others
        <4> QED
          BY <4>1, <4>2 DEF Excused, Pruning, At
      <3> QED
        BY <2>1, <2>3, <3>1, <3>2, <3>3 DEF Excused, SameRuns
    <2> QED
      BY <2>2, <2>3
  <1>3. CASE Finish(w) /\ ~Breaks(w)
    <2>1. /\ Others(w) /\ At(w, "pipeline") /\ rows' = rows /\ SameHistory
          /\ files' = files /\ column' = column
          /\ status' = [status EXCEPT ![job[w].run] = "done"]
      BY <1>3, FinishDoes DEF Moved, SameQueue
    <2>2. column[job[w].run] = NoPackage
      BY <1>0, <2>1 DEF FirstJob, At
    <2>3. ~At(w, "prune_save")
      BY <2>1 DEF At
    <2> QED
      BY <1>0, <2>1, <2>2, <2>3, NothingLost DEF SameHistory
  <1>4. CASE Fail(w) /\ ~Breaks(w)
    <2>1. /\ Others(w) /\ ~At(w, "prune_save") /\ rows' = rows
          /\ UNCHANGED <<files, column, cut, torn>>
          /\ status' = [status EXCEPT ![job[w].run] = "failed"]
      BY <1>4, FailDoes DEF Moved, SameQueue, At
    <2> QED
      BY <1>0, <2>1, NothingLost
  <1>5. CASE (Record(w) \/ Write(w) \/ List(w) \/ End(w)) /\ ~Breaks(w)
    <2>1. /\ Others(w) /\ ~At(w, "prune_save") /\ rows' = rows
          /\ files \subseteq files' /\ UNCHANGED <<column, status, cut, torn>>
      BY <1>0, <1>5, RecordDoes, WriteDoes, ListDoes, EndDoes
         DEF Narrow, SameRuns, SameQueue, SameHistory, At
    <2> QED
      BY <2>1, NothingLost
  <1>6. CASE Name(w) /\ ~Breaks(w)
    <2>1. /\ Others(w) /\ At(w, "name") /\ rows' = rows /\ job[w].run \in rows
          /\ UNCHANGED <<files, status>> /\ SameHistory
          /\ column' = [column EXCEPT ![job[w].run] = job[w].name]
      BY <1>6, NameDoes DEF Moved, SameRuns, SameQueue
    <2>2. job[w].name \in files \/ (status[job[w].run] = "failed" /\ job[w].run \in cut)
      BY <1>0, <2>1 DEF FirstJob, At
    <2>3. \A r \in Runs : column'[r] = IF r = job[w].run THEN job[w].name ELSE column[r]
      BY <1>0, <2>1
    <2>4. ~At(w, "prune_save")
      BY <2>1 DEF At
    <2> QED
      BY <2>1, <2>2, <2>3, <2>4, NothingLost DEF SameHistory
  <1>7. CASE PruneFile(w) /\ ~Breaks(w)
    <2> DEFINE n == Head(job[w].todo).name
    <2>1. /\ Others(w) /\ ~At(w, "prune_save") /\ rows' = rows /\ SameHistory
          /\ column' = column /\ status' = status /\ files' = files \ {n}
          /\ n[1] = Head(job[w].todo).run
          /\ At(w, "prune_save")' /\ job'[w].todo = job[w].todo
      BY <1>7, PruneFileDoes, FirstOfTodo DEF Moved, Kept, SameRuns, SameQueue, At
    <2> SUFFICES ASSUME NEW r \in rows, column[r] # NoPackage
                 PROVE  column[r] \in files' \/ Excused(r)'
      BY <2>1 DEF NamedIsThere, Excused
    <2>2. CASE column[r] = n
      <3>1. r = Head(job[w].todo).run
        BY <1>0, <2>1, <2>2 DEF Typed, Formed
      <3>2. Head(job'[w].todo).run = r /\ At(w, "prune_save")'
        BY <2>1, <3>1
      <3> QED
        BY <3>2 DEF Pruning, Excused
    <2>3. CASE column[r] # n
      <3>1. column[r] \in files \/ Excused(r)
        BY NamedMeans
      <3> QED
        BY <2>1, <2>3, <3>1, PruningStays DEF Excused, SameHistory
    <2> QED
      BY <2>2, <2>3
  <1>8. CASE PruneSave(w) /\ ~Breaks(w)
    <2>1. /\ Others(w) /\ At(w, "prune_save") /\ rows' = rows /\ SameHistory
          /\ files' = files /\ status' = status
          /\ column' = [column EXCEPT ![Head(job[w].todo).run] = NoPackage]
      BY <1>8, PruneSaveDoes DEF SameRuns, SameQueue
    <2> SUFFICES ASSUME NEW r \in rows, column'[r] # NoPackage
                 PROVE  column'[r] \in files' \/ Excused(r)'
      BY <2>1 DEF NamedIsThere, Excused
    <2>2. r # Head(job[w].todo).run /\ column'[r] = column[r]
      BY <1>0, <2>1
    <2>3. column[r] \in files \/ Excused(r)
      BY <2>2, NamedMeans
    <2>4. ASSUME NEW v \in Workers, At(v, "prune_save"), Head(job[v].todo).run = r
          PROVE  Pruning(r)'
      <3>1. v # w /\ job'[v] = job[v]
        BY <2>1, <2>2, <2>4 DEF Others
      <3> QED
        BY <2>4, <3>1 DEF Pruning, At
    <2>5. Pruning(r) => Pruning(r)'
      BY <2>4 DEF Pruning
    <2> QED
      BY <2>1, <2>2, <2>3, <2>5 DEF Excused, SameHistory
  <1> QED
    BY <1>1, <1>2, <1>3, <1>4, <1>5, <1>6, <1>7, <1>8, DeathBreaks DEF Work

LEMMA DeleteNamed ==
    ASSUME Typed, NamedIsThere, NEW r \in Runs, Delete(r)
    PROVE  NamedIsThere'
  <1>1. /\ UNCHANGED <<status, job>> /\ SameHistory /\ rows' \subseteq rows
        /\ \/ column' = column /\ rows' = rows
           \/ column' = [column EXCEPT ![r] = NoPackage] /\ rows' = rows \ {r}
        /\ files' = files \/ (r \notin rows /\ files' = files \ {del[r].name})
    BY DeleteReadDoes, DeleteRowDoes, DeleteUnlinkDoes DEF Delete
  <1>2. \A s : Excused(s)' <=> Excused(s)
    BY <1>1 DEF Excused, Pruning, At, SameHistory
  <1> SUFFICES ASSUME NEW s \in rows', column'[s] # NoPackage
               PROVE  column'[s] \in files' \/ Excused(s)'
    BY DEF NamedIsThere, Excused
  <1>3. s \in rows /\ s \in Runs /\ column'[s] = column[s] /\ column[s][1] = s
    BY <1>1 DEF Typed, TypeOK, Formed
  <1>4. r \notin rows => del[r].name = NoPackage \/ del[r].name[1] = r
    BY DEF Typed, Formed
  <1>5. column[s] \in files => column[s] \in files'
    BY <1>1, <1>3, <1>4
  <1> QED
    BY <1>2, <1>3, <1>5, NamedMeans

LEMMA NamedNext == Typed /\ Owned /\ First /\ NamedIsThere /\ [Next]_vars => NamedIsThere'
  <1>1. NamedIsThere /\ UNCHANGED vars => NamedIsThere'
    BY DEF vars, NamedIsThere, Pruning, At
  <1> QED
    BY <1>1, WorkNamed, DeleteNamed DEF Next

\* The page finds the package that it offers, save between the delete and the save of
\* a prune: for any number of tasks that package and prune at the same time, of steps
\* that raise, of deaths and of deletions.  What is left are the runs whose prune was
\* cut short right there, and those that failed with a package and stored another.
THEOREM NamesLead == Spec => []NamedIsThere
  <1>1. Init => NamedIsThere
    BY DEF Init, NamedIsThere
  <1> QED
    BY InitTyped, TypedNext, InitOwned, OwnedNext, NamedNext, <1>1, PTL DEF Spec

-----------------------------------------------------------------------------
(* A run whose task was never cut short has one package, and no list another name *)

Sound(r) == r \in rows /\ r \notin cut

CalmJob(b) ==
    /\ b.pc \in {"prune", "prune_save"} =>
         \A i \in 1..Len(b.todo) :
            Sound(b.todo[i].run) => column[b.todo[i].run] \in {b.todo[i].name, NoPackage}
    /\ b.pc = "prune_save" =>
         (Sound(Head(b.todo).run) => Head(b.todo).name \notin files)

Calm == \A w \in Workers : CalmJob(job[w])

\* The files that a step of w leaves, and those it adds.
Filed(w) ==
    \/ files' \subseteq files
    \/ /\ At(w, "write") /\ \A f \in files' \ files : f[1] = job[w].run

LEMMA OtherCalm ==
    ASSUME Typed, First, Calm, NEW w \in Workers, Narrow(w), Filed(w),
           NEW v \in Workers, v # w
    PROVE  CalmJob(job[v])'
  <1>1. job'[v] = job[v] /\ CalmJob(job[v]) /\ FormedJob(job[v]) /\ FirstJob(job[w])
    BY DEF Narrow, Others, Calm, Typed, Formed, First
  <1>2. \A i \in 1..Len(job[v].todo) : job[v].todo[i].run \in Runs
    <2>1. job[v].todo \in Seq(Listed)
      BY JobTyped DEF Typed
    <2>2. \A i \in 1..Len(job[v].todo) : job[v].todo[i] \in Listed
      BY <2>1
    <2> QED
      BY <2>2 DEF Listed
  <1>3. \A r \in Runs : r \in rows' /\ r \notin cut' => Sound(r)
    BY DEF Narrow, SameQueue, Sound
  <1>4. ASSUME NEW r \in Runs, Lists(v, r), Sound(r)
        PROVE  ~((At(w, "name") \/ At(w, "write")) /\ job[w].run = r)
    BY <1>1, <1>4 DEF FirstJob, Spared, Sound, At
  <1>5. ASSUME job[v].pc \in {"prune", "prune_save"}, NEW i \in 1..Len(job[v].todo),
               job[v].todo[i].run \in rows', job[v].todo[i].run \notin cut'
        PROVE  column'[job[v].todo[i].run] \in {job[v].todo[i].name, NoPackage}
    <2>1. Lists(v, job[v].todo[i].run) /\ job[v].todo[i].run \in Runs /\ Sound(job[v].todo[i].run)
      BY <1>2, <1>3, <1>5 DEF Lists
    <2>2. ~(At(w, "name") /\ job[w].run = job[v].todo[i].run)
      BY <1>4, <2>1
    <2>3. column[job[v].todo[i].run] \in {job[v].todo[i].name, NoPackage}
      BY <1>1, <1>5, <2>1 DEF CalmJob
    <2> QED
      BY <2>1, <2>2, <2>3 DEF Narrow
  <1>6. ASSUME job[v].pc = "prune_save",
               Head(job[v].todo).run \in rows', Head(job[v].todo).run \notin cut'
        PROVE  Head(job[v].todo).name \notin files'
    <2>1. /\ Head(job[v].todo).name[1] = Head(job[v].todo).run
          /\ Lists(v, Head(job[v].todo).run) /\ Head(job[v].todo).run \in Runs
      BY <1>1, <1>6, FirstOfTodo DEF FormedJob, Lists
    <2>2. Sound(Head(job[v].todo).run) /\ Head(job[v].todo).name \notin files
      BY <1>1, <1>3, <1>6, <2>1 DEF CalmJob
    <2>3. ~(At(w, "write") /\ job[w].run = Head(job[v].todo).run)
      BY <1>4, <2>1, <2>2
    <2> QED
      BY <2>1, <2>2, <2>3 DEF Filed
  <1> QED
    BY <1>1, <1>5, <1>6 DEF CalmJob, Sound

\* The same for the task whose step it is, one action at a time.
LEMMA WorkCalm ==
    ASSUME Typed, First, Calm, NEW w \in Workers, Work(w)
    PROVE  Calm'
  <1>0. /\ Narrow(w) /\ CalmJob(job[w])
        /\ column \in [Runs -> Package \cup {NoPackage}]
    BY WorkNarrow DEF Calm, Typed, TypeOK
  <1>1. job'[w].pc \notin {"prune", "prune_save"} => CalmJob(job[w])'
    BY DEF CalmJob
  <1>2. Filed(w) /\ CalmJob(job[w])'
    <2>1. ASSUME NEW r \in Runs, Take(w, r)
          PROVE  Filed(w) /\ CalmJob(job[w])'
      BY <1>1, <2>1, TakeDoes DEF Filed
    <2>2. CASE Breaks(w)
      <3>1. files' = files /\ (Left(w) \/ Caught(w))
        BY <2>2, BreaksDoes
      <3> QED
        BY <1>1, <3>1 DEF Filed, Left, Caught, IdleJob
    <2>3. CASE (Finish(w) \/ Fail(w) \/ Record(w) \/ Name(w) \/ End(w)) /\ ~Breaks(w)
      <3>1. files' = files /\ job'[w].pc \in {"record", "write", "list", "idle"}
        <4>1. CASE Finish(w) \/ Fail(w)
          BY <2>3, <4>1, FinishDoes, FailDoes DEF Moved
        <4>2. CASE Record(w) \/ Name(w)
          BY <2>3, <4>2, RecordDoes, NameDoes DEF Moved
        <4>3. CASE End(w)
          BY <2>3, <4>3, EndDoes DEF Left, IdleJob
        <4> QED
          BY <2>3, <4>1, <4>2, <4>3
      <3> QED
        BY <1>1, <3>1 DEF Filed
    <2>4. CASE Write(w) /\ ~Breaks(w)
      <3>1. /\ At(w, "write") /\ job'[w].pc = "name"
            /\ files' = files \cup {Picked(job[w].run)} /\ Picked(job[w].run)[1] = job[w].run
        BY <2>4, WriteDoes
      <3>2. \A f \in files' \ files : f[1] = job[w].run
        BY <3>1
      <3> QED
        BY <1>1, <3>1, <3>2 DEF Filed
    <2>5. CASE List(w) /\ ~Breaks(w)
      <3>1. files' = files /\ column' = column /\ job'[w].pc = "prune"
            /\ \A i \in 1..Len(job'[w].todo) : job'[w].todo[i].name = column[job'[w].todo[i].run]
        BY <2>5, ListDoes
      <3> QED
        BY <3>1 DEF CalmJob, Filed
    <2>6. CASE PruneFile(w) /\ ~Breaks(w)
      <3>1. /\ files' = files \ {Head(job[w].todo).name}
            /\ job'[w].pc = "prune_save" /\ job'[w].todo = job[w].todo /\ At(w, "prune")
            /\ column' = column /\ rows' = rows /\ cut' = cut
        BY <2>6, PruneFileDoes DEF Moved, Kept, SameRuns, SameQueue, SameHistory
      <3> QED
        BY <1>0, <3>1 DEF CalmJob, Filed, Sound, At
    <2>7. CASE PruneSave(w) /\ ~Breaks(w)
      <3>1. /\ At(w, "prune_save") /\ job[w].todo # <<>> /\ files' = files
            /\ column' = [column EXCEPT ![Head(job[w].todo).run] = NoPackage]
            /\ job'[w].pc = "prune" /\ job'[w].todo = Tail(job[w].todo)
            /\ rows' = rows /\ cut' = cut
        BY <2>7, PruneSaveDoes DEF SameRuns, SameQueue, SameHistory
      <3>2. ASSUME NEW i \in 1..Len(job'[w].todo), Sound(job'[w].todo[i].run)
            PROVE  column'[job'[w].todo[i].run] \in {job'[w].todo[i].name, NoPackage}
        <4>1. i + 1 \in 1..Len(job[w].todo) /\ job'[w].todo[i] = job[w].todo[i + 1]
          BY <3>1, FirstOfTodo
        <4>2. job[w].todo[i + 1] \in Listed
          BY <4>1, JobTyped DEF Typed
        <4>3. Sound(job[w].todo[i + 1].run)
          BY <3>1, <3>2, <4>1 DEF Sound
        <4>4. column[job'[w].todo[i].run] \in {job'[w].todo[i].name, NoPackage}
              /\ job'[w].todo[i].run \in Runs
          BY <1>0, <3>1, <4>1, <4>2, <4>3 DEF CalmJob, At, Listed
        <4> QED
          BY <1>0, <3>1, <4>4
      <3>3. ASSUME NEW i \in 1..Len(job'[w].todo),
                   job'[w].todo[i].run \in rows', job'[w].todo[i].run \notin cut'
            PROVE  column'[job'[w].todo[i].run] \in {job'[w].todo[i].name, NoPackage}
        BY <3>1, <3>2, <3>3 DEF Sound
      <3>4. CalmJob(job[w])'
        BY <3>1, <3>3 DEF CalmJob, Sound
      <3> QED
        BY <3>1, <3>4 DEF Filed
    <2> QED
      BY <2>1, <2>2, <2>3, <2>4, <2>5, <2>6, <2>7, DeathBreaks DEF Work
  <1>3. ASSUME NEW v \in Workers, v # w
        PROVE  CalmJob(job[v])'
    BY <1>0, <1>2, <1>3, OtherCalm
  <1> QED
    BY <1>2, <1>3 DEF Calm

LEMMA DeleteCalm ==
    ASSUME Typed, Calm, NEW r \in Runs, Delete(r)
    PROVE  Calm'
  <1>1. /\ job' = job /\ cut' = cut /\ rows' \subseteq rows /\ files' \subseteq files
        /\ column' = column \/ column' = [column EXCEPT ![r] = NoPackage]
    BY DeleteReadDoes, DeleteRowDoes, DeleteUnlinkDoes DEF Delete, SameHistory
  <1>2. \A s : Sound(s)' => Sound(s)
    BY <1>1 DEF Sound
  <1>3. ASSUME NEW w \in Workers
        PROVE  CalmJob(job[w])'
    <2>1. \A i \in 1..Len(job[w].todo) : job[w].todo[i].run \in Runs
      <3>1. job[w].todo \in Seq(Listed)
        BY JobTyped DEF Typed
      <3>2. \A i \in 1..Len(job[w].todo) : job[w].todo[i] \in Listed
        BY <3>1
      <3> QED
        BY <3>2 DEF Listed
    <2>2. \A s \in Runs : column'[s] \in {column[s], NoPackage}
      BY <1>1 DEF Typed, TypeOK
    <2>3. CalmJob(job[w])
      BY DEF Calm
    <2> QED
      BY <1>1, <1>2, <2>1, <2>2, <2>3 DEF CalmJob
  <1> QED
    BY <1>1, <1>3 DEF Calm

LEMMA CalmNext == Typed /\ First /\ Calm /\ [Next]_vars => Calm'
  <1>1. Calm /\ UNCHANGED vars => Calm'
    BY DEF vars, Calm, CalmJob, Sound
  <1> QED
    BY <1>1, WorkCalm, DeleteCalm DEF Next

LEMMA InitCalm == Init => Calm
  BY DEF Init, Calm, CalmJob, IdleJob

-----------------------------------------------------------------------------
(* No file without a name *)

\* A file gets its name in the next step of its task, and a name given up was of a
\* file removed in the step before; what raises or dies in between is cut short.
LEMMA WorkNoOrphan ==
    ASSUME Typed, Owned, First, Calm, NoOrphanPackage, NEW w \in Workers, Work(w)
    PROVE  NoOrphanPackage'
  <1>0. /\ Narrow(w) /\ CalmJob(job[w]) /\ FirstJob(job[w])
        /\ column \in [Runs -> Package \cup {NoPackage}]
        /\ files \subseteq Package
    BY WorkNarrow DEF Calm, First, Typed, TypeOK
  <1> SUFFICES ASSUME NEW f \in files', f[1] \in rows, f[1] \notin cut'
               PROVE  \/ column'[f[1]] = f
                      \/ \E v \in Workers : At(v, "name")' /\ job'[v].name = f
    BY <1>0 DEF NoOrphanPackage, Narrow, SameQueue
  <1> DEFINE Goal == \/ column'[f[1]] = f
                     \/ \E v \in Workers : At(v, "name")' /\ job'[v].name = f
  <1>1. f[1] \in Runs /\ f[1] \notin cut
    BY <1>0 DEF Narrow, Typed, TypeOK
  <1>2. ASSUME f \in files, ~At(w, "name") \/ job[w].name # f, column'[f[1]] = column[f[1]]
        PROVE  Goal
    <2>1. CASE column[f[1]] = f
      BY <1>2, <2>1
    <2>2. CASE \E v \in Workers : At(v, "name") /\ job[v].name = f
      BY <1>0, <1>2, <2>2 DEF Narrow, Others, At
    <2> QED
      BY <1>1, <1>2, <2>1, <2>2 DEF NoOrphanPackage
  <1>3. CASE Breaks(w)
    <2>1. files' = files /\ column' = column
          /\ cut' = IF job[w].pc \in {"name", "list", "prune", "prune_save"}
                      THEN cut \cup {job[w].run} ELSE cut
      BY <1>3, BreaksDoes
    <2>2. ~At(w, "name") \/ job[w].name # f
      <3>1. At(w, "name") => job[w].name[1] = job[w].run /\ job[w].run \in cut'
        BY <2>1 DEF Typed, Formed, FormedJob, At
      <3> QED
        BY <3>1
    <2> QED
      BY <1>2, <2>1, <2>2
  <1>4. CASE Write(w) /\ ~Breaks(w)
    <2>1. /\ files' = files \cup {job'[w].name} /\ At(w, "name")' /\ ~At(w, "name")
          /\ column' = column
      BY <1>4, WriteDoes DEF At
    <2> QED
      BY <1>2, <2>1
  <1>5. CASE Name(w) /\ ~Breaks(w)
    <2>1. /\ At(w, "name") /\ job[w].run \in Runs /\ job[w].name[1] = job[w].run
          /\ column' = [column EXCEPT ![job[w].run] = job[w].name]
          /\ files' = files
      BY <1>5, NameDoes
    <2>2. CASE f = job[w].name
      BY <1>0, <2>1, <2>2
    <2>3. CASE f # job[w].name /\ f[1] # job[w].run
      BY <1>0, <1>1, <1>2, <2>1, <2>3
    <2>4. CASE f # job[w].name /\ f[1] = job[w].run
      <3>1. column[f[1]] = NoPackage
        BY <1>0, <1>1, <2>1, <2>4 DEF FirstJob, At
      <3>2. f # NoPackage
        BY <1>0, <2>1, DebugPackagesAssumption
      <3>3. PICK v \in Workers : At(v, "name") /\ job[v].name = f
        BY <1>1, <2>1, <3>1, <3>2 DEF NoOrphanPackage
      <3>4. job[v].name[1] = job[v].run
        BY <3>3 DEF Typed, Formed, FormedJob, At
      <3>5. v = w
        BY <2>1, <2>4, <3>3, <3>4 DEF Owned, At
      <3> QED
        BY <2>4, <3>3, <3>5
    <2> QED
      BY <2>2, <2>3, <2>4
  <1>6. CASE PruneSave(w) /\ ~Breaks(w)
    <2> DEFINE r == Head(job[w].todo).run
    <2>1. /\ At(w, "prune_save") /\ job[w].todo # <<>> /\ files' = files
          /\ column' = [column EXCEPT ![r] = NoPackage] /\ r \in Runs
      BY <1>6, PruneSaveDoes, FirstOfTodo
    <2>2. Sound(r) => column[r] \in {Head(job[w].todo).name, NoPackage}
                      /\ Head(job[w].todo).name \notin files
      BY <1>0, <2>1, FirstOfTodo DEF CalmJob, At
    <2>3. CASE f[1] # r
      <3>1. column'[f[1]] = column[f[1]]
        BY <1>0, <1>1, <2>1, <2>3
      <3> QED
        BY <1>2, <2>1, <3>1 DEF At
    <2>4. CASE f[1] = r
      <3>1. Sound(r) /\ f # NoPackage /\ f \in files
        BY <1>0, <1>1, <2>1, <2>4, DebugPackagesAssumption DEF Sound
      <3>2. column[f[1]] # f
        BY <2>2, <2>4, <3>1
      <3>3. PICK v \in Workers : At(v, "name") /\ job[v].name = f
        BY <1>1, <3>1, <3>2 DEF NoOrphanPackage
      <3> QED
        BY <1>0, <2>1, <3>3 DEF Narrow, Others, At
    <2> QED
      BY <2>3, <2>4
  <1>7. CASE PruneFile(w) /\ ~Breaks(w)
    BY <1>2, <1>7, PruneFileDoes DEF At
  <1>8. ASSUME NEW r \in Runs, Take(w, r) PROVE Goal
    BY <1>2, <1>8, TakeDoes DEF At
  <1>9. CASE (Finish(w) \/ Fail(w) \/ Record(w) \/ List(w) \/ End(w)) /\ ~Breaks(w)
    <2>1. files' = files /\ column' = column /\ ~At(w, "name")
      BY <1>9, FinishDoes, FailDoes, RecordDoes, ListDoes, EndDoes DEF At
    <2> QED
      BY <1>2, <2>1
  <1> QED
    BY <1>3, <1>4, <1>5, <1>6, <1>7, <1>8, <1>9, DeathBreaks DEF Work

LEMMA DeleteNoOrphan ==
    ASSUME Typed, NoOrphanPackage, NEW r \in Runs, Delete(r)
    PROVE  NoOrphanPackage'
  <1>1. /\ job' = job /\ cut' = cut /\ files' \subseteq files
        /\ \/ column' = column /\ rows' = rows
           \/ column' = [column EXCEPT ![r] = NoPackage] /\ rows' = rows \ {r}
    BY DeleteReadDoes, DeleteRowDoes, DeleteUnlinkDoes DEF Delete, SameHistory
  <1>2. \A s \in rows' : s \in rows /\ column'[s] = column[s]
    BY <1>1 DEF Typed, TypeOK
  <1> QED
    BY <1>1, <1>2 DEF NoOrphanPackage, At

LEMMA NoOrphanNext ==
    Typed /\ Owned /\ First /\ Calm /\ NoOrphanPackage /\ [Next]_vars => NoOrphanPackage'
  <1>1. NoOrphanPackage /\ UNCHANGED vars => NoOrphanPackage'
    BY DEF vars, NoOrphanPackage, At
  <1> QED
    BY <1>1, WorkNoOrphan, DeleteNoOrphan DEF Next

\* Every package on storage of a run that has a row is named by it or about to be,
\* unless the run's own task was cut short with a package stored: overlapping prunes,
\* steps that raise and deaths in other tasks, and deletions orphan none.
THEOREM NoOrphans == Spec => []NoOrphanPackage
  <1>1. Init => NoOrphanPackage
    BY DEF Init, NoOrphanPackage
  <1> QED
    BY InitTyped, TypedNext, InitOwned, OwnedNext, InitCalm, CalmNext, NoOrphanNext, <1>1,
       PTL DEF Spec

-----------------------------------------------------------------------------
(* The runs that ended last *)

Named == {s \in rows : column[s] # NoPackage}

\* r stands among the first Keep of the ended runs e that are in T, where it is put.
Standing(e, T, r) ==
    \E i \in 1..Len(Filter(e, T \cup {r})) : i <= Keep /\ Filter(e, T \cup {r})[i] = r

\* r is, or would be with a package, among the Keep that ended last.
Ahead(r) == Standing(ended, Named, r)

Latest ==
    NoDeletes /\ revived = {} =>
        \A r \in Runs : Ahead(r) =>
            /\ Spared(r)
            /\ column[r] # NoPackage => column[r] \in files
            /\ \A w \in Workers : At(w, "name") /\ job[w].run = r => job[w].name \in files

LEMMA StandingIn ==
    ASSUME NEW e \in Seq(Runs), NEW T, NEW r, Standing(e, T, r)
    PROVE  In(r, e)
  <1>1. In(r, Filter(e, T \cup {r}))
    BY DEF Standing, In
  <1> QED
    BY <1>1, FilterMembers

\* q stands no later in e than s does in f, if all that precede q there precede s here.
LEMMA StandsBefore ==
    ASSUME NEW e \in Seq(Runs), Once(e), NEW f \in Seq(Runs), Once(f), NEW T, NEW U,
           NEW q, NEW s, In(q, e), Standing(f, U, s),
           \A x \in T : Precedes(e, x, q) => x \in U /\ Precedes(f, x, s)
    PROVE  Standing(e, T, q)
  <1> DEFINE t == Filter(e, T \cup {q})
             u == Filter(f, U \cup {s})
  <1>1. /\ t \in Seq(Runs) /\ Once(t) /\ In(q, t)
        /\ \A x, y : Precedes(t, x, y) <=> x \in T \cup {q} /\ y \in T \cup {q} /\ Precedes(e, x, y)
    BY FilterMembers
  <1>2. /\ u \in Seq(Runs) /\ Once(u)
        /\ \A x, y : Precedes(u, x, y) <=> x \in U \cup {s} /\ y \in U \cup {s} /\ Precedes(f, x, y)
    BY FilterMembers
  <1>3. PICK j \in 1..Len(u) : j <= Keep /\ u[j] = s
    BY DEF Standing
  <1> HIDE DEF t, u
  <1>4. PICK i \in 1..Len(t) : t[i] = q
    BY <1>1 DEF In
  <1>5. ASSUME NEW x, Precedes(t, x, t[i])
        PROVE  \E k \in 1..Len(u) : k < j /\ u[k] = x
    <2>1. x # q
      BY <1>1, <1>4, <1>5 DEF Precedes, Once
    <2>2. Precedes(u, x, s)
      BY <1>1, <1>2, <1>4, <1>5, <2>1
    <2> QED
      BY <1>2, <1>3, <2>2 DEF Precedes, Once
  <1>6. i <= j
    BY <1>1, <1>2, <1>5, NotLater
  <1>7. i <= Keep
    BY <1>2, <1>3, <1>6, DebugPackagesAssumption
  <1> QED
    BY <1>4, <1>7 DEF Standing, t

LEMMA PrecedesOn ==
    ASSUME NEW e \in Seq(Runs), Once(e), NEW x, NEW y, NEW z, Precedes(e, x, y), Precedes(e, y, z)
    PROVE  Precedes(e, x, z)
  <1>1. PICK i, j \in 1..Len(e) : i < j /\ e[i] = x /\ e[j] = y
    BY DEF Precedes
  <1>2. PICK k, l \in 1..Len(e) : k < l /\ e[k] = y /\ e[l] = z
    BY DEF Precedes
  <1>3. j = k
    BY <1>1, <1>2 DEF Once
  <1> QED
    BY <1>1, <1>2, <1>3 DEF Precedes

LEMMA EndedOnce == ASSUME Typed PROVE ended \in Seq(Runs) /\ Once(ended)
  BY DEF Typed, TypeOK, Once

\* No run comes to the front by what others get, or by another that ends.
LEMMA FrontKept ==
    ASSUME Typed, ended' = ended, Named \subseteq Named', NEW s \in Runs, Ahead(s)'
    PROVE  Ahead(s)
  <1>1. Standing(ended, Named', s)
    BY DEF Ahead
  <1>2. In(s, ended)
    BY <1>1, EndedOnce, StandingIn
  <1> QED
    BY <1>1, <1>2, EndedOnce, StandsBefore DEF Ahead

LEMMA FrontEnds ==
    ASSUME Typed, NEW r \in Runs, ended' = <<r>> \o Without(ended, r), Named' = Named,
           NEW s \in Runs, s # r, Ahead(s)'
    PROVE  Ahead(s)
  <1> DEFINE e == Without(ended, r)
             f == <<r>> \o e
  <1>1. /\ ended \in Seq(Runs) /\ Once(ended) /\ e \in Seq(Runs) /\ f \in Seq(Runs) /\ Once(f)
    BY EndedOnce, Again DEF Typed
  <1>2. /\ \A x : In(x, e) <=> x \in Runs \ {r} /\ In(x, ended)
        /\ \A x, y : Precedes(e, x, y) <=> x \in Runs \ {r} /\ y \in Runs \ {r} /\ Precedes(ended, x, y)
    BY <1>1, FilterMembers DEF Without
  <1> HIDE DEF e
  <1>3. /\ \A x : In(x, f) <=> x = r \/ In(x, e)
        /\ \A x, y : Precedes(f, x, y) <=> Precedes(e, x, y) \/ (x = r /\ In(y, e))
    BY <1>1, PutFirst
  <1>4. f = ended' /\ Standing(f, Named, s)
    BY DEF Ahead, e
  <1> HIDE DEF f
  <1>5. In(s, ended) /\ In(s, e)
    BY <1>1, <1>2, <1>3, <1>4, StandingIn
  <1>6. \A x \in Named : Precedes(ended, x, s) => Precedes(f, x, s)
    BY <1>2, <1>3, <1>5 DEF Named, Typed, TypeOK
  <1> QED
    BY <1>1, <1>4, <1>5, <1>6, StandsBefore DEF Ahead

\* Nor by a prune, of a run that is not at the front.
LEMMA FrontPruned ==
    ASSUME Typed, ended' = ended, NEW q \in Runs, Named' = Named \ {q}, ~Ahead(q),
           NEW s \in Runs, Ahead(s)'
    PROVE  s # q /\ Ahead(s)
  <1>1. ended \in Seq(Runs) /\ Once(ended) /\ Standing(ended, Named \ {q}, s) /\ In(s, ended)
    BY EndedOnce, StandingIn DEF Ahead
  <1>2. \A x \in Named : Precedes(ended, x, q) => x # q
    BY <1>1 DEF Precedes, Once
  <1>3. ASSUME s = q \/ Precedes(ended, q, s) PROVE FALSE
    <2>1. In(q, ended)
      BY <1>1, <1>3 DEF Precedes, In
    <2>2. \A x \in Named : Precedes(ended, x, q) => x \in Named \ {q} /\ Precedes(ended, x, s)
      BY <1>1, <1>2, <1>3, PrecedesOn
    <2> QED
      BY <1>1, <2>1, <2>2, StandsBefore DEF Ahead
  <1>4. \A x \in Named : Precedes(ended, x, s) => x \in Named \ {q}
    BY <1>3
  <1> QED
    BY <1>1, <1>3, <1>4, StandsBefore DEF Ahead

\* A run that a task finds stale is not at the front.
LEMMA StaleBehind ==
    ASSUME Typed, NEW k \in 1..Len(Stale)
    PROVE  ~Ahead(Stale[k])
  <1>1. PICK j \in 1..Len(Cached) : j > Keep /\ Stale[k] = Cached[j]
    BY CachedTyped DEF Typed
  <1>2. Cached[j] \in rows /\ column[Cached[j]] \in Package /\ Once(Cached)
    BY <1>1, CachedTyped DEF Typed
  <1>3. Named \cup {Cached[j]} = Named
    BY <1>2, DebugPackagesAssumption DEF Named
  <1>4. Cached = Filter(ended, Named)
    BY DEF Cached, Named
  <1>5. ASSUME NEW i \in 1..Len(Cached), i <= Keep, Cached[i] = Cached[j]
        PROVE  FALSE
    BY <1>1, <1>2, <1>5, DebugPackagesAssumption DEF Once
  <1> QED
    BY <1>1, <1>3, <1>4, <1>5 DEF Ahead, Standing

LEMMA WorkLatest ==
    ASSUME Typed, Owned, First, NamedIsThere, Latest, NEW w \in Workers, Work(w)
    PROVE  Latest'
  <1>0. /\ Narrow(w) /\ Others(w) /\ FirstJob(job[w]) /\ rows \subseteq Runs
        /\ column \in [Runs -> Package \cup {NoPackage}] /\ SameQueue
        /\ \A v \in Workers : At(v, "name") => job[v].name \in Package /\ job[v].name[1] = job[v].run
        /\ \A r \in Runs : column[r] # NoPackage => column[r][1] = r
    BY WorkNarrow DEF Narrow, First, Typed, TypeOK, Formed, FormedJob, At
  <1>01. revived \subseteq revived'
    BY TakeDoes, BreaksDoes, FinishDoes, FailDoes, RecordDoes, WriteDoes, NameDoes, ListDoes,
       PruneFileDoes, PruneSaveDoes, EndDoes, DeathBreaks DEF Work, SameHistory
  <1> SUFFICES ASSUME NoDeletes, revived = {}, revived' = {}, NEW r \in Runs, Ahead(r)'
               PROVE  /\ Spared(r)'
                      /\ column'[r] # NoPackage => column'[r] \in files'
                      /\ \A v \in Workers : At(v, "name")' /\ job'[v].run = r
                            => job'[v].name \in files'
    BY <1>0, <1>01 DEF Latest, NoDeletes, SameQueue
  <1> DEFINE Goal == /\ Spared(r)'
                     /\ column'[r] # NoPackage => column'[r] \in files'
                     /\ \A v \in Workers : At(v, "name")' /\ job'[v].run = r
                           => job'[v].name \in files'
             Fine == /\ Spared(r)
                     /\ column[r] # NoPackage => column[r] \in files
                     /\ \A v \in Workers : At(v, "name") /\ job[v].run = r => job[v].name \in files
  <1>1. \A s \in Runs : Ahead(s) => Spared(s)
    BY DEF Latest
  <1>2. Ahead(r) => Fine
    BY DEF Latest
  <1>3. ASSUME Fine, files \subseteq files', column'[r] = column[r],
               \A s \in Runs : Lists(w, s)' => Lists(w, s),
               At(w, "name")' /\ job'[w].run = r => job'[w].name \in files'
        PROVE  Goal
    <2>1. \A v \in Workers : v # w => job'[v] = job[v]
      BY <1>0 DEF Others
    <2>2. Spared(r)'
      BY <1>3, <2>1 DEF Spared, Lists
    <2> QED
      BY <1>3, <2>1, <2>2 DEF At
  <1>4. rows' = rows /\ column' = column => Named' = Named
    BY DEF Named
  <1>5. job'[w].pc \notin {"prune", "prune_save"} => \A s \in Runs : ~Lists(w, s)'
    BY DEF Lists
  <1>6. ASSUME NEW s \in Runs, Take(w, s)
        PROVE  Goal
    <2>1. /\ UNCHANGED <<ended, column, files>> /\ rows' = rows /\ job'[w].pc = "pipeline"
      BY <1>6, TakeDoes DEF SameQueue
    <2> QED
      BY <1>2, <1>3, <1>4, <1>5, <2>1, FrontKept DEF At
  <1>7. CASE Breaks(w)
    <2>1. UNCHANGED <<ended, column, files>> /\ rows' = rows
      BY <1>7, BreaksDoes DEF SameRuns, SameQueue
    <2>2. job'[w].pc \in {"handler", "idle"}
      <3>1. Caught(w) \/ Left(w)
        BY <1>7, BreaksDoes
      <3> QED
        BY <3>1 DEF Caught, Left, IdleJob
    <2> QED
      BY <1>2, <1>3, <1>4, <1>5, <2>1, <2>2, FrontKept DEF At
  <1>8. CASE (Finish(w) \/ Fail(w)) /\ ~Breaks(w)
    <2> DEFINE q == job[w].run
    <2>1. /\ UNCHANGED <<column, files>> /\ rows' = rows /\ q \in Runs /\ q \in rows
          /\ ended' = <<q>> \o Without(ended, q) /\ job'[w].pc = "record"
          /\ At(w, "pipeline") \/ At(w, "handler")
      BY <1>8, FinishDoes, FailDoes DEF SameQueue, Moved
    <2>2. CASE r # q
      <3>1. Ahead(r)
        BY <1>4, <2>1, <2>2, FrontEnds
      <3> QED
        BY <1>2, <1>3, <1>5, <2>1, <3>1 DEF At
    <2>3. CASE r = q
      <3>1. \A v \in Workers : At(v, "name") => job[v].run # r
        BY <2>1, <2>3 DEF Owned, At
      <3>2. Spared(r) /\ (column[r] # NoPackage => column[r] \in files)
        <4>1. CASE Finish(w)
          <5>1. At(w, "pipeline")
            BY <1>8, <4>1, FinishDoes
          <5> QED
            BY <1>0, <2>3, <5>1 DEF FirstJob, At
        <4>2. CASE Fail(w)
          <5>1. At(w, "handler") /\ r \notin torn /\ \A v \in Workers : r \notin ToPrune(v)
            BY <1>8, <2>3, <4>2, FailDoes
          <5>2. status[r] # "failed"
            BY <1>0, <2>3, <5>1 DEF FirstJob, At
          <5>3. Spared(r)
            <6> SUFFICES ASSUME NEW v \in Workers, Lists(v, r) PROVE FALSE
              BY DEF Spared
            <6>1. job[v].todo \in Seq(Listed)
              BY JobTyped DEF Typed
            <6>2. DOMAIN job[v].todo = 1..Len(job[v].todo)
              BY <6>1
            <6> QED
              BY <5>1, <6>2 DEF Lists, ToPrune
          <5>4. ~Pruning(r)
            <6> SUFFICES ASSUME NEW v \in Workers, At(v, "prune_save"), Head(job[v].todo).run = r
                         PROVE  FALSE
              BY DEF Pruning
            <6>1. job[v].todo # <<>>
              BY DEF Typed, Formed, FormedJob, At
            <6>2. Lists(v, r)
              BY <6>1, FirstOfTodo DEF Lists, At
            <6> QED
              BY <5>3, <6>2 DEF Spared
          <5> QED
            BY <2>1, <2>3, <5>1, <5>2, <5>3, <5>4 DEF NamedIsThere
        <4> QED
          BY <1>8, <4>1, <4>2
      <3>3. Fine
        BY <3>1, <3>2
      <3> QED
        BY <1>3, <1>5, <2>1, <3>3 DEF At
    <2> QED
      BY <2>2, <2>3
  <1>9. CASE (Record(w) \/ End(w)) /\ ~Breaks(w)
    <2>1. /\ UNCHANGED <<ended, column, files>> /\ rows' = rows
          /\ job'[w].pc \in {"write", "idle"}
      BY <1>9, RecordDoes, EndDoes DEF SameRuns, SameQueue, Moved, Left, IdleJob
    <2> QED
      BY <1>2, <1>3, <1>4, <1>5, <2>1, FrontKept DEF At
  <1>10. CASE Write(w) /\ ~Breaks(w)
    <2>1. /\ UNCHANGED <<ended, column>> /\ rows' = rows /\ files \subseteq files'
          /\ job'[w].pc = "name" /\ job'[w].name \in files'
      BY <1>10, WriteDoes DEF SameRuns, SameQueue
    <2> QED
      BY <1>2, <1>3, <1>4, <1>5, <2>1, FrontKept
  <1>11. CASE Name(w) /\ ~Breaks(w)
    <2> DEFINE q == job[w].run
    <2>1. /\ UNCHANGED <<ended, files>> /\ rows' = rows /\ q \in rows /\ job'[w].pc = "list"
          /\ column' = [column EXCEPT ![q] = job[w].name] /\ At(w, "name")
          /\ job[w].name \in Package
      BY <1>11, NameDoes DEF SameRuns, SameQueue, Moved
    <2>2. column'[q] = job[w].name /\ \A s \in Runs : s # q => column'[s] = column[s]
      BY <1>0, <2>1
    <2>3. Named \subseteq Named'
      BY <1>0, <2>1, <2>2, DebugPackagesAssumption DEF Named
    <2>4. Fine
      BY <1>2, <2>1, <2>3, FrontKept
    <2>5. CASE r # q
      BY <1>3, <1>5, <2>1, <2>2, <2>4, <2>5 DEF At
    <2>6. CASE r = q
      <3>1. column'[r] \in files'
        BY <2>1, <2>2, <2>4, <2>6
      <3>2. \A v \in Workers : v # w => job'[v] = job[v]
        BY <1>0 DEF Others
      <3>3. Spared(r)'
        BY <1>5, <2>1, <2>4, <3>2 DEF Spared, Lists
      <3> QED
        BY <2>1, <2>4, <3>1, <3>2, <3>3 DEF At
    <2> QED
      BY <2>5, <2>6
  <1>12. CASE List(w) /\ ~Breaks(w)
    <2>1. /\ UNCHANGED <<ended, column, files>> /\ rows' = rows /\ job'[w].pc = "prune"
          /\ Len(job'[w].todo) = Len(Stale)
          /\ \A i \in 1..Len(Stale) : job'[w].todo[i].run = Stale[i]
      BY <1>12, ListDoes DEF SameRuns, SameQueue
    <2>2. Ahead(r) /\ Fine
      BY <1>2, <1>4, <2>1, FrontKept
    <2>3. ~Lists(w, r)'
      BY <2>1, <2>2, StaleBehind DEF Lists
    <2>4. \A v \in Workers : v # w => job'[v] = job[v]
      BY <1>0 DEF Others
    <2>5. Spared(r)'
      BY <2>2, <2>3, <2>4 DEF Spared, Lists
    <2> QED
      BY <2>1, <2>2, <2>4, <2>5 DEF At
  <1>13. CASE PruneFile(w) /\ ~Breaks(w)
    <2> DEFINE n == Head(job[w].todo).name
    <2>1. /\ UNCHANGED <<ended, column>> /\ rows' = rows /\ Moved(w, "prune_save")
          /\ files' = files \ {n} /\ n \in Package /\ n[1] = Head(job[w].todo).run
          /\ Lists(w, Head(job[w].todo).run) /\ At(w, "prune")
      BY <1>13, PruneFileDoes, FirstOfTodo DEF SameRuns, SameQueue, Lists, At
    <2>2. Fine
      BY <1>2, <1>4, <2>1, FrontKept
    <2>3. n[1] # r
      BY <2>1, <2>2 DEF Spared
    <2>4. \A v \in Workers : \A s : Lists(v, s)' => Lists(v, s)
      BY <1>0, <2>1 DEF Moved, Kept, Others, Lists, At
    <2>5. \A v \in Workers : At(v, "name")' => At(v, "name") /\ job'[v] = job[v]
      BY <1>0, <2>1 DEF Moved, Others, At
    <2> HIDE DEF n
    <2>6. column[r] # NoPackage => column[r] # n
      BY <1>0, <2>3
    <2>7. \A v \in Workers : At(v, "name") /\ job[v].run = r => job[v].name # n
      BY <1>0, <2>3
    <2>8. Spared(r)'
      BY <2>2, <2>4 DEF Spared
    <2> QED
      BY <2>1, <2>2, <2>5, <2>6, <2>7, <2>8
  <1>14. CASE PruneSave(w) /\ ~Breaks(w)
    <2> DEFINE q == Head(job[w].todo).run
    <2>1. /\ UNCHANGED <<ended, files>> /\ rows' = rows /\ q \in Runs /\ Lists(w, q)
          /\ column' = [column EXCEPT ![q] = NoPackage] /\ job'[w].pc = "prune"
      BY <1>14, PruneSaveDoes, FirstOfTodo DEF SameRuns, SameQueue, Lists, At
    <2>2. \A s \in Runs : Lists(w, s)' => Lists(w, s)
      <3>1. ~At(w, "list")
        BY <1>14, PruneSaveDoes DEF At
      <3> QED
        BY <1>0, <3>1 DEF Narrow
    <2> HIDE DEF q
    <2>3. Named' = Named \ {q}
      BY <1>0, <2>1 DEF Named
    <2>4. ~Ahead(q)
      BY <1>1, <2>1 DEF Spared
    <2>5. r # q /\ Ahead(r)
      BY <2>1, <2>3, <2>4, FrontPruned
    <2>6. column'[r] = column[r]
      BY <1>0, <2>1, <2>5
    <2> QED
      BY <1>2, <1>3, <2>1, <2>2, <2>5, <2>6 DEF At
  <1> QED
    BY <1>6, <1>7, <1>8, <1>9, <1>10, <1>11, <1>12, <1>13, <1>14, DeathBreaks DEF Work

LEMMA LatestNext ==
    Typed /\ Owned /\ First /\ NamedIsThere /\ Latest /\ [Next]_vars => Latest'
  <1>1. Latest /\ UNCHANGED vars => Latest'
    BY DEF vars, Latest, NoDeletes, Ahead, Named, Spared, Lists, At
  <1>2. ASSUME Typed, NEW r \in Runs, Delete(r) PROVE ~NoDeletes'
    BY <1>2, DeleteReadDoes, DeleteRowDoes, DeleteUnlinkDoes DEF Delete, NoDeletes
  <1> QED
    BY <1>1, <1>2, WorkLatest DEF Next, Latest

LEMMA InitLatest == Init => Latest
  <1> SUFFICES ASSUME Init, NEW r \in Runs, Ahead(r) PROVE FALSE
    BY DEF Latest
  <1>1. ended = <<>> /\ ended \in Seq(Runs)
    BY DEF Init
  <1>2. In(r, ended)
    BY <1>1, StandingIn DEF Ahead
  <1> QED
    BY <1>1, <1>2 DEF In

\* Whatever raises or dies in however many tasks, the packages of the Keep runs that
\* ended last can be opened, while no run is deleted and until a run ends again that a
\* prune has listed or was cut short at: the list of a prune is never too long, though
\* runs end and are packaged while it is worked off.
THEOREM LatestStay == Spec => []LatestAreThere
  <1>1. Typed /\ Latest => LatestAreThere
    <2> SUFFICES ASSUME Typed, Latest, NoDeletes, revived = {},
                        NEW i \in 1..Len(Cached), i <= Keep
                 PROVE  column[Cached[i]] \in files
      BY DEF LatestAreThere
    <2>1. Cached[i] \in Runs /\ Cached[i] \in Named /\ column[Cached[i]] # NoPackage
      BY CachedTyped, DebugPackagesAssumption DEF Typed, TypeOK, Named
    <2>2. Cached = Filter(ended, Named \cup {Cached[i]})
      <3>1. Named \cup {Cached[i]} = Named
        BY <2>1
      <3> QED
        BY <3>1 DEF Cached, Named
    <2>3. Ahead(Cached[i])
      BY <2>2 DEF Ahead, Standing
    <2> QED
      BY <2>1, <2>3 DEF Latest
  <1>2. Init => NamedIsThere
    BY DEF Init, NamedIsThere
  <1> QED
    BY InitTyped, TypedNext, InitOwned, OwnedNext, NamedNext, InitLatest, LatestNext, <1>1, <1>2,
       PTL DEF Spec

-----------------------------------------------------------------------------
(* No more packages than are kept *)

\* A task that is going to list the stale runs.
Listing(w) == job[w].pc \in {"handler", "record", "write", "name", "list"}

\* Each package beyond the Keep is on some list, unless it was left, while no task is
\* still to list the stale runs.
Covered ==
    \/ \E w \in Workers : Listing(w)
    \/ \A i \in 1..Len(Cached) : i > Keep => Cached[i] \in left \/ ~Spared(Cached[i])

\* What is left when packages are given up and runs deleted stands no later than before.
LEMMA FewerCached ==
    ASSUME Typed, NEW r \in Runs, ended' = ended \/ ended' = Without(ended, r),
           rows' \subseteq rows, \A s \in Runs : column'[s] \in {column[s], NoPackage},
           NEW i \in 1..Len(Cached')
    PROVE  /\ column'[Cached'[i]] # NoPackage
           /\ \E j \in 1..Len(Cached) : i <= j /\ Cached[j] = Cached'[i]
  <1> DEFINE T == {s \in rows : column[s] # NoPackage}
             U == {s \in rows' : column'[s] # NoPackage}
  <1>1. /\ ended \in Seq(Runs) /\ Once(ended) /\ ended' \in Seq(Runs) /\ Once(ended')
        /\ \A x : In(x, ended') => In(x, ended)
        /\ \A x, y : Precedes(ended', x, y) => Precedes(ended, x, y)
    <2>1. ended \in Seq(Runs) /\ Once(ended)
      BY DEF Typed, TypeOK, Once
    <2> QED
      BY <2>1, FilterMembers DEF Without
  <1>2. U \subseteq T
    BY DEF Typed, TypeOK
  <1>3. Cached = Filter(ended, T) /\ Cached' = Filter(ended', U)
    BY DEF Cached
  <1>9. \A x \in U : column'[x] # NoPackage
    OBVIOUS
  <1> HIDE DEF T, U
  <1>4. /\ Cached \in Seq(Runs) /\ Once(Cached)
        /\ \A x : In(x, Cached) <=> x \in T /\ In(x, ended)
        /\ \A x, y : Precedes(Cached, x, y) <=> x \in T /\ y \in T /\ Precedes(ended, x, y)
    BY <1>1, <1>3, FilterMembers
  <1>5. /\ Cached' \in Seq(Runs)
        /\ \A x : In(x, Cached') <=> x \in U /\ In(x, ended')
        /\ \A x, y : Precedes(Cached', x, y) <=> x \in U /\ y \in U /\ Precedes(ended', x, y)
    BY <1>1, <1>3, FilterMembers
  <1>6. /\ \A x : In(x, Cached') => In(x, Cached)
        /\ \A x, y : Precedes(Cached', x, y) => Precedes(Cached, x, y)
    BY <1>1, <1>2, <1>4, <1>5
  <1>7. PICK j \in 1..Len(Cached) : Cached[j] = Cached'[i]
    <2>1. In(Cached'[i], Cached')
      BY DEF In
    <2> QED
      BY <1>6, <2>1 DEF In
  <1>8. i <= j
    BY <1>4, <1>5, <1>6, <1>7, NoEarlier
  <1> QED
    BY <1>5, <1>7, <1>8, <1>9 DEF In

\* What a list has besides the run that is saved.
LEMMA ListsAfterSave ==
    ASSUME Typed, NEW w \in Workers, PruneSave(w), ~Breaks(w), NEW v \in Workers, NEW r,
           r # Head(job[w].todo).run, Lists(v, r)
    PROVE  Lists(v, r)'
  <1>1. /\ Others(w) /\ job[w].todo # <<>>
        /\ job'[w].pc = "prune" /\ job'[w].todo = Tail(job[w].todo)
    BY PruneSaveDoes
  <1>2. CASE v # w
    BY <1>1, <1>2 DEF Others, Lists
  <1>3. CASE v = w
    <2>1. PICK k \in 1..Len(job[w].todo) : job[w].todo[k].run = r
      BY <1>3 DEF Lists
    <2>2. Head(job[w].todo) = job[w].todo[1]
      BY <1>1, FirstOfTodo
    <2>3. k # 1
      BY <2>1, <2>2
    <2>4. k - 1 \in 1..Len(job'[w].todo) /\ job'[w].todo[k - 1].run = r
      BY <1>1, <2>1, <2>3, FirstOfTodo
    <2> QED
      BY <1>1, <1>3, <2>4 DEF Lists
  <1> QED
    BY <1>2, <1>3

\* A step that leaves the packages and what is listed of them.
LEMMA CoveredStays ==
    ASSUME Covered, UNCHANGED <<rows, ended, column, left>>,
           \A w \in Workers : Listing(w) => Listing(w)',
           \A w \in Workers : \A r : Lists(w, r) => Lists(w, r)'
    PROVE  Covered'
  <1>1. Cached' = Cached
    BY DEF Cached
  <1>2. \A r : ~Spared(r) => ~Spared(r)'
    BY DEF Spared
  <1> QED
    BY <1>1, <1>2 DEF Covered

LEMMA WorkCovered ==
    ASSUME Typed, Covered, NEW w \in Workers, Work(w)
    PROVE  Covered'
  <1>0. /\ Others(w) /\ Keep \in Nat
        /\ column \in [Runs -> Package \cup {NoPackage}]
    BY WorkNarrow, DebugPackagesAssumption DEF Narrow, Typed, TypeOK
  <1>1. \A v \in Workers : v # w =>
           (Listing(v) => Listing(v)') /\ \A r : Lists(v, r) => Lists(v, r)'
    BY <1>0 DEF Others, Listing, Lists
  <1>2. ASSUME NEW r \in Runs, Take(w, r) PROVE Covered'
    <2>1. UNCHANGED <<rows, ended, column, left>> /\ job[w].pc = "idle"
      BY <1>2, TakeDoes DEF SameQueue, SameHistory, At
    <2>2. ~Listing(w) /\ \A s : ~Lists(w, s)
      BY <2>1 DEF Listing, Lists
    <2> QED
      BY <1>1, <2>1, <2>2, CoveredStays
  <1>3. CASE Breaks(w)
    <2>1. SameRuns /\ column' = column
      BY <1>3, BreaksDoes
    <2>2. CASE Caught(w)
      BY <2>2 DEF Caught, Covered, Listing
    <2>3. CASE At(w, "pipeline") /\ left' = left
      <3>1. ~Listing(w) /\ \A s : ~Lists(w, s)
        BY <2>3 DEF Listing, Lists, At
      <3> QED
        BY <1>1, <2>1, <2>3, <3>1, CoveredStays DEF SameRuns, SameQueue
    <2>4. CASE left' = {Stale[i] : i \in DOMAIN Stale}
      <3>1. Cached' = Cached
        BY <2>1 DEF Cached, SameRuns, SameQueue
      <3>2. \A i \in 1..Len(Cached) : i > Keep => Cached[i] \in left'
        <4>1. /\ Stale \in Seq(Runs)
              /\ \A j \in 1..Len(Cached) : j > Keep => \E i \in 1..Len(Stale) : Stale[i] = Cached[j]
          BY CachedTyped DEF Typed
        <4>2. DOMAIN Stale = 1..Len(Stale)
          BY <4>1
        <4> QED
          BY <2>4, <4>1, <4>2
      <3> QED
        BY <3>1, <3>2 DEF Covered
    <2> QED
      BY <1>3, <2>2, <2>3, <2>4, BreaksDoes
  <1>4. CASE (Finish(w) \/ Fail(w) \/ Record(w) \/ Write(w) \/ Name(w)) /\ ~Breaks(w)
    <2>1. job'[w].pc \in {"record", "write", "name", "list"}
      BY <1>4, FinishDoes, FailDoes, RecordDoes, WriteDoes, NameDoes DEF Moved
    <2> QED
      BY <2>1 DEF Covered, Listing
  <1>5. CASE List(w) /\ ~Breaks(w)
    <2>1. /\ SameRuns /\ column' = column /\ job'[w].pc = "prune"
          /\ Len(job'[w].todo) = Len(Stale)
          /\ \A i \in 1..Len(Stale) : job'[w].todo[i].run = Stale[i]
      BY <1>5, ListDoes
    <2>2. Cached' = Cached
      BY <2>1 DEF Cached, SameRuns, SameQueue
    <2>3. ASSUME NEW i \in 1..Len(Cached), i > Keep
          PROVE  Lists(w, Cached[i])'
      <3>1. PICK k \in 1..Len(Stale) : Stale[k] = Cached[i]
        BY <2>3, CachedTyped DEF Typed
      <3>2. k \in 1..Len(job'[w].todo) /\ job'[w].todo[k].run = Cached[i]
        BY <2>1, <3>1
      <3> QED
        BY <2>1, <2>2, <3>2 DEF Lists
    <2> QED
      BY <2>2, <2>3 DEF Covered, Spared
  <1>6. CASE PruneFile(w) /\ ~Breaks(w)
    <2>1. UNCHANGED <<rows, ended, column, left>> /\ At(w, "prune") /\ Moved(w, "prune_save")
      BY <1>6, PruneFileDoes DEF SameRuns, SameQueue, SameHistory
    <2>2. (Listing(w) => Listing(w)') /\ \A r : Lists(w, r) => Lists(w, r)'
      BY <2>1 DEF Moved, Kept, Listing, Lists, At
    <2> QED
      BY <1>1, <2>1, <2>2, CoveredStays
  <1>7. CASE PruneSave(w) /\ ~Breaks(w)
    <2> DEFINE q == Head(job[w].todo).run
    <2>1. /\ At(w, "prune_save") /\ q \in Runs
          /\ UNCHANGED <<rows, ended, left>>
          /\ column' = [column EXCEPT ![q] = NoPackage]
      BY <1>7, PruneSaveDoes, FirstOfTodo DEF SameRuns, SameQueue, SameHistory
    <2>2. ASSUME NEW v \in Workers, NEW r, r # q, Lists(v, r)
          PROVE  Lists(v, r)'
      BY <1>7, <2>2, ListsAfterSave
    <2> HIDE DEF q
    <2>3. ~Listing(w)
      BY <2>1 DEF Listing, At
    <2>4. CASE \E v \in Workers : Listing(v)
      BY <1>1, <2>3, <2>4 DEF Covered
    <2>5. CASE ~\E v \in Workers : Listing(v)
      <3>1. ASSUME NEW i \in 1..Len(Cached'), i > Keep, NEW r, r = Cached'[i]
            PROVE  r \in left' \/ ~Spared(r)'
        <4>1. PICK j \in 1..Len(Cached) : i <= j /\ Cached[j] = r
          BY <1>0, <2>1, <3>1, FewerCached
        <4>2. j > Keep /\ (Cached[j] \in left \/ ~Spared(Cached[j]))
          BY <1>0, <2>5, <3>1, <4>1 DEF Covered
        <4>3. r # q
          <5>1. column'[r] # NoPackage
            BY <1>0, <2>1, <3>1, FewerCached
          <5> QED
            BY <1>0, <2>1, <5>1
        <4> QED
          BY <2>1, <2>2, <4>1, <4>2, <4>3 DEF Spared
      <3> QED
        BY <3>1 DEF Covered, Spared, Lists
    <2> QED
      BY <2>4, <2>5
  <1>8. CASE End(w) /\ ~Breaks(w)
    <2>1. UNCHANGED <<rows, ended, column, left>> /\ At(w, "prune") /\ job[w].todo = <<>>
      BY <1>8, EndDoes DEF SameRuns, SameQueue, SameHistory
    <2>2. \A i \in 1..Len(<<>>) : FALSE
      OBVIOUS
    <2>3. ~Listing(w) /\ \A s : ~Lists(w, s)
      BY <2>1, <2>2 DEF Listing, Lists, At
    <2> QED
      BY <1>1, <2>1, <2>3, CoveredStays
  <1> QED
    BY <1>2, <1>3, <1>4, <1>5, <1>6, <1>7, <1>8, DeathBreaks DEF Work

LEMMA DeleteCovered ==
    ASSUME Typed, Covered, NEW r \in Runs, Delete(r)
    PROVE  Covered'
  <1>1. /\ UNCHANGED <<job, left>> /\ rows' \subseteq rows
        /\ ended' = ended \/ ended' = Without(ended, r)
        /\ column' = column \/ column' = [column EXCEPT ![r] = NoPackage]
    BY DeleteReadDoes, DeleteRowDoes, DeleteUnlinkDoes DEF Delete, SameHistory
  <1>2. \A s \in Runs : column'[s] \in {column[s], NoPackage}
    BY <1>1 DEF Typed, TypeOK
  <1>3. CASE \E w \in Workers : Listing(w)
    BY <1>1, <1>3 DEF Covered, Listing
  <1>4. CASE ~\E w \in Workers : Listing(w)
    <2>1. ASSUME NEW i \in 1..Len(Cached'), i > Keep
          PROVE  Cached'[i] \in left \/ ~Spared(Cached'[i])
      <3>1. PICK j \in 1..Len(Cached) : i <= j /\ Cached[j] = Cached'[i]
        BY <1>1, <1>2, FewerCached
      <3>2. j > Keep
        BY <2>1, <3>1, DebugPackagesAssumption
      <3> QED
        BY <1>4, <3>1, <3>2 DEF Covered
    <2>2. \A s : Spared(s)' <=> Spared(s)
      BY <1>1 DEF Spared, Lists
    <2> QED
      BY <1>1, <2>1, <2>2 DEF Covered
  <1> QED
    BY <1>3, <1>4

LEMMA CoveredNext == Typed /\ Covered /\ [Next]_vars => Covered'
  <1>1. Covered /\ UNCHANGED vars => Covered'
    BY DEF vars, Covered, Listing, Spared, Lists, Cached
  <1> QED
    BY <1>1, WorkCovered, DeleteCovered DEF Next

LEMMA InitCovered == Init => Typed /\ Covered
  <1> SUFFICES ASSUME Init PROVE Covered
    BY InitTyped
  <1>1. Typed
    BY InitTyped
  <1>2. \A i \in 1..Len(Cached) : column[Cached[i]] \in Package /\ Cached[i] \in Runs
    BY <1>1, CachedTyped DEF Typed, TypeOK
  <1> QED
    BY <1>2, DebugPackagesAssumption DEF Covered, Init

\* When every task is over, however many pruned at the same time, raised, died or had
\* their runs deleted, a package beyond the Keep that ended last is one that was too
\* many when a task was last cut short, and no task has listed the stale runs since.
THEOREM KeepsTheLimit == Spec => []KeepsAtMost
  <1>1. Typed /\ Covered => KeepsAtMost
    <2> SUFFICES ASSUME Typed, Covered, Quiet, NEW i \in 1..Len(Cached), i > Keep
                 PROVE  Cached[i] \in left
      BY DEF KeepsAtMost
    <2>1. \A r : Spared(r)
      BY DEF Quiet, Spared, Lists, At
    <2>2. ~\E w \in Workers : Listing(w)
      BY DEF Quiet, Listing, At
    <2> QED
      BY <2>1, <2>2 DEF Covered
  <1> QED
    BY InitTyped, TypedNext, InitCovered, CoveredNext, <1>1, PTL DEF Spec
=============================================================================
