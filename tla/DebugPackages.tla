--------------------------- MODULE DebugPackages ---------------------------
(***************************************************************************)
(* The debug packages of one operator's runs.  A task that has ended its   *)
(* run builds a zip, stores it, names it in the run's debug_package_file   *)
(* column and then removes the packages of all but the Keep runs that      *)
(* ended last.  Other tasks do the same meanwhile, runs are deleted with   *)
(* their package, and DebugZipView opens whatever file a column names.     *)
(*                                                                         *)
(* RunQueue says which task works on which run, and when; here a task      *)
(* simply takes a run that waits, and debug_mode is on.                    *)
(*                                                                         *)
(* Every statement of the task may raise (the database, storage, the zip,  *)
(* the soft time limit), and a pool process may die at any of them.  A     *)
(* step that raises does so before its effect: raising after it is raising *)
(* at the next.                                                            *)
(***************************************************************************)
EXTENDS Naturals, FiniteSets, Lists

CONSTANTS
    Runs,        \* the runs of one operator
    Workers,     \* Celery pool processes
    Keep,        \* prune_debug_packages_for_owner(run, keep=10)
    MayRaise,    \* whether storage, the database and the time limit may fail a step
    MayDie,      \* whether a pool process may die
    MaxDeletes,  \* bound: runs deleted
    NoRun, NoPackage

\* The names a package of a run may get: storage adds a suffix to a name that
\* is taken, and a task stores at most two packages.
Package == Runs \X {"plain", "suffixed"}

ASSUME DebugPackagesAssumption ==
    /\ NoRun \notin Runs
    /\ NoPackage \notin Package
    /\ Keep \in Nat
    /\ MayRaise \in BOOLEAN
    /\ MayDie \in BOOLEAN
    /\ MaxDeletes \in Nat

VARIABLES
    rows,    \* runs that have a row
    status,  \* status[r]
    ended,   \* the runs with a finished_at, the latest first
    column,  \* column[r]: debug_package_file
    files,   \* the package files on storage
    job,     \* job[w]: where pool process w stands
    del      \* del[r]: where the handler that deletes run r stands

\* History: what steps that raised, and processes that died, have left behind.
VARIABLES
    cut,     \* runs whose task was cut short once it had stored a package
    torn,    \* runs whose prune was cut short between its delete and its save
    revived, \* runs that ended again while a prune had them listed, or torn
    left     \* the stale runs when a task was last cut short, till the next list

runVars == <<rows, status, ended>>
packages == <<column, files>>
history == <<cut, torn, revived, left>>

vars == <<rows, status, ended, column, files, job, del, cut, torn, revived, left>>

Listed == [run : Runs, name : Package]

JobPc == {"idle", "pipeline", "record", "write", "name", "list", "prune",
          "prune_save", "handler"}

\* todo: the stale runs, as they were when they were listed.
Job == [pc : JobPc, run : Runs \cup {NoRun}, handling : BOOLEAN,
        name : Package \cup {NoPackage}, todo : Seq(Listed)]

IdleJob == [pc |-> "idle", run |-> NoRun, handling |-> FALSE,
            name |-> NoPackage, todo |-> <<>>]

\* name, running: the columns AnalysisRunDeleteView read before the row lock.
Del == [pc : {"ready", "delete_row", "unlink", "over"},
        name : Package \cup {NoPackage}, running : BOOLEAN]

ReadyDel == [pc |-> "ready", name |-> NoPackage, running |-> FALSE]

Init ==
    /\ rows = Runs
    /\ status = [r \in Runs |-> "queued"]
    /\ ended = <<>>
    /\ column = [r \in Runs |-> NoPackage]
    /\ files = {}
    /\ job = [w \in Workers |-> IdleJob]
    /\ del = [r \in Runs |-> ReadyDel]
    /\ cut = {} /\ torn = {} /\ revived = {} /\ left = {}

-----------------------------------------------------------------------------
(* The task *)

At(w, pc) == job[w].pc = pc
Step(w, pc) == job' = [job EXCEPT ![w].pc = pc]
Quit(w) == job' = [job EXCEPT ![w] = IdleJob]

\* The owner's ended runs that name a package, the latest first.
Cached == Filter(ended, {r \in rows : column[r] # NoPackage})

\* (The slice off by one; the oldest runs first.)
StaleButOne == SubSeq(Cached, Keep + 2, Len(Cached))
StaleOldestKept == SubSeq(Cached, 1, Len(Cached) - Keep)

\* cached_runs[keep:]
Stale == SubSeq(Cached, Keep + 1, Len(Cached))

\* What a task leaves that is cut short past its pipeline.
Broken(w) ==
    /\ cut' = IF job[w].pc \in {"name", "list", "prune", "prune_save"}
                THEN cut \cup {job[w].run} ELSE cut
    /\ torn' = IF At(w, "prune_save") THEN torn \cup {Head(job[w].todo).run} ELSE torn
    /\ UNCHANGED revived

\* The task is over before its end.
Dies(w) ==
    /\ Quit(w)
    /\ IF At(w, "pipeline")
         THEN UNCHANGED history
         ELSE Broken(w) /\ left' = {Stale[i] : i \in DOMAIN Stale}

\* An exception leads to the except clause, or out of the task from there.
Thrown(w) ==
    IF job[w].handling
      THEN Dies(w)
      ELSE /\ job' = [job EXCEPT ![w].pc = "handler", ![w].handling = TRUE]
           /\ Broken(w)
           /\ UNCHANGED left

\* A save(update_fields=...) of run r raises when its row has gone, as it may anyway.
SaveRaises(w, r) == (MayRaise \/ r \notin rows) /\ Thrown(w)

Without(s, r) == Filter(s, Runs \ {r})

\* (A run that failed after it was done counted twice.)
EndsAgain(r) == ended' = <<r>> \o ended

\* finished_at is now.
EndsNow(r) == ended' = <<r>> \o Without(ended, r)

Take(w, r) ==
    /\ At(w, "idle")
    /\ r \in rows /\ status[r] = "queued"
    /\ status' = [status EXCEPT ![r] = "running"]
    /\ job' = [job EXCEPT ![w] = [IdleJob EXCEPT !.pc = "pipeline", !.run = r]]
    /\ UNCHANGED <<rows, ended, packages, del, history>>

\* The pipeline returns and DONE is saved, or one of the two raises; or a statement
\* before the try raises (the flag, the first record), which ends the task.
Finish(w) ==
    LET r == job[w].run IN
    /\ At(w, "pipeline")
    /\ \/ /\ r \in rows
          /\ status' = [status EXCEPT ![r] = "done"]
          /\ EndsNow(r)
          /\ Step(w, "record")
          /\ UNCHANGED history
       \/ Thrown(w) /\ UNCHANGED <<status, ended>>
       \/ MayRaise /\ Dies(w) /\ UNCHANGED <<status, ended>>
    /\ UNCHANGED <<rows, packages, del>>

\* The runs that w has still to prune.
ToPrune(w) == IF job[w].pc \in {"prune", "prune_save"}
                THEN {job[w].todo[i].run : i \in DOMAIN job[w].todo} ELSE {}

\* The except clauses: FAILED is saved, whatever the status is now.
Fail(w) ==
    LET r == job[w].run IN
    /\ At(w, "handler")
    /\ \/ /\ r \in rows
          /\ status' = [status EXCEPT ![r] = "failed"]
          /\ EndsNow(r)
          /\ Step(w, "record")
          /\ revived' = IF r \in torn \/ \E v \in Workers : r \in ToPrune(v)
                          THEN revived \cup {r} ELSE revived
          /\ UNCHANGED <<cut, torn, left>>
       \/ SaveRaises(w, r) /\ UNCHANGED <<status, ended>>
    /\ UNCHANGED <<rows, packages, del>>

\* (The name saved before the file is written.)
NameFirst(w) ==
    LET r == job[w].run IN
    /\ At(w, "record")
    /\ r \in rows
    /\ column' = [column EXCEPT ![r] = <<r, "plain">>]
    /\ Step(w, "write")
    /\ UNCHANGED <<runVars, files, del, history>>

\* _save_pipeline(force=True).
Record(w) ==
    LET r == job[w].run IN
    /\ At(w, "record")
    /\ \/ r \in rows /\ Step(w, "write") /\ UNCHANGED history
       \/ SaveRaises(w, r)
    /\ UNCHANGED <<runVars, packages, del>>

\* The zip, and debug_package_file.save(..., save=False): storage picks a name that
\* is free.
Write(w) ==
    LET r == job[w].run
        name == <<r, IF <<r, "plain">> \in files THEN "suffixed" ELSE "plain">> IN
    /\ At(w, "write")
    /\ \/ /\ files' = files \cup {name}
          /\ job' = [job EXCEPT ![w].pc = "name", ![w].name = name]
          /\ UNCHANGED history
       \/ MayRaise /\ Thrown(w) /\ UNCHANGED files
    /\ UNCHANGED <<runVars, column, del>>

\* run.save(update_fields=["debug_package_file", ...]): when it raises, the file is
\* stored and has no name.
Name(w) ==
    LET r == job[w].run IN
    /\ At(w, "name")
    /\ \/ /\ r \in rows
          /\ column' = [column EXCEPT ![r] = job[w].name]
          /\ Step(w, "list")
          /\ UNCHANGED history
       \/ SaveRaises(w, r) /\ UNCHANGED column
    /\ UNCHANGED <<runVars, files, del>>

\* No run is stale any more that is on no list.
List(w) ==
    /\ At(w, "list")
    /\ \/ /\ job' = [job EXCEPT
                       ![w].pc = "prune",
                       ![w].todo = [i \in DOMAIN Stale |->
                                      [run |-> Stale[i], name |-> column[Stale[i]]]]]
          /\ left' = {}
          /\ UNCHANGED <<cut, torn, revived>>
       \/ MayRaise /\ Thrown(w)
    /\ UNCHANGED <<runVars, packages, del>>

\* (Only the column cleared.)
PruneColumnOnly(w) ==
    /\ At(w, "prune")
    /\ job[w].todo # <<>>
    /\ Step(w, "prune_save")
    /\ UNCHANGED <<runVars, packages, del, history>>

\* stale_run.debug_package_file.delete(save=False): a file that is not there any more
\* is no error, but storage may raise.
PruneFile(w) ==
    /\ At(w, "prune")
    /\ job[w].todo # <<>>
    /\ \/ /\ files' = files \ {Head(job[w].todo).name}
          /\ Step(w, "prune_save")
          /\ UNCHANGED history
       \/ MayRaise /\ Thrown(w) /\ UNCHANGED files
    /\ UNCHANGED <<runVars, column, del>>

\* stale_run.save(update_fields=...): when it raises, also because that run has been
\* deleted, the task takes it for a failure of its own run, and a row that is left
\* names the file that has gone.
PruneSave(w) ==
    LET r == Head(job[w].todo).run IN
    /\ At(w, "prune_save")
    /\ \/ /\ r \in rows
          /\ column' = [column EXCEPT ![r] = NoPackage]
          /\ job' = [job EXCEPT ![w].pc = "prune", ![w].todo = Tail(@)]
          /\ UNCHANGED history
       \/ SaveRaises(w, r) /\ UNCHANGED column
    /\ UNCHANGED <<runVars, files, del>>

\* The upload is cleaned up (RunQueue) and the task ends; or the time limit raises
\* while the try is being left.
End(w) ==
    /\ At(w, "prune")
    /\ job[w].todo = <<>>
    /\ \/ Quit(w) /\ UNCHANGED history
       \/ MayRaise /\ Thrown(w)
    /\ UNCHANGED <<runVars, packages, del>>

\* A pool process dies of itself.
Die(w) ==
    /\ MayDie
    /\ ~At(w, "idle")
    /\ Dies(w)
    /\ UNCHANGED <<runVars, packages, del>>

-----------------------------------------------------------------------------
(* AnalysisRunDeleteView *)

DeleteRead(r) ==
    /\ r \in rows
    /\ del[r].pc = "ready"
    /\ Cardinality({s \in Runs : del[s].pc # "ready"}) < MaxDeletes
    /\ del' = [del EXCEPT ![r] = [pc |-> "delete_row", name |-> column[r],
                                  running |-> status[r] = "running"]]
    /\ UNCHANGED <<runVars, packages, job, history>>

\* The revoke of a run that was running when it was read kills its process, if
\* it arrives before the task ends: by then it may be pruning other runs.
Revoked(w) ==
    /\ ~At(w, "idle") /\ del[job[w].run].running
    /\ Dies(w)
    /\ UNCHANGED <<runVars, packages, del>>

\* The lock, the delete and the commit.
DeleteRow(r) ==
    /\ del[r].pc = "delete_row"
    /\ rows' = rows \ {r}
    /\ ended' = Without(ended, r)
    /\ column' = [column EXCEPT ![r] = NoPackage]
    /\ del' = [del EXCEPT ![r].pc = "unlink"]
    /\ UNCHANGED <<status, files, job, history>>

\* _delete_run_files_after_commit, for the package named when the row was read: an
\* error of storage is logged.
DeleteUnlink(r) ==
    /\ del[r].pc = "unlink"
    /\ \/ files' = files \ {del[r].name}
       \/ MayRaise /\ UNCHANGED files
    /\ del' = [del EXCEPT ![r].pc = "over"]
    /\ UNCHANGED <<runVars, column, job, history>>

-----------------------------------------------------------------------------
Work(w) ==
    \/ \E r \in Runs : Take(w, r)
    \/ Finish(w) \/ Fail(w) \/ Record(w) \/ Write(w) \/ Name(w)
    \/ List(w) \/ PruneFile(w) \/ PruneSave(w) \/ End(w)
    \/ Revoked(w) \/ Die(w)

Delete(r) == DeleteRead(r) \/ DeleteRow(r) \/ DeleteUnlink(r)

Next == (\E w \in Workers : Work(w)) \/ (\E r \in Runs : Delete(r))

Spec == Init /\ [][Next]_vars

-----------------------------------------------------------------------------
(* Properties *)

TypeOK ==
    /\ rows \subseteq Runs
    /\ status \in [Runs -> {"queued", "running", "done", "failed"}]
    /\ ended \in Seq(Runs)
    /\ \A i, j \in DOMAIN ended : ended[i] = ended[j] => i = j
    /\ column \in [Runs -> Package \cup {NoPackage}]
    /\ files \subseteq Package
    /\ job \in [Workers -> Job]
    /\ del \in [Runs -> Del]
    /\ cut \subseteq Runs /\ torn \subseteq Runs
    /\ revived \subseteq Runs /\ left \subseteq Runs

Pruning(r) == \E w \in Workers : At(w, "prune_save") /\ Head(job[w].todo).run = r

\* DebugZipView finds the package that a run names, however prunes, deletions, steps
\* that raise and deaths overlap, save in the moment between a prune's delete and its
\* save.  It may miss it for good in two ways only: a prune was cut short in that
\* moment, or the run failed when it had a package, and so stored a second one.
NamedIsThere ==
    \A r \in rows :
        /\ column[r] # NoPackage
        /\ ~Pruning(r) /\ r \notin torn
        /\ ~(status[r] = "failed" /\ r \in cut)
        => column[r] \in files

NoDeletes == \A r \in Runs : del[r].pc = "ready"

\* Whatever raises or dies, and while no run is deleted, the packages of the Keep runs
\* that ended last can be opened: until a run ends a second time that a prune has
\* listed, or was cut short at.
LatestAreThere ==
    NoDeletes /\ revived = {} =>
        \A i \in 1..Len(Cached) : i <= Keep => column[Cached[i]] \in files

Quiet == \A w \in Workers : At(w, "idle")

\* When every task is over, packages beyond the Keep that are kept are named only by
\* runs that were too many when a task was last cut short, and no task has listed the
\* stale runs since: tasks that prune at the same time leave none to each other, and
\* the first prune that goes through takes what the broken ones left.
KeepsAtMost == Quiet => \A i \in 1..Len(Cached) : i > Keep => Cached[i] \in left

\* Every package on storage of a run that has a row is named by it or about to be,
\* unless the run's own task was cut short with a package stored: no prune of another
\* task, and no deletion or death elsewhere, orphans it.
NoOrphanPackage ==
    \A f \in files :
        f[1] \in rows =>
            \/ column[f[1]] = f
            \/ \E w \in Workers : At(w, "name") /\ job[w].name = f
            \/ f[1] \in cut

\* What a test says, and the code does not always do: a run that has been
\* deleted leaves no package on storage.
DeleteRemovesPackage ==
    Quiet => \A r \in Runs : del[r].pc = "over" => \A f \in files : f[1] # r

=============================================================================
