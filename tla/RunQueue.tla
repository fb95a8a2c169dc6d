------------------------------ MODULE RunQueue ------------------------------
(***************************************************************************)
(* The life of an analysis run: a row of the AnalysisRun table, the upload *)
(* it stands for, the HTTP handlers that start, cancel and delete it and   *)
(* the Celery task run_docx_analysis that works on it.                     *)
(*                                                                         *)
(* A handler is split where another process can come between: after each   *)
(* read that a later write relies on, after each committed write, and      *)
(* around each call to the broker.  Writes name their columns              *)
(* (update_fields): they leave the other columns alone and raise when the  *)
(* row is gone.                                                            *)
(***************************************************************************)
EXTENDS Naturals, FiniteSets

CONSTANTS
    Runs,           \* the uploads of one operator
    Requests,       \* HTTP requests, each handled once by a web process
    Workers,        \* Celery pool processes
    MaxEvents,      \* bound: events in one document
    FlushEvery,     \* progress is written at least every FlushEvery events
    Handlers,       \* the handlers the requests may call
    DebugModes,     \* values FeatureFlags.debug_mode may have when a task reads it
    DeleteUploads,  \* settings.ANALYSIS_DELETE_UPLOADS
    Faults,         \* what the environment may do, see FaultKinds
    NoRun, NoTask

HandlerKinds == {"start", "cancel", "start_all", "delete_all", "delete"}

\* "broker_down": delay() raises; "control_lost": a revoke does not reach the
\* workers; "redelivery": the broker hands out a task again; "web_abort": a web
\* process dies inside a handler; "worker_crash": a pool process dies or hits
\* the hard time limit; "raise": the task raises where its handler catches it,
\* SoftTimeLimitExceeded included; "raise_outside": it raises elsewhere.
FaultKinds == {"broker_down", "control_lost", "redelivery", "web_abort",
               "worker_crash", "raise", "raise_outside"}

\* The identifier delay() returns: a request publishes at most one task a run.
Task == Requests \X Runs

ASSUME RunQueueAssumption ==
    /\ NoRun \notin Runs
    /\ NoTask \notin Task
    /\ MaxEvents \in Nat
    /\ FlushEvery \in Nat \ {0}
    /\ Handlers \subseteq HandlerKinds
    /\ DebugModes \subseteq BOOLEAN
    /\ DeleteUploads \in BOOLEAN
    /\ Faults \subseteq FaultKinds

VARIABLES
    fresh,     \* runs not uploaded yet
    rows,      \* runs that have a row in the database
    row,       \* row[r]: the columns of run r
    paras,     \* paras[r]: AnalysisParagraph rows of r, idx 1..paras[r]
    results,   \* results[r]: AnalysisResult rows of r
    uploads,   \* runs whose uploaded file is on storage
    req,       \* req[q]: where the handler of request q stands
    broker,    \* tasks waiting in the "analysis" queue
    sent,      \* tasks ever published
    control,   \* revoke broadcasts on their way to the workers
    revoked,   \* task ids the workers remember as revoked
    job,       \* job[w]: where pool process w stands in its task
    claims     \* history: claims[r] counts the tasks that started r's pipeline

table == <<fresh, rows, row, paras, results>>
queue == <<broker, sent, control, revoked>>
vars == <<table, uploads, queue, req, job, claims>>

-----------------------------------------------------------------------------
Status == {"created", "queued", "running", "done", "failed", "canceled"}

\* progressAt: progress_updated_at is set.  0 stands for a NULL progress_total
\* or progress_done too: _progress_payload reads both alike.
Row == [status : Status, task : Task \cup {NoTask},
        started : BOOLEAN, finished : BOOLEAN, progressAt : BOOLEAN,
        total : Nat, done : Nat]

CreatedRow == [status |-> "created", task |-> NoTask,
               started |-> FALSE, finished |-> FALSE, progressAt |-> FALSE,
               total |-> 0, done |-> 0]

ReqPc == {"ready", "start_save", "start_publish", "start_task", "cancel_save",
          "start_all", "all_publish", "all_commit", "delete_all",
          "revoke", "delete_row", "unlink", "over"}

\* seen: the columns AnalysisRunDeleteView read before it locked the row.
Seen == [task : Task \cup {NoTask}, running : BOOLEAN]

Req == [kind : HandlerKinds \cup {"none"}, pc : ReqPc,
        run : Runs \cup {NoRun}, todo : SUBSET Runs, seen : Seen]

NothingSeen == [task |-> NoTask, running |-> FALSE]

ReadyReq == [kind |-> "none", pc |-> "ready", run |-> NoRun, todo |-> {},
             seen |-> NothingSeen]
OverReq == [ReadyReq EXCEPT !.pc = "over"]

JobPc == {"idle", "claim", "flag", "parse", "paragraph", "result", "progress",
          "package", "handler", "cleanup"}

\* size: events parsed; i: events stored; handling: inside an except clause.
Job == [pc : JobPc, task : Task \cup {NoTask}, run : Runs \cup {NoRun},
        debug : BOOLEAN, handling : BOOLEAN, size : Nat, i : Nat]

IdleJob == [pc |-> "idle", task |-> NoTask, run |-> NoRun,
            debug |-> FALSE, handling |-> FALSE, size |-> 0, i |-> 0]

Init ==
    /\ fresh = Runs
    /\ rows = {}
    /\ row = [r \in Runs |-> CreatedRow]
    /\ paras = [r \in Runs |-> 0]
    /\ results = [r \in Runs |-> 0]
    /\ uploads = {}
    /\ req = [q \in Requests |-> ReadyReq]
    /\ broker = {} /\ sent = {} /\ control = {} /\ revoked = {}
    /\ job = [w \in Workers |-> IdleJob]
    /\ claims = [r \in Runs |-> 0]

-----------------------------------------------------------------------------
(* Web handlers *)

\* The row lock a start-all transaction holds while it calls the broker.  Every
\* other transaction on a row is one action: it waits for this lock.
Locked(r) == \E q \in Requests : /\ req[q].pc \in {"all_publish", "all_commit"}
                                 /\ req[q].run = r

GoTo(q, pc) == req' = [req EXCEPT ![q].pc = pc]
Over(q) == req' = [req EXCEPT ![q] = OverReq]

\* The first read of a handler: it is called for run r.
Begin(q, kind, r, pc) ==
    /\ req[q].pc = "ready"
    /\ kind \in Handlers
    /\ req' = [req EXCEPT ![q].kind = kind, ![q].run = r, ![q].pc = pc]

\* UploadView._handle_upload: the file is stored and the row inserted.
Upload(r) ==
    /\ r \in fresh
    /\ fresh' = fresh \ {r}
    /\ rows' = rows \cup {r}
    /\ uploads' = uploads \cup {r}
    /\ UNCHANGED <<row, paras, results, queue, req, job, claims>>

\* UploadView._enqueue_pending_run reads the row, without a lock.
StartRead(q, r) ==
    /\ r \in rows
    /\ row[r].status = "created"
    /\ Begin(q, "start", r, "start_save")
    /\ UNCHANGED <<table, uploads, queue, job, claims>>

\* _enqueue_run saves status, queued_at and error_message, whatever they are now.
StartSave(q) ==
    LET r == req[q].run IN
    /\ req[q].pc = "start_save"
    /\ ~Locked(r)
    /\ IF r \in rows
         THEN /\ row' = [row EXCEPT ![r].status = "queued"]
              /\ GoTo(q, "start_publish")
         ELSE /\ Over(q)
              /\ UNCHANGED row
    /\ UNCHANGED <<fresh, rows, paras, results, uploads, queue, job, claims>>

\* run_docx_analysis.delay(...): the task is in the broker when it returns.
Publish(q, next) ==
    LET t == <<q, req[q].run>> IN
    /\ broker' = broker \cup {t}
    /\ sent' = sent \cup {t}
    /\ GoTo(q, next)
    /\ UNCHANGED <<table, uploads, control, revoked, job, claims>>

StartPublish(q) ==
    /\ req[q].pc = "start_publish"
    /\ Publish(q, "start_task")

\* delay() raises: the request ends.  A start-all transaction is rolled back, a
\* single start has already saved QUEUED.
PublishFails(q) ==
    /\ "broker_down" \in Faults
    /\ req[q].pc \in {"start_publish", "all_publish"}
    /\ Over(q)
    /\ UNCHANGED <<table, uploads, queue, job, claims>>

\* (run.save() without update_fields inserts a row that has gone.)
StartTaskInserts(q) ==
    LET r == req[q].run IN
    /\ req[q].pc = "start_task"
    /\ ~Locked(r)
    /\ rows' = rows \cup {r}
    /\ row' = [row EXCEPT ![r].task = <<q, r>>]
    /\ Over(q)
    /\ UNCHANGED <<fresh, paras, results, uploads, queue, job, claims>>

\* _enqueue_run saves the task id; the worker may have started meanwhile.
StartTask(q) ==
    LET r == req[q].run IN
    /\ req[q].pc = "start_task"
    /\ ~Locked(r)
    /\ row' = IF r \in rows THEN [row EXCEPT ![r].task = <<q, r>>] ELSE row
    /\ Over(q)
    /\ UNCHANGED <<fresh, rows, paras, results, uploads, queue, job, claims>>

\* PendingRunCancelView reads the row, without a lock.
CancelRead(q, r) ==
    /\ r \in rows
    /\ row[r].status = "created"
    /\ row[r].task = NoTask
    /\ Begin(q, "cancel", r, "cancel_save")
    /\ UNCHANGED <<table, uploads, queue, job, claims>>

\* (A status the model's choices do not list: save() does not check them.)
CancelSaveMisspelt(q) ==
    LET r == req[q].run IN
    /\ req[q].pc = "cancel_save"
    /\ ~Locked(r)
    /\ row' = IF r \in rows
                THEN [row EXCEPT ![r].status = "cancelled", ![r].finished = TRUE]
                ELSE row
    /\ Over(q)
    /\ UNCHANGED <<fresh, rows, paras, results, uploads, queue, job, claims>>

\* It saves CANCELED and finished_at, whatever the status is now.
CancelSave(q) ==
    LET r == req[q].run IN
    /\ req[q].pc = "cancel_save"
    /\ ~Locked(r)
    /\ row' = IF r \in rows
                THEN [row EXCEPT ![r].status = "canceled", ![r].finished = TRUE]
                ELSE row
    /\ Over(q)
    /\ UNCHANGED <<fresh, rows, paras, results, uploads, queue, job, claims>>

Pending == {r \in rows : row[r].status = "created"}

\* PendingRunsStartAllView and PendingRunsDeleteAllView list the pending runs
\* once, then treat them one by one.
ListPending(q, kind) ==
    /\ req[q].pc = "ready"
    /\ kind \in Handlers
    /\ req' = [req EXCEPT ![q].kind = kind, ![q].pc = kind, ![q].todo = Pending]
    /\ UNCHANGED <<table, uploads, queue, job, claims>>

\* (The check under the lock left out.)
StartUnchecked(r) == TRUE

\* The check of the status under the lock.
StillPending(r) == row[r].status = "created"

\* Start-all locks the row and checks its status again.  It ends with an error
\* at the first listed run that has been deleted.
StartAllLock(q, r) ==
    /\ req[q].pc = "start_all"
    /\ r \in req[q].todo
    /\ ~Locked(r)
    /\ IF r \in rows
         THEN req' = [req EXCEPT
                        ![q].todo = @ \ {r}, ![q].run = r,
                        ![q].pc = IF StillPending(r) THEN "all_publish" ELSE @]
         ELSE Over(q)
    /\ UNCHANGED <<table, uploads, queue, job, claims>>

StartAllPublish(q) ==
    /\ req[q].pc = "all_publish"
    /\ Publish(q, "all_commit")

\* The commit shows QUEUED and the task id at once and frees the row.
StartAllCommit(q) ==
    LET r == req[q].run IN
    /\ req[q].pc = "all_commit"
    /\ row' = [row EXCEPT ![r].status = "queued", ![r].task = <<q, r>>]
    /\ GoTo(q, "start_all")
    /\ UNCHANGED <<fresh, rows, paras, results, uploads, queue, job, claims>>

LoopEnd(q) ==
    /\ req[q].pc \in {"start_all", "delete_all"}
    /\ req[q].todo = {}
    /\ Over(q)
    /\ UNCHANGED <<table, uploads, queue, job, claims>>

\* run.delete(): the row goes, and its paragraphs and results with it.
DeleteCascade(r) ==
    /\ rows' = rows \ {r}
    /\ row' = [row EXCEPT ![r] = CreatedRow]
    /\ paras' = [paras EXCEPT ![r] = 0]
    /\ results' = [results EXCEPT ![r] = 0]

\* Delete-all locks each listed run and deletes it if it is still pending.
DeleteAllRow(q, r) ==
    /\ req[q].pc = "delete_all"
    /\ r \in req[q].todo
    /\ ~Locked(r)
    /\ IF r \in rows /\ StillPending(r)
         THEN /\ DeleteCascade(r)
              /\ req' = [req EXCEPT ![q].todo = @ \ {r}, ![q].run = r,
                                    ![q].pc = "unlink"]
         ELSE /\ req' = [req EXCEPT ![q].todo = @ \ {r}]
              /\ UNCHANGED <<rows, row, paras, results>>
    /\ UNCHANGED <<fresh, uploads, queue, job, claims>>

\* AnalysisRunDeleteView reads the task id and the status.
DeleteRead(q, r) ==
    /\ r \in rows
    /\ req[q].pc = "ready"
    /\ "delete" \in Handlers
    /\ req' = [req EXCEPT
                 ![q].kind = "delete", ![q].run = r,
                 ![q].pc = IF row[r].task = NoTask THEN "delete_row" ELSE "revoke",
                 ![q].seen = [task |-> row[r].task,
                              running |-> row[r].status = "running"]]
    /\ UNCHANGED <<table, uploads, queue, job, claims>>

\* control.revoke: a broadcast; a failure to send it is only logged.
Revoke(q) ==
    LET seen == req[q].seen IN
    /\ req[q].pc = "revoke"
    /\ \/ control' = control \cup {[task |-> seen.task, terminate |-> seen.running]}
       \/ /\ "control_lost" \in Faults
          /\ UNCHANGED control
    /\ GoTo(q, "delete_row")
    /\ UNCHANGED <<table, uploads, broker, sent, revoked, job, claims>>

\* The row is locked and deleted whatever its status; get() raises if it is gone.
DeleteRow(q) ==
    LET r == req[q].run IN
    /\ req[q].pc = "delete_row"
    /\ ~Locked(r)
    /\ IF r \in rows
         THEN /\ DeleteCascade(r)
              /\ GoTo(q, "unlink")
         ELSE /\ Over(q)
              /\ UNCHANGED <<rows, row, paras, results>>
    /\ UNCHANGED <<fresh, uploads, queue, job, claims>>

\* (Delete-all without the file clean-up.)
UnlinkOnDelete(q) ==
    LET r == req[q].run IN
    /\ req[q].pc = "unlink"
    /\ uploads' = IF req[q].kind = "delete" THEN uploads \ {r} ELSE uploads
    /\ IF req[q].kind = "delete_all" THEN GoTo(q, "delete_all") ELSE Over(q)
    /\ UNCHANGED <<table, queue, job, claims>>

\* _delete_run_files_after_commit, for the upload.
Unlink(q) ==
    LET r == req[q].run IN
    /\ req[q].pc = "unlink"
    /\ uploads' = uploads \ {r}
    /\ IF req[q].kind = "delete_all" THEN GoTo(q, "delete_all") ELSE Over(q)
    /\ UNCHANGED <<table, queue, job, claims>>

\* A web process dies: an open transaction is rolled back, the rest is not done.
Abort(q) ==
    /\ "web_abort" \in Faults
    /\ req[q].pc \notin {"ready", "over"}
    /\ Over(q)
    /\ UNCHANGED <<table, uploads, queue, job, claims>>

-----------------------------------------------------------------------------
(* The worker *)

\* The pool process that runs task t, if any, after a broadcast or a crash.
Stop(stopped) == job' = [w \in Workers |-> IF stopped[w] THEN IdleJob ELSE job[w]]

\* The broker hands task t to an idle process.  With acks_late off, it is then
\* forgotten; a redelivery leaves it to be handed out again.
Receive(w, t) ==
    /\ job[w].pc = "idle"
    /\ t \in broker
    /\ \/ broker' = broker \ {t}
       \/ /\ "redelivery" \in Faults
          /\ UNCHANGED broker
    /\ job' = IF t \in revoked THEN job
              ELSE [job EXCEPT ![w] = [IdleJob EXCEPT !.pc = "claim", !.task = t,
                                                      !.run = t[2]]]
    /\ UNCHANGED <<table, uploads, sent, control, revoked, req, claims>>

\* A revoke reaches the workers: they will discard the task, and kill the
\* process that runs it when asked to terminate it.
ReceiveRevoke(c) ==
    /\ c \in control
    /\ control' = control \ {c}
    /\ revoked' = revoked \cup {c.task}
    /\ Stop([w \in Workers |-> c.terminate /\ job[w].task = c.task])
    /\ UNCHANGED <<table, uploads, broker, sent, req, claims>>

\* A pool process dies, or the hard time limit kills it.
Crash(w) ==
    /\ "worker_crash" \in Faults
    /\ job[w].pc # "idle"
    /\ Stop([v \in Workers |-> v = w])
    /\ UNCHANGED <<table, uploads, queue, req, claims>>

\* The worker restarts: its processes and the revoked ids it remembered go.
Restart ==
    /\ "worker_crash" \in Faults
    /\ revoked # {}
    /\ revoked' = {}
    /\ Stop([v \in Workers |-> TRUE])
    /\ UNCHANGED <<table, uploads, broker, sent, control, req, claims>>

At(w, pc) == job[w].pc = pc
Step(w, pc) == job' = [job EXCEPT ![w].pc = pc]
Quit(w) == job' = [job EXCEPT ![w] = IdleJob]

\* (Two ways to get the next definition wrong.)
ClaimableQueued(r) == r \in rows /\ row[r].status = "queued"
ClaimableUnfinished(r) == /\ r \in rows
                          /\ row[r].status \in {"queued", "running"}
                          /\ ~row[r].finished

\* The run a task may start: still queued and never started.
Claimable(r) == r \in rows /\ row[r].status = "queued" /\ ~row[r].started

\* (Without select_for_update the task would read what is committed.)
ReadsUnlocked(r) == TRUE

\* select_for_update waits for the transaction that holds the row.
ReadsLocked(r) == ~Locked(r)

\* (A skip that would clean up as the other ends of a task do.)
SkipAndCleanup(w) == Step(w, "cleanup")

\* A task that may not start its run returns at once; a deleted row raises.
Skip(w) == Quit(w)

\* The claim: one transaction, start the run or skip.
Claim(w) ==
    LET r == job[w].run IN
    /\ At(w, "claim")
    /\ ReadsLocked(r)
    /\ IF Claimable(r)
         THEN /\ row' = [row EXCEPT ![r] =
                          [@ EXCEPT !.task = job[w].task, !.status = "running",
                                    !.started = TRUE, !.progressAt = TRUE,
                                    !.total = 0, !.done = 0]]
              /\ claims' = [claims EXCEPT ![r] = @ + 1]
              /\ Step(w, "flag")
         ELSE /\ Skip(w)
              /\ UNCHANGED <<row, claims>>
    /\ UNCHANGED <<fresh, rows, paras, results, uploads, queue, req>>

\* The debug flag is read once for the task; with it on, the pipeline record is
\* saved, outside the try.
ReadFlag(w) ==
    /\ At(w, "flag")
    /\ \E d \in DebugModes :
         IF d /\ job[w].run \notin rows
           THEN Quit(w)
           ELSE job' = [job EXCEPT ![w].pc = "parse", ![w].debug = d]
    /\ UNCHANGED <<table, uploads, queue, req, claims>>

\* What an exception leads to: the except clause, or out of the task when it is
\* raised in an except clause.
Thrown(w) == IF job[w].handling THEN Quit(w) ELSE Step(w, "handler")

\* An exception of the pipeline, the debug package or an except clause.  At
\* "cleanup" it is the clean-up that has not begun: pruning old packages raises,
\* or the soft time limit comes after the last save.
Raise(w) ==
    /\ \/ /\ "raise" \in Faults
          /\ ~job[w].handling
          /\ job[w].pc \in {"parse", "paragraph", "result", "progress",
                            "package", "cleanup"}
          /\ Thrown(w)
       \/ /\ "raise_outside" \in Faults
          /\ \/ job[w].pc \in {"claim", "flag", "handler"}
             \/ job[w].handling /\ job[w].pc \in {"package", "cleanup"}
          /\ Quit(w)
    /\ UNCHANGED <<table, uploads, queue, req, claims>>

\* parse_uploaded_document, the slicing_meta save and progress_callback(0, n).
Parse(w) ==
    LET r == job[w].run IN
    /\ At(w, "parse")
    /\ IF r \in rows /\ r \in uploads
         THEN \E n \in 0..MaxEvents :
                /\ job' = [job EXCEPT ![w].pc = "paragraph", ![w].size = n]
                /\ row' = [row EXCEPT ![r] = [@ EXCEPT !.total = n, !.done = 0]]
         ELSE /\ Thrown(w)
              /\ UNCHANGED row
    /\ UNCHANGED <<fresh, rows, paras, results, uploads, queue, req, claims>>

\* (An off-by-one in the loop over the events.)
MoreEventsButOne(w) == job[w].i + 1 < job[w].size

MoreEvents(w) == job[w].i < job[w].size

\* AnalysisParagraph.objects.create: (run, idx) is unique, and the run must exist.
StoreParagraph(w) ==
    LET r == job[w].run IN
    /\ At(w, "paragraph")
    /\ MoreEvents(w)
    /\ IF r \in rows /\ paras[r] = job[w].i
         THEN /\ paras' = [paras EXCEPT ![r] = job[w].i + 1]
              /\ Step(w, "result")
         ELSE /\ Thrown(w)
              /\ UNCHANGED paras
    /\ UNCHANGED <<fresh, rows, row, results, uploads, queue, req, claims>>

\* AnalysisResult.objects.create, after extraction and matching.
StoreResult(w) ==
    LET r == job[w].run IN
    /\ At(w, "result")
    /\ IF r \in rows
         THEN /\ results' = [results EXCEPT ![r] = @ + 1]
              /\ Step(w, "progress")
         ELSE /\ Thrown(w)
              /\ UNCHANGED results
    /\ UNCHANGED <<fresh, rows, row, paras, uploads, queue, req, claims>>

\* (The event after the one just stored.)
ProcessedAhead(w) == job[w].i + 2

\* enumerate(events, start=1): the number of the event just stored.
Processed(w) == job[w].i + 1

\* progress_callback(idx, n): saved every FlushEvery events, and whenever half a
\* second has passed since the last save.
Progress(w) ==
    LET r == job[w].run
        next == job' = [job EXCEPT ![w].pc = "paragraph", ![w].i = @ + 1] IN
    /\ At(w, "progress")
    /\ \/ /\ r \in rows
          /\ row' = [row EXCEPT ![r].done = Processed(w)]
          /\ next
       \/ /\ Processed(w) % FlushEvery # 0
          /\ next
          /\ UNCHANGED row
       \/ /\ r \notin rows
          /\ Thrown(w)
          /\ UNCHANGED row
    /\ UNCHANGED <<fresh, rows, paras, results, uploads, queue, req, claims>>

\* The last progress_callback(n, n, force=True), then DONE is saved.
Finish(w) ==
    LET r == job[w].run IN
    /\ At(w, "paragraph")
    /\ ~MoreEvents(w)
    /\ IF r \in rows
         THEN /\ row' = [row EXCEPT ![r].status = "done", ![r].finished = TRUE,
                                    ![r].done = job[w].size]
              /\ Step(w, IF job[w].debug THEN "package" ELSE "cleanup")
         ELSE /\ Thrown(w)
              /\ UNCHANGED row
    /\ UNCHANGED <<fresh, rows, paras, results, uploads, queue, req, claims>>

\* (The clean-up after a failure only where there is no package to build.)
PackageOrCleanup(w) ==
    /\ At(w, "package")
    /\ IF job[w].run \in rows /\ ~job[w].handling THEN Step(w, "cleanup") ELSE Thrown(w)
    /\ UNCHANGED <<table, uploads, queue, req, claims>>

\* The pipeline record, the debug package and the columns that name it: every
\* save raises when the row is gone.  DebugPackages models the packages.
Package(w) ==
    /\ At(w, "package")
    /\ IF job[w].run \in rows THEN Step(w, "cleanup") ELSE Thrown(w)
    /\ UNCHANGED <<table, uploads, queue, req, claims>>

AfterFailure(w) == IF job[w].debug THEN "package" ELSE "cleanup"

\* The except clauses save FAILED, whatever the status is now.
Fail(w) ==
    LET r == job[w].run IN
    /\ At(w, "handler")
    /\ IF r \in rows
         THEN /\ row' = [row EXCEPT ![r].status = "failed", ![r].finished = TRUE]
              /\ job' = [job EXCEPT ![w].handling = TRUE,
                                    ![w].pc = AfterFailure(w)]
         ELSE /\ Quit(w)
              /\ UNCHANGED row
    /\ UNCHANGED <<fresh, rows, paras, results, uploads, queue, req, claims>>

\* cleanup_run_upload, whose own errors are only logged; the task ends.
Cleanup(w) ==
    /\ At(w, "cleanup")
    /\ uploads' = IF DeleteUploads THEN uploads \ {job[w].run} ELSE uploads
    /\ Quit(w)
    /\ UNCHANGED <<table, queue, req, claims>>

-----------------------------------------------------------------------------
WebBegin(q) ==
    \/ \E r \in Runs : StartRead(q, r) \/ CancelRead(q, r) \/ DeleteRead(q, r)
    \/ \E kind \in {"start_all", "delete_all"} : ListPending(q, kind)

\* The rest of a handler that has begun.
WebStep(q) ==
    \/ StartSave(q) \/ StartPublish(q) \/ StartTask(q)
    \/ CancelSave(q)
    \/ \E r \in Runs : StartAllLock(q, r) \/ DeleteAllRow(q, r)
    \/ StartAllPublish(q) \/ StartAllCommit(q) \/ LoopEnd(q)
    \/ Revoke(q) \/ DeleteRow(q) \/ Unlink(q)

Web(q) == WebBegin(q) \/ WebStep(q) \/ PublishFails(q) \/ Abort(q)

WorkStep(w) ==
    \/ Claim(w) \/ ReadFlag(w) \/ Parse(w) \/ StoreParagraph(w)
    \/ StoreResult(w) \/ Progress(w) \/ Finish(w) \/ Package(w)
    \/ Fail(w) \/ Cleanup(w)

Take(w) == \E t \in Task : Receive(w, t)

Work(w) == Take(w) \/ WorkStep(w) \/ Raise(w) \/ Crash(w)

Broadcast == \E c \in control : ReceiveRevoke(c)

Next ==
    \/ \E r \in Runs : Upload(r)
    \/ \E q \in Requests : Web(q)
    \/ \E w \in Workers : Work(w)
    \/ Broadcast
    \/ Restart

Spec == Init /\ [][Next]_vars

\* A handler that has begun goes on; a worker that is up takes tasks and goes
\* on with them; a broadcast that was sent arrives.  Nobody has to upload or
\* to call a handler, and no fault has to happen.
Fairness ==
    /\ \A q \in Requests : WF_vars(WebStep(q))
    /\ \A w \in Workers : WF_vars(Take(w)) /\ WF_vars(WorkStep(w))
    /\ WF_vars(Broadcast)

FairSpec == Spec /\ Fairness

-----------------------------------------------------------------------------
(* Properties *)

TypeOK ==
    /\ fresh \subseteq Runs /\ rows \subseteq Runs
    /\ row \in [Runs -> Row]
    /\ paras \in [Runs -> Nat] /\ results \in [Runs -> Nat]
    /\ uploads \subseteq Runs
    /\ req \in [Requests -> Req]
    /\ broker \subseteq Task /\ sent \subseteq Task /\ revoked \subseteq Task
    /\ control \subseteq [task : Task, terminate : BOOLEAN]
    /\ job \in [Workers -> Job]
    /\ claims \in [Runs -> Nat]

\* The worker is past the claim of run r.
Works(w, r) == job[w].run = r /\ job[w].pc \notin {"idle", "claim"}

\* However many tasks are published for a run, handed out twice or left over
\* after a stale save, the pipeline of a run starts at most once (tasks.py: the
\* claim under select_for_update).
AtMostOnePipeline == \A r \in Runs : claims[r] <= 1

\* A run shown as done has every event of its document stored, each with its
\* result, and its progress says so (_results_url shows it to the operator).
DoneIsComplete ==
    \A r \in rows : row[r].status = "done" =>
        /\ row[r].started /\ row[r].finished
        /\ paras[r] = row[r].total /\ results[r] = row[r].total
        /\ row[r].done = row[r].total

\* The progress shown never runs ahead of the results stored, for a run of any
\* status (progress_callback is called after AnalysisResult.objects.create).
ProgressIsBacked == \A r \in rows : row[r].done <= results[r]

\* The upload of a run stays on storage until its pipeline has ended or its row
\* is gone, whatever other requests and leftover tasks do meanwhile.
UploadIsKept ==
    \A r \in rows : (~row[r].started \/ \E w \in Workers : Works(w, r))
                       => r \in uploads

\* A deleted run never comes back: no handler and no task that still holds the
\* object can insert its row again.
DeletedStaysDeleted ==
    [][\A r \in Runs : r \notin rows /\ r \notin fresh => r \notin rows']_vars

\* Once a run is shown as done or failed its stored results do not change any
\* more, except that deleting the run removes them.
OutcomeFreezesResults ==
    [][\A r \in rows \cap rows' : row[r].status \in {"done", "failed"} =>
          paras'[r] = paras[r] /\ results'[r] = results[r]]_vars

\* Only the delete handler of the run itself removes a run that was started:
\* delete-all, which listed the pending runs earlier, spares it.
DeleteAllSparesStarted ==
    [][\A r \in rows \ rows' : row[r].started =>
          \E q \in Requests : /\ req[q].kind = "delete" /\ req[q].run = r
                              /\ req[q].pc = "delete_row"]_vars

\* A run stays pending while start-all hands it to the broker: nothing that
\* read it earlier gets in between the check under the lock and the commit.
StartAllHoldsPending ==
    \A q \in Requests : req[q].pc \in {"all_publish", "all_commit"} =>
        req[q].run \in Pending

\* The upload of a deleted run does not stay on storage once the handler that
\* deleted the run is over.
NoOrphanUpload ==
    \A r \in Runs \ (rows \cup fresh) :
        r \in uploads => \E q \in Requests : req[q].pc = "unlink" /\ req[q].run = r

Queued(r) == r \in rows /\ row[r].status = "queued"
Settled(r) == r \notin rows \/ row[r].status \in {"done", "failed", "canceled"}

\* The requests that are starting run r, or have published a task for it.
Starters(r) == {q \in Requests : \/ req[q].kind = "start" /\ req[q].run = r
                                 \/ <<q, r>> \in sent}

\* A run queued by one request ends done, failed, canceled or deleted, whatever
\* cancel, delete, delete-all and other start-all requests overlap with it.
QueuedOnceSettles ==
    \A r \in Runs : Queued(r) ~> (Settled(r) \/ Cardinality(Starters(r)) > 1)

\* The upload of every started run is removed in the end, by the task or with
\* the run, if the deployment deletes uploads at all.
UploadsAreReclaimed ==
    \A r \in Runs : (DeleteUploads /\ claims[r] > 0) ~> r \notin uploads

\* What the tests and the README say of the program, and the code does not do.

\* The queue page can be polled while a run waits: the payload of every listed
\* run has a time of its last update (AnalysisQueueStatusView: "updated_at").
QueueStatusAnswers ==
    \A r \in rows : row[r].status \in {"queued", "running", "done", "failed"}
                       => row[r].progressAt

\* The cancel handler leaves a run that is queued, running or done as it is.
CancelOnlyPending ==
    [][\A r \in rows \cap rows' :
          row[r].status \in {"queued", "running", "done"}
            => row'[r].status # "canceled"]_vars

\* A queued run is worked on until it ends.
QueuedSettles == \A r \in Runs : Queued(r) ~> Settled(r)

-----------------------------------------------------------------------------
(* What the queue promises for each run, and how its state shows it. *)

Phase(r) == IF r \in fresh THEN "absent"
            ELSE IF r \notin rows THEN "removed"
            ELSE IF ~row[r].started THEN "waiting"
            ELSE IF \E w \in Workers : Works(w, r) THEN "working"
            ELSE "ended"

Promise == INSTANCE RunJob WITH phase <- [r \in Runs |-> Phase(r)],
                                stored <- results

\* Every behaviour of the queue is one of RunJob: a run is worked on once, its
\* results are stored only meanwhile, and removal is final.
ImplementsRunJob == Promise!Spec

=============================================================================
