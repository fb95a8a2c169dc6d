--------------------------- MODULE RunQueue_proofs ---------------------------
(***************************************************************************)
(* Proofs about RunQueue, for any number of runs, requests and workers,    *)
(* every set of handlers and every set of faults.                          *)
(***************************************************************************)
EXTENDS RunQueue, TLAPS

-----------------------------------------------------------------------------
(* Types.  A handler past its first read and a busy worker know their run. *)

TableTyped ==
    /\ fresh \subseteq Runs /\ rows \subseteq Runs
    /\ row \in [Runs -> Row]
    /\ paras \in [Runs -> Nat] /\ results \in [Runs -> Nat]
    /\ uploads \subseteq Runs
    /\ claims \in [Runs -> Nat]

QueueTyped ==
    /\ broker \subseteq Task /\ sent \subseteq Task /\ revoked \subseteq Task
    /\ control \subseteq [task : Task, terminate : BOOLEAN]

HasRun(pc) == pc \notin {"ready", "over", "start_all", "delete_all"}

ReqTyped ==
    /\ req \in [Requests -> Req]
    /\ \A q \in Requests :
         /\ HasRun(req[q].pc) => req[q].run \in Runs
         /\ req[q].pc = "revoke" => req[q].seen.task \in Task
         /\ req[q].pc \in {"revoke", "delete_row"} => req[q].kind = "delete"

JobTyped ==
    /\ job \in [Workers -> Job]
    /\ \A w \in Workers :
         job[w].pc # "idle" => job[w].run \in Runs /\ job[w].task \in Task

Typed == TableTyped /\ QueueTyped /\ ReqTyped /\ JobTyped

LEMMA TypedInit == Init => Typed
BY RunQueueAssumption
   DEF Init, Typed, TableTyped, QueueTyped, ReqTyped, JobTyped, HasRun,
       Row, CreatedRow, Status, Req, ReadyReq, ReqPc, Seen, NothingSeen,
       Job, IdleJob, JobPc

LEMMA CreatedRowTyped == CreatedRow \in Row
BY DEF CreatedRow, Row, Status

LEMMA TypedIsTypeOK == Typed => TypeOK
BY DEF Typed, TableTyped, QueueTyped, ReqTyped, JobTyped, TypeOK

\* A handler goes on at another place with the run it has.
LEMMA GoToTyped ==
  ASSUME ReqTyped, NEW q \in Requests, NEW pc \in ReqPc, GoTo(q, pc),
         HasRun(pc) => req[q].run \in Runs, pc # "revoke",
         pc = "delete_row" => req[q].kind = "delete"
  PROVE  ReqTyped'
BY DEF ReqTyped, GoTo, Req

LEMMA OverTyped ==
  ASSUME ReqTyped, NEW q \in Requests, Over(q)
  PROVE  ReqTyped'
BY RunQueueAssumption
   DEF ReqTyped, Over, OverReq, ReadyReq, NothingSeen, Req, ReqPc, Seen, HasRun

LEMMA StepTyped ==
  ASSUME JobTyped, NEW w \in Workers, NEW pc \in JobPc, Step(w, pc),
         job[w].pc # "idle"
  PROVE  JobTyped'
BY DEF JobTyped, Step, Job

LEMMA QuitTyped ==
  ASSUME JobTyped, NEW w \in Workers, Quit(w)
  PROVE  JobTyped'
BY DEF JobTyped, Quit, Job, IdleJob, JobPc

LEMMA ThrownTyped ==
  ASSUME JobTyped, NEW w \in Workers, Thrown(w), job[w].pc # "idle"
  PROVE  JobTyped'
BY StepTyped, QuitTyped DEF Thrown, JobPc

LEMMA StopTyped ==
  ASSUME JobTyped, NEW stopped, Stop(stopped)
  PROVE  JobTyped'
BY DEF JobTyped, Stop, Job, IdleJob, JobPc

LEMMA TypedNext == Typed /\ [Next]_vars => Typed'
<1> SUFFICES ASSUME Typed, [Next]_vars PROVE Typed'
  OBVIOUS
<1> USE DEF Typed
<1>1. ASSUME NEW r \in Runs, Upload(r) PROVE Typed'
  BY <1>1 DEF Upload, queue, TableTyped, QueueTyped, ReqTyped, JobTyped
<1>2. ASSUME NEW q \in Requests, NEW r \in Runs, StartRead(q, r) PROVE Typed'
  BY <1>2 DEF StartRead, Begin, Req, ReqPc, HandlerKinds, table, queue,
              TableTyped, QueueTyped, ReqTyped, JobTyped
<1>3. ASSUME NEW q \in Requests, StartSave(q) PROVE Typed'
  <2>1. req[q].run \in Runs
    BY <1>3 DEF StartSave, ReqTyped, HasRun
  <2>2. ReqTyped'
    BY <1>3, <2>1, GoToTyped, OverTyped DEF StartSave, ReqPc
  <2>3. TableTyped'
    BY <1>3, <2>1 DEF StartSave, TableTyped, Row, Status
  <2> QED BY <1>3, <2>2, <2>3 DEF StartSave, queue, QueueTyped, JobTyped
<1>4. ASSUME NEW q \in Requests, StartPublish(q) PROVE Typed'
  <2>1. req[q].run \in Runs
    BY <1>4 DEF StartPublish, ReqTyped, HasRun
  <2>2. ReqTyped'
    BY <1>4, <2>1, GoToTyped DEF StartPublish, Publish, ReqPc
  <2> QED BY <1>4, <2>1, <2>2
          DEF StartPublish, Publish, Task, table, TableTyped, QueueTyped, JobTyped
<1>5. ASSUME NEW q \in Requests, PublishFails(q) PROVE Typed'
  BY <1>5, OverTyped DEF PublishFails, table, queue, TableTyped, QueueTyped, JobTyped
<1>6. ASSUME NEW q \in Requests, StartTask(q) PROVE Typed'
  <2>1. ReqTyped'
    BY <1>6, OverTyped DEF StartTask
  <2>2. row' \in [Runs -> Row]
    <3>1. CASE req[q].run \in rows
      <4>1. <<q, req[q].run>> \in Task /\ row[req[q].run] \in Row
        BY <3>1 DEF Task, TableTyped
      <4>2. [row[req[q].run] EXCEPT !.task = <<q, req[q].run>>] \in Row
        BY <4>1 DEF Row
      <4>3. row' = [row EXCEPT ![req[q].run] =
                                 [row[req[q].run] EXCEPT !.task = <<q, req[q].run>>]]
        BY <1>6, <3>1 DEF StartTask
      <4> QED BY <4>2, <4>3 DEF TableTyped
    <3>2. CASE req[q].run \notin rows
      BY <1>6, <3>2 DEF StartTask, TableTyped
    <3> QED BY <3>1, <3>2
  <2> QED BY <1>6, <2>1, <2>2 DEF StartTask, queue, TableTyped, QueueTyped, JobTyped
<1>7. ASSUME NEW q \in Requests, NEW r \in Runs, CancelRead(q, r) PROVE Typed'
  BY <1>7 DEF CancelRead, Begin, Req, ReqPc, HandlerKinds, table, queue,
              TableTyped, QueueTyped, ReqTyped, JobTyped
<1>8. ASSUME NEW q \in Requests, CancelSave(q) PROVE Typed'
  <2>1. ReqTyped'
    BY <1>8, OverTyped DEF CancelSave
  <2>2. row' \in [Runs -> Row]
    BY <1>8 DEF CancelSave, Row, Status, TableTyped
  <2> QED BY <1>8, <2>1, <2>2 DEF CancelSave, queue, TableTyped, QueueTyped, JobTyped
<1>9. ASSUME NEW q \in Requests, NEW kind \in {"start_all", "delete_all"},
             ListPending(q, kind)
      PROVE  Typed'
  <2>1. /\ kind \in HandlerKinds /\ kind \in ReqPc
        /\ ~HasRun(kind) /\ kind # "revoke" /\ Pending \in SUBSET Runs
    BY DEF HandlerKinds, ReqPc, HasRun, Pending, TableTyped
  <2>2. ReqTyped'
    BY <1>9, <2>1 DEF ListPending, ReqTyped, Req
  <2> QED BY <1>9, <2>2
          DEF ListPending, table, queue, TableTyped, QueueTyped, JobTyped
<1>10. ASSUME NEW q \in Requests, NEW r \in Runs, StartAllLock(q, r) PROVE Typed'
  <2>1. ReqTyped'
    BY <1>10, OverTyped DEF StartAllLock, ReqTyped, Req, ReqPc, HasRun
  <2> QED BY <1>10, <2>1
          DEF StartAllLock, table, queue, TableTyped, QueueTyped, JobTyped
<1>11. ASSUME NEW q \in Requests, StartAllPublish(q) PROVE Typed'
  <2>1. req[q].run \in Runs
    BY <1>11 DEF StartAllPublish, ReqTyped, HasRun
  <2>2. ReqTyped'
    BY <1>11, <2>1, GoToTyped DEF StartAllPublish, Publish, ReqPc
  <2> QED BY <1>11, <2>1, <2>2
          DEF StartAllPublish, Publish, Task, table, TableTyped, QueueTyped, JobTyped
<1>12. ASSUME NEW q \in Requests, StartAllCommit(q) PROVE Typed'
  <2>1. req[q].run \in Runs
    BY <1>12 DEF StartAllCommit, ReqTyped, HasRun
  <2>2. ReqTyped'
    BY <1>12, <2>1, GoToTyped DEF StartAllCommit, ReqPc
  <2> QED BY <1>12, <2>1, <2>2
          DEF StartAllCommit, Task, Row, Status, queue, TableTyped, QueueTyped, JobTyped
<1>13. ASSUME NEW q \in Requests, LoopEnd(q) PROVE Typed'
  BY <1>13, OverTyped DEF LoopEnd, table, queue, TableTyped, QueueTyped, JobTyped
<1>14. ASSUME NEW q \in Requests, NEW r \in Runs, DeleteAllRow(q, r) PROVE Typed'
  <2>1. ReqTyped'
    BY <1>14 DEF DeleteAllRow, ReqTyped, Req, ReqPc, HasRun
  <2>2. TableTyped'
    BY <1>14, CreatedRowTyped DEF DeleteAllRow, DeleteCascade, TableTyped
  <2> QED BY <1>14, <2>1, <2>2 DEF DeleteAllRow, queue, QueueTyped, JobTyped
<1>15. ASSUME NEW q \in Requests, NEW r \in Runs, DeleteRead(q, r) PROVE Typed'
  <2>1. ReqTyped'
    BY <1>15 DEF DeleteRead, ReqTyped, TableTyped, Row, Req, ReqPc, Seen,
                 HandlerKinds, HasRun
  <2> QED BY <1>15, <2>1
          DEF DeleteRead, table, queue, TableTyped, QueueTyped, JobTyped
<1>16. ASSUME NEW q \in Requests, Revoke(q) PROVE Typed'
  <2>1. /\ req[q].run \in Runs /\ req[q].seen \in Seen
        /\ req[q].seen.task \in Task /\ req[q].kind = "delete"
    BY <1>16 DEF Revoke, ReqTyped, HasRun, Req
  <2>2. ReqTyped'
    BY <1>16, <2>1, GoToTyped DEF Revoke, ReqPc
  <2> QED BY <1>16, <2>1, <2>2
          DEF Revoke, Seen, table, TableTyped, QueueTyped, JobTyped
<1>17. ASSUME NEW q \in Requests, DeleteRow(q) PROVE Typed'
  <2>1. req[q].run \in Runs
    BY <1>17 DEF DeleteRow, ReqTyped, HasRun
  <2>2. ReqTyped'
    BY <1>17, <2>1, GoToTyped, OverTyped DEF DeleteRow, ReqPc
  <2>3. TableTyped'
    BY <1>17, <2>1, CreatedRowTyped DEF DeleteRow, DeleteCascade, TableTyped
  <2> QED BY <1>17, <2>2, <2>3 DEF DeleteRow, queue, QueueTyped, JobTyped
<1>18. ASSUME NEW q \in Requests, Unlink(q) PROVE Typed'
  <2>1. ReqTyped'
    BY <1>18, GoToTyped, OverTyped DEF Unlink, ReqPc, HasRun
  <2> QED BY <1>18, <2>1 DEF Unlink, table, queue, TableTyped, QueueTyped, JobTyped
<1>19. ASSUME NEW q \in Requests, Abort(q) PROVE Typed'
  BY <1>19, OverTyped DEF Abort, table, queue, TableTyped, QueueTyped, JobTyped
<1>20. ASSUME NEW w \in Workers, NEW t \in Task, Receive(w, t) PROVE Typed'
  <2>1. JobTyped'
    BY <1>20 DEF Receive, JobTyped, Job, JobPc, IdleJob, Task
  <2> QED BY <1>20, <2>1 DEF Receive, table, TableTyped, QueueTyped, ReqTyped
<1>21. ASSUME NEW c \in control, ReceiveRevoke(c) PROVE Typed'
  BY <1>21, StopTyped
     DEF ReceiveRevoke, table, TableTyped, QueueTyped, ReqTyped
<1>22. ASSUME NEW w \in Workers, Crash(w) PROVE Typed'
  BY <1>22, StopTyped DEF Crash, table, queue, TableTyped, QueueTyped, ReqTyped
<1>23. CASE Restart
  BY <1>23, StopTyped DEF Restart, table, TableTyped, QueueTyped, ReqTyped
<1>24. ASSUME NEW w \in Workers, Claim(w) PROVE Typed'
  <2>1. job[w].pc # "idle" /\ job[w].run \in Runs /\ job[w].task \in Task
    BY <1>24 DEF Claim, At, JobTyped
  <2>2. JobTyped'
    BY <1>24, <2>1, StepTyped, QuitTyped DEF Claim, Skip, JobPc
  <2>3. row' \in [Runs -> Row]
    <3>1. row[job[w].run] \in Row
      BY <2>1 DEF TableTyped
    <3>2. [row[job[w].run] EXCEPT !.task = job[w].task, !.status = "running",
                                  !.started = TRUE, !.progressAt = TRUE,
                                  !.total = 0, !.done = 0] \in Row
      BY <2>1, <3>1 DEF Row, Status
    <3> QED BY <1>24, <2>1, <3>2 DEF Claim, TableTyped
  <2>4. claims' \in [Runs -> Nat]
    BY <1>24, <2>1 DEF Claim, TableTyped
  <2> QED BY <1>24, <2>2, <2>3, <2>4 DEF Claim, queue, TableTyped, QueueTyped, ReqTyped
<1>25. ASSUME NEW w \in Workers, ReadFlag(w) PROVE Typed'
  <2>1. JobTyped'
    BY <1>25, QuitTyped, RunQueueAssumption DEF ReadFlag, At, JobTyped, Job, JobPc
  <2> QED BY <1>25, <2>1 DEF ReadFlag, table, queue, TableTyped, QueueTyped, ReqTyped
<1>26. ASSUME NEW w \in Workers, Raise(w) PROVE Typed'
  BY <1>26, ThrownTyped, QuitTyped
     DEF Raise, table, queue, TableTyped, QueueTyped, ReqTyped
<1>27. ASSUME NEW w \in Workers, Parse(w) PROVE Typed'
  <2>1. job[w].run \in Runs
    BY <1>27 DEF Parse, At, JobTyped
  <2>2. CASE UNCHANGED row /\ Thrown(w)
    BY <1>27, <2>2, ThrownTyped
       DEF Parse, At, queue, TableTyped, QueueTyped, ReqTyped
  <2>3. ASSUME NEW n \in 0..MaxEvents,
               job' = [job EXCEPT ![w].pc = "paragraph", ![w].size = n],
               row' = [row EXCEPT ![job[w].run] =
                                    [@ EXCEPT !.total = n, !.done = 0]]
        PROVE  Typed'
    <3>1. n \in Nat
      BY RunQueueAssumption
    <3>2. JobTyped'
      <4>1. /\ job[w] \in Job /\ job[w].pc # "idle"
            /\ job[w].run \in Runs /\ job[w].task \in Task
        BY <1>27 DEF Parse, At, JobTyped
      <4>2. [job[w] EXCEPT !.pc = "paragraph", !.size = n] \in Job
        BY <3>1, <4>1 DEF Job, JobPc
      <4>3. job' = [job EXCEPT ![w] = [job[w] EXCEPT !.pc = "paragraph", !.size = n]]
        BY <2>3
      <4>4. /\ job' \in [Workers -> Job]
            /\ job'[w].run = job[w].run /\ job'[w].task = job[w].task
        BY <4>1, <4>2, <4>3 DEF JobTyped, Job
      <4>5. \A v \in Workers \ {w} : job'[v] = job[v]
        BY <4>3 DEF JobTyped
      <4> QED BY <4>1, <4>4, <4>5 DEF JobTyped
    <3>3. row' \in [Runs -> Row]
      BY <2>1, <2>3, <3>1 DEF TableTyped, Row
    <3> QED BY <1>27, <3>2, <3>3
            DEF Parse, queue, TableTyped, QueueTyped, ReqTyped
  <2> QED BY <1>27, <2>2, <2>3 DEF Parse
<1>28. ASSUME NEW w \in Workers, StoreParagraph(w) PROVE Typed'
  <2>1. JobTyped'
    BY <1>28, ThrownTyped, StepTyped DEF StoreParagraph, At, JobPc
  <2>2. TableTyped'
    BY <1>28 DEF StoreParagraph, TableTyped, JobTyped, Job
  <2> QED BY <1>28, <2>1, <2>2 DEF StoreParagraph, queue, QueueTyped, ReqTyped
<1>29. ASSUME NEW w \in Workers, StoreResult(w) PROVE Typed'
  <2>1. JobTyped'
    BY <1>29, ThrownTyped, StepTyped DEF StoreResult, At, JobPc
  <2>2. TableTyped'
    BY <1>29 DEF StoreResult, TableTyped
  <2> QED BY <1>29, <2>1, <2>2 DEF StoreResult, queue, QueueTyped, ReqTyped
<1>30. ASSUME NEW w \in Workers, Progress(w) PROVE Typed'
  <2>1. JobTyped'
    BY <1>30, ThrownTyped DEF Progress, At, JobTyped, Job, JobPc
  <2>2. TableTyped'
    BY <1>30 DEF Progress, Processed, TableTyped, JobTyped, Job, Row
  <2> QED BY <1>30, <2>1, <2>2 DEF Progress, queue, QueueTyped, ReqTyped
<1>31. ASSUME NEW w \in Workers, Finish(w) PROVE Typed'
  <2>1. JobTyped'
    BY <1>31, ThrownTyped, StepTyped DEF Finish, At, JobPc
  <2>2. row' \in [Runs -> Row]
    <3>1. CASE job[w].run \in rows
      <4>1. job[w].size \in Nat /\ row[job[w].run] \in Row
        BY <3>1 DEF TableTyped, JobTyped, Job
      <4>2. [row[job[w].run] EXCEPT !.status = "done", !.finished = TRUE,
                                    !.done = job[w].size] \in Row
        BY <4>1 DEF Row, Status
      <4>3. row' = [row EXCEPT ![job[w].run] =
                      [row[job[w].run] EXCEPT !.status = "done", !.finished = TRUE,
                                              !.done = job[w].size]]
        BY <1>31, <3>1 DEF Finish
      <4> QED BY <4>2, <4>3 DEF TableTyped
    <3>2. CASE job[w].run \notin rows
      BY <1>31, <3>2 DEF Finish, TableTyped
    <3> QED BY <3>1, <3>2
  <2>3. TableTyped'
    BY <1>31, <2>2 DEF Finish, TableTyped
  <2> QED BY <1>31, <2>1, <2>3 DEF Finish, queue, QueueTyped, ReqTyped
<1>32. ASSUME NEW w \in Workers, Package(w) PROVE Typed'
  BY <1>32, ThrownTyped, StepTyped
     DEF Package, At, JobPc, table, queue, TableTyped, QueueTyped, ReqTyped
<1>33. ASSUME NEW w \in Workers, Fail(w) PROVE Typed'
  <2>1. JobTyped'
    BY <1>33, QuitTyped DEF Fail, At, AfterFailure, JobTyped, Job, JobPc
  <2>2. job[w].run \in Runs
    BY <1>33 DEF Fail, At, JobTyped
  <2>3. TableTyped'
    BY <1>33, <2>2 DEF Fail, TableTyped, Row, Status
  <2> QED BY <1>33, <2>1, <2>3 DEF Fail, queue, QueueTyped, ReqTyped
<1>34. ASSUME NEW w \in Workers, Cleanup(w) PROVE Typed'
  BY <1>34, QuitTyped DEF Cleanup, table, queue, TableTyped, QueueTyped, ReqTyped
<1>35. CASE UNCHANGED vars
  BY <1>35 DEF vars, table, queue, TableTyped, QueueTyped, ReqTyped, JobTyped
<1> QED
  BY <1>1, <1>2, <1>3, <1>4, <1>5, <1>6, <1>7, <1>8, <1>9, <1>10, <1>11, <1>12,
     <1>13, <1>14, <1>15, <1>16, <1>17, <1>18, <1>19, <1>20, <1>21, <1>22, <1>23,
     <1>24, <1>25, <1>26, <1>27, <1>28, <1>29, <1>30, <1>31, <1>32, <1>33, <1>34,
     <1>35
     DEF Next, Web, WebBegin, WebStep, Work, Take, WorkStep, Broadcast

\* Every column, counter, handler and worker holds a value of its kind.
THEOREM TypeCorrect == Spec => []TypeOK
<1>1. Spec => []Typed
  BY TypedInit, TypedNext, PTL DEF Spec
<1> QED BY <1>1, TypedIsTypeOK, PTL

-----------------------------------------------------------------------------
(* What a step can do to a run: accept it, start it, store a result of it,  *)
(* remove it, or leave all that alone.  Each fact below is proved from this *)
(* summary, so the actions are gone through once.                           *)

\* A run has one owner: the worker whose claim counted it.
Ownership ==
    /\ \A r \in fresh : r \notin rows /\ claims[r] = 0
    /\ \A r \in Runs \ rows : ~row[r].started
    /\ \A r \in Runs : row[r].status = "created" => ~row[r].started
    /\ \A r \in rows : ~row[r].started => claims[r] = 0
    /\ \A r \in Runs : claims[r] <= 1
    /\ \A w \in Workers, r \in Runs : Works(w, r) => claims[r] = 1
    /\ \A v, w \in Workers, r \in Runs : Works(v, r) /\ Works(w, r) => v = w
    /\ \A q \in Requests : req[q].pc = "unlink" => req[q].run \notin rows \cup fresh

Accepts(r) ==
    /\ r \in fresh
    /\ fresh' = fresh \ {r} /\ rows' = rows \cup {r} /\ uploads' = uploads \cup {r}
    /\ UNCHANGED <<row, results, req, job, claims>>

Starts(w, r) ==
    /\ r \in rows /\ ~row[r].started
    /\ row'[r].started /\ row'[r].status = "running"
    /\ \A s \in Runs \ {r} : row'[s] = row[s]
    /\ claims' = [claims EXCEPT ![r] = @ + 1]
    /\ \A v \in Workers, s \in Runs :
         Works(v, s)' <=> Works(v, s) \/ (v = w /\ s = r)
    /\ UNCHANGED <<fresh, rows, results, uploads, req>>

Removes(q, r) ==
    /\ r \in rows
    /\ \/ ~row[r].started
       \/ req[q].kind = "delete" /\ req[q].run = r /\ req[q].pc = "delete_row"
    /\ rows' = rows \ {r}
    /\ row' = [row EXCEPT ![r] = CreatedRow]
    /\ results' = [results EXCEPT ![r] = 0]
    /\ \A p \in Requests : req'[p].pc = "unlink" =>
         \/ req[p].pc = "unlink" /\ req'[p].run = req[p].run
         \/ req'[p].run = r
    /\ UNCHANGED <<fresh, uploads, job, claims>>

\* Nobody is accepted, started or removed; an upload goes with its owner's work.
Calm ==
    /\ UNCHANGED <<fresh, rows, claims>>
    /\ \A r \in Runs : /\ row'[r].started = row[r].started
                       /\ row'[r].status = "created" => row[r].status = "created"
    /\ \A w \in Workers, r \in Runs : Works(w, r)' => Works(w, r)
    /\ \A r \in rows : r \in uploads /\ r \notin uploads' =>
         \E w \in Workers : Works(w, r) /\ ~Works(w, r)'
    /\ \A q \in Requests : req'[q].pc = "unlink" =>
         req[q].pc = "unlink" /\ req'[q].run = req[q].run

Stores(w, r) ==
    /\ Works(w, r) /\ r \in rows
    /\ results' = [results EXCEPT ![r] = @ + 1]
    /\ \A v \in Workers, s \in Runs : Works(v, s)' <=> Works(v, s)
    /\ Calm

Effect ==
    \/ \E r \in Runs : Accepts(r)
    \/ \E w \in Workers, r \in Runs : Starts(w, r) \/ Stores(w, r)
    \/ \E q \in Requests, r \in Runs : Removes(q, r)
    \/ Calm /\ UNCHANGED results

LEMMA StepWorks ==
  ASSUME JobTyped, NEW w \in Workers, NEW pc \in JobPc, Step(w, pc),
         job[w].pc \notin {"idle", "claim"}, pc \notin {"idle", "claim"}
  PROVE  \A v \in Workers, r \in Runs : Works(v, r)' <=> Works(v, r)
BY DEF JobTyped, Step, Works, Job

LEMMA QuitWorks ==
  ASSUME JobTyped, NEW w \in Workers, Quit(w)
  PROVE  \A v \in Workers, r \in Runs : Works(v, r)' <=> Works(v, r) /\ v # w
BY DEF JobTyped, Quit, Works, IdleJob, Job

LEMMA ThrownWorks ==
  ASSUME JobTyped, NEW w \in Workers, Thrown(w), job[w].pc \notin {"idle", "claim"}
  PROVE  \A v \in Workers, r \in Runs : Works(v, r)' => Works(v, r)
<1>1. "handler" \in JobPc
  BY DEF JobPc
<1> QED BY <1>1, StepWorks, QuitWorks DEF Thrown

LEMMA StopWorks ==
  ASSUME JobTyped, NEW stopped, Stop(stopped)
  PROVE  \A v \in Workers, r \in Runs : Works(v, r)' => Works(v, r)
BY DEF JobTyped, Stop, Works, IdleJob, Job

LEMMA OverUnlinks ==
  ASSUME ReqTyped, NEW q \in Requests, Over(q)
  PROVE  \A p \in Requests : req'[p].pc = "unlink" =>
           req[p].pc = "unlink" /\ req'[p].run = req[p].run
BY DEF ReqTyped, Over, OverReq, ReadyReq

LEMMA GoToUnlinks ==
  ASSUME ReqTyped, NEW q \in Requests, NEW pc \in ReqPc \ {"unlink"}, GoTo(q, pc)
  PROVE  \A p \in Requests : req'[p].pc = "unlink" =>
           req[p].pc = "unlink" /\ req'[p].run = req[p].run
BY DEF ReqTyped, GoTo, Req

LEMMA WebEffect ==
  ASSUME Typed, Ownership, NEW q \in Requests, Web(q)
  PROVE  Effect
<1> USE DEF Typed
<1>1. ASSUME NEW r \in Runs, StartRead(q, r) PROVE Effect
  BY <1>1 DEF StartRead, Begin, Effect, Calm, Works, ReqTyped, Req, table, queue
<1>2. CASE StartSave(q)
  BY <1>2, OverUnlinks, GoToUnlinks
     DEF StartSave, ReqPc, Effect, Calm, Works, TableTyped, Row, queue
<1>3. CASE StartPublish(q) \/ StartAllPublish(q)
  BY <1>3, GoToUnlinks
     DEF StartPublish, StartAllPublish, Publish, ReqPc, Effect, Calm, Works, table
<1>4. CASE PublishFails(q) \/ LoopEnd(q) \/ Abort(q)
  BY <1>4, OverUnlinks
     DEF PublishFails, LoopEnd, Abort, Effect, Calm, Works, table, queue
<1>5. CASE StartTask(q)
  BY <1>5, OverUnlinks DEF StartTask, Effect, Calm, Works, TableTyped, Row, queue
<1>6. ASSUME NEW r \in Runs, CancelRead(q, r) PROVE Effect
  BY <1>6 DEF CancelRead, Begin, Effect, Calm, Works, ReqTyped, Req, table, queue
<1>7. CASE CancelSave(q)
  BY <1>7, OverUnlinks DEF CancelSave, Effect, Calm, Works, TableTyped, Row, queue
<1>8. ASSUME NEW kind \in {"start_all", "delete_all"}, ListPending(q, kind)
      PROVE  Effect
  BY <1>8 DEF ListPending, Effect, Calm, Works, ReqTyped, Req, table, queue
<1>9. ASSUME NEW r \in Runs, StartAllLock(q, r) PROVE Effect
  <2>1. \A p \in Requests : req'[p].pc = "unlink" =>
           req[p].pc = "unlink" /\ req'[p].run = req[p].run
    BY <1>9, OverUnlinks DEF StartAllLock, ReqTyped, Req
  <2> QED BY <1>9, <2>1 DEF StartAllLock, Effect, Calm, Works, table, queue
<1>10. CASE StartAllCommit(q)
  BY <1>10, GoToUnlinks
     DEF StartAllCommit, ReqPc, Effect, Calm, Works, TableTyped, Row, queue
<1>11. ASSUME NEW r \in Runs, DeleteAllRow(q, r) PROVE Effect
  <2>1. CASE r \in rows /\ StillPending(r)
    <3>1. Removes(q, r)
      BY <1>11, <2>1
         DEF DeleteAllRow, DeleteCascade, StillPending, Removes, Ownership,
             ReqTyped, Req, queue
    <3> QED BY <3>1 DEF Effect
  <2>2. CASE ~(r \in rows /\ StillPending(r))
    BY <1>11, <2>2 DEF DeleteAllRow, Effect, Calm, Works, ReqTyped, Req, queue
  <2> QED BY <2>1, <2>2
<1>12. ASSUME NEW r \in Runs, DeleteRead(q, r) PROVE Effect
  BY <1>12 DEF DeleteRead, Effect, Calm, Works, ReqTyped, Req, table, queue
<1>13. CASE Revoke(q)
  BY <1>13, GoToUnlinks DEF Revoke, ReqPc, Effect, Calm, Works, table
<1>14. CASE DeleteRow(q)
  <2> DEFINE r == req[q].run
  <2>1. CASE r \in rows
    <3>1. r \in Runs
      BY <2>1 DEF TableTyped
    <3>2. req[q].kind = "delete"
      BY <1>14 DEF DeleteRow, ReqTyped
    <3>3. Removes(q, r)
      BY <1>14, <2>1, <3>2
         DEF DeleteRow, DeleteCascade, Removes, GoTo, ReqTyped, Req, queue
    <3> QED BY <3>1, <3>3 DEF Effect
  <2>2. CASE r \notin rows
    BY <1>14, <2>2, OverUnlinks DEF DeleteRow, Effect, Calm, Works, queue
  <2> QED BY <2>1, <2>2
<1>15. CASE Unlink(q)
  <2>1. req[q].run \notin rows
    BY <1>15 DEF Unlink, Ownership
  <2>2. \A p \in Requests : req'[p].pc = "unlink" =>
           req[p].pc = "unlink" /\ req'[p].run = req[p].run
    BY <1>15, OverUnlinks, GoToUnlinks DEF Unlink, ReqPc
  <2> QED BY <1>15, <2>1, <2>2 DEF Unlink, Effect, Calm, Works, table, queue
<1> QED
  BY <1>1, <1>2, <1>3, <1>4, <1>5, <1>6, <1>7, <1>8, <1>9, <1>10, <1>11, <1>12,
     <1>13, <1>14, <1>15
     DEF Web, WebBegin, WebStep

\* What a worker's step leaves alone, unless it stores a result or starts a run.
LEMMA WorkerCalm ==
  ASSUME Typed, Ownership,
         UNCHANGED <<fresh, rows, claims, uploads, req>>,
         \A r \in Runs : /\ row'[r].started = row[r].started
                         /\ row'[r].status = "created" => row[r].status = "created",
         \A w \in Workers, r \in Runs : Works(w, r)' => Works(w, r)
  PROVE  Calm
BY DEF Calm

LEMMA WorkEffect ==
  ASSUME Typed, Ownership, NEW w \in Workers, Work(w)
  PROVE  Effect
<1> USE DEF Typed
<1>1. ASSUME NEW t \in Task, Receive(w, t) PROVE Effect
  <2>1. \A v \in Workers, r \in Runs : Works(v, r)' => Works(v, r)
    BY <1>1 DEF Receive, JobTyped, Job, Works, IdleJob
  <2> QED BY <1>1, <2>1, WorkerCalm DEF Receive, Effect, table
<1>2. CASE Claim(w)
  <2> DEFINE r == job[w].run
  <2>1. r \in Runs /\ job[w].pc = "claim"
    BY <1>2 DEF Claim, At, JobTyped
  <2>2. CASE Claimable(r)
    <3>1. \A v \in Workers, s \in Runs :
             Works(v, s)' <=> Works(v, s) \/ (v = w /\ s = r)
      BY <1>2, <2>1, <2>2 DEF Claim, Step, JobTyped, Job, Works
    <3>2. row[r] \in Row
      BY <2>1 DEF TableTyped
    <3>3. row'[r].started /\ row'[r].status = "running"
      <4>1. row'[r] = [row[r] EXCEPT
                         !.task = job[w].task, !.status = "running",
                         !.started = TRUE, !.progressAt = TRUE,
                         !.total = 0, !.done = 0]
        BY <1>2, <2>1, <2>2 DEF Claim, TableTyped
      <4> QED BY <3>2, <4>1 DEF Row
    <3>4. Starts(w, r)
      BY <1>2, <2>1, <2>2, <3>1, <3>3 DEF Claim, Claimable, Starts, TableTyped
    <3> QED BY <2>1, <3>4 DEF Effect
  <2>3. CASE ~Claimable(r)
    BY <1>2, <2>3, QuitWorks, WorkerCalm DEF Claim, Skip, Effect
  <2> QED BY <2>2, <2>3
<1>3. CASE ReadFlag(w)
  <2>1. \A v \in Workers, r \in Runs : Works(v, r)' => Works(v, r)
    BY <1>3, QuitWorks DEF ReadFlag, At, JobTyped, Job, Works
  <2> QED BY <1>3, <2>1, WorkerCalm DEF ReadFlag, Effect, table
<1>4. CASE Raise(w)
  <2>1. \A v \in Workers, r \in Runs : Works(v, r)' => Works(v, r)
    BY <1>4, QuitWorks, ThrownWorks DEF Raise
  <2> QED BY <1>4, <2>1, WorkerCalm DEF Raise, Effect, table
<1>5. CASE Parse(w)
  <2>1. CASE Thrown(w) /\ UNCHANGED row
    BY <1>5, <2>1, ThrownWorks, WorkerCalm DEF Parse, At, Effect
  <2>2. ASSUME NEW n \in 0..MaxEvents,
               job' = [job EXCEPT ![w].pc = "paragraph", ![w].size = n],
               row' = [row EXCEPT ![job[w].run] =
                                    [@ EXCEPT !.total = n, !.done = 0]]
        PROVE  Effect
    <3>1. \A v \in Workers, r \in Runs : Works(v, r)' => Works(v, r)
      BY <1>5, <2>2 DEF Parse, At, JobTyped, Job, Works
    <3>2. \A r \in Runs : /\ row'[r].started = row[r].started
                          /\ row'[r].status = row[r].status
      BY <2>2 DEF TableTyped, Row
    <3> QED BY <1>5, <3>1, <3>2, WorkerCalm DEF Parse, Effect
  <2> QED BY <1>5, <2>1, <2>2 DEF Parse
<1>6. CASE StoreParagraph(w)
  <2>1. \A v \in Workers, r \in Runs : Works(v, r)' => Works(v, r)
    BY <1>6, StepWorks, ThrownWorks DEF StoreParagraph, At, JobPc
  <2> QED BY <1>6, <2>1, WorkerCalm DEF StoreParagraph, Effect
<1>7. CASE StoreResult(w)
  <2> DEFINE r == job[w].run
  <2>1. r \in Runs /\ Works(w, r)
    BY <1>7 DEF StoreResult, At, JobTyped, Works
  <2>2. CASE r \in rows
    <3>1. \A v \in Workers, s \in Runs : Works(v, s)' <=> Works(v, s)
      BY <1>7, <2>2, StepWorks DEF StoreResult, At, JobPc
    <3>2. Calm
      BY <1>7, <3>1, WorkerCalm DEF StoreResult
    <3> QED BY <1>7, <2>1, <2>2, <3>1, <3>2 DEF StoreResult, Stores, Effect
  <2>3. CASE r \notin rows
    BY <1>7, <2>3, ThrownWorks, WorkerCalm DEF StoreResult, At, Effect
  <2> QED BY <2>2, <2>3
<1>8. CASE Progress(w)
  <2>1. \A v \in Workers, r \in Runs : Works(v, r)' => Works(v, r)
    BY <1>8, ThrownWorks DEF Progress, At, JobTyped, Job, Works
  <2>2. \A r \in Runs : /\ row'[r].started = row[r].started
                        /\ row'[r].status = row[r].status
    BY <1>8 DEF Progress, TableTyped, Row
  <2> QED BY <1>8, <2>1, <2>2, WorkerCalm DEF Progress, Effect
<1>9. CASE Finish(w)
  <2>1. \A v \in Workers, r \in Runs : Works(v, r)' => Works(v, r)
    BY <1>9, StepWorks, ThrownWorks DEF Finish, At, JobPc
  <2>2. \A r \in Runs : /\ row'[r].started = row[r].started
                        /\ row'[r].status = "created" => row[r].status = "created"
    BY <1>9 DEF Finish, TableTyped, Row
  <2> QED BY <1>9, <2>1, <2>2, WorkerCalm DEF Finish, Effect
<1>10. CASE Package(w)
  <2>1. \A v \in Workers, r \in Runs : Works(v, r)' => Works(v, r)
    BY <1>10, StepWorks, ThrownWorks DEF Package, At, JobPc
  <2> QED BY <1>10, <2>1, WorkerCalm DEF Package, Effect, table
<1>11. CASE Fail(w)
  <2>1. \A v \in Workers, r \in Runs : Works(v, r)' => Works(v, r)
    BY <1>11, QuitWorks DEF Fail, AfterFailure, At, JobTyped, Job, Works
  <2>2. \A r \in Runs : /\ row'[r].started = row[r].started
                        /\ row'[r].status = "created" => row[r].status = "created"
    BY <1>11 DEF Fail, TableTyped, Row
  <2> QED BY <1>11, <2>1, <2>2, WorkerCalm DEF Fail, Effect
<1>12. CASE Cleanup(w)
  <2>1. \A v \in Workers, r \in Runs : Works(v, r)' <=> Works(v, r) /\ v # w
    BY <1>12, QuitWorks DEF Cleanup
  <2>2. \A r \in rows : r \in uploads /\ r \notin uploads' =>
           Works(w, r) /\ ~Works(w, r)'
    BY <1>12, <2>1 DEF Cleanup, At, Works, TableTyped
  <2>3. UNCHANGED <<fresh, rows, row, results, claims, req>>
    BY <1>12 DEF Cleanup, table
  <2> QED BY <2>1, <2>2, <2>3 DEF Calm, Effect
<1>13. CASE Crash(w)
  BY <1>13, StopWorks, WorkerCalm DEF Crash, Effect, table
<1> QED
  BY <1>1, <1>2, <1>3, <1>4, <1>5, <1>6, <1>7, <1>8, <1>9, <1>10, <1>11, <1>12,
     <1>13
     DEF Work, Take, WorkStep

LEMMA NextEffect == Typed /\ Ownership /\ [Next]_vars => Effect
<1> SUFFICES ASSUME Typed, Ownership, [Next]_vars PROVE Effect
  OBVIOUS
<1> USE DEF Typed
<1>1. ASSUME NEW r \in Runs, Upload(r) PROVE Effect
  BY <1>1 DEF Upload, Accepts, Effect
<1>2. ASSUME NEW c \in control, ReceiveRevoke(c) PROVE Effect
  BY <1>2, StopWorks, WorkerCalm DEF ReceiveRevoke, Effect, table
<1>3. CASE Restart
  BY <1>3, StopWorks, WorkerCalm DEF Restart, Effect, table
<1>4. CASE UNCHANGED vars
  BY <1>4 DEF vars, table, Effect, Calm, Works
<1> QED BY <1>1, <1>2, <1>3, <1>4, WebEffect, WorkEffect DEF Next, Broadcast

LEMMA OwnershipInit == Init => Ownership
BY DEF Init, Ownership, CreatedRow, ReadyReq, IdleJob, Works

LEMMA OwnershipNext == Typed /\ Typed' /\ Ownership /\ Effect => Ownership'
<1> SUFFICES ASSUME Typed, Typed', Ownership, Effect PROVE Ownership'
  OBVIOUS
<1> USE DEF Typed, TableTyped, ReqTyped
<1>1. ASSUME NEW r \in Runs, Accepts(r) PROVE Ownership'
  BY <1>1 DEF Accepts, Ownership, Works
<1>2. ASSUME NEW w \in Workers, NEW r \in Runs, Starts(w, r) PROVE Ownership'
  <2>1. claims[r] = 0 /\ claims'[r] = 1
    BY <1>2 DEF Starts, Ownership
  <2>2. \A s \in Runs \ {r} : claims'[s] = claims[s]
    BY <1>2 DEF Starts
  <2>3. \A v \in Workers : ~Works(v, r)
    BY <2>1 DEF Ownership
  <2> QED BY <1>2, <2>1, <2>2, <2>3 DEF Starts, Ownership
<1>3. ASSUME NEW q \in Requests, NEW r \in Runs, Removes(q, r) PROVE Ownership'
  BY <1>3 DEF Removes, Ownership, CreatedRow, Works
<1>4. CASE Calm
  BY <1>4 DEF Calm, Ownership
<1> QED BY <1>1, <1>2, <1>3, <1>4 DEF Effect, Stores

LEMMA Owned == Spec => [](Typed /\ Ownership)
<1>1. Init => Typed /\ Ownership
  BY TypedInit, OwnershipInit
<1>2. Typed /\ Ownership /\ [Next]_vars => Typed' /\ Ownership'
  BY TypedNext, NextEffect, OwnershipNext
<1> QED BY <1>1, <1>2, PTL DEF Spec

\* The pipeline of a run starts at most once, whatever is published, handed out
\* twice or saved late: the claim checks and sets started_at under the row lock.
THEOREM StartsOnce == Spec => []AtMostOnePipeline
<1>1. Ownership => AtMostOnePipeline
  BY DEF Ownership, AtMostOnePipeline
<1> QED BY <1>1, Owned, PTL

\* No write that names its columns brings a deleted row back.
THEOREM DeletedForGood == Spec => DeletedStaysDeleted
<1>1. Typed /\ Ownership /\ [Next]_vars =>
        [\A r \in Runs : r \notin rows /\ r \notin fresh => r \notin rows']_vars
  BY NextEffect DEF Effect, Accepts, Starts, Removes, Calm, Stores
<1> QED BY <1>1, Owned, PTL DEF Spec, DeletedStaysDeleted

\* Delete-all spares every run that has been started since it was listed.
THEOREM DeleteAllSpares == Spec => DeleteAllSparesStarted
<1>1. Typed /\ Ownership /\ [Next]_vars =>
        [\A r \in rows \ rows' : row[r].started =>
           \E q \in Requests : /\ req[q].kind = "delete" /\ req[q].run = r
                               /\ req[q].pc = "delete_row"]_vars
  BY NextEffect DEF Effect, Accepts, Starts, Removes, Calm, Stores
<1> QED BY <1>1, Owned, PTL DEF Spec, DeleteAllSparesStarted

LEMMA UploadIsKeptNext ==
  Typed /\ Ownership /\ UploadIsKept /\ Effect => UploadIsKept'
<1> SUFFICES ASSUME Typed, Ownership, UploadIsKept, Effect,
                    NEW r \in rows',
                    ~row'[r].started \/ \E w \in Workers : Works(w, r)'
             PROVE  r \in uploads'
  BY DEF UploadIsKept
<1> USE DEF Typed, TableTyped
<1>1. ASSUME NEW s \in Runs, Accepts(s) PROVE r \in uploads'
  BY <1>1 DEF Accepts, UploadIsKept, Works
<1>2. ASSUME NEW w \in Workers, NEW s \in Runs, Starts(w, s) PROVE r \in uploads'
  BY <1>2 DEF Starts, UploadIsKept
<1>3. ASSUME NEW q \in Requests, NEW s \in Runs, Removes(q, s) PROVE r \in uploads'
  BY <1>3 DEF Removes, UploadIsKept, Works
<1>4. CASE Calm
  <2>1. r \in rows /\ r \in uploads
    BY <1>4 DEF Calm, UploadIsKept
  <2>2. SUFFICES ASSUME r \notin uploads' PROVE FALSE
    OBVIOUS
  <2>3. PICK w \in Workers : Works(w, r) /\ ~Works(w, r)'
    BY <1>4, <2>1, <2>2 DEF Calm
  <2>4. row[r].started /\ row'[r].started
    BY <1>4, <2>1, <2>3 DEF Calm, Ownership
  <2>5. PICK v \in Workers : Works(v, r)'
    BY <2>4
  <2> QED BY <1>4, <2>1, <2>3, <2>5 DEF Calm, Ownership
<1> QED BY <1>1, <1>2, <1>3, <1>4 DEF Effect, Stores

\* The upload of a run is there until its pipeline has ended: a task that skips
\* its run, or a delete of another run, does not take it away.
THEOREM UploadKept == Spec => []UploadIsKept
<1>1. Init => UploadIsKept
  BY DEF Init, UploadIsKept
<1>2. Typed /\ Ownership /\ UploadIsKept /\ [Next]_vars => UploadIsKept'
  BY NextEffect, UploadIsKeptNext
<1> QED BY <1>1, <1>2, Owned, PTL DEF Spec

\* No file is added, no run removed, and no handler leaves its clean-up undone.
Tidy ==
    /\ UNCHANGED <<fresh, rows>>
    /\ uploads' \subseteq uploads
    /\ \A q \in Requests : req[q].pc = "unlink" =>
         req'[q].pc = "unlink" /\ req'[q].run = req[q].run

LEMMA TidyKeeps ==
  ASSUME NoOrphanUpload, Tidy
  PROVE  NoOrphanUpload'
BY DEF NoOrphanUpload, Tidy

LEMMA TidyReq ==
  ASSUME ReqTyped, NEW q \in Requests, req[q].pc # "unlink",
         \A p \in Requests \ {q} : req'[p] = req[p]
  PROVE  \A p \in Requests : req[p].pc = "unlink" =>
           req'[p].pc = "unlink" /\ req'[p].run = req[p].run
OBVIOUS

LEMMA WebTidy ==
  ASSUME Typed, Ownership, NoOrphanUpload, NEW q \in Requests, Web(q),
         "web_abort" \notin Faults
  PROVE  NoOrphanUpload'
<1> USE DEF Typed
<1>1. CASE UNCHANGED <<fresh, rows, uploads>> /\ req[q].pc # "unlink"
           /\ \A p \in Requests \ {q} : req'[p] = req[p]
  BY <1>1, TidyReq, TidyKeeps DEF Tidy
<1>2. CASE WebBegin(q)
  <2>1. /\ UNCHANGED <<fresh, rows, uploads>> /\ req[q].pc # "unlink"
        /\ \A p \in Requests \ {q} : req'[p] = req[p]
    BY <1>2 DEF WebBegin, StartRead, CancelRead, DeleteRead, ListPending, Begin,
                ReqTyped, table
  <2> QED BY <1>1, <2>1
<1>3. CASE \/ StartSave(q) \/ StartPublish(q) \/ StartTask(q) \/ CancelSave(q)
           \/ StartAllPublish(q) \/ StartAllCommit(q) \/ LoopEnd(q) \/ Revoke(q)
           \/ PublishFails(q) \/ \E r \in Runs : StartAllLock(q, r)
  <2>1. /\ UNCHANGED <<fresh, rows, uploads>> /\ req[q].pc # "unlink"
        /\ \A p \in Requests \ {q} : req'[p] = req[p]
    BY <1>3 DEF StartSave, StartPublish, Publish, StartTask, CancelSave,
                StartAllPublish, StartAllCommit, LoopEnd, Revoke, PublishFails,
                StartAllLock, GoTo, Over, ReqTyped, table
  <2> QED BY <1>1, <2>1
<1>4. ASSUME NEW r \in Runs, rows' = rows \ {r}, UNCHANGED <<fresh, uploads>>,
             req[q].pc # "unlink", \A p \in Requests \ {q} : req'[p] = req[p],
             req'[q].pc = "unlink", req'[q].run = r
      PROVE  NoOrphanUpload'
  <2>1. \A p \in Requests : req[p].pc = "unlink" =>
          req'[p].pc = "unlink" /\ req'[p].run = req[p].run
    BY <1>4, TidyReq
  <2> QED BY <1>4, <2>1 DEF NoOrphanUpload
<1>5. ASSUME NEW r \in Runs, DeleteAllRow(q, r) PROVE NoOrphanUpload'
  <2>1. CASE r \in rows /\ StillPending(r)
    <3>1. /\ rows' = rows \ {r} /\ UNCHANGED <<fresh, uploads>> /\ req[q].pc # "unlink"
          /\ \A p \in Requests \ {q} : req'[p] = req[p]
          /\ req'[q].pc = "unlink" /\ req'[q].run = r
      BY <1>5, <2>1 DEF DeleteAllRow, DeleteCascade, ReqTyped, Req
    <3> QED BY <1>4, <3>1
  <2>2. CASE ~(r \in rows /\ StillPending(r))
    BY <1>1, <1>5, <2>2 DEF DeleteAllRow, ReqTyped
  <2> QED BY <2>1, <2>2
<1>6. CASE DeleteRow(q)
  <2>1. CASE req[q].run \in rows
    <3>1. /\ req[q].run \in Runs
          /\ rows' = rows \ {req[q].run} /\ UNCHANGED <<fresh, uploads>>
          /\ req[q].pc # "unlink" /\ \A p \in Requests \ {q} : req'[p] = req[p]
          /\ req'[q].pc = "unlink" /\ req'[q].run = req[q].run
      BY <1>6, <2>1 DEF DeleteRow, DeleteCascade, GoTo, ReqTyped, Req, TableTyped
    <3> QED BY <1>4, <3>1
  <2>2. CASE req[q].run \notin rows
    BY <1>1, <1>6, <2>2 DEF DeleteRow, Over, ReqTyped
  <2> QED BY <2>1, <2>2
<1>7. CASE Unlink(q)
  <2>1. /\ UNCHANGED <<fresh, rows>> /\ uploads' = uploads \ {req[q].run}
        /\ \A p \in Requests \ {q} : req'[p] = req[p]
    BY <1>7 DEF Unlink, GoTo, Over, ReqTyped, table
  <2> QED BY <2>1 DEF NoOrphanUpload
<1> QED
  BY <1>2, <1>3, <1>5, <1>6, <1>7 DEF Web, WebStep, Abort

\* The upload of a deleted run goes with it: whatever is lost, repeated or killed
\* among the workers, the handler that deleted the row has its file still to remove
\* or has removed it, and nothing stores it again.  A web process that dies between
\* the two leaves it.
THEOREM NoUploadLeft ==
  ASSUME "web_abort" \notin Faults
  PROVE  Spec => []NoOrphanUpload
<1>1. Init => NoOrphanUpload
  BY DEF Init, NoOrphanUpload
<1>2. Typed /\ Ownership /\ NoOrphanUpload /\ [Next]_vars => NoOrphanUpload'
  <2> SUFFICES ASSUME Typed, Ownership, NoOrphanUpload, [Next]_vars
               PROVE  NoOrphanUpload'
    OBVIOUS
  <2>1. ASSUME NEW r \in Runs, Upload(r) PROVE NoOrphanUpload'
    BY <2>1 DEF Upload, NoOrphanUpload
  <2>2. ASSUME NEW w \in Workers, Work(w) PROVE NoOrphanUpload'
    <3>1. Tidy
      BY <2>2 DEF Work, Take, WorkStep, Receive, Claim, ReadFlag, Parse, StoreParagraph,
                  StoreResult, Progress, Finish, Package, Fail, Cleanup, Raise, Crash,
                  table, Tidy
    <3> QED BY <3>1, TidyKeeps
  <2>3. CASE Broadcast \/ Restart \/ UNCHANGED vars
    BY <2>3, TidyKeeps DEF Broadcast, ReceiveRevoke, Restart, vars, table, Tidy
  <2> QED BY <2>1, <2>2, <2>3, WebTidy DEF Next
<1> QED BY <1>1, <1>2, Owned, PTL DEF Spec

-----------------------------------------------------------------------------
(* The queue keeps the promise of RunJob. *)

LEMMA PromiseInit == Init => Promise!Init
BY DEF Init, Promise!Init, Phase

\* What a step does to the phase of one run.
LEMMA PhaseStays ==
  ASSUME NEW r \in Runs,
         (r \in fresh)' <=> r \in fresh, (r \in rows)' <=> r \in rows,
         row'[r].started = row[r].started,
         \A w \in Workers : Works(w, r)' <=> Works(w, r)
  PROVE  Phase(r)' = Phase(r)
BY DEF Phase

LEMMA PromiseNext ==
  Typed /\ Typed' /\ Ownership /\ Effect => [Promise!Next]_(Promise!vars)
<1> SUFFICES ASSUME Typed, Typed', Ownership, Effect
             PROVE  [Promise!Next]_(Promise!vars)
  OBVIOUS
<1> USE DEF Typed, TableTyped
<1>1. ASSUME NEW r \in Runs, Accepts(r) PROVE Promise!Accept(r)
  <2>1. Phase(r) = "absent" /\ Phase(r)' = "waiting"
    BY <1>1 DEF Accepts, Phase, Ownership
  <2>2. \A s \in Runs \ {r} : Phase(s)' = Phase(s)
    BY <1>1, PhaseStays DEF Accepts, Works
  <2> QED BY <1>1, <2>1, <2>2 DEF Accepts, Promise!Accept, Promise!Move
<1>2. ASSUME NEW w \in Workers, NEW r \in Runs, Starts(w, r) PROVE Promise!Start(r)
  <2>1. Phase(r) = "waiting" /\ Phase(r)' = "working"
    BY <1>2 DEF Starts, Phase, Ownership
  <2>2. \A s \in Runs \ {r} : Phase(s)' = Phase(s)
    BY <1>2, PhaseStays DEF Starts
  <2> QED BY <1>2, <2>1, <2>2 DEF Starts, Promise!Start, Promise!Move
<1>3. ASSUME NEW w \in Workers, NEW r \in Runs, Stores(w, r) PROVE Promise!Store(r)
  <2>1. Phase(r) = "working"
    BY <1>3 DEF Stores, Phase, Ownership
  <2>2. \A s \in Runs : Phase(s)' = Phase(s)
    BY <1>3, PhaseStays DEF Stores, Calm
  <2> QED BY <1>3, <2>1, <2>2 DEF Stores, Promise!Store
<1>4. ASSUME NEW q \in Requests, NEW r \in Runs, Removes(q, r)
      PROVE  Promise!Remove(r)
  <2>1. Phase(r) \in {"waiting", "working", "ended"} /\ Phase(r)' = "removed"
    BY <1>4 DEF Removes, Phase, Ownership
  <2>2. \A s \in Runs \ {r} : Phase(s)' = Phase(s)
    BY <1>4, PhaseStays DEF Removes, Works
  <2> QED BY <1>4, <2>1, <2>2 DEF Removes, Promise!Remove, Promise!Move
<1>5. CASE Calm /\ UNCHANGED results
  <2> DEFINE S == {r \in Runs : Phase(r) = "working" /\ Phase(r)' = "ended"}
  <2>1. \A r \in Runs \ S : Phase(r)' = Phase(r)
    BY <1>5 DEF Calm, Phase
  <2>2. CASE S = {}
    BY <1>5, <2>1, <2>2 DEF Promise!vars
  <2>3. CASE S # {}
    <3>1. Promise!End(S)
      BY <1>5, <2>1, <2>3 DEF Promise!End
    <3> QED BY <3>1 DEF Promise!Next
  <2> QED BY <2>2, <2>3
<1> QED BY <1>1, <1>2, <1>3, <1>4, <1>5 DEF Effect, Promise!Next

\* A report is worked on once, stores results only while it is worked on, and
\* is removed for good: the queue implements RunJob under every fault.
THEOREM QueueImplementsRunJob == Spec => ImplementsRunJob
<1>1. Typed /\ Ownership /\ [Next]_vars => [Promise!Next]_(Promise!vars)
  BY TypedNext, NextEffect, PromiseNext
<1> QED BY <1>1, Owned, PromiseInit, PTL DEF Spec, ImplementsRunJob, Promise!Spec

-----------------------------------------------------------------------------
(* Start-all and the row lock. *)

AtLock(q) == req[q].pc \in {"all_publish", "all_commit"}

Locks ==
    /\ \A q \in Requests : AtLock(q) => req[q].run \in Pending
    /\ \A p, q \in Requests :
         AtLock(p) /\ AtLock(q) /\ req[p].run = req[q].run => p = q

\* No lock is taken, and the rows of the locked runs stay as they are.
Unlocking ==
    /\ \A q \in Requests : AtLock(q)' => AtLock(q) /\ req'[q].run = req[q].run
    /\ \A q \in Requests :
         AtLock(q) /\ AtLock(q)' /\ req[q].run \in Pending
           => req[q].run \in Pending'

LEMMA UnlockingLocks == ASSUME Locks, Unlocking PROVE Locks'
BY DEF Locks, Unlocking

LEMMA SameRowsUnlocking ==
  ASSUME \A q \in Requests : AtLock(q)' => AtLock(q) /\ req'[q].run = req[q].run,
         UNCHANGED <<rows, row>>
  PROVE  Unlocking
BY DEF Unlocking, Pending

LEMMA OverLocks ==
  ASSUME ReqTyped, NEW q \in Requests, Over(q)
  PROVE  /\ ~AtLock(q)'
         /\ \A p \in Requests : AtLock(p)' => AtLock(p) /\ req'[p].run = req[p].run
BY DEF ReqTyped, Over, OverReq, ReadyReq, AtLock

LEMMA GoToLocks ==
  ASSUME ReqTyped, NEW q \in Requests, NEW pc \in ReqPc, GoTo(q, pc),
         pc \in {"all_publish", "all_commit"} => AtLock(q)
  PROVE  /\ AtLock(q)' => pc \in {"all_publish", "all_commit"}
         /\ \A p \in Requests : AtLock(p)' => AtLock(p) /\ req'[p].run = req[p].run
BY DEF ReqTyped, GoTo, AtLock, Req

\* A worker writes to the row of a run that was started, so it is not locked.
LEMMA WorkLocks ==
  ASSUME Typed, Ownership, Locks, NEW w \in Workers, NEW r \in Runs, Works(w, r),
         \A s \in Runs \ {r} : row'[s] = row[s], UNCHANGED <<rows, req>>
  PROVE  Unlocking
<1>1. r \notin Pending
  BY DEF Ownership, Pending, Typed, TableTyped
<1> QED BY <1>1 DEF Unlocking, Locks, AtLock, Pending, Typed, TableTyped

LEMMA LocksNext == Typed /\ Ownership /\ Locks /\ [Next]_vars => Locks'
<1> SUFFICES ASSUME Typed, Ownership, Locks, [Next]_vars PROVE Locks'
  OBVIOUS
<1> USE DEF Typed
<1>1. ASSUME NEW r \in Runs, Upload(r) PROVE Locks'
  BY <1>1, UnlockingLocks DEF Upload, Unlocking, Pending, AtLock
<1>2. ASSUME NEW q \in Requests, NEW r \in Runs,
             StartRead(q, r) \/ CancelRead(q, r) \/ DeleteRead(q, r)
      PROVE  Locks'
  <2>1. \A p \in Requests : AtLock(p)' => AtLock(p) /\ req'[p].run = req[p].run
    BY <1>2 DEF StartRead, CancelRead, DeleteRead, Begin, ReqTyped, Req, AtLock
  <2> QED BY <1>2, <2>1, SameRowsUnlocking, UnlockingLocks
          DEF StartRead, CancelRead, DeleteRead, table
<1>3. ASSUME NEW q \in Requests, NEW kind \in {"start_all", "delete_all"},
             ListPending(q, kind)
      PROVE  Locks'
  <2>1. \A p \in Requests : AtLock(p)' => AtLock(p) /\ req'[p].run = req[p].run
    BY <1>3 DEF ListPending, ReqTyped, Req, AtLock
  <2> QED BY <1>3, <2>1, SameRowsUnlocking, UnlockingLocks DEF ListPending, table
<1>4. ASSUME NEW q \in Requests,
             StartSave(q) \/ StartTask(q) \/ CancelSave(q) \/ StartAllCommit(q)
      PROVE  Locks'
  <2>1. /\ ~AtLock(q)'
        /\ \A p \in Requests : AtLock(p)' => AtLock(p) /\ req'[p].run = req[p].run
    BY <1>4, OverLocks, GoToLocks
       DEF StartSave, StartTask, CancelSave, StartAllCommit, ReqPc
  <2>2. \A p \in Requests \ {q} : AtLock(p) => req[p].run # req[q].run
    BY <1>4 DEF StartSave, StartTask, CancelSave, StartAllCommit, Locked, Locks,
                AtLock
  <2>3. rows' = rows /\ \A s \in Runs \ {req[q].run} : row'[s] = row[s]
    BY <1>4 DEF StartSave, StartTask, CancelSave, StartAllCommit, TableTyped
  <2>4. Unlocking
    BY <2>1, <2>2, <2>3 DEF Unlocking, Pending, TableTyped
  <2> QED BY <2>4, UnlockingLocks
<1>5. ASSUME NEW q \in Requests,
             StartPublish(q) \/ StartAllPublish(q) \/ Revoke(q) \/ Unlink(q)
      PROVE  Locks'
  <2>1. \A p \in Requests : AtLock(p)' => AtLock(p) /\ req'[p].run = req[p].run
    BY <1>5, OverLocks, GoToLocks
       DEF StartPublish, StartAllPublish, Publish, Revoke, Unlink, ReqPc, AtLock
  <2> QED BY <1>5, <2>1, SameRowsUnlocking, UnlockingLocks
          DEF StartPublish, StartAllPublish, Publish, Revoke, Unlink, table
<1>6. ASSUME NEW q \in Requests, PublishFails(q) \/ LoopEnd(q) \/ Abort(q)
      PROVE  Locks'
  BY <1>6, OverLocks, SameRowsUnlocking, UnlockingLocks
     DEF PublishFails, LoopEnd, Abort, table
<1>7. ASSUME NEW q \in Requests, NEW r \in Runs, StartAllLock(q, r) PROVE Locks'
  <2>1. CASE r \in rows /\ StillPending(r)
    <3>1. \A p \in Requests \ {q} : AtLock(p) => req[p].run # r
      BY <1>7 DEF StartAllLock, Locked, AtLock
    <3>2. req' = [req EXCEPT ![q] = [@ EXCEPT !.todo = @ \ {r}, !.run = r,
                                              !.pc = "all_publish"]]
      BY <1>7, <2>1 DEF StartAllLock, ReqTyped, Req
    <3>3. req'[q].run = r /\ \A p \in Requests \ {q} : req'[p] = req[p]
      BY <3>2 DEF ReqTyped, Req
    <3>4. r \in Pending /\ UNCHANGED <<rows, row>>
      BY <1>7, <2>1 DEF StartAllLock, StillPending, Pending, table
    <3> QED BY <3>1, <3>3, <3>4 DEF Locks, AtLock, Pending
  <2>2. CASE ~(r \in rows /\ StillPending(r))
    <3>1. \A p \in Requests : AtLock(p)' => AtLock(p) /\ req'[p].run = req[p].run
      BY <1>7, <2>2, OverLocks DEF StartAllLock, ReqTyped, Req, AtLock
    <3> QED BY <1>7, <3>1, SameRowsUnlocking, UnlockingLocks DEF StartAllLock, table
  <2> QED BY <2>1, <2>2
<1>8. ASSUME NEW q \in Requests, NEW r \in Runs, DeleteAllRow(q, r) PROVE Locks'
  <2>1. \A p \in Requests : AtLock(p)' => AtLock(p) /\ req'[p].run = req[p].run
    BY <1>8 DEF DeleteAllRow, ReqTyped, Req, AtLock
  <2>2. \A p \in Requests : AtLock(p) => req[p].run # r
    BY <1>8 DEF DeleteAllRow, Locked, AtLock
  <2>3. /\ \A s \in rows \ {r} : s \in rows'
        /\ \A s \in Runs \ {r} : row'[s] = row[s]
    BY <1>8 DEF DeleteAllRow, DeleteCascade, TableTyped
  <2>4. Unlocking
    BY <2>1, <2>2, <2>3 DEF Unlocking, Pending, TableTyped
  <2> QED BY <2>4, UnlockingLocks
<1>9. ASSUME NEW q \in Requests, DeleteRow(q) PROVE Locks'
  <2>1. \A p \in Requests : AtLock(p)' => AtLock(p) /\ req'[p].run = req[p].run
    BY <1>9, OverLocks, GoToLocks DEF DeleteRow, ReqPc
  <2>2. \A p \in Requests : AtLock(p) => req[p].run # req[q].run
    BY <1>9 DEF DeleteRow, Locked, AtLock
  <2>3. /\ \A s \in rows \ {req[q].run} : s \in rows'
        /\ \A s \in Runs \ {req[q].run} : row'[s] = row[s]
    BY <1>9 DEF DeleteRow, DeleteCascade, TableTyped
  <2>4. Unlocking
    BY <2>1, <2>2, <2>3 DEF Unlocking, Pending, TableTyped
  <2> QED BY <2>4, UnlockingLocks
<1>10. ASSUME NEW w \in Workers, Claim(w) PROVE Locks'
  <2>1. \A p \in Requests : AtLock(p) => req[p].run # job[w].run
    BY <1>10 DEF Claim, ReadsLocked, Locked, AtLock
  <2>2. \A s \in Runs \ {job[w].run} : row'[s] = row[s]
    BY <1>10 DEF Claim, TableTyped
  <2>3. Unlocking
    BY <1>10, <2>1, <2>2 DEF Claim, Unlocking, AtLock, Pending, TableTyped
  <2> QED BY <2>3, UnlockingLocks
<1>11. ASSUME NEW w \in Workers, Parse(w) \/ Progress(w) \/ Finish(w) \/ Fail(w)
       PROVE  Locks'
  <2>1. job[w].run \in Runs /\ Works(w, job[w].run)
    BY <1>11 DEF Parse, Progress, Finish, Fail, At, JobTyped, Works
  <2>2. rows' = rows /\ req' = req
    BY <1>11 DEF Parse, Progress, Finish, Fail
  <2>3. \A s \in Runs \ {job[w].run} : row'[s] = row[s]
    BY <1>11 DEF Parse, Progress, Finish, Fail, TableTyped
  <2> QED BY <2>1, <2>2, <2>3, WorkLocks, UnlockingLocks
<1>12. CASE UNCHANGED <<rows, row, req>>
  BY <1>12, SameRowsUnlocking, UnlockingLocks DEF AtLock
<1>13. ASSUME NEW w \in Workers,
              \/ Take(w) \/ ReadFlag(w) \/ Raise(w) \/ StoreParagraph(w)
              \/ StoreResult(w) \/ Package(w) \/ Cleanup(w) \/ Crash(w)
       PROVE  UNCHANGED <<rows, row, req>>
  BY <1>13 DEF Take, Receive, ReadFlag, Raise, StoreParagraph, StoreResult,
               Package, Cleanup, Crash, table
<1>14. Broadcast \/ Restart \/ UNCHANGED vars => UNCHANGED <<rows, row, req>>
  BY DEF Broadcast, ReceiveRevoke, Restart, vars, table
<1> QED
  BY <1>1, <1>2, <1>3, <1>4, <1>5, <1>6, <1>7, <1>8, <1>9, <1>10, <1>11, <1>12,
     <1>13, <1>14
     DEF Next, Web, WebBegin, WebStep, Work, WorkStep

\* A run that start-all hands to the broker is still pending: a start, cancel or
\* delete that read the row earlier waits for the lock.
THEOREM StartAllIsAlone == Spec => []StartAllHoldsPending
<1>1. Init => Locks
  BY DEF Init, Locks, AtLock, ReadyReq
<1>2. Locks => StartAllHoldsPending
  BY DEF Locks, AtLock, StartAllHoldsPending
<1> QED BY <1>1, <1>2, LocksNext, Owned, PTL DEF Spec

-----------------------------------------------------------------------------
(* What the pipeline stores. *)

\* Where the owner of a run stands, and what it has stored so far.
Stored(w, r) ==
    /\ job[w].pc \in {"flag", "parse"} =>
         job[w].i = 0 /\ paras[r] = 0 /\ results[r] = 0
    /\ job[w].pc = "paragraph" => paras[r] = job[w].i /\ results[r] = job[w].i
    /\ job[w].pc = "result" => paras[r] = job[w].i + 1 /\ results[r] = job[w].i
    /\ job[w].pc = "progress" =>
         paras[r] = job[w].i + 1 /\ results[r] = job[w].i + 1
    /\ job[w].pc \in {"paragraph", "result", "progress"} =>
         row[r].total = job[w].size /\ job[w].i <= job[w].size
    /\ job[w].pc \in {"result", "progress"} => job[w].i < job[w].size

Storing(w) == job[w].pc \in {"flag", "parse", "paragraph", "result", "progress"}

Complete(r) ==
    /\ row[r].started /\ row[r].finished
    /\ paras[r] = row[r].total /\ results[r] = row[r].total
    /\ row[r].done = row[r].total

Pipeline ==
    /\ \A w \in Workers : job[w].pc = "claim" => job[w].i = 0
    /\ \A r \in Runs : r \notin rows \/ ~row[r].started =>
         paras[r] = 0 /\ results[r] = 0
    /\ \A r \in fresh : row[r] = CreatedRow
    /\ \A r \in rows : ~row[r].started =>
         /\ row[r].done = 0
         /\ row[r].status \in {"created", "queued", "canceled"}
    /\ \A w \in Workers, r \in rows : Works(w, r) => Stored(w, r)
    /\ \A w \in Workers, r \in rows :
         Works(w, r) /\ Storing(w) => row[r].status \notin {"done", "failed"}
    /\ \A r \in rows : row[r].status = "done" => Complete(r)
    /\ \A r \in rows : row[r].done <= results[r]

LEMMA PipelineInit == Init => Pipeline
BY DEF Init, Pipeline, CreatedRow, IdleJob, Works

\* A handler may change the status, the task id and finished_at of a row.
Handled ==
    /\ UNCHANGED <<fresh, rows, paras, results, job>>
    /\ \A r \in fresh : row'[r] = row[r]
    /\ \A r \in Runs :
         /\ row'[r].started = row[r].started
         /\ row'[r].total = row[r].total /\ row'[r].done = row[r].done
         /\ row[r].finished => row'[r].finished
         /\ row'[r].status \in {row[r].status, "queued", "canceled"}

LEMMA HandledPipeline == ASSUME Typed, Pipeline, Handled PROVE Pipeline'
<1> USE DEF Typed, TableTyped
<1>1. \A w \in Workers, r \in rows : Works(w, r)' => Stored(w, r)'
  BY DEF Handled, Pipeline, Works, Stored
<1>2. \A r \in rows : row'[r].status = "done" => Complete(r)'
  BY DEF Handled, Pipeline, Complete
<1> QED BY <1>1, <1>2 DEF Handled, Pipeline, Works, Storing

\* A worker takes a task, lets go of one, or stops storing.
Rests ==
    /\ UNCHANGED <<fresh, rows, row, paras, results>>
    /\ \A w \in Workers :
         \/ job'[w] = job[w]
         \/ job'[w].pc = "idle"
         \/ job'[w].pc = "claim" /\ job'[w].i = 0
         \/ /\ job'[w].pc \in {"handler", "package", "cleanup"}
            /\ job[w].pc \notin {"idle", "claim"}
            /\ job'[w].run = job[w].run

LEMMA RestsPipeline == ASSUME Pipeline, Rests PROVE Pipeline'
<1>1. \A w \in Workers, r \in rows : Works(w, r)' => Stored(w, r)'
  BY DEF Rests, Pipeline, Works, Stored
<1>2. \A w \in Workers, r \in rows :
         Works(w, r)' /\ Storing(w)' => row[r].status \notin {"done", "failed"}
  BY DEF Rests, Pipeline, Works, Storing
<1>3. \A w \in Workers : job'[w].pc = "claim" => job'[w].i = 0
  BY DEF Rests, Pipeline
<1> QED BY <1>1, <1>2, <1>3 DEF Rests, Pipeline, Complete

LEMMA ThrownRests ==
  ASSUME JobTyped, NEW w \in Workers, Thrown(w), job[w].pc \notin {"idle", "claim"},
         UNCHANGED <<fresh, rows, row, paras, results>>
  PROVE  Rests
BY DEF JobTyped, Thrown, Step, Quit, IdleJob, Rests, Job

LEMMA QuitRests ==
  ASSUME JobTyped, NEW w \in Workers, Quit(w),
         UNCHANGED <<fresh, rows, row, paras, results>>
  PROVE  Rests
BY DEF JobTyped, Quit, IdleJob, Rests, Job

LEMMA StopRests ==
  ASSUME JobTyped, NEW stopped, Stop(stopped),
         UNCHANGED <<fresh, rows, row, paras, results>>
  PROVE  Rests
BY DEF JobTyped, Stop, IdleJob, Rests, Job

\* Worker w, the only one on run r, changes what is stored of r and nothing else.
OwnerStep(w, r) ==
    /\ UNCHANGED <<fresh, rows>>
    /\ \A v \in Workers : Works(v, r) => v = w
    /\ \A v \in Workers \ {w} : job'[v] = job[v]
    /\ \A s \in Runs \ {r} :
         row'[s] = row[s] /\ paras'[s] = paras[s] /\ results'[s] = results[s]
    /\ job'[w].run = r /\ job'[w].pc # "claim"
    /\ r \in rows /\ row'[r].started
    /\ Stored(w, r)'
    /\ Storing(w)' => row'[r].status \notin {"done", "failed"}
    /\ row'[r].status = "done" => Complete(r)'
    /\ row'[r].done <= results'[r]

LEMMA OwnerPipeline ==
  ASSUME Typed, Ownership, Pipeline, NEW w \in Workers, NEW r \in Runs,
         OwnerStep(w, r)
  PROVE  Pipeline'
<1> USE DEF Typed, TableTyped
<1>1. \A v \in Workers, s \in rows : Works(v, s)' => Stored(v, s)'
  BY DEF OwnerStep, Pipeline, Works, Stored
<1>2. \A v \in Workers, s \in rows :
         Works(v, s)' /\ Storing(v)' => row'[s].status \notin {"done", "failed"}
  BY DEF OwnerStep, Pipeline, Works, Storing
<1>3. \A s \in rows : row'[s].status = "done" => Complete(s)'
  BY DEF OwnerStep, Pipeline, Complete
<1>4. \A s \in fresh : row'[s] = CreatedRow
  BY DEF OwnerStep, Pipeline, Ownership
<1> QED BY <1>1, <1>2, <1>3, <1>4 DEF OwnerStep, Pipeline

LEMMA WebPipeline ==
  ASSUME Typed, Ownership, Locks, Pipeline, NEW q \in Requests, Web(q)
  PROVE  Pipeline'
<1> USE DEF Typed
<1>1. CASE UNCHANGED <<fresh, rows, row, paras, results, job>>
  <2>1. Handled
    BY <1>1 DEF Handled
  <2> QED BY <2>1, HandledPipeline
<1>2. ASSUME NEW r \in Runs, r \in rows, row[r] \in Row, row'[r] \in Row,
             UNCHANGED <<fresh, rows, paras, results, job>>,
             \A s \in Runs \ {r} : row'[s] = row[s],
             /\ row'[r].started = row[r].started
             /\ row'[r].total = row[r].total /\ row'[r].done = row[r].done
             /\ row[r].finished => row'[r].finished
             /\ row'[r].status \in {row[r].status, "queued", "canceled"}
      PROVE  Pipeline'
  <2>1. Handled
    BY <1>2 DEF Handled, Ownership, TableTyped
  <2> QED BY <2>1, HandledPipeline
<1>3. CASE StartSave(q)
  <2>1. CASE req[q].run \in rows
    BY <1>2, <1>3, <2>1 DEF StartSave, TableTyped, Row, Status
  <2> QED BY <1>1, <1>3, <2>1 DEF StartSave
<1>4. CASE StartTask(q)
  <2>1. CASE req[q].run \in rows
    BY <1>2, <1>4, <2>1 DEF StartTask, TableTyped, Row, Status, Task
  <2> QED BY <1>1, <1>4, <2>1 DEF StartTask
<1>5. CASE CancelSave(q)
  <2>1. CASE req[q].run \in rows
    <3> DEFINE r == req[q].run
    <3>1. row[r] \in Row /\ r \in Runs
      BY <2>1 DEF TableTyped
    <3>2. /\ row'[r] = [row[r] EXCEPT !.status = "canceled", !.finished = TRUE]
          /\ \A s \in Runs \ {r} : row'[s] = row[s]
      BY <1>5, <2>1, <3>1 DEF CancelSave, TableTyped
    <3>3. /\ row'[r] \in Row
          /\ row'[r].started = row[r].started
          /\ row'[r].total = row[r].total /\ row'[r].done = row[r].done
          /\ row'[r].finished /\ row'[r].status = "canceled"
      BY <3>1, <3>2 DEF Row, Status
    <3>4. UNCHANGED <<fresh, rows, paras, results, job>>
      BY <1>5 DEF CancelSave
    <3> HIDE DEF r
    <3> QED BY <1>2, <2>1, <3>1, <3>2, <3>3, <3>4 DEF r
  <2> QED BY <1>1, <1>5, <2>1 DEF CancelSave
<1>6. CASE StartAllCommit(q)
  <2>1. req[q].run \in rows
    BY <1>6 DEF StartAllCommit, Locks, AtLock, Pending
  <2> DEFINE r == req[q].run
  <2>2. row[r] \in Row /\ r \in Runs /\ <<q, r>> \in Task
    BY <2>1 DEF TableTyped, Task
  <2>3. /\ row'[r] = [row[r] EXCEPT !.status = "queued", !.task = <<q, r>>]
        /\ \A s \in Runs \ {r} : row'[s] = row[s]
    BY <1>6, <2>2 DEF StartAllCommit, TableTyped
  <2>4. /\ row'[r].started = row[r].started
        /\ row'[r].total = row[r].total /\ row'[r].done = row[r].done
        /\ row'[r].finished = row[r].finished /\ row'[r].status = "queued"
    BY <2>2, <2>3 DEF Row
  <2>5. row'[r] \in Row
    BY <2>2, <2>3 DEF Row, Status
  <2>6. UNCHANGED <<fresh, rows, paras, results, job>>
    BY <1>6 DEF StartAllCommit
  <2> HIDE DEF r
  <2>7. r \in rows
    BY <2>1 DEF r
  <2> QED BY <1>2, <2>2, <2>3, <2>4, <2>5, <2>6, <2>7
<1>7. ASSUME NEW r \in rows, DeleteCascade(r), UNCHANGED <<fresh, job>>
      PROVE  Pipeline'
  <2> USE DEF TableTyped
  <2>1. \A w \in Workers, s \in rows' : Works(w, s)' => Stored(w, s)'
    BY <1>7 DEF DeleteCascade, Pipeline, Works, Stored
  <2>2. \A s \in rows' : row'[s].status = "done" => Complete(s)'
    BY <1>7 DEF DeleteCascade, Pipeline, Complete
  <2> QED BY <1>7, <2>1, <2>2
          DEF DeleteCascade, Pipeline, Ownership, CreatedRow, Works, Storing
<1>8. ASSUME NEW r \in Runs, DeleteAllRow(q, r) PROVE Pipeline'
  BY <1>1, <1>7, <1>8 DEF DeleteAllRow
<1>9. CASE DeleteRow(q)
  BY <1>1, <1>7, <1>9 DEF DeleteRow
<1>10. ASSUME \/ WebBegin(q) \/ StartPublish(q) \/ StartAllPublish(q) \/ LoopEnd(q)
              \/ Revoke(q) \/ Unlink(q) \/ PublishFails(q) \/ Abort(q)
              \/ \E r \in Runs : StartAllLock(q, r)
       PROVE  UNCHANGED <<fresh, rows, row, paras, results, job>>
  BY <1>10 DEF WebBegin, StartRead, CancelRead, DeleteRead, ListPending, StartPublish,
               StartAllPublish, Publish, LoopEnd, Revoke, Unlink, PublishFails,
               Abort, StartAllLock, table
<1> QED
  BY <1>1, <1>3, <1>4, <1>5, <1>6, <1>8, <1>9, <1>10 DEF Web, WebStep

LEMMA WorkPipeline ==
  ASSUME Typed, Ownership, Pipeline, NEW w \in Workers, Work(w)
  PROVE  Pipeline'
<1> USE DEF Typed
<1> DEFINE r == job[w].run
<1>1. ASSUME NEW t \in Task, Receive(w, t) PROVE Pipeline'
  <2>1. Rests
    BY <1>1 DEF Receive, JobTyped, Job, IdleJob, Rests, table
  <2> QED BY <2>1, RestsPipeline
<1>2. CASE Claim(w)
  <2>1. r \in Runs /\ job[w] \in Job /\ job[w].pc = "claim" /\ job[w].i = 0
    BY <1>2 DEF Claim, At, JobTyped, Pipeline
  <2>2. CASE Claimable(r)
    <3>1. row[r] \in Row /\ r \in rows /\ ~row[r].started
      BY <2>1, <2>2 DEF TableTyped, Claimable
    <3>2. row'[r] = [row[r] EXCEPT !.task = job[w].task, !.status = "running",
                                   !.started = TRUE, !.progressAt = TRUE,
                                   !.total = 0, !.done = 0]
      BY <1>2, <2>1, <2>2 DEF Claim, TableTyped
    <3>3. row'[r].started /\ row'[r].status = "running" /\ row'[r].done = 0
      BY <3>1, <3>2 DEF Row
    <3>4. job'[w].pc = "flag" /\ job'[w].i = 0 /\ job'[w].run = r
      BY <1>2, <2>1, <2>2 DEF Claim, Step, JobTyped, Job
    <3>5. \A v \in Workers : ~Works(v, r)
      BY <2>1, <3>1 DEF Ownership
    <3>6. /\ UNCHANGED <<fresh, rows, paras, results>>
          /\ \A s \in Runs \ {r} : row'[s] = row[s]
          /\ \A v \in Workers \ {w} : job'[v] = job[v]
      BY <1>2, <2>1, <2>2 DEF Claim, Step, TableTyped, JobTyped
    <3>7. paras[r] = 0 /\ results[r] = 0
      BY <2>1, <3>1 DEF Pipeline
    <3>8. OwnerStep(w, r)
      BY <3>1, <3>3, <3>4, <3>5, <3>6, <3>7 DEF OwnerStep, Stored
    <3> QED BY <2>1, <3>8, OwnerPipeline
  <2>3. CASE ~Claimable(r)
    BY <1>2, <2>3, QuitRests, RestsPipeline DEF Claim, Skip
  <2> QED BY <2>2, <2>3
\* The worker is past its claim.
<1>3. ASSUME job[w].pc \notin {"idle", "claim"}
      PROVE  /\ r \in Runs /\ job[w] \in Job /\ Works(w, r)
             /\ \A v \in Workers : Works(v, r) => v = w
             /\ r \in rows => row[r] \in Row /\ row[r].started
             /\ r \in rows => Stored(w, r) /\ row[r].done <= results[r]
             /\ r \in rows /\ Storing(w) => row[r].status \notin {"done", "failed"}
             /\ r \in rows /\ row[r].status = "done" => Complete(r)
             /\ paras[r] \in Nat /\ results[r] \in Nat
  <2>1. r \in Runs /\ job[w] \in Job /\ Works(w, r)
    BY <1>3 DEF JobTyped, Works
  <2> QED BY <2>1 DEF Ownership, Pipeline, TableTyped
<1>4. CASE ReadFlag(w)
  <2>1. CASE Quit(w)
    BY <1>4, <2>1, QuitRests, RestsPipeline DEF ReadFlag, table
  <2>2. ASSUME NEW d \in DebugModes, 
               job' = [job EXCEPT ![w].pc = "parse", ![w].debug = d]
        PROVE  Pipeline'
    <3>1. /\ job'[w].pc = "parse" /\ job'[w].i = job[w].i /\ job'[w].run = r
          /\ \A v \in Workers \ {w} : job'[v] = job[v]
      BY <2>2 DEF JobTyped, Job
    <3>2. job[w].pc = "flag" /\ UNCHANGED <<fresh, rows, row, paras, results>>
      BY <1>4 DEF ReadFlag, At, table
    <3>3. CASE r \in rows
      <4>1. OwnerStep(w, r)
        BY <1>3, <3>1, <3>2, <3>3 DEF OwnerStep, Stored, Storing, Complete
      <4> QED BY <1>3, <3>2, <4>1, OwnerPipeline
    <3>4. CASE r \notin rows
      <4>1. \A v \in Workers, s \in rows : Works(v, s)' <=> Works(v, s)
        BY <3>1, <3>4 DEF Works
      <4>2. \A v \in Workers, s \in rows : Works(v, s) => job'[v] = job[v]
        BY <3>1, <3>4 DEF Works
      <4> QED BY <3>1, <3>2, <4>1, <4>2 DEF Pipeline, Stored, Storing, Complete
    <3> QED BY <3>3, <3>4
  <2> QED BY <1>4, <2>1, <2>2 DEF ReadFlag
<1>5. CASE Raise(w)
  BY <1>5, QuitRests, ThrownRests, RestsPipeline DEF Raise, table
<1>6. CASE Parse(w)
  <2>1. job[w].pc = "parse"
    BY <1>6 DEF Parse, At
  <2>2. CASE Thrown(w) /\ UNCHANGED row
    BY <1>6, <2>1, <2>2, ThrownRests, RestsPipeline DEF Parse
  <2>3. ASSUME NEW n \in 0..MaxEvents, r \in rows,
               job' = [job EXCEPT ![w].pc = "paragraph", ![w].size = n],
               row' = [row EXCEPT ![r] = [@ EXCEPT !.total = n, !.done = 0]]
        PROVE  Pipeline'
    <3>1. /\ job'[w].pc = "paragraph" /\ job'[w].i = job[w].i /\ job'[w].run = r
          /\ job'[w].size = n
          /\ \A v \in Workers \ {w} : job'[v] = job[v]
      BY <2>3 DEF JobTyped, Job
    <3>2. /\ row'[r].started = row[r].started /\ row'[r].status = row[r].status
          /\ row'[r].total = n /\ row'[r].done = 0
          /\ \A s \in Runs \ {r} : row'[s] = row[s]
      BY <1>3, <2>1, <2>3 DEF TableTyped, Row
    <3>3. UNCHANGED <<fresh, rows, paras, results>>
      BY <1>6 DEF Parse
    <3>4. Stored(w, r)'
      <4>1. job[w].i = 0 /\ paras[r] = 0 /\ results[r] = 0
        BY <1>3, <2>1, <2>3 DEF Stored
      <4>2. n \in Nat
        BY RunQueueAssumption
      <4> QED BY <3>1, <3>2, <3>3, <4>1, <4>2 DEF Stored
    <3>5. row'[r].done <= results'[r] /\ row'[r].status \notin {"done", "failed"}
      BY <1>3, <2>1, <2>3, <3>2, <3>3 DEF Stored, Storing
    <3>6. OwnerStep(w, r)
      BY <1>3, <2>1, <2>3, <3>1, <3>2, <3>3, <3>4, <3>5 DEF OwnerStep
    <3> QED BY <1>3, <2>1, <3>6, OwnerPipeline
  <2> QED BY <1>6, <2>2, <2>3 DEF Parse
<1>7. CASE StoreParagraph(w)
  <2>1. job[w].pc = "paragraph" /\ job[w].i < job[w].size
    BY <1>7 DEF StoreParagraph, At, MoreEvents
  <2>2. CASE Thrown(w) /\ UNCHANGED paras
    BY <1>7, <2>1, <2>2, ThrownRests, RestsPipeline DEF StoreParagraph
  <2>3. CASE r \in rows /\ Step(w, "result") /\ paras' = [paras EXCEPT ![r] = job[w].i + 1]
    <3>1. /\ job'[w].pc = "result" /\ job'[w].i = job[w].i /\ job'[w].run = r
          /\ job'[w].size = job[w].size
          /\ \A v \in Workers \ {w} : job'[v] = job[v]
      BY <2>3 DEF Step, JobTyped, Job
    <3>2. paras'[r] = job[w].i + 1 /\ \A s \in Runs \ {r} : paras'[s] = paras[s]
      BY <1>3, <2>1, <2>3 DEF TableTyped
    <3>3. UNCHANGED <<fresh, rows, row, results>>
      BY <1>7 DEF StoreParagraph
    <3>4. OwnerStep(w, r)
      BY <1>3, <2>1, <2>3, <3>1, <3>2, <3>3 DEF OwnerStep, Stored, Storing
    <3> QED BY <1>3, <2>1, <3>4, OwnerPipeline
  <2> QED BY <1>7, <2>2, <2>3 DEF StoreParagraph
<1>8. CASE StoreResult(w)
  <2>1. job[w].pc = "result"
    BY <1>8 DEF StoreResult, At
  <2>2. CASE Thrown(w) /\ UNCHANGED results
    BY <1>8, <2>1, <2>2, ThrownRests, RestsPipeline DEF StoreResult
  <2>3. CASE r \in rows /\ Step(w, "progress") /\ results' = [results EXCEPT ![r] = @ + 1]
    <3>1. /\ job'[w].pc = "progress" /\ job'[w].i = job[w].i /\ job'[w].run = r
          /\ job'[w].size = job[w].size
          /\ \A v \in Workers \ {w} : job'[v] = job[v]
      BY <2>3 DEF Step, JobTyped, Job
    <3>2. results'[r] = results[r] + 1 /\ \A s \in Runs \ {r} : results'[s] = results[s]
      BY <1>3, <2>1, <2>3 DEF TableTyped
    <3>3. UNCHANGED <<fresh, rows, row, paras>>
      BY <1>8 DEF StoreResult
    <3>4. row[r].done \in Nat
      BY <1>3, <2>1, <2>3 DEF Row
    <3>5. OwnerStep(w, r)
      BY <1>3, <2>1, <2>3, <3>1, <3>2, <3>3, <3>4 DEF OwnerStep, Stored, Storing
    <3> QED BY <1>3, <2>1, <3>5, OwnerPipeline
  <2> QED BY <1>8, <2>2, <2>3 DEF StoreResult
<1>9. CASE Progress(w)
  <2>1. job[w].pc = "progress" /\ UNCHANGED <<fresh, rows, paras, results>>
    BY <1>9 DEF Progress, At
  <2>2. CASE Thrown(w) /\ UNCHANGED row
    BY <2>1, <2>2, ThrownRests, RestsPipeline
  <2>3. ASSUME job' = [job EXCEPT ![w].pc = "paragraph", ![w].i = @ + 1]
        PROVE  /\ job'[w].pc = "paragraph" /\ job'[w].i = job[w].i + 1
               /\ job'[w].run = r /\ job'[w].size = job[w].size
               /\ \A v \in Workers \ {w} : job'[v] = job[v]
    BY <2>3 DEF JobTyped, Job
  <2>4. CASE /\ job' = [job EXCEPT ![w].pc = "paragraph", ![w].i = @ + 1]
             /\ r \in rows
             /\ row' = row \/ row' = [row EXCEPT ![r].done = Processed(w)]
    <3>1. /\ row'[r].started = row[r].started /\ row'[r].status = row[r].status
          /\ row'[r].total = row[r].total
          /\ row'[r].done \in {row[r].done, job[w].i + 1}
          /\ \A s \in Runs \ {r} : row'[s] = row[s]
      BY <1>3, <2>1, <2>4 DEF TableTyped, Row, Processed
    <3>2. /\ paras[r] = job[w].i + 1 /\ results[r] = job[w].i + 1
          /\ row[r].total = job[w].size /\ job[w].i < job[w].size
          /\ job[w].i \in Nat /\ job[w].size \in Nat
      BY <1>3, <2>1, <2>4 DEF Stored, Job
    <3>3. Stored(w, r)'
      BY <2>1, <2>3, <2>4, <3>1, <3>2 DEF Stored
    <3>4. row'[r].done <= results'[r] /\ row'[r].status \notin {"done", "failed"}
      BY <1>3, <2>1, <2>4, <3>1, <3>2 DEF Storing
    <3>5. OwnerStep(w, r)
      BY <1>3, <2>1, <2>3, <2>4, <3>1, <3>3, <3>4 DEF OwnerStep
    <3> QED BY <1>3, <2>1, <3>5, OwnerPipeline
  <2>5. CASE /\ job' = [job EXCEPT ![w].pc = "paragraph", ![w].i = @ + 1]
             /\ r \notin rows /\ UNCHANGED row
    <3>1. \A v \in Workers, s \in rows : Works(v, s)' => Works(v, s) /\ job'[v] = job[v]
      BY <2>3, <2>5 DEF Works
    <3>2. \A v \in Workers : job'[v].pc = "claim" => job'[v].i = 0
      BY <2>3, <2>5 DEF Pipeline
    <3>3. \A v \in Workers, s \in rows : Works(v, s)' => Stored(v, s)'
      <4> SUFFICES ASSUME NEW v \in Workers, NEW s \in rows, Works(v, s)'
                   PROVE  Stored(v, s)'
        OBVIOUS
      <4>1. UNCHANGED <<row, paras, results>>
        BY <2>1, <2>5
      <4>2. Stored(v, s) /\ job'[v] = job[v]
        BY <3>1 DEF Pipeline
      <4> HIDE <2>5
      <4> QED BY <4>1, <4>2 DEF Stored
    <3>4. \A v \in Workers, s \in rows :
             Works(v, s)' /\ Storing(v)' => row'[s].status \notin {"done", "failed"}
      BY <2>1, <2>5, <3>1 DEF Pipeline, Storing
    <3>5. \A s \in rows : row[s].status = "done" => Complete(s)'
      BY <2>1, <2>5 DEF Pipeline, Complete
    <3>6. UNCHANGED <<fresh, rows, row, paras, results>>
      BY <2>1, <2>5
    <3> HIDE <2>5
    <3> QED BY <3>2, <3>3, <3>4, <3>5, <3>6 DEF Pipeline
  <2> QED BY <1>9, <2>2, <2>4, <2>5 DEF Progress
<1>10. CASE Finish(w)
  <2>1. job[w].pc = "paragraph" /\ ~(job[w].i < job[w].size)
    BY <1>10 DEF Finish, At, MoreEvents
  <2>2. CASE Thrown(w) /\ UNCHANGED row
    BY <1>10, <2>1, <2>2, ThrownRests, RestsPipeline DEF Finish
  <2>3. CASE r \in rows
    <3>1. /\ job'[w].pc \in {"package", "cleanup"} /\ job'[w].run = r
          /\ \A v \in Workers \ {w} : job'[v] = job[v]
      BY <1>10, <2>3 DEF Finish, Step, JobTyped, Job
    <3>2. /\ row'[r].started = row[r].started /\ row'[r].finished
          /\ row'[r].total = row[r].total /\ row'[r].done = job[w].size
          /\ \A s \in Runs \ {r} : row'[s] = row[s]
      <4>1. /\ row'[r] = [row[r] EXCEPT !.status = "done", !.finished = TRUE,
                                        !.done = job[w].size]
            /\ \A s \in Runs \ {r} : row'[s] = row[s]
        BY <1>3, <1>10, <2>1, <2>3 DEF Finish, TableTyped
      <4> QED BY <1>3, <2>1, <2>3, <4>1 DEF Row
    <3>3. UNCHANGED <<fresh, rows, paras, results>>
      BY <1>10 DEF Finish
    <3>4. job[w].i = job[w].size
      BY <1>3, <2>1, <2>3 DEF Stored, Job
    <3>5. OwnerStep(w, r)
      BY <1>3, <2>1, <2>3, <3>1, <3>2, <3>3, <3>4
         DEF OwnerStep, Stored, Storing, Complete
    <3> QED BY <1>3, <2>1, <3>5, OwnerPipeline
  <2> QED BY <1>10, <2>2, <2>3 DEF Finish
<1>11. CASE Package(w)
  <2>1. CASE Thrown(w)
    BY <1>11, <2>1, ThrownRests, RestsPipeline DEF Package, At, table
  <2>2. CASE Step(w, "cleanup")
    <3>1. Rests
      BY <1>11, <2>2 DEF Package, At, Step, Rests, JobTyped, Job, table
    <3> QED BY <3>1, RestsPipeline
  <2> QED BY <1>11, <2>1, <2>2 DEF Package
<1>12. CASE Fail(w)
  <2>1. job[w].pc = "handler" /\ UNCHANGED <<fresh, rows, paras, results>>
    BY <1>12 DEF Fail, At
  <2>2. CASE Quit(w) /\ UNCHANGED row
    BY <2>1, <2>2, QuitRests, RestsPipeline
  <2>3. CASE r \in rows
    <3>1. /\ job'[w].pc \in {"package", "cleanup"} /\ job'[w].run = r
          /\ \A v \in Workers \ {w} : job'[v] = job[v]
      BY <1>12, <2>3 DEF Fail, AfterFailure, JobTyped, Job
    <3>2. /\ row'[r].started = row[r].started /\ row'[r].status = "failed"
          /\ row'[r].done = row[r].done
          /\ \A s \in Runs \ {r} : row'[s] = row[s]
      <4>1. /\ row'[r] = [row[r] EXCEPT !.status = "failed", !.finished = TRUE]
            /\ \A s \in Runs \ {r} : row'[s] = row[s]
        BY <1>3, <1>12, <2>1, <2>3 DEF Fail, TableTyped
      <4> QED BY <1>3, <2>1, <2>3, <4>1 DEF Row
    <3>3. OwnerStep(w, r)
      BY <1>3, <2>1, <2>3, <3>1, <3>2 DEF OwnerStep, Stored, Storing
    <3> QED BY <1>3, <2>1, <3>3, OwnerPipeline
  <2> QED BY <1>12, <2>2, <2>3 DEF Fail
<1>13. CASE Cleanup(w)
  BY <1>13, QuitRests, RestsPipeline DEF Cleanup, table
<1>14. CASE Crash(w)
  BY <1>14, StopRests, RestsPipeline DEF Crash, table
<1> QED
  BY <1>1, <1>2, <1>4, <1>5, <1>6, <1>7, <1>8, <1>9, <1>10, <1>11, <1>12, <1>13,
     <1>14
     DEF Work, Take, WorkStep

LEMMA PipelineNext ==
  Typed /\ Ownership /\ Locks /\ Pipeline /\ [Next]_vars => Pipeline'
<1> SUFFICES ASSUME Typed, Ownership, Locks, Pipeline, [Next]_vars PROVE Pipeline'
  OBVIOUS
<1> USE DEF Typed
<1>1. ASSUME NEW r \in Runs, Upload(r) PROVE Pipeline'
  <2>1. \A w \in Workers : ~Works(w, r)
    BY <1>1 DEF Upload, Ownership
  <2>2. row[r] = CreatedRow /\ paras[r] = 0 /\ results[r] = 0
    BY <1>1 DEF Upload, Ownership, Pipeline
  <2>3. \A w \in Workers, s \in rows' : Works(w, s)' => Stored(w, s)'
    BY <1>1, <2>1 DEF Upload, Pipeline, Works, Stored
  <2> QED BY <1>1, <2>1, <2>2, <2>3
          DEF Upload, Pipeline, Works, Storing, Complete, CreatedRow
<1>2. ASSUME NEW c \in control, ReceiveRevoke(c) PROVE Pipeline'
  BY <1>2, StopRests, RestsPipeline DEF ReceiveRevoke, table
<1>3. CASE Restart
  BY <1>3, StopRests, RestsPipeline DEF Restart, table
<1>4. CASE UNCHANGED vars
  BY <1>4 DEF vars, table, Pipeline, Works, Stored, Storing, Complete
<1> QED BY <1>1, <1>2, <1>3, <1>4, WebPipeline, WorkPipeline DEF Next, Broadcast

LEMMA Kept == Spec => [](Typed /\ Ownership /\ Locks /\ Pipeline)
<1>1. Init => Locks
  BY DEF Init, Locks, AtLock, ReadyReq
<1>2. Typed /\ Ownership /\ Locks /\ Pipeline /\ [Next]_vars => Locks' /\ Pipeline'
  BY LocksNext, PipelineNext
<1> QED BY <1>1, <1>2, PipelineInit, Owned, PTL DEF Spec

\* A run shown as done is complete, and the progress shown is backed by stored
\* results, for documents and progress intervals of any size.
THEOREM DoneIsWhole == Spec => []DoneIsComplete
<1>1. Pipeline => DoneIsComplete
  BY DEF Pipeline, Complete, DoneIsComplete
<1> QED BY <1>1, Kept, PTL

\* Progress never runs ahead of the results stored.
THEOREM ProgressIsHonest == Spec => []ProgressIsBacked
<1>1. Pipeline => ProgressIsBacked
  BY DEF Pipeline, ProgressIsBacked
<1> QED BY <1>1, Kept, PTL

\* What an action leaves alone, and what it needs to touch stored results.
LEMMA StoresOnly ==
  ASSUME Typed, Ownership, Locks, Pipeline, [Next]_vars,
         NEW r \in rows, r \in rows', row[r].status \in {"done", "failed"}
  PROVE  paras'[r] = paras[r] /\ results'[r] = results[r]
<1>1. ASSUME NEW w \in Workers, StoreParagraph(w) \/ StoreResult(w)
      PROVE  paras'[r] = paras[r] /\ results'[r] = results[r]
  <2>1. Storing(w) /\ job[w].pc \in {"paragraph", "result"}
    BY <1>1 DEF StoreParagraph, StoreResult, At, MoreEvents, Storing
  <2>2. job[w].run # r
    BY <2>1 DEF Pipeline, Works
  <2> QED BY <1>1, <2>2 DEF StoreParagraph, StoreResult, Typed, TableTyped
<1>2. ASSUME NEW s \in Runs, DeleteCascade(s)
      PROVE  paras'[r] = paras[r] /\ results'[r] = results[r]
  BY <1>2 DEF DeleteCascade, Typed, TableTyped
<1>3. ASSUME NEW q \in Requests, Web(q)
      PROVE  paras'[r] = paras[r] /\ results'[r] = results[r]
  <2>1. CASE UNCHANGED <<paras, results>>
    BY <2>1
  <2>2. CASE \E s \in Runs : DeleteAllRow(q, s)
    BY <1>2, <2>2 DEF DeleteAllRow
  <2>3. CASE DeleteRow(q)
    <3>1. CASE req[q].run \in rows
      <4>1. req[q].run \in Runs /\ DeleteCascade(req[q].run)
        BY <2>3, <3>1 DEF DeleteRow, Typed, TableTyped
      <4> QED BY <1>2, <4>1
    <3>2. CASE req[q].run \notin rows
      BY <2>3, <3>2 DEF DeleteRow
    <3> QED BY <3>1, <3>2
  <2>4. CASE WebBegin(q)
    BY <2>1, <2>4 DEF WebBegin, StartRead, CancelRead, DeleteRead, ListPending, table
  <2>5. CASE StartSave(q) \/ StartPublish(q) \/ StartTask(q) \/ CancelSave(q)
    BY <2>1, <2>5 DEF StartSave, StartPublish, Publish, StartTask, CancelSave, table
  <2>6. CASE \/ \E s \in Runs : StartAllLock(q, s)
             \/ StartAllPublish(q) \/ StartAllCommit(q) \/ LoopEnd(q)
    BY <2>1, <2>6
       DEF StartAllLock, StartAllPublish, Publish, StartAllCommit, LoopEnd, table
  <2>7. CASE Revoke(q) \/ Unlink(q) \/ PublishFails(q) \/ Abort(q)
    BY <2>1, <2>7 DEF Revoke, Unlink, PublishFails, Abort, table
  <2> QED BY <1>3, <2>2, <2>3, <2>4, <2>5, <2>6, <2>7 DEF Web, WebStep
<1>4. ASSUME NEW w \in Workers, Work(w)
      PROVE  paras'[r] = paras[r] /\ results'[r] = results[r]
  <2>1. CASE UNCHANGED <<paras, results>>
    BY <2>1
  <2>2. CASE StoreParagraph(w) \/ StoreResult(w)
    BY <1>1, <2>2
  <2> QED BY <1>4, <2>1, <2>2
          DEF Work, Take, WorkStep, Receive, Claim, ReadFlag, Parse, Progress,
              Finish, Package, Fail, Cleanup, Raise, Crash, table
<1> QED
  BY <1>3, <1>4 DEF Next, Upload, Broadcast, ReceiveRevoke, Restart, vars, table

\* The results of a run shown as done or failed are final, however many tasks,
\* requests and faults come after.
THEOREM ResultsAreFinal == Spec => OutcomeFreezesResults
<1>1. /\ Typed /\ Ownership /\ Locks /\ Pipeline
      /\ (Typed /\ Ownership /\ Locks /\ Pipeline)'
      /\ [Next]_vars
      => [\A r \in rows \cap rows' : row[r].status \in {"done", "failed"} =>
            paras'[r] = paras[r] /\ results'[r] = results[r]]_vars
  BY StoresOnly
<1> QED BY <1>1, Kept, PTL DEF Spec, OutcomeFreezesResults

=============================================================================
