# Specifications of project_analiz

project_analiz takes incident reports ("сводки"), cuts them into events, finds
for each event the record of the portal database it belongs to and shows an
operator where the two differ. This directory holds TLA+ models of the parts of
it whose behaviour depends on timing and order, and of the algorithms that decide
what an operator is shown; the TLC instances that check them; and proofs for
TLAPS. Line numbers below refer to the files under `src/`;
`PROJECT.json` maps every definition to its lines.

## Inventory

| part | state it keeps | operations | with whom it interacts |
|---|---|---|---|
| run lifecycle (`apps/analysis_app/views.py`, `tasks.py`, `models.py`) | rows of `AnalysisRun`, `AnalysisParagraph`, `AnalysisResult`; the uploaded file | upload, start, start all, cancel, delete, delete all, the task from claim to clean-up | web processes and Celery workers share the database and the file storage; tasks and revokes go through the broker |
| debug packages (`debug_package.py`, `tasks.py`) | `debug_package_file` of a run, zip files on storage | write, name, prune the owner's old packages, open, delete with the run | several tasks prune each other's runs; the delete handler and the zip page use the same files |
| event pipeline (`services.py`, `event_payload.py`) | none of its own besides the stored results | slice, extract attributes, query the portal, score candidates, choose the best | called by the task; calls the matcher, the offender and the PU code and the portal gateway |
| offenders (`offender_extractor.py`, `offender_validation.py`, `offenders/`) | none | extract, validate, assign docx offenders to portal offenders | called by the pipeline and the result pages |
| reference cache (`pu_cache.py`, `subdivision_cache.py`, `signals.py`, sync commands) | `CachedPU`, `CachedSubdivision`, its aliases: names, hashes, embeddings | two sync commands, a signal after each save in the portal administration | reads the portal; feeds the matcher |
| subdivision matcher (`subdivision_matcher.py`) | per-process `lru_cache` of the cached subdivisions | load, match, invalidate | reads the reference cache |
| PU detection (`pu_detection.py`) | none | choose the PU a report comes from | called by its tests only: the operator chooses the PU |
| templates (`svodka_templates.py`, `template_preview.py`) | `SvodkaTemplate`, one active per scope and PU | save and activate, choose for a PU, find anchors, cut the paragraphs | called by the pipeline and the administration |
| parsers (`document_parsers.py`, `staff_extractor.py`) | none | docx, odt and other files to paragraphs | called by the pipeline |
| classifier (`apps/classifier`) | event types and patterns | import, rank | read by the pipeline |
| portal database runtime (`portal_db_runtime.py`, `portal_db_settings_service.py`, `middleware.py`) | chosen connection in the database, connection settings in each process | save settings, apply them before each web request | the gateway |
| portal gateway (`apps/portaldb`) | none | SQL reads | the pipeline, the sync commands |
| pages and API (`views.py`, `event_payload.py`) | cached JSON of an event | lists, detail, status polls | read what the task stores |
| flags and interface mode (`ui_mode.py`, `models.py`) | one row of switches | read, save | read once by each task |
| administration, forms, launcher, scripts | | | |

### What is hard here

A run is a row that at least three kinds of process write without a common
lock. The web handlers `start` and `cancel` read the row without a lock and
save named columns later; `start_all` and `delete_all` list rows and then lock
them one by one; `delete` reads, sends a revoke to the workers, and only then
locks. The task locks the row once, to claim it, and after that saves whatever
its object in memory says. Messages to the workers can be lost, repeated or late,
a pool process can be killed at any point (by `revoke(terminate=True)` too), and
an exception can come out of any statement, the soft time limit included. Files
are not part of any transaction. `PROJECT.json` lists the hazards with their
lines and the property that would notice each.

### What makes each part correct

* Run lifecycle: one pipeline per run; an outcome shown to the operator is
  complete and final; deletion is final; the upload lives as long as it is
  needed and no longer; a queued run comes to an end.
* Debug packages: what a row names is on storage; the latest packages survive; no more
  than the limit stay; no package without a row. A step that raises may break each of
  these for the run it works on; nothing else may.
* Reference cache: an embedding belongs to the name it stands beside; the cache
  comes to agree with the portal.
* Cut: a report is cut to what stands between the markers of the template, with or
  without markers of its own; it is not cut to nothing, unless a block whose end is not
  found begins on its last line.
* Persons: an employee is not taken for an offender, and nobody disappears between
  the two lists.
* Subdivision, date and type: what is accepted is named by the text, a time is not a
  piece of the date, a pattern in use wins over one a cache remembers.
* Matching: two agreeing respects are enough to find an event, the closest of equal
  events is chosen, the pairing of persons is one to one and leaves no pair unmade.
* Card: whoever is missing in the portal is seen to be; words and colours agree.
* Templates: one active template per scope and PU, which no other displaces.
* Portal runtime: a web request is served from the connection that was chosen when it
  began.

## Modules

| module | what it is |
|---|---|
| `RunQueue` | the run lifecycle: one action per operation between two points where another process can come between |
| `RunJob` | what the queue promises of a run, without handlers, broker or workers |
| `RunQueue_proofs` | theorems about `RunQueue`, checked by TLAPS |
| `MCRunQueue` | constants and symmetry for TLC |
| `Lists` | lists that are filtered and sorted, in a form that can be proved about |
| `Lists_proofs` | lemmas on lists, filters, orders and unfolded folds, checked by TLAPS |
| `DebugPackages` | the packages of one operator: tasks that write, name and prune, handlers that delete |
| `DebugPackages_proofs` | theorems about `DebugPackages`, checked by TLAPS |
| `MCDebugPackages` | symmetry for TLC |
| `SubdivisionCache` | the cached copy of one subdivision: saves in the portal administration and the two sync commands |
| `SubdivisionCache_proofs` | theorems about `SubdivisionCache`, checked by TLAPS |
| `MCSubdivisionCache` | symmetry for TLC |
| `DocumentSlicing` | template, markers, anchors and the cut of a report; the events made of it |
| `PersonExtraction` | the persons of a paragraph, offenders and employees |
| `OffenderMatching` | persons against the offenders of an event, the staff override |
| `SubdivisionMatching` | the subdivision a paragraph names |
| `DateExtraction` | date, time and article of law of a paragraph |
| `EventClassification` | the type of event, and the caches of patterns |
| `EventMatching` | search of the portal in stages, scores, choice, statuses; extends the four above |
| `EventCard` | what the results page shows of an event |
| `ReportAnalysis` | the pipeline of one report: composes all of these |
| `OffenderMatching_proofs`, `EventMatching_proofs` | what comparison, override, search, choice, types and subdivisions promise for any input, checked by TLAPS |
| `ReportAnalysis_proofs` | the cut, and the theorems about `ReportAnalysis`, checked by TLAPS |
| `MCReportAnalysis` | reports, paragraphs and portals for TLC |
| `RuntimeSettings` | portal settings and templates under concurrent administrators, web processes and workers |
| `RuntimeSettings_proofs` | theorems about `RuntimeSettings`, checked by TLAPS |
| `MCRuntimeSettings` | symmetry for TLC |

### RunQueue

State and code:

| variable | code |
|---|---|
| `fresh` | reports not uploaded yet |
| `rows`, `row` | `AnalysisRun` rows: `status`, `celery_task_id`, `started_at` and `finished_at` (set or not), `progress_total`, `progress_done`, whether `progress_updated_at` is set |
| `paras`, `results` | the number of paragraph rows (unique by run and index) and of result rows of a run |
| `uploads` | the uploaded files on storage |
| `req` | each HTTP request: the handler, the statement it stands at, what it has read |
| `broker`, `sent` | tasks waiting in the queue; tasks ever published |
| `control`, `revoked` | revokes on their way; task ids the workers remember as revoked |
| `job` | each pool process: the statement of `run_docx_analysis` it stands at, its task and run, the debug flag it read, whether it is in an except clause, the events parsed and stored |
| `claims` | history: how often the pipeline of a run was started |

A handler is cut where another process can come between: after each read that a
later write depends on, after each commit, around each call to the broker.
A save with `update_fields` writes those columns only and raises if the row is
gone. `select_for_update` is the operator `Locked`: start-all is the only
transaction that stays open over a call to the broker, every other one is a
single action and waits for it.

`Upload` is `_handle_upload`; `StartRead`, `StartSave`, `StartPublish`,
`StartTask` are `_enqueue_pending_run` and `_enqueue_run`; `CancelRead`,
`CancelSave` the cancel handler; `ListPending`, `StartAllLock`,
`StartAllPublish`, `StartAllCommit`, `LoopEnd` and `DeleteAllRow` the two batch
handlers; `DeleteRead`, `Revoke`, `DeleteRow`, `Unlink` the delete handler.
`Receive`, `ReceiveRevoke`, `Crash`, `Restart` are Celery as the code uses it
(`acks_late` off, terminating revoke, remembered revokes lost at a restart).
`Claim` to `Cleanup` are the task, in its order; `Raise` is an exception from the
statement the task stands at, and `Thrown` says where it leads. The faults are
the constant `Faults`, so that each run says which of them it allows.

What is abstracted: event texts and matching (a paragraph and a result are
counted), error messages, the time (progress may be skipped as the half-second
rule allows), owners (all runs belong to one operator), the synchronous mode.

Definitions preceded by a comment in parentheses ("(The check under the lock left
out.)") or by "Mutant:" are wrong variants of the next definition. They are used by nothing:
`PROJECT.json` names them as mutants, and each property is checked to fail when
one of them takes the place of the right one.

### RunJob and the refinement

`RunJob` has for each run a phase (absent, waiting, working, ended, removed) and
a number of stored results. `RunQueue` implements it with `Phase`: waiting is a
row without `started_at`, working is a row some process works on after its
claim. `ImplementsRunJob` says a run is worked on once, never returns from
ended or removed, and its results grow only while it is worked on, whatever
its status shows: the status cannot be used for this, as start and cancel
overwrite it.

### DebugPackages

| variable | code |
|---|---|
| `rows`, `status`, `column` | the row of a run, `status`, `debug_package_file` |
| `ended` | the ended runs ordered by `finished_at`, the latest first |
| `files` | the zip files on storage; storage gives a second package of a run another name |
| `job` | each pool process, with the list of stale runs as it was when listed |
| `del` | each deletion, with the name it read before the lock |
| `cut` | history: the runs whose task was cut short once it had stored a package |
| `torn` | history: the runs whose prune was cut short between its delete and its save |
| `revived` | history: the runs that ended again while a prune had them listed, or torn |
| `left` | history: the stale runs when a task was last cut short, till a prune lists them |

The task's part is `Finish`/`Fail`, `Record`, `Write`, `Name`, `List`,
`PruneFile`, `PruneSave`, `End`; the steps of a prune are separate because a
storage delete and a save are. `RunQueue` says which task may take which run and
when the upload goes; here a task takes any queued run.

With `MayRaise` every one of these steps can fail (the database, storage, the zip, the soft
time limit), and with `MayDie` the process can die at each. `Thrown` is where an exception
leads: from the `try` to the except clause, which saves FAILED over a DONE and packages the
run a second time (tasks.py:130-168); from the except clause out of the task. A save
raises in any case when its row is gone. So a done run can fail and become the latest again
while another task still has it on its list, a package can be stored and not named, and a
prune can stop with the file deleted and its name still in the row. These do happen, and no
property denies them. The history variables say exactly to which runs:

* `NamedIsThere`: what a row names can be opened, save between the delete and the save of
  a prune, after a prune torn there (`torn`), or when the run has failed after it had a
  package (`cut`).
* `LatestAreThere`: the packages of the `Keep` runs that ended last can be opened, while no run
  is deleted and until one ends a second time that a prune has listed or torn (`revived`).
* `KeepsAtMost`: when no task is at work, a package beyond the limit is of a run that was
  stale when a task was last cut short (`left`); the next prune that goes through takes it.
* `NoOrphanPackage`: a package of a run that has a row is named by it or about to be, unless
  the run's own task was cut short (`cut`).

What they say is that these are the only ways: no prune of another task, no deletion,
no death and no exception elsewhere breaks what a row says of its package. An exception
is taken before the effect of a step; after it, it is one before the effect of the next.

### SubdivisionCache

| variable | code |
|---|---|
| `portal` | the subdivision's name as committed in the portal database |
| `cache` | its `CachedSubdivision` row as committed in the cache database: name, `embedding_source_hash`, `embedding` |
| `holder` | the command whose open transaction has inserted or updated that row |
| `job` | each save or command: its kind, whether it has a model, `rebuild_embeddings`, its statement, the name it came with, the object it has in memory, `_skip_embedding_rebuild` |
| `renames` | changes of the portal by its own users, which send no signal |
| `alone` | history: the job that nothing has overlapped |

`BeginSave` is a save in the portal administration, whose `post_save` signal calls
`upsert_subdivision_cache`; `BeginCommand` starts `sync_subdivision_cache` or
`sync_portal_reference` with the list of the portal rows. `Get` is
`get_or_create` and what the writer assigns (a row it inserts is embedded by `save()` at
once, if there is a model); `HashRead` and `Update` are
`CachedSubdivision.save`, which reads the stored hash, decides about the embedding
and writes every column; `Commit` and `Abort` end the job. A command is one
transaction of the cache database, so the others see its row at its commit and
wait for it to write; a save is a transaction of the portal database, and its
writes to the cache stay whatever becomes of it.

A hash and an embedding are modelled by the name they were computed from: the
hash tells different names apart and an embedding is useful or not according to
the name it belongs to. The modes of the model are `loaded`, `missing` (it cannot be
loaded) and `skipped` (`SKIP_SEMANTIC_MODEL`). One subdivision is enough: a command
writes its rows one after the other and none depends on another.

`ReferenceModes` says how `sync_portal_reference` is run. That command, unlike the
other two writers, stores the new hash without the new embedding when it has no
model (Findings, 5), so the properties are checked and proved for `{"loaded"}`. In
mode `skipped` it relies on `save()` to clear the embedding, and `save()` does not if
another writer has stored the same hash meanwhile: `EmbeddingMatches` fails with
`"skipped"` in `ReferenceModes`.

### ReportAnalysis and what it composes

`ReportAnalysis` is `run_analysis_pipeline`: `Parse`, `Announce`, and for each event
`Read`, `Match`, `Store`, then `Finish`. It is the sequential program a worker runs
between the claim and the end of `RunQueue`'s task, where the events are only
counted.

| variable | code |
|---|---|
| `stage`, `left` | the statement the pipeline stands at, the events still to come |
| `report`, `cut` | the uploaded file with the templates and the PU chosen; the elements kept and the events |
| `case` | what is read in the event, and the cached subdivisions, the classifier and the portal at that moment |
| `attrs` | `ExtractedAttributes` |
| `predicted`, `result` | what `match_event` stores: type of event, event, pairs, flags, counts |
| `shown` | the card the results page makes of the stored row |

The modules below it have no state: they are the functions of the code as
operators. A **report** is a sequence of lines, each with the markers on it and a
text, and a text is known by its length and by its similarity to the others. A
**case** is a paragraph given by what is found in it: the hits of the four name
extractors with their spans, births, ranks, dates and times, words, similarities to
each pattern. So the regular expressions, the morphology and the sentence model are
inputs, and what the code does with their answers is the model: which hits are
merged, dropped, taken for employees, compared, preferred, shown.

* `DocumentSlicing`: `TemplateFor` chooses the template, `MarkerBlocks` reads its
  blocks, `SliceByMarkers` cuts a report with markers, `ApplySegments` one without by
  searching each anchor from where the block before ended, `SliceForRun` decides
  between them, `EventsOf` makes the events, with the fallback to the whole text that
  odt and pdf have. `AnchorsAgreeWithMarkers` compares the cut by markers with that of the
  report without them (`Unmarked`), for reports in which the comparison is meant: every END
  closes what the marker before it began (`Paired`), each anchor is the text of one line
  outside the blocks and no other line resembles it (`OwnAnchors`), and no block is too
  short (`BigBlocks`).
* `PersonExtraction`: `ExtractOffenders` merges and deduplicates the hits,
  `IsEmployee` and `RankBefore` split them, `StaffOf` makes the staff list.
* `OffenderMatching`: `MatchOffenders` folds `Place` over the persons, each of whom
  takes the best offender left; `StaffOverride` moves staff with an offender's
  surname to the persons.
* `SubdivisionMatching`: `MatchSubdivision` tries names, quoted names and meaning.
* `DateExtraction`: `DateTime`, `RuDate`, `RuTime`, `ArticleOf`.
* `EventClassification`: `RankEventTypes` reads the database, `SemanticPattern` and
  `SimilarPatterns` the caches of the process.
* `EventMatching`: `Candidates` are the four stages with their windows and LIMITs,
  `Score` and `SortKey` the order, `Chosen` the rule of two out of three, `MatchEvent`
  the result, `StatusFields` the colours.
* `EventCard`: `HighlightSpans` and `Shown` are the marked text, `OffenderReport` and
  `Comments` the words, `Card` all of it.

What the modelling brought to light without contradicting a document, so that it is
in the model and in no finding: a block whose start anchor is the last line is cut to
nothing when its end is not found; a line between two blocks is the end of one and
the start of the next, and the search passes it; a line
with an END before a BEGIN opens a block for `parse_template_marker_blocks` and none for
`slice_by_markers`, which looks at the line as a whole, and a BEGIN after a BEGIN is a new
block for the first and nothing for the second (so the agreement of the two is claimed for
`Paired` reports); a person without a birth date takes
a neighbour's within 60 characters; any word of six letters or more before a name is
read as a rank, so an excluded employee without one is on neither list and
"полковник Иванов И.И." on both; the ORM's search by offender may take the surname of
one offender and the birth of another; two equal offenders in the portal break
one-to-one, as pairs are found by equality; a person moved from the staff list has no
place in the text and is yellow whatever its match; the subdivision's status is that
of the report's candidate, whatever subdivision the event has. Two documents word what
the code does a little differently, in cases that no property speaks of: `doc/01` (line 19)
says that the longest match decides the type, and the code takes the best score; `doc/09`
(line 64) has a time green up to 30 minutes away, and the code has it green only when it is
exact, yellow up to 30 minutes and red beyond. The tests agree with the code on both.

### RuntimeSettings

| variable | code |
|---|---|
| `row`, `key` | the first row of `PortalDbConnectionSettings`; how often the key of its password was replaced |
| `config`, `sqlProfile`, `link` | of each process: `connections.databases["portal"]`, `PORTAL_PROFILE`, the open connection |
| `stage`, `applied`, `loaded` | what each process is doing, the row a web request applied, the row its page has loaded |
| `templates` | `SvodkaTemplate`: scope and whether active |

`BeginRequest` is the middleware, `BeginTask` a task, which applies nothing, `Query`
opens a connection, `End` closes it. `OpenSettings`, `SaveSettings` and `UseTestDb` are
the administration of the settings: the page is loaded and saved in two requests, so
two administrators may overwrite each other, and the button saves every column of the
row it loaded. `SaveTemplate` and `DeleteTemplate` are the templates: the database
refuses a second active one (`Taken`) before `SvodkaTemplate.save` comes to deactivate the
first. `Rekey` and `Restart` are a deployment with another key and a process that is
replaced.

## Runs

| run | instance | what it shows |
|---|---|---|
| `queue_faults` | 1 run, 2 requests of any kind, 2 processes, up to 2 events, all faults | one pipeline per run, complete and final outcomes, honest progress, the upload kept, deletion final, start-all alone with its run, delete-all away from what was started since it listed it, refinement of `RunJob` |
| `queue_orderly` | 1 run, 3 requests, 1 process, with and without debug packages, caught errors only, fairness | a run queued by one request settles; no upload stays behind after a deletion, nor, whatever fails in the pipeline, the package or the prune, after a started run |
| `debug_packages` | 3 runs, 2 processes, 1 package kept, 1 deletion, every step may raise, deaths | named packages can be opened, the latest survive, the limit holds, no orphan, but for what the task cut short itself leaves |
| `subdivision_cache` | 2 names, 3 saves or commands, 2 changes without a signal, models loaded, missing or skipped, errors | an embedding fits its name; one undisturbed save or command repairs the cache |
| `report_analysis` | 12 152 reports and about 15 000 paragraphs (below), at most 2 events a report | the cut, the persons, the match and the card |
| `runtime_settings` | 2 web processes, 1 worker, 2 addresses, 2 templates of one scope, 1 change of the key | a request is served as was saved; no template is displaced |
| `queue_status_poll` | violation | see Findings |
| `queue_late_cancel` | violation | see Findings |
| `queue_double_start` | violation | see Findings |
| `debug_package_left` | violation | see Findings |
| `reference_without_model` | violation | see Findings |
| `overlap_order` | violation | see Findings |

Bounds and why they are enough. Nothing in `RunQueue` relates two runs except the
batch handlers and the two pool processes they share, and what a batch handler can find
changed when it comes to a run it can find with one run: another request or a task
comes between its list and its lock. So one run is enough; the theorems hold for any
number. Two requests give every overlap of two handlers
with the task; `queue_orderly` has three, since a leftover of two handlers can meet
a third. Two processes are needed for two tasks of one run at once, and a third
could only do what one of these does. Two events make the loop go round, stop in
the middle and skip a progress save (`FlushEvery` 2); the proofs hold for all
values. In `DebugPackages` three runs with one kept are two stale ones, which two
tasks can prune in the same or in different steps. The constraint `FewBroken` stops
behind the states with more than two runs broken by tasks cut short, and, once a deletion has
begun, behind those with a broken run and no run left that waits: a deletion and a task cut
short meet with two runs at work, or with three when nothing is broken. The theorems hold
for any number of runs, deletions and tasks cut short at once. In `SubdivisionCache` two names
are the old and the new one; three jobs are two that overlap and one that comes
after them or changes the row between their steps; the proofs hold for any
number. The violation needs a row, a rename and two commands. Requests, and therefore tasks,
are never reused: every instance stops once they are spent, which is why deadlock
is not checked.

In `report_analysis` the input is enumerated, not a schedule. Reports are seven frames
(one block, without end anchor, without start anchor, two blocks apart or sharing a
line) filled with up to two lines a block, and reports of up to three arbitrary lines,
with and without a model, with both kinds of file and two thresholds; a text can be
long, just enough, too short, or resemble an anchor above or below the thresholds.
Paragraphs come in seven kinds, each of which varies one part of the pipeline over the
values its conditions tell apart: persons (who is found by which extractor, ranks and
births around them), comparison (two or three mentions against up to three
offenders), subdivisions, dates, types with old and new caches, the search (up to
three events around the borders of the windows) and the card (names, births, dates,
articles and marks that overlap). `StageLimit`, `OffenderLimit` and `NoDobLimit` are 2, so that a
LIMIT is reached with three events; `FallbackMaxElements` is 2 for the same reason;
`UnitsPerMinute` is 2, so that half a minute is rounded. `Gateway` is `"orm"`. The paragraphs
are independent of each other, so a second event of a report adds nothing but its
place in the loop. In `runtime_settings` two web processes give two administrators and a
request beside them; two templates of one scope are two that compete.

Symmetry over runs, requests, workers, processes and templates is used in runs without
liveness.

### Fairness

`FairSpec` assumes weak fairness of each handler that has begun (a web process
that is up goes on), of each pool process (it takes a waiting task and goes on
with it) and of a revoke that was sent. It assumes nothing of uploads, of the start
of a handler, or of faults. `queue_orderly` and `queue_double_start` use it, with
no fault that removes a process or a message: the code has no recovery for a run
whose worker was killed or whose broker call failed, and such a run stays as it is.
That is part of the model (`queue_faults`), not a property. `ReportAnalysis` has weak
fairness of its one process; no property of its run needs it.

### Findings

1. `queue_status_poll`: the status endpoint fails with an `AttributeError` as long as
   a listed run has no `progress_updated_at` (views.py:1552), which is every
   queued run, against `tests/test_upload_analysis_docx.py:354`.
2. `queue_late_cancel`: a cancel that overlaps with a start cancels a run that is
   queued or running (views.py:1333), against the test at line 659.
3. `queue_double_start`: two overlapping starts leave a run queued for ever
   (views.py:1211), against `README.md:44`.
4. `debug_package_left`: deleting a run that is being packaged leaves the zip on
   storage (views.py:1476), against the test at line 487.
5. `reference_without_model`: after `sync_portal_reference` has run once without its
   model, a renamed subdivision keeps its old embedding beside the new name and
   hash, and later runs do not compute it again (sync_portal_reference.py:117),
   against `doc/10_subdivision_semantic.md:11-12`.
6. `overlap_order`: among events that agree in offenders and one other respect the closest
   in time is taken, and the overlap of offenders decides only between those at the same
   distance (services.py:2478), against `doc/18_event_matching_fallbacks.md:13` and `:18`, which have
   it the other way round. The instance is two people and two events. Which of
   the two is meant is a question for the team; `ClosestOfEqual` states what the code
   does.

The sharp forms of the same properties that do hold are checked beside them:
`QueuedOnceSettles`, `OutcomeFreezesResults`, `NamedIsThere`, `NoOrphanPackage`,
`OneRunRepairs`, `ClosestOfEqual`.

## Proofs

Each theorem holds for every value of the constants that satisfies the named assumptions of
the modules. Proofs about operators rest on three kinds of lemmas, described first.

### Lists and folds

The provers know nothing of `SelectSeq`, `SortSeq` and `SetToSortSeq`, and a fold is a
recursive function of which only its equation is known. `Lists` therefore has `Filter`, a
fold, and `Sorted`, which puts at place k the element with k - 1 others before it; the modules
that are proved about use these. `Lists_proofs` shows once what each gives: a filter keeps
the order and loses nothing that fits (`ListMembers`), a sorted finite set is a list of all of
it in its order (`Sorting`), a fold over an interval has a solution and can be unfolded by a
step (`FoldExists`, `FoldUnfolds`). The library's induction theorems cannot be instantiated, as
they take an operator; what is needed of them is stated with sets instead: the set of the
numbers up to which something holds contains 0 and with each number the next (`UpTo`,
`Stays`, `ListStays`). In this way the invariant of a fold is proved like the invariant of a
specification, from its first state and from one step.

### RunQueue

`RunQueue_proofs` proves for any sets of runs, requests and workers, any number of
events and any flush interval, and under all faults (only
`RunQueueAssumption` is used; `NoUploadLeft` alone has a hypothesis):

| theorem | of |
|---|---|
| `TypeCorrect` | `TypeOK` |
| `StartsOnce` | `AtMostOnePipeline` |
| `DeletedForGood` | `DeletedStaysDeleted` |
| `DeleteAllSpares` | `DeleteAllSparesStarted` |
| `UploadKept` | `UploadIsKept` |
| `StartAllIsAlone` | `StartAllHoldsPending` |
| `DoneIsWhole` | `DoneIsComplete` |
| `ProgressIsHonest` | `ProgressIsBacked` |
| `ResultsAreFinal` | `OutcomeFreezesResults` |
| `QueueImplementsRunJob` | `ImplementsRunJob` |
| `NoUploadLeft` | `NoOrphanUpload`, if no web process dies between two statements (`"web_abort" \notin Faults`) |

The argument has four layers.

* `Typed` strengthens `TypeOK` with what typing the actions needs: a handler past
  its first statement has a run, a process that is not idle has a task and the run
  of that task, a listed run is a run.
* `Ownership`: a run is claimed at most once, `started_at` is set if it was, and at
  most one process works on it. It is not inductive to say only "claims <= 1": the
  claim must know that an unstarted row was never claimed, and a deleted run must
  never come back. Every step has one of a few effects on the phases (`Effect`:
  accepted, started, removed, stored, or calm), which gives the invariant, the
  refinement and the action properties at once, so the long case split over the
  actions is done once (`NextEffect`).
* `Locks`: at most one start-all transaction holds a run, and it is pending
  meanwhile. Needed because start-all saves QUEUED at its commit without looking
  again.
* `Pipeline`: how many paragraphs, results and processed events there are at each
  statement of the worker (`Stored`), and that a run that is done is complete.
  `DoneIsComplete` needs it for the process that has just finished its loop;
  `OutcomeFreezesResults` needs it to know that a process between two
  results works on a run that is not shown as done or failed.

`Kept` combines the four; the theorems follow from it. `NoUploadLeft` is of its own: once a row
is gone its handler stands before the removal of the file, and a process that dies there is the
one thing that leaves it behind.

### SubdivisionCache

`SubdivisionCache_proofs` proves, for any names, jobs and number of renames and
with `ReferenceModes \subseteq {"loaded"}` as a hypothesis of the last two:

| theorem | of |
|---|---|
| `TypeCorrect` | `TypeOK` |
| `EmbeddingsBelong` | `EmbeddingMatches` |
| `OneRunSuffices` | `OneRunRepairs` |

`EmbeddingMatches` is not inductive, as a row is written whole from an object read
earlier: `Matching` says the same of every object in memory. It needs no locks, only
that each writer keeps name, hash and embedding together (`PreparedMatched`).
`OneRunRepairs` needs two facts more: `Filled`, that an object that has been read
carries the job's name and, with a model, its embedding; and `Undisturbed`, that
nothing has changed the portal or the row under a job that is alone.

### RuntimeSettings

`RuntimeSettings_proofs` proves, for any sets of processes, addresses, passwords and
templates and any number of changes of the key:

| theorem | of |
|---|---|
| `TypeCorrect` | `TypeOK` |
| `RequestsServeAsSaved` | `ServedAsSaved` |
| `NoTemplateIsTakenOver` | `NoTakeover` |

`IInv` strengthens `ServedAsSaved` by what makes it inductive: `ConfigFollows`, that the
configuration of a process in a request is what `Desired` makes of the row it applied;
`LinkIsConfig`, that an open connection was opened with the configuration the process
still has, which is why `Apply` must close it when, and only when, that changes; and
`PageHasRow`, that the row a page has loaded is still there. `NoTakeover` needs only `TInv`, the
typing of the templates and that at most one of a scope is active.

### DebugPackages

`DebugPackages_proofs` proves, for any number of runs, tasks and deletions and any `Keep`,
whatever raises and whatever dies:

| theorem | of |
|---|---|
| `TypeCorrect` | `TypeOK` |
| `NamesLead` | `NamedIsThere` |
| `NoOrphans` | `NoOrphanPackage` |
| `LatestStay` | `LatestAreThere` |
| `KeepsTheLimit` | `KeepsAtMost` |

None of these is inductive, and none has a hypothesis beyond `DebugPackagesAssumption`.

* `Typed` adds that a package carries the number of the run it is of, in columns, deletions
  and the lists of prunes.
* `Owned` says that a run has one task, and a queued run no package. `First` says that until
  the task of a run names its package, no prune has the run on its list and the file is
  there, unless the task was cut short with a package, and that it then has failed: so the second
  round of a task is the one case in which a package meets a list made for another.
* With both, `NamedIsThere` is inductive (`NamedNext`).
* `Calm` says that a list of stale runs agrees with the columns of the runs whose
  task was never cut short. It gives `NoOrphans`: a prune that clears the name of such a
  run has deleted the file of that name.
* `Latest` says that none of the runs that are, or with a package would be, among the latest
  `Keep` is on any list: a list made earlier holds only runs that were too old then, and
  no run gets younger but by ending again, which is `revived`. With `NamedIsThere` for a
  run that has failed it gives `LatestStay`.
* `Covered` is the converse, from which the limit follows: a run that is too old is on the list
  of some task, or was `left`, or a task is still going to make its list (`Listing`, the
  except clause included).

### The analysis of a report

`ReportAnalysis_proofs` proves, for any reports, templates, paragraphs, portals, similarities,
windows and limits:

| theorem | of |
|---|---|
| `TypeCorrect` | `TypeOK` |
| `SomethingIsKept` | `CutKeepsSomething` |
| `OnePairEach` | `PairsOneToOne` |
| `NobodyIsLeft` | `NoPairIsLeft` |
| `GreenHidesNobody` | `GreenOffendersAreComplete` |
| `ChosenHasPair` | `MatchedByOffendersHasPair` |
| `TwoAreEnough` | `TwoOfThreeIsFound` |
| `ClosestIsChosen` | `ClosestOfEqual` |
| `PredictedFitsBest` | `PredictedIsBest` |
| `TimeBesideDate` | `TimeOutsideDate` |
| `ColoursAreExplained` | `CommentsExplainColours`, under `ThresholdsAgree` |
| `StaffOverrideKeeps` | `NobodyIsDropped` |
| `MissingIsSeen` | `MissingIsShown` |
| `AcceptedHasName` | `AcceptedIsNamed`, under `LowIsNotEnough` |
| `EmployeesAreStaff` | `RankedAreStaff`, under `TextsArePlain` |
| `MarkersAndAnchorsAgree` | `AnchorsAgreeWithMarkers` |

The invariants of the specification are simple: `Bound` says that while an event is in work its
attributes, its result and its card are those computed from the same paragraph, and `Typed`
what each stage has. The work is in the operators, module by module.

* The cut: each of its folds has an invariant over the lines or segments so far: `Reading` for
  the blocks of a template, `Slicing` for the lines between markers, `Sound` for anchors
  (the cursor does not pass what is kept). `SliceLeaves` puts them together.
* The two ways to cut: three folds over three lists of lines are compared by saying, for each,
  which lines it keeps. The blocks that are read are the pairs of markers (`BlocksAre`, by
  `ReadTo`: half as many blocks as markers so far). A line is kept by the markers while one of
  these pairs is open (`OpenBetween`), and, as an anchor is outside the blocks, that is
  exactly between the start and the end anchor of one (`FramedCuts`). Without the
  markers the same lines have other numbers in the same order (`At`, `PlainIsCut`). There the search
  finds each anchor, since its line comes after the end of the block before and no other line
  resembles it (`SoleIsFound`), so each segment keeps what is between (`AnchorsCut`, by
  `AppliedTo`). Both list their lines upwards, and so they are one list (`RisingSame`).
* Comparison (`OffenderMatching_proofs`): `PlacedUpTo` is the invariant of the greedy
  pairing after k mentions. It needs to be stronger than what is proved: who
  is used is paired (by the index of the first equal offender), mentions are paired in
  their order, everyone so far is paired, possible, ambiguous or lost, and whoever is not
  paired fits nobody free. Beside it, that the extractors' lists are lists
  (`ListsIn`), since the pairing is of positions.
* Search (`EventMatching_proofs`): each stage has either looked at everything in its window or
  ended with two that agree (`Searched`), as long as no LIMIT has cut a query, which
  `TwoOfThreeIsFound` says by `Unlimited`. Candidates are compared by five numbers, so a
  best exists (`BetterIsAbove`, `ChosenIsBest`).
* The override and the choice compare different lists: the choice the people of the paragraph
  without their text, the comparison those after the override. `PairStays` shows that who was
  counted is still there.
* The type: the best pattern of each type and the best type are the best pattern of all
  (`RankedIsBest`); the caches are asked only below the threshold (`PredictedFits`).
* The subdivision: one is accepted for its cosine only above the threshold, or by a name in
  quotation marks, which then was found by name and has one of two fixed scores
  (`AcceptedScore`). This is why an accepted subdivision is never red. That its name is in the
  text has three reasons, one for each way: the last word of a name that is found (`FindIs`),
  the first of the quoted words, or a key word, since without one a cosine, at most 1, is multiplied
  by the low factor (`MeaningIsNamed`). It is not within another name since that one, with
  more words over the same part of the text, has more characters (`WithinIsShorter`, over the fold that
  counts them) and is sorted before it (`SubstringIsNamed`); the other two ways are only
  asked when no short name is in the text.
* The staff: the words of a rank are the last before the name (`RankIsLast`), so
  `is_employee_context`, which looks at three, sees what a rank of three words has
  (`RankedIsEmployee`). Repetitions are dropped three times, and what is kept in the end may be
  neither at the place nor with the key of what was found: it is only chained to it. The
  invariant of the fold is that no surname is lost (`DistinctNamed`), if what overlaps is of one
  surname. The proof therefore gives more than the property: somebody of the same surname.
* The card: without a reported difference in the people the pairing is a bijection between
  mentions' pairs and offenders (`OffendersReported`), so the colour can only be green.
* The marks: they are a set, ordered by place, length and the order in which the code makes
  them (`MarksInOrder`). The fold that shows them has the invariant that each mark so far is
  shown or begins inside one that is (`ShownCovers`). What stands where a name does can be no
  employee (`StrongMarksAre`, from the guard of `StaffBeside`) and no words about the type
  (`HighlightsAre`). Where the mark shown is that of the same name, it must be red and not the
  yellow of a namesake: people whom the override adds come last and have no place of their
  own (`MatchedPlaces`), so theirs is never the first of equal marks (`NameIsShown`).

The assumptions used: `SlicingAssumption` and `ReportsAssumption` (documents are sequences of
lines, thresholds are numbers), `SearchAssumption` (minutes have units; windows, limits and
thresholds are numbers; an event is not `NoEvent`), `DayAssumption`, `ClassifierAssumption`,
`SubdivisionAssumption` (thresholds are numbers, the low factor is not negative, at least one
match is kept),
`WindowAssumption` (the window of a birth is a number) and `CasesAssumption` (what is read in a
paragraph is typed, what stands in the text starts before it ends, a portal has times and
lists, ids of patterns and subdivisions are unique, a cosine is at most 1, a part of a word is no
longer than the word). They say what kind of thing the inputs are, not how they
relate. Three theorems have hypotheses about values, which are stated with the model and which
TLC finds true of the instances of `MCReportAnalysis` (`HypothesesAssumption`).
`LowIsNotEnough`: the factor of a name that has no word in the text is below the threshold of
acceptance (settings, 0.1 and 0.75). `TextsArePlain`: no rank before a name has more than three
words, and what overlaps with its rank is of one surname. The code relies on both without
checking them: the markers of `_RANK_MARKERS` that `EMPLOYEE_MARKERS` lacks ("полковник",
"ранга") can make a fourth word that `is_employee_context` does not reach, and in a text where a
surname read by `_STAFF_RE` overlaps another name that repeats elsewhere, the staff may lose
one of them. `ThresholdsAgree`: the first window is no wider than
the time that is no error (both 30 minutes), and the threshold of yellow (75) is no higher than
that of acceptance (a setting, 0.75) nor than the score of a quoted name (90). With
`SUBDIVISION_ACCEPT_THRESHOLD` below 0.75 a card may say "no differences" beside a red
subdivision.

### Only model-checked

* Liveness (`QueuedOnceSettles`, `UploadsAreReclaimed`): the provers have no rules for fairness.
* The findings, whose properties are false.

Every invariant and every other safety property of a passing run is stated by a theorem.

## Plan

1. Done: the run lifecycle, its proofs, the debug packages.
2. Done: the cached subdivisions and their proofs. Left of the reference cache: the
   PUs and their embeddings, which only the unused PU detection reads, and `--reset`.
3. Done: the analysis of a report, from the cut to the card, by composition of the pure
   modules.
4. Done: portal settings and template activation, with proofs.
5. Done: proofs about the debug packages and the analysis of a report.
6. Next, model: the pages that read while a task writes (`views.py:1681`), the import of the
   classifier, several templates saved by one changelist.

## Not modelled

The regular expressions, the morphology and the sentence model (inputs of the paragraphs),
reading docx, odt and pdf, the text of SQL queries, page layout and the formatting of
values, the preview of a template, table rows (no caller of the parsers gives them), PU
detection (nothing calls it), forms, the import of the classifier, the browser script, the
launcher's arithmetic, release and installation scripts. `PROJECT.json` gives the reason for
each part.

## How to check

    tlc -config MCRunQueueFaults.cfg MCRunQueue
    tlapm RunQueue_proofs.tla

and likewise for the other `.cfg` files. The largest runs take one to two and a half minutes, each
module of proofs between a quarter of a minute and ten minutes.
