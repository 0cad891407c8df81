# A verification project for AtamuraOKK

AtamuraOKK pulls the calls of a sales team out of Bitrix24, downloads the
recordings, transcribes and scores them with paid services, and shows the
results to managers and their heads. Postgres holds everything; a call is a row
of `calls` that several processes move from status to status. This directory
holds TLA+ models of that system, the TLC runs that check them and theorems
about them that TLAPS proves.

## 1. The system

| part | state it keeps | operations | who calls it |
|---|---|---|---|
| call life cycle (`dispatch/claim.py`, `db/models/call.py`) | `status`, `claimed_at`, `attempts`, `audio_object_key`, `analyzable` of a row; rows of `transcripts` and `scores` | `claim_ready`, `reclaim_stale` | every process that moves calls |
| dispatcher (`dispatch/dispatcher.py`) | none; arq queues in Redis, cache-only | tick = reclaim, ingest, claim and enqueue per stage; hourly retry; half-hourly requalification | arq cron, ticks may overlap |
| stage workers (`dispatch/worker_settings.py`, `tasks.py`) | job slots | `download_one`, `transcribe_one`, `score_one` | arq, one job per queued id |
| retry (`ops/retry.py`) | none | `requeue_failed` | hourly |
| ingestion (`ingestion/service.py`) | the cursor, the calls' scope columns | `run_ingestion`, `refresh_qualification`, `_apply_scope` | the tick; a cron of its own |
| single-process worker (`worker.py`) | none | the whole pipeline in sequence, reports with a pre-pass | APScheduler |
| batch scoring (`scoring/batch.py`) | `score_batches`, claims held for hours | submit, heartbeat, poll, drain | an operator |
| score settling (`scoring/worker.py`) | `scores.notified_at`, transcript labels | assemble, relabel, cash-buyer alert | both scoring paths |
| deal audit (`audit/`) | cursor, verdict rows, judge batches | `run_audit`, `poll_batches` | two crons |
| meetings (`scoring/meetings/`) | recordings with a status machine | score, rescore, push to the webhook | its own worker, the CLI |
| companion API (`web/api/v1/service.py`, `views.py`, `auth.py`) | appeals, user keys, departments of managers | file and review an appeal, create and revoke a key, read calls, meetings, scorecards, exports | HTTP |
| live screens (`web/api/v1/day.py`, `hygiene.py`, `analytics.py`) | caches in the process | count over the Bitrix funnel: the day, the team, the month, hygiene, the spreadsheet of tasks | HTTP |
| report (`reporting/`) | none | a manager's day as a workbook | a cron |
| Bitrix client (`bitrix/client.py`) | none | call with retry and backoff, batch, pagination | everything that reads Bitrix |

What is hard here: nothing locks a row while the slow external call of a job
runs; the status is the only sign of ownership, so whoever sees the right status
may write; a claim is taken back by time alone; Redis may forget every job; a
worker may die anywhere; and several passes (retry, requalification, backfills)
read rows, decide, and write by primary key. `PROJECT.json` lists each hazard at
its line.

What makes the parts correct:

- **life cycle**: a claim can always be taken back; a call follows its stages; no
  status promises an artifact the call does not hold; attempts are counted once
  and bounded; a call comes to rest whatever is lost.
- **dispatcher and workers**: a live job is not reverted, no job runs twice.
- **ingestion**: the cursor never passes a call that was not stored, and always
  advances; the scope rule leaves calls alone that are past NEW, and the verdicts
  of the old rule.
- **batch scoring**: a call of a live batch stays claimed; a result settles the
  claim it was paid for; every batch is drained.
- **score settling**: one alert per call; labels are swapped at most once.
- **audit**: each closed deal is judged or submitted again; the cursor passes no
  deal without a verdict, however passes overlap.
- **meetings**: the result that is pushed is the last one; attempts are bounded.
- **appeals and keys**: one open appeal per call, a verdict whose columns belong
  together; the department a head gave a manager stays; one rule of scope at every
  endpoint.
- **screens**: one number for one call (and for a manager, as far as roundings and names
  allow), one count for one deal, wherever it is shown;
  a bound on how old a number may be.

## 2. Plan

Order of modules, the most important behaviour first.

| # | module | composes | to show | status |
|---|---|---|---|---|
| 1 | `CallStages`, `CallPipeline`, `CallLifecycle`, `Requalification` | pipeline over stages; pipeline implements life cycle; requalification beside pipeline | section 4 | modelled, checked, proved |
| 2 | `ScoreBatch` | `CallPipeline` | a result settles its own claim, batches drain, no double payment while the poller runs | modelled, checked, its safety proved |
| 3 | `CallIntake`, `Ingestion` | the passes implement the intake | nothing slips the cursor, no backlog stops it, the earliest call is first, no call after the qualification | modelled, checked, proved |
| 4 | `ScoreSettle` | - | one alert per call, labels turned once | modelled, checked, proved |
| 5 | `AuditPass`; `AuditRules` | - | no closed deal is left behind, what overlapping passes can and cannot spoil, batches settle; findings are true | modelled, checked, the safety proved |
| 6 | `MeetingBoard`, `MeetingPipeline` | the pipeline implements the board | paid work is kept, what is pushed is the last result, every meeting rests | modelled, checked, the safety proved |
| 7 | `CabinetAccess`, `OkkScale`, `Appeals`, `CabinetScreens` | screens over appeals over keys and departments and the arithmetic of a score | one open appeal, one whole verdict, one number everywhere | modelled, checked, proved |
| 8 | `BitrixFunnel`, `FunnelReads`, `ScreenCaches` | reads over the funnel; the age of what is cached | the screens agree; nothing is too old | modelled, checked, proved |
| 9 | `WorkerProcess` | `CallStages` | the sequential worker, its crash without a reconciler | not written, see section 6 |

Abstract specifications: the life cycle of one call (`CallLifecycle`), "recorded
calls are taken in for good" (`CallIntake`), "the cabinet shows a verdict that was
given and never an older one again" (`MeetingBoard`). What would come next: the
sequential worker.

## 3. The modules and the code

### CallStages
The stage table of `dispatch/claim.py`, the statuses of `CallStatus`, where a
failed call resumes (`requeue_failed`) and what a failure or a download does to
`attempts` (`_apply_download`). `PUSHED` exists in the enumeration and is written
by nothing. What a call holds is a set of `audio` (`audio_object_key`),
`transcript` and `score`; nothing in the pipeline removes one.

### CallPipeline
| TLA+ | code |
|---|---|
| `ClaimReady(s)` | `claim_ready`: one UPDATE over up to `ClaimBatch` ready rows; SKIP LOCKED makes any subset possible |
| `EnqueueJob`, `pending` | the loop of `dispatch_tick` after the claim has committed |
| `ReclaimStale(s)` | `reclaim_stale`, first thing in a tick |
| `JobStart`, `JobSkips` | first transaction of `download_one`, `transcribe_one`, `score_one` |
| `JobReads`, `JobSuperseded` | the re-check after the external call |
| `JobSucceeds`, `JobParks`, `JobFails` | what the settling transaction commits |
| `JobTimesOut`, `JobKilled`, `QueuesLost`, `DispatchLost` | arq's timeout, a dead worker, a Redis restart, a failed pass |
| `RetryReads`, `RetryWrites` | `requeue_failed`: the window of the `RetryLimit` oldest FAILED rows, dead letters among them; those under the cap are put back |
| `olderFailed` | the order `updated_at` gives the FAILED rows; every UPDATE of one through the ORM moves it to the end |
| `ClientFactsChange` | `_recompute_scope` writes a client's new facts to a FAILED call, too, and so renews its `updated_at` |
| `RequeuePendingKk`, `RequeueScoredForRelabel` | the two backfill commands |
| `ApplyScope` | `_apply_scope` as an ingestion pass runs it |
| `Midnight` | `report_today_start`: automatic scoring takes only today's calls |

Decisions a reader should know:

- The settling transaction is two steps, because it runs at READ COMMITTED and
  `session.get` locks nothing: another commit can fall between its read and its
  write, which goes by primary key. `attempts` is written only by the paths that
  change it, since the ORM writes changed columns.
- Ticks overlap (arq starts a cron job whatever the last one does), so reclaiming,
  claiming and enqueueing are independent actions. `pending` can be a set: a tick
  is cancelled after arq's 300 s, before any claim of it is stale, so one id never
  waits twice.
- The two backfill commands are an operator's, and the window between their SELECT
  and UPDATE is milliseconds: one step. The requalification pass holds rows for
  minutes: two steps (`Requalification`). The retry pass is two steps as well,
  and one at a time, as its cron is hourly.
- The verdict of the scope rule is the environment's choice; a scope pass may
  reopen any SKIPPED row, as the code does.
- The retry pass reads its window first and drops the dead letters from it afterwards,
  without writing them, so they keep their places: `RetryLimit` of them, older than a failed
  call, hide it from every pass (`Starved`). Only a write that has nothing to do with
  retrying moves them. `EventuallyRests` excepts
  these calls, and no others: such a call can wait for ever.
- An ORM update with `claimed_at` untouched, as in `RetryWrites`, leaves the claim
  time alone.
- arq is external: a job that timed out is not run again; a job whose worker died
  may be (`Redelivers`); a queue is served in order.
- The single-process worker and the CLI run the same functions in one process:
  for one call that is a claim enqueued and started at once.

### CallLifecycle
The abstract specification: every call is a machine of its own, with no workers,
queues, jobs or clocks. A claim ends in exactly one outcome, every failure and
every download counts once, a call whose attempts are used up stays FAILED.

### Requalification
`CallPipeline` with `refresh_qualification` beside it: `RequalifyLoads` reads unclaimed
NEW rows (any of them: the window and what is known of a client decide which),
`RequalifyWrites` applies the rule to the rows as loaded; a row that stays in scope gets
`analyzable`, and the flush writes the columns that differ from what was loaded
(`flagged`). What survives this is proved for all constants (`RequalificationIsSafe`);
what does not, the run `call_requalify` shows.

### ScoreBatch
`CallPipeline` with the batch path of `scoring/batch.py` beside it.

| TLA+ | code |
|---|---|
| `SubmitClaims` | the claim and `_load_requests` of `submit_pending`: a call without a transcript fails at once |
| `SubmitSends`, `SubmitRejected` | one `create` per chunk of `anthropic_batch_size`, and the release of a chunk whose request raised |
| `SubmitUnanswered`, `OrphanEnds` | the provider accepts a chunk and the answer is lost: it runs a batch no row knows, and the command sends the chunk again or takes it for refused |
| `SubmitRegisters` | the `ScoreBatch` row, in a transaction of its own after the provider has accepted |
| `PollStarts`, `PollHeartbeats`, `PollDrains` | `poll_batches`: the rows in flight are listed once, each is retrieved and either renewed (`_heartbeat`) or drained |
| `PollReads`, `PollSkips`, `PollSettles` | one result: `_persist_result`, `_fail` or `_release` reads the row, returns unless it is SCORING, and writes |
| `PollCloses` | the row becomes `done` |
| `SubmitDies`, `PollDies` | the command dies, or an exception ends it, between any two of these |
| `ProviderEnds` | external: a batch ends with an outcome for each call |

- Both are commands of an operator, so one submit and one poll at a time; beside
  them the dispatcher, its jobs and the backfills do all they do in `CallPipeline`.
- A row that is `done` is never read again: its name is free for another batch. A
  batch whose submit died before the row was written, or whose answer was lost, is an
  orphan (`orphans`): the provider runs it and is paid, nobody polls it, and its calls come
  back into the pipeline, by the release or by the reconciler. `OnePayer` counts the
  payers the system knows of; an orphan beside one of them
  is a call paid for twice, which the code allows and no property denies.
- The transaction of one result is two steps, like the commit of a job and for the
  same reason. The cash-buyer alert may be sent in between; the row has been flushed
  and is locked by then.
- A submit takes all TRANSCRIBED calls or only those that are not today's,
  according to `include_today`.

### CallIntake, Ingestion
`run_ingestion`, two passes at a time. Bitrix is the constants of a behaviour: when
each call starts, is listed, and is recorded, and when its client qualified. A call is
listed when it ends and kept when its recording is attached, so calls appear behind
rows that were read long ago.

| TLA+ | code |
|---|---|
| `Since`, `PassStarts` | `_since_filter` on the cursor of `IngestState` |
| `PassFetches` | `BitrixClient.list`: a page by offset, at most `ingest_batch_size` rows a pass; `_kept` decides as the page is read |
| `PassUpserts` | `_upsert_call`, which waits for a row that another open pass has written (`mine`) |
| `PassAsks` | `QualificationChecker.qualified`; a lookup that fails answers "unknown" |
| `PassReads` | the SELECTs of `_recompute_scope`: all calls of the clients, as committed or written by this pass |
| `PassCommits` | `_apply_scope` over what was read; the flush, which writes the columns that differ (`Flushed`) and waits for rows another open pass has written; the cursor; the commit |
| `PassDies` | an error, a deadlock or arq's timeout: everything is rolled back |
| `Claimed` | `claim_ready` (SKIP LOCKED); the status "past" stands for everything behind NEW |

- The frozen verdicts: `_apply_scope` compares a column that is loaded as a plain string
  with `is CallStatus.SKIPPED`, so the rule it documents never fires on a row from the
  database. `ScopedStatus` (and `ApplyScope` of `CallPipeline`) reopen any SKIPPED row.
- `OverlapCovers` and `LimitCovers` say what the two settings must cover: the longest
  call, its recording's delay and a pass for the overlap; the rows between the overlap
  and the next kept call for the limit. With less, calls do slip or the cursor stands
  still; the code has no other protection.
- `misread` remembers the clients of whom a verdict was written that no row lock orders:
  a failed lookup has hidden the qualification, or a pass that asked before the
  qualification held only new rows of the client while another pass, which has seen it,
  waited for none of them (`Overtaken`). Their calls may be let in, and claimed, after the
  qualification, until a pass reads them again.
- `crossed` remembers the clients of whom two passes each stored a new call and read the
  calls before the other had committed. READ COMMITTED lets neither see the other's, so
  each may mark its own as the first; the next pass over the client puts it right.
- A pass that asked before the client qualified does not undo a later answer, and that is
  the row locks' doing: the fresh pass has a changed `client_qualified_at` to write on
  every row it read, so it waits for the rows the stale pass has written. Without the
  locks (mutant `LockedForNone`) a skipped call is reopened.

### MeetingBoard, MeetingPipeline
The pipeline of recordings in `meetings.db`: `run_pipeline` and `drain_pipeline` with
their stages (`Ingest`, `Download`, `Transcribe`, `Score`, `Publish` and `Mark`), the
store's UPDATEs (`Upserted`, `Bumped`, `Reopened`, `Rescored`), the retry job and the
`rescore` command at any moment between them, and a process that stops in the middle
of a pass. A stage claims with a plain SELECT and writes by primary key later.
`overtaken` marks a recording that is rescored while its old verdict is being pushed:
`mark_pushed` looks at nothing, so the new verdict of such a row is never pushed.

One process runs the passes (the scheduler's job is `max_instances=1`); the stage
commands of the CLI beside it, and so the two steps of `bump_attempt`, are not
modelled, nor is the backstop `max_passes` of the drain. A pass keeps what it has claimed
as a set of rows and goes through it oldest meeting first, the order of the SELECT.

### AuditPass, AuditRules
`run_audit` and `poll_batches` of `audit/`. The cron starts a pass every half hour and lets
it run for an hour, nothing limits how many run, and the command line starts others: several
passes run at once (`Passes`), each with what it has read.

| TLA+ | code |
|---|---|
| `PassLists`, `PassReadsDone`, `PassReadsInFlight` | the listing from the cursor on; `done_ids` and `in_flight`, two statements |
| `Fresh`, `Done`, `NewCursor` | `_resolve_targets`, an entry's "done", the leading run of done deals |
| `PassCommits` | `_settle_and_persist`: the verdicts, the batches with their pending rows and the cursor in one transaction; the upsert asks nothing of the row it finds, and the cursor is written over whatever it has become |
| `PollStarts`, `PollRetrieves`, `PollPasses`, `PollDrains`, `PollCloses` | `poll_batches`, a transaction per deal; `Drained` is `_settle` and `_drop_pending` |
| `PassDies`, `PollDies` | either process dies or is rolled back at any point |
| `BatchEnds`, `OrphansEnd` | external: the provider ends a batch, known or not |

- Deals enter the lost stage in the order of their CLOSEDATE (the assumption on
  `ClosedAt`); a deal that is put there with an older date than the cursor is not seen
  by the code, whatever the rest does.
- A pending row that the poller drops between the two reads counts as done, and so does
  a deal without a transcript: the cursor passes them. `excused` is exactly these.
- A pass that commits over a deal which another running pass has also found open makes the
  deal `contested`: the later upsert wins, a settled verdict can become pending or an error,
  also behind the cursor, and the deal can be in two batches. The safety properties except
  exactly these deals. Transactions that write one row
  wait for each other, so commits are one step; two first passes that both insert the cursor
  row end as `PassDies` for one of them.
- A batch that was accepted before its pass is rolled back, or whose answer is lost, runs,
  is paid and belongs to nobody (`orphans`); its deals are submitted again.
- A poll that died drains its batch again. If the deal has been dropped and submitted once
  more by then, the old result takes the pending row of the newer batch: `redrained`.
- A batch that never ends keeps its deals pending for ever. The fairness of `audit_live` takes
  the provider's word that a batch ends within a day.
- One poll runs at a time: its timeout is its cron's period. A manual poll beside it is left
  out (`_drop_pending` reads and then deletes, so it could delete a verdict the other has
  just settled), and so is the command line's `--limit`.

`AuditRules` is what the duplicate and the telephony check conclude, and which findings
a manager is shown, as operators over one state of the portal, which the run enumerates.
It assumes `audit_dup_max_deals >= 2` (the deal itself takes a place in the list). A list
that is ordered by creation or date and cut at a limit is the set of items with fewer than
that many before them (`Oldest`, `Latest`): nothing about a finding depends on the order.

### ScoreSettle
The transaction at the end of a scoring job, for several jobs of one call and jobs that
die: the upsert that takes the row's lock (`JobUpserts`), the cash-buyer notice that is
sent while the lock is held (`JobNotifies`), the labels and the commit (`JobCommits`).
`notified_at` is read after the upsert, so a second job waits and then sees it. The
verdict of the labels is read before; `manager_side_applied` decides at the commit.

### CabinetAccess, OkkScale, Appeals, CabinetScreens
`CabinetAccess` has the writers of `managers` (the enriching pass, key issuance, the
roster import) as ORM transactions that load a row and flush the columns that differ
from it, the keys, and the rule of scope as each endpoint writes it. `crossed` are
managers of whom two transactions had both loaded the row before either wrote.

`OkkScale` is the arithmetic of a score: `_assemble`, `recompute_percent`, the zones,
the five-point scale. `Appeals` has filing and reviewing, each as a read and a write
with other requests between; `rival` and `overlapped` mark the races the code leaves
open (two filings past the check; two reviews of one appeal that write only the columns
they changed). `CabinetScreens` computes from that state what the feed, the CRM card, the
feedback page, the scorecards, the team, the trend, the export, the report and the queue of
calls without a meeting show. A feed is merged from the first `FeedLimit` calls and the
first `FeedLimit` recordings, each newest first (`Leading`); that a manager has one
call at a time makes this order total (`ScreensAssumption`).

The screens do not compute a manager's number alike, and the module follows each:

- `PythonMean`: card, team and export round in Python, where a mean halfway between two
  tenths goes as its binary quotient falls (86.25 is 86.2), which depends on the rows alone
  (`TieUp`: the `sum` of the required Python 3.12 compensates, so their order does not
  matter). `SqlMean`: the trend rounds in PostgreSQL, halves up.
- The cabinet groups by id, the export and the report by full name (`ExportName`,
  `ReportName`); "ID n" is the export's name for a manager without one, and the report has
  one line for all of them.
- A manager's card and feed take the meetings he uploaded (`uploaded_by`), team and
  export those of his row (`manager_id`, which the push sets from the uploader and a
  deletion of the row clears).
- The trend and the report show the model's verdict, whatever appeals corrected.

`HeadlinesAgree` is what remains true: one number for a call everywhere; a card and the
same manager's line of the team; the lines of export and report where the name on them
belongs to one manager; the trend up to that tenth; and departments that add up, whoever
shares a name.

### BitrixFunnel, FunnelReads, ScreenCaches
`BitrixFunnel` is external: deals, the stage history, activities and comments as people
change them, taken from what the screens ask of them. `FunnelReads` computes the queues
and counters of the day, the team with its checkpoints, the month, the hygiene shares,
the spreadsheet. A list is a set with an order: what is worked before a deal is counted
(`Place`), and the round robin over the queues of `_select_action_deals` is the order by
place, then by the queue met first (`SoonerTurn`). `ScreenCaches` follows the age of the
data through the caches: a request reads in several steps, shared counts have a lifetime
of their own, the finished view another, "check again" goes around them.

Left out of these three: the labels of close reasons (`_enum_label_cache` of
`analytics.py`), which live as long and only word a row; restarts, which empty the caches;
and the difference between the portal's clock and the report's: a window is asked of Bitrix
by dates, which it takes in its own time zone, and what comes back is cut into days in the
report's (`day.py:764`, `day.py:861`), so in a portal of another zone the deals around
midnight can be counted on one screen and not on another. The model has one day. A scan that
reaches its cap is in the model, and `ScreensAgree` compares whole scans only: past the cap
the screens may differ.

### MCCompanion
The modules about scores and screens share no state that another one changes. One run
explores them side by side: its initial state picks a part and only that part moves, so
that their behaviours are added and not multiplied. `Appeals` and `CabinetAccess` do share
`staff`; while appeals move, the departments stand still, and the other way round the
scope rule is checked with no scores in the way.

`MCIngestion` and `MCAuditOverlap` work alike: their initial states pick the world, a day, a
morning or a backlog, passes apart or passes that overlap, and the steps are those of the
specification within its bounds.

### What the models made visible
Beside the three violations of section 4, the models show the code at odds with five of
its own lines. No run is spent on them: each follows from a step of the model that says so.

- `ops/retry.py:30` promises to reset the FAILED calls under the cap. A full window of
  dead letters, older than a call, keeps it FAILED for good (`RetryReads`, `Starved`).
- `scoring/batch.py:187` says "Nothing was submitted, so requeue" of a request that raised.
  A lost answer raises too, and then the provider runs and bills an orphan while a job
  scores the call again (`SubmitUnanswered`).
- `audit/service.py:490` says that a deal in flight "must not be submitted twice". The skip
  set sees a submission only when the pass that made it has committed, so overlapping passes
  submit a deal twice, one batch after the other or both at once (`contested`).
- `audit/batch.py:26` and `audit/service.py:331` say that the deals of a lost batch are
  submitted again. Their pending rows, which keep them from being submitted twice, keep them
  from that as well (`PassReadsInFlight`, `Fresh`).
- `web/api/v1/service.py:162` says that a corrected percent supersedes the model's
  "everywhere a score is shown", but on the QA reports. The trend, a screen of the cabinet,
  averages the view in SQL, past the corrections (`TrendPoint`).

Other behaviour, which no line denies, for whoever changes the code:

- Two ingestion passes that each take in a new call of one client, and read before either
  commits, can both mark a first call; the next pass that takes in a call of that client
  reads both and leaves one.
- A correction keeps winning after a re-score (`service.py`, `_score_overrides`), while the
  breakdown under it follows the latest appeal of any status. Criteria averages, the
  report and the callback queue use the model's percent like the trend, although
  `models/appeal.py:11` says "everywhere a score is shown". `models/appeal.py:89` speaks of
  accepted appeals without an override; `review_appeal` writes none any more.
- A pass enriching managers and a request assigning a department can both load the row;
  the last one wins. The roster import with `--force` revokes one of several codes. An
  appeal belongs to the department at its filing, the call to the manager's current one.
- A backfilled transcript keeps `manager_side_applied`, so its labels are never turned
  (`transcription/worker.py`).
- The meetings of a telemarketing manager are on the team screen and in no export, and so
  are the calls of any other department.
- `service.py:1854` says the three screens cannot disagree; they read caches filled at
  different moments and can, for a lifetime of one. An answer that lost a block to an
  outage is cached like any other. A load of the hygiene screen that began before "check
  again" may overwrite its result. The "today" tab is yesterday's for a moment after
  midnight.
- Hygiene's on-time share and the closed counts of analytics include telephony's own log
  rows; "no task" counts anyone's activity where hygiene counts the manager's own.
- `audit/notes.py` cuts the formatted notes at the end, where the newest ones are, after
  `_select` has kept the newest. Two deals closed as duplicates of each other are both
  "supported".

## 4. The runs

| run | instance | shows |
|---|---|---|
| `call_prompt` | 2 calls, 2 slots, TTLs 2 and 3 ticks, timeout 1 or 2, wait at most 1, two losses | typing, recoverable claims, artifacts, no job twice, no live job reverted, bounded attempts, and that `CallPipeline` implements `CallLifecycle` |
| `call_live` | 2 calls, one a dead letter, 2 slots, a retry window of 1 row, changing facts, two losses, redelivery, fair | a call comes to rest again and again, whatever is lost and whichever job is late, unless it is behind a full window of dead letters |
| `call_queue_wait` | 1 call, 2 slots, any wait, no loss at all | **violated**: a live job is reverted |
| `call_requalify` | 1 call, no loss | **violated**: a claimed call is demoted to SKIPPED |
| `batch_held` | 2 calls, 1 slot, 2 batches of one call, prompt poller that finishes its passes | a batch keeps its claims, no call is paid for twice at a time, a result settles the claim it was paid for, and each step of the batch path is a step of the life cycle |
| `batch_late` | 1 call, 1 slot, 2 batches, a poller that comes late or dies, fair | every batch is closed |
| `batch_redrained` | 1 call, a prompt poller that may die in a pass | **violated**: a batch that is drained again settles a claim of another batch |
| `ingest` | 3 calls of one client in a day or a morning, 4 in a backlog; 2 passes, pages of 1 row, 2 rows a pass | nothing slips the cursor, a backlog cut over several passes never stops it while the limit covers the overlap, first calls and the qualification rule are right, whichever pass reads, waits and flushes last, and `Ingestion` implements `CallIntake` |
| `meeting` | 2 recordings, 2 attempts, 2 verdicts each, 2 stops, fair | paid work is kept, the cabinet shows the current verdict, `MeetingPipeline` implements `MeetingBoard`, every recording comes to rest |
| `audit` | 2 deals on two days, batches of 1, 2 slots; one pass at a time with 2 failures, or 2 passes at once, inline or in batches, with none | the cursor waits, verdicts stay, nothing is submitted twice, but for contested and redrained deals |
| `audit_live` | one pass at a time, one failure, fair | every deal is audited |
| `companion` | 2 jobs; 2 managers, 2 departments, 2 keys, 3 writes; 2 calls, 3 requests; 3 deals, 2 edits; 2 readers; every small portal | the properties of the modules of rows 4, 7 and 8 of the plan and of `AuditRules` |

**Bounds of the pipeline and the batch path.** `MaxQueued` copies of a job in a queue,
`MaxLosses` losses, ages stop counting at `MaxAge`, one tick above the largest TTL (an older
claim is no staler), no job starts for a call with `MaxTries` attempts, and the operator's
backfills and submits leave alone a call with `MaxRedone`. `MaxTries` is out of reach in
`call_prompt` and `call_live`, where attempts are bounded by the code. `MaxRetries` is 3 in
`call_prompt` and `batch_held` and 2 with one download counted in `call_live`, so a call
that failed is really tried again. The retry window is one row, so one dead letter fills it;
`call_live` starts with one (`LetterInit`), and a call that fails stands behind it.
`Batches` is the number of batches that are open at a time: two, so that a call can be in
one while another is drained. Two calls are enough because no action looks at more than one
call except for the batch limits; two slots are enough for a duplicate job; one tick stands
for a few minutes, and the instances keep the order of margin, timeout, wait and TTL, which
is all the properties depend on. The symmetry sets permute calls and workers, which no
definition tells apart; the liveness run uses none.

**Bounds of the others.** `ingest`: an overlap of 4 ticks is exactly the longest delay and
pass. It has three kinds of world, which differ in the constants of the behaviour. In the
day calls begin at 0, 1 or 5, so that the third call lies within or beyond the overlap of
the first and the cursor has something to miss; one of the three is late or never kept (each
kind occurs), since a second late call repeats the first one's effect on the cursor. In the
backlog the calls are further apart than the overlap (or the last two close together), so
the limit of two rows covers the overlap (`LimitCovers`) although the four need three passes
or more; one may be recorded late or never kept, and the first pass begins at the third
call. In the morning the first call is as far back as the overlap reaches, so that a pass
may or may not read it, the second is listed on time or late, and the third begins beside it
or after the client has qualified; a pass lives long enough for another to ask, wait and
commit within it. A second morning is one in which a pass may skip a call made after the
qualification while another, which asked before it, holds nothing but a new row of the
client. `meeting`: two recordings with a batch limit of two; attempts and verdicts are
bounded at the smallest values at which a row is dead-lettered, reopened and rescored.
`audit`: two days are needed for the cursor to leave a deal behind, two slots for a deal to
be in a second batch while the first is drained again; two failures let a batch fail and its
poll die. Two overlapping passes can contest a deal, move the cursor back and cross a poll;
nothing fails where they do (`MCAuditOverlap`), and the proofs have both, for any number.
`companion`: three requests are a filing and a review with one more crossing them, or two
filings and a review; both managers have one name, and a call of an older rubric has 6.25
percent, halfway between two tenths; a `BitrixFunnel` behaviour starts either with one deal
somewhere in the funnel and two edits to make or with all deals at work and one edit left;
the clock of the caches runs over a midnight. `companion` says CHECK_DEADLOCK FALSE: its
requests, edits and writes are bounded and the portal of `AuditRules` does not move, so
every behaviour stops.

**Fairness of `meeting` and `audit_live`.** The scheduler starts a pass on every interval
and a running pass goes on; every outside call has a timeout. The disk scan and Postgres
do not fail for ever (`SF` on the whole scan and on the push), the judge is not switched
off for ever (`SF` on a pass with a judge), a batch ends, and only finitely much dies
(`MaxStops`, `MaxFailures`). Uploads, retries, rescores, deals and
transcripts are not fair. `EveryMeetingRests` needs a batch limit that a set of hopeless
recordings does not fill: they keep their place at the head of the queue.

**Fairness** (`call_live`). Weak for the tick's reclaiming
and enqueueing, for claiming each ready call (claims go oldest first), for a running job's
end, the retry pass and time; strong for taking a given job from its queue, since arq
serves in order while slots come and go. Losses, backfills, midnight and scope changes are
not fair. Losses are finite: a crash counts no attempt, so a call whose job kills its
worker each time would be tried for ever.

**The poller** (`batch_held`, `batch_redrained`). Nothing in the code
renews a batch's claims but the poller, and a claim lasts ten minutes: `PollerPrompt` says
that every open batch is renewed or drained in each tick and that a submit is through
within one. Without it, or with a poller that dies within a pass (`PollerDies`),
`BatchKeepsClaims` and `OnePayer` do not hold, and the code does not claim that they do.
`OnePayer` is about what the system knows of: orphans come beside it. `BFairness`
(`batch_late`) runs the poller again and again, ends every batch at the provider, and lets
each retrieval of an ended batch succeed in the end: weak fairness for its steps, strong
for draining, as a retrieval may fail any number of times in between. It asks nothing of
the pipeline.

**What the violations say.** `call_queue_wait`: the job timeout counts from the
job's start and the TTL from the claim, so "the reconciler never reverts a live
job" holds only for claims that wait less than the margin (120 s) in a queue the
tick fills with up to 50 calls. `call_requalify`: the guard of `_apply_scope` looks
at the row as loaded minutes ago. `batch_redrained`: results are matched by "is
the call SCORING", not by the batch that claimed it; after a poller died between
an expired result and the end of the batch, the call is submitted again, and the
next poll drains the old batch over the new claim.

Each property also has a mutant: a small change to a mapped definition
(`PROJECT.json`, "mutants") under which TLC finds the property violated.

## 5. What is proved

`PromptQueues == ~Redelivers /\ \A s : MaxQueueWait + JobTimeout(s) <= StaleTTL[s]`
is the assumption the code makes tacitly: what the margin has to cover is the
wait in the queue, and a dead worker's job is not run again by arq.

| module | theorem | assumes |
|---|---|---|
| `CallPipelineProofs` | `TypeCorrect`, `ClaimsAlwaysRecoverable`, `ArtifactsAlwaysMatch` | the constants' types |
| `CallPipelineProofs` | `NoJobRunsTwice`, `ReconcilerSpares`, `Implementation`, `AttemptsAlwaysBounded` | `PromptQueues` |
| `SidePassProofs` | `RequalificationIsSafe`, `BatchesAreSafe` | the constants' types |
| `SidePassProofs` | `BatchClaimsKept`, `BatchPaysOnce`, `ResultsMeetTheirClaim`, `BatchImplementation`, `BatchAttemptsBounded` | `PromptPoller` |
| `IngestionProofs` | `IngestTypes`, `IntakeIsKept`, `FirstCallMarked`, `LogisticsNeverScored` | the constants' types |
| `IngestionProofs` | `NothingEverSlips`, `PassesGetOn` | `OverlapCovers`, `LimitCovers` where the property says so, and `MaxTime <= InitialBack`: the first pass reads back to the beginning |
| `MeetingProofs` | `MeetingTypes`, `MeetingWorkIsKept`, `MeetingPublished`, `MeetingKeepsBoard` | the constants' types |
| `ScoreProofs` | `SettleAlertsOnce`, `SettleLabelsRight`, `AppealsOnePending` | the constants' types |
| `ScoreProofs` | `AppealsVerdictWhole`, `BreakdownAddsUp` | a scoring marks every element within its maximum (`AppealsAssumption`) |
| `ScoreProofs` | `ScreensShowOneNumber` | also one call of a manager at a time, finitely many calls and recordings (`ScreensAssumption`) |
| `CabinetProofs` | `AccessCabinetWins`, `AccessScope` | `None` is no manager and no department |
| `CabinetProofs` | `ScreensNeverTooStale` | `CachesExpireOvernight`: a view does not outlive the time from midnight to a checkpoint, nor from a checkpoint to midnight, and there is a checkpoint |
| `FunnelProofs` | `FunnelScreensAgree` | finitely many deals numbered in the order they appear, days of a length and months of a number of days, checkpoints within the day (`FunnelAssumption`, `ReadsAssumption`) |
| `AuditPassProofs` | `AuditCursorWaits`, `AuditVerdictStays`, `AuditNotSubmittedTwice` | deals close in the order of their dates |
| `AuditPassProofs` | `AuditFindingsTrue` | the listing of duplicates has room for two deals (`RulesAssumption`) |

`PromptPoller == PromptQueues /\ PollerPrompt /\ ~PollerDies`: every open batch is renewed or
drained in each tick, by a poller that finishes its passes.

- `ClaimsRecoverable` is inductive with the types: the claim and its stamp are one
  UPDATE, and every other writer leaves the in-flight statuses.
- `ArtifactsMatchStatus` is not: a job or a retry decision that is still to be
  written must be known to be harmless. `ArtifactsInv` adds that a live job's call
  holds its stage's input (`JobsFed`), an unwritten retry decision is justified by
  artifacts the call holds (`PlansKept`), and a transcript implies audio
  (`TranscriptsHeard`). Artifacts only grow, so this survives every interleaving,
  with duplicates and stale commits.
- `ExclusiveRun` needs the history of a claim: `ExclusionInv` says that a claim is
  in exactly one place (pending, queued or running), that waiting claims are young
  enough and running ones too (`WaitsInTime`, `RunsInTime`: age at the start plus
  the run stays within `MaxQueueWait + JobTimeout`), that a settling job has read
  the current attempts (`ReadsFresh`) and that unwritten retry decisions are about
  calls that are still FAILED (`PlansFresh`). No stale claim then has a live job.
- The refinement keeps the variables; under `ExclusionInv` each commit is by the
  claim's only job, so it is the life cycle's step. `AttemptsBounded` then needs
  only that a call beyond its caps is at rest (`AttemptsInv`).

- `Requalification` and `ScoreBatch` add steps to the pipeline and no promise about
  time, so their invariants are the pipeline's with the new variables' types: each
  new step is shown to move rows only to statuses they have the artifacts for and
  to drop the stamp only with the claim (`AnswerKeeps`, `ClaimsKeep`, `WriteKeeps`).
  A batch result is written over whatever the row has become, so `BInv` adds that
  the open transaction's call holds what a score needs (`ResultFed`);
  the pipeline's own steps are the lemmas of `CallPipelineProofs`.
- With a prompt poller the batch path has what a job has: a call that an open batch holds is
  SCORING, no job or other batch holds it, and its stamp is at most one tick old. A claim
  lasts longer than that, so the reconciler never takes it back, and with that no second
  payer that the system knows of appears (`OnePayer`), a result finds the claim it was paid for
  (`ReclaimedIsLeftAlone`) and each step is one of the life cycle. A poller that dies would
  drain a batch twice: that is the run `batch_redrained`, and why the assumption is there.

- `Ingestion`: `NothingSlips` looks at rows and cursor, and what endangers it is the cursor
  an open pass will write. `Scans` says of every call that was recorded when a pass began
  and that it has neither stored nor read (`Unseen`): while the pass lists, the call is
  still ahead of its offset; the page in hand lies before the call; and the latest start
  the pass has kept is at most the overlap later. The first is where pages shift: rows
  only appear, so a call's place only grows and never falls behind the offset
  (`ScanStands`); if the limit cuts the scan, what was kept began no later than the call.
  A call recorded after the pass began started at most `MaxDelay + MaxPass` before its
  end, which the overlap covers. `ReadInv` (what is read has been stored or written by the
  pass) gives the refinement: a commit stores the calls of the pass and loses none.
- `FirstCallIsEarliest`: a stored row is written by one open pass at a time, and of a client
  nobody crossed on, a pass that brings a new call has read every other one as it stands
  until it commits. So what it writes marks the earliest of all of them.
- `NoLogisticsScored`: two passes may know different things of the qualification. The one
  that knows more changes `client_qualified_at` on every row it read, so it waits for the
  rows the other has written, and writes last. The first attempt at the proof failed where
  the other pass holds no row that exists yet: the two then wait for nothing, in the code
  as in the model. The property now leaves these clients out (`Overtaken`), and the
  run reaches them.
- `NextPassAdvances`: of the rows a pass would list from the cursor's overlap on, the rows up
  to the next kept call fit in the limit, so the pass reaches a call that moves the cursor.
- `MeetingPipeline`: a retry touches only FAILED rows and a rescore only SCORED ones, and
  neither is a status a claimed row has, but for the push, which claims SCORED rows: so only
  a push can be overtaken, and `MeetingInv` says what each claimed row still holds for each
  stage. Each step is then a step of `MeetingBoard` or changes nothing the cabinet sees.
- `ScoreSettle`: an alert is sent between the upsert and the end of the transaction, so
  the invariant says which jobs hold the row's lock (one at most) and counts the alerts
  by who accounts for them: the row, the job that holds the lock, or a death. For the
  labels, a job's verdict is wrong only if the labels were settled after it had read
  them, and then its commit leaves them alone.
- `Appeals`: of a call without `rival` at most one filing is past the check, and only
  while no appeal of the call is pending. Reviews only take appeals out of pending. The
  managers' rows may change in any way meanwhile: the proof asks nothing of them.
- `VerdictWhole`: a review that no other one overlapped still has the row it loaded, so
  what it flushes is one verdict; its override is what `recompute_percent` makes of the
  elements it saw. That a correction never lowers a percent is a statement about sums
  (`CorrectionRaises`).
- `BreakdownMatchesHeadline` and `HeadlinesAgree` are about operators over the state, so the
  invariant has to say where each number came from: `CabinetInv` says of a decided appeal that
  its override was computed from the elements of its basis, of a score that its percent and
  zone are those of its elements, and that moments and overrides are numbers (`Dated`,
  `Priced`). A finite set of appeals
  then has a newest one, the elements it awards in full add up to its override, the first of
  two lists merged are the first of what was first in either (`LeadingMerge`), and a
  department's sums are those of its managers because each call has one (`SumOfParts`), and
  those of the names on its export because each manager has one. Nothing is known of `TieUp`
  but that it depends on the rows: so equal rows give equal lines, and the trend is the card's
  percent or a tenth more.
- `CabinetAccess`: of a manager whose row no two transactions crossed, the one under way
  has loaded the row as it stands, and if it enriches, the row is not enriched
  (`Alone`); so no pass is under way once the cabinet has given its word, and a request's
  flush writes the department it means. `OneScopeRule` follows from the shapes of
  the two tables alone, which every step keeps.
- `ScreenCaches`: the age of a view is tied to the instant its request began. A read that
  finds a cached count gets one at most a lifetime old; a view is put together from reads
  made while the request ran; the team view of a past day may live for hours, but its
  key carries the number of checkpoints that have passed, so what was computed before a
  checkpoint is not found after it; without any checkpoint yesterday's view could be served.
- `FunnelReads`: the funnel's invariant only says what cards, activities and history can
  be (`FunnelInv`); the work is in the counts. A window is a range of days, for any length
  of a day (`DivIs`, `InDays`), so a day cut out of the whole history is the day asked for
  (`BookedByDay`). A scan that was not cut off is all it scanned, and what the range scan
  reads beyond one day is exactly what `_due_before` and the checkpoint leave out
  (`FlowIsDayRows`). Places order a queue without ties, so what is sooner than a deal
  shown is shown, a queue cut short shows as many deals as the place of the first it
  leaves out, and no other queue shows more than one beyond that place (`TurnsAreTaken`).
  Days sum to the deals booked paired with the days they were booked on, as many as the
  deals booked when none was booked twice (`BookedAddsUp`). The proof found that the trend
  was compared for months it does not show: the property now reads the two it does.
- `AuditPass`: `AuditInv` adds to `CursorWaits` that deals close in order and the cursor
  stands at a closed one (so what closes now is not behind it), that each running pass covers
  every closed deal from the cursor it read on but those that came later than all it lists,
  with nothing left behind before that (`PassesCover`), and that what a pass does not skip
  has no verdict and is not in flight, or is contested (`FreshIsOpen`). The last one survives
  the poller because it writes pending rows only, and another pass's commit because that is
  what `contested` records; it gives `VerdictStays`. At the commit the cursor moves, perhaps
  back, to a deal below which everything is done, and "done" is settled, excused or
  contested. For `NotSubmittedTwice`, `BatchInv` says that the row of a deal in a running
  batch is pending, unless the deal is contested or redrained.
- `AuditRules`: the deals of the contacts found are the deal itself and its twins, of which
  the two oldest are read, so one beside the deal itself is found (`OldestFindsAnother`). A
  dial that was answered in the window and not read stands behind `MaxDials` others of its
  number. A list cut at n has n items or all of them (`LatestAsMany`).

The invariants were checked by TLC on the instances above, or as inductive invariants of
the same specifications, before they were proved.

Facts about sums and cut lists are proved by the least counterexample: a set of natural
numbers has a least member (`NatLessThanWellFounded` with `WFMin`, which take no operator
for a parameter), and the folds of the community modules are recursive functions, whose
definitions expand.

Only model-checked: all liveness (`EventuallyRests`, `BatchesClose`, `EveryMeetingRests`,
`EveryRefusalAudited`), since fairness and ENABLED are out of TLAPS' reach, and, of
course, the three violations.

## 6. Not modelled

- The single-process worker (`worker.py`): beside the dispatcher it takes the same claims
  as the jobs of `CallPipeline`. Alone it never runs the reconciler, so what a crash
  leaves in flight stays there: that is a hazard listed with a note, not a property.
- The provider protocols of transcription (polling, channel labels, chunking of audio)
  and the prompts and parsing of the scorer and of the judge: a job's outcome is a choice.
- In ingestion: client categories, manager profiles and the fields that only decorate a
  row. In meetings: how one meeting is scored, and several processes at a time.
- Which notes the judge is given (`audit/notes.py`), the wording, names and order of rows
  on the screens, the layout of workbooks, the schemas of the API and the settings.
- Two polls of the audit at once, its `--limit`, and restarts of the web process.
- Bitrix's retry, backoff and batching below one call, and `ops` summaries: a call that
  fails after its retries ends what it was part of.
- Object storage is a put and a get under a key fixed by the call. Migrations run once.
  The spike scripts, the glossary and the Metabase tooling are no part of the running
  system.

A little under a third of the implementation's lines are named by a definition; the rest is
the list above. Hazards that no property covers carry a note in `PROJECT.json`.
