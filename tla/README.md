# TLA+ models of the harvest

The repository collects taxonomy entries (agents, MCP servers, prompts, skills,
AX cases) from the web. `src/src/harvest` is the Python harvester: configured
sources are fetched politely, candidates are extracted, classified and verified,
and each run publishes its documents below a state root. `src/scripts` holds the
shell drivers that run topics side by side, merge their registries and commit.
Nothing but the file system coordinates the processes: there is no server and no
database, so every guarantee that spans processes rests on `mkdir`, `rename` and
the order of system calls.

This directory models that coordination and the state machines built on it. TLC
checks small instances; TLAPS proves the main results for any number of workers,
slots, lanes, keys, hosts, runs, cells and sources.

## 1. Inventory

| Component | Source | State | Operations | Hard part |
|---|---|---|---|---|
| Domain lease, slots | `domainlease.py` 149-282 | `slot_<i>.lease` directories, owner files | `acquire`, `_try_break_stale`, `release` | unrelated processes, kills, clocks, check-then-act on the file system |
| Domain lease, gate | `domainlease.py` 285-393 | `pace.lock`, `next_allowed_at` | `wait_turn`, `penalize` | a lock that is broken by age while its holder sleeps |
| Source cache | `sourcecache.py`, `pool.py` 170-258 | one entry per request key, pool rows | `claim`, `wait`, `complete`, `fail`, `record_established_source`, `reuse_snapshot` | lanes racing for a key, time-outs, an owner that fails half-way |
| HTTP client and budget | `httpclient.py`, `budget.py` | budget scopes, robots cache, accounting | `get`, `preflight`, `push`, `pop`, `charge_request` | retries x redirects x robots x Retry-After x nested limits |
| Run publication | `run_cells.py` 1185-1568, `artifacts.py`, `ledger.py` | run documents, ledgers, rejection logs, manifest, pointer, write journal | `run`, `write_atomic`, `merge_ledger`, `publish_run`, `sweep` | failure, interrupt or kill between any two writes; a run repeated |
| Cell runner | `run_cells.py` 198-1392, `targetfetch.py` | `CellRun` of every cell, outcomes by identity, what the routing makes | `_discover`, `_run_one_cell`, `_fetch_targets`, `_cross_reference_rows`, `_dedupe_records`, `_cell_row` | one fetch per identity over cells and topics, budgets that end inside a cell, records and pointers that meet |
| Decisions | `dedupe.py`, `extract.py`, `classify.py`, `verify.py`, `facets.py`, `facetassign.py`, `aliases.py` | none | `group`, `classify`, `score`, `decide`, `assign`, `adjudicate` | precedence of rules, ties, chains of redirects |
| Candidate pool | `pool.py`, `request_key.py` | source rows, candidates with their owners | `acquire_source`, `establish_snapshot`, `record_established_source`, `reuse_snapshot`, `add_candidate`, `acquire_*`, `to_document` | calls of lanes in any order, a document that must not show it |
| Scheduler and coverage | `scheduler.py`, `coverage.py` | rounds, records so far | `plan_round`, `run`, `rank_gaps`, `build_coverage_report` | order of stop conditions, records found again |
| Link check | `linkcheck.py` | a run directory of its own | `read_base_run`, `select_sample`, `run` | checks of checks, a base that died, a kill in any write |
| Validator | `runvalidate.py` | none | `validate_run` | must accept what is whole and nothing else |
| URL keys | `urlkey.py`, `slug.py` | none | pure functions on strings | - |
| Migration | `migrate/*` | none | record mappings | precedence of rules |
| Adapters, records, CLI | `adapters/*`, `records.py`, `cli.py`, ... | none | parsing, assembly, read-only checks | - |
| Directory lock | `scripts/lib/lockdir.sh` | lock directory, owner file | `lock_acquire`, `lock_release` | ownerless window, breaking a live lock |
| Parallel drivers and merges | `scripts/harvest_*.sh`, `merge_*.sh`, `run_matrix.sh` | shards, unions, cell files | lanes, folds | lost updates, partial lanes |
| Safe commit, safe push | `scripts/safe_*.sh` | the git index | stage, verify, roll back, commit, push | failure between staging and commit |
| Pipeline drivers, registry tools | other scripts | files | sequences of calls | - |

How they interact: a cell runner asks the **source cache** for a source; the one
lane that claims it calls the **HTTP client**, which reads robots rules, takes a
**slot**, waits its **turn** at the gate of the host, charges the **budget** and
sends; a Retry-After goes back to the gate through `penalize`. What was
extracted ends in a run's documents and the **ledgers** of its cells, which
**run publication** writes in a fixed order with the manifest and the pointer
last. What a cell does between is the **cell runner**: it judges the candidates of
its sources by the **decisions**, fetches the page of each accepted identity once
for all cells, and routes records and pointers to the cells they belong to. The
**scheduler** opens lanes for what coverage still wants, and the lanes share the
**candidate pool**. A finished run is re-checked by the **link check**, which
publishes a run of its own; the **validator** judges both. The shell drivers start such work in several processes and merge
registries under **directory locks**. The file `PROJECT.json` lists every
component, modelled or not, and the hazards at their lines.

What makes each modelled component correct:

- slots: at most `max_concurrency` holders per domain, nobody removes a live
  worker's slot, a dead worker's slot comes back, `acquire` ends;
- gate: turns at least the interval apart, a penalty holds for everybody, the
  file is written only under the lock or by a `penalize` that could not get it,
  calls end;
- cache: one fetch per key and run, a row exactly for what was fetched, the same
  answer for everyone, nobody waits for ever;
- client: exact accounting at every level, a request only where robots rules
  allow it and under a slot of its host, bounded attempts, Retry-After obeyed;
- cell runner: a page is asked for once and its one outcome reaches every record
  of it, nothing accepted is lost, preferred URLs are earned, a zero is an honest
  zero, a run that may be published left nothing unchecked;
- scheduler and pool: one view of a source per run, a document that does not show
  the order of lanes, a stop reason that is true of what was accepted;
- link check and validator: no history lost or rewritten, what is published whole
  validates, and what validates is whole;
- publication: a run is archived at once and for good, the pointer names only
  archived runs, ledgers lose nothing and never change a verdict, no debris.

## 2. Modules

| Module | Models | Abstract specification |
|---|---|---|
| `DomainSlots` | every file-system call of `acquire`, `_try_break_stale`, `release` | `DomainPermits`, a counting semaphore |
| `PacingGate` | every file-system call and sleep of `wait_turn` and `penalize` | - |
| `SourceCache` | `SourceFetchCache` and its store, with the pool rows | `FetchOnce`, a promise settled once |
| `HttpFetch` | `get` and `preflight`, over nested budget scopes | - |
| `CandidatePool` | the pool and the request keys, one call of a lane at a time | - |
| `Rounds` | `Scheduler.run` over `CandidatePool` | - |
| `Candidates` | what a source delivers, extraction and the groups of dedupe | - |
| `Judgement` | classification, verification and facets, over a set of words | - |
| `Aliases` | what a target fetch answers, and the adjudication of aliases | - |
| `Coverage` | states of a classification, coverage rows and the publication gate | - |
| `CellRun` | `run` up to its first write, over the four above | - |
| `RunValidate` | the documents of a run and `validate_run` over them | - |
| `LinkCheck` | `linkcheck.run`, over `RunValidate` | - |
| `RunPublish` | `run` from its first write on, `write_atomic`, the journal, the ledger | `RunArchive`, a write-once archive and a pointer |
| `MC*` | the same, with the values TLC runs with | |
| `*_proofs` | the theorems | |

State and actions follow the code. In the modules about processes a step is one
system call (or one sleep), `pc[p]` says which comes next, and a kill may come
between any two. Times are *relative*: a timestamp is kept as its distance from
now, and `Tick` moves every distance by one, so no clock variable grows; an age
saturates where the code no longer tells values apart.

**DomainSlots.** `dir[s]`/`owner[s]` are the slot directory and its owner file,
`mtime[s]`/`epoch[s]` the two ages `_try_break_stale` reads. `acquire` is
`MkdirSlot`, `ReadOwner`, `JudgeStale`, `BreakExists`, `BreakUnlink`,
`BreakRmdir`, `Remake`, `OpenOwner`, `WriteOwner`, `CheckDeadline`, `Wake`;
`release` is `Release`, `ReleaseExists`, `ReleaseUnlink`, `ReleaseRmdir`. Every
`except OSError` has its branch: a `mkdir` that fails passes the slot over, an
owner file may be unreadable, left empty (`Blank`) or never opened, and a file or
directory that is there may refuse to go; `stuck` counts the last kind, as it
leaves a slot behind that nobody holds. `life` records how a death looks to
`_pid_alive`: provably gone, or not provable.

**PacingGate.** `gate` is `next_allowed_at` less now, `lock` the maker of
`pace.lock`. `wait_turn` sleeps *inside* the lock, as the code does. `penalize`
goes on without a lock it could not get, a read of the file may answer 0 and a
write of it may be dropped, in every run. The history variable `trust` is
"lapsed" from such an event to the next turn that is written while nobody is
at the file without the lock.

**SourceCache.** A lane claims a key, fetches, records the pool row, then marks
the entry and signals its event; others wait with or without a limit and read
the entry again. An owner may be interrupted between any two of these steps.

**HttpFetch.** One client at a time; the other processes appear as a slot or a
turn that is not to be had (`DomainSlots` and `PacingGate` model why). The
matching of robots rules to a path is a choice of the allowed URLs. Replies are
chosen among what `_attempt` tells apart: a fault the opener translates, one it
does not, a retryable status with and without Retry-After, a redirect, the end.

**RunPublish.** A document is known by the attempt that wrote it; of a ledger
the outcome and the count of each URL are kept. Each document goes through
`Note` (or `Merge`, for a ledger), `Open`, `Replace`, `Forget`; `Raise`, `Fail`
and `Kill` may strike anywhere, `Unlink` and `Sweep` clean up. The fetch and
classify phase is a choice of cells and of an outcome for each URL; `CellRun` has
that phase.

**CellRun.** One process, so a step is a source (`Discover`), the judgement of a
cell (`Judge`), a target (`FetchTarget`, `SkipTarget`, `ReuseOutcome`), the closing
of a cell, the end of time (`OutOfTime`) or the routing (`Route`, or `Refuse`
where `run` raises). `runs[c]` is the code's `CellRun` of a cell, `outcomes` its
`target_outcomes`, `made` the rows, artifacts and reports it is about to write.
`Candidates`, `Judgement`, `Aliases` and `Coverage` hold the pure decisions as
operators named after the functions: a text is the set of its words, a URL a
value with a host and the identity it canonicalizes to, a date readable or not.

**CandidatePool, Rounds.** `sources` and `candidates` are the two dictionaries,
and each action is one call of one lane. For a source these are `AcquireSource`,
`Fetch` (what it brings is kept by the lane alone), `EstablishSnapshot`,
`RecordEstablishedSource`, `ReuseSnapshot`, and `Refused` where the pool raises;
for a page `AddCandidate`, `AcquireTargetFetch`, `TargetFetched`,
`AcquireExtraction`. Lanes may interleave between any two of them, `GivesUp` and
`NextPage` let a lane go on after any of them, and no action asks who the owner
is, as the pool does not. The history sets `asked`, `views`, `reads`, `sighted`,
`wanted` and `extracted` keep what the calls did, without their order, so that
the document can be compared with it. What the document sorts (lanes, sources)
is kept as sets and ranks. `Rounds` has the loop of `Scheduler.run`: `PlanFirst`
and `PlanNext` are `plan_round`, `Close` the stop conditions and the record of
the round; `new_accepted` is a count of its own there, since `round_fn` reports
it beside the records, and the score is rounded to millionths, as in the code.

**LinkCheck, RunValidate.** `tree[r]` is the directory of a run, `job[r]` what
a check holds in memory. `Begin`, `Fetch`, `Reuse` and `Rebuild` come before the
first write, then each document is a step. `Raise` is an exception the state of
the check makes certain (a record its schema refuses, a tree in which nothing was
checked, an id that finished meanwhile); `Fault` is a kill, a failing write or a
document refused for another reason, in any step. Harvests appear as the directories they
leave, finished or not. `ValidateRun(root, r)` is the set of findings of
`validate_run`, as an operator any state can be asked for: one set per document,
cell and topic, and their union. The loops of the code that build one record per
reading are sets here (`IsNext`, `AllWritten`, `Records`), so that the same
definitions are run and proved about. What harvests may leave is the constant
`Corpora`: no record of two cells, one identity for a URL, because `run_cells.py`
`_dedupe_records` and its table of outcomes see to that before a run is written.

## 3. Runs

| Run | Properties | Shows |
|---|---|---|
| `slots_disciplined` | `LeaseInv` `ImplementsPermits` | three workers, two slots, nobody killed and nobody slow; `mkdir` and owner files may fail: the cap holds and the slots are a semaphore |
| `slots_crash` | `AcquireEnds` `NoWedge` | a kill at any system call, slots overstayed, a removal that fails: `acquire` ends and a slot nobody holds is taken back |
| `slots_steal` (violation) | `StealsOnlyStale` | two workers judge one dead owner; the slower removes the faster one's new slot |
| `pacing_disciplined` | `PaceInv` `Spacing` `GateHolds` `TouchedUnderLock` | three workers, locks held for less than their break age; the disk may fail and penalties go on without the lock |
| `pacing_faulty` | `CallEnds` `LockFreed` | kills, failing disk, locks held for any time: calls end and a dead worker's lock is broken |
| `cache_race` | `CacheInv` `ImplementsFetchOnce` `EveryoneAnswered` | three lanes, two keys, time-outs and interrupts |
| `http_calls` | `CostsAddUp` `AskedAndLeased` `FetchInv` `RetryAfterObeyed` `CallEnds` | two hosts, redirects across them, Retry-After, two nested budgets |
| `publish` | `PublishInv` `NoDebris` `PublishedRunsCounted` `RejectionsExplained` `OutcomesFinal` `ImplementsRunArchive` | two attempts over two cells with a failure, interrupt or kill anywhere |
| `cell` | `CellInv` `OneRequest` `NothingLost` `CanonicalEarned` `ZeroIsHonest` `CoverageHonest` `EligibleMeansChecked` | whole runs over three cells, called in four ways, with every answer of four sources and of the pages they name |
| `cell_shadow` (violation) | `TopicHoldsAccepted` | a pointer takes the place of a record its topic accepted |
| `linkcheck` | `CheckInv` `OneRequest` `HistoryKept` `PublishedValid` `AcceptedWhole` | two link checks, of a harvest and of one another, with kills, failing writes, budgets that end and clocks that stand still |
| `rounds` | `RoundsInv` `OneView` `DocumentOrderFree` `ReasonsHonest` | three rounds of lanes that share sources and pages, call by call, while the sources change and lanes give up |

### Bounds, and why they are enough

- *Slots*: two slots and three workers make a contender find one slot full and
  one free, and make two contenders meet; `Stale = 3` leaves ages below, at and
  above what is judged. The crash run has one slot, so that losing it would
  matter. `MaxCrashes = 1`: a second kill needs no new behaviour, as a dead worker
  leaves only files. `MaxStuck = 1` there: one removal that fails leaves a slot
  without a holder, and a later one may succeed.
- *Gate*: `Interval = 2`, penalties below and above it and the break age; three
  workers are one more than the pair a violation needs.
- *Cache*: three lanes give an owner and two waiters; two keys let one be
  pending while the other is settled; `MaxAsks = 2` lets a lane come back to a key
  it has seen settle.
- *Client*: two hosts and one URL each make a redirect leave a host and a second
  call come back to it; limits of 4 and 3 requests run out inside a call at
  either level; `MaxAttempts = 2` has a first and a last attempt.
- *Publication*: two cells of one topic, one URL and two attempts, of two runs
  or of the same one: a second attempt over other cells after a failed first is
  the shortest way to mix documents. `MaxAttempts` bounds only the number of calls
  of `run`.
- *Cells*: two cells of one topic and one of another let an identity be accepted
  twice in a topic and across topics, and let a cell point into another. Three
  identities (one with two spellings, one moved) meet rules of every precedence;
  a request budget of four per cell and a cap of two target fetches end inside a
  cell. The four ways of calling `run` are a whole harvest, one of some cells, a
  smoke run with caps, and a harvest with the same caps.
- *Link checks*: two checks, the second possibly of the first; corpora of two or
  three records put an identity twice in a cell's topic and across topics;
  samples of one and two, so that a record is left out; `MaxClock = 2` lets two
  runs share a second, `MaxFaults = 1` is one kill or failing write, of a harvest or a check, `MaxActive = 1`
  has one check at work at a time (two on one root only mix their pointers).
- *Rounds*: three rounds are a configured one, one for gaps and one after it; two
  configured lanes and one lane per later round; of five axis values one may never
  be a gap, one is for the record only and one has no source. A source changes
  once (`MaxVersion = 2`). `NoProgressMin = 1` tells a round without an
  acceptance from the others, and the proof has any integer; what is left of the
  budget (`BudgetLeft = {50}`) enters each rank alike, and a round may end
  exhausted by its own report.

### The environment, in constants

`Overstay`, `Prompt`, `Punctual`, `MaxCrashes`, `MaxStuck`, `MaxFaults`,
`TimedWaits`, `Interrupts`, `Overlap`, `StuckTemps` say what the environment may
do, never what the code does. The cap of the slots and the spacing of the gate
hold only where nobody outstays the age at which others may break a lock; `slots_steal` and section 4
show what happens outside. `Overlap = FALSE` says that two processes do not
run on one state root at once: the code does not exclude it, and its ledgers would
lose sightings; `PublishInv`, `NoDebris` and the refinement hold, and are
proved, with `Overlap = TRUE` too.

### Fairness

Weak fairness of each running process (the operating system schedules it, its
requests end by their time-outs) and of `Tick`. Nothing is assumed about who
wins a race for a directory, so a contender may lose for ever: `AcquireEnds`
therefore rests on the deadline and not on luck. In `CallEnds` of the gate the
code's `continue` after a break skips its deadline, and the property says so: a
call ends unless it breaks locks again and again. `LockFreed` likewise
assumes that `mkdir` does not fail on every call, since a caller that cannot try the
lock never looks at its age. Nobody is assumed to release
in time, except in the disciplined runs, as a constant. `CellRun`, `LinkCheck` and
`Rounds` state no fairness and no liveness: they are sequential programs whose
loops run over finite lists, and what could go wrong in them is what they say, not
whether they end.

## 4. Findings

Two are runs that TLC must find violated; `PROJECT.json` quotes the lines.

- `slots_steal`: `_try_break_stale` judges an owner and then removes whatever
  directory has the name by then (`domainlease.py` 204-225 against 29-35).
- `cell_shadow`: `_dedupe_records` and `build_topic_artifact` keep the first record
  of a `record_id`, whatever its type. When one cell points into a lower category
  of a topic and another cell of that topic accepted the identity, the pointer
  survives, and the record is missing from the topic artifact, the coverage
  report and the eligibility test (`run_cells.py` 1115-1134, against 1331-1349,
  which refuse to drop an accepted record). `EligibleMeansChecked` therefore speaks
  of the identities of which some topic artifact still holds a full record.

Disagreements of the code with its own words that have no run, because the
modules' other runs assume the well-behaved side. Each is seen by setting one
constant or by dropping one premise:

- `wait_turn` sleeps under a lock that others break after 30 s: with
  `Punctual = FALSE` and a long penalty `Spacing` fails (`domainlease.py` 371 and
  294-296 against 340-342).
- `penalize` writes without the lock it could not get (386 against 336-337).
  `TouchedUnderLock` names it as the one exception, and `Spacing` and `GateHolds`
  excuse what it may spoil: a turn granted early, or a penalty lost, until the next
  turn is written. So do a failed read or write of the file (315-316, 324-328).
- `preflight` "Never raises", but does when a connection breaks in the body:
  `PreflightNeverRaises` in `HttpFetch` (`httpclient.py` 739, 764-773 against 746).
- A Retry-After past the deadline is slept out: `FailsFast` in `HttpFetch`
  (727-729 against `budget.py` 108-109). A retry takes no turn at the gate:
  `EachRequestTakesATurn`.
- The spelling of `target_url` in the pool's document is the first one seen, so
  the document is not the same for every order of lanes (`pool.py` 276 against
  382); `DocumentOrderFree` leaves that field out.
- A link check of a run that died after its cell documents is made and published,
  and the validator refuses it (`linkcheck.py` 112-134, `runvalidate.py` 299);
  so does a check whose base was checked in the same second (338). `PublishedValid`
  names both premises.
- A pointer that shares the `record_id` of a sampled record gets a history, which
  its schema refuses: the check raises after its requests (`linkcheck.py` 269-277
  against 200).
- `max_lanes = 0`, which nothing refuses, ends a run with `all_targets_met` over
  open gaps (`scheduler.py` 126, 142-144).
- `release` takes a slot without a readable owner for its own, so after a
  reclamation it may remove another's directory (`domainlease.py` 274-280 against
  268). `ReleasesOnlyOwn` in `DomainSlots` says what line 268 promises; it fails
  with `Overstay = TRUE`, and where no slot changes hands it would say nothing, so
  no run has it.
- `no_progress` is tried before `all_targets_met` (`scheduler.py` 159 and 161), so
  a round that met the last target may be reported as one without progress when
  `no_progress_min` exceeds what it accepted.
- The pool's document does not show in which order lanes made their calls, but
  which calls they made may depend on it: a lane that comes late reuses where it
  would have fetched, so `reused_in_rounds` may differ between two schedules of the
  same lanes (`pool.py` 103-126, 249-258). `DocumentOrderFree` is therefore about the
  calls that were made.
- A run that fails between its first ledger and its manifest is counted again
  when it is repeated, where `test_recovery.py` 271-273 says of the same situation
  that the ledger must not claim to have seen the corpus twice; and a URL whose
  verdict changes makes every later run of its cell fail.

## 5. Proofs

All theorems hold for every value of the constants that meets the modules'
named assumptions (`WorkersAssumption`, `TimesAssumption`, ...): finite sets of
workers, natural bounds, `None` outside the sets it is told apart from, answers
that are typed. Those of `CellRun` say what is checked of a configuration: a cell
names each source once (`check_config.py` 125-127, `preflight.py` 79-95), a source
has one authority and a key one place in the order. TLC evaluates the assumptions
in the runs.

| Module | Theorems | Regime |
|---|---|---|
| `DomainSlots_proofs` | `TypeCorrect` | any |
| | `LeaseInvHolds`, `CapHolds`, `SlotsImplementPermits` | nobody killed, nobody overstays, bookkeeping prompt, removals succeed; `mkdir` and owner files may fail |
| `PacingGate_proofs` | `TypeCorrect` | any |
| | `PaceInvHolds`, `TurnsAreSpaced`, `PenaltiesHold`, `GateTouchedUnderLock` | nobody killed, no lock held past its break age; disk faults and penalties without the lock included |
| `SourceCache_proofs` | `CacheInvHolds`, `FetchedOnce`, `RowsMatchStates`, `CacheImplementsFetchOnce` | any |
| `HttpFetch_proofs` | `TypeCorrect`, `FetchInvHolds`, `AccountsAreExact`, `RequestsAreAskedAndLeased`, `CallsAreBounded`, `RetryAfterIsObeyed` | any |
| `RunPublish_proofs` | `TypeCorrect`, `PublishInvHolds`, `PublishingImplementsRunArchive`, `TempsAreSwept` | any, overlapping or not |
| | `OutcomesAreFinal`, `RejectionsAreExplained`, `EverySightingCounted` | runs of a root do not overlap |
| `LinkCheck_proofs` | `SampleIsRespected`, `OneFetchPerIdentity`, `NothingIsLost`, `ValidatorIsSound`, `PublishedIsValid` | any |
| `CellRun_proofs` | `IInvHolds`, `RequestedOnce`, `AcceptedIsKept`, `CanonicalIsEarned`, `ZerosAreHonest`, `EligibleIsChecked`, `CapsCutInOrder`, `CoverageIsHonest` | any |
| `Rounds_proofs` | `OneViewOfASource`, `DocumentIsOrderFree`, `RoundsAreBounded`, `ReasonsAreHonest` | any |

The argument is the same everywhere: the property is strengthened to an
inductive invariant. A run checks those of the first four modules and
`PublishInv`; the others are stated in the module of the proof.

- `LeaseInv`: directories and workers past `mkdir` are in one-to-one
  correspondence and nothing on disk or in hand is old enough to be broken. The
  cap follows by counting: `at` is an injection of the holders into the slots.
- `PaceInv`: having been told True by `_pace_lock_acquire` is the same as having made
  the lock that is there, and only a `penalize` is past it without. While `trust` is
  kept, `gate` is what its reader left, and `gate + since >= Interval` except
  while a new time is about to be written; a turn about to be written is right even
  when `trust` has lapsed, which is why writing it puts the gate right.
- `CacheInv`: the entry's state, its row, its event and the steps of its owner fit
  each other; one owner per key.
- `FetchInv`: how many attempts each URL may have had so far (`TriesCounted`), and
  that the gate or the sleep in progress covers what is left of each Retry-After
  (`GateCoversBans`). A crawl delay above zero is covered by the proof only; the run
  takes `Delays = {0}`.
- `PublishInv`: attempts are numbered, an attempt at place *i* has written all
  documents before it, a temp file is journalled before it exists and gone before
  it is forgotten. Then the manifest, which comes last, finds a whole run, and no
  later attempt begins. Two more invariants rest on it where runs do not overlap.
  `Explained`: a rejection in the rejected-URL ledger is in a log on disk, because
  the log is written first and only a sweep, which a run does before it writes
  anything, takes temp files away. `Counted`: a URL's count is at least the
  finished runs that saw it; an attempt that has merged the seen ledger has counted
  itself, and the merge adds to what it read because nobody else writes in between.
- `Inv` of `LinkCheck_proofs` is about what a check holds against what is on disk:
  `TreeOK` (a run of the tree is a harvest's or a check's, and its documents fit
  each other as far as they are written), `JobOK` (`BaseOK`, `AskedOK`,
  `SampledOK`: a check asked each identity of its sample once, and the sample is
  within its bound), `BasedOn` and `Descends` (the run a check was based on is
  older, finished, and is still what the check read), `Working` (what has been
  written is a prefix of what the job holds). The step of one check leaves every
  directory but its own as it was (`StepOf`, `OthersKept`), so what another check
  read stays true. The counts of a topic agree with those of its cells because
  records lie in one cell each: a bijection gives the equality. `PublishedIsValid`
  adds `Pointed`: the pointer names a run that was finished when it was named, and
  no step takes a document away from a finished run.
- `IInv` of `CellRun_proofs`: how far the cells are (`Progress`), that a page was
  asked for at most once and only if accepted (`Asked`), that an outcome with an
  answer came from a request (`Answered`), that what a closed cell resolved is the
  run's outcome for it (`Settled`), and that what was routed is `Made` of the state
  that is still there (`Routed`). The routing has no intermediate state, so its
  properties follow from `Made` and this state (`Counted` is what a coverage row
  must count, no more and no less); that the survivor of
  `_dedupe_records` is the first of its records rests on cells being natural numbers.
- `Measured` of `CellRun_proofs` is the other half: what the sources of the cell
  under way have answered (`UnderWay`), and that the cases of a judged cell are cut
  by the caps alone (`Cut`). That a cap of *n* leaves the *n* first, or all, is
  counting: a key's rank is an injection of the keys into as many numbers, hence a
  bijection. That a candidate shows one of the URLs it was sighted under needs the
  precedence of sightings to have a first, by authority and then by place; this is
  where a source may be configured only once. A report row counts an identity once
  because records of one topic and cell differ in their keys, and the withheld keys
  are as many as the withheld records.
- `IInv` of `Rounds_proofs`. Of the pool (`PoolInv`): a lane asks each question of
  its list once in a round, so no two of its readings are the same (`Tasks`,
  `Answers`, `Numbered`); the row of a source has the lanes that asked, the one
  snapshot there is of its key, and the rounds of all readings but the first, and
  every reading is of that snapshot (`SourceRows`); the row of a page has the lanes
  that added it, with their sources, and an owner of its fetch and its extraction
  exactly when one was acquired (`PageRows`). `DocumentOrderFree` follows: the
  document is computed from the rows, and the rows say what the history sets say.
  That the rounds of a row do not depend on who read first is the lemma about
  adding one reading to a set (`AgainGrows`). Of the loop: the pages accepted are
  distinct and were extracted (`Accepted`), each round but the last was recorded
  without a reason (`Recorded`), and the reason fits the gaps of the records
  (`ReasonTold`), for any `NoProgressMin`. The lanes of a round are those of the
  first gaps in a strict order (`RanksAbove`), so that no more than `MaxLanes` are
  opened is again an injection into numbers, and that some lane is opened while a
  credible gap is open is the existence of a first one.

Where the code loops over data (a sort, a prefix, a maximum), the model has the set
or the rank instead of a recursion, and the proof the existence of a least number
(`WFMin`) or a bijection: induction over data is not needed.

Refinements are proved as usual: initial states map to initial states, every
step to a step or a stutter, from the inductive invariant and a `PTL` step.

Model-checked only: what holds under fairness (`AcquireEnds`, `NoWedge`, `CallEnds`,
`LockFreed`, `EveryoneAnswered`), because the prover has no `ENABLED`. Every safety
invariant and action property of a run is also a theorem; the two runs that expect a
violation have none.

A proof also found an error of the model: a bullet list in `RunPublish`'s `Extends`
was laid out so that its last conjunct belonged to the disjunct above it, and
`OutcomesFinal` said less than it meant. It was corrected, and still holds.

## 6. Not modelled, and why

- Formats, parsing and wording (the parsers of feeds, JSON and seeds, dates,
  schemas, slugs, URL normalisation): string work with no state and no order;
  where its result matters it is a function given as a constant.
- Schema validation in `write_document`: a step that may raise.
- Requests for robots.txt: not attempts of a target, and not charged
  (`httpclient.py` 361-399); the rule matching (160-342) is a choice.
- A sleep for Retry-After keeps the slot, possibly past `lease_stale_sec`: the two
  modules are not composed; `slots_crash` covers a slot that is overstayed.
- In the instance of the cell run no candidate has a date or a summary of full
  length, so quality adds only what title, summary and source give.
- Ledgers damaged from outside, and disks that lose what `fsync` wrote.
- Migration (`migrate/*`): mappings of single records by tables of names and
  patterns; there is no state, and the tables are all there is to be wrong.
- The command line: assembly of the parts above.
- The shell drivers, `lockdir.sh`, `safe_commit.sh`, the pipeline and registry
  scripts: outside the Python harvester. The directory lock is of the family
  `DomainSlots` models, with the same ownerless window (`lockdir.sh` 69, 77).

## 7. What would come next

1. A cell run over two topics of two cells each, for TLC to see what the theorems
   already cover.
2. Slots, gate and retries of several clients composed, with the turn a retry does
   not take and the slot a sleeper keeps.
3. `lockdir.sh` and, on it, the parallel drivers: a register that loses no update,
   refined by lanes under the lock.
4. `safe_commit.sh`: the index is empty or exactly what was named, at every exit.
5. A run of `RunPublish` for the bound of the ledger's count from above, which a
   repeated run breaks (section 4).
