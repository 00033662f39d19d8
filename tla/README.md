# A TLA+ verification of Work Engineering

This directory holds a formal model of the repository: of its backend in `src/backend/app`, a
FastAPI application over SQLAlchemy and PostgreSQL, and of its web application in
`src/frontend/src`, written in React. The modules are checked with TLC on small instances and,
where a section below says so, proved with TLAPS for every instance.

## The system

A *work unit* is a contract of eighteen attributes for one piece of work. Seven scores
(VERDICT) give it a *recommended* autonomy level L1..L6, hard gates cap it, people promote the
unit towards it one level at a time, and failed verification runs and lower scores demote it.
Units arrive one by one, from discovery, or in a batch, as a *genome* that is imported,
versioned and ratified. Around that core are registers of evidence, gaps, consent and outcomes,
and pages where people sit together, say what their work is, and sign it.

Two kinds of concurrency make it hard:

* **In the backend** every endpoint is a synchronous function run in a thread pool. A request
  has one database session (`db.py:6-7`, no autoflush, `expire_on_commit=False`), in READ
  COMMITTED, with no version columns and no row locks. A loaded row keeps its loaded values
  through the request, an UPDATE carries only the columns that were changed, and everything
  between a read and a commit can interleave with other requests.
* **In the browser** one thread runs many handlers, each suspended at an `await`. Answers come
  in any order or never, effects are started again when a tenant changes, and a handler uses
  the state it closed over when it was clicked, which may be older than the screen. Little but
  a busy flag, where there is one, keeps a second click from starting while the first waits.

### The parts

| part | state | operations | interacts with | what makes it correct |
|---|---|---|---|---|
| VERDICT (`services/verdict.py`, and again in `lib/offerDeskScenarios.ts`) | none (`verdict_scores` holds its results) | derive, gate, replay the cap, strip | ladder, hand-off, import, document check | caps hold, strip in order, monotone in scores, both copies agree |
| Autonomy ladder (`services/promotion.py`, `services/work_units.py`) | `work_units.autonomy_level`, `status`, contract; `verdict_scores`; `verification_runs`; `autonomy_changes` | score, record a run, promote, demote, patch, reconcile, make authoritative | every writer of units | level under recommendation, raises approved, audit trail exact |
| Genome import (`services/genome_import.py`) | `genome_versions`, the units of a version | import: gates, write, roll back, re-record | ladder (`apply_verdict`), consent | all or nothing; attempts auditable |
| Work census (`routers/work_systems.py`, `censuses.py`, `moderation.py`; `CensusPlan.tsx`, `CensusWorkChart.tsx`) | one row per system and census, a log, at most 5 finish times, an outcome | start, sign, ratify, log, measure | both tabs of two visitors | seals one-way, caps hold, the card shows what was acknowledged |
| Tenant session (`company.tsx`, `hooks.ts`, the hooks of `lib/`) | the stored key, the company it belongs to, the one selected, each hook's data | paste or retire a key, select, navigate, load | every page | a page shows its own company's rows only; no page waits for ever |
| Console (`WorkUnits`, `Verification`, `Verdict`, `Economics`, `Ontology`, `Discovery`, `WorkGraph`, `Overview`, `Projections`) | what each hook read; forms, groups, an upload, a graph | one request per form; upload and Bulk create send many | ladder, discovery, ontology, graph | every handler asks again for what it changed; nothing is lost or counted twice |
| Genome, scope and spec pages | details of one version, a board, checks | ratify, scope, check | import, spec gateway | the page shows what is stored |
| Scout interview (`ScoutInterview.tsx`, `components/scout`) | one session: rows of cells, panels | type, fill, add story chunks, resolve, consent | the session's routes, each answering the whole session | words people gave are kept, chunks are added once |
| Offer desk (`OfferDeskSitClose`, `ChroSitting`, `OfferDeskSpecDeny`, `OfferDeskDocumentCheck`) | drafts, answers, a line, uploads, checks | confirm, correct, save answers, draft, upload, ask Spec again | field ratifications, work system, files, spec | what is shown as confirmed or cleared is stored so; samples are not saved |
| Evidence (`CensusEvidence.tsx`, `EvidenceClaims.tsx`, `services/pointers.py`) | claims, pointers, files, gaps | upsert a pointer, read | files, gaps | what is drawn as a fact stands in a stored file, at a place that was opened |

What is hard to test here is listed in `PROJECT.json` under `hazards`, each at its line.

## Modules

| module | models | proofs |
|---|---|---|
| `Verdict` | `services/verdict.py` and the strip lint of `services/invariants.py`, as pure operators | `VerdictProofs` |
| `DeskStrip` | the page's copy of the strip's arithmetic | `DeskStripProofs` |
| `MCVerdict` | a walk over all scoring forms, with the properties of both | `DeskStripProofs` |
| `AuthorisedLevel` | what the ladder promises: an abstract register | |
| `AutonomyLadder` | one unit, its rows and the sessions that serve requests on it | `LadderProofs` |
| `GenomeImport` | concurrent imports into one tenant | `GenomeImportProofs` |
| `CensusJourney` | tabs with a card each, over the census rows | `CensusJourneyProofs` |
| `TenantSession` | the provider of the company and every data hook | `TenantSessionProofs` |
| `ConsoleHooks`, `ConsoleForms`, `WorkUnitsPage`, `GraphPage`, `Console` | the console: reads; forms; the list, upload and Bulk create; the drawing; their composition | `ConsoleProofs` |
| `Requests`, `ScoutPage`, `ScoutPanels`, `GenomePages`, `ScopePages`, `SitClosePage`, `ChroPage`, `EvidencePage`, `DeskPages`, `Workbench` | the pages that talk by `apiFetch`, each extending the one before, and their composition | `WorkbenchProofs` |
| `MC...` | constants of the runs | |

### Verdict and DeskStrip

Scores are integers, and the mean of seven of them is kept as their sum, that is in sevenths;
the band limits 2.0, 2.75, 3.5, 4.25 and the L6 limit 4.5 are multiplied out, which is exact
(no sum of seven integers makes a floating-point mean cross a limit it does not cross exactly).
`LiveCap` is the running minimum of `apply_hard_gates`, `AppliedGates` the list it stores, and
`CapFromAppliedGates` the later replay of that list; the model keeps the three apart because
the code does. `DeskStrip` is the page's arithmetic, with its own table of caps and its own
bands, and not a renaming of the backend's.

### AutonomyLadder

`level`, `status` and `contract` are the unit's row. The contract is three facts, the only ones
a rule here tells apart: `evidence_required` is not blank, the linked regulatory entry asks for
a licensed human, every other attribute is filled. `verdict`, `runs` and `changes` are the
unit's other rows. `session[s]` is one request: what it loaded and where it stands.

| action | code |
|---|---|
| `Load` | `get_or_404`, first in each handler |
| `CheckPromotion`, `CommitPromotion` | `promote`: its checks, then `_record` |
| `Demote`, `CommitDemotion` | `demote` from its endpoint, and from the two automatic callers |
| `InsertRun`, `CheckFailRate` | `create_run`: commit of the run, then `maybe_autodemote` |
| `ReadRow`, `LoseInsert`, `SaveRow`, `RefreshRow`, `CheckCap` | `apply_verdict`: read, lost savepoint insert, commit, the refresh of the row, then that of the unit with `maybe_demote_to_recommendation` |
| `Patch`, `Reconcile`, `MakeAuthoritative` | the three other writers of the unit's row |
| `Answer` | a read, or a request a rule refuses |
| `Crash` | the process dies; what is not committed is lost |

`MergedRow` and `MergedContract` are SQLAlchemy's UPDATE: a column is written if the new value
differs from the loaded one, and otherwise keeps what another session may have put there.
`FailRateBreached` is a strict comparison because `1.0 - 9/10` and `1.0 - 18/20` are below
`0.10` in binary floating point; no other quotient of at most twenty runs is a tie.

### GenomeImport

`owner[c]` is the version of the unit with code `c`, `scored` the units with a verdict row,
`versions` the version rows with their count and whether `gates_passed` says they passed.
`session[s].pending` are inserts not yet committed; the unique index makes another session's
insert of the same code wait (`WaitsFor`) and then fail (`Collide`) or be chosen as the victim
of a deadlock (`DeadlockVictim`). `ScoreUnit` is `apply_verdict`'s commit in the middle of the
batch. `Fault` is any other exception in the write phase, among them a statement refused
because the session was handed a connection without its tenant. After a rollback the attempt
is recorded again (`RecordFailed`), or, if nothing had been committed, the rollback also undid
the tenant setting and the record may be refused (`LoseAttempt`).

### TenantSession

`stored` is the key in local storage, `live` the keys the backend accepts, `loads` the runs of
`CompanyProvider.load` that have not answered, `keyClient` and `client` its `keyClientId` and
`clientId`. `hook[h]` is one data hook: `useApi` on a plain page and on one that filters by the
selected company, `usePlanUnits`, `usePlanVerify`, `useWorkSystem`, `usePlanOutcome`,
`useCensus` and `useEvidenceClaims`.

| action | code |
|---|---|
| `PasteKey`, `SaveFromBanner` | `setSpecKey` and its event, from the key control and from the banner of a page |
| `SettleLoad`, `FailLoad` | the `then` and `catch` of `load`, in any order |
| `RetireKey`, `NewCompany`, `SelectCompany` | a rotation elsewhere, the button New company, the switcher |
| `RunEffect` | an effect whose dependencies changed: the cleanup cancels, then the request or the guest's early return |
| `Answer`, `Refuse`, `Fail`, `AskPointers`, `TakePointers` | the hook's answers: rows, a 401, an error, and the second request some hooks make |
| `Navigate` | another route: the hooks unmount and start afresh |

### CensusJourney

`db` holds the rows: the work system with its four signatures, the census, the moderation log,
the finish times and the outcome. A call on the `wire` is looked at by the backend (`Look`: the
read and its early returns), committed (`Commit`), then heard by the tab that sent it (`Hear`),
or its answer is lost (`Lose`). Each tab has a card and what it shows. `alone` and `tidy` are
history: whether two handlers of the backend ever overlapped, and whether this card ever had
two requests under way or lost an answer.

### Console

A page is mounted with the hooks of its route. Every read and every handler is a *job* that
waits for an answer. `ConsoleForms` is a table of the forms: where each stands, whether it sends
the organisation's key to a route that needs one, the tables the route writes always and
sometimes (a failing run *may* demote the unit), and the reads the handler asks for again. That
the page asks for all it changed is then a question about that table and the interleaving, and
not an assumption. `WorkUnitsPage` goes through a workbook row by row with the cache of
business objects and the set of known codes, and keeps the groups of the list open or closed as
the effect of the search does. `GraphPage` is the breadth-first rank, the columns and rows of
the canvas and the legend.

### Workbench

One page at a time is mounted over its rows (`page`, `db`), with the jobs that wait (`jobs`),
the components' state (`ui`), and what happened so far (`tidy`: whoever clicked waited for every
earlier answer; `calm`: nothing was lost or refused and nobody else wrote). `Click` actions are
the handlers up to their first `await`, `Serve...` the route, `Hear...` what the handler does
with the answer, the next request of the same handler included. A fault loses an answer, after
the backend did the work or before, or is a 401. Other visitors may withdraw a consent receipt,
settle a draft, write the line of the period or a pointer (`Withdraw`, `SettledElsewhere`,
`LineElsewhere`, `PointerElsewhere`).

Four routes do less, or more, than their page suggests, and the models follow the routes:

* The read of a genome's business objects answers one flag for all of them, that of the whole
  version (`genome.py:209`), whatever was ratified object by object (`ObjectsOf`). A version may
  begin approved for some of its objects, and ratified or not (`VersionRows`).
* The first read of a replay builds and stores it (`BuiltOnce`), a rebuild stores it anew, and
  each read of the contradictions looks for new ones and stores them (`Detected`), keeping those
  that are listed with their status. What the interviews of the other side answered is the
  constant `Disputed`; the run's bound is that they never say the same as a cell.
* A pointer may carry a page, a line and a cell at once. The resolver opens a sheet at its cell
  and a PDF at its page (`ReadAt`, `PlaceRead`), and does not look at the rest. A file cited
  without any place resolves when it is stored with content, a PDF on its first five bytes;
  such a pointer is never verified, so no binding field can rest on it.
* The sitting answers share a column with the timeline of a session (`scout.py:294`). The
  interviews modelled here have none.

| module | pages |
|---|---|
| `Requests` | `lib/apiFetch.ts`, the key banner, busy flags |
| `ScoutPage`, `ScoutPanels` | `ScoutInterview.tsx`, the Work Capture Grid, the five elevations and the consent gate |
| `GenomePages` | `GenomeVersions.tsx`, `Genome.tsx` |
| `ScopePages` | `BlastRadius.tsx`, `Spec.tsx` |
| `SitClosePage` | `OfferDeskSitClose.tsx`, `services/field_ratification.py` |
| `ChroPage` | `ChroSitting.tsx`: the answers are saved as a whole list, over samples; a sentence of them becomes the line of the period |
| `EvidencePage` | `EvidenceClaims.tsx`, `services/pointers.py` with the resolver's outcomes |
| `DeskPages` | `OfferDeskSpecDeny.tsx`, `OfferDeskDocumentCheck.tsx` |

## Runs

| run | bounds | checks |
|---|---|---|
| `verdict` | all 5^7 forms, both contract facts: the whole input space | `CapReplayAgrees`, `StripMonotonic`, `Monotone` |
| `ladder_serial` | one session, no crash, three forms (L6, L3, L3 by a gate), window 4, at least 2 runs, 6 runs, 5 changes | `AuditChain`, `LevelWithinRecommended`, `BreachesAnswered`, `StoredStripMonotonic`, `RaisesAreEarned`, `CapEnforced`, `ImplementsAuthorised` |
| `ladder_concurrent` | two sessions, crashes, two forms, PATCH of every status, 3 runs, 3 changes | `TypeOK`, `AuditTail`, `LevelsEarned` |
| `genome_import` | two sessions, four genomes over three codes, faults, crashes, 3 versions | `AcceptedWhole`, `OwnersKnown`, `UnscoredAllOrNothing`, `CommittedKept`, `ImportEnds` |
| `tenant_session` | two companies, a key each and a key nobody minted, six pages, 2 acts, 2 loads at once | `ShownIsKeyedInTurn`, `SelectedOnly`, `GuestSeesNothing`, `LoadingEnds` |
| `census` | two tabs, room for one finish time, two days to log, 2 acts | `OnlyOverlapBreaks`, `WritesShown`, `NothingInvented`, `NothingTakenBack`, `StartEnds` |
| `console` | nine pages; two units and one a candidate may become; a workbook with a repeated row and one with a row without a code; three graphs; 2 acts, 1 lost answer | `ReadsItsWrites`, `DecidedOnce`, `UploadAccounted`, `LayoutSound`, `DeadButtonWorks`, `HitsAreOpen` |
| `workbench` | eleven pages, two of everything a page lists; 2 to 4 acts by page, 1 fault | `ShownIsStored`, `AddedOnce`, `ConfirmedIsStored`, `SampleNeverSaved`, `FactsOpen`, `HandWordsKept` |
| `ladder_race` | two sessions | violates `OnlyPromotionRaises` |
| `ladder_mixed_row` | two sessions | violates `StoredStripMonotonic` |
| `ladder_stale_cap` | one session | violates `GatesHold` |
| `genome_torn` | two sessions, two genomes sharing a code, no fault | violates `NoHalfImport` |

### What the passing runs show

* `verdict`. Over the whole input space the cap replayed from the stored gates is the cap that
  was applied, the strip is in order, the page's copy draws the backend's strip, and a higher
  score never lowers the recommendation. Allocations are compared for a human actor: the
  page computes those of floor and ceiling from the level alone, so for a unit whose actor is
  external it draws "make" or "agent" beside the backend's "buy".
* `ladder_serial` states what the code keeps when requests on one unit do not overlap;
  `ladder_race` and `ladder_mixed_row` show what overlapping does to two of these promises. The
  properties of `ladder_concurrent` need no such condition.
* `genome_import`. An accepted version owns all its units, a failed unscored import leaves
  none, what is committed stays, and no import waits for ever.
* `tenant_session`. A settled page shows its own company's rows as long as the loads of the
  company list answer in the order they were sent. They need not: `load` has no cancellation, so
  the answer for an older key may come last and win (`company.tsx:73`), and a load that fails
  leaves the old company standing (`company.tsx:87`). `orderly` marks the sessions in which that
  happened, or in which the banner of a page dismissed a refusal without sending anything again.
  `GuestSeesNothing` and `SelectedOnly` hold in every order.
* `census`. Seals, logs and times are only added, and a sixth finish time, a name signed over
  another, or a failed insert needs two handlers of the backend at once. A card that never had
  two requests under way shows every write it was told had succeeded.
* `console`. At rest, and without faults, each page holds what the tables hold, however its
  handlers overlapped. The upload accounts for each row even if answers are lost. The layout
  never puts two units at one place, and goes one column per edge where no unit has two edges
  into it and there is no cycle; with two, breadth-first ranks may be too small, so the property
  does not claim more.
* `workbench`. `ShownIsStored`, `AddedOnce` and `HandWordsKept` are stated of visitors who wait
  for each answer: with clicks in between, whole-board answers that come out of order, a second
  click on Add and a cell saved during a fill do break them. `ConfirmedIsStored`,
  `SampleNeverSaved` and `FactsOpen` hold whatever is lost, refused or late, and whoever else
  writes. Of the genome page `ShownIsStored` says that an object's flag is the version's, which
  is what the route answers, and hides which objects were ratified (below). `FactsOpen` asks a file to
  open where the resolver opens it, at a sheet's cell or a PDF's page; for a file cited without
  a place it says only that the file is stored with content, and that no place is drawn.
  `ConfirmedIsStored` is one-sided: what is shown as confirmed is stored so, and not that every
  stored line is shown after a refusal.

### What the violation runs show

* `ladder_race`. Two requests load a unit at L3. One demotes it to L1, then the other, whose
  check of "must lower" was made on L3, demotes it to L2. The level rises without a promotion.
* `ladder_mixed_row`. Two re-scores load the same verdict row. Each writes only the columns it
  changed, and the stored row has the scores of one and the recommendation of the other; its
  strip fails the lint the hand-off runs.
* `ladder_stale_cap`. A unit is scored and promoted with evidence required, then a PATCH blanks
  the field. The gate that now applies would cap it at L2, and nothing re-derives the level.
* `genome_torn`. A genome whose first unit is scored and whose second code is taken by another
  import meanwhile. The score commits the first unit, the collision rolls back only the rest,
  and the response says nothing was saved.

### Bounds

The ladder's window and minimum of runs are smaller than the program's (20 and 5) so that a
window slides and a promotion is possible within the bound on runs; `census` has room for one
finish time in place of five, and `console` asks for two passing runs in place of five. The
modules take all of these as constants. `MaxRuns`, `MaxChanges`, `MaxVersions`, `MaxActs`,
`MaxLoads` and `MaxFaults` are bounds of the runs, not of the program: they stop new runs,
requests, imports and clicks from starting, and never stop one that has started. Each ends the
behaviours that reach it, which is why deadlock is not checked. Five changes are enough to
climb to a gate's level and fall from it; six runs to breach, recover and breach again; two
sessions suffice for each interleaving above because every race in these handlers is between
one read and one foreign commit. On a page, two clicks that send a request are enough for every
race between two handlers, or between a handler and a read; three and four are used where a
page needs one click to get to the state in which the race can happen (start a session, upload,
then ask again).

Further bounds of `workbench`, each named at its action: an answer is blanked, and a panel or a
step left, only while no request is under way; the story panel is opened only then; a cell is
opened only while a click is left to save it; the form of the Spec page is filled while no check
is under way; and another visitor's request is served in one step. `note` is the file that is
stored without content, so that a pointer may cite a stored file and yet be no fact; `scan` is a
PDF whose prefix is right and whose content does not open, so that it resolves when it is cited
alone and not when it is cited by page. The run has about three million states.

### Fairness

`FairSpec` of the ladder and of the import assumes weak fairness of each session's `Advance`: a
request in hand runs to its end, as a thread of the server does. New requests, faults and
crashes are never assumed. `CapEnforced` needs no more, since the demotion belongs to the
request that lowered the recommendation; it is stated without crashes, because a process that
dies between the two commits does leave the unit above its cap until the next score.
`ImportEnds` assumes that the database resolves a deadlock, which PostgreSQL does after its
deadlock timeout; since `MaxVersions` bounds the imports, the run does not show that a stream of
new imports cannot delay a waiting one.

`TenantSession` assumes that React runs an effect that is due, and that each request is answered
or fails (`fetch` settles); the user need not do anything. `LoadingEnds` leaves `useWorkSystem`
out because the code does not keep it there: when a request is cancelled by signing out, the
cancelled run may no longer clear `loading`, and the guest's run returns without doing so
(`workSystem.ts:157`). `CensusJourney` assumes only that a request is answered, or its loss
noticed, and the answer heard.

## Proofs

TLAPS proves the following for every instance the modules' assumptions allow.

`VerdictProofs`: for every form and both contract facts a derivation yields a row (`DerivedRow`)
and the row's strip is in order (`StripInOrder`). The band is monotone in the value, the mean
lies between seven times the lowest and the highest score, and the replayed cap is the live cap.

`DeskStripProofs`, over the walk of `MCVerdict`: `CapReplayAgreesAlways`,
`StripMonotonicAlways` and `MonotoneAlways`. The invariant is only that the walk stays within
forms of scores 1..5; the work is in lemmas on bands and caps: a higher score raises no gate and
lowers no band, and the page's four comparisons are the backend's.

`LadderProofs`, for any set of sessions, forms, contracts, outcomes, approvers, window and bounds:

* In every interleaving and with crashes: `TypeCorrect`, `AuditTailAlways` and
  `LevelsEarnedAlways`. `LevelsEarned` is not inductive: a session about to commit a promotion,
  or holding a loaded level, must itself know that its level was earned, so `EarnedInv` adds
  that for each stage of a session.
* Under `OneAtATime` (at most one session, no crash): `LevelWithinRecommendedSerially`,
  `AuditChainSerially`, `StoredStripSerially`, `RaisesAreEarnedSerially` and
  `ImplementsAuthorisedSerially`. They share `SerialInv`, which says that what the session
  loaded is still what is stored, that a stored row is the derivation of some form, and where
  between the two commits of a re-score the level may exceed the recommendation. The refinement
  maps the register's level to the smaller of level and recommendation, so that a re-score and
  its demotion are one abstract step and the demotion's own commit stutters.
* `BreachesAnsweredSerially`, also under `OneAtATime`. `BreachInv` keeps the account of a streak:
  the level has paid for every breach of it, but for the one whose run the session has just
  recorded and whose demotion it is about to commit. A run lengthens the streak by at most one
  (`StreakGrows`) and one out of breach ends it (`StreakEnds`); and no promotion falls inside a
  streak, because a pass rate that allows one is not in breach (`SufficesUnbreached`).

`GenomeImportProofs`, for any sessions, codes and genomes, with faults and crashes:
`AcceptedWholeAlways`, `OwnersKnownAlways`, `UnscoredAllOrNothingAlways` and
`CommittedKeptAlways`. Their invariant `IInv` adds to the types and the properties that a
session writes under a version of its own (`VersionsOwn`), that what it has pending is free in
the table and in every other session (`PendingFree`, which is the unique index), that the batch
it counts is the units it owns (`BatchCounted`), that versions are numbered in order
(`IdsKnown`), and that a refused version that owns anything owns a scored unit
(`RefusedScored`).

`CensusJourneyProofs`, for any tabs, days and caps:

* `TypeCorrect`, `OnlyOverlapBreaksAlways` and `NothingTakenBackAlways`. The invariant adds
  `Overlap`: while no two handlers have overlapped, at most one request stands between its look
  and its commit, and what it saw is still so.
* `NothingInventedAlways`. `BackedInv` says the same of the answers on their way, so that a card
  that shows one shows nothing the rows did not have; the rows only grow, so it stays true.
* `WritesShownAlways`. `WritesInv` adds that an acknowledgement on its way is truthful
  (`Truthful`: the rows have what it acknowledges) and that a card which never had two requests
  under way shows, or waits for the read that will show, all it was told (`Settled`).

`TenantSessionProofs`, for any companies, keys and pages: `TypeCorrect`,
`GuestSeesNothingAlways`, `SelectedOnlyAlways` and `ShownIsKeyedInTurnAlways`. `GuestInv` adds
that a hook whose last run saw a guest has no answer on its way and holds no rows, and that
nobody is signed in before the provider's first answer; `SelectedInv` that the hook's request,
and what it shows without an error, is of the company its last run saw. `TurnInv` is about the
queue of loads: the newest was sent with the stored key, so while they answer in turn the last
to be heard is the one that counts, and a hook that shows another company's rows is due to run.

`ConsoleProofs`, for any pages' workbooks, codes, graphs and bounds: `ReadsItsWritesAlways`,
`UploadAccountedAlways`, `DecidedOnceAlways`, `DeadButtonWorksAlways`, `HitsAreOpenAlways` and
`LayoutSoundAlways`. The first five follow from one inductive invariant (`Inductive`) whose parts
are

* `ShapeInv` and `ReadInv`: a page has jobs of its own only, and one read of a hook at a time;
* `FreshInv`: while nothing failed and nobody else wrote, each hook shows its table, or its read
  is on the way with the table's rows or yet to look, or a handler owes that read. The table of
  forms enters as one lemma, `WritesAreReloaded`: a form that writes what its page reads asks
  for it again;
* `OneHandler` and `CandidateInv`: visitors who wait have one handler under way, and an
  undecided candidate has no unit. That a seeded unit never has the code the candidate becomes
  is `SeedAssumption` of `Console`; it stands for `create_unit`, which refuses a taken code, and
  `accept_candidate`, which picks another;
* `UploadInv`: one step of the upload is under way, about the row the upload has come to, and
  what it counted so far adds up to the rows before it. That the parsed rows are a sequence no
  longer than the workbook (`ParsedIsSequence`) is proved by least counterexample.

`LayoutSoundAlways` needs two invariants. `GraphInv` is one of the page: what the canvas draws,
what is stored, and what the answers on their way hold are all units and edges between two of
them; a form that adds an edge takes its ends from the list of units. The other is one of the
search, over its turns (`Searched`): after turn `k` on a forest, `k` nodes were popped, none is
queued twice, and an edge from a popped node has its target one column further right, while the
target of any other edge was not seen yet and still stands in the first column. It is kept by a
turn (`SearchedNext`) because a node of a forest has one edge into it; it gives the property when
the queue is empty (`SearchedAll`), since the units that were never seen would each have an edge
from another of them, which no nonempty set of units of a forest has. Recursive functions are
unfolded and invariants over their arguments are proved by least counterexample, once
(`StepsDefine`, `UpTo`), since the library's induction cannot be used. No two nodes share a
place because the row counts the earlier nodes of the column (`PlacesApart`), and the legend
adds up because its chips part the units (`TotalOfParts`). The assumptions are `NodeAssumption`,
that the nodes come in an order, each once, and `SeedAssumption`, that no stored edge leads from
a unit to itself: `create_edge` refuses it, and the import refuses a cycle.

`WorkbenchProofs`, for any fields, questions, units, files, citations and bounds, and any number
of other visitors, losses and clicks: `ConfirmedIsStoredAlways`, `SampleNeverSavedAlways` and
`FactsOpenAlways`; and for visits in which each answer is waited for, `AddedOnceAlways` and
`HandWordsKeptAlways` of the Scout interview and `ShownIsStoredAlways` of the eight pages that
show rows. Their invariant is

* `PlaceInv`: on a page only its own actions happen, over jobs of its own. This makes eleven
  pages that share `ui`, `db` and `jobs` separate proofs;
* `SitInv`: what the page and the answers on their way hold of a settled row is that row. A
  settled row is not settled again, so a late answer cannot be wrong about it;
* `ChroInv`: what the page draws as the line, and what is on its way, is the stored line once
  that is confirmed; and no list of answers, stored or on its way, holds a question's own sample
  while samples are drawn;
* `EvidenceInv`: a row, stored, shown or on its way, is a pointer as the route writes it, about a
  stored file or none, and of a binding field only with words that were found. Files only grow,
  so that stays so;
* `DenyInv` and `HelperInv`: a check that cleared a unit stays in the trail, and an uploaded file
  in the store;
* `OtherPlaceInv`: which jobs each of the other pages has. On the interview none is abandoned,
  so whatever is under way there can still be waited for;
* `ScoutInv`: the shape of the grid, the stories and the jobs in every visit, and, where all
  answers are waited for (`tidy`) and nothing failed (`calm`), `Waited`: at most one request is
  under way; a row of the grid that came from a story bears the name of a story clicked earlier,
  and no two bear one name; an answered request holds the rows as they still are; what a fill
  asks for is still blank; what Add asks for is not in the grid; and a story that is open
  has all its added chunks in the grid, unless the answer that marks them is still on its way.
  The steps are proved once for the server (`ServedWell`, `WordsStay`) and once for the answer
  the page hears (`Taken`);
* `ShownInv`: where all answers are waited for and nothing failed, each part of a page agrees
  with its table, or a request is under way that owes it. `ShownIsStored` alone speaks of pages
  at rest only and is not inductive: it needs to know, of every request and of both halves of
  its way, what it was asked with, what its answer holds, and which read follows it. There is one
  such statement for each page: a ratified object owes two reads and its selection
  (`GenomeOwed`); a change of the scope was made on the board that is shown, by a card that is
  busy until it is heard, so that the drafts of the others stay those of the board
  (`ScopeOwed`); a draft of sit close was made of the rows as they are, of a field that has none,
  and confirming one row leaves the others shown as stored (`SitOwed`); once the lists of the
  evidence are there, each unit was read, is being read or waits in the queue of the pool, and
  something waits only while a read is under way (`PoolOwes`); two reads of the sitting go on side by side
  (`ChroOwed`). Only the scope leaves requests behind when it is left; on the other pages every
  request is heard.

The assumptions on constants are few. `SampleAssumption`: `HR_SAMPLE_ROWS` is a list.
`DisputedAssumption`: a contradiction is about a
plain name and a field. `SeedAssumption` of `Workbench`: the grid a session begins with is a list of rows somebody typed,
a plain name and words for its fields. `ChroAssumption`: the question of this period is a core
one, and a sentence somebody types is neither empty nor one of the samples. `ResultAssumption`:
the outcomes of a check are not `Nothing`. `SitAssumption`: `SIT_CLOSE_ROWS` is a list.
`ScopeAssumption` and `EvidenceAssumption`: the units of the evidence are a list, and a
sub-function, the list of units and the files are not the value that stands for nothing read or
selected yet. `DeskAssumption`: the ratifications a sitting begins
with are rows as the routes write them, at most one per field, as `SitRatifications` lists them.

Only model-checked: the liveness properties `CapEnforced`, `ImportEnds`, `LoadingEnds` and
`StartEnds`, which are beyond the prover. Every safety invariant and every action property of
the passing runs is a theorem.

Definitions marked *Mutant* are deliberately faulty variants of the definition they precede.
Nothing uses them; put in its place, each makes the property it was written for fail, which
shows that the property depends on that piece of code.

## Where the code and its words part

Besides the four violation runs, the models' behaviours and reading the code for them showed:

* A PATCH may set `authoritative` (`schemas/workunit.py:51`), so a draft without a run becomes
  what `models/workunit.py:14` calls "reconciled + verified". `ladder_concurrent` includes it. No
  property speaks of that status: of the endpoint that does ask for a passed run it could only
  repeat the question.
* An object of a genome whose units were all approved, one by one or together, is drawn as
  pending until the whole version is ratified (`genome.py:209`). The docstring calls that a
  simplification until partial ratification is built; line 118 of the file builds it, and
  `docs/Work-Engineering-V8.md:954` says it is live.
* `pointers.py:117` "every branch either confirms the location exists": of a pointer with a cell
  and a page, or a line, one is looked for, and the page draws all (`EvidenceClaims.tsx:84-98`).
* `WorkCaptureGrid.tsx:110` "Existing, already-filled cells are never touched": which cells are
  blank is decided when the fill is clicked, and one that is typed and saved while it runs is
  overwritten. `HandWordsKept` and its theorem are of a visitor who waits.
* `lib/handoffReadiness.ts:1-2` "Mirrors ... exactly": it lacks the fifth gate of
  `services/handoff.py` (the verification design), so a unit the backend refuses is drawn ready.
* `ApiKeyBanner.tsx:9` says Save and retry retries; `EvidenceClaims.tsx:144` and others pass a
  callback that only hides the banner.
* `ChroSitting` "Sample text is not saved as a named sitting": a sample of another question, kept
  as this period's answer through Edit, is saved by Next. `SampleNeverSaved` is about a question's
  own sample. Nor is clearing the last answer ever saved (`hasPersistableText`).
* A pointer with a file and no place shows "Their words" that nobody checked, because the
  resolver opens a place and not a file; the property asks that they stand where a place was
  read. A file with no place at all, a PDF that does not open included, is drawn as a fact
  (`pointers.py:173-179`), which its comment calls "file-only honesty".
* A function-head session whose sitting answers were saved cannot show its replay: the stored
  column is no timeline (`scout.py:238-245`), and a rebuild discards the answers
  (`scout.py:254-255`).
* `OfferDeskSpecDeny` sends `/work-units/` without the company, and its button is gone once the
  upload succeeded, even when the second check was lost.
* The gate list of a row that does not parse counts as no gate on the page
  (`offerDeskScenarios.ts:86`), which lifts the cap there; and on a row that mixes two
  derivations (`ladder_mixed_row`) the page does not cap the derived level.
* A scored fail rate of exactly ten percent does not demote (`promotion.py:62`), though the
  documents say at least ten percent.

## Not modelled, and why

* Deleting a unit (which a foreign key of runs and audit rows may refuse,
  `routers/work_units.py:63`) and cloning a tenant's units (which carry a level without a row,
  `services/tenants.py:131`).
* The content of the import's gates (quality score, schema, file hashes, cycles), the gap flags
  and sequence numbers: a gate is a choice to refuse. Two imports may take the same sequence
  number (`genome_import.py:378`).
* The gap register's rescan (`services/discovery.py:218` deletes gaps that pointers may
  reference), the consent purge sweep (`consent_purge.py:34`), the rotation of keys
  (`routers/org.py:59`, where two rotations mint two keys) and the connection pool, of which the
  import has the effect of a lost tenant only.
* The hand-off's readiness and bundle: a fold of independent tests of one row, shown as text.
* In the pages: guests' previews, the selection of a claim, zoom and pan, charts, maps, the
  static desks and tours, the pages that only draw, and save-talk-only, evidence pack and family
  genome, each one chain of requests.
* In the workbench the backend serves a request in one step. The races inside its handlers are
  in the ladder, the import and the census; that of two confirmations of one draft
  (`field_ratification.py:99`) is in none.
* Text: parsing, extraction, matching, the LLM assist, files, rendering. Floating-point
  economics. Migrations, seed and demonstration data. See `components` in `PROJECT.json`.

## What is left

In the order of what it would add: field ratifications as two steps of a handler, with two
callers; the gap register against pointers; key rotation with its grace window; the consent
sweep against an import; an abstract all-or-nothing register that the unscored import
implements.
