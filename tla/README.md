# AI Career OS in TLA+

Specifications of the stateful core of AI Career OS: the job radar, the
match analyses with the progress document of an application, the vector index of
a resume, what the user's feedback makes the system remember, how a captured page
becomes a job, how a company's job board is found, and the settings with the features
that call a language model several times in a row. Each is checked by TLC on small
instances, and what matters most of each is proved with TLAPS for every value of its
constants.

To check a module, run TLC with one of its configurations
(`tlc -config RadarSafety.cfg MCRadar.tla`); to check the proofs, run
`tlapm RadarProofs.tla`. `PROJECT.json` lists the runs, the source lines each
definition stands for, the hazards, the findings and the theorems.

## 1. The system

A FastAPI server on PostgreSQL (`app/`), a React front end (`frontend/`) and a
browser extension (`extension/`). It is one process with one event loop: every
`await` is a point where other requests and background tasks run. Tasks live in
memory only; rows live in the database. Each request and each background task
has a session of its own, in READ COMMITTED transactions, with
`expire_on_commit=False` (`app/db/session.py:8`): what was loaded stays as it
was loaded, whatever others commit.

| component | code | state it keeps | operations |
|---|---|---|---|
| Radar poller, scheduler | `services/radar/poller.py` | `watched_companies`, `postings`; a semaphore and a task set in memory | tick, claim, fetch, triage, store, screen, release |
| Triage, screener | `services/radar/triage.py`, `screener.py` | none; they decide about postings | batches, retry, cap, fail open; limit, giving up |
| Promotion | `services/radar/promote.py` | `postings.job_id`, `jobs`, `match_analyses` | look up the url, structure the job, insert, link |
| Radar API | `api/radar.py` | the same rows, `profiles.radar_target` | add, pause, resume, remove, poll now, re-target, dismiss |
| ATS sources, resolver | `services/radar/sources/`, `resolver.py`, `AddCompanyForm.tsx` | `watched_companies`; an offer in a form | parse a URL, probe, count, search the web, confirm |
| Match analyses | `services/match/orchestrator.py`, `api/match_analyses.py` | `match_analyses`, `jobs.raw_metadata` | create, run in the background, draft a resume or a letter |
| Application progress | `services/application_progress.py`, `job_artifacts.py` | `jobs.raw_metadata` (one JSON document) | mark a step, record a baseline, record a remeasurement, save a draft |
| Profiles, resume index | `api/profiles.py`, `services/rag/` | `profiles`, `resume_chunk_embeddings` | save, apply suggestions, re-index, index when missing |
| Jobs, capture | `api/jobs.py`, `job_intake_handoff.py`, `job_url.py`, `extension/background.js` | `jobs`; hand-offs in memory for 30 minutes | look up, judge, parse, hand over, review, create, edit, delete |
| Capture text, classifier | `capture_text_normalization.py`, `document_classifier/`, `intake_validation.py` | none | find the posting in a page, chunk it, vote |
| Career memory, feedback | `api/feedback.py`, `services/memory/` | `feedback_events`, `career_memories`, `jobs.application_status` | record, replace the active memory of a key |
| Settings | `services/settings_service.py`, `llm/factory.py`, `llm/urls.py` | one row | get, make on first use, update, make a client |
| Research, cover letter | `company_research.py`, `cover_letter_generator.py`, `search/` | `jobs.company_brief` | decide, search, synthesise, store; draft, criticise, revise, cut |
| LLM client | `services/llm/` | none | calls that answer, fail or time out |
| Front end | `frontend/src/` | task registry, cached lists | polling, refreshing, editing |
| Extension | `extension/` | overlay, open tabs | capture a page, hand it over |

How they interact: the scheduler and three requests of the radar API spawn
`poll_company`, which works on rows the user changes at the same time; a
promotion makes a job that a capture may make as well; a match analysis reads
profile and job and writes back a document that four other operations rewrite;
every save of a profile rewrites the index that analyses read and may write; a
feedback replaces a memory every later prompt is built with, and sets the status of a
job; a capture, a paste and a promotion look for the URL of a posting before each
inserts its job; every feature makes its client from the settings row when it starts, and
runs on while the row changes.

What is hard: nearly all of it is *load, await something slow, write what was
loaded*. Locks are one claim with a time-out (radar) and row locks inside a
transaction (index, memories); there are no version columns. Restarts lose every task.

What makes each component correct:

- Radar: one poll per company; no posting stored twice; a company never stuck;
  decisions of the user survive polls; promoted means there is a job.
- Tiers: nothing dropped without a verdict; bounded LLM calls; everything that
  can be scored is scored.
- Application: the progress document keeps what was recorded, refers to real
  results, and measures the resume it claims to measure; analyses end.
- Index: it holds the chunks of one version of the resume, and of the current one.
- Memory: what the user said last is what is remembered, nothing active contradicts
  it, and the status of a job agrees with what is remembered of it.
- Settings: the row is what was asked for; what is shown as configured can be called;
  calls go where they were meant to.
- Agents: a bounded number of calls; what is answered is stored; one search provider
  may fail; a letter fits.
- Boards: the best board there is, is offered, unless it could not be seen; a board is
  watched once.
- Intake: a URL is one job; a page is judged on the posting in it; a hand-off is there
  when it is asked for.

## 2. Modules

| module | what it is |
|---|---|
| `RadarDB` | constants, rows, records of polls and requests, type invariant, initial state |
| `RadarPoller` | `poller.py`: tick, claim, the poll step by step |
| `Radar` | composes the poller with the requests, the promotion and restarts; properties |
| `CompanyLease` | abstract specification: an exclusive lease on a company |
| `RadarInvariants` | the inductive invariant, in named parts |
| `RadarTiers` | triage and screening over many polls of one board |
| `Application` | match analyses, the requests on their results, the progress document |
| `ResumeIndex` | the transactions that rewrite the rows of one profile's index |
| `CareerMemory` | the transactions that record a feedback, replace a memory and set a status |
| `Provider` | the settings row, its two writers, and the clients made from it |
| `LLMClient` | what a structured call comes to, given the provider's answer |
| `Search` | Tavily, DuckDuckGo and their merge |
| `Agents` | composes `Provider`, `LLMClient` and `Search`: company research and cover letters |
| `CoverLetter` | how the body of a letter is cut |
| `Ats` | the three ATS sources: URLs and answers |
| `Boards` | composes `Ats` and `Search`: the resolver and the form that adds a company |
| `CaptureText` | from the text of a page to the posting in it |
| `Classifier` | chunks, their vote, and what is let through |
| `PageClassifier` | composes `CaptureText` and `Classifier`: the judgement of one captured page, chunk by chunk |
| `Intake` | captures, pastes, promotions, hand-offs; an opinion on a page is one `Classifier` can come to |
| `MC*` | instances for TLC |
| `OperatorProofs` | what folds, greatest elements, searches and the cut of a letter come to: lemmas of the modules below |
| `RadarProofs`, `RadarServiceProofs` (of `RadarTiers` and `Boards`), `ApplicationProofs`, `ResumeIndexProofs`, `CareerMemoryProofs`, `AgentsProofs`, `IntakeProofs` | theorems |

A definition introduced by a comment "Bug: ..." is a mistake the code does not
make; no specification uses it. Each property is known to fail when one such
mistake takes the place of the definition it is about.

### Radar (`RadarDB`, `RadarPoller`, `Radar`)

A step is what happens between two awaits that take long. A poll is
`ClaimCompany` (with `skip_locked` refusals in `RefuseClaim`), `FetchBoard`,
`Triage`, `StorePostings`, `LoadUnscreened`, `Screen`; each failure the code
distinguishes is a step (`FailPoll`, `StoreFails`, `FinishFails`). What a poll
remembers from earlier steps is in `poll` and `work`: the status it loaded, the
rows its session holds. That makes two behaviours
of the ORM visible: an attribute set to the value it was loaded with is not
written (`StatusAfter`), and an update of a row that is gone fails the whole
commit (`lost`, `orphan`, `FinishFails`). After a failed flush the session cannot be
used, so the poll's last commit fails as well and its claim stays (`StoreFails`): it goes when
it is stale, and the company is due again. `DueCompaniesArePolled` says that this never goes on
for ever, with one exception: a board that lists an id twice again and again. Two rows of one
key are inserted then, the flush of every poll fails, and with it the commit that
should record the error (`poller.py:217`, `:142-155`), so `last_polled_at` is never written and the
company stays due. `BoardRepeats` names that step, and the property asks nothing of a
company whose board takes it for ever; of one whose board stops, it asks that it is polled.

Time is a step, `Minute`, that ages claims, polls and last polls up to the
limits that matter. `PollDeadline` says how long a poll may run: below
`StaleAfter` it is the assumption the claim rests on, at or above it there is no
bound, as in the code, which has none.

Each posting stands for one url; `jobs` counts the jobs with that url.

### Tiers (`RadarTiers`)

One poll at a time, many polls. The LLM may answer, fail, or not be configured;
`Poisoned` postings fail whenever they are screened. The board changes between
polls. What neither tier catches ends the poll as an error (`PollRaises`), with the scores it
has kept. A batch is any subset of the unseen postings of the right size, which
covers the order of the board. The oldest are screened first (`seen`), ties
being broken in any way, since postings stored together have one time stamp.

### Application

One job. A background run loads the profile (`LoadProfile`), then the job
(`LoadJob`), asks the LLM and commits (`CompleteAnalysis`, `FailAnalysis`, or
`LoseAnalysis` when the commit itself fails). Requests load the document, wait,
and write it whole (`Written`). The document is reduced to what the code
branches on: which steps are done, which analysis a draft is of, baseline,
whether a new measurement is awaited, and which analysis it was. `Store` is the
ORM again: a value equal to the one loaded is not sent. Two history variables,
`basis` and the field `of`, say which version of the resume a run scored and
which one the applied suggestions made.

`Concurrency` bounds how many runs and requests are in flight. What the code
promises of the document without any version check is stated for the cases in
which it can keep it: `CurrentWritesKeepProgress` of writes whose author has the
document as it is (without that condition it does not hold: see the end of section 5), and
`RemeasuredAfterTailoring` of runs not `overtaken`, the history of those between
whose two loads suggestions were applied.

### ResumeIndex

One profile. A row is a chunk id and the version of the resume it embeds.
A writer is a save (`SaveResume`, `RefreshResume`) or a run that finds no index
(`StartRun`, `FindIndex`, which leaves it at "missing"); both then delete and insert. The database is modelled
by what READ COMMITTED and row locks do: `StartDelete` sees the committed rows,
`FinishDelete` waits for those who hold them, `Skipped` drops the rows that are
gone by then, `InsertRows` waits for uncommitted rows of its keys and fails
(`InsertFails`) when one is there in the end. `EmbedderFails` and `Restart` end
writers between the two commits of a save; a run whose embedder fails commits all the same,
and with it the DELETE it has done (`CommitFailure`). `ChunksOf` is a parameter: any map
from versions to chunk ids. The history variable `met` holds the writers another
one was at work with: `OnlyOverlapsAreRefused` and `LoneWritesAreCurrent` say what
does and does not happen to those who are not in it.

### CareerMemory

One profile and one job. `create_feedback` is one transaction in five stages:
`LoadReferences`, `StartUpdate` and `FinishUpdate` (the UPDATE sees the rows committed when it
starts, waits for those who hold them, passes over those that are inactive by then) or
`NoDraft`, after which the job is selected, again, since nobody holds the object that
`LoadReferences` has looked at; `SetStatus` (a status equal to the loaded one is not sent, `IsSent`), and
`CommitFeedback`. `memories` is in the order of the commits; `begun` and `alone` are
history: how many memories there were when a feedback came in, and whether anybody
committed while it was at work. A key is a preference, a gap, a strength or one status of
the job; outcomes of other jobs and of no known topic behave like preferences.

### Settings and agents (`Provider`, `LLMClient`, `Search`, `Agents`, `CoverLetter`)

A write of the settings is `LoadSettings` and then `UpsertSettings` or `SetInterval`: validation,
the columns that are sent (`Flushed`: those that differ from the loaded ones) or the
INSERT that meets another one (`Conflicts`). A base URL is its host and whether it has a
port, a path and `/v1`, which is what the string operations of `llm/urls.py` tell apart;
`docker` is whether the process runs in a container, and `Restart` chooses it anew. The
readers are operators: `EffectiveSettings`, `IsConfigured`, `get_llm_client`,
`list_provider_models`. `raced` and `last` are history: whether a PUT overwrote columns
that had changed since it loaded them, and what the last PUT of each kind asked for.

A research (`StartResearch`, `Decide`, `SearchWeb`, `Synthesize`, `StoreBrief`) makes a call per step;
each may come to any outcome of `generate_structured`, which is computed from everything
a provider may answer, and each search to any outcome of `SearchOutcome`. The job may
be deleted at any point. A letter is three calls (`WriteLetter`). `CoverLetter` is a pure
algorithm over kinds of characters, compared with what the cut should be (`CutsFit`).
`LLM_HOST_GATEWAY` is taken not to be set: were it, a URL saved with another name of the host
would not be rewritten outside of the container (`urls.py:41`).

### Boards (`Ats`, `Boards`)

A form submits a query (`Submit`); the request goes through `AskUrl`, `Probe` (three
requests at once for each candidate of `slug_candidates`), `CountProbed`, `NextSlug`,
`SearchWeb`, `CountResult`, `GiveUp`, each request to a board being a step of its own, between
which boards open and close and after which an API may answer badly. An answer has a
status or a shape of JSON, and each source makes its own of it (`probe`, `fetch`). `observed`
is history: what each board has been, or seemed to be, since the query was submitted.

### Intake (`Intake`)

A flow is a capture (`Capture`, `LookUp`, `Judge`, `Parse`, `HandOff`, `OpenReview`, `Reload`), a
paste (`Paste`) or a promotion (`Promote`, `Structure`); the first two end in `Save` and
`Insert`, and each looks for the URL in one request or before one `await` and inserts
later. `DeleteJob` and `UpdateJob` do as they like with URLs. A URL is its site, its job and
a form, which `normalize_job_url` maps as the code maps strings; the function is not
idempotent for one of them. `beaten`, `since` and `patched` are history. What
`Judge` may be told is what `Classifier` can come to, no opinion, or an error.

### Pages (`CaptureText`, `Classifier`, `PageClassifier`)

A call of `classify_page_text` is `Prepare`, `Chunk`, a `Classify` for each chunk, and
`Aggregate`; it ends without an opinion when nothing is left of the page or there is no
classifier (`Skip`), and it fails when the settings cannot be used (`RefuseSetting`) or the
classifier raises (`ClassifierFails`).

`CaptureText` and `Classifier` are pure. A text is lines of tokens, lengths are in tokens, and
a token stands for the phrases that are in the same of the code's six lists, which differ: a
line of its own that says "benefits" ends a section that was found by its lines
(`SECTION_STOP_HEADING_RE`), and does not end one that was found inside a line
(`INLINE_SECTION_STOP_MARKERS`), where "see who you know" does. So what is asked of a section
depends on the path it was found by (`OnlySection`). A label "page title:" alone on its line
takes the next line with it. `PreparedRight`, `ChunkedRight` and `JudgedRight` say what text,
chunks and vote should be, and `JudgedOnThePosting` asks it of every call that ends with an
opinion. What is kept as the description of a job is not part of this: the review page saves the
text it was given, and a promotion the description of its posting.

## 3. Runs

| run | states | question |
|---|---|---|
| `radar_safety` | 263 000 | the safety properties and the refinement, everything at once |
| `radar_liveness` | 86 000 | is a due company polled, when polls outlast their claims, overlap, collide and die at a commit, and through a re-target or a restart? |
| `radar_overrun` | violation | is a fresh claim exclusive when a poll outlasts its claim? |
| `radar_decisions` | violation | does a decision survive a poll that screens the posting? |
| `tiers` | 109 000 | does triage fail open, are calls bounded, is what can be scored scored, one posting being hopeless? |
| `tiers_starved` | violation | the last of them with two hopeless postings |
| `application` | 61 000 | does the document stay consistent, and measure what it says it does, when stale copies are written back? are current writes kept? do analyses end? |
| `index` | 75 000 | three writers: are versions whole, who is refused, what does a lone writer leave? |
| `memory` | 1 598 000 | is the last word active, what leaves two memories of a key, do status and memories agree? |
| `agents` | 150 000 | do settings hold and lead where they should, through overlapping PUTs and starts in and out of a container? do researches and letters end, with what they answer stored? |
| `boards` | 1 071 000 | is what the resolver offers, or that it offers nothing, justified by what the boards were? is a board watched once? |
| `intake` | 613 000 | when is a URL a job twice? is a hand-off there in time? is a page judged on the posting on it, all of it, by a fair vote? |

The runs marked *violation* check what a comment, a document or a test says and
the code does not do; `findings` in `PROJECT.json` quotes the sentence of each.

**Bounds.** Radar: one company, two permits and one promotion (two where two are
the question), one posting, `StaleAfter` and `Interval` of two minutes. Companies do not share rows,
so one shows what two do, except for "a poller serves one company at a time",
which is proved. Two polls and a request are the smallest cast in which each
claims, loads and commits between two steps of another; a claim one minute old, and one that
is stale, are different states with `StaleAfter = 2`. `QueueBound = 1` per origin:
a second waiting poll of the same origin adds nothing that a refused claim does not show.
`BoardsRepeatIds` lets a fetched board repeat an id. `radar_liveness` has every limit at one
minute, so that a poll outlasts its claim; in a history it has either one restart, or one change of
the target while one poll runs, and after it polls do not overlap; and it leaves polls by hand,
pauses, removals and promotions to the other runs (`Overlapping`). Tiers: three postings, batches of two, one
batch, two attempts, a limit of three, giving up after two, so that each cap is
below and above what there is to do. Application: two analyses, a baseline and a
remeasurement, and a request, all in flight at once, so that each of them writes
back a copy that any other has made stale; two new versions of the resume, so that
suggestions are applied twice. Index: four versions
that overlap, lose, gain and repeat chunks. Memory: a preference and two outcomes besides
"saved"; two requests and four feedbacks, so that two that overlapped are followed by two
that meet what they left. Agents: three requests, since a refused INSERT needs two and a
third may follow it; seven bodies that give or keep a key and name a host of each kind; a
research of three steps, so that there is a first, a middle and a last one. The CONSTRAINT
`OneThingAtATime` keeps apart what shares no variable but is interleaved by name only: three
PUTs at once with no research or letter begun, or at most one PUT with one of these; and it
has the PUTs, which are alike, start in one order.
Letters: all texts of up to five characters of six kinds, cut at four. Boards: one form
(forms share `watched` and the boards only), a board of the company, one of another
company under its first word and one found by searching; one bad answer, two changes and two
submissions. Intake: two flows, which is what a duplicate takes; URLs of every form; `TTL`
of two ticks; one restart and one updated URL; and, since the judgement of a page
shares nothing with the flows, either these run or one judgement does (`FlowsOnly`, `CallOnly`).
Pages: all texts of up to three lines, of
fourteen kinds, which is as long as lines are broken at their markers; texts of three lines of
words and up to three more, of eight kinds, which are not; chunks of four tokens with no
overlap, one, and one that is refused; scores that qualify as either label or as none.
`MaxCrashes`, `MaxMishaps`, `MaxRetargets`, `MaxListings`, `MaxFaults`, `MaxChanges`, `MaxSubmits`,
`MaxPatched`, `MaxRestarts` bound how often the world, or the user, interferes.

**Symmetry** is used in safety runs only: permits and requests are interchangeable,
and so are the writers of the index, the requests with feedback and the flows of the intake.

**Deadlock** is checked in every run but three: in no reachable state is there nothing left
to do (a tick, a run or a request can always start, and a feedback be given up). In `agents`
a request is made once, in `boards` the user submits a bounded number of queries, and in
`intake` a judgement ends, so the system may rightly come to rest.

**Fairness.** Radar: the event loop runs (`Minute`, `QueueDuePoll`, steps of a
poll: weak), and the semaphore is FIFO and row locks are short, so a waiting poll
that can claim its company again and again does (strong). Every external call
has a time-out, so a poll's step ends. Tiers: polls come round (weak); a
provider is configured now and then and scores what it can score now and then
(strong): without that no posting can be promised anything. Application: a queued run gets its
turn (strong, since the bound `Concurrency` may be used up in between), a call
ends (weak). Agents: a research or a letter that has begun goes on (weak), since each of
its calls has a time-out. The user is never assumed to do anything. `ResumeIndex`,
`CareerMemory`, `Boards`, `PageClassifier` and `Intake` have no liveness property. That a poll is cut
short by an exception or a restart is bounded in `Tiers`, and not fair: if every poll were, nothing
would be screened.

## 4. Proofs

All theorems hold for every value of the constants that satisfies the named
assumptions of the modules, so for any number of companies, postings, permits,
requests, analyses, writers, versions, hosts, keys, URLs and restarts.

- **Radar.** `BeliefsHold` is inductive: types (`TypeInv`), a running poll's claim is on the row and
  as old as the poll (`HeldClaims`), the rows its session holds exist unless it
  knows of their loss (`RowsInv`). `ExclusiveClaim` alone is not inductive: that a
  second claim is refused follows from the age of the claim being the age
  of the poll, and that from `PollDeadline < StaleAfter`, the proviso of the
  theorems. `ClaimIsExclusive`, `StoresNeverCollide`, `PromotionsLeadToJobs`,
  `TypeCorrect` and the refinement `PollsImplementLease` follow. `PausesAreRespected` needs
  the types only, and a case for each step that writes a status.
- **Tiers.** `TiersAreConsistent` carries the counting: calls made are bounded by
  batches done and the attempts at the one in progress, screening calls by what
  is no longer to do, failures by both. From it `PollsAreCapped` and
  `TriageFailsOpen`.
- **Application.** `AppIsConsistent` is `ProgressIsConsistent` of the
  document *and of every copy in flight*, with "completed stays completed": that is why
  stale copies cannot make it inconsistent. `ImprovementIsMeasured` needs the same for
  `RemeasuredAfterTailoring`, and that no copy anywhere knows of suggestions newer than
  the resume a run between its loads has (`TailorInv`). `CurrentWritesAreKept` follows from
  consistency: a document that is measured is not waiting for a measurement.
- **Index.** `ResumesStayWhole` needs that what a DELETE has met is whole versions, that
  locks and keys of different writers are disjoint, and that an insert meets no
  row that stays. For `RefusalsNeedAnOverlap` and `LoneCommitsAreCurrent`: as long as a
  writer has met nobody it is the only one at work, what it embeds is the current
  resume, and its DELETE has met every row (`Undisturbed`).
- **Memory.** The committed rows alone are not inductive: `OwnRows` (a transaction is
  about to deactivate rows of its own key only) gives `LastWordStays` and
  `StatusStaysRemembered`, `RowsMet` (once its UPDATE has started it leaves out nothing
  that was active when the feedback came in) gives `ContradictionsNeedAnOverlap`, and
  `StatusLoaded` (who is alone has loaded the status there is) gives `LoneOutcomesShow`.
- **Settings and agents.** `ProviderIsConsistent` adds to `LonePutsHold` that a request that
  has loaded the row knows of it (who found none either conflicts or is alone), and
  that the row's URL is the one that was asked for, up to what starts in and out of
  a container make of it (`UrlIsAsked`), which a second normalisation does not change but
  for the spelling of the loopback host. `SettingsHold`, `RefusalsNeedAnInsert`, `ClientsCallWhereAsked` and
  `ConfiguredMeansCallable` follow. `RunsAreConsistent` is about every research at once:
  it has searched at most once per step, and what it has found is a sequence of items
  without a page twice, whatever is found, merged and kept; from it
  `AgentsTypeCorrect`, `BriefsAreStored` and `SearchesAreSafe`.
- **Boards.** `BoardsInv` says of a form what it has *passed over* by the stage it is in
  (`FormInv`): the board of the URL once it probes, every candidate before the one it tries
  and each source that has answered for this one, every candidate once it searches, every
  result before the next. Passed over means that the board was, while the form waited,
  missing or empty (`SeenMissing`), which is kept since a form never unsees (`MoreIsSeen`);
  what is offered was seen with roles at that time (`Sound`). It also needs that a form that
  waits has seen what every board is *now* (`Watches`), so that an honest answer is a board's
  state it has seen: that is what a change between two requests must tell it.
  `OffersJustified` and `BoardsTypeCorrect` follow. `OneRow` needs that whatever makes a
  token, of a URL or of a name, writes it in one way (`IsToken`). TLC has checked
  `BoardsInv` on the instance of `boards`, too.
- **Operators.** What a fold does to a sequence is an induction over data, and the library's
  induction takes an operator as a parameter. `LeastExists` gets the least element of
  a set of naturals from the library's theorem on well-founded relations; with it,
  `UpTo` is induction for a *set* of naturals, and `FoldExists` says that a fold by a
  *function* is defined. `WholeUnrolls`, `DedupedUnrolls` and `DistinctUnrolls` then
  say of each fold of the model what it is, item after item.
  `CutsAlwaysFit` is about the cut of a letter, for every text and limit: what is
  stripped is a beginning, whitespace at its end does not change where sentences end
  (`EndsInBeginning`), and the cut is a greatest position. `LettersFit` is its
  instance for the run.
- **Intake.** `DuplicatesNeedAnOverlap`: a flow that has looked for a URL that stays as it
  is, and was not beaten to it, meets no row of it when it inserts (`LooksHold`).
  `HandoffsStay`: a hand-off is as old as its history says, or is gone because it is too
  old or a restart took it (`AgesAgree`).
- **Chunks and votes.** `ChunksAreRight`, for every length, size and smaller overlap: the
  recursion of `chunk_text` ends since each chunk begins after the one before
  (`ChunksExist`), and what the chunks from a position on cover (`CoveredFrom`) is shown from
  the last one back. `VotesAreRight`, for any number of chunks and any scores in integers:
  `PassesIff` says when a page passes without the cascade of the code, and leaving a
  chunk out is a bijection of the positions that are left (`Shift`, `ShiftCounts`), which
  keeps the number of votes, the best score (`SameBest`) and the first of the most confident
  chunks; so a chunk that is a posting by itself can be added to a page that passes
  (`PostingHelps`, `TieHelps`).
- **Texts.** `TextsArePreparedRight`, for any number of lines of any length, of any tokens: the
  text is one over its own words (`OverItsWords`), and every step of the preparation makes
  lines over the words it is given, so that none is made up; a section that is found has
  what its path promises, no line that is a stop heading when it was found by its lines
  (`FromLinesIs`), and no inline marker when it was found inside one (`InlineIs`), and it has
  a line that is not noise, its heading (`SectionIsPosting`); filtering keeps that line
  (`KeptIs`). It rests on `MIN_ANCHORED > 0` (`CaptureAssumption`), so that a text without a
  section is never one with a section that is long enough. `BrokenAtMarkers` and `Kept` are
  folds, and what they and `FlattenSeq` compute is again an induction with `UpTo`;
  `NormalizingKeepsWords` adds that breaking lines before headings loses, adds and moves no
  word.
- **Pages.** `PagesAreJudgedOnThePosting`: at each step of a call, what is prepared is what the
  preparation makes of the page, the chunks are those of what is prepared, and the results are
  classifications of the first of them (`PageInv`). When the call ends, the three theorems above
  apply to them, and the opinion is the vote over all chunks; an opinion is missing only where
  there is no classifier or nothing was left of the page, which a page with something to say excludes.

Only model-checked: the liveness properties (`DueCompaniesArePolled`,
`HealthyAreScreened`, `UndisturbedAnalysesEnd`, `AgentsEnd`), since fairness is out of the
prover's reach. Every other property of a passing run is stated by a theorem. `BoardsTypeCorrect` is proved and not
checked by a run. The violations
are counterexamples and need no proof.

## 5. Not modelled

- What the LLM, the embedder and the boards say: a choice in every module.
- Prompts, the remaining normalisers (extractions, analyses, suggestions), PDF export and
  parsing: text in, text out.
- How suggestions are woven into a resume, and how retrieved chunks are merged.
- The front end's task registry, polling and pipeline refresh; the extension's overlay and
  permissions; how text is collected from a page.
- Model names, the parsing of a provider's list of models, throttling of searches.
- The criteria filter (`matches_criteria`): it is part of the choice of which
  postings a board yields.
- Deleting a profile, and jobs with analyses: the database refuses or cascades,
  and no other operation goes on with what is left.
- Two server processes. The semaphore and the task set are per process, the claim is not;
  the models assume the one process the deployment has.
- Phrases of the capture text's lists that are in the same of them, and blank lines: one token
  stands for the former, and the latter are dropped by every step that looks at lines.
- Deadlocks between transactions of the database, which it ends by itself.

Seen in the models, and not stated as properties since the code has nothing that
would keep them: a poll in flight when the target changes stores postings triaged under
the old one (`poller.py:93`); a queued poll does not look again whether its
company is still due (`poller.py:87`); postings triage dropped are triaged again at every
poll (`poller.py:113`); two overlapping saves whose resumes share no chunk id leave
the rows of both (`indexing.py:52`), and if they share one, the second save fails with its
resume committed (`indexing.py:60`); suggestions applied between the two loads of a
run are measured by the score of the old resume (`orchestrator.py:21`); of two writers of
the progress document the later one writes back the copy it loaded before its LLM call
and takes back what the other recorded (`match_analyses.py:112`, `jobs.py:211`); two
overlapping feedbacks of one key leave two active memories (`context.py:25`).

The same of what happens between two commits, or before one and after a restart: an analysis
that is pending when the process stops, or whose last commit fails, stays pending
(`orchestrator.py:56`); a save whose embedder or process fails after its first commit leaves
the index of the old resume, which no analysis notices (`profiles.py:147`); a promotion
looks for the URL, asks the LLM and inserts without looking again (`promote.py:58`).

Of the settings: two overlapping PUTs can leave the provider of one with the key or the URL
of the other (`settings_service.py:105`); a key that was saved for one provider is kept for
the next and is taken before the key in the environment; models are listed with the
saved URL and key whatever provider is asked about (`model_list.py`); a loopback URL without
a port is not rewritten when it has a path (`urls.py:33`).

Of calls: an answer that is not JSON, and a connection that breaks off while it is read, are
not `LLMError`s, nor is a blank snippet a `SearchError` of Tavily; with DuckDuckGo it costs the whole
batch; `MAX_AGENT_SEARCHES` equals `MAX_AGENT_STEPS`, so that only the steps bound a research.

Of boards: the URL of a board that is out of order is then taken for a name and probed
(`resolver.py:85`); an error other than those of the sources while roles are counted is an
error of the request.

Of intake: `normalize_job_url` decodes a query and does not encode it again, so that a URL with an
encoded character changes each time; `create_job` stores the once-normalised and looks for
the twice-normalised one (`jobs.py:59`); `update_job` writes URLs as they are given and looks for
none; a page of which the preparation leaves nothing is let through; a section found inside a line
keeps what an inline list does not stop at, "Benefits" for one, which ends a section found by its
lines (`capture_text_normalization.py:43` against `:14`).

## 6. Plan

Done: the modules above, in the order of how much rests on them.

1. `AsyncTasks` and `PipelineSync`: timers, overlapping refreshes and polls in the front end;
   that what is pending is polled until it is shown as ended, whatever order answers come in.
2. Pure algorithms against reference definitions: merging of retrieved chunks, chunk
   ids, the radar's criteria filter, suggestion application.
3. The permissions and the overlay of the extension; the parsing of model lists.
4. More proofs: of the front end's timers, once they are modelled.
