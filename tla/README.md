# Questock: formal models

Questock answers questions about a few Korean stocks from recorded documents,
with an optional LLM call. One Python process serves all requests on one asyncio
event loop, so code between two `await`s runs without interruption, and
everything that can go wrong between requests goes wrong at an `await`, in a
timeout, in a cancellation, or as a clock moves on. The data comes from scripts
that write files, one after the other, with nothing that keeps two of them or a
start of the service apart. These modules model both. Paths below are relative to
the repository (`src/app/...` in `PROJECT.json`).

## Inventory

| component | state | operations | interacts with | hard behaviour | what makes it correct |
|---|---|---|---|---|---|
| Session store, `app/services/session_store.py` | entries by session id: context, recent exchanges, revision, last access, lock, users | `serialized`, `get`, `put`, `state`, `revision`, `append_exchange`, `conversation_context`, purge, eviction | called by the chat service around and inside each request | lock hand-over, cancellation, expiry while waiting, eviction at the limit | one owner per session; an entry in use stays; nothing lost, stale or half reset; bounded |
| Request protection, `app/services/request_protection.py` | semaphore, buckets by client, global day count, active count | `admit` (enter, body, exit), purge, eviction, day roll | called by the chat service before each LLM attempt | timeout against a granted slot, refusal after the slot, midnight, bucket expiry | slots conserved; limits hold for every stretch of time; everyone answered |
| Response cache, `app/services/response_cache.py` | entries by session, question, revision, ... with age and last use | `get`, `put`, `size`, purge, eviction | chat service: lookup under the revision before, put under the revision after | expiry by age but eviction by use, two caps | hits are fresh and latest; caps; eviction only for cause |
| Chat service, `app/services/chat_service.py` | none of its own; each request's plan, gateway result, pipeline, composition | `chat`, `_chat_serialized` and its stages | all of the above, router, gateway, composer | stale context across awaits, order of save, record and cache, one deadline over all stages, stages that check each other | answers are those of requests handled one at a time; deadline kept; the stages agree |
| Provider fetching, `app/providers/base.py` | TTL cache | `fetch_with_policy`, `fetch_required_providers` | providers | retry, attempt timeout and total deadline, fan-out | every provider reported once; late answers not mixed up |
| Hybrid intent router, `app/services/hybrid_intent_router.py` | none | `should_classify`, `classify`, fallbacks | LLM client, request protection | timeout and failure of the call, a plan rebuilt for another intent | falls back to the deterministic plan; keeps security and dates |
| Query planning, `app/planning`, `app/core/resolver.py` | none | `plan`, `resolve` | session context | precedence of what is said over what is remembered | the plan is about what was meant |
| Evidence, `app/evidence`, `app/retrieval` | per-request call budget | normalisation, filter, freshness, retrieval, policy, selection, citations | chat service | dates at boundaries, correction chains, caps in sequence | what is shown is apt, covered, and doubts are told |
| Source gateways and glossary, `app/services/*gateway.py`, `glossary_service.py` | constant recorded data | `fetch`, `lookup`, validation | chat service | none (recorded) | results match what was required |
| Composer and validators, `app/answer` | none | `compose`, `compose_fixed` | LLM client, call budget | model failure after reservation; claims refused one by one; reports merged in later | at most one call, fallback otherwise; every claim rests on evidence |
| Recorded snapshots and the scripts that make them, `app/services/*snapshot*`, `app/ingest/reports.py`, `scripts` | files | collect, curate, build, load | each other, through files | a script stopped half way, two at once, a start while a file is written | what is loaded was built together; refusals have a cause; what is served is what the curators promise |
| Runtime, API, UI, acceptance and evaluation | configuration and constant data | | | start-up and offline code | |

`PROJECT.json` lists every part with its status and, under `hazards`, the places
where the code is hard to test, each with the properties that cover it.

## Modules

| module | what it is |
|---|---|
| `SessionStore` | the session store: one action per method, or per stretch of `serialized` between two awaits |
| `Conversation` | what the store promises: each session has a memory and at most one owner, and is forgotten only as a whole and unowned |
| `SessionStoreProofs` | theorems about `SessionStore`, proved with TLAPS: entries and locks, then memories |
| `RequestProtectorProofs` | theorems about `RequestProtector`: slots, wake-ups and counts, then the limits |
| `ResponseCacheProofs`, `ChatMemoryProofs`, `ProviderFetchProofs`, `ChatPipelineProofs`, `SnapshotFilesProofs`, `RecordedServiceProofs` | theorems about the module each is named for; the last one has a section for each of the modules `RecordedService` is made of |
| `RequestProtector` | admission of LLM attempts: CPython's `Semaphore` and `wait_for` as the code uses them, buckets and limits |
| `ResponseCache` | the cache of answers |
| `ChatMemory` | `SessionStore` joined with `ResponseCache` the way `ChatService.chat` joins them |
| `Dialogue` | what a conversation with the chat service is: a follow-up is about the last security talked about |
| `SecurityResolver`, `QueryPlanning`, `IntentRouter` | from a question and a context to a plan, and what a classifier may change of it |
| `ChatPipeline` | requests under their deadlines, over `RequestProtector` and `IntentRouter` |
| `ProviderFetch`, `ProviderReport` | the fan-out over providers, and what it promises |
| `Sublists` | lists with some of their items left out, or sorted, said by position and without recursion |
| `SourceDocuments`, `Freshness`, `EvidenceSelection`, `EvidencePolicy` | the evidence pipeline, stage by stage |
| `EvidenceComparison`, `AnswerDrafts`, `SourceGateways` | prepared comparisons of articles; composing and checking an answer; where documents and glossary entries come from |
| `RecordedService` | a conversation over recorded documents: all of the stages joined as `_chat_serialized` joins them |
| `NewsCollection`, `DisclosureCuration`, `ReportIngest`, `MarketRecording`, `TitleNews`, `ServiceSnapshot` | what each script makes of its inputs, and what the loader accepts |
| `SnapshotFiles` | the scripts and the starts of the service as processes over shared files |
| `MC*` | instances for TLC |

The modules build on each other in four groups:

```
SessionStore --+-- ChatMemory (refines Dialogue)         SessionStore refines Conversation
ResponseCache -+
SecurityResolver -- QueryPlanning -- IntentRouter --+-- ChatPipeline
                        |          RequestProtector-+
       Sublists --------+-- SourceDocuments -- Freshness -- EvidenceSelection --+-- EvidencePolicy ------+
                                 |                                              +-- EvidenceComparison --+-- RecordedService
                                 |                                              +-- AnswerDrafts --------+
                                 +-- SourceGateways -----------------------------------------------------+
NewsCollection --+-- DisclosureCuration, ReportIngest -- ServiceSnapshot --+-- SnapshotFiles
                 +-- MarketRecording, TitleNews ---------------------------+
ProviderFetch refines ProviderReport
```
### SessionStore

`table` is `_entries`; `entry` holds the `_SessionEntry` objects, which have an
identity of their own because a request keeps its reference (`held`) whatever
happens to the table. `phase` says where a request is: `queued` in the lock's
queue, `woken` when `release()` has completed its future but the task has not
run, `body` between acquire and release. In CPython 3.11 a woken waiter stays in
the queue until it runs, the lock is free meanwhile, and `acquire` does not
barge past waiters; `LockFree`, `WakeFirst` and `Cancel` follow that.

`Enter` is everything from the call to the first suspension: purge, find or
create (evicting if full), count the user, and either take the lock or queue.
When the lock is free the code reads the clock twice in that stretch, so the
second reading may be later (`LaterReadings`). `Refuse` is the error when the
store is full of sessions in use; the purge has happened by then. `Leave` is the
`finally` block. `Read`, `Put`, `AppendExchange` and `RefuseExchange` are the
methods called inside the body; each one purges first. `view` records what the
request last read, for `ViewCurrent`.

The methods' branches for an absent session are not modelled: `EntryPinned`,
proved below, shows that the chat service, which calls them only inside
`serialized`, never reaches them.

Texts are abstracted: an exchange is its revision, a context a model value (the
security, date range, intent and sources together), and what `_canonical_exchange`
or the 16,000-character limit refuses is the choice between `AppendExchange` and
`RefuseExchange`. The clock is monotonic and never fails.

### RequestProtector

`asking`, `queued`, `granted`, `taken` follow one `wait_for(slots.acquire())`: the
task it creates has not run; waits; has been granted a slot it does not know of
yet; has finished while the request itself has not run. A timeout or a
cancellation (`GiveUp`) is possible in the first three; once the slot is taken,
CPython 3.11's `wait_for` returns the result it has. `Decide` is the whole
stretch under `_state_lock` up to the yield or the refusal, with purge, day roll,
eviction and pruning; a refusal also gives the slot back, in the same stretch.
`_state_lock` is not modelled since nothing awaits while holding it. `Finish` is
the `finally` block.

The wall clock is tied to the monotonic clock: a day is `DayTicks` ticks and the
first one began `Dawn` ticks before the clock started. A wall clock that is set back
is outside the model, and the day limits would not survive it: counts start again
whenever the day differs. `log` and `forgotten` are history variables for the limits.
The assumption that a bucket outlives the window and the day (`TtlAssumption`) is true
of the defaults, and `ClientRespected` depends on it.

### ResponseCache

One step per method. `Placed` is `put`: purge, drop the key's own entry, evict in
the session, evict over all, insert. The key's snapshot, model and checkpoint are
constant in a process and a session, and are left out.

### ChatMemory

`LookUp` is the stretch from the lock to the first await, `Complete` the last one,
from `_save_session_context` to `cache.put`; in between the request may read its
conversation (`Consult`), or fail (`Abandon`). `About` is what the planner decides
about a question: the security it names, the session's for a follow-up, none for
an aside (a term, a request for clarification, declined advice). The answer is the
question and that security. `view` is the context the plan was made from, read
before the awaits; `Complete` plans with it, and so would show an answer from a
stale context.

`Complete` takes `cacheable` as an input: price answers are not cached, nor are
those whose observation could not be built.

### ChatPipeline

A request's `at` is the stage it is in. The deadline is not enforced from outside:
the code reads the clock at certain points (`_deadline_reached`, `_remaining`) and bounds its waits by
what remains, so an action runs from one reading, or one return of an await, to the
next, and the clock may advance in between. `_remaining` raises when nothing remains,
which fails the request (`AskFor`, `CallClassifier`, `StartComposer`, `Fetch`); a
timeout of the wait itself leads to a fallback instead (`TurnedAway`,
`ClassifierTimesOut`, `FetchTimesOut`, `ComposerTimesOut`). An answer that arrives in
the same turn as its timeout may be taken or lost. `Build` and `Deliver` read the clock
twice more, and `Deliver` builds the response again when the deadline passed in between.
`Observation` and `PriceObservation` are what is logged of an answer, `Observable` what
the log accepts.

Slots, queue and quotas are `RequestProtector`'s own actions, conjoined to the
request's. What the evidence comes to is any outcome the plan allows (`Judgements`),
since `RecordedService` computes it. The session is left out: each request is the
first of its session, and `ChatMemory` covers the rest.

### The plan: SecurityResolver, QueryPlanning, IntentRouter

A question is what the pattern tables find in it: cues (the tables with a match), spans
(candidate names with their positions), stated dates. From there on the code is
followed: the order of the tables, containment of spans, one security or a clarification,
follow-ups, the widening of a plan, the saved context. `IntentRouter` says when
the classifier is asked, and rebuilds the plan for the intent it gives.

### The evidence: SourceDocuments to EvidencePolicy

Each stage is an operator on sequences of pieces of evidence, and `Invalid` where the code
raises: the stages distrust each other, and a request fails when one refuses what another
made. Texts are sets of words; lengths are small sizes; the retrieval score is the
code's BM25 for documents of equal length, with the logarithms as constants (`Idf`).
Instants have days of `DayLength`, so that windows in days and orders in time differ.
Evidence reaches `Freshness` through the filter, hence dated and not after the basis.

`EvidenceComparison` selects from the comparisons that were prepared offline, and its
evidence takes the place of what was selected when the question asks for a comparison in
so many words. `AnswerDrafts` composes: a model's draft is any of a given set
(`Drafts`), among them ones that cite what was not sent, add numbers, give advice or give
one side only; `Compose` drops claims the way the code does and falls back to
`FixedResult`.

### RecordedService

One session's requests in turn over a recorded corpus: `Ask`, `Gather`, `Judge`,
`ComposeFixed` or `ComposeWith`, `Respond`. A gateway may be too slow, a model may fail,
and a text may come too late, at any moment. `conversation` is what the session store has
of the last exchanges, as far as the composer may refuse it: the words with which a text
holds a link or a path (`UnsafeWords`). `Respond` records an exchange, unless it holds
one of `PrivateWords`, which the store refuses; `ComposeWith` fails when what it is told of
the conversation (`Heard`) holds any, and asks no model when the prompt itself does
(`PromptSafe`). `talk` is a history that no action but `Ask` reads, for its length; the
properties blame turns of it, not of `conversation`. No gateway that the runtime wires yields
corrected or withdrawn disclosures (the demonstration corpus and the snapshot both insist
on the flags being false); the corpora of the run have them since `freshness.py` is
written for them. `answer.integrated` says that a comparison took the place of what was selected.

### ProviderFetch

A fan-out starts a task for each provider. Each task computes its own deadline when it
starts, and for each attempt a time limit that starts to run after it was computed; the
fan-out's own `wait_for` cuts off the rest, and a cancelled task whose answer is at
hand still ends with it. `Says` is what a call may come to: an answer, a failure
that may pass or not, a timeout raised by the provider itself, or something that is no
result. Answers are cached by provider, security and query.

### The recorded data: NewsCollection to SnapshotFiles

Each script is a function from what it was given and what it read to what it writes, or
`Invalid`: `Harvest` and `CurateNews`, `CurateDisclosure`, `CurateReport`,
`BuildService`, `CollectTitles`, `CollectMarket`, and `LoadService` for a start. A
process of `SnapshotFiles` reads its files one by one, computes, and opens and closes the
files it writes; opening one empties it, and two writers of one file may leave a mixture
(`Torn`). It can be stopped anywhere. What the outside gives (search results, filings,
reports, quotations) is a choice among named inputs. Hashes are the content itself, page
addresses are numbers.

Not part of it: the raw responses and rejection logs the scripts keep for people,
the review file in Markdown, which nothing reads, and the file of comparisons, whose
script is not modelled.


## Runs

| run | instance | what it shows |
|---|---|---|
| `session_store` | 3 requests, 3 sessions, room for 2, clock to 2, expiry after 2 | ownership, wake-ups, memory, bound, forgetting only for cause, refinement of `Conversation` |
| `admission_slots` | 4 requests, 2 clients, 2 slots, 1 bucket, no clock | slots, active counts, liveness of admission |
| `admission_limits` | 2 requests, 2 clients, 1 bucket, clock to 4, window 2, day 3 | the three limits and the bucket bound |
| `response_cache` | 5 keys of 2 sessions, 3 items, 2 per session, clock to 2 | freshness, caps, eviction |
| `chat_memory` | 2 requests, 1 session, 4 questions, 2 securities, clock to 3 | answers are current; repeats are cached; refinement of `Dialogue`; waiters are served |
| `chat_full` | 2 requests, 2 sessions, room for 1, 2 questions, clock to 2 | an answer is about something said in its own session, through eviction and refusal |
| `chat_evicted` | as `chat_full`, clock to 3, longer times to live | violates `AnswerIsCurrent`, see below |
| `chat_unrecorded` | as `chat_memory`, with one question whose text is not recorded | violates `AnswerIsCurrent`, see below |
| `chat_deadline` | 2 requests of one client, 1 slot, 2 attempts admitted, 4 questions, deadline 2, classifier timeout 1, clock to 3 | late texts are dropped, calls and slots accounted for, waits end by the deadline, every request ends |
| `provider_fanout` | 2 providers, 2 fan-outs, 2 queries, 2 attempts, attempt timeout 2, total deadline 2, clock to 3 | attempts, cache, refinement of `ProviderReport` |
| `recorded_service` | 5 corpora, 16 questions in up to 3 turns, 11 drafts, 2 companies, 1 exchange heard | evidence is apt, complete is covered, doubt is told, the stages agree (with three exceptions), claims rest on evidence |
| `snapshot_files` | 2 processes, 3 starts of 8 scripts, 2 companies of 2 events each | a start serves one build; refusals have a cause; what is served is sound |

Why the bounds are enough. Three requests give an owner, a woken waiter and a
queued one; three sessions with room for two make entries compete and the choice of
victim matter. Clocks reach expiry, and an entry that expires is wiped or replaced with
the others still in use; in `session_store` `MaxRevision` exceeds `MaxRecent`, so that old
exchanges fall off. Four requests on two slots
put two in the queue behind two granted ones. The limits run starts one tick before a
midnight is two away, so that a day turns within a window. `MaxClock`, `MaxRevision`
and the bounds on starts and turns are guards of actions, not state constraints, so
liveness is checked on the whole graph. In `chat_memory` the store has room for its one
session; eviction while answers are cached is what `chat_full` and `chat_evicted` are for.

In `chat_deadline` the deadline leaves room for one stage to end late and the next one to
start without time, the classifier's own limit is shorter than the deadline, and the two
requests could use three attempts where two are admitted, so that a call can be refused
after it waited. Its questions are one that the classifier is asked about, one for a term,
one for a term on a date, whose glossary stage fails, and one that is declined.
In `provider_fanout` the second attempt starts under a total deadline that the first one
may have used up, and the second fan-out meets the cached answers of the first. In
`recorded_service` the day has two instants, the basis is the first instant of its day, and
the source cap and the size cap are small enough to drop something; the count cap is what
is retrieved at most, as in the code. Its corpora have a
correction chain, a corrected filing without its correction, a withdrawn one, news from
after the basis, and headlines; its drafts include each kind the checks of `validators.py`
and `citations.py` refuse, and one beside which a report is merged in. Three turns let a follow-up follow a follow-up. Two questions have links in them, one of
these with a private path besides, a third has another path; one document has a link and
one a path. The composer hears of one exchange where the code has two, so that
within three turns an exchange can both fail a request and be pushed out. In
`snapshot_files` three starts are two builds over which a third process starts, or a
script that overwrites what two others use; every input that distinguishes a refusal
(a signed address, a pending filing, an article of two companies, a gap in the quotations)
is there once.

Symmetry is used only where no liveness is checked and no order of the symmetric
values matters: requests in `session_store`, `admission_limits` and `chat_full`, answers in
`response_cache`, processes in `snapshot_files`.  (`KeepsPromise` has no fairness, and a
`CHOOSE` of a request has one to choose from.)

`CHECK_DEADLOCK FALSE` is set where the bounds end the behaviour: the clock, the turns or
the starts are used up and every request is done.

Mutants in the modules, marked as such in a comment, are plausible faults of the code;
`PROJECT.json` names the property each one violates.

### Fairness

Weak fairness is assumed of the steps the event loop runs by itself, of time, and of
nothing else. Arrivals, cancellations, answers of a classifier, a gateway, a model or a
provider owe nothing: waiting ends even if none of them ever happens.

`admission_slots`: an `acquire` that was started runs, a granted slot is noticed, a
decision is taken, and a body ends. The last holds since every await in a body is under
the request's deadline (`_remaining`, `wait_for`).

`chat_memory`: a woken request runs (`Proceed`), looks up, ends with an answer or an
error (`Abandon` or `Complete`), and returns. That a request ends is what `chat_deadline`
shows.

`chat_deadline`: the clock goes on until its bound (`ChatTick`), and whatever the
event loop has ready for a request happens (`Runs`): the timeouts of its waits, but not
the answers they wait for.

`provider_fanout`: the clock (`Tick`), the fan-out's own steps (`FanOutSteps`) and each
task's (`Steps`), again timeouts and not answers.

### The violations

`chat_unrecorded` and `chat_evicted` show real disagreements, both because the cache
knows a conversation only by its session id and revision.

`chat_unrecorded`: `_chat_serialized` saves the session's
context (line 483) and then records the exchange (line 484). If `append_exchange`
refuses the exchange, because of a path or a credential-like text in the question or
the answer or because of its length, `_record_session_exchange` returns `None` and
the request succeeds. The context has changed, the revision has not. A follow-up that
was answered and cached under that revision before is now answered from the cache, as
for the earlier context, though it should be about the security just talked about
(`docs/TASK_CARDS/B7-integrated-implementation-plan.md:449`). TLC's trace: a
follow-up in a session without a security is cached; a question about a
security is answered but not recorded; the follow-up is answered from the cache
as if no security were known.

`chat_evicted`: a session evicted from a full store is created again at revision 0
(`session_store.py:289-299`), and its revisions count up again through those under which
answers of its former life are still cached, for up to 90 seconds. A follow-up cached
before the eviction is answered from there after it, though something else has been
talked about since. Expiry does not lead there, since a session outlives the answers
cached for it (`CacheTtlAssumption`, 1800 seconds against 90).

### What the models take over as it is

Behaviour of the code that a reader may not expect, and which the modules follow:

- A question for a term that also states a date fails: `_build_windows` gives the glossary
  no window while the policy expects the user's (the first exception of `StagesAgree`).
- A document with a path in the middle of its text (` /x`) is let in by the loaders, which
  look at how a text begins (`service_snapshot.py:1283-1290`, `models.py:22-29`), and refused
  by the normaliser, which looks everywhere (`normalizer.py:339-347`): it fails every
  request that finds it (the second exception).
- A question or an answer with a link or such a path is kept by the session store unless
  the path is a private one or the link has a path (`session_store.py:406-416`), and
  refused by the composer when it is told of the conversation (`composer.py:230-233`,
  outside its `try`): the requests after it that would go to a model fail
  (`chat_service.py:513-514`), and as failed requests are not recorded, they do so until
  others have pushed the exchange out of the last two or the session has expired (the third
  exception, `Poisoned`).
- `price_move` is covered by news alone, so the policy drops the warnings about disclosures
  that are shown nevertheless (the exception in `DoubtIsTold`).
- Claims of reports that are merged into a model's answer are checked one by one but not
  together with the rest (the exception for reports in `ClaimsRest`).
- A status of `no_evidence` or `provider_failed` may come with evidence of a comparison,
  and `partial` with nothing to show (`docs/TASK_CARDS/M3-01-answer-schema-chat-service.md:810-811`,
  older than the comparisons, reads otherwise).
- The composition that replaces a late one knows neither the sources the question
  named nor its style.
- When a plan is rebuilt as one for a term, the date range is lost.
- A price answer is observed as complete even when the quotation was not publishable.
- A provider's own `TimeoutError` is reported as the total deadline's.
- A build stopped between two files leaves a directory that no start accepts, until the
  next build.
- The headlines of all companies fail if one article is kept for two of them.
- The curators let pass what the builder refuses: a filing nobody could verify or that was
  corrected, signed addresses, titles that are too long or read like a path
  (`RefusalsHaveCause`, which allows builds this).
- Curated news is written down as approved by a person although nothing reads the
  review file.

## Proofs

Everything below is proved for any sets of sessions, requests, clients, keys, providers,
questions, recordings and drafts, and any values of the limits and clocks that satisfy the modules' `ASSUME`s.

| module | theorem | statement |
|---|---|---|
| `SessionStoreProofs` | `Inductive` | `Spec => []IInv` |
| | `TypeCorrect`, `Pinned`, `Exclusion`, `WakeUpKept` | `TypeOK`, `EntryPinned`, `MutualExclusion`, `NoWakeUpLost` |
| | `Views`, `Exchanges`, `WithinBound` | `ViewCurrent`, `RecentIsNewest`, `Bounded` |
| | `ForgetsForCause` | `Spec => ForgottenForCause`, an action property |
| | `Implements` | `Spec => KeepsPromise`: `SessionStore` refines `Conversation` |
| `RequestProtectorProofs` | `Inductive` | `Spec => []IInv` |
| | `TypeCorrect`, `Conserved`, `Exact`, `MapBounded` | `TypeOK`, `SlotsConserved`, `ActiveExact`, `BucketsBounded` |
| | `WakeUpKept` | while a slot is free and someone waits, someone has been granted a slot and has yet to run |
| | `CountersKnow` | `Spec => []LInv`, the invariant of the limits |
| | `ClientLimits`, `GlobalLimit` | `ClientRespected`, `GlobalRespected` |
| `ResponseCacheProofs` | `Inductive` | `Spec => []CInv` |
| | `TypeCorrect`, `HitsCurrent`, `CapsHold` | `TypeOK`, `HitIsLatest`, `CapsKept` |
| | `DropsHaveCause` | `Spec => DroppedForCause`, an action property |
| `ChatMemoryProofs` | `ChatInductive` | `ChatSpec => [](IInv /\ VInv /\ ChatOK /\ OwnInv)` |
| | `StaysOwn` | `AnswerIsOwn` |
| | `CurrentInductive`, `AnswersCurrent` | `CurrentInv` and `AnswerIsCurrent`, under `Roomy` and `NamesRecorded` |
| | `ImplementsDialogue` | `ChatSpec => HoldsDialogue`: refines `Dialogue`, under the same hypotheses |
| | `RepeatsCached` | `ChatSpec => RepeatIsCached`, an action property, under `RoomyCache` |
| `ProviderFetchProofs` | `Inductive` | `FetchSpec => []FInv` |
| | `Attempts`, `Cached` | `AttemptsKept`, `CacheHonest` |
| | `ReportsAsPromised` | the safety part of `EveryProviderReported` |
| `ChatPipelineProofs` | `Protected` | `ChatSpec => Spec` of `RequestProtector` |
| | `PipelineInductive` | `ChatSpec => [](IInv /\ PInv)` |
| | `SlotsFollow`, `DeadlineKept`, `LateTextDropped`, `PlanKept`, `CallsCounted` | `SlotsFollowRequests`, `WithinDeadline`, `LateTextIsDropped`, `RoutingKeepsPlan`, `CallsAccounted` |
| `SnapshotFilesProofs` | `ManifestsAreBuilt` | `Spec => []SInv` |
| | `WholeLoaded` | `LoadedWhole` |
| | `FilesAreGenuine` | `Spec => []GInv` |
| | `SoundServed` | `ServedIsSound` |
| `RecordedServiceProofs` | `RecordedServiceInvariant` | `Spec => []RInv` |
| | `EvidenceApt`, `CompleteCovered` | `EvidenceIsApt`, `CompleteIsCovered` |
| | `DoubtTold`, `ClaimsAlwaysRest` | `DoubtIsTold`, `ClaimsRest` |

### Assumptions on the constants

Most say what a constant is. Those that say more:

- `TtlAssumption` (`RequestProtector`): a bucket outlives the window and the day. The
  defaults of `request_protection.py` satisfy it; a shorter life would let a client start
  again inside its window, and `ClientLimits` rests on it.
- `CacheTtlAssumption` (`ChatMemory`): a session outlives the answers cached for it (90
  seconds against 1800).
- `RoomAssumption` (`ChatMemory`): there are finitely many questions, the cache's limits are
  numbers, of which its share for one session is not zero (`response_cache.py:69-77`), and
  its order ranks every key.
- `SaysAssumption` (`ProviderFetch`), `QuestionsAssumption` (`ChatMemory`,
  `ChatPipeline`): the inputs a run enumerates are of the kinds the module distinguishes.
- `EarlierAssumption` (`SnapshotFiles`): the files a run begins with were left by collections,
  curations and a build that were not refused. A script that refuses writes nothing
  of these files.
- `InputsAssumption` (`SnapshotFiles`): every query is answered, with lists of what is on the
  wire, and a process is given one of the inputs there are.
- `NewsAssumption` (`NewsCollection`): a company has as many rules as it must have pieces of news,
  and no two rules of a company have the same summary, as in `_CURATION_RULES`
  (`news_snapshot_schema.py:113-285`); a query may call the search at least once
  (`collect_naver_news_snapshot.py:187-190`). `ServedIsSound` counts the pieces of news
  of an event by its summary, so two rules that share one would count each other's.
- `WireAssumption`, `UnknownAssumption`, `ReportAssumption`: times and pages are numbers and the
  markers for none are not; a verdict that is not known is neither yes nor no; the
  segments of a report are a list.
- `MarketAssumption` (`MarketRecording`): every trading day has one before it in the calendar, and
  a checkpoint on a day without trade falls back to the last day with trade before it, as
  `TRADING_DATES` and `CHECKPOINT_DATES` have it (`market_snapshot_schema.py:17-40`).
- `TitleAssumption` (`TitleNews`): there are finitely many words that tell of an event.
- `RecordingAssumption` (`RecordedService`): a disclosure is about one security and mentions
  no other, and nothing but a correction names what it corrects: the disclosure provider and
  the normaliser make them so (`disclosure.py:395-455`). Recorded documents, glossary entries and
  drafts are finite lists. That corrections may be of anything, chains or forks included, and
  that drafts may claim anything, is not restricted.
- `ConversationAssumption` (`RecordedService`): what the store refuses the composer refuses too, as
  their expressions have it, and the composer is told of at least one exchange
  (`MAX_LLM_CONTEXT_EXCHANGES` is 2).
- `LimitAssumption` (`EvidenceSelection`): the limits are positive, and the count cap is not
  less than the number of kinds of sources (three, against ten by default). A smaller
  cap could drop the first piece of a source that must be covered, and `CompleteCovered` rests
  on it.
- `ComparisonAssumption` (`EvidenceComparison`): what the loader of the comparisons insists on.
- `TextAssumption` (`AnswerDrafts`): there are finitely many numbers, and the words of the code's
  own templates have none. (A 1 in `1주당` of the template for PER is not a figure of a claim.)
- `ContextAssumption`, `NoBucketAssumption`, `EntriesAssumption`, `ViewAssumption` and the parts of
  `CacheAssumption` and `FetchAssumption` about `Nothing`: a marker for "none" is not a
  value. It is Python's `None`.

`Roomy`, `NamesRecorded` and `RoomyCache` are not assumptions of a module but hypotheses of theorems,
discussed below.

### The session store

`EntryPinned` is not inductive: that an entry in use is not purged rests on its user
count, and the count on every path that changes it. `IInv` therefore says of each entry
(`EntryOK`) that `users` is the number of requests that refer to it, that its lock is
held exactly by the one request in its body, and that its queue lists the waiting
requests once each, the first of them woken whenever the lock is free. The last part is
what excludes two owners: a woken request takes the lock without looking; it is also
all that `WakeUpKept` needs. `RequestOK` says that a request inside refers to the entry its
session has in the table, and `OneSessionEach` that sessions do not share entries.

The proof goes action by action. What an action does to the one entry it touches is a
lemma about that entry alone (`JoinEntry`, `ResumedEntry`, `CancelledEntry`,
`LeftEntry`), what purging and evicting do to the table is `PurgedThinned`,
`RoomThinned` and `ThinnedKeeps`, and all other entries are covered by
`UnaffectedEntry`.

What the sessions remember needs to know what a step may do to a memory. `Fate` says
it for one entry: it keeps its memory, or is wiped while nobody is in its body, or is
written by the one request that is, which then has the new view; `Watched` says what
may become of a view. `StepFate` proves `Accounted`, both for every step, from `IInv`
and `VInv` (only a request in the body has a view, and it is current). Then `VInv` is
inductive, because a writer and a request with a view of the same entry are both in
its body; `RInv` (the exchanges of every entry are its newest) is inductive by a lemma
about `Newest` (`RecordedLatest`); and the bound follows from what `RoomFor` leaves
(`RoomIsLeft`). `ForgetsForCause` is proved of every step from the same facts. For
`Implements`, each step is mapped to the step of `Conversation` that changes its memory,
the set of sessions that forget and the owner in the same way: the three parts are
computed separately, action by action, and a step that purges several sessions at once is
one step of the promise.

### Admission

`SlotsConserved` needs who holds a slot (granted, taken or in the body) and `QueueOK`:
the queue holds exactly the requests that wait or were granted a slot and have not run,
each once. CPython 3.11 leaves a granted waiter in the queue until it runs, and a request
that gives up at that very moment passes its slot on (`GiveUpKeeps`); `HandOver` is why
nobody is left waiting beside a free slot. The counters (`CountersOK`) are related to the
bodies, through the choice of a victim, which never has a body (`RoomCounts`).

For the limits the invariant relates the counters to the whole history of admissions
(`LInv`). A bucket without old attempts still *knows* them in this sense: for every time
inside the window, what its list holds from there on bounds the attempts made since
(`WindowKnows`); its day count bounds those of its day; and a client without a bucket
has made none for a bucket's lifetime, which is where `TtlAssumption` enters
(`KnowsExpired`). The statement about every stretch of time follows since an admission
is only ever made inside the limit (`AllowedWithin`). `forgotten` marks the last eviction:
a client whose bucket was evicted starts again, as in the code.

### The cache

`CInv` adds to the caps that what is stored was put last under its key, with its age.
`put` evicts in two rounds; that the second finds the cap of the session still kept, and
that together they drop one fresh item at most, is `AdmittedIs` and `AdmittedBounds`.
Which item goes is decided by last use and then by a fixed order of keys; `OldestIs` shows
that this names exactly one.

### Store and cache together

`ChatMemory`'s steps are steps of `SessionStore` or leave it alone, so `Inductive` and
`VInv` carry over (`StoreKeeps`, `StepChatOK`). `OwnInv` says that contexts, cached items and
answers are about a security named in their session, and is inductive without any
hypothesis: it is what remains true when sessions are evicted, caches outlive them, or
exchanges are refused.

`AnswerIsCurrent` is not true without hypotheses: `chat_evicted` and `chat_unrecorded`
violate it. The theorems have exactly two, each the negation of what one of these runs
needs:

- `Roomy`: the store has room for every session, so none is evicted and created again at a
  revision under which answers are still cached;
- `NamesRecorded`: a question whose exchange is not recorded names no security, so every
  change of context comes with a change of revision.

Then `CurrentInv` is inductive: every young item of its session's current revision is the
answer that its question would be given there now (`Settled`), and every answer given was.
A session that is forgotten by expiry has no young items left, by `CacheTtlAssumption`.
`chat_memory`'s instance satisfies both hypotheses. The refinement of `Dialogue` follows: a
request that ends with an answer, from the cache or not, is one step of a dialogue with the
session's subject (`StepTalk`), and everything else is a stutter or a session's expiry.

`RepeatIsCached` has a hypothesis of its own. `RoomyCache` says that all sessions' shares fit
into the cache; without it, another session's answers push a fresh one out and the question is
worked out again, which is what a bounded cache is for. With the defaults (256 answers, 4 for a
session) it covers up to 64 sessions, of the 256 that the store admits. The invariant
`RepInv` says that no session has more than its share and that the answer of each session's
last exchange is cached under its key while it is fresh, and as old as the exchange. That
a put spares the other sessions' answers (`PlacedSpares`) is where the counting comes in: once
the put's own session is trimmed, what is left and the new answer are shares of all sessions, so
there are no more than `Cardinality(Sessions) * MaxPerSession` of them (`SharesAdd`, by
an injection into pairs of a session and a place), and the cache is not full. The
put's own session may lose an answer, but its last exchange is the one being put.

### Providers

`FInv` relates what each task has heard to its attempts (`Counted`), its limits to the
fan-out's deadline (`InTime`), and its result to what was heard and when it was served
(`Reports`). An attempt that the total deadline cuts short may end with the provider's own
`TimeoutError`, which is reported as the deadline's; `Agrees` therefore has a case for it.

### The pipeline

`Protected` says that the pipeline uses the protector as its contract allows. Therefore
every theorem about `RequestProtector`, the limits included, holds while questions are
answered, and `PInv` only has to relate each request to its own phase there (`SlotOK`), to
its deadline (`TimeOK`), its plan (`RouteOK`), its calls (`CallsOK`), the evidence, the
draft and the answer. A step of one request changes nothing of another but, at most, grants
it a slot (`Apart`, `Woken`), so each action is checked for its own request alone.
`RouteOK` rests on lemmas about the router's operators (`RebuiltFits`,
`FallbackFits`, `ClassifiedFits`): whichever intent is returned, a rebuilt plan
fits the one it replaces.

### The files of the recorded service

`LoadedWhole` speaks of starts; what makes it true is about the manifest alone. Other
files of the snapshot may at any time be of different builds, one half of each, and the
invariant says nothing of them. `SInv` says that whatever is taken for a manifest, in the
file, in the hands of a build that has yet to write it, or in those of a start that has
read it, is the manifest of a snapshot that was built (`made`), and that every snapshot
that was built is determined by its documents (`Whole`). A start that is not refused
(`StartedWhole`) has then compared the documents with the manifest's hash, so they are
the documents of that build, and coverage and permissions follow from the documents. The
other files only matter in that no script but a build writes a manifest (`WritesAre`).
Two things are taken from the model and not proved: that different contents have
different hashes, and that a file two scripts wrote at the same time is whole as one of
them wrote it or cannot be parsed (`Torn`).

`ServedIsSound` needs more. The loader compares files with each other, but whether a
headline was ever found, or a price is against the right close, cannot be read off the files: it
is true because of who wrote them. `GInv` adds to `SInv` that every file that can be parsed came
about as the scripts make it (`Genuine`): candidates are the harvest of some search, the
news of a company the curation of such candidates, a report made of some paper, the headlines
and the prices what their scripts collect. The same is said of what a process has read and is
about to write, and of what every snapshot was built of (`GenuineBuild`). That is inductive, since a
script reads each file whole, from one writer, even if the files it reads are of different
days (`StepGInv`). The news, report and filing that are served may therefore be of three
different harvests; the theorem says they are sound each by itself. Of the filing nothing has to be
remembered, as the build checks all of it again.

From there the soundness of each part is a fact about its script. For the news, `Picked`
takes one document a rule; that later picks do not undo earlier ones, and that no document is picked
twice, so that exactly one piece tells of an event, is carried through the build's sorting and
merging. For the headlines, the cap holds of the list since `Place` counts within the day. For the
prices, the last bar up to a moment is looked up among the bars that the collector kept, and
`PreviousDay` is the calendar's.

### The conversation over recorded documents

What an answer shows has come from the planner to the composer through all of the stages, and
none of the four theorems follows from one stage alone. `RInv` says of each stage of the one request under way what the
stages after it need:

- `ContextTells`, between requests: the context is one that planning makes and remembers the
  last security that an answer was about. It is what makes the plan be about what is meant
  (`SubjectMeant`); that saving and recording keep it is `ContextKept`.
- `Obtained`, once fetched: each document is about the plan's security and of a source it
  asks for. The base gateway's result and the further news both are (`FetchFacts`).
- `Chosen`, once judged: whatever was selected is dated in the range, stands as a disclosure,
  and is told of if it is in doubt (`Apt`); and if the decision is complete, the selection
  has every source that must be covered (`Tells`).
- `Composition`, once composed: what is shown is chosen, on target, and what its claims rest on.

`Chosen` is where the stages meet. A correction that replaces a disclosure takes effect only
if it reaches the freshness rules at all, so `FreshFacts` has to show that the filter before them
drops no correction in range whose target it keeps: both are about the same one security, by
`RecordingAssumption`. The policy compares what was retrieved with what was fresh, but
for the score (`Same`), so that what the freshness rules promise of a piece, and what they
warn of, carries over to what is selected (`DocumentsWeighed`). For `CompleteIsCovered`
the selection puts a first piece of every required source in front (`DiverseHeads`, `HeadsOf`);
the cap by source keeps the first of each, the cap by count keeps the front since
there are no more sources than it allows (`PlanKinds`), and the cap by size cuts from the end
(`HeadsKept`): it loses a source only when nothing but such first pieces is left.

`Composition` is proved of each way to compose: fixed (`FixedComposition`), from the
glossary, and with a model, for any draft whatever (`ComposeComposition`). There, checks run
several times over lists that shrink, and dropping a claim can undo what was checked
of the rest: `StandingFacts` shows that what stands was checked as it stands. A composition
that replaces a late one is again a fixed one (`SafeFacts`).

Two properties had to be corrected when their proofs were tried, which the instance of
the run had been too small to show. `ClaimsRest` said that no answer is one-sided; but reports
that are merged in after the model has spoken are checked one by one, as claims, and
their retelling (which may use other words than the report, as when `촉매` becomes
a positive factor) is not looked at, so they may add the side that has no caveat.
`CompleteIsCovered` said that the selection always has every source; the size cap may drop one.
The run now has a draft and the properties have the words for both.

### Only model-checked

- Liveness, and `ENABLED`, which the prover does not handle: `Answered`, `WaitersServed`,
  `EveryRequestEnds`, and the liveness in `EveryProviderReported`.
- `StagesAgree` of `RecordedService`: that no stage refuses what the one before it made, so it
  needs of every check the code makes that it succeeds, among them sums over sets
  (`MapThenSumSet`, in the audit of scores) and that sorting twice sorts alike.
- `RefusalsHaveCause` of `SnapshotFiles`: that each part accepts what the one before it wrote. Like
  `StagesAgree`, it needs of every check of every loader that it succeeds on what the scripts
  write, and it holds only of certain inputs (that a search finds something for every rule,
  for one), which the instance enumerates.

Induction over data is outside this prover, so the modules that are proved about say
without recursion what the code does in a loop: `Recent`, for instance, prunes a window up
to its first young attempt, and its facts follow from the least such number
(`NatMinimum`). The stages of `RecordedService` and the scripts of `SnapshotFiles` filter, sort and join lists; `Sublists` says by
position what is left (the k-th item is the one that k - 1 others come before), where the
recursive `SelectSeq`, `SortSeq`, `FlattenSeq` and `FoldLeft` would say the same to TLC and nothing to the prover; `RankOnto`
and `ItemsAtFacts` are what makes that definition usable. The invariants were checked by TLC on the runs' instances before they were
proved.

## Not modelled

The parts with status `not_modelled` in `PROJECT.json`, for the reasons given there: the
LLM client, the runtime's configuration, the HTTP layer and the user interface keep no
state of their own, and the evaluation and acceptance scripts run offline.

Of the parts that are modelled: wording, prompts, formatting and the regular expressions,
which are cues of a question and words of a text; floating-point ranking beyond documents
of equal length; validation of the shape of single fields; the sections that attach market
data to a finished answer; the demonstration gateway; the live adapters of disclosures
and market data; the inventories and the script that groups events into comparisons, of
which only the selection from its output is modelled. Clocks that fail or go back,
disabled caches and protectors, and exceptions in the middle of a method that never awaits
are outside the models too. In `RecordedService` the exchanges of questions for a price alone,
which are recorded too, are left out, and so are the expiry of its session, the publisher
that breaks ties between comparisons, the inference and uncertainty sections of a comparison,
the cap of ten claims, and the polish given to wording after validation.

## Plan

1. done: `SessionStore` with `Conversation`, `RequestProtector`, `ResponseCache`,
   `ChatMemory` with `Dialogue`; the session store's safety invariants proved.
2. done: the request pipeline (`ChatPipeline`), the fan-out (`ProviderFetch`), the stages
   over recorded documents (`RecordedService`), and the files and scripts
   (`SnapshotFiles`).
3. done: the safety properties of `SessionStore`, `RequestProtector`, `ResponseCache`,
   `ChatMemory`, `ChatPipeline` and `ProviderFetch` proved, with the refinements of
   `Conversation`, `Dialogue` and `RequestProtector` and the steps of `ProviderReport`.
   Also `LoadedWhole` of `SnapshotFiles`, and `RepeatIsCached` for caches with room for every
   session's share.
4. done: the properties of `RecordedService`, `StagesAgree` excepted, proved for any
   recordings, questions and drafts.
5. done: `ServedIsSound` of `SnapshotFiles`, for any inputs of the scripts.
6. open: `RefusalsHaveCause` and `StagesAgree`, which both say that checks succeed on what
   earlier parts made.
