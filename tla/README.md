# TAME-MT verification project

TLA+ modules, TLC configurations and TLAPS proofs for TAME-MT
(`src/src/tame_mt`, Python, and `src/src`, the Rust extension). The program
scores machine-translation output next to how *exposed* each test segment is in
the training data: for every test segment it retrieves the most similar
training segments, bins the segments by that similarity and reports corpus
metrics per bin.

Contents: [the system](#the-system) · [plan](#plan) ·
[modules and code](#modules-and-the-code-they-model) · [runs](#runs) ·
[fairness](#fairness) · [proofs](#proofs) · [findings](#findings) ·
[not modelled](#what-is-not-modelled).

`tlc -config MCx.cfg MCx.tla` checks a run, `tlapm XProofs.tla` the proofs of a
module. `PROJECT.json` lists the runs, the lines every definition stands for,
the hazards of the code, and, for every property, a mutated definition (marked
`(mutant)` in the modules) under which it fails.

## The system

| Component | State | Operations | What makes it correct | Hard because |
|---|---|---|---|---|
| Native n-gram index (`src/src/index`) | gram sets, postings, gram map, exact-match map | build, exact / fast / pair query, batch, (de)serialise + validate | exact queries return the true top k; a built index is consistent; fast results are a bounded approximation | batches run on a thread pool with reused workspaces; u16 counters; pruning; limits |
| Native thread pool (`lib.rs`, `native.py`) | one global pool | configure, query | the pool size is what was asked for, or an error | global, set once, shared by callers |
| Bundle persistence (`persistence.py`) | one `.tameidx` path, temporary files | save, load, inspect, verify | writes are atomic; a load is one build, with the settings asked for | interrupts and failures between steps, concurrent saves and loads, damage |
| Segment cache (`artifacts.py`, `report.py`, `cli.py`) | a `.jsonl` and its `.meta.json` sidecar | write, load, score from cache | a cached score is accepted only for the run that produced it | two files written one after the other, in place |
| Exposure (`exposure.py`) | per-segment exposures | source, target, pair exposure, exact flags | pair exposure is never above either side's; flags are exact | pair candidates come from both sides' neighbours |
| Retrieval labels (`api.py`, `index/native.py`, `persistence.py`, `warnings.py`) | configuration, resolved backend | resolve, check compatibility, label, warn | approximate retrieval is requested, never silent | the setting, the bundle and the label are decided in four places |
| Reports and metrics (`bins.py`, `scoring.py`, `metrics/sacre.py`, `report.py`) | bins, groups, fallback flags | assign bins, score groups | a score is over the segments of its bin, with their references; systems of one call are compared alike | rows come in any order; metric fallbacks are sticky and may happen half-way |
| Approximation validation (`approx_validation.py`) | sample, agreement | sample, compare, judge | a run that passes agrees with exact retrieval on its sample | two indices per segment; empty sets of pairs; failures found after the evaluation |
| Demo (`demos/opus100.py`) | archives, partial files, reports, summaries in one directory | download, audit, validate, summarise, resume | only complete archives are audited; summaries stand for validated reports | network failures, kills |
| Command line (`cli.py`) | reports of a batch, outputs of a command | score, audit, batch, index, tm-baseline | outputs stand for validated runs; one file per system of a batch; the threads named are those used | checks between evaluation and outputs; names that clash; one process, several commands |

How they interact. A command (`cli.py`) or an API call (`api.py`) builds
native indexes or loads them from a bundle; `exposure.py` sends batches of
segments through the binding (`index/native.py`) into the Rust index, whose
queries run on a process-wide thread pool; the rows go to `bins.py`, `tm.py`
and `report.py`, which write a report and, on request, the segment cache; a
later `score-cached` reads the cache and skips retrieval. The demo runs the
same audit over downloaded corpora. The only shared state between processes is
on disk: the bundle, the cache and the demo's directory. Inside a process, the
only concurrency is the pool of one batch call and, in a program that uses the
library, its own threads that query at any time.

## Plan

In the order they were, or are to be, written; each line is a component, the
modules that compose with it, and what is worth stating and proving.

1. **Exact retrieval** – `Scores`, `IndexData`, `ExactQuery`: the answer of
   every query is the top k by definition, however the pool interleaves. Proved.
2. **Bundle store** – `BundleStore` implements the abstract `AtomicBundle`.
   Invariants and refinement proved.
3. **Native index** – `NativeIndex`: what a build makes and what a load admits is
   what 1 assumes of an index. Proved.
4. **Fast retrieval** – `FastQuery`, over the same `IndexData`. Proved.
5. **Exposure** – `Exposure`: batches, references, pairs, flags, baseline. Proved.
6. **Segment cache and index reuse** – `SegmentCache`, which takes what
   retrieval measures from 5 as a constant and storing a bundle as atomic from
   2. Proved.
7. **Demo** – `Opus100Demo`. Proved.
8. **Scoring and commands** – `GroupScoring` and `BatchScoring` (grouped scores, the
   sticky fallback of `metrics/sacre.py:47`, one report file per system),
   `NativeThreads`, `ApproxValidation`, and `CommandLine`, which composes the four.
   Proved.
9. *Next:* theorems that join modules – what `Exposure` and `SegmentCache` take
   as the definition of exact retrieval is what `TopKCorrect` proves of
   `ExactQuery`, and a built `NativeIndex` satisfies the assumptions of `IndexData`.

## Modules and the code they model

**`Scores`, `IndexData`** – scores as fractions and the order of neighbours; an
index and a batch of queries as sets of n-grams. `IndexData`'s assumptions are
what `validate_invariants` checks of postings and gram sets, no more: that each
posting is backed by a gram set and has the right length. A score in the code
is one correctly rounded division of counts below 2^26, so fractions compare as
the doubles do.

**`ExactQuery`** (`index/exact.rs`, `query.rs`, `workspace.rs`, the batch
functions of `mod.rs`). One action per step of a worker: take a query and
answer it without search (`AnswerDirectly`: the exact-match map, an empty
query, an empty index); start counting (`StartCounting`) or, when the query has
more n-grams than a counter holds, count in a hash map (`StartLarge`); walk the
postings of one n-gram (`WalkPosting`, counters wrap at `CountLimit`); collect
candidates (`StartRanking`); rank one candidate or skip it by length
(`RankCandidate`); return and reset the workspace (`FinishQuery`). A result list is
the set of its entries, because `Ranks` is a total order on documents.

**`NativeIndex`** (`index/mod.rs`, `validation.rs`, `ngrams.rs`). Build one
document per step with both limits, serialise, damage one entry in any way that
still decodes or not, and load through `validate_invariants`. A fingerprint is
the text it is taken of.

**`FastQuery`** (`index/fast.rs`, `query.rs`). Selection of rare n-grams, the
walk entry by entry up to `max_candidates`, the cut to `rerank_limit` by hits,
reranking by similarity.

**`Exposure`** (`exposure.py`, `exact.py`, `index/native.py`, `index/pair.rs`,
`similarity.rs`, `tm.py`, `bins.py`). One batch of segments per
`RetrieveBatch`, one segment per `EmitSegment`, then the translation-memory
baseline (`BuildTm`). What exact retrieval returns is its definition
(`Truncation` of `Scores`), which `ExactQuery` is shown to compute. `Flags`
follows the search of `native.py:297`: source candidates from the lowest
threshold on (`SourceCandidates`), flags raised reference by reference
(`RaisedBy`), and references left unread once all flags are up
(`ReferencesRead`). `PairReference` searches the references again for one that
comes within `Tolerance` of the pair's score (`ComesNear`) and falls back on the
best one (`exposure.py:358-375`).

**`AtomicBundle`, `BundleStore`** (`persistence.py`). Savers create a temporary
file, write it member by member, close it, rename it over the path; each step
may raise (cleanup runs) or be interrupted (it does not). Loaders open the
path once and keep reading the file they opened: manifest, hash of every
member, then every member again. `DamageMember` is somebody else's change to a
published file. `AtomicBundle` is the promise: a register that a save replaces
in one step or not at all and a load reads whole or refuses.

**`SegmentCache`** (`artifacts.py`, `report.py`, `api.py`, `cli.py`,
`config.py`, `index/modes.py`, `persistence.py:673`). `BuildIndex` and
`Evaluate` are commands with every check of settings against each other and
against the bundle; an evaluation then writes rows in pieces and the sidecar
in two, and may be killed at each (`Interrupt`). `score-cached` opens the rows
(`LoadRows`), reads them one by one while they may be truncated and rewritten
under it (`ReadRow`, `EndOfRows`, `BrokenRow`; `InPlace` says whether the row it
reads is the next one of the file it opened), and goes on with `LoadMeta` and
`ScoreCached`. Rows rewritten under the reader's hands are *mixed*; `CachedIsFresh`
does not speak of them (nothing in the code notices, as long as the rows parse and their number and
translations fit the sidecar), `BaselineIsTheSidecars` does. What retrieval measures is the constant
operator `Measured` of input, index, query settings and segment.

**`Opus100Demo`** (`demos/opus100.py`). The phases of one run of the demo over
its pairs: find the archive an earlier run left, request, stream, verify,
rename, load, audit and validate, report, summaries; five kinds of failure, of
which "not found" is not retried; kills at every step (`Kill`, and
`KillInReport` and `KillInSummary` while a report or a summary is being written,
which leave it torn).

**`GroupScoring`** (`metrics/sacre.py`, `scoring.py`, `bins.py`, `artifacts.py:338`,
`api.py:50`). A scorer is prepared over the rows of a segment file, sorted on
both sides (`ByIndex`), or over fresh rows; a call scores metric by metric and,
through the private functions of the metric library, system by system
(`ScoreSystem`), until one raises (`StatsRaise`) and the public functions score
all systems of the metric (`ScorePublicly`), now and in later calls. A score is what
it is computed over and through which interface; the library's private functions
either answer like the public ones or raise.

**`BatchScoring`** (`cli.py:499`, `cli.py:1233-1285`). Batch commands and library sessions
over those scorers; report files are opened and written one at a time
(`OpenReport`, `WriteReport`), and a name may clash (`RefuseName`).

**`NativeThreads`** (`lib.rs`, `cli.py:882`). `UsePool` builds the pool with the
default size if nobody has, `Configure` with another size or not at all.

**`ApproxValidation`** (`approx_validation.py`). Every sample of the size asked
for stands for every seed; `Failures` names the criteria a run misses, each in
whole numbers. No state of its own.

**`CommandLine`** (`cli.py`, `performance.py`). The composition: `score`, `audit`
and `tm-baseline` as evaluate, validate, attach the performance figures, write
output by output; batches and sessions of `BatchScoring` between them; all on
the one pool, which another thread may build at any time (`OtherQuery`).

Abstractions each module makes are listed in its head comment.

## Runs

Twelve runs; eight must pass, four show a disagreement between the code and
what is said of it (see [findings](#findings)).

| Run | What it explores | What it shows | Distinct states |
|---|---|---|---|
| `exact_query` | two workers, three queries, six documents, k from 0 to 2, counters up to 2; every interleaving and candidate order | answers are the top k (`AnswersAreTopK`), the best score is right with the exact-match shortcut too (`BestScoreIsExact`), workspaces are clean between queries (`WorkspaceIsClean`), the call returns (`BatchReturns`) | 30,652 |
| `bundle_store` | three builds that share texts or settings, two savers (symmetric), one loader with two requests, two files at a time, failures and interrupts at every step, one member lost, garbled or swapped | the path names whole builds (`PublishedIsWhole`), published files are never written to (`PublishedIsUntouched`), only interrupted saves leave files (`LeftoversAreInterrupted`), saved bundles load (`SavedBundlesLoad`), a load never returns a mixture nor other settings (`LoadIsOneBuild`), the store is an atomic register (`RegisterSpec`) | 1,112,738 |
| `native_index` | corpora of up to four documents, n-gram orders {2} and {1,2}, limits of four documents and five n-grams, one damaged entry | what loads is consistent (`LoadedIsConsistent`), what was built decodes and loads, unless it uses the last n-gram number, and no build goes beyond that (`StoredIndexLoads`; some corpora end exactly there), the first of equal texts keeps its entry (`FirstDocumentWins`) | 295,714 |
| `fast_query` | six queries, every valid combination of limits from {1,2,4} × {1,3,5} × {1,2,3,6} × {1,2,6}, k in {0,1,2,5} | a fast answer never overstates and is never empty when an n-gram is shared (`FastOnlyUnderstates`), exact when no limit is reached (`FastIsExactWhenUnlimited`), and cut by hits (`KeepsMostHits`) | 7,254 |
| `exposure` | three corpora of three pairs, eleven test sets, up to two references, every batch size and policy, thresholds with and without a shared name | rows are aligned and hold maxima (`ExposuresAreMaxima`), a pair is below both sides and its reference comes near it (`PairWithinSides`), exact flags miss no pair and a flag with a name of its own is exact (`FlagsMeanThresholds`), descriptions of an exact pair agree (`ExactPairIsExactEverywhere`), the baseline follows the rows (`TmFollowsExposure`) | 42,624 |
| `segment_cache` | three inputs, settings valid or not with every index mode, retrieval mode and limit, fresh and stored indexes, kills at each write, a reader between and among them, row by row | `CachedIsFresh`, `FinishedCacheIsAccepted`, `BaselineIsTheSidecars`, `ApproximateSaysSo`, `ReuseChangesNoFigure` | 12,476,224 |
| `opus100_demo` | two pairs, two attempts, archives of two pieces, three runs, kills anywhere, torn reports and summaries | `AuditsWholeArchives`, `WholeArchiveStays`, `GivingUpLeavesNoPart`, `SummaryIsBacked`, `DemoEnds` | 20,664 |
| `command_line` | two commands or sessions of one process; batches of up to three systems over rows in and out of order; two metrics whose private functions work, do not, or raise at any point; runs of three and twenty segments, validated or not; pools of one and four threads | scores are over their bins and their own references (`ScoresAreTheGroups`), systems are compared through one interface (`ComparedAlike`), reports of a batch are not replaced (`BatchReportsAreOwn`), a passed validation means agreement (`VerdictMeansAgreement`), outputs are of validated or marked runs (`NoUnmarkedFailure`), threads named are threads used (`ReportedThreadsRan`) | 512,254 |
| `bundle_line_breaks` | one save of a text with a line break, one load | `SavedBundlesLoad` fails | |
| `segment_cache_backend` | two settings, four commands | `BackendIsTheRowsOwn` fails | |
| `segment_cache_leak` | two leak thresholds, two commands | `ExactRatesDominate` fails | |
| `threshold_names` | the inputs of `exposure` | `EveryFlagIsItsThresholds` fails | |

Why the bounds are enough. A query touches the k-th score only when its list
outgrows max(2k, k+1) entries, so six documents with k ≤ 2 reach several
truncations, a skip and a tie; a counter of two wraps on a query of three
n-grams; two workers that take three queries reuse a workspace. Two savers
allow a save between any two steps of a load and of another save; two
builds are enough for a mixture, and the third shares each part with one of the
others. The savers differ in name only, so their symmetry is sound; no
liveness is checked there. A damaged index differs in one entry, since the checks look at each
table against the others. In `fast_query` each limit takes a value below, at
and above what the data reach. Batches of one to three over three segments cut
a test set evenly, unevenly and not at all. Thresholds
of 0.666 and 0.6675 share a name, and a score of two thirds lies between them; a
tolerance of 2/5 lets a reference be named that only comes near. Three commands
are the two evaluations that can leave rows and sidecar of different runs, and a reader; an
index built, a run over it and a reader. Three runs of the demo are one that
breaks off, one that resumes and one that finds everything. Two commands of one
process are what it takes for a pool, or a report file, of an earlier one to matter;
two calls of one scorer, for a fallback of an earlier one. A sample of twenty has
room for one wrong neighbour in a run that passes (95 of 100) and for two in one
that fails; a sample of two out of three segments has indices that differ from
the places in the sample. Bounds that count
(`MaxFiles`, `MaxDamage`, `Commands`, `MaxRuns`, `Runs`, `Calls`) are named in the modules; the
proofs hold for any value.

`CHECK_DEADLOCK FALSE` is used for `native_index` only, where a failed build
and a loaded index are final. The other modules have a `Done` step.

## Fairness

- `ExactQuery!FairSpec`: weak fairness of each worker. The batch call
  (`mod.rs:199`) blocks until the rayon pool has run every query, and a pool
  thread that can go on is eventually scheduled. Nothing is assumed about which
  worker takes which query, or in what order.
- `Opus100Demo!Spec`: weak fairness of the demo's own steps. Every request has
  a time limit and each wait a bound, so no step can be put off for ever; kills are
  not fair, and a run that is killed has ended.
- The other modules state safety only: nothing in `persistence.py`,
  `artifacts.py` or `cli.py` waits for anything, and a command is sequential.

## Proofs

All assumptions are the named `ASSUME`s of the modules, which TLC evaluates for
each run: what a loaded index satisfies (`Index`), that equal texts have equal
n-grams and only the empty text has none (`Query`), numbers where numbers are
expected, and that distinct words (`Nothing`, `Refused`, ...) are distinct. Those
that say more are assumptions on inputs: `InputAssumption` of `Exposure` and
`SegmentCache` is what `io.py:80` (`validate_corpus_inputs`) lets through (and,
in `Exposure`, at least one reference where references are given: the API would
take an empty list); `CorpusAssumption` of `NativeIndex` says that a corpus is a
list of texts; `RequestsAssumption` and `BleuAssumption` of `CommandLine` that a
test set is not empty, that both retrievals have a row for each of its segments,
and that BLEU of a sample is a number.

**`ScoresProofs`** holds what the others keep needing. Fractions are totally
preordered by cross-multiplication, and neighbours of distinct documents
totally ordered by score and index (`RanksOrder`, `RanksTransitive`). The provers cannot do
induction over data, so finite orders are handled through counting: a finite
set has a least element (`MinimalElement`, from the least natural number that
counts the elements below one), and its first n elements in a strict total
order are min(n, its size) many and above all the others (`FirstOnesFacts`). With
these, truncations exist (`TruncationExists`) and so does a first neighbour.

**`RetrievalProofs`**, exact retrieval. `SearchInv` is
inductive: per worker, counters are zero outside `touched`; while counting, a
counter equals the number of n-grams walked whose posting has the document
(this is where the choice of the hash-map path for large queries is needed: a
counter never wraps); while ranking, every candidate is unranked, kept, or
*beaten* – at least k kept entries rank above it. The last clause is what
length pruning and truncation must keep: a skipped candidate's upper bound is below
the k-th score, and that k-th score belongs to k entries that stay above it
(`SkippedIsBeaten`, `TruncationKeeps`). When no candidate is left, k entries
above every missing one make the kept list the top k (`KeptTopIsTop`).
`PostingsInverse` shows that the load-time checks leave no posting incomplete,
so that the overlap counted over postings is the intersection of the sets.
From `SearchInv` follow `TypeCorrect`, `TopKCorrect`, `WorkspaceCorrect` and
`BestScoreCorrect`, for any index, k, pool, counter width and candidate order.

Fast retrieval. `FastInv`, for every index and all settings of the four limits:
until the candidates are full, the candidates are the documents of the
entries walked so far and a candidate's hits are its entries among them; once
they are full nothing more is walked. When ranking starts there is a candidate if any
document shares an n-gram with the query, and if no limit is reached all that
share one are candidates. A candidate is scored by its true similarity, so an
answer never overstates (`FastUnderstatesCorrect`) and is exact when no limit
bites (`FastExactCorrect`). The cut takes the first candidates in the total
order of hits and numbers, hence those with most hits (`KeepsMostHitsCorrect`).

**`BundleStoreProofs`**. `StoreInv` adds to the invariants what each actor
relies on: a saver's file is its own, unpublished and holds the members written
so far; a finished file never changes except by damage; a loader's file is
finished, and the members it has checked or read are those of the build its
manifest names. `SavedBundlesLoadCorrect` needs that no text has a line break
inside a line, and the run `bundle_line_breaks` shows that this is necessary. `StoreIsAtomic`
proves the refinement: every step of the store is a step of `AtomicBundle` or a
stutter, under the mapping that runs check too.

**`NativeIndexProofs`**. `AcceptedIsConsistent`: the checks of a load compare
only lengths of postings after showing each entry backed; since lists are
strictly increasing, a subset with as many members is the whole
(`IncreasingCount`). So `LoadedCorrect`: queries run on consistent indexes
whatever happened to the stored bytes. The converse needs the build.
`BuildInv` holds after every document: each gram set lists the numbers of the
document's n-grams in increasing order and each posting the documents that hold
its n-gram, the numbering of n-grams is one to one and without gaps, and the exact-match
map sends each text to a document that has it and comes no later than any
other. Adding a document keeps this because its number is above all in the postings
(`DocumentAdded`); a sorted list exists and is unique enough to count
(`AscendingLists`, `SortedLists`); and the numbers in use fit the limit of the
build, which is one above that of a load (`NumbersFit`). Hence `StoredCorrect`:
what a build stores decodes and passes every check of a load, except when it is
exactly one n-gram above that limit; and `FirstDocumentCorrect`.

**`ExposureProofs`**. `ExposureInv` says that the retrieved batch is right for
the segments from `batch_start` on (the lists are the nearest documents of the
source and of each reference, the pair and the flags are those found by
definition), that row i is right for segment i, and that every segment has a row before
the baseline is made. The proof of a row (`RowIsRight`) is where the parts
meet: the best target is the best of the references' first neighbours, in the
order of score, neighbour and reference, so which reference comes first never
changes the score (`BestReference`, `BestTargetRight`); a pair's score is the greatest
over documents and references of the lesser of its two sides
(`PairScoreRight`); a flag is up just when a pair reaches a threshold of its
name, for the candidates cut off at the lowest threshold reach none, and
references are left only when no flag is down (`RaisedFacts`, `FlagsFound`);
a reference that attains the score comes near it, so the search for one never
ends empty in exact arithmetic and what it names comes near
(`ReachingComesNear`). An exact text is a similarity of one (`SimilarityFacts`), because only
equal texts have equal n-grams. The five theorems on the runs'
properties then speak of rows alone, for any batch size.

**`Opus100DemoProofs`**. `DemoInv` relates phases and files: a complete archive
has no partial file beside it, there is no archive while one is downloaded, only
a complete file is about to be renamed, the reports of the earlier pairs of a
run are written and validated, the summaries written so far are whole and of
the run, unless it was killed writing them (`WrittenInv`), and no summary is of
a later run than a report.

**`SegmentCacheProofs`**. `CacheInv`: the rows on disk are the first rows of one
accepted run, whole or with one torn at the end; a sidecar is torn or that of
one accepted run; the rows a reader holds are the first rows of one run, unless
they were rewritten under its hands, and a reader that went on has a sidecar
that describes them (`ReadRowStep`, `EndReadingStep`). An accepted run is one whose index
fits its settings and whose threshold flags are not over a fast index
(`RunOK`). `FreshCorrect` then rests on `num_test`: the first rows of a run, as
many as its sidecar says, are all of them; and on `SameRows`: the settings that
are compared are those a row depends on. `ReuseCorrect` assumes that exact retrieval does
not read the limits of fast retrieval (`MeasuredAssumption`), which is
`ExactQuery`: it has no such parameter.

**`CommandLineProofs`**. `ScoringInv` says what a scorer has
at each point of a call: the outputs it was handed are those of the active
systems; every metric that is finished has, for each of them, the scores over
its groups through the interface the metric is *now* at; and the systems
already scored for the current metric have them through the private one. A
metric that falls back therefore must not keep what it has
(`StatsRaiseKeeps`, `ScorePubliclyKeeps`), and the baseline of an earlier call
may be private while the systems are public, never the reverse, because a
metric that fell back stays there. `GroupIsBin` is where rows in any order
meet: sorted rows that cover the segments group them by the bins their own
rows say. `IInv` adds a part for the batch (what is written is a prefix of
what was asked for, under names that are used, and the open file is none of
them), one for the audit (no phase after validation without its verdict) and
one for the pool (once built it is what was asked for, what queries ran on and
what is reported). Each part is inductive by itself, except that the scorer's
needs the batch's to know what it is asked to score, and the pool's the shape
of the audit. `Stem` is any function from systems to file names, thresholds,
requests and numbers of threads are any. `NoneAssumption` says that no score
is `None`.

`VerdictCorrect` is about samples of any size. Compared rows are found by two
indices, places in the sample and segments of the test set; the
map between them is one to one (`PlacesCount`), so a share of the places is
the same share of the segments (`SharesOfSegments`) and a run without failures does agree with exact
retrieval to the shares the thresholds name, of source and target neighbours,
bins and threshold decisions (`PassedMeansAgreement`). The other
way, a run that agrees everywhere has only errors of zero, and their percentile
is zero however it interpolates (`PercentileOfZeros`, `AgreementPasses`).
`VerdictInv` carries this from the step that validates (`ValidateReaches`) to
the outputs (`VerdictKept`): the verdict of a command is of its own request, and none exists
before it.

Model-checked only: liveness under fairness (`BatchReturns`, `DemoEnds`), which
these provers do not reach. Every safety invariant and action property of a
passing run is stated by a theorem, for all values of the constants that the
assumptions above allow.

## Findings

Each is the subject of a run that must find the violation.

1. *A line break inside a line* (`bundle_line_breaks`). `save_index_bundle`
   joins lines with newlines and hashes the lines it was given;
   `load_index_bundle` splits the member at every line break
   (`persistence.py:858`). A corpus with `\r` or `\n` inside a line, which the
   API accepts, is saved without an error and refused by every load.
2. *A sidecar beside rows of another run* (`segment_cache_backend`). Rows and sidecar
   are written in place, one after the other (`cli.py:1004`), and only the
   translations tie them together. After an interruption the sidecar of an earlier
   run can be accepted, and the cached report names that run's backend
   (`docs/json_schema.md:118`). What *is* always right then is the baseline
   (`BaselineIsTheSidecars`) and the bins (`BinsCorrect` in `SegmentCacheProofs`).
3. *Leak thresholds of a cache* (`segment_cache_leak`). They are not compared
   with those asked for (`artifacts.py:219`), and a flag a row does not hold counts
   as false (`exposure.py:297`): the exact rate of a threshold that was never
   computed is reported as zero. `CachedIsFresh` excepts this case.
4. *Two thresholds with one name* (`threshold_names`). Exact flags are kept
   under two decimals of their threshold (`index/native.py:328`), which two
   configured thresholds may share. A pair that reaches the lower of them raises
   the flag that is printed, and counted, for the other too, against
   `docs/method_spec.md:89`. What holds all the same is `FlagsMeanThresholds`: no
   pair is missed, and a threshold that has its name to itself has an exact flag.

Other disagreements met while modelling; the models follow the code, and no run
is spent on them:

- A build accepts one n-gram more than a load does (`index/mod.rs:96` against
  `index/validation.rs:34`): an index with exactly that many n-grams is built
  and stored, and refused by every load. `StoredIndexLoads` says so, for both
  sides of the limit.
- `docs/metric_card.md:52` says that the union of source and target top-k
  candidates is reranked; a segment whose text is in the corpus has one
  candidate on that side, whatever k is (`index/query.rs:68`).
- Of thresholds with one name, a validation checks and reports the agreement of
  the last one only (`approx_validation.py:117`, `ReportedThreshold`).
- `tm-baseline` validates an approximate run as `score` and `audit` do and puts
  a failure in its report (`cli.py:1185`), but writes only translations and
  similarities (`cli.py:628`): with `--allow-approx-validation-failure` ("write
  approximate validation failures as warnings", `cli.py:728`) the failure is
  written nowhere. In the model, such a command ends without a `"report"` or
  `"text"` among its outputs.
- The baseline of a cached scorer is computed once. When the private metric
  functions fail in a later call, systems are scored through the public
  interface and compared with a baseline that was not (`sacre.py:47`,
  `api.py:88`): `ComparedAlike` leaves this case out.
- `--threads` must come before native retrieval (`cli.py:864`), but counting the
  threads for a report, or asking for no size through
  `configure_native_threads(None)`, builds the pool as well (`lib.rs:19`,
  `lib.rs:25`).
- Two segment outputs under one path are refused only after the translations
  and the report are written (`cli.py:1028`, `RefuseClash`).
- Without references, `target_exact` of a reused bundle is false where a
  fresh index leaves it unset (`exposure.py:132`,
  `docs/native_backend.md:124`).
- A bundle built in fast mode satisfies a request for mode `auto`
  (`persistence.py:673`): the run is approximate though exact retrieval was the
  setting. Its report says so (`ApproximateSaysSo`), but nobody asked for it
  (`docs/exact_vs_approx.md:23`).

## What is not modelled

- Loss of power: processes stop, the machine keeps what was written. The code
  calls no `fsync`, and no property here speaks of it.
- Size and compression limits of a bundle are one set of builds that are too large
  (`Oversized`); `inspect_index_bundle` only reads the manifest.
- Text itself: reading, gzip, Unicode normalisation, tokenisation. Models start
  from normalised texts and their n-grams; hashes and fingerprints are the
  texts they are taken of.
- Metric arithmetic (SacreBLEU): that summed segment statistics give the figure of
  the public interface is the library's matter, `GroupScoring` shows that both
  are asked for the same thing.
- Loading of the native extension and the check of its version.
- Rendering of reports, JSON formatting and schemas, warnings, timings, the
  diagnostic commands, the optional profile file of the demo, and two demos in
  one directory (they share the names of partial files, `opus100.py:332`).
- The Python reference index, benchmarks, release scripts and examples:
  sequential code without state, or tools around the program.
