# A TLA+ verification of the link-prediction tool

This directory models the parts of the tool (C++20, `src/`) whose correctness is
a matter of order, bookkeeping and boundaries, checks them with TLC on small
instances, and proves what matters most with TLAPS for every instance. The
references `file:line` below are relative to `src/src/`.

## 1. The system

The program is one process with three modes (`app/LinkPredictionApp.cpp`):
*ground truth* (`-x`) derives dependencies between endpoints from a flow file;
*training* (`-t`) samples flows into a graph, trains embeddings by random
walks, computes features and trains a random forest; *prediction* (`-p`) does the
first steps again on other flows and applies the saved classifier. The modes
communicate through files only: the reference CSV, the classifier, the explainability
baseline and the manifest beside it; prediction leaves reports and a manifest of its own. Inside a process the components call each
other in sequence; the only threads are those of the random walk manager. There
are no tests in the repository.

| Component | State | Operations | What makes it correct |
|---|---|---|---|
| `data_preprocessing/FlowProcessor` | endpoint statistics, retained sets, observation window, flow count | first pass, selection, second pass | the retained endpoints are the best ones; each offered flow lands in the bucket of its pair and time; only allowed addresses |
| `constrained_collections/reservoirs` | per key: values, number seen | `add`, `get`, `get_keys` | at most `capacity` values, all of them offered ones |
| `constrained_collections/counters` | counts | `add_or_decrement`, `clear`, `get_limit` | at most `limit` keys, none of them counted too low by more than its share (only `get_limit` has a caller) |
| `utils/ip` checkers | lists | `check_ip` | allow list before block list |
| `graph/network`, `graph/boost` | vertices, edges, address index | `add_edge_and_vertex_if_not_exists`, queries | the graph is the reservoir; one vertex per address |
| `ground_truth/DependencyAnalyzer` | flows by pair, registered dependencies, output text | `calculate_dependencies`, `load_dependencies` | exactly the dependencies the flows show; a loaded file means what was written |
| `random_walk/manager` | generator, per call: threads and the vector they fill | `generate_random_walks` | every slot written once, by its thread, before the call returns; same seed, same walks |
| `random_walk/logic` | the walk so far, the edge before | one walk | each step leaves one of the last two vertices within the time windows; it turns round only over a reply |
| `model/data`, `model/trainer`, `generators/context`, `generators/embedding` | contexts, batch position | epochs and batches | each context of an epoch trained once, none of an earlier epoch |
| `model/*SkipGram*`, `utils/math` | tensors | LibTorch numerics | - |
| `generators/feature`, `utils/cache`, `utils/collectors` | caches | feature rows | row, label and pair stay aligned; no stale cache entry |
| `classifier` | forest, scaler, threshold | train, calibrate, predict, save, load | every sample scored out of fold once; threshold belongs to the forest |
| `explainability` | baseline | compute, save, load, ablate | baseline belongs to the classifier; each column is replaced by its own median |
| `app`, `main` | arguments, configuration, everything a run holds; files | the steps of the three modes | files left by any sequence of processes belong together; a completed run wrote what it was asked for |
| `cli`, `config`, `json` | arguments, configuration | parse, validate, load, serialise | contradictions are refused; what is logged can be loaded again |
| `service` | port tables | load, classify | a reported service is one the pair's flows use most |
| `statistics`, `reporting` | - | metrics, reports | reports of one run agree |
| `io` | - | whole lines in and out | errors on close go unseen |

The hard behaviours: threads writing one vector without a lock; a thread that
cannot be started; a file read twice while it grows; timestamps outside the
window they are put in buckets of; limits and ties; lookups used after the state
they describe has changed; files truncated in place and cut short by a crash or
a full disk, then loaded by another process; files of one run replaced one after
the other beside those of another. `PROJECT.json` lists each at
its line under `hazards`.

## 2. Modules

| Module | Models |
|---|---|
| `AllowedIPChecker` | `utils/ip/AllowedIPChecker`: `check_allowed` |
| `CapacityLimitedReservoir` | the reservoir as an operator: `add` returns the set of maps one call may leave, one for each index the generator may draw |
| `EvictingCounter` | a counter of at most `limit` keys and the additions it has seen |
| `FlowProcessor` | both passes over the flow file: one action per kind of line and pass |
| `NetworkGraphManager` | the graph as a record; `add_edge_and_vertex_if_not_exists` as a function of it |
| `Ingestion` | composition: `process_data` followed by `build_graph`; the properties of both |
| `WalkPartition` | how a batch is cut into segments, in both builds |
| `RandomWalkManager` | the caller and the threads of one `generate_random_walks` after another |
| `WalkBatch` | abstract specification: one call, one atomic batch |
| `DependencyAnalyzer` | ground truth: parsing, five stages, CSV output and input, across processes |
| `RandomWalkLogic` | one walk of `CustomRandomWalkLogic` over a graph of timed flows |
| `EmbeddingTraining` | trainer, loader, contexts and training pairs, over any walks |
| `TrainingEpochs` | abstract specification: each context of an epoch used exactly once |
| `Calibration` | the classifier's `train_with_calibration` and `find_optimal_threshold` |
| `FeatureConfig` | which features are on, their names in the order of their columns |
| `FeatureGeneration` | one call of the feature generator: caches, extractors, columns, rows |
| `CommandLine` | `parse_args`, the checks of the modes, and what `main` makes of them |
| `Selection` | the elements of a sequence at some positions, and a function made of two |
| `Configuration` | from JSON to `Config` and back: every parameter, type, validator and default |
| `Metrics` | `statistics/metrics`, as exact fractions |
| `ServiceClassification` | `service`: port tables and the classification of a pair |
| `Explainability` | baseline, its validation, ablation by groups |
| `PredictionReporter` | what the reports and the manifest contain |
| `Application` | composition: the processes of a session, their modes step by step, and the disk |
| `*Proofs` | the theorems about the module they are named for |
| `MC*` | instances for TLC |

### State and actions

**EvictingCounter.** `m_counter` is a function from the tracked keys to their counts; the three branches of
`add_or_decrement` are disjuncts, and `Decremented` is the loop that erases while it iterates. `added` is a
history of the keys since the last `clear`. The application adds nothing, so the module stands alone.

**FlowProcessor.** The members keep their names; `file` is the part of the flow
file read so far, chosen line by line, `scanned` and `line_no` are the
positions of the passes. A line is a record whose fields are present, `None` (absent
or of the wrong type) or, for the reverse flow, `Absent`. The body of the first
loop is `ScanMalformed`, `ScanInvalid`, `ScanBlocked` or `ScanFlow`, by its early
exits; `FinishScan` is `finalize_endpoint_selection`; `GrowFile` is another
process that appends to the file before it is opened again; the body of the second
loop is `SampleMalformed`, `SampleSkip` or `SampleFlow`. Addresses are numbers,
of which only identity and order matter.

**Ingestion.** `AddEdge` and `NextKey` are the two nested loops of `build_graph`
over the sorted keys. Sorting is by text in the code; any total order serves.

**RandomWalkManager.** `main` and `pc` are the program counters of the caller and
of each thread. A thread generates a walk (`Generate`) and assigns it
(`Store`) in two steps, so that all interleavings of reads and writes occur.
`StartFails` is `std::system_error` from the thread constructor: the call throws if
no thread is running yet, and the process terminates otherwise, since the vector
of joinable threads is destroyed. A walk is what determines it: start
vertex, seed, stream (`seed + tid`) and its ordinal in the stream. In the OpenMP
build `EnterRegion` starts a team of any size up to the one asked for; the static
schedule is that of the runtime and is marked external.

**WalkBatch** knows no threads: `Request` takes a seed, `Deliver` returns the whole
batch as a function of seed, number of vertices and team, `Fail` ends the
service. `WB` in `RandomWalkManager` maps `main` and `returned` to it.

**DependencyAnalyzer.** `stage` walks through `calculate_dependencies`; the
`determine_*` actions keep their names and order. `m_dependency_types` is a set
of triples, of which `m_all_dependencies` is a projection and which `m_oss` lists.
The counting loops, which add up and leave early, become cardinalities and sums:
leaving early is not observable. `csv` survives `NewProcess`, which happens after
any step: a normal end, an exception or a crash. `WriteCut` is output that stops
somewhere: by a crash, by a stream error (which throws), or by one that only occurs
on close (which nobody sees). Its content is any prefix of the text: the types in
their order, lines of one type in any order (they come from a hash map), the last
line possibly torn so that it loads as nothing, with a shorter address or with
type Unknown. The file may also be supplied by the user.

**RandomWalkLogic.** `walk` is the vector under construction; `trail` keeps, for
each vertex after the first, the edge over which it was reached, whose last element is
`previous_edge`, and the condition that allowed it. The four conditions keep their
names. `StepToSecond` is the part before the loop, `StepOn` one round of it, `Return`
every way out of it. The candidates of a step are a set and the choice is any of
them; flows that agree in every field count once. A walk sees one graph only, so
how the flows got there is left to `Ingestion`.

**EmbeddingTraining.** `phase` says where `train` is: about to `reset` the loader,
cutting walks into contexts, in the loop over batches, or failed (an exception of the
walk manager leaves training). `TrainBatch` is a round of the inner loop:
`next_batch`, pair generation and the model's update, of which `uses` and `trained`
remember the contexts and the pairs that reached the model. The tensors of a batch are a
function over the places (context, position) that make a row; a negative
sample is the set of values it may turn out to be. The walks of an epoch are
any, one for each of the starts that `WalkBatch` promises, from the set `Walks`.

**TrainingEpochs** knows no batches: `BeginEpoch` when every context of the epoch
before has been used, `Use` of any contexts not used yet.

**Calibration.** `phase` says where `train_with_calibration` is: `Reject` is its checks,
`AssignFolds` everything from the clamp to the folds, `ScoreFold` a round of the loop over
the folds, `FinishFolds` the check for unscored samples and what
`find_optimal_threshold` prepares, `TryThreshold` a round of its loop, `FinishSearch` the
rest. `position` and the sorted indices become `passed`, the samples at positions below it;
`Passing` is the inner loop. A forest may return any probability, and
mlpack may refuse to train on nothing (`FoldFails`).

**FeatureGeneration.** `phase` says where `generate_impl` is: `paths` and `hops` are the two
halves of `precompute_expensive_features`, with one action per source begun, vertex
visited and source stored; `rows` is the pair loop, one `WritePair` or `SkipSelf` per round.
Sources come from a hash map, in any order. The writers are operators that return the enabled columns
from left to right; a row keeps the values only, and every property finds a feature
by its place in `get_feature_names`, as the readers of the matrix do. `collect` is the
dispatch of `FlowDataCollector`; `Extractable` says whether the extractors read only what
it collected. A value is an exact ratio; `Number` is one that is not computed.

**Application.** A behaviour is a session: commands one after the other, each a sequence of words,
over one disk. `Start` is `main` up to the choice of a mode (`Decline` is any other way out),
`step` says what the mode does next, and `TrainingOrder`, `PredictionOrder` and
`GroundTruthOrder` are the orders in which the code does it; a step that is `Optional` is
passed over (`PassOver`) unless `Wanted`. Every other action is one call of the mode: it is enabled
where the call does not throw. `Stop` is an exception or a crash before a step has an effect, and
the second disjunct of `Write` one in the middle of a file. `End` forgets all a process
held. The disk maps a path, which is a word of a command and the suffix of a file beside it, to
the kind of file, what it says, whether it is whole, and the run that wrote it; no
action reads the last. Two options may name one file. What other modules compute is abstract here: a
data file has its retained addresses, flows and dependencies, a median is
the training and the feature it belongs to, the classifier may give a pair any score.

**CommandLine, Configuration, Metrics, ServiceClassification, Explainability,
PredictionReporter** are operators that `Application` calls. Optionals are sequences of at most
one element. A JSON value is its kind and what it holds; `load` is the set of
configurations that loading may return, empty where it throws, with more than one element
where a field is left uninitialised. `format_top_k` is a set for each
place, since the code's sort leaves the order of equal services open.

## 3. Runs

| Run | Question | Result |
|---|---|---|
| `ingestion` | do selection, sampling and graph agree with a reading of the whole file; and, beside it, do evicting counters stay within their error? | holds |
| `ingestion_size` | does the graph respect the endpoint limits? | violated, see 5 |
| `random_walks` | both builds: races, atomicity, termination | holds |
| `ground_truth` | are calculated and loaded dependencies genuine? | holds |
| `ground_truth_td3` | does TD3 mean three stages? | violated, see 5 |
| `embedding_training` | does every context and pair of an epoch reach the model once? | holds |
| `walk_logic` | do walks stay on flows, in time, and turn only over replies? | holds |
| `walk_logic_reverse` | is a return over a reverse edge one? | violated, see 5 |
| `calibration` | are samples scored out of fold, once, and is the threshold the best? | holds |
| `calibration_folds` | are there always two folds? | violated, see 5 |
| `features` | are rows, labels, pairs and columns aligned, and do features agree? | holds |
| `application` | do files of several runs belong together, and do the reports of one run agree? | holds |

**ingestion** checks `TopEndpointsRetained` (the ranking recomputed from the
file), `ReservoirHoldsSample` (domain, size and multiplicity of every entry against
the flows offered), `OnlyAllowedAddresses`, `AddressesWithinLimits`,
`GraphMirrorsReservoir` and `SecondVerticesAreIsolated` (what the defect of 5 does
and does not do). Bounds: files of up to four lines out of nine kinds (two
directions, reverse flows valid, invalid and absent, a self flow, a blocked
endpoint, missing protocol, missing timestamps, a bad port, no JSON; one flow begins before
the epoch), capacity 2, limits 2 and 1, two buckets. Four lines let a reservoir overflow, endpoints
compete for a limit and lines arrive between the passes outside of the window.

`MCIngestion` also holds a counter of `EvictingCounter`, and a behaviour is of one or the other. It checks
`CountsWithinError` for every sequence of up to seven additions of three keys, with clears
between them, and limits of 0, 1 and 2, so that counters are always full, fill up several times and run empty.

**random_walks** has up to 3 threads, 4 vertices, 2 walks per vertex and 2 calls:
totals that the team divides (6) and does not (2, 4, 8), and fewer walks than threads. A
second call finds the state the first one left. `MCRandomWalks` instantiates the
module twice, and a behaviour is of one build or the other; `OpenMPBuildToo` is `ImplementsWalkBatch`
and `EveryCallEnds` of the second; the theorems cover both builds. `CHECK_DEADLOCK` is off: no more
calls are made once the bound is reached, and a dead process stays dead.

**ground_truth** has a threshold of 2 and files of up to seven lines, enough for
every type of dependency to occur (TD3 and RR3 included; a threshold
of 1 would not exercise the counting), with times on both sides of the epoch. Constraints cut files that
add nothing: `SortedFile` (which lines a file holds can matter to a calculation that
reads them all, not their order), `FewSkipped` (one kind of skipped lines, twice, which
is the threshold) and `FewRepeated` (no line more often than once above the threshold).
Loading is checked after every prefix of every output.

**embedding_training** has 3 vertices, 8 walks of lengths 1, 2, 3, 4 and 5 for a context
of 3, two epochs, and no batch size or 1, 2, 3, 9: batches that divide the
contexts, leave a rest, hold everything, and more than everything. The second
epoch has other walks, so leftovers of the first would show. `PairsMatchWalks`
counts pairs in the walks themselves, by a condition on places, not by windows.

**walk_logic** takes every graph of up to five flows out of a pool of twelve over three
vertices, with a threshold of one or two appearances and walks of five vertices;
every condition is taken under the threshold of one, and all but the return
under two. The pool has flows that just meet and just miss each condition.

**calibration** takes label vectors with classes of one, two and three samples (and an
unknown label, one class only, nothing at all), one, two or five folds asked
for, all metrics, every shuffle, and scores out of four multiples of one sixth, so that scores
tie with each other, with the boundary and in their distance to one half.
`ThresholdIsOptimal` compares the threshold that is kept with every threshold, by
counting from scratch.

**features** takes every graph of up to eight flows among four vertices (a flow twice, both
directions, a self-loop, a cycle, a chain of three, missing ports and protocols, ports at
the thresholds, a port and a protocol wider than their types) with all features, one graph with every subset of seven features that cover each
combination of fields the extractors ask for, one with every feature left out in turn,
one with every rounding of the
logarithms of its degrees, and one with a single address. A vertex without an address is there too, the addresses are
numbered in another order than the vertices, and the reference names an address that
the graph does not have. `DistancesAreShortest` compares with walks found without a
queue; `RowsAgree`, `SharesAddUp` and `MirrorRows` relate features that the code computes
along different paths. The sentinel 999 is not reached: it would need a thousand vertices.

**application** has a session for every combination of the three modes, the two reports and six
paths (2048 commands, the rest with default words), for odd commands (repeated options, an option
taken for an argument, `--`, missing and unknown options, files of the wrong kind), for training
with each of fifteen configurations, for training with five and predicting with
seven, and for a training that follows another, stops, and is predicted with. Two and three
addresses give two and six pairs. Scores are 15, 16 and 20 thirtieths and reports print one decimal:
the first two are the default threshold and a score above it that is printed as the threshold is, the
last is the other calibrated threshold, two thirds, and is printed above it although it is not. So scores tie, fall on a
threshold, and are told apart or not by what is printed; each of this happens with six decimals too. Cutoffs of 1 and 3 stand for 10, 50 and 100, one of them
larger than two pairs. The flows use mapped, unmapped, ephemeral and unset ports, one of which the port file
gives beyond 16 bits, TCP, UDP, another and no protocol; services are classified with defaults, which leave
most unknown, with a single flow enough, and with two. Uninitialised fields hold 0 or 7.
`CHECK_DEADLOCK` is off: a session ends.

What the properties say: `ArtifactsInOrder` that baseline, manifest, classifier and positives of a path are of runs
in the order of writing, and whole where a later one of the same run exists. `ExplanationsBelong` that each
column is replaced exactly once, by the median of its own feature from the classifier's own
training, or from a later one that did not end. `ReportsAgree` that the reports of a prediction, written by
different functions, tell of the same rows: scores report and positives print the same scores, which are those of the
explanations rounded; labels follow from the explained scores and the threshold of the manifest, and from printed scores
except where the threshold lies within the rounding (`Near`). `MetricsMatchReference` that precision and recall
follow from the labels of the scores report, and that the ranking metrics are those of the explained
scores, with the positive predictions at its head; printed scores do not determine the
ranking. `ServiceIsLikeliest` counts the flows of a pair anew, on ports other than 0: a service that is
reported is used most, with enough of a share, and `UNKNOWN` is reported just for a
reason (too few flows, none of them with a service, no service with enough of a share).
`OutputsMatchArguments` compares the files of a completed run with its options.
`LoggedConfigurationReloads` sends every configuration through JSON and back, but for
those of files that leave part of a nested object unnamed (section 5).

The runs check a type invariant of `FeatureGeneration`; those of the ground truth (`TypeCorrectness`), of the evicting
counter (`CounterWithinLimit`), of ingestion, of the embedding loader and of the random walk manager are proved only.

Each property has a mutant in `PROJECT.json`: a definition replaced by one
with a plausible slip (`Faulty*`, kept beside the original), under which TLC finds
the property violated.

## 4. Fairness

Only `EveryCallEnds` (of either build) needs it. `RandomWalkManager!Fairness` is weak fairness of the
caller's steps and of each thread's: operating system threads that can run are
run, and a join returns once its thread has ended. Nothing is assumed of `Call`
(nobody has to call) or `StartFails`. `WalkBatch` is a safety specification; the
termination of calls is stated on the detailed level.

## 5. Findings

* **A flow from an address to itself creates a second vertex**
  (`graph/network/NetworkGraphManager.cpp:28`). Both lookups come before both
  insertions, and the new vertex is an argument of `try_emplace`, created even when
  the address is already there. The graph then exceeds the configured limits
  (README: "Retain endpoints using configurable graph-size limits."). Edges
  still meet the indexed vertex (`SecondVerticesAreIsolated`).
* **TD3 does not follow the chain** (`ground_truth/DependencyAnalyzer.cpp:427`).
  A `TD2Dependency` is `{destination, middle}`, and the loop binds the two to `mid_ip` and
  `mid_ip2`; the next hop is then looked for at the middle, within flows that lead
  back from the destination to the middle. Nested calls 1 -> 2 -> 3 -> 5 give no TD3;
  what is reported as TD3 is two hops away (README: "three-stage transitive
  dependency").

* **After a remote-remote step, the reverse-edge condition compares the wrong
  vertices** (`random_walk/logic/custom/CustomRandomWalkLogic.tpp:149`). The step appends the target
  of a flow out of the last vertex but one, so the flow before joins the
  walk's third last and last vertices; the next step still looks at the last
  two. After 1 -> 2, 1 -> 3 a flow 3 -> 2 with the mirrored ports of 1 -> 3
  passes for its reverse, and 3 -> 1, which is, does not
  (`conditions.hpp:72`: "Condition 4: formalizes return over reverse edge
  representing reverse flow."). What still holds is `Grounded`, `TimesConnected`
  and `TurnsAreReplies`.

* **Calibration may use one fold** (`classifier/binary/BinaryRandomForestClassifier.tpp:58`).
  `num_folds` is compared with two before it is clamped to the smaller class. With one
  sample of a class the only fold holds everything, its classifier is trained on
  nothing (`BinaryRandomForestClassifier.tpp:44`: "Threshold calibration requires at
  least two folds."). What holds is `FoldForestsSeeBothClasses`: from two samples of each
  class on, every forest has seen both.

Met while modelling, and stated by `FailsOnlyWithoutStartTimes` from its safe side: **the temporal extractor
throws when none of the features that need start times is enabled**
(`generators/feature/TemporalFeatureExtractor.hpp:125`). It sorts the start times whatever is
configured, and for `time_avg_duration` asks for a count; with `time_avg_duration` or
`time_spike_score` but none of `time_avg_interarrival`, `time_regularity`,
`time_direction_bias`, `time_initiation_order` and `time_crosscorr_peak`, nothing of that
was collected, and the first pair ends training or prediction with
`std::bad_optional_access` (the comment at line 45: "If a feature is not computable, its
value will be std::nullopt.").

Met while modelling the application, none of which the runs' properties contradict:

* **Partly given `RF_PARAMS` or `GRID_PARAMS` are indeterminate** (`config/tag_invokes/tag_invokes.cpp:115`,
  `:139`): the structs have no initialisers, and what the file does not name stays as the stack had
  it, or, for a vector, empty (a grid search then tries nothing). `Unnamed` and `Indeterminate` model it.
* A crash between baseline and classifier (`LinkPredictionApp.cpp:221`, `:227`) leaves a baseline of
  another training; if the features are the same, prediction explains with it. Files are replaced
  in place, so a training that fails while saving also destroys the classifier before it.
* A classifier, or a reference, whose last bytes fail to be written on close is reported as
  saved (`BinaryRandomForestClassifier.tpp:313`).
* Without `--explanations` nothing compares the features a classifier was trained on with those
  it is given; only their number, and only with scaling (`RandomForestClassifier.tpp:154`).
* The service configuration is loaded after scores and explanations have been written
  (`LinkPredictionApp.cpp:376`): a missing port file ends a prediction with half its reports.
* Reports of an earlier run stay beside the output of a later one that does not ask for them.
* `-F` and `-o` are passed over by modes without a use for them, and so is `-G` in a training that is
  given `-g`; the manifest then names the one that was read.
* Printed scores do not decide what the labels say: with six decimals a score of 2/3 at a threshold of 2/3 is
  printed as 0.666667 and labelled 0, and scores that differ in the seventh decimal are ranked apart
  and printed alike (`PredictionReporter.cpp:116`). Explanations and manifest have every digit.
* A double must be written with a fraction or an exponent: `"LEARNING_RATE": 1` is refused
  (`JsonHelper.hpp:248`).
* A port beyond 65535 in the port file is narrowed to 16 bits (`ServicePortConfig.cpp`), and so is
  that of a flow.

Further observations, without a document that says otherwise: port 49151, the last registered
one, has the role of a client (`ProtocolFeatureExtractor.hpp:171`); a walk has two
vertices even for a length of one (the configuration excludes it by asking for
more than `CONTEXT_SIZE`); a walk ends at a vertex without flows although a remote-remote
step could go on (`CustomRandomWalkLogic.tpp:129`); the negative sample computed after
ten attempts may be the source (`EmbeddingTrainingPairGenerator.tpp:76`). One with such a document, in code that
the application does not reach: `EvictingCounter.hpp:13` says that a counter "tracks the items with the highest
frequency", but with a limit of one `a, a, b, b, c` leaves `c` alone; what is sure to be tracked is a key
with more than one in `limit + 1` of the additions (`CountsWithinError`).

## 6. Proofs

All theorems hold for every value of the constants that satisfies the named
assumptions of the modules, which are what the constructors and the configuration
validators enforce.

* `RandomWalkManagerProofs`: segments are inside the batch and in order
  (`SegmentsDisjoint`), from facts on integer division proved first. `IInv` adds to the types what each thread
  has done: `TeamInv` relates the caller's counters to the program counters,
  `ThreadInv` says that a thread's loop variable lies in its segment and that its
  generator has produced exactly the walks between the segment's start and there,
  `SlotInv` that every slot a thread has passed holds the promised walk and
  every other slot of the segment none. `NoDataRace` alone is not inductive: it
  forgets what finished threads have written. From `IInv` follow `TypeCorrectness`,
  `NoDataRaces`, `SlotsWrittenOnce`, and, with `SlotHasOwner` (owner and place of a
  slot in closed form), `Refinement`: `Return` maps to `Deliver`, every other step
  to a request, a failure or a stutter.
* `IngestionProofs`: lemmas on `add`, the total order of the ranking,
  `SelectionWithinLimit`, and the range of the bucket come first. `IInv` records the class and origin of every address
  in statistics, retained sets, reservoir and graph: allowed, observed by the
  first pass, in the retained set of its class. `AllowedAddresses` needs that chain,
  since the second pass never asks the checker. `TypeCorrectness` and
  `AddressLimits` follow too. `GraphIsReservoir` and `SecondVertices` need to know the graph while it
  is built (`BuiltInv`): its edges correspond one to one to the *slots* of the reservoir
  read so far, by a bijection that every `AddEdge` extends, and every vertex but the first of
  an address is touched by no edge. For `BestEndpoints`, `ScanInv` says that each
  statistic tallies with the lines scanned, which `ObserveTallies` shows of one line; that a sorted selection is what
  counting better-ranked endpoints gives is `SelectionIsTop`. For `ReservoirIsSample`,
  `SampleInv` says of every entry that it is a subset, taken without repetition, of the flows *offered* so
  far and that `total_seen` counts those. `CounterWithinLimit` and `CounterError` are about `EvictingCounter`. The error
  bound is not inductive, as nothing in it says how often the counter was full; `CounterInv` adds
  that number `d`: the units left in all counts and `limit + 1` for each of the `d` decrements are
  all the additions (`TokensTaken`), and no count misses more than `d`.

* `EmbeddingTrainingProofs`: `LoaderInv` joins the types to `BatchesCoverEpoch`, and
  to what `reset` leaves behind: the number of batches is zero for no
  contexts and otherwise the quotient rounded up, which is why the last batch that
  `has_next` announces is not empty and none is missing (`CeilingOfQuotient`,
  `BatchesAreEnough`). `BatchesCoverEpoch` alone forgets where `m_total_batches` comes
  from. `TrainingRefinement` follows with `BatchRangeFacts`: the range of a
  batch is unused and not empty. `NegativesDiffer` rests on a fact on remainders
  (`NegativesAvoidTarget`). `TrainedPairsMatch` numbers the rows of the batches trained so far and
  maps them one to one to the places in the walks that pair two vertices, so
  that the count of every pair is the same.
* `RandomWalkLogicProofs`: `WalkInv` is the conjunction of the four properties. `Possibilities`
  says what each of the four conditions guarantees of a candidate, `TakeKeeps` that
  such a candidate keeps all four properties; the graph and the numbers are
  arbitrary.
* `CalibrationProofs`: `FoldInv` says that the folds cover the samples and that none holds a
  whole class (dealing with two folds or more separates a class's first two samples,
  `DealingOut`). `SearchInv` relates the counts and the best threshold to the
  thresholds *covered* so far, those below every candidate that is left: `Covering` shows
  that all thresholds between two candidates predict the same, so trying candidates
  suffices, and `KeepingTheBest` that one comparison keeps the best of what
  is covered. `ThresholdIsOptimal` itself speaks of the end only and is not inductive.
  Metrics are compared as quotients (`NotExceedsIsTransitive`). `FoldsStratified` counts
  the samples of a class in a fold: dealing round robin puts the places of one remainder into each,
  and two remainders differ by at most one place.

* `DependencyAnalyzerProofs`: `IInv` says that flows are between allowed hosts and were read from lines without a
  malformed one among them (`InputInv`), that the
  dictionary is the file grouped by pair, by a bijection between the positions of groups and the flows that are
  *evidence* of them (`GroupInv`), that every stage that is over left what the file
  demands (`StageInv`), and that the CSV file is what the last calculation wrote of it, or part of
  that (`CsvInv`). The nested counting loops are shown to find just the pairs that are linked
  often enough; that a sum over hosts reaches a threshold if a count of pairs does is `TotalLR`.
  `FlowsExplain`, `LoadedIsGenuine` and `DirectUnderneath` follow; the last two hold of
  every prefix that a crash may leave, torn last line included.

* `ApplicationProofs`: `ArtifactsStayInOrder`, for every session, every initial disk without
  artifacts (`InitialFilesAssumption`), every command and content. `ArtifactsInOrder` says nothing of the process that
  is running and is not inductive: `IInv` adds that the process is at a step of its mode (`StepInv`),
  that runs are numbered upwards, so that a file just written is the newest (`RunsInv`), that files of
  the running process are whole (`WrittenInv`: one begun and not finished
  ends it), that its baseline is there before the classifier (`BaselineInv`) and its predictions before
  the manifest (`PositivesInv`). One lemma for each kind of file (`PutBaseline`, `PutClassifier`, ...)
  says what writing it does to the order, paths being arbitrary and possibly equal.
  `OutputsAreRequested`: a run that completes has written exactly the files its options ask for. Its
  invariant `OInv` says which files of the running process exist at each step (`OutputsInv`, by mode).
  That needs which options a mode accepts (`ArgumentsInv`), that labels are there just if a
  reference is given, as the metrics file depends on the labels (`LabelsInv`), and
  that no run completes twice (`FinishedInv`).

  `ConfigurationsReload`: a value is `Good` for its parameter if what `value_from` writes of it is accepted
  and read as the value again. All defaults are (`DefaultGood`), so is what is read of any file
  (`LoadedGood`) and the number of threads that a run fixes (`ThreadsGood`); values of one parameter never
  disturb another (`Reloads`). `CInv` says that the files which runs only read are still the initial ones and
  that the configuration at startup came from one of them. It rests on `InputsAssumption` (a parsed
  document holds numbers where it says so) and `ThreadsAssumption`
  (`std::thread::hardware_concurrency` is not negative).

  `ReportsAlwaysAgree` and `ExplanationsAlwaysBelong` speak of what is left of completed predictions
  while other runs overwrite any part of it. `AInv` follows every classifier and every baseline on disk and in memory to its training:
  those of one training name the same features. `PInv` says what each report of the
  prediction that runs tells of its pairs, scores and baseline (`Tells`), one lemma for each action;
  `ToldInv` says the same of every completed prediction, of the reports that are still its own. It is
  preserved because a file is never changed but by the run that begins it anew. Rounding moves a score by half a unit
  at most (`WrittenIsNear`, for any `ScoreUnit` and `WrittenUnit` but 0, `UnitsAssumption`), so a printed score on the wrong side
  has the threshold near it (`PrintedLabels`). `Selected` of
  positions is proved to list them in order (`SelectedTogether`, `SelectedAlone`), by which the list
  of positives and the rows of the scores report are compared element by element.

  `MetricsAlwaysMatch` sets two ways to read the same rows against each other: by the threshold and by the ranking.
  `Ahead` is a strict order (`AheadOrBehind`), so each row has a rank of its own (`RankedOnce`) and a set of rows is the
  head of the ranking just if it has every row ahead of each of its rows (`HeadIffClosed`), which
  the predicted rows have, as a higher score is above the threshold too (`PredictedAreFirst`). Precision and recall
  at a cutoff count the hits of a head (`RankingAtCutoff`), and the reciprocal rank is of the first hit
  (`FirstHitRanked`). The sum of the average precision never exceeds the number of hits so far and
  equals it just if no row but a hit came first, which is kept from rank to rank (`FallsShortNext`, `SumsFallShort`), so a
  full mean means that the labelled rows are the head (`PerfectPrecision`); a curve of full area
  has every positive above every negative (`PerfectCurve`). The comparison of scores with a threshold needs `TInv`: each
  threshold, of a configuration, of a classifier in memory or in a file, is a fraction with a positive
  denominator. That rows keep pairs, labels and full scores from prediction to explanations is told by `PInv`. It rests on `ScoresAssumption` (scores are numbers, a calibrated threshold is such a fraction) and
  `CutoffsAssumption` (no cutoff is zero; `DEFAULT_RANKING_CUTOFFS` has 10, 50 and 100).

  `ServicesAreLikeliest` counts the flows of a pair among all flows, the code among the flows between two
  vertices; that the two numbers are equal is `SameFlows`. `Classified` says what `classify` answers, by the first of
  the greatest counts (`FirstGreatest`), with its smoothed share and the three reasons for none (`SaysOf`); that what it counts for a service goes to a port which the port file gives that
  service, for its protocol or for any, is `CountedIsMapped`. `SInv` says that the parameters of
  the classifier are settled once a process is configured (`SettledInv`: defaults, or what a file may hold), that the
  ports in memory are those of some file (`PortsInv`), and that the positives on disk are those of
  the running process from when they are written to its end (`ListedInv`).

* `FeatureGenerationProofs`: `FeatureInv` follows one call, whatever its graph, addresses and features.
  `SearchFits` is what a breadth-first search keeps: each vertex reached has a level, one more than that of some
  vertex before it, the queue is sorted by level and spans two of them at most, and every vertex that has
  left the queue has all its successors among those reached; so a search that has ended
  has levels that no walk undercuts (`MeasuredWalks`). `PathsFit` and `HopsFit` say that the caches hold just this
  for the sources that are done, `RowsFit` that each row written is the one `write_pair_features` gives for its pair;
  it needs that caches are complete before the first row, as later rows must not tell otherwise.
  `FeatureTypeCorrect` follows. `RowsOfPairs` compares two orders: rows by position in a loop over sorted
  addresses that skips equal ones, and the place of a pair among all pairs (`Sorted` is increasing, `Place` is closed
  under the loop). For `FeatureTold` columns and names are cut up alike, family by family: every name finds its value
  and the dimension is the number of columns. From the last `FailuresExplained`: a writer that may read what was not
  collected is one of the temporal family without start times. `ShortestDistances` assumes that no call has more than `Unreachable`
  (999) addresses: `Closeness` writes zero for a distance of 999, so in a larger graph a pair that far apart
  is reported as one without a path.

  Three theorems compare the values of columns. Each first says what a column is as a function of
  the flows from `u` to `v` and of those back (`ColumnsOfFlows`, `ColumnsOfVertices`). `RowsMirror`:
  what takes the union of the two sets is the same for the swapped pair, and a flow that follows another at a lag is followed by it
  at the opposite lag, so the peaks are positive together (`PeaksBothWays`). `SharesFit`: a sum has the value that its recursion
  gives it on each part of its finite domain (`SumFound`, by `PartInduction`); by it a degree is the sum
  of the flows to each neighbour (`OutDegreesSum`), common neighbours do not outnumber either degree (`CommonNeighbors`) and the score of
  spikes, a squared sum over a sum of squares, is a fraction (`SumOfSquares`). `RowsTellOneStory`: the first two
  levels of a finished search are the successors and theirs (`NearVertices`), a sum is positive
  just if a term is (`SumOfNaturals`), flows one way and flows back are disjoint (`BiasIsAsymmetry`), and
  of two events that follow each other in the sorted list the second comes later (`SuccessionsWait`).

What the proofs changed in the model: `LET`s became operators, and `SelectSeq` and `@@`, of which the
provers know nothing, became `Selected` and `Joined` (module `Selection`); sums over a set became sums of
a function, as did that of the average precision, and the columns of a writer got a name. The type invariant of `FeatureGeneration` left out that `j`
stays 1 in a call without addresses. `InitiationOrder` was a `CASE` whose guards overlapped, which leaves the choice
open where the code has an order. A set of vertices was written without the parentheses
on which the prover and TLC agree (`ends` in `TwoHops`). Two properties were wrong outside
of the checked bounds and are now stated as the code has it: a timestamp after the last full slice
belongs to the last bucket (`SliceOf` in `ReservoirHoldsSample`; it matters with more buckets than
milliseconds), and flows to port 0 are not counted for a service even if the port file maps it
(`ServiceIsLikeliest`). Scores were compared across reports as if every
report had all digits; they are now rounded where the code rounds them.

Only model-checked: `EveryCallEnds` (liveness) and `OpenMPBuildToo` (which instantiates the module whose
three properties are proved). Statements on all data are
proved where a least counterexample can be refuted (`LeastNumber`); the library's induction
theorems take an operator and are of no use to the provers. That a recursive function has the
value its definition gives, `Selected` for one, is proved that way too.

## 7. Abstractions and what is not modelled

* JSON, text and formatting, but for the decimals of printed scores and confidences: in flow files a value is present, absent or wrong, in configurations it
  has its kind. Timestamps are integers, of either sign and without a bound: the bucket computation overflows
  (`FlowProcessor.cpp:282`) only for timestamps near the limits of 64 bits. Integers in
  configurations fit their types.
* The random indices and choices of generators are nondeterministic, except where
  reproducibility is the subject (`RandomWalkManager`).
* Functions without a caller in the application: `NetworkGraphManager::add_vertex`,
  `add_edge` by address, all operations of `EvictingCounter` but `get_limit` (modelled all the same), `remove` and
  `clear` of the reservoir. `NetworkGraphManager.cpp:36` uses an iterator after an insertion
  that may rehash; libstdc++ keeps the node, so there is no second outcome to model.
* Metrics in `Calibration` are exact quotients, f1 in its closed form; the code rounds, and
  may see a difference where the quotients are equal or none where they differ by less
  than the precision. Probabilities are multiples of `1 / Scale`, for any even
  `Scale`. The caller has validated the name of the metric and passes as many
  columns as labels.
* `FeatureGeneration` leaves out what is monotone (logarithms, roots: a deviation is
  its square over that of the mean) and the arithmetic of embeddings; the sums of
  Adamic-Adar and resource allocation are reduced to the number of their terms.
  `net_top_port`, and `flow_causality_score` when a flow ends as a reply starts, are a
  `Number`: the code's answer depends on a hash table or on an unstable sort. One generator serves one call, as in the application.
  A percentile is looked up as a float among doubles; any degrees may be rounded up, which
  is more than one build does. Percentiles of embedding norms are not computed.
* `Application`: an analysis inside a process (ingestion, embeddings, features, forests) is one step or
  none; its details have modules of their own. Only one process runs at a time. Grid search is
  the choice of one combination of a grid without an empty dimension. `-v` and
  `-F` change output on the screen only. In `Metrics`, the averages over classes
  (`metrics.cpp`, lines 184 to 255) are unreachable with binary labels.
* The scores report, the positives and their confidences keep `SCORE_PRECISION` decimals (`Written`). The
  probabilities in the list of likely services are not compared with anything and left out. A score is an
  exact number of `ScoreUnit`s, where the code has a double, and JSON is taken to keep it.
* Numerics of LibTorch and mlpack, the statistics of features, other output formats: no
  state to explore, or real arithmetic. Among them the loss of a batch without pairs, which is
  NaN (`DirectionalSkipGramModel.cpp:48`); the model shows that such batches occur.

## 8. Plan

In this order; what comes first carries the behaviour the rest depends on.

1. Done: ingestion, random walks with their abstract batch, the logic of one walk,
   embedding training with its abstract epochs, ground truth.
2. Done: `Calibration`, the fold assignment and the threshold search.
3. Done: `FeatureGeneration`; `Application` with the command line, the configuration, metrics,
   services, explanations and reports; `ArtifactsStayInOrder` and `OutputsAreRequested`.
4. Done: theorems for all properties of `Ingestion`, `DependencyAnalyzer`, `EmbeddingTraining` and
   `Calibration`; the configuration and the reports of `Application`.
5. Done: theorems for all properties of `FeatureGeneration`.
6. Done: `EvictingCounter`; theorems for `ServiceIsLikeliest` and `MetricsMatchReference`, so that
   all safety properties of all runs are proved.
