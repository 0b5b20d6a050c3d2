----------------------------- MODULE Application -----------------------------
(***************************************************************************)
(* app/LinkPredictionApp and main: a session of commands over one disk.    *)
(* Each process parses its command, reads its configuration and takes the  *)
(* steps of its mode, one file written after the other; it may stop before *)
(* any of them, by an exception or a crash, and leave a torn file behind.  *)
(* The disk maps a path and the suffix of a file beside it to a content    *)
(* and to the run that wrote it, which no program reads.                   *)
(*                                                                         *)
(* What a data file keeps of its flows is modelled in Ingestion, how       *)
(* features are computed in FeatureGeneration, the reference in            *)
(* DependencyAnalyzer and the calibrated threshold in Calibration: here a  *)
(* data file names its retained addresses and flows and its dependencies,  *)
(* and a classifier scores pairs in any way.                               *)
(***************************************************************************)
EXTENDS CommandLine, Configuration, Explainability, PredictionReporter

CONSTANTS
  Sessions,               \* sequences of commands, each a sequence of words
  InitialFiles,           \* the files before the first of them
  Scores,                 \* of the positive class
  CalibratedThresholds    \* what calibration may find

ASSUME ScoresAssumption ==
  /\ Scores \subseteq Int
  /\ CalibratedThresholds \subseteq Int \X (Nat \ {0})

\* Nothing that a run writes for a later one to read but a reference is there before.
ASSUME InitialFilesAssumption ==
  \A p \in DOMAIN InitialFiles :
    /\ InitialFiles[p].run = 0
    /\ InitialFiles[p].kind \in {"config", "flows", "addresses", "ports", "reference"}

\* What the files hold that a program reads and never writes.
FlowData(body) ==
  /\ IsFiniteSet(body.addresses)
  /\ body.flows \in Seq(ToSet(body.flows))
  /\ \A n \in DOMAIN body.flows :
       body.flows[n].dst_port \in Int /\ body.flows[n].protocol \in Int
PortData(services) ==
  /\ services \in Seq(ToSet(services))
  /\ \A n \in DOMAIN services :
       /\ services[n].ports \in Seq(Int)
       /\ services[n].tcp_ports \in Seq(Int) /\ services[n].udp_ports \in Seq(Int)
Input(file) ==
  /\ file.kind = "config" => Document(file.body)
  /\ file.kind = "flows" => FlowData(file.body)
  /\ file.kind = "ports" => PortData(file.body)

ASSUME InputsAssumption == \A p \in DOMAIN InitialFiles : Input(InitialFiles[p])

VARIABLES
  session,                      \* the commands to come
  run,                          \* how many processes have got past their command line
  mode, step,                   \* of the process: what it is to do next
  args, config,
  graph, m_dependencies,        \* retained addresses and flows; types of each dependency
  m_classifier, m_explainability_baseline,
  rows,                         \* pairs with their predictions, scores and labels
  port_config, positives,       \* of the services; as written by the process
  files,
  finished                      \* what completed runs had been asked for, and their classifier

process == <<mode, step, args, config>>
models == <<m_classifier, m_explainability_baseline>>
memory == <<graph, m_dependencies, models, rows, port_config, positives>>
vars == <<session, run, process, memory, files, finished>>

Exit == "exit"

-----------------------------------------------------------------------------
(* The steps of a mode in their order, some taken only if wanted.          *)

\* Seeded fault: the classifier is saved before its baseline.
FaultyTrainingOrder ==
  [configure |-> "startup", startup |-> "ingest", ingest |-> "reference", reference |-> "train",
   train |-> "manifest", manifest |-> "save", save |-> "baseline", baseline |-> Exit]

TrainingOrder ==
  [configure |-> "startup", startup |-> "ingest", ingest |-> "reference", reference |-> "train",
   train |-> "manifest", manifest |-> "baseline", baseline |-> "save", save |-> Exit]

PredictionOrder ==
  [configure |-> "startup", startup |-> "ingest", ingest |-> "load", load |-> "load_baseline",
   load_baseline |-> "reference", reference |-> "predict", predict |-> "scores",
   scores |-> "explanations", explanations |-> "services", services |-> "positives",
   positives |-> "metrics", metrics |-> "manifest", manifest |-> Exit]

GroundTruthOrder == [configure |-> "startup", startup |-> "reference", reference |-> Exit]

NextStep ==
  CASE mode = "training" -> TrainingOrder[step]
    [] mode = "prediction" -> PredictionOrder[step]
    [] mode = "ground truth" -> GroundTruthOrder[step]

Optional == {"manifest", "load_baseline", "scores", "explanations", "services", "metrics", "reference"}
Wanted ==
  CASE step = "manifest" -> config.WRITE_RUN_MANIFESTS
    [] step \in {"load_baseline", "explanations"} -> Is(args, "-e")
    [] step = "scores" -> Is(args, "-s")
    [] step = "services" -> config.SERVICE_CONFIG.enabled
    [] step = "metrics" -> rows.labels # None
    [] step = "reference" -> mode = "prediction" => Has(args, {"-g"})

Running(s) == mode # "none" /\ step = s /\ (s \in Optional => Wanted)

GoOn == step' = NextStep /\ UNCHANGED <<session, run, mode, args, config, finished>>

\* Whatever the process held is gone with it.
End ==
  /\ mode' = "none" /\ step' = Exit /\ args' = NoArguments /\ config' = None
  /\ graph' = None /\ m_dependencies' = None
  /\ m_classifier' = None /\ m_explainability_baseline' = None
  /\ rows' = None /\ port_config' = None /\ positives' = None
  /\ UNCHANGED <<session, run>>

-----------------------------------------------------------------------------
(* The disk.                                                               *)

File(option) == <<args.paths[option], "">>
Beside(option, suffix) == <<args.paths[option], suffix>>
Manifest(option) == Beside(option, ".run_manifest.json")
feature_baseline_path == Beside("-c", ".feature_baselines.json")

Content(kind, body, whole) == [kind |-> kind, body |-> body, whole |-> whole, run |-> run]

Put(path, content) ==
  files' = [p \in DOMAIN files \cup {path} |-> IF p = path THEN content ELSE files[p]]

Readable(path, kind) == path \in DOMAIN files /\ files[path].kind = kind

\* A file of one kind is written to its end, or only begun, which ends the process.
Write(path, kind, body) ==
  \/ Put(path, Content(kind, body, TRUE)) /\ GoOn /\ UNCHANGED memory
  \/ Put(path, Content(kind, body, FALSE)) /\ End /\ UNCHANGED finished

-----------------------------------------------------------------------------
(* A process starts.                                                       *)

Init ==
  /\ session \in Sessions /\ run = 0
  /\ mode = "none" /\ step = Exit /\ args = NoArguments /\ config = None
  /\ graph = None /\ m_dependencies = None
  /\ m_classifier = None /\ m_explainability_baseline = None
  /\ rows = None /\ port_config = None /\ positives = None
  /\ files = InitialFiles
  /\ finished = << >>

Commanded(outcomes) ==
  /\ mode = "none" /\ session # << >>
  /\ Main(parse_args(Head(session))) \in outcomes
  /\ session' = Tail(session)

\* Help, the version, or a command line that is refused.
Decline ==
  /\ Commanded({"success", "failure"})
  /\ UNCHANGED <<run, process, memory, files, finished>>

Start ==
  /\ Commanded({"training", "prediction", "ground truth"})
  /\ run' = run + 1
  /\ args' = parse_args(Head(session))
  /\ mode' = Main(args')
  /\ step' = "configure"
  /\ UNCHANGED <<config, memory, files, finished>>

Configurations ==
  IF ~Has(args, {"-f"}) THEN {DefaultConfig}
  ELSE IF Readable(File("-f"), "config") THEN load(files[File("-f")].body) ELSE {}

Configure ==
  /\ Running("configure")
  /\ \E loaded \in Configurations : config' = WithThreads(loaded)
  /\ step' = "startup"
  /\ UNCHANGED <<session, run, mode, args, memory, files, finished>>

\* The lists of addresses that the mode uses.
Lists == {"-b"} \cup (IF mode = "ground truth" THEN {} ELSE {"-i"})

CommonStartup ==
  /\ Running("startup")
  /\ \A option \in Lists \cap DOMAIN args.paths : Readable(File(option), "addresses")
  /\ GoOn
  /\ UNCHANGED <<memory, files>>

Ingest ==
  /\ Running("ingest")
  /\ Readable(File("-d"), "flows")
  /\ graph' = Some([addresses |-> files[File("-d")].body.addresses,
                    flows |-> files[File("-d")].body.flows])
  /\ GoOn
  /\ UNCHANGED <<m_dependencies, models, rows, port_config, positives, files>>

\* A reference has a row for each type of a dependency; one that is torn has fewer.  (What
\* its last row then says is modelled in DependencyAnalyzer.)
RowsOfReference(types) == UNION {{pair} \X types[pair] : pair \in DOMAIN types}
Loaded(loaded_rows) ==
  [pair \in {row[1] : row \in loaded_rows} |-> {row[2] : row \in {r \in loaded_rows : r[1] = pair}}]

LoadReference ==
  /\ Running("reference") /\ Has(args, {"-g"})
  /\ Readable(File("-g"), "reference")
  /\ LET reference == files[File("-g")]
     IN  \E kept \in SUBSET RowsOfReference(reference.body) :
           /\ reference.whole => kept = RowsOfReference(reference.body)
           /\ m_dependencies' = Some(Loaded(kept))
  /\ GoOn
  /\ UNCHANGED <<graph, models, rows, port_config, positives, files>>

Calculates == Running("reference") /\ ~Has(args, {"-g"}) /\ Readable(File("-d"), "flows")
Calculated == files[File("-d")].body.dependencies

CalculateReference ==
  /\ Calculates /\ ~Has(args, {"-G"})
  /\ m_dependencies' = Some(Calculated)
  /\ GoOn
  /\ UNCHANGED <<graph, models, rows, port_config, positives, files>>

\* What is left to write when the file is closed may be lost without a word.
CalculateAndSaveReference ==
  /\ Calculates /\ Has(args, {"-G"})
  /\ \/ \E whole \in BOOLEAN :
          /\ Put(File("-G"), Content("reference", Calculated, whole))
          /\ m_dependencies' = Some(Calculated)
          /\ GoOn
          /\ UNCHANGED <<graph, models, rows, port_config, positives>>
     \/ /\ Put(File("-G"), Content("reference", Calculated, FALSE))
        /\ End
        /\ UNCHANGED finished

-----------------------------------------------------------------------------
(* Features and labels.                                                    *)

Precedes(p, q) == p[1] < q[1] \/ (p[1] = q[1] /\ p[2] < q[2])
PairsOf(addresses) ==
  LET pairs == {p \in addresses \X addresses : p[1] # p[2]}
  IN  [k \in 1..Cardinality(pairs) |->
         CHOOSE p \in pairs : Cardinality({q \in pairs : Precedes(q, p)}) = k - 1]

pairs_of_graph == PairsOf(graph[1].addresses)
feature_names == get_feature_names(config.FEATURE_CONFIG)
LabelsOf(pairs) == [k \in DOMAIN pairs |-> pairs[k] \in DOMAIN m_dependencies[1]]

\* Of all dependencies of the reference, and of those between retained addresses.
calculate_projection_stats(types, retained) ==
  LET covered == {p \in DOMAIN types : p[1] \in retained /\ p[2] \in retained}
      by_type(dependencies) ==
        [type \in UNION {types[p] : p \in DOMAIN types} |->
           Cardinality({p \in dependencies : type \in types[p]})]
  IN  [total |-> Cardinality(DOMAIN types), retained |-> Cardinality(covered),
       total_by_type |-> by_type(DOMAIN types), retained_by_type |-> by_type(covered)]

Projection == calculate_projection_stats(m_dependencies[1], graph[1].addresses)

RunManifest(option, reference, projection) ==
  write_run_manifest(mode, [o \in {"-f", "-d", "-c", option} \cap DOMAIN args.paths |-> args.paths[o]],
                     reference, projection, config, graph[1],
                     Len(pairs_of_graph), m_classifier[1])
PathOf(option) == IF Has(args, {option}) THEN Some(args.paths[option]) ELSE None

-----------------------------------------------------------------------------
(* Training.                                                               *)

\* One of the combinations of a grid that is not empty in any direction.
perform_grid_search ==
  LET grid == config.GRID_PARAMS
  IN  [num_trees : ToSet(grid.num_trees), min_leaf_size : ToSet(grid.min_leaf_size),
       min_gain_split : ToSet(grid.min_gain_split), max_depth : ToSet(grid.max_depth)]

ForestParameters == IF config.USE_GRID_SEARCH THEN perform_grid_search ELSE {config.RF_PARAMS}

\* A threshold is calibrated on the labels of both classes.
TrainedThresholds ==
  IF config.USE_THRESHOLD_CALIBRATION
  THEN IF ToSet(LabelsOf(pairs_of_graph)) = BOOLEAN THEN CalibratedThresholds ELSE {}
  ELSE {IF config.CLASSIFIER_THRESHOLD # None THEN config.CLASSIFIER_THRESHOLD[1] ELSE <<1, 2>>}

TrainClassifier ==
  /\ Running("train")
  /\ Cardinality(graph[1].addresses) >= 2
  /\ \E params \in ForestParameters, threshold \in TrainedThresholds :
       /\ params.num_trees >= 1
       /\ m_classifier' = Some([training |-> run, features |-> feature_names, params |-> params,
                                threshold |-> threshold,
                                scaling |-> config.USE_FEATURE_SCALING])
  /\ GoOn
  /\ UNCHANGED <<graph, m_dependencies, m_explainability_baseline, rows, port_config, positives, files>>

WriteTrainingManifest ==
  /\ Running("manifest") /\ mode = "training"
  /\ Write(Manifest("-c"), "manifest",
           RunManifest("-c", IF Has(args, {"-g"}) THEN PathOf("-g") ELSE PathOf("-G"),
                       Some(Projection)))

SaveBaseline ==
  /\ Running("baseline")
  /\ Write(feature_baseline_path, "baseline", compute_feature_baseline(run, feature_names))

\* What the stream still holds when it is closed is lost without a word if it does not fit.
SaveClassifier ==
  /\ Running("save")
  /\ \/ Write(File("-c"), "classifier", m_classifier[1])
     \/ Put(File("-c"), Content("classifier", m_classifier[1], FALSE)) /\ GoOn /\ UNCHANGED memory

-----------------------------------------------------------------------------
(* Prediction.                                                             *)

LoadClassifier ==
  /\ Running("load")
  /\ Readable(File("-c"), "classifier") /\ files[File("-c")].whole
  /\ LET classifier == files[File("-c")].body
     IN  m_classifier' = Some(IF config.CLASSIFIER_THRESHOLD # None
                              THEN [classifier EXCEPT !.threshold = config.CLASSIFIER_THRESHOLD[1]]
                              ELSE classifier)
  /\ GoOn
  /\ UNCHANGED <<graph, m_dependencies, m_explainability_baseline, rows, port_config, positives, files>>

LoadBaseline ==
  /\ Running("load_baseline")
  /\ Readable(feature_baseline_path, "baseline") /\ files[feature_baseline_path].whole
  /\ m_explainability_baseline' = Some(files[feature_baseline_path].body)
  /\ GoOn
  /\ UNCHANGED <<graph, m_dependencies, m_classifier, rows, port_config, positives, files>>

\* Seeded fault: a score at the threshold is positive.
FaultyPositive(score, threshold) == score * threshold[2] >= threshold[1] * ScoreUnit

Positive(score, threshold) == score * threshold[2] > threshold[1] * ScoreUnit

\* Scaling goes by the number of features; what they are is not compared.
Fits == m_classifier[1].scaling => Len(m_classifier[1].features) = Len(feature_names)

Predict ==
  /\ Running("predict")
  /\ Cardinality(graph[1].addresses) >= 2 /\ Fits
  /\ LET pairs == pairs_of_graph
     IN  \E scores \in [DOMAIN pairs -> Scores] :
           rows' = [pairs |-> pairs, scores |-> scores,
                    predictions |-> [k \in DOMAIN pairs |->
                                       Positive(scores[k], m_classifier[1].threshold)],
                    labels |-> IF m_dependencies # None THEN Some(LabelsOf(pairs)) ELSE None]
  /\ GoOn
  /\ UNCHANGED <<graph, m_dependencies, models, port_config, positives, files>>

WriteScores ==
  /\ Running("scores")
  /\ Write(Beside("-o", ".scores.csv"), "scores",
           write_pair_scores(rows.pairs, rows.predictions, rows.scores, rows.labels))

WriteExplanations ==
  /\ Running("explanations")
  /\ validate_feature_baseline(m_explainability_baseline[1], feature_names)
  /\ Write(Beside("-o", ".explanations.jsonl"), "explanations",
           write_prediction_explanations(
             rows.pairs, rows.predictions, rows.scores,
             explain_with_group_ablation(feature_names, m_explainability_baseline[1]),
             rows.labels))

LoadServices ==
  /\ Running("services")
  /\ LET path == <<config.SERVICE_CONFIG.port_config_path, "">>
     IN  /\ Readable(path, "ports") /\ LoadsServices(files[path].body)
         /\ port_config' = Some(files[path].body)
  /\ GoOn
  /\ UNCHANGED <<graph, m_dependencies, models, rows, positives, files>>

WritePositives ==
  /\ Running("positives")
  /\ LET body == write_positive_predictions(rows.pairs, rows.predictions, rows.scores,
                                            graph[1].flows, port_config, config.SERVICE_CONFIG)
     IN  \/ /\ Put(File("-o"), Content("positives", body, TRUE))
            /\ positives' = Len(body)
            /\ GoOn
            /\ UNCHANGED <<graph, m_dependencies, models, rows, port_config>>
         \/ /\ Put(File("-o"), Content("positives", body, FALSE))
            /\ End
            /\ UNCHANGED finished

WriteMetrics ==
  /\ Running("metrics")
  /\ Write(Beside("-o", ".metrics.json"), "metrics",
           write_metrics_report(calculate_metrics(rows.predictions, rows.labels[1], rows.scores),
                                positives, Len(rows.predictions)))

WritePredictionManifest ==
  /\ Running("manifest") /\ mode = "prediction"
  /\ Write(Manifest("-o"), "manifest",
           RunManifest("-o", PathOf("-g"), IF Has(args, {"-g"}) THEN Some(Projection) ELSE None))

-----------------------------------------------------------------------------
(* A process moves on or ends.                                             *)

PassOver ==
  /\ mode # "none" /\ step \in Optional /\ ~Wanted
  /\ GoOn
  /\ UNCHANGED <<memory, files>>

Finish ==
  /\ Running(Exit)
  /\ LET done == [mode |-> mode, args |-> args, config |-> config, classifier |-> m_classifier]
     IN  finished' = [r \in DOMAIN finished \cup {run} |-> IF r = run THEN done ELSE finished[r]]
  /\ End
  /\ UNCHANGED files

\* An exception, or a crash, before a step has an effect.
Stop ==
  /\ mode # "none" /\ step # Exit
  /\ End
  /\ UNCHANGED <<files, finished>>

Next ==
  \/ Decline \/ Start
  \/ Configure \/ CommonStartup \/ Ingest
  \/ LoadReference \/ CalculateReference \/ CalculateAndSaveReference
  \/ TrainClassifier \/ WriteTrainingManifest \/ SaveBaseline \/ SaveClassifier
  \/ LoadClassifier \/ LoadBaseline \/ Predict
  \/ WriteScores \/ WriteExplanations \/ LoadServices \/ WritePositives
  \/ WriteMetrics \/ WritePredictionManifest
  \/ PassOver \/ Finish \/ Stop

Spec == Init /\ [][Next]_vars

-----------------------------------------------------------------------------
(* Properties.                                                             *)

There(path, suffix, kind) == Readable(<<path, suffix>>, kind)
RunOf(path, suffix) == files[<<path, suffix>>].run
Whole(path, suffix) == files[<<path, suffix>>].whole

(* Files are written one after the other and replaced in place, so a       *)
(* process that stops leaves files of different runs side by side.  A      *)
(* classifier always has a baseline, and never an older one, and what came *)
(* before it in its own run is complete; predictions are never older than  *)
(* the manifest beside them, and complete if the manifest is of their run. *)
ClassifierInOrder(path) ==
  There(path, "", "classifier") =>
    /\ There(path, ".feature_baselines.json", "baseline")
    /\ RunOf(path, ".feature_baselines.json") >= RunOf(path, "")
    /\ RunOf(path, ".feature_baselines.json") = RunOf(path, "") =>
         Whole(path, ".feature_baselines.json")
    /\ There(path, ".run_manifest.json", "manifest")
         /\ RunOf(path, ".run_manifest.json") = RunOf(path, "") =>
         Whole(path, ".run_manifest.json")

PositivesInOrder(path) ==
  /\ There(path, "", "positives") /\ There(path, ".run_manifest.json", "manifest")
  /\ files[<<path, ".run_manifest.json">>].body.mode = "prediction"
  => /\ RunOf(path, "") >= RunOf(path, ".run_manifest.json")
     /\ RunOf(path, "") = RunOf(path, ".run_manifest.json") => Whole(path, "")

ArtifactsInOrder ==
  \A path \in {p[1] : p \in DOMAIN files} : ClassifierInOrder(path) /\ PositivesInOrder(path)

\* The reports of completed predictions that no later run has begun to replace.
Reports(r, suffix) ==
  LET path == <<finished[r].args.paths["-o"], suffix>>
  IN  IF path \in DOMAIN files /\ files[path].run = r THEN {files[path].body} ELSE {}
Predictions == {r \in DOMAIN finished : finished[r].mode = "prediction"}

(* Every column of a row that is explained is replaced once, by the median *)
(* of the feature that the configuration names for it; the medians are     *)
(* those of the training of the classifier, whose features these are,      *)
(* unless a later training got as far as its baseline and did not end.     *)
ExplanationsBelong ==
  \A r \in Predictions : \A explanations \in Reports(r, ".explanations.jsonl") :
    LET names == get_feature_names(finished[r].config.FEATURE_CONFIG)
        classifier == finished[r].classifier[1]
    IN  \A k \in DOMAIN explanations : LET groups == explanations[k].groups IN
          /\ \A column \in DOMAIN names :
               Cardinality({n \in DOMAIN groups : column \in DOMAIN groups[n].replaced}) = 1
          /\ \A n \in DOMAIN groups : \A column \in DOMAIN groups[n].replaced :
               LET median == groups[n].replaced[column]
               IN  /\ median.of = names[column]
                   /\ \/ median.training = classifier.training /\ classifier.features = names
                      \/ median.training > classifier.training
                         /\ median.training \notin DOMAIN finished

\* A number as it is printed is off a fraction by no more than half of its last decimal.
Near(printed, fraction) ==
  /\ (2 * printed - 1) * fraction[2] <= 2 * fraction[1] * WrittenUnit
  /\ 2 * fraction[1] * WrittenUnit <= (2 * printed + 1) * fraction[2]

(* The reports of one prediction, written one after the other, tell of the *)
(* same pairs: the positives are the rows of the scores report with a      *)
(* positive label, in their order, with scores printed alike; the          *)
(* explanations have the scores of which the scores report keeps a few     *)
(* decimals, and the labels follow from them and from the threshold of the *)
(* manifest.  So they do from a printed score, unless the threshold is so  *)
(* near that the decimals left out decide.                                 *)
ReportsAgree ==
  \A r \in Predictions :
    /\ \A scores \in Reports(r, ".scores.csv") :
         /\ \A listed \in Reports(r, "") :
              LET predicted == Selected(scores, {k \in DOMAIN scores : scores[k].predicted_label})
              IN  /\ Len(predicted) = Len(listed)
                  /\ \A n \in DOMAIN listed :
                       listed[n].pair = predicted[n].pair /\ listed[n].score = predicted[n].score
         /\ \A explanations \in Reports(r, ".explanations.jsonl") :
              /\ DOMAIN explanations = DOMAIN scores
              /\ \A k \in DOMAIN scores :
                   /\ \A column \in DOMAIN scores[k] \ {"score"} :
                        explanations[k][column] = scores[k][column]
                   /\ Near(scores[k].score, <<explanations[k].score, ScoreUnit>>)
         /\ \A manifest \in Reports(r, ".run_manifest.json") :
              /\ manifest.evaluated_pairs = Len(scores)
              /\ LET threshold == manifest.classifier_threshold
                 IN  \A k \in DOMAIN scores :
                       \/ Near(scores[k].score, threshold)
                       \/ scores[k].predicted_label
                            <=> scores[k].score * threshold[2] > threshold[1] * WrittenUnit
         /\ \A metrics \in Reports(r, ".metrics.json") :
              metrics.total_predictions = Len(scores) /\ \A k \in DOMAIN scores : scores[k].label # None
    /\ \A explanations \in Reports(r, ".explanations.jsonl"), manifest \in Reports(r, ".run_manifest.json") :
         LET threshold == manifest.classifier_threshold
         IN  \A k \in DOMAIN explanations :
               explanations[k].predicted_label
                 <=> explanations[k].score * threshold[2] > threshold[1] * ScoreUnit
    /\ \A listed \in Reports(r, ""), metrics \in Reports(r, ".metrics.json") :
         metrics.positive_predictions = Len(listed)

\* What the threshold decides, by the labels of a report.
MatchesLabels(metrics, told) ==
  LET labelled == {k \in DOMAIN told : told[k].label[1]}
      predicted == {k \in DOMAIN told : told[k].predicted_label}
      hits == Cardinality(labelled \cap predicted)
  IN  /\ Equal(metrics.precision, Fraction(hits, Cardinality(predicted)))
      /\ Equal(metrics.recall, Fraction(hits, Cardinality(labelled)))

\* What the order of the scores decides, by the scores of a report.
MatchesRanking(metrics, told) ==
  LET labelled == {k \in DOMAIN told : told[k].label[1]}
      predicted == {k \in DOMAIN told : told[k].predicted_label}
      before(k) ==
        {n \in DOMAIN told :
           \/ told[n].score > told[k].score
           \/ told[n].score = told[k].score /\ n < k}
      head(size) == {k \in DOMAIN told : Cardinality(before(k)) < size}
      first == {k \in labelled : before(k) \cap labelled = {}}
  IN  /\ head(Cardinality(predicted)) = predicted
      /\ \A k \in DOMAIN metrics.ranking_at_k : labelled # {} =>
           LET found == Cardinality(labelled \cap head(k))
           IN  /\ Equal(metrics.ranking_at_k[k].precision[1], Fraction(found, Cardinality(head(k))))
               /\ Equal(metrics.ranking_at_k[k].recall[1], Fraction(found, Cardinality(labelled)))
      /\ (metrics.average_precision = Undefined) <=> (labelled = {})
      /\ \A k \in first :
           /\ Equal(metrics.mean_reciprocal_rank[1], <<1, 1 + Cardinality(before(k))>>)
           /\ Equal(metrics.average_precision[1], <<1, 1>>)
                <=> (head(Cardinality(labelled)) = labelled)
      /\ metrics.roc_auc # Undefined /\ Equal(metrics.roc_auc[1], <<1, 1>>) =>
           head(Cardinality(labelled)) = labelled

(* The metrics of a prediction agree with its reports of single pairs.     *)
(* What follows from the threshold and what follows from the ranking are   *)
(* two views of the same rows, the positive predictions being the head of  *)
(* the ranking.  The ranking is that of the scores the explanations have:  *)
(* the scores report prints some that differ alike.                        *)
MetricsMatchReference ==
  \A r \in Predictions : \A metrics \in Reports(r, ".metrics.json") :
    /\ \A told \in Reports(r, ".scores.csv") \cup Reports(r, ".explanations.jsonl") :
         MatchesLabels(metrics, told)
    /\ \A told \in Reports(r, ".explanations.jsonl") : MatchesRanking(metrics, told)

\* The ports of a service for a protocol, those of any among them.
PortsHeld(service, protocol) ==
  CASE protocol = TCP -> service.ports \o service.tcp_ports
    [] protocol = UDP -> service.ports \o service.udp_ports
    [] OTHER -> service.ports

MapsTo(services, port, protocol, type) ==
  \E n \in DOMAIN services :
    /\ services[n].name = type
    /\ \E k \in DOMAIN PortsHeld(services[n], protocol) :
         InPortBits(PortsHeld(services[n], protocol)[k]) = port

\* The flows of a pair, in its direction, that say something of its service, and those that
\* say it is of a type.
Telling(flows, svc_config, pair) ==
  {f \in DOMAIN flows :
     /\ flows[f].source = pair[1] /\ flows[f].target = pair[2]
     /\ flows[f].dst_port > 0 /\ Port(flows[f]) < svc_config.ephemeral_port_min}
Uses(flows, services, svc_config, pair, type) ==
  {f \in Telling(flows, svc_config, pair) :
     /\ MapsTo(services, Port(flows[f]), Protocol(flows[f]), type)
     /\ ServiceOf(services, flows[f]) = <<type>>}

\* A share of part in a whole number of flows, smoothed as if each service had alpha more.
Smoothed(part, all, alpha) ==
  <<part * alpha[2] + alpha[1], all * alpha[2] + alpha[1] * Len(Classifiable)>>

(* A service that is reported for a predicted dependency is one that the   *)
(* flows of that pair, in its direction, use on ports other than 0 below   *)
(* the ephemeral ones, as the port configuration maps them; no other is    *)
(* used more often, the confidence printed is its smoothed share, which    *)
(* reaches the least one configured.  It is unknown only where there are   *)
(* fewer such flows than configured, where they use no service, or where   *)
(* no service has a share that is enough.                                  *)
ServiceIsLikeliest ==
  mode = "prediction" /\ step \in {"metrics", "manifest", Exit} /\ port_config # None =>
    LET listed == files[File("-o")].body
        svc_config == config.SERVICE_CONFIG
        least == svc_config.min_confidence
        used(pair, type) ==
          Cardinality(Uses(graph[1].flows, port_config[1], svc_config, pair, type))
        mapped(pair) ==
          UNION {Uses(graph[1].flows, port_config[1], svc_config, pair, type) :
                   type \in ToSet(Classifiable)}
        share(pair, type) ==
          Smoothed(used(pair, type), Cardinality(mapped(pair)), svc_config.smoothing_alpha)
        enough(pair, type) == share(pair, type)[1] * least[2] >= least[1] * share(pair, type)[2]
    IN  \A n \in DOMAIN listed :
          LET answer == listed[n].service[1]
              pair == listed[n].pair
          IN  /\ answer.service # UNKNOWN =>
                   /\ used(pair, answer.service) > 0
                   /\ \A type \in ToSet(Classifiable) :
                        used(pair, type) <= used(pair, answer.service)
                   /\ Near(answer.confidence, share(pair, answer.service))
                   /\ enough(pair, answer.service)
                   /\ answer.service \in answer.top_k[1]
              /\ answer.service = UNKNOWN =>
                   \/ Cardinality(Telling(graph[1].flows, svc_config, pair)) < svc_config.min_flows
                   \/ mapped(pair) = {}
                   \/ \A type \in ToSet(Classifiable) : ~enough(pair, type)

(* A command that completes has written what its options ask for and       *)
(* nothing else, exactly one mode being among them: a mode that does not   *)
(* write what an option asks for refuses it.  (A reference that is read is *)
(* not written again, and a path alone asks for no file.)                  *)
Requested(done) ==
  LET path(option) == IF Has(done.args, {option}) THEN done.args.paths[option] ELSE Nothing
      If(condition, option, suffix) == IF condition THEN {<<path(option), suffix>>} ELSE {}
      training == Is(done.args, "-t")
      main == IF training THEN "-c" ELSE "-o"
  IN  If(training, "-c", "") \cup If(training, "-c", ".feature_baselines.json")
      \cup If(~Has(done.args, {"-g"}) /\ Has(done.args, {"-G"}), "-G", "")
      \cup If(Is(done.args, "-p"), "-o", "")
      \cup If(Is(done.args, "-s"), "-o", ".scores.csv")
      \cup If(Is(done.args, "-e"), "-o", ".explanations.jsonl")
      \cup If(Is(done.args, "-p") /\ Has(done.args, {"-g"}), "-o", ".metrics.json")
      \cup If(done.config.WRITE_RUN_MANIFESTS /\ ~Is(done.args, "-x"), main, ".run_manifest.json")
OutputsMatchArguments ==
  mode = "none" /\ run \in DOMAIN finished =>
    /\ Cardinality(finished[run].args.flags \cap ModeOptions) = 1
    /\ {p \in DOMAIN files : files[p].run = run} = Requested(finished[run])

(* The configuration that a run works with and logs is a configuration     *)
(* file for that run: it is accepted when it is read back, combinations    *)
(* included, and is the same again, the number of threads fixed or not,    *)
(* unless the file of the run left some of a nested object to chance.      *)
LoggedConfigurationReloads ==
  mode # "none" /\ step = "startup"
    /\ (Has(args, {"-f"}) => Unnamed(files[File("-f")].body) = {}) =>
      LET unfixed == [config EXCEPT !.NUM_THREADS = None]
      IN  load(value_from_config(config)) = {config} /\ load(value_from_config(unfixed)) = {unfixed}

=============================================================================
