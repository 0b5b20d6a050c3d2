-------------------------- MODULE ApplicationProofs --------------------------
(***************************************************************************)
(* What holds of the files on disk for every session of commands, every    *)
(* input and every point at which a process may stop.  The inductive       *)
(* invariant IInv knows which steps a process may be at (StepInv), that    *)
(* runs are numbered upwards (RunsInv) and what the files of the process   *)
(* that runs say of its step (WrittenInv, BaselineInv, PositivesInv).      *)
(* OInv, in the second part, knows exactly which files those are.  CInv,   *)
(* in the third, knows where a configuration comes from.  In the last,     *)
(* AInv knows which training every classifier and every baseline is of,    *)
(* TInv that every threshold is a fraction, PInv what the reports of the   *)
(* prediction that runs say of its pairs, and ToldInv what is left of      *)
(* those of the predictions before it; SInv knows from what the positives  *)
(* that are listed got their services.                                     *)
(***************************************************************************)
EXTENDS Application, FiniteSetTheorems, SequenceTheorems, TLAPS

TrainingSteps ==
  {"configure", "startup", "ingest", "reference", "train", "manifest", "baseline", "save", Exit}
PredictionSteps ==
  {"configure", "startup", "ingest", "load", "load_baseline", "reference", "predict", "scores",
   "explanations", "services", "positives", "metrics", "manifest", Exit}
GroundTruthSteps == {"configure", "startup", "reference", Exit}

StepInv ==
  /\ mode \in {"none", "training", "prediction", "ground truth"}
  /\ mode = "training" => step \in TrainingSteps
  /\ mode = "prediction" => step \in PredictionSteps
  /\ mode = "ground truth" => step \in GroundTruthSteps

RunsInv ==
  /\ run \in Nat
  /\ \A p \in DOMAIN files : files[p].run \in Nat /\ files[p].run <= run

\* A process that has written a classifier is at its end, one that has written a manifest
\* past that step, and its manifest is complete.
WrittenInv ==
  mode # "none" =>
    \A p \in DOMAIN files : files[p].run = run =>
      /\ files[p].kind = "classifier" => step = Exit
      /\ files[p].kind = "manifest" =>
           /\ files[p].whole
           /\ mode = "training" => step \in {"baseline", "save", Exit}
           /\ mode = "prediction" => step = Exit

OfThisRun(path, kind) ==
  Readable(path, kind) /\ files[path].run = run /\ files[path].whole

BaselineInv == mode = "training" /\ step = "save" => OfThisRun(feature_baseline_path, "baseline")

PositivesInv ==
  mode = "prediction" /\ step \in {"metrics", "manifest"} => OfThisRun(File("-o"), "positives")

ProcessInv == StepInv /\ RunsInv /\ WrittenInv /\ BaselineInv /\ PositivesInv
IInv == ProcessInv /\ ArtifactsInOrder

-----------------------------------------------------------------------------
(* Where a process goes from each of its steps.                             *)
LEMMA Order ==
  ASSUME StepInv, mode # "none", step # Exit
  PROVE  /\ mode = "training" =>
              /\ NextStep \in TrainingSteps
              /\ step \in {"baseline", "save"} => NextStep \in {"save", Exit}
              /\ step = "manifest" => NextStep = "baseline"
              /\ NextStep = "save" => step = "baseline"
              /\ step = "save" => NextStep = Exit
         /\ mode = "prediction" =>
              /\ NextStep \in PredictionSteps
              /\ step = "manifest" => NextStep = Exit
              /\ NextStep \in {"metrics", "manifest"} => step \in {"positives", "metrics"}
         /\ mode = "ground truth" => NextStep \in GroundTruthSteps
<1>1. CASE mode = "training"
  BY <1>1 DEF StepInv, TrainingSteps, NextStep, TrainingOrder, Exit
<1>2. CASE mode = "prediction"
  BY <1>2 DEF StepInv, PredictionSteps, NextStep, PredictionOrder, Exit
<1>3. CASE mode = "ground truth"
  <2>1. NextStep = GroundTruthOrder[step]
    BY <1>3 DEF NextStep
  <2>2. step \in {"configure", "startup", "reference"}
    BY <1>3 DEF StepInv, GroundTruthSteps
  <2>3. NextStep \in {"startup", "reference", Exit}
    <3>1. CASE step = "configure"
      BY <2>1, <3>1 DEF GroundTruthOrder
    <3>2. CASE step = "startup"
      BY <2>1, <3>2 DEF GroundTruthOrder
    <3>3. CASE step = "reference"
      BY <2>1, <3>3 DEF GroundTruthOrder
    <3>. QED BY <2>2, <3>1, <3>2, <3>3
  <2>. QED BY <1>3, <2>3 DEF GroundTruthSteps
<1>. QED BY <1>1, <1>2, <1>3 DEF StepInv

LEMMA SameRun == RunsInv => run >= run
BY DEF RunsInv

(* What is on disk after one file is put there.                             *)
LEMMA PutFile ==
  ASSUME NEW path, NEW content, Put(path, content)
  PROVE  /\ path \in DOMAIN files' /\ files'[path] = content
         /\ \A p \in DOMAIN files' : p = path \/ p \in DOMAIN files
         /\ \A p \in DOMAIN files : p \in DOMAIN files' /\ (p # path => files'[p] = files[p])
BY DEF Put

LEMMA PutElsewhere ==
  ASSUME NEW path, NEW content, Put(path, content), NEW other, other # path
  PROVE  /\ other \in DOMAIN files' <=> other \in DOMAIN files
         /\ other \in DOMAIN files => files'[other] = files[other]
BY PutFile

(* Artifacts are in order at every path, whether it names files or not.     *)
LEMMA Everywhere ==
  ASSUME ArtifactsInOrder, NEW path
  PROVE  ClassifierInOrder(path) /\ PositivesInOrder(path)
<1>1. CASE <<path, "">> \in DOMAIN files
  <2>1. path \in {p[1] : p \in DOMAIN files}
    <3>1. <<path, "">>[1] = path
      OBVIOUS
    <3>. QED BY <1>1, <3>1
  <2>. QED BY <2>1 DEF ArtifactsInOrder
<1>2. CASE <<path, "">> \notin DOMAIN files
  BY <1>2 DEF ClassifierInOrder, PositivesInOrder, There, Readable
<1>. QED BY <1>1, <1>2

(* A step that writes nothing.                                              *)
LEMMA Forward ==
  ASSUME IInv, mode # "none", step \notin {Exit, "baseline", "positives"}, GoOn, UNCHANGED files
  PROVE  IInv'
<1> USE DEF IInv, ProcessInv, GoOn
<1>1. StepInv'
  BY Order DEF StepInv
<1>2. RunsInv'
  BY DEF RunsInv
<1>3. WrittenInv'
  BY Order DEF WrittenInv, StepInv, Exit
<1>4. BaselineInv'
  BY Order DEF BaselineInv
<1>5. PositivesInv'
  BY Order DEF PositivesInv, OfThisRun, Readable, File
<1>6. ArtifactsInOrder'
  BY DEF ArtifactsInOrder, ClassifierInOrder, PositivesInOrder, There, Readable, RunOf, Whole
<1>. QED BY <1>1, <1>2, <1>3, <1>4, <1>5, <1>6

(* A process that ends says nothing of the files that it leaves.            *)
LEMMA Ended ==
  ASSUME End, RunsInv', ArtifactsInOrder'
  PROVE  IInv'
BY DEF End, IInv, ProcessInv, StepInv, WrittenInv, BaselineInv, PositivesInv

(* Runs stay numbered when a process puts a file of its own.                *)
LEMMA PutRuns ==
  ASSUME RunsInv, run' = run, NEW path, NEW kind, NEW body, NEW whole,
         Put(path, Content(kind, body, whole))
  PROVE  RunsInv'
<1>1. Content(kind, body, whole).run = run
  BY DEF Content
<1>. QED BY <1>1, PutFile DEF RunsInv

(* A file that is no artifact of the order leaves it as it was.             *)
LEMMA PutOther ==
  ASSUME ArtifactsInOrder, NEW word, NEW suffix, NEW kind, NEW body, NEW whole,
         Put(<<word, suffix>>, Content(kind, body, whole)),
         \/ suffix \notin {"", ".feature_baselines.json", ".run_manifest.json"}
         \/ suffix = "" /\ kind = "reference"
  PROVE  ArtifactsInOrder'
<1>1. SUFFICES ASSUME NEW path
               PROVE  ClassifierInOrder(path)' /\ PositivesInOrder(path)'
  BY DEF ArtifactsInOrder
<1>2. ClassifierInOrder(path) /\ PositivesInOrder(path)
  BY Everywhere
<1>3. ASSUME NEW s \in {"", ".feature_baselines.json", ".run_manifest.json"},
             NEW k \in {"classifier", "baseline", "manifest", "positives"}
      PROVE  /\ There(path, s, k)' => There(path, s, k) /\ files'[<<path, s>>] = files[<<path, s>>]
             /\ s # "" /\ There(path, s, k) =>
                  There(path, s, k)' /\ files'[<<path, s>>] = files[<<path, s>>]
  <2>1. Content(kind, body, whole).kind = kind
    BY DEF Content
  <2>2. CASE <<path, s>> # <<word, suffix>>
    <3> DEFINE there == <<path, s>>
    <3>1. there # <<word, suffix>>
      BY <2>2
    <3> HIDE DEF there
    <3>2. /\ there \in DOMAIN files' <=> there \in DOMAIN files
          /\ there \in DOMAIN files => files'[there] = files[there]
      BY <3>1, PutFile
    <3>. QED BY <3>2 DEF there, There, Readable
  <2>3. CASE <<path, s>> = <<word, suffix>>
    <3>1. s = suffix
      BY <2>3
    <3>2. s = "" /\ kind = "reference"
      BY <3>1
    <3>. QED BY <2>1, <2>3, <3>2, PutFile DEF There, Readable
  <2>. QED BY <2>2, <2>3
<1>4. ClassifierInOrder(path)'
  BY <1>2, <1>3 DEF ClassifierInOrder, RunOf, Whole
<1>5. PositivesInOrder(path)'
  BY <1>2, <1>3 DEF PositivesInOrder, RunOf, Whole
<1>. QED BY <1>4, <1>5

(* A file put at one path changes the artifacts of no other.                *)
LEMMA OtherPaths ==
  ASSUME ArtifactsInOrder, NEW word, NEW suffix, NEW content, Put(<<word, suffix>>, content),
         NEW path, path # word
  PROVE  ClassifierInOrder(path)' /\ PositivesInOrder(path)'
<1>1. ClassifierInOrder(path) /\ PositivesInOrder(path)
  BY Everywhere
<1>2. ASSUME NEW s
      PROVE  /\ <<path, s>> \in DOMAIN files' <=> <<path, s>> \in DOMAIN files
             /\ <<path, s>> \in DOMAIN files => files'[<<path, s>>] = files[<<path, s>>]
  <2> DEFINE there == <<path, s>>
  <2>1. there # <<word, suffix>>
    OBVIOUS
  <2> HIDE DEF there
  <2>2. /\ there \in DOMAIN files' <=> there \in DOMAIN files
        /\ there \in DOMAIN files => files'[there] = files[there]
    BY <2>1, PutElsewhere
  <2>. QED BY <2>2 DEF there
<1>3. ClassifierInOrder(path)'
  BY <1>1, <1>2 DEF ClassifierInOrder, There, Readable, RunOf, Whole
<1>4. PositivesInOrder(path)'
  BY <1>1, <1>2 DEF PositivesInOrder, There, Readable, RunOf, Whole
<1>. QED BY <1>3, <1>4

(* A manifest, complete or not, before the classifier of its run, or after  *)
(* the predictions of its run.                                              *)
LEMMA PutManifest ==
  ASSUME ProcessInv, ArtifactsInOrder, mode # "none", step = "manifest", NEW word, NEW body, NEW whole,
         body.mode = mode,
         mode = "prediction" => OfThisRun(<<word, "">>, "positives"),
         Put(<<word, ".run_manifest.json">>, Content("manifest", body, whole))
  PROVE  ArtifactsInOrder'
<1> DEFINE manifest == <<word, ".run_manifest.json">>
           baseline == <<word, ".feature_baselines.json">>
           written == <<word, "">>
<1>1. manifest # baseline /\ manifest # written
  OBVIOUS
<1>2. ClassifierInOrder(word)
  BY Everywhere
<1> HIDE DEF manifest, baseline, written
<1>3. Content("manifest", body, whole).run = run /\ Content("manifest", body, whole).body = body
  BY DEF Content
<1>4. /\ manifest \in DOMAIN files' /\ files'[manifest].run = run /\ files'[manifest].body = body
      /\ baseline \in DOMAIN files' <=> baseline \in DOMAIN files
      /\ baseline \in DOMAIN files => files'[baseline] = files[baseline]
      /\ written \in DOMAIN files' <=> written \in DOMAIN files
      /\ written \in DOMAIN files => files'[written] = files[written]
  BY <1>1, <1>3, PutFile, PutElsewhere DEF manifest
<1>5. written \in DOMAIN files /\ files[written].kind = "classifier" => files[written].run # run
  BY DEF ProcessInv, WrittenInv, Exit
<1>6. ClassifierInOrder(word)'
  BY <1>2, <1>4, <1>5 DEF ClassifierInOrder, There, Readable, RunOf, Whole, manifest, baseline, written
<1>7. PositivesInOrder(word)'
  <2>1. CASE mode = "prediction"
    <3>1. written \in DOMAIN files /\ files[written].run = run /\ files[written].whole
      BY <2>1 DEF OfThisRun, Readable, written
    <3>2. run >= run
      BY SameRun DEF ProcessInv
    <3>3. files'[written].run = run /\ files'[written].whole /\ files'[manifest].run = run
      BY <1>4, <3>1
    <3>. QED BY <3>2, <3>3 DEF PositivesInOrder, RunOf, Whole, manifest, written
  <2>2. CASE mode # "prediction"
    BY <1>4, <2>2 DEF PositivesInOrder, manifest
  <2>. QED BY <2>1, <2>2
<1>8. SUFFICES ASSUME NEW path
               PROVE  ClassifierInOrder(path)' /\ PositivesInOrder(path)'
  BY DEF ArtifactsInOrder
<1>. QED BY <1>6, <1>7, OtherPaths

(* A baseline, complete or not, before the classifier of its run.           *)
LEMMA PutBaseline ==
  ASSUME ProcessInv, ArtifactsInOrder, mode # "none", step = "baseline", NEW word, NEW body, NEW whole,
         Put(<<word, ".feature_baselines.json">>, Content("baseline", body, whole))
  PROVE  ArtifactsInOrder'
<1> DEFINE manifest == <<word, ".run_manifest.json">>
           baseline == <<word, ".feature_baselines.json">>
           written == <<word, "">>
<1>1. baseline # manifest /\ baseline # written
  OBVIOUS
<1>2. ClassifierInOrder(word) /\ PositivesInOrder(word)
  BY Everywhere
<1> HIDE DEF manifest, baseline, written
<1>3. /\ Content("baseline", body, whole).run = run
      /\ Content("baseline", body, whole).kind = "baseline"
  BY DEF Content
<1>4. /\ baseline \in DOMAIN files' /\ files'[baseline].run = run /\ files'[baseline].kind = "baseline"
      /\ manifest \in DOMAIN files' <=> manifest \in DOMAIN files
      /\ manifest \in DOMAIN files => files'[manifest] = files[manifest]
      /\ written \in DOMAIN files' <=> written \in DOMAIN files
      /\ written \in DOMAIN files => files'[written] = files[written]
  BY <1>1, <1>3, PutFile, PutElsewhere DEF baseline
<1>5. /\ written \in DOMAIN files /\ files[written].kind = "classifier" => files[written].run # run
      /\ written \in DOMAIN files => files[written].run <= run
  BY DEF ProcessInv, WrittenInv, RunsInv, Exit
<1>6. ClassifierInOrder(word)'
  <2>1. ASSUME written \in DOMAIN files, files[written].kind = "classifier"
        PROVE  run >= files[written].run /\ run # files[written].run
    <3>1. run \in Nat /\ files[written].run \in Nat
      BY <2>1 DEF ProcessInv, RunsInv
    <3>. QED BY <1>5, <2>1, <3>1
  <2>. QED
    BY <1>2, <1>4, <2>1 DEF ClassifierInOrder, There, Readable, RunOf, Whole, manifest, baseline, written
<1>7. PositivesInOrder(word)'
  BY <1>2, <1>4 DEF PositivesInOrder, There, Readable, RunOf, Whole, manifest, written
<1>8. SUFFICES ASSUME NEW path
               PROVE  ClassifierInOrder(path)' /\ PositivesInOrder(path)'
  BY DEF ArtifactsInOrder
<1>. QED BY <1>6, <1>7, OtherPaths

(* A classifier, complete or not, after the baseline of its run.            *)
LEMMA PutClassifier ==
  ASSUME ProcessInv, ArtifactsInOrder, mode = "training", step = "save", NEW word, NEW body, NEW whole,
         OfThisRun(<<word, ".feature_baselines.json">>, "baseline"),
         Put(<<word, "">>, Content("classifier", body, whole))
  PROVE  ArtifactsInOrder'
<1> DEFINE manifest == <<word, ".run_manifest.json">>
           baseline == <<word, ".feature_baselines.json">>
           written == <<word, "">>
<1>1. written # manifest /\ written # baseline
  OBVIOUS
<1> HIDE DEF manifest, baseline, written
<1>2. /\ Content("classifier", body, whole).run = run
      /\ Content("classifier", body, whole).kind = "classifier"
  BY DEF Content
<1>3. /\ written \in DOMAIN files' /\ files'[written].run = run /\ files'[written].kind = "classifier"
      /\ manifest \in DOMAIN files' <=> manifest \in DOMAIN files
      /\ manifest \in DOMAIN files => files'[manifest] = files[manifest]
      /\ baseline \in DOMAIN files' <=> baseline \in DOMAIN files
      /\ baseline \in DOMAIN files => files'[baseline] = files[baseline]
  BY <1>1, <1>2, PutFile, PutElsewhere DEF written
<1>4. ClassifierInOrder(word)'
  <2>1. /\ baseline \in DOMAIN files /\ files[baseline].kind = "baseline"
        /\ files[baseline].run = run /\ files[baseline].whole
    BY DEF OfThisRun, Readable, baseline
  <2>2. ASSUME manifest \in DOMAIN files, files[manifest].kind = "manifest", files[manifest].run = run
        PROVE  files[manifest].whole
    BY <2>2 DEF ProcessInv, WrittenInv
  <2>3. run >= run
    BY SameRun DEF ProcessInv
  <2>4. /\ baseline \in DOMAIN files' /\ files'[baseline].kind = "baseline"
        /\ files'[baseline].run = run /\ files'[baseline].whole
    BY <1>3, <2>1
  <2>5. manifest \in DOMAIN files' /\ files'[manifest].kind = "manifest" /\ files'[manifest].run = run =>
          files'[manifest].whole
    BY <1>3, <2>2
  <2>. QED BY <1>3, <2>3, <2>4, <2>5
           DEF ClassifierInOrder, There, Readable, RunOf, Whole, manifest, baseline, written
<1>5. PositivesInOrder(word)'
  BY <1>3 DEF PositivesInOrder, There, Readable, written
<1>6. SUFFICES ASSUME NEW path
               PROVE  ClassifierInOrder(path)' /\ PositivesInOrder(path)'
  BY DEF ArtifactsInOrder
<1>. QED BY <1>4, <1>5, OtherPaths

(* Predictions, complete or not, before the manifest of their run.          *)
LEMMA PutPositives ==
  ASSUME ProcessInv, ArtifactsInOrder, mode = "prediction", step = "positives",
         NEW word, NEW body, NEW whole,
         Put(<<word, "">>, Content("positives", body, whole))
  PROVE  ArtifactsInOrder'
<1> DEFINE manifest == <<word, ".run_manifest.json">>
           written == <<word, "">>
<1>1. written # manifest
  OBVIOUS
<1> HIDE DEF manifest, written
<1>2. /\ Content("positives", body, whole).run = run
      /\ Content("positives", body, whole).kind = "positives"
  BY DEF Content
<1>3. /\ written \in DOMAIN files' /\ files'[written].run = run /\ files'[written].kind = "positives"
      /\ manifest \in DOMAIN files' <=> manifest \in DOMAIN files
      /\ manifest \in DOMAIN files => files'[manifest] = files[manifest]
  BY <1>1, <1>2, PutFile, PutElsewhere DEF written
<1>4. ClassifierInOrder(word)'
  BY <1>3 DEF ClassifierInOrder, There, Readable, written
<1>5. PositivesInOrder(word)'
  <2>1. ASSUME manifest \in DOMAIN files, files[manifest].kind = "manifest"
        PROVE  run >= files[manifest].run /\ run # files[manifest].run
    <3>1. run \in Nat /\ files[manifest].run \in Nat /\ files[manifest].run <= run
      BY <2>1 DEF ProcessInv, RunsInv
    <3>2. files[manifest].run # run
      BY <2>1 DEF ProcessInv, WrittenInv, Exit
    <3>. QED BY <3>1, <3>2
  <2>. QED BY <1>3, <2>1 DEF PositivesInOrder, There, Readable, RunOf, Whole, manifest, written
<1>6. SUFFICES ASSUME NEW path
               PROVE  ClassifierInOrder(path)' /\ PositivesInOrder(path)'
  BY DEF ArtifactsInOrder
<1>. QED BY <1>4, <1>5, OtherPaths

-----------------------------------------------------------------------------
(* Steps that write.                                                        *)

(* A process that writes a file and goes on, whatever the file.             *)
LEMMA WroteOn ==
  ASSUME ProcessInv, mode # "none", step # Exit, GoOn,
         NEW path, NEW kind, NEW body, NEW whole \in BOOLEAN,
         Put(path, Content(kind, body, whole)),
         kind = "classifier" => mode = "training" /\ step = "save",
         kind = "manifest" => step = "manifest" /\ whole
  PROVE  StepInv' /\ RunsInv' /\ WrittenInv'
<1> DEFINE content == Content(kind, body, whole)
<1>1. StepInv'
  BY Order DEF ProcessInv, StepInv, GoOn
<1>2. RunsInv'
  BY PutRuns DEF ProcessInv, GoOn
<1>3. ASSUME NEW p \in DOMAIN files', files'[p].run = run
      PROVE  /\ files'[p].kind = "classifier" => NextStep = Exit
             /\ files'[p].kind = "manifest" =>
                  /\ files'[p].whole
                  /\ mode = "training" => NextStep \in {"baseline", "save", Exit}
                  /\ mode = "prediction" => NextStep = Exit
  <2>1. CASE p = path
    <3>1. files'[p].kind = kind /\ files'[p].whole = whole
      BY <2>1, PutFile DEF Content
    <3>. QED BY <3>1, Order DEF ProcessInv
  <2>2. CASE p # path
    <3>1. p \in DOMAIN files /\ files'[p] = files[p]
      BY <1>3, <2>2, PutFile
    <3>2. /\ files[p].kind # "classifier"
          /\ files[p].kind = "manifest" =>
               /\ files[p].whole
               /\ mode = "training" => step \in {"baseline", "save"}
               /\ mode # "prediction"
      BY <1>3, <3>1 DEF ProcessInv, WrittenInv
    <3>. QED BY <3>1, <3>2, Order DEF ProcessInv
  <2>. QED BY <2>1, <2>2
<1>4. WrittenInv'
  BY <1>3 DEF WrittenInv, GoOn
<1>. QED BY <1>1, <1>2, <1>4

(* A process that only begins a file, which ends it.                        *)
LEMMA Torn ==
  ASSUME ProcessInv, End, NEW path, NEW kind, NEW body, NEW whole,
         Put(path, Content(kind, body, whole)), ArtifactsInOrder'
  PROVE  IInv'
<1>1. RunsInv'
  BY PutRuns DEF ProcessInv, End
<1>. QED BY <1>1, Ended

LEMMA ManifestWritten ==
  ASSUME IInv, mode # "none", step = "manifest", NEW option, NEW body, body.mode = mode,
         mode = "prediction" => option = "-o",
         Write(Manifest(option), "manifest", body)
  PROVE  IInv'
<1> USE DEF IInv
<1> DEFINE word == args.paths[option]
<1>1. Manifest(option) = <<word, ".run_manifest.json">>
  BY DEF Manifest, Beside
<1>2. mode = "prediction" => OfThisRun(<<word, "">>, "positives")
  BY DEF ProcessInv, PositivesInv, File
<1> HIDE DEF word
<1>3. ASSUME NEW whole, Put(Manifest(option), Content("manifest", body, whole))
      PROVE  ArtifactsInOrder'
  BY <1>1, <1>2, <1>3, PutManifest
<1>4. CASE Put(Manifest(option), Content("manifest", body, TRUE)) /\ GoOn
  <2>1. StepInv' /\ RunsInv' /\ WrittenInv'
    BY <1>4, WroteOn DEF Exit
  <2>2. BaselineInv' /\ PositivesInv'
    BY <1>4, Order DEF GoOn, BaselineInv, PositivesInv, ProcessInv, Exit
  <2>. QED BY <1>3, <1>4, <2>1, <2>2 DEF ProcessInv
<1>5. CASE Put(Manifest(option), Content("manifest", body, FALSE)) /\ End
  BY <1>3, <1>5, Torn
<1>. QED BY <1>4, <1>5 DEF Write

\* Reports and references.
IsOther(suffix, kind) ==
  \/ suffix \in {".scores.csv", ".explanations.jsonl", ".metrics.json"}
       /\ kind \in {"scores", "explanations", "metrics"}
  \/ suffix = "" /\ kind = "reference"

LEMMA OtherWritten ==
  ASSUME IInv, mode # "none", step \in {"reference", "scores", "explanations", "metrics"},
         NEW word, NEW suffix, NEW kind, NEW body, NEW whole \in BOOLEAN,
         IsOther(suffix, kind), step = "metrics" => suffix # "",
         Put(<<word, suffix>>, Content(kind, body, whole)),
         GoOn \/ End
  PROVE  IInv'
<1> USE DEF IInv
<1>0. /\ kind \notin {"classifier", "manifest"}
      /\ \/ suffix \notin {"", ".feature_baselines.json", ".run_manifest.json"}
         \/ suffix = "" /\ kind = "reference"
  BY DEF IsOther
<1>1. ArtifactsInOrder'
  BY <1>0, PutOther
<1>2. CASE GoOn
  <2>1. StepInv' /\ RunsInv' /\ WrittenInv'
    BY <1>0, <1>2, WroteOn DEF Exit
  <2>2. BaselineInv'
    BY <1>2, Order DEF GoOn, BaselineInv, ProcessInv, Exit
  <2>3. PositivesInv'
    <3>1. CASE step = "metrics"
      <4> DEFINE there == <<args.paths["-o"], "">>
      <4>1. there # <<word, suffix>>
        BY <3>1
      <4> HIDE DEF there
      <4>2. /\ there \in DOMAIN files' <=> there \in DOMAIN files
            /\ there \in DOMAIN files => files'[there] = files[there]
        BY <4>1, PutFile
      <4>. QED BY <1>2, <3>1, <4>2 DEF GoOn, PositivesInv, ProcessInv, OfThisRun, Readable, File, there
    <3>2. CASE step # "metrics"
      BY <1>2, <3>2, Order DEF GoOn, PositivesInv, ProcessInv, Exit
    <3>. QED BY <3>1, <3>2
  <2>. QED BY <1>1, <2>1, <2>2, <2>3 DEF ProcessInv
<1>3. CASE End
  BY <1>1, <1>3, Torn
<1>. QED BY <1>2, <1>3

LEMMA BaselineWritten ==
  ASSUME IInv, SaveBaseline
  PROVE  IInv'
<1> USE DEF IInv
<1> DEFINE word == args.paths["-c"]
           body == compute_feature_baseline(run, feature_names)
<1>1. mode # "none" /\ step = "baseline" /\ mode = "training"
  BY DEF SaveBaseline, Running, ProcessInv, StepInv, PredictionSteps, GroundTruthSteps, Exit
<1>2. feature_baseline_path = <<word, ".feature_baselines.json">>
  BY DEF feature_baseline_path, Beside
<1>3. Write(feature_baseline_path, "baseline", body)
  BY DEF SaveBaseline
<1> HIDE DEF word, body
<1>4. ASSUME NEW whole, Put(feature_baseline_path, Content("baseline", body, whole))
      PROVE  ArtifactsInOrder'
  BY <1>1, <1>2, <1>4, PutBaseline
<1>5. CASE Put(feature_baseline_path, Content("baseline", body, TRUE)) /\ GoOn
  <2>1. StepInv' /\ RunsInv' /\ WrittenInv'
    BY <1>1, <1>5, WroteOn DEF Exit
  <2>2. BaselineInv'
    <3>1. feature_baseline_path' = feature_baseline_path /\ run' = run
      BY <1>5 DEF GoOn, feature_baseline_path, Beside
    <3>2. /\ feature_baseline_path \in DOMAIN files'
          /\ files'[feature_baseline_path] = Content("baseline", body, TRUE)
      BY <1>5, PutFile
    <3>3. OfThisRun(feature_baseline_path, "baseline")'
      BY <3>1, <3>2 DEF OfThisRun, Readable, Content
    <3>. QED BY <3>3 DEF BaselineInv
  <2>3. PositivesInv'
    BY <1>1, <1>5 DEF GoOn, PositivesInv
  <2>. QED BY <1>4, <1>5, <2>1, <2>2, <2>3 DEF ProcessInv
<1>6. CASE Put(feature_baseline_path, Content("baseline", body, FALSE)) /\ End
  BY <1>4, <1>6, Torn
<1>. QED BY <1>3, <1>5, <1>6 DEF Write

LEMMA ClassifierWritten ==
  ASSUME IInv, SaveClassifier
  PROVE  IInv'
<1> USE DEF IInv
<1> DEFINE word == args.paths["-c"]
<1>1. mode # "none" /\ step = "save" /\ mode = "training"
  BY DEF SaveClassifier, Running, ProcessInv, StepInv, PredictionSteps, GroundTruthSteps, Exit
<1>2. File("-c") = <<word, "">> /\ feature_baseline_path = <<word, ".feature_baselines.json">>
  BY DEF File, feature_baseline_path, Beside
<1>3. OfThisRun(feature_baseline_path, "baseline")
  BY <1>1 DEF ProcessInv, BaselineInv
<1>4. PICK whole \in BOOLEAN :
        Put(File("-c"), Content("classifier", m_classifier[1], whole)) /\ (GoOn \/ End)
  BY DEF SaveClassifier, Write
<1> HIDE DEF word
<1>5. ArtifactsInOrder'
  BY <1>1, <1>2, <1>3, <1>4, PutClassifier
<1>6. CASE GoOn
  <2>1. StepInv' /\ RunsInv' /\ WrittenInv'
    BY <1>1, <1>4, <1>6, WroteOn DEF Exit
  <2>2. BaselineInv' /\ PositivesInv'
    BY <1>1, <1>6, Order DEF GoOn, BaselineInv, PositivesInv, ProcessInv, Exit
  <2>. QED BY <1>5, <2>1, <2>2 DEF ProcessInv
<1>7. CASE End
  BY <1>4, <1>5, <1>7, Torn
<1>. QED BY <1>4, <1>6, <1>7

LEMMA PositivesWritten ==
  ASSUME IInv, WritePositives
  PROVE  IInv'
<1> USE DEF IInv
<1> DEFINE word == args.paths["-o"]
<1>1. mode # "none" /\ step = "positives" /\ mode = "prediction"
  BY DEF WritePositives, Running, ProcessInv, StepInv, TrainingSteps, GroundTruthSteps, Exit
<1>2. File("-o") = <<word, "">>
  BY DEF File
<1>3. PICK body : \/ Put(File("-o"), Content("positives", body, TRUE)) /\ GoOn
                  \/ Put(File("-o"), Content("positives", body, FALSE)) /\ End
  BY DEF WritePositives
<1> HIDE DEF word
<1>4. ASSUME NEW whole, Put(File("-o"), Content("positives", body, whole))
      PROVE  ArtifactsInOrder'
  BY <1>1, <1>2, <1>4, PutPositives
<1>5. CASE Put(File("-o"), Content("positives", body, TRUE)) /\ GoOn
  <2>1. StepInv' /\ RunsInv' /\ WrittenInv'
    BY <1>1, <1>5, WroteOn DEF Exit
  <2>2. BaselineInv'
    BY <1>1, <1>5 DEF GoOn, BaselineInv
  <2>3. PositivesInv'
    <3>1. File("-o")' = File("-o") /\ run' = run
      BY <1>5 DEF GoOn, File
    <3>2. File("-o") \in DOMAIN files' /\ files'[File("-o")] = Content("positives", body, TRUE)
      BY <1>5, PutFile
    <3>3. OfThisRun(File("-o"), "positives")'
      BY <3>1, <3>2 DEF OfThisRun, Readable, Content
    <3>. QED BY <3>3 DEF PositivesInv
  <2>. QED BY <1>4, <1>5, <2>1, <2>2, <2>3 DEF ProcessInv
<1>6. CASE Put(File("-o"), Content("positives", body, FALSE)) /\ End
  BY <1>4, <1>6, Torn
<1>. QED BY <1>3, <1>5, <1>6

-----------------------------------------------------------------------------
(* Every step of a process.                                                 *)

LEMMA Initially == Init => IInv
<1> SUFFICES ASSUME Init PROVE IInv
  OBVIOUS
<1>1. RunsInv
  BY InitialFilesAssumption DEF Init, RunsInv
<1>2. ArtifactsInOrder
  BY InitialFilesAssumption
     DEF Init, ArtifactsInOrder, ClassifierInOrder, PositivesInOrder, There, Readable
<1>. QED BY <1>1, <1>2 DEF Init, IInv, ProcessInv, StepInv, WrittenInv, BaselineInv, PositivesInv

\* What the invariant speaks of.
observed == <<run, mode, step, args, files>>

LEMMA Unobserved ==
  ASSUME IInv, UNCHANGED observed
  PROVE  IInv'
BY DEF observed, IInv, ProcessInv, StepInv, RunsInv, WrittenInv, BaselineInv, PositivesInv, OfThisRun,
       feature_baseline_path, File, Beside, ArtifactsInOrder, ClassifierInOrder, PositivesInOrder,
       There, Readable, RunOf, Whole

LEMMA Started ==
  ASSUME IInv, Start
  PROVE  IInv'
<1> USE DEF IInv, ProcessInv
<1>1. /\ mode' \in {"training", "prediction", "ground truth"} /\ step' = "configure"
      /\ run' = run + 1 /\ files' = files
  BY DEF Start, Commanded
<1>2. StepInv'
  BY <1>1 DEF StepInv, TrainingSteps, PredictionSteps, GroundTruthSteps
<1>0. run' = run + 1 /\ files' = files
  BY <1>1
<1>3. RunsInv'
  BY <1>0 DEF RunsInv
<1>4. \A p \in DOMAIN files' : files'[p].run # run'
  BY <1>0 DEF RunsInv
<1>5. WrittenInv' /\ BaselineInv' /\ PositivesInv'
  BY <1>1, <1>4 DEF WrittenInv, BaselineInv, PositivesInv
<1>6. ArtifactsInOrder'
  BY <1>1 DEF ArtifactsInOrder, ClassifierInOrder, PositivesInOrder, There, Readable, RunOf, Whole
<1>. QED BY <1>2, <1>3, <1>5, <1>6

LEMMA Configured ==
  ASSUME IInv, Configure
  PROVE  IInv'
<1> USE DEF IInv, ProcessInv
<1>1. /\ mode # "none" /\ step = "configure" /\ step' = "startup"
      /\ run' = run /\ mode' = mode /\ files' = files
  BY DEF Configure, Running
<1>2. StepInv'
  BY <1>1 DEF StepInv, TrainingSteps, PredictionSteps, GroundTruthSteps
<1>3. RunsInv' /\ BaselineInv' /\ PositivesInv'
  BY <1>1 DEF RunsInv, BaselineInv, PositivesInv
<1>4. WrittenInv'
  BY <1>1 DEF WrittenInv, StepInv, Exit
<1>5. ArtifactsInOrder'
  BY <1>1 DEF ArtifactsInOrder, ClassifierInOrder, PositivesInOrder, There, Readable, RunOf, Whole
<1>. QED BY <1>2, <1>3, <1>4, <1>5

LEMMA Gone ==
  ASSUME IInv, End, files' = files
  PROVE  IInv'
<1>1. RunsInv'
  BY DEF End, IInv, ProcessInv, RunsInv
<1>2. ArtifactsInOrder'
  BY DEF IInv, ArtifactsInOrder, ClassifierInOrder, PositivesInOrder, There, Readable, RunOf, Whole
<1>. QED BY <1>1, <1>2, Ended

LEMMA Step == IInv /\ [Next]_vars => IInv'
<1> SUFFICES ASSUME IInv, [Next]_vars PROVE IInv'
  OBVIOUS
<1>1. CASE UNCHANGED vars
  BY <1>1, Unobserved DEF vars, process, observed
<1>2. CASE Decline
  BY <1>2, Unobserved DEF Decline, process, observed
<1>3. CASE Start
  BY <1>3, Started
<1>4. CASE Configure
  BY <1>4, Configured
<1>5. CASE CommonStartup
  BY <1>5, Forward DEF CommonStartup, Running, Exit
<1>6. CASE Ingest
  BY <1>6, Forward DEF Ingest, Running, Exit
<1>7. CASE LoadReference
  BY <1>7, Forward DEF LoadReference, Running, Exit
<1>8. CASE CalculateReference
  BY <1>8, Forward DEF CalculateReference, Calculates, Running, Exit
<1>9. CASE CalculateAndSaveReference
  <2>1. mode # "none" /\ step = "reference"
    BY <1>9 DEF CalculateAndSaveReference, Calculates, Running
  <2>2. PICK word, body : \E whole \in BOOLEAN :
          Put(<<word, "">>, Content("reference", body, whole)) /\ (GoOn \/ End)
    BY <1>9 DEF CalculateAndSaveReference, File
  <2>3. /\ step \in {"reference", "scores", "explanations", "metrics"} /\ step # "metrics"
        /\ IsOther("", "reference")
    BY <2>1 DEF IsOther
  <2>. QED BY <2>1, <2>2, <2>3, OtherWritten, Zenon
<1>10. CASE TrainClassifier
  BY <1>10, Forward DEF TrainClassifier, Running, Exit
<1>11. CASE WriteTrainingManifest
  <2>1. mode # "none" /\ step = "manifest" /\ mode = "training"
    BY <1>11 DEF WriteTrainingManifest, Running
  <2>2. PICK body : body.mode = mode /\ Write(Manifest("-c"), "manifest", body)
    BY <1>11 DEF WriteTrainingManifest, RunManifest, write_run_manifest
  <2>. QED BY <2>1, <2>2, ManifestWritten
<1>12. CASE SaveBaseline
  BY <1>12, BaselineWritten
<1>13. CASE SaveClassifier
  BY <1>13, ClassifierWritten
<1>14. CASE LoadClassifier
  BY <1>14, Forward DEF LoadClassifier, Running, Exit
<1>15. CASE LoadBaseline
  BY <1>15, Forward DEF LoadBaseline, Running, Exit
<1>16. CASE Predict
  BY <1>16, Forward DEF Predict, Running, Exit
<1>17. CASE WriteScores
  <2>1. mode # "none" /\ step = "scores"
    BY <1>17 DEF WriteScores, Running
  <2>2. PICK body : Write(<<args.paths["-o"], ".scores.csv">>, "scores", body)
    BY <1>17 DEF WriteScores, Beside
  <2>3. PICK word, whole :
          /\ whole \in BOOLEAN
          /\ Put(<<word, ".scores.csv">>, Content("scores", body, whole)) /\ (GoOn \/ End)
    BY <2>2 DEF Write
  <2>4. /\ step \in {"reference", "scores", "explanations", "metrics"}
        /\ ".scores.csv" # "" /\ IsOther(".scores.csv", "scores")
    BY <2>1 DEF IsOther
  <2>. QED BY <2>1, <2>3, <2>4, OtherWritten, Zenon
<1>18. CASE WriteExplanations
  <2>1. mode # "none" /\ step = "explanations"
    BY <1>18 DEF WriteExplanations, Running
  <2>2. PICK body : Write(<<args.paths["-o"], ".explanations.jsonl">>, "explanations", body)
    BY <1>18 DEF WriteExplanations, Beside
  <2>3. PICK word, whole :
          /\ whole \in BOOLEAN
          /\ Put(<<word, ".explanations.jsonl">>, Content("explanations", body, whole)) /\ (GoOn \/ End)
    BY <2>2 DEF Write
  <2>4. /\ step \in {"reference", "scores", "explanations", "metrics"}
        /\ ".explanations.jsonl" # "" /\ IsOther(".explanations.jsonl", "explanations")
    BY <2>1 DEF IsOther
  <2>. QED BY <2>1, <2>3, <2>4, OtherWritten, Zenon
<1>19. CASE LoadServices
  BY <1>19, Forward DEF LoadServices, Running, Exit
<1>20. CASE WritePositives
  BY <1>20, PositivesWritten
<1>21. CASE WriteMetrics
  <2>1. mode # "none" /\ step = "metrics"
    BY <1>21 DEF WriteMetrics, Running
  <2>2. PICK body : Write(<<args.paths["-o"], ".metrics.json">>, "metrics", body)
    BY <1>21 DEF WriteMetrics, Beside
  <2>3. PICK word, whole :
          /\ whole \in BOOLEAN
          /\ Put(<<word, ".metrics.json">>, Content("metrics", body, whole)) /\ (GoOn \/ End)
    BY <2>2 DEF Write
  <2>4. /\ step \in {"reference", "scores", "explanations", "metrics"}
        /\ ".metrics.json" # "" /\ IsOther(".metrics.json", "metrics")
    BY <2>1 DEF IsOther
  <2>. QED BY <2>1, <2>3, <2>4, OtherWritten, Zenon
<1>22. CASE WritePredictionManifest
  <2>1. mode # "none" /\ step = "manifest"
    BY <1>22 DEF WritePredictionManifest, Running
  <2>2. PICK body : body.mode = mode /\ Write(Manifest("-o"), "manifest", body)
    BY <1>22 DEF WritePredictionManifest, RunManifest, write_run_manifest
  <2>. QED BY <2>1, <2>2, ManifestWritten
<1>23. CASE PassOver
  BY <1>23, Forward DEF PassOver, Optional, Exit
<1>24. CASE Finish
  BY <1>24, Gone DEF Finish
<1>25. CASE Stop
  BY <1>25, Gone DEF Stop
<1>. QED
  BY <1>1, <1>2, <1>3, <1>4, <1>5, <1>6, <1>7, <1>8, <1>9, <1>10, <1>11, <1>12, <1>13, <1>14,
     <1>15, <1>16, <1>17, <1>18, <1>19, <1>20, <1>21, <1>22, <1>23, <1>24, <1>25 DEF Next

(* Whatever the commands and wherever the processes stop, the artifacts of  *)
(* a path are of runs in the order in which a run writes them, and what a   *)
(* later file of a run vouches for is complete.                             *)
THEOREM ArtifactsStayInOrder == Spec => []ArtifactsInOrder
<1>1. IInv => ArtifactsInOrder
  BY DEF IInv
<1>. QED BY <1>1, Initially, Step, PTL DEF Spec

-----------------------------------------------------------------------------
(* The files of a run and what it was asked for.  OutputsInv says which     *)
(* files of the run there are at each of its steps; it needs the arguments  *)
(* that a mode accepts (ArgumentsInv), that labels are there just if a      *)
(* reference is given (LabelsInv), and that no run completes twice.         *)

Own(p) == p \in DOMAIN files /\ files[p].run = run

ArgumentsInv ==
  /\ mode = "training" =>
       /\ args.flags \cap ModeOptions = {"-t"} /\ Has(args, {"-c", "-d"})
       /\ ~Is(args, "-s") /\ ~Is(args, "-e")
  /\ mode = "prediction" =>
       /\ args.flags \cap ModeOptions = {"-p"} /\ Has(args, {"-c", "-d", "-o"}) /\ Lacks(args, {"-G"})
  /\ mode = "ground truth" =>
       /\ args.flags \cap ModeOptions = {"-x"} /\ Has(args, {"-d", "-G"})
       /\ Lacks(args, {"-c", "-o", "-g", "-i"})
       /\ ~Is(args, "-s") /\ ~Is(args, "-e")

WrittenByTraining(p) ==
  \/ /\ step \in {"train", "manifest", "baseline", "save", Exit}
     /\ ~Has(args, {"-g"}) /\ Has(args, {"-G"}) /\ p = File("-G")
  \/ step \in {"baseline", "save", Exit} /\ config.WRITE_RUN_MANIFESTS /\ p = Manifest("-c")
  \/ step \in {"save", Exit} /\ p = feature_baseline_path
  \/ step = Exit /\ p = File("-c")

WrittenByPrediction(p) ==
  \/ /\ step \in {"explanations", "services", "positives", "metrics", "manifest", Exit}
     /\ Is(args, "-s") /\ p = Beside("-o", ".scores.csv")
  \/ /\ step \in {"services", "positives", "metrics", "manifest", Exit}
     /\ Is(args, "-e") /\ p = Beside("-o", ".explanations.jsonl")
  \/ step \in {"metrics", "manifest", Exit} /\ p = File("-o")
  \/ step \in {"manifest", Exit} /\ Has(args, {"-g"}) /\ p = Beside("-o", ".metrics.json")
  \/ step = Exit /\ config.WRITE_RUN_MANIFESTS /\ p = Manifest("-o")

OutputsInv ==
  /\ mode = "training" => \A p : Own(p) <=> WrittenByTraining(p)
  /\ mode = "prediction" => \A p : Own(p) <=> WrittenByPrediction(p)
  /\ mode = "ground truth" => \A p : Own(p) <=> step = Exit /\ p = File("-G")

LabelsInv ==
  /\ mode = "none" => m_dependencies = None
  /\ mode = "prediction" =>
       /\ step \in {"configure", "startup", "ingest", "load", "load_baseline", "reference"} =>
            m_dependencies = None
       /\ step = "predict" => (m_dependencies # None <=> Has(args, {"-g"}))
       /\ step \in {"scores", "explanations", "services", "positives", "metrics"} =>
            (rows.labels # None <=> Has(args, {"-g"}))

FinishedInv == \A r \in DOMAIN finished : r \in Nat /\ r <= run /\ (mode # "none" => r # run)

OInv == ArgumentsInv /\ OutputsInv /\ LabelsInv /\ FinishedInv /\ OutputsMatchArguments

(* Where each step leads.                                                   *)
LEMMA TrainingSequence ==
  ASSUME mode = "training"
  PROVE  /\ step = "startup" => NextStep = "ingest"
         /\ step = "ingest" => NextStep = "reference"
         /\ step = "reference" => NextStep = "train"
         /\ step = "train" => NextStep = "manifest"
         /\ step = "manifest" => NextStep = "baseline"
         /\ step = "baseline" => NextStep = "save"
         /\ step = "save" => NextStep = Exit
BY DEF NextStep, TrainingOrder, Exit

LEMMA PredictionSequence ==
  ASSUME mode = "prediction"
  PROVE  /\ step = "startup" => NextStep = "ingest"
         /\ step = "ingest" => NextStep = "load"
         /\ step = "load" => NextStep = "load_baseline"
         /\ step = "load_baseline" => NextStep = "reference"
         /\ step = "reference" => NextStep = "predict"
         /\ step = "predict" => NextStep = "scores"
         /\ step = "scores" => NextStep = "explanations"
         /\ step = "explanations" => NextStep = "services"
         /\ step = "services" => NextStep = "positives"
         /\ step = "positives" => NextStep = "metrics"
         /\ step = "metrics" => NextStep = "manifest"
         /\ step = "manifest" => NextStep = Exit
BY DEF NextStep, PredictionOrder, Exit

LEMMA GroundTruthSequence ==
  ASSUME mode = "ground truth"
  PROVE  /\ step = "startup" => NextStep = "reference"
         /\ step = "reference" => NextStep = Exit
<1>1. NextStep = GroundTruthOrder[step]
  BY DEF NextStep
<1>2. GroundTruthOrder["startup"] = "reference" /\ GroundTruthOrder["reference"] = Exit
  BY DEF GroundTruthOrder
<1>. QED BY <1>1, <1>2

(* A step that has nothing to write.                                        *)
Quiet ==
  \/ step \in {"startup", "ingest", "train", "load", "load_baseline", "predict", "services"}
  \/ step = "reference" /\ mode # "ground truth" /\ (Has(args, {"-g"}) \/ ~Has(args, {"-G"}))
  \/ step = "manifest" /\ ~config.WRITE_RUN_MANIFESTS
  \/ step = "scores" /\ ~Is(args, "-s")
  \/ step = "explanations" /\ ~Is(args, "-e")
  \/ step = "metrics" /\ ~Has(args, {"-g"})

LEMMA NothingWritten ==
  ASSUME StepInv, OutputsInv, mode # "none", Quiet, GoOn, UNCHANGED files
  PROVE  OutputsInv'
<1>1. /\ mode' = mode /\ args' = args /\ config' = config /\ run' = run /\ step' = NextStep
      /\ \A p : Own(p)' <=> Own(p)
  BY DEF GoOn, Own
<1>2. \A o, s : Beside(o, s)' = Beside(o, s) /\ File(o)' = File(o) /\ Manifest(o)' = Manifest(o)
  BY <1>1 DEF Beside, File, Manifest
<1>3. feature_baseline_path' = feature_baseline_path
  BY <1>1 DEF Beside, feature_baseline_path
<1>4. CASE mode = "training"
  <2>1. \A p : WrittenByTraining(p)' <=> WrittenByTraining(p)
    BY <1>1, <1>2, <1>3, <1>4, TrainingSequence
       DEF WrittenByTraining, Quiet, StepInv, TrainingSteps, Exit
  <2>. QED BY <1>1, <1>4, <2>1 DEF OutputsInv
<1>5. CASE mode = "prediction"
  <2>1. \A p : WrittenByPrediction(p)' <=> WrittenByPrediction(p)
    BY <1>1, <1>2, <1>5, PredictionSequence
       DEF WrittenByPrediction, Quiet, StepInv, PredictionSteps, Exit
  <2>. QED BY <1>1, <1>5, <2>1 DEF OutputsInv
<1>6. CASE mode = "ground truth"
  <2>1. step # Exit /\ step' # Exit
    BY <1>1, <1>6, GroundTruthSequence DEF Quiet, StepInv, GroundTruthSteps, Exit
  <2>. QED BY <1>1, <1>6, <2>1 DEF OutputsInv
<1>. QED BY <1>4, <1>5, <1>6 DEF StepInv

(* A step that writes its file, path, to the end or not.                    *)
Writes(path) ==
  \/ step = "reference" /\ mode # "prediction" /\ ~Has(args, {"-g"}) /\ Has(args, {"-G"}) /\ path = File("-G")
  \/ mode = "training" /\ step = "manifest" /\ config.WRITE_RUN_MANIFESTS /\ path = Manifest("-c")
  \/ mode = "training" /\ step = "baseline" /\ path = feature_baseline_path
  \/ mode = "training" /\ step = "save" /\ path = File("-c")
  \/ mode = "prediction" /\ step = "scores" /\ Is(args, "-s") /\ path = Beside("-o", ".scores.csv")
  \/ /\ mode = "prediction" /\ step = "explanations"
     /\ Is(args, "-e") /\ path = Beside("-o", ".explanations.jsonl")
  \/ mode = "prediction" /\ step = "positives" /\ path = File("-o")
  \/ mode = "prediction" /\ step = "metrics" /\ Has(args, {"-g"}) /\ path = Beside("-o", ".metrics.json")
  \/ mode = "prediction" /\ step = "manifest" /\ config.WRITE_RUN_MANIFESTS /\ path = Manifest("-o")

LEMMA FileWritten ==
  ASSUME StepInv, OutputsInv, mode # "none", GoOn, NEW path, Writes(path),
         NEW kind, NEW body, NEW whole, Put(path, Content(kind, body, whole))
  PROVE  OutputsInv'
<1>1. /\ mode' = mode /\ args' = args /\ config' = config /\ run' = run /\ step' = NextStep
  BY DEF GoOn
<1>2. Content(kind, body, whole).run = run
  BY DEF Content
<1>3. \A p : Own(p)' <=> Own(p) \/ p = path
  BY <1>1, <1>2, PutFile DEF Own
<1>4. \A o, s : Beside(o, s)' = Beside(o, s) /\ File(o)' = File(o) /\ Manifest(o)' = Manifest(o)
  BY <1>1 DEF Beside, File, Manifest
<1>5. feature_baseline_path' = feature_baseline_path
  BY <1>1 DEF Beside, feature_baseline_path
<1>6. CASE mode = "training"
  <2>1. \A p : WrittenByTraining(p)' <=> WrittenByTraining(p) \/ p = path
    BY <1>1, <1>4, <1>5, <1>6, TrainingSequence DEF WrittenByTraining, Writes, Exit
  <2>. QED BY <1>1, <1>3, <1>6, <2>1 DEF OutputsInv
<1>7. CASE mode = "prediction"
  <2>1. \A p : WrittenByPrediction(p)' <=> WrittenByPrediction(p) \/ p = path
    BY <1>1, <1>4, <1>7, PredictionSequence DEF WrittenByPrediction, Writes, Exit
  <2>. QED BY <1>1, <1>3, <1>7, <2>1 DEF OutputsInv
<1>8. CASE mode = "ground truth"
  <2>1. step # Exit /\ step' = Exit /\ path = File("-G")
    BY <1>1, <1>8, GroundTruthSequence DEF Writes, Exit
  <2>. QED BY <1>1, <1>3, <1>4, <1>8, <2>1 DEF OutputsInv
<1>. QED BY <1>6, <1>7, <1>8 DEF StepInv

(* A step on which the labels do not depend.                                *)
LEMMA LabelsKept ==
  ASSUME StepInv, LabelsInv, mode # "none", step \notin {"predict", "configure", Exit}, GoOn,
         UNCHANGED <<m_dependencies, rows>>,
         mode = "prediction" /\ step = "reference" => ~Has(args, {"-g"})
  PROVE  LabelsInv'
<1>1. mode' = mode /\ args' = args /\ step' = NextStep
  BY DEF GoOn
<1>2. CASE mode = "prediction"
  BY <1>1, <1>2, PredictionSequence DEF LabelsInv, StepInv, PredictionSteps, Exit
<1>3. CASE mode # "prediction"
  BY <1>1, <1>3 DEF LabelsInv
<1>. QED BY <1>2, <1>3

(* What goes on for as long as a process does, and what its end leaves.     *)
LEMMA GoesOn ==
  ASSUME OInv, mode # "none", GoOn, OutputsInv', LabelsInv'
  PROVE  OInv'
<1>1. ArgumentsInv'
  BY DEF OInv, ArgumentsInv, GoOn
<1>2. FinishedInv'
  BY DEF OInv, FinishedInv, GoOn
<1>3. OutputsMatchArguments'
  BY DEF OutputsMatchArguments, GoOn
<1>. QED BY <1>1, <1>2, <1>3 DEF OInv

LEMMA Breaks ==
  ASSUME OInv, mode # "none", End, UNCHANGED finished
  PROVE  OInv'
<1>1. mode' = "none" /\ run' = run /\ finished' = finished /\ m_dependencies' = None
  BY DEF End
<1>2. run' \notin DOMAIN finished'
  BY <1>1 DEF OInv, FinishedInv
<1>3. ArgumentsInv' /\ OutputsInv' /\ LabelsInv'
  BY <1>1 DEF ArgumentsInv, OutputsInv, LabelsInv
<1>4. FinishedInv'
  BY <1>1 DEF OInv, FinishedInv
<1>5. OutputsMatchArguments'
  BY <1>2 DEF OutputsMatchArguments
<1>. QED BY <1>3, <1>4, <1>5 DEF OInv

(* A process starts with nothing written and no labels.                     *)
LEMMA OutputsStart ==
  ASSUME IInv, OInv, Start
  PROVE  OInv'
<1>1. /\ mode = "none" /\ mode' = Main(args') /\ mode' \in {"training", "prediction", "ground truth"}
      /\ step' = "configure" /\ run' = run + 1 /\ files' = files /\ finished' = finished
      /\ m_dependencies' = m_dependencies
  BY DEF Start, Commanded, memory
<1>2. ArgumentsInv'
  <2>1. CASE mode' = "training"
    <3>1. validate_args(args') /\ Is(args', "-t")
      BY <1>1, <2>1 DEF Main
    <3>2. check_training_mode(args')
      BY <3>1 DEF validate_args
    <3>. QED BY <2>1, <3>1, <3>2 DEF ArgumentsInv, check_training_mode, Is, ModeOptions
  <2>2. CASE mode' = "prediction"
    <3>1. validate_args(args') /\ ~Is(args', "-t") /\ Is(args', "-p")
      BY <1>1, <2>2 DEF Main
    <3>2. check_prediction_mode(args')
      BY <3>1 DEF validate_args
    <3>. QED BY <2>2, <3>1, <3>2 DEF ArgumentsInv, check_prediction_mode, Is, ModeOptions
  <2>3. CASE mode' = "ground truth"
    <3>1. validate_args(args') /\ ~Is(args', "-t") /\ ~Is(args', "-p")
      BY <1>1, <2>3 DEF Main
    <3>2. check_ground_truth_mode(args') /\ Is(args', "-x")
      BY <3>1 DEF validate_args
    <3>. QED BY <2>3, <3>1, <3>2 DEF ArgumentsInv, check_ground_truth_mode, Is, ModeOptions
  <2>. QED BY <1>1, <2>1, <2>2, <2>3
<1>3. OutputsInv'
  <2>1. \A p : ~Own(p)'
    <3>1. run' = run + 1 /\ files' = files
      BY <1>1
    <3>2. run \in Nat /\ \A p \in DOMAIN files : files[p].run \in Nat /\ files[p].run <= run
      BY DEF IInv, ProcessInv, RunsInv
    <3>3. \A p \in DOMAIN files : files[p].run # run + 1
      BY <3>2
    <3>. QED BY <3>1, <3>3 DEF Own
  <2>2. step' # Exit /\ \A p : ~WrittenByTraining(p)' /\ ~WrittenByPrediction(p)'
    BY <1>1 DEF WrittenByTraining, WrittenByPrediction, Exit
  <2>. QED BY <2>1, <2>2 DEF OutputsInv
<1>4. LabelsInv'
  BY <1>1 DEF OInv, LabelsInv
<1>5. FinishedInv'
  <2>1. run' = run + 1 /\ finished' = finished
    BY <1>1
  <2>2. run \in Nat /\ \A r \in DOMAIN finished : r \in Nat /\ r <= run
    BY DEF IInv, ProcessInv, RunsInv, OInv, FinishedInv
  <2>. QED BY <2>1, <2>2 DEF FinishedInv
<1>6. OutputsMatchArguments'
  BY <1>1 DEF OutputsMatchArguments
<1>. QED BY <1>2, <1>3, <1>4, <1>5, <1>6 DEF OInv

LEMMA OutputsConfigure ==
  ASSUME IInv, OInv, Configure
  PROVE  OInv'
<1>1. /\ mode # "none" /\ step = "configure" /\ step' = "startup" /\ mode' = mode /\ args' = args
      /\ run' = run /\ files' = files /\ finished' = finished /\ m_dependencies' = m_dependencies
  BY DEF Configure, Running, memory
<1>2. \A p : Own(p)' <=> Own(p)
  BY <1>1 DEF Own
<1>3. \A p : /\ ~WrittenByTraining(p) /\ ~WrittenByTraining(p)'
             /\ ~WrittenByPrediction(p) /\ ~WrittenByPrediction(p)'
  BY <1>1 DEF WrittenByTraining, WrittenByPrediction, Exit
<1>4. OutputsInv'
  BY <1>1, <1>2, <1>3 DEF OInv, OutputsInv, Exit
<1>5. ArgumentsInv' /\ LabelsInv' /\ FinishedInv' /\ OutputsMatchArguments'
  BY <1>1 DEF OInv, ArgumentsInv, LabelsInv, FinishedInv, OutputsMatchArguments
<1>. QED BY <1>4, <1>5 DEF OInv

(* A process that completes has written what it was asked for.              *)
LEMMA OutputsFinish ==
  ASSUME IInv, OInv, Finish
  PROVE  OInv'
<1> DEFINE done == [mode |-> mode, args |-> args, config |-> config, classifier |-> m_classifier]
<1>1. /\ mode # "none" /\ step = Exit /\ mode' = "none" /\ run' = run /\ files' = files
      /\ m_dependencies' = None
      /\ finished' = [r \in DOMAIN finished \cup {run} |-> IF r = run THEN done ELSE finished[r]]
  BY DEF Finish, End, Running
<1>2. /\ DOMAIN finished' = DOMAIN finished \cup {run} /\ finished'[run] = done
  BY <1>1
<1>3. done.args = args /\ done.config = config
  OBVIOUS
<1> HIDE DEF done
<1>4. {p \in DOMAIN files : files[p].run = run} = Requested(done)
  <2>1. SUFFICES ASSUME NEW p
                 PROVE  Own(p) <=> p \in Requested(done)
    <3>1. {p \in DOMAIN files : files[p].run = run} \subseteq Requested(done)
      BY <2>1 DEF Own
    <3>2. Requested(done) \subseteq {p \in DOMAIN files : files[p].run = run}
      BY <2>1 DEF Own
    <3>. QED BY <3>1, <3>2
  <2>2. CASE mode = "training"
    <3>1. Is(args, "-t") /\ ~Is(args, "-p") /\ ~Is(args, "-x") /\ ~Is(args, "-s") /\ ~Is(args, "-e")
      BY <2>2 DEF OInv, ArgumentsInv, Is, ModeOptions
    <3>2. Own(p) <=> WrittenByTraining(p)
      BY <2>2 DEF OInv, OutputsInv
    <3>3. Has(args, {"-c"})
      BY <2>2 DEF OInv, ArgumentsInv, Has
    <3>. QED BY <1>1, <1>3, <3>1, <3>2, <3>3
             DEF WrittenByTraining, Requested, File, Beside, Manifest, feature_baseline_path
  <2>3. CASE mode = "prediction"
    <3>1. ~Is(args, "-t") /\ Is(args, "-p") /\ ~Is(args, "-x")
      BY <2>3 DEF OInv, ArgumentsInv, Is, ModeOptions
    <3>2. Own(p) <=> WrittenByPrediction(p)
      BY <2>3 DEF OInv, OutputsInv
    <3>3. Has(args, {"-o"}) /\ ~Has(args, {"-G"})
      BY <2>3 DEF OInv, ArgumentsInv, Has, Lacks
    <3>. QED BY <1>1, <1>3, <3>1, <3>2, <3>3
             DEF WrittenByPrediction, Requested, File, Beside, Manifest
  <2>4. CASE mode = "ground truth"
    <3>0. args.flags \cap ModeOptions = {"-x"} /\ ~Is(args, "-s") /\ ~Is(args, "-e")
      BY <2>4 DEF OInv, ArgumentsInv
    <3>1. ~Is(args, "-t") /\ ~Is(args, "-p") /\ Is(args, "-x")
      BY <3>0 DEF Is, ModeOptions
    <3>2. Own(p) <=> p = File("-G")
      BY <1>1, <2>4 DEF OInv, OutputsInv
    <3>3. ~Has(args, {"-g"}) /\ Has(args, {"-G"})
      BY <2>4 DEF OInv, ArgumentsInv, Has, Lacks
    <3>. QED BY <1>1, <1>3, <3>0, <3>1, <3>2, <3>3 DEF Requested, File
  <2>. QED BY <1>1, <2>2, <2>3, <2>4 DEF IInv, ProcessInv, StepInv
<1>5. Cardinality(args.flags \cap ModeOptions) = 1
  BY <1>1, FS_Singleton DEF OInv, ArgumentsInv, IInv, ProcessInv, StepInv
<1>6. finished'[run'] = done /\ {p \in DOMAIN files' : files'[p].run = run'} = Requested(done)
  BY <1>1, <1>2, <1>4
<1>7. OutputsMatchArguments'
  BY <1>3, <1>5, <1>6, Zenon DEF OutputsMatchArguments
<1>8. ArgumentsInv' /\ OutputsInv' /\ LabelsInv'
  BY <1>1 DEF ArgumentsInv, OutputsInv, LabelsInv
<1>9. FinishedInv'
  BY <1>1, <1>2 DEF OInv, FinishedInv, IInv, ProcessInv, RunsInv
<1>. QED BY <1>7, <1>8, <1>9 DEF OInv

LEMMA OutputsInitially == Init => OInv
BY DEF Init, OInv, ArgumentsInv, OutputsInv, LabelsInv, FinishedInv, OutputsMatchArguments

LEMMA OutputsStep == IInv /\ OInv /\ [Next]_vars => OInv'
<1> SUFFICES ASSUME IInv, OInv, [Next]_vars PROVE OInv'
  OBVIOUS
<1> DEFINE unchanged == <<run, mode, step, args, config, m_dependencies, rows, files, finished>>
<1>0. StepInv /\ OutputsInv /\ LabelsInv /\ ArgumentsInv
  BY DEF IInv, ProcessInv, OInv
<1>1. ASSUME UNCHANGED unchanged
      PROVE  OInv'
  <2>1. \A p : Own(p)' <=> Own(p)
    BY <1>1 DEF Own
  <2>2. OutputsInv'
    BY <1>1, <2>1 DEF OInv, OutputsInv, WrittenByTraining, WrittenByPrediction, File, Beside, Manifest,
                      feature_baseline_path
  <2>3. ArgumentsInv' /\ LabelsInv' /\ FinishedInv' /\ OutputsMatchArguments'
    BY <1>1 DEF OInv, ArgumentsInv, LabelsInv, FinishedInv, OutputsMatchArguments
  <2>. QED BY <2>2, <2>3 DEF OInv
\* A step that only reads, or works.
<1>2. ASSUME step \in {"startup", "ingest", "train", "load", "load_baseline", "services"}, mode # "none",
             GoOn, files' = files, m_dependencies' = m_dependencies, rows' = rows
      PROVE  OInv'
  BY <1>0, <1>2, NothingWritten, LabelsKept, GoesOn DEF Quiet, Exit
\* A step that writes a file.
<1>3. ASSUME NEW path, Writes(path), mode # "none", NEW kind, NEW body, NEW whole,
             Put(path, Content(kind, body, whole)), GoOn, m_dependencies' = m_dependencies, rows' = rows
      PROVE  OInv'
  <2>1. step \notin {"predict", "configure", Exit} /\ (mode = "prediction" => step # "reference")
    BY <1>3 DEF Writes, Exit
  <2>2. OutputsInv'
    BY <1>0, <1>3, FileWritten
  <2>3. LabelsInv'
    BY <1>0, <1>3, <2>1, LabelsKept
  <2>. QED BY <1>3, <2>2, <2>3, GoesOn
<1>4. ASSUME NEW path, Writes(path), mode # "none", NEW kind, NEW body, Write(path, kind, body)
      PROVE  OInv'
  <2>1. CASE Put(path, Content(kind, body, TRUE)) /\ GoOn /\ UNCHANGED memory
    BY <1>3, <1>4, <2>1 DEF memory
  <2>2. CASE End /\ UNCHANGED finished
    BY <1>4, <2>2, Breaks
  <2>. QED BY <1>4, <2>1, <2>2 DEF Write
<1>5. CASE UNCHANGED vars
  BY <1>1, <1>5 DEF vars, process, memory
<1>6. CASE Decline
  BY <1>1, <1>6 DEF Decline, process, memory
<1>7. CASE Start
  BY <1>7, OutputsStart
<1>8. CASE Configure
  BY <1>8, OutputsConfigure
<1>9. CASE CommonStartup
  BY <1>2, <1>9 DEF CommonStartup, Running, memory
<1>10. CASE Ingest
  BY <1>2, <1>10 DEF Ingest, Running
<1>11. CASE LoadReference
  <2>1. /\ mode # "none" /\ step = "reference" /\ Has(args, {"-g"}) /\ GoOn /\ files' = files
        /\ m_dependencies' # None
    BY <1>11 DEF LoadReference, Running, Some, None
  <2>2. mode # "ground truth"
    BY <1>0, <2>1 DEF ArgumentsInv, Has, Lacks
  <2>3. OutputsInv'
    BY <1>0, <2>1, <2>2, NothingWritten DEF Quiet
  <2>4. LabelsInv'
    BY <2>1, PredictionSequence DEF GoOn, LabelsInv
  <2>. QED BY <2>1, <2>3, <2>4, GoesOn
<1>12. CASE CalculateReference
  <2>1. /\ mode # "none" /\ mode # "prediction" /\ step = "reference" /\ ~Has(args, {"-g"})
        /\ ~Has(args, {"-G"}) /\ GoOn /\ files' = files
    BY <1>12 DEF CalculateReference, Calculates, Running, Wanted, Optional
  <2>2. mode # "ground truth"
    BY <1>0, <2>1 DEF ArgumentsInv, Has
  <2>3. OutputsInv'
    BY <1>0, <2>1, <2>2, NothingWritten DEF Quiet
  <2>4. LabelsInv'
    BY <2>1 DEF GoOn, LabelsInv
  <2>. QED BY <2>1, <2>3, <2>4, GoesOn
<1>13. CASE CalculateAndSaveReference
  <2>1. /\ mode # "none" /\ mode # "prediction" /\ step = "reference" /\ ~Has(args, {"-g"})
        /\ Has(args, {"-G"})
    BY <1>13 DEF CalculateAndSaveReference, Calculates, Running, Wanted, Optional
  <2>2. CASE End /\ UNCHANGED finished
    BY <2>1, <2>2, Breaks
  <2>3. ASSUME NEW whole, Put(File("-G"), Content("reference", Calculated, whole)), GoOn
        PROVE  OInv'
    <3>1. Writes(File("-G"))
      BY <2>1 DEF Writes
    <3>2. OutputsInv'
      BY <1>0, <2>1, <2>3, <3>1, FileWritten
    <3>3. LabelsInv'
      BY <2>1, <2>3 DEF GoOn, LabelsInv
    <3>. QED BY <2>1, <2>3, <3>2, <3>3, GoesOn
  <2>. QED BY <1>13, <2>2, <2>3 DEF CalculateAndSaveReference
<1>14. CASE TrainClassifier
  BY <1>2, <1>14 DEF TrainClassifier, Running
<1>15. CASE WriteTrainingManifest
  <2>1. Writes(Manifest("-c")) /\ mode # "none"
    BY <1>15 DEF WriteTrainingManifest, Running, Optional, Wanted, Writes
  <2>. QED BY <1>4, <1>15, <2>1 DEF WriteTrainingManifest
<1>16. CASE SaveBaseline
  <2>1. Writes(feature_baseline_path) /\ mode # "none"
    BY <1>0, <1>16 DEF SaveBaseline, Running, Writes, StepInv, PredictionSteps, GroundTruthSteps, Exit
  <2>. QED BY <1>4, <1>16, <2>1 DEF SaveBaseline
<1>17. CASE SaveClassifier
  <2>1. Writes(File("-c")) /\ mode # "none"
    BY <1>0, <1>17 DEF SaveClassifier, Running, Writes, StepInv, PredictionSteps, GroundTruthSteps, Exit
  <2>2. CASE Write(File("-c"), "classifier", m_classifier[1])
    BY <1>4, <2>1, <2>2
  <2>3. CASE Put(File("-c"), Content("classifier", m_classifier[1], FALSE)) /\ GoOn /\ UNCHANGED memory
    BY <1>3, <2>1, <2>3 DEF memory
  <2>. QED BY <1>17, <2>2, <2>3 DEF SaveClassifier
<1>18. CASE LoadClassifier
  BY <1>2, <1>18 DEF LoadClassifier, Running
<1>19. CASE LoadBaseline
  BY <1>2, <1>19 DEF LoadBaseline, Running
<1>20. CASE Predict
  <2>1. /\ mode # "none" /\ step = "predict" /\ GoOn /\ files' = files
        /\ m_dependencies' = m_dependencies
        /\ rows'.labels # None <=> m_dependencies # None
    BY <1>20 DEF Predict, Running, Some, None
  <2>2. OutputsInv'
    BY <1>0, <2>1, NothingWritten DEF Quiet
  <2>3. LabelsInv'
    BY <1>0, <2>1, PredictionSequence DEF GoOn, LabelsInv
  <2>. QED BY <2>1, <2>2, <2>3, GoesOn
<1>21. CASE WriteScores
  <2>1. Writes(Beside("-o", ".scores.csv")) /\ mode # "none"
    BY <1>0, <1>21
       DEF WriteScores, Running, Optional, Wanted, Writes, StepInv, TrainingSteps, GroundTruthSteps, Exit
  <2>. QED BY <1>4, <1>21, <2>1 DEF WriteScores
<1>22. CASE WriteExplanations
  <2>1. Writes(Beside("-o", ".explanations.jsonl")) /\ mode # "none"
    BY <1>0, <1>22
       DEF WriteExplanations, Running, Optional, Wanted, Writes, StepInv, TrainingSteps, GroundTruthSteps, Exit
  <2>. QED BY <1>4, <1>22, <2>1 DEF WriteExplanations
<1>23. CASE LoadServices
  BY <1>2, <1>23 DEF LoadServices, Running
<1>24. CASE WritePositives
  <2>1. Writes(File("-o")) /\ mode # "none"
    BY <1>0, <1>24 DEF WritePositives, Running, Writes, StepInv, TrainingSteps, GroundTruthSteps, Exit
  <2>2. PICK body :
          \/ /\ Put(File("-o"), Content("positives", body, TRUE)) /\ GoOn
             /\ m_dependencies' = m_dependencies /\ rows' = rows
          \/ End /\ UNCHANGED finished
    BY <1>24 DEF WritePositives
  <2>. QED BY <1>3, <2>1, <2>2, Breaks
<1>25. CASE WriteMetrics
  <2>1. Writes(Beside("-o", ".metrics.json")) /\ mode # "none"
    BY <1>0, <1>25
       DEF WriteMetrics, Running, Optional, Wanted, Writes, LabelsInv, StepInv, TrainingSteps,
           GroundTruthSteps, Exit
  <2>. QED BY <1>4, <1>25, <2>1 DEF WriteMetrics
<1>26. CASE WritePredictionManifest
  <2>1. Writes(Manifest("-o")) /\ mode # "none"
    BY <1>26 DEF WritePredictionManifest, Running, Optional, Wanted, Writes
  <2>. QED BY <1>4, <1>26, <2>1 DEF WritePredictionManifest
<1>27. CASE PassOver
  <2>1. /\ mode # "none" /\ step \in Optional /\ ~Wanted /\ GoOn /\ files' = files
        /\ m_dependencies' = m_dependencies /\ rows' = rows
    BY <1>27 DEF PassOver, memory
  <2>2. step = "reference" => mode = "prediction" /\ ~Has(args, {"-g"})
    BY <2>1 DEF Wanted
  <2>3. step = "metrics" => ~Has(args, {"-g"})
    BY <1>0, <2>1 DEF Wanted, LabelsInv, StepInv, TrainingSteps, GroundTruthSteps, Exit
  <2>4. Quiet
    <3>1. CASE step = "reference"
      BY <1>0, <2>2, <3>1 DEF Quiet, ArgumentsInv, Lacks, Has
    <3>2. CASE step # "reference"
      BY <2>1, <2>3, <3>2 DEF Quiet, Optional, Wanted
    <3>. QED BY <3>1, <3>2
  <2>5. OutputsInv'
    BY <1>0, <2>1, <2>4, NothingWritten
  <2>6. LabelsInv'
    BY <1>0, <2>1, <2>2, LabelsKept DEF Optional, Exit
  <2>. QED BY <2>1, <2>5, <2>6, GoesOn
<1>28. CASE Finish
  BY <1>28, OutputsFinish
<1>29. CASE Stop
  BY <1>29, Breaks DEF Stop
<1>. QED
  BY <1>5, <1>6, <1>7, <1>8, <1>9, <1>10, <1>11, <1>12, <1>13, <1>14, <1>15, <1>16, <1>17, <1>18,
     <1>19, <1>20, <1>21, <1>22, <1>23, <1>24, <1>25, <1>26, <1>27, <1>28, <1>29 DEF Next

(* Whatever the commands, the inputs and the configurations: a run that     *)
(* completes has written the files its options ask for and no others, an    *)
(* accepted command line naming exactly one mode.                           *)
THEOREM OutputsAreRequested == Spec => []OutputsMatchArguments
<1>1. OInv => OutputsMatchArguments
  BY DEF OInv
<1>. QED BY <1>1, Initially, Step, OutputsInitially, OutputsStep, PTL DEF Spec

-----------------------------------------------------------------------------
(* A configuration as text and back.                                        *)

\* A value that a file may give to the parameter, and that is the same when it is read back.
Good(p, value) == Accepts(p, value_from(p, value)) /\ Extracted(p, value_from(p, value)) = value

(* An accepted scalar has the kind that its type is written as.             *)
LEMMA SameKind ==
  ASSUME NEW type, NEW json, is_type(type, json)
  PROVE  json[1] = Kind(type) /\ is_type(type, <<Kind(type), json[2]>>)
<1> DEFINE again == <<Kind(type), json[2]>>
<1>1. again[1] = Kind(type) /\ again[2] = json[2]
  OBVIOUS
<1> HIDE DEF again
<1>2. json[1] = Kind(type)
  BY DEF is_type
<1>3. is_type(type, again)
  <2>1. type \in {"size_t", "uint32", "uint16"} => json[2] >= 0
    BY DEF is_type
  <2>2. type = "uint16" => json[2] <= 65535
    BY DEF is_type
  <2>. QED BY <1>1, <2>1, <2>2 DEF is_type
<1>. QED BY <1>2, <1>3 DEF again

LEMMA SameCheck ==
  ASSUME NEW validator, NEW json, NEW kind, json[1] = kind, validate(validator, json)
  PROVE  validate(validator, <<kind, json[2]>>)
<1>1. Sign(<<kind, json[2]>>) = Sign(json)
  BY DEF Sign
<1>2. <<kind, json[2]>>[2] = json[2]
  OBVIOUS
<1>. QED BY <1>1, <1>2 DEF validate

(* Whatever is read is good.                                                *)
LEMMA ReadIsGood ==
  ASSUME NEW p, NEW json, Json(json), Accepts(p, json), IsVector(p) => ~p.optional,
         p.optional \in BOOLEAN
  PROVE  Good(p, Extracted(p, json))
<1>1. CASE IsVector(p)
  <2> DEFINE element == ElementType(p)
             values == [n \in DOMAIN json[2] |-> json[2][n][2]]
             written == [n \in DOMAIN values |-> <<Kind(element), values[n]>>]
  <2>1. /\ json[1] = "array" /\ json[2] # << >> /\ json[2] \in Seq(ToSet(json[2]))
        /\ \A n \in DOMAIN json[2] : is_type(element, json[2][n]) /\ validate(p.validator, json[2][n])
    BY <1>1 DEF Accepts, Json
  <2>2. Extracted(p, json) = values
    BY <1>1 DEF Extracted
  <2>3. value_from(p, values) = <<"array", written>>
    BY <1>1 DEF value_from
  <2>4. ASSUME NEW n \in DOMAIN written
        PROVE  is_type(element, written[n]) /\ validate(p.validator, written[n])
    <3>1. n \in DOMAIN json[2] /\ written[n] = <<Kind(element), json[2][n][2]>>
      OBVIOUS
    <3>. QED BY <2>1, <3>1, SameKind, SameCheck
  <2>5. written # << >>
    <3>1. DOMAIN json[2] # {}
      BY <2>1
    <3>2. DOMAIN written = DOMAIN json[2]
      OBVIOUS
    <3>3. DOMAIN << >> = {}
      OBVIOUS
    <3>. QED BY <3>1, <3>2, <3>3
  <2>6. [n \in DOMAIN written |-> written[n][2]] = values
    OBVIOUS
  <2> HIDE DEF element, values, written
  <2>7. Accepts(p, <<"array", written>>)
    <3>1. <<"array", written>>[1] = "array" /\ <<"array", written>>[2] = written
      OBVIOUS
    <3>. QED BY <1>1, <2>4, <2>5, <3>1 DEF Accepts, element
  <2>8. Extracted(p, <<"array", written>>) = values
    <3>1. <<"array", written>>[2] = written
      OBVIOUS
    <3>. QED BY <1>1, <2>6, <3>1 DEF Extracted
  <2>. QED BY <2>2, <2>3, <2>7, <2>8 DEF Good
<1>2. CASE ~IsVector(p) /\ p.optional /\ json[1] = "null"
  BY <1>2 DEF Good, Accepts, Extracted, value_from, None
<1>3. CASE ~IsVector(p) /\ ~(p.optional /\ json[1] = "null")
  <2> DEFINE again == <<Kind(p.type), json[2]>>
  <2>1. is_type(p.type, json) /\ validate(p.validator, json)
    BY <1>3 DEF Accepts
  <2>2. json[1] = Kind(p.type) /\ is_type(p.type, again) /\ validate(p.validator, again)
    BY <2>1, SameKind, SameCheck
  <2>3. again[1] = json[1] /\ again[2] = json[2]
    BY <2>2
  <2> HIDE DEF again
  <2>4. CASE p.optional
    <3>1. Extracted(p, json) = Some(json[2]) /\ value_from(p, Some(json[2])) = again
      BY <1>3, <2>4 DEF Extracted, value_from, Some, None, again
    <3>2. Extracted(p, again) = Some(json[2])
      BY <1>3, <2>3, <2>4 DEF Extracted
    <3>. QED BY <1>3, <2>2, <3>1, <3>2 DEF Good, Accepts
  <2>5. CASE ~p.optional
    <3>1. Extracted(p, json) = json[2] /\ value_from(p, json[2]) = again
      BY <1>3, <2>5 DEF Extracted, value_from, again
    <3>2. Extracted(p, again) = json[2]
      BY <1>3, <2>3, <2>5 DEF Extracted
    <3>. QED BY <1>3, <2>2, <3>1, <3>2 DEF Good, Accepts
  <2>. QED BY <2>4, <2>5
<1>. QED BY <1>1, <1>2, <1>3

\* A parameter that is a vector is not optional, and its default is as good as a value from a file.
Sound(p) == p.optional \in BOOLEAN /\ (IsVector(p) => ~p.optional) /\ Good(p, p.default)

Plain(type) == type \notin {"size_t vector", "double vector"}

LEMMA PlainParameter ==
  ASSUME NEW type, NEW validator, NEW default, Plain(type),
         is_type(type, <<Kind(type), default>>), validate(validator, <<Kind(type), default>>)
  PROVE  Sound(Parameter(type, validator, default))
<1> DEFINE p == Parameter(type, validator, default)
<1>1. p.type = type /\ p.validator = validator /\ p.default = default /\ p.optional = FALSE
  BY DEF Parameter
<1>2. ~IsVector(p)
  BY <1>1 DEF IsVector, Plain
<1> HIDE DEF p
<1>3. value_from(p, default) = <<Kind(type), default>>
  BY <1>1, <1>2 DEF value_from
<1>4. Accepts(p, <<Kind(type), default>>)
  BY <1>1, <1>2 DEF Accepts
<1>5. Extracted(p, <<Kind(type), default>>) = default
  BY <1>1, <1>2 DEF Extracted
<1>. QED BY <1>1, <1>2, <1>3, <1>4, <1>5 DEF Sound, Good, p

LEMMA AbsentParameter ==
  ASSUME NEW type, NEW validator, Plain(type)
  PROVE  Sound(OptionalParameter(type, validator))
<1> DEFINE p == OptionalParameter(type, validator)
<1>1. p.type = type /\ p.default = None /\ p.optional = TRUE
  BY DEF OptionalParameter
<1>2. ~IsVector(p)
  BY <1>1 DEF IsVector, Plain
<1> HIDE DEF p
<1>3. value_from(p, None) = <<"null", 0>>
  BY <1>1, <1>2 DEF value_from
<1>4. Accepts(p, <<"null", 0>>) /\ Extracted(p, <<"null", 0>>) = None
  BY <1>1, <1>2 DEF Accepts, Extracted
<1>. QED BY <1>1, <1>2, <1>3, <1>4 DEF Sound, Good, p

LEMMA NumberParameter ==
  ASSUME NEW n \in Nat
  PROVE  /\ n > 0 => /\ Sound(Parameter("int", "is_positive", n))
                     /\ Sound(Parameter("size_t", "is_positive", n))
                     /\ n <= 65535 => Sound(Parameter("uint16", "is_positive", n))
         /\ Sound(Parameter("int", "is_non_negative", n))
         /\ Sound(Parameter("size_t", "is_non_negative", n))
         /\ Sound(Parameter("uint32", "always_true", n))
<1> DEFINE json == <<"int", n>>
<1>1. json[1] = "int" /\ json[2] = n
  OBVIOUS
<1> HIDE DEF json
<1>2. Sign(json) = n
  BY <1>1 DEF Sign
<1>3. /\ is_type("int", json) /\ is_type("size_t", json) /\ is_type("uint32", json)
      /\ n <= 65535 => is_type("uint16", json)
  BY <1>1 DEF is_type, Kind
<1>4. /\ validate("always_true", json) /\ validate("is_non_negative", json)
      /\ n > 0 => validate("is_positive", json)
  BY <1>2 DEF validate
<1>5. \A type \in {"int", "size_t", "uint32", "uint16"} : Plain(type) /\ json = <<Kind(type), n>>
  BY DEF Plain, Kind, json
<1>. QED BY <1>3, <1>4, <1>5, PlainParameter

LEMMA FractionParameter ==
  ASSUME NEW n \in Nat, NEW d \in Nat
  PROVE  /\ Sound(Parameter("double", "is_non_negative", <<n, d>>))
         /\ n <= d => Sound(Parameter("double", "is_unit_interval", <<n, d>>))
         /\ n > 0 /\ n < d => Sound(Parameter("double", "is_open_unit_interval", <<n, d>>))
<1> DEFINE json == <<"double", <<n, d>>>>
<1>1. json[1] = "double" /\ json[2] = <<n, d>> /\ json[2][1] = n /\ json[2][2] = d
  OBVIOUS
<1>2. json = <<Kind("double"), <<n, d>>>> /\ Plain("double")
  BY DEF Kind, Plain
<1> HIDE DEF json
<1>3. Sign(json) = n
  BY <1>1 DEF Sign
<1>4. is_type("double", json)
  BY <1>1 DEF is_type, Kind
<1>5. /\ validate("is_non_negative", json)
      /\ n <= d => validate("is_unit_interval", json)
      /\ n > 0 /\ n < d => validate("is_open_unit_interval", json)
  BY <1>1, <1>3 DEF validate
<1>. QED BY <1>2, <1>4, <1>5, PlainParameter

LEMMA FreeParameter ==
  ASSUME NEW value
  PROVE  /\ Sound(Parameter("bool", "always_true", value))
         /\ Sound(Parameter("string", "always_true", value))
         /\ value \in {"accuracy", "f1", "precision", "recall"} =>
              Sound(Parameter("string", "is_metric", value))
<1>1. /\ Plain("bool") /\ Kind("bool") = "bool" /\ Plain("string") /\ Kind("string") = "string"
  BY DEF Plain, Kind
<1>2. /\ <<"bool", value>>[1] = "bool"
      /\ <<"string", value>>[1] = "string" /\ <<"string", value>>[2] = value
  OBVIOUS
<1>3. is_type("bool", <<"bool", value>>) /\ is_type("string", <<"string", value>>)
  BY <1>1, <1>2 DEF is_type
<1>4. /\ validate("always_true", <<"bool", value>>) /\ validate("always_true", <<"string", value>>)
      /\ value \in {"accuracy", "f1", "precision", "recall"} => validate("is_metric", <<"string", value>>)
  BY <1>2 DEF validate
<1>. QED BY <1>1, <1>3, <1>4, PlainParameter

(* Three values of a vector.                                                *)
LEMMA VectorParameter ==
  ASSUME NEW a, NEW b, NEW c, NEW type \in {"size_t", "double"}, NEW validator,
         \A value \in {a, b, c} :
           is_type(type, <<Kind(type), value>>) /\ validate(validator, <<Kind(type), value>>)
  PROVE  Sound(Parameter(IF type = "size_t" THEN "size_t vector" ELSE "double vector",
                         validator, <<a, b, c>>))
<1> DEFINE vector == IF type = "size_t" THEN "size_t vector" ELSE "double vector"
           values == <<a, b, c>>
           p == Parameter(vector, validator, values)
           written == [n \in DOMAIN values |-> <<Kind(type), values[n]>>]
           json == <<"array", written>>
<1>1. p.type = vector /\ p.validator = validator /\ p.default = values /\ p.optional = FALSE
  BY DEF Parameter
<1>2. IsVector(p) /\ ElementType(p) = type
  BY <1>1 DEF IsVector, ElementType
<1>3. json[1] = "array" /\ json[2] = written
  OBVIOUS
<1>4. /\ DOMAIN written = 1..3
      /\ \A n \in DOMAIN written : written[n] = <<Kind(type), values[n]>> /\ values[n] \in {a, b, c}
  OBVIOUS
<1>5. written # << >>
  BY <1>4
<1>6. [n \in DOMAIN written |-> written[n][2]] = values
  OBVIOUS
<1> HIDE DEF p, json, written
<1>7. value_from(p, values) = json
  BY <1>1, <1>2 DEF value_from, json, written
<1> HIDE DEF values
<1>8. Accepts(p, json)
  BY <1>1, <1>2, <1>3, <1>4, <1>5 DEF Accepts
<1>9. Extracted(p, json) = values
  BY <1>1, <1>2, <1>3, <1>6 DEF Extracted
<1>. QED BY <1>1, <1>7, <1>8, <1>9 DEF Sound, Good, p, vector, values

SoundSchema(schema) == \A key \in DOMAIN schema : Sound(schema[key])

LEMMA Joins ==
  ASSUME NEW f, NEW g
  PROVE  /\ DOMAIN Joined(f, g) = DOMAIN f \cup DOMAIN g
         /\ \A x \in DOMAIN f : Joined(f, g)[x] = f[x]
         /\ \A x \in DOMAIN g : x \notin DOMAIN f => Joined(f, g)[x] = g[x]
BY DEF Joined

LEMMA JoinedSchemas ==
  ASSUME NEW f, NEW g, SoundSchema(f), SoundSchema(g)
  PROVE  SoundSchema(Joined(f, g))
BY DEF SoundSchema, Joined

\* The parameters of ConfigSchema that are not alike.
Others ==
  [NUM_NEGATIVE_SAMPLES |-> Parameter("int", "is_non_negative", 1),
   SEED |-> Parameter("uint32", "always_true", 123),
   NUM_THREADS |-> OptionalParameter("int", "is_positive"),
   LEARNING_RATE |-> Parameter("double", "is_unit_interval", <<1, 100>>),
   CLASSIFIER_THRESHOLD |-> OptionalParameter("double", "is_unit_interval"),
   METRIC_TO_OPTIMIZE |-> Parameter("string", "is_metric", "f1")]

LEMMA OthersSound == SoundSchema(Others)
<1>1. /\ Sound(Parameter("int", "is_non_negative", 1)) /\ Sound(Parameter("uint32", "always_true", 123))
  BY NumberParameter
<1>2. /\ Sound(OptionalParameter("int", "is_positive"))
      /\ Sound(OptionalParameter("double", "is_unit_interval"))
  BY AbsentParameter DEF Plain
<1>3. Sound(Parameter("double", "is_unit_interval", <<1, 100>>))
  BY FractionParameter
<1>4. Sound(Parameter("string", "is_metric", "f1"))
  BY FreeParameter
<1>. QED BY <1>1, <1>2, <1>3, <1>4 DEF SoundSchema, Others

LEMMA ConfigSound == SoundSchema(ConfigSchema)
<1>1. ASSUME NEW key \in DOMAIN Sizes
      PROVE  Sound(Each("int", "is_positive", Sizes)[key])
  <2>1. Sizes[key] \in Nat /\ Sizes[key] > 0
    BY DEF Sizes
  <2>2. Each("int", "is_positive", Sizes)[key] = Parameter("int", "is_positive", Sizes[key])
    BY DEF Each
  <2>. QED BY <2>1, <2>2, NumberParameter
<1>2. ASSUME NEW key \in DOMAIN Switches
      PROVE  Sound(Each("bool", "always_true", Switches)[key])
  <2>1. Each("bool", "always_true", Switches)[key] = Parameter("bool", "always_true", Switches[key])
    BY DEF Each
  <2>. QED BY <2>1, FreeParameter
<1>3. /\ SoundSchema(Each("int", "is_positive", Sizes))
      /\ SoundSchema(Each("bool", "always_true", Switches))
  BY <1>1, <1>2 DEF SoundSchema, Each
<1>. QED BY <1>3, OthersSound, JoinedSchemas DEF ConfigSchema, Others

LEMMA ForestSound == SoundSchema(RandomForestSchema)
<1>1. /\ Sound(Parameter("size_t", "is_positive", 200)) /\ Sound(Parameter("size_t", "is_positive", 5))
      /\ Sound(Parameter("size_t", "is_non_negative", 0))
  BY NumberParameter
<1>2. Sound(Parameter("double", "is_non_negative", <<1, 10000000>>))
  BY FractionParameter
<1>. QED BY <1>1, <1>2 DEF SoundSchema, RandomForestSchema

LEMMA GridSound == SoundSchema(GridSearchSchema)
<1>1. ASSUME NEW n \in Nat
      PROVE  /\ is_type("size_t", <<"int", n>>) /\ validate("is_non_negative", <<"int", n>>)
             /\ n > 0 => validate("is_positive", <<"int", n>>)
  <2>1. <<"int", n>>[1] = "int" /\ <<"int", n>>[2] = n
    OBVIOUS
  <2>2. Sign(<<"int", n>>) = n
    BY <2>1 DEF Sign
  <2>. QED BY <2>1, <2>2 DEF is_type, validate, Kind
<1>2. ASSUME NEW n \in Nat, NEW d \in Nat
      PROVE  /\ is_type("double", <<"double", <<n, d>>>>)
             /\ validate("is_non_negative", <<"double", <<n, d>>>>)
  <2>1. <<"double", <<n, d>>>>[1] = "double" /\ <<"double", <<n, d>>>>[2][1] = n
    OBVIOUS
  <2>2. Sign(<<"double", <<n, d>>>>) = n
    BY <2>1 DEF Sign
  <2>. QED BY <2>1, <2>2 DEF is_type, validate, Kind
<1>3. Kind("size_t") = "int" /\ Kind("double") = "double"
  BY DEF Kind
<1>4. ASSUME NEW vector, vector \in Nat \X Nat \X Nat
      PROVE  /\ Sound(Parameter("size_t vector", "is_non_negative", vector))
             /\ vector[1] > 0 /\ vector[2] > 0 /\ vector[3] > 0 =>
                  Sound(Parameter("size_t vector", "is_positive", vector))
  <2>1. PICK a \in Nat, b \in Nat, c \in Nat : vector = <<a, b, c>>
    BY <1>4
  <2>2. \A value \in {a, b, c} :
          /\ is_type("size_t", <<Kind("size_t"), value>>)
          /\ validate("is_non_negative", <<Kind("size_t"), value>>)
          /\ value > 0 => validate("is_positive", <<Kind("size_t"), value>>)
    BY <1>1, <1>3
  <2>3. Sound(Parameter("size_t vector", "is_non_negative", <<a, b, c>>))
    BY <2>2, VectorParameter
  <2>4. a > 0 /\ b > 0 /\ c > 0 => Sound(Parameter("size_t vector", "is_positive", <<a, b, c>>))
    BY <2>2, VectorParameter
  <2>. QED BY <2>1, <2>3, <2>4
<1>5. ASSUME NEW vector, vector \in (Nat \X Nat) \X (Nat \X Nat) \X (Nat \X Nat)
      PROVE  Sound(Parameter("double vector", "is_non_negative", vector))
  <2>1. PICK a \in Nat \X Nat, b \in Nat \X Nat, c \in Nat \X Nat : vector = <<a, b, c>>
    BY <1>5
  <2>2. \A value \in {a, b, c} : value = <<value[1], value[2]>> /\ value[1] \in Nat /\ value[2] \in Nat
    OBVIOUS
  <2>3. \A value \in {a, b, c} :
          /\ is_type("double", <<Kind("double"), value>>)
          /\ validate("is_non_negative", <<Kind("double"), value>>)
    BY <1>2, <1>3, <2>2
  <2>. QED BY <2>1, <2>3, VectorParameter
<1>6. Sound(Parameter("double", "is_open_unit_interval", <<1, 4>>))
  BY FractionParameter
<1> DEFINE trees == <<70, 200, 500>>
           leaves == <<3, 5, 10>>
           depths == <<0, 30, 45>>
           gains == <<<<0, 1>>, <<1, 10000000>>, <<1, 100000>>>>
<1>7. /\ trees \in Nat \X Nat \X Nat /\ trees[1] > 0 /\ trees[2] > 0 /\ trees[3] > 0
      /\ leaves \in Nat \X Nat \X Nat /\ leaves[1] > 0 /\ leaves[2] > 0 /\ leaves[3] > 0
      /\ depths \in Nat \X Nat \X Nat
      /\ gains \in (Nat \X Nat) \X (Nat \X Nat) \X (Nat \X Nat)
  BY SMT
<1>8. DOMAIN GridSearchSchema =
        {"num_trees", "min_leaf_size", "max_depth", "min_gain_split", "validation_size"}
  BY DEF GridSearchSchema
<1>9. /\ GridSearchSchema["num_trees"] = Parameter("size_t vector", "is_positive", trees)
      /\ GridSearchSchema["min_leaf_size"] = Parameter("size_t vector", "is_positive", leaves)
      /\ GridSearchSchema["max_depth"] = Parameter("size_t vector", "is_non_negative", depths)
      /\ GridSearchSchema["min_gain_split"] = Parameter("double vector", "is_non_negative", gains)
      /\ GridSearchSchema["validation_size"] = Parameter("double", "is_open_unit_interval", <<1, 4>>)
  BY SMT DEF GridSearchSchema
<1> HIDE DEF trees, leaves, depths, gains
<1>10. /\ Sound(GridSearchSchema["num_trees"]) /\ Sound(GridSearchSchema["min_leaf_size"])
       /\ Sound(GridSearchSchema["max_depth"])
  BY <1>4, <1>7, <1>9
<1>11. Sound(GridSearchSchema["min_gain_split"]) /\ Sound(GridSearchSchema["validation_size"])
  BY <1>5, <1>6, <1>7, <1>9
<1>. QED BY <1>8, <1>10, <1>11 DEF SoundSchema

LEMMA ServiceSound == SoundSchema(ServiceSchema)
<1>1. /\ Sound(Parameter("uint16", "is_positive", 49152)) /\ Sound(Parameter("size_t", "is_positive", 3))
  BY NumberParameter
<1>2. /\ Sound(Parameter("bool", "always_true", FALSE)) /\ Sound(Parameter("string", "always_true", ""))
  BY FreeParameter
<1>3. /\ Sound(Parameter("double", "is_unit_interval", <<1, 10>>))
      /\ Sound(Parameter("double", "is_non_negative", <<1, 1>>))
  BY FractionParameter
<1>4. DOMAIN ServiceSchema =
        {"enabled", "port_config_path", "ephemeral_port_min", "min_flows", "min_confidence",
         "smoothing_alpha", "top_k"}
  BY DEF ServiceSchema
<1>5. /\ ServiceSchema["enabled"] = Parameter("bool", "always_true", FALSE)
      /\ ServiceSchema["port_config_path"] = Parameter("string", "always_true", "")
  BY DEF ServiceSchema
<1>6. Sound(ServiceSchema["enabled"]) /\ Sound(ServiceSchema["port_config_path"])
  BY <1>2, <1>5
<1>7. /\ ServiceSchema["ephemeral_port_min"] = Parameter("uint16", "is_positive", 49152)
      /\ ServiceSchema["min_flows"] = Parameter("size_t", "is_positive", 3)
      /\ ServiceSchema["top_k"] = Parameter("size_t", "is_positive", 3)
  BY DEF ServiceSchema
<1>8. /\ Sound(ServiceSchema["ephemeral_port_min"]) /\ Sound(ServiceSchema["min_flows"])
      /\ Sound(ServiceSchema["top_k"])
  BY <1>1, <1>7
<1>9. /\ ServiceSchema["min_confidence"] = Parameter("double", "is_unit_interval", <<1, 10>>)
      /\ ServiceSchema["smoothing_alpha"] = Parameter("double", "is_non_negative", <<1, 1>>)
  BY DEF ServiceSchema
<1>10. Sound(ServiceSchema["min_confidence"]) /\ Sound(ServiceSchema["smoothing_alpha"])
  BY <1>3, <1>9
<1>. QED BY <1>4, <1>6, <1>8, <1>10 DEF SoundSchema

LEMMA FeatureSound == SoundSchema(FeatureSchema)
BY FreeParameter DEF SoundSchema, FeatureSchema

LEMMA NestedSound == \A key \in DOMAIN NestedSchemas : SoundSchema(NestedSchemas[key])
BY ForestSound, GridSound, ServiceSound, FeatureSound DEF NestedSchemas

(* The keys of a configuration.                                             *)
LEMMA Keys ==
  /\ DOMAIN NestedSchemas = {"RF_PARAMS", "GRID_PARAMS", "FEATURE_CONFIG", "SERVICE_CONFIG"}
  /\ DOMAIN ConfigSchema \cap DOMAIN NestedSchemas = {}
  /\ "NUM_THREADS" \in DOMAIN ConfigSchema
  /\ ConfigSchema["NUM_THREADS"] = OptionalParameter("int", "is_positive")
  /\ {"WALK_LENGTH", "CONTEXT_SIZE", "USE_THRESHOLD_CALIBRATION", "CLASSIFIER_THRESHOLD"}
       \subseteq DOMAIN ConfigSchema
<1> DEFINE sizes == Each("int", "is_positive", Sizes)
           switches == Each("bool", "always_true", Switches)
<1>1. DOMAIN sizes = DOMAIN Sizes /\ DOMAIN switches = DOMAIN Switches
  BY DEF Each
<1> HIDE DEF sizes, switches
<1>2. ConfigSchema = Joined(Joined(sizes, switches), Others)
  BY DEF ConfigSchema, Others, sizes, switches
<1>3. /\ DOMAIN ConfigSchema = DOMAIN Sizes \cup DOMAIN Switches \cup DOMAIN Others
      /\ \A x \in DOMAIN Others : x \notin DOMAIN Sizes \cup DOMAIN Switches => ConfigSchema[x] = Others[x]
  <2> DEFINE both == Joined(sizes, switches)
  <2>1. DOMAIN both = DOMAIN Sizes \cup DOMAIN Switches
    BY <1>1 DEF Joined
  <2>2. ConfigSchema = Joined(both, Others)
    BY <1>2
  <2> HIDE DEF both
  <2>. QED BY <2>1, <2>2 DEF Joined
<1>4. /\ "NUM_THREADS" \notin DOMAIN Sizes \cup DOMAIN Switches
      /\ "NUM_THREADS" \in DOMAIN Others
      /\ Others["NUM_THREADS"] = OptionalParameter("int", "is_positive")
  BY DEF Sizes, Switches, Others
<1>5. DOMAIN NestedSchemas = {"RF_PARAMS", "GRID_PARAMS", "FEATURE_CONFIG", "SERVICE_CONFIG"}
  BY DEF NestedSchemas
<1>6. /\ DOMAIN Sizes \cap DOMAIN NestedSchemas = {}
      /\ {"WALK_LENGTH", "CONTEXT_SIZE"} \subseteq DOMAIN Sizes
  BY <1>5 DEF Sizes
<1>7. /\ DOMAIN Switches \cap DOMAIN NestedSchemas = {}
      /\ "USE_THRESHOLD_CALIBRATION" \in DOMAIN Switches
  BY <1>5 DEF Switches
<1>8. DOMAIN Others \cap DOMAIN NestedSchemas = {} /\ "CLASSIFIER_THRESHOLD" \in DOMAIN Others
  BY <1>5 DEF Others
<1>. QED BY <1>3, <1>4, <1>5, <1>6, <1>7, <1>8

GoodObject(schema, values) ==
  /\ values = [key \in DOMAIN schema |-> values[key]]
  /\ \A key \in DOMAIN schema : Good(schema[key], values[key])

GoodConfig(settings) ==
  /\ settings = [key \in DOMAIN ConfigSchema \cup DOMAIN NestedSchemas |-> settings[key]]
  /\ \A key \in DOMAIN ConfigSchema : Good(ConfigSchema[key], settings[key])
  /\ \A key \in {"RF_PARAMS", "GRID_PARAMS", "SERVICE_CONFIG"} :
       GoodObject(NestedSchemas[key], settings[key])
  /\ settings["FEATURE_CONFIG"] \subseteq AllFeatures
  /\ validate_parameter_combinations(settings)

(* An object that was written is accepted, names everything and reads as    *)
(* what it was.                                                             *)
LEMMA ObjectReads ==
  ASSUME NEW schema, NEW values, GoodObject(schema, values), NEW object,
         \A key \in DOMAIN schema :
           key \in DOMAIN object /\ object[key] = value_from(schema[key], values[key]),
         NEW before
  PROVE  /\ AcceptsObject(schema, object)
         /\ Updated(schema, object, before) = values
<1>1. ASSUME NEW key \in DOMAIN schema
      PROVE  /\ Accepts(schema[key], object[key]) /\ Extracted(schema[key], object[key]) = values[key]
             /\ key \in DOMAIN object
  BY DEF GoodObject, Good
<1>2. Updated(schema, object, before) = [key \in DOMAIN schema |-> values[key]]
  BY <1>1 DEF Updated
<1>. QED BY <1>1, <1>2 DEF AcceptsObject, GoodObject

LEMMA ObjectOf ==
  ASSUME NEW schema, NEW values
  PROVE  /\ DOMAIN Object(schema, values) = DOMAIN schema
         /\ \A key \in DOMAIN schema : Object(schema, values)[key] = value_from(schema[key], values[key])
BY DEF Object

Flags(settings) == [flag \in AllFeatures |-> flag \in settings.FEATURE_CONFIG]
Inner(settings, key) == IF key = "FEATURE_CONFIG" THEN Flags(settings) ELSE settings[key]

(* Whatever a nested object holds, it is good as its schema has it.         *)
LEMMA InnerGood ==
  ASSUME NEW settings, GoodConfig(settings), NEW key \in DOMAIN NestedSchemas
  PROVE  GoodObject(NestedSchemas[key], Inner(settings, key))
<1>1. CASE key = "FEATURE_CONFIG"
  <2>1. Inner(settings, key) = Flags(settings) /\ NestedSchemas[key] = FeatureSchema
    BY <1>1 DEF Inner, NestedSchemas
  <2>2. /\ DOMAIN FeatureSchema = AllFeatures
        /\ \A flag \in AllFeatures : FeatureSchema[flag] = Parameter("bool", "always_true", TRUE)
    BY DEF FeatureSchema
  <2>3. ASSUME NEW value PROVE Good(Parameter("bool", "always_true", TRUE), value)
    <3> DEFINE p == Parameter("bool", "always_true", TRUE)
    <3>1. p.type = "bool" /\ p.validator = "always_true" /\ p.optional = FALSE
      BY DEF Parameter
    <3> HIDE DEF p
    <3>2. ~IsVector(p) /\ Kind("bool") = "bool"
      BY <3>1 DEF IsVector, Kind
    <3>3. <<"bool", value>>[1] = "bool" /\ <<"bool", value>>[2] = value
      OBVIOUS
    <3>4. value_from(p, value) = <<"bool", value>>
      BY <3>1, <3>2 DEF value_from
    <3>5. is_type("bool", <<"bool", value>>) /\ validate("always_true", <<"bool", value>>)
      BY <3>2, <3>3 DEF is_type, validate
    <3>6. Accepts(p, <<"bool", value>>)
      BY <3>1, <3>2, <3>5 DEF Accepts
    <3>7. Extracted(p, <<"bool", value>>) = value
      BY <3>1, <3>2, <3>3 DEF Extracted
    <3>. QED BY <3>4, <3>6, <3>7 DEF Good, p
  <2>4. Flags(settings) = [flag \in AllFeatures |-> Flags(settings)[flag]]
    BY DEF Flags
  <2>. QED BY <2>1, <2>2, <2>3, <2>4 DEF GoodObject
<1>2. CASE key # "FEATURE_CONFIG"
  BY <1>2, Keys DEF GoodConfig, Inner
<1>. QED BY <1>1, <1>2

(* The object that is written for a configuration.                          *)
LEMMA WrittenConfig ==
  ASSUME NEW settings
  PROVE  /\ DOMAIN value_from_config(settings) = DOMAIN ConfigSchema \cup DOMAIN NestedSchemas
         /\ \A key \in DOMAIN ConfigSchema :
              value_from_config(settings)[key] = value_from(ConfigSchema[key], settings[key])
         /\ \A key \in DOMAIN NestedSchemas :
              /\ value_from_config(settings)[key][1] = "object"
              /\ value_from_config(settings)[key][2] = Object(NestedSchemas[key], Inner(settings, key))
<1> DEFINE plain == Object(ConfigSchema, settings)
           nested == [key \in DOMAIN NestedSchemas |->
                        <<"object", Object(NestedSchemas[key], Inner(settings, key))>>]
<1>1. /\ DOMAIN plain = DOMAIN ConfigSchema
      /\ \A key \in DOMAIN ConfigSchema : plain[key] = value_from(ConfigSchema[key], settings[key])
  BY ObjectOf
<1>2. /\ DOMAIN nested = DOMAIN NestedSchemas
      /\ \A key \in DOMAIN NestedSchemas :
           /\ nested[key][1] = "object"
           /\ nested[key][2] = Object(NestedSchemas[key], Inner(settings, key))
  OBVIOUS
<1>3. value_from_config(settings) = Joined(plain, nested)
  BY DEF value_from_config, Inner, Flags
<1> HIDE DEF plain, nested
<1>4. /\ DOMAIN value_from_config(settings) = DOMAIN plain \cup DOMAIN nested
      /\ \A key \in DOMAIN plain : value_from_config(settings)[key] = plain[key]
      /\ \A key \in DOMAIN nested :
           key \notin DOMAIN plain => value_from_config(settings)[key] = nested[key]
  BY <1>3 DEF Joined
<1>5. \A key \in DOMAIN NestedSchemas : key \notin DOMAIN ConfigSchema
  BY Keys
<1>. QED BY <1>1, <1>2, <1>4, <1>5

(* What is written reads as one configuration, the one that was written.    *)
LEMMA Reloads ==
  ASSUME NEW settings, GoodConfig(settings)
  PROVE  load(value_from_config(settings)) = {settings}
<1> DEFINE object == value_from_config(settings)
<1>1. /\ DOMAIN object = DOMAIN ConfigSchema \cup DOMAIN NestedSchemas
      /\ \A key \in DOMAIN ConfigSchema : object[key] = value_from(ConfigSchema[key], settings[key])
      /\ \A key \in DOMAIN NestedSchemas :
           object[key][1] = "object" /\ object[key][2] = Object(NestedSchemas[key], Inner(settings, key))
  BY WrittenConfig
<1> HIDE DEF object
<1> DEFINE plain == [key \in DOMAIN ConfigSchema |-> settings[key]]
<1>2. GoodObject(ConfigSchema, plain)
  BY DEF GoodObject, GoodConfig
<1>3. /\ AcceptsObject(ConfigSchema, object)
      /\ \A before : Updated(ConfigSchema, object, before) = plain
  <2>1. \A key \in DOMAIN ConfigSchema :
          key \in DOMAIN object /\ object[key] = value_from(ConfigSchema[key], plain[key])
    BY <1>1
  <2> HIDE DEF plain
  <2>. QED BY <1>2, <2>1, ObjectReads
<1>4. ASSUME NEW key \in DOMAIN NestedSchemas
      PROVE  /\ AcceptsObject(NestedSchemas[key], object[key][2])
             /\ \A before : Updated(NestedSchemas[key], object[key][2], before) = Inner(settings, key)
             /\ DOMAIN object[key][2] = DOMAIN NestedSchemas[key]
  BY <1>1, InnerGood, ObjectOf, ObjectReads
<1>5. AcceptsConfig(object)
  BY <1>1, <1>3, <1>4 DEF AcceptsConfig
<1>6. Unnamed(object) = {}
  BY <1>4, Keys DEF Unnamed
<1>7. ASSUME NEW junk
      PROVE  value_to_config(object, junk) = settings
  <2> DEFINE nested ==
        [RF_PARAMS |-> Nested(object, "RF_PARAMS", Uninitialised(RandomForestSchema, junk)),
         GRID_PARAMS |-> Nested(object, "GRID_PARAMS", Uninitialised(GridSearchSchema, junk)),
         FEATURE_CONFIG |-> Features(Nested(object, "FEATURE_CONFIG", Defaults(FeatureSchema))),
         SERVICE_CONFIG |-> Nested(object, "SERVICE_CONFIG", Defaults(ServiceSchema))]
  <2>1. ASSUME NEW key \in DOMAIN NestedSchemas, NEW made
        PROVE  Nested(object, key, made) = Inner(settings, key)
    BY <1>1, <1>4 DEF Nested
  <2>2. Features(Flags(settings)) = settings["FEATURE_CONFIG"]
    <3>1. DOMAIN Flags(settings) = AllFeatures
      BY DEF Flags
    <3>2. \A flag \in AllFeatures : Flags(settings)[flag] <=> flag \in settings["FEATURE_CONFIG"]
      BY DEF Flags
    <3>. QED BY <3>1, <3>2 DEF Features, GoodConfig
  <2>3. nested = [RF_PARAMS |-> settings["RF_PARAMS"], GRID_PARAMS |-> settings["GRID_PARAMS"],
                  FEATURE_CONFIG |-> settings["FEATURE_CONFIG"], SERVICE_CONFIG |-> settings["SERVICE_CONFIG"]]
    <3>1. /\ Inner(settings, "RF_PARAMS") = settings["RF_PARAMS"]
          /\ Inner(settings, "GRID_PARAMS") = settings["GRID_PARAMS"]
          /\ Inner(settings, "SERVICE_CONFIG") = settings["SERVICE_CONFIG"]
          /\ Inner(settings, "FEATURE_CONFIG") = Flags(settings)
      BY DEF Inner
    <3>. QED BY <2>1, <2>2, <3>1, Keys
  <2>4. DOMAIN nested = DOMAIN NestedSchemas /\ \A key \in DOMAIN NestedSchemas : nested[key] = settings[key]
    BY <2>3, Keys
  <2>5. value_to_config(object, junk) = Joined(plain, nested)
    BY <1>3 DEF value_to_config
  <2> HIDE DEF nested
  <2>6. Joined(plain, nested) = [key \in DOMAIN ConfigSchema \cup DOMAIN NestedSchemas |-> settings[key]]
    BY <2>4, Keys DEF Joined
  <2>. QED BY <2>5, <2>6 DEF GoodConfig
<1>8. \E junk \in [Unnamed(object) -> Indeterminate] : TRUE
  <2>1. [x \in {} |-> 0] \in [{} -> Indeterminate]
    OBVIOUS
  <2>. QED BY <1>6, <2>1
<1>9. load(object) = {c \in {value_to_config(object, junk) : junk \in [Unnamed(object) -> Indeterminate]} :
                        validate_parameter_combinations(c)}
  BY <1>5 DEF load
<1>. QED BY <1>7, <1>8, <1>9 DEF GoodConfig, object

(* What is read on top of good values is good.                              *)
LEMMA UpdatedGood ==
  ASSUME NEW schema, SoundSchema(schema), NEW object, JsonObject(object),
         AcceptsObject(schema, object), NEW before,
         \A key \in DOMAIN schema \ DOMAIN object : Good(schema[key], before[key])
  PROVE  GoodObject(schema, Updated(schema, object, before))
<1> DEFINE updated == Updated(schema, object, before)
<1>1. /\ updated = [key \in DOMAIN schema |-> updated[key]]
      /\ \A key \in DOMAIN schema :
           updated[key] = IF key \in DOMAIN object THEN Extracted(schema[key], object[key]) ELSE before[key]
  BY DEF Updated
<1>2. ASSUME NEW key \in DOMAIN schema \cap DOMAIN object
      PROVE  Good(schema[key], Extracted(schema[key], object[key]))
  BY <1>2, ReadIsGood DEF SoundSchema, Sound, AcceptsObject, JsonObject
<1> HIDE DEF updated
<1>. QED BY <1>1, <1>2 DEF GoodObject, updated

LEMMA DefaultsGood ==
  ASSUME NEW schema, SoundSchema(schema)
  PROVE  GoodObject(schema, Defaults(schema))
BY DEF GoodObject, SoundSchema, Sound, Defaults

(* The file of a run that names every parameter of the nested objects it    *)
(* has, forests and grids, and the configuration it is read as.             *)
LEMMA LoadedGood ==
  ASSUME NEW object, Document(object), Unnamed(object) = {}, NEW settings \in load(object)
  PROVE  /\ GoodConfig(settings)
         /\ settings["NUM_THREADS"] = None \/ settings["NUM_THREADS"][1] \in Int
<1>1. AcceptsConfig(object)
  BY DEF load
<1>2. PICK junk : settings = value_to_config(object, junk) /\ validate_parameter_combinations(settings)
  BY <1>1 DEF load
<1> DEFINE plain == Updated(ConfigSchema, object, Defaults(ConfigSchema))
           forest == Nested(object, "RF_PARAMS", Uninitialised(RandomForestSchema, junk))
           grid == Nested(object, "GRID_PARAMS", Uninitialised(GridSearchSchema, junk))
           flags == Nested(object, "FEATURE_CONFIG", Defaults(FeatureSchema))
           service == Nested(object, "SERVICE_CONFIG", Defaults(ServiceSchema))
           nested == [RF_PARAMS |-> forest, GRID_PARAMS |-> grid,
                      FEATURE_CONFIG |-> Features(flags), SERVICE_CONFIG |-> service]
<1>3. GoodObject(ConfigSchema, plain)
  BY <1>1, UpdatedGood, ConfigSound, DefaultsGood DEF AcceptsConfig, Document, GoodObject
<1>4. ASSUME NEW key \in DOMAIN NestedSchemas, NEW made,
             key \in {"RF_PARAMS", "GRID_PARAMS"} \/ made = Defaults(NestedSchemas[key])
      PROVE  GoodObject(NestedSchemas[key], Nested(object, key, made))
  <2>1. CASE key \notin DOMAIN object
    BY <2>1, NestedSound, DefaultsGood DEF Nested
  <2>2. CASE key \in DOMAIN object
    <3>1. Nested(object, key, made) = Updated(NestedSchemas[key], object[key][2], made)
      BY <2>2 DEF Nested
    <3>2. AcceptsObject(NestedSchemas[key], object[key][2]) /\ JsonObject(object[key][2])
      BY <1>1, <2>2 DEF AcceptsConfig, Document
    <3>3. \A k \in DOMAIN NestedSchemas[key] \ DOMAIN object[key][2] :
            Good(NestedSchemas[key][k], made[k])
      <4>1. CASE key \in {"RF_PARAMS", "GRID_PARAMS"}
        BY <2>2, <4>1 DEF Unnamed
      <4>2. CASE made = Defaults(NestedSchemas[key])
        BY <4>2, NestedSound, DefaultsGood DEF GoodObject
      <4>. QED BY <1>4, <4>1, <4>2
    <3>. QED BY <3>1, <3>2, <3>3, NestedSound, UpdatedGood
  <2>. QED BY <2>1, <2>2
<1>5. /\ "RF_PARAMS" \in DOMAIN NestedSchemas /\ "GRID_PARAMS" \in DOMAIN NestedSchemas
      /\ "SERVICE_CONFIG" \in DOMAIN NestedSchemas /\ "FEATURE_CONFIG" \in DOMAIN NestedSchemas
      /\ NestedSchemas["SERVICE_CONFIG"] = ServiceSchema /\ NestedSchemas["FEATURE_CONFIG"] = FeatureSchema
  BY DEF NestedSchemas
<1>6. /\ GoodObject(NestedSchemas["RF_PARAMS"], forest)
      /\ GoodObject(NestedSchemas["GRID_PARAMS"], grid)
      /\ GoodObject(NestedSchemas["SERVICE_CONFIG"], service)
      /\ GoodObject(NestedSchemas["FEATURE_CONFIG"], flags)
  BY <1>4, <1>5
<1>7. settings = Joined(plain, nested)
  BY <1>2 DEF value_to_config
<1>8. Features(flags) \subseteq AllFeatures
  <2>1. DOMAIN FeatureSchema = AllFeatures
    BY DEF FeatureSchema
  <2> HIDE DEF flags
  <2>2. DOMAIN flags = DOMAIN FeatureSchema
    BY <1>5, <1>6 DEF GoodObject
  <2>. QED BY <2>1, <2>2 DEF Features
<1> HIDE DEF plain, forest, grid, flags, service
<1>9. DOMAIN plain = DOMAIN ConfigSchema
  BY <1>3 DEF GoodObject
<1>10. DOMAIN nested = DOMAIN NestedSchemas
  BY Keys
<1>11. /\ nested["RF_PARAMS"] = forest /\ nested["GRID_PARAMS"] = grid
       /\ nested["SERVICE_CONFIG"] = service /\ nested["FEATURE_CONFIG"] = Features(flags)
  OBVIOUS
<1> HIDE DEF nested
<1>12. /\ settings = [key \in DOMAIN ConfigSchema \cup DOMAIN NestedSchemas |-> settings[key]]
       /\ \A key \in DOMAIN ConfigSchema : settings[key] = plain[key]
       /\ \A key \in DOMAIN NestedSchemas : settings[key] = nested[key]
  BY <1>7, <1>9, <1>10, Keys DEF Joined
<1>13. \A key \in DOMAIN ConfigSchema : Good(ConfigSchema[key], settings[key])
  BY <1>3, <1>12 DEF GoodObject
<1>14. \A key \in {"RF_PARAMS", "GRID_PARAMS", "SERVICE_CONFIG"} :
         GoodObject(NestedSchemas[key], settings[key])
  BY <1>5, <1>6, <1>11, <1>12
<1>15. settings["FEATURE_CONFIG"] \subseteq AllFeatures
  BY <1>5, <1>8, <1>11, <1>12
<1>16. GoodConfig(settings)
  BY <1>2, <1>12, <1>13, <1>14, <1>15 DEF GoodConfig
<1>17. settings["NUM_THREADS"] = None \/ settings["NUM_THREADS"][1] \in Int
  <2> DEFINE threads == ConfigSchema["NUM_THREADS"]
             json == object["NUM_THREADS"]
  <2>1. threads.type = "int" /\ threads.optional = TRUE /\ threads.default = None /\ ~IsVector(threads)
    BY Keys DEF OptionalParameter, IsVector
  <2>2. CASE "NUM_THREADS" \in DOMAIN object
    <3>1. Accepts(threads, json) /\ Json(json)
      BY <1>1, <2>2, Keys DEF AcceptsConfig, AcceptsObject, Document, JsonObject
    <3>2. settings["NUM_THREADS"] = Extracted(threads, json)
      BY <1>12, <2>2, Keys DEF plain, Updated
    <3> HIDE DEF threads, json
    <3>3. CASE json[1] = "null"
      BY <2>1, <3>2, <3>3 DEF Extracted
    <3>4. CASE json[1] # "null"
      <4>1. json[1] = "int"
        BY <2>1, <3>1, <3>4 DEF Accepts, is_type, Kind
      <4>2. settings["NUM_THREADS"] = Some(json[2])
        BY <2>1, <3>2, <3>4 DEF Extracted
      <4>3. json[2] \in Int
        BY <3>1, <4>1 DEF Json, Scalar
      <4>. QED BY <4>2, <4>3 DEF Some
    <3>. QED BY <3>3, <3>4
  <2>3. CASE "NUM_THREADS" \notin DOMAIN object
    BY <1>12, <2>1, <2>3, Keys DEF plain, Updated, Defaults
  <2>. QED BY <2>2, <2>3
<1>. QED BY <1>16, <1>17

(* The configuration without a file.                                        *)
LEMMA DefaultGood == GoodConfig(DefaultConfig) /\ DefaultConfig["NUM_THREADS"] = None
<1> DEFINE plain == Defaults(ConfigSchema)
           nested == [RF_PARAMS |-> Defaults(RandomForestSchema), GRID_PARAMS |-> Defaults(GridSearchSchema),
                      FEATURE_CONFIG |-> AllFeatures, SERVICE_CONFIG |-> Defaults(ServiceSchema)]
<1>1. DefaultConfig = Joined(plain, nested)
  BY DEF DefaultConfig
<1>2. DOMAIN plain = DOMAIN ConfigSchema /\ GoodObject(ConfigSchema, plain)
  BY ConfigSound, DefaultsGood DEF Defaults
<1>3. /\ DOMAIN nested = DOMAIN NestedSchemas
      /\ nested["RF_PARAMS"] = Defaults(RandomForestSchema)
      /\ nested["GRID_PARAMS"] = Defaults(GridSearchSchema)
      /\ nested["SERVICE_CONFIG"] = Defaults(ServiceSchema)
      /\ nested["FEATURE_CONFIG"] = AllFeatures
  BY Keys
<1>4. plain["NUM_THREADS"] = None
  BY Keys DEF Defaults, OptionalParameter
<1>5. plain["WALK_LENGTH"] = 5 /\ plain["CONTEXT_SIZE"] = 4 /\ plain["USE_THRESHOLD_CALIBRATION"] = FALSE
  <2> DEFINE sizes == Each("int", "is_positive", Sizes)
             switches == Each("bool", "always_true", Switches)
             both == Joined(sizes, switches)
  <2>1. /\ DOMAIN sizes = DOMAIN Sizes /\ DOMAIN switches = DOMAIN Switches
        /\ \A key \in DOMAIN Sizes : sizes[key].default = Sizes[key]
        /\ \A key \in DOMAIN Switches : switches[key].default = Switches[key]
    BY DEF Each, Parameter
  <2>2. ConfigSchema = Joined(both, Others)
    BY DEF ConfigSchema, Others
  <2> HIDE DEF sizes, switches
  <2>3. /\ DOMAIN both = DOMAIN Sizes \cup DOMAIN Switches
        /\ \A key \in DOMAIN Sizes : both[key] = sizes[key]
        /\ \A key \in DOMAIN Switches : key \notin DOMAIN Sizes => both[key] = switches[key]
    BY <2>1 DEF Joined
  <2> HIDE DEF both
  <2>4. \A key \in DOMAIN both : ConfigSchema[key] = both[key]
    BY <2>2 DEF Joined
  <2>5. /\ "WALK_LENGTH" \in DOMAIN Sizes /\ "CONTEXT_SIZE" \in DOMAIN Sizes
        /\ Sizes["WALK_LENGTH"] = 5 /\ Sizes["CONTEXT_SIZE"] = 4
        /\ "USE_THRESHOLD_CALIBRATION" \notin DOMAIN Sizes
    BY DEF Sizes
  <2>6. /\ "USE_THRESHOLD_CALIBRATION" \in DOMAIN Switches
        /\ Switches["USE_THRESHOLD_CALIBRATION"] = FALSE
    BY DEF Switches
  <2>. QED BY <2>1, <2>3, <2>4, <2>5, <2>6, Keys DEF Defaults
<1> HIDE DEF plain, nested
<1>6. /\ DefaultConfig = [key \in DOMAIN ConfigSchema \cup DOMAIN NestedSchemas |-> DefaultConfig[key]]
      /\ \A key \in DOMAIN ConfigSchema : DefaultConfig[key] = plain[key]
      /\ \A key \in DOMAIN NestedSchemas : DefaultConfig[key] = nested[key]
  BY <1>1, <1>2, <1>3, Keys DEF Joined
<1>7. \A key \in DOMAIN ConfigSchema : Good(ConfigSchema[key], DefaultConfig[key])
  BY <1>2, <1>6 DEF GoodObject
<1>8. \A key \in {"RF_PARAMS", "GRID_PARAMS", "SERVICE_CONFIG"} :
        GoodObject(NestedSchemas[key], DefaultConfig[key])
  <2>1. /\ GoodObject(RandomForestSchema, Defaults(RandomForestSchema))
        /\ GoodObject(GridSearchSchema, Defaults(GridSearchSchema))
        /\ GoodObject(ServiceSchema, Defaults(ServiceSchema))
    BY ForestSound, GridSound, ServiceSound, DefaultsGood
  <2>2. /\ NestedSchemas["RF_PARAMS"] = RandomForestSchema
        /\ NestedSchemas["GRID_PARAMS"] = GridSearchSchema
        /\ NestedSchemas["SERVICE_CONFIG"] = ServiceSchema
    BY DEF NestedSchemas
  <2>. QED BY <1>3, <1>6, <2>1, <2>2, Keys
<1>9. DefaultConfig["FEATURE_CONFIG"] = AllFeatures
  BY <1>3, <1>6, Keys
<1>10. get_dimension(AllFeatures) > 0
  <2> DEFINE columns == DOMAIN FeatureNames
             flag == [n \in columns |-> Flag(FeatureNames[n])]
  <2>1. columns = 1..Len(FeatureNames) /\ Len(FeatureNames) \in Nat
    BY DEF FeatureNames, EmbeddingNames, StructuralNames, TemporalNames, FlowNames, NetworkNames
  <2>2. IsFiniteSet(columns)
    BY <2>1, FS_Interval
  <2>3. AllFeatures = {flag[n] : n \in columns}
    BY DEF AllFeatures, ToSet
  <2> HIDE DEF columns
  <2>4. IsFiniteSet(AllFeatures)
    <3>1. flag \in Surjection(columns, AllFeatures)
      BY <2>3 DEF Surjection
    <3>. QED BY <2>2, <3>1, FS_Surjection
  <2>5. Cardinality(AllFeatures) \in Nat
    BY <2>4, FS_CardinalityType
  <2>6. "time_crosscorr_peak" \in AllFeatures
    <3>1. FeatureNames[28] = "time_crosscorr_max" /\ 28 \in DOMAIN FeatureNames
      BY DEF FeatureNames, EmbeddingNames, StructuralNames, TemporalNames, FlowNames, NetworkNames
    <3>2. Flag("time_crosscorr_max") = "time_crosscorr_peak"
      BY DEF Flag
    <3>. QED BY <2>3, <3>1, <3>2 DEF columns
  <2>. QED BY <2>5, <2>6 DEF get_dimension
<1>11. validate_parameter_combinations(DefaultConfig)
  BY <1>5, <1>6, <1>9, <1>10, Keys DEF validate_parameter_combinations
<1>. QED BY <1>4, <1>6, <1>7, <1>8, <1>9, <1>11, Keys DEF GoodConfig

(* The number of threads that the application fixes, or no number.          *)
LEMMA OtherThreads ==
  ASSUME NEW settings, GoodConfig(settings), NEW threads, Good(ConfigSchema["NUM_THREADS"], threads)
  PROVE  GoodConfig([settings EXCEPT !.NUM_THREADS = threads])
<1> DEFINE other == [settings EXCEPT !.NUM_THREADS = threads]
<1>1. /\ "NUM_THREADS" \in DOMAIN ConfigSchema /\ "NUM_THREADS" \notin DOMAIN NestedSchemas
      /\ DOMAIN settings = DOMAIN ConfigSchema \cup DOMAIN NestedSchemas
  BY Keys DEF GoodConfig
<1>2. /\ other = [key \in DOMAIN ConfigSchema \cup DOMAIN NestedSchemas |-> other[key]]
      /\ other["NUM_THREADS"] = threads
      /\ \A key \in DOMAIN settings : key # "NUM_THREADS" => other[key] = settings[key]
  BY <1>1
<1> HIDE DEF other
<1>3. \A key \in DOMAIN ConfigSchema : Good(ConfigSchema[key], other[key])
  BY <1>1, <1>2 DEF GoodConfig
<1>4. \A key \in DOMAIN NestedSchemas : other[key] = settings[key]
  BY <1>1, <1>2
<1>5. /\ other["WALK_LENGTH"] = settings["WALK_LENGTH"] /\ other["CONTEXT_SIZE"] = settings["CONTEXT_SIZE"]
      /\ other["FEATURE_CONFIG"] = settings["FEATURE_CONFIG"]
      /\ other["USE_THRESHOLD_CALIBRATION"] = settings["USE_THRESHOLD_CALIBRATION"]
      /\ other["CLASSIFIER_THRESHOLD"] = settings["CLASSIFIER_THRESHOLD"]
  BY <1>1, <1>2, <1>4, Keys
<1>6. validate_parameter_combinations(other)
  BY <1>5 DEF GoodConfig, validate_parameter_combinations
<1>. QED BY <1>2, <1>3, <1>4, <1>6, Keys DEF GoodConfig, other

LEMMA ThreadsGood ==
  ASSUME NEW settings, GoodConfig(settings),
         settings["NUM_THREADS"] = None \/ settings["NUM_THREADS"][1] \in Int
  PROVE  /\ GoodConfig(WithThreads(settings))
         /\ GoodConfig([WithThreads(settings) EXCEPT !.NUM_THREADS = None])
<1> DEFINE given == IF settings.NUM_THREADS = None THEN HardwareThreads ELSE settings.NUM_THREADS[1]
           threads == IF given <= 0 THEN 1 ELSE given
           p == ConfigSchema["NUM_THREADS"]
<1>1. given \in Int
  BY ThreadsAssumption
<1>2. threads \in Int /\ threads > 0
  BY <1>1
<1>3. WithThreads(settings) = [settings EXCEPT !.NUM_THREADS = Some(threads)]
  BY DEF WithThreads
<1> HIDE DEF threads, given
<1>4. /\ p.type = "int" /\ p.optional = TRUE /\ p.validator = "is_positive" /\ ~IsVector(p)
  BY Keys DEF OptionalParameter, IsVector
<1> HIDE DEF p
<1>5. Good(p, Some(threads))
  <2>1. value_from(p, Some(threads)) = <<"int", threads>>
    BY <1>4 DEF value_from, Some, None, Kind
  <2>2. <<"int", threads>>[1] = "int" /\ <<"int", threads>>[2] = threads
    OBVIOUS
  <2>3. is_type("int", <<"int", threads>>) /\ validate("is_positive", <<"int", threads>>)
    BY <1>2, <2>2 DEF is_type, validate, Kind, Sign
  <2>4. Accepts(p, <<"int", threads>>)
    BY <1>4, <2>3 DEF Accepts
  <2>5. Extracted(p, <<"int", threads>>) = Some(threads)
    BY <1>4, <2>2 DEF Extracted
  <2>. QED BY <2>1, <2>4, <2>5 DEF Good
<1>6. Good(p, None)
  <2>1. value_from(p, None) = <<"null", 0>>
    BY <1>4 DEF value_from
  <2>2. Accepts(p, <<"null", 0>>) /\ Extracted(p, <<"null", 0>>) = None
    BY <1>4 DEF Accepts, Extracted
  <2>. QED BY <2>1, <2>2 DEF Good
<1>. QED BY <1>3, <1>5, <1>6, OtherThreads DEF p

-----------------------------------------------------------------------------
(* The configuration that a run fixes.                                      *)

InputsInv == \A p \in DOMAIN files : Input(files[p])

\* What a process at its startup found in its file, if it has one.
StartupInv ==
  mode # "none" /\ step = "startup" => \E loaded \in Configurations : config = WithThreads(loaded)

CInv == InputsInv /\ StartupInv

(* No step of a mode leads to the startup but the reading of the file.      *)
LEMMA PastStartup ==
  ASSUME StepInv, mode # "none", step \notin {"configure", Exit}
  PROVE  NextStep # "startup"
<1>1. CASE mode = "training"
  BY <1>1 DEF StepInv, TrainingSteps, NextStep, TrainingOrder, Exit
<1>2. CASE mode = "prediction"
  BY <1>2 DEF StepInv, PredictionSteps, NextStep, PredictionOrder, Exit
<1>3. CASE mode = "ground truth"
  <2>1. NextStep = GroundTruthOrder[step]
    BY <1>3 DEF NextStep
  <2>2. step \in {"startup", "reference"}
    BY <1>3 DEF StepInv, GroundTruthSteps
  <2>3. CASE step = "startup"
    BY <2>1, <2>3 DEF GroundTruthOrder
  <2>4. CASE step = "reference"
    BY <2>1, <2>4 DEF GroundTruthOrder, Exit
  <2>. QED BY <2>2, <2>3, <2>4
<1>. QED BY <1>1, <1>2, <1>3 DEF StepInv

(* A program writes none of the files that hold inputs.                     *)
LEMMA PutNoInput ==
  ASSUME InputsInv, NEW path, NEW kind, kind \notin {"config", "flows", "ports"}, NEW body, NEW whole,
         Put(path, Content(kind, body, whole))
  PROVE  InputsInv'
<1>1. Content(kind, body, whole).kind = kind
  BY DEF Content
<1>. QED BY <1>1, PutFile DEF InputsInv, Input

LEMMA ConfigurationStep == StepInv /\ CInv /\ [Next]_vars => CInv'
<1> SUFFICES ASSUME StepInv, CInv, [Next]_vars PROVE CInv'
  OBVIOUS
<1>1. ASSUME UNCHANGED files PROVE InputsInv'
  BY <1>1 DEF CInv, InputsInv
<1>2. ASSUME mode # "none", step \notin {"configure", Exit}, GoOn PROVE StartupInv'
  BY <1>2, PastStartup DEF GoOn, StartupInv
<1>3. ASSUME End PROVE StartupInv'
  BY <1>3 DEF End, StartupInv
<1>4. ASSUME mode # "none", step \notin {"configure", Exit}, UNCHANGED files, GoOn PROVE CInv'
  BY <1>1, <1>2, <1>4 DEF CInv
<1>5. ASSUME mode # "none", step \notin {"configure", Exit}, NEW path, NEW kind, kind \notin {"config", "flows", "ports"},
             NEW body, NEW whole, Put(path, Content(kind, body, whole)), GoOn \/ End
      PROVE  CInv'
  BY <1>2, <1>3, <1>5, PutNoInput DEF CInv
<1>6. ASSUME mode # "none", step \notin {"configure", Exit}, NEW path, NEW kind, kind \notin {"config", "flows", "ports"},
             NEW body, Write(path, kind, body)
      PROVE  CInv'
  BY <1>5, <1>6 DEF Write
<1>7. CASE UNCHANGED vars
  BY <1>7 DEF vars, process, CInv, InputsInv, StartupInv, Configurations, Readable, File
<1>8. CASE Decline
  BY <1>8 DEF Decline, process, CInv, InputsInv, StartupInv, Configurations, Readable, File
<1>9. CASE Start
  BY <1>1, <1>9 DEF Start, CInv, StartupInv
<1>10. CASE Configure
  <2>1. PICK loaded \in Configurations : config' = WithThreads(loaded)
    BY <1>10 DEF Configure
  <2>2. args' = args /\ files' = files
    BY <1>10 DEF Configure
  <2>3. Configurations' = Configurations
    BY <2>2 DEF Configurations, Readable, File
  <2>. QED BY <1>1, <2>1, <2>2, <2>3 DEF CInv, StartupInv
<1>11. CASE CommonStartup
  BY <1>4, <1>11 DEF CommonStartup, Running, Exit
<1>12. CASE Ingest
  BY <1>4, <1>12 DEF Ingest, Running, Exit
<1>13. CASE LoadReference
  BY <1>4, <1>13 DEF LoadReference, Running, Exit
<1>14. CASE CalculateReference
  BY <1>4, <1>14 DEF CalculateReference, Calculates, Running, Exit
<1>15. CASE CalculateAndSaveReference
  <2>1. mode # "none" /\ step \notin {"configure", Exit}
    BY <1>15 DEF CalculateAndSaveReference, Calculates, Running, Exit
  <2>. QED BY <1>5, <1>15, <2>1 DEF CalculateAndSaveReference
<1>16. CASE TrainClassifier
  BY <1>4, <1>16 DEF TrainClassifier, Running, Exit
<1>17. CASE WriteTrainingManifest
  BY <1>6, <1>17 DEF WriteTrainingManifest, Running, Exit
<1>18. CASE SaveBaseline
  BY <1>6, <1>18 DEF SaveBaseline, Running, Exit
<1>19. CASE SaveClassifier
  BY <1>5, <1>6, <1>19 DEF SaveClassifier, Running, Exit
<1>20. CASE LoadClassifier
  BY <1>4, <1>20 DEF LoadClassifier, Running, Exit
<1>21. CASE LoadBaseline
  BY <1>4, <1>21 DEF LoadBaseline, Running, Exit
<1>22. CASE Predict
  BY <1>4, <1>22 DEF Predict, Running, Exit
<1>23. CASE WriteScores
  BY <1>6, <1>23 DEF WriteScores, Running, Exit
<1>24. CASE WriteExplanations
  BY <1>6, <1>24 DEF WriteExplanations, Running, Exit
<1>25. CASE LoadServices
  BY <1>4, <1>25 DEF LoadServices, Running, Exit
<1>26. CASE WritePositives
  <2>1. mode # "none" /\ step \notin {"configure", Exit}
    BY <1>26 DEF WritePositives, Running, Exit
  <2>. QED BY <1>5, <1>26, <2>1 DEF WritePositives
<1>27. CASE WriteMetrics
  BY <1>6, <1>27 DEF WriteMetrics, Running, Exit
<1>28. CASE WritePredictionManifest
  BY <1>6, <1>28 DEF WritePredictionManifest, Running, Exit
<1>29. CASE PassOver
  BY <1>4, <1>29 DEF PassOver, Optional, Exit
<1>30. CASE Finish
  BY <1>1, <1>3, <1>30 DEF Finish, CInv
<1>31. CASE Stop
  BY <1>1, <1>3, <1>31 DEF Stop, CInv
<1>. QED
  BY <1>7, <1>8, <1>9, <1>10, <1>11, <1>12, <1>13, <1>14, <1>15, <1>16, <1>17, <1>18, <1>19, <1>20,
     <1>21, <1>22, <1>23, <1>24, <1>25, <1>26, <1>27, <1>28, <1>29, <1>30, <1>31 DEF Next

LEMMA ConfigurationFixed == CInv => LoggedConfigurationReloads
<1> SUFFICES ASSUME CInv, mode # "none", step = "startup",
                    Has(args, {"-f"}) => Unnamed(files[File("-f")].body) = {}
             PROVE  /\ load(value_from_config(config)) = {config}
                    /\ load(value_from_config([config EXCEPT !.NUM_THREADS = None]))
                         = {[config EXCEPT !.NUM_THREADS = None]}
  BY DEF LoggedConfigurationReloads
<1>1. PICK loaded \in Configurations : config = WithThreads(loaded)
  BY DEF CInv, StartupInv
<1>2. /\ GoodConfig(loaded)
      /\ loaded["NUM_THREADS"] = None \/ loaded["NUM_THREADS"][1] \in Int
  <2>1. CASE Has(args, {"-f"})
    <3>1. /\ File("-f") \in DOMAIN files /\ files[File("-f")].kind = "config"
          /\ loaded \in load(files[File("-f")].body)
      BY <1>1, <2>1 DEF Configurations, Readable
    <3>2. Document(files[File("-f")].body)
      BY <3>1 DEF CInv, InputsInv, Input
    <3>. QED BY <2>1, <3>1, <3>2, LoadedGood
  <2>2. CASE ~Has(args, {"-f"})
    BY <1>1, <2>2, DefaultGood DEF Configurations
  <2>. QED BY <2>1, <2>2
<1>3. GoodConfig(config) /\ GoodConfig([config EXCEPT !.NUM_THREADS = None])
  BY <1>1, <1>2, ThreadsGood
<1>. QED BY <1>3, Reloads

(* The configuration that a run fixes and logs can be given to a later run  *)
(* as its file: it is read as that configuration, whatever file the run     *)
(* had, if it left nothing of a nested object to chance.                    *)
THEOREM ConfigurationsReload == Spec => []LoggedConfigurationReloads
<1>1. Init => CInv
  BY InputsAssumption DEF Init, CInv, InputsInv, StartupInv
<1>2. IInv => StepInv
  BY DEF IInv, ProcessInv
<1>. QED BY <1>1, <1>2, Initially, Step, ConfigurationStep, ConfigurationFixed, PTL DEF Spec

-----------------------------------------------------------------------------
(* Classifiers and the medians beside them: which training they are of.     *)

BaselineAt(word) == <<word, ".feature_baselines.json">>

Trained(classifier, r) ==
  {"training", "features"} \subseteq DOMAIN classifier /\ classifier.training = r

\* A file says which run it is of, and a classifier and a baseline of one run name the same features.
TrainedInv ==
  /\ \A p \in DOMAIN files :
       /\ files[p].kind = "classifier" => Trained(files[p].body, files[p].run)
       /\ files[p].kind = "baseline" =>
            \E names : files[p].body = compute_feature_baseline(files[p].run, names)
  /\ \A word :
       /\ There(word, "", "classifier") /\ There(word, ".feature_baselines.json", "baseline")
            /\ RunOf(word, "") = RunOf(word, ".feature_baselines.json") =>
            files[BaselineAt(word)].body.feature_names = files[<<word, "">>].body.features
       \* A training that completed has written its classifier, if nothing later has.
       /\ There(word, ".feature_baselines.json", "baseline")
            /\ RunOf(word, ".feature_baselines.json") \in DOMAIN finished =>
            <<word, "">> \in DOMAIN files /\ RunOf(word, "") >= RunOf(word, ".feature_baselines.json")

\* What a training has and has written.
TrainingInv ==
  mode = "training" =>
    /\ step \in {"manifest", "baseline", "save", Exit} =>
         Trained(m_classifier[1], run) /\ m_classifier[1].features = feature_names
    /\ step \in {"save", Exit} =>
         files[feature_baseline_path].body = compute_feature_baseline(run, feature_names)

AInv == TrainedInv /\ TrainingInv

LEMMA BaselineNames ==
  ASSUME NEW training, NEW names
  PROVE  compute_feature_baseline(training, names).feature_names = names
BY DEF compute_feature_baseline

LEMMA AnyRun ==
  ASSUME RunsInv, NEW p \in DOMAIN files
  PROVE  run >= files[p].run
BY DEF RunsInv

(* A file of another kind.                                                  *)
LEMMA PutAny ==
  ASSUME RunsInv, TrainedInv, UNCHANGED finished, NEW path, NEW kind, kind \notin {"classifier", "baseline"},
         NEW body, NEW whole, Put(path, Content(kind, body, whole))
  PROVE  TrainedInv'
<1>1. Content(kind, body, whole).kind = kind /\ Content(kind, body, whole).run = run
  BY DEF Content
<1>2. /\ path \in DOMAIN files' /\ files'[path].kind = kind /\ files'[path].run = run
      /\ \A p \in DOMAIN files' : p = path \/ (p \in DOMAIN files /\ files'[p] = files[p])
      /\ \A p \in DOMAIN files : p \in DOMAIN files' /\ (p # path => files'[p] = files[p])
  BY <1>1, PutFile
<1>3. \A p \in DOMAIN files' :
        /\ files'[p].kind = "classifier" => Trained(files'[p].body, files'[p].run)
        /\ files'[p].kind = "baseline" =>
             \E names : files'[p].body = compute_feature_baseline(files'[p].run, names)
  BY <1>2 DEF TrainedInv
<1>4. ASSUME NEW word
      PROVE  /\ There(word, "", "classifier")' => There(word, "", "classifier") /\ files'[<<word, "">>] = files[<<word, "">>]
             /\ There(word, ".feature_baselines.json", "baseline")' =>
                  /\ There(word, ".feature_baselines.json", "baseline")
                  /\ files'[BaselineAt(word)] = files[BaselineAt(word)]
  <2>1. ASSUME NEW p, NEW k \in {"classifier", "baseline"}, Readable(p, k)'
        PROVE  Readable(p, k) /\ files'[p] = files[p]
    BY <1>2, <2>1 DEF Readable
  <2>. QED BY <2>1 DEF There, BaselineAt
<1>5. ASSUME NEW word,
             There(word, ".feature_baselines.json", "baseline")',
             RunOf(word, ".feature_baselines.json")' \in DOMAIN finished'
      PROVE  <<word, "">> \in DOMAIN files' /\ RunOf(word, "")' >= RunOf(word, ".feature_baselines.json")'
  <2> DEFINE main == <<word, "">>
             base == BaselineAt(word)
  <2>1. /\ There(word, ".feature_baselines.json", "baseline") /\ files'[base] = files[base]
        /\ base \in DOMAIN files
    BY <1>4, <1>5 DEF There, Readable, BaselineAt
  <2>2. /\ RunOf(word, ".feature_baselines.json")' = files'[base].run
        /\ RunOf(word, ".feature_baselines.json") = files[base].run
        /\ RunOf(word, "") = files[main].run /\ RunOf(word, "")' = files'[main].run
    BY DEF RunOf, BaselineAt
  <2>3. main \in DOMAIN files /\ files[main].run >= files[base].run
    BY <1>5, <2>1, <2>2 DEF TrainedInv
  <2> HIDE DEF main, base
  <2>4. main \in DOMAIN files' /\ files'[main].run >= files'[base].run
    <3>1. CASE main = path
      BY <1>2, <2>1, <3>1, AnyRun
    <3>2. CASE main # path
      BY <1>2, <2>1, <2>3, <3>2
    <3>. QED BY <3>1, <3>2
  <2>. QED BY <2>2, <2>4 DEF main
<1>6. \A word :
        There(word, "", "classifier")' /\ There(word, ".feature_baselines.json", "baseline")'
          /\ RunOf(word, "")' = RunOf(word, ".feature_baselines.json")' =>
          files'[BaselineAt(word)].body.feature_names = files'[<<word, "">>].body.features
  BY <1>4 DEF TrainedInv, RunOf, BaselineAt
<1>. QED BY <1>3, <1>5, <1>6 DEF TrainedInv, BaselineAt

LEMMA PutTrainedBaseline ==
  ASSUME RunsInv, FinishedInv, WrittenInv, TrainedInv, UNCHANGED finished, mode # "none", step = "baseline",
         NEW word, NEW names, NEW whole,
         Put(BaselineAt(word), Content("baseline", compute_feature_baseline(run, names), whole))
  PROVE  TrainedInv'
<1> DEFINE content == Content("baseline", compute_feature_baseline(run, names), whole)
<1>1. content.kind = "baseline" /\ content.run = run /\ content.body = compute_feature_baseline(run, names)
  BY DEF Content
<1> HIDE DEF content
<1>2. /\ BaselineAt(word) \in DOMAIN files' /\ files'[BaselineAt(word)] = content
      /\ \A p \in DOMAIN files' : p = BaselineAt(word) \/ (p \in DOMAIN files /\ files'[p] = files[p])
      /\ \A p \in DOMAIN files : p \in DOMAIN files' /\ (p # BaselineAt(word) => files'[p] = files[p])
  BY PutFile DEF content
<1>3. \A p \in DOMAIN files' :
        /\ files'[p].kind = "classifier" => Trained(files'[p].body, files'[p].run)
        /\ files'[p].kind = "baseline" =>
             \E n : files'[p].body = compute_feature_baseline(files'[p].run, n)
  BY <1>1, <1>2 DEF TrainedInv
<1>4. \A w : <<w, "">> # BaselineAt(word)
  BY DEF BaselineAt
<1>5. \A w : /\ <<w, "">> \in DOMAIN files' <=> <<w, "">> \in DOMAIN files
             /\ <<w, "">> \in DOMAIN files => files'[<<w, "">>] = files[<<w, "">>]
  BY <1>2, <1>4
<1>6. \A w : w # word => BaselineAt(w) # BaselineAt(word)
  BY DEF BaselineAt
<1>7. ASSUME NEW w
      PROVE  /\ There(w, "", "classifier")' /\ There(w, ".feature_baselines.json", "baseline")'
                  /\ RunOf(w, "")' = RunOf(w, ".feature_baselines.json")' =>
                  files'[BaselineAt(w)].body.feature_names = files'[<<w, "">>].body.features
             /\ There(w, ".feature_baselines.json", "baseline")'
                  /\ RunOf(w, ".feature_baselines.json")' \in DOMAIN finished' =>
                  <<w, "">> \in DOMAIN files' /\ RunOf(w, "")' >= RunOf(w, ".feature_baselines.json")'
  <2> DEFINE main == <<w, "">>
             base == BaselineAt(w)
  <2>1. /\ There(w, "", "classifier")' <=> main \in DOMAIN files' /\ files'[main].kind = "classifier"
        /\ There(w, "", "classifier") <=> main \in DOMAIN files /\ files[main].kind = "classifier"
        /\ There(w, ".feature_baselines.json", "baseline")' <=> base \in DOMAIN files' /\ files'[base].kind = "baseline"
        /\ There(w, ".feature_baselines.json", "baseline") <=> base \in DOMAIN files /\ files[base].kind = "baseline"
        /\ RunOf(w, ".feature_baselines.json")' = files'[base].run
        /\ RunOf(w, ".feature_baselines.json") = files[base].run
        /\ RunOf(w, "") = files[main].run /\ RunOf(w, "")' = files'[main].run
    BY DEF RunOf, BaselineAt, There, Readable
  <2>2. /\ main \in DOMAIN files' <=> main \in DOMAIN files
        /\ main \in DOMAIN files => files'[main] = files[main]
    BY <1>5
  <2>3. CASE w = word
    <3>1. base \in DOMAIN files' /\ files'[base].run = run
      BY <1>1, <1>2, <2>3
    <3>2. run \notin DOMAIN finished'
      BY DEF FinishedInv
    <3>3. main \in DOMAIN files /\ files[main].kind = "classifier" => files[main].run # run
      BY DEF WrittenInv, Exit
    <3> HIDE DEF main, base
    <3>. QED BY <2>1, <2>2, <3>1, <3>2, <3>3
  <2>4. CASE w # word
    <3>1. /\ base \in DOMAIN files' <=> base \in DOMAIN files
          /\ base \in DOMAIN files => files'[base] = files[base]
      BY <1>2, <1>6, <2>4
    <3>2. /\ There(w, "", "classifier") /\ There(w, ".feature_baselines.json", "baseline")
               /\ RunOf(w, "") = RunOf(w, ".feature_baselines.json") =>
               files[base].body.feature_names = files[main].body.features
          /\ There(w, ".feature_baselines.json", "baseline")
               /\ RunOf(w, ".feature_baselines.json") \in DOMAIN finished =>
               main \in DOMAIN files /\ RunOf(w, "") >= RunOf(w, ".feature_baselines.json")
      BY DEF TrainedInv
    <3> HIDE DEF main, base
    <3>3. /\ There(w, "", "classifier")' /\ There(w, ".feature_baselines.json", "baseline")'
               /\ RunOf(w, "")' = RunOf(w, ".feature_baselines.json")' =>
               files'[base].body.feature_names = files'[main].body.features
          /\ There(w, ".feature_baselines.json", "baseline")'
               /\ RunOf(w, ".feature_baselines.json")' \in DOMAIN finished' =>
               main \in DOMAIN files' /\ RunOf(w, "")' >= RunOf(w, ".feature_baselines.json")'
      BY <2>1, <2>2, <3>1, <3>2
    <3>. QED BY <3>3 DEF main, base
  <2>. QED BY <2>3, <2>4
<1>. QED BY <1>3, <1>7 DEF TrainedInv, BaselineAt

LEMMA PutTrainedClassifier ==
  ASSUME RunsInv, TrainedInv, UNCHANGED finished,
         NEW word, NEW body, Trained(body, run), NEW whole,
         \E names : /\ files[BaselineAt(word)].body = compute_feature_baseline(run, names)
                    /\ body.features = names,
         Put(<<word, "">>, Content("classifier", body, whole))
  PROVE  TrainedInv'
<1> DEFINE content == Content("classifier", body, whole)
           put == <<word, "">>
<1>1. content.kind = "classifier" /\ content.run = run /\ content.body = body
  BY DEF Content
<1> HIDE DEF content
<1>2. /\ put \in DOMAIN files' /\ files'[put] = content
      /\ \A p \in DOMAIN files' : p = put \/ (p \in DOMAIN files /\ files'[p] = files[p])
      /\ \A p \in DOMAIN files : p \in DOMAIN files' /\ (p # put => files'[p] = files[p])
  BY PutFile DEF content
<1>3. \A p \in DOMAIN files' :
        /\ files'[p].kind = "classifier" => Trained(files'[p].body, files'[p].run)
        /\ files'[p].kind = "baseline" =>
             \E n : files'[p].body = compute_feature_baseline(files'[p].run, n)
  BY <1>1, <1>2 DEF TrainedInv
<1>4. \A w : put # BaselineAt(w) /\ (w # word => <<w, "">> # put)
  BY DEF BaselineAt
<1>5. files[BaselineAt(word)].body.feature_names = body.features
  BY BaselineNames
<1>7. ASSUME NEW w
      PROVE  /\ There(w, "", "classifier")' /\ There(w, ".feature_baselines.json", "baseline")'
                  /\ RunOf(w, "")' = RunOf(w, ".feature_baselines.json")' =>
                  files'[BaselineAt(w)].body.feature_names = files'[<<w, "">>].body.features
             /\ There(w, ".feature_baselines.json", "baseline")'
                  /\ RunOf(w, ".feature_baselines.json")' \in DOMAIN finished' =>
                  <<w, "">> \in DOMAIN files' /\ RunOf(w, "")' >= RunOf(w, ".feature_baselines.json")'
  <2> DEFINE main == <<w, "">>
             base == BaselineAt(w)
  <2>1. /\ There(w, "", "classifier")' <=> main \in DOMAIN files' /\ files'[main].kind = "classifier"
        /\ There(w, "", "classifier") <=> main \in DOMAIN files /\ files[main].kind = "classifier"
        /\ There(w, ".feature_baselines.json", "baseline")' <=> base \in DOMAIN files' /\ files'[base].kind = "baseline"
        /\ There(w, ".feature_baselines.json", "baseline") <=> base \in DOMAIN files /\ files[base].kind = "baseline"
        /\ RunOf(w, ".feature_baselines.json")' = files'[base].run
        /\ RunOf(w, ".feature_baselines.json") = files[base].run
        /\ RunOf(w, "") = files[main].run /\ RunOf(w, "")' = files'[main].run
    BY DEF RunOf, BaselineAt, There, Readable
  <2>2. base # put /\ (w # word => main # put) /\ (w = word => main = put)
    BY <1>4
  <2>3. base = BaselineAt(w)
    OBVIOUS
  <2>4. /\ There(w, "", "classifier") /\ There(w, ".feature_baselines.json", "baseline")
             /\ RunOf(w, "") = RunOf(w, ".feature_baselines.json") =>
             files[base].body.feature_names = files[main].body.features
        /\ There(w, ".feature_baselines.json", "baseline")
             /\ RunOf(w, ".feature_baselines.json") \in DOMAIN finished =>
             main \in DOMAIN files /\ RunOf(w, "") >= RunOf(w, ".feature_baselines.json")
    BY DEF TrainedInv
  <2> HIDE DEF main, base, put
  <2>5. /\ base \in DOMAIN files' <=> base \in DOMAIN files
        /\ base \in DOMAIN files => files'[base] = files[base]
    BY <1>2, <2>2
  <2>6. CASE w = word
    <3>1. main \in DOMAIN files' /\ files'[main].run = run /\ files'[main].body = body
      BY <1>1, <1>2, <2>2, <2>6
    <3>2. base \in DOMAIN files => run >= files[base].run
      BY AnyRun
    <3>3. /\ There(w, ".feature_baselines.json", "baseline")' =>
               files'[base].body.feature_names = files'[main].body.features
          /\ There(w, ".feature_baselines.json", "baseline")' =>
               main \in DOMAIN files' /\ RunOf(w, "")' >= RunOf(w, ".feature_baselines.json")'
      BY <1>5, <2>1, <2>3, <2>5, <2>6, <3>1, <3>2
    <3>. QED BY <3>3 DEF main, base
  <2>7. CASE w # word
    <3>1. /\ main \in DOMAIN files' <=> main \in DOMAIN files
          /\ main \in DOMAIN files => files'[main] = files[main]
      BY <1>2, <2>2, <2>7
    <3>3. /\ There(w, "", "classifier")' /\ There(w, ".feature_baselines.json", "baseline")'
               /\ RunOf(w, "")' = RunOf(w, ".feature_baselines.json")' =>
               files'[base].body.feature_names = files'[main].body.features
          /\ There(w, ".feature_baselines.json", "baseline")'
               /\ RunOf(w, ".feature_baselines.json")' \in DOMAIN finished' =>
               main \in DOMAIN files' /\ RunOf(w, "")' >= RunOf(w, ".feature_baselines.json")'
      BY <2>1, <2>4, <2>5, <3>1
    <3>. QED BY <3>3 DEF main, base
  <2>. QED BY <2>6, <2>7
<1>. QED BY <1>3, <1>7 DEF TrainedInv, BaselineAt

LEMMA TrainedStep == IInv /\ OInv /\ AInv /\ [Next]_vars => AInv'
<1> SUFFICES ASSUME IInv, OInv, AInv, [Next]_vars PROVE AInv'
  OBVIOUS
<1>0. StepInv /\ RunsInv /\ WrittenInv /\ FinishedInv /\ TrainedInv /\ TrainingInv /\ OutputsInv
  BY DEF IInv, ProcessInv, OInv, AInv
<1>1. ASSUME UNCHANGED <<files, finished>> PROVE TrainedInv'
  BY <1>0, <1>1 DEF TrainedInv, There, Readable, RunOf, BaselineAt
<1>2. ASSUME UNCHANGED <<run, mode, step, config, args, files, finished, m_classifier>> PROVE AInv'
  <2>1. TrainingInv'
    BY <1>0, <1>2 DEF TrainingInv, feature_names, feature_baseline_path, Beside
  <2>. QED BY <1>1, <1>2, <2>1 DEF AInv
<1>3. ASSUME mode' = "none", TrainedInv' PROVE AInv'
  BY <1>3 DEF AInv, TrainingInv
\* A step with nothing to do with training.
<1>4. ASSUME mode # "none", step \notin {"train", "manifest", "baseline", "save", Exit}, GoOn, TrainedInv'
      PROVE  AInv'
  <2>1. TrainingInv'
    <3>1. CASE mode # "training"
      BY <1>4, <3>1 DEF GoOn, TrainingInv
    <3>2. CASE mode = "training"
      <4>1. step \in {"configure", "startup", "ingest", "reference"}
        BY <1>0, <1>4, <3>2 DEF StepInv, TrainingSteps
      <4>2. step' \notin {"manifest", "baseline", "save", Exit}
        BY <3>2, <4>1, <1>4 DEF GoOn, NextStep, TrainingOrder, Exit
      <4>. QED BY <4>2 DEF TrainingInv, Exit
    <3>. QED BY <3>1, <3>2
  <2>. QED BY <1>4, <2>1 DEF AInv
\* A file that is put there by another step, or the manifest.
<1>5. ASSUME mode # "none", step \notin {"train", "baseline", "save", Exit}, NEW path, NEW kind,
             kind \notin {"classifier", "baseline"}, NEW body, NEW whole,
             Put(path, Content(kind, body, whole)),
             \/ GoOn /\ UNCHANGED m_classifier
             \/ End /\ UNCHANGED finished
      PROVE  AInv'
  <2>1. finished' = finished
    BY <1>5 DEF GoOn
  <2>2. TrainedInv'
    BY <1>0, <1>5, <2>1, PutAny
  <2>3. CASE End
    BY <1>3, <2>2, <2>3 DEF End
  <2>4. CASE GoOn /\ UNCHANGED m_classifier
    <3>1. CASE step = "manifest" /\ mode = "training"
      <4>1. step' = "baseline"
        BY <2>4, <3>1, TrainingSequence DEF GoOn
      <4>2. TrainingInv'
        BY <1>0, <2>4, <3>1, <4>1 DEF TrainingInv, GoOn, feature_names, Exit
      <4>. QED BY <2>2, <4>2 DEF AInv
    <3>2. CASE mode # "training"
      BY <2>2, <2>4, <3>2 DEF GoOn, TrainingInv, AInv
    <3>. QED BY <1>4, <1>5, <2>2, <2>4, <3>1, <3>2
  <2>. QED BY <1>5, <2>3, <2>4
<1>6. ASSUME mode # "none", step \notin {"train", "baseline", "save", Exit}, NEW path, NEW kind,
             kind \notin {"classifier", "baseline"}, NEW body, Write(path, kind, body)
      PROVE  AInv'
  BY <1>5, <1>6 DEF Write, memory, models
<1>7. CASE UNCHANGED vars
  BY <1>2, <1>7 DEF vars, process, memory, models
<1>8. CASE Decline
  BY <1>2, <1>8 DEF Decline, process, memory, models
<1>9. CASE Start
  BY <1>1, <1>9 DEF Start, AInv, TrainingInv, Exit
<1>10. CASE Configure
  BY <1>1, <1>10 DEF Configure, AInv, TrainingInv, Exit
<1>11. CASE CommonStartup
  BY <1>1, <1>4, <1>11 DEF CommonStartup, Running, Exit, GoOn
<1>12. CASE Ingest
  BY <1>1, <1>4, <1>12 DEF Ingest, Running, Exit, GoOn
<1>13. CASE LoadReference
  BY <1>1, <1>4, <1>13 DEF LoadReference, Running, Exit, GoOn
<1>14. CASE CalculateReference
  BY <1>1, <1>4, <1>14 DEF CalculateReference, Calculates, Running, Exit, GoOn
<1>15. CASE CalculateAndSaveReference
  <2>1. mode # "none" /\ step \notin {"train", "baseline", "save", Exit}
    BY <1>15 DEF CalculateAndSaveReference, Calculates, Running, Exit
  <2>. QED BY <1>5, <1>15, <2>1 DEF CalculateAndSaveReference, models
<1>16. CASE TrainClassifier
  <2>1. /\ GoOn /\ files' = files /\ step = "train" /\ mode # "none"
        /\ Trained(m_classifier'[1], run) /\ m_classifier'[1].features = feature_names
    BY <1>16 DEF TrainClassifier, Running, Some, Trained
  <2>2. mode = "training" /\ step' = "manifest"
    <3>1. mode = "training"
      BY <1>0, <2>1 DEF StepInv, PredictionSteps, GroundTruthSteps, Exit
    <3>. QED BY <2>1, <3>1, TrainingSequence DEF GoOn
  <2>3. TrainingInv'
    BY <2>1, <2>2 DEF TrainingInv, GoOn, feature_names, Exit
  <2>. QED BY <1>1, <2>1, <2>3 DEF AInv, GoOn
<1>17. CASE WriteTrainingManifest
  BY <1>6, <1>17 DEF WriteTrainingManifest, Running, Exit
<1>18. CASE SaveBaseline
  <2> DEFINE body == compute_feature_baseline(run, feature_names)
             word == args.paths["-c"]
  <2>1. mode = "training" /\ step = "baseline" /\ Write(feature_baseline_path, "baseline", body)
    BY <1>0, <1>18 DEF SaveBaseline, Running, StepInv, PredictionSteps, GroundTruthSteps, Exit
  <2>2. feature_baseline_path = BaselineAt(word)
    BY DEF feature_baseline_path, Beside, BaselineAt
  <2>3. PICK whole \in BOOLEAN :
          /\ Put(feature_baseline_path, Content("baseline", body, whole))
          /\ (GoOn /\ UNCHANGED memory) \/ (End /\ UNCHANGED finished)
    BY <2>1 DEF Write
  <2>4. finished' = finished
    BY <2>3 DEF GoOn
  <2>5. TrainedInv'
    BY <1>0, <2>1, <2>2, <2>3, <2>4, PutTrainedBaseline
  <2>6. CASE End
    BY <1>3, <2>5, <2>6 DEF End
  <2>7. CASE GoOn /\ UNCHANGED memory
    <3>1. /\ mode' = mode /\ step' = "save" /\ run' = run /\ config' = config /\ args' = args
          /\ m_classifier' = m_classifier
      BY <2>1, <2>7, TrainingSequence DEF GoOn, memory, models
    <3>2. files'[feature_baseline_path].body = body
      BY <2>3, PutFile DEF Content
    <3>3. feature_baseline_path' = feature_baseline_path /\ feature_names' = feature_names
      BY <3>1 DEF feature_baseline_path, Beside, feature_names
    <3> HIDE DEF body, word
    <3>4. Trained(m_classifier'[1], run) /\ m_classifier'[1].features = feature_names'
      BY <1>0, <2>1, <3>1, <3>3 DEF TrainingInv
    <3>5. TrainingInv'
      BY <3>1, <3>2, <3>3, <3>4 DEF TrainingInv, body
    <3>. QED BY <2>5, <3>5 DEF AInv
  <2>. QED BY <2>3, <2>6, <2>7
<1>19. CASE SaveClassifier
  <2> DEFINE word == args.paths["-c"]
  <2>1. mode = "training" /\ step = "save"
    BY <1>0, <1>19 DEF SaveClassifier, Running, StepInv, PredictionSteps, GroundTruthSteps, Exit
  <2>2. PICK whole \in BOOLEAN :
          /\ Put(<<word, "">>, Content("classifier", m_classifier[1], whole))
          /\ (GoOn /\ UNCHANGED memory) \/ (End /\ UNCHANGED finished)
    BY <1>19 DEF SaveClassifier, Write, File
  <2>3. finished' = finished
    BY <2>2 DEF GoOn
  <2>4. /\ Trained(m_classifier[1], run) /\ m_classifier[1].features = feature_names
        /\ files[BaselineAt(word)].body = compute_feature_baseline(run, feature_names)
    BY <1>0, <2>1 DEF TrainingInv, feature_baseline_path, Beside, BaselineAt
  <2> HIDE DEF word
  <2>5. TrainedInv'
    BY <1>0, <2>2, <2>3, <2>4, PutTrainedClassifier
  <2>6. CASE End
    BY <1>3, <2>5, <2>6 DEF End
  <2>7. CASE GoOn /\ UNCHANGED memory
    <3>1. /\ mode' = mode /\ step' = Exit /\ run' = run /\ config' = config /\ args' = args
          /\ m_classifier' = m_classifier
      BY <2>1, <2>7, TrainingSequence DEF GoOn, memory, models
    <3>2. feature_baseline_path' = BaselineAt(word) /\ feature_names' = feature_names
      BY <3>1 DEF feature_baseline_path, Beside, feature_names, BaselineAt, word
    <3>3. files'[BaselineAt(word)] = files[BaselineAt(word)]
      <4>1. BaselineAt(word) # <<word, "">> /\ BaselineAt(word) \in DOMAIN files
        <5>1. Own(feature_baseline_path)
          BY <1>0, <2>1 DEF OutputsInv, WrittenByTraining
        <5>. QED BY <5>1 DEF Own, BaselineAt, feature_baseline_path, Beside, word
      <4>. QED BY <2>2, <4>1, PutFile
    <3>4. TrainingInv'
      BY <2>4, <3>1, <3>2, <3>3 DEF TrainingInv
    <3>. QED BY <2>5, <3>4 DEF AInv
  <2>. QED BY <2>2, <2>6, <2>7
<1>20. CASE LoadClassifier
  BY <1>1, <1>4, <1>20 DEF LoadClassifier, Running, Exit, GoOn
<1>21. CASE LoadBaseline
  BY <1>1, <1>4, <1>21 DEF LoadBaseline, Running, Exit, GoOn
<1>22. CASE Predict
  BY <1>1, <1>4, <1>22 DEF Predict, Running, Exit, GoOn
<1>23. CASE WriteScores
  BY <1>6, <1>23 DEF WriteScores, Running, Exit
<1>24. CASE WriteExplanations
  BY <1>6, <1>24 DEF WriteExplanations, Running, Exit
<1>25. CASE LoadServices
  BY <1>1, <1>4, <1>25 DEF LoadServices, Running, Exit, GoOn
<1>26. CASE WritePositives
  <2>1. mode # "none" /\ step \notin {"train", "baseline", "save", Exit}
    BY <1>26 DEF WritePositives, Running, Exit
  <2>. QED BY <1>5, <1>26, <2>1 DEF WritePositives, models
<1>27. CASE WriteMetrics
  BY <1>6, <1>27 DEF WriteMetrics, Running, Exit
<1>28. CASE WritePredictionManifest
  BY <1>6, <1>28 DEF WritePredictionManifest, Running, Exit
<1>29. CASE PassOver
  <2>1. /\ mode # "none" /\ step \in Optional /\ GoOn /\ files' = files /\ m_classifier' = m_classifier
    BY <1>29 DEF PassOver, memory, models
  <2>2. CASE step # "manifest"
    BY <1>1, <1>4, <2>1, <2>2 DEF Optional, Exit, GoOn
  <2>3. CASE step = "manifest"
    <3>1. mode = "training" => step' = "baseline"
      BY <2>1, <2>3, TrainingSequence DEF GoOn
    <3>2. TrainingInv'
      BY <1>0, <2>1, <2>3, <3>1 DEF TrainingInv, GoOn, feature_names, Exit
    <3>. QED BY <1>1, <2>1, <3>2 DEF AInv, GoOn
  <2>. QED BY <2>2, <2>3
<1>30. CASE Finish
  <2>1. /\ step = Exit /\ mode # "none" /\ mode' = "none" /\ files' = files
        /\ DOMAIN finished' = DOMAIN finished \cup {run}
    BY <1>30 DEF Finish, End, Running
  <2>2. ASSUME NEW word, There(word, ".feature_baselines.json", "baseline"),
               RunOf(word, ".feature_baselines.json") = run
        PROVE  <<word, "">> \in DOMAIN files /\ RunOf(word, "") = run
    <3>1. Own(BaselineAt(word))
      BY <2>2 DEF There, Readable, RunOf, Own, BaselineAt
    <3>2. mode = "training"
      <4>1. CASE mode = "prediction"
        <5>1. WrittenByPrediction(BaselineAt(word))
          BY <1>0, <3>1, <4>1 DEF OutputsInv
        <5>. QED BY <5>1 DEF WrittenByPrediction, BaselineAt, File, Beside, Manifest
      <4>2. CASE mode = "ground truth"
        <5>1. BaselineAt(word) = File("-G")
          BY <1>0, <3>1, <4>2 DEF OutputsInv
        <5>. QED BY <5>1 DEF BaselineAt, File
      <4>. QED BY <1>0, <2>1, <4>1, <4>2 DEF StepInv
    <3>3. WrittenByTraining(BaselineAt(word))
      BY <1>0, <3>1, <3>2 DEF OutputsInv
    <3>4. word = args.paths["-c"]
      BY <3>3 DEF WrittenByTraining, BaselineAt, File, Beside, Manifest, feature_baseline_path
    <3>5. WrittenByTraining(File("-c"))
      BY <2>1 DEF WrittenByTraining
    <3>6. Own(File("-c"))
      BY <1>0, <3>2, <3>5 DEF OutputsInv
    <3>. QED BY <3>4, <3>6 DEF Own, File, RunOf
  <2>3. ASSUME NEW word
        PROVE  There(word, ".feature_baselines.json", "baseline")
                 /\ RunOf(word, ".feature_baselines.json") \in DOMAIN finished' =>
                 <<word, "">> \in DOMAIN files /\ RunOf(word, "") >= RunOf(word, ".feature_baselines.json")
    BY <1>0, <2>1, <2>2, SameRun DEF TrainedInv
  <2>4. TrainedInv'
    BY <1>0, <2>1, <2>3 DEF TrainedInv, There, Readable, RunOf, BaselineAt
  <2>. QED BY <1>3, <2>1, <2>4
<1>31. CASE Stop
  BY <1>1, <1>3, <1>31 DEF Stop, End
<1>. QED
  BY <1>7, <1>8, <1>9, <1>10, <1>11, <1>12, <1>13, <1>14, <1>15, <1>16, <1>17, <1>18, <1>19, <1>20,
     <1>21, <1>22, <1>23, <1>24, <1>25, <1>26, <1>27, <1>28, <1>29, <1>30, <1>31 DEF Next

LEMMA TrainedInitially == Init => AInv
BY InitialFilesAssumption DEF Init, AInv, TrainedInv, TrainingInv, There, Readable, RunOf

-----------------------------------------------------------------------------
(* What is selected of a sequence, in its order.                            *)

(* A set of natural numbers has a least element.                            *)
LEMMA LeastNumber ==
  ASSUME NEW T \in SUBSET Nat, T # {}
  PROVE  \E n \in T : \A m \in T : n <= m
<1> DEFINE R == OpToRel(<, Nat)
<1>1. IsWellFoundedOn(R, Nat)
  BY NatLessThanWellFounded
<1>2. \A m, k \in Nat : m < k => <<m, k>> \in R
  BY DEF OpToRel
<1> HIDE DEF R
<1>3. PICK n \in T : \A m \in T : <<m, n>> \notin R
  BY <1>1, WFMin
<1>4. ASSUME NEW m \in T PROVE n <= m
  <2>1. m \in Nat /\ n \in Nat
    OBVIOUS
  <2>2. ~(m < n)
    BY <1>2, <1>3, <2>1
  <2>. QED BY <2>1, <2>2
<1>. QED BY <1>4

\* What Selected computes for each length of a beginning of the sequence.
Chooses(f, seq, S, m) ==
  f = [n \in 0..m |-> IF n = 0 THEN << >>
                      ELSE IF n \in S THEN Append(f[n - 1], seq[n])
                      ELSE f[n - 1]]

LEMMA ChoosesExists ==
  ASSUME NEW seq, NEW S, NEW m \in Nat
  PROVE  \E f : Chooses(f, seq, S, m)
<1> DEFINE Bad == {k \in Nat : ~\E f : Chooses(f, seq, S, k)}
<1>1. SUFFICES ASSUME Bad # {} PROVE FALSE
  OBVIOUS
<1>2. PICK k \in Bad : \A j \in Bad : k <= j
  BY <1>1, LeastNumber
<1>3. CASE k = 0
  <2> DEFINE f == [n \in 0..0 |-> << >>]
  <2>1. Chooses(f, seq, S, 0)
    BY DEF Chooses
  <2>. QED BY <1>2, <1>3, <2>1
<1>4. CASE k # 0
  <2>1. k - 1 \in Nat /\ k - 1 \notin Bad
    BY <1>2, <1>4
  <2>2. PICK f : Chooses(f, seq, S, k - 1)
    BY <2>1
  <2> DEFINE last == IF k \in S THEN Append(f[k - 1], seq[k]) ELSE f[k - 1]
             g == [n \in 0..k |-> IF n = k THEN last ELSE f[n]]
  <2>3. \A n \in 0..(k - 1) :
          f[n] = IF n = 0 THEN << >> ELSE IF n \in S THEN Append(f[n - 1], seq[n]) ELSE f[n - 1]
    BY <2>2 DEF Chooses
  <2>4. \A n \in 0..k : n # k => n \in 0..(k - 1) /\ g[n] = f[n]
    BY <2>1
  <2>5. g[k] = last /\ \A n \in 0..k : n # 0 => n - 1 \in 0..(k - 1) /\ g[n - 1] = f[n - 1]
    BY <1>4, <2>1
  <2> HIDE DEF last
  <2>6. \A n \in 0..k :
          g[n] = IF n = 0 THEN << >> ELSE IF n \in S THEN Append(g[n - 1], seq[n]) ELSE g[n - 1]
    BY <1>4, <2>1, <2>3, <2>4, <2>5 DEF last
  <2>7. Chooses(g, seq, S, k)
    BY <2>6 DEF Chooses
  <2>. QED BY <1>2, <2>7
<1>. QED BY <1>3, <1>4

LEMMA SelectedIsChosen ==
  ASSUME NEW seq, NEW S, Len(seq) \in Nat
  PROVE  \E f : Chooses(f, seq, S, Len(seq)) /\ Selected(seq, S) = f[Len(seq)]
<1> DEFINE f == CHOOSE f : Chooses(f, seq, S, Len(seq))
<1>1. Chooses(f, seq, S, Len(seq))
  BY ChoosesExists
<1>2. Selected(seq, S) = f[Len(seq)]
  BY DEF Selected, Chooses
<1>. QED BY <1>1, <1>2

\* at lists the positions S in their order.
Enumerates(at, m, S) ==
  /\ m \in Nat /\ at \in [1..m -> S]
  /\ \A n \in S : \E k \in 1..m : at[k] = n
  /\ \A j, k \in 1..m : j < k => at[j] < at[k]

\* The elements at the first m of the positions that are listed.
Taken(seq, at, m) == [k \in 1..m |-> seq[at[k]]]

(* What is selected from two sequences at the same positions.               *)
LEMMA SelectedTogether ==
  ASSUME NEW A, NEW B, NEW s \in Seq(A), NEW t \in Seq(B), Len(s) = Len(t),
         NEW S \in SUBSET (1..Len(s))
  PROVE  \E m, at : /\ Enumerates(at, m, S)
                    /\ Selected(s, S) = Taken(s, at, m)
                    /\ Selected(t, S) = Taken(t, at, m)
<1> DEFINE L == Len(s)
<1>1. L \in Nat /\ \A n \in 1..L : s[n] \in A /\ t[n] \in B
  OBVIOUS
<1>2. PICK f : Chooses(f, s, S, L) /\ Selected(s, S) = f[L]
  BY <1>1, SelectedIsChosen
<1>3. PICK g : Chooses(g, t, S, L) /\ Selected(t, S) = g[L]
  BY <1>1, SelectedIsChosen
<1> DEFINE To(n) == S \cap (1..n)
           Suits(n) == \E m, at : /\ Enumerates(at, m, To(n))
                                 /\ f[n] = Taken(s, at, m)
                                 /\ g[n] = Taken(t, at, m)
           Bad == {n \in 0..L : ~Suits(n)}
<1> HIDE DEF L
<1>4. \A n \in 0..L :
        /\ f[n] = IF n = 0 THEN << >> ELSE IF n \in S THEN Append(f[n - 1], s[n]) ELSE f[n - 1]
        /\ g[n] = IF n = 0 THEN << >> ELSE IF n \in S THEN Append(g[n - 1], t[n]) ELSE g[n - 1]
  BY <1>2, <1>3 DEF Chooses
<1>5. Suits(0)
  <2> DEFINE at == [k \in 1..0 |-> 0]
  <2>1. Enumerates(at, 0, To(0))
    BY DEF Enumerates
  <2>2. f[0] = << >> /\ g[0] = << >>
    BY <1>1, <1>4
  <2>3. Taken(s, at, 0) = << >> /\ Taken(t, at, 0) = << >>
    BY DEF Taken
  <2> HIDE DEF at
  <2>. QED BY <2>1, <2>2, <2>3
<1>6. ASSUME NEW n \in 1..L, Suits(n - 1)
      PROVE  Suits(n)
  <2>1. PICK m, at : /\ Enumerates(at, m, To(n - 1))
                     /\ f[n - 1] = Taken(s, at, m)
                     /\ g[n - 1] = Taken(t, at, m)
    BY <1>6
  <2>2. n \in Nat /\ n # 0 /\ n \in 0..L
    BY <1>1
  <2>3. CASE n \notin S
    <3>1. To(n) = To(n - 1)
      BY <2>2, <2>3
    <3>2. f[n] = f[n - 1] /\ g[n] = g[n - 1]
      BY <1>4, <2>2, <2>3
    <3>. QED BY <2>1, <3>1, <3>2
  <2>4. CASE n \in S
    <3> DEFINE at2 == [k \in 1..(m + 1) |-> IF k = m + 1 THEN n ELSE at[k]]
    <3>1. m \in Nat /\ \A k \in 1..m : at[k] \in S /\ at[k] \in 1..(n - 1)
      BY <2>1 DEF Enumerates
    <3>2. To(n) = To(n - 1) \cup {n}
      BY <2>2, <2>4
    <3>3. at2[m + 1] = n /\ \A k \in 1..m : at2[k] = at[k]
      BY <3>1
    <3>4. Enumerates(at2, m + 1, To(n))
      <4>1. at2 \in [1..(m + 1) -> To(n)]
        BY <3>1, <2>2, <2>4
      <4>2. \A x \in To(n) : \E k \in 1..(m + 1) : at2[k] = x
        <5>1. SUFFICES ASSUME NEW x \in To(n) PROVE \E k \in 1..(m + 1) : at2[k] = x
          OBVIOUS
        <5>2. CASE x = n
          <6>1. m + 1 \in 1..(m + 1)
            BY <3>1
          <6>. QED BY <3>3, <5>2, <6>1
        <5>3. CASE x \in To(n - 1)
          <6>1. PICK k \in 1..m : at[k] = x
            BY <2>1, <5>3 DEF Enumerates
          <6>2. k \in 1..(m + 1) /\ at2[k] = x
            BY <3>1, <3>3, <6>1
          <6>. QED BY <6>2
        <5>. QED BY <3>2, <5>1, <5>2, <5>3
      <4>3. \A j, k \in 1..(m + 1) : j < k => at2[j] < at2[k]
        <5>1. SUFFICES ASSUME NEW j \in 1..(m + 1), NEW k \in 1..(m + 1), j < k
                       PROVE  at2[j] < at2[k]
          OBVIOUS
        <5>2. j \in 1..m /\ at2[j] = at[j] /\ at[j] \in 1..(n - 1)
          BY <3>1, <3>3, <5>1
        <5>3. CASE k = m + 1
          BY <2>2, <3>3, <5>2, <5>3
        <5>4. CASE k # m + 1
          <6>1. k \in 1..m /\ at2[k] = at[k]
            BY <3>1, <3>3, <5>4
          <6>. QED BY <2>1, <5>1, <5>2, <6>1 DEF Enumerates
        <5>. QED BY <5>3, <5>4
      <4>. QED BY <3>1, <4>1, <4>2, <4>3 DEF Enumerates
    <3> HIDE DEF at2
    <3>5. ASSUME NEW C, NEW q \in Seq(C), NEW h, Len(q) = L, h = Taken(q, at, m)
          PROVE  Append(h, q[n]) = Taken(q, at2, m + 1)
      <4>1. \A k \in 1..m : q[at[k]] \in C
        BY <1>1, <3>1, <3>5 DEF L
      <4>2. h \in Seq(C) /\ Len(h) = m
        BY <3>1, <3>5, <4>1 DEF Taken
      <4>3. q[n] \in C
        BY <1>1, <2>2, <3>5
      <4>4. /\ DOMAIN Append(h, q[n]) = 1..(m + 1)
            /\ \A k \in 1..m : Append(h, q[n])[k] = h[k]
            /\ Append(h, q[n])[m + 1] = q[n]
        BY <4>2, <4>3, <3>1
      <4>5. \A k \in 1..(m + 1) : Append(h, q[n])[k] = q[at2[k]]
        BY <3>1, <3>3, <3>5, <4>4 DEF Taken
      <4>6. Append(h, q[n]) = [k \in 1..(m + 1) |-> Append(h, q[n])[k]]
        BY <3>1, <4>2, <4>3, <4>4
      <4>. QED BY <4>5, <4>6 DEF Taken
    <3>6. f[n] = Append(f[n - 1], s[n]) /\ g[n] = Append(g[n - 1], t[n])
      BY <1>4, <2>2, <2>4
    <3>7. f[n] = Taken(s, at2, m + 1) /\ g[n] = Taken(t, at2, m + 1)
      BY <2>1, <3>5, <3>6 DEF L
    <3>. QED BY <3>4, <3>7
  <2>. QED BY <2>3, <2>4
<1> HIDE DEF Suits
<1>7. Suits(L)
  <2>1. SUFFICES ASSUME Bad # {} PROVE FALSE
    BY <1>1
  <2>2. PICK n \in Bad : \A j \in Bad : n <= j
    <3>1. Bad \in SUBSET Nat
      BY <1>1
    <3>. QED BY <2>1, <3>1, LeastNumber
  <2>3. n # 0
    BY <1>5, <2>2
  <2>4. n \in 1..L /\ n - 1 \in 0..L /\ n - 1 \notin Bad
    BY <1>1, <2>2, <2>3
  <2>. QED BY <1>6, <2>2, <2>4
<1>8. To(L) = S
  BY <1>1 DEF L
<1>. QED BY <1>2, <1>3, <1>7, <1>8 DEF Suits

LEMMA SelectedAlone ==
  ASSUME NEW A, NEW s \in Seq(A), NEW S \in SUBSET (1..Len(s))
  PROVE  \E m, at : Enumerates(at, m, S) /\ Selected(s, S) = Taken(s, at, m)
<1>1. Len(s) = Len(s)
  OBVIOUS
<1>2. \E m, at : /\ Enumerates(at, m, S)
                 /\ Selected(s, S) = Taken(s, at, m)
                 /\ Selected(s, S) = Taken(s, at, m)
  BY <1>1, SelectedTogether, SMT
<1>. QED BY <1>2

-----------------------------------------------------------------------------
(* What one step does.                                                      *)

(* A process past its configuration goes on or ends, and only one step      *)
(* reads the ports of the services, and one of a mode makes its classifier. *)
LEMMA Continues ==
  ASSUME [Next]_vars, ~(Configure \/ Start \/ UNCHANGED vars \/ Decline)
  PROVE  /\ (mode # "none" /\ step \notin {"configure", Exit} /\ GoOn) \/ End
         /\ ~LoadServices => UNCHANGED port_config \/ End
         /\ ~(TrainClassifier \/ LoadClassifier) => UNCHANGED m_classifier \/ End
<1>1. CASE CommonStartup \/ Ingest \/ LoadReference \/ CalculateReference
  BY <1>1 DEF CommonStartup, Ingest, LoadReference, CalculateReference, Calculates, Running, Exit, memory, models
<1>2. CASE TrainClassifier \/ LoadClassifier \/ LoadBaseline \/ Predict \/ LoadServices
  BY <1>2 DEF TrainClassifier, LoadClassifier, LoadBaseline, Predict, LoadServices, Running, Exit, models
<1>3. CASE CalculateAndSaveReference \/ WritePositives
  BY <1>3 DEF CalculateAndSaveReference, Calculates, WritePositives, Running, Exit, models
<1>4. ASSUME NEW path, NEW kind, NEW body, Write(path, kind, body)
      PROVE  (GoOn /\ UNCHANGED <<port_config, m_classifier>>) \/ End
  BY <1>4 DEF Write, memory, models
<1>5. CASE WriteTrainingManifest \/ SaveBaseline \/ WriteScores
  BY <1>4, <1>5 DEF WriteTrainingManifest, SaveBaseline, WriteScores, Running, Exit
<1>6. CASE WriteExplanations \/ WriteMetrics \/ WritePredictionManifest
  BY <1>4, <1>6 DEF WriteExplanations, WriteMetrics, WritePredictionManifest, Running, Exit
<1>7. CASE SaveClassifier
  BY <1>4, <1>7 DEF SaveClassifier, Running, Exit, memory, models
<1>8. CASE PassOver
  BY <1>8 DEF PassOver, Optional, Exit, memory, models
<1>9. CASE Finish
  BY <1>9 DEF Finish, Running, Exit
<1>10. CASE Stop
  BY <1>10 DEF Stop
<1>. QED BY <1>1, <1>2, <1>3, <1>5, <1>6, <1>7, <1>8, <1>9, <1>10 DEF Next

(* A step writes one file or none, and one step of all writes a classifier. *)
LEMMA OneFile ==
  ASSUME [Next]_vars, ~Finish
  PROVE  /\ finished' = finished
         /\ \/ files' = files
            \/ /\ mode # "none"
               /\ \E path, kind, body, whole :
                    /\ Put(path, Content(kind, body, whole))
                    /\ kind = "classifier" => SaveClassifier /\ body = m_classifier[1]
<1>1. CASE UNCHANGED vars \/ Decline \/ Start \/ Configure \/ CommonStartup \/ Ingest \/ LoadReference
  BY <1>1 DEF vars, Decline, Start, Configure, CommonStartup, Ingest, LoadReference, GoOn
<1>2. CASE \/ CalculateReference \/ TrainClassifier \/ LoadClassifier \/ LoadBaseline \/ Predict \/ LoadServices
           \/ PassOver \/ Stop
  BY <1>2 DEF CalculateReference, TrainClassifier, LoadClassifier, LoadBaseline, Predict, LoadServices,
              PassOver, Stop, GoOn
<1> DEFINE Writing == /\ mode # "none"
                      /\ \E path, kind, body, whole :
                           /\ Put(path, Content(kind, body, whole))
                           /\ kind = "classifier" => SaveClassifier /\ body = m_classifier[1]
<1>3. ASSUME NEW path, NEW kind, NEW body, NEW whole, Put(path, Content(kind, body, whole)), mode # "none",
             kind = "classifier" => SaveClassifier /\ body = m_classifier[1]
      PROVE  Writing
  BY <1>3
<1> HIDE DEF Writing
<1>4. ASSUME mode # "none", NEW path, NEW kind, NEW body, Write(path, kind, body),
             kind = "classifier" => SaveClassifier /\ body = m_classifier[1]
      PROVE  finished' = finished /\ Writing
  <2>1. finished' = finished
    BY <1>4 DEF Write, GoOn
  <2>2. \E whole : Put(path, Content(kind, body, whole))
    BY <1>4 DEF Write
  <2>. QED BY <1>3, <1>4, <2>1, <2>2
<1>5. CASE WriteTrainingManifest \/ SaveBaseline \/ WriteScores \/ WriteExplanations \/ WriteMetrics
           \/ WritePredictionManifest
  <2>1. /\ mode # "none"
        /\ \E path, body : \E kind \in {"manifest", "baseline", "scores", "explanations", "metrics"} :
             Write(path, kind, body)
    BY <1>5 DEF WriteTrainingManifest, SaveBaseline, WriteScores, WriteExplanations, WriteMetrics,
                WritePredictionManifest, Running
  <2>. QED BY <1>4, <2>1 DEF Writing
<1>6. CASE SaveClassifier
  <2>1. mode # "none"
    BY <1>6 DEF SaveClassifier, Running
  <2>2. CASE Write(File("-c"), "classifier", m_classifier[1])
    BY <1>4, <1>6, <2>1, <2>2 DEF Writing
  <2>3. CASE Put(File("-c"), Content("classifier", m_classifier[1], FALSE)) /\ GoOn /\ UNCHANGED memory
    BY <1>3, <1>6, <2>1, <2>3 DEF GoOn, Writing
  <2>. QED BY <1>6, <2>2, <2>3 DEF SaveClassifier
<1>7. CASE CalculateAndSaveReference
  <2>1. /\ mode # "none" /\ finished' = finished
        /\ \E whole : Put(File("-G"), Content("reference", Calculated, whole))
    BY <1>7 DEF CalculateAndSaveReference, Calculates, Running, GoOn
  <2>. QED BY <1>3, <2>1 DEF Writing
<1>8. CASE WritePositives
  <2>1. /\ mode # "none" /\ finished' = finished
        /\ \E body, whole : Put(File("-o"), Content("positives", body, whole))
    BY <1>8 DEF WritePositives, Running, GoOn
  <2>. QED BY <1>3, <2>1 DEF Writing
<1>. QED BY <1>1, <1>2, <1>5, <1>6, <1>7, <1>8 DEF Next, Writing

(* The steps that make a classifier are not passed over.                    *)
LEMMA MakesClassifier ==
  ASSUME Next, ~(Decline \/ Start \/ Configure), mode # "none", GoOn
  PROVE  /\ step = "load" => LoadClassifier
         /\ step = "train" => TrainClassifier
<1> SUFFICES ASSUME step \in {"load", "train"} PROVE LoadClassifier \/ TrainClassifier
  BY DEF LoadClassifier, TrainClassifier, Running
<1>1. ~(CommonStartup \/ Ingest \/ LoadReference \/ CalculateReference \/ CalculateAndSaveReference)
  BY DEF CommonStartup, Ingest, LoadReference, CalculateReference, CalculateAndSaveReference, Calculates, Running
<1>2. ~(WriteTrainingManifest \/ SaveBaseline \/ SaveClassifier \/ LoadBaseline \/ Predict \/ WriteScores)
  BY DEF WriteTrainingManifest, SaveBaseline, SaveClassifier, LoadBaseline, Predict, WriteScores, Running
<1>3. ~(WriteExplanations \/ LoadServices \/ WritePositives \/ WriteMetrics \/ WritePredictionManifest \/ PassOver)
  BY DEF WriteExplanations, LoadServices, WritePositives, WriteMetrics, WritePredictionManifest, PassOver, Running,
         Optional
<1>4. ~(Finish \/ Stop)
  BY DEF Finish, Stop, End, GoOn
<1>. QED BY <1>1, <1>2, <1>3, <1>4 DEF Next

-----------------------------------------------------------------------------
(* A threshold is a fraction, wherever it comes from.                       *)

\* What a configuration has for the threshold of its classifier.
ThresholdSettled(settings) ==
  /\ "CLASSIFIER_THRESHOLD" \in DOMAIN settings
  /\ settings["CLASSIFIER_THRESHOLD"] # None =>
       settings["CLASSIFIER_THRESHOLD"][1] \in Int \X (Nat \ {0})

LEMMA ThresholdParameter ==
  ConfigSchema["CLASSIFIER_THRESHOLD"] = OptionalParameter("double", "is_unit_interval")
<1> DEFINE sizes == Each("int", "is_positive", Sizes)
           switches == Each("bool", "always_true", Switches)
           both == Joined(sizes, switches)
<1>1. ConfigSchema = Joined(both, Others)
  BY DEF ConfigSchema, Others
<1>2. DOMAIN both = DOMAIN Sizes \cup DOMAIN Switches
  BY DEF Each, Joined
<1> HIDE DEF both
<1>3. /\ "CLASSIFIER_THRESHOLD" \notin DOMAIN Sizes \cup DOMAIN Switches
      /\ "CLASSIFIER_THRESHOLD" \in DOMAIN Others
      /\ Others["CLASSIFIER_THRESHOLD"] = OptionalParameter("double", "is_unit_interval")
  BY DEF Sizes, Switches, Others
<1>. QED BY <1>1, <1>2, <1>3 DEF Joined

LEMMA LoadedThreshold ==
  ASSUME NEW object, Document(object), NEW settings \in load(object)
  PROVE  ThresholdSettled(settings)
<1> DEFINE key == "CLASSIFIER_THRESHOLD"
           p == ConfigSchema[key]
           json == object[key]
<1>1. AcceptsConfig(object)
  BY DEF load
<1>2. PICK junk : settings = value_to_config(object, junk)
  BY <1>1 DEF load
<1> DEFINE plain == Updated(ConfigSchema, object, Defaults(ConfigSchema))
           nested ==
             [RF_PARAMS |-> Nested(object, "RF_PARAMS", Uninitialised(RandomForestSchema, junk)),
              GRID_PARAMS |-> Nested(object, "GRID_PARAMS", Uninitialised(GridSearchSchema, junk)),
              FEATURE_CONFIG |-> Features(Nested(object, "FEATURE_CONFIG", Defaults(FeatureSchema))),
              SERVICE_CONFIG |-> Nested(object, "SERVICE_CONFIG", Defaults(ServiceSchema))]
<1>3. settings = Joined(plain, nested)
  BY <1>2 DEF value_to_config
<1>4. DOMAIN plain = DOMAIN ConfigSchema /\ key \notin DOMAIN nested
  BY DEF Updated
<1>5. key \in DOMAIN ConfigSchema
  BY Keys
<1>6. key \in DOMAIN settings /\ settings[key] = plain[key]
  <2> HIDE DEF plain, nested, key
  <2>. QED BY <1>3, <1>4, <1>5 DEF Joined
<1>7. p.type = "double" /\ p.validator = "is_unit_interval" /\ p.optional = TRUE /\ p.default = None /\ ~IsVector(p)
  BY ThresholdParameter DEF OptionalParameter, IsVector
<1>8. plain[key] = IF key \in DOMAIN object THEN Extracted(p, json) ELSE None
  BY <1>5, <1>7 DEF Updated, Defaults
<1>9. key \in DOMAIN object => Accepts(p, json) /\ Json(json)
  BY <1>1, <1>5 DEF AcceptsConfig, AcceptsObject, Document, JsonObject
<1> HIDE DEF p, json
<1>10. ASSUME key \in DOMAIN object, Extracted(p, json) # None
       PROVE  Extracted(p, json)[1] \in Int \X (Nat \ {0})
  <2>1. json[1] # "null" /\ Extracted(p, json) = Some(json[2])
    BY <1>7, <1>10 DEF Extracted
  <2>2. json[1] = "double"
    BY <1>7, <1>9, <1>10, <2>1 DEF Accepts, is_type, Kind
  <2>. QED BY <1>9, <1>10, <2>1, <2>2 DEF Json, Scalar, Some
<1>. QED BY <1>6, <1>8, <1>10 DEF ThresholdSettled

LEMMA DefaultThreshold == ThresholdSettled(DefaultConfig)
<1> DEFINE plain == Defaults(ConfigSchema)
           nested == [RF_PARAMS |-> Defaults(RandomForestSchema), GRID_PARAMS |-> Defaults(GridSearchSchema),
                      FEATURE_CONFIG |-> AllFeatures, SERVICE_CONFIG |-> Defaults(ServiceSchema)]
<1>1. DefaultConfig = Joined(plain, nested)
  BY DEF DefaultConfig
<1>2. DOMAIN plain = DOMAIN ConfigSchema /\ "CLASSIFIER_THRESHOLD" \notin DOMAIN nested
  BY DEF Defaults
<1>3. "CLASSIFIER_THRESHOLD" \in DOMAIN ConfigSchema
  BY Keys
<1>4. plain["CLASSIFIER_THRESHOLD"] = None
  BY <1>3, ThresholdParameter DEF Defaults, OptionalParameter
<1> HIDE DEF plain, nested
<1>. QED BY <1>1, <1>2, <1>3, <1>4 DEF Joined, ThresholdSettled

LEMMA ThreadsBeside ==
  ASSUME NEW settings, ThresholdSettled(settings)
  PROVE  ThresholdSettled(WithThreads(settings))
<1>1. /\ DOMAIN WithThreads(settings) = DOMAIN settings
      /\ WithThreads(settings)["CLASSIFIER_THRESHOLD"] = settings["CLASSIFIER_THRESHOLD"]
  BY DEF WithThreads, ThresholdSettled
<1>. QED BY <1>1 DEF ThresholdSettled

HasThreshold(classifier) ==
  "threshold" \in DOMAIN classifier /\ classifier.threshold \in Int \X (Nat \ {0})

ThresholdInv == mode # "none" /\ step # "configure" => ThresholdSettled(config)

SavedInv == \A p \in DOMAIN files : files[p].kind = "classifier" => HasThreshold(files[p].body)

ClassifierInv ==
  \/ mode = "training" /\ step \in {"manifest", "baseline", "save"}
  \/ mode = "prediction" /\ step \notin {"configure", "startup", "ingest", "load"}
  => HasThreshold(m_classifier[1])

TInv == ThresholdInv /\ SavedInv /\ ClassifierInv

LEMMA ThresholdsInitially == Init => TInv
BY InitialFilesAssumption DEF Init, TInv, ThresholdInv, SavedInv, ClassifierInv

LEMMA ThresholdStep == InputsInv /\ ThresholdInv /\ [Next]_vars => ThresholdInv'
<1> SUFFICES ASSUME InputsInv, ThresholdInv, [Next]_vars PROVE ThresholdInv'
  OBVIOUS
<1>1. CASE Configure
  <2>1. PICK loaded \in Configurations : config' = WithThreads(loaded)
    BY <1>1 DEF Configure
  <2>2. ThresholdSettled(loaded)
    <3>1. CASE Has(args, {"-f"})
      <4>1. /\ File("-f") \in DOMAIN files /\ files[File("-f")].kind = "config"
            /\ loaded \in load(files[File("-f")].body)
        BY <2>1, <3>1 DEF Configurations, Readable
      <4>2. Document(files[File("-f")].body)
        BY <4>1 DEF InputsInv, Input
      <4>. QED BY <4>1, <4>2, LoadedThreshold
    <3>2. CASE ~Has(args, {"-f"})
      BY <2>1, <3>2, DefaultThreshold DEF Configurations
    <3>. QED BY <3>1, <3>2
  <2>. QED BY <2>1, <2>2, ThreadsBeside DEF ThresholdInv
<1>2. CASE Start
  BY <1>2 DEF Start, ThresholdInv
<1>3. CASE UNCHANGED vars \/ Decline
  BY <1>3 DEF vars, process, Decline, ThresholdInv
<1>4. CASE ~(Configure \/ Start \/ UNCHANGED vars \/ Decline)
  BY <1>4, Continues DEF GoOn, End, ThresholdInv
<1>. QED BY <1>1, <1>2, <1>3, <1>4

(* A classifier is saved as it was trained.                                 *)
LEMMA SavedStep == StepInv /\ SavedInv /\ ClassifierInv /\ [Next]_vars => SavedInv'
<1> SUFFICES ASSUME StepInv, SavedInv, ClassifierInv, [Next]_vars PROVE SavedInv'
  OBVIOUS
<1>1. CASE files' = files
  BY <1>1 DEF SavedInv
<1>2. ASSUME NEW path, NEW kind, NEW body, NEW whole, Put(path, Content(kind, body, whole)),
             kind = "classifier" => SaveClassifier /\ body = m_classifier[1]
      PROVE  SavedInv'
  <2>1. Content(kind, body, whole).kind = kind /\ Content(kind, body, whole).body = body
    BY DEF Content
  <2>2. ASSUME SaveClassifier PROVE HasThreshold(m_classifier[1])
    <3>1. mode # "none" /\ step = "save"
      BY <2>2 DEF SaveClassifier, Running
    <3>2. mode = "training"
      BY <3>1 DEF StepInv, PredictionSteps, GroundTruthSteps, Exit
    <3>. QED BY <3>1, <3>2 DEF ClassifierInv
  <2>3. kind = "classifier" => HasThreshold(body)
    BY <1>2, <2>2
  <2>4. ASSUME NEW p \in DOMAIN files', files'[p].kind = "classifier" PROVE HasThreshold(files'[p].body)
    <3>1. CASE p = path
      BY <1>2, <2>1, <2>3, <2>4, <3>1, PutFile
    <3>2. CASE p # path
      <4>1. p \in DOMAIN files /\ files'[p] = files[p]
        BY <1>2, <2>4, <3>2, PutFile
      <4>. QED BY <2>4, <4>1 DEF SavedInv
    <3>. QED BY <3>1, <3>2
  <2>. QED BY <2>4 DEF SavedInv
<1>3. CASE Finish
  BY <1>1, <1>3 DEF Finish
<1>4. CASE ~Finish
  BY <1>1, <1>2, <1>4, OneFile
<1>. QED BY <1>3, <1>4

LEMMA ClassifierStep == StepInv /\ TInv /\ [Next]_vars => ClassifierInv'
<1> SUFFICES ASSUME StepInv, TInv, [Next]_vars PROVE ClassifierInv'
  OBVIOUS
<1>1. CASE Configure \/ Start
  BY <1>1 DEF Configure, Start, ClassifierInv
<1>2. CASE UNCHANGED vars \/ Decline
  BY <1>2 DEF vars, process, memory, models, Decline, TInv, ClassifierInv
<1>3. CASE LoadClassifier
  <2>1. File("-c") \in DOMAIN files /\ files[File("-c")].kind = "classifier"
    BY <1>3 DEF LoadClassifier, Readable
  <2>2. HasThreshold(files[File("-c")].body)
    BY <2>1 DEF TInv, SavedInv
  <2>3. ThresholdSettled(config)
    BY <1>3 DEF LoadClassifier, Running, TInv, ThresholdInv
  <2>4. PICK classifier : classifier = files[File("-c")].body
    OBVIOUS
  <2>5. m_classifier'[1] = IF config.CLASSIFIER_THRESHOLD # None
                           THEN [classifier EXCEPT !.threshold = config.CLASSIFIER_THRESHOLD[1]]
                           ELSE classifier
    BY <1>3, <2>4 DEF LoadClassifier, Some
  <2>6. HasThreshold(m_classifier'[1])
    BY <2>2, <2>3, <2>4, <2>5 DEF HasThreshold, ThresholdSettled
  <2>. QED BY <2>6 DEF ClassifierInv
<1>4. CASE TrainClassifier
  <2>1. PICK params \in ForestParameters, threshold \in TrainedThresholds :
          m_classifier' = Some([training |-> run, features |-> feature_names, params |-> params,
                                threshold |-> threshold, scaling |-> config.USE_FEATURE_SCALING])
    BY <1>4 DEF TrainClassifier
  <2>2. ThresholdSettled(config)
    BY <1>4 DEF TrainClassifier, Running, TInv, ThresholdInv
  <2>3. threshold \in Int \X (Nat \ {0})
    BY <2>1, <2>2, ScoresAssumption DEF TrainedThresholds, ThresholdSettled
  <2>4. HasThreshold(m_classifier'[1])
    BY <2>1, <2>3 DEF HasThreshold, Some
  <2>. QED BY <2>4 DEF ClassifierInv
<1>5. CASE ~(Configure \/ Start \/ UNCHANGED vars \/ Decline) /\ ~(TrainClassifier \/ LoadClassifier)
  <2>1. CASE End
    BY <2>1 DEF End, ClassifierInv
  <2>2. CASE mode # "none" /\ GoOn /\ ~End
    <3>1. m_classifier' = m_classifier /\ step \notin {"load", "train", "configure", Exit}
      BY <1>5, <2>2, Continues, MakesClassifier
    <3>2. mode' = mode /\ step' = NextStep
      BY <2>2 DEF GoOn
    <3>3. CASE mode = "training"
      <4>1. step \in TrainingSteps
        BY <3>3 DEF StepInv
      <4>2. step' \in {"manifest", "baseline", "save"} => step \in {"manifest", "baseline"}
        BY <3>1, <3>2, <3>3, <4>1, TrainingSequence DEF TrainingSteps, Exit
      <4>. QED BY <3>1, <3>2, <3>3, <4>2 DEF TInv, ClassifierInv
    <3>4. CASE mode = "prediction"
      <4>1. step \in PredictionSteps
        BY <3>4 DEF StepInv
      <4>2. step' \notin {"configure", "startup", "ingest", "load"} =>
              step \notin {"configure", "startup", "ingest", "load"}
        BY <3>1, <3>2, <3>4, <4>1, PredictionSequence DEF PredictionSteps, Exit
      <4>. QED BY <3>1, <3>2, <3>4, <4>2 DEF TInv, ClassifierInv
    <3>5. CASE mode \notin {"training", "prediction"}
      BY <3>2, <3>5 DEF ClassifierInv
    <3>. QED BY <3>3, <3>4, <3>5
  <2>. QED BY <1>5, <2>1, <2>2, Continues
<1>. QED BY <1>1, <1>2, <1>3, <1>4, <1>5

LEMMA ThresholdsStep == StepInv /\ InputsInv /\ TInv /\ [Next]_vars => TInv'
BY ThresholdStep, SavedStep, ClassifierStep DEF TInv

-----------------------------------------------------------------------------
(* The reports of a prediction.                                             *)

\* Predictions follow from scores, and all columns have the length of the pairs.
RowsSound(rows_, threshold) ==
  /\ threshold \in Int \X (Nat \ {0})
  /\ \E size \in Nat :
       /\ DOMAIN rows_.pairs = 1..size /\ rows_.scores \in [1..size -> Int]
       /\ rows_.predictions = [k \in 1..size |-> Positive(rows_.scores[k], threshold)]
       /\ rows_.labels # None => rows_.labels[1] \in [1..size -> BOOLEAN]

\* The positions of the positive predictions.
PositivesOf(rows_) ==
  Selected([i \in DOMAIN rows_.pairs |-> i], {i \in DOMAIN rows_.pairs : rows_.predictions[i]})

TellsScores(body, rows_) ==
  body = write_pair_scores(rows_.pairs, rows_.predictions, rows_.scores, rows_.labels)

TellsExplanations(body, rows_, baseline, asked) ==
  LET names == get_feature_names(asked.FEATURE_CONFIG)
  IN  /\ validate_feature_baseline(baseline, names)
      /\ body = write_prediction_explanations(rows_.pairs, rows_.predictions, rows_.scores,
                                              explain_with_group_ablation(names, baseline), rows_.labels)

TellsPositives(body, rows_) ==
  \E flows, ports, services :
    body = write_positive_predictions(rows_.pairs, rows_.predictions, rows_.scores, flows, ports, services)

TellsMetrics(body, rows_) ==
  /\ rows_.labels # None
  /\ body = write_metrics_report(calculate_metrics(rows_.predictions, rows_.labels[1], rows_.scores),
                                 Len(PositivesOf(rows_)), Len(rows_.predictions))

TellsManifest(body, rows_, classifier) ==
  body.evaluated_pairs = Len(rows_.pairs) /\ body.classifier_threshold = classifier.threshold

\* What the file beside the output with this suffix says of the rows of a prediction.
Tells(suffix, body, rows_, baseline, asked, classifier) ==
  /\ suffix = ".scores.csv" => TellsScores(body, rows_)
  /\ suffix = ".explanations.jsonl" => TellsExplanations(body, rows_, baseline, asked)
  /\ suffix = "" => TellsPositives(body, rows_)
  /\ suffix = ".metrics.json" => TellsMetrics(body, rows_)
  /\ suffix = ".run_manifest.json" => TellsManifest(body, rows_, classifier)

\* A baseline is of the training of the classifier, or of a later one that did not complete.
Origin(baseline, classifier, r, completed) ==
  \E training, names :
    /\ training \in Nat
    /\ baseline = compute_feature_baseline(training, names)
    /\ \/ training = classifier.training /\ classifier.features = names
       \/ training > classifier.training /\ training < r /\ training \notin completed

Loading == {"configure", "startup", "ingest", "load", "load_baseline"}
Predicted == {"scores", "explanations", "services", "positives", "metrics", "manifest", Exit}

GraphInv ==
  mode = "prediction" /\ step \notin {"configure", "startup", "ingest"} => FlowData(graph[1])

LoadedInv ==
  mode = "prediction" /\ step = "load_baseline" =>
    /\ Readable(File("-c"), "classifier")
    /\ m_classifier[1].training = files[File("-c")].run
    /\ m_classifier[1].features = files[File("-c")].body.features

OriginInv ==
  mode = "prediction" /\ step \notin Loading /\ Is(args, "-e") =>
    Origin(m_explainability_baseline[1], m_classifier[1], run, DOMAIN finished)

RowsInv ==
  mode = "prediction" /\ step \in Predicted =>
    rows.pairs = pairs_of_graph /\ RowsSound(rows, m_classifier[1].threshold)

BodiesInv ==
  mode = "prediction" /\ step \in Predicted =>
    \A suffix : Own(Beside("-o", suffix)) =>
      Tells(suffix, files[Beside("-o", suffix)].body, rows, m_explainability_baseline[1], config, m_classifier[1])

CountInv == mode = "prediction" /\ step = "metrics" => positives = Len(PositivesOf(rows))

PInv == GraphInv /\ LoadedInv /\ OriginInv /\ RowsInv /\ BodiesInv /\ CountInv

\* What reports are left of predictions that completed.
Told(r, completed) ==
  \E rows_, baseline :
    /\ RowsSound(rows_, finished[r].classifier[1].threshold)
    /\ \A suffix : \A body \in Reports(r, suffix) :
         Tells(suffix, body, rows_, baseline, finished[r].config, finished[r].classifier[1])
    /\ \A body \in Reports(r, ".explanations.jsonl") :
         Origin(baseline, finished[r].classifier[1], r, completed)

ToldInv == \A r \in Predictions : Told(r, DOMAIN finished)

-----------------------------------------------------------------------------
(* What a step keeps.                                                       *)

LEMMA Steady ==
  ASSUME PInv, mode = "prediction", GoOn, step \in PredictionSteps, step \notin Loading, step # Exit,
         UNCHANGED <<graph, m_classifier, m_explainability_baseline>>
  PROVE  GraphInv' /\ LoadedInv' /\ OriginInv'
<1>1. /\ step' = NextStep /\ mode' = mode /\ args' = args /\ run' = run /\ finished' = finished
  BY DEF GoOn
<1>2. step' \notin Loading
  BY <1>1, PredictionSequence DEF Loading, PredictionSteps, Exit
<1>3. GraphInv'
  BY <1>1, <1>2 DEF PInv, GraphInv, Loading
<1>4. LoadedInv'
  BY <1>2 DEF LoadedInv, Loading
<1>5. OriginInv'
  BY <1>1, <1>2 DEF PInv, OriginInv
<1>. QED BY <1>3, <1>4, <1>5

LEMMA RowsStay ==
  ASSUME PInv, mode = "prediction", GoOn, step \in Predicted, step # Exit, UNCHANGED <<graph, m_classifier, rows>>
  PROVE  RowsInv'
<1>1. step' \in Predicted
  BY PredictionSequence DEF GoOn, Predicted, Exit
<1>2. pairs_of_graph' = pairs_of_graph
  BY DEF pairs_of_graph
<1>. QED BY <1>1, <1>2 DEF PInv, RowsInv

LEMMA NothingNew ==
  ASSUME PInv, mode = "prediction", GoOn, step \in Predicted, step # Exit, UNCHANGED files,
         UNCHANGED <<m_classifier, m_explainability_baseline, rows>>
  PROVE  BodiesInv'
<1>1. step' \in Predicted /\ run' = run /\ mode' = mode /\ args' = args /\ config' = config
  BY PredictionSequence DEF GoOn, Predicted, Exit
<1>2. \A suffix : Beside("-o", suffix)' = Beside("-o", suffix) /\ (Own(Beside("-o", suffix))' <=> Own(Beside("-o", suffix)))
  BY <1>1 DEF Beside, Own
<1>. QED BY <1>1, <1>2 DEF PInv, BodiesInv

LEMMA OneNew ==
  ASSUME PInv, mode = "prediction", GoOn, step \in Predicted, step # Exit,
         UNCHANGED <<m_classifier, m_explainability_baseline, rows>>,
         NEW suffix, NEW kind, NEW body, NEW whole,
         Put(Beside("-o", suffix), Content(kind, body, whole)),
         Tells(suffix, body, rows, m_explainability_baseline[1], config, m_classifier[1])
  PROVE  BodiesInv'
<1>1. /\ step' \in Predicted /\ run' = run /\ mode' = mode /\ args' = args /\ config' = config
  BY PredictionSequence DEF GoOn, Predicted, Exit
<1>2. Content(kind, body, whole).body = body
  BY DEF Content
<1>3. ASSUME NEW other, Own(Beside("-o", other))'
      PROVE  Tells(other, files'[Beside("-o", other)].body, rows, m_explainability_baseline[1], config, m_classifier[1])
  <2>1. Beside("-o", other)' = Beside("-o", other)
    BY <1>1 DEF Beside
  <2>2. CASE other = suffix
    BY <1>2, <2>2, PutFile
  <2>3. CASE other # suffix
    <3>1. Beside("-o", other) # Beside("-o", suffix)
      BY <2>3 DEF Beside
    <3>2. /\ Beside("-o", other) \in DOMAIN files /\ files'[Beside("-o", other)] = files[Beside("-o", other)]
      BY <1>3, <2>1, <3>1, PutFile DEF Own
    <3>3. Own(Beside("-o", other))
      BY <1>1, <1>3, <2>1, <3>2 DEF Own
    <3>. QED BY <3>2, <3>3 DEF PInv, BodiesInv
  <2>. QED BY <2>2, <2>3
<1>4. \A other : Beside("-o", other)' = Beside("-o", other)
  BY <1>1 DEF Beside
<1>. QED BY <1>1, <1>3, <1>4 DEF BodiesInv

LEMMA NotCounted ==
  ASSUME mode = "prediction", GoOn, step \in PredictionSteps, step # "positives", step # "configure", step # Exit
  PROVE  CountInv'
<1>1. step' # "metrics"
  BY PredictionSequence DEF GoOn, PredictionSteps, Exit
<1>. QED BY <1>1 DEF CountInv

-----------------------------------------------------------------------------
(* What each step of a prediction finds out.                                *)

LEMMA PairsFinite ==
  ASSUME GraphInv, mode = "prediction", step \notin {"configure", "startup", "ingest"}
  PROVE  \E size \in Nat : DOMAIN pairs_of_graph = 1..size
<1> DEFINE A == graph[1].addresses
           P == {p \in A \X A : p[1] # p[2]}
<1>1. IsFiniteSet(A)
  BY DEF GraphInv, FlowData
<1>2. IsFiniteSet(A \X A)
  BY <1>1, FS_Product
<1>3. IsFiniteSet(P)
  BY <1>2, FS_Subset
<1>4. Cardinality(P) \in Nat
  BY <1>3, FS_CardinalityType
<1>5. DOMAIN pairs_of_graph = 1..Cardinality(P)
  BY DEF pairs_of_graph, PairsOf
<1>. QED BY <1>4, <1>5

LEMMA IngestTells ==
  ASSUME CInv, mode = "prediction", Ingest
  PROVE  PInv'
<1>1. /\ step = "ingest" /\ GoOn /\ graph' = Some([addresses |-> files[File("-d")].body.addresses,
                                                   flows |-> files[File("-d")].body.flows])
      /\ File("-d") \in DOMAIN files /\ files[File("-d")].kind = "flows"
  BY DEF Ingest, Running, Readable
<1>2. step' = "load" /\ mode' = "prediction"
  BY <1>1, PredictionSequence DEF GoOn
<1>3. FlowData(files[File("-d")].body)
  BY <1>1 DEF CInv, InputsInv, Input
<1>4. FlowData(graph'[1])
  BY <1>1, <1>3 DEF FlowData, Some
<1>. QED BY <1>2, <1>4 DEF PInv, GraphInv, LoadedInv, OriginInv, RowsInv, BodiesInv, CountInv, Loading, Predicted, Exit

LEMMA LoadClassifierTells ==
  ASSUME AInv, PInv, mode = "prediction", LoadClassifier
  PROVE  PInv'
<1>1. /\ step = "load" /\ GoOn /\ graph' = graph /\ files' = files
      /\ Readable(File("-c"), "classifier")
      /\ m_classifier' = Some(IF config.CLASSIFIER_THRESHOLD # None
                              THEN [files[File("-c")].body EXCEPT !.threshold = config.CLASSIFIER_THRESHOLD[1]]
                              ELSE files[File("-c")].body)
  BY DEF LoadClassifier, Running
<1>2. step' = "load_baseline" /\ mode' = "prediction" /\ args' = args
  BY <1>1, PredictionSequence DEF GoOn
<1>3. Trained(files[File("-c")].body, files[File("-c")].run)
  BY <1>1 DEF AInv, TrainedInv, Readable
<1>4. /\ m_classifier'[1].training = files[File("-c")].run
      /\ m_classifier'[1].features = files[File("-c")].body.features
  BY <1>1, <1>3 DEF Trained, Some
<1>5. File("-c")' = File("-c") /\ Readable(File("-c"), "classifier")'
  BY <1>1, <1>2 DEF File, Readable
<1>6. LoadedInv'
  BY <1>1, <1>4, <1>5 DEF LoadedInv
<1>7. GraphInv'
  BY <1>1, <1>2 DEF PInv, GraphInv
<1>. QED BY <1>2, <1>6, <1>7 DEF PInv, OriginInv, RowsInv, BodiesInv, CountInv, Loading, Predicted, Exit

LEMMA LoadBaselineTells ==
  ASSUME IInv, OInv, AInv, PInv, mode = "prediction", LoadBaseline
  PROVE  PInv'
<1> DEFINE main == File("-c")
           base == feature_baseline_path
           word == args.paths["-c"]
<1>1. /\ step = "load_baseline" /\ GoOn /\ graph' = graph /\ m_classifier' = m_classifier
      /\ base \in DOMAIN files /\ files[base].kind = "baseline"
      /\ m_explainability_baseline' = Some(files[base].body)
  BY DEF LoadBaseline, Running, Readable
<1>2. /\ step' = "reference" /\ mode' = "prediction" /\ run' = run /\ finished' = finished /\ args' = args
  BY <1>1, PredictionSequence DEF GoOn
<1>3. /\ main = <<word, "">> /\ base = <<word, ".feature_baselines.json">> /\ base = BaselineAt(word)
  BY DEF File, feature_baseline_path, Beside, BaselineAt
<1>4. /\ There(word, "", "classifier") /\ m_classifier[1].training = files[main].run
      /\ m_classifier[1].features = files[main].body.features
  BY <1>1 DEF PInv, LoadedInv, There, File
<1>5. There(word, ".feature_baselines.json", "baseline")
  BY <1>1, <1>3 DEF There, Readable
<1>6. RunOf(word, "") = files[main].run /\ RunOf(word, ".feature_baselines.json") = files[base].run
  BY <1>3 DEF RunOf
<1> HIDE DEF main, base, word
<1>7. files[base].run >= files[main].run
  BY <1>4, <1>6, Everywhere DEF IInv, ClassifierInOrder
<1>8. files[base].run \in Nat /\ files[base].run <= run /\ files[main].run \in Nat /\ run \in Nat
  BY <1>1, <1>3, <1>4 DEF IInv, ProcessInv, RunsInv, There, Readable
<1>9. files[base].run # run
  <2>1. ~WrittenByPrediction(base)
    BY <1>1 DEF WrittenByPrediction, Exit
  <2>2. ~Own(base)
    BY <2>1 DEF OInv, OutputsInv
  <2>. QED BY <1>1, <2>2 DEF Own
<1>10. PICK names : files[base].body = compute_feature_baseline(files[base].run, names)
  BY <1>1 DEF AInv, TrainedInv
<1>11. Origin(files[base].body, m_classifier[1], run, DOMAIN finished)
  <2>1. CASE files[base].run = files[main].run
    <3>1. files[base].body.feature_names = files[main].body.features
      BY <1>3, <1>4, <1>5, <1>6, <2>1 DEF AInv, TrainedInv
    <3>2. m_classifier[1].features = names /\ m_classifier[1].training = files[base].run
      <4>1. compute_feature_baseline(files[base].run, names).feature_names = names
        BY BaselineNames
      <4>. QED BY <1>4, <1>10, <2>1, <3>1, <4>1
    <3>. QED BY <1>8, <1>10, <3>2 DEF Origin
  <2>2. CASE files[base].run # files[main].run
    <3>1. files[base].run > files[main].run /\ files[base].run < run
      BY <1>7, <1>8, <1>9, <2>2
    <3>2. files[base].run \notin DOMAIN finished
      <4>1. RunOf(word, ".feature_baselines.json") \in DOMAIN finished =>
              RunOf(word, "") >= RunOf(word, ".feature_baselines.json")
        BY <1>5 DEF AInv, TrainedInv
      <4>2. RunOf(word, ".feature_baselines.json") \in DOMAIN finished => files[main].run >= files[base].run
        BY <1>6, <4>1
      <4>3. ~(files[main].run >= files[base].run)
        BY <1>8, <3>1
      <4>. QED BY <1>6, <4>2, <4>3, Zenon
    <3>. QED BY <1>4, <1>8, <1>10, <3>1, <3>2 DEF Origin
  <2>. QED BY <2>1, <2>2
<1>14. m_explainability_baseline'[1] = files[base].body
  BY <1>1 DEF Some
<1>15. OriginInv'
  BY <1>1, <1>2, <1>11, <1>14 DEF OriginInv
<1>16. GraphInv'
  BY <1>1, <1>2 DEF PInv, GraphInv
<1>. QED BY <1>2, <1>15, <1>16 DEF PInv, LoadedInv, RowsInv, BodiesInv, CountInv, Predicted, Exit

LEMMA PredictTells ==
  ASSUME OInv, OInv', TInv, PInv, mode = "prediction", Predict
  PROVE  PInv'
<1>1. PICK scores \in [DOMAIN pairs_of_graph -> Scores] :
        rows' = [pairs |-> pairs_of_graph, scores |-> scores,
                 predictions |-> [k \in DOMAIN pairs_of_graph |->
                                    Positive(scores[k], m_classifier[1].threshold)],
                 labels |-> IF m_dependencies # None THEN Some(LabelsOf(pairs_of_graph)) ELSE None]
  BY DEF Predict
<1>2. /\ step = "predict" /\ GoOn /\ graph' = graph /\ m_classifier' = m_classifier
      /\ m_explainability_baseline' = m_explainability_baseline
  BY DEF Predict, Running, models
<1>3. step' = "scores" /\ mode' = "prediction"
  BY <1>2, PredictionSequence DEF GoOn
<1>4. GraphInv' /\ LoadedInv' /\ OriginInv'
  BY <1>2, Steady DEF PredictionSteps, Loading, Exit
<1>5. PICK size \in Nat : DOMAIN pairs_of_graph = 1..size
  BY <1>2, PairsFinite DEF PInv
<1>6. RowsSound(rows', m_classifier[1].threshold)
  <2>1. m_classifier[1].threshold \in Int \X (Nat \ {0})
    BY <1>2 DEF TInv, ClassifierInv, HasThreshold
  <2>2. DOMAIN rows'.pairs = 1..size /\ rows'.scores \in [1..size -> Int]
    BY <1>1, <1>5, ScoresAssumption
  <2>3. rows'.predictions = [k \in 1..size |-> Positive(rows'.scores[k], m_classifier[1].threshold)]
    BY <1>1, <1>5
  <2>4. rows'.labels # None => rows'.labels[1] \in [1..size -> BOOLEAN]
    BY <1>1, <1>5 DEF LabelsOf, Some
  <2>. QED BY <2>1, <2>2, <2>3, <2>4 DEF RowsSound
<1>7. pairs_of_graph' = pairs_of_graph /\ rows'.pairs = pairs_of_graph
  BY <1>1, <1>2 DEF pairs_of_graph
<1>8. RowsInv'
  BY <1>2, <1>6, <1>7 DEF RowsInv
<1>9. BodiesInv'
  <2>1. \A p : ~Own(p)'
    BY <1>3 DEF OInv, OutputsInv, WrittenByPrediction, Exit
  <2>. QED BY <2>1 DEF BodiesInv
<1>. QED BY <1>3, <1>4, <1>8, <1>9 DEF PInv, CountInv

LEMMA ScoresTells ==
  ASSUME PInv, mode = "prediction", WriteScores, mode' = "prediction"
  PROVE  PInv'
<1> DEFINE body == write_pair_scores(rows.pairs, rows.predictions, rows.scores, rows.labels)
<1>1. /\ step = "scores" /\ GoOn /\ UNCHANGED memory
      /\ Put(Beside("-o", ".scores.csv"), Content("scores", body, TRUE))
  BY DEF WriteScores, Running, Write, End
<1>2. Tells(".scores.csv", body, rows, m_explainability_baseline[1], config, m_classifier[1])
  BY DEF Tells, TellsScores
<1> HIDE DEF body
<1>3. BodiesInv'
  BY <1>1, <1>2, OneNew DEF memory, models, Predicted, Exit
<1>4. GraphInv' /\ LoadedInv' /\ OriginInv' /\ RowsInv' /\ CountInv'
  BY <1>1, Steady, RowsStay, NotCounted DEF memory, models, Predicted, PredictionSteps, Loading, Exit
<1>. QED BY <1>3, <1>4 DEF PInv

LEMMA ExplanationsTells ==
  ASSUME PInv, mode = "prediction", WriteExplanations, mode' = "prediction"
  PROVE  PInv'
<1> DEFINE body == write_prediction_explanations(
                     rows.pairs, rows.predictions, rows.scores,
                     explain_with_group_ablation(feature_names, m_explainability_baseline[1]),
                     rows.labels)
<1>1. /\ step = "explanations" /\ GoOn /\ UNCHANGED memory
      /\ Put(Beside("-o", ".explanations.jsonl"), Content("explanations", body, TRUE))
      /\ validate_feature_baseline(m_explainability_baseline[1], feature_names)
  BY DEF WriteExplanations, Running, Write, End
<1>2. Tells(".explanations.jsonl", body, rows, m_explainability_baseline[1], config, m_classifier[1])
  BY <1>1 DEF Tells, TellsExplanations, feature_names
<1> HIDE DEF body
<1>3. BodiesInv'
  BY <1>1, <1>2, OneNew DEF memory, models, Predicted, Exit
<1>4. GraphInv' /\ LoadedInv' /\ OriginInv' /\ RowsInv' /\ CountInv'
  BY <1>1, Steady, RowsStay, NotCounted DEF memory, models, Predicted, PredictionSteps, Loading, Exit
<1>. QED BY <1>3, <1>4 DEF PInv

LEMMA ServicesTells ==
  ASSUME PInv, mode = "prediction", LoadServices
  PROVE  PInv'
<1>1. /\ step = "services" /\ GoOn /\ UNCHANGED <<graph, m_classifier, m_explainability_baseline, rows, files>>
  BY DEF LoadServices, Running, models
<1>2. BodiesInv' /\ GraphInv' /\ LoadedInv' /\ OriginInv' /\ RowsInv' /\ CountInv'
  BY <1>1, NothingNew, Steady, RowsStay, NotCounted DEF Predicted, PredictionSteps, Loading, Exit
<1>. QED BY <1>2 DEF PInv

LEMMA PositivesTells ==
  ASSUME PInv, mode = "prediction", WritePositives, mode' = "prediction"
  PROVE  PInv'
<1> DEFINE body == write_positive_predictions(rows.pairs, rows.predictions, rows.scores,
                                              graph[1].flows, port_config, config.SERVICE_CONFIG)
<1>1. /\ step = "positives" /\ GoOn /\ UNCHANGED <<graph, m_classifier, m_explainability_baseline, rows>>
      /\ Put(File("-o"), Content("positives", body, TRUE)) /\ positives' = Len(body)
  BY DEF WritePositives, Running, End, models
<1>2. File("-o") = Beside("-o", "")
  BY DEF File, Beside
<1>3. Tells("", body, rows, m_explainability_baseline[1], config, m_classifier[1])
  BY DEF Tells, TellsPositives
<1>4. Len(body) = Len(PositivesOf(rows))
  <2>1. PICK size \in Nat : DOMAIN rows.pairs = 1..size
    BY <1>1 DEF PInv, RowsInv, RowsSound, Predicted
  <2> DEFINE all == [i \in DOMAIN rows.pairs |-> i]
             S == {i \in DOMAIN rows.pairs : rows.predictions[i]}
  <2>2. all \in Seq(1..size) /\ Len(all) = size
    BY <2>1
  <2>3. PICK m, at : Enumerates(at, m, S) /\ Selected(all, S) = Taken(all, at, m)
    <3>1. S \in SUBSET (1..Len(all))
      BY <2>1, <2>2
    <3>2. PICK seq, T : seq = all /\ T = S
      OBVIOUS
    <3> HIDE DEF all, S
    <3>3. seq \in Seq(1..size) /\ T \in SUBSET (1..Len(seq)) /\ Len(seq) = Len(seq)
      BY <2>2, <3>1, <3>2
    <3>4. PICK m, at : Enumerates(at, m, T) /\ Selected(seq, T) = Taken(seq, at, m)
      BY <3>3, SelectedAlone, Zenon
    <3>. QED BY <3>2, <3>4
  <2>4. PositivesOf(rows) = Taken(all, at, m)
    BY <2>3 DEF PositivesOf
  <2>5. DOMAIN PositivesOf(rows) = 1..m /\ m \in Nat
    BY <2>3, <2>4 DEF Taken, Enumerates
  <2>6. DOMAIN body = DOMAIN PositivesOf(rows)
    BY DEF write_positive_predictions, PositivesOf
  <2> HIDE DEF body
  <2>7. Len(PositivesOf(rows)) = m
    BY <2>4, <2>5 DEF Taken
  <2>8. Len(body) = m
    BY <2>5, <2>6
  <2>. QED BY <2>7, <2>8
<1> HIDE DEF body
<1>5. BodiesInv'
  BY <1>1, <1>2, <1>3, OneNew DEF Predicted, Exit
<1>6. CountInv'
  BY <1>1, <1>4 DEF CountInv
<1>7. GraphInv' /\ LoadedInv' /\ OriginInv' /\ RowsInv'
  BY <1>1, Steady, RowsStay DEF Predicted, PredictionSteps, Loading, Exit
<1>. QED BY <1>5, <1>6, <1>7 DEF PInv

LEMMA CountsAreJoined ==
  ASSUME NEW predictions, NEW labels, NEW scores, NEW positive, NEW total
  PROVE  LET body == write_metrics_report(calculate_metrics(predictions, labels, scores), positive, total)
         IN  body.positive_predictions = positive /\ body.total_predictions = total
<1> DEFINE metrics == calculate_metrics(predictions, labels, scores)
           counts == [positive_predictions |-> positive, total_predictions |-> total]
<1>1. DOMAIN metrics = {"accuracy", "precision", "recall", "f1_score", "roc_auc", "average_precision",
                        "mean_reciprocal_rank", "ranking_at_k"}
  BY DEF calculate_metrics, calculate_binary_metrics, Joined
<1>2. write_metrics_report(metrics, positive, total) = Joined(metrics, counts)
  BY DEF write_metrics_report
<1> HIDE DEF metrics
<1>3. /\ Joined(metrics, counts).positive_predictions = counts.positive_predictions
      /\ Joined(metrics, counts).total_predictions = counts.total_predictions
  BY <1>1 DEF Joined
<1>. QED BY <1>2, <1>3 DEF metrics

LEMMA MetricsCount ==
  ASSUME NEW rows_, NEW body, TellsMetrics(body, rows_)
  PROVE  body.positive_predictions = Len(PositivesOf(rows_)) /\ body.total_predictions = Len(rows_.predictions)
BY CountsAreJoined DEF TellsMetrics

LEMMA MetricsTells ==
  ASSUME PInv, mode = "prediction", WriteMetrics, mode' = "prediction"
  PROVE  PInv'
<1> DEFINE body == write_metrics_report(calculate_metrics(rows.predictions, rows.labels[1], rows.scores),
                                        positives, Len(rows.predictions))
<1>1. /\ step = "metrics" /\ GoOn /\ UNCHANGED memory /\ rows.labels # None
      /\ Put(Beside("-o", ".metrics.json"), Content("metrics", body, TRUE))
  BY DEF WriteMetrics, Running, Write, End, Optional, Wanted
<1>2. positives = Len(PositivesOf(rows))
  BY <1>1 DEF PInv, CountInv
<1>3. body = write_metrics_report(calculate_metrics(rows.predictions, rows.labels[1], rows.scores),
                                  Len(PositivesOf(rows)), Len(rows.predictions))
  BY <1>2
<1> HIDE DEF body
<1>4. Tells(".metrics.json", body, rows, m_explainability_baseline[1], config, m_classifier[1])
  BY <1>1, <1>3 DEF Tells, TellsMetrics
<1>5. BodiesInv'
  BY <1>1, <1>4, OneNew DEF memory, models, Predicted, Exit
<1>6. GraphInv' /\ LoadedInv' /\ OriginInv' /\ RowsInv' /\ CountInv'
  BY <1>1, Steady, RowsStay, NotCounted DEF memory, models, Predicted, PredictionSteps, Loading, Exit
<1>. QED BY <1>5, <1>6 DEF PInv

LEMMA ManifestTells ==
  ASSUME PInv, mode = "prediction", WritePredictionManifest, mode' = "prediction"
  PROVE  PInv'
<1> DEFINE body == RunManifest("-o", PathOf("-g"), IF Has(args, {"-g"}) THEN Some(Projection) ELSE None)
<1>1. /\ step = "manifest" /\ GoOn /\ UNCHANGED memory
      /\ Put(Manifest("-o"), Content("manifest", body, TRUE))
  BY DEF WritePredictionManifest, Running, Write, End
<1>2. body.evaluated_pairs = Len(pairs_of_graph) /\ body.classifier_threshold = m_classifier[1].threshold
  BY DEF RunManifest, write_run_manifest
<1>3. Manifest("-o") = Beside("-o", ".run_manifest.json")
  BY DEF Manifest
<1> HIDE DEF body
<1>4. rows.pairs = pairs_of_graph
  BY <1>1 DEF PInv, RowsInv, Predicted
<1>5. Tells(".run_manifest.json", body, rows, m_explainability_baseline[1], config, m_classifier[1])
  BY <1>2, <1>4 DEF Tells, TellsManifest
<1>6. BodiesInv'
  BY <1>1, <1>3, <1>5, OneNew DEF memory, models, Predicted, Exit
<1>7. GraphInv' /\ LoadedInv' /\ OriginInv' /\ RowsInv' /\ CountInv'
  BY <1>1, Steady, RowsStay, NotCounted DEF memory, models, Predicted, PredictionSteps, Loading, Exit
<1>. QED BY <1>6, <1>7 DEF PInv

LEMMA PassOverTells ==
  ASSUME PInv, StepInv, mode = "prediction", PassOver
  PROVE  PInv'
<1>1. /\ step \in Optional /\ ~Wanted /\ GoOn /\ UNCHANGED memory /\ files' = files
  BY DEF PassOver
<1>2. mode' = "prediction" /\ args' = args /\ step \in PredictionSteps
  BY <1>1 DEF GoOn, StepInv
<1>3. CASE step = "load_baseline"
  <2>1. ~Is(args, "-e") /\ step' = "reference"
    BY <1>1, <1>3, PredictionSequence DEF Wanted, GoOn
  <2>2. GraphInv'
    BY <1>1, <1>2, <1>3 DEF PInv, GraphInv, memory
  <2>3. OriginInv'
    BY <1>2, <2>1 DEF OriginInv
  <2>. QED BY <2>1, <2>2, <2>3 DEF PInv, LoadedInv, RowsInv, BodiesInv, CountInv, Predicted, Exit
<1>4. CASE step = "reference"
  <2>1. step' = "predict"
    BY <1>1, <1>4, PredictionSequence DEF GoOn
  <2>2. GraphInv' /\ LoadedInv' /\ OriginInv'
    BY <1>1, <1>4, Steady DEF memory, models, PredictionSteps, Loading, Exit
  <2>. QED BY <2>1, <2>2 DEF PInv, RowsInv, BodiesInv, CountInv, Predicted, Exit
<1>5. CASE step \in Optional \ {"load_baseline", "reference"}
  <2>1. step \in Predicted /\ step # Exit /\ step # "positives" /\ step \notin Loading
    BY <1>5 DEF Optional, Predicted, Loading, Exit
  <2>2. BodiesInv' /\ GraphInv' /\ LoadedInv' /\ OriginInv' /\ RowsInv' /\ CountInv'
    BY <1>1, <1>2, <2>1, NothingNew, Steady, RowsStay, NotCounted DEF memory, models, Loading
  <2>. QED BY <2>2 DEF PInv
<1>. QED BY <1>1, <1>3, <1>4, <1>5

LEMMA ReferenceTells ==
  ASSUME PInv, mode = "prediction", LoadReference
  PROVE  PInv'
<1>1. /\ step = "reference" /\ GoOn /\ UNCHANGED <<graph, m_classifier, m_explainability_baseline>>
  BY DEF LoadReference, Running, models
<1>2. step' = "predict"
  BY <1>1, PredictionSequence DEF GoOn
<1>3. GraphInv' /\ LoadedInv' /\ OriginInv'
  BY <1>1, Steady DEF PredictionSteps, Loading, Exit
<1>. QED BY <1>2, <1>3 DEF PInv, RowsInv, BodiesInv, CountInv, Predicted, Exit

LEMMA PredictionStep == IInv /\ OInv /\ CInv /\ AInv /\ TInv /\ PInv /\ OInv' /\ [Next]_vars => PInv'
<1> SUFFICES ASSUME IInv, OInv, CInv, AInv, TInv, PInv, OInv', [Next]_vars PROVE PInv'
  OBVIOUS
<1>1. CASE mode' # "prediction"
  BY <1>1 DEF PInv, GraphInv, LoadedInv, OriginInv, RowsInv, BodiesInv, CountInv
<1>2. ASSUME step' \in {"configure", "startup", "ingest"} PROVE PInv'
  BY <1>2 DEF PInv, GraphInv, LoadedInv, OriginInv, RowsInv, BodiesInv, CountInv, Loading, Predicted, Exit
<1>3. StepInv
  BY DEF IInv, ProcessInv
<1>4. ASSUME UNCHANGED <<run, mode, step, args, config, graph, models, rows, positives, files, finished>>
      PROVE  PInv'
  <2>1. pairs_of_graph' = pairs_of_graph
    BY <1>4 DEF pairs_of_graph
  <2>2. \A o, s : Beside(o, s)' = Beside(o, s) /\ File(o)' = File(o)
    BY <1>4 DEF Beside, File
  <2>3. \A p : Own(p)' <=> Own(p)
    BY <1>4 DEF Own
  <2>4. GraphInv' /\ CountInv' /\ OriginInv' /\ RowsInv'
    BY <1>4, <2>1 DEF PInv, GraphInv, CountInv, OriginInv, RowsInv, models
  <2>5. LoadedInv' /\ BodiesInv'
    BY <1>4, <2>2, <2>3 DEF PInv, LoadedInv, BodiesInv, models, Readable
  <2>. QED BY <2>4, <2>5 DEF PInv
<1>5. CASE mode' = "prediction" /\ mode = "prediction" /\ ~(UNCHANGED vars \/ Decline)
  <2>2. ~Start /\ ~Finish /\ ~Stop
    BY <1>5 DEF Start, Commanded, Finish, Stop, End
  <2>3. step \in PredictionSteps
    BY <1>3, <1>5 DEF StepInv
  <2>4. ~TrainClassifier /\ ~WriteTrainingManifest /\ ~SaveBaseline /\ ~SaveClassifier
    BY <1>5, <2>3 DEF TrainClassifier, WriteTrainingManifest, SaveBaseline, SaveClassifier, Running,
                      PredictionSteps, Exit
  <2>5. ~CalculateReference /\ ~CalculateAndSaveReference
    BY <1>5 DEF CalculateReference, CalculateAndSaveReference, Calculates, Running, Wanted, Optional
  <2>6. CASE Configure
    BY <1>2, <2>6 DEF Configure
  <2>7. CASE CommonStartup
    BY <1>2, <1>5, <2>7, PredictionSequence DEF CommonStartup, Running, GoOn
  <2>8. CASE Ingest
    BY <1>5, <2>8, IngestTells
  <2>9. CASE LoadReference
    BY <1>5, <2>9, ReferenceTells
  <2>10. CASE LoadClassifier
    BY <1>5, <2>10, LoadClassifierTells
  <2>11. CASE LoadBaseline
    BY <1>5, <2>11, LoadBaselineTells
  <2>12. CASE Predict
    BY <1>5, <2>12, PredictTells
  <2>13. CASE WriteScores
    BY <1>5, <2>13, ScoresTells
  <2>14. CASE WriteExplanations
    BY <1>5, <2>14, ExplanationsTells
  <2>15. CASE LoadServices
    BY <1>5, <2>15, ServicesTells
  <2>16. CASE WritePositives
    BY <1>5, <2>16, PositivesTells
  <2>17. CASE WriteMetrics
    BY <1>5, <2>17, MetricsTells
  <2>18. CASE WritePredictionManifest
    BY <1>5, <2>18, ManifestTells
  <2>19. CASE PassOver
    BY <1>3, <1>5, <2>19, PassOverTells
  <2>. QED BY <1>5, <2>2, <2>4, <2>5, <2>6, <2>7, <2>8, <2>9, <2>10, <2>11, <2>12, <2>13, <2>14, <2>15,
              <2>16, <2>17, <2>18, <2>19 DEF Next
<1>6. CASE UNCHANGED vars \/ Decline
  BY <1>4, <1>6 DEF vars, process, memory, Decline
<1>7. CASE mode' = "prediction" /\ mode # "prediction" /\ ~(UNCHANGED vars \/ Decline)
  <2>1. CASE Start
    BY <1>2, <2>1 DEF Start
  <2>2. CASE Configure
    BY <1>2, <2>2 DEF Configure
  <2>3. CASE mode' = mode \/ mode' = "none"
    BY <1>7, <2>3
  <2>4. Start \/ Configure \/ mode' = mode \/ mode' = "none"
    BY <1>7 DEF Next, CommonStartup, Ingest, LoadReference, CalculateReference, CalculateAndSaveReference,
                TrainClassifier, WriteTrainingManifest, SaveBaseline, SaveClassifier, LoadClassifier, LoadBaseline,
                Predict, WriteScores, WriteExplanations, LoadServices, WritePositives, WriteMetrics,
                WritePredictionManifest, PassOver, Finish, Stop, Write, GoOn, End
  <2>. QED BY <2>1, <2>2, <2>3, <2>4
<1>. QED BY <1>1, <1>5, <1>6, <1>7

-----------------------------------------------------------------------------
(* What reports say outlives the process that wrote them.                   *)

LEMMA FewerReports ==
  ASSUME ToldInv, finished' = finished,
         \A r \in DOMAIN finished : \A suffix : Reports(r, suffix)' \subseteq Reports(r, suffix)
  PROVE  ToldInv'
<1>1. SUFFICES ASSUME NEW r \in Predictions PROVE Told(r, DOMAIN finished)'
  BY DEF ToldInv, Predictions
<1>2. r \in DOMAIN finished
  BY DEF Predictions
<1>. QED BY <1>1, <1>2 DEF ToldInv, Told

LEMMA LaterCompleted ==
  ASSUME NEW baseline, NEW classifier, NEW r \in Nat, NEW last \in Nat, r <= last, NEW completed,
         Origin(baseline, classifier, r, completed)
  PROVE  Origin(baseline, classifier, r, completed \cup {last})
BY DEF Origin

LEMMA FinishTells ==
  ASSUME IInv, OInv, PInv, ToldInv, Finish
  PROVE  ToldInv'
<1> DEFINE done == [mode |-> mode, args |-> args, config |-> config, classifier |-> m_classifier]
<1>1. /\ step = Exit /\ mode # "none" /\ files' = files
      /\ finished' = [r \in DOMAIN finished \cup {run} |-> IF r = run THEN done ELSE finished[r]]
  BY DEF Finish, Running
<1>2. /\ DOMAIN finished' = DOMAIN finished \cup {run} /\ finished'[run] = done
      /\ \A r \in DOMAIN finished : r # run /\ finished'[r] = finished[r]
  BY <1>1 DEF OInv, FinishedInv
<1>3. run \in Nat /\ \A r \in DOMAIN finished : r \in Nat /\ r <= run
  BY DEF IInv, ProcessInv, RunsInv, OInv, FinishedInv
<1>4. done.mode = mode /\ done.args = args /\ done.config = config /\ done.classifier = m_classifier
  OBVIOUS
<1> HIDE DEF done
<1>5. ASSUME NEW r \in Predictions PROVE Told(r, DOMAIN finished)'
  <2>1. r \in DOMAIN finished /\ finished'[r] = finished[r] /\ r \in Nat /\ r <= run
    BY <1>2, <1>3 DEF Predictions
  <2>2. \A suffix : Reports(r, suffix)' = Reports(r, suffix)
    BY <1>1, <2>1 DEF Reports
  <2>3. PICK rows_, baseline :
          /\ RowsSound(rows_, finished[r].classifier[1].threshold)
          /\ \A suffix : \A body \in Reports(r, suffix) :
               Tells(suffix, body, rows_, baseline, finished[r].config, finished[r].classifier[1])
          /\ \A body \in Reports(r, ".explanations.jsonl") :
               Origin(baseline, finished[r].classifier[1], r, DOMAIN finished)
    BY DEF ToldInv, Told
  <2>4. ASSUME NEW body \in Reports(r, ".explanations.jsonl")
        PROVE  Origin(baseline, finished[r].classifier[1], r, DOMAIN finished \cup {run})
    BY <1>3, <2>1, <2>3, LaterCompleted
  <2>. QED BY <1>2, <2>1, <2>2, <2>3, <2>4 DEF Told
<1>0. PICK last : last = run
  OBVIOUS
<1>6. ASSUME mode = "prediction" PROVE Told(last, DOMAIN finished)'
  <2>1. finished'[last].config = config /\ finished'[last].classifier = m_classifier /\ finished'[last].args = args
    BY <1>0, <1>2, <1>4
  <2>2. \A suffix : /\ Reports(last, suffix)' # {} => Own(Beside("-o", suffix))
                    /\ \A body \in Reports(last, suffix)' : body = files[Beside("-o", suffix)].body
    BY <1>0, <1>1, <2>1 DEF Reports, Own, Beside
  <2>3. RowsSound(rows, m_classifier[1].threshold)
    BY <1>1, <1>6 DEF PInv, RowsInv, Predicted
  <2>4. \A suffix : \A body \in Reports(last, suffix)' :
          Tells(suffix, body, rows, m_explainability_baseline[1], config, m_classifier[1])
    BY <1>1, <1>6, <2>2 DEF PInv, BodiesInv, Predicted
  <2>5. ASSUME Reports(last, ".explanations.jsonl")' # {}
        PROVE  Origin(m_explainability_baseline[1], m_classifier[1], last, DOMAIN finished \cup {last})
    <3>1. Own(Beside("-o", ".explanations.jsonl"))
      BY <2>2, <2>5
    <3>2. WrittenByPrediction(Beside("-o", ".explanations.jsonl"))
      BY <1>6, <3>1 DEF OInv, OutputsInv
    <3>3. Is(args, "-e")
      BY <3>2 DEF WrittenByPrediction, Beside, File, Manifest
    <3>4. Origin(m_explainability_baseline[1], m_classifier[1], last, DOMAIN finished)
      BY <1>0, <1>1, <1>6, <3>3 DEF PInv, OriginInv, Loading, Exit
    <3>. QED BY <1>0, <1>3, <3>4 DEF Origin
  <2>6. \A body \in Reports(last, ".explanations.jsonl")' :
          Origin(m_explainability_baseline[1], m_classifier[1], last, DOMAIN finished')
    BY <1>0, <1>2, <2>5
  <2>. QED BY <2>1, <2>3, <2>4, <2>6 DEF Told
<1>7. SUFFICES ASSUME NEW r \in Predictions' PROVE Told(r, DOMAIN finished)'
  BY DEF ToldInv
<1>8. CASE r = last
  <2>1. mode = "prediction"
    BY <1>0, <1>2, <1>4, <1>8 DEF Predictions
  <2>. QED BY <1>6, <1>8, <2>1
<1>9. CASE r # last
  <2>1. r \in Predictions
    BY <1>0, <1>2, <1>9 DEF Predictions
  <2>. QED BY <1>5, <2>1
<1>. QED BY <1>8, <1>9

LEMMA ToldStep == IInv /\ OInv /\ PInv /\ ToldInv /\ [Next]_vars => ToldInv'
<1> SUFFICES ASSUME IInv, OInv, PInv, ToldInv, [Next]_vars PROVE ToldInv'
  OBVIOUS
<1>1. CASE Finish
  BY <1>1, FinishTells
<1>2. CASE ~Finish
  <2>1. finished' = finished
    BY <1>2, OneFile
  <2>2. ASSUME NEW r \in DOMAIN finished, NEW suffix PROVE Reports(r, suffix)' \subseteq Reports(r, suffix)
    <3>1. CASE files' = files
      BY <2>1, <3>1 DEF Reports
    <3>2. ASSUME mode # "none", NEW path, NEW kind, NEW body, NEW whole, Put(path, Content(kind, body, whole))
          PROVE  Reports(r, suffix)' \subseteq Reports(r, suffix)
      <4>1. r # run
        BY <3>2 DEF OInv, FinishedInv
      <4>2. Content(kind, body, whole).run = run
        BY DEF Content
      <4>3. \A p \in DOMAIN files' : files'[p].run = r => p \in DOMAIN files /\ files'[p] = files[p]
        BY <3>2, <4>1, <4>2, PutFile
      <4>. QED BY <2>1, <4>3 DEF Reports
    <3>. QED BY <1>2, <3>1, <3>2, OneFile
  <2>. QED BY <2>1, <2>2, FewerReports
<1>. QED BY <1>1, <1>2

-----------------------------------------------------------------------------
(* What is printed is as near as its decimals allow.                        *)

LEMMA WrittenIsNear ==
  ASSUME NEW n \in Int, NEW d \in Nat \ {0}
  PROVE  Written(<<n, d>>) \in Int /\ Near(Written(<<n, d>>), <<n, d>>)
<1>1. PICK x \in Int : x = n * WrittenUnit
  BY UnitsAssumption
<1>2. PICK below \in Int, rest \in Int : below = x \div d /\ rest = x % d
  OBVIOUS
<1>3. PICK m \in Int : m = d * below
  OBVIOUS
<1>4. x = m + rest /\ 0 <= rest /\ rest < d
  BY <1>2, <1>3
<1>5. \/ Written(<<n, d>>) = below /\ 2 * rest <= d
      \/ Written(<<n, d>>) = below + 1 /\ 2 * rest >= d
  BY <1>1, <1>2, <1>4 DEF Written
<1>6. /\ (2 * below - 1) * d = 2 * m - d /\ (2 * below + 1) * d = 2 * m + d
      /\ (2 * (below + 1) - 1) * d = 2 * m + d /\ (2 * (below + 1) + 1) * d = 2 * m + 3 * d
      /\ 2 * n * WrittenUnit = 2 * x
  BY <1>1, <1>3, UnitsAssumption
<1>7. CASE Written(<<n, d>>) = below /\ 2 * rest <= d
  BY <1>4, <1>6, <1>7 DEF Near
<1>8. CASE Written(<<n, d>>) = below + 1 /\ 2 * rest >= d
  BY <1>4, <1>6, <1>8 DEF Near
<1>. QED BY <1>5, <1>7, <1>8

LEMMA ScoreIsNear ==
  ASSUME NEW score \in Int
  PROVE  WrittenScore(score) \in Int /\ Near(WrittenScore(score), <<score, ScoreUnit>>)
  BY UnitsAssumption, WrittenIsNear DEF WrittenScore

LEMMA ProductsOrdered ==
  ASSUME NEW a \in Int, NEW b \in Int, NEW c \in Nat \ {0}
  PROVE  a > b <=> a * c > b * c
OBVIOUS

LEMMA Commuted ==
  ASSUME NEW a \in Int, NEW b \in Int, NEW c \in Int
  PROVE  /\ a * b = b * a /\ (a * b) * c = (a * c) * b
         /\ (2 * a * b) * c = 2 * ((a * c) * b)
OBVIOUS

(* A threshold that is not near a printed score divides it from others like *)
(* the score.                                                               *)
LEMMA PrintedLabels ==
  ASSUME NEW score \in Int, NEW threshold \in Int \X (Nat \ {0}),
         ~Near(WrittenScore(score), threshold)
  PROVE  Positive(score, threshold) <=> WrittenScore(score) * threshold[2] > threshold[1] * WrittenUnit
<1>1. PICK t \in Int, d \in Nat \ {0}, q \in Int, S \in Nat \ {0}, W \in Nat \ {0} :
        /\ threshold[1] = t /\ threshold[2] = d /\ q = WrittenScore(score)
        /\ S = ScoreUnit /\ W = WrittenUnit
  BY ScoreIsNear, UnitsAssumption
<1>2. (2 * q - 1) * S <= 2 * score * W /\ 2 * score * W <= (2 * q + 1) * S
  BY <1>1, ScoreIsNear DEF Near
<1>3. (2 * q - 1) * d > 2 * t * W \/ 2 * t * W > (2 * q + 1) * d
  BY <1>1 DEF Near
<1>4. PICK low \in Int, high \in Int, mine \in Int, theirs \in Int :
        /\ low = 2 * q - 1 /\ high = 2 * q + 1 /\ mine = 2 * score * W /\ theirs = 2 * t * W
  BY <1>1
<1>5. /\ low * S <= mine /\ mine <= high * S
      /\ low * d > theirs \/ theirs > high * d
  BY <1>2, <1>3, <1>4
<1>6. score * d > t * S <=> mine * d > theirs * S
  <2>1. PICK a \in Int, b \in Int : a = score * d /\ b = t * S
    OBVIOUS
  <2>2. mine * d = 2 * (a * W) /\ theirs * S = 2 * (b * W)
    BY <1>4, <2>1, Commuted
  <2>3. a > b <=> a * W > b * W
    BY ProductsOrdered
  <2>4. a * W \in Int /\ b * W \in Int
    OBVIOUS
  <2>. QED BY <2>1, <2>2, <2>3, <2>4
<1>7. CASE low * d > theirs
  <2>1. (low * d) * S > theirs * S /\ (low * S) * d <= mine * d
    <3>1. ~(low * S > mine)
      BY <1>5
    <3>. QED BY <1>7, <3>1, ProductsOrdered
  <2>2. (low * d) * S = (low * S) * d
    BY Commuted
  <2>3. mine * d > theirs * S
    <3>1. PICK u \in Int, v \in Int, w \in Int, x \in Int :
            u = (low * d) * S /\ v = theirs * S /\ w = (low * S) * d /\ x = mine * d
      OBVIOUS
    <3>. QED BY <2>1, <2>2, <3>1
  <2>4. q * d > t * W
    <3>1. PICK u \in Int, v \in Int : u = q * d /\ v = t * W
      OBVIOUS
    <3>2. low * d = 2 * u - d /\ theirs = 2 * v
      BY <1>4, <3>1
    <3>. QED BY <1>7, <3>1, <3>2
  <2>. QED BY <1>1, <1>6, <2>3, <2>4 DEF Positive
<1>8. CASE theirs > high * d
  <2>1. theirs * S > (high * d) * S /\ mine * d <= (high * S) * d
    <3>1. ~(mine > high * S)
      BY <1>5
    <3>. QED BY <1>8, <3>1, ProductsOrdered
  <2>2. (high * d) * S = (high * S) * d
    BY Commuted
  <2>3. ~(mine * d > theirs * S)
    <3>1. PICK u \in Int, v \in Int, w \in Int, x \in Int :
            u = (high * d) * S /\ v = theirs * S /\ w = (high * S) * d /\ x = mine * d
      OBVIOUS
    <3>. QED BY <2>1, <2>2, <3>1
  <2>4. ~(q * d > t * W)
    <3>1. PICK u \in Int, v \in Int : u = q * d /\ v = t * W
      OBVIOUS
    <3>2. high * d = 2 * u + d /\ theirs = 2 * v
      BY <1>4, <3>1
    <3>. QED BY <1>8, <3>1, <3>2
  <2>. QED BY <1>1, <1>6, <2>3, <2>4 DEF Positive
<1>. QED BY <1>5, <1>7, <1>8

-----------------------------------------------------------------------------
(* What two reports of one prediction say of each other.                    *)

ListsPositives(listed, scores) ==
  LET predicted == Selected(scores, {k \in DOMAIN scores : scores[k].predicted_label})
  IN  /\ Len(predicted) = Len(listed)
      /\ \A n \in DOMAIN listed :
           listed[n].pair = predicted[n].pair /\ listed[n].score = predicted[n].score

LEMMA PositivesOfScores ==
  ASSUME NEW rows_, NEW threshold, RowsSound(rows_, threshold),
         NEW scores, TellsScores(scores, rows_), NEW listed, TellsPositives(listed, rows_)
  PROVE  ListsPositives(listed, scores)
<1>1. PICK size \in Nat :
        /\ DOMAIN rows_.pairs = 1..size
        /\ rows_.predictions = [k \in 1..size |-> Positive(rows_.scores[k], threshold)]
  BY DEF RowsSound
<1> DEFINE all == [i \in DOMAIN rows_.pairs |-> i]
           S == {i \in DOMAIN rows_.pairs : rows_.predictions[i]}
           A == {scores[k] : k \in 1..size}
<1>2. /\ DOMAIN scores = 1..size
      /\ \A k \in 1..size : /\ scores[k].pair = rows_.pairs[k] /\ scores[k].score = WrittenScore(rows_.scores[k])
                            /\ scores[k].predicted_label = rows_.predictions[k]
      /\ scores = [k \in 1..size |-> scores[k]]
  BY <1>1 DEF TellsScores, write_pair_scores
<1>3. {k \in DOMAIN scores : scores[k].predicted_label} = S
  BY <1>1, <1>2
<1>4. scores \in Seq(A) /\ Len(scores) = size
  <2>1. \A k \in 1..size : scores[k] \in A
    OBVIOUS
  <2> HIDE DEF A
  <2>2. [k \in 1..size |-> scores[k]] \in Seq(A)
    BY <1>1, <2>1
  <2>. QED BY <1>1, <1>2, <2>2
<1>5. all \in Seq(1..size) /\ Len(all) = size /\ \A k \in 1..size : all[k] = k
  BY <1>1
<1>6. S \in SUBSET (1..size)
  BY <1>1
<1> HIDE DEF A, S, all
<1>7. PICK m, at : Enumerates(at, m, S) /\ Selected(scores, S) = Taken(scores, at, m)
                     /\ Selected(all, S) = Taken(all, at, m)
  <2>1. Len(scores) = Len(all) /\ S \in SUBSET (1..Len(scores))
    BY <1>4, <1>5, <1>6
  <2>. QED BY <1>4, <1>5, <2>1, SelectedTogether
<1>8. /\ m \in Nat /\ \A n \in 1..m : at[n] \in 1..size
  BY <1>6, <1>7 DEF Enumerates
<1>9. PICK flows, ports, services :
        listed = write_positive_predictions(rows_.pairs, rows_.predictions, rows_.scores, flows, ports, services)
  BY DEF TellsPositives
<1> DEFINE positive == Selected(all, S)
<1>10. /\ DOMAIN listed = DOMAIN positive
       /\ \A n \in DOMAIN positive :
            /\ listed[n].pair = rows_.pairs[positive[n]]
            /\ listed[n].score = WrittenScore(rows_.scores[positive[n]])
  BY <1>9 DEF write_positive_predictions, all, S
<1>11. DOMAIN positive = 1..m /\ \A n \in 1..m : positive[n] = at[n]
  BY <1>5, <1>7, <1>8 DEF Taken
<1> HIDE DEF positive
<1>12. Len(Selected(scores, S)) = m /\ \A n \in 1..m : Selected(scores, S)[n] = scores[at[n]]
  BY <1>7, <1>8 DEF Taken
<1>13. DOMAIN listed = 1..m /\ Len(listed) = m
  <2>1. listed = [n \in 1..m |-> listed[n]]
    BY <1>9, <1>10, <1>11 DEF write_positive_predictions
  <2>. QED BY <1>8, <1>10, <1>11, <2>1
<1>14. \A n \in DOMAIN listed : /\ listed[n].pair = Selected(scores, S)[n].pair
                               /\ listed[n].score = Selected(scores, S)[n].score
  <2>. SUFFICES ASSUME NEW n \in 1..m
                PROVE  /\ listed[n].pair = Selected(scores, S)[n].pair
                       /\ listed[n].score = Selected(scores, S)[n].score
    BY <1>13
  <2>1. at[n] \in 1..size /\ positive[n] = at[n] /\ Selected(scores, S)[n] = scores[at[n]]
    BY <1>8, <1>11, <1>12
  <2>2. scores[at[n]].pair = rows_.pairs[at[n]] /\ scores[at[n]].score = WrittenScore(rows_.scores[at[n]])
    BY <1>2, <2>1
  <2>3. listed[n].pair = rows_.pairs[positive[n]] /\ listed[n].score = WrittenScore(rows_.scores[positive[n]])
    BY <1>10, <1>11
  <2>. QED BY <2>1, <2>2, <2>3
<1>. QED BY <1>3, <1>12, <1>13, <1>14 DEF ListsPositives

HasColumns(explanations, scores) ==
  /\ DOMAIN explanations = DOMAIN scores
  /\ \A k \in DOMAIN scores :
       /\ \A column \in DOMAIN scores[k] \ {"score"} : explanations[k][column] = scores[k][column]
       /\ Near(scores[k].score, <<explanations[k].score, ScoreUnit>>)

LEMMA ColumnsOfScores ==
  ASSUME NEW rows_, NEW threshold, RowsSound(rows_, threshold), NEW baseline, NEW asked,
         NEW scores, TellsScores(scores, rows_),
         NEW explanations, TellsExplanations(explanations, rows_, baseline, asked)
  PROVE  HasColumns(explanations, scores)
<1>1. DOMAIN explanations = DOMAIN rows_.pairs /\ DOMAIN scores = DOMAIN rows_.pairs
  BY DEF TellsScores, TellsExplanations, write_pair_scores, write_prediction_explanations
<1>2. ASSUME NEW k \in DOMAIN rows_.pairs
      PROVE  /\ DOMAIN scores[k] = {"pair", "score", "predicted_label", "label"}
             /\ explanations[k].pair = scores[k].pair
             /\ explanations[k].predicted_label = scores[k].predicted_label
             /\ explanations[k].label = scores[k].label
             /\ explanations[k].score = rows_.scores[k] /\ scores[k].score = WrittenScore(rows_.scores[k])
  BY DEF TellsScores, TellsExplanations, write_pair_scores, write_prediction_explanations
<1>3. \A k \in DOMAIN rows_.pairs : rows_.scores[k] \in Int
  BY DEF RowsSound
<1>4. \A k \in DOMAIN scores : Near(scores[k].score, <<explanations[k].score, ScoreUnit>>)
  BY <1>1, <1>2, <1>3, ScoreIsNear
<1>. QED BY <1>1, <1>2, <1>4 DEF HasColumns

LEMMA RestOfScores ==
  ASSUME NEW rows_, NEW classifier, RowsSound(rows_, classifier.threshold),
         classifier.threshold \in Int \X (Nat \ {0}), NEW scores, TellsScores(scores, rows_)
  PROVE  /\ \A body : TellsManifest(body, rows_, classifier) =>
              /\ body.evaluated_pairs = Len(scores)
              /\ LET threshold == body.classifier_threshold
                 IN  \A k \in DOMAIN scores :
                       \/ Near(scores[k].score, threshold)
                       \/ scores[k].predicted_label
                            <=> scores[k].score * threshold[2] > threshold[1] * WrittenUnit
         /\ \A body : TellsMetrics(body, rows_) =>
              body.total_predictions = Len(scores) /\ \A k \in DOMAIN scores : scores[k].label # None
<1>1. PICK size \in Nat :
        /\ DOMAIN rows_.pairs = 1..size /\ rows_.scores \in [1..size -> Int]
        /\ rows_.predictions = [k \in 1..size |-> Positive(rows_.scores[k], classifier.threshold)]
  BY DEF RowsSound
<1>2. scores = [i \in 1..size |->
                  [pair |-> rows_.pairs[i], score |-> WrittenScore(rows_.scores[i]),
                   predicted_label |-> rows_.predictions[i], label |-> LabelOf(rows_.labels, i)]]
  BY <1>1 DEF TellsScores, write_pair_scores
<1>3. Len(scores) = size /\ Len(rows_.predictions) = size
  BY <1>1, <1>2
<1>4. Len(rows_.pairs) = size
  BY <1>1
<1>5. ASSUME NEW k \in 1..size, ~Near(scores[k].score, classifier.threshold)
      PROVE  scores[k].predicted_label
               <=> scores[k].score * classifier.threshold[2] > classifier.threshold[1] * WrittenUnit
  <2>1. /\ scores[k].score = WrittenScore(rows_.scores[k])
        /\ scores[k].predicted_label = Positive(rows_.scores[k], classifier.threshold)
        /\ rows_.scores[k] \in Int
    BY <1>1, <1>2
  <2>. QED BY <1>5, <2>1, PrintedLabels
<1>6. rows_.labels # None => \A k \in 1..size : scores[k].label # None
  BY <1>2 DEF LabelOf, None
<1>7. ASSUME NEW body, TellsMetrics(body, rows_) PROVE body.total_predictions = Len(rows_.predictions)
  BY <1>7, MetricsCount
<1>8. ASSUME NEW body, TellsMetrics(body, rows_) PROVE rows_.labels # None
  BY <1>8 DEF TellsMetrics
<1>9. DOMAIN scores = 1..size
  BY <1>2
<1>. QED BY <1>3, <1>4, <1>5, <1>6, <1>7, <1>8, <1>9 DEF TellsManifest

(* The label of an explanation is what the threshold makes of its score.    *)
LEMMA ExplainedLabels ==
  ASSUME NEW rows_, NEW classifier, RowsSound(rows_, classifier.threshold), NEW baseline, NEW asked,
         NEW explanations, TellsExplanations(explanations, rows_, baseline, asked),
         NEW body, TellsManifest(body, rows_, classifier)
  PROVE  \A k \in DOMAIN explanations :
           explanations[k].predicted_label <=> Positive(explanations[k].score, body.classifier_threshold)
<1>1. PICK size \in Nat :
        /\ DOMAIN rows_.pairs = 1..size
        /\ rows_.predictions = [k \in 1..size |-> Positive(rows_.scores[k], classifier.threshold)]
  BY DEF RowsSound
<1>2. DOMAIN explanations = 1..size
      /\ \A k \in 1..size : /\ explanations[k].score = rows_.scores[k]
                            /\ explanations[k].predicted_label = rows_.predictions[k]
  BY <1>1 DEF TellsExplanations, write_prediction_explanations
<1>. QED BY <1>1, <1>2 DEF TellsManifest

LEMMA ListedAreCounted ==
  ASSUME NEW rows_, NEW threshold, RowsSound(rows_, threshold), NEW listed, TellsPositives(listed, rows_)
  PROVE  Len(PositivesOf(rows_)) = Len(listed)
<1>1. PICK size \in Nat : DOMAIN rows_.pairs = 1..size
  BY DEF RowsSound
<1> DEFINE all == [i \in DOMAIN rows_.pairs |-> i]
           S == {i \in DOMAIN rows_.pairs : rows_.predictions[i]}
<1>2. all \in Seq(1..size) /\ Len(all) = size /\ S \in SUBSET (1..size)
  BY <1>1
<1>3. PositivesOf(rows_) = Selected(all, S)
  BY DEF PositivesOf
<1> HIDE DEF all, S
<1>4. PICK m, at : Enumerates(at, m, S) /\ Selected(all, S) = Taken(all, at, m)
  BY <1>2, SelectedAlone
<1>5. m \in Nat /\ DOMAIN PositivesOf(rows_) = 1..m /\ Len(PositivesOf(rows_)) = m
  BY <1>3, <1>4 DEF Taken, Enumerates
<1>6. DOMAIN listed = DOMAIN PositivesOf(rows_)
  BY <1>3 DEF TellsPositives, write_positive_predictions, all, S
<1>. QED BY <1>5, <1>6

-----------------------------------------------------------------------------
(* The groups of features part their names.                                 *)

LEMMA GroupsApart ==
  /\ DOMAIN FEATURE_GROUPS = 1..5 /\ FEATURE_GROUPS \in Seq({FEATURE_GROUPS[g] : g \in 1..5})
  /\ Len(FEATURE_GROUPS) = 5
  /\ \A g, h \in 1..5 : \A name :
       name \in FEATURE_GROUPS[g].features /\ name \in FEATURE_GROUPS[h].features => g = h
<1>1. /\ FEATURE_GROUPS[1].features = ToSet(EmbeddingNames)
      /\ FEATURE_GROUPS[2].features = ToSet(StructuralNames)
      /\ FEATURE_GROUPS[3].features = ToSet(TemporalNames)
      /\ FEATURE_GROUPS[4].features = ToSet(FlowNames)
      /\ FEATURE_GROUPS[5].features = ToSet(NetworkNames)
      /\ DOMAIN FEATURE_GROUPS = 1..5 /\ FEATURE_GROUPS \in Seq({FEATURE_GROUPS[g] : g \in 1..5})
      /\ Len(FEATURE_GROUPS) = 5
  BY DEF FEATURE_GROUPS
<1>2. \A name \in ToSet(EmbeddingNames) :
        name \in {"emb_dot_src_dst", "emb_cosine_src_dst", "emb_l1_src_dst", "emb_l2_src_dst", "emb_src_norm",
                  "emb_dst_norm", "emb_norm_ratio", "emb_hadamard_sum", "emb_hadamard_mean"}
  BY DEF EmbeddingNames, ToSet
<1>3. \A name \in ToSet(StructuralNames) :
        name \in {"struct_in_degree_src", "struct_out_degree_src", "struct_in_degree_dst",
                  "struct_out_degree_dst", "struct_degree_ratio", "struct_common_neighbors",
                  "struct_jaccard_coefficient", "struct_adamic_adar_index",
                  "struct_preferential_attachment", "struct_resource_allocation",
                  "struct_transitive_reachability", "struct_shortest_path", "struct_hierarchy_diff"}
  BY DEF StructuralNames, ToSet
<1>4. \A name \in ToSet(TemporalNames) :
        name \in {"time_avg_duration", "time_avg_interarrival", "time_regularity", "time_direction_bias",
                  "time_initiation_order", "time_crosscorr_max", "time_crosscorr_lag", "time_spike_score"}
  BY DEF TemporalNames, ToSet
<1>5. \A name \in ToSet(FlowNames) :
        name \in {"flow_response_time", "flow_request_ratio", "flow_direction_asymmetry",
                  "flow_causality_score", "flow_src_out_share", "flow_dst_in_share"}
  BY DEF FlowNames, ToSet
<1>6. \A name \in ToSet(NetworkNames) : name \in {"net_protocol_role", "net_port_role", "net_top_port"}
  BY DEF NetworkNames, ToSet
<1>7. \A g \in 1..5 : g = 1 \/ g = 2 \/ g = 3 \/ g = 4 \/ g = 5
  OBVIOUS
<1>8. \A name :
        /\ name \in ToSet(EmbeddingNames) =>
             /\ name \notin ToSet(StructuralNames) /\ name \notin ToSet(TemporalNames)
             /\ name \notin ToSet(FlowNames) /\ name \notin ToSet(NetworkNames)
        /\ name \in ToSet(StructuralNames) =>
             name \notin ToSet(TemporalNames) /\ name \notin ToSet(FlowNames) /\ name \notin ToSet(NetworkNames)
        /\ name \in ToSet(TemporalNames) => name \notin ToSet(FlowNames) /\ name \notin ToSet(NetworkNames)
        /\ name \in ToSet(FlowNames) => name \notin ToSet(NetworkNames)
  BY <1>2, <1>3, <1>4, <1>5, <1>6
<1>. QED BY <1>1, <1>7, <1>8

LEMMA Concatenated ==
  ASSUME NEW A, NEW s \in Seq(A), NEW t \in Seq(A)
  PROVE  s \o t \in Seq(A) /\ Len(s \o t) = Len(s) + Len(t)
OBVIOUS

LEMMA NamesGrouped ==
  /\ \E A : FeatureNames \in Seq(A) /\ Len(FeatureNames) = 39
  /\ \A n \in 1..39 : \E g \in 1..5 : FeatureNames[n] \in FEATURE_GROUPS[g].features
<1>1. /\ EmbeddingNames \in Seq(ToSet(EmbeddingNames)) /\ Len(EmbeddingNames) = 9
      /\ StructuralNames \in Seq(ToSet(StructuralNames)) /\ Len(StructuralNames) = 13
      /\ TemporalNames \in Seq(ToSet(TemporalNames)) /\ Len(TemporalNames) = 8
      /\ FlowNames \in Seq(ToSet(FlowNames)) /\ Len(FlowNames) = 6
      /\ NetworkNames \in Seq(ToSet(NetworkNames)) /\ Len(NetworkNames) = 3
  BY DEF ToSet, EmbeddingNames, StructuralNames, TemporalNames, FlowNames, NetworkNames
<1> DEFINE All == ToSet(EmbeddingNames) \cup ToSet(StructuralNames) \cup ToSet(TemporalNames)
                  \cup ToSet(FlowNames) \cup ToSet(NetworkNames)
<1>2. /\ EmbeddingNames \in Seq(All) /\ StructuralNames \in Seq(All) /\ TemporalNames \in Seq(All)
      /\ FlowNames \in Seq(All) /\ NetworkNames \in Seq(All)
  BY <1>1
<1> HIDE DEF All
<1>3. FeatureNames \in Seq(All) /\ Len(FeatureNames) = 39
  <2>0. \A u, v : u \in Seq(All) /\ v \in Seq(All) => u \o v \in Seq(All) /\ Len(u \o v) = Len(u) + Len(v)
    BY Concatenated
  <2>1. PICK two : two = EmbeddingNames \o StructuralNames
    OBVIOUS
  <2>2. two \in Seq(All) /\ Len(two) = Len(EmbeddingNames) + Len(StructuralNames)
    BY <1>2, <2>0, <2>1, Zenon
  <2>3. PICK three : three = two \o TemporalNames
    OBVIOUS
  <2>4. three \in Seq(All) /\ Len(three) = Len(two) + Len(TemporalNames)
    BY <1>2, <2>0, <2>2, <2>3, Zenon
  <2>5. PICK four : four = three \o FlowNames
    OBVIOUS
  <2>6. four \in Seq(All) /\ Len(four) = Len(three) + Len(FlowNames)
    BY <1>2, <2>0, <2>4, <2>5, Zenon
  <2>7. FeatureNames = four \o NetworkNames
    BY <2>1, <2>3, <2>5 DEF FeatureNames
  <2>8. FeatureNames \in Seq(All) /\ Len(FeatureNames) = Len(four) + Len(NetworkNames)
    BY <1>2, <2>0, <2>6, <2>7, Zenon
  <2>. QED BY <1>1, <2>2, <2>4, <2>6, <2>8
<1>5. \A name \in All : \E g \in 1..5 : name \in FEATURE_GROUPS[g].features
  BY DEF All, FEATURE_GROUPS
<1>6. \A n \in 1..39 : FeatureNames[n] \in All
  BY <1>3, ElementOfSeq
<1>. QED BY <1>3, <1>5, <1>6

LEMMA EnumeratesOnce ==
  ASSUME NEW at, NEW m, NEW S \in SUBSET Nat, Enumerates(at, m, S), NEW n \in S
  PROVE  \E k \in 1..m : \A j \in 1..m : at[j] = n <=> j = k
<1>1. PICK k \in 1..m : at[k] = n
  BY DEF Enumerates
<1>2. m \in Nat /\ \A j \in 1..m : at[j] \in Nat
  BY DEF Enumerates
<1>3. \A i, j \in 1..m : i < j => at[i] < at[j]
  BY DEF Enumerates
<1>4. ASSUME NEW j \in 1..m, at[j] = n PROVE j = k
  <2>1. ~(j < k) /\ ~(k < j)
    BY <1>1, <1>2, <1>3, <1>4
  <2>. QED BY <1>2, <2>1
<1>. QED BY <1>1, <1>4

LEMMA ExplainedOnce ==
  ASSUME NEW asked, NEW baseline,
         validate_feature_baseline(baseline, get_feature_names(asked))
  PROVE  LET names == get_feature_names(asked)
             groups == explain_with_group_ablation(names, baseline)
         IN  /\ \A column \in DOMAIN names :
                  Cardinality({n \in DOMAIN groups : column \in DOMAIN groups[n].replaced}) = 1
             /\ \A n \in DOMAIN groups : \A column \in DOMAIN groups[n].replaced :
                  column \in DOMAIN names /\ groups[n].replaced[column] = baseline.medians[column]
<1> DEFINE names == get_feature_names(asked)
           groups == explain_with_group_ablation(names, baseline)
           S == {n \in DOMAIN FeatureNames : Flag(FeatureNames[n]) \in asked}
           T == {g \in DOMAIN FEATURE_GROUPS : RowsOf(FEATURE_GROUPS[g], names) # {}}
<1>1. S \in SUBSET (1..Len(FeatureNames))
  BY NamesGrouped
<1>2. T \in SUBSET (1..Len(FEATURE_GROUPS))
  BY GroupsApart
<1>3. names = Selected(FeatureNames, S)
  BY DEF get_feature_names
<1> HIDE DEF names, S
<1>4. PICK m, at : Enumerates(at, m, S) /\ names = Taken(FeatureNames, at, m)
  BY <1>1, <1>3, NamesGrouped, SelectedAlone
<1>5. /\ DOMAIN names = 1..m /\ m \in Nat
      /\ \A column \in 1..m : at[column] \in 1..39 /\ names[column] = FeatureNames[at[column]]
  BY <1>1, <1>4, NamesGrouped DEF Taken, Enumerates
<1>6. DOMAIN groups = DOMAIN Selected(FEATURE_GROUPS, T)
      /\ \A n \in DOMAIN groups : groups[n].replaced = Ablated(Selected(FEATURE_GROUPS, T)[n], names, baseline)
  BY DEF explain_with_group_ablation
<1> HIDE DEF T, groups
<1>7. PICK size, to : Enumerates(to, size, T) /\ Selected(FEATURE_GROUPS, T) = Taken(FEATURE_GROUPS, to, size)
  BY <1>2, GroupsApart, SelectedAlone
<1>8. /\ DOMAIN groups = 1..size /\ size \in Nat
      /\ \A n \in 1..size : /\ to[n] \in T /\ to[n] \in 1..5
                            /\ groups[n].replaced = Ablated(FEATURE_GROUPS[to[n]], names, baseline)
  BY <1>2, <1>6, <1>7, GroupsApart DEF Taken, Enumerates
<1>9. \A n \in 1..size : DOMAIN groups[n].replaced = RowsOf(FEATURE_GROUPS[to[n]], names)
  BY <1>8 DEF Ablated
<1>10. ASSUME NEW column \in DOMAIN names
       PROVE  Cardinality({n \in DOMAIN groups : column \in DOMAIN groups[n].replaced}) = 1
  <2>1. PICK g \in 1..5 : names[column] \in FEATURE_GROUPS[g].features
    <3>1. at[column] \in 1..39 /\ names[column] = FeatureNames[at[column]]
      BY <1>5
    <3>2. \E g \in 1..5 : FeatureNames[at[column]] \in FEATURE_GROUPS[g].features
      BY <3>1, NamesGrouped
    <3>. QED BY <3>1, <3>2
  <2>2. \A h \in 1..5 : column \in RowsOf(FEATURE_GROUPS[h], names) <=> h = g
    BY <2>1, GroupsApart DEF RowsOf
  <2>3. g \in T
    BY <2>2, GroupsApart DEF T
  <2>4. PICK k \in 1..size : \A j \in 1..size : to[j] = g <=> j = k
    <3>1. T \in SUBSET Nat /\ Enumerates(to, size, T)
      BY <1>2, <1>7, GroupsApart
    <3>. QED BY <2>3, <3>1, EnumeratesOnce
  <2>5. {n \in DOMAIN groups : column \in DOMAIN groups[n].replaced} = {k}
    BY <1>8, <1>9, <2>2, <2>4
  <2>. QED BY <2>5, FS_Singleton
<1>11. ASSUME NEW n \in DOMAIN groups, NEW column \in DOMAIN groups[n].replaced
       PROVE  column \in DOMAIN names /\ groups[n].replaced[column] = baseline.medians[column]
  BY <1>8, <1>9 DEF RowsOf, Ablated
<1>. QED BY <1>10, <1>11 DEF groups, names

-----------------------------------------------------------------------------

LEMMA ReportsFollow == ToldInv => ReportsAgree
<1> SUFFICES ASSUME ToldInv, NEW r \in Predictions
             PROVE
    /\ \A scores \in Reports(r, ".scores.csv") :
         /\ \A listed \in Reports(r, "") :
              LET predicted == Selected(scores, {k \in DOMAIN scores : scores[k].predicted_label})
              IN  /\ Len(predicted) = Len(listed)
                  /\ \A n \in DOMAIN listed :
                       listed[n].pair = predicted[n].pair /\ listed[n].score = predicted[n].score
         /\ \A explanations \in Reports(r, ".explanations.jsonl") :
              /\ DOMAIN explanations = DOMAIN scores
              /\ \A k \in DOMAIN scores :
                   /\ \A column \in DOMAIN scores[k] \ {"score"} :
                        explanations[k][column] = scores[k][column]
                   /\ Near(scores[k].score, <<explanations[k].score, ScoreUnit>>)
         /\ \A manifest \in Reports(r, ".run_manifest.json") :
              /\ manifest.evaluated_pairs = Len(scores)
              /\ LET threshold == manifest.classifier_threshold
                 IN  \A k \in DOMAIN scores :
                       \/ Near(scores[k].score, threshold)
                       \/ scores[k].predicted_label
                            <=> scores[k].score * threshold[2] > threshold[1] * WrittenUnit
         /\ \A metrics \in Reports(r, ".metrics.json") :
              metrics.total_predictions = Len(scores) /\ \A k \in DOMAIN scores : scores[k].label # None
    /\ \A explanations \in Reports(r, ".explanations.jsonl"), manifest \in Reports(r, ".run_manifest.json") :
         LET threshold == manifest.classifier_threshold
         IN  \A k \in DOMAIN explanations :
               explanations[k].predicted_label
                 <=> explanations[k].score * threshold[2] > threshold[1] * ScoreUnit
    /\ \A listed \in Reports(r, ""), metrics \in Reports(r, ".metrics.json") :
         metrics.positive_predictions = Len(listed)
  BY DEF ReportsAgree
<1>1. PICK rows_, baseline :
        /\ RowsSound(rows_, finished[r].classifier[1].threshold)
        /\ \A suffix : \A body \in Reports(r, suffix) :
             Tells(suffix, body, rows_, baseline, finished[r].config, finished[r].classifier[1])
  BY DEF ToldInv, Told
<1>2. PICK classifier, asked : classifier = finished[r].classifier[1] /\ asked = finished[r].config
  OBVIOUS
<1>3. /\ \A body \in Reports(r, ".scores.csv") : TellsScores(body, rows_)
      /\ \A body \in Reports(r, ".explanations.jsonl") : TellsExplanations(body, rows_, baseline, asked)
      /\ \A body \in Reports(r, "") : TellsPositives(body, rows_)
      /\ \A body \in Reports(r, ".metrics.json") : TellsMetrics(body, rows_)
      /\ \A body \in Reports(r, ".run_manifest.json") : TellsManifest(body, rows_, classifier)
  BY <1>1, <1>2 DEF Tells
<1>4. RowsSound(rows_, classifier.threshold) /\ classifier.threshold \in Int \X (Nat \ {0})
  BY <1>1, <1>2 DEF RowsSound
<1>5. ASSUME NEW scores \in Reports(r, ".scores.csv"), NEW listed \in Reports(r, "")
      PROVE  ListsPositives(listed, scores)
  BY <1>3, <1>4, PositivesOfScores
<1>6. ASSUME NEW scores \in Reports(r, ".scores.csv"), NEW explanations \in Reports(r, ".explanations.jsonl")
      PROVE  HasColumns(explanations, scores)
  BY <1>3, <1>4, ColumnsOfScores
<1>7. ASSUME NEW scores \in Reports(r, ".scores.csv"), NEW manifest \in Reports(r, ".run_manifest.json")
      PROVE  /\ manifest.evaluated_pairs = Len(scores)
             /\ LET threshold == manifest.classifier_threshold
                IN  \A k \in DOMAIN scores :
                      \/ Near(scores[k].score, threshold)
                      \/ scores[k].predicted_label
                           <=> scores[k].score * threshold[2] > threshold[1] * WrittenUnit
  BY <1>3, <1>4, RestOfScores
<1>8. ASSUME NEW scores \in Reports(r, ".scores.csv"), NEW metrics \in Reports(r, ".metrics.json")
      PROVE  metrics.total_predictions = Len(scores) /\ \A k \in DOMAIN scores : scores[k].label # None
  BY <1>3, <1>4, RestOfScores
<1>9. ASSUME NEW listed \in Reports(r, ""), NEW metrics \in Reports(r, ".metrics.json")
      PROVE  metrics.positive_predictions = Len(listed)
  <2>1. metrics.positive_predictions = Len(PositivesOf(rows_))
    BY <1>3, MetricsCount
  <2>. QED BY <1>3, <1>4, <2>1, ListedAreCounted
<1>10. ASSUME NEW explanations \in Reports(r, ".explanations.jsonl"),
              NEW manifest \in Reports(r, ".run_manifest.json"), NEW k \in DOMAIN explanations
       PROVE  LET threshold == manifest.classifier_threshold
              IN  explanations[k].predicted_label
                    <=> explanations[k].score * threshold[2] > threshold[1] * ScoreUnit
  <2>1. TellsExplanations(explanations, rows_, baseline, asked) /\ TellsManifest(manifest, rows_, classifier)
    BY <1>3
  <2>2. explanations[k].predicted_label
          <=> Positive(explanations[k].score, manifest.classifier_threshold)
    BY <1>4, <2>1, ExplainedLabels
  <2>. QED BY <2>2 DEF Positive
<1>. QED BY <1>5, <1>6, <1>7, <1>8, <1>9, <1>10 DEF ListsPositives, HasColumns

LEMMA ExplanationsFollow == ToldInv => ExplanationsBelong
<1> SUFFICES ASSUME ToldInv, NEW r \in Predictions, NEW explanations \in Reports(r, ".explanations.jsonl"),
                    NEW k \in DOMAIN explanations
             PROVE
    LET names == get_feature_names(finished[r].config.FEATURE_CONFIG)
        classifier == finished[r].classifier[1]
        groups == explanations[k].groups
    IN    /\ \A column \in DOMAIN names :
               Cardinality({n \in DOMAIN groups : column \in DOMAIN groups[n].replaced}) = 1
          /\ \A n \in DOMAIN groups : \A column \in DOMAIN groups[n].replaced :
               LET median == groups[n].replaced[column]
               IN  /\ median.of = names[column]
                   /\ \/ median.training = classifier.training /\ classifier.features = names
                      \/ median.training > classifier.training
                         /\ median.training \notin DOMAIN finished
  BY DEF ExplanationsBelong
<1>1. PICK rows_, baseline :
        /\ Tells(".explanations.jsonl", explanations, rows_, baseline, finished[r].config, finished[r].classifier[1])
        /\ Origin(baseline, finished[r].classifier[1], r, DOMAIN finished)
  BY DEF ToldInv, Told
<1>2. PICK classifier, asked, completed :
        classifier = finished[r].classifier[1] /\ asked = finished[r].config.FEATURE_CONFIG /\ completed = DOMAIN finished
  OBVIOUS
<1> DEFINE names == get_feature_names(asked)
<1>3. /\ validate_feature_baseline(baseline, names)
      /\ explanations[k].groups = explain_with_group_ablation(names, baseline)
  BY <1>1, <1>2 DEF Tells, TellsExplanations, write_prediction_explanations
<1>4. PICK training, named :
        /\ training \in Nat
        /\ baseline = compute_feature_baseline(training, named)
        /\ \/ training = classifier.training /\ classifier.features = named
           \/ training > classifier.training /\ training < r /\ training \notin completed
  BY <1>1, <1>2 DEF Origin
<1>5. named = names
  BY <1>3, <1>4 DEF validate_feature_baseline, compute_feature_baseline
<1>6. \A column \in DOMAIN names :
        baseline.medians[column].training = training /\ baseline.medians[column].of = names[column]
  BY <1>4, <1>5 DEF compute_feature_baseline
<1> DEFINE groups == explain_with_group_ablation(names, baseline)
<1>7. /\ \A column \in DOMAIN names :
           Cardinality({n \in DOMAIN groups : column \in DOMAIN groups[n].replaced}) = 1
      /\ \A n \in DOMAIN groups : \A column \in DOMAIN groups[n].replaced :
           column \in DOMAIN names /\ groups[n].replaced[column] = baseline.medians[column]
  BY <1>3, ExplainedOnce
<1> HIDE DEF names, groups
<1>8. \A n \in DOMAIN groups : \A column \in DOMAIN groups[n].replaced :
         LET median == groups[n].replaced[column]
         IN  /\ median.of = names[column]
             /\ \/ median.training = classifier.training /\ classifier.features = names
                \/ median.training > classifier.training /\ median.training \notin completed
  BY <1>4, <1>5, <1>6, <1>7
<1>. QED BY <1>2, <1>3, <1>7, <1>8 DEF names, groups

-----------------------------------------------------------------------------
(* The inductive invariant of the reports.                                  *)
ReportsInv == IInv /\ OInv /\ CInv /\ AInv /\ TInv /\ PInv /\ ToldInv

LEMMA ReportsStart == Init => ReportsInv
<1> SUFFICES ASSUME Init PROVE ReportsInv
  OBVIOUS
<1>1. IInv /\ OInv /\ AInv /\ TInv
  BY Initially, OutputsInitially, TrainedInitially, ThresholdsInitially
<1>2. CInv
  BY InputsAssumption DEF Init, CInv, InputsInv, StartupInv
<1>3. PInv
  BY DEF Init, PInv, GraphInv, LoadedInv, OriginInv, RowsInv, BodiesInv, CountInv
<1>4. ToldInv
  BY DEF Init, ToldInv, Predictions
<1>. QED BY <1>1, <1>2, <1>3, <1>4 DEF ReportsInv

LEMMA ReportsStep == ReportsInv /\ [Next]_vars => ReportsInv'
<1> SUFFICES ASSUME ReportsInv, [Next]_vars PROVE ReportsInv'
  OBVIOUS
<1>1. StepInv
  BY DEF ReportsInv, IInv, ProcessInv
<1>2. IInv' /\ OInv'
  BY Step, OutputsStep DEF ReportsInv
<1>3. CInv' /\ AInv' /\ TInv'
  BY <1>1, ConfigurationStep, TrainedStep, ThresholdsStep DEF ReportsInv, CInv
<1>4. PInv' /\ ToldInv'
  BY <1>2, PredictionStep, ToldStep DEF ReportsInv
<1>. QED BY <1>2, <1>3, <1>4 DEF ReportsInv

(* What is left of the reports of a prediction that completed agrees: the   *)
(* listed positives are the rows labelled positive, with scores printed     *)
(* alike; the explanations have the same rows with the scores those were    *)
(* rounded from, which are above the manifest's threshold just if they are  *)
(* labelled positive, as printed ones do unless rounding decides; and the   *)
(* counts of the metrics are the lengths of the lists, whatever other runs  *)
(* wrote over the rest of them.                                             *)
THEOREM ReportsAlwaysAgree == Spec => []ReportsAgree
<1>1. ReportsInv => ReportsAgree
  BY ReportsFollow DEF ReportsInv
<1>. QED BY <1>1, ReportsStart, ReportsStep, PTL DEF Spec

(* Every explained group of a completed prediction replaces features of its *)
(* own, every feature once, by the medians of that feature from the training *)
(* of the classifier, or of a later training that stopped between the two   *)
(* files it writes.                                                         *)
THEOREM ExplanationsAlwaysBelong == Spec => []ExplanationsBelong
<1>1. ReportsInv => ExplanationsBelong
  BY ExplanationsFollow DEF ReportsInv
<1>. QED BY <1>1, ReportsStart, ReportsStep, PTL DEF Spec

-----------------------------------------------------------------------------
(* The ranking of scores.                                                   *)

\* The head of the ranking.
HeadOf(scores, size) == {k \in DOMAIN scores : Cardinality(Before(scores, k)) < size}

LEMMA RankedBefore ==
  ASSUME NEW L \in Nat, NEW scores \in [1..L -> Int], NEW k \in 1..L
  PROVE  /\ Before(scores, k) \subseteq 1..L /\ IsFiniteSet(Before(scores, k))
         /\ k \notin Before(scores, k)
         /\ Cardinality(Before(scores, k)) \in 0..(L - 1)
<1>1. Before(scores, k) \subseteq (1..L) \ {k}
  BY DEF Before, Ahead
<1>2. IsFiniteSet(1..L) /\ Cardinality(1..L) = L
  BY FS_Interval
<1>3. IsFiniteSet((1..L) \ {k}) /\ Cardinality((1..L) \ {k}) = L - 1
  BY <1>2, FS_RemoveElement
<1>4. IsFiniteSet(Before(scores, k)) /\ Cardinality(Before(scores, k)) <= L - 1
  BY <1>1, <1>3, FS_Subset
<1>5. Cardinality(Before(scores, k)) \in Nat
  BY <1>4, FS_CardinalityType
<1>. QED BY <1>1, <1>4, <1>5

(* Of two places one is ahead of the other, and then fewer are before it.   *)
LEMMA AheadOrBehind ==
  ASSUME NEW L \in Nat, NEW scores \in [1..L -> Int], NEW i \in 1..L, NEW k \in 1..L
  PROVE  /\ i # k => Ahead(scores, i, k) \/ Ahead(scores, k, i)
         /\ ~(Ahead(scores, i, k) /\ Ahead(scores, k, i))
         /\ Ahead(scores, i, k) => Cardinality(Before(scores, i)) < Cardinality(Before(scores, k))
<1>1. scores[i] \in Int /\ scores[k] \in Int /\ i \in Int /\ k \in Int
  OBVIOUS
<1>2. i # k => Ahead(scores, i, k) \/ Ahead(scores, k, i)
  BY <1>1 DEF Ahead
<1>3. ~(Ahead(scores, i, k) /\ Ahead(scores, k, i))
  BY <1>1 DEF Ahead
<1>4. ASSUME Ahead(scores, i, k)
      PROVE  Cardinality(Before(scores, i)) < Cardinality(Before(scores, k))
  <2>1. Before(scores, i) \subseteq Before(scores, k)
    <3> SUFFICES ASSUME NEW n \in Before(scores, i) PROVE n \in Before(scores, k)
      OBVIOUS
    <3>1. n \in 1..L /\ scores[n] \in Int /\ Ahead(scores, n, i)
      BY DEF Before
    <3>2. Ahead(scores, n, k)
      BY <1>1, <1>4, <3>1 DEF Ahead
    <3>. QED BY <3>1, <3>2 DEF Before
  <2>2. i \in Before(scores, k)
    BY <1>4 DEF Before
  <2>3. i \notin Before(scores, i)
    BY RankedBefore
  <2>4. IsFiniteSet(Before(scores, k))
    BY RankedBefore
  <2>5. /\ Cardinality(Before(scores, i)) <= Cardinality(Before(scores, k))
        /\ Cardinality(Before(scores, k)) # Cardinality(Before(scores, i))
    BY <2>1, <2>2, <2>3, <2>4, FS_Subset
  <2>6. Cardinality(Before(scores, i)) \in Int /\ Cardinality(Before(scores, k)) \in Int
    BY RankedBefore
  <2>. QED BY <2>5, <2>6
<1>. QED BY <1>2, <1>3, <1>4

(* Every rank is taken by one place, that with as many before it.           *)
LEMMA RankedOnce ==
  ASSUME NEW L \in Nat, NEW scores \in [1..L -> Int]
  PROVE  LET ranked == sorted_score_indices_desc(scores)
         IN  /\ ranked \in [1..L -> 1..L] /\ Len(ranked) = L
             /\ \A r \in 1..L : Cardinality(Before(scores, ranked[r])) = r - 1
             /\ \A k \in 1..L : ranked[Cardinality(Before(scores, k)) + 1] = k
<1> DEFINE place == [k \in 1..L |-> Cardinality(Before(scores, k)) + 1]
           ranked == sorted_score_indices_desc(scores)
<1>1. place \in [1..L -> 1..L]
  <2> SUFFICES ASSUME NEW k \in 1..L PROVE Cardinality(Before(scores, k)) + 1 \in 1..L
    OBVIOUS
  <2>. QED BY RankedBefore
<1>2. ASSUME NEW i \in 1..L, NEW k \in 1..L, place[i] = place[k] PROVE i = k
  <2>1. Cardinality(Before(scores, i)) = Cardinality(Before(scores, k))
    <3>1. Cardinality(Before(scores, i)) \in Int /\ Cardinality(Before(scores, k)) \in Int
      BY RankedBefore
    <3>. QED BY <1>2, <3>1
  <2>2. Cardinality(Before(scores, i)) \in Int /\ Cardinality(Before(scores, k)) \in Int
    BY RankedBefore
  <2>3. ~Ahead(scores, i, k)
    BY <2>1, <2>2, AheadOrBehind
  <2>4. ~Ahead(scores, k, i)
    BY <2>1, <2>2, AheadOrBehind
  <2>. QED BY <2>3, <2>4, AheadOrBehind
<1>3. IsFiniteSet(1..L)
  BY FS_Interval
<1>4. place \in Injection(1..L, 1..L)
  BY <1>1, <1>2 DEF Injection, IsInjective
<1>5. place \in Surjection(1..L, 1..L)
  BY <1>3, <1>4, FS_Injection
<1>6. \A r \in 1..L : \E k \in 1..L : place[k] = r
  BY <1>5 DEF Surjection
<1>7. \A k \in 1..L : place[k] = Cardinality(Before(scores, k)) + 1
  OBVIOUS
<1>8. \A k \in 1..L : Cardinality(Before(scores, k)) \in Int
  BY RankedBefore
<1> HIDE DEF place
<1>10. /\ DOMAIN scores = 1..L
       /\ ranked = [r \in DOMAIN scores |-> CHOOSE k \in DOMAIN scores : Cardinality(Before(scores, k)) = r - 1]
  BY DEF sorted_score_indices_desc
<1>11. ASSUME NEW r \in 1..L
       PROVE  ranked[r] \in 1..L /\ Cardinality(Before(scores, ranked[r])) = r - 1
  <2>1. PICK k \in 1..L : place[k] = r
    BY <1>6
  <2>2. place[k] = Cardinality(Before(scores, k)) + 1 /\ Cardinality(Before(scores, k)) \in Int /\ r \in Int
    BY <1>7, <1>8
  <2>3. Cardinality(Before(scores, k)) = r - 1
    BY <2>1, <2>2
  <2>. QED BY <1>10, <2>3
<1>12. ranked \in [1..L -> 1..L]
  BY <1>10, <1>11
<1>13. Len(ranked) = L
  BY <1>12
<1>14. ASSUME NEW k \in 1..L PROVE ranked[Cardinality(Before(scores, k)) + 1] = k
  <2>1. place[k] \in 1..L
    BY <1>1 DEF place
  <2>2. ranked[place[k]] \in 1..L /\ Cardinality(Before(scores, ranked[place[k]])) = place[k] - 1
    BY <1>11, <2>1
  <2>3. place[ranked[place[k]]] = place[k]
    BY <1>7, <1>8, <2>2
  <2>4. ranked[place[k]] = k
    BY <1>2, <2>2, <2>3
  <2>. QED BY <1>7, <2>4
<1>. QED BY <1>11, <1>12, <1>13, <1>14

(* As many places are at some ranks as there are ranks.                     *)
LEMMA RanksAreDistinct ==
  ASSUME NEW L \in Nat, NEW scores \in [1..L -> Int], NEW S \in SUBSET (1..L)
  PROVE  LET held == {sorted_score_indices_desc(scores)[q] : q \in S}
         IN  IsFiniteSet(held) /\ Cardinality(held) = Cardinality(S)
<1> DEFINE ranked == sorted_score_indices_desc(scores)
           held == {ranked[q] : q \in S}
           at == [q \in S |-> ranked[q]]
<1>1. /\ ranked \in [1..L -> 1..L]
      /\ \A r \in 1..L : Cardinality(Before(scores, ranked[r])) = r - 1
  BY RankedOnce
<1> HIDE DEF ranked
<1>2. at \in Surjection(S, held)
  BY DEF Surjection
<1>3. ASSUME NEW q \in S, NEW r \in S, at[q] = at[r] PROVE q = r
  <2>1. ranked[q] = ranked[r] /\ q \in 1..L /\ r \in 1..L
    BY <1>3
  <2>2. q - 1 = r - 1
    BY <1>1, <2>1
  <2>. QED BY <2>1, <2>2
<1>4. at \in [S -> held]
  OBVIOUS
<1>5. at \in Injection(S, held)
  BY <1>3, <1>4 DEF Injection, IsInjective
<1>6. IsFiniteSet(S)
  <2>1. IsFiniteSet(1..L)
    BY FS_Interval
  <2>. QED BY <2>1, FS_Subset
<1> HIDE DEF at, held
<1>7. IsFiniteSet(held) /\ Cardinality(held) = Cardinality(S)
  BY <1>2, <1>5, <1>6, FS_Surjection
<1>. QED BY <1>7 DEF held, ranked

(* The head of the ranking is what the first ranks hold.                    *)
LEMMA HeadIsRanked ==
  ASSUME NEW L \in Nat, NEW scores \in [1..L -> Int], NEW r \in 0..L
  PROVE  HeadOf(scores, r) = {sorted_score_indices_desc(scores)[q] : q \in 1..r}
<1> DEFINE ranked == sorted_score_indices_desc(scores)
<1>1. /\ ranked \in [1..L -> 1..L]
      /\ \A q \in 1..L : Cardinality(Before(scores, ranked[q])) = q - 1
      /\ \A k \in 1..L : ranked[Cardinality(Before(scores, k)) + 1] = k
  BY RankedOnce
<1> HIDE DEF ranked
<1>2. ASSUME NEW k \in HeadOf(scores, r) PROVE \E q \in 1..r : k = ranked[q]
  <2>1. k \in 1..L /\ Cardinality(Before(scores, k)) < r
    BY DEF HeadOf
  <2>2. Cardinality(Before(scores, k)) \in Nat
    BY <2>1, RankedBefore
  <2>3. Cardinality(Before(scores, k)) + 1 \in 1..r
    BY <2>1, <2>2
  <2>. QED BY <1>1, <2>1, <2>3
<1>3. ASSUME NEW q \in 1..r PROVE ranked[q] \in HeadOf(scores, r)
  <2>1. q \in 1..L /\ q - 1 < r
    OBVIOUS
  <2>. QED BY <1>1, <2>1 DEF HeadOf
<1>4. HeadOf(scores, r) = {ranked[q] : q \in 1..r}
  BY <1>2, <1>3
<1>. QED BY <1>4 DEF ranked

(* It has as many places as ranks, and as many positives as there are hits. *)
LEMMA HeadCounted ==
  ASSUME NEW L \in Nat, NEW scores \in [1..L -> Int], NEW r \in 0..L,
         NEW labels \in [1..L -> BOOLEAN]
  PROVE  /\ IsFiniteSet(HeadOf(scores, r)) /\ Cardinality(HeadOf(scores, r)) = r
         /\ Hits(sorted_score_indices_desc(scores), labels, r) =
              Cardinality(Positives(labels) \cap HeadOf(scores, r))
<1> DEFINE ranked == sorted_score_indices_desc(scores)
           hits == {q \in 1..r : labels[ranked[q]]}
<1>1. ranked \in [1..L -> 1..L]
  BY RankedOnce
<1>2. HeadOf(scores, r) = {ranked[q] : q \in 1..r}
  BY HeadIsRanked
<1>3. 1..r \in SUBSET (1..L) /\ hits \in SUBSET (1..L)
  OBVIOUS
<1>4. IsFiniteSet({ranked[q] : q \in 1..r}) /\ Cardinality({ranked[q] : q \in 1..r}) = Cardinality(1..r)
  BY <1>3, RanksAreDistinct
<1>5. Cardinality({ranked[q] : q \in hits}) = Cardinality(hits)
  BY <1>3, RanksAreDistinct
<1> HIDE DEF ranked
<1>6. Positives(labels) \cap HeadOf(scores, r) = {ranked[q] : q \in hits}
  <2>1. ASSUME NEW k \in Positives(labels) \cap HeadOf(scores, r) PROVE k \in {ranked[q] : q \in hits}
    <3>1. PICK q \in 1..r : k = ranked[q]
      BY <1>2
    <3>2. labels[k]
      BY DEF Positives
    <3>3. q \in hits
      BY <3>1, <3>2
    <3>. QED BY <3>1, <3>3
  <2>2. ASSUME NEW q \in hits PROVE ranked[q] \in Positives(labels) \cap HeadOf(scores, r)
    <3>1. q \in 1..L /\ q \in 1..r /\ labels[ranked[q]] /\ ranked[q] \in 1..L
      BY <1>1
    <3>. QED BY <1>2, <3>1 DEF Positives
  <2>. QED BY <2>1, <2>2
<1>7. Cardinality(1..r) = r
  BY FS_Interval
<1>8. Hits(ranked, labels, r) = Cardinality(hits)
  BY DEF Hits
<1>. QED BY <1>2, <1>4, <1>5, <1>6, <1>7, <1>8 DEF ranked

(* Beyond the last rank the head stays the same.                            *)
LEMMA HeadLimited ==
  ASSUME NEW L \in Nat, NEW scores \in [1..L -> Int], NEW size \in Nat
  PROVE  LET limit == Limit(sorted_score_indices_desc(scores), size)
         IN  /\ limit \in 0..L /\ HeadOf(scores, size) = HeadOf(scores, limit)
             /\ size > 0 /\ L > 0 => limit > 0
<1> DEFINE limit == Limit(sorted_score_indices_desc(scores), size)
<1>1. limit = IF size < L THEN size ELSE L
  BY RankedOnce DEF Limit
<1> HIDE DEF limit
<1>2. limit \in 0..L /\ (size > 0 /\ L > 0 => limit > 0)
  BY <1>1
<1>3. ASSUME NEW k \in 1..L
      PROVE  Cardinality(Before(scores, k)) < size <=> Cardinality(Before(scores, k)) < limit
  <2>1. Cardinality(Before(scores, k)) \in 0..(L - 1)
    BY RankedBefore
  <2>. QED BY <1>1, <2>1
<1>4. HeadOf(scores, size) = HeadOf(scores, limit)
  BY <1>3 DEF HeadOf
<1>. QED BY <1>2, <1>4 DEF limit

(* What is with every place before it too is the head of its size; and a    *)
(* head is with every place before it too.                                  *)
LEMMA HeadIffClosed ==
  ASSUME NEW L \in Nat, NEW scores \in [1..L -> Int], NEW S \in SUBSET (1..L)
  PROVE  (HeadOf(scores, Cardinality(S)) = S) <=> (\A k \in S : Before(scores, k) \subseteq S)
<1>1. IsFiniteSet(S) /\ Cardinality(S) \in Nat
  <2>1. IsFiniteSet(1..L)
    BY FS_Interval
  <2>2. IsFiniteSet(S)
    BY <2>1, FS_Subset
  <2>. QED BY <2>2, FS_CardinalityType
<1>2. ASSUME \A k \in S : Before(scores, k) \subseteq S
      PROVE  HeadOf(scores, Cardinality(S)) = S
  <2>1. ASSUME NEW k \in S PROVE k \in HeadOf(scores, Cardinality(S))
    <3>1. Before(scores, k) \subseteq S \ {k}
      BY <1>2, RankedBefore
    <3>2. IsFiniteSet(S \ {k}) /\ Cardinality(S \ {k}) = Cardinality(S) - 1
      BY <1>1, FS_RemoveElement
    <3>3. Cardinality(Before(scores, k)) <= Cardinality(S) - 1
      BY <3>1, <3>2, FS_Subset
    <3>4. Cardinality(Before(scores, k)) \in Int
      BY RankedBefore
    <3>. QED BY <1>1, <3>3, <3>4 DEF HeadOf
  <2>2. ASSUME NEW k \in 1..L, k \notin S PROVE k \notin HeadOf(scores, Cardinality(S))
    <3>1. ASSUME NEW i \in S PROVE i \in Before(scores, k)
      <4>1. ~Ahead(scores, k, i)
        BY <1>2, <2>2 DEF Before
      <4>2. Ahead(scores, i, k)
        BY <2>2, <4>1, AheadOrBehind
      <4>. QED BY <4>2 DEF Before
    <3>2. S \subseteq Before(scores, k) /\ IsFiniteSet(Before(scores, k)) /\ Cardinality(Before(scores, k)) \in Int
      BY <3>1, RankedBefore
    <3>3. Cardinality(S) <= Cardinality(Before(scores, k))
      BY <3>2, FS_Subset
    <3>4. ~(Cardinality(Before(scores, k)) < Cardinality(S))
      BY <1>1, <3>2, <3>3
    <3>. QED BY <3>4 DEF HeadOf
  <2>3. HeadOf(scores, Cardinality(S)) \subseteq 1..L
    BY DEF HeadOf
  <2>. QED BY <2>1, <2>2, <2>3
<1>3. ASSUME HeadOf(scores, Cardinality(S)) = S, NEW k \in S, NEW i \in Before(scores, k)
      PROVE  i \in S
  <2>1. i \in 1..L /\ Ahead(scores, i, k)
    BY DEF Before
  <2>2. Cardinality(Before(scores, i)) < Cardinality(Before(scores, k))
    BY <2>1, AheadOrBehind
  <2>3. Cardinality(Before(scores, k)) < Cardinality(S)
    BY <1>3 DEF HeadOf
  <2>4. Cardinality(Before(scores, i)) \in Int /\ Cardinality(Before(scores, k)) \in Int
    BY <2>1, RankedBefore
  <2>5. Cardinality(Before(scores, i)) < Cardinality(S)
    BY <1>1, <2>2, <2>3, <2>4
  <2>6. i \in HeadOf(scores, Cardinality(S))
    BY <2>1, <2>5 DEF HeadOf
  <2>. QED BY <1>3, <2>6
<1>. QED BY <1>2, <1>3

-----------------------------------------------------------------------------
(* The metrics.                                                             *)

LEMMA RankingAtCutoff ==
  ASSUME NEW L \in Nat, NEW scores \in [1..L -> Int], NEW labels \in [1..L -> BOOLEAN],
         Positives(labels) # {}, NEW k \in Nat \ {0}
  PROVE  LET ranked == sorted_score_indices_desc(scores)
             found == Cardinality(Positives(labels) \cap HeadOf(scores, k))
         IN  /\ precision_at_k(ranked, labels, k) = <<Fraction(found, Cardinality(HeadOf(scores, k)))>>
             /\ recall_at_k(ranked, labels, k) = <<Fraction(found, Cardinality(Positives(labels)))>>
<1> DEFINE ranked == sorted_score_indices_desc(scores)
           limit == Limit(ranked, k)
<1>1. L > 0
  BY DEF Positives
<1>2. limit \in 0..L /\ HeadOf(scores, k) = HeadOf(scores, limit) /\ limit > 0
  BY <1>1, HeadLimited
<1>3. /\ Cardinality(HeadOf(scores, limit)) = limit
      /\ Hits(ranked, labels, limit) = Cardinality(Positives(labels) \cap HeadOf(scores, limit))
  <2> HIDE DEF limit
  <2>. QED BY <1>2, HeadCounted
<1>4. precision_at_k(ranked, labels, k) = <<Fraction(Hits(ranked, labels, limit), limit)>>
  BY <1>2 DEF precision_at_k
<1>5. recall_at_k(ranked, labels, k) = <<Fraction(Hits(ranked, labels, limit), Cardinality(Positives(labels)))>>
  BY <1>2 DEF recall_at_k
<1> HIDE DEF ranked, limit
<1>. QED BY <1>2, <1>3, <1>4, <1>5 DEF ranked

(* The first hit is the only positive before which there is none.           *)
LEMMA FirstHitRanked ==
  ASSUME NEW L \in Nat, NEW scores \in [1..L -> Int], NEW labels \in [1..L -> BOOLEAN],
         NEW k \in Positives(labels), Before(scores, k) \cap Positives(labels) = {}
  PROVE  reciprocal_rank(sorted_score_indices_desc(scores), labels) =
           <<<<1, 1 + Cardinality(Before(scores, k))>>>>
<1> DEFINE ranked == sorted_score_indices_desc(scores)
           First(rank) == labels[ranked[rank]] /\ Hits(ranked, labels, rank) = 1
           place == 1 + Cardinality(Before(scores, k))
<1>1. /\ ranked \in [1..L -> 1..L]
      /\ \A r \in 1..L : Cardinality(Before(scores, ranked[r])) = r - 1
      /\ \A i \in 1..L : ranked[Cardinality(Before(scores, i)) + 1] = i
  BY RankedOnce
<1>2. k \in 1..L /\ labels[k]
  BY DEF Positives
<1>3. Cardinality(Before(scores, k)) \in 0..(L - 1)
  BY <1>2, RankedBefore
<1>4. place \in 1..L /\ place = Cardinality(Before(scores, k)) + 1
  BY <1>3
<1>5. ranked[place] = k
  BY <1>1, <1>2, <1>4
<1> HIDE DEF ranked, place
\* A rank has the first hit just if it is the only one up to it.
<1>6. ASSUME NEW rank \in 1..L
      PROVE  First(rank) <=> Positives(labels) \cap HeadOf(scores, rank) = {ranked[rank]}
  <2> DEFINE held == Positives(labels) \cap HeadOf(scores, rank)
  <2>1. rank \in 0..L
    OBVIOUS
  <2>2. IsFiniteSet(HeadOf(scores, rank)) /\ Hits(ranked, labels, rank) = Cardinality(held)
    BY <2>1, HeadCounted DEF ranked
  <2>3. IsFiniteSet(held)
    BY <2>2, FS_Subset
  <2>4. ranked[rank] \in 1..L /\ Cardinality(Before(scores, ranked[rank])) < rank
    BY <1>1
  <2>5. ranked[rank] \in HeadOf(scores, rank)
    BY <2>4 DEF HeadOf
  <2>6. ranked[rank] \in held <=> labels[ranked[rank]]
    BY <2>4, <2>5 DEF Positives
  <2> HIDE DEF held
  <2>7. Cardinality(held) = 1 <=> \E x : held = {x}
    BY <2>3, FS_Singleton
  <2>. QED BY <2>2, <2>6, <2>7 DEF held
<1>7. First(place)
  <2>1. ASSUME NEW i \in Positives(labels) \cap HeadOf(scores, place) PROVE i = k
    <3>1. i \in 1..L /\ Cardinality(Before(scores, i)) < place /\ i \in Positives(labels)
      BY DEF HeadOf
    <3>2. ~Ahead(scores, i, k)
      BY <3>1 DEF Before
    <3>3. ~Ahead(scores, k, i)
      <4>1. Cardinality(Before(scores, i)) \in Int /\ Cardinality(Before(scores, k)) \in Int
        BY <1>2, <3>1, RankedBefore
      <4>2. ~(Cardinality(Before(scores, k)) < Cardinality(Before(scores, i)))
        BY <1>4, <3>1, <4>1
      <4>. QED BY <1>2, <3>1, <4>2, AheadOrBehind
    <3>. QED BY <1>2, <3>1, <3>2, <3>3, AheadOrBehind
  <2>2. k \in HeadOf(scores, place)
    <3>1. Cardinality(Before(scores, k)) < place
      BY <1>3, <1>4
    <3>. QED BY <1>2, <3>1 DEF HeadOf
  <2>3. Positives(labels) \cap HeadOf(scores, place) = {k}
    BY <2>1, <2>2
  <2>. QED BY <1>4, <1>5, <1>6, <2>3
<1>8. ASSUME NEW rank \in 1..L, First(rank) PROVE rank = place
  <2> DEFINE i == ranked[rank]
  <2>1. i \in 1..L /\ labels[i] /\ Cardinality(Before(scores, i)) = rank - 1
    BY <1>1, <1>8
  <2>2. i \in Positives(labels)
    BY <2>1 DEF Positives
  <2>3. Positives(labels) \cap HeadOf(scores, rank) = {i}
    BY <1>6, <1>8
  <2> HIDE DEF i
  <2>4. ~Ahead(scores, i, k)
    BY <2>1, <2>2 DEF Before
  <2>5. ASSUME Ahead(scores, k, i) PROVE FALSE
    <3>1. Cardinality(Before(scores, k)) < rank - 1
      BY <1>2, <2>1, <2>5, AheadOrBehind
    <3>2. Cardinality(Before(scores, k)) < rank
      BY <1>3, <3>1
    <3>3. k \in Positives(labels) \cap HeadOf(scores, rank)
      BY <1>2, <3>2 DEF HeadOf
    <3>4. k = i
      BY <2>3, <3>3
    <3>. QED BY <1>2, <2>5, <3>4, AheadOrBehind
  <2>6. i = k
    BY <1>2, <2>1, <2>4, <2>5, AheadOrBehind
  <2>7. rank - 1 = Cardinality(Before(scores, k))
    BY <2>1, <2>6
  <2>. QED BY <1>3, <1>4, <2>7
<1>9. (CHOOSE rank \in DOMAIN ranked : First(rank)) = place
  <2>1. DOMAIN ranked = 1..L
    BY <1>1
  <2> DEFINE chosen == CHOOSE rank \in DOMAIN ranked : First(rank)
  <2>2. chosen \in DOMAIN ranked /\ First(chosen)
    BY <1>4, <1>7, <2>1
  <2>. QED BY <1>8, <2>1, <2>2
<1>10. reciprocal_rank(ranked, labels) = <<<<1, CHOOSE rank \in DOMAIN ranked : First(rank)>>>>
  <2>1. Positives(labels) # {}
    OBVIOUS
  <2>. QED BY <2>1 DEF reciprocal_rank
<1>. QED BY <1>9, <1>10 DEF ranked, place

\* What average_precision sums up for each length of a beginning of the ranking.
SumsUp(f, ranked, labels, m) ==
  f = [rank \in 0..m |->
         IF rank = 0 THEN <<0, 1>>
         ELSE IF labels[ranked[rank]]
         THEN Add(f[rank - 1], Fraction(Hits(ranked, labels, rank), rank))
         ELSE f[rank - 1]]

LEMMA SumsFollow ==
  ASSUME NEW ranked, NEW labels, NEW m \in Nat, NEW f, SumsUp(f, ranked, labels, m)
  PROVE  /\ f[0] = <<0, 1>>
         /\ \A rank \in 1..m : f[rank] = IF labels[ranked[rank]]
                                         THEN Add(f[rank - 1], Fraction(Hits(ranked, labels, rank), rank))
                                         ELSE f[rank - 1]
<1> DEFINE Next_(n) == IF labels[ranked[n]] THEN Add(f[n - 1], Fraction(Hits(ranked, labels, n), n))
                       ELSE f[n - 1]
<1>1. f = [n \in 0..m |-> IF n = 0 THEN <<0, 1>> ELSE Next_(n)]
  BY DEF SumsUp
<1> HIDE DEF Next_
<1>2. \A n \in 0..m : f[n] = IF n = 0 THEN <<0, 1>> ELSE Next_(n)
  BY <1>1
<1>3. f[0] = <<0, 1>> /\ \A n \in 1..m : f[n] = Next_(n)
  BY <1>2
<1>. QED BY <1>3 DEF Next_

LEMMA SumsExist ==
  ASSUME NEW ranked, NEW labels, NEW m \in Nat
  PROVE  \E f : SumsUp(f, ranked, labels, m)
<1> DEFINE Bad == {k \in Nat : ~\E f : SumsUp(f, ranked, labels, k)}
           Next_(f, k) == IF labels[ranked[k]] THEN Add(f[k - 1], Fraction(Hits(ranked, labels, k), k))
                          ELSE f[k - 1]
<1>1. SUFFICES ASSUME Bad # {} PROVE FALSE
  OBVIOUS
<1>2. PICK k \in Bad : \A j \in Bad : k <= j
  BY <1>1, LeastNumber
<1>3. CASE k = 0
  <2> DEFINE f == [n \in 0..0 |-> <<0, 1>>]
  <2>1. SumsUp(f, ranked, labels, 0)
    BY DEF SumsUp
  <2>. QED BY <1>2, <1>3, <2>1
<1>4. CASE k # 0
  <2>1. k - 1 \in Nat /\ k - 1 \notin Bad
    BY <1>2, <1>4
  <2>2. PICK f : SumsUp(f, ranked, labels, k - 1)
    BY <2>1
  <2> DEFINE last == Next_(f, k)
             g == [n \in 0..k |-> IF n = k THEN last ELSE f[n]]
  <2>3. \A n \in 0..(k - 1) : f[n] = IF n = 0 THEN <<0, 1>> ELSE Next_(f, n)
    BY <2>2 DEF SumsUp
  <2>4. \A n \in 0..k : n # k => n \in 0..(k - 1) /\ g[n] = f[n]
    BY <2>1
  <2>5. g[k] = last /\ \A n \in 0..k : n # 0 => n - 1 \in 0..(k - 1) /\ g[n - 1] = f[n - 1]
    BY <1>4, <2>1
  <2> HIDE DEF last
  <2>6. \A n \in 0..k : n # 0 => Next_(g, n) = Next_(f, n)
    BY <2>5
  <2> HIDE DEF Next_
  <2>7. \A n \in 0..k : g[n] = IF n = 0 THEN <<0, 1>> ELSE Next_(g, n)
    BY <1>4, <2>1, <2>3, <2>4, <2>5, <2>6 DEF last
  <2>8. SumsUp(g, ranked, labels, k)
    BY <2>7 DEF SumsUp, Next_
  <2>. QED BY <1>2, <2>8
<1>. QED BY <1>3, <1>4

LEMMA PrecisionIsSummed ==
  ASSUME NEW ranked, NEW labels, Len(ranked) \in Nat, Positives(labels) # {}
  PROVE  \E f : /\ f[0] = <<0, 1>>
                /\ \A rank \in 1..Len(ranked) :
                     f[rank] = IF labels[ranked[rank]]
                               THEN Add(f[rank - 1], Fraction(Hits(ranked, labels, rank), rank))
                               ELSE f[rank - 1]
                /\ average_precision(ranked, labels) =
                     <<Times(f[Len(ranked)], <<1, Cardinality(Positives(labels))>>)>>
<1> DEFINE f == CHOOSE f : SumsUp(f, ranked, labels, Len(ranked))
<1>1. SumsUp(f, ranked, labels, Len(ranked))
  BY SumsExist
<1>2. average_precision(ranked, labels) =
        <<Times(f[Len(ranked)], <<1, Cardinality(Positives(labels))>>)>>
  BY DEF average_precision, SumsUp
<1> HIDE DEF f
<1>3. /\ f[0] = <<0, 1>>
      /\ \A rank \in 1..Len(ranked) :
           f[rank] = IF labels[ranked[rank]]
                     THEN Add(f[rank - 1], Fraction(Hits(ranked, labels, rank), rank))
                     ELSE f[rank - 1]
  BY <1>1, SumsFollow
<1>. QED BY <1>2, <1>3

(* A precision of less than one makes a sum that falls short of the number  *)
(* of its terms.                                                            *)
LEMMA SumStep ==
  ASSUME NEW a \in Int, NEW b \in Nat, b > 0, NEW h \in Nat, a <= h * b,
         NEW r \in Nat, r > 0, h + 1 <= r
  PROVE  /\ a * r + (h + 1) * b \in Int /\ b * r \in Nat /\ b * r > 0
         /\ a * r + (h + 1) * b <= (h + 1) * (b * r)
         /\ a * r + (h + 1) * b = (h + 1) * (b * r) <=> a = h * b /\ h + 1 = r
<1>1. PICK x \in Nat : x = h * b - a
  BY SMT
<1>2. PICK y \in Nat : y = r - (h + 1)
  BY SMT
<1>3. (h + 1) * (b * r) - (a * r + (h + 1) * b) = r * x + b * y
  BY <1>1, <1>2, SMT
<1>4. r * x \in Nat /\ b * y \in Nat /\ b * r \in Nat /\ b * r > 0
  BY SMT
<1>5. (r * x = 0 <=> x = 0) /\ (b * y = 0 <=> y = 0)
  BY SMT
<1>6. a * r + (h + 1) * b \in Int /\ (h + 1) * (b * r) \in Int
  BY SMT
<1>7. x = 0 <=> a = h * b
  BY <1>1, SMT
<1>8. y = 0 <=> h + 1 = r
  BY <1>2, SMT
<1>9. PICK u, v, p, q : /\ u = r * x /\ v = b * y
                        /\ p = a * r + (h + 1) * b /\ q = (h + 1) * (b * r)
  OBVIOUS
<1>10. u \in Nat /\ v \in Nat /\ p \in Int /\ q \in Int /\ q - p = u + v
  BY <1>3, <1>4, <1>6, <1>9
<1>11. p <= q /\ (p = q <=> u = 0 /\ v = 0)
  BY <1>10
<1>. QED BY <1>4, <1>5, <1>6, <1>7, <1>8, <1>9, <1>11

\* Every hit up to a rank comes after hits only.
Unbroken(hit, h, r) == \A q \in 1..r : hit[q] => h[q] = q

\* The sum up to a rank is no more than its hits, and as much if they are unbroken.
FallsShort(f, hit, h, r) ==
  \E a, b :
    /\ f[r] = <<a, b>> /\ a \in Int /\ b \in Nat /\ b > 0
    /\ a <= h[r] * b
    /\ (a = h[r] * b) <=> Unbroken(hit, h, r)

LEMMA FallsShortNext ==
  ASSUME NEW f, NEW hit, NEW h, NEW r \in Nat, r > 0,
         h[r - 1] \in Nat, h[r] \in Nat, h[r] <= r, hit[r] \in BOOLEAN,
         h[r] = IF hit[r] THEN h[r - 1] + 1 ELSE h[r - 1],
         f[r] = IF hit[r] THEN Add(f[r - 1], Fraction(h[r], r)) ELSE f[r - 1],
         FallsShort(f, hit, h, r - 1)
  PROVE  FallsShort(f, hit, h, r)
<1>1. PICK a, b : /\ f[r - 1] = <<a, b>> /\ a \in Int /\ b \in Nat /\ b > 0
                  /\ a <= h[r - 1] * b
                  /\ (a = h[r - 1] * b) <=> Unbroken(hit, h, r - 1)
  BY DEF FallsShort
<1>2. Unbroken(hit, h, r) <=> Unbroken(hit, h, r - 1) /\ (hit[r] => h[r] = r)
  <2>1. \A q : q \in 1..r <=> q \in 1..(r - 1) \/ q = r
    OBVIOUS
  <2>. QED BY <2>1 DEF Unbroken
<1>3. CASE ~hit[r]
  <2>1. f[r] = <<a, b>> /\ h[r] = h[r - 1]
    BY <1>1, <1>3
  <2>2. a <= h[r] * b /\ ((a = h[r] * b) <=> Unbroken(hit, h, r))
    BY <1>1, <1>2, <1>3, <2>1
  <2>. QED BY <1>1, <2>1, <2>2 DEF FallsShort
<1>4. CASE hit[r]
  <2>1. PICK g \in Nat : g = h[r - 1]
    OBVIOUS
  <2>2. h[r] = g + 1 /\ g + 1 <= r
    BY <1>4, <2>1
  <2>3. f[r] = <<a * r + (g + 1) * b, b * r>>
    <3>1. Fraction(h[r], r) = <<g + 1, r>>
      BY <2>2 DEF Fraction
    <3>2. f[r] = Add(<<a, b>>, <<g + 1, r>>)
      BY <1>1, <1>4, <3>1
    <3>. QED BY <3>2 DEF Add
  <2>4. a <= g * b /\ ((a = g * b) <=> Unbroken(hit, h, r - 1))
    BY <1>1, <2>1
  <2>5. /\ a * r + (g + 1) * b \in Int /\ b * r \in Nat /\ b * r > 0
        /\ a * r + (g + 1) * b <= (g + 1) * (b * r)
        /\ a * r + (g + 1) * b = (g + 1) * (b * r) <=> a = g * b /\ g + 1 = r
    <3>1. a \in Int /\ b \in Nat /\ b > 0 /\ a <= g * b /\ r > 0 /\ g + 1 <= r
      BY <1>1, <2>2, <2>4
    <3>. QED BY <3>1, SumStep
  <2>6. PICK s, t : s = a * r + (g + 1) * b /\ t = b * r
    OBVIOUS
  <2>7. /\ f[r] = <<s, t>> /\ s \in Int /\ t \in Nat /\ t > 0 /\ s <= h[r] * t
        /\ (s = h[r] * t) <=> (a = g * b /\ h[r] = r)
    BY <2>2, <2>3, <2>5, <2>6
  <2>8. (a = g * b /\ h[r] = r) <=> Unbroken(hit, h, r)
    BY <1>2, <1>4, <2>4
  <2>. QED BY <2>7, <2>8 DEF FallsShort
<1>. QED BY <1>3, <1>4

LEMMA SumsFallShort ==
  ASSUME NEW L \in Nat, NEW hit \in [1..L -> BOOLEAN], NEW h \in [0..L -> Nat], h[0] = 0,
         \A r \in 1..L : h[r] <= r /\ h[r] = IF hit[r] THEN h[r - 1] + 1 ELSE h[r - 1],
         NEW f, f[0] = <<0, 1>>,
         \A r \in 1..L : f[r] = IF hit[r] THEN Add(f[r - 1], Fraction(h[r], r)) ELSE f[r - 1]
  PROVE  FallsShort(f, hit, h, L)
<1> DEFINE Bad == {r \in 0..L : ~FallsShort(f, hit, h, r)}
<1>1. FallsShort(f, hit, h, 0)
  <2>1. Unbroken(hit, h, 0)
    BY DEF Unbroken
  <2>2. h[0] * 1 = 0
    OBVIOUS
  <2>. QED BY <2>1, <2>2 DEF FallsShort
<1>2. ASSUME NEW r \in 1..L, FallsShort(f, hit, h, r - 1) PROVE FallsShort(f, hit, h, r)
  <2>1. r \in Nat /\ r > 0 /\ r \in 0..L /\ r - 1 \in 0..L
    OBVIOUS
  <2>2. h[r - 1] \in Nat /\ h[r] \in Nat /\ hit[r] \in BOOLEAN
    BY <2>1
  <2>. QED BY <1>2, <2>1, <2>2, FallsShortNext
<1>3. SUFFICES ASSUME Bad # {} PROVE FALSE
  OBVIOUS
<1>4. PICK n \in Bad : \A j \in Bad : n <= j
  <2>1. Bad \in SUBSET Nat
    OBVIOUS
  <2>. QED BY <1>3, <2>1, LeastNumber
<1>5. n \in 1..L /\ n - 1 \in 0..L /\ n - 1 \notin Bad
  BY <1>1, <1>4
<1>. QED BY <1>2, <1>4, <1>5

(* The hits up to each rank.                                                *)
LEMMA HitsOneByOne ==
  ASSUME NEW L \in Nat, NEW ranked \in [1..L -> 1..L], NEW labels \in [1..L -> BOOLEAN]
  PROVE  /\ Hits(ranked, labels, 0) = 0
         /\ \A r \in 0..L : Hits(ranked, labels, r) \in 0..r
         /\ \A r \in 1..L : Hits(ranked, labels, r) = IF labels[ranked[r]] THEN Hits(ranked, labels, r - 1) + 1
                                                      ELSE Hits(ranked, labels, r - 1)
<1> DEFINE HitsTo(r) == {q \in 1..r : labels[ranked[q]]}
<1>1. \A r : Hits(ranked, labels, r) = Cardinality(HitsTo(r))
  BY DEF Hits
<1>2. ASSUME NEW r \in 0..L PROVE IsFiniteSet(HitsTo(r)) /\ Cardinality(HitsTo(r)) \in 0..r
  <2>1. IsFiniteSet(1..r) /\ Cardinality(1..r) = r
    BY FS_Interval
  <2>2. HitsTo(r) \in SUBSET (1..r)
    OBVIOUS
  <2> HIDE DEF HitsTo
  <2>3. IsFiniteSet(HitsTo(r)) /\ Cardinality(HitsTo(r)) <= r
    BY <2>1, <2>2, FS_Subset
  <2>4. Cardinality(HitsTo(r)) \in Nat
    BY <2>3, FS_CardinalityType
  <2>. QED BY <2>3, <2>4
<1>3. ASSUME NEW r \in 1..L
      PROVE  Cardinality(HitsTo(r)) = IF labels[ranked[r]] THEN Cardinality(HitsTo(r - 1)) + 1
                                      ELSE Cardinality(HitsTo(r - 1))
  <2>1. IsFiniteSet(HitsTo(r - 1))
    <3>1. r - 1 \in 0..L
      OBVIOUS
    <3>. QED BY <1>2, <3>1
  <2>2. r \notin HitsTo(r - 1) /\ \A q : q \in 1..r <=> q \in 1..(r - 1) \/ q = r
    OBVIOUS
  <2>3. CASE labels[ranked[r]]
    <3>1. HitsTo(r) = HitsTo(r - 1) \cup {r}
      BY <2>2, <2>3
    <3> HIDE DEF HitsTo
    <3>2. Cardinality(HitsTo(r)) = Cardinality(HitsTo(r - 1)) + 1
      BY <2>1, <2>2, <3>1, FS_AddElement
    <3>. QED BY <2>3, <3>2
  <2>4. CASE ~labels[ranked[r]]
    <3>1. HitsTo(r) = HitsTo(r - 1)
      BY <2>2, <2>4
    <3>. QED BY <2>4, <3>1
  <2>. QED BY <2>3, <2>4
<1> HIDE DEF HitsTo
<1>4. Hits(ranked, labels, 0) = 0
  <2>1. Cardinality(HitsTo(0)) \in 0..0
    <3>1. 0 \in 0..L
      OBVIOUS
    <3>. QED BY <1>2, <3>1
  <2>. QED BY <1>1, <2>1
<1>5. \A r \in 0..L : Hits(ranked, labels, r) \in 0..r
  BY <1>1, <1>2
<1>6. \A r \in 1..L : Hits(ranked, labels, r) = IF labels[ranked[r]] THEN Hits(ranked, labels, r - 1) + 1
                                               ELSE Hits(ranked, labels, r - 1)
  BY <1>1, <1>3
<1>. QED BY <1>4, <1>5, <1>6

(* The average precision is perfect just if the positives are the head of   *)
(* the ranking.                                                             *)
LEMMA PerfectPrecision ==
  ASSUME NEW L \in Nat, NEW scores \in [1..L -> Int], NEW labels \in [1..L -> BOOLEAN],
         Positives(labels) # {}
  PROVE  LET precision == average_precision(sorted_score_indices_desc(scores), labels)
         IN  /\ precision # Undefined
             /\ Equal(precision[1], <<1, 1>>)
                  <=> HeadOf(scores, Cardinality(Positives(labels))) = Positives(labels)
<1> DEFINE ranked == sorted_score_indices_desc(scores)
           hit == [r \in 1..L |-> labels[ranked[r]]]
           h == [r \in 0..L |-> Hits(ranked, labels, r)]
           P == Positives(labels)
<1>1. /\ ranked \in [1..L -> 1..L] /\ Len(ranked) = L
      /\ \A r \in 1..L : Cardinality(Before(scores, ranked[r])) = r - 1
      /\ \A k \in 1..L : ranked[Cardinality(Before(scores, k)) + 1] = k
  BY RankedOnce
<1>2. P \in SUBSET (1..L)
  BY DEF Positives
<1>3. \A r \in 0..L : h[r] = Cardinality(P \cap HeadOf(scores, r))
  BY HeadCounted
<1> HIDE DEF ranked
<1>4. PICK f : /\ f[0] = <<0, 1>>
               /\ \A r \in 1..L : f[r] = IF labels[ranked[r]]
                                         THEN Add(f[r - 1], Fraction(Hits(ranked, labels, r), r)) ELSE f[r - 1]
               /\ average_precision(ranked, labels) = <<Times(f[L], <<1, Cardinality(P)>>)>>
  BY <1>1, PrecisionIsSummed
<1>5. FallsShort(f, hit, h, L)
  <2>0. ranked \in [1..L -> 1..L]
    BY <1>1
  <2>1. hit \in [1..L -> BOOLEAN] /\ h \in [0..L -> Nat]
    <3>1. \A r \in 0..L : Hits(ranked, labels, r) \in Nat
      <4>1. \A r \in 0..L : Hits(ranked, labels, r) \in 0..r
        BY <2>0, HitsOneByOne
      <4>. QED BY <4>1
    <3>. QED BY <1>1, <3>1
  <2>2. /\ h[0] = 0
        /\ \A r \in 1..L : h[r] <= r /\ h[r] = IF hit[r] THEN h[r - 1] + 1 ELSE h[r - 1]
    <3>1. /\ Hits(ranked, labels, 0) = 0
          /\ \A r \in 0..L : Hits(ranked, labels, r) \in 0..r
          /\ \A r \in 1..L : Hits(ranked, labels, r) =
               IF labels[ranked[r]] THEN Hits(ranked, labels, r - 1) + 1 ELSE Hits(ranked, labels, r - 1)
      BY <2>0, HitsOneByOne
    <3>2. \A r \in 1..L : r \in 0..L /\ r - 1 \in 0..L
      OBVIOUS
    <3>. QED BY <3>1, <3>2
  <2>3. /\ f[0] = <<0, 1>>
        /\ \A r \in 1..L : f[r] = IF hit[r] THEN Add(f[r - 1], Fraction(h[r], r)) ELSE f[r - 1]
    <3>1. \A r \in 1..L : h[r] = Hits(ranked, labels, r) /\ (hit[r] <=> labels[ranked[r]])
      OBVIOUS
    <3> HIDE DEF hit, h
    <3>. QED BY <1>4, <3>1
  <2> HIDE DEF hit, h
  <2>. QED BY <2>1, <2>2, <2>3, SumsFallShort
<1>6. PICK a, b : /\ f[L] = <<a, b>> /\ a \in Int /\ b \in Nat /\ b > 0
                  /\ (a = h[L] * b) <=> Unbroken(hit, h, L)
  BY <1>5 DEF FallsShort
<1>7. h[L] = Cardinality(P)
  <2>1. HeadOf(scores, L) = 1..L
    <3>1. \A k \in 1..L : Cardinality(Before(scores, k)) < L
      <4>1. \A k \in 1..L : Cardinality(Before(scores, k)) \in 0..(L - 1)
        BY RankedBefore
      <4>. QED BY <4>1
    <3>. QED BY <3>1 DEF HeadOf
  <2>2. L \in 0..L /\ P \cap (1..L) = P
    BY <1>2
  <2>. QED BY <1>3, <2>1, <2>2
<1>8. Equal(average_precision(ranked, labels)[1], <<1, 1>>) <=> Unbroken(hit, h, L)
  <2>1. IsFiniteSet(1..L)
    BY FS_Interval
  <2>2. IsFiniteSet(P)
    BY <1>2, <2>1, FS_Subset
  <2>3. Cardinality(P) \in Nat
    BY <2>2, FS_CardinalityType
  <2>4. PICK c \in Nat : c = Cardinality(P)
    BY <2>3
  <2>5. average_precision(ranked, labels)[1] = <<a * 1, b * c>>
    BY <1>4, <1>6, <2>4 DEF Times
  <2>6. Equal(<<a * 1, b * c>>, <<1, 1>>) <=> a = c * b
    BY <1>6, SMT DEF Equal
  <2>. QED BY <1>6, <1>7, <2>4, <2>5, <2>6
\* A hit comes after hits only if all before it are positives.
<1>9. Unbroken(hit, h, L) <=> \A k \in P : Before(scores, k) \subseteq P
  <2>1. ASSUME NEW r \in 1..L
        PROVE  h[r] = r <=> HeadOf(scores, r) \subseteq P
    <3>1. r \in 0..L
      OBVIOUS
    <3>2. IsFiniteSet(HeadOf(scores, r)) /\ Cardinality(HeadOf(scores, r)) = r
      BY <3>1, HeadCounted
    <3>3. h[r] = Cardinality(P \cap HeadOf(scores, r))
      BY <1>3, <3>1
    <3>4. ASSUME h[r] = r PROVE HeadOf(scores, r) \subseteq P
      <4>1. P \cap HeadOf(scores, r) = HeadOf(scores, r)
        BY <3>2, <3>3, <3>4, FS_Subset
      <4>. QED BY <4>1
    <3>5. ASSUME HeadOf(scores, r) \subseteq P PROVE h[r] = r
      <4>1. P \cap HeadOf(scores, r) = HeadOf(scores, r)
        BY <3>5
      <4>. QED BY <3>2, <3>3, <4>1
    <3>. QED BY <3>4, <3>5
  <2>2. ASSUME NEW r \in 1..L, labels[ranked[r]]
        PROVE  HeadOf(scores, r) \subseteq P <=> Before(scores, ranked[r]) \subseteq P
    <3>1. ranked[r] \in 1..L /\ ranked[r] \in P /\ Cardinality(Before(scores, ranked[r])) = r - 1
      BY <1>1, <2>2 DEF Positives
    <3>2. ASSUME NEW i \in 1..L, i # ranked[r]
          PROVE  i \in HeadOf(scores, r) <=> i \in Before(scores, ranked[r])
      <4>1. Cardinality(Before(scores, i)) \in Int
        BY RankedBefore
      <4>2. ASSUME i \in Before(scores, ranked[r]) PROVE i \in HeadOf(scores, r)
        <5>1. Cardinality(Before(scores, i)) < r - 1
          BY <3>1, <4>2, AheadOrBehind DEF Before
        <5>2. Cardinality(Before(scores, i)) < r
          BY <4>1, <5>1
        <5>. QED BY <5>2 DEF HeadOf
      <4>3. ASSUME i \notin Before(scores, ranked[r]) PROVE i \notin HeadOf(scores, r)
        <5>1. Ahead(scores, ranked[r], i)
          BY <3>1, <3>2, <4>3, AheadOrBehind DEF Before
        <5>2. r - 1 < Cardinality(Before(scores, i))
          BY <3>1, <5>1, AheadOrBehind
        <5>3. ~(Cardinality(Before(scores, i)) < r)
          BY <4>1, <5>2
        <5>. QED BY <5>3 DEF HeadOf
      <4>. QED BY <4>2, <4>3
    <3>3. HeadOf(scores, r) \subseteq 1..L /\ Before(scores, ranked[r]) \subseteq 1..L
      BY DEF HeadOf, Before
    <3>4. ranked[r] \notin Before(scores, ranked[r])
      BY <3>1, RankedBefore
    <3>. QED BY <3>1, <3>2, <3>3, <3>4
  <2>3. \A r \in 1..L : hit[r] <=> labels[ranked[r]]
    OBVIOUS
  <2>4. ASSUME Unbroken(hit, h, L), NEW k \in P PROVE Before(scores, k) \subseteq P
    <3>1. k \in 1..L /\ labels[k]
      BY DEF Positives
    <3>2. PICK r \in 1..L : ranked[r] = k
      <4>1. Cardinality(Before(scores, k)) + 1 \in 1..L
        <5>1. Cardinality(Before(scores, k)) \in 0..(L - 1)
          BY <3>1, RankedBefore
        <5>. QED BY <5>1
      <4>. QED BY <1>1, <3>1, <4>1
    <3>3. h[r] = r
      BY <2>3, <2>4, <3>1, <3>2 DEF Unbroken
    <3>. QED BY <2>1, <2>2, <3>1, <3>2, <3>3
  <2>5. ASSUME \A k \in P : Before(scores, k) \subseteq P, NEW r \in 1..L, hit[r] PROVE h[r] = r
    <3>1. labels[ranked[r]]
      BY <2>3, <2>5
    <3>2. ranked[r] \in P
      BY <1>1, <3>1 DEF Positives
    <3>. QED BY <2>1, <2>2, <2>5, <3>1, <3>2
  <2>. QED BY <2>4, <2>5 DEF Unbroken
<1>10. HeadOf(scores, Cardinality(P)) = P <=> \A k \in P : Before(scores, k) \subseteq P
  BY <1>2, HeadIffClosed
<1>11. average_precision(ranked, labels) # Undefined
  BY <1>4 DEF Undefined
<1>. QED BY <1>8, <1>9, <1>10, <1>11 DEF ranked

(* A curve with nothing left above it has no negative ahead of a positive.  *)
LEMMA PerfectCurve ==
  ASSUME NEW L \in Nat, NEW scores \in [1..L -> Int], NEW labels \in [1..L -> BOOLEAN],
         calculate_roc_auc(scores, labels) # Undefined,
         Equal(calculate_roc_auc(scores, labels)[1], <<1, 1>>)
  PROVE  HeadOf(scores, Cardinality(Positives(labels))) = Positives(labels)
<1> DEFINE P == Positives(labels)
           N == DOMAIN labels \ P
           above == {p \in P \X N : scores[p[1]] > scores[p[2]]}
           level == {p \in P \X N : scores[p[1]] = scores[p[2]]}
           G == Cardinality(above)
           E == Cardinality(level)
           all == Cardinality(P) * Cardinality(N)
<1>1. P \subseteq 1..L /\ N \subseteq 1..L /\ DOMAIN labels = 1..L
  BY DEF Positives
<1>2. P # {} /\ P # DOMAIN labels
  BY DEF calculate_roc_auc
<1>3. N # {}
  BY <1>1, <1>2
<1>4. calculate_roc_auc(scores, labels) =
        <<Fraction(2 * G + E, 2 * Cardinality(P) * Cardinality(N))>>
  BY <1>2 DEF calculate_roc_auc, ROCAUCScore
<1> HIDE DEF P, N
<1>5. IsFiniteSet(P) /\ IsFiniteSet(N) /\ Cardinality(P) \in Nat /\ Cardinality(N) \in Nat
  <2>1. IsFiniteSet(1..L)
    BY FS_Interval
  <2>2. IsFiniteSet(P) /\ IsFiniteSet(N)
    BY <1>1, <2>1, FS_Subset
  <2>. QED BY <2>2, FS_CardinalityType
<1>6. Cardinality(P) > 0 /\ Cardinality(N) > 0
  <2>1. Cardinality(P) # 0 /\ Cardinality(N) # 0
    BY <1>2, <1>3, <1>5, FS_EmptySet
  <2>. QED BY <1>5, <2>1
<1>7. IsFiniteSet(P \X N) /\ Cardinality(P \X N) = all
  BY <1>5, FS_Product
<1>8. /\ above \subseteq P \X N /\ level \subseteq P \X N /\ above \cup level \subseteq P \X N
      /\ above \cap level = {}
  <2>1. \A p \in P \X N : scores[p[1]] \in Int /\ scores[p[2]] \in Int
    BY <1>1
  <2>2. above \cap level = {}
    BY <2>1
  <2>. QED BY <2>2
<1> HIDE DEF above, level
<1>9. IsFiniteSet(above) /\ IsFiniteSet(level) /\ G \in Nat /\ E \in Nat
  BY <1>7, <1>8, FS_Subset, FS_CardinalityType
<1>10. G + E <= all /\ G <= all
  <2>1. Cardinality(above \cup level) = G + E - Cardinality({})
    BY <1>8, <1>9, FS_Union
  <2>2. Cardinality({}) = 0
    BY FS_EmptySet
  <2>3. Cardinality(above \cup level) <= all /\ G <= all
    BY <1>7, <1>8, FS_Subset
  <2>. QED BY <1>9, <2>1, <2>2, <2>3
<1>11. 2 * G + E = 2 * all
  <2>1. PICK p, n : p = Cardinality(P) /\ n = Cardinality(N)
    OBVIOUS
  <2>2. p \in Nat /\ n \in Nat /\ p > 0 /\ n > 0
    BY <1>5, <1>6, <2>1
  <2>3. 2 * p * n > 0 /\ 2 * p * n \in Int /\ 2 * p * n = 2 * (p * n)
    BY <2>2, SMT
  <2>4. Fraction(2 * G + E, 2 * p * n) = <<2 * G + E, 2 * p * n>>
    BY <2>3 DEF Fraction
  <2>5. Equal(<<2 * G + E, 2 * p * n>>, <<1, 1>>)
    BY <1>4, <2>1, <2>4
  <2>6. PICK s, t : s = 2 * G + E /\ t = 2 * p * n
    OBVIOUS
  <2>7. s \in Int /\ t \in Int
    BY <1>9, <2>3, <2>6
  <2>8. s = t
    BY <2>5, <2>6, <2>7 DEF Equal
  <2>. QED BY <2>1, <2>3, <2>6, <2>8
<1>12. G = all
  <2>1. all \in Int
    BY <1>5
  <2> HIDE DEF G, E, all
  <2>. QED BY <1>9, <1>10, <1>11, <2>1 DEF G, E
<1>13. above = P \X N
  BY <1>7, <1>8, <1>12, FS_Subset
<1>14. ASSUME NEW k \in P PROVE Before(scores, k) \subseteq P
  <2> SUFFICES ASSUME NEW i \in Before(scores, k), i \notin P PROVE FALSE
    OBVIOUS
  <2>1. i \in 1..L /\ Ahead(scores, i, k)
    BY DEF Before
  <2>2. i \in N
    BY <1>1, <2>1 DEF N
  <2>3. <<k, i>> \in above
    BY <1>13, <2>2
  <2>4. scores[k] > scores[i]
    BY <2>3 DEF above
  <2>5. scores[k] \in Int /\ scores[i] \in Int
    BY <1>1, <2>1
  <2>. QED BY <2>1, <2>4, <2>5 DEF Ahead
<1>15. P \in SUBSET (1..L)
  BY <1>1
<1>16. HeadOf(scores, Cardinality(P)) = P
  BY <1>14, <1>15, HeadIffClosed
<1>. QED BY <1>16 DEF P

(* Precision and recall count the positives among the predictions.          *)
\* The counts of the confusion matrix.
TruePositives(labels, predictions) == Both(labels, predictions, TRUE, TRUE)
FalsePositives(labels, predictions) == Both(labels, predictions, FALSE, TRUE)
TrueNegatives(labels, predictions) == Both(labels, predictions, FALSE, FALSE)
FalseNegatives(labels, predictions) == Both(labels, predictions, TRUE, FALSE)

LEMMA CountsOfPredictions ==
  ASSUME NEW L \in Nat, NEW labels \in [1..L -> BOOLEAN], NEW predictions \in [1..L -> BOOLEAN]
  PROVE  LET P == Positives(labels)
             Q == Positives(predictions)
         IN  /\ TruePositives(labels, predictions) = Cardinality(P \cap Q)
             /\ TruePositives(labels, predictions) + FalsePositives(labels, predictions) = Cardinality(Q)
             /\ TruePositives(labels, predictions) + FalseNegatives(labels, predictions) = Cardinality(P)
<1> DEFINE P == Positives(labels)
           Q == Positives(predictions)
           Of(is, predicted) == {i \in 1..L : labels[i] = is /\ predictions[i] = predicted}
<1>1. P \subseteq 1..L /\ Q \subseteq 1..L /\ DOMAIN labels = 1..L
  BY DEF Positives
<1>2. \A i \in 1..L : /\ i \in P <=> labels[i] = TRUE
                      /\ i \notin P <=> labels[i] = FALSE
                      /\ i \in Q <=> predictions[i] = TRUE
                      /\ i \notin Q <=> predictions[i] = FALSE
  BY DEF Positives
<1>3. \A is, predicted : Both(labels, predictions, is, predicted) = Cardinality(Of(is, predicted))
  BY <1>1 DEF Both
<1> HIDE DEF P, Q
<1>4. Of(TRUE, TRUE) = P \cap Q /\ Of(FALSE, TRUE) = Q \ P /\ Of(TRUE, FALSE) = P \ Q
  BY <1>1, <1>2, Zenon
<1> HIDE DEF Of
<1>5. IsFiniteSet(P) /\ IsFiniteSet(Q)
  <2>1. IsFiniteSet(1..L)
    BY FS_Interval
  <2>. QED BY <1>1, <2>1, FS_Subset
<1>6. /\ Cardinality(Q \ P) = Cardinality(Q) - Cardinality(Q \cap P)
      /\ Cardinality(P \ Q) = Cardinality(P) - Cardinality(P \cap Q)
  BY <1>5, FS_Difference
<1>7. P \cap Q = Q \cap P /\ Cardinality(P \cap Q) \in Nat /\ Cardinality(P) \in Nat /\ Cardinality(Q) \in Nat
  <2>1. IsFiniteSet(P \cap Q)
    BY <1>5, FS_Intersection
  <2>. QED BY <1>5, <2>1, FS_CardinalityType
<1>8. /\ TruePositives(labels, predictions) = Cardinality(P \cap Q)
      /\ FalsePositives(labels, predictions) = Cardinality(Q \ P)
      /\ FalseNegatives(labels, predictions) = Cardinality(P \ Q)
  BY <1>3, <1>4 DEF TruePositives, FalsePositives, FalseNegatives
<1>9. PICK x, p, q : x = Cardinality(P \cap Q) /\ p = Cardinality(P) /\ q = Cardinality(Q)
  OBVIOUS
<1>10. /\ TruePositives(labels, predictions) = x
       /\ FalsePositives(labels, predictions) = q - x
       /\ FalseNegatives(labels, predictions) = p - x
       /\ x \in Nat /\ p \in Nat /\ q \in Nat
  BY <1>6, <1>7, <1>8, <1>9
<1>11. x + (q - x) = q /\ x + (p - x) = p
  BY <1>10
<1>. QED BY <1>9, <1>10, <1>11 DEF P, Q

(* The pairs that are predicted are the first of the ranking.               *)
LEMMA PredictedAreFirst ==
  ASSUME NEW L \in Nat, NEW scores \in [1..L -> Int], NEW threshold \in Int \X (Nat \ {0})
  PROVE  LET Q == {k \in 1..L : Positive(scores[k], threshold)}
         IN  HeadOf(scores, Cardinality(Q)) = Q
<1> DEFINE Q == {k \in 1..L : Positive(scores[k], threshold)}
<1>1. PICK t \in Int, d \in Nat : threshold[1] = t /\ threshold[2] = d /\ d > 0
  OBVIOUS
<1>2. ScoreUnit \in Int
  BY UnitsAssumption
<1>3. ASSUME NEW k \in Q, NEW i \in Before(scores, k)
      PROVE  i \in Q
  <2>1. i \in 1..L /\ scores[i] \in Int /\ scores[k] \in Int /\ scores[i] >= scores[k]
    BY <1>3 DEF Before, Ahead
  <2>2. scores[k] * d > t * ScoreUnit
    BY <1>1, <1>3 DEF Positive
  <2>3. scores[i] * d >= scores[k] * d
    BY <1>1, <2>1
  <2>4. scores[i] * d \in Int /\ scores[k] * d \in Int /\ t * ScoreUnit \in Int
    BY <1>1, <1>2, <2>1
  <2>5. scores[i] * d > t * ScoreUnit
    <3> HIDE DEF Q
    <3>. QED BY <2>2, <2>3, <2>4
  <2>. QED BY <1>1, <2>1, <2>5 DEF Positive
<1>4. Q \in SUBSET (1..L) /\ \A k \in Q : Before(scores, k) \subseteq Q
  BY <1>3
<1> HIDE DEF Q
<1>5. HeadOf(scores, Cardinality(Q)) = Q
  BY <1>4, HeadIffClosed
<1>. QED BY <1>5 DEF Q

LEMMA MetricsAreJoined ==
  ASSUME NEW predictions, NEW labels, NEW scores, NEW positive, NEW total, NEW body,
         body = write_metrics_report(calculate_metrics(predictions, labels, scores), positive, total)
  PROVE  LET ranked == sorted_score_indices_desc(scores)
             tp == TruePositives(labels, predictions)
         IN  /\ body.precision = Fraction(tp, tp + FalsePositives(labels, predictions))
             /\ body.recall = Fraction(tp, tp + FalseNegatives(labels, predictions))
             /\ body.roc_auc = calculate_roc_auc(scores, labels)
             /\ body.average_precision = average_precision(ranked, labels)
             /\ body.mean_reciprocal_rank = reciprocal_rank(ranked, labels)
             /\ DOMAIN body.ranking_at_k = Cutoffs
             /\ \A k \in Cutoffs : /\ body.ranking_at_k[k].precision = precision_at_k(ranked, labels, k)
                                   /\ body.ranking_at_k[k].recall = recall_at_k(ranked, labels, k)
<1> DEFINE tp == TruePositives(labels, predictions)
           fp == FalsePositives(labels, predictions)
           fn == FalseNegatives(labels, predictions)
           binary == calculate_binary_metrics(tp, fp, TrueNegatives(labels, predictions), fn)
           ranked == sorted_score_indices_desc(scores)
           at_k == [k \in Cutoffs |-> [precision |-> precision_at_k(ranked, labels, k),
                                       recall |-> recall_at_k(ranked, labels, k)]]
           ranking == [roc_auc |-> calculate_roc_auc(scores, labels),
                       average_precision |-> average_precision(ranked, labels),
                       mean_reciprocal_rank |-> reciprocal_rank(ranked, labels),
                       ranking_at_k |-> at_k]
           numbers == [positive_predictions |-> positive, total_predictions |-> total]
<1>1. body = Joined(Joined(binary, ranking), numbers)
  BY DEF write_metrics_report, calculate_metrics, TruePositives, FalsePositives, TrueNegatives, FalseNegatives
<1>2. /\ DOMAIN binary = {"accuracy", "precision", "recall", "f1_score"}
      /\ binary.precision = Fraction(tp, tp + fp) /\ binary.recall = Fraction(tp, tp + fn)
  BY DEF calculate_binary_metrics
<1>3. DOMAIN ranking = {"roc_auc", "average_precision", "mean_reciprocal_rank", "ranking_at_k"}
  OBVIOUS
<1>4. /\ ranking.roc_auc = calculate_roc_auc(scores, labels)
      /\ ranking.average_precision = average_precision(ranked, labels)
      /\ ranking.mean_reciprocal_rank = reciprocal_rank(ranked, labels)
      /\ ranking.ranking_at_k = at_k
  OBVIOUS
<1>5. /\ DOMAIN at_k = Cutoffs
      /\ \A k \in Cutoffs : /\ at_k[k].precision = precision_at_k(ranked, labels, k)
                            /\ at_k[k].recall = recall_at_k(ranked, labels, k)
  OBVIOUS
<1> HIDE DEF binary, ranking, at_k, numbers
<1>6. /\ body.precision = binary.precision /\ body.recall = binary.recall
      /\ body.roc_auc = ranking.roc_auc /\ body.average_precision = ranking.average_precision
      /\ body.mean_reciprocal_rank = ranking.mean_reciprocal_rank
      /\ body.ranking_at_k = ranking.ranking_at_k
  BY <1>1, <1>2, <1>3 DEF Joined
<1>. QED BY <1>2, <1>4, <1>5, <1>6

\* What metrics say of rows whose labelled and predicted ones are given.
MetricsSay(metrics, scores, labelled, predicted) ==
  LET hits == Cardinality(labelled \cap predicted)
  IN  /\ HeadOf(scores, Cardinality(predicted)) = predicted
      /\ Equal(metrics.precision, Fraction(hits, Cardinality(predicted)))
      /\ Equal(metrics.recall, Fraction(hits, Cardinality(labelled)))
      /\ \A k \in DOMAIN metrics.ranking_at_k : labelled # {} =>
           LET found == Cardinality(labelled \cap HeadOf(scores, k))
           IN  /\ Equal(metrics.ranking_at_k[k].precision[1],
                        Fraction(found, Cardinality(HeadOf(scores, k))))
               /\ Equal(metrics.ranking_at_k[k].recall[1], Fraction(found, Cardinality(labelled)))
      /\ (metrics.average_precision = Undefined) <=> (labelled = {})
      /\ \A k \in labelled : Before(scores, k) \cap labelled = {} =>
           /\ Equal(metrics.mean_reciprocal_rank[1], <<1, 1 + Cardinality(Before(scores, k))>>)
           /\ Equal(metrics.average_precision[1], <<1, 1>>)
                <=> (HeadOf(scores, Cardinality(labelled)) = labelled)
      /\ metrics.roc_auc # Undefined /\ Equal(metrics.roc_auc[1], <<1, 1>>) =>
           HeadOf(scores, Cardinality(labelled)) = labelled

(* What the metrics of rows say of them.                                    *)
LEMMA MetricsOfRows ==
  ASSUME NEW L \in Nat, NEW scores \in [1..L -> Int], NEW labels \in [1..L -> BOOLEAN],
         NEW predictions \in [1..L -> BOOLEAN], NEW positive, NEW total, NEW metrics,
         metrics = write_metrics_report(calculate_metrics(predictions, labels, scores), positive, total),
         NEW labelled, labelled = Positives(labels), NEW predicted, predicted = Positives(predictions),
         HeadOf(scores, Cardinality(predicted)) = predicted
  PROVE  MetricsSay(metrics, scores, labelled, predicted)
<1> DEFINE hits == Cardinality(labelled \cap predicted)
           ranked == sorted_score_indices_desc(scores)
           tp == TruePositives(labels, predictions)
           fp == FalsePositives(labels, predictions)
           fn == FalseNegatives(labels, predictions)
<1>1. /\ metrics.precision = Fraction(tp, tp + fp) /\ metrics.recall = Fraction(tp, tp + fn)
      /\ metrics.roc_auc = calculate_roc_auc(scores, labels)
      /\ metrics.average_precision = average_precision(ranked, labels)
      /\ metrics.mean_reciprocal_rank = reciprocal_rank(ranked, labels)
      /\ DOMAIN metrics.ranking_at_k = Cutoffs
      /\ \A k \in Cutoffs : /\ metrics.ranking_at_k[k].precision = precision_at_k(ranked, labels, k)
                            /\ metrics.ranking_at_k[k].recall = recall_at_k(ranked, labels, k)
  BY MetricsAreJoined
<1>2. metrics.precision = Fraction(hits, Cardinality(predicted)) /\ metrics.recall = Fraction(hits, Cardinality(labelled))
  <2>1. LET P == Positives(labels)
            Q == Positives(predictions)
        IN  tp = Cardinality(P \cap Q) /\ tp + fp = Cardinality(Q) /\ tp + fn = Cardinality(P)
    BY CountsOfPredictions
  <2>2. tp = hits /\ tp + fp = Cardinality(predicted) /\ tp + fn = Cardinality(labelled)
    <3> HIDE DEF tp, fp, fn
    <3>. QED BY <2>1
  <2> HIDE DEF tp, fp, fn, hits
  <2>. QED BY <1>1, <2>2
<1>3. ASSUME NEW k \in Cutoffs, labelled # {}
      PROVE  LET found == Cardinality(labelled \cap HeadOf(scores, k))
             IN  /\ metrics.ranking_at_k[k].precision[1] = Fraction(found, Cardinality(HeadOf(scores, k)))
                 /\ metrics.ranking_at_k[k].recall[1] = Fraction(found, Cardinality(labelled))
  <2>1. k \in Nat \ {0}
    BY <1>3, CutoffsAssumption
  <2>2. LET found == Cardinality(labelled \cap HeadOf(scores, k))
        IN  /\ precision_at_k(ranked, labels, k) = <<Fraction(found, Cardinality(HeadOf(scores, k)))>>
            /\ recall_at_k(ranked, labels, k) = <<Fraction(found, Cardinality(labelled))>>
    <3>1. LET found == Cardinality(Positives(labels) \cap HeadOf(scores, k))
          IN  /\ precision_at_k(ranked, labels, k) = <<Fraction(found, Cardinality(HeadOf(scores, k)))>>
              /\ recall_at_k(ranked, labels, k) = <<Fraction(found, Cardinality(Positives(labels)))>>
      <4>1. Positives(labels) # {}
        BY <1>3
      <4>. QED BY <2>1, <4>1, RankingAtCutoff, Zenon
    <3> HIDE DEF ranked
    <3>. QED BY <3>1, Zenon
  <2>3. /\ metrics.ranking_at_k[k].precision = precision_at_k(ranked, labels, k)
        /\ metrics.ranking_at_k[k].recall = recall_at_k(ranked, labels, k)
    BY <1>1, <1>3, Zenon
  <2> HIDE DEF ranked
  <2>. QED BY <2>2, <2>3
<1>4. labelled = {} => average_precision(ranked, labels) = Undefined
  BY DEF average_precision
<1>5. labelled # {} =>
        /\ average_precision(ranked, labels) # Undefined
        /\ Equal(average_precision(ranked, labels)[1], <<1, 1>>)
             <=> HeadOf(scores, Cardinality(labelled)) = labelled
  BY PerfectPrecision
<1>6. ASSUME NEW k \in labelled, Before(scores, k) \cap labelled = {}
      PROVE  metrics.mean_reciprocal_rank[1] = <<1, 1 + Cardinality(Before(scores, k))>>
  <2>1. reciprocal_rank(ranked, labels) = <<<<1, 1 + Cardinality(Before(scores, k))>>>>
    BY <1>6, FirstHitRanked
  <2>2. metrics.mean_reciprocal_rank = reciprocal_rank(ranked, labels)
    BY <1>1, Zenon
  <2>3. PICK fraction : fraction = <<1, 1 + Cardinality(Before(scores, k))>>
    OBVIOUS
  <2>4. metrics.mean_reciprocal_rank = <<fraction>>
    BY <2>1, <2>2, <2>3, Zenon
  <2>5. metrics.mean_reciprocal_rank[1] = fraction
    BY <2>4
  <2>. QED BY <2>3, <2>5
<1>7. metrics.roc_auc # Undefined /\ Equal(metrics.roc_auc[1], <<1, 1>>) =>
        HeadOf(scores, Cardinality(labelled)) = labelled
  BY <1>1, PerfectCurve
<1>8. \A a : Equal(a, a)
  BY DEF Equal
<1> HIDE DEF hits, ranked
<1>9. \A k \in labelled : Before(scores, k) \cap labelled = {} =>
         /\ Equal(metrics.mean_reciprocal_rank[1], <<1, 1 + Cardinality(Before(scores, k))>>)
         /\ Equal(metrics.average_precision[1], <<1, 1>>)
              <=> (HeadOf(scores, Cardinality(labelled)) = labelled)
  BY <1>1, <1>5, <1>6, <1>8
<1>10. (metrics.average_precision = Undefined) <=> (labelled = {})
  BY <1>1, <1>4, <1>5
<1>11. \A k \in DOMAIN metrics.ranking_at_k : labelled # {} =>
         LET found == Cardinality(labelled \cap HeadOf(scores, k))
         IN  /\ Equal(metrics.ranking_at_k[k].precision[1], Fraction(found, Cardinality(HeadOf(scores, k))))
             /\ Equal(metrics.ranking_at_k[k].recall[1], Fraction(found, Cardinality(labelled)))
  BY <1>1, <1>3, <1>8
<1>. QED BY <1>2, <1>7, <1>8, <1>9, <1>10, <1>11 DEF hits, MetricsSay

LEMMA PredictedLead ==
  ASSUME NEW L \in Nat, NEW scores \in [1..L -> Int], NEW threshold \in Int \X (Nat \ {0}),
         NEW predicted, predicted = {k \in 1..L : Positive(scores[k], threshold)}
  PROVE  HeadOf(scores, Cardinality(predicted)) = predicted
  BY PredictedAreFirst

\* Metrics of so many rows, with these scores and labels.
MetricsOf(metrics, L, scores, labels, threshold, predictions) ==
  /\ L \in Nat /\ scores \in [1..L -> Int] /\ labels \in [1..L -> BOOLEAN]
  /\ threshold \in Int \X (Nat \ {0})
  /\ predictions = [k \in 1..L |-> Positive(scores[k], threshold)]
  /\ \E positive, total :
       metrics = write_metrics_report(calculate_metrics(predictions, labels, scores), positive, total)

HasLabels(told, L, labels, predictions) ==
  /\ DOMAIN told = 1..L
  /\ \A k \in 1..L : told[k].predicted_label = predictions[k] /\ told[k].label[1] = labels[k]

(* Metrics say of a report what they say of the rows it tells of, as far as *)
(* it has their labels and their scores.                                    *)
LEMMA MetricsOfReport ==
  ASSUME NEW metrics, NEW L, NEW scores, NEW labels, NEW threshold, NEW predictions,
         MetricsOf(metrics, L, scores, labels, threshold, predictions),
         NEW told, HasLabels(told, L, labels, predictions)
  PROVE  /\ MatchesLabels(metrics, told)
         /\ (\A k \in 1..L : told[k].score = scores[k]) => MatchesRanking(metrics, told)
<1> DEFINE labelled == {k \in DOMAIN told : told[k].label[1]}
           predicted == {k \in DOMAIN told : told[k].predicted_label}
           hits == Cardinality(labelled \cap predicted)
<1>0. /\ L \in Nat /\ scores \in [1..L -> Int] /\ labels \in [1..L -> BOOLEAN]
      /\ threshold \in Int \X (Nat \ {0})
      /\ predictions = [k \in 1..L |-> Positive(scores[k], threshold)]
      /\ DOMAIN told = 1..L
      /\ \A k \in 1..L : told[k].predicted_label = predictions[k] /\ told[k].label[1] = labels[k]
  BY DEF MetricsOf, HasLabels
<1>1. /\ labelled = Positives(labels) /\ predicted = Positives(predictions)
      /\ labelled \subseteq 1..L
  BY <1>0 DEF Positives
<1> HIDE DEF labelled, predicted
<1>2. MetricsSay(metrics, scores, labelled, predicted)
  <2>1. \A k \in 1..L : Positive(scores[k], threshold) \in BOOLEAN
    BY DEF Positive
  <2>2. predictions \in [1..L -> BOOLEAN]
    BY <1>0, <2>1
  <2>3. predicted = {k \in 1..L : Positive(scores[k], threshold)}
    BY <1>0, <1>1 DEF Positives
  <2>4. HeadOf(scores, Cardinality(predicted)) = predicted
    BY <1>0, <2>3, PredictedLead
  <2>5. PICK positive, total :
          metrics = write_metrics_report(calculate_metrics(predictions, labels, scores), positive, total)
    BY DEF MetricsOf
  <2>. QED BY <1>0, <1>1, <2>2, <2>4, <2>5, MetricsOfRows, Zenon
<1>3. MatchesLabels(metrics, told)
  <2>1. /\ Equal(metrics.precision, Fraction(hits, Cardinality(predicted)))
        /\ Equal(metrics.recall, Fraction(hits, Cardinality(labelled)))
    BY <1>2, Zenon DEF MetricsSay
  <2>. QED BY <2>1, Zenon DEF MatchesLabels, labelled, predicted
<1>4. ASSUME \A k \in 1..L : told[k].score = scores[k]
      PROVE  MatchesRanking(metrics, told)
  <2> DEFINE before(k) ==
               {n \in DOMAIN told :
                  \/ told[n].score > told[k].score
                  \/ told[n].score = told[k].score /\ n < k}
             head(size) == {k \in DOMAIN told : Cardinality(before(k)) < size}
  <2>1. \A k \in 1..L : before(k) = Before(scores, k)
    BY <1>0, <1>4 DEF Before, Ahead
  <2>2. \A size : head(size) = HeadOf(scores, size)
    <3> HIDE DEF before
    <3>1. DOMAIN scores = 1..L
      BY <1>0
    <3>. QED BY <1>0, <2>1, <3>1 DEF HeadOf
  <2> HIDE DEF before, head
  <2>3. /\ head(Cardinality(predicted)) = predicted
        /\ \A k \in DOMAIN metrics.ranking_at_k : labelled # {} =>
             LET found == Cardinality(labelled \cap head(k))
             IN  /\ Equal(metrics.ranking_at_k[k].precision[1], Fraction(found, Cardinality(head(k))))
                 /\ Equal(metrics.ranking_at_k[k].recall[1], Fraction(found, Cardinality(labelled)))
        /\ (metrics.average_precision = Undefined) <=> (labelled = {})
        /\ \A k \in labelled : before(k) \cap labelled = {} =>
             /\ Equal(metrics.mean_reciprocal_rank[1], <<1, 1 + Cardinality(before(k))>>)
             /\ Equal(metrics.average_precision[1], <<1, 1>>)
                  <=> (head(Cardinality(labelled)) = labelled)
        /\ metrics.roc_auc # Undefined /\ Equal(metrics.roc_auc[1], <<1, 1>>) =>
             head(Cardinality(labelled)) = labelled
    BY <1>1, <1>2, <2>1, <2>2, Zenon DEF MetricsSay
  <2>. QED BY <2>3 DEF MatchesRanking, labelled, predicted, before, head
<1>. QED BY <1>3, <1>4

LEMMA MetricsFollow == ToldInv => MetricsMatchReference
<1> SUFFICES ASSUME ToldInv, NEW r \in Predictions, NEW metrics \in Reports(r, ".metrics.json")
             PROVE  /\ \A told \in Reports(r, ".scores.csv") \cup Reports(r, ".explanations.jsonl") :
                         MatchesLabels(metrics, told)
                    /\ \A told \in Reports(r, ".explanations.jsonl") : MatchesRanking(metrics, told)
  BY DEF MetricsMatchReference
<1>1. PICK rows_, baseline :
        /\ RowsSound(rows_, finished[r].classifier[1].threshold)
        /\ \A suffix : \A body \in Reports(r, suffix) :
             Tells(suffix, body, rows_, baseline, finished[r].config, finished[r].classifier[1])
  BY DEF ToldInv, Told
<1>2. PICK threshold, asked : threshold = finished[r].classifier[1].threshold /\ asked = finished[r].config
  OBVIOUS
<1>3. /\ TellsMetrics(metrics, rows_)
      /\ \A body \in Reports(r, ".scores.csv") : TellsScores(body, rows_)
      /\ \A body \in Reports(r, ".explanations.jsonl") : TellsExplanations(body, rows_, baseline, asked)
  BY <1>1, <1>2 DEF Tells
<1>4. PICK L \in Nat :
        /\ threshold \in Int \X (Nat \ {0})
        /\ DOMAIN rows_.pairs = 1..L /\ rows_.scores \in [1..L -> Int]
        /\ rows_.predictions = [k \in 1..L |-> Positive(rows_.scores[k], threshold)]
        /\ rows_.labels[1] \in [1..L -> BOOLEAN] /\ rows_.labels # None
  BY <1>1, <1>2, <1>3 DEF RowsSound, TellsMetrics
<1>5. PICK scores, predictions, labels :
        scores = rows_.scores /\ predictions = rows_.predictions /\ labels = rows_.labels[1]
  OBVIOUS
<1>6. PICK positive, total :
        metrics = write_metrics_report(calculate_metrics(predictions, labels, scores), positive, total)
  BY <1>3, <1>5 DEF TellsMetrics
<1>7. /\ scores \in [1..L -> Int] /\ labels \in [1..L -> BOOLEAN] /\ threshold \in Int \X (Nat \ {0})
      /\ predictions = [k \in 1..L |-> Positive(scores[k], threshold)]
  BY <1>4, <1>5
<1>8. MetricsOf(metrics, L, scores, labels, threshold, predictions)
  BY <1>6, <1>7 DEF MetricsOf
<1>9. ASSUME NEW told \in Reports(r, ".scores.csv")
      PROVE  HasLabels(told, L, labels, predictions)
  <2>1. told = [k \in 1..L |-> [pair |-> rows_.pairs[k], score |-> WrittenScore(scores[k]),
                                predicted_label |-> predictions[k], label |-> <<labels[k]>>]]
    BY <1>3, <1>4, <1>5 DEF TellsScores, write_pair_scores, LabelOf, None
  <2>. QED BY <2>1 DEF HasLabels
<1>10. ASSUME NEW told \in Reports(r, ".explanations.jsonl")
      PROVE  HasLabels(told, L, labels, predictions) /\ \A k \in 1..L : told[k].score = scores[k]
  <2> DEFINE groups == explain_with_group_ablation(get_feature_names(asked.FEATURE_CONFIG), baseline)
  <2>1. told = [k \in 1..L |-> [pair |-> rows_.pairs[k], score |-> scores[k],
                                predicted_label |-> predictions[k], label |-> <<labels[k]>>,
                                groups |-> groups]]
    BY <1>3, <1>4, <1>5 DEF TellsExplanations, write_prediction_explanations, LabelOf, None
  <2> HIDE DEF groups
  <2>. QED BY <2>1 DEF HasLabels
<1>11. \A told \in Reports(r, ".scores.csv") : MatchesLabels(metrics, told)
  BY <1>8, <1>9, MetricsOfReport
<1>12. \A told \in Reports(r, ".explanations.jsonl") :
         MatchesLabels(metrics, told) /\ MatchesRanking(metrics, told)
  BY <1>8, <1>10, MetricsOfReport
<1>. QED BY <1>11, <1>12

(* The metrics of a prediction that completed say what its reports of pairs *)
(* say: precision and recall are those of the labels in the scores report   *)
(* and in the explanations, and by the scores of the explanations, which    *)
(* have every digit, the positive predictions are the first of the ranking, *)
(* precision and recall at each cutoff are those of its first rows, the     *)
(* reciprocal rank is of the first labelled row, and the mean precision is  *)
(* full just if the labelled rows come first, as they do if the curve is    *)
(* full, whatever the scores, the labels and the threshold.                 *)
THEOREM MetricsAlwaysMatch == Spec => []MetricsMatchReference
<1>1. ReportsInv => MetricsMatchReference
  BY MetricsFollow DEF ReportsInv
<1>. QED BY <1>1, ReportsStart, ReportsStep, PTL DEF Spec

-----------------------------------------------------------------------------
(* The service of a pair.                                                   *)

LEMMA PortsByProtocol ==
  ASSUME NEW service, NEW protocol
  PROVE  PortsOf(service, protocol) = IF protocol = AnyProtocol THEN service.ports
                                      ELSE IF protocol = TCP THEN service.tcp_ports
                                      ELSE IF protocol = UDP THEN service.udp_ports
                                      ELSE << >>
BY DEF PortsOf, AnyProtocol, TCP, UDP

LEMMA ServicesListed ==
  ASSUME NEW services, PortData(services)
  PROVE  /\ \E m \in Nat : DOMAIN Services(services) = 1..m
         /\ \A n \in DOMAIN Services(services) : \E at \in DOMAIN services : Services(services)[n] = services[at]
<1> DEFINE S == {k \in DOMAIN services : services[k].name \notin Metadata}
<1>1. services \in Seq(ToSet(services)) /\ S \in SUBSET (1..Len(services)) /\ S \subseteq DOMAIN services
  BY DEF PortData
<1>2. Services(services) = Selected(services, S)
  BY DEF Services
<1> HIDE DEF S
<1>3. PICK m, at : Enumerates(at, m, S) /\ Selected(services, S) = Taken(services, at, m)
  BY <1>1, SelectedAlone
<1>4. m \in Nat /\ DOMAIN Services(services) = 1..m
      /\ \A n \in 1..m : Services(services)[n] = services[at[n]] /\ at[n] \in DOMAIN services
  BY <1>1, <1>2, <1>3 DEF Taken, Enumerates
<1>. QED BY <1>4

(* A set of positions has a last one.                                       *)
LEMMA LastPosition ==
  ASSUME NEW m \in Nat, NEW S \in SUBSET (1..m), S # {}
  PROVE  \E n \in S : \A k \in S : k <= n
<1> DEFINE T == {m - n : n \in S}
<1>0. \A n \in S : n \in 1..m /\ m - n \in Nat
  OBVIOUS
<1>1. T \in SUBSET Nat /\ T # {}
  <2>1. PICK n : n \in S
    OBVIOUS
  <2>2. m - n \in T
    BY <2>1
  <2>3. \A t \in T : t \in Nat
    BY <1>0
  <2>. QED BY <2>2, <2>3
<1>2. PICK t \in T : \A u \in T : t <= u
  <2> HIDE DEF T
  <2>. QED BY <1>1, LeastNumber
<1>3. PICK n \in S : t = m - n
  OBVIOUS
<1>4. \A k \in S : m - n <= m - k
  BY <1>2, <1>3
<1>. QED BY <1>0, <1>4

(* A service that a port is mapped to has it among its ports.               *)
LEMMA MappedHasPort ==
  ASSUME NEW services, PortData(services), NEW port, NEW protocol, NEW type,
         Mapped(services, port, protocol) = <<type>>
  PROVE  \E n \in DOMAIN services : services[n].name = type /\ HasPort(services[n], port, protocol)
<1>1. PICK listed : listed = Services(services)
  OBVIOUS
<1> DEFINE having == {n \in DOMAIN listed : HasPort(listed[n], port, protocol)}
<1>2. Mapped(services, port, protocol)
        = IF having = {} THEN << >> ELSE <<listed[CHOOSE n \in having : \A k \in having : k <= n].name>>
  BY <1>1 DEF Mapped
<1>3. PICK m \in Nat : DOMAIN listed = 1..m
  BY <1>1, ServicesListed
<1>4. having \in SUBSET (1..m)
  BY <1>3
<1>5. \A n \in having : n \in DOMAIN listed /\ HasPort(listed[n], port, protocol)
  OBVIOUS
<1> HIDE DEF having
<1>6. having # {}
  BY <1>2
<1>7. \E n \in having : \A k \in having : k <= n
  BY <1>4, <1>6, LastPosition
<1>8. PICK n \in having : listed[n].name = type
  BY <1>2, <1>6, <1>7
<1>9. PICK at \in DOMAIN services : listed[n] = services[at]
  BY <1>1, <1>5, ServicesListed
<1>. QED BY <1>5, <1>8, <1>9

(* A place of one of two sequences is one of the longer sequence.            *)
LEMMA PlacesConcatenated ==
  ASSUME NEW u \in Seq(Int), NEW v \in Seq(Int)
  PROVE  /\ \A k \in DOMAIN u : k \in DOMAIN (u \o v) /\ (u \o v)[k] = u[k]
         /\ \A k \in DOMAIN v : Len(u) + k \in DOMAIN (u \o v) /\ (u \o v)[Len(u) + k] = v[k]
<1>1. PICK w : w = u \o v
  OBVIOUS
<1>2. /\ w \in Seq(Int) /\ Len(w) = Len(u) + Len(v)
      /\ \A i \in 1..(Len(u) + Len(v)) : w[i] = IF i <= Len(u) THEN u[i] ELSE v[i - Len(u)]
  BY <1>1, ConcatProperties
<1>3. PICK l \in Nat, m \in Nat : l = Len(u) /\ m = Len(v)
  OBVIOUS
<1>4. DOMAIN u = 1..l /\ DOMAIN v = 1..m /\ DOMAIN w = 1..(l + m)
  BY <1>2, <1>3
<1>5. \A i \in 1..(l + m) : w[i] = IF i <= l THEN u[i] ELSE v[i - l]
  BY <1>2, <1>3
<1>6. \A k \in 1..l : k \in 1..(l + m) /\ w[k] = u[k]
  <2>. SUFFICES ASSUME NEW k \in 1..l PROVE k \in 1..(l + m) /\ w[k] = u[k]
    OBVIOUS
  <2>1. k \in 1..(l + m) /\ k <= l
    OBVIOUS
  <2>. QED BY <1>5, <2>1
<1>7. \A k \in 1..m : l + k \in 1..(l + m) /\ w[l + k] = v[k]
  <2>. SUFFICES ASSUME NEW k \in 1..m PROVE l + k \in 1..(l + m) /\ w[l + k] = v[k]
    OBVIOUS
  <2>1. l + k \in 1..(l + m) /\ ~(l + k <= l) /\ (l + k) - l = k
    OBVIOUS
  <2>. QED BY <1>5, <2>1
<1>. QED BY <1>1, <1>3, <1>4, <1>6, <1>7

\* A service with ports for any protocol, for TCP and for UDP.
HasPorts(service) ==
  service.ports \in Seq(Int) /\ service.tcp_ports \in Seq(Int) /\ service.udp_ports \in Seq(Int)

LEMMA HeldByProtocol ==
  ASSUME NEW service, HasPorts(service), NEW protocol, NEW port, NEW p \in {protocol, AnyProtocol},
         HasPort(service, port, p)
  PROVE  \E k \in DOMAIN PortsHeld(service, protocol) : InPortBits(PortsHeld(service, protocol)[k]) = port
<1> DEFINE Right(number) == InPortBits(number) = port
<1>1. PICK any, tcp, udp : /\ any = service.ports /\ tcp = service.tcp_ports /\ udp = service.udp_ports
                           /\ any \in Seq(Int) /\ tcp \in Seq(Int) /\ udp \in Seq(Int)
  BY DEF HasPorts
<1>2. PICK with_tcp, with_udp : with_tcp = any \o tcp /\ with_udp = any \o udp
  OBVIOUS
<1>3. PortsHeld(service, protocol) = IF protocol = TCP THEN with_tcp
                                     ELSE IF protocol = UDP THEN with_udp
                                     ELSE any
  BY <1>1, <1>2 DEF PortsHeld, TCP, UDP
<1>4. PortsOf(service, p) = IF p = AnyProtocol THEN any
                            ELSE IF p = TCP THEN tcp
                            ELSE IF p = UDP THEN udp
                            ELSE << >>
  BY <1>1, PortsByProtocol
<1>5. /\ \A k \in DOMAIN any : k \in DOMAIN with_tcp /\ with_tcp[k] = any[k]
      /\ \A k \in DOMAIN any : k \in DOMAIN with_udp /\ with_udp[k] = any[k]
      /\ \A k \in DOMAIN tcp : Len(any) + k \in DOMAIN with_tcp /\ with_tcp[Len(any) + k] = tcp[k]
      /\ \A k \in DOMAIN udp : Len(any) + k \in DOMAIN with_udp /\ with_udp[Len(any) + k] = udp[k]
  <2>1. any \in Seq(Int) /\ tcp \in Seq(Int) /\ udp \in Seq(Int)
    BY <1>1
  <2>2. /\ \A k \in DOMAIN any : k \in DOMAIN (any \o tcp) /\ (any \o tcp)[k] = any[k]
        /\ \A k \in DOMAIN tcp : Len(any) + k \in DOMAIN (any \o tcp) /\ (any \o tcp)[Len(any) + k] = tcp[k]
    BY <2>1, PlacesConcatenated, Zenon
  <2>3. /\ \A k \in DOMAIN any : k \in DOMAIN (any \o udp) /\ (any \o udp)[k] = any[k]
        /\ \A k \in DOMAIN udp : Len(any) + k \in DOMAIN (any \o udp) /\ (any \o udp)[Len(any) + k] = udp[k]
    BY <2>1, PlacesConcatenated, Zenon
  <2>. QED BY <1>2, <2>2, <2>3, Zenon
<1>6. TCP # AnyProtocol /\ UDP # AnyProtocol /\ TCP # UDP
  BY DEF TCP, UDP, AnyProtocol
<1>7. \E k \in DOMAIN PortsOf(service, p) : Right(PortsOf(service, p)[k])
  BY DEF HasPort
<1>8. SUFFICES \E k \in DOMAIN PortsHeld(service, protocol) : Right(PortsHeld(service, protocol)[k])
  OBVIOUS
<1> HIDE DEF Right
<1>9. PICK k \in DOMAIN PortsOf(service, p) : Right(PortsOf(service, p)[k])
  BY <1>7
<1>10. CASE p = AnyProtocol
  <2>1. k \in DOMAIN any /\ Right(any[k])
    BY <1>4, <1>9, <1>10
  <2>2. k \in DOMAIN with_tcp /\ Right(with_tcp[k]) /\ k \in DOMAIN with_udp /\ Right(with_udp[k])
    BY <1>5, <2>1
  <2>. QED BY <1>3, <2>1, <2>2
<1>11. CASE p # AnyProtocol /\ p = protocol
  <2>1. CASE p = TCP
    <3>1. k \in DOMAIN tcp /\ Right(tcp[k])
      BY <1>4, <1>6, <1>9, <2>1
    <3>2. PICK place : place \in DOMAIN with_tcp /\ Right(with_tcp[place])
      BY <1>5, <3>1
    <3>. QED BY <1>3, <1>11, <2>1, <3>2
  <2>2. CASE p = UDP
    <3>1. k \in DOMAIN udp /\ Right(udp[k])
      BY <1>4, <1>6, <1>9, <2>2
    <3>2. PICK place : place \in DOMAIN with_udp /\ Right(with_udp[place])
      BY <1>5, <3>1
    <3>. QED BY <1>3, <1>6, <1>11, <2>2, <3>2
  <2>3. CASE p # TCP /\ p # UDP
    <3>1. PortsOf(service, p) = << >>
      BY <1>4, <1>11, <2>3
    <3>. QED BY <1>9, <3>1
  <2>. QED BY <2>1, <2>2, <2>3
<1>. QED BY <1>10, <1>11

(* What a flow is counted for is what its port is mapped to.                *)
LEMMA CountedIsMapped ==
  ASSUME NEW services, PortData(services), NEW flow, NEW type, ServiceOf(services, flow) = <<type>>
  PROVE  MapsTo(services, Port(flow), Protocol(flow), type)
<1>1. PICK port, protocol : port = Port(flow) /\ protocol = Protocol(flow)
  OBVIOUS
<1>2. lookup(services, port, protocol) = <<type>>
  BY <1>1 DEF ServiceOf
<1>3. \/ Mapped(services, port, protocol) = <<type>>
      \/ Mapped(services, port, AnyProtocol) = <<type>>
  BY <1>2 DEF lookup
<1>4. PICK n \in DOMAIN services : /\ services[n].name = type
                                  /\ \/ HasPort(services[n], port, protocol)
                                     \/ HasPort(services[n], port, AnyProtocol)
  BY <1>3, MappedHasPort
<1>5. PICK service : service = services[n]
  OBVIOUS
<1>6. HasPorts(service)
  BY <1>5 DEF PortData, HasPorts
<1>7. PICK p \in {protocol, AnyProtocol} : HasPort(service, port, p)
  BY <1>4, <1>5
<1>8. \E k \in DOMAIN PortsHeld(service, protocol) : InPortBits(PortsHeld(service, protocol)[k]) = port
  BY <1>6, <1>7, HeldByProtocol
<1>9. MapsTo(services, port, protocol, type)
  BY <1>4, <1>5, <1>8 DEF MapsTo
<1>. QED BY <1>1, <1>9

(* Of numbers below a bound there is a first one that none exceeds.         *)
LEMMA FirstGreatest ==
  ASSUME NEW size \in Nat, size > 0, NEW bound \in Nat, NEW c, \A n \in 1..size : c[n] \in 0..bound
  PROVE  \E n \in 1..size : \A k \in 1..size : c[k] < c[n] \/ (c[k] = c[n] /\ n <= k)
<1> DEFINE T == {bound - c[n] : n \in 1..size}
<1>1. T \in SUBSET Nat /\ T # {}
  <2>1. 1 \in 1..size
    OBVIOUS
  <2>2. bound - c[1] \in T
    BY <2>1
  <2>3. \A t \in T : t \in Nat
    OBVIOUS
  <2>. QED BY <2>2, <2>3
<1>2. PICK t \in T : \A u \in T : t <= u
  <2> HIDE DEF T
  <2>. QED BY <1>1, LeastNumber
<1> DEFINE S == {n \in 1..size : bound - c[n] = t}
<1>3. S \in SUBSET Nat /\ S # {}
  OBVIOUS
<1>4. PICK n \in S : \A m \in S : n <= m
  <2> HIDE DEF S
  <2>. QED BY <1>3, LeastNumber
<1>5. ASSUME NEW k \in 1..size PROVE c[k] < c[n] \/ (c[k] = c[n] /\ n <= k)
  <2>1. t <= bound - c[k] /\ t = bound - c[n] /\ c[k] \in Int /\ c[n] \in Int
    BY <1>2
  <2>2. CASE c[k] = c[n]
    <3>1. k \in S
      BY <2>1, <2>2
    <3>. QED BY <1>4, <2>2, <3>1
  <2>3. CASE c[k] # c[n]
    BY <2>1, <2>3
  <2>. QED BY <2>2, <2>3
<1>. QED BY <1>5

\* The flows that count for a service, and those that count at all.
CountedIn(svc, flows) == {f \in DOMAIN flows : Counts(flows[f], svc)}
Using(services, svc, flows, type) ==
  {f \in CountedIn(svc, flows) : ServiceOf(services, flows[f]) = <<type>>}
UsingAny(services, svc, flows) ==
  UNION {Using(services, svc, flows, type) : type \in ToSet(Classifiable)}

LEMMA TwelveServices ==
  /\ DOMAIN Classifiable = 1..12 /\ Len(Classifiable) = 12
  /\ ToSet(Classifiable) = {Classifiable[n] : n \in 1..12}
  /\ IsFiniteSet(1..12)
<1>1. PICK m \in Int : m = 12
  OBVIOUS
<1>2. IsFiniteSet(1..m)
  BY FS_Interval
<1>. QED BY <1>1, <1>2 DEF Classifiable, ToSet

\* What is asked of the configuration of the services.
SoundService(svc) ==
  /\ svc.smoothing_alpha[1] \in Nat /\ svc.smoothing_alpha[2] \in Nat \ {0}
  /\ svc.min_confidence[1] \in Nat /\ svc.min_confidence[2] \in Nat \ {0}
  /\ svc.top_k \in Nat /\ svc.top_k > 0

\* What an answer says of how many flows count, how many of them each service uses, and how
\* many are used by any.
SaysOf(answer, svc, counted, used, all) ==
  LET least == svc.min_confidence
      share(type) == Smoothed(used[type], all, svc.smoothing_alpha)
      enough(type) == share(type)[1] * least[2] >= least[1] * share(type)[2]
      types == ToSet(Classifiable)
  IN  /\ answer.service # UNKNOWN =>
           /\ answer.service \in types /\ used[answer.service] > 0
           /\ \A type \in types : used[type] <= used[answer.service]
           /\ answer.confidence = share(answer.service) /\ enough(answer.service)
           /\ share(answer.service) \in Int \X (Nat \ {0})
           /\ answer.service \in answer.top_k[1]
      /\ answer.service = UNKNOWN =>
           \/ counted < svc.min_flows \/ all = 0
           \/ \A type \in types : ~enough(type)

(* No service has a greater share than one that none is used more than.     *)
LEMMA LesserShare ==
  ASSUME NEW few \in Nat, NEW many \in Nat, few <= many, NEW all \in Nat \ {0},
         NEW alpha, alpha[1] \in Nat, alpha[2] \in Nat \ {0},
         NEW least, least[1] \in Nat, least[2] \in Nat \ {0}
  PROVE  LET small == Smoothed(few, all, alpha)
             great == Smoothed(many, all, alpha)
         IN  /\ great \in Int \X (Nat \ {0})
             /\ small[1] * least[2] >= least[1] * small[2] =>
                  great[1] * least[2] >= least[1] * great[2]
<1>1. PICK a \in Nat, b \in Nat \ {0}, l \in Nat, m \in Nat \ {0} :
        alpha[1] = a /\ alpha[2] = b /\ least[1] = l /\ least[2] = m
  OBVIOUS
<1>2. few * b \in Nat /\ many * b \in Nat /\ all * b \in Nat \ {0} /\ few * b <= many * b
  OBVIOUS
<1>3. PICK u \in Nat, v \in Nat, w \in Nat \ {0} :
        /\ Smoothed(few, all, alpha) = <<u, w>> /\ Smoothed(many, all, alpha) = <<v, w>> /\ u <= v
  BY <1>1, <1>2, TwelveServices DEF Smoothed
<1>4. u * m <= v * m /\ u * m \in Nat /\ v * m \in Nat /\ l * w \in Nat
  BY <1>3
<1>5. u * m >= l * w => v * m >= l * w
  BY <1>4
<1>. QED BY <1>1, <1>3, <1>5

(* A service that is answered is counted, none is counted more often, and   *)
(* its confidence is its share, which is enough; unknown is answered where  *)
(* too few flows count, where none has a service, or where no share is      *)
(* enough.                                                                  *)
LEMMA Classified ==
  ASSUME NEW services, NEW svc, SoundService(svc), NEW flows, IsFiniteSet(DOMAIN flows)
  PROVE  SaysOf(classify(services, svc, flows), svc, Cardinality(CountedIn(svc, flows)),
                [type \in ToSet(Classifiable) |-> Cardinality(Using(services, svc, flows, type))],
                Cardinality(UsingAny(services, svc, flows)))
<1> DEFINE counted == {f \in DOMAIN flows : Counts(flows[f], svc)}
           using(type) == {f \in counted : ServiceOf(services, flows[f]) = <<type>>}
           types == ToSet(Classifiable)
           count == [type \in types |-> Cardinality(using(type))]
           total == Cardinality(UNION {using(type) : type \in DOMAIN count})
           alpha == svc.smoothing_alpha
           probability(type) == <<count[type] * alpha[2] + alpha[1],
                                  total * alpha[2] + alpha[1] * Len(Classifiable)>>
           place == CHOOSE n \in DOMAIN Classifiable :
                      \A k \in DOMAIN Classifiable :
                        \/ count[Classifiable[k]] < count[Classifiable[n]]
                        \/ count[Classifiable[k]] = count[Classifiable[n]] /\ n <= k
           likeliest == Classifiable[place]
           confidence == probability(likeliest)
           least == svc.min_confidence
           answer == classify(services, svc, flows)
<1>1. /\ counted = CountedIn(svc, flows)
      /\ \A type : using(type) = Using(services, svc, flows, type)
      /\ UNION {using(type) : type \in DOMAIN count} = UsingAny(services, svc, flows)
  BY DEF Using, UsingAny, CountedIn
<1>2. answer = IF Cardinality(counted) < svc.min_flows \/ total = 0 THEN Unclassified
               ELSE [service |-> IF confidence[1] * least[2] >= least[1] * confidence[2]
                                 THEN likeliest ELSE UNKNOWN,
                     confidence |-> confidence,
                     top_k |-> format_top_k(count, svc.top_k)]
  BY DEF classify
<1>3. Unclassified.service = UNKNOWN
  BY DEF Unclassified
<1>a. count = [type \in ToSet(Classifiable) |-> Cardinality(Using(services, svc, flows, type))]
      /\ total = Cardinality(UsingAny(services, svc, flows))
  BY <1>1
<1>b. CASE Cardinality(counted) < svc.min_flows \/ total = 0
  <2>1. answer.service = UNKNOWN
    <3> HIDE DEF counted, total, confidence, likeliest, count, least, answer
    <3>. QED BY <1>2, <1>3, <1>b, Zenon
  <2>2. Cardinality(CountedIn(svc, flows)) < svc.min_flows \/ Cardinality(UsingAny(services, svc, flows)) = 0
    BY <1>1, <1>a, <1>b
  <2>. QED BY <2>1, <2>2, Zenon DEF SaysOf, answer
<1>. SUFFICES ASSUME ~(Cardinality(counted) < svc.min_flows \/ total = 0)
              PROVE  SaysOf(answer, svc, Cardinality(counted), count, total)
  BY <1>1, <1>a, <1>b
<1>4. PICK enough \in BOOLEAN :
        /\ enough <=> confidence[1] * least[2] >= least[1] * confidence[2]
        /\ answer.service = IF enough THEN likeliest ELSE UNKNOWN
        /\ answer.confidence = confidence
        /\ answer.top_k = format_top_k(count, svc.top_k)
  <2> HIDE DEF counted, total, confidence, likeliest, count, least, answer
  <2>1. PICK enough : enough \in BOOLEAN /\ (enough <=> confidence[1] * least[2] >= least[1] * confidence[2])
    OBVIOUS
  <2>2. answer = [service |-> IF enough THEN likeliest ELSE UNKNOWN,
                  confidence |-> confidence,
                  top_k |-> format_top_k(count, svc.top_k)]
    BY <1>2, <2>1, Zenon
  <2>. QED BY <2>1, <2>2
<1>5. ASSUME NEW type
      PROVE  IsFiniteSet(using(type)) /\ Cardinality(using(type)) \in Nat
  <2>1. IsFiniteSet(using(type))
    BY FS_Subset
  <2>. QED BY <2>1, FS_CardinalityType
<1> DEFINE mapped == UNION {using(type) : type \in DOMAIN count}
<1>6. IsFiniteSet(mapped) /\ total \in Nat /\ mapped # {}
  <2>1. mapped \in SUBSET (DOMAIN flows)
    OBVIOUS
  <2>2. IsFiniteSet(mapped)
    BY <2>1, FS_Subset
  <2>3. mapped # {}
    BY FS_EmptySet
  <2>. QED BY <2>2, <2>3, FS_CardinalityType
<1>7. DOMAIN count = types /\ \A type \in types : count[type] = Cardinality(using(type))
  OBVIOUS
<1>8. \A type \in types : count[type] \in 0..total
  <2>. SUFFICES ASSUME NEW type \in types PROVE count[type] \in 0..total
    OBVIOUS
  <2>1. using(type) \in SUBSET mapped
    OBVIOUS
  <2>2. Cardinality(using(type)) <= Cardinality(mapped)
    BY <1>6, <2>1, FS_Subset
  <2>. QED BY <1>5, <1>6, <1>7, <2>2
<1>9. place \in 1..12 /\ \A k \in 1..12 : count[Classifiable[k]] <= count[Classifiable[place]]
  <2> DEFINE c == [n \in 1..12 |-> count[Classifiable[n]]]
             First(n) == \A k \in DOMAIN Classifiable :
                           \/ count[Classifiable[k]] < count[Classifiable[n]]
                           \/ count[Classifiable[k]] = count[Classifiable[n]] /\ n <= k
  <2>1. \A n \in 1..12 : Classifiable[n] \in types /\ c[n] = count[Classifiable[n]]
    BY TwelveServices
  <2>2. \A n \in 1..12 : c[n] \in 0..total
    BY <1>8, <2>1
  <2>3. \E n \in 1..12 : \A k \in 1..12 : c[k] < c[n] \/ (c[k] = c[n] /\ n <= k)
    <3>1. PICK size, bound, d : size = 12 /\ bound = total /\ d = c
      OBVIOUS
    <3> HIDE DEF c, total
    <3>2. size \in Nat /\ size > 0 /\ bound \in Nat /\ \A n \in 1..size : d[n] \in 0..bound
      BY <1>6, <2>2, <3>1
    <3>3. \E n \in 1..size : \A k \in 1..size : d[k] < d[n] \/ (d[k] = d[n] /\ n <= k)
      BY <3>2, FirstGreatest, Zenon
    <3>. QED BY <3>1, <3>3
  <2>4. \E n \in DOMAIN Classifiable : First(n)
    BY <2>1, <2>3, TwelveServices
  <2>5. place = CHOOSE n \in DOMAIN Classifiable : First(n)
    OBVIOUS
  <2>6. place \in DOMAIN Classifiable /\ First(place)
    <3> HIDE DEF First, place
    <3>. QED BY <2>4, <2>5
  <2>7. \A n \in 1..12 : count[Classifiable[n]] \in Nat
    <3> HIDE DEF count, total
    <3>. QED BY <1>6, <1>8, <2>1
  <2> HIDE DEF place, count
  <2>. QED BY <2>6, <2>7, TwelveServices
<1>10. likeliest \in types /\ \A type \in types : count[type] <= count[likeliest]
  <2> HIDE DEF place, count
  <2>1. types = {Classifiable[n] : n \in 1..12}
    BY TwelveServices
  <2>. QED BY <1>9, <2>1
<1> HIDE DEF likeliest
<1>11. using(likeliest) # {}
  <2>1. PICK type \in types : using(type) # {}
    BY <1>6, <1>7
  <2>2. Cardinality(using(type)) > 0
    BY <1>5, <2>1, FS_EmptySet
  <2>3. Cardinality(using(likeliest)) > 0
    <3>1. count[type] > 0 /\ count[type] <= count[likeliest]
      BY <1>7, <1>10, <2>1, <2>2
    <3>2. count[likeliest] = Cardinality(using(likeliest)) /\ count[likeliest] \in Nat /\ count[type] \in Nat
      BY <1>5, <1>7, <1>10, <2>1
    <3> HIDE DEF count, using
    <3>. QED BY <3>1, <3>2
  <2>. QED BY <2>3, FS_EmptySet
<1>12. /\ confidence \in Int \X (Nat \ {0}) /\ confidence = Smoothed(count[likeliest], total, alpha)
       /\ \A type \in types :
            LET share == Smoothed(count[type], total, alpha)
            IN  share[1] * least[2] >= least[1] * share[2] =>
                  confidence[1] * least[2] >= least[1] * confidence[2]
  <2>1. confidence = Smoothed(count[likeliest], total, alpha)
    BY DEF Smoothed
  <2>2. /\ total \in Nat \ {0} /\ count[likeliest] \in Nat
        /\ alpha[1] \in Nat /\ alpha[2] \in Nat \ {0} /\ least[1] \in Nat /\ least[2] \in Nat \ {0}
    <3>1. total # 0
      OBVIOUS
    <3>2. alpha[1] \in Nat /\ alpha[2] \in Nat \ {0} /\ least[1] \in Nat /\ least[2] \in Nat \ {0}
      BY DEF SoundService
    <3>3. count[likeliest] \in 0..total
      BY <1>8, <1>10
    <3> HIDE DEF count, total, alpha, least
    <3>. QED BY <1>6, <3>1, <3>2, <3>3
  <2> HIDE DEF confidence, alpha, least, total
  <2>3. confidence \in Int \X (Nat \ {0})
    <3> HIDE DEF count
    <3>1. PICK c \in Nat : c = count[likeliest] /\ c <= c
      BY <2>2
    <3>. QED BY <2>1, <2>2, <3>1, LesserShare
  <2>4. ASSUME NEW type \in types
        PROVE  LET share == Smoothed(count[type], total, alpha)
               IN  share[1] * least[2] >= least[1] * share[2] =>
                     confidence[1] * least[2] >= least[1] * confidence[2]
    <3>1. count[type] \in Nat /\ count[type] <= count[likeliest]
      BY <1>6, <1>8, <1>10, <2>2
    <3> HIDE DEF count
    <3>. QED BY <2>1, <2>2, <3>1, LesserShare
  <2>. QED BY <2>1, <2>3, <2>4
<1>13. likeliest \in format_top_k(count, svc.top_k)[1]
  <2> DEFINE k == svc.top_k
             more(type) == {other \in DOMAIN count : count[other] > count[type]}
             same(type) == {other \in DOMAIN count : count[other] >= count[type]}
  <2>1. 1 \in 1..(IF k < Len(Classifiable) THEN k ELSE Len(Classifiable))
    BY TwelveServices DEF SoundService
  <2>2. format_top_k(count, k)[1] = {type \in DOMAIN count :
          Cardinality(more(type)) < 1 /\ 1 <= Cardinality(same(type))}
    BY <2>1 DEF format_top_k
  <2>3. \A type \in types : count[type] \in Nat
    <3> HIDE DEF count, total
    <3>. QED BY <1>6, <1>8
  <2>4. more(likeliest) = {} /\ likeliest \in same(likeliest)
    <3> HIDE DEF count
    <3>. QED BY <1>7, <1>10, <2>3
  <2>5. IsFiniteSet(types)
    <3> DEFINE listed == [n \in 1..12 |-> Classifiable[n]]
    <3>1. listed \in Surjection(1..12, types) /\ IsFiniteSet(1..12)
      <4>1. \A n \in 1..12 : Classifiable[n] \in types
        BY TwelveServices
      <4>2. \A type \in types : \E n \in 1..12 : Classifiable[n] = type
        BY TwelveServices
      <4>3. IsFiniteSet(1..12)
        BY TwelveServices
      <4> HIDE DEF types
      <4>. QED BY <4>1, <4>2, <4>3 DEF Surjection
    <3> HIDE DEF listed
    <3>. QED BY <3>1, FS_Surjection
  <2>6. IsFiniteSet(same(likeliest))
    BY <1>7, <2>5, FS_Subset
  <2>7. Cardinality(more(likeliest)) = 0 /\ Cardinality(same(likeliest)) \in Nat
        /\ Cardinality(same(likeliest)) # 0
    BY <2>4, <2>6, FS_EmptySet, FS_CardinalityType
  <2>8. Cardinality(more(likeliest)) < 1 /\ 1 <= Cardinality(same(likeliest))
    <3> HIDE DEF more, same
    <3>. QED BY <2>7
  <2>9. likeliest \in DOMAIN count
    BY <1>7, <1>10
  <2> HIDE DEF more, same
  <2>. QED BY <2>2, <2>8, <2>9
<1>14. UNKNOWN \notin types
  BY DEF UNKNOWN, Classifiable, ToSet
<1>15. count[likeliest] > 0
  <2>1. Cardinality(using(likeliest)) # 0 /\ Cardinality(using(likeliest)) \in Nat
    BY <1>5, <1>11, FS_EmptySet
  <2>2. count[likeliest] = Cardinality(using(likeliest))
    BY <1>7, <1>10
  <2> HIDE DEF count, using
  <2>. QED BY <2>1, <2>2
<1> DEFINE share(type) == Smoothed(count[type], total, alpha)
           reaches(type) == share(type)[1] * least[2] >= least[1] * share(type)[2]
<1>16. /\ reaches(likeliest) <=> enough
       /\ \A type \in types : reaches(type) => enough
  <2> HIDE DEF confidence, count, total, alpha, least
  <2>. QED BY <1>4, <1>12
<1> HIDE DEF answer, confidence, using, types, least, count, total, alpha, counted, reaches
<1>17. CASE enough
  <2>1. answer.service = likeliest /\ likeliest # UNKNOWN /\ reaches(likeliest)
    BY <1>4, <1>10, <1>14, <1>16, <1>17
  <2>2. answer.confidence = share(likeliest) /\ share(likeliest) \in Int \X (Nat \ {0})
    BY <1>4, <1>12
  <2>. QED BY <1>4, <1>10, <1>13, <1>15, <2>1, <2>2 DEF SaysOf, types, reaches, least, alpha
<1>18. CASE ~enough
  <2>1. answer.service = UNKNOWN /\ \A type \in types : ~reaches(type)
    BY <1>4, <1>16, <1>18
  <2>. QED BY <2>1 DEF SaysOf, types, reaches, least, alpha
<1>. QED BY <1>17, <1>18

(* Flows that are selected are as many among all flows as by themselves.    *)
LEMMA SameFlows ==
  ASSUME NEW flows, flows \in Seq(ToSet(flows)), NEW S \in SUBSET (DOMAIN flows)
  PROVE  \E at : /\ \A k \in DOMAIN Selected(flows, S) :
                      at[k] \in S /\ Selected(flows, S)[k] = flows[at[k]]
                 /\ \A X \in SUBSET DOMAIN Selected(flows, S), Y \in SUBSET S :
                      (\A k \in DOMAIN Selected(flows, S) : k \in X <=> at[k] \in Y) =>
                        Cardinality(Y) = Cardinality(X)
<1> DEFINE selected == Selected(flows, S)
<1>1. S \in SUBSET (1..Len(flows)) /\ Len(flows) \in Nat
  OBVIOUS
<1>2. PICK m, at : Enumerates(at, m, S) /\ selected = Taken(flows, at, m)
  BY <1>1, SelectedAlone
<1>3. DOMAIN selected = 1..m /\ m \in Nat /\ \A k \in 1..m : selected[k] = flows[at[k]] /\ at[k] \in S
  BY <1>2 DEF Taken, Enumerates
<1> HIDE DEF selected
<1>4. ASSUME NEW X \in SUBSET (1..m), NEW Y \in SUBSET S, \A k \in 1..m : k \in X <=> at[k] \in Y
      PROVE  Cardinality(Y) = Cardinality(X)
  <2> DEFINE h == [k \in X |-> at[k]]
  <2>1. \A k \in X : k \in 1..m /\ at[k] \in Y
    BY <1>4
  <2>2. \A j, k \in X : at[j] = at[k] => j = k
    <3>. SUFFICES ASSUME NEW j \in X, NEW k \in X, at[j] = at[k] PROVE j = k
      OBVIOUS
    <3>0. \A i \in 1..m : at[i] \in Nat
      BY <1>1, <1>3
    <3>1. j \in 1..m /\ k \in 1..m /\ \A i \in 1..m : at[i] \in Nat
      BY <2>1, <3>0
    <3>2. \A i, l \in 1..m : i < l => at[i] < at[l]
      BY <1>2 DEF Enumerates
    <3>3. ~(j < k) /\ ~(k < j)
      BY <3>1, <3>2
    <3>. QED BY <1>3, <3>1, <3>3
  <2>3. \A f \in Y : \E k \in X : at[k] = f
    <3>. SUFFICES ASSUME NEW f \in Y PROVE \E k \in X : at[k] = f
      OBVIOUS
    <3>1. PICK k \in 1..m : at[k] = f
      BY <1>2 DEF Enumerates
    <3>. QED BY <1>4, <3>1
  <2>4. h \in Bijection(X, Y)
    <3>1. h \in Injection(X, Y)
      BY <2>1, <2>2 DEF Injection, IsInjective
    <3>2. h \in Surjection(X, Y)
      BY <2>1, <2>3 DEF Surjection
    <3>. QED BY <3>1, <3>2 DEF Bijection
  <2>5. IsFiniteSet(X)
    <3>1. IsFiniteSet(1..m)
      BY <1>3, FS_Interval
    <3>. QED BY <3>1, FS_Subset
  <2> HIDE DEF h
  <2>6. ExistsBijection(X, Y)
    BY <2>4 DEF ExistsBijection
  <2>. QED BY <2>5, <2>6, FS_Bijection
<1>5. \A X \in SUBSET DOMAIN selected, Y \in SUBSET S :
         (\A k \in DOMAIN selected : k \in X <=> at[k] \in Y) => Cardinality(Y) = Cardinality(X)
  BY <1>3, <1>4
<1>6. \A k \in DOMAIN selected : at[k] \in S /\ selected[k] = flows[at[k]]
  BY <1>3
<1>. QED BY <1>5, <1>6 DEF selected

LEMMA SelectedFinite ==
  ASSUME NEW flows, flows \in Seq(ToSet(flows)), NEW S \in SUBSET (DOMAIN flows)
  PROVE  IsFiniteSet(DOMAIN Selected(flows, S))
<1>1. S \in SUBSET (1..Len(flows))
  OBVIOUS
<1>2. PICK m, at : Enumerates(at, m, S) /\ Selected(flows, S) = Taken(flows, at, m)
  BY <1>1, SelectedAlone
<1>3. DOMAIN Selected(flows, S) = 1..m /\ m \in Nat
  BY <1>2 DEF Taken, Enumerates
<1>. QED BY <1>3, FS_Interval

\* The flows of a pair, in its direction.
Between(flows, pair) == {f \in DOMAIN flows : flows[f].source = pair[1] /\ flows[f].target = pair[2]}

LEMMA UsesCounted ==
  ASSUME NEW flows, NEW services, PortData(services), NEW svc, NEW pair, NEW type
  PROVE  /\ Telling(flows, svc, pair) = {f \in Between(flows, pair) : Counts(flows[f], svc)}
         /\ Uses(flows, services, svc, pair, type)
              = {f \in Telling(flows, svc, pair) : ServiceOf(services, flows[f]) = <<type>>}
<1>1. Telling(flows, svc, pair) = {f \in Between(flows, pair) : Counts(flows[f], svc)}
  BY DEF Telling, Between, Counts
<1>2. ASSUME NEW f \in Telling(flows, svc, pair), ServiceOf(services, flows[f]) = <<type>>
      PROVE  MapsTo(services, Port(flows[f]), Protocol(flows[f]), type)
  BY <1>2, CountedIsMapped
<1>3. Uses(flows, services, svc, pair, type)
        = {f \in Telling(flows, svc, pair) : ServiceOf(services, flows[f]) = <<type>>}
  BY <1>2 DEF Uses
<1>. QED BY <1>1, <1>3

\* The flows of a pair that use any service.
UsesAny(flows, services, svc, pair) ==
  UNION {Uses(flows, services, svc, pair, type) : type \in ToSet(Classifiable)}

(* The flows of a pair are counted alike among all flows and by themselves. *)
LEMMA CountedAlike ==
  ASSUME NEW flows, flows \in Seq(ToSet(flows)), NEW services, PortData(services), NEW svc, NEW pair
  PROVE  LET apart == Selected(flows, Between(flows, pair))
         IN  /\ Cardinality(Telling(flows, svc, pair)) = Cardinality(CountedIn(svc, apart))
             /\ \A type : Cardinality(Uses(flows, services, svc, pair, type))
                            = Cardinality(Using(services, svc, apart, type))
             /\ Cardinality(UsesAny(flows, services, svc, pair)) = Cardinality(UsingAny(services, svc, apart))
<1> DEFINE S == Between(flows, pair)
           apart == Selected(flows, S)
           tells == Telling(flows, svc, pair)
           uses(type) == Uses(flows, services, svc, pair, type)
<1>1. S \in SUBSET (DOMAIN flows)
  BY DEF Between
<1>2. /\ tells = {f \in S : Counts(flows[f], svc)}
      /\ \A type : uses(type) = {f \in tells : ServiceOf(services, flows[f]) = <<type>>}
  <2>1. tells = {f \in S : Counts(flows[f], svc)}
    BY UsesCounted
  <2>2. ASSUME NEW type
        PROVE  uses(type) = {f \in tells : ServiceOf(services, flows[f]) = <<type>>}
    BY UsesCounted
  <2>. QED BY <2>1, <2>2, Zenon
<1> HIDE DEF S, apart, tells, uses
<1>3. PICK at : /\ \A k \in DOMAIN apart : at[k] \in S /\ apart[k] = flows[at[k]]
                /\ \A X \in SUBSET DOMAIN apart, Y \in SUBSET S :
                     (\A k \in DOMAIN apart : k \in X <=> at[k] \in Y) => Cardinality(Y) = Cardinality(X)
  BY <1>1, SameFlows DEF apart
<1>4. /\ CountedIn(svc, apart) \in SUBSET DOMAIN apart /\ tells \in SUBSET S
      /\ \A k \in DOMAIN apart : k \in CountedIn(svc, apart) <=> at[k] \in tells
  BY <1>2, <1>3 DEF CountedIn
<1>5. \A type :
        /\ Using(services, svc, apart, type) \in SUBSET DOMAIN apart /\ uses(type) \in SUBSET S
        /\ \A k \in DOMAIN apart : k \in Using(services, svc, apart, type) <=> at[k] \in uses(type)
  BY <1>2, <1>3, <1>4 DEF Using
<1>6. /\ UsingAny(services, svc, apart) \in SUBSET DOMAIN apart
      /\ UNION {uses(type) : type \in ToSet(Classifiable)} \in SUBSET S
      /\ \A k \in DOMAIN apart :
           k \in UsingAny(services, svc, apart)
             <=> at[k] \in UNION {uses(type) : type \in ToSet(Classifiable)}
  BY <1>5 DEF UsingAny
<1>7. Cardinality(tells) = Cardinality(CountedIn(svc, apart))
  BY <1>3, <1>4
<1>8. \A type : Cardinality(uses(type)) = Cardinality(Using(services, svc, apart, type))
  BY <1>3, <1>5
<1>9. Cardinality(UNION {uses(type) : type \in ToSet(Classifiable)}) = Cardinality(UsingAny(services, svc, apart))
  BY <1>3, <1>6
<1>. QED BY <1>7, <1>8, <1>9 DEF UsesAny, uses, tells, apart, S

(* What is reported of a pair's service follows from the flows of the pair. *)
LEMMA LikeliestOfFlows ==
  ASSUME NEW flows, flows \in Seq(ToSet(flows)), NEW services, PortData(services),
         NEW svc, SoundService(svc), NEW pair
  PROVE  SaysOf(classify(services, svc, Selected(flows, Between(flows, pair))), svc,
                Cardinality(Telling(flows, svc, pair)),
                [type \in ToSet(Classifiable) |-> Cardinality(Uses(flows, services, svc, pair, type))],
                Cardinality(UsesAny(flows, services, svc, pair)))
<1>1. PICK apart, S : S = Between(flows, pair) /\ apart = Selected(flows, S)
  OBVIOUS
<1>2. S \in SUBSET (DOMAIN flows)
  BY <1>1 DEF Between
<1>3. IsFiniteSet(DOMAIN apart)
  BY <1>1, <1>2, SelectedFinite
<1>4. SaysOf(classify(services, svc, apart), svc, Cardinality(CountedIn(svc, apart)),
             [type \in ToSet(Classifiable) |-> Cardinality(Using(services, svc, apart, type))],
             Cardinality(UsingAny(services, svc, apart)))
  BY <1>3, Classified
<1>5. /\ Cardinality(Telling(flows, svc, pair)) = Cardinality(CountedIn(svc, apart))
      /\ \A type : Cardinality(Uses(flows, services, svc, pair, type))
                     = Cardinality(Using(services, svc, apart, type))
      /\ Cardinality(UsesAny(flows, services, svc, pair)) = Cardinality(UsingAny(services, svc, apart))
  BY <1>1, CountedAlike
<1>6. [type \in ToSet(Classifiable) |-> Cardinality(Uses(flows, services, svc, pair, type))]
        = [type \in ToSet(Classifiable) |-> Cardinality(Using(services, svc, apart, type))]
  BY <1>5
<1>. QED BY <1>1, <1>4, <1>5, <1>6

(* A value of a parameter, from a file or by default, is as its type and    *)
(* its validator have it.                                                   *)
LEMMA ServiceParameters ==
  /\ ServiceSchema["smoothing_alpha"] = Parameter("double", "is_non_negative", <<1, 1>>)
  /\ ServiceSchema["min_confidence"] = Parameter("double", "is_unit_interval", <<1, 10>>)
  /\ ServiceSchema["top_k"] = Parameter("size_t", "is_positive", 3)
  /\ {"smoothing_alpha", "min_confidence", "top_k"} \subseteq DOMAIN ServiceSchema
  /\ "SERVICE_CONFIG" \in DOMAIN NestedSchemas /\ NestedSchemas["SERVICE_CONFIG"] = ServiceSchema
  /\ "SERVICE_CONFIG" \notin DOMAIN ConfigSchema
<1>1. /\ ServiceSchema["smoothing_alpha"] = Parameter("double", "is_non_negative", <<1, 1>>)
      /\ ServiceSchema["min_confidence"] = Parameter("double", "is_unit_interval", <<1, 10>>)
      /\ ServiceSchema["top_k"] = Parameter("size_t", "is_positive", 3)
      /\ {"smoothing_alpha", "min_confidence", "top_k"} \subseteq DOMAIN ServiceSchema
  BY DEF ServiceSchema
<1>2. "SERVICE_CONFIG" \in DOMAIN NestedSchemas /\ NestedSchemas["SERVICE_CONFIG"] = ServiceSchema
  BY DEF NestedSchemas
<1>. QED BY <1>1, <1>2, Keys

LEMMA DefaultService == SoundService(Defaults(ServiceSchema))
<1>1. /\ Defaults(ServiceSchema)["smoothing_alpha"] = <<1, 1>>
      /\ Defaults(ServiceSchema)["min_confidence"] = <<1, 10>>
      /\ Defaults(ServiceSchema)["top_k"] = 3
  BY ServiceParameters DEF Defaults, Parameter
<1>. QED BY <1>1 DEF SoundService

LEMMA UpdatedService ==
  ASSUME NEW object, JsonObject(object), AcceptsObject(ServiceSchema, object),
         NEW before, SoundService(before)
  PROVE  SoundService(Updated(ServiceSchema, object, before))
<1> DEFINE updated == Updated(ServiceSchema, object, before)
<1>1. \A key \in DOMAIN ServiceSchema :
        updated[key] = IF key \in DOMAIN object THEN Extracted(ServiceSchema[key], object[key]) ELSE before[key]
  BY DEF Updated
<1> HIDE DEF updated
<1>2. updated["smoothing_alpha"][1] \in Nat /\ updated["smoothing_alpha"][2] \in Nat \ {0}
  <2>1. CASE "smoothing_alpha" \notin DOMAIN object
    BY <1>1, <2>1, ServiceParameters DEF SoundService
  <2>2. CASE "smoothing_alpha" \in DOMAIN object
    <3> DEFINE p == ServiceSchema["smoothing_alpha"]
               json == object["smoothing_alpha"]
    <3>1. p.type = "double" /\ p.validator = "is_non_negative" /\ p.optional = FALSE /\ ~IsVector(p)
      BY ServiceParameters DEF Parameter, IsVector
    <3>2. Accepts(p, json) /\ Json(json)
      BY <2>2, ServiceParameters DEF AcceptsObject, JsonObject
    <3>3. updated["smoothing_alpha"] = Extracted(p, json)
      BY <1>1, <2>2, ServiceParameters
    <3> HIDE DEF p, json
    <3>4. Extracted(p, json) = json[2]
      BY <3>1 DEF Extracted
    <3>5. json[1] = "double" /\ validate("is_non_negative", json)
      BY <3>1, <3>2 DEF Accepts, is_type, Kind
    <3>6. json[2] \in Int \X (Nat \ {0}) /\ json[2][1] >= 0
      BY <3>2, <3>5 DEF Json, Scalar, validate, Sign
    <3>. QED BY <3>3, <3>4, <3>6
  <2>. QED BY <2>1, <2>2
<1>3. updated["min_confidence"][1] \in Nat /\ updated["min_confidence"][2] \in Nat \ {0}
  <2>1. CASE "min_confidence" \notin DOMAIN object
    BY <1>1, <2>1, ServiceParameters DEF SoundService
  <2>2. CASE "min_confidence" \in DOMAIN object
    <3> DEFINE p == ServiceSchema["min_confidence"]
               json == object["min_confidence"]
    <3>1. p.type = "double" /\ p.validator = "is_unit_interval" /\ p.optional = FALSE /\ ~IsVector(p)
      BY ServiceParameters DEF Parameter, IsVector
    <3>2. Accepts(p, json) /\ Json(json)
      BY <2>2, ServiceParameters DEF AcceptsObject, JsonObject
    <3>3. updated["min_confidence"] = Extracted(p, json)
      BY <1>1, <2>2, ServiceParameters
    <3> HIDE DEF p, json
    <3>4. Extracted(p, json) = json[2]
      BY <3>1 DEF Extracted
    <3>5. json[1] = "double" /\ validate("is_unit_interval", json)
      BY <3>1, <3>2 DEF Accepts, is_type, Kind
    <3>6. json[2] \in Int \X (Nat \ {0}) /\ json[2][1] >= 0
      BY <3>2, <3>5 DEF Json, Scalar, validate, Sign
    <3>. QED BY <3>3, <3>4, <3>6
  <2>. QED BY <2>1, <2>2
<1>4. updated["top_k"] \in Nat /\ updated["top_k"] > 0
  <2>1. CASE "top_k" \notin DOMAIN object
    BY <1>1, <2>1, ServiceParameters DEF SoundService
  <2>2. CASE "top_k" \in DOMAIN object
    <3> DEFINE p == ServiceSchema["top_k"]
               json == object["top_k"]
    <3>1. p.type = "size_t" /\ p.validator = "is_positive" /\ p.optional = FALSE /\ ~IsVector(p)
      BY ServiceParameters DEF Parameter, IsVector
    <3>2. Accepts(p, json) /\ Json(json)
      BY <2>2, ServiceParameters DEF AcceptsObject, JsonObject
    <3>3. updated["top_k"] = Extracted(p, json)
      BY <1>1, <2>2, ServiceParameters
    <3> HIDE DEF p, json
    <3>4. Extracted(p, json) = json[2]
      BY <3>1 DEF Extracted
    <3>5. json[1] = "int" /\ validate("is_positive", json)
      BY <3>1, <3>2 DEF Accepts, is_type, Kind
    <3>6. json[2] \in Int /\ json[2] > 0
      BY <3>2, <3>5 DEF Json, Scalar, validate, Sign
    <3>. QED BY <3>3, <3>4, <3>6
  <2>. QED BY <2>1, <2>2
<1>. QED BY <1>2, <1>3, <1>4 DEF SoundService, updated

\* What a configuration has for its services, and that it has something.
ServicesSettled(settings) ==
  "SERVICE_CONFIG" \in DOMAIN settings /\ SoundService(settings["SERVICE_CONFIG"])

LEMMA LoadedServices ==
  ASSUME NEW object, Document(object), NEW settings \in load(object)
  PROVE  ServicesSettled(settings)
<1>1. AcceptsConfig(object)
  BY DEF load
<1>2. PICK junk : settings = value_to_config(object, junk)
  BY <1>1 DEF load
<1> DEFINE plain == Updated(ConfigSchema, object, Defaults(ConfigSchema))
           service == Nested(object, "SERVICE_CONFIG", Defaults(ServiceSchema))
           nested ==
             [RF_PARAMS |-> Nested(object, "RF_PARAMS", Uninitialised(RandomForestSchema, junk)),
              GRID_PARAMS |-> Nested(object, "GRID_PARAMS", Uninitialised(GridSearchSchema, junk)),
              FEATURE_CONFIG |-> Features(Nested(object, "FEATURE_CONFIG", Defaults(FeatureSchema))),
              SERVICE_CONFIG |-> service]
<1>3. settings = Joined(plain, nested)
  BY <1>2 DEF value_to_config
<1>4. DOMAIN plain = DOMAIN ConfigSchema
  BY DEF Updated
<1>5. "SERVICE_CONFIG" \in DOMAIN nested /\ nested["SERVICE_CONFIG"] = service
  OBVIOUS
<1>6. SoundService(service)
  <2>1. CASE "SERVICE_CONFIG" \notin DOMAIN object
    BY <2>1, ServiceParameters, DefaultService DEF Nested
  <2>2. CASE "SERVICE_CONFIG" \in DOMAIN object
    <3>1. service = Updated(ServiceSchema, object["SERVICE_CONFIG"][2], Defaults(ServiceSchema))
      BY <2>2, ServiceParameters DEF Nested
    <3>2. /\ AcceptsObject(ServiceSchema, object["SERVICE_CONFIG"][2])
          /\ JsonObject(object["SERVICE_CONFIG"][2])
      BY <1>1, <2>2, ServiceParameters DEF AcceptsConfig, Document
    <3>. QED BY <3>1, <3>2, DefaultService, UpdatedService
  <2>. QED BY <2>1, <2>2
<1> HIDE DEF plain, service, nested
<1>. QED BY <1>3, <1>4, <1>5, <1>6, ServiceParameters DEF Joined, ServicesSettled

LEMMA DefaultServices == ServicesSettled(DefaultConfig)
<1> DEFINE plain == Defaults(ConfigSchema)
           nested == [RF_PARAMS |-> Defaults(RandomForestSchema), GRID_PARAMS |-> Defaults(GridSearchSchema),
                      FEATURE_CONFIG |-> AllFeatures, SERVICE_CONFIG |-> Defaults(ServiceSchema)]
<1>1. DefaultConfig = Joined(plain, nested)
  BY DEF DefaultConfig
<1>2. DOMAIN plain = DOMAIN ConfigSchema
  BY DEF Defaults
<1>3. "SERVICE_CONFIG" \in DOMAIN nested /\ nested["SERVICE_CONFIG"] = Defaults(ServiceSchema)
  OBVIOUS
<1> HIDE DEF plain, nested
<1>. QED BY <1>1, <1>2, <1>3, ServiceParameters, DefaultService DEF Joined, ServicesSettled

LEMMA ThreadsAside ==
  ASSUME NEW settings, ServicesSettled(settings)
  PROVE  ServicesSettled(WithThreads(settings))
<1>1. /\ DOMAIN WithThreads(settings) = DOMAIN settings
      /\ WithThreads(settings)["SERVICE_CONFIG"] = settings["SERVICE_CONFIG"]
  BY DEF WithThreads, ServicesSettled
<1>. QED BY <1>1 DEF ServicesSettled

-----------------------------------------------------------------------------
(* The reported services.                                                   *)

SettledInv == mode # "none" /\ step # "configure" => ServicesSettled(config)

PortsInv == port_config # None => PortData(port_config[1])

\* The positive predictions stay as they were written until the process ends.
ListedInv ==
  mode = "prediction" /\ step \in {"metrics", "manifest", Exit} =>
    /\ File("-o") \in DOMAIN files
    /\ files[File("-o")].body =
         write_positive_predictions(rows.pairs, rows.predictions, rows.scores, graph[1].flows,
                                    port_config, config.SERVICE_CONFIG)

SInv == SettledInv /\ PortsInv /\ ListedInv

(* What a prediction does last.                                             *)
LEMMA LastSteps ==
  ASSUME Next, ~(Decline \/ Start \/ Configure), mode = "prediction", GoOn,
         step \in {"positives", "metrics", "manifest"}
  PROVE  /\ step = "positives" => WritePositives
         /\ step # "positives" => WriteMetrics \/ WritePredictionManifest \/ PassOver
<1>1. mode' = "prediction"
  BY DEF GoOn
<1>2. ~(CommonStartup \/ Ingest \/ LoadReference \/ CalculateReference \/ CalculateAndSaveReference)
  BY DEF CommonStartup, Ingest, LoadReference, CalculateReference, CalculateAndSaveReference, Calculates, Running
<1>3. ~(TrainClassifier \/ WriteTrainingManifest \/ SaveBaseline \/ SaveClassifier)
  BY DEF TrainClassifier, WriteTrainingManifest, SaveBaseline, SaveClassifier, Running
<1>4. ~(LoadClassifier \/ LoadBaseline \/ Predict \/ WriteScores \/ WriteExplanations \/ LoadServices)
  BY DEF LoadClassifier, LoadBaseline, Predict, WriteScores, WriteExplanations, LoadServices, Running
<1>5. ~(Finish \/ Stop)
  BY <1>1 DEF Finish, Stop, End
<1>6. WritePositives \/ WriteMetrics \/ WritePredictionManifest \/ PassOver
  BY <1>2, <1>3, <1>4, <1>5 DEF Next
<1>. QED BY <1>6 DEF WritePositives, WriteMetrics, WritePredictionManifest, PassOver, Running, Optional

LEMMA SettledStep == InputsInv /\ SettledInv /\ [Next]_vars => SettledInv'
<1> SUFFICES ASSUME InputsInv, SettledInv, [Next]_vars PROVE SettledInv'
  OBVIOUS
<1>1. CASE Configure
  <2>1. PICK loaded \in Configurations : config' = WithThreads(loaded)
    BY <1>1 DEF Configure
  <2>2. ServicesSettled(loaded)
    <3>1. CASE Has(args, {"-f"})
      <4>1. /\ File("-f") \in DOMAIN files /\ files[File("-f")].kind = "config"
            /\ loaded \in load(files[File("-f")].body)
        BY <2>1, <3>1 DEF Configurations, Readable
      <4>2. Document(files[File("-f")].body)
        BY <4>1 DEF InputsInv, Input
      <4>. QED BY <4>1, <4>2, LoadedServices
    <3>2. CASE ~Has(args, {"-f"})
      BY <2>1, <3>2, DefaultServices DEF Configurations
    <3>. QED BY <3>1, <3>2
  <2>. QED BY <2>1, <2>2, ThreadsAside DEF SettledInv
<1>2. CASE Start
  BY <1>2 DEF Start, SettledInv
<1>3. CASE UNCHANGED vars \/ Decline
  BY <1>3 DEF vars, process, Decline, SettledInv
<1>4. CASE ~(Configure \/ Start \/ UNCHANGED vars \/ Decline)
  BY <1>4, Continues DEF GoOn, End, SettledInv
<1>. QED BY <1>1, <1>2, <1>3, <1>4

LEMMA PortsStep == InputsInv /\ PortsInv /\ [Next]_vars => PortsInv'
<1> SUFFICES ASSUME InputsInv, PortsInv, [Next]_vars PROVE PortsInv'
  OBVIOUS
<1>1. CASE LoadServices
  <2> DEFINE path == <<config.SERVICE_CONFIG.port_config_path, "">>
  <2>1. path \in DOMAIN files /\ files[path].kind = "ports" /\ port_config' = Some(files[path].body)
    BY <1>1 DEF LoadServices, Readable
  <2> HIDE DEF path
  <2>2. PortData(files[path].body)
    BY <2>1 DEF InputsInv, Input
  <2>. QED BY <2>1, <2>2 DEF PortsInv, Some
<1>2. CASE UNCHANGED vars \/ Decline \/ Start \/ Configure
  BY <1>2 DEF vars, memory, Decline, Start, Configure, PortsInv
<1>3. CASE ~LoadServices /\ ~(Configure \/ Start \/ UNCHANGED vars \/ Decline)
  <2>1. UNCHANGED port_config \/ port_config' = None
    BY <1>3, Continues DEF End
  <2>. QED BY <2>1 DEF PortsInv
<1>. QED BY <1>1, <1>2, <1>3

LEMMA ListedStep == StepInv /\ ListedInv /\ [Next]_vars => ListedInv'
<1> SUFFICES ASSUME StepInv, ListedInv, [Next]_vars, mode' = "prediction", step' \in {"metrics", "manifest", Exit}
             PROVE  ListedInv'
  BY DEF ListedInv
<1>1. CASE UNCHANGED vars \/ Decline
  BY <1>1 DEF vars, process, memory, Decline, ListedInv, File
<1>2. CASE ~(UNCHANGED vars \/ Decline)
  <2>1. Next /\ ~(Decline \/ Start \/ Configure)
    BY <1>2 DEF Start, Configure, Exit
  <2>2. GoOn /\ mode = "prediction"
    BY <1>2, <2>1, Continues DEF GoOn, End
  <2>3. step \in {"positives", "metrics", "manifest"} /\ step \in PredictionSteps
    <3>1. step \in PredictionSteps /\ step \notin {"configure", Exit} /\ step' = NextStep
      BY <1>2, <2>1, <2>2, Continues DEF GoOn, End, StepInv
    <3>2. CASE step \in {"startup", "ingest", "load", "load_baseline", "reference"}
      BY <2>2, <3>1, <3>2, PredictionSequence DEF Exit
    <3>3. CASE step \in {"predict", "scores", "explanations", "services"}
      BY <2>2, <3>1, <3>3, PredictionSequence DEF Exit
    <3>. QED BY <3>1, <3>2, <3>3 DEF PredictionSteps
  <2>4. CASE step = "positives"
    <3> DEFINE body == write_positive_predictions(rows.pairs, rows.predictions, rows.scores,
                                                  graph[1].flows, port_config, config.SERVICE_CONFIG)
    <3>1. WritePositives
      BY <2>1, <2>2, <2>4, LastSteps
    <3>2. /\ Put(File("-o"), Content("positives", body, TRUE))
          /\ UNCHANGED <<graph, rows, port_config, args, config>>
      BY <2>2, <3>1 DEF WritePositives, GoOn, End
    <3>3. File("-o")' = File("-o") /\ Content("positives", body, TRUE).body = body
      BY <3>2 DEF File, Content
    <3>4. File("-o") \in DOMAIN files' /\ files'[File("-o")].body = body
      BY <3>2, <3>3, PutFile
    <3>. QED BY <3>2, <3>3, <3>4 DEF ListedInv
  <2>5. CASE step \in {"metrics", "manifest"}
    <3>1. WriteMetrics \/ WritePredictionManifest \/ PassOver
      BY <2>1, <2>2, <2>5, LastSteps
    <3>2. /\ UNCHANGED <<graph, rows, port_config, args, config>>
          /\ \/ files' = files
             \/ \E suffix, kind, body : /\ suffix # ""
                                       /\ Put(Beside("-o", suffix), Content(kind, body, TRUE))
      <4>1. CASE WriteMetrics
        BY <2>2, <4>1 DEF WriteMetrics, Write, GoOn, End, memory
      <4>2. CASE WritePredictionManifest
        BY <2>2, <4>2 DEF WritePredictionManifest, Write, GoOn, End, memory, Manifest
      <4>3. CASE PassOver
        BY <2>2, <4>3 DEF PassOver, GoOn, memory
      <4>. QED BY <3>1, <4>1, <4>2, <4>3
    <3>3. File("-o")' = File("-o") /\ \A suffix : suffix # "" => Beside("-o", suffix) # File("-o")
      BY <3>2 DEF File, Beside
    <3>4. File("-o") \in DOMAIN files
      BY <2>2, <2>5 DEF ListedInv
    <3>5. File("-o") \in DOMAIN files' /\ files'[File("-o")] = files[File("-o")]
      BY <3>2, <3>3, <3>4, PutFile
    <3>. QED BY <2>2, <2>5, <3>2, <3>3, <3>5 DEF ListedInv
  <2>. QED BY <2>3, <2>4, <2>5
<1>. QED BY <1>1, <1>2

(* The positives that are listed are of pairs, with what classify says.     *)
LEMMA ListedServices ==
  ASSUME NEW pairs, NEW predictions, NEW scores, NEW flows, NEW ports, NEW svc, ports # << >>,
         NEW n \in DOMAIN write_positive_predictions(pairs, predictions, scores, flows, ports, svc)
  PROVE  LET listed == write_positive_predictions(pairs, predictions, scores, flows, ports, svc)
             answer == classify(ports[1], svc, Selected(flows, Between(flows, listed[n].pair)))
         IN  listed[n].service[1] = [answer EXCEPT !.confidence = Written(@)]
<1> DEFINE listed == write_positive_predictions(pairs, predictions, scores, flows, ports, svc)
           positive == Selected([i \in DOMAIN pairs |-> i], {i \in DOMAIN pairs : predictions[i]})
           pair == pairs[positive[n]]
           between == Selected(flows, {f \in DOMAIN flows : /\ flows[f].source = pair[1]
                                                            /\ flows[f].target = pair[2]})
<1>1. listed[n] = [pair |-> pair, score |-> WrittenScore(scores[positive[n]]),
                   service |-> <<[classify(ports[1], svc, between) EXCEPT !.confidence = Written(@)]>>]
  BY DEF write_positive_predictions
<1>2. between = Selected(flows, Between(flows, pair))
  BY DEF Between
<1> HIDE DEF listed, pair, between
<1>3. /\ listed[n].pair = pair
      /\ listed[n].service[1] = [classify(ports[1], svc, between) EXCEPT !.confidence = Written(@)]
  BY <1>1
<1>. QED BY <1>2, <1>3 DEF listed

(* What is printed of an answer is the answer, its confidence rounded.      *)
LEMMA AnswerIsPrinted ==
  ASSUME NEW services, NEW svc, NEW flows, NEW printed,
         printed = [classify(services, svc, flows) EXCEPT !.confidence = Written(@)]
  PROVE  LET answer == classify(services, svc, flows)
         IN  /\ printed.service = answer.service /\ printed.top_k = answer.top_k
             /\ printed.confidence = Written(answer.confidence)
<1>1. PICK service, confidence, top_k :
        classify(services, svc, flows) = [service |-> service, confidence |-> confidence, top_k |-> top_k]
  BY DEF classify, Unclassified
<1>. QED BY <1>1

LEMMA ReportedIsLikeliest == GraphInv /\ SInv => ServiceIsLikeliest
<1> DEFINE listed == files[File("-o")].body
           flows == graph[1].flows
           services == port_config[1]
           svc == config.SERVICE_CONFIG
           least == svc.min_confidence
           used(pair, type) == Cardinality(Uses(flows, services, svc, pair, type))
           mapped(pair) == UNION {Uses(flows, services, svc, pair, type) : type \in ToSet(Classifiable)}
           share(pair, type) == Smoothed(used(pair, type), Cardinality(mapped(pair)), svc.smoothing_alpha)
           enough(pair, type) == share(pair, type)[1] * least[2] >= least[1] * share(pair, type)[2]
           AtItsEnd == mode = "prediction" /\ step \in {"metrics", "manifest", Exit} /\ port_config # None
<1> SUFFICES ASSUME GraphInv, SInv, AtItsEnd, NEW n \in DOMAIN listed
             PROVE  LET answer == listed[n].service[1]
                        pair == listed[n].pair
                    IN  /\ answer.service # UNKNOWN =>
                             /\ used(pair, answer.service) > 0
                             /\ \A type \in ToSet(Classifiable) :
                                  used(pair, type) <= used(pair, answer.service)
                             /\ Near(answer.confidence, share(pair, answer.service))
                             /\ enough(pair, answer.service)
                             /\ answer.service \in answer.top_k[1]
                        /\ answer.service = UNKNOWN =>
                             \/ Cardinality(Telling(flows, svc, pair)) < svc.min_flows
                             \/ mapped(pair) = {}
                             \/ \A type \in ToSet(Classifiable) : ~enough(pair, type)
  BY Zenon DEF ServiceIsLikeliest
<1>1. flows \in Seq(ToSet(flows)) /\ PortData(services) /\ SoundService(svc)
  BY DEF GraphInv, FlowData, SInv, SettledInv, ServicesSettled, PortsInv, Exit
<1>2. listed = write_positive_predictions(rows.pairs, rows.predictions, rows.scores, flows, port_config, svc)
  BY DEF SInv, ListedInv
<1>3. PICK pair, printed, answer :
        /\ pair = listed[n].pair /\ printed = listed[n].service[1]
        /\ answer = classify(services, svc, Selected(flows, Between(flows, pair)))
  OBVIOUS
<1>4. printed = [answer EXCEPT !.confidence = Written(@)]
  BY <1>2, <1>3, ListedServices DEF None
<1> HIDE DEF listed, flows, services, svc
<1>5. /\ printed.service = answer.service /\ printed.top_k = answer.top_k
      /\ printed.confidence = Written(answer.confidence)
  BY <1>3, <1>4, AnswerIsPrinted
<1>6. SaysOf(answer, svc, Cardinality(Telling(flows, svc, pair)),
             [type \in ToSet(Classifiable) |-> used(pair, type)], Cardinality(mapped(pair)))
  BY <1>1, <1>3, LikeliestOfFlows DEF UsesAny
<1>7. Cardinality(mapped(pair)) = 0 => mapped(pair) = {}
  <2>1. mapped(pair) \in SUBSET (1..Len(flows)) /\ Len(flows) \in Nat
    BY <1>1 DEF Uses, Telling
  <2>2. IsFiniteSet(mapped(pair))
    <3>1. IsFiniteSet(1..Len(flows))
      BY <2>1, FS_Interval
    <3>. QED BY <2>1, <3>1, FS_Subset
  <2>. QED BY <2>2, FS_EmptySet
<1> HIDE DEF used, mapped, least
<1>7a. PICK all : all = Cardinality(mapped(pair))
  OBVIOUS
<1>7b. PICK U : U = [type \in ToSet(Classifiable) |-> used(pair, type)]
  OBVIOUS
<1>8. \A type \in ToSet(Classifiable) :
        /\ U[type] = used(pair, type)
        /\ Smoothed(U[type], all, svc.smoothing_alpha) = share(pair, type)
  <2>1. ASSUME NEW type \in ToSet(Classifiable) PROVE U[type] = used(pair, type)
    BY <1>7b
  <2>. QED BY <2>1, <1>7a
<1> HIDE DEF share
<1>9. SaysOf(answer, svc, Cardinality(Telling(flows, svc, pair)), U, all)
  BY <1>6, <1>7a, <1>7b
<1>10. ASSUME answer.service # UNKNOWN
       PROVE  /\ used(pair, answer.service) > 0
              /\ \A type \in ToSet(Classifiable) : used(pair, type) <= used(pair, answer.service)
              /\ Near(printed.confidence, share(pair, answer.service))
              /\ enough(pair, answer.service)
              /\ answer.service \in answer.top_k[1]
  <2>1. PICK service : service = answer.service
    OBVIOUS
  <2>2. LET of(type) == Smoothed(U[type], all, svc.smoothing_alpha)
        IN  /\ service \in ToSet(Classifiable) /\ U[service] > 0
            /\ \A type \in ToSet(Classifiable) : U[type] <= U[service]
            /\ answer.confidence = of(service)
            /\ of(service)[1] * svc.min_confidence[2] >= svc.min_confidence[1] * of(service)[2]
            /\ of(service) \in Int \X (Nat \ {0})
            /\ service \in answer.top_k[1]
    BY <1>9, <1>10, <2>1, Zenon DEF SaysOf
  <2>3. /\ service \in ToSet(Classifiable) /\ answer.confidence = share(pair, service)
        /\ share(pair, service) \in Int \X (Nat \ {0}) /\ enough(pair, service)
    BY <1>8, <2>2 DEF least
  <2>4. Near(Written(share(pair, service)), share(pair, service))
    <3>1. PICK p \in Int, q \in Nat \ {0} : share(pair, service) = <<p, q>>
      BY <2>3
    <3>. QED BY <3>1, WrittenIsNear
  <2>5. used(pair, service) > 0 /\ \A type \in ToSet(Classifiable) : used(pair, type) <= used(pair, service)
    BY <1>8, <2>2
  <2>. QED BY <1>5, <2>1, <2>2, <2>3, <2>4, <2>5
<1>11. ASSUME answer.service = UNKNOWN
       PROVE  \/ Cardinality(Telling(flows, svc, pair)) < svc.min_flows
              \/ mapped(pair) = {}
              \/ \A type \in ToSet(Classifiable) : ~enough(pair, type)
  <2>1. \/ Cardinality(Telling(flows, svc, pair)) < svc.min_flows \/ all = 0
        \/ \A type \in ToSet(Classifiable) :
             LET of == Smoothed(U[type], all, svc.smoothing_alpha)
             IN  ~(of[1] * svc.min_confidence[2] >= svc.min_confidence[1] * of[2])
    BY <1>9, <1>11, Zenon DEF SaysOf
  <2>2. CASE all = 0
    BY <1>7, <1>7a, <2>2, Zenon
  <2>3. ASSUME NEW type \in ToSet(Classifiable),
               LET of == Smoothed(U[type], all, svc.smoothing_alpha)
               IN  ~(of[1] * svc.min_confidence[2] >= svc.min_confidence[1] * of[2])
        PROVE  ~enough(pair, type)
    <3>1. Smoothed(U[type], all, svc.smoothing_alpha) = share(pair, type)
      BY <1>8
    <3>. QED BY <2>3, <3>1, Zenon DEF least
  <2> HIDE DEF enough
  <2>. QED BY <2>1, <2>2, <2>3, Zenon
<1> HIDE DEF enough
<1>12. PICK spoken, shown : /\ spoken = listed[n].service[1] /\ shown = spoken.service
                           /\ spoken = printed /\ shown = answer.service
  BY <1>3, <1>5, Zenon
<1>13. /\ spoken.service # UNKNOWN =>
            /\ used(pair, spoken.service) > 0
            /\ \A type \in ToSet(Classifiable) : used(pair, type) <= used(pair, spoken.service)
            /\ Near(spoken.confidence, share(pair, spoken.service))
            /\ enough(pair, spoken.service)
            /\ spoken.service \in spoken.top_k[1]
       /\ spoken.service = UNKNOWN =>
            \/ Cardinality(Telling(flows, svc, pair)) < svc.min_flows
            \/ mapped(pair) = {}
            \/ \A type \in ToSet(Classifiable) : ~enough(pair, type)
  BY <1>5, <1>10, <1>11, <1>12, Zenon
<1>. QED BY <1>3, <1>12, <1>13, Zenon

\* The inductive invariant of the reported services.
LikeliestInv == ReportsInv /\ SInv

(* A service that a prediction reports is, for every configuration, flows   *)
(* and ports, one that the flows of the pair use most often on the ports    *)
(* mapped to it, it heads its list, and the confidence printed is its       *)
(* smoothed share rounded, which is enough.  Unknown is reported only where *)
(* too few flows of the pair count, where none of them uses a service, or   *)
(* where no service has a share that is enough.                             *)
THEOREM ServicesAreLikeliest == Spec => []ServiceIsLikeliest
<1>1. Init => LikeliestInv
  BY ReportsStart DEF Init, LikeliestInv, SInv, SettledInv, PortsInv, ListedInv
<1>2. LikeliestInv /\ [Next]_vars => LikeliestInv'
  <2>. SUFFICES ASSUME LikeliestInv, [Next]_vars PROVE LikeliestInv'
    OBVIOUS
  <2>1. StepInv /\ InputsInv
    BY DEF LikeliestInv, ReportsInv, IInv, ProcessInv, CInv
  <2>. QED BY <2>1, ReportsStep, SettledStep, PortsStep, ListedStep DEF LikeliestInv, SInv
<1>3. LikeliestInv => ServiceIsLikeliest
  BY ReportedIsLikeliest DEF LikeliestInv, ReportsInv, PInv
<1>. QED BY <1>1, <1>2, <1>3, PTL DEF Spec

=============================================================================
