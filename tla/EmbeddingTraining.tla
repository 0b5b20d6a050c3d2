-------------------------- MODULE EmbeddingTraining --------------------------
(***************************************************************************)
(* Training of the vertex embeddings: GenericTrainer::train drives a       *)
(* DataLoader, which takes one batch of random walks per epoch, lets the   *)
(* SlidingWindowContextGenerator cut them into contexts and hands these,   *)
(* BATCH_SIZE at a time, to the EmbeddingTrainingPairGenerator.            *)
(*                                                                         *)
(* A walk is a sequence of vertices.  The model, the optimizer and the     *)
(* loss are not modelled: a batch is what they are given.  All of this     *)
(* runs in one thread; the walks come from RandomWalkManager as the batch  *)
(* WalkBatch promises, WalksPerVertex walks from each vertex in turn.      *)
(***************************************************************************)
EXTENDS Integers, Sequences, FiniteSets

CONSTANTS
  NumVertices,          \* vertices of the graph, named 0 .. NumVertices - 1
  WalksPerVertex,
  ContextSize,
  NumNegativeSamples,
  Epochs,
  BatchSizes,           \* the batch sizes a loader may be made with
  None,                 \* no batch size: all contexts are one batch
  Walks                 \* the walks that may be drawn

Vertices == 0 .. NumVertices - 1

ASSUME SizesAssumption ==
  /\ {NumVertices, WalksPerVertex, ContextSize, Epochs} \subseteq Nat \ {0}
  /\ NumNegativeSamples \in Nat
  /\ BatchSizes \ {None} \subseteq Nat \ {0}
  /\ None \notin Nat

\* generate_single_walk puts its start vertex into the walk first.
ASSUME WalksAssumption == Walks \subseteq Seq(Vertices) \ {<< >>}

VARIABLES
  m_batch_size,         \* fixed when the loader is made
  phase,                \* where the trainer is: see TypeOK
  epoch,                \* the loop variable of train
  walks,                \* the walks of this epoch
  sequence,             \* how many of them have been cut into contexts
  m_contexts,
  m_current_batch_idx, m_total_batches,
  batch,                \* the rows of the last batch's tensors
  uses,                 \* how often each context of the epoch reached the model
  trained               \* how often each pair did

loaderVars == <<m_contexts, m_current_batch_idx, m_total_batches>>
vars == <<m_batch_size, phase, epoch, walks, sequence, loaderVars, batch, uses, trained>>

-----------------------------------------------------------------------------
(* Contexts.                                                               *)

\* Seeded fault: the last window is left out.
FaultyWindows(seq) ==
  IF Len(seq) < ContextSize THEN <<seq>>
  ELSE [i \in 1 .. Len(seq) - ContextSize |-> SubSeq(seq, i, i + ContextSize - 1)]

Windows(seq) ==
  IF Len(seq) < ContextSize THEN <<seq>>
  ELSE [i \in 1 .. Len(seq) - ContextSize + 1 |-> SubSeq(seq, i, i + ContextSize - 1)]

(* Training pairs.                                                         *)

\* Seeded fault: the value computed after ten attempts starts at the target.
FaultyFallback(target, j) == (target + j) % NumVertices

Fallback(target, j) == (target + j + 1) % NumVertices

\* What the j-th negative sample of a pair may be: drawn among the vertices
\* other than the two of the pair or, when ten attempts brought none, computed.
Negatives(source, target, j) == (Vertices \ {source, target}) \cup {Fallback(target, j)}

\* One row for each context of the list and each of its vertices but the
\* first; negatives holds the values that may be drawn for the row.
generate_training_pairs(positions) ==
  LET Slots == UNION {{<<c, i>> : i \in 2 .. Len(m_contexts[c])} : c \in positions}
  IN  [s \in Slots |->
        LET context == m_contexts[s[1]]
        IN  [source |-> context[1], target |-> context[s[2]],
             negatives |-> [j \in 0 .. NumNegativeSamples - 1 |->
                              Negatives(context[1], context[s[2]], j)]]]

-----------------------------------------------------------------------------
(* The loader.                                                             *)

has_next == m_current_batch_idx < m_total_batches

BatchLength == IF m_batch_size = None THEN Len(m_contexts) ELSE m_batch_size

\* Seeded fault: an incomplete last batch is not counted.
FaultyTotalBatches ==
  IF m_contexts = << >> THEN 0
  ELSE IF m_batch_size = None \/ m_batch_size >= Len(m_contexts) THEN 1
  ELSE Len(m_contexts) \div m_batch_size

TotalBatches ==
  IF m_contexts = << >> THEN 0
  ELSE IF m_batch_size = None \/ m_batch_size >= Len(m_contexts) THEN 1
  ELSE (Len(m_contexts) + m_batch_size - 1) \div m_batch_size

NoRows == [s \in {} |-> {}]

Init ==
  /\ m_batch_size \in BatchSizes
  /\ phase = "epoch" /\ epoch = 0
  /\ walks = << >> /\ sequence = 0
  /\ m_contexts = << >> /\ m_current_batch_idx = 0 /\ m_total_batches = 0
  /\ batch = NoRows
  /\ uses = [i \in {} |-> 0]
  /\ trained = [p \in Vertices \X Vertices |-> 0]

\* reset: the walks of the new epoch.
GenerateWalks ==
  /\ phase = "epoch" /\ epoch < Epochs
  /\ walks' \in [1 .. NumVertices * WalksPerVertex -> Walks]
  /\ \A i \in DOMAIN walks' : walks'[i][1] = (i - 1) \div WalksPerVertex
  /\ phase' = "contexts"
  /\ sequence' = 0
  /\ m_contexts' = << >>
  /\ UNCHANGED <<m_batch_size, epoch, m_current_batch_idx, m_total_batches, batch, uses, trained>>

\* No thread for a walk could be started: the exception ends the training.
WalksFail ==
  /\ phase = "epoch" /\ epoch < Epochs
  /\ phase' = "failed"
  /\ UNCHANGED <<m_batch_size, epoch, walks, sequence, loaderVars, batch, uses, trained>>

\* generate_contexts, one round of its loop.
CutWalk ==
  /\ phase = "contexts" /\ sequence < Len(walks)
  /\ sequence' = sequence + 1
  /\ m_contexts' = m_contexts \o (IF walks[sequence'] = << >> THEN << >> ELSE Windows(walks[sequence']))
  /\ UNCHANGED <<m_batch_size, phase, epoch, walks, m_current_batch_idx, m_total_batches,
                 batch, uses, trained>>

\* The rest of reset.
FinishReset ==
  /\ phase = "contexts" /\ sequence = Len(walks)
  /\ phase' = "batches"
  /\ m_total_batches' = TotalBatches
  /\ m_current_batch_idx' = 0
  /\ uses' = [i \in DOMAIN m_contexts |-> 0]
  /\ trained' = [p \in Vertices \X Vertices |-> 0]
  /\ UNCHANGED <<m_batch_size, epoch, walks, sequence, m_contexts, batch>>

Smaller(a, b) == IF a <= b THEN a ELSE b

\* Seeded fault: one context too many.
FaultyBatchRange ==
  LET start == m_current_batch_idx * BatchLength
  IN  start + 1 .. Smaller(start + BatchLength + 1, Len(m_contexts))

\* The positions of the contexts of the next batch.
BatchRange ==
  LET start == m_current_batch_idx * BatchLength
  IN  start + 1 .. Smaller(start + BatchLength, Len(m_contexts))

\* A round of the trainer's inner loop: next_batch, and an update of the
\* model by what it returned.
TrainBatch ==
  /\ phase = "batches" /\ has_next
  /\ batch' = generate_training_pairs(BatchRange)
  /\ m_current_batch_idx' = m_current_batch_idx + 1
  /\ uses' = [i \in DOMAIN uses |-> IF i \in BatchRange THEN uses[i] + 1 ELSE uses[i]]
  /\ trained' = [p \in Vertices \X Vertices |->
                   trained[p] + Cardinality({s \in DOMAIN batch' :
                                  <<batch'[s].source, batch'[s].target>> = p})]
  /\ UNCHANGED <<m_batch_size, phase, epoch, walks, sequence, m_contexts, m_total_batches>>

EndEpoch ==
  /\ phase = "batches" /\ ~has_next
  /\ phase' = "epoch"
  /\ epoch' = epoch + 1
  /\ UNCHANGED <<m_batch_size, walks, sequence, loaderVars, batch, uses, trained>>

Ended ==
  /\ phase = "failed" \/ (phase = "epoch" /\ epoch = Epochs)
  /\ UNCHANGED vars

Next ==
  \/ GenerateWalks \/ WalksFail \/ CutWalk \/ FinishReset
  \/ TrainBatch \/ EndEpoch
  \/ Ended

Spec == Init /\ [][Next]_vars

-----------------------------------------------------------------------------
(* Properties.                                                             *)

\* The state stays well typed; every row names vertices of the graph, the
\* computed negative samples included.
TypeOK ==
  /\ m_batch_size \in BatchSizes
  /\ phase \in {"epoch", "contexts", "batches", "failed"}
  /\ epoch \in 0 .. Epochs
  /\ walks \in Seq(Seq(Vertices)) /\ sequence \in 0 .. Len(walks)
  /\ m_contexts \in Seq(Seq(Vertices))
  /\ m_current_batch_idx \in Nat /\ m_total_batches \in Nat
  /\ DOMAIN batch \subseteq Nat \X Nat
  /\ \A s \in DOMAIN batch :
       batch[s] \in [source : Vertices, target : Vertices,
                     negatives : [0 .. NumNegativeSamples - 1 -> SUBSET Vertices]]
  /\ DOMAIN uses \subseteq Nat /\ \A i \in DOMAIN uses : uses[i] \in {0, 1}
  /\ trained \in [Vertices \X Vertices -> Nat]

\* The loader's counters agree with what has reached the model: of the
\* contexts of an epoch, those before the next batch's start, once, and no
\* others; a batch that is still to come has contexts left, and when none is
\* to come, none are left.
BatchesCoverEpoch ==
  phase = "batches" =>
    /\ DOMAIN uses = DOMAIN m_contexts
    /\ \A i \in DOMAIN uses :
         uses[i] = IF i <= m_current_batch_idx * BatchLength THEN 1 ELSE 0
    /\ m_current_batch_idx <= m_total_batches
    /\ has_next <=> m_current_batch_idx * BatchLength < Len(m_contexts)

\* The pairs of places of a walk that lie in a common full window whose first
\* place is the first of the two, or in a walk shorter than a window whose
\* first place it is.
PlacesPaired(walk) ==
  {p \in (DOMAIN walk) \X (DOMAIN walk) :
    /\ p[1] < p[2] /\ p[2] - p[1] < ContextSize
    /\ p[1] = 1 \/ p[1] + ContextSize - 1 <= Len(walk)}

\* At the end of an epoch the model has been trained on the pairs that its
\* walks pair, each as often as they do: cutting, batching and pairing lose
\* no pair, repeat none, and mix neither walks nor epochs.
PairsMatchWalks ==
  phase = "batches" /\ ~has_next =>
    \A u, v \in Vertices :
      trained[<<u, v>>] =
        Cardinality(UNION {
          {<<w, p>> : p \in {q \in PlacesPaired(walks[w]) :
                              walks[w][q[1]] = u /\ walks[w][q[2]] = v}} : w \in DOMAIN walks})

\* A pair's target cannot be drawn as its own negative sample, not even by
\* the computation that needs no luck, unless as many samples are asked for
\* as there are vertices.
TargetsAreNotNegatives ==
  \A s \in DOMAIN batch : \A j \in DOMAIN batch[s].negatives :
    batch[s].target \in batch[s].negatives[j] => NumNegativeSamples >= NumVertices

\* The epochs the loader has prepared.
Abstract == INSTANCE TrainingEpochs WITH
  begun <- IF phase = "batches" THEN epoch + 1 ELSE epoch

\* Training with batches gives what the epochs promise.
ImplementsTrainingEpochs == Abstract!EpochsSpec

=============================================================================
