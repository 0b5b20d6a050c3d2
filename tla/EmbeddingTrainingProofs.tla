------------------------ MODULE EmbeddingTrainingProofs ------------------------
(***************************************************************************)
(* Every epoch of the training uses each of its contexts exactly once: for *)
(* every graph, every batch size and every set of walks.                   *)
(***************************************************************************)
EXTENDS EmbeddingTraining, FiniteSetTheorems, TLAPS

-----------------------------------------------------------------------------
(* Arithmetic.                                                             *)

(* Euclidean division, as the number of batches is computed by it.          *)
LEMMA Division ==
  ASSUME NEW a \in Nat, NEW b \in Nat \ {0}
  PROVE  /\ a \div b \in Nat
         /\ a % b \in 0 .. b - 1
         /\ a = b * (a \div b) + (a % b)
  BY SMT

(* Multiplying by a batch length keeps the order of batch numbers.          *)
LEMMA ProductMonotonic ==
  ASSUME NEW a \in Nat, NEW b \in Nat, NEW c \in Nat, a <= b
  PROVE  a * c <= b * c
  BY SMT

(* n contexts make (n + b - 1) \div b batches: the k-th starts before the   *)
(* end of the contexts exactly if it is one of them.                        *)
LEMMA CeilingOfQuotient ==
  ASSUME NEW n \in Nat \ {0}, NEW b \in Nat \ {0}, NEW k \in Nat
  PROVE  k < (n + b - 1) \div b <=> k * b < n
<1> DEFINE q == (n + b - 1) \div b
           r == (n + b - 1) % b
<1>1. q \in Nat /\ r \in 0 .. b - 1 /\ n + b - 1 = b * q + r
  <2>1. n + b - 1 \in Nat
    OBVIOUS
  <2>. QED BY <2>1, Division
<1> HIDE DEF q, r
<1>2. k * b \in Nat /\ q * b \in Nat /\ b * q = q * b
  BY <1>1
<1>3. CASE k < q
  <2>1. (k + 1) * b <= q * b
    BY <1>1, <1>3, ProductMonotonic
  <2>2. (k + 1) * b = k * b + b
    BY SMT
  <2>. QED BY <1>1, <1>2, <1>3, <2>1, <2>2 DEF q
<1>4. CASE q <= k
  <2>1. q * b <= k * b
    BY <1>1, <1>4, ProductMonotonic
  <2>. QED BY <1>1, <1>2, <1>4, <2>1 DEF q
<1>. QED BY <1>1, <1>3, <1>4

(* Adding less than v and not nothing changes a remainder modulo v.         *)
LEMMA ShiftedRemainder ==
  ASSUME NEW v \in Nat \ {0}, NEW t \in 0 .. v - 1, NEW d \in 1 .. v - 1
  PROVE  (t + d) % v # t
<1> DEFINE q == (t + d) \div v
           r == (t + d) % v
<1>1. q \in Nat /\ r \in 0 .. v - 1 /\ t + d = v * q + r
  <2>1. t + d \in Nat
    OBVIOUS
  <2>. QED BY <2>1, Division
<1> HIDE DEF q, r
<1>2. SUFFICES ASSUME r = t PROVE FALSE
  BY DEF r
<1>3. v * q = d
  BY <1>1, <1>2
<1>4. CASE q = 0
  BY <1>3, <1>4
<1>5. CASE 1 <= q
  <2>1. 1 * v <= q * v
    BY <1>1, <1>5, ProductMonotonic
  <2>. QED BY <1>1, <1>3, <2>1
<1>. QED BY <1>1, <1>4, <1>5

(* The sizes, for the provers.                                              *)
LEMMA Sizes ==
  /\ NumVertices \in Nat \ {0} /\ WalksPerVertex \in Nat \ {0}
  /\ ContextSize \in Nat \ {0} /\ Epochs \in Nat \ {0}
  /\ NumNegativeSamples \in Nat
  /\ \A b \in BatchSizes : b = None \/ b \in Nat \ {0}
  /\ None \notin Nat
  BY SizesAssumption

(* Windows of a walk are sequences of its vertices.                         *)
LEMMA WindowsType ==
  ASSUME NEW seq \in Seq(Vertices)
  PROVE  Windows(seq) \in Seq(Seq(Vertices))
<1>1. CASE Len(seq) < ContextSize
  BY <1>1 DEF Windows
<1>2. CASE ~(Len(seq) < ContextSize)
  <2> DEFINE n == Len(seq) - ContextSize + 1
  <2>1. n \in Nat
    BY <1>2, Sizes
  <2>2. ASSUME NEW i \in 1 .. n
        PROVE  SubSeq(seq, i, i + ContextSize - 1) \in Seq(Vertices)
    BY <1>2, <2>2, Sizes
  <2>3. Windows(seq) = [i \in 1 .. n |-> SubSeq(seq, i, i + ContextSize - 1)]
    BY <1>2 DEF Windows
  <2> HIDE DEF n
  <2>4. Windows(seq) \in [1 .. n -> Seq(Vertices)]
    BY <2>2, <2>3
  <2>. QED BY <2>1, <2>4
<1>. QED BY <1>1, <1>2

(* The length of a batch is positive as soon as there are contexts.         *)
LEMMA BatchLengthType ==
  ASSUME m_batch_size \in BatchSizes, m_contexts \in Seq(Seq(Vertices))
  PROVE  /\ BatchLength \in Nat
         /\ m_contexts # << >> => BatchLength \in Nat \ {0}
  BY Sizes DEF BatchLength

(* There is a k-th batch exactly if it would start before the end.          *)
LEMMA BatchesAreEnough ==
  ASSUME m_batch_size \in BatchSizes, m_contexts \in Seq(Seq(Vertices)), NEW k \in Nat
  PROVE  /\ TotalBatches \in Nat
         /\ k < TotalBatches <=> k * BatchLength < Len(m_contexts)
<1> DEFINE n == Len(m_contexts)
           b == BatchLength
<1>1. n \in Nat /\ b \in Nat /\ (m_contexts # << >> => n # 0 /\ b # 0)
  BY BatchLengthType
<1>2. CASE m_contexts = << >>
  <2>1. k * b \in Nat
    BY <1>1
  <2>. QED BY <1>2, <2>1 DEF TotalBatches
<1>3. CASE m_contexts # << >> /\ (m_batch_size = None \/ m_batch_size >= Len(m_contexts))
  <2>1. TotalBatches = 1
    BY <1>3 DEF TotalBatches
  <2>2. b >= n
    BY <1>1, <1>3 DEF BatchLength
  <2>3. CASE k = 0
    BY <1>1, <1>3, <2>1, <2>3
  <2>4. CASE 1 <= k
    <3>1. 1 * b <= k * b
      BY <1>1, <2>4, ProductMonotonic
    <3> HIDE DEF n, b
    <3>2. k * b \in Nat
      BY <1>1
    <3>3. ~(k * b < n)
      BY <1>1, <2>2, <3>1, <3>2
    <3>. QED BY <2>1, <2>4, <3>3 DEF n, b
  <2>. QED BY <2>1, <2>3, <2>4
<1>4. CASE m_contexts # << >> /\ ~(m_batch_size = None \/ m_batch_size >= Len(m_contexts))
  <2>1. b = m_batch_size /\ TotalBatches = (n + b - 1) \div b
    BY <1>4 DEF TotalBatches, BatchLength
  <2>2. n \in Nat \ {0} /\ b \in Nat \ {0}
    BY <1>1, <1>4
  <2>3. n + b - 1 \in Nat
    BY <2>2
  <2> HIDE DEF n, b
  <2>4. k < (n + b - 1) \div b <=> k * b < n
    BY <2>2, CeilingOfQuotient
  <2>5. (n + b - 1) \div b \in Nat
    BY <2>2, <2>3, Division
  <2>. QED BY <2>1, <2>4, <2>5 DEF n, b
<1>. QED BY <1>2, <1>3, <1>4

-----------------------------------------------------------------------------
(* Rows of the tensors.                                                    *)

RowType == [source : Vertices, target : Vertices,
            negatives : [0 .. NumNegativeSamples - 1 -> SUBSET Vertices]]

Slots(positions) == UNION {{<<c, i>> : i \in 2 .. Len(m_contexts[c])} : c \in positions}

(* The computed negative sample is a vertex.                                *)
LEMMA FallbackIsVertex ==
  ASSUME NEW t \in Vertices, NEW j \in Nat
  PROVE  Fallback(t, j) \in Vertices
<1>1. t + j + 1 \in Nat /\ NumVertices \in Nat \ {0}
  BY Sizes DEF Vertices
<1>2. (t + j + 1) % NumVertices \in 0 .. NumVertices - 1
  BY <1>1, Division
<1>. QED BY <1>2 DEF Fallback, Vertices

(* All rows of a batch are well typed, and they are finitely many.          *)
LEMMA RowsType ==
  ASSUME m_contexts \in Seq(Seq(Vertices)), NEW P \in SUBSET (1 .. Len(m_contexts))
  PROVE  /\ DOMAIN generate_training_pairs(P) = Slots(P)
         /\ Slots(P) \subseteq Nat \X Nat
         /\ \A s \in Slots(P) : generate_training_pairs(P)[s] \in RowType
<1>1. DOMAIN generate_training_pairs(P) = Slots(P)
  BY DEF generate_training_pairs, Slots
<1>2. ASSUME NEW s \in Slots(P)
      PROVE  /\ s \in Nat \X Nat
             /\ m_contexts[s[1]][1] \in Vertices
             /\ m_contexts[s[1]][s[2]] \in Vertices
  <2>1. PICK c \in P : s \in {<<c, i>> : i \in 2 .. Len(m_contexts[c])}
    BY <1>2 DEF Slots
  <2>2. PICK i \in 2 .. Len(m_contexts[c]) : s = <<c, i>>
    BY <2>1
  <2>3. m_contexts[c] \in Seq(Vertices) /\ c \in Nat /\ Len(m_contexts[c]) \in Nat
    OBVIOUS
  <2>. QED BY <2>2, <2>3
<1>3. ASSUME NEW s \in Slots(P)
      PROVE  generate_training_pairs(P)[s] \in RowType
  <2> DEFINE u == m_contexts[s[1]][1]
             v == m_contexts[s[1]][s[2]]
             negatives == [j \in 0 .. NumNegativeSamples - 1 |-> Negatives(u, v, j)]
  <2>1. generate_training_pairs(P)[s] = [source |-> u, target |-> v, negatives |-> negatives]
    BY <1>3 DEF generate_training_pairs, Slots
  <2>2. u \in Vertices /\ v \in Vertices
    BY <1>2
  <2> HIDE DEF u, v
  <2>3. \A j \in 0 .. NumNegativeSamples - 1 : Negatives(u, v, j) \in SUBSET Vertices
    BY <2>2, FallbackIsVertex DEF Negatives
  <2>4. negatives \in [0 .. NumNegativeSamples - 1 -> SUBSET Vertices]
    BY <2>3
  <2> HIDE DEF negatives
  <2>. QED BY <2>1, <2>2, <2>4 DEF RowType
<1>. QED BY <1>1, <1>2, <1>3

(* A batch has finitely many rows.                                          *)
LEMMA SlotsFinite ==
  ASSUME m_contexts \in Seq(Seq(Vertices)), NEW P \in SUBSET (1 .. Len(m_contexts))
  PROVE  IsFiniteSet(Slots(P))
<1> DEFINE Rows(c) == {<<c, i>> : i \in 2 .. Len(m_contexts[c])}
           All == {Rows(c) : c \in P}
<1>1. IsFiniteSet(P)
  <2>1. Len(m_contexts) \in Int /\ 1 \in Int
    OBVIOUS
  <2>2. IsFiniteSet(1 .. Len(m_contexts))
    BY <2>1, FS_Interval
  <2>. QED BY <2>2, FS_Subset
<1>2. IsFiniteSet(All)
  <2> DEFINE f == [c \in P |-> Rows(c)]
  <2>1. f \in Surjection(P, All)
    BY DEF Surjection
  <2>. QED BY <1>1, <2>1, FS_Surjection
<1>3. ASSUME NEW c \in P PROVE IsFiniteSet(Rows(c))
  <2>1. Len(m_contexts[c]) \in Int /\ 2 \in Int
    OBVIOUS
  <2>2. IsFiniteSet(2 .. Len(m_contexts[c]))
    BY <2>1, FS_Interval
  <2> DEFINE f == [i \in 2 .. Len(m_contexts[c]) |-> <<c, i>>]
  <2>3. f \in Surjection(2 .. Len(m_contexts[c]), Rows(c))
    BY DEF Surjection
  <2>. QED BY <2>2, <2>3, FS_Surjection
<1>4. \A R \in All : IsFiniteSet(R)
  BY <1>3
<1>5. IsFiniteSet(UNION All)
  BY <1>2, <1>4, FS_UNION
<1>. QED BY <1>5 DEF Slots

-----------------------------------------------------------------------------
(* The inductive invariant.                                                *)

LoaderInv ==
  /\ TypeOK
  /\ BatchesCoverEpoch
  /\ phase = "batches" => m_total_batches = TotalBatches
  /\ phase # "batches" => \A i \in DOMAIN uses : uses[i] = 1
  /\ phase \in {"contexts", "batches"} => epoch < Epochs

LEMMA InitEstablishesLoaderInv == Init => LoaderInv
<1>1. SUFFICES ASSUME Init PROVE LoaderInv
  OBVIOUS
<1>2. TypeOK
  BY <1>1, Sizes DEF Init, TypeOK, NoRows
<1>. QED BY <1>1, <1>2 DEF Init, LoaderInv, BatchesCoverEpoch

(* Taking walks, failing to, and cutting them.                              *)
LEMMA WalksPreserveLoaderInv ==
  ASSUME LoaderInv, GenerateWalks \/ WalksFail \/ CutWalk
  PROVE  LoaderInv'
<1>1. phase \in {"epoch", "contexts"} /\ phase' \in {"contexts", "failed"}
  BY DEF GenerateWalks, WalksFail, CutWalk
<1>2. UNCHANGED <<m_batch_size, epoch, m_current_batch_idx, m_total_batches, batch, uses, trained>>
  BY DEF GenerateWalks, WalksFail, CutWalk, loaderVars
<1>3. phase' = "contexts" => epoch < Epochs
  BY DEF GenerateWalks, WalksFail, CutWalk, LoaderInv
<1>4. /\ walks' \in Seq(Seq(Vertices)) /\ sequence' \in 0 .. Len(walks')
      /\ m_contexts' \in Seq(Seq(Vertices))
  <2>1. CASE GenerateWalks
    <3> DEFINE n == NumVertices * WalksPerVertex
    <3>1. n \in Nat
      BY Sizes
    <3> HIDE DEF n
    <3>2. walks' \in [1 .. n -> Seq(Vertices)]
      BY <2>1, WalksAssumption DEF GenerateWalks, n
    <3>3. walks' \in Seq(Seq(Vertices))
      BY <3>1, <3>2
    <3>. QED BY <2>1, <3>3 DEF GenerateWalks
  <2>2. CASE WalksFail
    BY <2>2 DEF WalksFail, loaderVars, LoaderInv, TypeOK
  <2>3. CASE CutWalk
    <3>1. walks \in Seq(Seq(Vertices)) /\ sequence \in 0 .. Len(walks) /\ m_contexts \in Seq(Seq(Vertices))
      BY DEF LoaderInv, TypeOK
    <3>2. sequence' \in 1 .. Len(walks) /\ walks' = walks
      BY <2>3, <3>1 DEF CutWalk
    <3>3. walks[sequence'] \in Seq(Vertices)
      BY <3>1, <3>2
    <3>4. Windows(walks[sequence']) \in Seq(Seq(Vertices)) /\ << >> \in Seq(Seq(Vertices))
      BY <3>3, WindowsType
    <3> DEFINE added == IF walks[sequence'] = << >> THEN << >> ELSE Windows(walks[sequence'])
    <3>5. added \in Seq(Seq(Vertices))
      BY <3>4
    <3>6. m_contexts' = m_contexts \o added
      BY <2>3 DEF CutWalk
    <3> HIDE DEF added
    <3>7. m_contexts' \in Seq(Seq(Vertices))
      BY <3>1, <3>5, <3>6
    <3>. QED BY <3>1, <3>2, <3>7
  <2>. QED BY <2>1, <2>2, <2>3
<1>5. TypeOK'
  BY <1>1, <1>2, <1>4 DEF LoaderInv, TypeOK
<1>. QED BY <1>1, <1>2, <1>3, <1>5 DEF LoaderInv, BatchesCoverEpoch

(* The end of reset: nothing of the new epoch has been used.                *)
LEMMA ResetPreservesLoaderInv ==
  ASSUME LoaderInv, FinishReset
  PROVE  LoaderInv'
<1>1. m_batch_size \in BatchSizes /\ m_contexts \in Seq(Seq(Vertices)) /\ phase = "contexts"
  BY DEF LoaderInv, TypeOK, FinishReset
<1>2. /\ m_contexts' = m_contexts /\ m_batch_size' = m_batch_size /\ epoch' = epoch
      /\ m_current_batch_idx' = 0 /\ m_total_batches' = TotalBatches /\ phase' = "batches"
      /\ uses' = [i \in DOMAIN m_contexts |-> 0] /\ walks' = walks /\ sequence' = sequence
      /\ batch' = batch /\ trained' = [p \in Vertices \X Vertices |-> 0]
  BY DEF FinishReset
<1>3. BatchLength' = BatchLength /\ TotalBatches' = TotalBatches
  BY <1>2 DEF BatchLength, TotalBatches
<1>4. BatchLength \in Nat /\ TotalBatches \in Nat
  BY <1>1, BatchLengthType, BatchesAreEnough
<1>5. 0 < TotalBatches <=> 0 * BatchLength < Len(m_contexts)
  BY <1>1, BatchesAreEnough
<1>6. TypeOK'
  BY <1>1, <1>2, <1>4 DEF LoaderInv, TypeOK
<1>7. BatchesCoverEpoch'
  <2>1. 0 * BatchLength = 0
    BY <1>4
  <2>. QED BY <1>1, <1>2, <1>3, <1>4, <1>5, <2>1 DEF BatchesCoverEpoch, has_next
<1>. QED BY <1>1, <1>2, <1>3, <1>6, <1>7 DEF LoaderInv

(* The contexts of the next batch: the next ones in order, and some.        *)
LEMMA BatchRangeFacts ==
  ASSUME LoaderInv, phase = "batches", has_next
  PROVE  /\ BatchRange # {}
         /\ BatchRange \subseteq 1 .. Len(m_contexts)
         /\ \A i \in 1 .. Len(m_contexts) :
              i \in BatchRange <=> /\ m_current_batch_idx * BatchLength < i
                                  /\ i <= (m_current_batch_idx + 1) * BatchLength
         /\ m_current_batch_idx * BatchLength \in Nat
         /\ m_current_batch_idx * BatchLength <= (m_current_batch_idx + 1) * BatchLength
<1> DEFINE b == BatchLength
           n == Len(m_contexts)
           k == m_current_batch_idx
<1>1. m_contexts \in Seq(Seq(Vertices)) /\ k \in Nat /\ n \in Nat /\ k * b < n
  BY DEF LoaderInv, TypeOK, BatchesCoverEpoch
<1>2. b \in Nat
  BY BatchLengthType DEF LoaderInv, TypeOK
<1>3. b \in Nat \ {0}
  <2>1. CASE b = 0
    <3>1. m_contexts = << >>
      BY <2>1, BatchLengthType DEF LoaderInv, TypeOK
    <3>2. k * b \in Nat
      BY <1>1, <1>2
    <3>. QED BY <1>1, <3>1, <3>2
  <2>. QED BY <1>2, <2>1
<1>4. BatchRange = k * b + 1 .. Smaller(k * b + b, n)
  BY DEF BatchRange
<1> HIDE DEF b, n, k
<1>5. k * b \in Nat /\ (k + 1) * b = k * b + b
  BY <1>1, <1>2
<1>6. /\ BatchRange # {} /\ BatchRange \subseteq 1 .. n
      /\ \A i \in 1 .. n : i \in BatchRange <=> k * b < i /\ i <= (k + 1) * b
  <2> DEFINE m == k * b
  <2>1. m \in Nat /\ m < n /\ BatchRange = m + 1 .. Smaller(m + b, n) /\ (k + 1) * b = m + b
    BY <1>1, <1>4, <1>5
  <2> HIDE DEF m
  <2>2. m + 1 \in BatchRange
    BY <1>1, <1>3, <2>1 DEF Smaller
  <2>3. BatchRange \subseteq 1 .. n
    BY <1>1, <1>3, <2>1 DEF Smaller
  <2>4. \A i \in 1 .. n : i \in BatchRange <=> m < i /\ i <= m + b
    BY <1>1, <1>3, <2>1 DEF Smaller
  <2>. QED BY <2>1, <2>2, <2>3, <2>4 DEF m
<1>7. k * b <= (k + 1) * b
  BY <1>2, <1>5
<1>. QED BY <1>5, <1>6, <1>7 DEF b, n, k

(* One batch: the counters move past exactly the contexts that were used.   *)
LEMMA BatchPreservesLoaderInv ==
  ASSUME LoaderInv, TrainBatch
  PROVE  LoaderInv'
<1> DEFINE b == BatchLength
           k == m_current_batch_idx
           n == Len(m_contexts)
<1>1. phase = "batches" /\ has_next
  BY DEF TrainBatch
<1>2. /\ m_contexts' = m_contexts /\ m_batch_size' = m_batch_size /\ epoch' = epoch
      /\ m_current_batch_idx' = k + 1 /\ m_total_batches' = m_total_batches /\ phase' = phase
      /\ uses' = [i \in DOMAIN uses |-> IF i \in BatchRange THEN uses[i] + 1 ELSE uses[i]]
      /\ walks' = walks /\ sequence' = sequence
      /\ batch' = generate_training_pairs(BatchRange)
  BY DEF TrainBatch
<1>3. BatchLength' = b /\ TotalBatches' = TotalBatches
  BY <1>2 DEF BatchLength, TotalBatches
<1>4. /\ m_contexts \in Seq(Seq(Vertices)) /\ k \in Nat /\ n \in Nat /\ b \in Nat
      /\ m_total_batches = TotalBatches /\ TotalBatches \in Nat /\ m_batch_size \in BatchSizes
      /\ DOMAIN uses = 1 .. n
  BY <1>1, BatchLengthType, BatchesAreEnough DEF LoaderInv, TypeOK, BatchesCoverEpoch
<1>5. k + 1 < TotalBatches <=> (k + 1) * b < n
  <2>1. k + 1 \in Nat
    BY <1>4
  <2>. QED BY <1>4, <2>1, BatchesAreEnough
<1>6. k + 1 <= TotalBatches
  BY <1>1, <1>4 DEF has_next
<1>7. \A i \in 1 .. n : uses'[i] = IF i <= (k + 1) * b THEN 1 ELSE 0
  <2>1. ASSUME NEW i \in 1 .. n
        PROVE  uses'[i] = IF i <= (k + 1) * b THEN 1 ELSE 0
    <3>1. uses'[i] = IF i \in BatchRange THEN uses[i] + 1 ELSE uses[i]
      BY <1>2, <1>4
    <3>2. uses[i] = IF i <= k * b THEN 1 ELSE 0
      BY <1>1, <1>4 DEF LoaderInv, BatchesCoverEpoch
    <3>3. i \in BatchRange <=> k * b < i /\ i <= (k + 1) * b
      BY <1>1, BatchRangeFacts
    <3>4. k * b \in Nat /\ k * b <= (k + 1) * b /\ (k + 1) * b \in Nat
      BY <1>1, <1>4, BatchRangeFacts
    <3> HIDE DEF k, b, n
    <3>. QED BY <3>1, <3>2, <3>3, <3>4
  <2>. QED BY <2>1
<1>8. BatchesCoverEpoch'
  BY <1>1, <1>2, <1>3, <1>4, <1>5, <1>6, <1>7 DEF BatchesCoverEpoch, has_next
<1>9. BatchRange \in SUBSET (1 .. n)
  BY <1>1, BatchRangeFacts
<1>10. /\ DOMAIN batch' \subseteq Nat \X Nat
       /\ \A s \in DOMAIN batch' : batch'[s] \in RowType
  BY <1>2, <1>4, <1>9, RowsType
<1>11. trained' \in [Vertices \X Vertices -> Nat]
  <2>1. IsFiniteSet(DOMAIN batch')
    BY <1>2, <1>4, <1>9, RowsType, SlotsFinite
  <2>2. ASSUME NEW p \in Vertices \X Vertices
        PROVE  trained[p] + Cardinality({s \in DOMAIN batch' :
                              <<batch'[s].source, batch'[s].target>> = p}) \in Nat
    <3> DEFINE Hits == {s \in DOMAIN batch' : <<batch'[s].source, batch'[s].target>> = p}
    <3>1. Cardinality(Hits) \in Nat
      BY <2>1, FS_Subset, FS_CardinalityType
    <3>2. trained[p] \in Nat
      BY DEF LoaderInv, TypeOK
    <3>. QED BY <3>1, <3>2
  <2>. QED BY <2>2 DEF TrainBatch
<1>12. \A i \in DOMAIN uses' : uses'[i] \in {0, 1}
  BY <1>2, <1>4, <1>7
<1>13. DOMAIN uses' = 1 .. n
  BY <1>2, <1>4
<1>14. TypeOK'
  BY <1>1, <1>2, <1>4, <1>10, <1>11, <1>12, <1>13 DEF LoaderInv, TypeOK, RowType
<1>. QED BY <1>1, <1>2, <1>3, <1>4, <1>8, <1>14 DEF LoaderInv

(* When no batch is left, every context has been used.                      *)
LEMMA EndOfEpoch ==
  ASSUME LoaderInv, phase = "batches", ~has_next
  PROVE  \A i \in DOMAIN uses : uses[i] = 1
<1> DEFINE m == m_current_batch_idx * BatchLength
<1>1. m \in Nat /\ Len(m_contexts) \in Nat /\ DOMAIN m_contexts = 1 .. Len(m_contexts)
  <2>1. m_current_batch_idx \in Nat /\ BatchLength \in Nat
    BY BatchLengthType DEF LoaderInv, TypeOK
  <2>. QED BY <2>1 DEF LoaderInv, TypeOK
<1>2. ~(m < Len(m_contexts)) /\ DOMAIN uses = DOMAIN m_contexts
  BY DEF LoaderInv, BatchesCoverEpoch
<1>3. \A i \in DOMAIN uses : uses[i] = IF i <= m THEN 1 ELSE 0
  BY DEF LoaderInv, BatchesCoverEpoch
<1> HIDE DEF m
<1>. QED BY <1>1, <1>2, <1>3

LEMMA EndPreservesLoaderInv ==
  ASSUME LoaderInv, EndEpoch
  PROVE  LoaderInv'
<1>1. \A i \in DOMAIN uses : uses[i] = 1
  BY EndOfEpoch DEF EndEpoch
<1>2. epoch + 1 \in 0 .. Epochs
  BY Sizes DEF LoaderInv, TypeOK, EndEpoch
<1>. QED BY <1>1, <1>2 DEF EndEpoch, loaderVars, LoaderInv, TypeOK, BatchesCoverEpoch

LEMMA StutterPreservesLoaderInv ==
  ASSUME LoaderInv, UNCHANGED vars
  PROVE  LoaderInv'
BY DEF vars, loaderVars, LoaderInv, TypeOK, BatchesCoverEpoch, has_next, BatchLength, TotalBatches

-----------------------------------------------------------------------------
(* The theorems.                                                           *)

(* The inductive invariant holds throughout every training.                 *)
THEOREM LoaderInvariance == Spec => []LoaderInv
<1>1. ASSUME LoaderInv, [Next]_vars PROVE LoaderInv'
  BY <1>1, WalksPreserveLoaderInv, ResetPreservesLoaderInv, BatchPreservesLoaderInv,
     EndPreservesLoaderInv, StutterPreservesLoaderInv DEF Next, Ended
<1>. QED BY InitEstablishesLoaderInv, <1>1, PTL DEF Spec

(* Every variable of the training keeps its type: the rows of a batch name  *)
(* vertices of the graph only, computed negative samples included.          *)
THEOREM TrainingTypeCorrectness == Spec => []TypeOK
<1>1. LoaderInv => TypeOK
  BY DEF LoaderInv
<1>. QED BY LoaderInvariance, <1>1, PTL

(* DataLoader's counters never lose or repeat a context of an epoch,        *)
(* whatever the batch size.                                                 *)
THEOREM BatchesCoverEveryEpoch == Spec => []BatchesCoverEpoch
<1>1. LoaderInv => BatchesCoverEpoch
  BY DEF LoaderInv
<1>. QED BY LoaderInvariance, <1>1, PTL

(* The trainer, the loader and the generators implement TrainingEpochs.     *)
THEOREM TrainingRefinement == Spec => ImplementsTrainingEpochs
<1>1. Init => Abstract!EpochsInit
  BY DEF Init, Abstract!EpochsInit
<1>2. ASSUME LoaderInv, LoaderInv', [Next]_vars
      PROVE  [Abstract!EpochsNext]_(Abstract!epochVars)
  <2> DEFINE begun == IF phase = "batches" THEN epoch + 1 ELSE epoch
  <2>1. CASE GenerateWalks \/ WalksFail \/ CutWalk
    BY <2>1 DEF GenerateWalks, WalksFail, CutWalk, Abstract!epochVars
  <2>2. CASE FinishReset
    <3>1. phase = "contexts" /\ phase' = "batches" /\ epoch' = epoch
      BY <2>2 DEF FinishReset
    <3>2. epoch < Epochs /\ \A i \in DOMAIN uses : uses[i] = 1
      BY <1>2, <3>1 DEF LoaderInv
    <3>3. uses' = [i \in DOMAIN uses' |-> 0]
      BY <2>2 DEF FinishReset
    <3>4. Abstract!BeginEpoch
      BY <3>1, <3>2, <3>3 DEF Abstract!BeginEpoch
    <3>. QED BY <3>4 DEF Abstract!EpochsNext
  <2>3. CASE TrainBatch
    <3>1. phase = "batches" /\ phase' = "batches" /\ has_next /\ epoch' = epoch
      BY <2>3 DEF TrainBatch
    <3>2. DOMAIN uses = 1 .. Len(m_contexts)
      BY <1>2, <3>1 DEF LoaderInv, BatchesCoverEpoch, TypeOK
    <3>3. BatchRange \in SUBSET DOMAIN uses /\ BatchRange # {}
      BY <1>2, <3>1, <3>2, BatchRangeFacts
    <3>4. \A i \in BatchRange : uses[i] = 0
      <4>1. \A i \in 1 .. Len(m_contexts) :
              uses[i] = IF i <= m_current_batch_idx * BatchLength THEN 1 ELSE 0
        BY <1>2, <3>1, <3>2 DEF LoaderInv, BatchesCoverEpoch
      <4>2. \A i \in BatchRange : ~(i <= m_current_batch_idx * BatchLength)
        <5> DEFINE m == m_current_batch_idx * BatchLength
        <5>1. m \in Nat /\ \A i \in BatchRange : m < i /\ i \in Nat
          BY <1>2, <3>1, BatchRangeFacts
        <5> HIDE DEF m
        <5>2. \A i \in BatchRange : ~(i <= m)
          BY <5>1
        <5>. QED BY <5>2 DEF m
      <4>. QED BY <3>2, <3>3, <4>1, <4>2
    <3>5. uses' = [i \in DOMAIN uses |-> IF i \in BatchRange THEN 1 ELSE uses[i]]
      <4>1. uses' = [i \in DOMAIN uses |-> IF i \in BatchRange THEN uses[i] + 1 ELSE uses[i]]
        BY <2>3 DEF TrainBatch
      <4>2. \A i \in BatchRange : uses[i] + 1 = 1
        BY <3>4
      <4>. QED BY <4>1, <4>2
    <3>6. Abstract!Use
      BY <3>1, <3>3, <3>4, <3>5 DEF Abstract!Use
    <3>. QED BY <3>6 DEF Abstract!EpochsNext
  <2>4. CASE EndEpoch
    BY <2>4 DEF EndEpoch, Abstract!epochVars
  <2>5. CASE UNCHANGED vars
    BY <2>5 DEF vars, Abstract!epochVars
  <2>. QED BY <1>2, <2>1, <2>2, <2>3, <2>4, <2>5 DEF Next, Ended
<1>. QED BY LoaderInvariance, <1>1, <1>2, PTL DEF Spec, ImplementsTrainingEpochs, Abstract!EpochsSpec

(* A pair's target is not among its own negative samples when there are     *)
(* fewer samples than vertices: neither drawn nor computed.                 *)
LEMMA NegativesAvoidTarget ==
  ASSUME NEW source \in Vertices, NEW target \in Vertices,
         NEW j \in 0 .. NumNegativeSamples - 1, NumNegativeSamples < NumVertices
  PROVE  target \notin Negatives(source, target, j)
<1>1. (target + (j + 1)) % NumVertices # target
  <2>1. NumVertices \in Nat \ {0} /\ target \in 0 .. NumVertices - 1
    BY Sizes DEF Vertices
  <2>2. j + 1 \in 1 .. NumVertices - 1
    BY Sizes
  <2>. QED BY <2>1, <2>2, ShiftedRemainder
<1>2. target + (j + 1) = target + j + 1
  BY DEF Vertices
<1>3. Fallback(target, j) # target
  BY <1>1, <1>2 DEF Fallback
<1>. QED BY <1>3 DEF Negatives

(* The negatives of a row are those of its pair.                            *)
RowsInv ==
  \A s \in DOMAIN batch :
    batch[s].negatives =
      [j \in 0 .. NumNegativeSamples - 1 |-> Negatives(batch[s].source, batch[s].target, j)]

LEMMA NextPreservesRowsInv ==
  ASSUME RowsInv, [Next]_vars
  PROVE  RowsInv'
<1>1. CASE TrainBatch
  <2>1. batch' = generate_training_pairs(BatchRange)
    BY <1>1 DEF TrainBatch
  <2>2. \A s \in DOMAIN generate_training_pairs(BatchRange) :
          LET row == generate_training_pairs(BatchRange)[s]
          IN  row.negatives =
                [j \in 0 .. NumNegativeSamples - 1 |-> Negatives(row.source, row.target, j)]
    BY DEF generate_training_pairs
  <2>. QED BY <2>1, <2>2 DEF RowsInv, Negatives, Fallback
<1>2. CASE UNCHANGED batch
  BY <1>2 DEF RowsInv, Negatives, Fallback
<1>. QED BY <1>1, <1>2 DEF Next, GenerateWalks, WalksFail, CutWalk, FinishReset, EndEpoch, Ended, vars

(* No pair's target can be its own negative sample, unless as many samples  *)
(* are asked for as there are vertices.                                     *)
THEOREM NegativesDiffer == Spec => []TargetsAreNotNegatives
<1>1. Init => RowsInv
  BY DEF Init, NoRows, RowsInv
<1>2. TypeOK /\ RowsInv => TargetsAreNotNegatives
  <2>1. SUFFICES ASSUME TypeOK, RowsInv, NEW s \in DOMAIN batch,
                        NEW j \in DOMAIN batch[s].negatives,
                        batch[s].target \in batch[s].negatives[j]
                 PROVE  NumNegativeSamples >= NumVertices
    BY DEF TargetsAreNotNegatives
  <2>2. /\ batch[s].source \in Vertices /\ batch[s].target \in Vertices
        /\ j \in 0 .. NumNegativeSamples - 1
    BY <2>1 DEF TypeOK
  <2>3. batch[s].negatives[j] = Negatives(batch[s].source, batch[s].target, j)
    BY <2>1, <2>2 DEF RowsInv
  <2>4. ~(NumNegativeSamples < NumVertices)
    BY <2>1, <2>2, <2>3, NegativesAvoidTarget
  <2>. QED BY <2>4, Sizes
<1>. QED BY TrainingTypeCorrectness, NextPreservesRowsInv, <1>1, <1>2, PTL DEF Spec

-----------------------------------------------------------------------------
(* The pairs the model is trained on.                                       *)

\* The rows of the contexts of C at positions P, by context and place in it,
\* and the pair of each.
SlotsAt(C, P) == {s \in P \X Nat : s[2] \in 2 .. Len(C[s[1]])}
PairAt(C, s) == <<C[s[1]][1], C[s[1]][s[2]]>>

\* The pairs of places in the first n walks of W, and the vertices there.
PlacesIn(W, n) == {t \in (1 .. n) \X (Nat \X Nat) : t[2] \in PlacesPaired(W[t[1]])}
PlacedAt(W, t) == <<W[t[1]][t[2][1]], W[t[1]][t[2][2]]>>

\* The contexts C have a row for every pair that the first n walks of W pair.
IsCut(C, W, n) ==
  \E h \in Bijection(SlotsAt(C, DOMAIN C), PlacesIn(W, n)) :
    \A s \in SlotsAt(C, DOMAIN C) : PairAt(C, s) = PlacedAt(W, h[s])

\* The contexts D have a row for every pair of places of the walk.
CutsWalk(D, walk) ==
  \E g \in Bijection(SlotsAt(D, DOMAIN D), PlacesPaired(walk)) :
    \A s \in SlotsAt(D, DOMAIN D) : PairAt(D, s) = <<walk[g[s][1]], walk[g[s][2]]>>

Cut(walk) == IF walk = << >> THEN << >> ELSE Windows(walk)

(* The windows of a walk pair its first place with the others when the walk *)
(* is short, and otherwise every place that starts a full window with the   *)
(* others of that window: each pair of places once.                         *)
LEMMA WindowsPair ==
  ASSUME NEW walk \in Seq(Vertices)
  PROVE  CutsWalk(Cut(walk), walk)
<1> DEFINE D == Cut(walk)
           S == SlotsAt(D, DOMAIN D)
           Place(s) == <<s[1], s[1] + s[2] - 1>>
           g == [s \in S |-> Place(s)]
<1>1. Len(walk) \in Nat /\ DOMAIN walk = 1 .. Len(walk) /\ ContextSize \in Nat \ {0}
  BY Sizes
<1>2. ASSUME NEW c \in Nat, NEW i \in Nat
      PROVE  /\ <<c, i>> \in S <=> i >= 2 /\ c >= 1 /\ <<c, c + i - 1>> \in PlacesPaired(walk)
             /\ <<c, i>> \in S => /\ D[c][1] = walk[c]
                                  /\ D[c][i] = walk[c + i - 1]
  <2>1. CASE walk = << >>
    <3>1. D = << >> /\ DOMAIN walk = {}
      BY <2>1 DEF Cut
    <3>. QED BY <3>1 DEF SlotsAt, PlacesPaired
  <2>2. CASE walk # << >> /\ Len(walk) < ContextSize
    <3>1. D = <<walk>>
      BY <2>2 DEF Cut, Windows
    <3>2. DOMAIN D = {1} /\ D[1] = walk
      BY <3>1
    <3> HIDE DEF D
    <3>3. <<c, i>> \in S <=> c = 1 /\ i \in 2 .. Len(walk)
      BY <3>2 DEF SlotsAt
    <3>4. i >= 2 /\ c >= 1 /\ <<c, c + i - 1>> \in PlacesPaired(walk) <=> c = 1 /\ i \in 2 .. Len(walk)
      BY <1>1, <2>2 DEF PlacesPaired
    <3>5. c = 1 => c + i - 1 = i
      OBVIOUS
    <3> HIDE DEF S
    <3>. QED BY <3>2, <3>3, <3>4, <3>5
  <2>3. CASE walk # << >> /\ ~(Len(walk) < ContextSize)
    <3> DEFINE n == Len(walk) - ContextSize + 1
    <3>1. D = [k \in 1 .. n |-> SubSeq(walk, k, k + ContextSize - 1)] /\ n \in Nat
      BY <1>1, <2>3 DEF Cut, Windows
    <3>2. DOMAIN D = 1 .. n
      BY <3>1
    <3>3. ASSUME NEW k \in 1 .. n
          PROVE  /\ Len(D[k]) = ContextSize
                 /\ \A j \in 1 .. ContextSize : D[k][j] = walk[k + j - 1]
      <4>1. D[k] = SubSeq(walk, k, k + ContextSize - 1)
        BY <3>1
      <4>2. k \in Nat /\ k >= 1 /\ k + ContextSize - 1 <= Len(walk) /\ k + ContextSize - 1 \in Nat
        BY <1>1, <2>3
      <4> HIDE DEF D
      <4>. QED BY <1>1, <4>1, <4>2
    <3> HIDE DEF D
    <3>4. <<c, i>> \in S <=> c \in 1 .. n /\ i \in 2 .. ContextSize
      BY <3>2, <3>3 DEF SlotsAt
    <3>5. i >= 2 /\ c >= 1 /\ <<c, c + i - 1>> \in PlacesPaired(walk)
            <=> c \in 1 .. n /\ i \in 2 .. ContextSize
      BY <1>1, <2>3 DEF PlacesPaired
    <3>6. <<c, i>> \in S => D[c][1] = walk[c] /\ D[c][i] = walk[c + i - 1]
      <4>1. SUFFICES ASSUME <<c, i>> \in S PROVE D[c][1] = walk[c] /\ D[c][i] = walk[c + i - 1]
        OBVIOUS
      <4>2. c \in 1 .. n /\ i \in 1 .. ContextSize /\ 1 \in 1 .. ContextSize /\ c + 1 - 1 = c
        BY <1>1, <3>4, <4>1
      <4> HIDE DEF n, S
      <4>. QED BY <3>3, <4>2
    <3>. QED BY <3>4, <3>5, <3>6
  <2>. QED BY <2>1, <2>2, <2>3
<1>3. \A s \in S : \E c \in Nat, i \in Nat : s = <<c, i>>
  <2>1. \A d \in DOMAIN D : d \in Nat
    <3>1. D \in Seq(Seq(Vertices))
      BY WindowsType DEF Cut
    <3>. QED BY <3>1
  <2>. QED BY <2>1 DEF SlotsAt
<1>4. \A p \in PlacesPaired(walk) :
        \E c \in Nat, i \in Nat : p = <<c, c + i - 1>> /\ i >= 2 /\ c >= 1
  <2>1. ASSUME NEW p \in PlacesPaired(walk)
        PROVE  \E c \in Nat, i \in Nat : p = <<c, c + i - 1>> /\ i >= 2 /\ c >= 1
    <3>1. /\ p = <<p[1], p[2]>> /\ p[1] \in Nat /\ p[2] \in Nat
          /\ p[1] < p[2] /\ p[1] >= 1
      BY <1>1 DEF PlacesPaired
    <3> DEFINE i == p[2] - p[1] + 1
    <3>2. i \in Nat /\ i >= 2 /\ p[1] + i - 1 = p[2]
      BY <3>1
    <3>. QED BY <3>1, <3>2
  <2>. QED BY <2>1
<1> HIDE DEF S, D
<1>5. g \in [S -> PlacesPaired(walk)]
  BY <1>2, <1>3
<1>6. \A s, t \in S : g[s] = g[t] => s = t
  <2> SUFFICES ASSUME NEW s \in S, NEW t \in S, g[s] = g[t] PROVE s = t
    OBVIOUS
  <2>1. PICK c \in Nat, i \in Nat : s = <<c, i>>
    BY <1>3
  <2>2. PICK d \in Nat, j \in Nat : t = <<d, j>>
    BY <1>3
  <2>. QED BY <2>1, <2>2
<1>7. \A p \in PlacesPaired(walk) : \E s \in S : g[s] = p
  <2> SUFFICES ASSUME NEW p \in PlacesPaired(walk) PROVE \E s \in S : g[s] = p
    OBVIOUS
  <2>1. PICK c \in Nat, i \in Nat : p = <<c, c + i - 1>> /\ i >= 2 /\ c >= 1
    BY <1>4
  <2>2. <<c, i>> \in S
    BY <1>2, <2>1
  <2>. QED BY <2>1, <2>2
<1>8. g \in Bijection(S, PlacesPaired(walk))
  BY <1>5, <1>6, <1>7 DEF Bijection, Injection, Surjection, IsInjective
<1>9. \A s \in S : PairAt(D, s) = <<walk[g[s][1]], walk[g[s][2]]>>
  <2> SUFFICES ASSUME NEW s \in S PROVE PairAt(D, s) = <<walk[g[s][1]], walk[g[s][2]]>>
    OBVIOUS
  <2>1. PICK c \in Nat, i \in Nat : s = <<c, i>>
    BY <1>3
  <2>2. D[c][1] = walk[c] /\ D[c][i] = walk[c + i - 1]
    BY <1>2, <2>1
  <2>3. g[s] = <<c, c + i - 1>>
    BY <2>1
  <2>. QED BY <2>1, <2>2, <2>3 DEF PairAt
<1> HIDE DEF g
<1>. QED BY <1>8, <1>9 DEF CutsWalk, S, D

(* Cutting one more walk adds the rows of its windows.                      *)
LEMMA CutOneMore ==
  ASSUME NEW C \in Seq(Seq(Vertices)), NEW D \in Seq(Seq(Vertices)), NEW W, NEW n \in Nat,
         W[n + 1] \in Seq(Vertices), IsCut(C, W, n), CutsWalk(D, W[n + 1])
  PROVE  IsCut(C \o D, W, n + 1)
<1> DEFINE k == Len(C)
           E == C \o D
           SC == SlotsAt(C, DOMAIN C)
           SD == SlotsAt(D, DOMAIN D)
           SE == SlotsAt(E, DOMAIN E)
<1>1. PICK h \in Bijection(SC, PlacesIn(W, n)) : \A s \in SC : PairAt(C, s) = PlacedAt(W, h[s])
  BY DEF IsCut
<1>2. PICK g \in Bijection(SD, PlacesPaired(W[n + 1])) :
        \A s \in SD : PairAt(D, s) = <<W[n + 1][g[s][1]], W[n + 1][g[s][2]]>>
  BY DEF CutsWalk
<1> DEFINE Back(s) == <<s[1] - k, s[2]>>
           hh == [s \in SE |-> IF s[1] <= k THEN h[s] ELSE <<n + 1, g[Back(s)]>>]
<1>3. /\ k \in Nat /\ Len(D) \in Nat /\ DOMAIN C = 1 .. k /\ DOMAIN D = 1 .. Len(D)
      /\ DOMAIN E = 1 .. k + Len(D)
      /\ \A c \in 1 .. k : E[c] = C[c]
      /\ \A c \in 1 .. Len(D) : E[k + c] = D[c]
  OBVIOUS
<1> HIDE DEF E, k
<1>4. ASSUME NEW s \in SE
      PROVE  /\ s[1] <= k => s \in SC /\ PairAt(E, s) = PairAt(C, s)
             /\ ~(s[1] <= k) => Back(s) \in SD /\ PairAt(E, s) = PairAt(D, Back(s))
  <2>1. s = <<s[1], s[2]>> /\ s[1] \in 1 .. k + Len(D) /\ s[2] \in Nat /\ s[2] \in 2 .. Len(E[s[1]])
    BY <1>3 DEF SlotsAt
  <2>2. CASE s[1] <= k
    <3>1. s[1] \in 1 .. k /\ E[s[1]] = C[s[1]]
      BY <1>3, <2>1, <2>2
    <3>. QED BY <1>3, <2>1, <2>2, <3>1 DEF SlotsAt, PairAt
  <2>3. CASE ~(s[1] <= k)
    <3> DEFINE c == s[1] - k
    <3>1. c \in 1 .. Len(D) /\ k + c = s[1]
      BY <1>3, <2>1, <2>3
    <3>2. E[s[1]] = D[c]
      BY <1>3, <3>1
    <3>3. Back(s) = <<c, s[2]>>
      OBVIOUS
    <3> HIDE DEF c
    <3>4. <<c, s[2]>> \in SD
      BY <1>3, <2>1, <3>1, <3>2 DEF SlotsAt
    <3>. QED BY <2>3, <3>2, <3>3, <3>4 DEF PairAt
  <2>. QED BY <2>2, <2>3
<1>5. \A s \in SC : s \in SE /\ s[1] <= k
  <2> SUFFICES ASSUME NEW s \in SC PROVE s \in SE /\ s[1] <= k
    OBVIOUS
  <2>1. s = <<s[1], s[2]>> /\ s[1] \in 1 .. k /\ s[2] \in Nat /\ s[2] \in 2 .. Len(C[s[1]])
    BY <1>3 DEF SlotsAt
  <2>2. E[s[1]] = C[s[1]] /\ s[1] \in 1 .. k + Len(D) /\ s[1] <= k
    BY <1>3, <2>1
  <2>. QED BY <1>3, <2>1, <2>2 DEF SlotsAt
<1>6. \A s \in SD : LET r == <<k + s[1], s[2]>> IN r \in SE /\ ~(r[1] <= k) /\ Back(r) = s
  <2> SUFFICES ASSUME NEW s \in SD
               PROVE  LET r == <<k + s[1], s[2]>> IN r \in SE /\ ~(r[1] <= k) /\ Back(r) = s
    OBVIOUS
  <2>1. s = <<s[1], s[2]>> /\ s[1] \in 1 .. Len(D) /\ s[2] \in Nat /\ s[2] \in 2 .. Len(D[s[1]])
    BY <1>3 DEF SlotsAt
  <2>2. E[k + s[1]] = D[s[1]]
    BY <1>3, <2>1
  <2>3. k + s[1] \in 1 .. k + Len(D) /\ ~(k + s[1] <= k) /\ k + s[1] - k = s[1]
    <3>1. \A c \in 1 .. Len(D) : k + c \in 1 .. k + Len(D) /\ ~(k + c <= k) /\ k + c - k = c
      BY <1>3
    <3>. QED BY <2>1, <3>1
  <2>. QED BY <1>3, <2>1, <2>2, <2>3 DEF SlotsAt
<1>7. /\ \A t \in PlacesIn(W, n) : t \in PlacesIn(W, n + 1) /\ t[1] # n + 1
      /\ \A p \in PlacesPaired(W[n + 1]) : <<n + 1, p>> \in PlacesIn(W, n + 1)
      /\ \A t \in PlacesIn(W, n + 1) : \/ t \in PlacesIn(W, n)
                                       \/ t[1] = n + 1 /\ t[2] \in PlacesPaired(W[n + 1])
                                          /\ t = <<n + 1, t[2]>>
  <2>1. \A t \in PlacesIn(W, n) : t \in PlacesIn(W, n + 1) /\ t[1] # n + 1
    BY DEF PlacesIn
  <2>2. \A t \in PlacesIn(W, n + 1) : \/ t \in PlacesIn(W, n)
                                      \/ t[1] = n + 1 /\ t[2] \in PlacesPaired(W[n + 1])
                                         /\ t = <<n + 1, t[2]>>
    BY DEF PlacesIn
  <2>3. \A p \in PlacesPaired(W[n + 1]) : p \in Nat \X Nat
    <3>1. DOMAIN W[n + 1] \subseteq Nat
      OBVIOUS
    <3>. QED BY <3>1 DEF PlacesPaired
  <2>. QED BY <2>1, <2>2, <2>3 DEF PlacesIn
<1> HIDE DEF SC, SD, SE
<1>8. /\ h \in [SC -> PlacesIn(W, n)]
      /\ \A s, t \in SC : h[s] = h[t] => s = t
      /\ \A t \in PlacesIn(W, n) : \E s \in SC : h[s] = t
  BY DEF Bijection, Injection, Surjection, IsInjective
<1>9. /\ g \in [SD -> PlacesPaired(W[n + 1])]
      /\ \A s, t \in SD : g[s] = g[t] => s = t
      /\ \A p \in PlacesPaired(W[n + 1]) : \E s \in SD : g[s] = p
  BY DEF Bijection, Injection, Surjection, IsInjective
<1>10. ASSUME NEW s \in SE
       PROVE  /\ hh[s] \in PlacesIn(W, n + 1)
              /\ hh[s][1] = n + 1 <=> ~(s[1] <= k)
              /\ PairAt(E, s) = PlacedAt(W, hh[s])
  <2>1. CASE s[1] <= k
    <3>1. hh[s] = h[s] /\ h[s] \in PlacesIn(W, n) /\ PairAt(E, s) = PairAt(C, s) /\ s \in SC
      BY <1>4, <1>8, <2>1
    <3>. QED BY <1>1, <1>7, <2>1, <3>1
  <2>2. CASE ~(s[1] <= k)
    <3>1. /\ hh[s] = <<n + 1, g[Back(s)]>> /\ g[Back(s)] \in PlacesPaired(W[n + 1])
          /\ PairAt(E, s) = PairAt(D, Back(s)) /\ Back(s) \in SD
      BY <1>4, <1>9, <2>2
    <3> HIDE DEF Back, hh
    <3>2. PairAt(E, s) = <<W[n + 1][g[Back(s)][1]], W[n + 1][g[Back(s)][2]]>>
      BY <1>2, <3>1
    <3>. QED BY <1>7, <2>2, <3>1, <3>2 DEF PlacedAt
  <2>. QED BY <2>1, <2>2
<1>11. \A s, t \in SE : hh[s] = hh[t] => s = t
  <2> SUFFICES ASSUME NEW s \in SE, NEW t \in SE, hh[s] = hh[t] PROVE s = t
    OBVIOUS
  <2>1. CASE s[1] <= k
    <3>1. t[1] <= k
      BY <1>10, <2>1
    <3>. QED BY <1>4, <1>8, <2>1, <3>1
  <2>2. CASE ~(s[1] <= k)
    <3>1. ~(t[1] <= k)
      BY <1>10, <2>2
    <3>2. g[Back(s)] = g[Back(t)] /\ Back(s) \in SD /\ Back(t) \in SD
      BY <1>4, <2>2, <3>1
    <3>3. Back(s) = Back(t)
      BY <1>9, <3>2
    <3>4. s = <<s[1], s[2]>> /\ t = <<t[1], t[2]>> /\ s[1] \in Nat /\ t[1] \in Nat
      <4>1. \A r \in SE : r = <<r[1], r[2]>> /\ r[1] \in DOMAIN E
        BY DEF SE, SlotsAt
      <4>2. \A c \in DOMAIN E : c \in Nat
        BY <1>3
      <4>. QED BY <4>1, <4>2
    <3>5. s[1] - k = t[1] - k /\ s[2] = t[2]
      BY <3>3
    <3>6. s[1] = t[1]
      BY <1>3, <3>4, <3>5
    <3>. QED BY <3>4, <3>5, <3>6
  <2>. QED BY <2>1, <2>2
<1>12. \A t \in PlacesIn(W, n + 1) : \E s \in SE : hh[s] = t
  <2> SUFFICES ASSUME NEW t \in PlacesIn(W, n + 1) PROVE \E s \in SE : hh[s] = t
    OBVIOUS
  <2>1. CASE t \in PlacesIn(W, n)
    <3>1. PICK s \in SC : h[s] = t
      BY <1>8, <2>1
    <3>2. s \in SE /\ hh[s] = t
      BY <1>5, <3>1
    <3>. QED BY <3>2
  <2>2. CASE t[2] \in PlacesPaired(W[n + 1]) /\ t = <<n + 1, t[2]>>
    <3>1. PICK s \in SD : g[s] = t[2]
      BY <1>9, <2>2
    <3> DEFINE r == <<k + s[1], s[2]>>
    <3>2. r \in SE /\ ~(r[1] <= k) /\ Back(r) = s
      BY <1>6
    <3> HIDE DEF r
    <3>3. hh[r] = <<n + 1, g[s]>>
      BY <3>2
    <3>. QED BY <2>2, <3>1, <3>2, <3>3
  <2>. QED BY <1>7, <2>1, <2>2
<1>13. hh \in [SE -> PlacesIn(W, n + 1)]
  BY <1>10
<1>14. hh \in Bijection(SE, PlacesIn(W, n + 1))
  <2> HIDE DEF hh
  <2>. QED BY <1>11, <1>12, <1>13 DEF Bijection, Injection, Surjection, IsInjective
<1> HIDE DEF hh
<1>. QED BY <1>10, <1>14 DEF IsCut, E, SE

\* The rows of the contexts of C at positions P whose pair is p, and the
\* places of the walks that pair it.
TrainedOn(C, P, p) == {s \in SlotsAt(C, P) : PairAt(C, s) = p}
PairedIn(W, n, p) == {t \in PlacesIn(W, n) : PlacedAt(W, t) = p}

Used == {i \in DOMAIN m_contexts : i <= m_current_batch_idx * BatchLength}

\* What has been cut are the pairs of the walks, and what has been trained
\* the rows of the contexts that were used.
PairsInv ==
  /\ phase = "contexts" => IsCut(m_contexts, walks, sequence)
  /\ phase = "batches" =>
       /\ IsCut(m_contexts, walks, Len(walks))
       /\ \A p \in Vertices \X Vertices : trained[p] = Cardinality(TrainedOn(m_contexts, Used, p))

(* Before the first walk is cut there are neither contexts nor places.      *)
LEMMA NothingCut == ASSUME NEW W PROVE IsCut(<< >>, W, 0)
<1>1. SlotsAt(<< >>, DOMAIN << >>) = {} /\ PlacesIn(W, 0) = {}
  BY DEF SlotsAt, PlacesIn
<1>2. [s \in {} |-> s] \in Bijection({}, {})
  BY DEF Bijection, Injection, Surjection, IsInjective
<1>. QED BY <1>1, <1>2 DEF IsCut

(* Cutting a walk.                                                          *)
LEMMA CutWalkKeepsPairsInv ==
  ASSUME LoaderInv, PairsInv, CutWalk
  PROVE  PairsInv'
<1>1. /\ m_contexts \in Seq(Seq(Vertices)) /\ walks \in Seq(Seq(Vertices)) /\ sequence \in Nat
      /\ sequence < Len(walks) /\ phase = "contexts"
  BY DEF LoaderInv, TypeOK, CutWalk
<1>2. PICK D : D = Cut(walks[sequence + 1])
  OBVIOUS
<1>3. /\ phase' = "contexts" /\ walks' = walks /\ sequence' = sequence + 1
      /\ m_contexts' = m_contexts \o D
  BY <1>1, <1>2 DEF CutWalk, Cut
<1>4. walks[sequence + 1] \in Seq(Vertices)
  BY <1>1
<1>5. D \in Seq(Seq(Vertices)) /\ CutsWalk(D, walks[sequence + 1])
  BY <1>2, <1>4, WindowsType, WindowsPair DEF Cut
<1>6. IsCut(m_contexts, walks, sequence)
  BY <1>1 DEF PairsInv
<1>7. IsCut(m_contexts \o D, walks, sequence + 1)
  BY <1>1, <1>4, <1>5, <1>6, CutOneMore
<1>. QED BY <1>3, <1>7 DEF PairsInv

(* The end of reset: no context is used, and no pair trained.               *)
LEMMA ResetKeepsPairsInv ==
  ASSUME LoaderInv, PairsInv, FinishReset
  PROVE  PairsInv'
<1>1. /\ phase = "contexts" /\ phase' = "batches" /\ sequence = Len(walks)
      /\ m_contexts' = m_contexts /\ walks' = walks /\ m_batch_size' = m_batch_size
      /\ m_current_batch_idx' = 0
      /\ \A p \in Vertices \X Vertices : trained'[p] = 0
  BY DEF FinishReset
<1>2. IsCut(m_contexts', walks', Len(walks'))
  BY <1>1 DEF PairsInv
<1>3. Used' = {}
  <2>1. BatchLength' \in Nat /\ DOMAIN m_contexts = 1 .. Len(m_contexts) /\ Len(m_contexts) \in Nat
    BY <1>1, BatchLengthType DEF LoaderInv, TypeOK, BatchLength
  <2>2. 0 * BatchLength' = 0
    <3>1. \A b \in Nat : 0 * b = 0
      OBVIOUS
    <3>. QED BY <2>1, <3>1
  <2>. QED BY <1>1, <2>1, <2>2 DEF Used
<1>4. \A C, p : TrainedOn(C, {}, p) = {}
  BY DEF TrainedOn, SlotsAt
<1>5. \A C, p : Cardinality(TrainedOn(C, {}, p)) = 0
  BY <1>4, FS_EmptySet
<1>. QED BY <1>1, <1>2, <1>3, <1>5 DEF PairsInv

(* The rows of some contexts and of others.                                 *)
LEMMA TrainedUnion ==
  ASSUME NEW C, NEW P, NEW Q, NEW p, P \cap Q = {},
         IsFiniteSet(SlotsAt(C, P)), IsFiniteSet(SlotsAt(C, Q))
  PROVE  /\ Cardinality(TrainedOn(C, P \cup Q, p))
              = Cardinality(TrainedOn(C, P, p)) + Cardinality(TrainedOn(C, Q, p))
<1> DEFINE S == TrainedOn(C, P, p)
           T == TrainedOn(C, Q, p)
<1>1. TrainedOn(C, P \cup Q, p) = S \cup T
  BY DEF TrainedOn, SlotsAt
<1>2. S \cap T = {}
  BY DEF TrainedOn, SlotsAt
<1>3. IsFiniteSet(S) /\ IsFiniteSet(T)
  <2>1. S \subseteq SlotsAt(C, P) /\ T \subseteq SlotsAt(C, Q)
    BY DEF TrainedOn
  <2>. QED BY <2>1, FS_Subset
<1> HIDE DEF S, T
<1>4. Cardinality(S \cap T) = 0
  BY <1>2, FS_EmptySet
<1>5. /\ Cardinality(S) \in Nat /\ Cardinality(T) \in Nat
      /\ Cardinality(S \cup T) = Cardinality(S) + Cardinality(T) - Cardinality(S \cap T)
  BY <1>3, FS_Union, FS_CardinalityType
<1>6. Cardinality(S \cup T) = Cardinality(S) + Cardinality(T)
  BY <1>4, <1>5
<1>. QED BY <1>1, <1>6 DEF S, T

(* The rows generate_training_pairs makes for some contexts.                *)
LEMMA RowsAreSlots ==
  ASSUME m_contexts \in Seq(Seq(Vertices)), NEW P \in SUBSET (1 .. Len(m_contexts))
  PROVE  /\ SlotsAt(m_contexts, P) = Slots(P)
         /\ IsFiniteSet(SlotsAt(m_contexts, P))
         /\ \A p : {s \in DOMAIN generate_training_pairs(P) :
                      <<generate_training_pairs(P)[s].source, generate_training_pairs(P)[s].target>> = p}
                   = TrainedOn(m_contexts, P, p)
<1>1. SlotsAt(m_contexts, P) = Slots(P)
  <2>1. \A c \in P : Len(m_contexts[c]) \in Nat
    OBVIOUS
  <2>2. ASSUME NEW s \in SlotsAt(m_contexts, P) PROVE s \in Slots(P)
    <3>1. s = <<s[1], s[2]>> /\ s[1] \in P /\ s[2] \in 2 .. Len(m_contexts[s[1]])
      BY DEF SlotsAt
    <3>2. s \in {<<s[1], i>> : i \in 2 .. Len(m_contexts[s[1]])}
      BY <3>1
    <3>. QED BY <3>1, <3>2 DEF Slots
  <2>3. ASSUME NEW s \in Slots(P) PROVE s \in SlotsAt(m_contexts, P)
    <3>1. PICK c \in P : s \in {<<c, i>> : i \in 2 .. Len(m_contexts[c])}
      BY DEF Slots
    <3>2. PICK i \in 2 .. Len(m_contexts[c]) : s = <<c, i>>
      BY <3>1
    <3>3. i \in Nat
      BY <2>1, <3>1
    <3>. QED BY <3>2, <3>3 DEF SlotsAt
  <2>. QED BY <2>2, <2>3
<1>2. IsFiniteSet(Slots(P))
  BY SlotsFinite
<1>3. \A s \in Slots(P) : <<generate_training_pairs(P)[s].source, generate_training_pairs(P)[s].target>>
                            = PairAt(m_contexts, s)
  BY DEF generate_training_pairs, Slots, PairAt
<1>4. DOMAIN generate_training_pairs(P) = Slots(P)
  BY DEF generate_training_pairs, Slots
<1>. QED BY <1>1, <1>2, <1>3, <1>4 DEF TrainedOn

(* A batch trains the rows of the next contexts.                            *)
LEMMA BatchKeepsPairsInv ==
  ASSUME LoaderInv, PairsInv, TrainBatch
  PROVE  PairsInv'
<1>1. /\ phase = "batches" /\ phase' = "batches" /\ has_next
      /\ m_contexts' = m_contexts /\ walks' = walks /\ m_batch_size' = m_batch_size
      /\ m_current_batch_idx' = m_current_batch_idx + 1
      /\ m_contexts \in Seq(Seq(Vertices)) /\ DOMAIN m_contexts = 1 .. Len(m_contexts)
  BY DEF TrainBatch, LoaderInv, TypeOK
<1>2. BatchRange \in SUBSET (1 .. Len(m_contexts)) /\ Used \in SUBSET (1 .. Len(m_contexts))
  BY <1>1, BatchRangeFacts DEF Used
<1>3. Used' = Used \cup BatchRange /\ Used \cap BatchRange = {}
  <2> DEFINE a == m_current_batch_idx * BatchLength
             b == (m_current_batch_idx + 1) * BatchLength
  <2>1. /\ \A i \in 1 .. Len(m_contexts) : i \in BatchRange <=> a < i /\ i <= b
        /\ a \in Nat /\ a <= b
    BY <1>1, BatchRangeFacts
  <2>2. b \in Nat
    BY <1>1, BatchLengthType DEF LoaderInv, TypeOK
  <2>3. Used' = {i \in 1 .. Len(m_contexts) : i <= b}
    BY <1>1 DEF Used, BatchLength
  <2>4. Used = {i \in 1 .. Len(m_contexts) : i <= a}
    BY <1>1 DEF Used
  <2> HIDE DEF a, b
  <2>5. \A i \in 1 .. Len(m_contexts) : /\ i <= b <=> i <= a \/ (a < i /\ i <= b)
                                        /\ ~(i <= a /\ a < i)
    BY <2>1, <2>2
  <2>. QED BY <1>2, <2>1, <2>3, <2>4, <2>5
<1>4. ASSUME NEW p \in Vertices \X Vertices
      PROVE  trained'[p] = Cardinality(TrainedOn(m_contexts', Used', p))
  <2>1. trained'[p] = trained[p] + Cardinality(TrainedOn(m_contexts, BatchRange, p))
    <3>1. trained'[p] = trained[p]
            + Cardinality({s \in DOMAIN batch' : <<batch'[s].source, batch'[s].target>> = p})
      BY DEF TrainBatch
    <3>2. batch' = generate_training_pairs(BatchRange)
      BY DEF TrainBatch
    <3>. QED BY <1>1, <1>2, <3>1, <3>2, RowsAreSlots
  <2>2. trained[p] = Cardinality(TrainedOn(m_contexts, Used, p))
    BY <1>1 DEF PairsInv
  <2>3. IsFiniteSet(SlotsAt(m_contexts, Used)) /\ IsFiniteSet(SlotsAt(m_contexts, BatchRange))
    BY <1>1, <1>2, RowsAreSlots
  <2>4. Cardinality(TrainedOn(m_contexts, Used \cup BatchRange, p))
          = Cardinality(TrainedOn(m_contexts, Used, p)) + Cardinality(TrainedOn(m_contexts, BatchRange, p))
    BY <1>3, <2>3, TrainedUnion
  <2>. QED BY <1>1, <1>3, <2>1, <2>2, <2>4
<1>5. IsCut(m_contexts', walks', Len(walks'))
  BY <1>1 DEF PairsInv
<1>. QED BY <1>1, <1>4, <1>5 DEF PairsInv

(* Every step keeps what was cut and trained the pairs of the walks.        *)
LEMMA NextKeepsPairsInv ==
  ASSUME LoaderInv, PairsInv, [Next]_vars
  PROVE  PairsInv'
<1>1. CASE GenerateWalks
  <2>1. phase' = "contexts" /\ m_contexts' = << >> /\ sequence' = 0
    BY <1>1 DEF GenerateWalks
  <2>. QED BY <2>1, NothingCut DEF PairsInv
<1>2. CASE WalksFail \/ EndEpoch
  BY <1>2 DEF WalksFail, EndEpoch, PairsInv
<1>3. CASE UNCHANGED vars
  BY <1>3 DEF vars, loaderVars, PairsInv, Used, BatchLength
<1>. QED BY <1>1, <1>2, <1>3, CutWalkKeepsPairsInv, ResetKeepsPairsInv, BatchKeepsPairsInv
         DEF Next, Ended

(* A correspondence of rows and places keeps the pairs apart.               *)
LEMMA CutCounts ==
  ASSUME NEW C, NEW W, NEW n, NEW p, IsCut(C, W, n), IsFiniteSet(SlotsAt(C, DOMAIN C))
  PROVE  Cardinality(TrainedOn(C, DOMAIN C, p)) = Cardinality(PairedIn(W, n, p))
<1> DEFINE S == TrainedOn(C, DOMAIN C, p)
           T == PairedIn(W, n, p)
<1>1. PICK h \in Bijection(SlotsAt(C, DOMAIN C), PlacesIn(W, n)) :
        \A s \in SlotsAt(C, DOMAIN C) : PairAt(C, s) = PlacedAt(W, h[s])
  BY DEF IsCut
<1>2. S \subseteq SlotsAt(C, DOMAIN C) /\ T \subseteq PlacesIn(W, n)
  BY DEF TrainedOn, PairedIn
<1>3. IsFiniteSet(S)
  BY <1>2, FS_Subset
<1>4. /\ \A s \in S : h[s] \in T
      /\ \A t \in T : \E s \in S : h[s] = t
      /\ \A s, t \in S : h[s] = h[t] => s = t
  BY <1>1 DEF TrainedOn, PairedIn, Bijection, Injection, Surjection, IsInjective
<1> HIDE DEF S, T
<1> DEFINE f == [s \in S |-> h[s]]
<1>5. f \in Surjection(S, T) /\ f \in Injection(S, T)
  BY <1>4 DEF Injection, Surjection, IsInjective
<1>6. Cardinality(S) = Cardinality(T)
  BY <1>3, <1>5, FS_Surjection
<1>. QED BY <1>6 DEF S, T

(* At the end of an epoch all contexts are used.                            *)
LEMMA AllUsed ==
  ASSUME LoaderInv, phase = "batches", ~has_next
  PROVE  Used = DOMAIN m_contexts
<1> DEFINE m == m_current_batch_idx * BatchLength
<1>1. m \in Nat /\ Len(m_contexts) \in Nat /\ DOMAIN m_contexts = 1 .. Len(m_contexts)
  <2>1. m_current_batch_idx \in Nat /\ BatchLength \in Nat
    BY BatchLengthType DEF LoaderInv, TypeOK
  <2>. QED BY <2>1 DEF LoaderInv, TypeOK
<1>2. ~(m < Len(m_contexts))
  BY DEF LoaderInv, BatchesCoverEpoch
<1>3. Used = {i \in 1 .. Len(m_contexts) : i <= m}
  BY <1>1 DEF Used
<1> HIDE DEF m
<1>. QED BY <1>1, <1>2, <1>3

(* At the end of every epoch the model has been trained on the pairs its    *)
(* walks pair, each as often as they do, for every context size, batch size *)
(* and set of walks.                                                        *)
THEOREM TrainedPairsMatch == Spec => []PairsMatchWalks
<1>1. Init => PairsInv
  BY DEF Init, PairsInv
<1>2. ASSUME LoaderInv, PairsInv PROVE PairsMatchWalks
  <2>1. SUFFICES ASSUME phase = "batches", ~has_next, NEW u \in Vertices, NEW v \in Vertices
                 PROVE  trained[<<u, v>>] =
                          Cardinality(UNION {
                            {<<w, p>> : p \in {q \in PlacesPaired(walks[w]) :
                                walks[w][q[1]] = u /\ walks[w][q[2]] = v}} : w \in DOMAIN walks})
    BY DEF PairsMatchWalks
  <2>2. /\ m_contexts \in Seq(Seq(Vertices)) /\ DOMAIN m_contexts = 1 .. Len(m_contexts)
        /\ walks \in Seq(Seq(Vertices)) /\ DOMAIN walks = 1 .. Len(walks)
    BY <1>2 DEF LoaderInv, TypeOK
  <2>3. IsFiniteSet(SlotsAt(m_contexts, DOMAIN m_contexts))
    BY <2>2, RowsAreSlots
  <2>4. trained[<<u, v>>] = Cardinality(TrainedOn(m_contexts, DOMAIN m_contexts, <<u, v>>))
    BY <1>2, <2>1, AllUsed DEF PairsInv
  <2>5. IsCut(m_contexts, walks, Len(walks))
    BY <1>2, <2>1 DEF PairsInv
  <2>6. trained[<<u, v>>] = Cardinality(PairedIn(walks, Len(walks), <<u, v>>))
    BY <2>3, <2>4, <2>5, CutCounts
  <2>7. PairedIn(walks, Len(walks), <<u, v>>) =
          UNION {{<<w, p>> : p \in {q \in PlacesPaired(walks[w]) :
                    walks[w][q[1]] = u /\ walks[w][q[2]] = v}} : w \in DOMAIN walks}
    <3> DEFINE P(w) == {q \in PlacesPaired(walks[w]) : walks[w][q[1]] = u /\ walks[w][q[2]] = v}
               U == UNION {{<<w, p>> : p \in P(w)} : w \in DOMAIN walks}
    <3>1. \A w \in DOMAIN walks : \A p \in PlacesPaired(walks[w]) : p \in Nat \X Nat
      <4>1. \A w \in DOMAIN walks : DOMAIN walks[w] \subseteq Nat
        BY <2>2
      <4>. QED BY <4>1 DEF PlacesPaired
    <3>2. \A t \in U : t \in PairedIn(walks, Len(walks), <<u, v>>)
      BY <2>2, <3>1 DEF PairedIn, PlacesIn, PlacedAt
    <3>3. \A t \in PairedIn(walks, Len(walks), <<u, v>>) : t \in U
      BY <2>2 DEF PairedIn, PlacesIn, PlacedAt
    <3>. QED BY <3>2, <3>3
  <2>. QED BY <2>6, <2>7
<1>. QED BY LoaderInvariance, NextKeepsPairsInv, <1>1, <1>2, PTL DEF Spec

=============================================================================
