---------------------------- MODULE TrainingEpochs ----------------------------
(***************************************************************************)
(* What embedding training promises: every epoch has contexts of its own,  *)
(* each is used for exactly one update of the model, and the next epoch    *)
(* begins only when all of them have been used.                            *)
(***************************************************************************)
EXTENDS Naturals

CONSTANT Epochs       \* number of epochs asked for

VARIABLES
  begun,              \* how many epochs have their contexts
  uses                \* how often each context of the epoch was used

epochVars == <<begun, uses>>

EpochsInit ==
  /\ begun = 0
  /\ uses = [i \in {} |-> 0]

BeginEpoch ==
  /\ begun < Epochs /\ \A i \in DOMAIN uses : uses[i] = 1
  /\ begun' = begun + 1
  /\ uses' = [i \in DOMAIN uses' |-> 0]

Use ==
  /\ \E S \in SUBSET DOMAIN uses :
       /\ S # {} /\ \A i \in S : uses[i] = 0
       /\ uses' = [i \in DOMAIN uses |-> IF i \in S THEN 1 ELSE uses[i]]
  /\ UNCHANGED begun

EpochsNext == BeginEpoch \/ Use

EpochsSpec == EpochsInit /\ [][EpochsNext]_epochVars

=============================================================================
