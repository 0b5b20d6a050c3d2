----------------------------- MODULE CommandLine -----------------------------
(***************************************************************************)
(* cli/command_line: what getopt_long makes of the words of a command, and *)
(* which combinations validate_args lets through.  An option is named by   *)
(* its short form; a long one parses alike.                                *)
(***************************************************************************)
EXTENDS Integers, Sequences, SequencesExt

ModeOptions == {"-t", "-p", "-x"}
FlagOptions == ModeOptions \cup {"-h", "-e", "-s", "-v", "-V", "-F"}
PathOptions == {"-b", "-c", "-f", "-d", "-g", "-G", "-i", "-o"}
OtherOptions == {"-z"}      \* stands for any other word with a hyphen before it

Nothing == "nothing"

NoArguments ==
  [flags |-> {}, paths |-> << >>, expecting |-> Nothing, operands |-> FALSE, error |-> Nothing]

\* An option that takes an argument takes the next word, whatever that is; the last of
\* several counts.  Words that are no options are passed over, all of them after "--".
Parse(args, word) ==
  CASE args.error # Nothing \/ args.operands -> args
    [] OTHER ->
       CASE args.expecting # Nothing ->
              [args EXCEPT !.paths = (args.expecting :> word) @@ @, !.expecting = Nothing]
         [] args.expecting = Nothing ->
              CASE word \in FlagOptions -> [args EXCEPT !.flags = @ \cup {word}]
                [] word \in PathOptions -> [args EXCEPT !.expecting = word]
                [] word \in OtherOptions -> [args EXCEPT !.error = "UnknownOption"]
                [] word = "--" -> [args EXCEPT !.operands = TRUE]
                [] OTHER -> args

parse_args(argv) ==
  LET args == FoldLeft(Parse, NoArguments, argv)
  IN  IF args.expecting # Nothing THEN [args EXCEPT !.error = "MissingArgument"] ELSE args

Is(args, option) == option \in args.flags
Has(args, options) == options \subseteq DOMAIN args.paths
Lacks(args, options) == options \cap DOMAIN args.paths = {}

\* Seeded fault: that a training writes no scores and explanations is not checked.
faulty_check_training_mode(args) ==
  /\ ~Is(args, "-p") /\ ~Is(args, "-x")
  /\ Has(args, {"-c", "-d"})

\* Whether the checks of a mode pass.
check_training_mode(args) ==
  /\ ~Is(args, "-p") /\ ~Is(args, "-x")
  /\ Has(args, {"-c", "-d"})
  /\ ~Is(args, "-s") /\ ~Is(args, "-e")

check_prediction_mode(args) ==
  /\ ~Is(args, "-t") /\ ~Is(args, "-x")
  /\ Has(args, {"-c", "-d", "-o"})
  /\ Lacks(args, {"-G"})

check_ground_truth_mode(args) ==
  /\ ~Is(args, "-t") /\ ~Is(args, "-p")
  /\ Has(args, {"-d", "-G"})
  /\ Lacks(args, {"-c", "-o", "-g", "-i"})
  /\ ~Is(args, "-s") /\ ~Is(args, "-e")

validate_args(args) ==
  \/ Is(args, "-t") /\ check_training_mode(args)
  \/ ~Is(args, "-t") /\ Is(args, "-p") /\ check_prediction_mode(args)
  \/ ~Is(args, "-t") /\ ~Is(args, "-p") /\ Is(args, "-x") /\ check_ground_truth_mode(args)

\* What main does with them.
Main(args) ==
  CASE args.error # Nothing -> "failure"
    [] OTHER ->
       CASE args.flags \cap {"-h", "-V"} # {} -> "success"
         [] args.flags \cap {"-h", "-V"} = {} ->
              CASE ~validate_args(args) -> "failure"
                [] OTHER -> IF Is(args, "-t") THEN "training"
                            ELSE IF Is(args, "-p") THEN "prediction" ELSE "ground truth"

=============================================================================
