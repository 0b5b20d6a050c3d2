---------------------------- MODULE MCApplication ----------------------------
(***************************************************************************)
(* An instance of Application for TLC: every combination of modes, reports *)
(* and paths as a command of its own, commands with odd words, and         *)
(* sessions of trainings and predictions with different configurations.    *)
(***************************************************************************)
EXTENDS Application

(* Files.                                                                  *)

InputFile(kind, body) == [kind |-> kind, body |-> body, whole |-> TRUE, run |-> 0]

Flow(source, target, dst_port, protocol) ==
  [source |-> source, target |-> target, dst_port |-> dst_port, protocol |-> protocol]

TwoAddresses ==
  [addresses |-> {1, 2},
   flows |-> <<Flow(1, 2, 80, TCP), Flow(1, 2, 53, UDP), Flow(1, 2, 80, 255), Flow(2, 1, 53, TCP),
               Flow(2, 1, 50000, TCP), Flow(2, 1, 50000, TCP), Flow(1, 2, 0, 1)>>,
   dependencies |-> (<<1, 2>> :> {"LRT", "RR"}) @@ (<<2, 7>> :> {"LRT"})]
ThreeAddresses ==
  [addresses |-> {1, 2, 3}, flows |-> <<Flow(1, 2, 443, TCP), Flow(3, 2, 443, TCP)>>,
   dependencies |-> (<<1, 2>> :> {"TD"}) @@ (<<3, 2>> :> {"LRT"}) @@ (<<2, 3>> :> {"RR"})]

Ports(name, ports, tcp_ports, udp_ports) ==
  [name |-> name, ports |-> ports, tcp_ports |-> tcp_ports, udp_ports |-> udp_ports]
MCPorts ==
  <<Ports("_comment", <<1>>, <<>>, <<>>), Ports("WEB_SERVER", <<80, 443, 53>>, <<>>, <<>>),
    Ports("DNS", <<0>>, <<>>, <<53>>), Ports("DATABASE", <<50000>>, <<65536 + 443>>, <<>>)>>

-----------------------------------------------------------------------------
(* Configuration files.                                                    *)

Nest(key, object) == key :> <<"object", object>>
\* A forest of ten trees, and whatever else it is given.
Forest(others) == Nest("RF_PARAMS", [num_trees |-> <<"int", 10>>] @@ others)
Whole_ == [min_leaf_size |-> <<"int", 2>>, min_gain_split |-> <<"double", <<1, 100>>>>,
           max_depth |-> <<"int", 0>>]
Grid == [num_trees |-> <<"array", <<<<"int", 5>>, <<"int", 10>>>>>>,
         min_leaf_size |-> <<"array", <<<<"int", 3>>>>>>,
         min_gain_split |-> <<"array", <<<<"double", <<0, 1>>>>>>>>,
         max_depth |-> <<"array", <<<<"int", 0>>>>>>,
         validation_size |-> <<"double", <<1, 5>>>>]
Enabled(features) ==
  Nest("FEATURE_CONFIG", [flag \in AllFeatures |-> <<"bool", flag \in features>>])
Services_(others) ==
  Nest("SERVICE_CONFIG", [enabled |-> <<"bool", TRUE>>, port_config_path |-> <<"string", "ports">>] @@ others)

MCConfigs ==
  [empty |-> [key \in {} |-> None],
   few |-> Enabled({"time_crosscorr_peak", "net_port_role"})
           @@ [CLASSIFIER_THRESHOLD |-> <<"null", 0>>, NUM_THREADS |-> <<"int", 4>>],
   others |-> Enabled({"emb_dot_src_dst", "struct_shortest_path", "net_port_role"})
              @@ [WRITE_RUN_MANIFESTS |-> <<"bool", FALSE>>, _comment |-> <<"string", "no key">>],
   partial |-> Forest([key \in {} |-> None]) @@ Nest("GRID_PARAMS", [k \in {} |-> None]),
   whole |-> Forest(Whole_) @@ [CLASSIFIER_THRESHOLD |-> <<"double", <<7, 10>>>>],
   grid |-> Nest("GRID_PARAMS", Grid) @@ [USE_GRID_SEARCH |-> <<"bool", TRUE>>],
   calibrating |-> [USE_THRESHOLD_CALIBRATION |-> <<"bool", TRUE>>],
   services |-> Services_([min_flows |-> <<"int", 1>>, min_confidence |-> <<"double", <<1, 5>>>>]),
   certain |-> Services_([min_flows |-> <<"int", 2>>, min_confidence |-> <<"double", <<1, 4>>>>,
                          top_k |-> <<"int", 20>>,
                          smoothing_alpha |-> <<"double", <<0, 1>>>>]),
   unmapped |-> Nest("SERVICE_CONFIG", [enabled |-> <<"bool", TRUE>>]),
   mistyped |-> [LEARNING_RATE |-> <<"int", 1>>],
   negative |-> [SEED |-> <<"int", -1>>],
   outside |-> Nest("GRID_PARAMS", [validation_size |-> <<"double", <<1, 1>>>>]),
   none_left |-> Enabled({}),
   both |-> [USE_THRESHOLD_CALIBRATION |-> <<"bool", TRUE>>,
             CLASSIFIER_THRESHOLD |-> <<"double", <<1, 2>>>>]]

MCInitialFiles ==
  [p \in {<<name, "">> : name \in DOMAIN MCConfigs} |-> InputFile("config", MCConfigs[p[1]])]
  @@ (<<"data", "">> :> InputFile("flows", TwoAddresses))
  @@ (<<"data3", "">> :> InputFile("flows", ThreeAddresses))
  @@ (<<"single", "">> :> InputFile("flows", [TwoAddresses EXCEPT !.addresses = {1}]))
  @@ (<<"reference", "">> :> InputFile("reference", ThreeAddresses.dependencies))
  @@ (<<"nothing", "">> :> InputFile("reference", << >>))
  @@ (<<"list", "">> :> InputFile("addresses", {}))
  @@ (<<"ports", "">> :> InputFile("ports", MCPorts))

-----------------------------------------------------------------------------
(* Commands.                                                               *)

Words == ("-c" :> "model") @@ ("-d" :> "data") @@ ("-o" :> "out") @@ ("-g" :> "reference")
         @@ ("-G" :> "new") @@ ("-i" :> "list")

\* The options of a set, in an order, with a word for each path.
Command(flags, paths) ==
  SelectSeq(<<"-t", "-p", "-x", "-s", "-e">>, LAMBDA option : option \in flags)
  \o FlattenSeq(LET given == SelectSeq(<<"-c", "-d", "-o", "-g", "-G", "-i">>,
                                       LAMBDA option : option \in paths)
                IN  [n \in DOMAIN given |-> <<given[n], Words[given[n]]>>])

Commands == {Command(flags, paths) : flags \in SUBSET {"-t", "-p", "-x", "-s", "-e"},
                                     paths \in SUBSET DOMAIN Words}
OddCommands ==
  {<< >>, <<"-t", "-h">>, <<"-V">>, <<"-z", "-t">>, <<"-t", "-d", "data", "-c">>,
   <<"-t", "-c", "-d", "data">>, <<"-t", "-d", "data", "-c", "-e">>,
   <<"-t", "-c", "model", "--", "-d", "data">>, <<"list", "-v", "-t", "-d", "data", "-c", "a", "-c", "b">>,
   <<"-F", "-t", "-c", "model", "-d", "single">>, <<"-t", "-c", "model", "-d", "ports">>,
   <<"-t", "-c", "model", "-d", "data", "-b", "data">>, <<"-x", "-d", "none", "-G", "new">>}

Train == Command({"-t"}, {"-c", "-d"})
Predict_ == Command({"-p"}, {"-c", "-d", "-o"})
Reporting == Predict_ \o <<"-s", "-e">>
With(name) == <<"-f", name>>

MCSessions ==
  {<<command>> : command \in Commands \cup OddCommands}
  \cup {<<Train, Command({"-p"} \cup flags, {"-c", "-d", "-o"} \cup paths)>> :
          flags \in SUBSET {"-s", "-e"}, paths \in SUBSET {"-g", "-i"}}
  \cup {<<Train \o With(name)>> : name \in DOMAIN MCConfigs}
  \cup {<<Train \o With(trained), Reporting \o With(asked)>> :
          trained \in {"empty", "few", "others", "partial", "whole"},
          asked \in {"empty", "few", "others", "whole", "services", "certain", "unmapped"}}
  \cup {<<Train, Train \o With("few"), Reporting>>, <<Train, Train \o With("few"), Reporting \o With("few")>>,
        <<Train, Reporting, Predict_ \o <<"-g", "reference">>>>,
        <<Train \o With("calibrating"), Predict_, Predict_>>,
        <<Command({"-x"}, {"-d", "-G"}), <<"-t", "-c", "model", "-d", "data", "-g", "new">>>>,
        <<Train, <<"-p", "-s", "-e", "-c", "model", "-d", "data3", "-o", "out", "-g", "reference">>>>,
        <<Train, <<"-p", "-s", "-e", "-c", "model", "-d", "data", "-o", "model", "-g", "nothing">>>>}

\* In units of 1 \div 30, printed in units of 1 \div 10: the first two are printed alike, the
\* last as the threshold of 7 \div 10, which it is below, and above that of 2 \div 3, which it is.
MCScores == {15, 16, 20}
MCCutoffs == {1, 3}
MCIndeterminate == {0, 7}
MCThresholds == {<<1, 5>>, <<2, 3>>}

=============================================================================
