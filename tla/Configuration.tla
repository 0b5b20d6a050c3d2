---------------------------- MODULE Configuration ----------------------------
(***************************************************************************)
(* config and json: from the JSON object of a configuration file to Config *)
(* and back.  A JSON value is a pair of its kind and what it holds; all    *)
(* integers fit an int, and a double is a fraction in its lowest terms.    *)
(* The keys of an object that no parameter has are passed over.            *)
(***************************************************************************)
EXTENDS FeatureConfig

CONSTANTS
  Indeterminate,      \* what a field may hold that nothing has initialised
  HardwareThreads     \* std::thread::hardware_concurrency()

ASSUME ThreadsAssumption == HardwareThreads \in Nat

None == << >>
Some(v) == <<v>>

\* A parameter: its type, the check of its value, and the value it has by default.
Parameter(type, validator, default) ==
  [type |-> type, validator |-> validator, default |-> default, optional |-> FALSE]
OptionalParameter(type, validator) ==
  [type |-> type, validator |-> validator, default |-> None, optional |-> TRUE]
Each(type, validator, defaults) ==
  [key \in DOMAIN defaults |-> Parameter(type, validator, defaults[key])]

Sizes ==
  [MAX_EXTERNAL_ENDPOINTS |-> 100, MAX_INTERNAL_ENDPOINTS |-> 50,
   MAX_EDGES_PER_PAIR_TEMPORAL_BUCKET |-> 4, TEMPORAL_BUCKETS |-> 4,
   REFERENCE_MIN_OCCURRENCES |-> 10, TIMING_EPSILON_MS |-> 1000,
   WALK_MIN_TARGET_APPEARANCES |-> 10, TIMING_REVERSE_EPSILON_MS |-> 1000,
   EMBEDDING_DIM |-> 64, WALK_LENGTH |-> 5, WALKS_PER_VERTEX |-> 10, BATCH_SIZE |-> 32,
   CONTEXT_SIZE |-> 4, EPOCHS |-> 15]
Switches ==
  [USE_CLASS_WEIGHTS |-> FALSE, USE_FEATURE_SCALING |-> TRUE, USE_GRID_SEARCH |-> FALSE,
   USE_THRESHOLD_CALIBRATION |-> FALSE, WRITE_RUN_MANIFESTS |-> TRUE]

ConfigSchema ==
  Joined(Joined(Each("int", "is_positive", Sizes), Each("bool", "always_true", Switches)),
         [NUM_NEGATIVE_SAMPLES |-> Parameter("int", "is_non_negative", 1),
          SEED |-> Parameter("uint32", "always_true", 123),
          NUM_THREADS |-> OptionalParameter("int", "is_positive"),
          LEARNING_RATE |-> Parameter("double", "is_unit_interval", <<1, 100>>),
          CLASSIFIER_THRESHOLD |-> OptionalParameter("double", "is_unit_interval"),
          METRIC_TO_OPTIMIZE |-> Parameter("string", "is_metric", "f1")])

RandomForestSchema ==
  [num_trees |-> Parameter("size_t", "is_positive", 200),
   min_leaf_size |-> Parameter("size_t", "is_positive", 5),
   min_gain_split |-> Parameter("double", "is_non_negative", <<1, 10000000>>),
   max_depth |-> Parameter("size_t", "is_non_negative", 0)]

GridSearchSchema ==
  [num_trees |-> Parameter("size_t vector", "is_positive", <<70, 200, 500>>),
   min_leaf_size |-> Parameter("size_t vector", "is_positive", <<3, 5, 10>>),
   min_gain_split |-> Parameter("double vector", "is_non_negative",
                               <<<<0, 1>>, <<1, 10000000>>, <<1, 100000>>>>),
   max_depth |-> Parameter("size_t vector", "is_non_negative", <<0, 30, 45>>),
   validation_size |-> Parameter("double", "is_open_unit_interval", <<1, 4>>)]

FeatureSchema == [flag \in AllFeatures |-> Parameter("bool", "always_true", TRUE)]

ServiceSchema ==
  [enabled |-> Parameter("bool", "always_true", FALSE),
   port_config_path |-> Parameter("string", "always_true", ""),
   ephemeral_port_min |-> Parameter("uint16", "is_positive", 49152),
   min_flows |-> Parameter("size_t", "is_positive", 3),
   min_confidence |-> Parameter("double", "is_unit_interval", <<1, 10>>),
   smoothing_alpha |-> Parameter("double", "is_non_negative", <<1, 1>>),
   top_k |-> Parameter("size_t", "is_positive", 3)]

NestedSchemas ==
  [RF_PARAMS |-> RandomForestSchema, GRID_PARAMS |-> GridSearchSchema,
   FEATURE_CONFIG |-> FeatureSchema, SERVICE_CONFIG |-> ServiceSchema]

Defaults(schema) == [key \in DOMAIN schema |-> schema[key].default]

-----------------------------------------------------------------------------
(* From JSON.                                                              *)

\* What the values hold that a parsed file consists of.
Scalar(json) ==
  /\ json[1] = "int" => json[2] \in Int
  /\ json[1] = "double" => json[2] \in Int \X (Nat \ {0})
  /\ json[1] = "bool" => json[2] \in BOOLEAN
Json(json) ==
  /\ Scalar(json)
  /\ json[1] = "array" =>
       json[2] \in Seq(ToSet(json[2])) /\ \A n \in DOMAIN json[2] : Scalar(json[2][n])
JsonObject(object) == \A key \in DOMAIN object : Json(object[key])
Document(object) ==
  /\ JsonObject(object)
  /\ \A key \in DOMAIN object : object[key][1] = "object" => JsonObject(object[key][2])

\* Seeded fault: what was serialised as an unsigned integer is expected as one.
faulty_is_type(type, json) ==
  CASE type = "int" -> json[1] = "int"
    [] type \in {"size_t", "uint32", "uint16"} -> json[1] = "uint"
    [] OTHER -> json[1] = type

\* The kind of JSON value that stands for a type.
Kind(type) == IF type \in {"int", "size_t", "uint32", "uint16"} THEN "int" ELSE type

is_type(type, json) ==
  /\ json[1] = Kind(type)
  /\ type \in {"size_t", "uint32", "uint16"} => json[2] >= 0
  /\ type = "uint16" => json[2] <= 65535

Sign(json) == IF json[1] = "double" THEN json[2][1] ELSE json[2]

validate(validator, json) ==
  CASE validator = "always_true" -> TRUE
    [] validator = "is_positive" -> Sign(json) > 0
    [] validator = "is_non_negative" -> Sign(json) >= 0
    [] validator = "is_unit_interval" -> Sign(json) >= 0 /\ json[2][1] <= json[2][2]
    [] validator = "is_open_unit_interval" -> Sign(json) > 0 /\ json[2][1] < json[2][2]
    [] validator = "is_metric" -> json[2] \in {"accuracy", "f1", "precision", "recall"}

IsVector(p) == p.type \in {"size_t vector", "double vector"}
ElementType(p) == IF p.type = "size_t vector" THEN "size_t" ELSE "double"

\* Whether a parameter can be set from a value, null standing for no value.
Accepts(p, json) ==
  IF IsVector(p)
  THEN /\ json[1] = "array" /\ json[2] # << >>
       /\ \A n \in DOMAIN json[2] :
            is_type(ElementType(p), json[2][n]) /\ validate(p.validator, json[2][n])
  ELSE \/ p.optional /\ json[1] = "null"
       \/ is_type(p.type, json) /\ validate(p.validator, json)

Extracted(p, json) ==
  CASE IsVector(p) -> [n \in DOMAIN json[2] |-> json[2][n][2]]
    [] p.optional -> IF json[1] = "null" THEN None ELSE Some(json[2])
    [] OTHER -> json[2]

AcceptsObject(schema, object) ==
  \A key \in DOMAIN schema \cap DOMAIN object : Accepts(schema[key], object[key])

\* The object's values on top of those of a struct made before.
Updated(schema, object, before) ==
  [key \in DOMAIN schema |->
     IF key \in DOMAIN object THEN Extracted(schema[key], object[key]) ELSE before[key]]

\* RandomForestParams and GridSearchParams are made without initialisers: what the object
\* does not name is anything, unless it is a vector, which is empty.
Uninitialised(schema, junk) ==
  [key \in DOMAIN schema |->
     CASE IsVector(schema[key]) -> << >>
       [] schema[key].type = "double" -> <<junk[key], 1>>
       [] OTHER -> junk[key]]
Unnamed(object) ==
  UNION {DOMAIN NestedSchemas[key] \ DOMAIN object[key][2] :
           key \in {"RF_PARAMS", "GRID_PARAMS"} \cap DOMAIN object}

Features(flags) == {flag \in DOMAIN flags : flags[flag]}

AcceptsConfig(object) ==
  /\ AcceptsObject(ConfigSchema, object)
  /\ \A key \in DOMAIN NestedSchemas \cap DOMAIN object :
       object[key][1] = "object" /\ AcceptsObject(NestedSchemas[key], object[key][2])

\* A nested object: as by default if the file does not have it, else made and updated.
Nested(object, key, made) ==
  IF key \in DOMAIN object THEN Updated(NestedSchemas[key], object[key][2], made)
                           ELSE Defaults(NestedSchemas[key])

value_to_config(object, junk) ==
  Joined(
    Updated(ConfigSchema, object, Defaults(ConfigSchema)),
    [RF_PARAMS |-> Nested(object, "RF_PARAMS", Uninitialised(RandomForestSchema, junk)),
     GRID_PARAMS |-> Nested(object, "GRID_PARAMS", Uninitialised(GridSearchSchema, junk)),
     FEATURE_CONFIG |-> Features(Nested(object, "FEATURE_CONFIG", Defaults(FeatureSchema))),
     SERVICE_CONFIG |-> Nested(object, "SERVICE_CONFIG", Defaults(ServiceSchema))])

validate_parameter_combinations(config) ==
  /\ config.WALK_LENGTH > config.CONTEXT_SIZE
  /\ get_dimension(config.FEATURE_CONFIG) > 0
  /\ ~(config.USE_THRESHOLD_CALIBRATION /\ config.CLASSIFIER_THRESHOLD # None)

\* What load may return for a file with this object; nothing where it throws.
load(object) ==
  IF ~AcceptsConfig(object) THEN {}
  ELSE {config \in {value_to_config(object, junk) : junk \in [Unnamed(object) -> Indeterminate]} :
          validate_parameter_combinations(config)}

\* The configuration without a file.
DefaultConfig ==
  Joined(
    Defaults(ConfigSchema),
    [RF_PARAMS |-> Defaults(RandomForestSchema), GRID_PARAMS |-> Defaults(GridSearchSchema),
     FEATURE_CONFIG |-> AllFeatures, SERVICE_CONFIG |-> Defaults(ServiceSchema)])

\* The application fixes the number of threads.
WithThreads(config) ==
  LET threads == IF config.NUM_THREADS = None THEN HardwareThreads ELSE config.NUM_THREADS[1]
  IN  [config EXCEPT !.NUM_THREADS = Some(IF threads <= 0 THEN 1 ELSE threads)]

-----------------------------------------------------------------------------
(* To JSON, written as text and read again: unsigned integers come back as *)
(* integers, and doubles, which have an exponent, as doubles.              *)

value_from(p, value) ==
  CASE IsVector(p) -> <<"array", [n \in DOMAIN value |-> <<Kind(ElementType(p)), value[n]>>]>>
    [] p.optional -> IF value = None THEN <<"null", 0>> ELSE <<Kind(p.type), value[1]>>
    [] OTHER -> <<Kind(p.type), value>>

Object(schema, values) == [key \in DOMAIN schema |-> value_from(schema[key], values[key])]

value_from_config(config) ==
  Joined(
    Object(ConfigSchema, config),
    [key \in DOMAIN NestedSchemas |->
       <<"object",
         Object(NestedSchemas[key],
                IF key = "FEATURE_CONFIG"
                THEN [flag \in AllFeatures |-> flag \in config.FEATURE_CONFIG]
                ELSE config[key])>>])

=============================================================================
