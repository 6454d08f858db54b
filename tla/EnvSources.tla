----------------------------- MODULE EnvSources -----------------------------
(***************************************************************************)
(* packages/config-engine/src: config-manager.ts and env-config.ts, two    *)
(* readers of one process environment with their own defaults and casts.   *)
(* A key stands for those of its type and sensitivity, a text for those    *)
(* the conversions treat as they treat it: "1e3" for those that Number()   *)
(* and parseInt() read as two numbers (0x10, 3000.5), "8080abc" for those  *)
(* only parseInt() reads as one, "production" and "auth0" for the members  *)
(* of an enumeration, "N2" for any other text.                             *)
(***************************************************************************)
EXTENDS Naturals, Sequences, SequencesExt, FiniteSetsExt, Functions

CONSTANTS
    EnvLines,              \* [key, value] lines an env file may have
    EnvAssigned,           \* [key, value] assignments others may make
    MaxEnvLines,           \* bound on the lines of a file
    MaxEnvSets             \* bound on the assignments to the environment

EnvKeys == {"JWT_SECRET", "PORT", "ENABLE_TELEMETRY", "NODE_ENV", "AUTH_PROVIDER",
            "IDEIA_DEFAULT_AUTONOMY"}

Missing == "missing"

EnvValues ==
    {"", "0", "1", "1e3", "8080abc", "true", "false", "yes", "production", "auth0",
     "change-me-in-production", "N2"}

ASSUME EnvAssumption ==
    /\ EnvLines \subseteq [key : EnvKeys, value : EnvValues]
    /\ EnvAssigned \subseteq [key : EnvKeys, value : EnvValues \cup {Missing}]
    /\ {MaxEnvLines, MaxEnvSets} \subseteq Nat

VARIABLES
    env,                \* process.env
    loaded,
    secrets,            \* ConfigManager.secrets
    _cachedConfig,      \* [env read, config made], or none yet
    assignments         \* assignments made to process.env by others

envVars == <<env, loaded, secrets, _cachedConfig, assignments>>

NotRead == [read |-> <<>>, config |-> <<>>]

EnvTypeOK ==
    /\ env \in [EnvKeys -> EnvValues \cup {Missing}]
    /\ loaded \in BOOLEAN
    /\ DOMAIN secrets \subseteq {"JWT_SECRET"}
    /\ Range(secrets) \subseteq EnvValues
    /\ _cachedConfig = NotRead \/ _cachedConfig.read \in [EnvKeys -> EnvValues \cup {Missing}]
    /\ assignments \in 0..MaxEnvSets

EnvInit ==
    /\ env = [k \in EnvKeys |-> Missing]
    /\ loaded = FALSE
    /\ secrets = [k \in {} |-> ""]
    /\ _cachedConfig = NotRead
    /\ assignments = 0

-----------------------------------------------------------------------------
\* What a reader returns.
Str(t) == [type |-> "string", value |-> t]
Num(t) == [type |-> "number", value |-> t]
Bool(t) == [type |-> "boolean", value |-> t]
NotSet == [type |-> "undefined", value |-> ""]

\* Most keys of the schema have a default; secrets have none.
GLOBAL_SCHEMA ==
    [JWT_SECRET |-> [type |-> "string", default |-> NotSet, sensitive |-> TRUE],
     PORT |-> [type |-> "number", default |-> Num("3001"), sensitive |-> FALSE],
     ENABLE_TELEMETRY |-> [type |-> "boolean", default |-> Bool("false"), sensitive |-> FALSE],
     NODE_ENV |-> [type |-> "string", default |-> Str("development"), sensitive |-> FALSE],
     AUTH_PROVIDER |-> [type |-> "string", default |-> Str("none"), sensitive |-> FALSE],
     IDEIA_DEFAULT_AUTONOMY |-> [type |-> "string", default |-> Str("N2"), sensitive |-> FALSE]]

\* Mutant: a later file overrides an earlier one.
assignLine_Last(read, line) == [read EXCEPT ![line.key] = line.value]

\* The empty text is no value: the next line for the key replaces it.
assignLine(read, line) ==
    IF read[line.key] \in {Missing, ""}
    THEN [read EXCEPT ![line.key] = line.value] ELSE read

loadEnvFile(read, file) ==
    LET after[i \in 0..Len(file)] ==
            IF i = 0 THEN read ELSE assignLine(after[i - 1], file[i])
    IN after[Len(file)]

loadEnvFiles(read, files) ==
    LET after[i \in 0..Len(files)] ==
            IF i = 0 THEN read ELSE loadEnvFile(after[i - 1], files[i])
    IN after[Len(files)]

\* A file that is missing, or that cannot be read, is a file without lines.
EnvFiles == BoundedSeq(EnvLines, MaxEnvLines)

init(files) ==
    LET read == loadEnvFiles(env, files) IN
    /\ ~loaded
    /\ loaded' = TRUE
    /\ env' = read
    /\ secrets' = [k \in {key \in EnvKeys : GLOBAL_SCHEMA[key].sensitive
                                            /\ read[key] # Missing} |-> read[k]]
    /\ UNCHANGED <<_cachedConfig, assignments>>

\* Number(text): the whole text, and 0 for the empty one.
Number(text) ==
    IF text \in {"", "0"} THEN "0"
    ELSE IF text = "1" THEN "1"
    ELSE IF text = "1e3" THEN "1000" ELSE "NaN"

\* A text that is no number, or no boolean, stays a text.
cast(text, type) ==
    IF type = "number" /\ Number(text) # "NaN" THEN Num(Number(text))
    ELSE IF type = "boolean" /\ text \in {"true", "1"} THEN Bool("true")
    ELSE IF type = "boolean" /\ text \in {"false", "0"} THEN Bool("false")
    ELSE Str(text)

get(key) ==
    LET schema == GLOBAL_SCHEMA[key] IN
    IF env[key] # Missing THEN cast(env[key], schema.type) ELSE schema.default

getAll(includeSecrets) ==
    [k \in {key \in EnvKeys : includeSecrets \/ ~GLOBAL_SCHEMA[key].sensitive} |-> get(k)]

Assign(key, value) ==
    /\ assignments < MaxEnvSets
    /\ env' = [env EXCEPT ![key] = value]
    /\ assignments' = assignments + 1
    /\ UNCHANGED <<loaded, secrets, _cachedConfig>>

-----------------------------------------------------------------------------
\* parseInt(text, 10): the digits the text begins with.
parseInt(text) ==
    IF text = "0" THEN "0"
    ELSE IF text \in {"1", "1e3"} THEN "1"
    ELSE IF text = "8080abc" THEN "8080" ELSE "NaN"

\* env: only an unset variable takes the default.
envText(key, default) == Str(IF env[key] = Missing THEN default ELSE env[key])

\* envInt and envOneOf: a value that is none of theirs takes it too.
envInt(key, default) ==
    Num(IF env[key] = Missing \/ parseInt(env[key]) = "NaN" THEN default
        ELSE parseInt(env[key]))

envOneOf(key, valid, default) ==
    Str(IF env[key] \in valid THEN env[key] ELSE default)

\* Mutant: 1 is not true.
envBool_NoDigit(key, default) ==
    IF env[key] = Missing THEN Bool(default)
    ELSE Bool(IF env[key] \in {"true", "yes"} THEN "true" ELSE "false")

\* envBool: any text but these three is false.
envBool(key, default) ==
    IF env[key] = Missing THEN Bool(default)
    ELSE Bool(IF env[key] \in {"true", "1", "yes"} THEN "true" ELSE "false")

createEnvConfig ==
    [JWT_SECRET |-> envText("JWT_SECRET", "change-me-in-production"),
     PORT |-> envInt("PORT", "3000"),
     ENABLE_TELEMETRY |-> envBool("ENABLE_TELEMETRY", "true"),
     NODE_ENV |-> envOneOf("NODE_ENV", {"production"}, "development"),
     AUTH_PROVIDER |-> envOneOf("AUTH_PROVIDER", {"auth0"}, "none"),
     IDEIA_DEFAULT_AUTONOMY |-> envInt("IDEIA_DEFAULT_AUTONOMY", "2")]

getEnvConfig ==
    /\ _cachedConfig = NotRead
    /\ _cachedConfig' = [read |-> env, config |-> createEnvConfig]
    /\ UNCHANGED <<env, loaded, secrets, assignments>>

reloadEnvConfig ==
    /\ _cachedConfig' = [read |-> env, config |-> createEnvConfig]
    /\ UNCHANGED <<env, loaded, secrets, assignments>>

\* The other secret has the same test, and the keys of the LLM providers are
\* asked for only next to an auth provider.
validateEnvConfig(config) ==
    /\ config["JWT_SECRET"] \notin {Str(""), Str("change-me-in-production")}
    /\ config["NODE_ENV"] = Str("production") => config["AUTH_PROVIDER"] # Str("none")

EnvNext ==
    \/ \E first, second \in EnvFiles : init(<<first, second>>)
    \/ \E a \in EnvAssigned : Assign(a.key, a.value)
    \/ getEnvConfig
    \/ reloadEnvConfig

-----------------------------------------------------------------------------
\* The lines of a file for a key, and those of them that have a value.
linesFor(key, file) == {i \in DOMAIN file : file[i].key = key}

textsFor(key, file) == {i \in linesFor(key, file) : file[i].value # ""}

(***************************************************************************)
(* Whatever env files are given, a key ends with its first value that is   *)
(* not empty, the process's own before any file's                          *)
(* (config-manager.ts:186).                                                *)
(***************************************************************************)
FirstValueWins ==
    ~loaded /\ assignments > 0 => \A first, second \in EnvFiles :
        LET read == loadEnvFiles(env, <<first, second>>)
            lines == first \o second
        IN \A key \in EnvKeys :
            read[key] =
                IF env[key] \notin {Missing, ""} \/ linesFor(key, lines) = {} THEN env[key]
                ELSE IF textsFor(key, lines) = {} THEN ""
                ELSE lines[Min(textsFor(key, lines))].value

\* The texts, or their absence, that are the same value to both readers: the
\* others are two numbers (1e3), a number and a text (8080abc), a boolean and
\* a text (yes), two defaults (3001 and 3000), or two types for one variable.
readAlike ==
    [JWT_SECRET |-> EnvValues,
     PORT |-> {"0", "1"},
     ENABLE_TELEMETRY |-> {"true", "1", "false", "0"},
     NODE_ENV |-> {Missing, "production"},
     AUTH_PROVIDER |-> {Missing, "auth0"},
     IDEIA_DEFAULT_AUTONOMY |-> {}]

(***************************************************************************)
(* While the cached configuration is not older than a variable, the two    *)
(* readers return the same value for exactly the texts listed above: plain *)
(* decimal numbers, true, 1, false and 0, members of an enumeration and    *)
(* secrets that are set; never for IDEIA_DEFAULT_AUTONOMY, a string to one *)
(* and an integer to the other (config-manager.ts:262, env-config.ts:71).  *)
(* What was captured as a secret is in no listing; and a configuration     *)
(* that passes validation was read from a secret of one's own and, in      *)
(* production, with an auth provider (env-config.ts:167).                  *)
(***************************************************************************)
ReadersAgree ==
    /\ _cachedConfig # NotRead =>
        LET config == _cachedConfig.config
            read == _cachedConfig.read
        IN  /\ \A k \in EnvKeys : read[k] = env[k] =>
                (get(k) = config[k] <=> env[k] \in readAlike[k])
            /\ validateEnvConfig(config) =>
                /\ read["JWT_SECRET"] \notin {Missing, "", "change-me-in-production"}
                /\ read["NODE_ENV"] = "production" => read["AUTH_PROVIDER"] = "auth0"
    /\ DOMAIN secrets \cap DOMAIN getAll(FALSE) = {}
=============================================================================
