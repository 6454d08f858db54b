---------------------------- MODULE ConfigEditors ----------------------------
(***************************************************************************)
(* The two editors of packages/config-engine/src: config-ui.ts, a form     *)
(* over a flat configuration that remembers which fields were changed, and *)
(* schema-aware-editor.ts, which checks, completes and converts a document *)
(* after a schema.                                                         *)
(*                                                                         *)
(* A value is its type and the text String() makes of it.  The search, the *)
(* texts shown and the HTML are left out.                                  *)
(***************************************************************************)
EXTENDS Naturals, FiniteSets

CONSTANTS
    Keys,           \* the form's keys: what stands before the dot, and after
    FormValues,     \* values of their fields
    Numerals,       \* texts that Number() reads
    EditedPaths,    \* bound: the paths of a document that are edited
    EditedValues    \* what is written there

Text(t) == [type |-> "string", text |-> t]
Numeral(t) == [type |-> "number", text |-> t]
Boolean(t) == [type |-> "boolean", text |-> t]
List(t) == [type |-> "array", text |-> t]
Null == [type |-> "null", text |-> "null"]
Undefined == [type |-> "undefined", text |-> "undefined"]

absent(value) == value \in {Null, Undefined}

ASSUME KeysAssumption == IsFiniteSet(Keys)

ASSUME EditedValuesAssumption ==
    \A value \in EditedValues :
        /\ value \in [type : {"string", "number", "boolean", "array"}, text : STRING]
        /\ value.type = "boolean" => value.text \in {"true", "false"}

VARIABLES
    fields,             \* key -> the field: its value and its type
    modifiedFields,
    expandedCategories,
    loadedConfig,       \* history: the configuration loaded last
    unmarked,           \* history: keys reset, their value not the loaded one
    document            \* what is in the schema-aware editor: path -> value

formVars ==
    <<fields, modifiedFields, expandedCategories, loadedConfig, unmarked>>

documentVars == <<document>>

-----------------------------------------------------------------------------
(***************************************************************************)
(* config-ui.ts.                                                           *)
(***************************************************************************)
determineType(value) == IF value = Null THEN "object" ELSE value.type

shown(value) == [value |-> value, type |-> determineType(value)]

CategoryNames ==
    [security |-> "Security", logging |-> "Logging", agent |-> "Agent", ui |-> "UI",
     editor |-> "Editor", terminal |-> "Terminal", git |-> "Git", llm |-> "LLM"]

determineCategory(k) ==
    IF k.prefix \in DOMAIN CategoryNames THEN CategoryNames[k.prefix] ELSE "General"

\* The form has no field that is required, read-only or an enumeration.
categorizeConfig(config) ==
    [k \in DOMAIN config |-> shown(config[k])]

categoriesOf(config) == {determineCategory(k) : k \in DOMAIN config}

loadFromConfig(config) ==
    /\ fields' = categorizeConfig(config)
    /\ expandedCategories' = categoriesOf(config)
    /\ loadedConfig' = config /\ unmarked' = {}
    /\ UNCHANGED <<modifiedFields, document>>

\* Mutant: a field that is set again is taken for unchanged.
updateField_Toggle(k, value) ==
    /\ k \in DOMAIN fields
    /\ fields' = [fields EXCEPT ![k] = shown(value)]
    /\ modifiedFields' = IF k \in modifiedFields THEN modifiedFields \ {k}
                         ELSE modifiedFields \cup {k}
    /\ unmarked' = unmarked \ {k}
    /\ UNCHANGED <<expandedCategories, loadedConfig, document>>

updateField(k, value) ==
    /\ k \in DOMAIN fields
    /\ fields' = [fields EXCEPT ![k] = shown(value)]
    /\ modifiedFields' = modifiedFields \cup {k}
    /\ unmarked' = unmarked \ {k}
    /\ UNCHANGED <<expandedCategories, loadedConfig, document>>

changed == {k \in DOMAIN fields : fields[k].value # loadedConfig[k]}

\* The mark goes and the value stays.
resetField(k) ==
    /\ modifiedFields' = modifiedFields \ {k}
    /\ unmarked' = unmarked \cup ({k} \cap changed)
    /\ UNCHANGED <<fields, expandedCategories, loadedConfig, document>>

resetAllFields ==
    /\ modifiedFields' = {}
    /\ unmarked' = changed
    /\ UNCHANGED <<fields, expandedCategories, loadedConfig, document>>

expand(names) ==
    /\ expandedCategories' = names
    /\ UNCHANGED <<fields, modifiedFields, loadedConfig, unmarked, document>>

toggleCategory(name) ==
    expand(IF name \in expandedCategories THEN expandedCategories \ {name}
           ELSE expandedCategories \cup {name})

expandAll == expand(categoriesOf(fields))

collapseAll == expand({})

getModifiedFields == modifiedFields \cap DOMAIN fields

exportToConfig == [k \in DOMAIN fields |-> fields[k].value]

getSuggestions == {k \in DOMAIN fields : absent(fields[k].value)}

getDashboardCards ==
    [total |-> Cardinality(DOMAIN fields),
     configured |-> Cardinality(DOMAIN fields \ getSuggestions),
     modified |-> Cardinality(modifiedFields)]

\* The type of each property of the form's JSON schema.
toJsonSchema == [k \in DOMAIN fields |-> fields[k].type]

-----------------------------------------------------------------------------
(***************************************************************************)
(* schema-aware-editor.ts.  No field of the schema has a validation        *)
(* function of its own.                                                    *)
(***************************************************************************)
Field(type, required, default, enumValues) ==
    [type |-> type, required |-> required, defaultValue |-> default,
     enumValues |-> enumValues]

CONFIG_SCHEMA ==
    [autonomy |->
       [level |-> Field("enum", TRUE, Text("N1"), {"N0", "N1", "N2", "N3", "N4"}),
        maxActionsPerMinute |-> Field("number", FALSE, Numeral("10"), {}),
        requireApproval |-> Field("boolean", FALSE, Boolean("true"), {})],
     scanners |->
       [enabled |-> Field("boolean", FALSE, Boolean("true"), {}),
        interval |-> Field("number", FALSE, Numeral("60"), {}),
        types |-> Field("array", FALSE, List("dependencies,secrets,quality"), {})],
     safety |->
       [sandbox |-> Field("boolean", TRUE, Boolean("true"), {}),
        auditEnabled |-> Field("boolean", TRUE, Boolean("true"), {}),
        outputValidation |-> Field("boolean", FALSE, Boolean("true"), {})],
     ui |->
       [theme |-> Field("enum", FALSE, Text("dark"), {"dark", "light", "high-contrast"}),
        notifications |-> Field("boolean", FALSE, Boolean("true"), {})],
     telemetry |->
       [enabled |-> Field("boolean", FALSE, Boolean("false"), {}),
        level |-> Field("enum", FALSE, Text("basic"), {"minimal", "basic", "detailed"})]]

SchemaPaths ==
    UNION {{<<c, k>> : k \in DOMAIN CONFIG_SCHEMA[c]} : c \in DOMAIN CONFIG_SCHEMA}

getField(p) == CONFIG_SCHEMA[p[1]][p[2]]

\* What JSON.stringify and JSON.parse leave of a value.
asJson(value) == IF value = Numeral("NaN") THEN Null ELSE value

NumberOf(value) ==
    IF value.type = "number" THEN value
    ELSE IF value = Boolean("true") THEN Numeral("1")
    ELSE IF value = Boolean("false") \/ value.text = "" THEN Numeral("0")
    ELSE IF value.text \in Numerals THEN Numeral(value.text) ELSE Numeral("NaN")

isTrue(value) == value \in {Boolean("true"), Text("true"), Numeral("1")}

\* Mutant: the booleans are compared with the text only.
coerced_TextOnly(f, value) ==
    CASE ~absent(value) /\ f.type = "number" -> NumberOf(value)
      [] ~absent(value) /\ f.type = "boolean" ->
            Boolean(IF value = Text("true") THEN "true" ELSE "false")
      [] OTHER -> value

coerced(f, value) ==
    CASE ~absent(value) /\ f.type = "number" -> NumberOf(value)
      [] ~absent(value) /\ f.type = "boolean" ->
            Boolean(IF isTrue(value) THEN "true" ELSE "false")
      [] OTHER -> value

coerceTypes(doc) == [p \in SchemaPaths |-> coerced(getField(p), asJson(doc[p]))]

suggestDefaults == [p \in SchemaPaths |-> getField(p).defaultValue]

\* The document with the defaults in the place of what is absent.
filledIn(doc, p) == IF absent(doc[p]) THEN getField(p).defaultValue ELSE doc[p]

completed(doc) == [p \in SchemaPaths |-> filledIn(doc, p)]

wrongType(f, value) ==
    ~absent(value) /\ f.type \in {"number", "boolean"} /\ value.type # f.type

\* The errors of validateConfig, by path.
missing(doc) ==
    {p \in SchemaPaths : getField(p).required /\ absent(filledIn(doc, p))}

wronglyTyped(doc) ==
    {p \in SchemaPaths : wrongType(getField(p), filledIn(doc, p))}

notAllowed(doc) ==
    {p \in SchemaPaths : LET value == filledIn(doc, p) IN
        /\ getField(p).type = "enum" /\ ~absent(value)
        /\ value.text \notin getField(p).enumValues}

validateConfig(doc) == missing(doc) \cup wronglyTyped(doc) \cup notAllowed(doc)

\* The errors of validateJson, which knows no defaults and no enumerations.
validateJson(doc) ==
    {p \in SchemaPaths :
        (getField(p).required /\ absent(doc[p])) \/ wrongType(getField(p), doc[p])}

falsy(value) ==
    value \in {Null, Undefined, Boolean("false"), Numeral("0"), Numeral("NaN"), Text("")}

getValidationErrors ==
    {p \in SchemaPaths : getField(p).required /\ falsy(getField(p).defaultValue)}

edit(doc) == document' = doc /\ UNCHANGED formVars

EditDocument ==
    \E p \in EditedPaths, value \in EditedValues \cup {Null, Undefined} :
        edit([document EXCEPT ![p] = value])

-----------------------------------------------------------------------------
FormInit ==
    /\ fields = [k \in {} |-> Null] /\ loadedConfig = [k \in {} |-> Null]
    /\ modifiedFields = {} /\ expandedCategories = {} /\ unmarked = {}

DocumentInit == document = [p \in SchemaPaths |-> Undefined]

FormNext ==
    \/ \E S \in SUBSET Keys : \E config \in [S -> FormValues] : loadFromConfig(config)
    \/ \E k \in Keys : resetField(k) \/ \E value \in FormValues : updateField(k, value)
    \/ \E k \in Keys : toggleCategory(determineCategory(k))
    \/ resetAllFields
    \/ expandAll
    \/ collapseAll

DocumentNext ==
    \/ EditDocument
    \/ edit(coerceTypes(document))
    \/ edit(suggestDefaults)

EditorTypeOK ==
    /\ DOMAIN fields \subseteq Keys /\ DOMAIN loadedConfig = DOMAIN fields
    /\ \A k \in DOMAIN fields : fields[k].value \in FormValues
    /\ modifiedFields \subseteq Keys /\ unmarked \subseteq DOMAIN fields
    /\ expandedCategories \subseteq {determineCategory(k) : k \in Keys}
    /\ DOMAIN document = SchemaPaths

-----------------------------------------------------------------------------
(***************************************************************************)
(* Who writes just the fields marked as modified into the configuration    *)
(* that was loaded gets what exportToConfig() exports, over any order of   *)
(* loads, updates and resets: but for the fields whose mark was taken by a *)
(* reset, which keeps their value.  The types the form and its JSON schema *)
(* show are those of the values now; and the fields counted as             *)
(* unconfigured are those something is suggested for.                      *)
(***************************************************************************)
MarksAreChanges ==
    /\ \A k \in DOMAIN fields \ unmarked :
          exportToConfig[k] =
             IF k \in getModifiedFields THEN fields[k].value ELSE loadedConfig[k]
    /\ \A k \in DOMAIN fields : toJsonSchema[k] = determineType(exportToConfig[k])
    /\ getDashboardCards.total - getDashboardCards.configured = Cardinality(getSuggestions)
    /\ Cardinality(getModifiedFields) <= getDashboardCards.modified

(***************************************************************************)
(* The operations on a document fit together: the defaults pass every      *)
(* check; a conversion leaves no value of a wrong type and nothing that    *)
(* passed before fails or changes, unless JSON cannot write it (NaN, which *)
(* gives way to the default); and what passes validateConfig, with the     *)
(* defaults filled in, passes validateJson.                                *)
(***************************************************************************)
EditorsAgree ==
    LET converted == coerceTypes(document) IN
    /\ validateConfig(suggestDefaults) = {} /\ getValidationErrors = {}
    /\ wronglyTyped(converted) = {}
    /\ validateConfig(document) = {} =>
          /\ validateConfig(converted) = {}
          /\ \A p \in SchemaPaths : converted[p] = asJson(document[p])
          /\ validateJson(completed(document)) = {}
=============================================================================
