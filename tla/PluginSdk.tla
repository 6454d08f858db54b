----------------------------- MODULE PluginSdk ------------------------------
(***************************************************************************)
(* packages/plugin-sdk/src/plugin-loader.ts and hot-reload.ts, for one     *)
(* plugin (the maps are keyed by plugin and no step looks at two keys).    *)
(* Loads overlap: the map is asked before the code is read and changed     *)
(* after.  A CommonJS file is read at once and its load goes on in         *)
(* microtasks, before any timer or watcher event; an ES module is imported *)
(* by path, which reads the file the first time only.                      *)
(***************************************************************************)
EXTENDS Naturals, Sequences, SequencesExt

CONSTANTS
    LoadCalls,        \* overlapping calls of load()
    MaxVersion,       \* bound on edits of the entry point
    NOTHING, IMPORTING

ASSUME MaxVersionAssumption == MaxVersion \in Nat
ASSUME NothingAssumption == {NOTHING, IMPORTING} \cap Nat = {}

Version == 0..MaxVersion

VARIABLES
    format,           \* of the entry point: .js and .cjs, or .mjs
    source, broken,   \* the file: its version, and whether its code throws
    imported,         \* what the process's module cache has for the path
    loaded,           \* the version in PluginLoader.loaded, or NOTHING
    loading,          \* call -> the version it read, IMPORTING, or NOTHING
    watching,
    changed,          \* the watcher has an event to deliver
    debounce,         \* a debounce timer is set
    missed            \* history: old code is or was put in, and no event will tell

loaderVars == <<format, source, broken, imported, loaded, loading, watching,
                changed, debounce, missed>>

LoaderTypeOK ==
    /\ format \in {"cjs", "esm"}
    /\ source \in Version /\ broken \in BOOLEAN
    /\ imported \in Version \cup {NOTHING} /\ loaded \in Version \cup {NOTHING}
    /\ loading \in [LoadCalls -> Version \cup {IMPORTING, NOTHING}]
    /\ watching \in BOOLEAN /\ missed \in BOOLEAN
    /\ changed \in BOOLEAN /\ debounce \in BOOLEAN

LoaderInit ==
    /\ format \in {"cjs", "esm"}
    /\ source = 0 /\ broken = FALSE /\ imported = NOTHING
    /\ loaded = NOTHING /\ loading = [w \in LoadCalls |-> NOTHING]
    /\ watching = FALSE /\ changed = FALSE /\ debounce = FALSE /\ missed = FALSE

-----------------------------------------------------------------------------
idle(w) == loading[w] = NOTHING

\* Microtasks of a CommonJS load run before the next event of the loop.
microtasksDone == format = "cjs" => \A w \in LoadCalls : idle(w)

\* load() up to its first await; code that throws ends the call.
beginLoad(w) ==
    /\ idle(w)
    /\ loading' = [loading EXCEPT ![w] = IF format = "esm" THEN IMPORTING
                                         ELSE IF broken THEN NOTHING ELSE source]

\* A plugin in the map is not loaded again.
load(w) ==
    /\ loaded = NOTHING
    /\ beginLoad(w)
    /\ UNCHANGED <<format, source, broken, imported, loaded, watching, changed,
                   debounce, missed>>

\* import() of a path reads the file only if no import of it succeeded.
moduleOf == IF imported = NOTHING THEN source ELSE imported

Import(w) ==
    /\ loading[w] = IMPORTING
    /\ \/ /\ imported # NOTHING \/ ~broken
          /\ imported' = moduleOf
          /\ loading' = [loading EXCEPT ![w] = moduleOf]
       \/ /\ imported = NOTHING /\ broken
          /\ loading' = [loading EXCEPT ![w] = NOTHING]
          /\ UNCHANGED imported
    /\ UNCHANGED <<format, source, broken, loaded, watching, changed, debounce, missed>>

\* The timeout rejects the call; the import it gave up may still succeed.
ImportTimesOut(w) ==
    /\ loading[w] = IMPORTING
    /\ loading' = [loading EXCEPT ![w] = NOTHING]
    /\ imported' \in {imported} \cup (IF broken THEN {} ELSE {moduleOf})
    /\ UNCHANGED <<format, source, broken, loaded, watching, changed, debounce, missed>>

EndLoad(w) ==
    /\ loading[w] \in Version
    /\ loaded' = loading[w]
    /\ loading' = [loading EXCEPT ![w] = NOTHING]
    /\ missed' = (loading[w] # source /\ ~changed /\ ~debounce)
    /\ UNCHANGED <<format, source, broken, imported, watching, changed, debounce>>

unload ==
    /\ loaded' = NOTHING
    /\ UNCHANGED <<format, source, broken, imported, loading, watching, changed,
                   debounce, missed>>

watch ==
    /\ ~watching /\ watching' = TRUE
    /\ UNCHANGED <<format, source, broken, imported, loaded, loading, changed,
                   debounce, missed>>

unwatch ==
    /\ watching' = FALSE /\ changed' = FALSE /\ debounce' = FALSE
    /\ missed' = (missed \/ changed \/ debounce)
    /\ UNCHANGED <<format, source, broken, imported, loaded, loading>>

WatchEvent ==
    /\ changed /\ microtasksDone
    /\ changed' = FALSE /\ debounce' = TRUE
    /\ UNCHANGED <<format, source, broken, imported, loaded, loading, watching, missed>>

reloaded == NOTHING

handleChange(w) ==
    /\ debounce /\ microtasksDone
    /\ debounce' = FALSE
    /\ loaded' = reloaded
    /\ IF loaded' = NOTHING THEN beginLoad(w) ELSE UNCHANGED loading
    /\ UNCHANGED <<format, source, broken, imported, watching, changed, missed>>

Edit ==
    /\ source < MaxVersion
    /\ source' = source + 1 /\ broken' \in BOOLEAN
    /\ changed' = watching
    /\ missed' = (missed \/ ~watching)
    /\ UNCHANGED <<format, imported, loaded, loading, watching, debounce>>

LoaderNext ==
    \/ \E w \in LoadCalls :
          \/ load(w) \/ Import(w) \/ ImportTimesOut(w) \/ EndLoad(w)
          \/ handleChange(w)
    \/ unload \/ watch \/ unwatch \/ WatchEvent \/ Edit

LoaderSpec == LoaderInit /\ [][LoaderNext]_loaderVars

-----------------------------------------------------------------------------
settled == ~changed /\ ~debounce /\ \A w \in LoadCalls : idle(w)

(***************************************************************************)
(* Once edits, events and loads have settled, a watched CommonJS plugin    *)
(* that is loaded runs the code of its file, however loads overlapped; an  *)
(* ES module runs the version the process imported first.                  *)
(***************************************************************************)
LoadedIsCurrent ==
    (settled /\ loaded # NOTHING) =>
        IF format = "cjs" THEN (watching /\ ~missed) => loaded = source
        ELSE loaded = imported

-----------------------------------------------------------------------------
(***************************************************************************)
(* packages/plugin-sdk/src/index.ts.  PluginManager: registered plugins    *)
(* and the handlers of one hook (each plugin's handlers are pushed and     *)
(* spliced hook by hook), fired in a loop over the live array while what   *)
(* they call registers and unregisters.  PluginRegistry: one installed     *)
(* plugin, in memory and on disk, with failed steps and restarts.          *)
(***************************************************************************)

CONSTANTS
    Plugins,          \* those that have the hook
    MaxCalls          \* bound on the handlers one firing calls

ASSUME MaxCallsAssumption == MaxCalls \in Nat

VARIABLES
    activatedPlugins,
    hookHandlers,     \* the hook's array of handlers, by plugin
    firing,           \* index of the loop in fireHook(), 0 when it does not run
    called,           \* history: plugins whose handler this firing called
    shifted,          \* history: this firing saw a handler before its index go
    instance,         \* the registry's entry: "none", "enabled" or "disabled"
    onDisk,           \* files of the plugin's directory
    halfDone          \* history: an install or uninstall failed or crashed

pluginVars == <<activatedPlugins, hookHandlers, firing, called, shifted,
                instance, onDisk, halfDone>>

managerState == <<activatedPlugins, hookHandlers, firing, called, shifted>>
registryState == <<instance, onDisk, halfDone>>

PluginTypeOK ==
    /\ activatedPlugins \in SUBSET Plugins
    /\ hookHandlers \in Seq(Plugins) /\ firing \in Nat
    /\ called \in Seq(Plugins) /\ shifted \in BOOLEAN
    /\ instance \in {"none", "enabled", "disabled"}
    /\ onDisk \in SUBSET {"manifest", "code"} /\ halfDone \in BOOLEAN

PluginInit ==
    /\ activatedPlugins = {} /\ hookHandlers = <<>>
    /\ firing = 0 /\ called = <<>> /\ shifted = FALSE
    /\ instance = "none" /\ onDisk = {} /\ halfDone = FALSE

-----------------------------------------------------------------------------
register(p) ==
    /\ p \notin activatedPlugins
    /\ activatedPlugins' = activatedPlugins \cup {p}
    /\ hookHandlers' = Append(hookHandlers, p)
    /\ UNCHANGED <<firing, called, shifted, registryState>>

handlerOf(p) == CHOOSE i \in DOMAIN hookHandlers :
    hookHandlers[i] = p /\ \A j \in 1..(i - 1) : hookHandlers[j] # p

\* Mutant: the handler stays.
spliced_Kept(p) == hookHandlers

spliced(p) == RemoveAt(hookHandlers, handlerOf(p))

\* Removing a handler the loop has passed moves the rest one place down.
unregister(p) ==
    /\ p \in activatedPlugins
    /\ activatedPlugins' = activatedPlugins \ {p}
    /\ hookHandlers' = spliced(p)
    /\ shifted' = (shifted \/ (firing > 0 /\ handlerOf(p) < firing))
    /\ UNCHANGED <<firing, called, registryState>>

fireHook ==
    /\ firing = 0
    /\ firing' = 1 /\ called' = <<>> /\ shifted' = FALSE
    /\ UNCHANGED <<activatedPlugins, hookHandlers, registryState>>

\* The handler of a plugin that was unregistered since does nothing.
executeHook ==
    /\ firing \in DOMAIN hookHandlers /\ Len(called) < MaxCalls
    /\ firing' = firing + 1
    /\ called' = IF hookHandlers[firing] \in activatedPlugins
                 THEN Append(called, hookHandlers[firing]) ELSE called
    /\ UNCHANGED <<activatedPlugins, hookHandlers, shifted, registryState>>

firedAll ==
    /\ firing > Len(hookHandlers)
    /\ firing' = 0 /\ called' = <<>> /\ shifted' = FALSE
    /\ UNCHANGED <<activatedPlugins, hookHandlers, registryState>>

-----------------------------------------------------------------------------
\* manifest.json, then the code, then memory.  A write may throw.
install ==
    /\ \/ instance' = "enabled" /\ onDisk' = {"manifest", "code"}
          /\ UNCHANGED halfDone
       \/ UNCHANGED instance /\ halfDone' = TRUE
          /\ onDisk' \in {onDisk, onDisk \cup {"manifest"}}
    /\ UNCHANGED managerState

filesLeft == {}

\* Memory first; rmSync may throw with some of the files gone.
uninstall ==
    /\ instance # "none"
    /\ instance' = "none"
    /\ \/ onDisk' = filesLeft /\ UNCHANGED halfDone
       \/ onDisk' \in SUBSET onDisk /\ halfDone' = TRUE
    /\ UNCHANGED managerState

enable ==
    /\ instance = "disabled" /\ instance' = "enabled"
    /\ UNCHANGED <<managerState, onDisk, halfDone>>

disable ==
    /\ instance = "enabled" /\ instance' = "disabled"
    /\ UNCHANGED <<managerState, onDisk, halfDone>>

\* A restart forgets the manager's plugins and lists every directory with a
\* manifest as enabled.
loadInstalled ==
    /\ instance' = IF "manifest" \in onDisk THEN "enabled" ELSE "none"
    /\ activatedPlugins' = {} /\ hookHandlers' = <<>>
    /\ firing' = 0 /\ called' = <<>> /\ shifted' = FALSE
    /\ UNCHANGED <<onDisk, halfDone>>

PluginNext ==
    \/ \E p \in Plugins : register(p) \/ unregister(p)
    \/ fireHook \/ executeHook \/ firedAll
    \/ install \/ uninstall \/ enable \/ disable \/ loadInstalled

PluginSpec == PluginInit /\ [][PluginNext]_pluginVars

-----------------------------------------------------------------------------
(***************************************************************************)
(* A firing has called the handlers before its index, each once and in     *)
(* their order, unless one of them was unregistered under the loop; and    *)
(* the handlers are those of the registered plugins, in registration       *)
(* order.                                                                  *)
(***************************************************************************)
HandlersCalledOnce ==
    /\ ToSet(hookHandlers) = activatedPlugins /\ IsInjective(hookHandlers)
    /\ (firing > 0 /\ ~shifted) => called = SubSeq(hookHandlers, 1, firing - 1)

(***************************************************************************)
(* Unless a step of an install or an uninstall failed, what the registry   *)
(* lists is on disk, whole, and what it does not list is not: a restart    *)
(* neither loses a plugin nor brings an uninstalled one back.              *)
(***************************************************************************)
RegistryOnDisk ==
    ~halfDone => onDisk = IF instance = "none" THEN {} ELSE {"manifest", "code"}

(***************************************************************************)
(* Plugins in memory are what is on disk: the code of a watched plugin and *)
(* the list of the installed ones; and each hook runs each plugin once.    *)
(***************************************************************************)
PluginsConsistent == LoadedIsCurrent /\ HandlersCalledOnce /\ RegistryOnDisk
=============================================================================
