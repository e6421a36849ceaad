---------------------------- MODULE OspreyEngine ----------------------------
(***************************************************************************)
(* The rules engine of a worker and the sources it compiles                *)
(* (lib/osprey_engine.py, sources_provider.py, sources_publisher.py,       *)
(* config_subkey_handler.py).  Publishers push versions of the rules to an *)
(* etcd key; the provider's watcher takes them up, pauses the input        *)
(* stream, has the engine compile them in a thread, and resumes the        *)
(* stream.  A version is "good", "invalid" for this worker (it was         *)
(* validated with the publisher's functions, not the worker's), or "gone": *)
(* the key was deleted, and there is no entry point to make Sources of.    *)
(***************************************************************************)
EXTENDS Naturals

CONSTANTS MaxVersion

ASSUME VersionAssumption == MaxVersion \in Nat \ {0}

VARIABLES
  pushed,    \* pushed[v]: what version v of the key is
  latest,    \* the version etcd holds
  provider,  \* the provider's sources, and whether the engine watches them
  reload,    \* the greenlet that watches the key: its step and the version it is at
  engine,    \* the engine's constructor, its execution graph and its parsed config
  paused     \* whether the input stream is told to pause

engineVars == <<pushed, latest, provider, reload, engine, paused>>

\* The worker's provider has loaded a good version 1.
EngineInit ==
  /\ pushed = [v \in 1..MaxVersion |-> "good"] /\ latest = 1
  /\ provider = [current |-> 1, watched |-> FALSE, missed |-> 0]
  /\ reload = [step |-> "watch", version |-> 1]
  /\ engine = [step |-> "new", compiling |-> 0, graph |-> 0, config |-> 0]
  /\ paused = FALSE

\* validate_and_push replaces the key; a delete of the key is a push of nothing.
ValidateAndPush(kind) ==
  /\ latest < MaxVersion
  /\ latest' = latest + 1 /\ pushed' = [pushed EXCEPT ![latest + 1] = kind]
  /\ UNCHANGED <<provider, reload, engine, paused>>

-----------------------------------------------------------------------------
(* The provider's watcher.                                                 *)

\* The watch gives the versions in order, and may pass over some when it syncs again.
HandleEvent ==
  /\ reload.step = "watch"
  /\ \E v \in (reload.version + 1)..latest : reload' = [step |-> "jitter", version |-> v]
  /\ UNCHANGED <<pushed, latest, provider, engine, paused>>
\* pause_input_stream: after a sleep of up to ten minutes.
Pause ==
  /\ reload.step = "jitter"
  /\ paused' = TRUE /\ reload' = [reload EXCEPT !.step = "load"]
  /\ UNCHANGED <<pushed, latest, provider, engine>>
\* _notify_watcher: Sources.from_dict raises without an entry point, and ends the
\* watcher with the stream paused; without a callback nothing is compiled.
Load ==
  /\ reload.step = "load"
  /\ IF pushed[reload.version] = "gone"
     THEN reload' = [reload EXCEPT !.step = "dead"] /\ UNCHANGED <<provider, engine>>
     ELSE /\ provider' = [provider EXCEPT !.current = reload.version, !.missed = IF engine.step = "ready" THEN @ ELSE reload.version]
          /\ reload' = [reload EXCEPT !.step = IF provider.watched THEN "compile" ELSE "resume"]
          /\ UNCHANGED engine
  /\ UNCHANGED <<pushed, latest, paused>>

\* Faulty variant: the config is the sources', compiled or not.
CompiledAnyConfig(graph) ==
  IF pushed[provider.current] = "good"
  THEN [graph EXCEPT !.graph = provider.current, !.config = provider.current]
  ELSE [graph EXCEPT !.config = provider.current]
\* _handle_updated_sources: sources that do not compile leave the graph and the config.
Compiled(graph) ==
  IF pushed[provider.current] = "good"
  THEN [graph EXCEPT !.graph = provider.current, !.config = provider.current] ELSE graph
HandleUpdatedSources ==
  /\ reload.step = "compile"
  /\ engine' = Compiled(engine) /\ reload' = [reload EXCEPT !.step = "resume"]
  /\ UNCHANGED <<pushed, latest, provider, paused>>

\* Faulty variant: the stream is resumed only for rules that compiled.
ResumeIfCompiled ==
  /\ reload.step = "resume"
  /\ paused' = (engine.graph # provider.current) /\ reload' = [reload EXCEPT !.step = "watch"]
  /\ UNCHANGED <<pushed, latest, provider, engine>>
\* resume_input_stream
Resume ==
  /\ reload.step = "resume"
  /\ paused' = FALSE /\ reload' = [reload EXCEPT !.step = "watch"]
  /\ UNCHANGED <<pushed, latest, provider, engine>>

-----------------------------------------------------------------------------
(* The constructor of the engine, whose greenlet waits for the thread that *)
(* compiles while the watcher goes on.                                     *)

ReadSources ==
  /\ engine.step = "new"
  /\ engine' = [engine EXCEPT !.step = "compile", !.compiling = provider.current]
  /\ UNCHANGED <<pushed, latest, provider, reload, paused>>
\* Faulty variant: the engine never watches its sources.
ConstructUnwatched ==
  /\ engine.step = "compile" /\ pushed[engine.compiling] = "good"
  /\ engine' = [step |-> "ready", compiling |-> 0, graph |-> engine.compiling, config |-> engine.compiling]
  /\ UNCHANGED <<pushed, latest, provider, reload, paused>>
\* The graph, the watch and the config are set without giving way in between.
Construct ==
  /\ engine.step = "compile" /\ pushed[engine.compiling] = "good"
  /\ engine' = [step |-> "ready", compiling |-> 0, graph |-> engine.compiling, config |-> engine.compiling]
  /\ provider' = [provider EXCEPT !.watched = TRUE]
  /\ UNCHANGED <<pushed, latest, reload, paused>>
\* Sources that do not validate end the worker before it has taken an action.
ConstructFails ==
  /\ engine.step = "compile" /\ pushed[engine.compiling] # "good"
  /\ engine' = [engine EXCEPT !.step = "failed"]
  /\ UNCHANGED <<pushed, latest, provider, reload, paused>>

EngineStep == HandleEvent \/ Pause \/ Load \/ HandleUpdatedSources \/ Resume \/ ReadSources \/ Construct \/ ConstructFails
EngineNext == EngineStep \/ \E kind \in {"good", "invalid", "gone"} : ValidateAndPush(kind)

-----------------------------------------------------------------------------
Newest(v) == v = latest /\ reload.version = v /\ reload.step = "watch"

\* When the watcher has caught up, the engine runs the newest rules, or they are
\* invalid here, or they arrived while the engine compiled its first graph and before
\* it watched: those wait for the next push (OspreyEngine.__init__, _notify_watcher).
GraphFollowsSources ==
  engine.step = "ready" /\ Newest(provider.current) =>
    \/ engine.graph = provider.current
    \/ pushed[provider.current] = "invalid"
    \/ provider.missed = provider.current

\* Rules and config change together: what is sampled and shown under a config belongs
\* to the rules that run, also after rules that do not compile.
ConfigMatchesGraph == engine.config = engine.graph

\* A stream paused for a reload is resumed, whether the rules compile or not; only
\* the end of the watcher, when the key is gone, leaves it paused.
ReloadEnds == []<>(~paused \/ pushed[reload.version] = "gone")
=============================================================================
