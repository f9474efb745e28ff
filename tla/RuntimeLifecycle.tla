-------------------------- MODULE RuntimeLifecycle --------------------------
(***************************************************************************)
(* The life of the process: the application's lifespan with its stack of   *)
(* exit callbacks (app.py), Runtime.start and stop with the rollback of a  *)
(* start that fails (runtime.py), the agent manager's start and stop       *)
(* (agent/manager.py) and the plugin manager's (plugin/manager.py).        *)
(*                                                                         *)
(* Every step that starts something may fail or be cancelled; everything   *)
(* that stops something may raise.                                         *)
(***************************************************************************)
EXTENDS Integers, SequencesExt

CONSTANTS
    ProviderOrder,   \* the runtime's providers, in registration order
    PluginOrder      \* the enabled plugins, in the order of their ids

\* What is not a provider or a plugin: "plugins" stands for all of them.
OwnNames == {"database", "jobs", "http", "web", "plugins"}

\* Runtime.register_provider refuses a name it has.
ASSUME OrdersAssumption ==
    /\ ProviderOrder \in Seq(ToSet(ProviderOrder)) /\ IsInjective(ProviderOrder)
    /\ PluginOrder \in Seq(ToSet(PluginOrder))
    /\ ToSet(ProviderOrder) \cap ToSet(PluginOrder) = {}
    /\ (ToSet(ProviderOrder) \cup ToSet(PluginOrder)) \cap OwnNames = {}

VARIABLES
    app,         \* the step the lifespan is at
    state,       \* Runtime.state
    callbacks,   \* the exit stack: callbacks pushed, the last runs first
    todo,        \* what the current step still starts, or stops
    errors,      \* a stop of the current one raised
    acquired,    \* resources ever taken
    releases     \* how often each was given back

lifeVars == <<app, state, callbacks, todo, errors, acquired, releases>>

HttpClients == {"http", "web"}
Resources == {"database", "jobs"} \cup HttpClients
                \cup ToSet(ProviderOrder) \cup ToSet(PluginOrder)
Held == {r \in acquired : releases[r] = 0}

Acquire(rs) == acquired' = acquired \cup rs

\* Stopping what was never started does nothing.
Release(rs) ==
    releases' = [r \in Resources |->
                    releases[r] + (IF r \in rs \cap acquired THEN 1 ELSE 0)]

LifeInit ==
    /\ app = "schema" /\ state = "created"
    /\ callbacks = <<"database">>
    /\ todo = <<>> /\ errors = FALSE
    /\ acquired = {"database"}
    /\ releases = [r \in Resources |-> 0]

CreateSchema ==
    /\ app = "schema"
    /\ app' \in {"http", "unwind"}
    /\ UNCHANGED <<state, callbacks, todo, errors, acquired, releases>>

(***************************************************************************)
(* Runtime.start.                                                          *)
(***************************************************************************)
OpenHttpClient ==
    /\ app = "http"
    /\ \/ app' = "web" /\ state' = "starting" /\ Acquire({"http"})
       \/ app' = "unwind" /\ state' = "failed" /\ UNCHANGED acquired
    /\ UNCHANGED <<callbacks, todo, errors, releases>>

\* On failure the first client is closed.
OpenWebClient ==
    /\ app = "web"
    /\ \/ app' = "providers" /\ todo' = ProviderOrder /\ Acquire({"web"})
       \/ app' = "rollback" /\ todo' = <<"http">> /\ UNCHANGED acquired
    /\ UNCHANGED <<state, callbacks, errors, releases>>

\* What a failed start undoes: the providers started so far, the last first,
\* then the clients.
Undo ==
    Reverse(SubSeq(ProviderOrder, 1, Len(ProviderOrder) - Len(todo))) \o <<"http", "web">>

StartProvider ==
    /\ app = "providers" /\ todo # <<>>
    /\ \/ Acquire({Head(todo)}) /\ todo' = Tail(todo) /\ UNCHANGED app
       \/ app' = "rollback" /\ todo' = Undo /\ UNCHANGED acquired
    /\ UNCHANGED <<state, callbacks, errors, releases>>

\* The runtime runs; its stop and the manager's are pushed before the
\* manager's start.
Started ==
    /\ app = "providers" /\ todo = <<>>
    /\ state' = "running"
    /\ callbacks' = callbacks \o <<"runtime", "manager">>
    /\ app' = "plugins" /\ todo' = PluginOrder
    /\ UNCHANGED <<errors, acquired, releases>>

\* An error of the cleanup is swallowed, and the next resource is cleaned up.
RollbackOne ==
    /\ app = "rollback"
    /\ IF todo # <<>>
       THEN Release({Head(todo)}) /\ todo' = Tail(todo) /\ UNCHANGED <<app, state>>
       ELSE app' = "unwind" /\ state' = "failed" /\ UNCHANGED <<todo, releases>>
    /\ UNCHANGED <<callbacks, errors, acquired>>

(***************************************************************************)
(* AgentRuntimeManager.start.                                              *)
(***************************************************************************)
\* A plugin comes up; or fails in a way that is reported and stopped here; or
\* its start is cut short and fails the manager's, with or without a process.
StartPlugin ==
    /\ app = "plugins" /\ todo # <<>>
    /\ \/ Acquire({Head(todo)}) /\ todo' = Tail(todo) /\ UNCHANGED app
       \/ todo' = Tail(todo) /\ UNCHANGED <<app, acquired>>
       \/ acquired' \in {acquired, acquired \cup {Head(todo)}}
          /\ todo' = <<>> /\ app' = "unwind"
    /\ UNCHANGED <<state, callbacks, errors, releases>>

\* Discovery, the settings' decryption and the profiles may fail the start;
\* once it is done, requests are served and tasks run.
LoadProfiles ==
    /\ app = "plugins" /\ todo = <<>>
    /\ app' \in {"serving", "unwind"}
    /\ UNCHANGED <<state, callbacks, todo, errors, acquired, releases>>

AcceptTask ==
    /\ app = "serving"
    /\ Acquire({"jobs"})
    /\ UNCHANGED <<app, state, callbacks, todo, errors, releases>>

(***************************************************************************)
(* The lifespan ends: the callbacks run, each whether the others raised or *)
(* not.                                                                    *)
(***************************************************************************)
Shutdown ==
    /\ app = "serving"
    /\ app' = "unwind"
    /\ UNCHANGED <<state, callbacks, todo, errors, acquired, releases>>

\* manager.stop shuts the bus down, then stops all plugins; runtime.stop stops
\* the providers in reverse order, then closes the clients.
Stops(callback) ==
    CASE callback = "manager" -> <<"jobs", "plugins">>
      [] callback = "runtime" -> Reverse(ProviderOrder) \o <<"http", "web">>
      [] OTHER -> <<callback>>

RunCallback ==
    /\ app = "unwind" /\ callbacks # <<>>
    /\ app' = "stopping" /\ todo' = Stops(Last(callbacks)) /\ errors' = FALSE
    /\ state' = IF Last(callbacks) = "runtime" THEN "stopping" ELSE state
    /\ UNCHANGED <<callbacks, acquired, releases>>

\* Fault: an error ends it.
StopUntilError ==
    /\ app = "stopping" /\ todo # <<>>
    /\ Release(IF Head(todo) = "plugins" THEN ToSet(PluginOrder) ELSE {Head(todo)})
    /\ errors' \in {errors, TRUE}
    /\ todo' = IF errors' THEN <<>> ELSE Tail(todo)
    /\ UNCHANGED <<app, state, callbacks, acquired>>

\* An error is collected, and the next resource is stopped all the same.
StopOne ==
    /\ app = "stopping" /\ todo # <<>>
    /\ Release(IF Head(todo) = "plugins" THEN ToSet(PluginOrder) ELSE {Head(todo)})
    /\ todo' = Tail(todo)
    /\ errors' \in {errors, TRUE}
    /\ UNCHANGED <<app, state, callbacks, acquired>>

CallbackDone ==
    /\ app = "stopping" /\ todo = <<>>
    /\ app' = "unwind" /\ callbacks' = Front(callbacks)
    /\ state' = IF state # "stopping" THEN state
                ELSE IF errors THEN "failed" ELSE "stopped"
    /\ UNCHANGED <<todo, errors, acquired, releases>>

LifeNext ==
    \/ CreateSchema \/ OpenHttpClient \/ OpenWebClient
    \/ StartProvider \/ Started \/ RollbackOne
    \/ StartPlugin \/ LoadProfiles \/ AcceptTask
    \/ Shutdown \/ RunCallback \/ StopOne \/ CallbackDone

LifeSpec == LifeInit /\ [][LifeNext]_lifeVars

(***************************************************************************)
(* Properties.                                                             *)
(***************************************************************************)
\* Wherever the start fails and whatever raises in the stops, what was taken is
\* given back exactly once before the process ends.
ReleasedOnce ==
    /\ \A r \in Resources : releases[r] <= 1
    /\ app = "unwind" /\ callbacks = <<>> => Held = {}

\* What uses what: tasks run tools, plugins, clients and the database; a
\* provider was given the HTTP client; profiles are read from the database.
Uses ==
    ({"jobs"} \X (Resources \ {"jobs"}))
        \cup (ToSet(ProviderOrder) \X {"http"})
        \cup ((Resources \ {"database"}) \X {"database"})

\* Nothing is closed under those who still use it.
UsersStopFirst == \A use \in Uses : releases[use[2]] > 0 => use[1] \notin Held

\* Both.
StopsInOrder == ReleasedOnce /\ UsersStopFirst

=============================================================================
