------------------------------ MODULE Registry ------------------------------
(***************************************************************************)
(* From settings to served models: the validation of config.py, what       *)
(* create_app of api.py builds of valid settings, and the checks a request *)
(* passes before it is charged and queued.                                 *)
(*                                                                         *)
(* Nothing here changes while the gateway runs, except for the request in  *)
(* hand.  Dictionaries keyed by a name keep the last entry written.  The   *)
(* names of the specification say what is specified, since its proofs      *)
(* stand beside those of Budget in one module.                             *)
(***************************************************************************)
EXTENDS Integers, Sequences

CONSTANTS
    Names,       \* names a backend may be configured with
    Models,      \* public models a backend may be configured with
    MaxBackends  \* bound: length of the list of backends

ASSUME RegistryAssumption == MaxBackends \in Nat

VARIABLES
    settings,  \* the validated Settings
    request,   \* the request last handled
    answer     \* what it got

checksVars == <<settings, request, answer>>

Task == {"chat", "embedding"}

BackendConfig == [name : Names, public_model : Models, tasks : SUBSET Task \ {{}}]

DefaultKey == "local-dev-key"

NoKey == ""

Keys == {DefaultKey, "configured", NoKey}

Settings == [environment : {"development", "public-demo"},
             require_api_key : BOOLEAN,
             api_key : Keys,
             backend_mode : {"demo", "http"},
             backends : UNION {[1..n -> BackendConfig] : n \in 0..MaxBackends}]

Backend(i) == settings.backends[i]
Indices == DOMAIN settings.backends

HasBackends(s) == s.backend_mode = "http" => s.backends # <<>>

UniqueNames(s) ==
    \A i, j \in DOMAIN s.backends : s.backends[i].name = s.backends[j].name => i = j

\* A fault of Closed: the two conditions are joined by "and".
ClosedEither(s) == s.environment = "public-demo" => s.require_api_key \/ s.api_key # DefaultKey

\* A public demo asks for a key, and not for the one in the repository.
Closed(s) == s.environment = "public-demo" => s.require_api_key /\ s.api_key # DefaultKey

\* A fault of Valid: names may repeat.
ValidWithRepeats(s) == HasBackends(s) /\ Closed(s)

Valid(s) == HasBackends(s) /\ UniqueNames(s) /\ Closed(s)

----------------------------------------------------------------------------
DemoName == "deterministic-local"
DemoModel == [task \in Task |->
    IF task = "chat" THEN "inferencemesh-local" ELSE "inferencemesh-embedding-local"]

PublicModels == Models \union {DemoModel[task] : task \in Task}

\* The entry a dictionary keeps for a name.
LastNamed(name) ==
    CHOOSE i \in Indices : /\ Backend(i).name = name
                           /\ \A j \in Indices : Backend(j).name = name => j <= i

Registered == IF settings.backend_mode = "demo" THEN {DemoName}
              ELSE {Backend(i).name : i \in Indices}

\* The candidate of the router under a name, in what does not change of it.
Candidate(name) ==
    IF settings.backend_mode = "demo"
    THEN [tasks |-> Task, models |-> {DemoModel[task] : task \in Task}, streaming |-> TRUE]
    ELSE [tasks |-> Backend(LastNamed(name)).tasks,
          models |-> {Backend(LastNamed(name)).public_model},
          streaming |-> "chat" \in Backend(LastNamed(name)).tasks]

\* `supported`: the public models of a task.
Supported(task) ==
    IF settings.backend_mode = "demo" THEN {DemoModel[task]}
    ELSE {Backend(i).public_model : i \in {j \in Indices : task \in Backend(j).tasks}}

\* The candidates that select considers for a request, if healthy and not full.
Eligible(task, model, streaming) ==
    {name \in Registered : /\ task \in Candidate(name).tasks
                           /\ model \in Candidate(name).models
                           /\ streaming => Candidate(name).streaming}

----------------------------------------------------------------------------
\* What a request is checked for: its key, its model, and whether its input and
\* its max_tokens keep within the limits.
Request == [key : Keys, task : Task, stream : BOOLEAN, model : PublicModels,
            inputFits : BOOLEAN, tokensFit : BOOLEAN]

Authentic(r) == settings.require_api_key => r.key # NoKey /\ r.key = settings.api_key

Answer(r) ==
    IF ~Authentic(r) THEN "401"
    ELSE IF r.model \notin Supported(r.task) THEN "404"
    ELSE IF ~r.inputFits \/ (r.task = "chat" /\ ~r.tokensFit) THEN "400"
    ELSE "accepted"

ChecksInit ==
    /\ settings \in Settings /\ Valid(settings)
    /\ request \in Request
    /\ answer = Answer(request)

Handle(r) ==
    /\ request' = r
    /\ answer' = Answer(r)
    /\ UNCHANGED settings

ChecksNext == \E r \in Request : Handle(r)

ChecksSpec == ChecksInit /\ [][ChecksNext]_checksVars

----------------------------------------------------------------------------
ChecksTypeOK ==
    settings \in Settings /\ request \in Request /\ answer \in {"401", "404", "400", "accepted"}

\* A request that is charged and queued can be served: some candidate of the
\* router does its task, answers to its model and streams if asked to.  That
\* select finds nothing, a 503, can then only be a matter of health and load.
AcceptedIsServable == answer = "accepted" =>
    Eligible(request.task, request.model, request.stream /\ request.task = "chat") # {}

\* A public demo serves nobody who has no key, or the one in the repository.
PublicDemoIsClosed == settings.environment = "public-demo" =>
    (answer # "401" => request.key \notin {NoKey, DefaultKey})
=============================================================================
