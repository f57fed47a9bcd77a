---------------------------- MODULE ScoreService ----------------------------
(***************************************************************************)
(* One replica of the inference API: the request threads of POST /score    *)
(* and POST /explain, the threads of POST /admin/reload-model, the         *)
(* ModelState object they share without a lock, and the two tables /score  *)
(* writes in two transactions.  FastAPI runs every handler of these routes *)
(* in a thread pool, so threads interleave between any two accesses to an  *)
(* attribute of ModelState and around every call of MLflow or PostgreSQL.  *)
(*                                                                         *)
(* The score itself is abstracted to the one thing the handler branches    *)
(* on, whether decide() routes it to review (see RiskPolicy).              *)
(***************************************************************************)
EXTENDS Naturals, FiniteSets

CONSTANTS
  Request,          \* requests of POST /score and POST /explain
  Reloader,         \* requests of POST /admin/reload-model, each one repeatable
  Boot,             \* the start-up thread (the lifespan handler)
  Version,          \* versions of the active model in MLflow
  None,
  DatabaseMayFail,  \* may a transaction on PostgreSQL fail?
  MaxPromotions,    \* bound: changes of the Production stage
  MaxCrashes        \* bound: crashes of the replica

ActiveName == "mlflow_active_model_name"
FallbackName == "fallback_rules"
FallbackVersion == "v1"

Loader == Reloader \cup {Boot}

ASSUME ServiceAssumption ==
  /\ Boot \notin Reloader
  /\ None \notin Version /\ FallbackVersion \notin Version
  /\ None # FallbackVersion /\ None # ActiveName /\ None # FallbackName
  /\ DatabaseMayFail \in BOOLEAN
  /\ MaxPromotions \in Nat /\ MaxCrashes \in Nat

VARIABLES
  production,    \* MLflow: the version in stage Production
  state,         \* API: the attributes of ModelState
  gauge,         \* API: MODEL_AVAILABLE
  up,            \* API: has the lifespan handler yielded?
  lpc,           \* loader threads: where reload() is
  found,         \*   ... `version`, from get_latest_versions
  loaded,        \*   ... `model`, from load_model
  rpc,           \* request threads: where the handler is
  route,         \*   ... and which handler it is
  result,        \*   ... the ScoringResult
  predictions,   \* PostgreSQL: predictions, by the request that wrote the row
  cases,         \* PostgreSQL: review_cases, by the request that wrote the row
  promotions, crashes,      \* bounds
  fresh,         \* history: has the registry been read since it last changed?
  overtaken,     \* history: did a load ever return another version than found?
  overlapped,    \* history: requests during which a reload was in progress
  collided       \* history: did a reload ever begin while another was in progress?

threads == <<lpc, found, loaded, rpc, route, result>>
tables  == <<predictions, cases>>
bounds  == <<promotions, crashes>>
ghosts  == <<fresh, overtaken, overlapped, collided>>
vars == <<production, state, gauge, up, threads, tables, bounds, ghosts>>

NoModel == [model |-> None, name |-> None, version |-> None, explainer |-> None]

ModelState == [model : Version \cup {None}, name : {ActiveName, None},
               version : Version \cup {None}, explainer : Version \cup {None}]

(* ScoringResult; `by` is the version whose predict_proba made the score,  *)
(* None for the rules, and `explained` the one whose explainer made the    *)
(* explanation /explain answers with: the code records neither.            *)
Result == [source : {"ml", "fallback_rules"}, by : Version \cup {None},
           name : {ActiveName, FallbackName, None},
           version : Version \cup {FallbackVersion, None}, routed : BOOLEAN,
           explained : Version \cup {None}]

ASSUME NoneAssumption == None \notin Result

(* A row of predictions: model_name and model_version are NOT NULL.        *)
Prediction == {p \in Result : p.name # None /\ p.version # None}

Loading == {"lookup", "load", "set_model", "set_name", "set_version",
            "set_explainer", "clear_model", "clear_explainer", "clear_name",
            "clear_version", "loaded"}
Handling == {"check", "predict", "name", "version", "write", "case",
             "explainer", "explain", "answer"}

TypeOK ==
  /\ production \in Version \cup {None}
  /\ state \in ModelState
  /\ gauge \in BOOLEAN
  /\ up \in BOOLEAN
  /\ lpc \in [Loader -> Loading \cup {"idle"}]
  /\ found \in [Loader -> Version \cup {None}]
  /\ loaded \in [Loader -> Version \cup {None}]
  /\ rpc \in [Request -> Handling \cup {"new", "ok", "error", "lost"}]
  /\ route \in [Request -> {"score", "explain"}]
  /\ result \in [Request -> Result \cup {None}]
  /\ predictions \in [Request -> Prediction \cup {None}]
  /\ cases \subseteq Request
  /\ promotions \in 0..MaxPromotions /\ crashes \in 0..MaxCrashes
  /\ fresh \in BOOLEAN /\ overtaken \in BOOLEAN
  /\ overlapped \subseteq Request /\ collided \in BOOLEAN

Init ==
  /\ production \in Version \cup {None}
  /\ state = NoModel
  /\ gauge = FALSE
  /\ up = FALSE
  /\ lpc = [l \in Loader |-> "idle"]
  /\ found = [l \in Loader |-> None]
  /\ loaded = [l \in Loader |-> None]
  /\ rpc = [r \in Request |-> "new"]
  /\ route = [r \in Request |-> "score"]
  /\ result = [r \in Request |-> None]
  /\ predictions = [r \in Request |-> None]
  /\ cases = {}
  /\ promotions = 0 /\ crashes = 0
  /\ fresh = FALSE /\ overtaken = FALSE
  /\ overlapped = {} /\ collided = FALSE

InFlight == {r \in Request : rpc[r] \in Handling}
Reloading == \E l \in Loader : lpc[l] # "idle"

(***************************************************************************)
(* The registry: a promotion (which archives the version it replaces) or   *)
(* the withdrawal of the Production version.                               *)
(***************************************************************************)
ChangeProduction(v) ==
  /\ promotions < MaxPromotions
  /\ v # production
  /\ production' = v
  /\ promotions' = promotions + 1
  /\ fresh' = FALSE
  /\ UNCHANGED <<state, gauge, up, threads, tables, crashes, overtaken, overlapped, collided>>

(***************************************************************************)
(* ModelState.reload: two calls of MLflow, then one attribute at a time.   *)
(***************************************************************************)
BootProcess ==
  /\ ~up /\ lpc[Boot] = "idle"
  /\ lpc' = [lpc EXCEPT ![Boot] = "lookup"]
  /\ UNCHANGED <<production, state, gauge, up, found, loaded, rpc, route, result, tables, bounds, ghosts>>

(* Variant: only a replica without a model looks for one. *)
BeginReloadIfNone(l) ==
  /\ up /\ l \in Reloader /\ lpc[l] = "idle"
  /\ lpc' = [lpc EXCEPT ![l] = IF state.model = None THEN "lookup" ELSE "loaded"]
  /\ overlapped' = overlapped \cup InFlight
  /\ collided' = (collided \/ Reloading)
  /\ fresh' = (production # None)
  /\ UNCHANGED <<production, state, gauge, up, found, loaded, rpc, route, result, tables, bounds, overtaken>>

BeginReload(l) ==
  /\ up /\ l \in Reloader /\ lpc[l] = "idle"
  /\ lpc' = [lpc EXCEPT ![l] = "lookup"]
  /\ overlapped' = overlapped \cup InFlight
  /\ collided' = (collided \/ Reloading)
  /\ UNCHANGED <<production, state, gauge, up, found, loaded, rpc, route, result, tables, bounds, fresh, overtaken>>

(* client.get_latest_versions(name, stages=["Production"]) *)
Lookup(l) ==
  /\ lpc[l] = "lookup"
  /\ found' = [found EXCEPT ![l] = production]
  /\ lpc' = [lpc EXCEPT ![l] = IF production = None THEN "clear_model" ELSE "load"]
  /\ fresh' = TRUE
  /\ UNCHANGED <<production, state, gauge, up, loaded, rpc, route, result, tables, bounds, overtaken, overlapped, collided>>

(* load_model("models:/<name>/Production"): by stage, not by `version`.    *)
Load(l) ==
  /\ lpc[l] = "load"
  /\ production # None
  /\ loaded' = [loaded EXCEPT ![l] = production]
  /\ lpc' = [lpc EXCEPT ![l] = "set_model"]
  /\ overtaken' = (overtaken \/ production # found[l])
  /\ UNCHANGED <<production, state, gauge, up, found, rpc, route, result, tables, bounds, fresh, overlapped, collided>>

(* MlflowException or OSError in either call: load_production_model        *)
(* returns None, as if there were no Production version.                   *)
RegistryFails(l) ==
  /\ lpc[l] \in {"lookup", "load"}
  /\ lpc' = [lpc EXCEPT ![l] = "clear_model"]
  /\ fresh' = FALSE
  /\ UNCHANGED <<production, state, gauge, up, found, loaded, rpc, route, result, tables, bounds, overtaken, overlapped, collided>>

Assign(l, here, assigned, next) ==
  /\ lpc[l] = here
  /\ state' = assigned
  /\ lpc' = [lpc EXCEPT ![l] = next]
  /\ UNCHANGED <<production, gauge, up, found, loaded, rpc, route, result, tables, bounds, ghosts>>

SetModel(l)   == Assign(l, "set_model", [state EXCEPT !.model = loaded[l]], "set_name")
SetName(l)    == Assign(l, "set_name", [state EXCEPT !.name = ActiveName], "set_version")
SetVersion(l) == Assign(l, "set_version", [state EXCEPT !.version = found[l]], "set_explainer")

(* Variant: when it cannot be built the explainer is not cleared. *)
SetOrKeepExplainer(l) == \E e \in {loaded[l], state.explainer} :
                           Assign(l, "set_explainer", [state EXCEPT !.explainer = e], "loaded")

(* Building the SHAP explainer is best effort. *)
SetExplainer(l) == \E e \in {loaded[l], None} :
                     Assign(l, "set_explainer", [state EXCEPT !.explainer = e], "loaded")

ClearModel(l)     == Assign(l, "clear_model", [state EXCEPT !.model = None], "clear_explainer")
ClearExplainer(l) == Assign(l, "clear_explainer", [state EXCEPT !.explainer = None], "clear_name")
ClearName(l)      == Assign(l, "clear_name", [state EXCEPT !.name = None], "clear_version")
ClearVersion(l)   == Assign(l, "clear_version", [state EXCEPT !.version = None], "loaded")

(* reload() returns: the endpoint answers, or the lifespan handler sets    *)
(* MODEL_AVAILABLE and starts serving.                                     *)
EndReload(l) ==
  /\ lpc[l] = "loaded"
  /\ lpc' = [lpc EXCEPT ![l] = "idle"]
  /\ found' = [found EXCEPT ![l] = None]
  /\ loaded' = [loaded EXCEPT ![l] = None]
  /\ \/ /\ l = Boot
        /\ up' = TRUE
        /\ gauge' = (state.model # None)
     \/ /\ l # Boot
        /\ UNCHANGED <<up, gauge>>
  /\ UNCHANGED <<production, state, rpc, route, result, tables, bounds, ghosts>>

ReloadStep(l) ==
  \/ Lookup(l) \/ Load(l) \/ RegistryFails(l)
  \/ SetModel(l) \/ SetName(l) \/ SetVersion(l) \/ SetExplainer(l)
  \/ ClearModel(l) \/ ClearExplainer(l) \/ ClearName(l) \/ ClearVersion(l)
  \/ EndReload(l)

(***************************************************************************)
(* score_transaction                                                       *)
(***************************************************************************)
Goto(r, next) == rpc' = [rpc EXCEPT ![r] = next]

Receive(r) ==
  /\ up /\ rpc[r] = "new"
  /\ \E kind \in {"score", "explain"} : route' = [route EXCEPT ![r] = kind]
  /\ Goto(r, "check")
  /\ overlapped' = IF Reloading THEN overlapped \cup {r} ELSE overlapped
  /\ UNCHANGED <<production, state, gauge, up, lpc, found, loaded, result, tables, bounds, fresh, overtaken, collided>>

HandlerFrame ==
  UNCHANGED <<production, state, gauge, up, lpc, found, loaded, route, bounds, ghosts>>

(* Where a handler goes with its ScoringResult.  explain_transaction asks  *)
(* for an explanation of a model's score only.                             *)
AfterScoring(r, source) ==
  IF route[r] = "score" THEN "write"
  ELSE IF source = "ml" THEN "explainer" ELSE "answer"

(* Variant: the source of the score is not corrected. *)
ScoreByRulesAsModel(r) ==
  /\ \E routed \in BOOLEAN :
       result' = [result EXCEPT ![r] =
         [source |-> "ml", by |-> None, name |-> FallbackName,
          version |-> FallbackVersion, routed |-> routed, explained |-> None]]
  /\ Goto(r, AfterScoring(r, "ml"))

ScoreByRules(r) ==
  /\ \E routed \in BOOLEAN :
       result' = [result EXCEPT ![r] =
         [source |-> "fallback_rules", by |-> None, name |-> FallbackName,
          version |-> FallbackVersion, routed |-> routed, explained |-> None]]
  /\ Goto(r, AfterScoring(r, "fallback_rules"))

(* if state.is_model_available *)
CheckModel(r) ==
  /\ rpc[r] = "check"
  /\ \/ /\ state.model # None
        /\ Goto(r, "predict")
        /\ UNCHANGED result
     \/ /\ state.model = None
        /\ ScoreByRules(r)
  /\ UNCHANGED tables /\ HandlerFrame

(* Variant: a request waits for a model whose label is up to date. *)
PredictInStep(r) ==
  /\ rpc[r] = "predict"
  /\ state.model = state.version
  /\ \/ /\ state.model # None
        /\ \E routed \in BOOLEAN :
             result' = [result EXCEPT ![r] =
               [source |-> "ml", by |-> state.model, name |-> None,
                version |-> None, routed |-> routed, explained |-> None]]
        /\ Goto(r, "name")
     \/ ScoreByRules(r)
  /\ UNCHANGED tables /\ HandlerFrame

(* state.model.predict_proba: reads the attribute again.  An exception,    *)
(* that of a model gone since the check included, degrades to the rules.   *)
Predict(r) ==
  /\ rpc[r] = "predict"
  /\ \/ /\ state.model # None
        /\ \E routed \in BOOLEAN :
             result' = [result EXCEPT ![r] =
               [source |-> "ml", by |-> state.model, name |-> None,
                version |-> None, routed |-> routed, explained |-> None]]
        /\ Goto(r, "name")
     \/ ScoreByRules(r)
  /\ UNCHANGED tables /\ HandlerFrame

ReadName(r) ==
  /\ rpc[r] = "name"
  /\ result' = [result EXCEPT ![r].name = state.name]
  /\ Goto(r, "version")
  /\ UNCHANGED tables /\ HandlerFrame

(* Variant: the registry is asked for the version. *)
ReadVersionOfRegistry(r) ==
  /\ rpc[r] = "version"
  /\ result' = [result EXCEPT ![r].version = production]
  /\ Goto(r, AfterScoring(r, "ml"))
  /\ UNCHANGED tables /\ HandlerFrame

ReadVersion(r) ==
  /\ rpc[r] = "version"
  /\ result' = [result EXCEPT ![r].version = state.version]
  /\ Goto(r, AfterScoring(r, "ml"))
  /\ UNCHANGED tables /\ HandlerFrame

(***************************************************************************)
(* The rest of POST /score                                                 *)
(***************************************************************************)
Storable(r) == result[r].name # None /\ result[r].version # None

(* Variant: every prediction gets a case. *)
WriteThenCase(r) ==
  /\ rpc[r] = "write"
  /\ Storable(r)
  /\ predictions' = [predictions EXCEPT ![r] = result[r]]
  /\ Goto(r, "case")
  /\ UNCHANGED <<result, cases>> /\ HandlerFrame

WritePrediction(r) ==
  /\ rpc[r] = "write"
  /\ Storable(r)
  /\ predictions' = [predictions EXCEPT ![r] = result[r]]
  /\ Goto(r, IF result[r].routed THEN "case" ELSE "answer")
  /\ UNCHANGED <<result, cases>> /\ HandlerFrame

CreateReviewCase(r) ==
  /\ rpc[r] = "case"
  /\ cases' = cases \cup {r}
  /\ Goto(r, "answer")
  /\ UNCHANGED <<result, predictions>> /\ HandlerFrame

(* Variant: a failed INSERT is logged and the handler goes on. *)
SwallowDatabaseError(r) ==
  /\ \/ rpc[r] = "write" /\ (~Storable(r) \/ DatabaseMayFail)
     \/ rpc[r] = "case" /\ DatabaseMayFail
  /\ Goto(r, IF rpc[r] = "write" /\ result[r].routed THEN "case" ELSE "answer")
  /\ UNCHANGED <<result, tables>> /\ HandlerFrame

(* The session rolls back and the exception becomes a 500: a NULL in a NOT *)
(* NULL column, or the database being away.                                *)
DatabaseError(r) ==
  /\ \/ rpc[r] = "write" /\ (~Storable(r) \/ DatabaseMayFail)
     \/ rpc[r] = "case" /\ DatabaseMayFail
  /\ Goto(r, "error")
  /\ UNCHANGED <<result, tables>> /\ HandlerFrame

(***************************************************************************)
(* The rest of POST /explain: state.explainer is read twice.               *)
(***************************************************************************)
CheckExplainer(r) ==
  /\ rpc[r] = "explainer"
  /\ Goto(r, IF state.explainer = None THEN "answer" ELSE "explain")
  /\ UNCHANGED <<result, tables>> /\ HandlerFrame

Explain(r) ==
  /\ rpc[r] = "explain"
  /\ IF state.explainer = None
       THEN Goto(r, "error") /\ UNCHANGED result
       ELSE Goto(r, "answer") /\ result' = [result EXCEPT ![r].explained = state.explainer]
  /\ UNCHANGED tables /\ HandlerFrame

(* Both response models require a model_name; str() makes the version any. *)
Answer(r) ==
  /\ rpc[r] = "answer"
  /\ Goto(r, IF result[r].name = None THEN "error" ELSE "ok")
  /\ UNCHANGED <<result, tables>> /\ HandlerFrame

HandlerStep(r) ==
  \/ CheckModel(r) \/ Predict(r) \/ ReadName(r) \/ ReadVersion(r)
  \/ WritePrediction(r) \/ CreateReviewCase(r) \/ DatabaseError(r)
  \/ CheckExplainer(r) \/ Explain(r) \/ Answer(r)

(* The replica dies: its threads and ModelState are gone.                  *)
Crash ==
  /\ crashes < MaxCrashes
  /\ crashes' = crashes + 1
  /\ up' = FALSE
  /\ gauge' = FALSE
  /\ state' = NoModel
  /\ lpc' = [l \in Loader |-> "idle"]
  /\ found' = [l \in Loader |-> None]
  /\ loaded' = [l \in Loader |-> None]
  /\ rpc' = [r \in Request |-> IF rpc[r] \in Handling THEN "lost" ELSE rpc[r]]
  /\ fresh' = FALSE
  /\ UNCHANGED <<production, route, result, tables, promotions, overtaken, overlapped, collided>>

Next ==
  \/ \E v \in Version \cup {None} : ChangeProduction(v)
  \/ BootProcess
  \/ \E l \in Loader : BeginReload(l) \/ ReloadStep(l)
  \/ \E r \in Request : Receive(r) \/ HandlerStep(r)
  \/ Crash

Spec == Init /\ [][Next]_vars

(* A thread of a live process keeps running; nothing makes a request or a  *)
(* reload arrive.                                                          *)
FairSpec ==
  /\ Spec
  /\ \A r \in Request : WF_vars(HandlerStep(r))
  /\ \A l \in Loader : WF_vars(ReloadStep(l))
  /\ WF_vars(BootProcess)

(***************************************************************************)
(* Properties that hold                                                    *)
(***************************************************************************)

(* What a client was told is on record: an answered /score has its row in  *)
(* predictions, equal to the answer, and a case exactly when it was told   *)
(* routed_to_review.                                                       *)
AnsweredRecorded ==
  \A r \in Request :
    rpc[r] = "ok" /\ route[r] = "score" =>
      /\ predictions[r] = result[r]
      /\ r \in cases <=> result[r].routed

(* Whatever fails or dies between the two transactions, no case is ever    *)
(* without its prediction, and none is opened for an approved one.         *)
CasesArePredicted ==
  \A r \in cases : predictions[r] # None /\ predictions[r].routed

(* model_source never lies: a row says "ml" exactly when a model computed  *)
(* its score, and a score of the rules never carries a model's name, even  *)
(* when the model vanished between the check and the call.                 *)
SourceTruthful ==
  \A r \in Request :
    predictions[r] # None =>
      IF predictions[r].source = "ml"
        THEN predictions[r].by # None /\ predictions[r].name = ActiveName
        ELSE /\ predictions[r].by = None
             /\ predictions[r].name = FallbackName
             /\ predictions[r].version = FallbackVersion

(* As long as reloads do not overlap each other, the audit row names the   *)
(* model that made the score, for a request that no reload overlapped, if  *)
(* no promotion came between the two MLflow calls of a reload; and such a  *)
(* request never fails for want of a name.  An overlapped one may: a       *)
(* reload that finds no model clears the label of a score already made.    *)
LabelTruthfulIfQuiet ==
  ~collided => \A r \in Request \ overlapped :
    /\ rpc[r] = "write" => Storable(r)
    /\ ~overtaken /\ predictions[r] # None /\ predictions[r].source = "ml"
         => predictions[r].version = predictions[r].by

(* The explanation is of the model that made the score, and /explain does  *)
(* not fail between its two readings of state.explainer, for a request     *)
(* that no reload overlapped, as long as reloads do not overlap each       *)
(* other.  An overlapped one may pair the new model's score with the old   *)
(* model's explainer.                                                      *)
ExplanationTruthfulIfQuiet ==
  ~collided => \A r \in Request \ overlapped :
    /\ rpc[r] = "explain" => state.explainer # None
    /\ result[r] # None /\ result[r].explained # None
         => result[r].explained = result[r].by

(* "`reload()` can be called to pick up a newly promoted model without     *)
(* restarting the process" (ModelState): once the registry was read after  *)
(* its last change and no reload is in progress, the API serves and        *)
(* reports the Production version.  Only reloads that overlapped each      *)
(* other may leave it something else.                                      *)
ReloadConverges ==
  up /\ fresh /\ ~Reloading /\ ~collided =>
    state.model = production /\ state.version = production

(* Every request received is answered, fails, or dies with the process,    *)
(* whatever reloads go on: nothing in the handlers waits.                  *)
EveryRequestEnds ==
  \A r \in Request : (rpc[r] = "check") ~> (rpc[r] \in {"ok", "error", "lost"})

(***************************************************************************)
(* What the documents say and the code does not do                         *)
(***************************************************************************)

(* PredictionRecord: "exactly which model version scored which             *)
(* transaction".                                                           *)
LabelTruthful ==
  \A r \in Request :
    predictions[r] # None /\ predictions[r].source = "ml"
      => predictions[r].version = predictions[r].by
=============================================================================
