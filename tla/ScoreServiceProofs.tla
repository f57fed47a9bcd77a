------------------------- MODULE ScoreServiceProofs -------------------------
(***************************************************************************)
(* Proofs about ScoreService, for any number of requests, reloads,         *)
(* versions, promotions and crashes: the types, that what a client was     *)
(* told is on record, that no case lacks its prediction, that the source   *)
(* of a score is never misreported and, as long as no reload began during  *)
(* another, that labels and explanations name the model that scored and    *)
(* that a finished reload leaves the Production version served.            *)
(***************************************************************************)
EXTENDS ScoreService, TLAPS

(***************************************************************************)
(* The inductive invariant: where a request is in its handler says what    *)
(* it has computed and written so far.                                     *)
(***************************************************************************)

(* A result names the rules exactly when the rules made it.                *)
Truthful(x) ==
  IF x.source = "ml" THEN x.by # None /\ x.name # FallbackName
  ELSE x.by = None /\ x.name = FallbackName /\ x.version = FallbackVersion

Unwritten == {"new", "check", "predict", "name", "version", "write", "explainer", "explain"}
HasResult == {"name", "version", "write", "case", "explainer", "explain", "answer", "ok"}
ByModel == {"name", "version", "explainer", "explain"}

InOrder(r) ==
  /\ rpc[r] \in HasResult => result[r] \in Result /\ Truthful(result[r])
  /\ rpc[r] \in ByModel => result[r].source = "ml"
  /\ rpc[r] \in {"write", "case"} => route[r] = "score"
  /\ rpc[r] \in {"explainer", "explain"} => route[r] = "explain"
  /\ rpc[r] \in Unwritten => predictions[r] = None /\ r \notin cases
  /\ rpc[r] = "case" =>
       predictions[r] = result[r] /\ result[r].routed /\ r \notin cases
  /\ rpc[r] \in {"answer", "ok"} /\ route[r] = "score" =>
       predictions[r] = result[r] /\ (r \in cases <=> result[r].routed)
  /\ predictions[r] # None => Truthful(predictions[r])
  /\ r \in cases => predictions[r] # None /\ predictions[r].routed

IInv == TypeOK /\ \A r \in Request : InOrder(r)

LEMMA Distinct ==
  /\ ActiveName # FallbackName
  /\ None \notin Version /\ FallbackVersion \notin Version
  /\ None # FallbackVersion /\ None # ActiveName /\ None # FallbackName
  /\ None \notin Result
BY ServiceAssumption, NoneAssumption DEF ActiveName, FallbackName

(***************************************************************************)
(* Steps of the registry, the loaders and a crash                          *)
(***************************************************************************)

(* They write nothing of a request's.                                      *)
LEMMA Elsewhere ==
  ASSUME \A r \in Request : InOrder(r),
         UNCHANGED <<route, result, predictions, cases>>,
         \A r \in Request : rpc'[r] \in {rpc[r], "lost"}
  PROVE  \A r \in Request : InOrder(r)'
<1>. SUFFICES ASSUME NEW r \in Request PROVE InOrder(r)'
  OBVIOUS
<1>. InOrder(r)
  OBVIOUS
<1>1. CASE rpc'[r] = rpc[r]
  BY <1>1 DEF InOrder
<1>2. CASE rpc'[r] = "lost"
  BY <1>2 DEF InOrder, HasResult, Unwritten, ByModel
<1>. QED  BY <1>1, <1>2

LEMMA ReloadType ==
  ASSUME TypeOK, NEW l \in Loader, BeginReload(l) \/ ReloadStep(l)
  PROVE  TypeOK'
<1>. USE DEF TypeOK, Loading, bounds, ghosts, tables, threads
<1>1. CASE BeginReload(l)
  BY <1>1 DEF BeginReload, InFlight
<1>2. CASE Lookup(l)
  BY <1>2 DEF Lookup
<1>3. CASE Load(l)
  BY <1>3 DEF Load
<1>4. CASE RegistryFails(l)
  BY <1>4 DEF RegistryFails
<1>5. ASSUME NEW s \in ModelState, NEW here, NEW next \in Loading, Assign(l, here, s, next)
      PROVE  TypeOK'
  BY <1>5 DEF Assign
<1>6. /\ state \in ModelState /\ loaded[l] \in Version \cup {None} /\ found[l] \in Version \cup {None}
  OBVIOUS
<1>7. CASE SetModel(l) \/ SetName(l) \/ SetVersion(l) \/ SetExplainer(l)
  <2>1. /\ [state EXCEPT !.model = loaded[l]] \in ModelState
        /\ [state EXCEPT !.name = ActiveName] \in ModelState
        /\ [state EXCEPT !.version = found[l]] \in ModelState
        /\ \A e \in {loaded[l], None} : [state EXCEPT !.explainer = e] \in ModelState
    BY <1>6 DEF ModelState
  <2>. QED  BY <1>5, <1>7, <2>1 DEF SetModel, SetName, SetVersion, SetExplainer
<1>8. CASE ClearModel(l) \/ ClearExplainer(l) \/ ClearName(l) \/ ClearVersion(l)
  <2>1. /\ [state EXCEPT !.model = None] \in ModelState
        /\ [state EXCEPT !.name = None] \in ModelState
        /\ [state EXCEPT !.version = None] \in ModelState
        /\ [state EXCEPT !.explainer = None] \in ModelState
    BY <1>6 DEF ModelState
  <2>. QED  BY <1>5, <1>8, <2>1 DEF ClearModel, ClearExplainer, ClearName, ClearVersion
<1>9. CASE EndReload(l)
  BY <1>9 DEF EndReload
<1>. QED  BY <1>1, <1>2, <1>3, <1>4, <1>7, <1>8, <1>9 DEF ReloadStep

LEMMA OutsideStep ==
  ASSUME IInv,
         \/ \E v \in Version \cup {None} : ChangeProduction(v)
         \/ BootProcess \/ Crash \/ UNCHANGED vars
         \/ \E l \in Loader : BeginReload(l) \/ ReloadStep(l)
  PROVE  IInv'
<1>. USE DEF IInv, threads, tables, bounds, ghosts
<1>1. ASSUME NEW v \in Version \cup {None}, ChangeProduction(v) PROVE IInv'
  <2>1. promotions' \in 0..MaxPromotions
    BY <1>1, ServiceAssumption DEF ChangeProduction, TypeOK
  <2>2. TypeOK'
    BY <1>1, <2>1 DEF ChangeProduction, TypeOK
  <2>. QED  BY <1>1, <2>2, Elsewhere DEF ChangeProduction
<1>2. CASE BootProcess
  <2>1. TypeOK'
    BY <1>2 DEF BootProcess, TypeOK, Loading
  <2>. QED  BY <1>2, <2>1, Elsewhere DEF BootProcess
<1>3. CASE Crash
  <2>1. crashes' \in 0..MaxCrashes
    BY <1>3, ServiceAssumption DEF Crash, TypeOK
  <2>2. NoModel \in ModelState
    BY DEF NoModel, ModelState
  <2>3. /\ rpc' \in [Request -> Handling \cup {"new", "ok", "error", "lost"}]
        /\ \A r \in Request : rpc'[r] \in {rpc[r], "lost"}
    BY <1>3 DEF Crash, TypeOK
  <2>4. TypeOK'
    BY <1>3, <2>1, <2>2, <2>3 DEF Crash, TypeOK
  <2>. QED  BY <1>3, <2>3, <2>4, Elsewhere DEF Crash
<1>4. CASE UNCHANGED vars
  <2>1. TypeOK'
    BY <1>4 DEF vars, TypeOK
  <2>. QED  BY <1>4, <2>1, Elsewhere DEF vars
<1>5. ASSUME NEW l \in Loader, BeginReload(l) \/ ReloadStep(l) PROVE IInv'
  <2>1. TypeOK'
    BY <1>5, ReloadType
  <2>2. UNCHANGED <<rpc, route, result, predictions, cases>>
    BY <1>5 DEF BeginReload, ReloadStep, Lookup, Load, RegistryFails, Assign, SetModel, SetName,
                SetVersion, SetExplainer, ClearModel, ClearExplainer, ClearName, ClearVersion,
                EndReload
  <2>. QED  BY <2>1, <2>2, Elsewhere
<1>. QED  BY <1>1, <1>2, <1>3, <1>4, <1>5

(***************************************************************************)
(* Steps of a request                                                      *)
(***************************************************************************)

(* A step of r leaves the other requests alone.                            *)
LEMMA OneRequest ==
  ASSUME NEW r \in Request,
         \A q \in Request : InOrder(q),
         \A q \in Request \ {r} :
           /\ rpc'[q] = rpc[q] /\ route'[q] = route[q] /\ result'[q] = result[q]
           /\ predictions'[q] = predictions[q] /\ (q \in cases' <=> q \in cases),
         InOrder(r)'
  PROVE  \A q \in Request : InOrder(q)'
<1>. SUFFICES ASSUME NEW q \in Request \ {r} PROVE InOrder(q)'
  OBVIOUS
<1>. QED  BY DEF InOrder

(* The result of a handler that the rules, or the model, have scored.      *)
LEMMA Scored ==
  ASSUME TypeOK, NEW routed \in BOOLEAN
  PROVE  /\ LET x == [source |-> "fallback_rules", by |-> None, name |-> FallbackName,
                      version |-> FallbackVersion, routed |-> routed,
                    explained |-> None]
            IN x \in Result /\ Truthful(x)
         /\ state.model # None =>
              LET x == [source |-> "ml", by |-> state.model, name |-> None,
                        version |-> None, routed |-> routed,
                    explained |-> None]
              IN x \in Result /\ Truthful(x)
BY Distinct DEF TypeOK, ModelState, Result, Truthful

(* A step that gives r a new result, before anything is written.           *)
LEMMA ResultStep ==
  ASSUME IInv, NEW r \in Request, NEW x \in Result, Truthful(x), NEW next,
         next \in ByModel => x.source = "ml",
         \/ next \in {"name", "version"}
         \/ next = "write" /\ route[r] = "score"
         \/ next \in {"explainer", "answer"} /\ route[r] = "explain",
         rpc[r] \in {"check", "predict", "name", "version", "explain"},
         result' = [result EXCEPT ![r] = x],
         Goto(r, next), HandlerFrame, UNCHANGED tables
  PROVE  IInv'
<1>1. /\ rpc \in [Request -> Handling \cup {"new", "ok", "error", "lost"}]
      /\ result \in [Request -> Result \cup {None}]
      /\ route \in [Request -> {"score", "explain"}]
  BY DEF IInv, TypeOK
<1>2. /\ rpc' = [rpc EXCEPT ![r] = next]
      /\ UNCHANGED <<route, predictions, cases>>
  BY DEF Goto, HandlerFrame, tables
<1>3. next \in Handling
  BY DEF Handling
<1>4. TypeOK'
  BY <1>1, <1>2, <1>3 DEF IInv, TypeOK, HandlerFrame, bounds, ghosts
<1>5. rpc'[r] = next /\ result'[r] = x
  BY <1>1, <1>2
<1>6. InOrder(r)
  BY DEF IInv
<1>7. InOrder(r)'
  BY <1>2, <1>5, <1>6, Distinct DEF InOrder, Unwritten, HasResult, ByModel
<1>8. \A q \in Request \ {r} : rpc'[q] = rpc[q] /\ result'[q] = result[q]
  BY <1>1, <1>2
<1>9. \A q \in Request : InOrder(q)'
  BY <1>2, <1>7, <1>8, OneRequest DEF IInv
<1>. QED  BY <1>4, <1>9 DEF IInv

(* A step that only moves r on.                                            *)
LEMMA MoveStep ==
  ASSUME IInv, NEW r \in Request, NEW next \in Handling \cup {"ok", "error"},
         Goto(r, next), HandlerFrame, UNCHANGED <<result, tables>>, InOrder(r)'
  PROVE  IInv'
<1>1. rpc \in [Request -> Handling \cup {"new", "ok", "error", "lost"}]
  BY DEF IInv, TypeOK
<1>2. /\ rpc' = [rpc EXCEPT ![r] = next]
      /\ UNCHANGED <<route, result, predictions, cases>>
  BY DEF Goto, HandlerFrame, tables
<1>3. TypeOK'
  BY <1>1, <1>2 DEF IInv, TypeOK, HandlerFrame, bounds, ghosts
<1>4. \A q \in Request \ {r} : rpc'[q] = rpc[q]
  BY <1>1, <1>2
<1>5. \A q \in Request : InOrder(q)'
  BY <1>2, <1>4, OneRequest DEF IInv
<1>. QED  BY <1>3, <1>5 DEF IInv

LEMMA ReceiveStep ==
  ASSUME IInv, NEW r \in Request, Receive(r)
  PROVE  IInv'
<1>1. PICK kind \in {"score", "explain"} : route' = [route EXCEPT ![r] = kind]
  BY DEF Receive
<1>2. /\ rpc \in [Request -> Handling \cup {"new", "ok", "error", "lost"}]
      /\ route \in [Request -> {"score", "explain"}]
      /\ rpc' = [rpc EXCEPT ![r] = "check"] /\ rpc[r] = "new"
      /\ UNCHANGED <<result, predictions, cases>>
  BY DEF IInv, TypeOK, Receive, Goto, tables
<1>3. overlapped' \subseteq Request
  BY DEF IInv, TypeOK, Receive
<1>4. TypeOK'
  BY <1>1, <1>2, <1>3 DEF IInv, TypeOK, Receive, bounds, Handling, tables
<1>5. rpc'[r] = "check" /\ InOrder(r)
  BY <1>2 DEF IInv
<1>6. InOrder(r)'
  BY <1>2, <1>5 DEF InOrder, Unwritten, HasResult, ByModel
<1>7. \A q \in Request \ {r} : rpc'[q] = rpc[q] /\ route'[q] = route[q]
  BY <1>1, <1>2
<1>8. \A q \in Request : InOrder(q)'
  BY <1>2, <1>6, <1>7, OneRequest DEF IInv
<1>. QED  BY <1>4, <1>8 DEF IInv

LEMMA ScoringStep ==
  ASSUME IInv, NEW r \in Request,
         CheckModel(r) \/ Predict(r) \/ ReadName(r) \/ ReadVersion(r)
  PROVE  IInv'
<1>. TypeOK /\ InOrder(r) /\ route[r] \in {"score", "explain"}
  BY DEF IInv, TypeOK
<1>1. ASSUME rpc[r] \in {"check", "predict"}, ScoreByRules(r), HandlerFrame, UNCHANGED tables
      PROVE  IInv'
  <2>1. PICK routed \in BOOLEAN :
          result' = [result EXCEPT ![r] =
            [source |-> "fallback_rules", by |-> None, name |-> FallbackName,
             version |-> FallbackVersion, routed |-> routed,
                    explained |-> None]]
    BY <1>1 DEF ScoreByRules
  <2>. DEFINE x == [source |-> "fallback_rules", by |-> None, name |-> FallbackName,
                    version |-> FallbackVersion, routed |-> routed,
                    explained |-> None]
              next == IF route[r] = "score" THEN "write" ELSE "answer"
  <2>2. x \in Result /\ Truthful(x)
    BY Scored
  <2>3. result' = [result EXCEPT ![r] = x] /\ Goto(r, next) /\ next \notin ByModel
    BY <1>1, <2>1 DEF ScoreByRules, AfterScoring, ByModel
  <2>4. \/ next = "write" /\ route[r] = "score"
        \/ next = "answer" /\ route[r] = "explain"
    OBVIOUS
  <2>. HIDE DEF x, next
  <2>. QED  BY <1>1, <2>2, <2>3, <2>4, ResultStep
<1>2. ASSUME rpc[r] = "predict", state.model # None, NEW routed \in BOOLEAN,
             result' = [result EXCEPT ![r] =
               [source |-> "ml", by |-> state.model, name |-> None,
                version |-> None, routed |-> routed,
                    explained |-> None]],
             Goto(r, "name"), HandlerFrame, UNCHANGED tables
      PROVE  IInv'
  <2>. DEFINE x == [source |-> "ml", by |-> state.model, name |-> None,
                    version |-> None, routed |-> routed,
                    explained |-> None]
  <2>1. x \in Result /\ Truthful(x)
    BY <1>2, Scored
  <2>2. result' = [result EXCEPT ![r] = x] /\ x.source = "ml"
    BY <1>2
  <2>. HIDE DEF x
  <2>. QED  BY <1>2, <2>1, <2>2, ResultStep
<1>3. CASE CheckModel(r)
  <2>1. ASSUME Goto(r, "predict"), UNCHANGED result PROVE IInv'
    <3>1. rpc[r] = "check" /\ HandlerFrame /\ UNCHANGED tables
      BY <1>3 DEF CheckModel
    <3>2. rpc'[r] = "predict" /\ UNCHANGED <<route, result, predictions, cases>>
      BY <2>1, <3>1 DEF Goto, IInv, TypeOK, HandlerFrame, tables
    <3>3. InOrder(r)'
      BY <3>1, <3>2 DEF InOrder, HasResult, Unwritten, ByModel
    <3>. QED  BY <2>1, <3>1, <3>3, MoveStep DEF Handling
  <2>. QED  BY <1>1, <1>3, <2>1 DEF CheckModel
<1>4. CASE Predict(r)
  BY <1>1, <1>2, <1>4 DEF Predict
<1>5. CASE ReadName(r)
  <2>. DEFINE x == [result[r] EXCEPT !.name = state.name]
  <2>1. rpc[r] = "name" /\ result[r] \in Result /\ Truthful(result[r])
    BY <1>5 DEF ReadName, InOrder, HasResult
  <2>2. state.name \in {ActiveName, None}
    BY DEF TypeOK, ModelState
  <2>3. x \in Result
    BY <2>1, <2>2 DEF Result
  <2>4. result[r].source = "ml"
    BY <1>5 DEF ReadName, InOrder, ByModel
  <2>5. Truthful(x)
    BY <2>1, <2>2, <2>4, Distinct DEF Truthful, Result
  <2>6. result' = [result EXCEPT ![r] = x] /\ x.source = "ml"
    BY <1>5, <2>1, <2>4 DEF ReadName, TypeOK, Result
  <2>. HIDE DEF x
  <2>. QED  BY <1>5, <2>1, <2>3, <2>5, <2>6, ResultStep DEF ReadName
<1>6. CASE ReadVersion(r)
  <2>. DEFINE x == [result[r] EXCEPT !.version = state.version]
              next == IF route[r] = "score" THEN "write" ELSE "explainer"
  <2>1. rpc[r] = "version" /\ result[r] \in Result /\ Truthful(result[r])
    BY <1>6 DEF ReadVersion, InOrder, HasResult
  <2>2. state.version \in Version \cup {None}
    BY DEF TypeOK, ModelState
  <2>3. x \in Result
    BY <2>1, <2>2 DEF Result
  <2>4. result[r].source = "ml"
    BY <1>6 DEF ReadVersion, InOrder, ByModel
  <2>5. Truthful(x)
    BY <2>1, <2>4 DEF Truthful, Result
  <2>6. result' = [result EXCEPT ![r] = x] /\ Goto(r, next) /\ x.source = "ml"
    BY <1>6, <2>1, <2>4 DEF ReadVersion, TypeOK, AfterScoring, Result
  <2>7. \/ next = "write" /\ route[r] = "score"
        \/ next = "explainer" /\ route[r] = "explain"
    OBVIOUS
  <2>8. HandlerFrame /\ UNCHANGED tables
    BY <1>6 DEF ReadVersion
  <2>. HIDE DEF x, next
  <2>. QED  BY <2>1, <2>3, <2>5, <2>6, <2>7, <2>8, ResultStep
<1>. QED  BY <1>3, <1>4, <1>5, <1>6

LEMMA WritingStep ==
  ASSUME IInv, NEW r \in Request,
         WritePrediction(r) \/ CreateReviewCase(r)
  PROVE  IInv'
<1>. /\ TypeOK /\ InOrder(r)
     /\ rpc \in [Request -> Handling \cup {"new", "ok", "error", "lost"}]
     /\ predictions \in [Request -> Prediction \cup {None}] /\ cases \subseteq Request
  BY DEF IInv, TypeOK
<1>1. CASE WritePrediction(r)
  <2>. DEFINE next == IF result[r].routed THEN "case" ELSE "answer"
  <2>1. /\ rpc[r] = "write" /\ Storable(r)
        /\ predictions' = [predictions EXCEPT ![r] = result[r]]
        /\ rpc' = [rpc EXCEPT ![r] = next]
        /\ UNCHANGED <<route, result, cases>>
    BY <1>1 DEF WritePrediction, Goto, HandlerFrame
  <2>2. result[r] \in Result /\ Truthful(result[r]) /\ route[r] = "score"
    BY <2>1 DEF InOrder, HasResult
  <2>3. result[r] \in Prediction /\ next \in Handling
    BY <2>1, <2>2 DEF Prediction, Storable, Handling
  <2>4. TypeOK'
    BY <1>1, <2>1, <2>3 DEF TypeOK, WritePrediction, HandlerFrame, bounds, ghosts
  <2>5. rpc'[r] = next /\ predictions'[r] = result[r]
    BY <2>1
  <2>6. r \notin cases
    BY <2>1 DEF InOrder, Unwritten
  <2>7. result[r].routed \in BOOLEAN
    BY <2>2 DEF Result
  <2>8. InOrder(r)'
    <3>1. CASE result[r].routed
      BY <2>1, <2>2, <2>5, <2>6, <3>1, Distinct DEF InOrder, HasResult, Unwritten, ByModel
    <3>2. CASE ~result[r].routed
      BY <2>1, <2>2, <2>5, <2>6, <3>2, Distinct DEF InOrder, HasResult, Unwritten, ByModel
    <3>. QED  BY <3>1, <3>2
  <2>9. \A q \in Request \ {r} : rpc'[q] = rpc[q] /\ predictions'[q] = predictions[q]
    BY <2>1
  <2>10. \A q \in Request : InOrder(q)'
    BY <2>1, <2>8, <2>9, OneRequest DEF IInv
  <2>. QED  BY <2>4, <2>10 DEF IInv
<1>2. CASE CreateReviewCase(r)
  <2>1. /\ rpc[r] = "case" /\ cases' = cases \cup {r}
        /\ rpc' = [rpc EXCEPT ![r] = "answer"]
        /\ UNCHANGED <<route, result, predictions>>
    BY <1>2 DEF CreateReviewCase, Goto, HandlerFrame
  <2>2. TypeOK'
    BY <1>2, <2>1 DEF TypeOK, CreateReviewCase, HandlerFrame, bounds, ghosts, Handling
  <2>3. rpc'[r] = "answer" /\ r \in cases'
    BY <2>1
  <2>4. /\ result[r] \in Result /\ Truthful(result[r])
        /\ predictions[r] = result[r] /\ result[r].routed
    BY <2>1 DEF InOrder, HasResult
  <2>5. InOrder(r)'
    BY <2>1, <2>3, <2>4, Distinct DEF InOrder, HasResult, Unwritten, ByModel
  <2>6. \A q \in Request \ {r} : rpc'[q] = rpc[q] /\ (q \in cases' <=> q \in cases)
    BY <2>1
  <2>7. \A q \in Request : InOrder(q)'
    BY <2>1, <2>5, <2>6, OneRequest DEF IInv
  <2>. QED  BY <2>2, <2>7 DEF IInv
<1>. QED  BY <1>1, <1>2

LEMMA MovingStep ==
  ASSUME IInv, NEW r \in Request,
         DatabaseError(r) \/ CheckExplainer(r) \/ Answer(r)
  PROVE  IInv'
<1>. USE DEF HandlerFrame, tables
<1>1. /\ InOrder(r) /\ route[r] \in {"score", "explain"}
      /\ rpc \in [Request -> Handling \cup {"new", "ok", "error", "lost"}]
  BY DEF IInv, TypeOK
<1>2. HandlerFrame /\ UNCHANGED <<result, tables>>
  BY DEF DatabaseError, CheckExplainer, Answer
<1>3. CASE DatabaseError(r)
  <2>1. rpc[r] \in {"write", "case"} /\ Goto(r, "error")
    BY <1>3 DEF DatabaseError
  <2>2. rpc'[r] = "error"
    BY <1>1, <2>1 DEF Goto
  <2>3. InOrder(r)'
    BY <1>1, <1>2, <2>1, <2>2 DEF InOrder, HasResult, Unwritten, ByModel
  <2>. QED  BY <1>2, <2>1, <2>3, MoveStep
<1>4. CASE CheckExplainer(r)
  <2>1. rpc[r] = "explainer" /\ \E next \in {"answer", "explain"} : Goto(r, next)
    BY <1>4 DEF CheckExplainer
  <2>2. PICK next \in {"answer", "explain"} : Goto(r, next)
    BY <2>1
  <2>3. rpc'[r] = next
    BY <1>1, <2>2 DEF Goto
  <2>4. InOrder(r)'
    BY <1>1, <1>2, <2>1, <2>3 DEF InOrder, HasResult, Unwritten, ByModel
  <2>. QED  BY <1>2, <2>2, <2>4, MoveStep DEF Handling
<1>5. CASE Answer(r)
  <2>1. rpc[r] = "answer" /\ \E next \in {"ok", "error"} : Goto(r, next)
    BY <1>5 DEF Answer
  <2>2. PICK next \in {"ok", "error"} : Goto(r, next)
    BY <2>1
  <2>3. rpc'[r] = next
    BY <1>1, <2>2 DEF Goto
  <2>4. InOrder(r)'
    BY <1>1, <1>2, <2>1, <2>3 DEF InOrder, HasResult, Unwritten, ByModel
  <2>. QED  BY <1>2, <2>2, <2>4, MoveStep
<1>. QED  BY <1>3, <1>4, <1>5

LEMMA ExplainStep ==
  ASSUME IInv, NEW r \in Request, Explain(r)
  PROVE  IInv'
<1>1. /\ InOrder(r) /\ TypeOK /\ rpc[r] = "explain"
      /\ rpc \in [Request -> Handling \cup {"new", "ok", "error", "lost"}]
      /\ HandlerFrame /\ UNCHANGED tables
  BY DEF IInv, TypeOK, Explain
<1>2. ASSUME Goto(r, "error"), UNCHANGED result PROVE IInv'
  <2>1. /\ rpc'[r] = "error"
        /\ UNCHANGED <<route, result, predictions, cases>>
    BY <1>1, <1>2 DEF Goto, HandlerFrame, tables
  <2>2. InOrder(r)'
    BY <1>1, <2>1 DEF InOrder, HasResult, Unwritten, ByModel
  <2>. QED  BY <1>1, <1>2, <2>2, MoveStep
<1>3. ASSUME state.explainer # None, Goto(r, "answer"),
             result' = [result EXCEPT ![r].explained = state.explainer]
      PROVE  IInv'
  <2>. DEFINE x == [result[r] EXCEPT !.explained = state.explainer]
  <2>1. result[r] \in Result /\ Truthful(result[r]) /\ route[r] = "explain"
    BY <1>1 DEF InOrder, HasResult
  <2>2. x \in Result
    BY <1>1, <2>1 DEF TypeOK, ModelState, Result
  <2>3. Truthful(x)
    BY <2>1 DEF Truthful, Result
  <2>4. result' = [result EXCEPT ![r] = x]
    BY <1>1, <1>3 DEF TypeOK
  <2>. HIDE DEF x
  <2>. QED  BY <1>1, <1>3, <2>1, <2>2, <2>3, <2>4, ResultStep DEF ByModel
<1>. QED  BY <1>2, <1>3 DEF Explain

(***************************************************************************)
(* The theorems                                                            *)
(***************************************************************************)

LEMMA InitIInv == Init => IInv
<1>. SUFFICES ASSUME Init PROVE IInv
  OBVIOUS
<1>1. promotions \in 0..MaxPromotions /\ crashes \in 0..MaxCrashes
  BY ServiceAssumption DEF Init
<1>2. state \in ModelState
  BY DEF Init, NoModel, ModelState
<1>3. TypeOK
  BY <1>1, <1>2 DEF Init, TypeOK
<1>4. \A r \in Request : InOrder(r)
  BY DEF Init, InOrder, HasResult, Unwritten, ByModel
<1>. QED  BY <1>3, <1>4 DEF IInv

LEMMA NextIInv == IInv /\ [Next]_vars => IInv'
<1>. SUFFICES ASSUME IInv, [Next]_vars PROVE IInv'
  OBVIOUS
<1>1. ASSUME NEW r \in Request, Receive(r) \/ HandlerStep(r) PROVE IInv'
  BY <1>1, ReceiveStep, ScoringStep, WritingStep, MovingStep, ExplainStep DEF HandlerStep
<1>2. CASE \/ \E v \in Version \cup {None} : ChangeProduction(v)
           \/ BootProcess \/ Crash \/ UNCHANGED vars
           \/ \E l \in Loader : BeginReload(l) \/ ReloadStep(l)
  BY <1>2, OutsideStep
<1>. QED  BY <1>1, <1>2 DEF Next

LEMMA Invariance == Spec => []IInv
BY InitIInv, NextIInv, PTL DEF Spec

(* The types of every variable, and the columns of predictions: no row     *)
(* without a model name and version is ever stored.                        *)
THEOREM TypeCorrect == Spec => []TypeOK
<1>1. IInv => TypeOK
  BY DEF IInv
<1>. QED  BY <1>1, Invariance, PTL

(* An answered /score is on record with the answer, and has a case exactly *)
(* when the client was told routed_to_review, whatever fails, reloads or   *)
(* dies meanwhile.                                                         *)
THEOREM Recorded == Spec => []AnsweredRecorded
<1>1. IInv => AnsweredRecorded
  BY DEF IInv, InOrder, AnsweredRecorded
<1>. QED  BY <1>1, Invariance, PTL

(* Although the prediction and its case are two transactions, no case is   *)
(* without a prediction that was routed to review.                         *)
THEOREM Predicted == Spec => []CasesArePredicted
<1>1. IInv => CasesArePredicted
  BY DEF IInv, TypeOK, InOrder, CasesArePredicted
<1>. QED  BY <1>1, Invariance, PTL

(* A stored row says "ml" only of a score a model computed, under the name *)
(* of the active model, and the rules' rows carry the rules' name, for any *)
(* interleaving of reloads with the requests.                              *)
THEOREM Sourced == Spec => []SourceTruthful
<1>1. ASSUME IInv, NEW r \in Request, predictions[r] # None
      PROVE  IF predictions[r].source = "ml"
               THEN predictions[r].by # None /\ predictions[r].name = ActiveName
               ELSE /\ predictions[r].by = None
                    /\ predictions[r].name = FallbackName
                    /\ predictions[r].version = FallbackVersion
  <2>1. predictions[r] \in Prediction /\ Truthful(predictions[r])
    BY <1>1 DEF IInv, TypeOK, InOrder
  <2>2. /\ predictions[r].name \in {ActiveName, FallbackName, None}
        /\ predictions[r].name # None
    BY <2>1 DEF Prediction, Result
  <2>. QED  BY <2>1, <2>2 DEF Truthful
<1>2. IInv => SourceTruthful
  BY <1>1 DEF SourceTruthful
<1>. QED  BY <1>2, Invariance, PTL

(***************************************************************************)
(* Quiet requests.  What ModelState holds at each place of a reload, while *)
(* no reload has begun during another; and what a request that no reload   *)
(* overlapped has read of it.                                              *)
(***************************************************************************)
Idle == \A l \in Loader : lpc[l] = "idle"

(* A start-up, a reload and a request each know whether the replica is up. *)
BootFirst ==
  /\ lpc[Boot] # "idle" => ~up
  /\ ~up => \A l \in Reloader : lpc[l] = "idle"
  /\ ~up => \A r \in Request : rpc[r] \notin Handling

Alone ==
  ~collided =>
    \A l, k \in Loader : lpc[l] # "idle" /\ lpc[k] # "idle" => l = k

(* The attributes describe one load of one model. *)
Settled ==
  /\ state.model = None =>
       state.name = None /\ state.version = None /\ state.explainer = None
  /\ state.model # None =>
       /\ state.name = ActiveName /\ state.version # None
       /\ state.explainer \in {None, state.model}
  /\ ~overtaken => state.version = state.model

Converged == fresh => state.model = production /\ state.version = production

Setting  == {"set_model", "set_name", "set_version", "set_explainer"}
Clearing == {"clear_model", "clear_explainer", "clear_name", "clear_version"}

(* The clauses follow the assignments of reload(). *)
InReload(l) ==
  /\ lpc[l] \in {"lookup", "loaded"} => Settled /\ Converged
  /\ lpc[l] \in {"load", "set_model", "clear_model"} => Settled
  /\ lpc[l] \in {"load"} \cup Setting =>
       found[l] # None /\ (fresh => found[l] = production)
  /\ lpc[l] \in Setting =>
       /\ loaded[l] # None
       /\ ~overtaken => loaded[l] = found[l]
       /\ fresh => loaded[l] = production
  /\ lpc[l] \in Setting \ {"set_model"} => state.model = loaded[l]
  /\ lpc[l] \in {"set_version", "set_explainer"} => state.name = ActiveName
  /\ lpc[l] = "set_explainer" => state.version = found[l]
  /\ lpc[l] \in Clearing => (fresh => production = None)
  /\ lpc[l] \in Clearing \ {"clear_model"} => state.model = None
  /\ lpc[l] \in {"clear_name", "clear_version"} => state.explainer = None
  /\ lpc[l] = "clear_version" => state.name = None

LoadersOK ==
  /\ BootFirst /\ Alone
  /\ ~collided => /\ Idle => Settled /\ Converged
                  /\ \A l \in Loader : InReload(l)

Labelled == {"write", "case", "explainer", "explain", "answer"}

(* What a request in flight has read is what ModelState still holds. *)
InFlightQuiet(r) ==
  /\ rpc[r] = "predict" => state.model # None
  /\ rpc[r] \in {"name", "version"} => result[r].by = state.model
  /\ rpc[r] = "version" => result[r].name = ActiveName
  /\ rpc[r] \in Labelled /\ result[r].source = "ml" =>
       /\ result[r].by = state.model
       /\ result[r].name = ActiveName /\ result[r].version = state.version
  /\ rpc[r] = "explain" => state.explainer # None

(* What stays of a request when it has ended. *)
Kept(r) ==
  /\ result[r] # None /\ result[r].explained # None
       => result[r].explained = result[r].by
  /\ ~overtaken /\ predictions[r] # None /\ predictions[r].source = "ml"
       => predictions[r].version = predictions[r].by

Quiet(r) ==
  r \notin overlapped =>
    /\ rpc[r] \in Handling => Idle
    /\ ~collided => InFlightQuiet(r) /\ Kept(r)

QInv == IInv /\ LoadersOK /\ \A r \in Request : Quiet(r)

(***************************************************************************)
(* Steps that leave the loaders alone, and steps of a loader               *)
(***************************************************************************)
LEMMA LoadersElsewhere ==
  ASSUME LoadersOK,
         UNCHANGED <<production, state, up, lpc, found, loaded, fresh, overtaken, collided>>,
         \A r \in Request : rpc'[r] \in Handling => up
  PROVE  LoadersOK'
<1>1. BootFirst' /\ Alone'
  BY DEF LoadersOK, BootFirst, Alone
<1>2. (Settled' <=> Settled) /\ (Converged' <=> Converged) /\ (Idle' <=> Idle)
  BY DEF Settled, Converged, Idle
<1>3. \A l \in Loader : InReload(l)' <=> InReload(l)
  BY <1>2 DEF InReload
<1>. QED  BY <1>1, <1>2, <1>3 DEF LoadersOK

(* The other loaders are idle, unless reloads have collided.               *)
LEMMA LoaderMoves ==
  ASSUME IInv, LoadersOK, NEW l \in Loader, lpc[l] # "idle", NEW next \in Loading,
         lpc' = [lpc EXCEPT ![l] = next], UNCHANGED <<up, rpc, collided>>,
         ~collided => InReload(l)'
  PROVE  LoadersOK'
<1>1. lpc \in [Loader -> Loading \cup {"idle"}] /\ "idle" \notin Loading
  BY DEF IInv, TypeOK, Loading
<1>2. lpc'[l] = next /\ \A k \in Loader \ {l} : lpc'[k] = lpc[k]
  BY <1>1
<1>3. \A k \in Loader : lpc'[k] = "idle" <=> lpc[k] = "idle"
  BY <1>1, <1>2
<1>4. Boot \in Loader /\ Reloader \subseteq Loader
  BY DEF Loader
<1>5. BootFirst' /\ Alone'
  BY <1>3, <1>4 DEF LoadersOK, BootFirst, Alone
<1>6. ASSUME ~collided, NEW k \in Loader \ {l} PROVE InReload(k)'
  <2>1. lpc'[k] = "idle"
    BY <1>3, <1>6 DEF LoadersOK, Alone
  <2>. QED  BY <2>1 DEF InReload, Setting, Clearing
<1>7. ~Idle'
  BY <1>3 DEF Idle
<1>. QED  BY <1>5, <1>6, <1>7 DEF LoadersOK

LEMMA ReloadKeeps ==
  ASSUME IInv, LoadersOK, NEW l \in Loader, ReloadStep(l)
  PROVE  LoadersOK'
<1>. USE DEF Setting, Clearing
<1>1. /\ lpc \in [Loader -> Loading \cup {"idle"}]
      /\ found \in [Loader -> Version \cup {None}] /\ loaded \in [Loader -> Version \cup {None}]
      /\ state \in ModelState /\ overtaken \in BOOLEAN /\ fresh \in BOOLEAN
  BY DEF IInv, TypeOK
<1>2. ~collided => InReload(l)
  BY DEF LoadersOK
<1>3. CASE Lookup(l)
  <2>1. PICK next \in {"clear_model", "load"} :
          /\ lpc' = [lpc EXCEPT ![l] = next]
          /\ next = "load" <=> production # None
    BY <1>3 DEF Lookup
  <2>2. /\ lpc[l] = "lookup" /\ found'[l] = production /\ lpc'[l] = next
        /\ UNCHANGED <<production, state, up, rpc, collided, overtaken>>
    BY <1>1, <1>3, <2>1 DEF Lookup
  <2>3. ~collided => InReload(l)'
    BY <1>2, <2>1, <2>2 DEF InReload, Settled
  <2>. QED  BY <2>1, <2>2, <2>3, LoaderMoves DEF Loading
<1>4. CASE Load(l)
  <2>1. /\ lpc[l] = "load" /\ production # None /\ loaded'[l] = production
        /\ lpc' = [lpc EXCEPT ![l] = "set_model"] /\ lpc'[l] = "set_model"
        /\ overtaken' = (overtaken \/ production # found[l])
        /\ UNCHANGED <<production, state, up, rpc, collided, fresh, found>>
    BY <1>1, <1>4 DEF Load
  <2>2. ~collided => InReload(l)'
    BY <1>2, <2>1 DEF InReload, Settled
  <2>. QED  BY <2>1, <2>2, LoaderMoves DEF Loading
<1>5. CASE RegistryFails(l)
  <2>1. /\ lpc[l] \in {"lookup", "load"} /\ ~fresh'
        /\ lpc' = [lpc EXCEPT ![l] = "clear_model"] /\ lpc'[l] = "clear_model"
        /\ UNCHANGED <<production, state, up, rpc, collided, overtaken>>
    BY <1>1, <1>5 DEF RegistryFails
  <2>2. ~collided => InReload(l)'
    BY <1>2, <2>1 DEF InReload, Settled
  <2>. QED  BY <2>1, <2>2, LoaderMoves DEF Loading
<1>6. ASSUME NEW here \in Loading, NEW s, NEW next \in Loading, Assign(l, here, s, next)
      PROVE  /\ lpc[l] = here /\ lpc' = [lpc EXCEPT ![l] = next] /\ lpc'[l] = next /\ state' = s
             /\ UNCHANGED <<production, up, rpc, collided, overtaken, fresh, found, loaded>>
  BY <1>1, <1>6 DEF Assign, ghosts
<1>7. state = [model |-> state.model, name |-> state.name, version |-> state.version,
               explainer |-> state.explainer]
  BY <1>1 DEF ModelState
<1>8. CASE SetModel(l)
  <2>1. Assign(l, "set_model", [state EXCEPT !.model = loaded[l]], "set_name")
    BY <1>8 DEF SetModel
  <2>2. state'.model = loaded[l]
    BY <1>6, <1>7, <2>1 DEF Loading
  <2>3. ~collided => InReload(l)'
    BY <1>2, <1>6, <2>1, <2>2 DEF InReload, Loading
  <2>. QED  BY <1>6, <2>1, <2>3, LoaderMoves DEF Loading
<1>9. CASE SetName(l)
  <2>1. Assign(l, "set_name", [state EXCEPT !.name = ActiveName], "set_version")
    BY <1>9 DEF SetName
  <2>2. state'.name = ActiveName /\ state'.model = state.model
    BY <1>6, <1>7, <2>1 DEF Loading
  <2>3. ~collided => InReload(l)'
    BY <1>2, <1>6, <2>1, <2>2 DEF InReload, Loading
  <2>. QED  BY <1>6, <2>1, <2>3, LoaderMoves DEF Loading
<1>10. CASE SetVersion(l)
  <2>1. Assign(l, "set_version", [state EXCEPT !.version = found[l]], "set_explainer")
    BY <1>10 DEF SetVersion
  <2>2. state'.name = state.name /\ state'.model = state.model /\ state'.version = found[l]
    BY <1>6, <1>7, <2>1 DEF Loading
  <2>3. ~collided => InReload(l)'
    BY <1>2, <1>6, <2>1, <2>2 DEF InReload, Loading
  <2>. QED  BY <1>6, <2>1, <2>3, LoaderMoves DEF Loading
<1>11. CASE SetExplainer(l)
  <2>1. PICK e \in {loaded[l], None} :
          Assign(l, "set_explainer", [state EXCEPT !.explainer = e], "loaded")
    BY <1>11 DEF SetExplainer
  <2>2. /\ state'.name = state.name /\ state'.model = state.model
        /\ state'.version = state.version /\ state'.explainer = e
    BY <1>6, <1>7, <2>1 DEF Loading
  <2>3. ~collided => InReload(l)'
    BY <1>2, <1>6, <2>1, <2>2 DEF InReload, Settled, Converged, Loading
  <2>. QED  BY <1>6, <2>1, <2>3, LoaderMoves DEF Loading
<1>12. CASE ClearModel(l)
  <2>1. Assign(l, "clear_model", [state EXCEPT !.model = None], "clear_explainer")
    BY <1>12 DEF ClearModel
  <2>2. state'.model = None
    BY <1>6, <1>7, <2>1 DEF Loading
  <2>3. ~collided => InReload(l)'
    BY <1>2, <1>6, <2>1, <2>2 DEF InReload, Loading
  <2>. QED  BY <1>6, <2>1, <2>3, LoaderMoves DEF Loading
<1>13. CASE ClearExplainer(l)
  <2>1. Assign(l, "clear_explainer", [state EXCEPT !.explainer = None], "clear_name")
    BY <1>13 DEF ClearExplainer
  <2>2. state'.model = state.model /\ state'.explainer = None
    BY <1>6, <1>7, <2>1 DEF Loading
  <2>3. ~collided => InReload(l)'
    BY <1>2, <1>6, <2>1, <2>2 DEF InReload, Loading
  <2>. QED  BY <1>6, <2>1, <2>3, LoaderMoves DEF Loading
<1>14. CASE ClearName(l)
  <2>1. Assign(l, "clear_name", [state EXCEPT !.name = None], "clear_version")
    BY <1>14 DEF ClearName
  <2>2. state'.model = state.model /\ state'.explainer = state.explainer /\ state'.name = None
    BY <1>6, <1>7, <2>1 DEF Loading
  <2>3. ~collided => InReload(l)'
    BY <1>2, <1>6, <2>1, <2>2 DEF InReload, Loading
  <2>. QED  BY <1>6, <2>1, <2>3, LoaderMoves DEF Loading
<1>15. CASE ClearVersion(l)
  <2>1. Assign(l, "clear_version", [state EXCEPT !.version = None], "loaded")
    BY <1>15 DEF ClearVersion
  <2>2. /\ state'.model = state.model /\ state'.explainer = state.explainer
        /\ state'.name = state.name /\ state'.version = None
    BY <1>6, <1>7, <2>1 DEF Loading
  <2>3. ~collided => InReload(l)'
    BY <1>2, <1>6, <2>1, <2>2 DEF InReload, Settled, Converged, Loading
  <2>. QED  BY <1>6, <2>1, <2>3, LoaderMoves DEF Loading
<1>16. CASE EndReload(l)
  <2>1. /\ lpc[l] = "loaded" /\ lpc' = [lpc EXCEPT ![l] = "idle"] /\ lpc'[l] = "idle"
        /\ IF l = Boot THEN up' ELSE UNCHANGED up
        /\ UNCHANGED <<production, state, rpc, collided, overtaken, fresh>>
    BY <1>1, <1>16 DEF EndReload, ghosts
  <2>2. \A k \in Loader : lpc'[k] # "idle" => k # l /\ lpc[k] # "idle"
    BY <1>1, <2>1
  <2>3. Boot \in Loader /\ Reloader \subseteq Loader
    BY DEF Loader
  <2>4. BootFirst'
    BY <2>1, <2>2, <2>3 DEF LoadersOK, BootFirst
  <2>5. Alone'
    BY <2>1, <2>2 DEF LoadersOK, Alone
  <2>6. ~collided => Settled' /\ Converged'
    BY <1>2, <2>1 DEF InReload, Settled, Converged
  <2>7. ASSUME ~collided, NEW k \in Loader PROVE InReload(k)'
    <3>1. lpc'[k] = "idle"
      BY <2>1, <2>2, <2>7 DEF LoadersOK, Alone
    <3>. QED  BY <3>1 DEF InReload
  <2>. QED  BY <2>1, <2>4, <2>5, <2>6, <2>7 DEF LoadersOK
<1>. QED  BY <1>3, <1>4, <1>5, <1>8, <1>9, <1>10, <1>11, <1>12, <1>13, <1>14, <1>15, <1>16
          DEF ReloadStep

LEMMA BeginKeeps ==
  ASSUME IInv, LoadersOK, NEW l \in Loader,
         BeginReload(l) \/ (l = Boot /\ BootProcess)
  PROVE  LoadersOK'
<1>1. /\ lpc \in [Loader -> Loading \cup {"idle"}] /\ Boot \in Loader /\ Boot \notin Reloader
      /\ Reloader \subseteq Loader
  BY ServiceAssumption DEF IInv, TypeOK, Loader
<1>2. /\ lpc[l] = "idle" /\ lpc' = [lpc EXCEPT ![l] = "lookup"]
      /\ UNCHANGED <<production, state, up, rpc, overtaken, fresh>>
      /\ IF up THEN l \in Reloader ELSE l = Boot
  BY DEF BeginReload, BootProcess, ghosts
<1>3. lpc'[l] = "lookup" /\ \A k \in Loader \ {l} : lpc'[k] = lpc[k]
  BY <1>1, <1>2
<1>4. BootFirst'
  BY <1>1, <1>2, <1>3 DEF LoadersOK, BootFirst
<1>5. ~collided' => ~collided /\ Idle
  <2>1. CASE BeginReload(l)
    BY <2>1 DEF BeginReload, Reloading, Idle
  <2>2. CASE l = Boot /\ BootProcess
    <3>1. \A k \in Loader : lpc[k] = "idle"
      BY <2>2 DEF BootProcess, LoadersOK, BootFirst, Loader
    <3>. QED  BY <2>2, <3>1 DEF BootProcess, ghosts, Idle
  <2>. QED  BY <2>1, <2>2
<1>6. \A k \in Loader \ {l} : ~collided' => lpc'[k] = "idle"
  BY <1>3, <1>5 DEF Idle
<1>7. Alone'
  BY <1>6 DEF Alone
<1>8. ~collided' => Settled' /\ Converged'
  BY <1>2, <1>5 DEF LoadersOK, Settled, Converged
<1>9. ASSUME ~collided', NEW k \in Loader PROVE InReload(k)'
  BY <1>3, <1>6, <1>8, <1>9 DEF InReload, Setting, Clearing
<1>. QED  BY <1>4, <1>7, <1>8, <1>9 DEF LoadersOK

LEMMA LoadersKept ==
  ASSUME IInv, LoadersOK, [Next]_vars
  PROVE  LoadersOK'
<1>1. ASSUME NEW v \in Version \cup {None}, ChangeProduction(v) PROVE LoadersOK'
  <2>1. UNCHANGED <<state, up, lpc, found, loaded, rpc, overtaken, collided>> /\ ~fresh'
    BY <1>1 DEF ChangeProduction, threads
  <2>2. BootFirst' /\ Alone'
    BY <2>1 DEF LoadersOK, BootFirst, Alone
  <2>3. (Settled => Settled') /\ Converged' /\ (Idle' <=> Idle)
    BY <2>1 DEF Settled, Converged, Idle
  <2>4. \A l \in Loader : InReload(l) => InReload(l)'
    BY <2>1, <2>3 DEF InReload
  <2>. QED  BY <2>1, <2>2, <2>3, <2>4 DEF LoadersOK
<1>2. CASE BootProcess
  BY <1>2, BeginKeeps DEF Loader
<1>3. ASSUME NEW l \in Loader, BeginReload(l) \/ ReloadStep(l) PROVE LoadersOK'
  BY <1>3, BeginKeeps, ReloadKeeps
<1>4. ASSUME NEW r \in Request, Receive(r) \/ HandlerStep(r) PROVE LoadersOK'
  <2>1. rpc \in [Request -> Handling \cup {"new", "ok", "error", "lost"}]
    BY DEF IInv, TypeOK
  <2>2. /\ UNCHANGED <<production, state, up, lpc, found, loaded, fresh, overtaken, collided>>
        /\ \E next : rpc' = [rpc EXCEPT ![r] = next]
        /\ rpc[r] \in Handling \/ up
    BY <1>4 DEF Receive, HandlerStep, CheckModel, Predict, ReadName, ReadVersion, ScoreByRules,
                WritePrediction, CreateReviewCase, DatabaseError, CheckExplainer, Explain, Answer,
                HandlerFrame, Goto, ghosts, Handling
  <2>3. up
    BY <2>2 DEF LoadersOK, BootFirst
  <2>. QED  BY <2>2, <2>3, LoadersElsewhere
<1>5. CASE Crash
  <2>1. /\ ~up' /\ ~fresh' /\ state' = NoModel
        /\ \A l \in Loader : lpc'[l] = "idle"
        /\ \A r \in Request : rpc'[r] \notin Handling
    <3>1. \A r \in Request : rpc'[r] = IF rpc[r] \in Handling THEN "lost" ELSE rpc[r]
      BY <1>5 DEF Crash
    <3>. QED  BY <1>5, <3>1 DEF Crash, Handling
  <2>2. BootFirst' /\ Alone'
    BY <2>1 DEF BootFirst, Alone, Loader
  <2>3. Settled' /\ Converged'
    BY <2>1 DEF Settled, Converged, NoModel
  <2>4. \A l \in Loader : InReload(l)'
    BY <2>1 DEF InReload, Setting, Clearing
  <2>. QED  BY <2>2, <2>3, <2>4 DEF LoadersOK
<1>6. CASE UNCHANGED vars
  <2>1. \A r \in Request : rpc'[r] \in Handling => up
    BY <1>6 DEF LoadersOK, BootFirst, vars, threads
  <2>. QED  BY <1>6, <2>1, LoadersElsewhere DEF vars, threads, ghosts
<1>. QED  BY <1>1, <1>2, <1>3, <1>4, <1>5, <1>6 DEF Next

(***************************************************************************)
(* Quiet requests under each step                                          *)
(***************************************************************************)

(* What is left of a request that is not in flight, and stays so.          *)
LEMMA QuietEnded ==
  ASSUME NEW r \in Request, Quiet(r), rpc'[r] \notin Handling,
         UNCHANGED <<result, predictions>>,
         overtaken => overtaken', collided => collided',
         r \in overlapped => r \in overlapped'
  PROVE  Quiet(r)'
BY DEF Quiet, InFlightQuiet, Kept, Handling, Labelled

LEMMA QuietElsewhere ==
  ASSUME IInv, LoadersOK, \A r \in Request : Quiet(r),
         \/ \E v \in Version \cup {None} : ChangeProduction(v)
         \/ BootProcess \/ Crash \/ UNCHANGED vars
         \/ \E l \in Loader : BeginReload(l) \/ ReloadStep(l)
  PROVE  \A r \in Request : Quiet(r)'
<1>. SUFFICES ASSUME NEW r \in Request PROVE Quiet(r)'
  OBVIOUS
<1>. Quiet(r)
  OBVIOUS
<1>1. CASE UNCHANGED vars \/ \E v \in Version \cup {None} : ChangeProduction(v)
  <2>1. UNCHANGED <<state, lpc, rpc, result, predictions, overtaken, overlapped, collided>>
    BY <1>1 DEF ChangeProduction, threads, tables, vars, ghosts
  <2>. QED  BY <2>1 DEF Quiet, InFlightQuiet, Kept, Idle
<1>2. CASE BootProcess
  <2>1. rpc[r] \notin Handling
    BY <1>2 DEF BootProcess, LoadersOK, BootFirst
  <2>. QED  BY <1>2, <2>1, QuietEnded DEF BootProcess, ghosts, tables
<1>3. CASE Crash
  <2>1. rpc'[r] \notin Handling
    BY <1>3 DEF Crash, Handling
  <2>. QED  BY <1>3, <2>1, QuietEnded DEF Crash, tables
<1>4. ASSUME NEW l \in Loader, BeginReload(l) PROVE Quiet(r)'
  <2>1. CASE rpc[r] \in Handling
    BY <1>4, <2>1 DEF BeginReload, InFlight, Quiet
  <2>2. CASE rpc[r] \notin Handling
    BY <1>4, <2>2, QuietEnded DEF BeginReload, tables
  <2>. QED  BY <2>1, <2>2
<1>5. ASSUME NEW l \in Loader, ReloadStep(l) PROVE Quiet(r)'
  <2>1. /\ lpc[l] # "idle"
        /\ UNCHANGED <<rpc, result, predictions, overlapped, collided>>
        /\ overtaken => overtaken'
    <3>1. CASE Lookup(l) \/ RegistryFails(l)
      BY <3>1 DEF Lookup, RegistryFails, tables
    <3>5. CASE Load(l)
      <4>1. /\ lpc[l] # "idle"
            /\ UNCHANGED <<rpc, result, predictions, overlapped, collided>>
        BY <3>5 DEF Load, tables
      <4>2. overtaken => overtaken'
        BY <3>5, Zenon DEF Load
      <4>. QED  BY <4>1, <4>2
    <3>2. CASE SetModel(l) \/ SetName(l) \/ SetVersion(l) \/ SetExplainer(l)
      BY <3>2 DEF SetModel, SetName, SetVersion, SetExplainer, Assign, tables, ghosts
    <3>3. CASE ClearModel(l) \/ ClearExplainer(l) \/ ClearName(l) \/ ClearVersion(l)
      BY <3>3 DEF ClearModel, ClearExplainer, ClearName, ClearVersion, Assign, tables, ghosts
    <3>4. CASE EndReload(l)
      BY <3>4 DEF EndReload, tables, ghosts
    <3>. QED  BY <1>5, <3>1, <3>2, <3>3, <3>4, <3>5 DEF ReloadStep
  <2>2. CASE r \in overlapped
    BY <2>1, <2>2 DEF Quiet
  <2>3. CASE r \notin overlapped
    <3>1. rpc[r] \notin Handling
      BY <2>1, <2>3 DEF Quiet, Idle
    <3>. QED  BY <2>1, <3>1, QuietEnded
  <2>. QED  BY <2>2, <2>3
<1>. QED  BY <1>1, <1>2, <1>3, <1>4, <1>5

LEMMA QuietReceive ==
  ASSUME IInv, NEW r \in Request, Quiet(r), Receive(r)
  PROVE  Quiet(r)'
<1>1. /\ rpc'[r] = "check" /\ UNCHANGED <<lpc, result, predictions, overtaken, collided>>
      /\ r \notin overlapped' => r \notin overlapped /\ Idle
  BY DEF Receive, Goto, IInv, TypeOK, tables, Reloading, Idle
<1>. QED  BY <1>1 DEF Quiet, InFlightQuiet, Kept, Labelled, Idle

(* A request that no reload overlapped reads attributes that are Settled,  *)
(* and ModelState stays what it was when the request read it.              *)
LEMMA QuietStep ==
  ASSUME IInv, LoadersOK, NEW r \in Request, Quiet(r), HandlerStep(r)
  PROVE  Quiet(r)'
<1>1. /\ rpc \in [Request -> Handling \cup {"new", "ok", "error", "lost"}]
      /\ result \in [Request -> Result \cup {None}]
      /\ predictions \in [Request -> Prediction \cup {None}]
      /\ InOrder(r)
  BY DEF IInv, TypeOK
<1>2. /\ UNCHANGED <<state, lpc, overtaken, overlapped, collided>> /\ rpc[r] \in Handling
  BY DEF HandlerStep, CheckModel, Predict, ReadName, ReadVersion, WritePrediction,
         CreateReviewCase, DatabaseError, CheckExplainer, Explain, Answer, HandlerFrame, ghosts,
         Handling
<1>. SUFFICES ASSUME r \notin overlapped
     PROVE  Idle' /\ (~collided => InFlightQuiet(r)' /\ Kept(r)')
  BY <1>2 DEF Quiet
<1>3. Idle /\ Idle'
  BY <1>2 DEF Quiet, Idle
<1>. SUFFICES ASSUME ~collided PROVE InFlightQuiet(r)' /\ Kept(r)'
  BY <1>3
<1>4. Settled /\ InFlightQuiet(r) /\ Kept(r)
  BY <1>2, <1>3 DEF Quiet, LoadersOK
<1>. USE DEF InFlightQuiet, Kept, Labelled
<1>5. ASSUME ScoreByRules(r), UNCHANGED tables PROVE InFlightQuiet(r)' /\ Kept(r)'
  <2>1. /\ result'[r].source = "fallback_rules" /\ result'[r].explained = None
        /\ UNCHANGED predictions
    BY <1>1, <1>5 DEF ScoreByRules, tables
  <2>2. rpc'[r] \in {"write", "answer"}
    BY <1>1, <1>5 DEF ScoreByRules, Goto, AfterScoring
  <2>. QED  BY <1>2, <1>4, <2>1, <2>2
<1>6. CASE CheckModel(r)
  <2>1. ASSUME state.model # None, Goto(r, "predict"), UNCHANGED result, UNCHANGED tables
        PROVE  InFlightQuiet(r)' /\ Kept(r)'
    <3>1. rpc'[r] = "predict"
      BY <1>1, <2>1 DEF Goto
    <3>. QED  BY <1>2, <1>4, <2>1, <3>1 DEF tables
  <2>. QED  BY <1>5, <1>6, <2>1 DEF CheckModel
<1>7. CASE Predict(r)
  <2>1. ASSUME NEW routed \in BOOLEAN, UNCHANGED tables, Goto(r, "name"),
               result' = [result EXCEPT ![r] =
                 [source |-> "ml", by |-> state.model, name |-> None,
                  version |-> None, routed |-> routed, explained |-> None]]
        PROVE  InFlightQuiet(r)' /\ Kept(r)'
    <3>1. rpc'[r] = "name" /\ result'[r].by = state.model /\ result'[r].explained = None
      BY <1>1, <2>1 DEF Goto
    <3>. QED  BY <1>2, <1>4, <2>1, <3>1 DEF tables
  <2>. QED  BY <1>5, <1>7, <2>1 DEF Predict
<1>8. CASE ReadName(r)
  <2>1. rpc[r] = "name" /\ result[r] \in Result /\ Truthful(result[r]) /\ result[r].source = "ml"
    BY <1>1, <1>8 DEF ReadName, InOrder, HasResult, ByModel
  <2>2. rpc'[r] = "version" /\ result'[r] = [result[r] EXCEPT !.name = state.name]
    BY <1>1, <1>8, <2>1 DEF ReadName, Goto
  <2>3. /\ result'[r].by = result[r].by /\ result'[r].name = state.name
        /\ result'[r].explained = result[r].explained
    BY <2>1, <2>2 DEF Result
  <2>4. state.model # None
    BY <1>4, <2>1 DEF Truthful
  <2>5. UNCHANGED predictions /\ result[r] # None
    BY <1>8, <2>1, Distinct DEF ReadName, tables
  <2>. QED  BY <1>2, <1>4, <2>1, <2>2, <2>3, <2>4, <2>5 DEF Settled
<1>9. CASE ReadVersion(r)
  <2>1. rpc[r] = "version" /\ result[r] \in Result /\ Truthful(result[r]) /\ result[r].source = "ml"
    BY <1>1, <1>9 DEF ReadVersion, InOrder, HasResult, ByModel
  <2>2. /\ rpc'[r] \in {"write", "explainer"}
        /\ result'[r] = [result[r] EXCEPT !.version = state.version]
    BY <1>1, <1>9, <2>1 DEF ReadVersion, Goto, AfterScoring
  <2>3. /\ result'[r].by = result[r].by /\ result'[r].name = result[r].name
        /\ result'[r].version = state.version /\ result'[r].explained = result[r].explained
    BY <2>1, <2>2 DEF Result
  <2>4. UNCHANGED predictions /\ result[r] # None
    BY <1>9, <2>1, Distinct DEF ReadVersion, tables
  <2>. QED  BY <1>2, <1>4, <2>1, <2>2, <2>3, <2>4
<1>10. CASE WritePrediction(r)
  <2>1. /\ rpc[r] = "write" /\ predictions' = [predictions EXCEPT ![r] = result[r]]
        /\ rpc'[r] \in {"case", "answer"} /\ UNCHANGED result
    BY <1>1, <1>10 DEF WritePrediction, Goto
  <2>2. predictions'[r] = result[r]
    BY <1>1, <2>1
  <2>3. ~overtaken => state.version = state.model
    BY <1>4 DEF Settled
  <2>. QED  BY <1>2, <1>4, <2>1, <2>2, <2>3
<1>11. CASE CreateReviewCase(r) \/ DatabaseError(r) \/ Answer(r)
  <2>1. /\ rpc[r] \in Labelled /\ rpc'[r] \in {"answer", "ok", "error"}
        /\ UNCHANGED <<result, predictions>>
    BY <1>1, <1>11 DEF CreateReviewCase, DatabaseError, Answer, Goto, tables
  <2>. QED  BY <1>2, <1>4, <2>1
<1>12. CASE CheckExplainer(r)
  <2>1. /\ rpc[r] = "explainer" /\ UNCHANGED <<result, predictions>>
        /\ rpc'[r] = IF state.explainer = None THEN "answer" ELSE "explain"
    BY <1>1, <1>12 DEF CheckExplainer, Goto, tables
  <2>. QED  BY <1>2, <1>4, <2>1
<1>13. CASE Explain(r)
  <2>1. rpc[r] = "explain" /\ result[r] \in Result /\ result[r].source = "ml"
    BY <1>1, <1>13 DEF Explain, InOrder, HasResult, ByModel
  <2>2. state.explainer # None /\ state.explainer = state.model
    BY <1>4, <2>1 DEF Settled
  <2>3. /\ rpc'[r] = "answer" /\ result'[r] = [result[r] EXCEPT !.explained = state.explainer]
        /\ UNCHANGED predictions
    BY <1>1, <1>13, <2>2 DEF Explain, Goto, tables
  <2>4. /\ result'[r].by = result[r].by /\ result'[r].name = result[r].name
        /\ result'[r].version = result[r].version /\ result'[r].source = result[r].source
        /\ result'[r].explained = state.explainer
    BY <2>1, <2>3 DEF Result
  <2>. QED  BY <1>2, <1>4, <2>1, <2>2, <2>3, <2>4
<1>. QED  BY <1>6, <1>7, <1>8, <1>9, <1>10, <1>11, <1>12, <1>13 DEF HandlerStep

LEMMA QuietKept ==
  ASSUME QInv, [Next]_vars
  PROVE  \A r \in Request : Quiet(r)'
<1>1. ASSUME NEW r \in Request, Receive(r) \/ HandlerStep(r), NEW q \in Request PROVE Quiet(q)'
  <2>1. CASE q = r
    BY <1>1, <2>1, QuietReceive, QuietStep DEF QInv
  <2>2. CASE q # r
    <3>1. /\ UNCHANGED <<state, lpc, overtaken, collided>>
          /\ q \in overlapped' <=> q \in overlapped
      BY <1>1, <2>2 DEF Receive, HandlerStep, CheckModel, Predict, ReadName, ReadVersion,
           WritePrediction, CreateReviewCase, DatabaseError, CheckExplainer, Explain, Answer,
           HandlerFrame, ghosts
    <3>2. rpc'[q] = rpc[q] /\ result'[q] = result[q] /\ predictions'[q] = predictions[q]
      BY <1>1, <2>2 DEF Receive, HandlerStep, CheckModel, Predict, ReadName, ReadVersion,
           ScoreByRules, WritePrediction, CreateReviewCase, DatabaseError, CheckExplainer,
           Explain, Answer, Goto, tables, QInv, IInv, TypeOK
    <3>. QED  BY <3>1, <3>2 DEF QInv, Quiet, InFlightQuiet, Kept, Idle
  <2>. QED  BY <2>1, <2>2
<1>. QED  BY <1>1, QuietElsewhere DEF QInv, Next

(***************************************************************************)
(* The theorems about quiet requests                                       *)
(***************************************************************************)
LEMMA QuietInvariance == Spec => []QInv
<1>1. Init => QInv
  <2>. SUFFICES ASSUME Init PROVE QInv
    OBVIOUS
  <2>1. Settled /\ Converged
    BY DEF Init, Settled, Converged, NoModel
  <2>2. BootFirst /\ Alone /\ \A l \in Loader : InReload(l)
    BY DEF Init, BootFirst, Alone, Loader, InReload, Setting, Clearing, Handling
  <2>3. \A r \in Request : Quiet(r)
    BY DEF Init, Quiet, InFlightQuiet, Kept, Handling, Labelled
  <2>. QED  BY <2>1, <2>2, <2>3, InitIInv DEF QInv, LoadersOK
<1>2. QInv /\ [Next]_vars => QInv'
  BY NextIInv, LoadersKept, QuietKept DEF QInv
<1>. QED  BY <1>1, <1>2, PTL DEF Spec

(* The row of a request that no reload overlapped can be stored, and names *)
(* the version that made the score, unless a promotion came between the    *)
(* two MLflow calls of a reload or reloads ever overlapped each other: for *)
(* any number of requests, reloading threads, promotions and crashes.      *)
THEOREM Labels == Spec => []LabelTruthfulIfQuiet
<1>1. ASSUME QInv, ~collided, NEW r \in Request \ overlapped
      PROVE  /\ rpc[r] = "write" => Storable(r)
             /\ ~overtaken /\ predictions[r] # None /\ predictions[r].source = "ml"
                  => predictions[r].version = predictions[r].by
  <2>1. Quiet(r) /\ InOrder(r)
    BY <1>1 DEF QInv, IInv
  <2>2. ASSUME rpc[r] = "write" PROVE Storable(r)
    <3>1. result[r] \in Result /\ Truthful(result[r]) /\ Settled /\ InFlightQuiet(r)
      BY <1>1, <2>1, <2>2 DEF InOrder, HasResult, Quiet, Handling, QInv, LoadersOK
    <3>2. CASE result[r].source = "ml"
      BY <2>2, <3>1, <3>2, Distinct DEF Storable, InFlightQuiet, Labelled, Truthful, Settled
    <3>3. CASE result[r].source # "ml"
      BY <3>1, <3>3, Distinct DEF Storable, Truthful
    <3>. QED  BY <3>2, <3>3
  <2>. QED  BY <1>1, <2>1, <2>2 DEF Quiet, Kept
<1>2. QInv => LabelTruthfulIfQuiet
  BY <1>1 DEF LabelTruthfulIfQuiet
<1>. QED  BY <1>2, QuietInvariance, PTL

(* /explain pairs a score with the explainer of its own model, and finds   *)
(* at its second reading the explainer it found at its first, for a        *)
(* request that no reload overlapped.                                      *)
THEOREM Explanations == Spec => []ExplanationTruthfulIfQuiet
<1>1. QInv => ExplanationTruthfulIfQuiet
  BY DEF QInv, Quiet, InFlightQuiet, Kept, ExplanationTruthfulIfQuiet
<1>. QED  BY <1>1, QuietInvariance, PTL

(* Once the registry was read after its last change and no reload is in    *)
(* progress, the API serves and reports the Production version, whatever   *)
(* failed or was promoted before, unless reloads overlapped each other.    *)
THEOREM Converges == Spec => []ReloadConverges
<1>1. QInv => ReloadConverges
  BY DEF QInv, LoadersOK, Idle, Converged, Reloading, ReloadConverges
<1>. QED  BY <1>1, QuietInvariance, PTL
=============================================================================
