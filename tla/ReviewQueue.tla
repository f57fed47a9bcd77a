---------------------------- MODULE ReviewQueue ----------------------------
(***************************************************************************)
(* The human-in-the-loop queue: POST /score routes predictions to review   *)
(* cases, analysts work them in the Streamlit page through GET /review and *)
(* POST /review/{id}/feedback, the feedback becomes training data, and the *)
(* metrics DAG exports the depth of the queue for the backlog alert.       *)
(* Every widget an analyst touches runs the page's script again from the   *)
(* top, with a cached queue.                                               *)
(***************************************************************************)
EXTENDS Integers, FiniteSets, Sequences

CONSTANTS
  Txn,             \* transaction ids
  Analyst,         \* people with the page open
  Script,          \* other clients of POST /review/{case_id}/feedback
  Label,           \* labels the analysts use
  View,            \* the `Case status` filters they use
  PageLimit,       \* `limit` of GET /review
  BacklogLimit,    \* threshold of the alert ReviewQueueBacklog
  FetchLimit,      \* `limit` of fetch_labeled_training_examples
  MinExamples,     \* min_examples of build_feedback_dataset
  MayFail,         \* may a request die, or PostgreSQL be away?
  None,
  MaxPredictions,  \* bound: predictions
  MaxRelabels      \* bound: feedback rows beyond one for each case

LabelMap == [confirmed_fraud |-> 1, false_negative |-> 1,
             confirmed_legitimate |-> 0, false_positive |-> 0]

ASSUME ReviewAssumption ==
  /\ Label \subseteq DOMAIN LabelMap
  /\ View \subseteq {"pending", "resolved"} /\ "pending" \in View
  /\ PageLimit \in Nat \ {0} /\ BacklogLimit \in Nat
  /\ FetchLimit \in Nat /\ MinExamples \in Nat
  /\ MayFail \in BOOLEAN
  /\ MaxPredictions \in Nat /\ MaxRelabels \in Nat
  /\ None \notin Analyst \cup Script

VARIABLES
  predictions, \* PostgreSQL: predictions, in order of creation
  cases,       \* PostgreSQL: review_cases, in order of creation
  feedback,    \* PostgreSQL: analyst_feedback
  routing,     \* POST /score: predictions whose case is not written yet
  cache,       \* Streamlit: fetch_queue's cached page, by analyst and filter
  screen,      \* what the page of each analyst showed last
  posting,     \* the feedback each page is waiting for
  late,        \* ... and one it no longer waits for, at the server
  aware,       \* history: <<analyst, case>>, when a second label is no surprise
  depth,       \* gauge fraud_review_queue_depth
  pushed       \* gauge fraud_review_queue_pending, at the Pushgateway

tables == <<predictions, cases, feedback>>
page   == <<cache, screen, depth>>
vars   == <<tables, routing, page, posting, late, aware, pushed>>

CaseId == 1 .. MaxPredictions
Labeller == Analyst \cup Script

(* A page is the set of its cases: a case created later has a greater id,  *)
(* and the first of a page is its greatest.                                *)
Screen == [view : View, cases : SUBSET CaseId, selected : CaseId \cup {0}]

(* `reviewed` is history: did she have this case before her?               *)
Post == [case : CaseId, label : Label, reviewed : BOOLEAN, stored : BOOLEAN]

ASSUME NoneAssumption == None \notin Post

TypeOK ==
  /\ predictions \in Seq([txn : Txn, routed : BOOLEAN])
  /\ Len(predictions) <= MaxPredictions
  /\ cases \in Seq([prediction : CaseId, status : {"pending", "resolved"},
                    assigned_analyst : Labeller \cup {None}])
  /\ Len(cases) <= Len(predictions)
  /\ feedback \in Seq([case : CaseId, analyst : Labeller, label : Label,
                       reviewed : BOOLEAN])
  /\ routing \subseteq DOMAIN predictions
  /\ cache \in [Analyst -> [View -> (SUBSET CaseId) \cup {None}]]
  /\ screen \in [Analyst -> Screen]
  /\ posting \in [Analyst -> Post \cup {None}]
  /\ late \in [Analyst -> Post \cup {None}]
  /\ aware \subseteq Analyst \X CaseId
  /\ depth \in 0 .. PageLimit
  /\ pushed \in 0 .. MaxPredictions

Init ==
  /\ predictions = <<>> /\ cases = <<>> /\ feedback = <<>>
  /\ routing = {}
  /\ cache = [a \in Analyst |-> [v \in View |-> None]]
  /\ screen = [a \in Analyst |-> [view |-> "pending", cases |-> {}, selected |-> 0]]
  /\ posting = [a \in Analyst |-> None]
  /\ late = [a \in Analyst |-> None]
  /\ aware = {}
  /\ depth = 0 /\ pushed = 0

(***************************************************************************)
(* POST /score: the prediction and its case are two transactions           *)
(***************************************************************************)
WritePrediction(t, routed) ==
  /\ Len(predictions) < MaxPredictions
  /\ predictions' = Append(predictions, [txn |-> t, routed |-> routed])
  /\ routing' = IF routed THEN routing \cup {Len(predictions) + 1} ELSE routing
  /\ UNCHANGED <<cases, feedback, page, posting, late, aware, pushed>>

CreateReviewCase(p) ==
  /\ p \in routing
  /\ routing' = routing \ {p}
  /\ cases' = Append(cases, [prediction |-> p, status |-> "pending",
                             assigned_analyst |-> None])
  /\ UNCHANGED <<predictions, feedback, page, posting, late, aware, pushed>>

ScoreDies(p) ==
  /\ MayFail
  /\ p \in routing
  /\ routing' = routing \ {p}
  /\ UNCHANGED <<tables, page, posting, late, aware, pushed>>

(***************************************************************************)
(* GET /review and the page                                                *)
(***************************************************************************)
OfStatus(s) == {c \in DOMAIN cases : cases[c].status = s}

(* list_review_cases: the newest `limit` cases of the status.              *)
ListReviewCases(s) ==
  {c \in OfStatus(s) : Cardinality({d \in OfStatus(s) : d > c}) < PageLimit}

FetchQueue(a, v) == IF cache[a][v] = None THEN ListReviewCases(v) ELSE cache[a][v]

First(S) == CHOOSE c \in S : \A d \in S : d <= c

(* st.selectbox has no key: with other options than at the last run it is  *)
(* a new widget, and starts at the first of them.                          *)
Selected(a, v, chosen) ==
  LET options == FetchQueue(a, v) IN
  IF options = {} THEN 0
  ELSE IF options = screen[a].cases THEN chosen ELSE First(options)

(* One run of the script up to the button, when `chosen` was selected; a   *)
(* list of pending cases that is read sets the gauge.                      *)
RunScript(a, v, chosen) ==
  /\ screen' = [screen EXCEPT ![a] = [view |-> v, cases |-> FetchQueue(a, v),
                                      selected |-> Selected(a, v, chosen)]]
  /\ cache' = [cache EXCEPT ![a] = [@ EXCEPT ![v] = FetchQueue(a, v)]]
  /\ depth' = IF v = "pending" /\ cache[a][v] = None
                THEN Cardinality(ListReviewCases(v)) ELSE depth

(* Touching any widget but the two buttons. *)
Browse(a, v, chosen) ==
  /\ posting[a] = None
  /\ chosen \in screen[a].cases \cup {screen[a].selected}
  /\ RunScript(a, v, chosen)
  /\ UNCHANGED <<tables, routing, posting, late, aware, pushed>>

(* GET /review fails: st.stop(), and no widget of a case remains. *)
FetchFails(a, v) ==
  /\ MayFail
  /\ posting[a] = None /\ cache[a][v] = None
  /\ screen' = [screen EXCEPT ![a] = [view |-> v, cases |-> {}, selected |-> 0]]
  /\ UNCHANGED <<tables, routing, cache, depth, posting, late, aware, pushed>>

(* fetch_queue.clear() empties the cache of every analyst, and the script  *)
(* reads the queue again.                                                  *)
ClearAndRun(a) ==
  LET v == screen[a].view
      fresh == ListReviewCases(v)
  IN /\ cache' = [b \in Analyst |-> [w \in View |->
                    IF b = a /\ w = v THEN fresh ELSE None]]
     /\ screen' = [screen EXCEPT ![a] =
          [@ EXCEPT !.cases = fresh,
                    !.selected = IF fresh = {} THEN 0
                                 ELSE IF fresh = screen[a].cases THEN screen[a].selected
                                 ELSE First(fresh)]]
     /\ depth' = IF v = "pending" THEN Cardinality(fresh) ELSE depth

RefreshQueue(a) ==
  /\ posting[a] = None
  /\ ClearAndRun(a)
  /\ UNCHANGED <<tables, routing, posting, late, aware, pushed>>

(* Variant: st.cache_data without a ttl. *)
NeverExpire(a, v) == FALSE /\ UNCHANGED vars

(* ttl=5 *)
ExpireCache(a, v) ==
  /\ cache[a][v] # None
  /\ cache' = [cache EXCEPT ![a] = [@ EXCEPT ![v] = None]]
  /\ UNCHANGED <<tables, routing, screen, depth, posting, late, aware, pushed>>

InFlight == {a \in Analyst : posting[a] # None /\ ~posting[a].stored}

(* The cases that have a label, or will have one if nothing fails.         *)
Labelled ==
  {feedback[i].case : i \in DOMAIN feedback} \cup {posting[a].case : a \in InFlight}
    \cup {late[a].case : a \in {b \in Analyst : late[b] # None}}

(* Second labels: what there is, or will be, beyond one for each case.     *)
Relabels ==
  Len(feedback) + Cardinality(InFlight) + Cardinality({a \in Analyst : late[a] # None})
    - Cardinality(Labelled)

(* The button: the script runs from the top and then posts for the case    *)
(* that is selected now.                                                   *)
SubmitFeedback(a, label) ==
  /\ posting[a] = None
  /\ screen[a].selected # 0
  /\ LET v == screen[a].view
         target == Selected(a, v, screen[a].selected)
     IN /\ target # 0
        /\ target \in Labelled => Relabels < MaxRelabels
        /\ RunScript(a, v, screen[a].selected)
        /\ posting' = [posting EXCEPT ![a] =
             [case |-> target, label |-> label,
              reviewed |-> screen[a].selected = target, stored |-> FALSE]]
        /\ aware' = IF v = "pending" THEN aware ELSE aware \cup {<<a, target>>}
  /\ UNCHANGED <<tables, routing, late, pushed>>

(***************************************************************************)
(* POST /review/{case_id}/feedback                                         *)
(***************************************************************************)
(* Variant: the case is left as it is. *)
RecordedOnly(a, post) ==
  /\ feedback' = Append(feedback,
       [case |-> post.case, analyst |-> a, label |-> post.label,
        reviewed |-> post.reviewed])
  /\ cases' = cases

(* One transaction, which the get_review_case before it cannot invalidate: *)
(* it read only the transaction_id, and no case is ever deleted.           *)
Recorded(a, post) ==
  /\ feedback' = Append(feedback,
       [case |-> post.case, analyst |-> a, label |-> post.label,
        reviewed |-> post.reviewed])
  /\ cases' = [cases EXCEPT ![post.case] =
       [@ EXCEPT !.status = "resolved", !.assigned_analyst = a]]

StoreFeedback(a) ==
  /\ posting[a] # None /\ ~posting[a].stored
  /\ Recorded(a, posting[a])
  /\ posting' = [posting EXCEPT ![a] = [@ EXCEPT !.stored = TRUE]]
  /\ UNCHANGED <<predictions, routing, page, late, aware, pushed>>

(* Variant: the page is run again without fetch_queue.clear(). *)
AnswerFromCache(a) ==
  /\ posting[a] # None /\ posting[a].stored
  /\ RunScript(a, screen[a].view, screen[a].selected)
  /\ posting' = [posting EXCEPT ![a] = None]
  /\ UNCHANGED <<tables, routing, late, aware, pushed>>

(* "Feedback submitted": fetch_queue.clear(), st.rerun(). *)
Answer(a) ==
  /\ posting[a] # None /\ posting[a].stored
  /\ ClearAndRun(a)
  /\ posting' = [posting EXCEPT ![a] = None]
  /\ UNCHANGED <<tables, routing, late, aware, pushed>>

(* After timeout=5 the page reports a failure; the server goes on.  One    *)
(* such request of an analyst at a time is a bound.                        *)
TimeOut(a) ==
  /\ posting[a] # None
  /\ IF posting[a].stored THEN UNCHANGED late
     ELSE late[a] = None /\ late' = [late EXCEPT ![a] = posting[a]]
  /\ aware' = aware \cup {<<a, posting[a].case>>}
  /\ posting' = [posting EXCEPT ![a] = None]
  /\ UNCHANGED <<tables, routing, page, pushed>>

StoreLate(a) ==
  /\ late[a] # None
  /\ Recorded(a, late[a])
  /\ late' = [late EXCEPT ![a] = None]
  /\ UNCHANGED <<predictions, routing, page, posting, aware, pushed>>

(* A script labels any case, resolved ones included.                       *)
ScriptFeedback(s, c, label) ==
  /\ c \in DOMAIN cases
  /\ c \in Labelled => Relabels < MaxRelabels
  /\ Recorded(s, [case |-> c, label |-> label, reviewed |-> TRUE])
  /\ UNCHANGED <<predictions, routing, page, posting, late, aware, pushed>>

(* A rollback: 500 for a page that still waits. *)
FeedbackFails(a) ==
  /\ MayFail
  /\ \/ /\ posting[a] # None /\ ~posting[a].stored
        /\ posting' = [posting EXCEPT ![a] = None]
        /\ UNCHANGED late
     \/ /\ late[a] # None
        /\ late' = [late EXCEPT ![a] = None]
        /\ UNCHANGED posting
  /\ UNCHANGED <<tables, routing, page, aware, pushed>>

(***************************************************************************)
(* The metrics DAG and the retraining data                                 *)
(***************************************************************************)
(* Variant: the count is that of a page. *)
CountListed(s) == Cardinality(ListReviewCases(s))

CountReviewCases(s) == Cardinality(OfStatus(s))

ExportMetrics ==
  /\ pushed' = CountReviewCases("pending")
  /\ UNCHANGED <<tables, routing, page, posting, late, aware>>

(* Variant: feedback is joined to predictions by transaction_id. *)
JoinedByTransaction(recent) ==
  {j \in recent \X (DOMAIN predictions) :
     predictions[j[2]].txn = predictions[cases[feedback[j[1]].case].prediction].txn}

(* analyst_feedback join review_cases join predictions, where the feedback *)
(* was created within the lookback: the rows `recent`.                     *)
FeedbackWithPrediction(recent) ==
  {j \in recent \X (DOMAIN predictions) :
     j[2] = cases[feedback[j[1]].case].prediction}

(* LIMIT without ORDER BY: when there are more, any that many of them.     *)
Retrieved(recent) ==
  LET joined == FeedbackWithPrediction(recent) IN
  {S \in SUBSET joined :
     IF Cardinality(joined) <= FetchLimit THEN S = joined
     ELSE Cardinality(S) = FetchLimit}

(* build_feedback_dataset over what was fetched.  `current` are the        *)
(* predictions whose input_features have all of today's FEATURE_COLUMNS;   *)
(* no rows stand for None.                                                 *)
FeedbackDataset(fetched, current) ==
  LET kept == {j \in fetched : j[2] \in current} IN
  IF Cardinality(fetched) < MinExamples \/ Cardinality(kept) < MinExamples THEN {}
  ELSE {[row |-> j[1], features |-> j[2], label |-> LabelMap[feedback[j[1]].label]] :
          j \in kept}

PageStep(a) ==
  \/ \E v \in View, c \in CaseId \cup {0} : Browse(a, v, c)
  \/ RefreshQueue(a) \/ Answer(a) \/ TimeOut(a)
  \/ \E v \in View : ExpireCache(a, v) \/ FetchFails(a, v)
  \/ \E l \in Label : SubmitFeedback(a, l)

ServerStep(a) == StoreFeedback(a) \/ StoreLate(a) \/ FeedbackFails(a)

Next ==
  \/ \E t \in Txn, routed \in BOOLEAN : WritePrediction(t, routed)
  \/ \E p \in CaseId : CreateReviewCase(p) \/ ScoreDies(p)
  \/ \E a \in Analyst : PageStep(a) \/ ServerStep(a)
  \/ \E s \in Script, c \in CaseId, l \in Label : ScriptFeedback(s, c, l)
  \/ ExportMetrics

Spec == Init /\ [][Next]_vars

(* The DAG runs every five minutes, entries of the cache expire, and the   *)
(* server answers; analysts owe nothing.                                   *)
FairSpec ==
  /\ Spec
  /\ WF_vars(ExportMetrics)
  /\ \A a \in Analyst :
       /\ \A v \in View : WF_vars(ExpireCache(a, v))
       /\ WF_vars(ServerStep(a)) /\ WF_vars(Answer(a) \/ TimeOut(a))

(***************************************************************************)
(* Properties that hold                                                    *)
(***************************************************************************)

(* A case leaves the queue with a label and never without one, however the *)
(* answers get lost and whoever else works on it; it is assigned to the    *)
(* analyst whose label was the last to be committed.                       *)
ResolvedIffLabelled ==
  \A c \in DOMAIN cases :
    LET labelled == {i \in DOMAIN feedback : feedback[i].case = c} IN
    IF cases[c].status = "resolved"
      THEN labelled # {} /\ cases[c].assigned_analyst = feedback[First(labelled)].analyst
      ELSE labelled = {}

(* Nobody labels a case twice in the page without knowing: when one        *)
(* analyst has two rows on a case, an answer to her was lost or she opened *)
(* it among the resolved ones; a stale cache never makes her repeat it.    *)
OneLabelPerAnalyst ==
  \A i, j \in DOMAIN feedback :
    /\ i # j
    /\ feedback[i].case = feedback[j].case /\ feedback[i].analyst = feedback[j].analyst
    /\ feedback[i].analyst \notin Script
    => <<feedback[i].analyst, feedback[i].case>> \in aware

(* Whatever the lookback leaves, whichever rows the LIMIT returns and      *)
(* whichever predictions carry today's features: a training example comes  *)
(* from one recent label, with its meaning and with the features of the    *)
(* very prediction its case was opened for, also when a transaction has    *)
(* been scored more than once.  As long as the recent labels fit the       *)
(* LIMIT, each usable one is trained on, or, below the minimum, none is.   *)
EachLabelTrainsOnce ==
  \A recent \in SUBSET DOMAIN feedback, current \in SUBSET DOMAIN predictions :
    \A fetched \in Retrieved(recent) :
      LET dataset == FeedbackDataset(fetched, current)
          usable  == {i \in recent : cases[feedback[i].case].prediction \in current}
      IN
      /\ \A x \in dataset :
           /\ x.row \in usable
           /\ x.features = cases[feedback[x.row].case].prediction
           /\ x.label = LabelMap[feedback[x.row].label]
      /\ Cardinality(recent) <= FetchLimit =>
           {x.row : x \in dataset} =
             IF Cardinality(usable) < MinExamples THEN {} ELSE usable

Backlog == Cardinality(OfStatus("pending")) > BacklogLimit

(* ReviewQueueBacklog: `pending > 100 or depth > 100`.                     *)
Alert == pushed > BacklogLimit \/ depth > BacklogLimit

(* A backlog that lasts raises the alert, whether or not anybody lists the *)
(* queue, and however short a page is.                                     *)
BacklogAlerts == Backlog ~> (Alert \/ ~Backlog)

(* An analyst who keeps coming back to the pending queue and keeps         *)
(* labelling, over a database that is not always away.                     *)
Diligent(a) ==
  /\ SF_vars(\E c \in CaseId \cup {0} : Browse(a, "pending", c))
  /\ SF_vars(screen[a].view = "pending" /\ \E l \in Label : SubmitFeedback(a, l))
  /\ SF_vars(StoreFeedback(a))

(* No case starves: the queue is listed newest first and one page deep,    *)
(* and still one diligent analyst gets to every case once no more arrive.  *)
EveryCaseResolved ==
  (\E a \in Analyst : Diligent(a)) =>
    \A c \in CaseId :
      (c \in OfStatus("pending")) ~> (c \in OfStatus("resolved"))

(***************************************************************************)
(* What the documents say and the code does not do                         *)
(***************************************************************************)

(* AnalystFeedbackRecord: "Ground-truth label an analyst assigns after     *)
(* reviewing a case": the label is stored for the case that was reviewed.  *)
LabelsReviewedCase ==
  \A i \in DOMAIN feedback : feedback[i].reviewed
=============================================================================
