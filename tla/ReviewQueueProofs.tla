------------------------- MODULE ReviewQueueProofs -------------------------
(***************************************************************************)
(* Proofs about ReviewQueue, for any number of analysts, scripts, cases,   *)
(* labels and pages, with pages and a queue of any length: the types, that *)
(* a case is resolved exactly by its labels, that no analyst labels a case *)
(* twice without having been shown a reason to, and that what retraining   *)
(* learns from a label is told by the label and its own prediction.        *)
(***************************************************************************)
EXTENDS ReviewQueue, FiniteSetTheorems, SequenceTheorems, WellFoundedInduction, TLAPS

(***************************************************************************)
(* The inductive invariant                                                 *)
(***************************************************************************)
Prediction == [txn : Txn, routed : BOOLEAN]
CaseRow == [prediction : CaseId, status : {"pending", "resolved"},
            assigned_analyst : Labeller \cup {None}]
FeedbackRow == [case : CaseId, analyst : Labeller, label : Label, reviewed : BOOLEAN]

(* Feedback is on a case there is, and the cases and those still to be     *)
(* written are not more than the predictions.                              *)
TablesOK ==
  /\ predictions \in Seq(Prediction) /\ Len(predictions) <= MaxPredictions
  /\ cases \in Seq(CaseRow)
  /\ feedback \in Seq(FeedbackRow)
  /\ \A i \in DOMAIN feedback : feedback[i].case \in DOMAIN cases
  /\ routing \subseteq DOMAIN predictions
  /\ Len(cases) + Cardinality(routing) <= Len(predictions)

(* Pages and caches hold cases there are, and what is selected is listed.  *)
PagesOK ==
  /\ cache \in [Analyst -> [View -> (SUBSET CaseId) \cup {None}]]
  /\ screen \in [Analyst -> Screen]
  /\ depth \in 0 .. PageLimit
  /\ \A a \in Analyst :
       /\ screen[a].cases \subseteq DOMAIN cases
       /\ screen[a].selected # 0 => screen[a].selected \in screen[a].cases
       /\ \A v \in View : cache[a][v] # None => cache[a][v] \subseteq DOMAIN cases

(* What is posted is for a case there is, and a late one is no surprise.   *)
PostsOK ==
  /\ posting \in [Analyst -> Post \cup {None}]
  /\ late \in [Analyst -> Post \cup {None}]
  /\ aware \subseteq Analyst \X CaseId
  /\ \A a \in Analyst :
       /\ posting[a] # None => posting[a].case \in DOMAIN cases
       /\ late[a] # None => /\ late[a].case \in DOMAIN cases
                            /\ <<a, late[a].case>> \in aware

PushedOK == pushed \in 0 .. MaxPredictions

(* She labelled the case and has seen no reason to do so again.            *)
Settled(a, c) ==
  /\ \E i \in DOMAIN feedback : feedback[i].case = c /\ feedback[i].analyst = a
  /\ <<a, c>> \notin aware

Posting(a, c) == posting[a] # None /\ posting[a].case = c

(* The case is on no pending page of hers and in no cache behind it.       *)
Hidden(a, c) ==
  /\ cache[a]["pending"] # None => c \notin cache[a]["pending"]
  /\ screen[a].view = "pending" => c \notin screen[a].cases

(* A settled case is hidden, unless the answer to her label is still to    *)
(* come, and that empties page and cache; and she is not labelling it.     *)
SettledOK ==
  \A a \in Analyst \ Script, c \in CaseId : Settled(a, c) =>
    IF Posting(a, c) THEN posting[a].stored ELSE Hidden(a, c)

IInv ==
  /\ TablesOK /\ PagesOK /\ PostsOK /\ PushedOK
  /\ ResolvedIffLabelled
  /\ SettledOK /\ OneLabelPerAnalyst

(***************************************************************************)
(* Sets of case ids                                                        *)
(***************************************************************************)

(* A set of naturals that is not empty has a least element: among the      *)
(* intervals that end in it, one contains no other.                        *)
LEMMA LeastExists ==
  ASSUME NEW S \in SUBSET Nat, S # {}
  PROVE  \E m \in S : \A x \in S : m <= x
<1>. DEFINE R == StrictSubsetOrdering(Nat)
            T == {1 .. x : x \in S}
<1>1. T \subseteq FiniteSubsetsOf(Nat) /\ T # {}
  <2>1. ASSUME NEW x \in S PROVE 1 .. x \in FiniteSubsetsOf(Nat)
    <3>1. IsFiniteSet(1 .. x)
      BY FS_Interval
    <3>2. 1 .. x \in SUBSET Nat
      OBVIOUS
    <3>. QED  BY <3>1, <3>2 DEF FiniteSubsetsOf
  <2>. QED  BY <2>1
<1>2. \E t \in T : \A u \in T : ~ (<<u, t>> \in R)
  <2>1. IsWellFoundedOn(R, FiniteSubsetsOf(Nat))
    BY FS_StrictSubsetOrderingWellFounded
  <2>. HIDE DEF R, T
  <2>. QED  BY <1>1, <2>1, WFMin
<1>3. PICK m \in S : \A x \in S : ~ (<<1 .. x, 1 .. m>> \in R)
  BY <1>2
<1>4. ASSUME NEW x \in S, x < m PROVE FALSE
  <2>1. (1 .. x) \subseteq (1 .. m) /\ m \in 1 .. m /\ m \notin 1 .. x
    BY <1>4
  <2>2. 1 .. x \in SUBSET Nat /\ 1 .. m \in SUBSET Nat
    OBVIOUS
  <2>3. <<1 .. x, 1 .. m>> \in R
    BY <2>1, <2>2 DEF StrictSubsetOrdering
  <2>. QED  BY <1>3, <2>3
<1>. QED  BY <1>4

(* First is a greatest element where there is one.                         *)
LEMMA FirstIs ==
  ASSUME NEW S \in SUBSET Int, NEW m \in S, \A x \in S : x <= m
  PROVE  First(S) = m
<1>1. First(S) \in S /\ \A x \in S : x <= First(S)
  BY DEF First
<1>2. First(S) <= m /\ m <= First(S)
  BY <1>1
<1>3. First(S) \in Int /\ m \in Int
  BY <1>1
<1>. QED  BY <1>2, <1>3

(* First exists in every bounded set: its least upper bound is in it.      *)
LEMMA FirstExists ==
  ASSUME NEW n \in Nat, NEW S \in SUBSET (1 .. n), S # {}
  PROVE  First(S) \in S /\ \A x \in S : x <= First(S)
<1>. DEFINE U == {u \in Nat : \A x \in S : x <= u}
<1>1. n \in U /\ U \in SUBSET Nat
  OBVIOUS
<1>2. PICK m \in U : \A u \in U : m <= u
  <2>. HIDE DEF U
  <2>. QED  BY <1>1, LeastExists
<1>3. m \in S
  <2>. SUFFICES ASSUME m \notin S PROVE FALSE
    OBVIOUS
  <2>1. \A x \in S : x <= m - 1
    BY <1>2
  <2>2. m - 1 \in Nat
    <3>1. PICK x \in S : TRUE
      OBVIOUS
    <3>2. x \in Nat /\ m \in Nat /\ x < m
      BY <1>2, <3>1
    <3>. QED  BY <3>2
  <2>3. m - 1 \in U
    BY <2>1, <2>2
  <2>4. m \in Nat /\ m <= m - 1
    BY <1>2, <2>3
  <2>. QED  BY <2>4
<1>4. First(S) = m
  BY <1>2, <1>3, FirstIs
<1>. QED  BY <1>2, <1>3, <1>4

(***************************************************************************)
(* The queue as GET /review lists it                                       *)
(***************************************************************************)
LEMMA Constants ==
  /\ MaxPredictions \in Nat /\ PageLimit \in Nat /\ PageLimit >= 1
  /\ View \subseteq {"pending", "resolved"} /\ "pending" \in View
BY ReviewAssumption

(* A page lists cases of its status, and no more than `limit` of them: the *)
(* least of more would have too many before it.                            *)
LEMMA PageBounded ==
  ASSUME cases \in Seq(CaseRow), NEW s
  PROVE  /\ ListReviewCases(s) \subseteq OfStatus(s)
         /\ OfStatus(s) \subseteq DOMAIN cases
         /\ IsFiniteSet(OfStatus(s))
         /\ Cardinality(ListReviewCases(s)) \in 0 .. PageLimit
<1>. DEFINE L == ListReviewCases(s)
            O == OfStatus(s)
<1>1. L \subseteq O /\ O \subseteq DOMAIN cases
  BY DEF ListReviewCases, OfStatus
<1>2. DOMAIN cases = 1 .. Len(cases) /\ Len(cases) \in Nat
  BY LenProperties
<1>3. IsFiniteSet(DOMAIN cases)
  BY <1>2, FS_Interval
<1>4. IsFiniteSet(O) /\ IsFiniteSet(L)
  BY <1>1, <1>3, FS_Subset
<1>5. Cardinality(L) \in Nat
  BY <1>4, FS_CardinalityType
<1>6. Cardinality(L) <= PageLimit
  <2>0. ASSUME L = {} PROVE Cardinality(L) <= PageLimit
    <3>. HIDE DEF L
    <3>1. Cardinality(L) = 0
      BY <2>0, FS_EmptySet
    <3>. QED  BY <3>1, Constants
  <2>. SUFFICES ASSUME L # {} PROVE Cardinality(L) <= PageLimit
    BY <2>0
  <2>1. L \in SUBSET Nat
    BY <1>1, <1>2
  <2>2. PICK m \in L : \A x \in L : m <= x
    <3>. HIDE DEF L
    <3>. QED  BY <2>1, LeastExists
  <2>. DEFINE G == {d \in O : d > m}
  <2>3. Cardinality(G) < PageLimit
    BY <2>2 DEF ListReviewCases
  <2>. HIDE DEF L, O
  <2>4. L \ {m} \in SUBSET G
    BY <1>1, <2>1, <2>2
  <2>5. IsFiniteSet(G)
    BY <1>4, FS_Subset
  <2>6. Cardinality(L \ {m}) <= Cardinality(G)
    BY <2>4, <2>5, FS_Subset
  <2>7. Cardinality(L \ {m}) = Cardinality(L) - 1
    BY <1>4, <2>2, FS_RemoveElement
  <2>8. Cardinality(G) \in Nat
    BY <2>5, FS_CardinalityType
  <2>. QED  BY <1>5, <2>3, <2>6, <2>7, <2>8, Constants
<1>. QED  BY <1>1, <1>4, <1>5, <1>6, Constants

(***************************************************************************)
(* One run of the page                                                     *)
(***************************************************************************)
LEMMA CaseIds ==
  ASSUME TablesOK
  PROVE  /\ Len(cases) \in Nat /\ Len(predictions) \in Nat /\ Len(feedback) \in Nat
         /\ DOMAIN cases = 1 .. Len(cases)
         /\ DOMAIN predictions = 1 .. Len(predictions)
         /\ DOMAIN feedback = 1 .. Len(feedback)
         /\ IsFiniteSet(routing) /\ Cardinality(routing) \in Nat
         /\ Len(cases) <= Len(predictions)
         /\ DOMAIN cases \subseteq CaseId /\ DOMAIN predictions \subseteq CaseId
<1>1. /\ Len(cases) \in Nat /\ DOMAIN cases = 1 .. Len(cases)
      /\ Len(predictions) \in Nat /\ DOMAIN predictions = 1 .. Len(predictions)
      /\ Len(feedback) \in Nat /\ DOMAIN feedback = 1 .. Len(feedback)
  BY LenProperties DEF TablesOK
<1>2. IsFiniteSet(DOMAIN predictions)
  BY <1>1, FS_Interval
<1>3. IsFiniteSet(routing)
  BY <1>2, FS_Subset DEF TablesOK
<1>4. Cardinality(routing) \in Nat
  BY <1>3, FS_CardinalityType
<1>5. Len(cases) <= Len(predictions) /\ Len(predictions) <= MaxPredictions
  BY <1>1, <1>4 DEF TablesOK
<1>. QED  BY <1>1, <1>3, <1>4, <1>5, Constants DEF CaseId

(* What the script lists is there, whether it read it or had it cached.    *)
LEMMA Fetched ==
  ASSUME TablesOK, PagesOK, NEW a \in Analyst, NEW v \in View
  PROVE  FetchQueue(a, v) \subseteq DOMAIN cases /\ FetchQueue(a, v) \subseteq CaseId
<1>1. ListReviewCases(v) \subseteq DOMAIN cases
  BY PageBounded DEF TablesOK
<1>. QED  BY <1>1, CaseIds DEF FetchQueue, PagesOK

(* The selectbox selects one of its options, if it has any.                *)
LEMMA SelectedListed ==
  ASSUME TablesOK, PagesOK, NEW a \in Analyst, NEW v \in View,
         NEW chosen \in screen[a].cases \cup {screen[a].selected}
  PROVE  /\ Selected(a, v, chosen) # 0 => Selected(a, v, chosen) \in FetchQueue(a, v)
         /\ Selected(a, v, chosen) \in CaseId \cup {0}
<1>. DEFINE Q == FetchQueue(a, v)
<1>1. Q \subseteq CaseId
  BY Fetched
<1>2. CASE Q = {}
  BY <1>2 DEF Selected
<1>3. CASE Q # {} /\ Q = screen[a].cases
  <2>1. Selected(a, v, chosen) = chosen
    BY <1>3 DEF Selected
  <2>2. chosen # 0 => chosen \in Q
    BY <1>3 DEF PagesOK
  <2>. QED  BY <1>1, <2>1, <2>2
<1>4. CASE Q # {} /\ Q # screen[a].cases
  <2>1. Selected(a, v, chosen) = First(Q)
    BY <1>4 DEF Selected
  <2>2. First(Q) \in Q
    <3>. HIDE DEF Q
    <3>. QED  BY <1>1, <1>4, FirstExists, Constants DEF CaseId
  <2>. QED  BY <1>1, <2>1, <2>2
<1>. QED  BY <1>2, <1>3, <1>4

LEMMA RunScriptKeepsPages ==
  ASSUME TablesOK, PagesOK, NEW a \in Analyst, NEW v \in View,
         NEW chosen \in screen[a].cases \cup {screen[a].selected},
         RunScript(a, v, chosen), UNCHANGED cases
  PROVE  PagesOK'
<1>. DEFINE Q == FetchQueue(a, v)
            sel == Selected(a, v, chosen)
            shown == [view |-> v, cases |-> Q, selected |-> sel]
<1>1. Q \subseteq DOMAIN cases /\ Q \subseteq CaseId
  BY Fetched
<1>2. (sel # 0 => sel \in Q) /\ sel \in CaseId \cup {0}
  BY SelectedListed
<1>3. /\ screen' = [screen EXCEPT ![a] = shown]
      /\ cache' = [cache EXCEPT ![a] = [@ EXCEPT ![v] = Q]]
  BY DEF RunScript
<1>4. depth' \in 0 .. PageLimit
  <2>1. Cardinality(ListReviewCases(v)) \in 0 .. PageLimit
    BY PageBounded DEF TablesOK
  <2>2. depth \in 0 .. PageLimit
    BY DEF PagesOK
  <2>. QED  BY <2>1, <2>2 DEF RunScript
<1>. HIDE DEF Q, sel
<1>5. shown \in Screen
  BY <1>1, <1>2 DEF Screen
<1>. HIDE DEF shown
<1>6. screen' \in [Analyst -> Screen]
  BY <1>3, <1>5 DEF PagesOK
<1>7. cache' \in [Analyst -> [View -> (SUBSET CaseId) \cup {None}]]
  <2>1. cache[a] \in [View -> (SUBSET CaseId) \cup {None}]
    BY DEF PagesOK
  <2>2. [cache[a] EXCEPT ![v] = Q] \in [View -> (SUBSET CaseId) \cup {None}]
    BY <1>1, <2>1
  <2>. QED  BY <1>3, <2>2 DEF PagesOK
<1>8. ASSUME NEW b \in Analyst
      PROVE  /\ screen'[b].cases \subseteq DOMAIN cases
             /\ screen'[b].selected # 0 => screen'[b].selected \in screen'[b].cases
  BY <1>1, <1>2, <1>3 DEF PagesOK, shown
<1>9. ASSUME NEW b \in Analyst, NEW w \in View, cache'[b][w] # None
      PROVE  cache'[b][w] \subseteq DOMAIN cases
  BY <1>1, <1>3, <1>9 DEF PagesOK
<1>. QED  BY <1>4, <1>6, <1>7, <1>8, <1>9 DEF PagesOK

LEMMA ClearAndRunKeepsPages ==
  ASSUME TablesOK, PagesOK, NEW a \in Analyst, ClearAndRun(a), UNCHANGED cases
  PROVE  PagesOK'
<1>. DEFINE v == screen[a].view
            Q == ListReviewCases(v)
            sel == IF Q = {} THEN 0
                   ELSE IF Q = screen[a].cases THEN screen[a].selected ELSE First(Q)
<1>0. v \in View /\ screen[a] \in Screen
  BY DEF PagesOK, Screen
<1>1. Q \subseteq DOMAIN cases /\ Q \subseteq CaseId /\ Cardinality(Q) \in 0 .. PageLimit
  BY <1>0, PageBounded, CaseIds DEF TablesOK
<1>2. (sel # 0 => sel \in Q) /\ sel \in CaseId \cup {0}
  <2>1. Q # {} => First(Q) \in Q
    <3>. HIDE DEF Q
    <3>. QED  BY <1>1, FirstExists, Constants DEF CaseId
  <2>2. screen[a].selected # 0 => screen[a].selected \in screen[a].cases
    BY DEF PagesOK
  <2>. HIDE DEF Q
  <2>. QED  BY <1>1, <2>1, <2>2
<1>3. /\ screen' = [screen EXCEPT ![a] = [@ EXCEPT !.cases = Q, !.selected = sel]]
      /\ cache' = [b \in Analyst |-> [w \in View |-> IF b = a /\ w = v THEN Q ELSE None]]
      /\ depth' \in {Cardinality(Q), depth}
  BY DEF ClearAndRun
<1>4. depth' \in 0 .. PageLimit
  BY <1>1, <1>3 DEF PagesOK
<1>. HIDE DEF Q, sel
<1>5. [screen[a] EXCEPT !.cases = Q, !.selected = sel] \in Screen
  BY <1>0, <1>1, <1>2 DEF Screen
<1>6. screen' \in [Analyst -> Screen]
  BY <1>3, <1>5 DEF PagesOK
<1>7. cache' \in [Analyst -> [View -> (SUBSET CaseId) \cup {None}]]
  BY <1>1, <1>3
<1>8. ASSUME NEW b \in Analyst
      PROVE  /\ screen'[b].cases \subseteq DOMAIN cases
             /\ screen'[b].selected # 0 => screen'[b].selected \in screen'[b].cases
  <2>1. CASE b = a
    BY <1>0, <1>1, <1>2, <1>3, <2>1 DEF PagesOK, Screen
  <2>2. CASE b # a
    BY <1>3, <2>2 DEF PagesOK
  <2>. QED  BY <2>1, <2>2
<1>9. ASSUME NEW b \in Analyst, NEW w \in View, cache'[b][w] # None
      PROVE  cache'[b][w] \subseteq DOMAIN cases
  BY <1>1, <1>3, <1>9
<1>. QED  BY <1>4, <1>6, <1>7, <1>8, <1>9 DEF PagesOK

(* Pages and posts stay as they are while cases are only added.            *)
LEMMA PagesKept ==
  ASSUME PagesOK, UNCHANGED page, DOMAIN cases \subseteq DOMAIN cases'
  PROVE  PagesOK'
<1>1. UNCHANGED <<cache, screen, depth>>
  BY DEF page
<1>. QED  BY <1>1 DEF PagesOK

LEMMA PostsKept ==
  ASSUME PostsOK, UNCHANGED <<posting, late, aware>>, DOMAIN cases \subseteq DOMAIN cases'
  PROVE  PostsOK'
BY DEF PostsOK

(***************************************************************************)
(* Storing a label                                                         *)
(***************************************************************************)
LEMMA RecordedKeepsTables ==
  ASSUME TablesOK, ResolvedIffLabelled,
         NEW who \in Labeller, NEW post, post.case \in DOMAIN cases,
         post.label \in Label, post.reviewed \in BOOLEAN,
         Recorded(who, post), UNCHANGED <<predictions, routing>>
  PROVE  /\ TablesOK' /\ ResolvedIffLabelled'
         /\ DOMAIN cases' = DOMAIN cases
         /\ DOMAIN feedback' = 1 .. Len(feedback) + 1
         /\ \A i \in DOMAIN feedback : feedback'[i] = feedback[i]
         /\ feedback'[Len(feedback) + 1].case = post.case
         /\ feedback'[Len(feedback) + 1].analyst = who
<1>. DEFINE n == Len(feedback) + 1
            row == [case |-> post.case, analyst |-> who, label |-> post.label,
                    reviewed |-> post.reviewed]
            c == post.case
            closed == [cases[c] EXCEPT !.status = "resolved", !.assigned_analyst = who]
<1>1. /\ Len(feedback) \in Nat /\ DOMAIN feedback = 1 .. Len(feedback)
      /\ Len(cases) \in Nat /\ DOMAIN cases = 1 .. Len(cases) /\ DOMAIN cases \subseteq CaseId
  BY CaseIds
<1>2. cases[c] \in CaseRow
  BY <1>1, LenProperties DEF TablesOK
<1>3. closed \in CaseRow /\ closed.status = "resolved" /\ closed.assigned_analyst = who
  BY <1>2 DEF CaseRow
<1>4. cases' = [cases EXCEPT ![c] = closed]
  BY DEF Recorded
<1>5. row \in FeedbackRow /\ row.case = c /\ row.analyst = who
  BY <1>1 DEF FeedbackRow
<1>6. feedback' = Append(feedback, row)
  BY DEF Recorded
<1>. HIDE DEF row, closed
<1>7. /\ feedback' \in Seq(FeedbackRow) /\ Len(feedback') = n
      /\ \A i \in 1 .. Len(feedback) : feedback'[i] = feedback[i]
      /\ feedback'[n] = row
  BY <1>5, <1>6, AppendProperties DEF TablesOK
<1>8. DOMAIN feedback' = 1 .. n
  BY <1>7, LenProperties
<1>9. /\ cases' \in Seq(CaseRow) /\ Len(cases') = Len(cases)
      /\ \A d \in 1 .. Len(cases) : cases'[d] = IF d = c THEN closed ELSE cases[d]
  BY <1>1, <1>3, <1>4, ExceptSeq DEF TablesOK
<1>10. DOMAIN cases' = DOMAIN cases
  BY <1>1, <1>9, LenProperties
<1>11. TablesOK'
  <2>1. \A i \in DOMAIN feedback' : feedback'[i].case \in DOMAIN cases'
    BY <1>1, <1>5, <1>7, <1>8, <1>10 DEF TablesOK
  <2>. QED  BY <1>7, <1>9, <1>10, <2>1 DEF TablesOK
<1>12. ResolvedIffLabelled'
  <2>. SUFFICES ASSUME NEW d \in DOMAIN cases
                PROVE  LET labelled == {i \in DOMAIN feedback' : feedback'[i].case = d} IN
                       IF cases'[d].status = "resolved"
                         THEN /\ labelled # {}
                              /\ cases'[d].assigned_analyst = feedback'[First(labelled)].analyst
                         ELSE labelled = {}
    BY <1>10 DEF ResolvedIffLabelled
  <2>. DEFINE new == {i \in DOMAIN feedback' : feedback'[i].case = d}
              old == {i \in DOMAIN feedback : feedback[i].case = d}
  <2>1. CASE d = c
    <3>1. n \in new /\ new \in SUBSET Int /\ \A i \in new : i <= n
      BY <1>1, <1>5, <1>7, <1>8, <2>1
    <3>2. First(new) = n
      <4>. HIDE DEF new
      <4>. QED  BY <3>1, FirstIs
    <3>3. cases'[d] = closed
      BY <1>1, <1>9, <2>1
    <3>. QED  BY <1>3, <1>5, <1>7, <3>1, <3>2, <3>3
  <2>2. CASE d # c
    <3>1. new = old
      BY <1>1, <1>5, <1>7, <1>8, <2>2
    <3>2. cases'[d] = cases[d]
      BY <1>1, <1>9, <2>2
    <3>3. IF cases[d].status = "resolved"
            THEN old # {} /\ cases[d].assigned_analyst = feedback[First(old)].analyst
            ELSE old = {}
      BY DEF ResolvedIffLabelled
    <3>4. old # {} => First(old) \in old
      <4>1. old \in SUBSET (1 .. Len(feedback))
        BY <1>1
      <4>. HIDE DEF old
      <4>. QED  BY <1>1, <4>1, FirstExists
    <3>5. old # {} => feedback'[First(old)] = feedback[First(old)]
      BY <1>1, <1>7, <3>4
    <3>. HIDE DEF new, old
    <3>. QED  BY <3>1, <3>2, <3>3, <3>5 DEF new
  <2>. QED  BY <2>1, <2>2
<1>. QED  BY <1>1, <1>5, <1>7, <1>8, <1>10, <1>11, <1>12

(***************************************************************************)
(* Settled cases stay out of sight                                         *)
(***************************************************************************)

(* A settled case is resolved, so no fresh list of pending cases has it.   *)
LEMMA SettledResolved ==
  ASSUME ResolvedIffLabelled, TablesOK, NEW a, NEW c, Settled(a, c)
  PROVE  c \notin ListReviewCases("pending")
<1>. SUFFICES ASSUME c \in ListReviewCases("pending") PROVE FALSE
  OBVIOUS
<1>1. c \in DOMAIN cases /\ cases[c].status = "pending"
  BY DEF ListReviewCases, OfStatus
<1>2. {i \in DOMAIN feedback : feedback[i].case = c} = {}
  BY <1>1 DEF ResolvedIffLabelled
<1>. QED  BY <1>2 DEF Settled

LEMMA StillSettled ==
  ASSUME UNCHANGED feedback, aware \subseteq aware', NEW a, NEW c, Settled(a, c)'
  PROVE  Settled(a, c)
BY DEF Settled

LEMMA RunScriptHides ==
  ASSUME TablesOK, PagesOK, ResolvedIffLabelled,
         NEW a \in Analyst, NEW v \in View, NEW chosen, RunScript(a, v, chosen),
         NEW b \in Analyst, NEW c, Settled(b, c), Hidden(b, c)
  PROVE  Hidden(b, c)'
<1>1. c \notin ListReviewCases("pending")
  BY SettledResolved
<1>2. CASE b # a
  <2>1. cache'[b] = cache[b] /\ screen'[b] = screen[b]
    BY <1>2 DEF RunScript, PagesOK
  <2>. QED  BY <2>1 DEF Hidden
<1>3. CASE b = a
  <2>1. v = "pending" => c \notin FetchQueue(a, v)
    BY <1>1, <1>3 DEF FetchQueue, Hidden
  <2>2. screen'[a].view = v /\ screen'[a].cases = FetchQueue(a, v)
    BY DEF RunScript, PagesOK
  <2>3. \A w \in View : cache'[a][w] = IF w = v THEN FetchQueue(a, v) ELSE cache[a][w]
    BY DEF RunScript, PagesOK
  <2>. HIDE DEF FetchQueue
  <2>. QED  BY <1>3, <2>1, <2>2, <2>3, Constants DEF Hidden
<1>. QED  BY <1>2, <1>3

LEMMA ClearAndRunHides ==
  ASSUME TablesOK, PagesOK, ResolvedIffLabelled,
         NEW a \in Analyst, ClearAndRun(a),
         NEW b \in Analyst, NEW c, Settled(b, c), b = a \/ Hidden(b, c)
  PROVE  Hidden(b, c)'
<1>. DEFINE v == screen[a].view
<1>1. c \notin ListReviewCases("pending")
  BY SettledResolved
<1>2. \A w \in View : cache'[b][w] = IF b = a /\ w = v THEN ListReviewCases(v) ELSE None
  BY DEF ClearAndRun
<1>3. cache'[b]["pending"] # None => c \notin cache'[b]["pending"]
  BY <1>1, <1>2, Constants
<1>4. CASE b = a
  <2>1. screen'[a].view = v /\ screen'[a].cases = ListReviewCases(v)
    <3>1. screen[a] \in Screen
      BY DEF PagesOK
    <3>. QED  BY <3>1 DEF ClearAndRun, PagesOK, Screen
  <2>. QED  BY <1>1, <1>3, <1>4, <2>1 DEF Hidden
<1>5. CASE b # a
  <2>1. screen'[b] = screen[b]
    BY <1>5 DEF ClearAndRun, PagesOK
  <2>. QED  BY <1>3, <1>5, <2>1 DEF Hidden
<1>. QED  BY <1>4, <1>5

(* What can settle a case: nothing but a label of hers for it.             *)
LEMMA RecordedSettles ==
  ASSUME IInv, NEW who \in Labeller, NEW post, post.case \in DOMAIN cases,
         post.label \in Label, post.reviewed \in BOOLEAN,
         Recorded(who, post), UNCHANGED <<predictions, routing, aware>>,
         who \in Script \/ ~Settled(who, post.case)
  PROVE  /\ OneLabelPerAnalyst'
         /\ \A b, c : Settled(b, c)' => Settled(b, c) \/ (b = who /\ c = post.case)
<1>. DEFINE n == Len(feedback) + 1
<1>1. /\ Len(feedback) \in Nat /\ DOMAIN feedback = 1 .. Len(feedback)
      /\ DOMAIN feedback' = 1 .. n
      /\ \A i \in DOMAIN feedback : feedback'[i] = feedback[i]
      /\ feedback'[n].case = post.case /\ feedback'[n].analyst = who
  BY RecordedKeepsTables, CaseIds DEF IInv
<1>. HIDE DEF n
<1>2. \A i \in DOMAIN feedback' : i = n \/ i \in DOMAIN feedback
  BY <1>1 DEF n
<1>3. OneLabelPerAnalyst'
  <2>. SUFFICES ASSUME NEW i \in DOMAIN feedback', NEW j \in DOMAIN feedback', i # j,
                       feedback'[i].case = feedback'[j].case,
                       feedback'[i].analyst = feedback'[j].analyst,
                       feedback'[i].analyst \notin Script
                PROVE  <<feedback'[i].analyst, feedback'[i].case>> \in aware
    BY DEF OneLabelPerAnalyst
  <2>1. CASE i \in DOMAIN feedback /\ j \in DOMAIN feedback
    BY <1>1, <2>1 DEF IInv, OneLabelPerAnalyst
  <2>2. ASSUME NEW k \in DOMAIN feedback, feedback[k].case = post.case,
               feedback[k].analyst = who, who \notin Script
        PROVE  <<who, post.case>> \in aware
    BY <2>2 DEF Settled
  <2>3. CASE i = n
    BY <1>1, <1>2, <2>2, <2>3
  <2>4. CASE j = n
    BY <1>1, <1>2, <2>2, <2>4
  <2>. QED  BY <1>2, <2>1, <2>3, <2>4
<1>4. ASSUME NEW b, NEW c, Settled(b, c)', ~(b = who /\ c = post.case)
      PROVE  Settled(b, c)
  <2>1. PICK i \in DOMAIN feedback' : feedback'[i].case = c /\ feedback'[i].analyst = b
    BY <1>4 DEF Settled
  <2>2. i \in DOMAIN feedback
    BY <1>1, <1>2, <1>4, <2>1
  <2>. QED  BY <1>1, <1>4, <2>1, <2>2 DEF Settled
<1>. QED  BY <1>3, <1>4

(***************************************************************************)
(* The invariant is inductive                                              *)
(***************************************************************************)
LEMMA InitIInv == Init => IInv
<1>. SUFFICES ASSUME Init PROVE IInv
  OBVIOUS
<1>1. TablesOK
  <2>1. Cardinality(routing) = 0
    BY FS_EmptySet DEF Init
  <2>2. predictions \in Seq(Prediction) /\ cases \in Seq(CaseRow)
        /\ feedback \in Seq(FeedbackRow)
    BY DEF Init
  <2>3. Len(predictions) = 0 /\ Len(cases) = 0 /\ DOMAIN feedback = {}
    BY DEF Init
  <2>4. routing = {}
    BY DEF Init
  <2>. QED  BY <2>1, <2>2, <2>3, <2>4, Constants DEF TablesOK
<1>2. PagesOK
  <2>1. cache \in [Analyst -> [View -> (SUBSET CaseId) \cup {None}]]
    BY DEF Init
  <2>2. screen \in [Analyst -> Screen]
    BY Constants DEF Init, Screen
  <2>3. \A a \in Analyst : /\ screen[a].cases = {} /\ screen[a].selected = 0
                           /\ \A v \in View : cache[a][v] = None
    BY DEF Init
  <2>4. depth \in 0 .. PageLimit
    BY Constants DEF Init
  <2>. QED  BY <2>1, <2>2, <2>3, <2>4 DEF PagesOK
<1>3. PostsOK /\ PushedOK
  BY Constants DEF Init, PostsOK, PushedOK
<1>4. cases = <<>> /\ feedback = <<>>
  BY DEF Init
<1>5. ResolvedIffLabelled /\ SettledOK /\ OneLabelPerAnalyst
  BY <1>4 DEF ResolvedIffLabelled, SettledOK, Settled, OneLabelPerAnalyst
<1>. QED  BY <1>1, <1>2, <1>3, <1>5 DEF IInv

(* What no label, page or post touches stays as it is.                     *)
LEMMA ResolvedKept ==
  ASSUME ResolvedIffLabelled, UNCHANGED <<cases, feedback>>
  PROVE  ResolvedIffLabelled'
BY DEF ResolvedIffLabelled

LEMMA OneLabelKept ==
  ASSUME OneLabelPerAnalyst, UNCHANGED feedback, aware \subseteq aware'
  PROVE  OneLabelPerAnalyst'
BY DEF OneLabelPerAnalyst

LEMMA SettledKept ==
  ASSUME SettledOK, UNCHANGED <<cache, screen, posting, feedback>>, aware \subseteq aware'
  PROVE  SettledOK'
<1>. SUFFICES ASSUME NEW a \in Analyst \ Script, NEW c \in CaseId, Settled(a, c)'
              PROVE  IF Posting(a, c)' THEN posting'[a].stored ELSE Hidden(a, c)'
  BY DEF SettledOK
<1>1. Settled(a, c)
  BY StillSettled
<1>2. (Posting(a, c)' <=> Posting(a, c)) /\ (Hidden(a, c)' <=> Hidden(a, c))
  BY DEF Posting, Hidden
<1>. QED  BY <1>1, <1>2 DEF SettledOK

LEMMA NextScoring ==
  ASSUME IInv,
         \/ \E t \in Txn, routed \in BOOLEAN : WritePrediction(t, routed)
         \/ \E p \in CaseId : CreateReviewCase(p) \/ ScoreDies(p)
  PROVE  IInv'
<1>. USE DEF IInv
<1>1. UNCHANGED <<feedback, cache, screen, depth, page, posting, late, aware, pushed>>
  BY DEF WritePrediction, CreateReviewCase, ScoreDies, tables, page
<1>2. SettledOK' /\ OneLabelPerAnalyst' /\ PushedOK'
  BY <1>1, SettledKept, OneLabelKept DEF PushedOK
<1>3. ASSUME DOMAIN cases \subseteq DOMAIN cases' PROVE PagesOK' /\ PostsOK'
  BY <1>1, <1>3, PagesKept, PostsKept
<1>4. ASSUME NEW t \in Txn, NEW routed \in BOOLEAN, WritePrediction(t, routed) PROVE IInv'
  <2>. DEFINE p == Len(predictions) + 1
  <2>1. UNCHANGED <<cases, feedback>>
    BY <1>4 DEF WritePrediction
  <2>2. [txn |-> t, routed |-> routed] \in Prediction
    BY DEF Prediction
  <2>3. /\ predictions' \in Seq(Prediction) /\ Len(predictions') = p
        /\ DOMAIN predictions' = 1 .. p
    BY <1>4, <2>2, AppendProperties, LenProperties DEF WritePrediction, TablesOK
  <2>4. Len(predictions) < MaxPredictions /\ Len(predictions) \in Nat /\ Len(cases) \in Nat
        /\ DOMAIN predictions = 1 .. Len(predictions)
    BY <1>4, CaseIds DEF WritePrediction
  <2>5. routing' \in {routing, routing \cup {p}} /\ IsFiniteSet(routing)
    BY <1>4, CaseIds DEF WritePrediction
  <2>6. Cardinality(routing') \in {Cardinality(routing), Cardinality(routing) + 1}
    BY <2>5, FS_AddElement
  <2>7. Cardinality(routing) \in Nat
    BY CaseIds
  <2>8. routing' \subseteq 1 .. p
    BY <2>4, <2>5 DEF TablesOK
  <2>9. Len(cases) + Cardinality(routing') <= p /\ p <= MaxPredictions
    BY <2>4, <2>6, <2>7, Constants DEF TablesOK
  <2>10. TablesOK'
    BY <2>1, <2>3, <2>8, <2>9 DEF TablesOK
  <2>. QED  BY <1>2, <1>3, <2>1, <2>10, ResolvedKept
<1>5. ASSUME NEW p \in CaseId, CreateReviewCase(p) PROVE IInv'
  <2>. DEFINE n == Len(cases) + 1
              row == [prediction |-> p, status |-> "pending", assigned_analyst |-> None]
  <2>1. row \in CaseRow /\ row.status = "pending"
    BY DEF CaseRow
  <2>2. cases' = Append(cases, row)
    BY <1>5 DEF CreateReviewCase
  <2>. HIDE DEF row
  <2>3. /\ cases' \in Seq(CaseRow) /\ Len(cases') = n /\ cases'[n] = row
        /\ \A c \in 1 .. Len(cases) : cases'[c] = cases[c]
    BY <2>1, <2>2, AppendProperties DEF TablesOK
  <2>4. DOMAIN cases' = 1 .. n
    BY <2>3, LenProperties
  <2>5. Len(cases) \in Nat /\ DOMAIN cases = 1 .. Len(cases)
        /\ IsFiniteSet(routing) /\ Cardinality(routing) \in Nat /\ Len(predictions) \in Nat
    BY CaseIds
  <2>6. p \in routing /\ routing' = routing \ {p} /\ UNCHANGED predictions
    BY <1>5 DEF CreateReviewCase
  <2>7. Cardinality(routing') = Cardinality(routing) - 1
    BY <2>5, <2>6, FS_RemoveElement
  <2>8. Len(cases') + Cardinality(routing') <= Len(predictions')
    BY <2>3, <2>5, <2>6, <2>7 DEF TablesOK
  <2>9. DOMAIN cases \subseteq DOMAIN cases'
    BY <2>4, <2>5
  <2>10. TablesOK'
    BY <1>1, <2>3, <2>6, <2>8, <2>9 DEF TablesOK
  <2>11. ResolvedIffLabelled'
    <3>. SUFFICES ASSUME NEW c \in DOMAIN cases'
                  PROVE  LET labelled == {i \in DOMAIN feedback : feedback[i].case = c} IN
                         IF cases'[c].status = "resolved"
                           THEN /\ labelled # {}
                                /\ cases'[c].assigned_analyst = feedback[First(labelled)].analyst
                           ELSE labelled = {}
      BY <1>1 DEF ResolvedIffLabelled
    <3>1. CASE c \in DOMAIN cases
      BY <2>3, <2>5, <3>1 DEF ResolvedIffLabelled
    <3>2. CASE c = n
      <4>1. c \notin DOMAIN cases /\ cases'[c].status = "pending"
        BY <2>1, <2>3, <2>5, <3>2
      <4>2. {i \in DOMAIN feedback : feedback[i].case = c} = {}
        BY <4>1 DEF TablesOK
      <4>. QED  BY <4>1, <4>2
    <3>. QED  BY <2>4, <2>5, <3>1, <3>2
  <2>. QED  BY <1>2, <1>3, <2>9, <2>10, <2>11
<1>6. ASSUME NEW p \in CaseId, ScoreDies(p) PROVE IInv'
  <2>1. UNCHANGED <<predictions, cases, feedback>> /\ routing' = routing \ {p}
    BY <1>6 DEF ScoreDies, tables
  <2>2. Cardinality(routing') <= Cardinality(routing) /\ Cardinality(routing') \in Nat
    <3>1. IsFiniteSet(routing) /\ routing' \in SUBSET routing
      BY <2>1, CaseIds
    <3>. QED  BY <3>1, FS_Subset, FS_CardinalityType
  <2>3. TablesOK'
    <3>1. Len(cases) + Cardinality(routing') <= Len(predictions)
      BY <2>2, CaseIds DEF TablesOK
    <3>. QED  BY <2>1, <3>1 DEF TablesOK
  <2>. QED  BY <1>2, <1>3, <2>1, <2>3, ResolvedKept
<1>. QED  BY <1>4, <1>5, <1>6

(* The page reads: only pages, caches and what it posts change.            *)
LEMMA TablesKept ==
  ASSUME TablesOK, ResolvedIffLabelled, PushedOK, UNCHANGED <<tables, routing, pushed>>
  PROVE  TablesOK' /\ ResolvedIffLabelled' /\ PushedOK' /\ UNCHANGED <<cases, feedback>>
<1>1. UNCHANGED <<predictions, cases, feedback, routing, pushed>>
  BY DEF tables
<1>. QED  BY <1>1, ResolvedKept DEF TablesOK, PushedOK

LEMMA NextPage ==
  ASSUME IInv, NEW a \in Analyst, PageStep(a)
  PROVE  IInv'
<1>. USE DEF IInv
<1>1. UNCHANGED <<tables, routing, pushed>> /\ aware \subseteq aware'
  BY DEF PageStep, Browse, RefreshQueue, Answer, TimeOut, ExpireCache, FetchFails,
         SubmitFeedback
<1>2. /\ TablesOK' /\ ResolvedIffLabelled' /\ PushedOK' /\ OneLabelPerAnalyst'
      /\ UNCHANGED <<cases, feedback>>
  BY <1>1, TablesKept, OneLabelKept
<1>3. ASSUME NEW v \in View, NEW c \in CaseId \cup {0}, Browse(a, v, c) PROVE IInv'
  <2>1. /\ posting[a] = None /\ RunScript(a, v, c)
        /\ UNCHANGED <<posting, late, aware>>
        /\ c \in screen[a].cases \cup {screen[a].selected}
    BY <1>3 DEF Browse
  <2>2. PagesOK' /\ PostsOK'
    BY <1>2, <2>1, RunScriptKeepsPages, PostsKept
  <2>3. SettledOK'
    <3>. SUFFICES ASSUME NEW b \in Analyst \ Script, NEW d \in CaseId, Settled(b, d)'
                  PROVE  IF Posting(b, d)' THEN posting'[b].stored ELSE Hidden(b, d)'
      BY DEF SettledOK
    <3>1. Settled(b, d) /\ (Posting(b, d)' <=> Posting(b, d))
      BY <1>2, <2>1, StillSettled DEF Posting
    <3>2. Hidden(b, d) => Hidden(b, d)'
      BY <2>1, <3>1, RunScriptHides
    <3>. QED  BY <2>1, <3>1, <3>2 DEF SettledOK
  <2>. QED  BY <1>2, <2>2, <2>3
<1>4. CASE RefreshQueue(a)
  <2>1. ClearAndRun(a) /\ posting[a] = None /\ UNCHANGED <<posting, late, aware>>
    BY <1>4 DEF RefreshQueue
  <2>2. PagesOK' /\ PostsOK'
    BY <1>2, <2>1, ClearAndRunKeepsPages, PostsKept
  <2>3. SettledOK'
    <3>. SUFFICES ASSUME NEW b \in Analyst \ Script, NEW d \in CaseId, Settled(b, d)'
                  PROVE  IF Posting(b, d)' THEN posting'[b].stored ELSE Hidden(b, d)'
      BY DEF SettledOK
    <3>1. Settled(b, d) /\ (Posting(b, d)' <=> Posting(b, d))
      BY <1>2, <2>1, StillSettled DEF Posting
    <3>2. Hidden(b, d) => Hidden(b, d)'
      BY <2>1, <3>1, ClearAndRunHides
    <3>. QED  BY <2>1, <3>1, <3>2 DEF SettledOK
  <2>. QED  BY <1>2, <2>2, <2>3
<1>5. CASE Answer(a)
  <2>1. ClearAndRun(a) /\ posting' = [posting EXCEPT ![a] = None] /\ UNCHANGED <<late, aware>>
    BY <1>5 DEF Answer
  <2>2. PagesOK'
    BY <1>2, <2>1, ClearAndRunKeepsPages
  <2>3. PostsOK'
    BY <1>2, <2>1 DEF PostsOK
  <2>4. SettledOK'
    <3>. SUFFICES ASSUME NEW b \in Analyst \ Script, NEW d \in CaseId, Settled(b, d)'
                  PROVE  IF Posting(b, d)' THEN posting'[b].stored ELSE Hidden(b, d)'
      BY DEF SettledOK
    <3>1. Settled(b, d)
      BY <1>2, <2>1, StillSettled
    <3>2. b = a \/ Hidden(b, d) => Hidden(b, d)'
      BY <2>1, <3>1, ClearAndRunHides
    <3>3. b = a => posting'[b] = None
      BY <2>1 DEF PostsOK
    <3>4. b # a => posting'[b] = posting[b]
      BY <2>1 DEF PostsOK
    <3>. QED  BY <3>1, <3>2, <3>3, <3>4 DEF SettledOK, Posting
  <2>. QED  BY <1>2, <2>2, <2>3, <2>4
<1>6. CASE TimeOut(a)
  <2>1. /\ posting[a] # None /\ posting' = [posting EXCEPT ![a] = None]
        /\ aware' = aware \cup {<<a, posting[a].case>>}
        /\ UNCHANGED <<cache, screen, depth, page>>
    BY <1>6 DEF TimeOut, page
  <2>2. late' = late \/ late' = [late EXCEPT ![a] = posting[a]]
    BY <1>6 DEF TimeOut
  <2>3. PagesOK'
    BY <1>2, <2>1, PagesKept
  <2>4. PostsOK'
    <3>1. posting[a] \in Post /\ posting[a].case \in DOMAIN cases
      BY <2>1 DEF PostsOK
    <3>2. posting[a].case \in CaseId
      BY <3>1 DEF Post
    <3>3. aware' \subseteq Analyst \X CaseId
      BY <2>1, <3>2 DEF PostsOK
    <3>4. posting' \in [Analyst -> Post \cup {None}] /\ late' \in [Analyst -> Post \cup {None}]
      BY <2>1, <2>2, <3>1 DEF PostsOK
    <3>5. ASSUME NEW b \in Analyst
          PROVE  /\ posting'[b] # None => posting'[b].case \in DOMAIN cases
                 /\ late'[b] # None => /\ late'[b].case \in DOMAIN cases
                                      /\ <<b, late'[b].case>> \in aware'
      BY <2>1, <2>2, <3>1 DEF PostsOK
    <3>. QED  BY <1>2, <3>3, <3>4, <3>5 DEF PostsOK
  <2>5. SettledOK'
    <3>. SUFFICES ASSUME NEW b \in Analyst \ Script, NEW d \in CaseId, Settled(b, d)'
                  PROVE  IF Posting(b, d)' THEN posting'[b].stored ELSE Hidden(b, d)'
      BY DEF SettledOK
    <3>1. Settled(b, d)
      BY <1>1, <1>2, StillSettled
    <3>2. <<b, d>> \notin aware'
      BY DEF Settled
    <3>3. b = a => d # posting[a].case
      BY <2>1, <3>2
    <3>4. Hidden(b, d) => Hidden(b, d)'
      BY <2>1 DEF Hidden
    <3>5. posting'[b] = IF b = a THEN None ELSE posting[b]
      BY <2>1 DEF PostsOK
    <3>. QED  BY <3>1, <3>3, <3>4, <3>5 DEF SettledOK, Posting
  <2>. QED  BY <1>2, <2>3, <2>4, <2>5
<1>7. ASSUME NEW v \in View, ExpireCache(a, v) \/ FetchFails(a, v) PROVE IInv'
  <2>1. UNCHANGED <<posting, late, aware>> /\ depth' = depth
    BY <1>7 DEF ExpireCache, FetchFails
  <2>2. cache' \in [Analyst -> [View -> (SUBSET CaseId) \cup {None}]]
    <3>. DEFINE expired == [cache[a] EXCEPT ![v] = None]
    <3>1. cache \in [Analyst -> [View -> (SUBSET CaseId) \cup {None}]]
      BY DEF PagesOK
    <3>2. expired \in [View -> (SUBSET CaseId) \cup {None}]
      BY <3>1
    <3>3. cache' = cache \/ cache' = [cache EXCEPT ![a] = expired]
      BY <1>7 DEF ExpireCache, FetchFails
    <3>. HIDE DEF expired
    <3>. QED  BY <3>1, <3>2, <3>3
  <2>3. \A b \in Analyst, w \in View : cache'[b][w] \in {cache[b][w], None}
    BY <1>7 DEF ExpireCache, FetchFails, PagesOK
  <2>4. [view |-> v, cases |-> {}, selected |-> 0] \in Screen
    BY DEF Screen
  <2>5. screen' \in [Analyst -> Screen]
    BY <1>7, <2>4 DEF ExpireCache, FetchFails, PagesOK
  <2>6. \A b \in Analyst : screen'[b] \in {screen[b], [view |-> v, cases |-> {}, selected |-> 0]}
    BY <1>7 DEF ExpireCache, FetchFails, PagesOK
  <2>7. PagesOK'
    <3>1. depth' \in 0 .. PageLimit
      BY <2>1 DEF PagesOK
    <3>2. ASSUME NEW b \in Analyst
          PROVE  /\ screen'[b].cases \subseteq DOMAIN cases
                 /\ screen'[b].selected # 0 => screen'[b].selected \in screen'[b].cases
      BY <2>6 DEF PagesOK
    <3>3. ASSUME NEW b \in Analyst, NEW w \in View, cache'[b][w] # None
          PROVE  cache'[b][w] \subseteq DOMAIN cases
      BY <2>3, <3>3 DEF PagesOK
    <3>. QED  BY <1>2, <2>2, <2>5, <3>1, <3>2, <3>3 DEF PagesOK
  <2>8. PostsOK'
    BY <1>2, <2>1, PostsKept
  <2>9. SettledOK'
    <3>. SUFFICES ASSUME NEW b \in Analyst \ Script, NEW d \in CaseId, Settled(b, d)'
                  PROVE  IF Posting(b, d)' THEN posting'[b].stored ELSE Hidden(b, d)'
      BY DEF SettledOK
    <3>1. Settled(b, d) /\ (Posting(b, d)' <=> Posting(b, d))
      BY <1>2, <2>1, StillSettled DEF Posting
    <3>2. Hidden(b, d) => Hidden(b, d)'
      BY <2>3, <2>6, Constants DEF Hidden
    <3>. QED  BY <2>1, <3>1, <3>2 DEF SettledOK
  <2>. QED  BY <1>2, <2>7, <2>8, <2>9
<1>8. ASSUME NEW label \in Label, SubmitFeedback(a, label) PROVE IInv'
  <2>. DEFINE v == screen[a].view
              target == Selected(a, v, screen[a].selected)
              post == [case |-> target, label |-> label,
                       reviewed |-> screen[a].selected = target, stored |-> FALSE]
  <2>1. v \in View
    BY DEF PagesOK, Screen
  <2>2. /\ posting[a] = None /\ target # 0 /\ RunScript(a, v, screen[a].selected)
        /\ posting' = [posting EXCEPT ![a] = post]
        /\ aware' = IF v = "pending" THEN aware ELSE aware \cup {<<a, target>>}
        /\ UNCHANGED late
    BY <1>8 DEF SubmitFeedback
  <2>3. target \in FetchQueue(a, v)
    BY <2>1, <2>2, SelectedListed
  <2>4. target \in DOMAIN cases /\ target \in CaseId
    BY <2>1, <2>3, Fetched
  <2>5. PagesOK'
    BY <1>2, <2>1, <2>2, RunScriptKeepsPages
  <2>. HIDE DEF target
  <2>6. post \in Post
    BY <2>4 DEF Post
  <2>7. PostsOK'
    <3>1. posting' \in [Analyst -> Post \cup {None}] /\ late' \in [Analyst -> Post \cup {None}]
      BY <2>2, <2>6 DEF PostsOK
    <3>2. aware' \subseteq Analyst \X CaseId
      BY <2>2, <2>4 DEF PostsOK
    <3>3. ASSUME NEW b \in Analyst
          PROVE  /\ posting'[b] # None => posting'[b].case \in DOMAIN cases
                 /\ late'[b] # None => /\ late'[b].case \in DOMAIN cases
                                      /\ <<b, late'[b].case>> \in aware'
      BY <1>1, <2>2, <2>4 DEF PostsOK
    <3>. QED  BY <1>2, <3>1, <3>2, <3>3 DEF PostsOK
  <2>8. SettledOK'
    <3>. SUFFICES ASSUME NEW b \in Analyst \ Script, NEW d \in CaseId, Settled(b, d)'
                  PROVE  IF Posting(b, d)' THEN posting'[b].stored ELSE Hidden(b, d)'
      BY DEF SettledOK
    <3>1. Settled(b, d)
      BY <1>1, <1>2, StillSettled
    <3>2. Hidden(b, d) => Hidden(b, d)'
      BY <2>1, <2>2, <3>1, RunScriptHides
    <3>3. CASE b # a
      <4>1. posting'[b] = posting[b]
        BY <2>2, <3>3 DEF PostsOK
      <4>. QED  BY <3>1, <3>2, <4>1 DEF SettledOK, Posting
    <3>4. CASE b = a
      <4>1. Hidden(a, d)
        BY <2>2, <3>1, <3>4 DEF SettledOK, Posting
      <4>2. d # target
        <5>1. CASE v = "pending"
          <6>1. d \notin FetchQueue(a, v)
            BY <3>1, <3>4, <4>1, <5>1, SettledResolved DEF FetchQueue, Hidden
          <6>. QED  BY <2>3, <6>1
        <5>2. CASE v # "pending"
          BY <2>2, <3>4, <5>2 DEF Settled
        <5>. QED  BY <5>1, <5>2
      <4>3. posting'[a] = post
        BY <2>2 DEF PostsOK
      <4>. QED  BY <3>2, <3>4, <4>1, <4>2, <4>3 DEF Posting
    <3>. QED  BY <3>3, <3>4
  <2>. QED  BY <1>2, <2>5, <2>7, <2>8
<1>. QED  BY <1>3, <1>4, <1>5, <1>6, <1>7, <1>8 DEF PageStep

(* The server: feedback is committed, or it is lost.                       *)
LEMMA NextServer ==
  ASSUME IInv, NEW a \in Analyst, ServerStep(a)
  PROVE  IInv'
<1>. USE DEF IInv
<1>1. UNCHANGED <<predictions, routing, cache, screen, depth, page, aware, pushed>>
  BY DEF ServerStep, StoreFeedback, StoreLate, FeedbackFails, page, tables
<1>2. PushedOK' /\ a \in Labeller
  BY <1>1 DEF PushedOK, Labeller
<1>3. ASSUME NEW post \in Post, post.case \in DOMAIN cases, Recorded(a, post),
             a \in Script \/ ~Settled(a, post.case)
      PROVE  /\ TablesOK' /\ ResolvedIffLabelled' /\ OneLabelPerAnalyst' /\ PagesOK'
             /\ DOMAIN cases' = DOMAIN cases
             /\ \A b, c : Settled(b, c)' => Settled(b, c) \/ (b = a /\ c = post.case)
  <2>1. post.label \in Label /\ post.reviewed \in BOOLEAN
    BY DEF Post
  <2>2. TablesOK' /\ ResolvedIffLabelled' /\ DOMAIN cases' = DOMAIN cases
    BY <1>1, <1>2, <1>3, <2>1, RecordedKeepsTables
  <2>3. PagesOK'
    BY <1>1, <2>2, PagesKept
  <2>. QED  BY <1>1, <1>2, <1>3, <2>1, <2>2, <2>3, RecordedSettles
<1>4. ASSUME NEW b, NEW c PROVE Hidden(b, c)' <=> Hidden(b, c)
  BY <1>1 DEF Hidden
<1>5. CASE StoreFeedback(a)
  <2>. DEFINE post == posting[a]
              done == [post EXCEPT !.stored = TRUE]
  <2>1. /\ post # None /\ ~post.stored /\ Recorded(a, post)
        /\ posting' = [posting EXCEPT ![a] = done] /\ UNCHANGED late
    BY <1>5 DEF StoreFeedback
  <2>2. post \in Post /\ post.case \in DOMAIN cases
    BY <2>1 DEF PostsOK
  <2>3. post.case \in CaseId
    BY <2>2 DEF Post
  <2>4. a \in Script \/ ~Settled(a, post.case)
    BY <2>1, <2>3 DEF SettledOK, Posting
  <2>5. done \in Post /\ done.case = post.case /\ done.stored
    BY <2>2 DEF Post
  <2>6. done # None
    BY <2>5, NoneAssumption
  <2>. HIDE DEF post, done
  <2>7. /\ TablesOK' /\ ResolvedIffLabelled' /\ OneLabelPerAnalyst' /\ PagesOK'
        /\ DOMAIN cases' = DOMAIN cases
        /\ \A b, c : Settled(b, c)' => Settled(b, c) \/ (b = a /\ c = post.case)
    BY <1>3, <2>1, <2>2, <2>4
  <2>8. \A b \in Analyst : posting'[b] = IF b = a THEN done ELSE posting[b]
    BY <2>1 DEF PostsOK
  <2>9. PostsOK'
    <3>1. posting' \in [Analyst -> Post \cup {None}]
      BY <2>1, <2>5 DEF PostsOK
    <3>2. \A b \in Analyst : posting'[b] # None => posting'[b].case \in DOMAIN cases
      BY <2>2, <2>5, <2>8 DEF PostsOK
    <3>. QED  BY <1>1, <2>1, <2>7, <3>1, <3>2 DEF PostsOK
  <2>10. SettledOK'
    <3>. SUFFICES ASSUME NEW b \in Analyst \ Script, NEW d \in CaseId, Settled(b, d)'
                  PROVE  IF Posting(b, d)' THEN posting'[b].stored ELSE Hidden(b, d)'
      BY DEF SettledOK
    <3>1. CASE b = a /\ d = post.case
      BY <2>5, <2>6, <2>8, <3>1 DEF Posting
    <3>2. CASE ~(b = a /\ d = post.case)
      <4>1. Settled(b, d)
        BY <2>7, <3>2
      <4>2. Posting(b, d)' => b # a
        BY <2>5, <2>8, <3>2 DEF Posting
      <4>3. b # a => (Posting(b, d)' <=> Posting(b, d)) /\ posting'[b] = posting[b]
        BY <2>8 DEF Posting
      <4>4. b = a => ~Posting(b, d)
        BY <3>2 DEF Posting, post
      <4>. QED  BY <1>4, <4>1, <4>2, <4>3, <4>4 DEF SettledOK
    <3>. QED  BY <3>1, <3>2
  <2>. QED  BY <1>2, <2>7, <2>9, <2>10
<1>6. CASE StoreLate(a)
  <2>. DEFINE post == late[a]
  <2>1. /\ post # None /\ Recorded(a, post)
        /\ late' = [late EXCEPT ![a] = None] /\ UNCHANGED posting
    BY <1>6 DEF StoreLate
  <2>2. post \in Post /\ post.case \in DOMAIN cases /\ <<a, post.case>> \in aware
    BY <2>1 DEF PostsOK
  <2>3. ~Settled(a, post.case)
    BY <2>2 DEF Settled
  <2>4. \A c : <<a, c>> \in aware => ~Settled(a, c)'
    BY <1>1 DEF Settled
  <2>. HIDE DEF post
  <2>5. /\ TablesOK' /\ ResolvedIffLabelled' /\ OneLabelPerAnalyst' /\ PagesOK'
        /\ DOMAIN cases' = DOMAIN cases
        /\ \A b, c : Settled(b, c)' => Settled(b, c) \/ (b = a /\ c = post.case)
    BY <1>3, <2>1, <2>2, <2>3
  <2>6. PostsOK'
    <3>1. late' \in [Analyst -> Post \cup {None}]
      BY <2>1 DEF PostsOK
    <3>2. \A b \in Analyst : late'[b] \in {late[b], None}
      BY <2>1 DEF PostsOK
    <3>. QED  BY <1>1, <2>1, <2>5, <3>1, <3>2 DEF PostsOK
  <2>7. SettledOK'
    <3>. SUFFICES ASSUME NEW b \in Analyst \ Script, NEW d \in CaseId, Settled(b, d)'
                  PROVE  IF Posting(b, d)' THEN posting'[b].stored ELSE Hidden(b, d)'
      BY DEF SettledOK
    <3>1. Settled(b, d)
      BY <2>2, <2>4, <2>5
    <3>2. Posting(b, d)' <=> Posting(b, d)
      BY <2>1 DEF Posting
    <3>. QED  BY <1>4, <2>1, <3>1, <3>2 DEF SettledOK
  <2>. QED  BY <1>2, <2>5, <2>6, <2>7
<1>7. CASE FeedbackFails(a)
  <2>1. UNCHANGED <<cases, feedback>>
    BY <1>7 DEF FeedbackFails, tables
  <2>2. /\ \A b \in Analyst : posting'[b] \in {posting[b], None} /\ late'[b] \in {late[b], None}
        /\ posting' \in [Analyst -> Post \cup {None}] /\ late' \in [Analyst -> Post \cup {None}]
    BY <1>7 DEF FeedbackFails, PostsOK
  <2>3. \A b \in Analyst : posting'[b] = posting[b] \/ (posting'[b] = None /\ ~posting[b].stored)
    BY <1>7 DEF FeedbackFails, PostsOK
  <2>4. TablesOK' /\ ResolvedIffLabelled' /\ OneLabelPerAnalyst' /\ PagesOK'
    <3>1. TablesOK'
      BY <1>1, <2>1 DEF TablesOK
    <3>. QED  BY <1>1, <2>1, <3>1, ResolvedKept, OneLabelKept, PagesKept
  <2>5. PostsOK'
    BY <1>1, <2>1, <2>2 DEF PostsOK
  <2>6. SettledOK'
    <3>. SUFFICES ASSUME NEW b \in Analyst \ Script, NEW d \in CaseId, Settled(b, d)'
                  PROVE  IF Posting(b, d)' THEN posting'[b].stored ELSE Hidden(b, d)'
      BY DEF SettledOK
    <3>1. Settled(b, d)
      BY <1>1, <2>1, StillSettled
    <3>2. Posting(b, d) => posting[b].stored
      BY <3>1 DEF SettledOK
    <3>3. Posting(b, d)' <=> Posting(b, d)
      BY <2>3, <3>2 DEF Posting
    <3>4. Posting(b, d)' => posting'[b] = posting[b]
      BY <2>3 DEF Posting
    <3>. QED  BY <1>4, <3>1, <3>2, <3>3, <3>4 DEF SettledOK
  <2>. QED  BY <1>2, <2>4, <2>5, <2>6
<1>. QED  BY <1>5, <1>6, <1>7 DEF ServerStep

(* A script labels what it likes, and is nobody with a page.               *)
LEMMA NextScript ==
  ASSUME IInv, NEW s \in Script, NEW c \in CaseId, NEW label \in Label,
         ScriptFeedback(s, c, label)
  PROVE  IInv'
<1>. USE DEF IInv
<1>. DEFINE post == [case |-> c, label |-> label, reviewed |-> TRUE]
<1>1. /\ c \in DOMAIN cases /\ Recorded(s, post)
      /\ UNCHANGED <<predictions, routing, cache, screen, depth, page, posting, late, aware, pushed>>
  BY DEF ScriptFeedback, page
<1>2. post.case = c /\ post.label = label /\ post.reviewed \in BOOLEAN /\ s \in Labeller
  BY DEF Labeller
<1>. HIDE DEF post
<1>3. TablesOK' /\ ResolvedIffLabelled' /\ DOMAIN cases' = DOMAIN cases
  BY <1>1, <1>2, RecordedKeepsTables
<1>4. OneLabelPerAnalyst' /\ \A b, d : Settled(b, d)' => Settled(b, d) \/ (b = s /\ d = c)
  BY <1>1, <1>2, RecordedSettles
<1>5. PagesOK' /\ PostsOK' /\ PushedOK'
  BY <1>1, <1>3, PagesKept, PostsKept DEF PushedOK
<1>6. SettledOK'
  <2>. SUFFICES ASSUME NEW b \in Analyst \ Script, NEW d \in CaseId, Settled(b, d)'
                PROVE  IF Posting(b, d)' THEN posting'[b].stored ELSE Hidden(b, d)'
    BY DEF SettledOK
  <2>1. Settled(b, d)
    BY <1>4
  <2>2. (Posting(b, d)' <=> Posting(b, d)) /\ (Hidden(b, d)' <=> Hidden(b, d))
    BY <1>1 DEF Posting, Hidden
  <2>. QED  BY <1>1, <2>1, <2>2 DEF SettledOK
<1>. QED  BY <1>3, <1>4, <1>5, <1>6

(* The metrics DAG counts no more cases than there are predictions.        *)
LEMMA NextExport ==
  ASSUME IInv, ExportMetrics
  PROVE  IInv'
<1>. USE DEF IInv
<1>1. UNCHANGED <<predictions, cases, feedback, routing, cache, screen, depth, page,
                  posting, late, aware>>
  BY DEF ExportMetrics, tables, page
<1>2. pushed' = Cardinality(OfStatus("pending"))
  BY DEF ExportMetrics, CountReviewCases
<1>3. PushedOK'
  <2>. DEFINE S == OfStatus("pending")
  <2>1. Len(cases) \in Nat /\ DOMAIN cases = 1 .. Len(cases) /\ Len(cases) <= MaxPredictions
    BY CaseIds, Constants DEF TablesOK
  <2>2. IsFiniteSet(1 .. Len(cases)) /\ Cardinality(1 .. Len(cases)) = Len(cases)
    <3>. DEFINE n == Len(cases)
    <3>. HIDE DEF n
    <3>1. n \in Nat
      BY <2>1 DEF n
    <3>2. IsFiniteSet(1 .. n) /\ Cardinality(1 .. n) = n
      BY <3>1, FS_Interval
    <3>. QED  BY <3>2 DEF n
  <2>3. S \in SUBSET (1 .. Len(cases))
    BY <2>1 DEF OfStatus
  <2>. HIDE DEF S
  <2>4. IsFiniteSet(S) /\ Cardinality(S) <= Len(cases) /\ Cardinality(S) \in Nat
    BY <2>2, <2>3, FS_Subset, FS_CardinalityType
  <2>5. pushed' = Cardinality(S)
    BY <1>2 DEF S
  <2>. QED  BY <2>1, <2>4, <2>5, Constants DEF PushedOK
<1>4. TablesOK' /\ ResolvedIffLabelled' /\ OneLabelPerAnalyst'
  BY <1>1, ResolvedKept, OneLabelKept DEF TablesOK
<1>. QED  BY <1>1, <1>3, <1>4, PagesKept, PostsKept, SettledKept

LEMMA NextIInv == IInv /\ [Next]_vars => IInv'
<1>. SUFFICES ASSUME IInv, [Next]_vars PROVE IInv'
  OBVIOUS
<1>1. CASE UNCHANGED vars
  <2>1. UNCHANGED <<predictions, cases, feedback, routing, cache, screen, depth, page,
                    posting, late, aware, pushed>>
    BY <1>1 DEF vars, tables, page
  <2>2. TablesOK' /\ PushedOK'
    BY <2>1 DEF IInv, TablesOK, PushedOK
  <2>3. PagesOK' /\ PostsOK'
    BY <2>1, PagesKept, PostsKept DEF IInv
  <2>4. ResolvedIffLabelled' /\ OneLabelPerAnalyst' /\ SettledOK'
    BY <2>1, ResolvedKept, OneLabelKept, SettledKept DEF IInv
  <2>. QED  BY <2>2, <2>3, <2>4 DEF IInv
<1>2. CASE Next
  BY <1>2, NextScoring, NextPage, NextServer, NextScript, NextExport DEF Next
<1>. QED  BY <1>1, <1>2

LEMMA Invariance == Spec => []IInv
BY InitIInv, NextIInv, PTL DEF Spec

(***************************************************************************)
(* Training examples                                                       *)
(***************************************************************************)

(* Every case was opened for a prediction that is stored.                  *)
CasesOK == \A c \in DOMAIN cases : cases[c].prediction \in DOMAIN predictions

(* Storing a label leaves what the case was opened for.                    *)
LEMMA RecordedKeepsCases ==
  ASSUME TablesOK, CasesOK, NEW who, NEW post, Recorded(who, post), UNCHANGED predictions
  PROVE  CasesOK'
<1>1. /\ DOMAIN cases' = DOMAIN cases
      /\ \A c \in DOMAIN cases : cases'[c].prediction = cases[c].prediction
  <2>1. \A c \in DOMAIN cases : cases[c] \in CaseRow
    BY LenProperties DEF TablesOK
  <2>. QED  BY <2>1 DEF Recorded, CaseRow
<1>. QED  BY <1>1 DEF CasesOK

LEMMA CasesKept ==
  ASSUME IInv, CasesOK, [Next]_vars
  PROVE  CasesOK'
<1>0. TablesOK
  BY DEF IInv
<1>1. ASSUME NEW t \in Txn, NEW routed \in BOOLEAN, WritePrediction(t, routed) PROVE CasesOK'
  <2>1. [txn |-> t, routed |-> routed] \in Prediction
    BY DEF Prediction
  <2>2. DOMAIN predictions \subseteq DOMAIN predictions'
    BY <1>0, <1>1, <2>1, AppendProperties, LenProperties DEF WritePrediction, TablesOK
  <2>. QED  BY <1>1, <2>2 DEF WritePrediction, CasesOK
<1>2. ASSUME NEW p \in CaseId, CreateReviewCase(p) PROVE CasesOK'
  <2>. DEFINE row == [prediction |-> p, status |-> "pending", assigned_analyst |-> None]
  <2>1. row \in CaseRow /\ row.prediction = p
    BY DEF CaseRow
  <2>2. cases' = Append(cases, row) /\ UNCHANGED predictions /\ p \in DOMAIN predictions
    BY <1>0, <1>2 DEF CreateReviewCase, TablesOK
  <2>. HIDE DEF row
  <2>3. /\ cases' \in Seq(CaseRow) /\ Len(cases') = Len(cases) + 1 /\ cases'[Len(cases) + 1] = row
        /\ \A c \in 1 .. Len(cases) : cases'[c] = cases[c]
    BY <1>0, <2>1, <2>2, AppendProperties DEF TablesOK
  <2>4. DOMAIN cases' = 1 .. Len(cases) + 1
    BY <2>3, LenProperties
  <2>5. Len(cases) \in Nat /\ DOMAIN cases = 1 .. Len(cases)
    BY <1>0, CaseIds
  <2>. QED  BY <2>1, <2>2, <2>3, <2>4, <2>5 DEF CasesOK
<1>3. ASSUME NEW a \in Analyst, StoreFeedback(a) PROVE CasesOK'
  BY <1>0, <1>3, RecordedKeepsCases DEF StoreFeedback
<1>4. ASSUME NEW a \in Analyst, StoreLate(a) PROVE CasesOK'
  BY <1>0, <1>4, RecordedKeepsCases DEF StoreLate
<1>5. ASSUME NEW s \in Script, NEW c \in CaseId, NEW l \in Label, ScriptFeedback(s, c, l)
      PROVE  CasesOK'
  BY <1>0, <1>5, RecordedKeepsCases DEF ScriptFeedback
<1>6. CASE UNCHANGED <<predictions, cases>>
  BY <1>6 DEF CasesOK
<1>7. ASSUME \/ UNCHANGED vars \/ ExportMetrics
             \/ \E a \in Analyst : PageStep(a) \/ FeedbackFails(a)
             \/ \E p \in CaseId : ScoreDies(p)
      PROVE  UNCHANGED <<predictions, cases>>
  BY <1>7 DEF vars, tables, ExportMetrics, PageStep, Browse, RefreshQueue, Answer, TimeOut,
              ExpireCache, FetchFails, SubmitFeedback, FeedbackFails, ScoreDies
<1>. QED  BY <1>1, <1>2, <1>3, <1>4, <1>5, <1>6, <1>7 DEF Next, ServerStep

(***************************************************************************)
(* Theorems                                                                *)
(***************************************************************************)

(* The tables, gauges, pages and caches keep their types, and a page shows *)
(* no more than GET /review lists.                                         *)
THEOREM TypeCorrect == Spec => []TypeOK
<1>1. ASSUME IInv PROVE TypeOK
  <2>1. predictions \in Seq([txn : Txn, routed : BOOLEAN]) /\ Len(predictions) <= MaxPredictions
        /\ routing \subseteq DOMAIN predictions
    BY <1>1 DEF IInv, TablesOK, Prediction
  <2>2. cases \in Seq(CaseRow) /\ feedback \in Seq(FeedbackRow)
    BY <1>1 DEF IInv, TablesOK
  <2>3. Len(cases) <= Len(predictions)
    BY <1>1, CaseIds DEF IInv, TablesOK
  <2>. QED  BY <1>1, <2>1, <2>2, <2>3
            DEF IInv, PagesOK, PostsOK, PushedOK, TypeOK, CaseRow, FeedbackRow
<1>. QED  BY <1>1, Invariance, PTL

(* A case is resolved when, and only when, it has a label, and is assigned *)
(* to whoever's label was committed last, whatever pages, caches, lost     *)
(* answers and scripts do to the queue.                                    *)
THEOREM ResolvedByLabels == Spec => []ResolvedIffLabelled
<1>1. IInv => ResolvedIffLabelled
  BY DEF IInv
<1>. QED  BY <1>1, Invariance, PTL

(* However stale the pages and the cache are, no analyst labels a case     *)
(* again unless an answer to her was lost or she opened a resolved case.   *)
THEOREM NoUnawareRelabel == Spec => []OneLabelPerAnalyst
<1>1. IInv => OneLabelPerAnalyst
  BY DEF IInv
<1>. QED  BY <1>1, Invariance, PTL

(* As many pairs of a row and what f makes of it as there are rows.        *)
PairsOf(R, f) == {<<i, f[i]>> : i \in R}

LEMMA PairsCount ==
  ASSUME NEW R, NEW f, IsFiniteSet(R)
  PROVE  /\ IsFiniteSet(PairsOf(R, f))
         /\ Cardinality(PairsOf(R, f)) = Cardinality(R)
<1>. DEFINE g == [i \in R |-> <<i, f[i]>>]
<1>1. g \in Bijection(R, PairsOf(R, f))
  <2>1. g \in [R -> PairsOf(R, f)]
    BY DEF PairsOf
  <2>2. \A i, j \in R : g[i] = g[j] => i = j
    OBVIOUS
  <2>3. \A x \in PairsOf(R, f) : \E i \in R : g[i] = x
    BY DEF PairsOf
  <2>. HIDE DEF g
  <2>. QED  BY <2>1, <2>2, <2>3 DEF Bijection, Injection, Surjection, IsInjective
<1>2. ExistsBijection(R, PairsOf(R, f))
  BY <1>1 DEF ExistsBijection
<1>. QED  BY <1>2, FS_Bijection

LEMMA PairParts ==
  ASSUME NEW R, NEW f
  PROVE  /\ \A i \in R : <<i, f[i]>> \in PairsOf(R, f)
         /\ \A j \in PairsOf(R, f) : j[1] \in R /\ j[2] = f[j[1]] /\ j = <<j[1], j[2]>>
BY DEF PairsOf

(* The prediction whose features go with each label.                       *)
Labelling == [i \in DOMAIN feedback |-> cases[feedback[i].case].prediction]

LEMMA LabelledBy ==
  \A i \in DOMAIN feedback : Labelling[i] = cases[feedback[i].case].prediction
BY DEF Labelling

LEMMA JoinedPairs ==
  ASSUME TablesOK, CasesOK, NEW recent \in SUBSET DOMAIN feedback
  PROVE  FeedbackWithPrediction(recent) = PairsOf(recent, Labelling)
<1>1. \A i \in recent : /\ Labelling[i] = cases[feedback[i].case].prediction
                        /\ Labelling[i] \in DOMAIN predictions
  BY DEF TablesOK, CasesOK, Labelling
<1>. QED  BY <1>1 DEF FeedbackWithPrediction, PairsOf

LEMMA FeedbackFinite ==
  ASSUME TablesOK, NEW recent \in SUBSET DOMAIN feedback
  PROVE  IsFiniteSet(recent) /\ Cardinality(recent) \in Nat
<1>1. DOMAIN feedback = 1 .. Len(feedback) /\ Len(feedback) \in Nat
  BY LenProperties DEF TablesOK
<1>2. IsFiniteSet(DOMAIN feedback)
  BY <1>1, FS_Interval
<1>. QED  BY <1>2, FS_Subset, FS_CardinalityType

(* What is read are labels with    the predictions of their cases, and all *)
(* of the recent ones when they fit the LIMIT.                             *)
LEMMA RetrievedPairs ==
  ASSUME TablesOK, CasesOK, NEW recent \in SUBSET DOMAIN feedback,
         NEW fetched \in Retrieved(recent)
  PROVE  /\ fetched \subseteq PairsOf(recent, Labelling)
         /\ Cardinality(recent) <= FetchLimit => fetched = PairsOf(recent, Labelling)
<1>1. IsFiniteSet(recent)
  BY FeedbackFinite
<1>2. Cardinality(PairsOf(recent, Labelling)) = Cardinality(recent)
  BY <1>1, PairsCount
<1>3. FeedbackWithPrediction(recent) = PairsOf(recent, Labelling)
  BY JoinedPairs
<1>. QED  BY <1>2, <1>3 DEF Retrieved

(* A label within the lookback, on a prediction with today's features.     *)
Usable(recent, current) ==
  {i \in recent : cases[feedback[i].case].prediction \in current}

Kept(fetched, current) == {j \in fetched : j[2] \in current}

Example(i) == [row |-> i, features |-> cases[feedback[i].case].prediction,
               label |-> LabelMap[feedback[i].label]]

LEMMA DatasetRows ==
  ASSUME TablesOK, CasesOK, NEW recent \in SUBSET DOMAIN feedback,
         NEW current, NEW fetched \in Retrieved(recent)
  PROVE  FeedbackDataset(fetched, current) =
           IF Cardinality(fetched) < MinExamples \/ Cardinality(Kept(fetched, current)) < MinExamples
             THEN {} ELSE {Example(j[1]) : j \in Kept(fetched, current)}
<1>1. \A j \in Kept(fetched, current) :
        [row |-> j[1], features |-> j[2], label |-> LabelMap[feedback[j[1]].label]] = Example(j[1])
  <2>1. ASSUME NEW j \in Kept(fetched, current)
        PROVE  j[2] = cases[feedback[j[1]].case].prediction
    <3>1. j \in PairsOf(recent, Labelling)
      BY RetrievedPairs DEF Kept
    <3>2. j[1] \in recent /\ j[2] = Labelling[j[1]]
      BY <3>1, PairParts
    <3>. QED  BY <3>2, LabelledBy
  <2>. QED  BY <2>1 DEF Example
<1>2. {[row |-> j[1], features |-> j[2], label |-> LabelMap[feedback[j[1]].label]] :
          j \in Kept(fetched, current)} = {Example(j[1]) : j \in Kept(fetched, current)}
  BY <1>1
<1>. QED  BY <1>2 DEF FeedbackDataset, Kept

LEMMA KeptPairs ==
  ASSUME TablesOK, CasesOK, NEW recent \in SUBSET DOMAIN feedback, NEW current,
         NEW fetched \in Retrieved(recent), Cardinality(recent) <= FetchLimit
  PROVE  /\ Kept(fetched, current) = PairsOf(Usable(recent, current), Labelling)
         /\ Cardinality(Kept(fetched, current)) = Cardinality(Usable(recent, current))
         /\ Cardinality(Usable(recent, current)) <= Cardinality(fetched)
         /\ Cardinality(fetched) \in Nat /\ Cardinality(Usable(recent, current)) \in Nat
<1>1. fetched = PairsOf(recent, Labelling)
  BY RetrievedPairs
<1>2. Kept(fetched, current) = PairsOf(Usable(recent, current), Labelling)
  <2>1. \A i \in recent : Labelling[i] = cases[feedback[i].case].prediction
    BY LabelledBy
  <2>2. ASSUME NEW j \in Kept(fetched, current)
        PROVE  j \in PairsOf(Usable(recent, current), Labelling)
    <3>1. j \in PairsOf(recent, Labelling) /\ j[2] \in current
      BY <1>1, <2>2 DEF Kept
    <3>2. j[1] \in recent /\ j[2] = Labelling[j[1]] /\ j = <<j[1], j[2]>>
      BY <3>1, PairParts
    <3>3. j[1] \in Usable(recent, current)
      BY <2>1, <3>1, <3>2 DEF Usable
    <3>. QED  BY <3>2, <3>3, PairParts
  <2>3. ASSUME NEW j \in PairsOf(Usable(recent, current), Labelling)
        PROVE  j \in Kept(fetched, current)
    <3>1. j[1] \in Usable(recent, current) /\ j[2] = Labelling[j[1]] /\ j = <<j[1], j[2]>>
      BY PairParts
    <3>2. j[1] \in recent /\ j[2] \in current
      BY <2>1, <3>1 DEF Usable
    <3>3. j \in PairsOf(recent, Labelling)
      BY <3>1, <3>2, PairParts
    <3>. QED  BY <1>1, <3>2, <3>3 DEF Kept
  <2>. QED  BY <2>2, <2>3
<1>3. IsFiniteSet(recent) /\ Usable(recent, current) \in SUBSET recent
  BY FeedbackFinite DEF Usable
<1>4. /\ IsFiniteSet(Usable(recent, current))
      /\ Cardinality(Usable(recent, current)) <= Cardinality(recent)
  BY <1>3, FS_Subset
<1>5. Cardinality(Kept(fetched, current)) = Cardinality(Usable(recent, current))
  BY <1>2, <1>4, PairsCount
<1>6. Cardinality(fetched) = Cardinality(recent)
  BY <1>1, <1>3, PairsCount
<1>7. Cardinality(recent) \in Nat /\ Cardinality(Usable(recent, current)) \in Nat
  BY <1>3, <1>4, FS_CardinalityType
<1>. QED  BY <1>2, <1>4, <1>5, <1>6, <1>7

(* Whatever is recent, fetched and of today's schema, each training        *)
(* example is one recent label with the features of the prediction its     *)
(* case was opened for; and while the recent labels fit the LIMIT, every   *)
(* usable one is an example, or none when they are below the minimum.      *)
THEOREM LabelsTrainOnce == Spec => []EachLabelTrainsOnce
<1>1. Init => CasesOK
  BY DEF Init, CasesOK
<1>2. IInv /\ CasesOK /\ [Next]_vars => CasesOK'
  BY CasesKept
<1>3. ASSUME TablesOK, CasesOK PROVE EachLabelTrainsOnce
  <2>. SUFFICES ASSUME NEW recent \in SUBSET DOMAIN feedback,
                       NEW current \in SUBSET DOMAIN predictions,
                       NEW fetched \in Retrieved(recent)
                PROVE  /\ \A x \in FeedbackDataset(fetched, current) :
                            /\ x.row \in Usable(recent, current)
                            /\ x.features = cases[feedback[x.row].case].prediction
                            /\ x.label = LabelMap[feedback[x.row].label]
                       /\ Cardinality(recent) <= FetchLimit =>
                            {x.row : x \in FeedbackDataset(fetched, current)} =
                              IF Cardinality(Usable(recent, current)) < MinExamples
                                THEN {} ELSE Usable(recent, current)
    BY DEF EachLabelTrainsOnce, Usable
  <2>. DEFINE examples == {Example(j[1]) : j \in Kept(fetched, current)}
              few == Cardinality(fetched) < MinExamples
                       \/ Cardinality(Kept(fetched, current)) < MinExamples
  <2>1. FeedbackDataset(fetched, current) = IF few THEN {} ELSE examples
    BY <1>3, DatasetRows
  <2>2. \A i : Example(i).row = i
    BY DEF Example
  <2>3. \A j \in Kept(fetched, current) : j[1] \in Usable(recent, current)
    <3>1. ASSUME NEW j \in Kept(fetched, current) PROVE j[1] \in Usable(recent, current)
      <4>1. j \in PairsOf(recent, Labelling) /\ j[2] \in current
        BY <1>3, RetrievedPairs DEF Kept
      <4>2. j[1] \in recent /\ j[2] = Labelling[j[1]]
        BY <4>1, PairParts
      <4>. QED  BY <4>1, <4>2, LabelledBy DEF Usable
    <3>. QED  BY <3>1
  <2>4. ASSUME NEW x \in FeedbackDataset(fetched, current)
        PROVE  /\ x.row \in Usable(recent, current)
               /\ x.features = cases[feedback[x.row].case].prediction
               /\ x.label = LabelMap[feedback[x.row].label]
    <3>1. PICK j \in Kept(fetched, current) : x = Example(j[1])
      BY <2>1
    <3>. QED  BY <2>3, <3>1 DEF Example
  <2>5. ASSUME Cardinality(recent) <= FetchLimit
        PROVE  {x.row : x \in FeedbackDataset(fetched, current)} =
                 IF Cardinality(Usable(recent, current)) < MinExamples
                   THEN {} ELSE Usable(recent, current)
    <3>1. /\ Kept(fetched, current) = PairsOf(Usable(recent, current), Labelling)
          /\ Cardinality(Kept(fetched, current)) = Cardinality(Usable(recent, current))
          /\ Cardinality(Usable(recent, current)) <= Cardinality(fetched)
          /\ Cardinality(fetched) \in Nat /\ Cardinality(Usable(recent, current)) \in Nat
      BY <1>3, <2>5, KeptPairs
    <3>2. few <=> Cardinality(Usable(recent, current)) < MinExamples
      BY <3>1, ReviewAssumption
    <3>3. {x.row : x \in examples} = Usable(recent, current)
      <4>1. \A i \in Usable(recent, current) : <<i, Labelling[i]>> \in Kept(fetched, current)
        BY <3>1, PairParts
      <4>2. ASSUME NEW i \in Usable(recent, current) PROVE Example(i) \in examples
        <5>1. <<i, Labelling[i]>> \in Kept(fetched, current) /\ <<i, Labelling[i]>>[1] = i
          BY <4>1
        <5>. QED  BY <5>1
      <4>3. \A x \in examples : x.row \in Usable(recent, current)
        BY <2>2, <2>3
      <4>. HIDE DEF examples
      <4>. QED  BY <2>2, <4>2, <4>3
    <3>. HIDE DEF few, examples
    <3>. QED  BY <2>1, <3>2, <3>3
  <2>. QED  BY <2>4, <2>5
<1>. QED  BY <1>1, <1>2, <1>3, Invariance, PTL DEF Spec, IInv
=============================================================================
