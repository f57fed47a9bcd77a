----------------------- MODULE SchemaBootstrapProofs -----------------------
(***************************************************************************)
(* Theorems about SchemaBootstrap, for any services, tables, indexes,      *)
(* contents of the volume and number of crashes.                           *)
(***************************************************************************)
EXTENDS SchemaBootstrap, TLAPS

(* What a service has passed in this start-up is committed, by it or by    *)
(* another, and a service that serves has passed every table.              *)
PassedTables ==
  \A s \in Service :
    /\ \A k \in 1 .. at[s] - 1 : Tables[k] \in tables
    /\ pc[s] = "up" => at[s] = Last

IInv == TypeOK /\ PassedTables /\ TablesWhole

LEMMA LastIsNat == Last \in Nat /\ Last >= 1 /\ DOMAIN Tables = 1 .. Last - 1
  BY BootstrapAssumption DEF Last

(* The table a service is at, while it has not passed all of them. *)
LEMMA CurrentTable ==
  ASSUME TypeOK, NEW s \in Service, at[s] < Last
  PROVE  Current(s) \in Table /\ at[s] \in DOMAIN Tables
  <1>1. at[s] \in 1 .. Last - 1  BY LastIsNat DEF TypeOK
  <1>. QED  BY <1>1, LastIsNat, BootstrapAssumption DEF Current

(* The loop moves on past a table that is committed after the step. *)
LEMMA NextTableKeeps ==
  ASSUME IInv, NEW s \in Service, at[s] < Last, NextTable(s),
         tables \subseteq tables', Current(s) \in tables'
  PROVE  /\ at' \in [Service -> 1 .. Last]
         /\ pc' \in [Service -> {"down", "check", "create", "wait", "index", "up"}]
         /\ \A z \in Service : pc'[z] \in {"create", "wait", "index"} => at'[z] < Last
         /\ PassedTables'
  <1>1. at[s] \in Nat /\ at[s] + 1 \in 1 .. Last  BY LastIsNat DEF IInv, TypeOK
  <1>2. at' = [at EXCEPT ![s] = @ + 1] /\ pc' = [pc EXCEPT ![s] = "check"]
    BY DEF NextTable, Goto
  <1>3. ASSUME NEW z \in Service, NEW k \in 1 .. at'[z] - 1
        PROVE  Tables[k] \in tables'
    <2>1. CASE z = s
      <3>1. at'[s] = at[s] + 1  BY <1>2 DEF IInv, TypeOK
      <3>2. k \in 1 .. at[s] - 1 \/ k = at[s]  BY <1>1, <2>1, <3>1
      <3>. QED  BY <3>2 DEF IInv, PassedTables, Current
    <2>2. CASE z # s  BY <1>2, <2>2 DEF IInv, TypeOK, PassedTables
    <2>. QED  BY <2>1, <2>2
  <1>. QED  BY <1>1, <1>2, <1>3 DEF IInv, TypeOK, PassedTables, Last

(* A step that changes only one service's pc, and not to "up". *)
LEMMA MoveKeeps ==
  ASSUME IInv, NEW s \in Service, NEW l \in {"check", "create", "wait", "index"},
         at[s] < Last \/ l = "check", Goto(s, l), UNCHANGED <<tables, indexes, at, made, crashes>>
  PROVE  IInv'
  BY DEF IInv, TypeOK, PassedTables, TablesWhole, Goto, Last

LEMMA DiesKeeps ==
  ASSUME IInv, NEW s \in Service, Dies(s), tables \subseteq tables'
  PROVE  /\ at' \in [Service -> 1 .. Last]
         /\ pc' \in [Service -> {"down", "check", "create", "wait", "index", "up"}]
         /\ \A z \in Service : pc'[z] \in {"create", "wait", "index"} => at'[z] < Last
         /\ made' \in [Service -> SUBSET Index]
         /\ PassedTables'
  <1>1. /\ at' = [at EXCEPT ![s] = 1] /\ pc' = [pc EXCEPT ![s] = "down"]
        /\ made' = [made EXCEPT ![s] = {}]
    BY DEF Dies, Goto
  <1>2. 1 \in 1 .. Last  BY LastIsNat
  <1>3. at'[s] = 1 /\ pc'[s] = "down"  BY <1>1 DEF IInv, TypeOK
  <1>4. \A z \in Service \ {s} : at'[z] = at[z] /\ pc'[z] = pc[z]
    BY <1>1 DEF IInv, TypeOK
  <1>5. PassedTables'
    <2>1. \A k \in 1 .. at'[s] - 1 : Tables[k] \in tables'  BY <1>3
    <2>. QED  BY <1>3, <1>4, <2>1 DEF IInv, PassedTables, Last
  <1>. QED  BY <1>1, <1>2, <1>3, <1>4, <1>5 DEF IInv, TypeOK

LEMMA CommittedKeeps ==
  ASSUME IInv, NEW s \in Service, at[s] < Last, made[s] = Indexes[Current(s)], Committed(s)
  PROVE  /\ tables' \subseteq Table /\ indexes' \in [Table -> SUBSET Index]
         /\ tables \subseteq tables' /\ Current(s) \in tables'
         /\ TablesWhole'
  <1>1. Current(s) \in Table  BY CurrentTable DEF IInv
  <1>2. made[s] \in SUBSET Index  BY DEF IInv, TypeOK
  <1>. QED  BY <1>1, <1>2 DEF IInv, TypeOK, TablesWhole, Committed

LEMMA InitInv == Init => IInv
  BY LastIsNat, BootstrapAssumption DEF Init, IInv, TypeOK, PassedTables, TablesWhole

LEMMA NextInv == IInv /\ [Next]_vars => IInv'
  <1>. SUFFICES ASSUME IInv, [Next]_vars PROVE IInv'  OBVIOUS
  <1>1. CASE UNCHANGED vars
    BY <1>1 DEF vars, IInv, TypeOK, PassedTables, TablesWhole, Last
  <1>2. ASSUME NEW s \in Service, StartUp(s) PROVE IInv'
    BY <1>2, MoveKeeps DEF StartUp
  <1>3. ASSUME NEW s \in Service, CheckFirst(s) PROVE IInv'
    <2>1. CASE Current(s) \in tables
      <3>1. NextTable(s) /\ UNCHANGED <<tables, indexes, made, crashes>> /\ at[s] < Last
        BY <1>3, <2>1 DEF CheckFirst
      <3>. QED  BY <2>1, <3>1, NextTableKeeps DEF IInv, TypeOK, TablesWhole
    <2>2. CASE Current(s) \notin tables  BY <1>3, <2>2, MoveKeeps DEF CheckFirst
    <2>. QED  BY <2>1, <2>2
  <1>4. ASSUME NEW s \in Service, AlreadyExists(s) PROVE IInv'
    <2>1. /\ NextTable(s) /\ UNCHANGED <<tables, indexes, made, crashes>>
          /\ Current(s) \in tables /\ at[s] < Last
      BY <1>4 DEF AlreadyExists, IInv, TypeOK
    <2>. QED  BY <2>1, NextTableKeeps DEF IInv, TypeOK, TablesWhole
  <1>5. ASSUME NEW s \in Service, CreateTable(s) PROVE IInv'
    BY <1>5, MoveKeeps DEF CreateTable, IInv, TypeOK
  <1>6. ASSUME NEW s \in Service, WaitForOther(s) PROVE IInv'
    BY <1>6, MoveKeeps DEF WaitForOther, IInv, TypeOK
  <1>7. ASSUME NEW s \in Service, LoseRace(s) PROVE IInv'
    BY <1>7, DiesKeeps DEF LoseRace, IInv, TypeOK, TablesWhole
  <1>8. ASSUME NEW s \in Service, CreateIndex(s) PROVE IInv'
    <2>1. at[s] < Last  BY <1>8 DEF CreateIndex, IInv, TypeOK
    <2>2. Indexes[Current(s)] \subseteq Index
      BY <2>1, CurrentTable, BootstrapAssumption DEF IInv
    <2>3. made' \in [Service -> SUBSET Index]
      BY <1>8, <2>2 DEF CreateIndex, IInv, TypeOK
    <2>. QED  BY <1>8, <2>3 DEF CreateIndex, IInv, TypeOK, PassedTables, TablesWhole, Last
  <1>9. ASSUME NEW s \in Service, Commit(s) PROVE IInv'
    <2>1. /\ at[s] < Last /\ made[s] = Indexes[Current(s)] /\ Committed(s) /\ NextTable(s)
          /\ made' = [made EXCEPT ![s] = {}] /\ UNCHANGED crashes
      BY <1>9 DEF Commit, IInv, TypeOK
    <2>2. made' \in [Service -> SUBSET Index]  BY <2>1 DEF IInv, TypeOK
    <2>. QED  BY <2>1, <2>2, CommittedKeeps, NextTableKeeps DEF IInv, TypeOK
  <1>10. ASSUME NEW s \in Service, Serve(s) PROVE IInv'
    BY <1>10 DEF Serve, Goto, IInv, TypeOK, PassedTables, TablesWhole, Last
  <1>11. ASSUME NEW s \in Service, Crash(s) PROVE IInv'
    <2>1. crashes' \in 0 .. MaxCrashes
      BY <1>11, BootstrapAssumption DEF Crash, IInv, TypeOK
    <2>2. CASE UNCHANGED <<tables, indexes>>
      BY <1>11, <2>1, <2>2, DiesKeeps DEF Crash, IInv, TypeOK, TablesWhole
    <2>3. CASE pc[s] = "index" /\ made[s] = Indexes[Current(s)] /\ Committed(s)
      <3>1. at[s] < Last  BY <2>3 DEF IInv, TypeOK
      <3>. QED  BY <1>11, <2>1, <2>3, <3>1, CommittedKeeps, DiesKeeps DEF Crash, IInv, TypeOK
    <2>. QED  BY <1>11, <2>2, <2>3 DEF Crash
  <1>. QED
    BY <1>1, <1>2, <1>3, <1>4, <1>5, <1>6, <1>7, <1>8, <1>9, <1>10, <1>11 DEF Next, CreateAll

(* The inductive invariant: types, the tables a start-up has passed, and   *)
(* whole tables.                                                           *)
THEOREM InductiveInvariant == Spec => []IInv
  BY InitInv, NextInv, PTL DEF Spec

(* Whatever the services, the volume and the crashes, whoever serves finds *)
(* every table of the models.                                              *)
THEOREM SchemaComplete == Spec => []SchemaBeforeTraffic
  <1>1. IInv => SchemaBeforeTraffic
    <2>. SUFFICES ASSUME IInv, NEW s \in Service, pc[s] = "up" PROVE tables = Table
      BY DEF SchemaBeforeTraffic
    <2>1. \A k \in DOMAIN Tables : Tables[k] \in tables
      BY LastIsNat DEF IInv, PassedTables
    <2>2. ASSUME NEW t \in Table PROVE t \in tables
      <3>1. PICK k \in DOMAIN Tables : Tables[k] = t  BY BootstrapAssumption
      <3>. QED  BY <2>1, <3>1
    <2>. QED  BY <2>2 DEF IInv, TypeOK
  <1>. QED  BY <1>1, InductiveInvariant, PTL

(* No crash and no race leaves a table without its indexes. *)
THEOREM WholeTables == Spec => []TablesWhole
  <1>1. IInv => TablesWhole  BY DEF IInv
  <1>. QED  BY <1>1, InductiveInvariant, PTL

(* Every variable keeps its type. *)
THEOREM TypeCorrect == Spec => []TypeOK
  <1>1. IInv => TypeOK  BY DEF IInv
  <1>. QED  BY <1>1, InductiveInvariant, PTL
=============================================================================
