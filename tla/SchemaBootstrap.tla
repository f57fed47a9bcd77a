-------------------------- MODULE SchemaBootstrap --------------------------
(***************************************************************************)
(* The services of one database create its schema at start-up, each on its *)
(* own and at the same time: PostgresClient.create_all, called by the      *)
(* lifespan of the API and by run() of the consumer, over the DDL of       *)
(* PostgreSQL.  Every table is one transaction: has_table, CREATE TABLE,   *)
(* CREATE INDEX of each index, COMMIT.                                     *)
(*                                                                         *)
(* PostgreSQL is external.  A statement sees what is committed when it     *)
(* starts.  CREATE TABLE of a name another open transaction has created    *)
(* waits for that transaction: if it commits, the unique index of the      *)
(* catalogue refuses the second (IntegrityError, not ProgrammingError); if *)
(* it rolls back, the second goes on.                                      *)
(***************************************************************************)
EXTENDS Integers, Sequences

CONSTANTS
  Service,     \* API replicas and consumers
  Table,
  Index,
  Tables,      \* Base.metadata.sorted_tables
  Indexes,     \* the indexes the models declare, per table
  Provided,    \* the indexes sql/init.sql creates, per table
  Volumes,     \* the sets of tables a database may start with
  MaxCrashes   \* bound: processes that die or lose their connection

ASSUME BootstrapAssumption ==
  /\ Tables \in Seq(Table)
  /\ \A t \in Table : \E k \in DOMAIN Tables : Tables[k] = t
  /\ \A j, k \in DOMAIN Tables : Tables[j] = Tables[k] => j = k
  /\ Indexes \in [Table -> SUBSET Index]
  /\ Provided \in [Table -> SUBSET Index]
  /\ Volumes \subseteq SUBSET Table
  /\ MaxCrashes \in Nat

(* No two tables share the name of an index: a CREATE INDEX that "already  *)
(* exists" would roll the table back and be taken for a table that exists. *)
ASSUME IndexNamesUnique ==
  \A t, u \in Table : t # u => (Indexes[t] \cup Provided[t]) \cap Indexes[u] = {}

VARIABLES
  tables,    \* committed tables
  indexes,   \* committed indexes, per table
  pc,        \* where each service is
  at,        \* create_all: position in Tables
  made,      \* indexes made so far in the service's open transaction
  crashes

vars == <<tables, indexes, pc, at, made, crashes>>

Last == Len(Tables) + 1

TypeOK ==
  /\ tables \subseteq Table
  /\ indexes \in [Table -> SUBSET Index]
  /\ pc \in [Service -> {"down", "check", "create", "wait", "index", "up"}]
  /\ at \in [Service -> 1 .. Last]
  /\ \A s \in Service : pc[s] \in {"create", "wait", "index"} => at[s] < Last
  /\ made \in [Service -> SUBSET Index]
  /\ crashes \in 0 .. MaxCrashes

Init ==
  /\ tables \in Volumes
  /\ indexes = [t \in Table |-> IF t \in tables THEN Provided[t] ELSE {}]
  /\ pc = [s \in Service |-> "down"]
  /\ at = [s \in Service |-> 1]
  /\ made = [s \in Service |-> {}]
  /\ crashes = 0

(* The table a service is at. *)
Current(s) == Tables[at[s]]

(* The service's open transaction has created its table. *)
Creating(s) == pc[s] = "index"

Goto(s, l) == pc' = [pc EXCEPT ![s] = l]

(* The process ends, and with it its transaction and its locals. *)
Dies(s) ==
  /\ Goto(s, "down")
  /\ at' = [at EXCEPT ![s] = 1]
  /\ made' = [made EXCEPT ![s] = {}]

(* It is started, or started again. *)
StartUp(s) ==
  /\ pc[s] = "down"
  /\ Goto(s, "check")
  /\ UNCHANGED <<tables, indexes, at, made, crashes>>

NextTable(s) ==
  /\ Goto(s, "check")
  /\ at' = [at EXCEPT ![s] = @ + 1]

(* checkfirst: a table that is there is skipped, whatever its indexes.     *)
CheckFirst(s) ==
  /\ pc[s] = "check" /\ at[s] < Last
  /\ IF Current(s) \in tables
       THEN NextTable(s)
       ELSE Goto(s, "create") /\ UNCHANGED at
  /\ UNCHANGED <<tables, indexes, made, crashes>>

(* Variant: one try around the whole of create_all. *)
DuplicateEndsLoop(s) ==
  /\ pc[s] = "create" /\ Current(s) \in tables
  /\ Goto(s, "check")
  /\ at' = [at EXCEPT ![s] = Last]
  /\ UNCHANGED <<tables, indexes, made, crashes>>

(* Variant: the duplicate is tried again. *)
DuplicateRetried(s) ==
  /\ pc[s] = "create" /\ Current(s) \in tables
  /\ UNCHANGED vars

(* Committed since the check: DuplicateTable is a ProgrammingError that    *)
(* says "already exists", and the loop goes on.                            *)
AlreadyExists(s) ==
  /\ pc[s] = "create" /\ Current(s) \in tables
  /\ NextTable(s)
  /\ UNCHANGED <<tables, indexes, made, crashes>>

(* Variant: AUTOCOMMIT, every statement its own transaction. *)
CreateAndCommit(s) ==
  /\ pc[s] \in {"create", "wait"} /\ Current(s) \notin tables
  /\ \A z \in Service : Creating(z) => Current(z) # Current(s)
  /\ Goto(s, "index")
  /\ tables' = tables \cup {Current(s)}
  /\ UNCHANGED <<indexes, at, made, crashes>>

(* At once, or after a wait for a transaction that rolled back. *)
CreateTable(s) ==
  /\ pc[s] \in {"create", "wait"} /\ Current(s) \notin tables
  /\ \A z \in Service : Creating(z) => Current(z) # Current(s)
  /\ Goto(s, "index")
  /\ UNCHANGED <<tables, indexes, at, made, crashes>>

WaitForOther(s) ==
  /\ pc[s] = "create" /\ Current(s) \notin tables
  /\ \E z \in Service : Creating(z) /\ Current(z) = Current(s)
  /\ Goto(s, "wait")
  /\ UNCHANGED <<tables, indexes, at, made, crashes>>

(* The transaction waited for has committed: the UniqueViolation is an     *)
(* IntegrityError, which create_all lets through and nobody catches.       *)
LoseRace(s) ==
  /\ pc[s] = "wait" /\ Current(s) \in tables
  /\ Dies(s)
  /\ UNCHANGED <<tables, indexes, crashes>>

CreateIndex(s) ==
  /\ pc[s] = "index"
  /\ \E i \in Indexes[Current(s)] \ made[s] :
       made' = [made EXCEPT ![s] = @ \cup {i}]
  /\ UNCHANGED <<tables, indexes, pc, at, crashes>>

Committed(s) ==
  /\ tables' = tables \cup {Current(s)}
  /\ indexes' = [indexes EXCEPT ![Current(s)] = made[s]]

Commit(s) ==
  /\ pc[s] = "index" /\ made[s] = Indexes[Current(s)]
  /\ Committed(s)
  /\ NextTable(s)
  /\ made' = [made EXCEPT ![s] = {}]
  /\ UNCHANGED crashes

(* create_all returns: the API serves, the consumer subscribes. *)
Serve(s) ==
  /\ pc[s] = "check" /\ at[s] = Last
  /\ Goto(s, "up")
  /\ UNCHANGED <<tables, indexes, at, made, crashes>>

(* The process dies, or its connection does (an OperationalError is let    *)
(* through as well): PostgreSQL rolls its transaction back, unless the     *)
(* COMMIT was already there.                                               *)
Crash(s) ==
  /\ pc[s] # "down" /\ crashes < MaxCrashes
  /\ Dies(s)
  /\ crashes' = crashes + 1
  /\ \/ UNCHANGED <<tables, indexes>>
     \/ pc[s] = "index" /\ made[s] = Indexes[Current(s)] /\ Committed(s)

CreateAll(s) ==
  \/ CheckFirst(s) \/ AlreadyExists(s) \/ CreateTable(s) \/ WaitForOther(s)
  \/ LoseRace(s) \/ CreateIndex(s) \/ Commit(s) \/ Serve(s)

Next == \E s \in Service : StartUp(s) \/ CreateAll(s) \/ Crash(s)

Spec == Init /\ [][Next]_vars

(* A service that died is started again, as ECS does to keep desired_count *)
(* (docker-compose.yml has no restart policy), and a running one goes on.  *)
FairSpec == Spec /\ \A s \in Service : WF_vars(StartUp(s) \/ CreateAll(s))

(***************************************************************************)
(* Properties                                                              *)
(***************************************************************************)
(* A service that is up finds every table its queries name, whichever of   *)
(* them other services created, lost or were creating as it passed.        *)
SchemaBeforeTraffic == \A s \in Service : pc[s] = "up" => tables = Table

(* No table is ever seen without an index its creator meant it to have:    *)
(* checkfirst never looks at a table again, so what is missing stays so.   *)
TablesWhole ==
  \A t \in tables : indexes[t] \in {Provided[t], Indexes[t]}

(* Under FairSpec every service comes up for good: a start-up that lost a  *)
(* race finds one more table committed, so no race is lost for ever.       *)
EveryServiceStarts == \A s \in Service : <>[](pc[s] = "up")
=============================================================================
