--------------------------- MODULE PostgresModels ---------------------------
(***************************************************************************)
(* The tables src/storage/postgres_models.py declares and the indexes each *)
(* carries, and those sql/init.sql creates on the first boot of a          *)
(* database volume.  Columns and their types are left out.  An index named *)
(* ix_<table>_<column> in the code is "<table>.<column>" here.             *)
(***************************************************************************)
EXTENDS Integers, Sequences

TransactionRecord == {"transactions.card_id", "transactions.user_id",
                      "transactions.card_event_time"}

AuditLogRecord == {"audit_logs.event_type", "audit_logs.transaction_id",
                   "audit_logs.created_at"}

PredictionRecord == {"predictions.transaction_id", "predictions.card_id",
                     "predictions.created_at"}

ReviewCaseRecord == {"review_cases.prediction_id", "review_cases.transaction_id",
                     "review_cases.created_at"}

AnalystFeedbackRecord == {"analyst_feedback.case_id", "analyst_feedback.transaction_id",
                          "analyst_feedback.created_at"}

ModelApprovalRecord == {"model_approvals.model_name", "model_approvals.created_at",
                        "model_approvals.name_version"}

DriftReportRecord == {"drift_reports.model_name", "drift_reports.created_at"}

Declared ==
  [transactions     |-> TransactionRecord,
   audit_logs       |-> AuditLogRecord,
   predictions      |-> PredictionRecord,
   review_cases     |-> ReviewCaseRecord,
   analyst_feedback |-> AnalystFeedbackRecord,
   model_approvals  |-> ModelApprovalRecord,
   drift_reports    |-> DriftReportRecord]

(* Base.metadata.sorted_tables: no foreign keys, so the order of the names. *)
SortedTables ==
  <<"analyst_feedback", "audit_logs", "drift_reports", "model_approvals",
    "predictions", "review_cases", "transactions">>

(* sql/init.sql: the same tables, with one index more and two fewer.       *)
InitSql ==
  [Declared EXCEPT
    !.review_cases = @ \cup {"review_cases.status"},
    !.model_approvals = {"model_approvals.name_version"}]

(* A volume keeps what init.sql created when it was new: nothing (another  *)
(* image, a test database), the tables of a phase of the project, or all.  *)
PhaseOne == {"transactions", "audit_logs"}
PhaseTwo == PhaseOne \cup {"predictions", "review_cases", "analyst_feedback",
                           "model_approvals"}
Phases == {{}, PhaseOne, PhaseTwo, DOMAIN Declared}
=============================================================================
