------------------------- MODULE MCSchemaBootstrap -------------------------
(***************************************************************************)
(* SchemaBootstrap with the tables of the models and of sql/init.sql.      *)
(***************************************************************************)
EXTENDS SchemaBootstrap, PostgresModels

CONSTANTS api1, api2, consumer

MCTable == DOMAIN Declared
MCIndex == UNION {Declared[t] \cup InitSql[t] : t \in MCTable}
=============================================================================
