----------------------------- MODULE MCStartup ------------------------------
(* An instance of Startup for TLC: of the statements those that make one   *)
(* of the objects of Part, a table with its index and one that refers to   *)
(* it among them.                                                          *)
EXTENDS Startup, Schema

Part == {"schema_migrations", "users", "email_jobs", "idx_email_jobs_status",
         "webhooks"}
InPart(st) == st.makes \in Part

SomeTables == SelectSeq(TheTables, InPart)
SomeMigrations == SelectSeq(TheMigrations, InPart)

=============================================================================
