------------------------------- MODULE Schema -------------------------------
(* The statements that make the database: what a statement makes, what has *)
(* to be there for it (an index needs its table, a table those its columns *)
(* refer to).  All of them say IF NOT EXISTS.                              *)
EXTENDS Naturals, Sequences

Statement(makes, needs) == [makes |-> makes, needs |-> needs]
Table(t) == Statement(t, {})
Index(i, t) == Statement(i, {t})
Referring(t, u) == Statement(t, {u})

(* createTables: what a server, and the script itself, run at every start. *)
TheTables ==
    << Table("users"),
       Table("email_jobs"),
       Index("idx_email_jobs_user_id", "email_jobs"),
       Index("idx_email_jobs_status", "email_jobs"),
       Index("idx_email_jobs_scheduled", "email_jobs"),
       Table("email_history"),
       Index("idx_email_history_user_id", "email_history"),
       Index("idx_email_history_created_at", "email_history"),
       Table("templates"),
       Index("idx_templates_action", "templates"),
       Table("webhooks"),
       Index("idx_webhooks_user_id", "webhooks"),
       Table("rate_limits"),
       Table("suppression_list"),
       Index("idx_suppression_email", "suppression_list"),
       Table("analytics") >>

(* The migrations.  The loop numbers them from 0, and so counts the three  *)
(* indexes of "Version 3" as three versions.                               *)
TheMigrations ==
    << Table("schema_migrations"),
       Table("users"),
       Referring("email_jobs", "users"),
       Index("idx_email_jobs_user_id", "email_jobs"),
       Index("idx_email_jobs_status", "email_jobs"),
       Index("idx_email_jobs_scheduled", "email_jobs"),
       Referring("email_history", "email_jobs"),
       Table("templates"),
       Referring("webhooks", "users"),
       Referring("rate_limits", "users"),
       Table("suppression_list"),
       Table("analytics") >>

(* What rests on both lists: each migration but the one that makes the     *)
(* table of versions makes something that createTables has made before,    *)
(* and every statement comes after those it needs.                         *)
Earlier(list, i) == {list[j].makes : j \in 1 .. i - 1}

ASSUME SchemaAssumption ==
    /\ \A v \in DOMAIN TheMigrations :
          \/ TheMigrations[v].makes = "schema_migrations"
          \/ \E i \in DOMAIN TheTables :
               TheTables[i].makes = TheMigrations[v].makes
    /\ \A i \in DOMAIN TheTables :
          TheTables[i].needs \subseteq Earlier(TheTables, i)

=============================================================================
