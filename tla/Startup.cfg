CONSTANTS
    Servers = {s1}
    Scripts = {m1, m2}
    Objects <- Part
    CreateTables <- SomeTables
    Migrations <- SomeMigrations
    VersionTable = "schema_migrations"
SPECIFICATION FairSpec
INVARIANTS TypeOK MigrationsCreateNothing RecordedInOrder
PROPERTIES NoPoolNoService
