---------------------------- MODULE MCMigrations ----------------------------
(* An instance of Migrations for TLC: the scripts of the three services.     *)
EXTENDS Migrations, Schemas

CONSTANTS c1, c2, c3

AlembicVersion == Table("alembic_version")
==============================================================================
