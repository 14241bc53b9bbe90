------------------------------ MODULE MCMigration ------------------------------
EXTENDS Migration
================================================================================
