------------------------------ MODULE MCSyncJob ------------------------------
(* SyncJob instantiated for TLC: the .cfg files give small sets of model    *)
(* values; threads, tables and datasources are interchangeable.             *)
EXTENDS SyncJobProperties, TLC

Symmetry == Permutations(Worker) \union Permutations(Table)
                \union Permutations(Datasource)
=============================================================================
