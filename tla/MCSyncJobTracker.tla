--------------------------- MODULE MCSyncJobTracker ---------------------------
(* Two jobs; one browser in which everything may go wrong, and one for each *)
(* set of promises that a property asks for.                                *)
EXTENDS SyncJobTrackerProperties

MCWorlds == {{}, {"settled", "reliable"}, {"settled", "patient", "reliable"}, {"settled", "patient", "prompt"}}
=============================================================================
