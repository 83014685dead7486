SPECIFICATION Spec
CONSTANTS
    Jobs = 2
    Task = {1, 2}
    Outcome = {"failed"}
    Budget = 2
    Worlds <- MCWorlds
INVARIANTS TypeOK NeverSilent ShownIsOfTheJob ToldOnce CancelsWhatWasAsked NothingForgotten 
PROPERTIES NotTrapped EndTold
CHECK_DEADLOCK FALSE
