SPECIFICATION Spec
CONSTANTS
    Questions = 2
    Chat = {c1, c2}
    NoChat = NoChat
    Start = {c1}
    Steps <- MCSteps
    Visits = 1
    Worlds <- MCWorlds
INVARIANTS TypeOK Delivered OneAtATime 
PROPERTIES AnswerSpec  RecordFinishes
CHECK_DEADLOCK FALSE
