SPECIFICATION Spec
CONSTANTS
    c1 = c1
    c2 = c2
    ecu1 = ecu1
    ecu2 = ecu2
    NoParams = NoParams
    Clients = {c1, c2}
    Params = {ecu1, ecu2}
    Commands <- MCCommands
    MaxSockets = 2
    MaxOpens = 3
    MaxQueries = 3
    MaxFaults = 1
INVARIANTS HeldIsListed SocketAsAsked AnswerAge WaitsForAnswer
SYMMETRY Symmetry
CHECK_DEADLOCK FALSE
