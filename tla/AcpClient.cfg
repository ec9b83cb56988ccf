SPECIFICATION Spec
CONSTANTS
    MaxMessages = 5
    MaxMethods = 2
INVARIANTS TypeOK TurnComplete
PROPERTY HandshakeEndsOrTorn
\* the connection ends, or the agent says nothing
CHECK_DEADLOCK FALSE
