SPECIFICATION Spec
CONSTANTS
    ProcessorCount = 2
    MaxConns = 2
PROPERTIES
    ImplementsHandoff
