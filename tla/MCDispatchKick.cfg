SPECIFICATION KickSpec
CONSTANTS
    ProcessorCount = 1
    MaxConns = 4
INVARIANTS
    TypeOK
    DeliveredOnce
    KickRemembered
    OnlyLateStranded
    RegisteredInOrder
PROPERTIES
    PromptUnlessLate
