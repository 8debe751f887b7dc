CONSTANTS
    MaxTokens = 4
    MaxTyped = 2
SPECIFICATION Spec
INVARIANTS
    EngineGetsTheLink
    EngineGetsTheFields
    LinksAgree
    
