SPECIFICATION Spec
CONSTANTS
    Tests <- SomeTests
    Pipelines <- SomePipelines
    MaxSize = 13
    Corpus <- SomeCorpus
    IndexedAt = {2, 5}
    Ladder = {0, 2, 3, 5, 9}
    MaxCompareAttributes = 2
    MaxExemplars = 3
INVARIANTS
    NoSpanMissed
    ParenthesesAreKept
    CompareSelectsTheSame
    
    
    
CHECK_DEADLOCK FALSE
