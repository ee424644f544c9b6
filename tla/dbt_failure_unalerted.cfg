SPECIFICATION Spec
CONSTANTS
    silver = silver
    gold = gold
    unique_key = unique_key
    Models <- TheModels
    Tests <- OneTest
INVARIANT FailedRunIsShown
