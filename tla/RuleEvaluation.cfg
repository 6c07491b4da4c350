SPECIFICATION EvalSpec
CONSTANTS
    Inputs <- MCInputs
    DaysInYear = 4
    Included <- MCIncluded
INVARIANTS EffectiveWhenMeant TriggersWhenMeant ErrorWhenMet
CHECK_DEADLOCK FALSE
