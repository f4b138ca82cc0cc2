SPECIFICATION Spec
CONSTANT PickSets <- Users
INVARIANTS BoxesAgree OptionsUnderstood
PROPERTY OptionsRestored
