\* Two plans in five blocks, three crashes or wrong starts.
CONSTANTS
    Releases <- MCReleases
    SkipHeights = {3, 4}
    MaxVersion = 5
    MaxPlans = 2
    MaxDetours = 3
SPECIFICATION Spec
INVARIANT EffectsIffDone
PROPERTY UpgradeApplied
CHECK_DEADLOCK FALSE
