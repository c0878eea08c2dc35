\* Two validators, one with two delegations: rewards that do not divide, a slash
\* and a redelegation before an export, a second slash after the restart.
CONSTANTS
    v1 = v1  v2 = v2  d1 = d1  d2 = d2
    Validators = {v1, v2}
    Delegators = {d1, d2}
    InitialDelegations <- MCDelegations
    Unit = 2
    MaxBlocks = 4
    MaxExports = 2
SPECIFICATION Spec
INVARIANTS  NoHeightSurvives 
CHECK_DEADLOCK FALSE
