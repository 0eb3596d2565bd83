SPECIFICATION Spec
CONSTANTS
    i1 = i1
    i2 = i2
    cli = cli
    Instances = {i1, i2, cli}
    Reverters = {cli}
    None = None
    Deploys <- MCDeploys
    NoTransaction = {2}
    Reversible = {2}
    Boots <- MCBoots
    MaxBreaks = 1
CHECK_DEADLOCK FALSE
INVARIANTS
    ServingIsBounded
