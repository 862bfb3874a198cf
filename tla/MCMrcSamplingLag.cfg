SPECIFICATION Spec
CONSTANT Configs <- MCLag
INVARIANT SampledUnderItsWays
