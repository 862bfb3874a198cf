SPECIFICATION Spec
CONSTANT Configs <- MCIndex
INVARIANT IndexInBounds
