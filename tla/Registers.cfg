SPECIFICATION Spec
CONSTANT StackSize = 6
INVARIANTS LiveRestored BufferStable
