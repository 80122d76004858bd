SPECIFICATION Spec
CONSTANT Sources <- AllSources
CHECK_DEADLOCK FALSE
INVARIANTS
  TypeOK DepthBalanced WritesLogged HookFirst LoopsCounted CheckpointAtomic MatchesRuntime
