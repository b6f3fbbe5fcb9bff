SPECIFICATION Spec
CONSTANT Programs <- MCGraphs
INVARIANTS LoopMembersMarked
