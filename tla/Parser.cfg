SPECIFICATION Spec
CONSTANT Programs <- MCPrograms
INVARIANTS DeclarationsTaken BalancedWhenClean FixRemovesErrorUnlessFused
PROPERTY EndsUnlessStuck
