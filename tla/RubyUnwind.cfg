CONSTANTS
  Programs <- AllPrograms
  Iterations = 2
  CodeOf <- Compile
  Matches <- Takes
  NilValue <- Nil
  RuntimeErr <- Runtime
SPECIFICATION Spec
INVARIANTS RunsAsWritten BangIsScoped NoStaleWalk StacksMatchNesting
