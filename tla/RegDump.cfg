SPECIFICATION Spec
INVARIANTS
  RegistersDumped
  VfDumpTrue
