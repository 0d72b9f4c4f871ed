CONSTANTS
  Decls <- MCDecls
  Bindings <- MCBindings
SPECIFICATION Spec
INVARIANT EntryPointCompiles
CHECK_DEADLOCK FALSE
