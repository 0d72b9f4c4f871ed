CONSTANTS
  BuiltIns <- MCBuiltIns
  Strs <- MCStrs
  Files <- MCFiles
SPECIFICATION Spec
PROPERTY NoPartialRegistration
