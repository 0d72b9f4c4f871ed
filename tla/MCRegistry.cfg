CONSTANTS
  BuiltIns <- MCBuiltIns
  Strs <- MCStrs
  Files <- MCFiles
SPECIFICATION Spec
INVARIANT TypeOK
INVARIANT PickleRoundTrip
INVARIANT OnlyValidRegistered
