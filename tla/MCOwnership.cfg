CONSTANTS
  Profiles <- MCProfiles
SPECIFICATION ParamSpec
INVARIANT ParamTypeOK
INVARIANT SharingConfined
INVARIANT LeakConfined
INVARIANT DanglingConfined
INVARIANT UndefinedConfined
PROPERTY CallerKeeps
CHECK_DEADLOCK FALSE
