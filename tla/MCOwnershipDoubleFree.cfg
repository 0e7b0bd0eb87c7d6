CONSTANTS
  Profiles <- MCProfiles
SPECIFICATION ParamSpec
INVARIANT NoDoubleFree
CHECK_DEADLOCK FALSE
