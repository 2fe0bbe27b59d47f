SPECIFICATION Spec
CONSTANTS
  Versions = {"v1", "v2", "v3"}
  First = "v1"
  Secrets = {"s1", "s2"}
INVARIANT FilesAreSound
INVARIANT TraceHasPasscode
INVARIANT ServingIsInstalled
PROPERTY PasscodeIsKept
