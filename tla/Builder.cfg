SPECIFICATION HostFairSpec
CONSTANTS
  Installers = {me, other}
  Self = me
  Plan <- MCPlan
  Pinned = {"runc"}
  Versions = {"v1", "v2"}
CHECK_DEADLOCK FALSE
INVARIANT ToolsAreSound
INVARIANT DirsOutliveDaemon
INVARIANT SuccessIsClean
PROPERTY NeverDegraded
PROPERTY BuildReturns
