------------------------------ MODULE Builder ------------------------------
(***************************************************************************)
(* A BuildKit builder (pkg/image/internal/buildkit, New and Build): its    *)
(* construction installs the tools (ToolInstall), and a build runs them    *)
(* (ImageBuild) while other processes install into the same directory, or  *)
(* die doing so.                                                           *)
(***************************************************************************)
EXTENDS ToolInstall

CONSTANT Self  \* the installer that is the construction of this builder

ASSUME SelfAssumption == Self \in Installers

VARIABLES pc, cancelled, result, dirs, layout, daemon, killed, waiter

Build == INSTANCE ImageBuild

buildVars == <<pc, cancelled, result, dirs, layout, daemon, killed, waiter>>
hostVars == <<vars, buildVars>>

Active == pc \notin {"idle", "returned"}

\* New returns a builder only when its tools are installed.
Constructed == inst[Self].step = "done"

HostInit == Init /\ Build!Init

BuildStep == Constructed /\ Build!Next /\ UNCHANGED vars

\* The configuration a build works with is that of its own process.
InstallStep ==
  /\ Next /\ UNCHANGED buildVars
  /\ Active => inst'[Self] = inst[Self]

HostNext == BuildStep \/ InstallStep

HostSpec == HostInit /\ [][HostNext]_hostVars

HostFairSpec == HostSpec /\ Build!Fairness

----------------------------------------------------------------------------
(* Properties *)

\* Every variable of the installation and of the build stays in its range.
HostTypeOK == TypeOK /\ Build!TypeOK

\* While a build runs, every tool it may start is there and runs, the pinned ones in the
\* configured version, whatever other installers write, fail at or leave behind.
ToolsServeBuild ==
  Active => \A t \in Tools : Runs(t) /\ (t \in Pinned => Matches(t))

\* A shared tool directory is sound for installers and for builds alike.
ToolsAreSound == HostTypeOK /\ InstalledIsUsable /\ ToolsServeBuild

\* removeBuildDirectory works "after the daemon stops": the directories are not touched
\* while a daemon could still write to them.
DirsOutliveDaemon == Build!DirsOutliveDaemon

\* Build succeeds only with a whole layout, and with nothing of the build left behind.
SuccessIsClean == Build!SuccessIsClean

\* Once its context has ended Build returns, whoever has received the daemon's one exit
\* value; nothing is assumed of the daemon or of the other installers.
BuildReturns == Build!BuildReturns
=============================================================================
