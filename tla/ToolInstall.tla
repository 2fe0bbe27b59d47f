---------------------------- MODULE ToolInstall ----------------------------
(***************************************************************************)
(* The installation of managed tools: BuildKit, RootlessKit and runc below *)
(* an image root (pkg/image/internal/buildkit/install.go), runc for the    *)
(* runtime (pkg/runtime/internal/runc) and the umoci helper of the bundle  *)
(* provisioner (pkg/bundle/internal/directory/userns.go).                  *)
(*                                                                         *)
(* A tool is accepted as it is found, or downloaded, verified and renamed  *)
(* into place. Tools that come as one archive are accepted if they answer  *)
(* --version; a tool that comes as a binary must match its checksum.       *)
(* Installers share the tool directory without a lock and may die at any   *)
(* point; the configured version changes only while none runs.             *)
(***************************************************************************)
EXTENDS Naturals, Sequences

CONSTANTS
  Installers,  \* processes or goroutines installing into one directory
  Plan,        \* the downloads in order, each a sequence of tools in archive order
  Pinned,      \* tools that come as a binary and are accepted by checksum
  Versions     \* configurable versions

ASSUME ToolAssumption ==
  /\ Plan \in Seq(Seq(STRING)) /\ Len(Plan) > 0
  /\ \A g \in 1..Len(Plan) :
       /\ Len(Plan[g]) > 0
       /\ (\E i \in 1..Len(Plan[g]) : Plan[g][i] \in Pinned) => Len(Plan[g]) = 1
  /\ Versions \cap {"none", "bad"} = {}

VARIABLES
  file,  \* what is installed under a tool's name: "none", "bad" or a version
  want,  \* the configured version
  inst   \* what each installer is doing

vars == <<file, want, inst>>

Tools == UNION {{Plan[g][i] : i \in 1..Len(Plan[g])} : g \in 1..Len(Plan)}

\* An installer that has downloaded nothing of a group yet.
At(step, group) == [step |-> step, group |-> group, entry |-> 1, content |-> "none"]
Idle == At("idle", 1)

Init ==
  /\ file = [t \in Tools |-> "none"]
  /\ want \in Versions
  /\ inst = [p \in Installers |-> Idle]

Group(p) == Plan[inst[p].group]
Members(p) == {Group(p)[i] : i \in 1..Len(Group(p))}
Goto(p, step) == inst' = [inst EXCEPT ![p].step = step]
Stop(p, step) == inst' = [inst EXCEPT ![p] = At(step, 1)]

\* The next download of the plan, or the end of the installation.
NextGroup(p) ==
  IF inst[p].group = Len(Plan)
  THEN Stop(p, "done")
  ELSE inst' = [inst EXCEPT ![p] = At("check", inst[p].group + 1)]

Reconfigure ==
  /\ \A p \in Installers : inst[p].step \in {"idle", "done"}
  /\ want' \in Versions
  /\ inst' = [p \in Installers |-> Idle]
  /\ UNCHANGED file

Begin(p) ==
  /\ inst[p].step = "idle" /\ Goto(p, "check")
  /\ UNCHANGED <<file, want>>

\* probeTool: the file is there and answers --version.
Runs(t) == file[t] \in Versions
\* fileMatchesSHA256
Matches(t) == file[t] = want

FaultyAcceptArchive(p) ==
  /\ inst[p].step = "check" /\ Group(p)[1] \notin Pinned
  /\ Runs(Group(p)[1])
  /\ NextGroup(p)
  /\ UNCHANGED <<file, want>>

\* Every tool of the archive answers the probe.
AcceptArchive(p) ==
  /\ inst[p].step = "check" /\ Group(p)[1] \notin Pinned
  /\ \A t \in Members(p) : Runs(t)
  /\ NextGroup(p)
  /\ UNCHANGED <<file, want>>

\* A probe fails, which also a sound tool's may.
RejectArchive(p) ==
  /\ inst[p].step = "check" /\ Group(p)[1] \notin Pinned
  /\ Goto(p, "download")
  /\ UNCHANGED <<file, want>>

AcceptBinary(p) ==
  /\ inst[p].step = "check" /\ Group(p)[1] \in Pinned
  /\ Matches(Group(p)[1])
  /\ NextGroup(p)
  /\ UNCHANGED <<file, want>>

RejectBinary(p) ==
  /\ inst[p].step = "check" /\ Group(p)[1] \in Pinned
  /\ ~Matches(Group(p)[1])
  /\ Goto(p, "download")
  /\ UNCHANGED <<file, want>>

\* The download into a temporary file: what arrives need not be what was asked for.
Download(p) ==
  /\ inst[p].step = "download"
  /\ \E c \in {want, "bad"} :
       inst' = [inst EXCEPT ![p].step = "verify", ![p].content = c]
  /\ UNCHANGED <<file, want>>

FaultyVerify(p) ==
  /\ inst[p].step = "verify"
  /\ inst' = [inst EXCEPT ![p].step = "write", ![p].entry = 1]
  /\ UNCHANGED <<file, want>>

Verify(p) ==
  /\ inst[p].step = "verify" /\ inst[p].content # "bad"
  /\ inst' = [inst EXCEPT ![p].step = "write", ![p].entry = 1]
  /\ UNCHANGED <<file, want>>

\* writeExecutableAtomic: each tool of an archive by a rename of its own.
WriteEntry(p) ==
  /\ inst[p].step = "write" /\ Group(p)[1] \notin Pinned
  /\ file' = [file EXCEPT ![Group(p)[inst[p].entry]] = inst[p].content]
  /\ IF inst[p].entry = Len(Group(p))
     THEN NextGroup(p)
     ELSE inst' = [inst EXCEPT ![p].entry = @ + 1]
  /\ UNCHANGED want

CommitBinary(p) ==
  /\ inst[p].step = "write" /\ Group(p)[1] \in Pinned
  /\ file' = [file EXCEPT ![Group(p)[1]] = inst[p].content]
  /\ NextGroup(p)
  /\ UNCHANGED want

\* An error return: a file that cannot be read, request, status, checksum, an entry unexpected
\* or missing, a full disk, or the end of the context. The temporary file is removed, tools written so far stay.
InstallFails(p) ==
  /\ inst[p].step \in {"check", "download", "verify", "write"}
  /\ Stop(p, "idle")
  /\ UNCHANGED <<file, want>>

\* The process dies; a new one may begin.
Crash(p) ==
  /\ inst[p].step \notin {"idle", "done"}
  /\ Stop(p, "idle")
  /\ UNCHANGED <<file, want>>

Next ==
  \/ Reconfigure
  \/ \E p \in Installers :
       \/ Begin(p) \/ AcceptArchive(p) \/ RejectArchive(p) \/ AcceptBinary(p) \/ RejectBinary(p)
       \/ Download(p) \/ Verify(p) \/ WriteEntry(p) \/ CommitBinary(p)
       \/ InstallFails(p) \/ Crash(p)

Spec == Init /\ [][Next]_vars

----------------------------------------------------------------------------
(* Properties *)

\* Every variable stays in its range.
TypeOK ==
  /\ file \in [Tools -> Versions \cup {"none", "bad"}]
  /\ want \in Versions
  /\ inst \in [Installers ->
       [step: {"idle", "check", "download", "verify", "write", "done"},
        group: 1..Len(Plan), entry: Nat \ {0},
        content: Versions \cup {"none", "bad"}]]

\* An installation that has returned left every tool there, and every pinned tool in the
\* configured version, whatever died or failed before and whatever else installs beside it.
InstalledIsUsable ==
  \A p \in Installers : inst[p].step = "done" =>
    \A t \in Tools : file[t] \in IF t \in Pinned THEN {want} ELSE Versions

\* A tool in place is never taken away, nor replaced by anything but a verified download; a
\* build that runs it beside an installation keeps a tool of a configured version.
NeverDegraded ==
  [][\A t \in Tools : file'[t] # file[t] => file'[t] = want]_vars
=============================================================================
