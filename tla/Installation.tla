---------------------------- MODULE Installation ----------------------------
(***************************************************************************)
(* The files a CI installation lives on (cmd/ci): the update passcode and  *)
(* the initialization marker that updatePasscode writes at the first start *)
(* (files.go), the database's presence, and the executable that a          *)
(* self-update builds, checks and puts in place (update.go, preflight.go). *)
(*                                                                         *)
(* One process holds the root's lock. It may die at any step, and so may   *)
(* the machine. A stopped machine comes up with the names of a directory   *)
(* as they were at some moment since the directory was last synced (the    *)
(* file system keeps the order of name changes in one directory), and a    *)
(* file whose content was never synced may be torn.                        *)
(* When an update may begin and what happens to jobs meanwhile is          *)
(* CIServer's.                                                             *)
(***************************************************************************)

CONSTANTS
  Versions,  \* executables: one file for each build
  First,     \* the one that was installed by hand
  Secrets    \* passcodes that can be drawn

ASSUME InstallationAssumption ==
  /\ First \in Versions
  /\ Versions \cap {"none", "torn"} = {} /\ Secrets \cap {"none", "torn"} = {}
  /\ Versions \cap Secrets = {}

VARIABLES
  seen,     \* what each name holds for a process that looks
  past,     \* for each directory, what its names have held since it was last synced
  loose,    \* contents written and not yet synced
  pc,       \* where the process is
  self,     \* the build the process runs
  cand,     \* the staged candidate
  draft,    \* the passcode just drawn
  damaged,  \* somebody has removed or overwritten a file of the root
  odd       \* putting the previous executable back has failed

vars == <<seen, past, loose, pc, self, cand, draft, damaged, odd>>
aside == <<self, cand, draft, damaged, odd>>

RootFiles == {"passcode", "initialized", "jobs"}
BinFiles == {"executable", "previous"}
Files == RootFiles \cup BinFiles
Names == [root |-> RootFiles, bin |-> BinFiles]
Listing(s, d) == [f \in Names[d] |-> s[f]]
Contents == Versions \cup Secrets \cup {"none", "torn", "present"}

Init ==
  /\ seen = [f \in Files |-> IF f = "executable" THEN First ELSE "none"]
  /\ past = [d \in {"root", "bin"} |-> {Listing(seen, d)}]
  /\ loose = {} /\ pc = "down" /\ self = "none" /\ cand = "none" /\ draft = "none"
  /\ damaged = FALSE /\ odd = FALSE

Becomes(s) ==
  /\ seen' = s
  /\ past' = [d \in {"root", "bin"} |-> past[d] \cup {Listing(s, d)}]
Put(f, c) == Becomes([seen EXCEPT ![f] = c])
Sync(d) == past' = [past EXCEPT ![d] = {Listing(seen, d)}] /\ UNCHANGED seen
Halt == pc' = "down" /\ self' = "none" /\ cand' = "none" /\ draft' = "none"
\* Contents that some name still holds, or may hold after the machine has stopped.
InUse(d) == {disk[f] : disk \in past[d], f \in Names[d]}

----------------------------------------------------------------------------
(* Startup: updatePasscode *)

Start ==
  /\ pc = "down" /\ seen["executable"] \in Versions
  /\ self' = seen["executable"] /\ pc' = "inspect" /\ odd' = FALSE
  /\ UNCHANGED <<seen, past, loose, cand, draft, damaged>>

FaultyInspect ==
  /\ pc = "inspect"
  /\ pc' = IF seen["passcode"] # "none" THEN "read" ELSE "draw"
  /\ UNCHANGED <<seen, past, loose, aside>>

\* A missing passcode is drawn only where no earlier start has left a trace.
Inspect ==
  /\ pc = "inspect"
  /\ \/ seen["passcode"] # "none" /\ pc' = "read"
     \/ /\ seen["passcode"] = "none" /\ seen["initialized"] = "none" /\ seen["jobs"] = "none"
        /\ pc' = "draw"
  /\ UNCHANGED <<seen, past, loose, aside>>

\* The start is refused: no passcode in an existing installation, or one that is damaged.
Refuse ==
  /\ \/ /\ pc = "inspect" /\ seen["passcode"] = "none"
        /\ seen["initialized"] # "none" \/ seen["jobs"] # "none"
     \/ pc = "read" /\ seen["passcode"] = "torn"
     \/ pc = "mark" /\ seen["initialized"] = "torn"
  /\ Halt
  /\ UNCHANGED <<seen, past, loose, damaged, odd>>

\* writeAtomic, up to the file's sync.
Draw ==
  /\ pc = "draw"
  /\ draft' \in Secrets \ InUse("root") /\ loose' = loose \cup {draft'} /\ pc' = "flush"
  /\ UNCHANGED <<seen, past, self, cand, damaged, odd>>

FaultyFlushPasscode ==
  /\ pc = "flush" /\ pc' = "publish"
  /\ UNCHANGED <<seen, past, loose, aside>>

FlushPasscode ==
  /\ pc = "flush"
  /\ loose' = loose \ {draft} /\ pc' = "publish"
  /\ UNCHANGED <<seen, past, aside>>

PublishPasscode ==
  /\ pc = "publish"
  /\ Put("passcode", draft) /\ pc' = "sync"
  /\ UNCHANGED <<loose, aside>>

SyncPasscode ==
  /\ pc = "sync"
  /\ Sync("root") /\ pc' = "read"
  /\ UNCHANGED <<loose, aside>>

Read ==
  /\ pc = "read" /\ seen["passcode"] # "torn"
  /\ pc' = "mark"
  /\ UNCHANGED <<seen, past, loose, aside>>

\* writeAtomic of the marker: its content is synced before its name is.
Mark ==
  /\ pc = "mark" /\ seen["initialized"] = "none"
  /\ Put("initialized", "present") /\ pc' = "sync-mark"
  /\ UNCHANGED <<loose, aside>>

SyncMark ==
  /\ pc = "sync-mark"
  /\ Sync("root") /\ pc' = "open"
  /\ UNCHANGED <<loose, aside>>

Marked ==
  /\ pc = "mark" /\ seen["initialized"] = "present"
  /\ pc' = "open"
  /\ UNCHANGED <<seen, past, loose, aside>>

\* openSQLiteStore
OpenStore ==
  /\ pc = "open"
  /\ Put("jobs", "present") /\ pc' = "serving"
  /\ UNCHANGED <<loose, aside>>

----------------------------------------------------------------------------
(* Self-update: buildUpdate, checkCandidate, replaceProcess *)

Build ==
  /\ pc = "serving"
  /\ cand' \in Versions \ InUse("bin") /\ loose' = loose \cup {cand'} /\ pc' = "built"
  /\ UNCHANGED <<seen, past, self, draft, damaged, odd>>

FaultyFlushCandidate ==
  /\ pc = "built" /\ pc' = "staged"
  /\ UNCHANGED <<seen, past, loose, aside>>

\* f.Sync, then the candidate's own check of its startup.
FlushCandidate ==
  /\ pc = "built"
  /\ loose' = loose \ {cand} /\ pc' = "staged"
  /\ UNCHANGED <<seen, past, aside>>

\* The server goes on with the build it runs; the candidate is removed.
Resume(step) ==
  /\ pc' = step /\ cand' = "none"
  /\ UNCHANGED <<self, draft, damaged>>

\* The build or the candidate's check fails, or the drain: the same server goes on.
BuildFails ==
  /\ pc \in {"built", "staged"}
  /\ Resume("serving") /\ loose' = loose \ {cand}
  /\ UNCHANGED <<seen, past, odd>>

\* serve has drained the jobs and main has closed the store.
HandOff ==
  /\ pc = "staged" /\ pc' = "backup"
  /\ UNCHANGED <<seen, past, loose, aside>>

\* replaceProcess fails before its rename has succeeded: main opens the store again.
ReplaceFails ==
  /\ pc \in {"backup", "link", "rename"}
  /\ Resume("open") /\ loose' = loose \ {cand}
  /\ UNCHANGED <<seen, past, odd>>

RemoveBackup ==
  /\ pc = "backup"
  /\ Put("previous", "none") /\ pc' = "link"
  /\ UNCHANGED <<loose, aside>>

LinkBackup ==
  /\ pc = "link"
  /\ Put("previous", seen["executable"]) /\ pc' = "rename"
  /\ UNCHANGED <<loose, aside>>

Install ==
  /\ pc = "rename"
  /\ Put("executable", cand) /\ pc' = "sync-bin"
  /\ UNCHANGED <<loose, aside>>

SyncInstall ==
  /\ pc = "sync-bin"
  /\ Sync("bin") /\ pc' = "exec"
  /\ UNCHANGED <<loose, aside>>

\* exec: the process becomes the candidate, and starts from the beginning.
Exec ==
  /\ pc = "exec"
  /\ self' = seen["executable"] /\ cand' = "none" /\ pc' = "inspect" /\ odd' = FALSE
  /\ UNCHANGED <<seen, past, loose, draft, damaged>>

FaultyRestore ==
  /\ pc \in {"sync-bin", "exec"}
  /\ Resume("open")
  /\ UNCHANGED <<seen, past, loose, odd>>

\* The sync, a descriptor flag or exec fails: restore renames the backup over the candidate
\* and syncs the directory, whose error is only reported.
Restore ==
  /\ pc \in {"sync-bin", "exec"}
  /\ LET back == [seen EXCEPT !["executable"] = seen["previous"], !["previous"] = "none"]
     IN  \/ Becomes(back)
         \/ seen' = back /\ past' = [past EXCEPT !["bin"] = {Listing(back, "bin")}]
  /\ Resume("open")
  /\ UNCHANGED <<loose, odd>>

\* That rename fails too: the server goes on beside an executable it does not run.
RestoreFails ==
  /\ pc \in {"sync-bin", "exec"}
  /\ Resume("open") /\ odd' = TRUE
  /\ Sync("bin") \/ UNCHANGED <<seen, past>>
  /\ UNCHANGED loose

----------------------------------------------------------------------------
(* Failures *)

\* An error of the file system ends the start; so may a crash of the process, anywhere.
Crash ==
  /\ pc # "down" /\ Halt
  /\ UNCHANGED <<seen, past, loose, damaged, odd>>

\* The machine stops.
PowerLoss ==
  /\ \E root \in past["root"], bin \in past["bin"], torn \in SUBSET loose :
       LET up == [f \in Files |-> IF f \in RootFiles THEN root[f] ELSE bin[f]]
       IN  /\ seen' = [f \in Files |-> IF up[f] \in torn THEN "torn" ELSE up[f]]
           /\ past' = [d \in {"root", "bin"} |-> {Listing(seen', d)}]
  /\ Halt /\ loose' = {}
  /\ UNCHANGED <<damaged, odd>>

\* Somebody removes or overwrites a file of an installation that is down, durably.
Damage ==
  /\ pc = "down" /\ ~damaged
  /\ \E f \in {"passcode", "initialized"}, c \in {"none", "torn"} :
       /\ seen[f] # "none"
       /\ seen' = [seen EXCEPT ![f] = c]
  /\ past' = [past EXCEPT !["root"] = {Listing(seen', "root")}]
  /\ damaged' = TRUE
  /\ UNCHANGED <<loose, pc, self, cand, draft, odd>>

Startup ==
  \/ Start \/ Inspect \/ Refuse \/ Draw \/ FlushPasscode \/ PublishPasscode \/ SyncPasscode
  \/ Read \/ Mark \/ SyncMark \/ Marked \/ OpenStore

Update ==
  \/ Build \/ FlushCandidate \/ BuildFails \/ HandOff \/ ReplaceFails \/ RemoveBackup
  \/ LinkBackup \/ Install \/ SyncInstall \/ Exec \/ Restore \/ RestoreFails

Next == Startup \/ Update \/ Crash \/ PowerLoss \/ Damage

Spec == Init /\ [][Next]_vars

----------------------------------------------------------------------------
(* Properties *)

\* Every variable stays in its range, and a candidate is staged only during an update.
TypeOK ==
  /\ seen \in [Files -> Contents]
  /\ DOMAIN past = {"root", "bin"}
  /\ \A d \in {"root", "bin"} : past[d] \subseteq [Names[d] -> Contents]
  /\ loose \subseteq Versions \cup Secrets
  /\ pc \in {"down", "inspect", "draw", "flush", "publish", "sync", "read", "mark",
             "sync-mark", "open", "serving", "built", "staged", "backup", "link", "rename",
             "sync-bin", "exec"}
  /\ self \in Versions \cup {"none"} /\ cand \in Versions \cup {"none"}
  /\ cand # "none" <=> pc \in {"built", "staged", "backup", "link", "rename", "sync-bin", "exec"}
  /\ draft \in Secrets \cup {"none"}
  /\ damaged \in BOOLEAN /\ odd \in BOOLEAN

\* Whenever the process or the machine stops, a whole executable is installed.
ExecutableIsWhole ==
  \A disk \in past["bin"] : disk["executable"] \in Versions \ loose

\* The service can be started again after any stop, and a staged candidate belongs to an update.
FilesAreSound == TypeOK /\ ExecutableIsWhole

\* A start never leads to an installation that refuses every later start: a trace of an
\* earlier start is on disk only with a whole passcode, unless somebody tampered with it.
TraceHasPasscode ==
  \A disk \in past["root"] :
    ~damaged /\ (disk["initialized"] # "none" \/ disk["jobs"] # "none")
      => disk["passcode"] \in Secrets \ loose

\* cmd/ci/README.md: "missing or invalid credentials are never replaced". Once the database
\* is there, no start draws another passcode, also where somebody removed the first.
PasscodeIsKept ==
  [][seen["jobs"] # "none" /\ seen'["passcode"] # seen["passcode"]
       => seen'["passcode"] \notin Secrets]_vars

\* A server that serves runs the executable that is installed, also after an update that
\* failed at its very end, unless putting the executable back failed.
ServingIsInstalled == pc = "serving" /\ ~odd => self = seen["executable"]

=============================================================================
