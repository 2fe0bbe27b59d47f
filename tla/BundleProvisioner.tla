------------------------- MODULE BundleProvisioner -------------------------
(***************************************************************************)
(* The directory bundle provisioner (pkg/bundle/internal/directory): how   *)
(* Provision stages an image's root filesystem and its runtime spec in a   *)
(* temporary directory and commits them by one rename, and how Remove      *)
(* takes staging directories and bundle away again, also after a crash or  *)
(* an interrupted call left them half made or half removed.                *)
(*                                                                         *)
(* A directory is abstracted to what its removal depends on: whether it    *)
(* has a root filesystem, whether files in it belong to mapped users, and  *)
(* what config.json says.  The user namespace is UserNamespace's: that of  *)
(* the process is read once, a restart may find the host reconfigured, and *)
(* each config.json keeps the one its bundle was made in.                  *)
(***************************************************************************)
EXTENDS UserNamespace

CONSTANTS
  Ids,       \* bundle IDs
  Calls,     \* concurrent callers of the provisioner
  Names,     \* names MkdirTemp can draw for a staging directory
  Hosts,     \* what /etc/subuid and /etc/subgid may say when a provisioner is made
  Users,     \* [uid, gids]: what a process may be asked to run as
  Troubles,  \* which of "crash", "cancel", "failure" may happen
  NoDir      \* no such directory

ASSUME BundleAssumption ==
  /\ \A h \in Hosts : h \in Host
  /\ \E h \in Hosts : Usable(h)
  /\ \A u \in Users : u.uid \in IDs /\ u.gids \subseteq IDs
  /\ Troubles \subseteq {"crash", "cancel", "failure"}
  /\ "final" \notin Names

VARIABLES
  dirs,   \* dirs[id][name]: <tmp>/.<id>.tmp-<name>, or <root>/<id> for "final"
  call,   \* what each caller is executing
  known,  \* staging directories a crash or a reported error left behind
  ns      \* the namespace of this process's Provisioner

vars == <<dirs, call, known, ns>>

Places == Names \cup {"final"}

\* New fails on every other host.
Namespaces == {Namespace(h) : h \in {g \in Hosts : Usable(g)}}

Content == [rootfs: {"none", "own", "foreign"},      \* "foreign": files of mapped users
            whole:  BOOLEAN,                         \* extraction finished
            config: {"none", "torn", "written"},
            maps:   Namespaces \cup {NoDir},         \* the mappings config.json records
            user:   Users,                           \* the process the bundle is for
            ready:  BOOLEAN,                         \* the final runtime spec is in it
            cut:    BOOLEAN]                         \* its removal has begun

ASSUME NoDirAssumption == NoDir \notin Content   \* no record stands for "no directory"

EmptyDir(u) == [rootfs |-> "none", whole |-> FALSE, config |-> "none", maps |-> NoDir,
                user |-> u, ready |-> FALSE, cut |-> FALSE]

Torn(d) == [d EXCEPT !.config = "torn", !.maps = NoDir]
Written(d) == [d EXCEPT !.config = "written", !.maps = ns]

Steps == {"idle", "done", "stub", "stubbing", "extract", "extracting", "config", "spec",
          "writing", "rename", "undo", "list", "own", "namespace", "failed"}

Call == [step: Steps, op: {"none", "provision", "remove"}, id: Ids, name: Places]

Init ==
  /\ dirs = [i \in Ids |-> [n \in Places |-> NoDir]]
  /\ call \in [Calls -> {k \in Call : k.step = "idle" /\ k.op = "none" /\ k.name = "final"}]
  /\ known = {}
  /\ ns \in Namespaces

Busy(c) == call[c].op # "none"
Dir(c) == dirs[call[c].id][call[c].name]
SetDir(c, content) == dirs' = [dirs EXCEPT ![call[c].id][call[c].name] = content]
Staging(c) == IF call[c].op = "provision" THEN {<<call[c].id, call[c].name>>} ELSE {}
Goto(c, step) == call' = [call EXCEPT ![c].step = step]
Return(c, how) == call' = [call EXCEPT ![c].op = "none", ![c].step = how]
-----------------------------------------------------------------------------
(* Provision *)

\* Staging directories have unique names, so Provisions may run side by side; callers keep
\* Remove of a bundle apart from every other call on it. A request refused before MkdirTemp,
\* or a MkdirTemp that fails, changes nothing. Names bounds the leftovers.
BeginProvision(c, i, n, u) ==
  /\ ~Busy(c)
  /\ ~\E d \in Calls : call[d].op = "remove" /\ call[d].id = i
  /\ dirs[i][n] = NoDir
  /\ dirs' = [dirs EXCEPT ![i][n] = EmptyDir(u)]
  /\ call' = [call EXCEPT ![c] = [step |-> IF Multiple(ns) THEN "stub" ELSE "extract",
                                 op |-> "provision", id |-> i, name |-> n]]
  /\ UNCHANGED known

\* unpackMapped records the mappings before anything is extracted. os.WriteFile truncates
\* first and writes then.
BeginStub(c) ==
  /\ call[c].step = "stub"
  /\ SetDir(c, Torn(Dir(c)))
  /\ Goto(c, "stubbing") /\ UNCHANGED known

EndStub(c) ==
  /\ call[c].step = "stubbing"
  /\ SetDir(c, Written(Dir(c)))
  /\ Goto(c, "extract") /\ UNCHANGED known

\* umoci creates rootfs and extracts layer after layer; in a mapped namespace the files may
\* belong to any container user.
BeginExtract(c) ==
  /\ call[c].step = "extract"
  /\ \E owner \in IF Multiple(ns) THEN {"own", "foreign"} ELSE {"own"} :
       SetDir(c, [Dir(c) EXCEPT !.rootfs = owner])
  /\ Goto(c, "extracting") /\ UNCHANGED known

EndExtract(c) ==
  /\ call[c].step = "extracting"
  /\ SetDir(c, [Dir(c) EXCEPT !.whole = TRUE])
  /\ Goto(c, "config") /\ UNCHANGED known

\* A faulty variant: the bundle is committed before its spec is rewritten.
FaultyPublishConfig(c) ==
  /\ call[c].step = "config"
  /\ SetDir(c, Written(Dir(c)))
  /\ Goto(c, "rename") /\ UNCHANGED known

\* The generated runtime config: published by a rename over the stub when mapped, written by
\* umoci itself otherwise.
PublishConfig(c) ==
  /\ call[c].step = "config"
  /\ SetDir(c, Written(Dir(c)))
  /\ Goto(c, "spec") /\ UNCHANGED known

\* writeRootlessRuntimeSpec reads config.json, rewrites the spec and calls os.WriteFile.
BeginSpec(c) ==
  /\ call[c].step = "spec" /\ MapsUser(ns, Dir(c).user)
  /\ SetDir(c, Torn(Dir(c)))
  /\ Goto(c, "writing") /\ UNCHANGED known

SpecRefused(c) ==
  /\ call[c].step = "spec" /\ ~MapsUser(ns, Dir(c).user)
  /\ Goto(c, "undo") /\ UNCHANGED <<dirs, known>>

EndSpec(c) ==
  /\ call[c].step = "writing"
  /\ SetDir(c, [Written(Dir(c)) EXCEPT !.ready = TRUE])
  /\ Goto(c, "rename") /\ UNCHANGED known

\* rename(2) replaces a missing or an empty directory, nothing else.
Vacant(d) == d # NoDir => d.rootfs = "none" /\ d.config = "none"

\* A faulty variant: an existing bundle of the same ID is replaced.
FaultyCommit(c) ==
  /\ call[c].step = "rename"
  /\ dirs' = [dirs EXCEPT ![call[c].id]["final"] = Dir(c), ![call[c].id][call[c].name] = NoDir]
  /\ Return(c, "done") /\ UNCHANGED known

Commit(c) ==
  /\ call[c].step = "rename"
  /\ Vacant(dirs[call[c].id]["final"])
  /\ dirs' = [dirs EXCEPT ![call[c].id]["final"] = Dir(c), ![call[c].id][call[c].name] = NoDir]
  /\ Return(c, "done") /\ UNCHANGED known

\* A faulty variant: committed is set before the rename is known to have worked.
FaultyCommitRefused(c) ==
  /\ call[c].step = "rename"
  /\ ~Vacant(dirs[call[c].id]["final"])
  /\ Return(c, "idle") /\ UNCHANGED <<dirs, known>>

CommitRefused(c) ==
  /\ call[c].step = "rename"
  /\ ~Vacant(dirs[call[c].id]["final"])
  /\ Goto(c, "undo") /\ UNCHANGED <<dirs, known>>

Staged == {"stub", "stubbing", "extract", "extracting", "config", "spec", "writing", "rename"}

\* An error of the image, the disk or a helper before the commit, or a context found
\* cancelled: the deferred function removes the staging directory.
ProvisionFails(c) ==
  /\ \/ "failure" \in Troubles /\ call[c].step \in Staged
     \/ "cancel" \in Troubles /\ call[c].step \in Staged \ {"stubbing", "writing", "rename"}
  /\ Goto(c, "undo") /\ UNCHANGED <<dirs, known>>
-----------------------------------------------------------------------------
(* Removal of one directory *)

\* A faulty variant: the namespace of the process, not of the bundle, decides.
FaultyWay(d) ==
  IF d = NoDir \/ d.rootfs = "none" \/ d.config = "none" THEN "own"
  ELSE IF d.config = "torn" THEN "failed"
  ELSE IF Multiple(ns) THEN "namespace" ELSE "own"

\* removeBundleDirectory picks the way: files of mapped users are removed inside the
\* namespace config.json records, all others by the caller.
Way(d) ==
  IF d = NoDir \/ d.rootfs = "none" \/ d.config = "none" THEN "own"
  ELSE IF d.config = "torn" THEN "failed"
  ELSE IF Multiple(d.maps) THEN "namespace" ELSE "own"

\* removeRuntimeMutatedBundle runs as the caller, who cannot delete what mapped users own.
Refused(d, way) == way = "own" /\ d # NoDir /\ d.rootfs = "foreign"

\* No removal can ever succeed on such a directory.
Stuck(d) == Way(d) = "failed" \/ Refused(d, Way(d))

Undo(c) ==
  /\ call[c].step = "undo"
  /\ Goto(c, Way(Dir(c))) /\ UNCHANGED <<dirs, known>>

\* Entries go in the order the directory lists them.
RemoveEntry(c) ==
  /\ call[c].step \in {"own", "namespace"} /\ Dir(c) # NoDir /\ ~Refused(Dir(c), call[c].step)
  /\ \/ /\ Dir(c).config # "none"
        /\ SetDir(c, [Dir(c) EXCEPT !.config = "none", !.maps = NoDir, !.ready = FALSE,
                                !.cut = TRUE])
     \/ /\ Dir(c).rootfs # "none"
        /\ SetDir(c, [Dir(c) EXCEPT !.rootfs = "none", !.whole = FALSE, !.cut = TRUE])
  /\ UNCHANGED <<call, known>>

\* The directory itself goes last; one that is absent is as good as removed.
Removed(c) ==
  /\ call[c].step \in {"own", "namespace"} /\ Vacant(Dir(c))
  /\ SetDir(c, NoDir)
  /\ IF call[c].op = "provision" \/ call[c].name = "final" THEN Return(c, "done") ELSE Goto(c, "list")
  /\ known' = known \ {<<call[c].id, call[c].name>>}

\* A context that ends kills the namespaced rm wherever it is; the caller's own removal only
\* looks at it between two attempts. A busy or failing file system stops either.
RemovalFails(c) ==
  /\ call[c].step \in {"own", "namespace"} /\ Dir(c) # NoDir
  /\ \/ Refused(Dir(c), call[c].step)
     \/ "cancel" \in Troubles /\ (call[c].step = "namespace" \/ ~Dir(c).cut)
     \/ "failure" \in Troubles
  /\ Goto(c, "failed") /\ UNCHANGED <<dirs, known>>

\* The error is returned: for Provision joined with the one that made it fail.
ReturnError(c) ==
  /\ call[c].step = "failed"
  /\ Return(c, "idle")
  /\ known' = known \cup Staging(c)
  /\ UNCHANGED dirs
-----------------------------------------------------------------------------
(* Remove *)

BeginRemove(c, i) ==
  /\ ~Busy(c)
  /\ ~\E d \in Calls : Busy(d) /\ call[d].id = i
  /\ call' = [call EXCEPT ![c] = [step |-> "list", op |-> "remove", id |-> i, name |-> "final"]]
  /\ UNCHANGED <<dirs, known>>

\* removeTemporaryBundles takes the staging directories of this bundle first.
NextStaging(c, n) ==
  /\ call[c].step = "list"
  /\ dirs[call[c].id][n] # NoDir
  /\ call' = [call EXCEPT ![c].step = Way(dirs[call[c].id][n]), ![c].name = n]
  /\ UNCHANGED <<dirs, known>>

\* A faulty variant: leftover staging directories are not looked for.
FaultyStagingGone(c) ==
  /\ call[c].step = "list"
  /\ call' = [call EXCEPT ![c].step = Way(dirs[call[c].id]["final"]), ![c].name = "final"]
  /\ UNCHANGED <<dirs, known>>

StagingGone(c) ==
  /\ call[c].step = "list"
  /\ \A n \in Names : dirs[call[c].id][n] = NoDir
  /\ call' = [call EXCEPT ![c].step = Way(dirs[call[c].id]["final"]), ![c].name = "final"]
  /\ UNCHANGED <<dirs, known>>
-----------------------------------------------------------------------------
\* The process dies with its calls and helpers; the directories stay, and the next
\* provisioner reads the host's files anew.
Crash ==
  /\ "crash" \in Troubles
  /\ known' = known \cup UNION {Staging(c) : c \in Calls}
  /\ call' = [c \in Calls |-> [call[c] EXCEPT !.op = "none", !.step = "idle"]]
  /\ ns' \in Namespaces
  /\ UNCHANGED dirs

ProvisionStep(c) ==
  \/ \E i \in Ids, n \in Names, u \in Users : BeginProvision(c, i, n, u)
  \/ BeginStub(c) \/ EndStub(c) \/ BeginExtract(c) \/ EndExtract(c)
  \/ PublishConfig(c) \/ BeginSpec(c) \/ SpecRefused(c) \/ EndSpec(c)
  \/ Commit(c) \/ CommitRefused(c) \/ ProvisionFails(c) \/ Undo(c)

RemoveStep(c) ==
  \/ \E i \in Ids : BeginRemove(c, i)
  \/ \E n \in Names : NextStaging(c, n)
  \/ StagingGone(c) \/ RemoveEntry(c) \/ Removed(c) \/ RemovalFails(c) \/ ReturnError(c)

Next == Crash \/ (UNCHANGED ns /\ \E c \in Calls : ProvisionStep(c) \/ RemoveStep(c))

Spec == Init /\ [][Next]_vars
-----------------------------------------------------------------------------
\* Every variable stays in its range.
TypeOK ==
  /\ dirs \in [Ids -> [Places -> Content \cup {NoDir}]]
  /\ call \in [Calls -> Call]
  /\ known \subseteq Ids \X Names
  /\ ns \in Namespaces

\* A bundle is seen complete or not at all: whatever crash, cancellation or failure stopped a
\* Provision, the directory runc is given has the whole root filesystem and the final spec,
\* whose mappings cover the process's user, until a removal begins on it.
BundleIsComplete ==
  \A i \in Ids :
    LET d == dirs[i]["final"]
    IN  d # NoDir /\ ~d.cut => 
          /\ d.rootfs # "none" /\ d.whole /\ d.ready
          /\ d.config = "written" /\ MapsUser(d.maps, d.user)

SoundNamespaces ==
  {Namespace(h) : h \in {g \in Hosts : /\ OneToOne(Namespace(g).uid, g.uid)
                                       /\ OneToOne(Namespace(g).gid, g.gid)}}

\* Whatever the host's files say, New fails or has mappings that give no two container users
\* one host user and none of them an ID that is the caller's or root's.
NamespaceIsSound == ns \in SoundNamespaces

\* Between any two steps of any calls, every directory is of a kind the code knows, what runc
\* may be given is complete, and the namespace it all happens in is sound.
DirectoriesAreSound == TypeOK /\ BundleIsComplete /\ NamespaceIsSound

\* A committed bundle is only ever taken away by Remove: a second Provision of the same ID
\* loses, and must not overwrite or undo the first one's bundle.
BundleIsNotReplaced ==
  [][\A i \in Ids :
       LET d == dirs[i]["final"]
       IN  d # NoDir /\ d.ready /\ dirs'[i]["final"] # d
             => \E c \in Calls : call[c].op = "remove" /\ call[c].id = i]_vars

\* No staging directory is leaked silently: it belongs to a Provision that is still running,
\* or a crash left it, or the error of a failed clean-up was returned to the caller.
StagingIsAccountedFor ==
  \A i \in Ids, n \in Names :
    dirs[i][n] # NoDir =>
      \/ <<i, n>> \in known
      \/ \E c \in Calls : <<i, n>> \in Staging(c)

\* A Remove that reports success has removed the bundle and every staging directory of it.
RemoveIsThorough ==
  [][\A c \in Calls :
       call[c].op = "remove" /\ call'[c].op = "none" /\ call'[c].step = "done"
         => \A n \in Places : dirs'[call[c].id][n] = NoDir]_vars

\* Because the mappings are recorded before extraction, a directory with files of mapped users
\* can always be removed, also by a process that has other mappings or none, except where
\* config.json was caught half written or an interrupted removal took config.json first.
OnlyTornBundlesStick ==
  \A i \in Ids, n \in Places :
    LET d == dirs[i][n]
    IN  d # NoDir /\ Stuck(d) => d.config = "torn" \/ (d.cut /\ d.config = "none")

\* userns.go: interrupted staging directories remain removable even if runtime-config
\* generation never finishes.
InterruptedRemainsRemovable ==
  \A i \in Ids, n \in Places :
    dirs[i][n] # NoDir /\ (\A c \in Calls : ~(Busy(c) /\ call[c].id = i)) => ~Stuck(dirs[i][n])
=============================================================================
