---------------------- MODULE BundleProvisionerProofs ----------------------
(***************************************************************************)
(* What the bundle provisioner guarantees for any hosts, bundles, callers, *)
(* staging names and troubles: every property the run bundle checks.       *)
(* First what currentUserNamespace promises, for all files, IDs and        *)
(* widths; then the namespace of a provisioner, which rests on that; then  *)
(* the invariant BundleInv, which says what a staging directory holds at   *)
(* each step of its Provision and keeps calls on one bundle apart; that    *)
(* each action keeps it; and what follows from it.                         *)
(***************************************************************************)
EXTENDS BundleProvisioner, TLAPS

----------------------------------------------------------------------------
(* The mappings of a user namespace: one to one, within the width, and reaching no host ID *)
(* that is not the caller's. *)

\* subordinateRange returns at the first entry of the caller: there is one at most.
LEMMA FoundIsUnique ==
  ASSUME NEW file \in Seq(FileEntry), NEW j \in Found(file), NEW k \in Found(file)
  PROVE  j = k
  BY DEF Found

\* What the one mapping of an accepted file looks like.
LEMMA FoundIsProper ==
  ASSUME NEW file \in Seq(FileEntry), NEW own \in IDs, Accepted(file, own), NEW k \in Found(file)
  PROVE  /\ file[k].start \in Int /\ file[k].count \in Int /\ MaxID \in Int
         /\ 1 <= file[k].start /\ 1 <= file[k].count
         /\ file[k].start + file[k].count <= MaxID
         /\ own < file[k].start \/ file[k].start + file[k].count <= own
  <1>1. file[k] \in FileEntry
    BY DEF Found
  <1>2. Proper(file[k], own)
    BY DEF Accepted
  <1>. QED
    BY <1>1, <1>2, IDAssumption DEF Proper, FileEntry, IDs

\* The host IDs of a container ID, one mapping at a time.
LEMMA HostIDIs ==
  ASSUME NEW file \in Seq(FileEntry), NEW own \in IDs, NEW a \in IDs,
         NEW x \in HostIDs(a, Maps(file, own))
  PROVE  \/ a = 0 /\ x = own
         \/ \E k \in Found(file) :
              1 <= a /\ a < 1 + file[k].count /\ x = file[k].start + (a - 1)
  <1>1. PICK m \in Maps(file, own) : InMapping(a, m) /\ x = m.host + (a - m.container)
    BY DEF HostIDs
  <1>2. CASE m = [container |-> 0, host |-> own, size |-> 1]
    BY <1>1, <1>2 DEF InMapping, IDs
  <1>3. CASE \E k \in Found(file) :
               m = [container |-> 1, host |-> file[k].start, size |-> file[k].count]
    BY <1>1, <1>3 DEF InMapping
  <1>. QED
    BY <1>2, <1>3 DEF Maps

\* No two container users are one host user, no host ID overflows, and neither the caller's own
\* nor root's ID is given to a container user other than container root.
THEOREM AcceptedMapsAreOneToOne ==
  ASSUME NEW file \in Seq(FileEntry), NEW own \in IDs, Accepted(file, own)
  PROVE  OneToOne(Maps(file, own), own)
  <1>. SUFFICES ASSUME NEW a \in IDs, NEW b \in IDs,
                       NEW x \in HostIDs(a, Maps(file, own)),
                       NEW y \in HostIDs(b, Maps(file, own))
                PROVE  /\ x \in IDs
                       /\ x = y => a = b
                       /\ x \in {0, own} => a = 0
    BY DEF OneToOne
  <1>1. /\ a \in Int /\ b \in Int /\ own \in Int /\ 0 <= a /\ 0 <= b /\ 0 <= own
        /\ own <= MaxID /\ MaxID \in Int
    BY IDAssumption DEF IDs
  <1>2. \/ a = 0 /\ x = own
        \/ \E k \in Found(file) : 1 <= a /\ a < 1 + file[k].count /\ x = file[k].start + (a - 1)
    BY HostIDIs
  <1>3. \/ b = 0 /\ y = own
        \/ \E k \in Found(file) : 1 <= b /\ b < 1 + file[k].count /\ y = file[k].start + (b - 1)
    BY HostIDIs
  <1>4. CASE Found(file) = {}
    BY <1>1, <1>2, <1>3, <1>4 DEF IDs
  <1>5. CASE Found(file) # {}
    <2>1. PICK k \in Found(file) : \A j \in Found(file) : j = k
      BY <1>5, FoundIsUnique
    <2>2. /\ file[k].start \in Int /\ file[k].count \in Int
          /\ 1 <= file[k].start /\ 1 <= file[k].count
          /\ file[k].start + file[k].count <= MaxID
          /\ own < file[k].start \/ file[k].start + file[k].count <= own
      BY FoundIsProper
    <2>3. \/ a = 0 /\ x = own
          \/ 1 <= a /\ a < 1 + file[k].count /\ x = file[k].start + (a - 1)
      BY <1>2, <2>1
    <2>4. \/ b = 0 /\ y = own
          \/ 1 <= b /\ b < 1 + file[k].count /\ y = file[k].start + (b - 1)
      BY <1>3, <2>1
    <2>5. x \in IDs
      BY <1>1, <2>2, <2>3 DEF IDs
    <2>6. x = y => a = b
      BY <1>1, <2>2, <2>3, <2>4
    <2>7. x \in {0, own} => a = 0
      BY <1>1, <2>2, <2>3
    <2>. QED
      BY <2>5, <2>6, <2>7
  <1>. QED
    BY <1>4, <1>5

----------------------------------------------------------------------------
(* The namespace a provisioner works in *)

\* New accepts only hosts whose two files give mappings that are one to one.
LEMMA NamespacesAreSound ==
  ASSUME NEW n \in Namespaces
  PROVE  n \in SoundNamespaces
  <1>1. PICK h \in Hosts : Usable(h) /\ n = Namespace(h)
    BY DEF Namespaces
  <1>2. h \in Host
    BY BundleAssumption
  <1>3. OneToOne(Maps(h.subuid, h.uid), h.uid)
    BY <1>1, <1>2, AcceptedMapsAreOneToOne DEF Usable, Host
  <1>4. OneToOne(Maps(h.subgid, h.gid), h.gid)
    BY <1>1, <1>2, AcceptedMapsAreOneToOne DEF Usable, Host
  <1>. QED
    BY <1>1, <1>3, <1>4 DEF Namespace, SoundNamespaces

\* In every behaviour, across restarts on a host that has been reconfigured, the provisioner
\* works in a namespace that is one to one and within what the caller was granted.
THEOREM ProvisionerNamespaceIsSound == Spec => []NamespaceIsSound
  <1>1. Init => NamespaceIsSound
    BY NamespacesAreSound DEF Init, NamespaceIsSound
  <1>2. NamespaceIsSound /\ [Next]_vars => NamespaceIsSound'
    <2>. SUFFICES ASSUME NamespaceIsSound, [Next]_vars
                  PROVE  NamespaceIsSound'
      OBVIOUS
    <2>1. CASE Crash
      BY <2>1, NamespacesAreSound DEF Crash, NamespaceIsSound
    <2>2. CASE UNCHANGED ns
      BY <2>2 DEF NamespaceIsSound
    <2>. QED
      BY <2>1, <2>2 DEF Next, vars
  <1>. QED
    BY <1>1, <1>2, PTL DEF Spec
-----------------------------------------------------------------------------
(* The inductive invariant *)

ProvisionSteps == Staged \cup {"undo", "own", "namespace", "failed"}
RemoveSteps == {"list", "own", "namespace", "failed"}

\* A call in progress is where its operation can be.
StepsMatch ==
  \A c \in Calls :
    /\ call[c].op = "none" => call[c].step \in {"idle", "done"}
    /\ call[c].op = "provision" => call[c].step \in ProvisionSteps /\ call[c].name \in Names
    /\ call[c].op = "remove" => call[c].step \in RemoveSteps

\* Two calls on one bundle are two Provisions with a staging directory each.
CallsApart ==
  \A c, d \in Calls :
    c # d /\ Busy(c) /\ Busy(d) /\ call[c].id = call[d].id
      => call[c].op = "provision" /\ call[d].op = "provision" /\ call[c].name # call[d].name

\* What a staging directory d holds when its Provision is at step s.
Fits(d, s) ==
  /\ s \in Staged /\ d.rootfs = "foreign" => Multiple(ns)
  /\ s \in Staged \ {"rename"} => ~d.ready
  /\ s = "extract" /\ Multiple(ns) => d.config = "written" /\ d.maps = ns
  /\ s \in {"extracting", "config", "spec", "writing", "rename"} => d.rootfs # "none"
  /\ s = "extracting" /\ d.rootfs = "foreign" => d.config = "written" /\ d.maps = ns
  /\ s \in {"config", "spec", "writing", "rename"} => d.whole
  /\ s \in {"writing", "rename"} => MapsUser(ns, d.user)
  /\ s = "rename" => d.ready /\ d.config = "written" /\ d.maps = ns

StagingFits ==
  \A c \in Calls : call[c].op = "provision" => Dir(c) # NoDir /\ Fits(Dir(c), call[c].step)

\* Files of mapped users come with the mappings to remove them, but for the two exceptions.
RemainsAreKnown(d) ==
  d # NoDir =>
    /\ d.rootfs = "foreign" => \/ d.config = "torn"
                               \/ d.config = "written" /\ Multiple(d.maps)
                               \/ d.config = "none" /\ d.cut
    /\ d.ready => d.config = "written"

\* Remove comes to the bundle only when its staging directories are gone.
StagingFirst ==
  \A c \in Calls :
    call[c].op = "remove" /\ call[c].name = "final" /\ call[c].step # "list"
      => \A n \in Names : dirs[call[c].id][n] = NoDir

BundleInv ==
  /\ TypeOK
  /\ StepsMatch
  /\ CallsApart
  /\ StagingFits
  /\ \A i \in Ids, n \in Places : RemainsAreKnown(dirs[i][n])
  /\ StagingFirst
  /\ BundleIsComplete
  /\ StagingIsAccountedFor
-----------------------------------------------------------------------------
(* Steps that change one directory of the caller's, or none *)

\* The record of a directory is never mistaken for its absence.
LEMMA ContentIsThere ==
  /\ \A u \in Users : EmptyDir(u) \in Content
  /\ NoDir \notin Content
  BY NoDirAssumption DEF EmptyDir, Content

\* A call goes from one step to the next and leaves x in the directory it works on.
LEMMA OwnDirChanges ==
  ASSUME BundleInv, UNCHANGED <<known, ns>>,
         NEW c \in Calls, Busy(c), Dir(c) # NoDir,
         NEW x \in Content, SetDir(c, x), RemainsAreKnown(x),
         NEW s \in Steps, Goto(c, s),
         call[c].op = "provision" => s \in ProvisionSteps /\ Fits(x, s),
         call[c].op = "remove" => s = call[c].step /\ x.cut
  PROVE  BundleInv'
  <1>. DEFINE i == call[c].id  n == call[c].name
  <1>1. /\ i \in Ids /\ n \in Places /\ call[c] \in Call /\ x # NoDir
        /\ dirs \in [Ids -> [Places -> Content \cup {NoDir}]] /\ call \in [Calls -> Call]
    BY ContentIsThere DEF BundleInv, TypeOK, Call
  <1>2. /\ call' = [call EXCEPT ![c].step = s] /\ ns' = ns /\ known' = known
        /\ dirs' = [dirs EXCEPT ![i][n] = x]
    BY DEF Goto, SetDir
  <1>3. /\ dirs'[i][n] = x
        /\ \A j \in Ids, m \in Places : j # i \/ m # n => dirs'[j][m] = dirs[j][m]
    BY <1>1, <1>2
  <1>4. /\ call'[c].op = call[c].op /\ call'[c].id = i /\ call'[c].name = n /\ call'[c].step = s
        /\ \A d \in Calls : d # c => call'[d] = call[d]
    BY <1>1, <1>2 DEF Call
  <1>5. TypeOK'
    <2>1. dirs' \in [Ids -> [Places -> Content \cup {NoDir}]]
      BY <1>1, <1>2
    <2>2. call' \in [Calls -> Call]
      BY <1>1, <1>2 DEF Call
    <2>. QED
      BY <1>2, <2>1, <2>2 DEF BundleInv, TypeOK
  <1>6. StepsMatch'
    BY <1>4 DEF BundleInv, StepsMatch, Busy
  <1>7. CallsApart'
    BY <1>4 DEF BundleInv, CallsApart, Busy
  <1>8. StagingFits'
    <2>. SUFFICES ASSUME NEW d \in Calls, call'[d].op = "provision"
                  PROVE  (Dir(d) # NoDir /\ Fits(Dir(d), call[d].step))'
      BY DEF StagingFits
    <2>1. CASE d = c
      <3>1. Dir(d)' = x
        BY <1>3, <1>4, <2>1 DEF Dir
      <3>2. Fits(x, s)'
        BY <1>2, <1>4, <2>1 DEF Fits
      <3>. QED
        BY <1>1, <1>4, <2>1, <3>1, <3>2 DEF Fits
    <2>2. CASE d # c
      <3>1. call[d] \in Call /\ call'[d] = call[d] /\ call[d].id \in Ids /\ call[d].name \in Places
        BY <1>1, <1>4, <2>2 DEF Call
      <3>2. call[d].id # i \/ call[d].name # n
        BY <2>2, <3>1 DEF BundleInv, CallsApart, Busy
      <3>3. Dir(d)' = Dir(d)
        BY <1>3, <3>1, <3>2 DEF Dir
      <3>. QED
        BY <1>2, <3>1, <3>3 DEF BundleInv, StagingFits, Fits
    <2>. QED
      BY <2>1, <2>2
  <1>9. (\A j \in Ids, m \in Places : RemainsAreKnown(dirs[j][m]))'
    <2>. SUFFICES ASSUME NEW j \in Ids, NEW m \in Places
                  PROVE  RemainsAreKnown(dirs[j][m])'
      OBVIOUS
    <2>1. CASE j = i /\ m = n
      BY <1>3, <2>1 DEF RemainsAreKnown
    <2>2. CASE j # i \/ m # n
      BY <1>3, <2>2 DEF BundleInv, RemainsAreKnown
    <2>. QED
      BY <2>1, <2>2
  <1>10. StagingFirst'
    <2>. SUFFICES ASSUME NEW d \in Calls, NEW m \in Names,
                         call'[d].op = "remove", call'[d].name = "final", call'[d].step # "list"
                  PROVE  dirs'[call'[d].id][m] = NoDir
      BY DEF StagingFirst
    <2>1. /\ call'[d].op = call[d].op /\ call'[d].id = call[d].id /\ call'[d].name = call[d].name
          /\ call[d].step # "list" /\ call[d].id \in Ids
      BY <1>1, <1>4 DEF Call
    <2>2. dirs[call[d].id][m] = NoDir
      BY <2>1 DEF BundleInv, StagingFirst
    <2>3. call[d].id # i \/ m # n
      BY <2>2 DEF Dir
    <2>. QED
      BY <1>3, <2>1, <2>2, <2>3 DEF Places
  <1>11. BundleIsComplete'
    <2>. SUFFICES ASSUME NEW j \in Ids, dirs'[j]["final"] # NoDir, ~dirs'[j]["final"].cut
                  PROVE  LET d == dirs'[j]["final"]
                         IN  /\ d.rootfs # "none" /\ d.whole /\ d.ready
                             /\ d.config = "written" /\ MapsUser(d.maps, d.user)
      BY DEF BundleIsComplete
    <2>1. j # i \/ "final" # n
      <3>1. CASE call[c].op = "provision"
        BY <3>1, BundleAssumption DEF BundleInv, StepsMatch
      <3>2. CASE call[c].op = "remove"
        BY <1>3, <3>2
      <3>. QED
        BY <1>1, <3>1, <3>2 DEF Busy, Call
    <2>2. dirs'[j]["final"] = dirs[j]["final"]
      BY <1>3, <2>1 DEF Places
    <2>. QED
      BY <2>2 DEF BundleInv, BundleIsComplete
  <1>12. StagingIsAccountedFor'
    <2>. SUFFICES ASSUME NEW j \in Ids, NEW m \in Names, dirs'[j][m] # NoDir
                  PROVE  \/ <<j, m>> \in known'
                         \/ \E d \in Calls : <<j, m>> \in Staging(d)'
      BY DEF StagingIsAccountedFor
    <2>1. dirs[j][m] # NoDir
      BY <1>3 DEF Dir, Places
    <2>2. \A d \in Calls : Staging(d)' = Staging(d)
      BY <1>4 DEF Staging
    <2>. QED
      BY <1>2, <2>1, <2>2 DEF BundleInv, StagingIsAccountedFor
  <1>. QED
    BY <1>5, <1>6, <1>7, <1>8, <1>9, <1>10, <1>11, <1>12 DEF BundleInv

\* A call goes from one step to the next and changes no directory.
LEMMA OnlyStepChanges ==
  ASSUME BundleInv, UNCHANGED <<dirs, known, ns>>,
         NEW c \in Calls, Busy(c),
         NEW s \in Steps, Goto(c, s),
         call[c].op = "provision" => s \in ProvisionSteps /\ Fits(Dir(c), s),
         call[c].op = "remove" => s \in RemoveSteps /\ call[c].step # "list"
  PROVE  BundleInv'
  <1>1. call[c] \in Call /\ call \in [Calls -> Call] /\ call' = [call EXCEPT ![c].step = s]
    BY DEF BundleInv, TypeOK, Goto
  <1>2. /\ call'[c].op = call[c].op /\ call'[c].id = call[c].id /\ call'[c].name = call[c].name
        /\ call'[c].step = s
        /\ \A d \in Calls : d # c => call'[d] = call[d]
    BY <1>1 DEF Call
  <1>3. TypeOK'
    <2>1. call' \in [Calls -> Call]
      BY <1>1 DEF Call
    <2>. QED
      BY <2>1 DEF BundleInv, TypeOK
  <1>4. StepsMatch'
    BY <1>2 DEF BundleInv, StepsMatch, Busy
  <1>5. CallsApart'
    BY <1>2 DEF BundleInv, CallsApart, Busy
  <1>6. StagingFits'
    <2>. SUFFICES ASSUME NEW d \in Calls, call'[d].op = "provision"
                  PROVE  (Dir(d) # NoDir /\ Fits(Dir(d), call[d].step))'
      BY DEF StagingFits
    <2>1. Dir(d)' = Dir(d) /\ Dir(d) # NoDir
      BY <1>2 DEF BundleInv, StagingFits, Dir
    <2>2. CASE d = c
      BY <1>2, <2>1, <2>2 DEF Fits
    <2>3. CASE d # c
      BY <1>2, <2>1, <2>3 DEF BundleInv, StagingFits, Fits
    <2>. QED
      BY <2>2, <2>3
  <1>7. (\A j \in Ids, m \in Places : RemainsAreKnown(dirs[j][m]))'
    BY DEF BundleInv, RemainsAreKnown
  <1>8. StagingFirst'
    BY <1>2 DEF BundleInv, StagingFirst
  <1>9. BundleIsComplete'
    BY DEF BundleInv, BundleIsComplete
  <1>10. StagingIsAccountedFor'
    <2>1. \A d \in Calls : Staging(d)' = Staging(d)
      BY <1>2 DEF Staging
    <2>. QED
      BY <2>1 DEF BundleInv, StagingIsAccountedFor
  <1>. QED
    BY <1>3, <1>4, <1>5, <1>6, <1>7, <1>8, <1>9, <1>10 DEF BundleInv
-----------------------------------------------------------------------------
(* The steps that begin, end or turn a call *)

LEMMA BeginProvisionKeeps ==
  ASSUME BundleInv, UNCHANGED ns,
         NEW c \in Calls, NEW i \in Ids, NEW n \in Names, NEW u \in Users,
         BeginProvision(c, i, n, u)
  PROVE  BundleInv'
  <1>. DEFINE k == [step |-> IF Multiple(ns) THEN "stub" ELSE "extract", op |-> "provision",
                    id |-> i, name |-> n]
              x == EmptyDir(u)
  <1>1. /\ n \in Places /\ n # "final" /\ k \in Call /\ x \in Content /\ x # NoDir
        /\ dirs \in [Ids -> [Places -> Content \cup {NoDir}]] /\ call \in [Calls -> Call]
    BY ContentIsThere, BundleAssumption DEF BundleInv, TypeOK, Call, Steps, Places
  <1>2. /\ dirs[i][n] = NoDir /\ ~Busy(c) /\ ns' = ns /\ known' = known
        /\ \A d \in Calls : ~(call[d].op = "remove" /\ call[d].id = i)
        /\ dirs' = [dirs EXCEPT ![i][n] = x]
        /\ call' = [call EXCEPT ![c] = k]
    BY DEF BeginProvision
  <1>3. /\ dirs'[i][n] = x
        /\ \A j \in Ids, m \in Places : j # i \/ m # n => dirs'[j][m] = dirs[j][m]
    BY <1>1, <1>2
  <1>4. call'[c] = k /\ \A d \in Calls : d # c => call'[d] = call[d]
    BY <1>1, <1>2
  <1>5. \A d \in Calls : call[d].op = "provision" /\ call[d].id = i => call[d].name # n
    BY <1>2 DEF BundleInv, StagingFits, Dir
  <1>6. TypeOK'
    BY <1>1, <1>2 DEF BundleInv, TypeOK
  <1>7. StepsMatch'
    BY <1>4 DEF BundleInv, StepsMatch, ProvisionSteps, Staged
  <1>8. CallsApart'
    <2>. SUFFICES ASSUME NEW d \in Calls, d # c, Busy(d), call[d].id = i
                  PROVE  call[d].op = "provision" /\ call[d].name # n
      BY <1>4 DEF BundleInv, CallsApart, Busy
    <2>. QED
      BY <1>1, <1>2, <1>5 DEF Busy, Call
  <1>9. StagingFits'
    <2>. SUFFICES ASSUME NEW d \in Calls, call'[d].op = "provision"
                  PROVE  (Dir(d) # NoDir /\ Fits(Dir(d), call[d].step))'
      BY DEF StagingFits
    <2>1. CASE d = c
      <3>1. Dir(d)' = x /\ call'[d].step = k.step
        BY <1>3, <1>4, <2>1 DEF Dir
      <3>. QED
        BY <1>1, <1>2, <3>1 DEF Fits, EmptyDir, Staged
    <2>2. CASE d # c
      <3>1. call'[d] = call[d] /\ call[d].id \in Ids /\ call[d].name \in Places
        BY <1>1, <1>4, <2>2 DEF Call
      <3>2. Dir(d)' = Dir(d)
        BY <1>3, <1>5, <3>1 DEF Dir
      <3>. QED
        BY <1>2, <3>1, <3>2 DEF BundleInv, StagingFits, Fits
    <2>. QED
      BY <2>1, <2>2
  <1>10. (\A j \in Ids, m \in Places : RemainsAreKnown(dirs[j][m]))'
    <2>. SUFFICES ASSUME NEW j \in Ids, NEW m \in Places
                  PROVE  RemainsAreKnown(dirs[j][m])'
      OBVIOUS
    <2>1. CASE j = i /\ m = n
      BY <1>3, <2>1 DEF RemainsAreKnown, EmptyDir
    <2>2. CASE j # i \/ m # n
      BY <1>3, <2>2 DEF BundleInv, RemainsAreKnown
    <2>. QED
      BY <2>1, <2>2
  <1>11. StagingFirst'
    <2>. SUFFICES ASSUME NEW d \in Calls, NEW m \in Names,
                         call'[d].op = "remove", call'[d].name = "final", call'[d].step # "list"
                  PROVE  dirs'[call'[d].id][m] = NoDir
      BY DEF StagingFirst
    <2>1. call'[d] = call[d] /\ call[d].id \in Ids /\ call[d].id # i
      BY <1>1, <1>2, <1>4 DEF Call
    <2>. QED
      BY <1>3, <2>1 DEF BundleInv, StagingFirst, Places
  <1>12. BundleIsComplete'
    BY <1>1, <1>3 DEF BundleInv, BundleIsComplete, Places
  <1>13. StagingIsAccountedFor'
    <2>. SUFFICES ASSUME NEW j \in Ids, NEW m \in Names, dirs'[j][m] # NoDir
                  PROVE  \/ <<j, m>> \in known'
                         \/ \E d \in Calls : <<j, m>> \in Staging(d)'
      BY DEF StagingIsAccountedFor
    <2>1. CASE j = i /\ m = n
      BY <1>4, <2>1 DEF Staging
    <2>2. CASE j # i \/ m # n
      <3>1. dirs[j][m] # NoDir
        BY <1>3, <2>2 DEF Places
      <3>2. \A d \in Calls : <<j, m>> \in Staging(d) => <<j, m>> \in Staging(d)'
        BY <1>2, <1>4 DEF Staging, Busy
      <3>. QED
        BY <1>2, <3>1, <3>2 DEF BundleInv, StagingIsAccountedFor
    <2>. QED
      BY <2>1, <2>2
  <1>. QED
    BY <1>6, <1>7, <1>8, <1>9, <1>10, <1>11, <1>12, <1>13 DEF BundleInv

\* What Return does to the calls.
LEMMA ReturnIs ==
  ASSUME BundleInv, NEW c \in Calls, NEW how \in {"idle", "done"}, Return(c, how)
  PROVE  /\ call' \in [Calls -> Call] /\ ~Busy(c)'
         /\ call'[c].op = "none" /\ call'[c].step = how
         /\ \A d \in Calls : d # c => call'[d] = call[d]
         /\ StepsMatch' /\ CallsApart'
  <1>1. /\ call \in [Calls -> Call] /\ how \in Steps
        /\ call' = [call EXCEPT ![c].op = "none", ![c].step = how]
    BY DEF BundleInv, TypeOK, Return, Steps
  <1>2. call' \in [Calls -> Call]
    BY <1>1 DEF Call
  <1>3. call'[c].op = "none" /\ call'[c].step = how
    BY <1>1 DEF Call
  <1>4. \A d \in Calls : d # c => call'[d] = call[d]
    BY <1>1
  <1>. QED
    BY <1>2, <1>3, <1>4 DEF BundleInv, StepsMatch, CallsApart, Busy

LEMMA CommitKeeps ==
  ASSUME BundleInv, UNCHANGED ns, NEW c \in Calls, Commit(c)
  PROVE  BundleInv'
  <1>. DEFINE i == call[c].id  n == call[c].name  x == Dir(c)
  <1>1. /\ call[c] \in Call /\ call \in [Calls -> Call] /\ i \in Ids
        /\ dirs \in [Ids -> [Places -> Content \cup {NoDir}]]
    BY DEF BundleInv, TypeOK, Call
  <1>2. call[c].op = "provision" /\ n \in Names /\ n \in Places /\ n # "final"
    BY <1>1, BundleAssumption DEF BundleInv, StepsMatch, Commit, RemoveSteps, Call, Places, TypeOK
  <1>3. x # NoDir /\ x \in Content /\ Fits(x, "rename") /\ RemainsAreKnown(x)
    BY <1>1, <1>2 DEF BundleInv, StagingFits, Commit, Dir
  <1>4. /\ dirs' = [dirs EXCEPT ![i]["final"] = x, ![i][n] = NoDir]
        /\ Return(c, "done") /\ known' = known /\ ns' = ns
    BY DEF Commit
  <1>5. /\ dirs'[i]["final"] = x /\ dirs'[i][n] = NoDir
        /\ \A m \in Places : m # n /\ m # "final" => dirs'[i][m] = dirs[i][m]
        /\ \A j \in Ids : j # i => dirs'[j] = dirs[j]
        /\ dirs' \in [Ids -> [Places -> Content \cup {NoDir}]]
    BY <1>1, <1>2, <1>3, <1>4 DEF Places
  <1>6. /\ call' \in [Calls -> Call] /\ call'[c].op = "none"
        /\ \A d \in Calls : d # c => call'[d] = call[d]
        /\ StepsMatch' /\ CallsApart'
    BY <1>4, ReturnIs
  <1>7. \A d \in Calls : d # c /\ Busy(d) /\ call[d].id = i
          => call[d].op = "provision" /\ call[d].name # n
    BY <1>2 DEF BundleInv, CallsApart, Busy
  <1>8. TypeOK'
    BY <1>4, <1>5, <1>6 DEF BundleInv, TypeOK
  <1>9. StagingFits'
    <2>. SUFFICES ASSUME NEW d \in Calls, call'[d].op = "provision"
                  PROVE  (Dir(d) # NoDir /\ Fits(Dir(d), call[d].step))'
      BY DEF StagingFits
    <2>1. d # c /\ call'[d] = call[d] /\ call[d].id \in Ids
      BY <1>1, <1>6 DEF Call
    <2>2. call[d].name \in Names /\ call[d].name \in Places /\ call[d].name # "final"
      BY <2>1, BundleAssumption DEF BundleInv, StepsMatch, Places
    <2>3. Dir(d)' = Dir(d)
      BY <1>5, <1>7, <2>1, <2>2 DEF Dir, Busy
    <2>. QED
      BY <1>4, <2>1, <2>3 DEF BundleInv, StagingFits, Fits
  <1>10. (\A j \in Ids, m \in Places : RemainsAreKnown(dirs[j][m]))'
    <2>. SUFFICES ASSUME NEW j \in Ids, NEW m \in Places
                  PROVE  RemainsAreKnown(dirs[j][m])'
      OBVIOUS
    <2>1. CASE j = i /\ (m = n \/ m = "final")
      BY <1>3, <1>5, <2>1 DEF RemainsAreKnown
    <2>2. CASE ~(j = i /\ (m = n \/ m = "final"))
      BY <1>5, <2>2 DEF BundleInv, RemainsAreKnown
    <2>. QED
      BY <2>1, <2>2
  <1>11. StagingFirst'
    <2>. SUFFICES ASSUME NEW d \in Calls, NEW m \in Names,
                         call'[d].op = "remove", call'[d].name = "final", call'[d].step # "list"
                  PROVE  dirs'[call'[d].id][m] = NoDir
      BY DEF StagingFirst
    <2>1. d # c /\ call'[d] = call[d] /\ call[d].id \in Ids
      BY <1>1, <1>6 DEF Call
    <2>2. call[d].id # i
      BY <1>7, <2>1 DEF Busy
    <2>. QED
      BY <1>5, <2>1, <2>2 DEF BundleInv, StagingFirst
  <1>12. BundleIsComplete'
    <2>1. x.rootfs # "none" /\ x.whole /\ x.ready /\ x.config = "written" /\ MapsUser(x.maps, x.user)
      BY <1>3 DEF Fits
    <2>. QED
      BY <1>5, <2>1 DEF BundleInv, BundleIsComplete
  <1>13. StagingIsAccountedFor'
    <2>. SUFFICES ASSUME NEW j \in Ids, NEW m \in Names, dirs'[j][m] # NoDir
                  PROVE  \/ <<j, m>> \in known'
                         \/ \E d \in Calls : <<j, m>> \in Staging(d)'
      BY DEF StagingIsAccountedFor
    <2>1. m # "final" /\ m \in Places
      BY BundleAssumption DEF Places
    <2>2. dirs[j][m] # NoDir /\ (j # i \/ m # n)
      BY <1>5, <2>1
    <2>3. \A d \in Calls : <<j, m>> \in Staging(d) => <<j, m>> \in Staging(d)'
      BY <1>6, <2>2 DEF Staging
    <2>. QED
      BY <1>4, <2>2, <2>3 DEF BundleInv, StagingIsAccountedFor
  <1>. QED
    BY <1>6, <1>8, <1>9, <1>10, <1>11, <1>12, <1>13 DEF BundleInv

LEMMA RemovedKeeps ==
  ASSUME BundleInv, UNCHANGED ns, NEW c \in Calls, Removed(c)
  PROVE  BundleInv'
  <1>. DEFINE i == call[c].id  n == call[c].name
  <1>1. /\ call[c] \in Call /\ call \in [Calls -> Call] /\ i \in Ids /\ n \in Places
        /\ dirs \in [Ids -> [Places -> Content \cup {NoDir}]]
    BY DEF BundleInv, TypeOK, Call
  <1>2. Busy(c) /\ call[c].step # "list"
    BY <1>1 DEF BundleInv, StepsMatch, Removed, Busy, Call
  <1>3. /\ dirs' = [dirs EXCEPT ![i][n] = NoDir] /\ known' = known \ {<<i, n>>} /\ ns' = ns
    BY DEF Removed, SetDir
  <1>4. /\ dirs'[i][n] = NoDir
        /\ \A j \in Ids, m \in Places : j # i \/ m # n => dirs'[j][m] = dirs[j][m]
        /\ dirs' \in [Ids -> [Places -> Content \cup {NoDir}]]
    BY <1>1, <1>3
  <1>5. \/ Return(c, "done")
        \/ call[c].op = "remove" /\ Goto(c, "list")
    BY <1>1, <1>2 DEF Removed, Busy, Call
  <1>6. /\ call' \in [Calls -> Call]
        /\ call'[c].op # "none" => call'[c].op = "remove" /\ call'[c].step = "list"
        /\ \A d \in Calls : d # c => call'[d] = call[d]
        /\ StepsMatch' /\ CallsApart'
    <2>1. CASE Return(c, "done")
      <3>1. /\ call' \in [Calls -> Call] /\ call'[c].op = "none"
            /\ \A d \in Calls : d # c => call'[d] = call[d]
            /\ StepsMatch' /\ CallsApart'
        BY <2>1, ReturnIs
      <3>. QED
        BY <3>1
    <2>2. CASE call[c].op = "remove" /\ Goto(c, "list")
      <3>1. call' = [call EXCEPT ![c].step = "list"]
        BY <2>2 DEF Goto
      <3>2. /\ call' \in [Calls -> Call]
            /\ call'[c].op = "remove" /\ call'[c].step = "list" /\ call'[c].id = i
            /\ \A d \in Calls : d # c => call'[d] = call[d]
        BY <1>1, <2>2, <3>1 DEF Call, Steps
      <3>. QED
        BY <2>2, <3>2 DEF BundleInv, StepsMatch, CallsApart, Busy, RemoveSteps
    <2>. QED
      BY <1>5, <2>1, <2>2
  <1>7. TypeOK'
    BY <1>3, <1>4, <1>6 DEF BundleInv, TypeOK
  <1>8. StagingFits'
    <2>. SUFFICES ASSUME NEW d \in Calls, call'[d].op = "provision"
                  PROVE  (Dir(d) # NoDir /\ Fits(Dir(d), call[d].step))'
      BY DEF StagingFits
    <2>1. d # c /\ call'[d] = call[d] /\ call[d].id \in Ids /\ call[d].name \in Places
      BY <1>1, <1>6 DEF Call
    <2>2. call[d].id # i \/ call[d].name # n
      BY <1>2, <2>1 DEF BundleInv, CallsApart, Busy
    <2>3. Dir(d)' = Dir(d)
      BY <1>4, <2>1, <2>2 DEF Dir
    <2>. QED
      BY <1>3, <2>1, <2>3 DEF BundleInv, StagingFits, Fits
  <1>9. (\A j \in Ids, m \in Places : RemainsAreKnown(dirs[j][m]))'
    BY <1>4 DEF BundleInv, RemainsAreKnown
  <1>10. StagingFirst'
    <2>. SUFFICES ASSUME NEW d \in Calls, NEW m \in Names,
                         call'[d].op = "remove", call'[d].name = "final", call'[d].step # "list"
                  PROVE  dirs'[call'[d].id][m] = NoDir
      BY DEF StagingFirst
    <2>1. d # c /\ call'[d] = call[d] /\ call[d].id \in Ids /\ m \in Places
      BY <1>1, <1>6 DEF Call, Places
    <2>2. dirs[call[d].id][m] = NoDir
      BY <2>1 DEF BundleInv, StagingFirst
    <2>. QED
      BY <1>4, <2>1, <2>2
  <1>11. BundleIsComplete'
    BY <1>4 DEF BundleInv, BundleIsComplete, Places
  <1>12. StagingIsAccountedFor'
    <2>. SUFFICES ASSUME NEW j \in Ids, NEW m \in Names, dirs'[j][m] # NoDir
                  PROVE  \/ <<j, m>> \in known'
                         \/ \E d \in Calls : <<j, m>> \in Staging(d)'
      BY DEF StagingIsAccountedFor
    <2>1. dirs[j][m] # NoDir /\ (j # i \/ m # n)
      BY <1>4 DEF Places
    <2>2. \A d \in Calls : <<j, m>> \in Staging(d) => <<j, m>> \in Staging(d)'
      BY <1>6, <2>1 DEF Staging
    <2>. QED
      BY <1>3, <2>1, <2>2 DEF BundleInv, StagingIsAccountedFor
  <1>. QED
    BY <1>6, <1>7, <1>8, <1>9, <1>10, <1>11, <1>12 DEF BundleInv

LEMMA ReturnErrorKeeps ==
  ASSUME BundleInv, UNCHANGED ns, NEW c \in Calls, ReturnError(c)
  PROVE  BundleInv'
  <1>1. /\ call \in [Calls -> Call] /\ call[c] \in Call
        /\ dirs' = dirs /\ ns' = ns /\ known' = known \cup Staging(c) /\ Return(c, "idle")
    BY DEF BundleInv, TypeOK, ReturnError
  <1>2. /\ call' \in [Calls -> Call] /\ call'[c].op = "none"
        /\ \A d \in Calls : d # c => call'[d] = call[d]
        /\ StepsMatch' /\ CallsApart'
    BY <1>1, ReturnIs
  <1>3. TypeOK'
    <2>1. Staging(c) \subseteq Ids \X Names
      BY <1>1 DEF BundleInv, StepsMatch, Staging, Call
    <2>. QED
      BY <1>1, <1>2, <2>1 DEF BundleInv, TypeOK
  <1>4. StagingFits'
    BY <1>1, <1>2 DEF BundleInv, StagingFits, Fits, Dir
  <1>5. (\A j \in Ids, m \in Places : RemainsAreKnown(dirs[j][m]))'
    BY <1>1 DEF BundleInv, RemainsAreKnown
  <1>6. StagingFirst'
    BY <1>1, <1>2 DEF BundleInv, StagingFirst
  <1>7. BundleIsComplete'
    BY <1>1 DEF BundleInv, BundleIsComplete
  <1>8. StagingIsAccountedFor'
    <2>. SUFFICES ASSUME NEW j \in Ids, NEW m \in Names, dirs'[j][m] # NoDir
                  PROVE  \/ <<j, m>> \in known'
                         \/ \E d \in Calls : <<j, m>> \in Staging(d)'
      BY DEF StagingIsAccountedFor
    <2>1. \/ <<j, m>> \in known
          \/ \E d \in Calls : <<j, m>> \in Staging(d)
      BY <1>1 DEF BundleInv, StagingIsAccountedFor
    <2>2. \A d \in Calls : d # c => Staging(d)' = Staging(d)
      BY <1>2 DEF Staging
    <2>. QED
      BY <1>1, <2>1, <2>2
  <1>. QED
    BY <1>2, <1>3, <1>4, <1>5, <1>6, <1>7, <1>8 DEF BundleInv

LEMMA BeginRemoveKeeps ==
  ASSUME BundleInv, UNCHANGED ns, NEW c \in Calls, NEW i \in Ids, BeginRemove(c, i)
  PROVE  BundleInv'
  <1>. DEFINE k == [step |-> "list", op |-> "remove", id |-> i, name |-> "final"]
  <1>1. /\ call \in [Calls -> Call] /\ call' = [call EXCEPT ![c] = k] /\ k \in Call
        /\ dirs' = dirs /\ ns' = ns /\ known' = known
        /\ ~Busy(c) /\ \A d \in Calls : ~(Busy(d) /\ call[d].id = i)
    BY DEF BundleInv, TypeOK, BeginRemove, Call, Steps, Places
  <1>2. call'[c] = k /\ \A d \in Calls : d # c => call'[d] = call[d]
    BY <1>1
  <1>3. TypeOK'
    BY <1>1 DEF BundleInv, TypeOK
  <1>4. StepsMatch'
    BY <1>2 DEF BundleInv, StepsMatch, RemoveSteps
  <1>5. CallsApart'
    BY <1>1, <1>2 DEF BundleInv, CallsApart, Busy
  <1>6. StagingFits'
    BY <1>1, <1>2 DEF BundleInv, StagingFits, Fits, Dir
  <1>7. (\A j \in Ids, m \in Places : RemainsAreKnown(dirs[j][m]))'
    BY <1>1 DEF BundleInv, RemainsAreKnown
  <1>8. StagingFirst'
    BY <1>1, <1>2 DEF BundleInv, StagingFirst
  <1>9. BundleIsComplete'
    BY <1>1 DEF BundleInv, BundleIsComplete
  <1>10. StagingIsAccountedFor'
    <2>1. \A d \in Calls : Staging(d) \subseteq Staging(d)'
      BY <1>1, <1>2 DEF Staging, Busy
    <2>. QED
      BY <1>1, <2>1 DEF BundleInv, StagingIsAccountedFor
  <1>. QED
    BY <1>3, <1>4, <1>5, <1>6, <1>7, <1>8, <1>9, <1>10 DEF BundleInv

\* Remove turns to its next directory: a staging directory, or at last the bundle.
LEMMA NextDirectoryKeeps ==
  ASSUME BundleInv, UNCHANGED <<dirs, known, ns>>,
         NEW c \in Calls, call[c].step = "list",
         NEW s \in RemoveSteps, NEW n \in Places,
         call' = [call EXCEPT ![c].step = s, ![c].name = n],
         n = "final" => \A m \in Names : dirs[call[c].id][m] = NoDir
  PROVE  BundleInv'
  <1>1. /\ call \in [Calls -> Call] /\ call[c] \in Call /\ call[c].op = "remove" /\ s \in Steps
    BY DEF BundleInv, TypeOK, StepsMatch, ProvisionSteps, Staged, RemoveSteps, Steps, Call
  <1>2. /\ call' \in [Calls -> Call]
        /\ call'[c].op = "remove" /\ call'[c].id = call[c].id
        /\ call'[c].name = n /\ call'[c].step = s
        /\ \A d \in Calls : d # c => call'[d] = call[d]
    BY <1>1 DEF Call
  <1>3. TypeOK'
    BY <1>2 DEF BundleInv, TypeOK
  <1>4. StepsMatch'
    BY <1>2 DEF BundleInv, StepsMatch
  <1>5. CallsApart'
    BY <1>1, <1>2 DEF BundleInv, CallsApart, Busy
  <1>6. StagingFits'
    BY <1>2 DEF BundleInv, StagingFits, Fits, Dir
  <1>7. (\A j \in Ids, m \in Places : RemainsAreKnown(dirs[j][m]))'
    BY DEF BundleInv, RemainsAreKnown
  <1>8. StagingFirst'
    BY <1>2 DEF BundleInv, StagingFirst
  <1>9. BundleIsComplete'
    BY DEF BundleInv, BundleIsComplete
  <1>10. StagingIsAccountedFor'
    <2>1. \A d \in Calls : Staging(d)' = Staging(d)
      BY <1>1, <1>2 DEF Staging
    <2>. QED
      BY <2>1 DEF BundleInv, StagingIsAccountedFor
  <1>. QED
    BY <1>3, <1>4, <1>5, <1>6, <1>7, <1>8, <1>9, <1>10 DEF BundleInv

LEMMA CrashKeeps ==
  ASSUME BundleInv, Crash
  PROVE  BundleInv'
  <1>1. /\ call \in [Calls -> Call] /\ known \subseteq Ids \X Names
        /\ dirs' = dirs /\ ns' \in Namespaces
        /\ known' = known \cup UNION {Staging(c) : c \in Calls}
    BY DEF BundleInv, TypeOK, Crash
  <1>2. \A c \in Calls : call'[c] = [call[c] EXCEPT !.op = "none", !.step = "idle"]
    BY DEF Crash
  <1>3. \A c \in Calls : call'[c].op = "none" /\ call'[c].step = "idle"
    BY <1>1, <1>2 DEF Call
  <1>4. TypeOK'
    <2>1. call' \in [Calls -> Call]
      BY <1>1 DEF Crash, Call, Steps
    <2>2. \A c \in Calls : Staging(c) \subseteq Ids \X Names
      BY <1>1 DEF BundleInv, StepsMatch, Staging, Call
    <2>. QED
      BY <1>1, <2>1, <2>2 DEF BundleInv, TypeOK
  <1>5. StepsMatch' /\ CallsApart' /\ StagingFits' /\ StagingFirst'
    BY <1>3 DEF StepsMatch, CallsApart, StagingFits, StagingFirst, Busy
  <1>6. (\A j \in Ids, m \in Places : RemainsAreKnown(dirs[j][m]))'
    BY <1>1 DEF BundleInv, RemainsAreKnown
  <1>7. BundleIsComplete'
    BY <1>1 DEF BundleInv, BundleIsComplete
  <1>8. StagingIsAccountedFor'
    BY <1>1 DEF BundleInv, StagingIsAccountedFor
  <1>. QED
    BY <1>4, <1>5, <1>6, <1>7, <1>8 DEF BundleInv
-----------------------------------------------------------------------------
(* Every action keeps the invariant *)

\* A directory in use has contents; changing them gives contents again.
LEMMA DirIsContent ==
  ASSUME BundleInv, NEW c \in Calls
  PROVE  /\ call[c] \in Call /\ Dir(c) \in Content \cup {NoDir} /\ RemainsAreKnown(Dir(c))
         /\ ns \in Namespaces
         /\ call[c].op = "provision" => Dir(c) # NoDir /\ Dir(c) \in Content
                                        /\ Fits(Dir(c), call[c].step)
  BY DEF BundleInv, TypeOK, StagingFits, Dir, Call

\* A call that is at a step of the extraction is a Provision.
LEMMA StagedIsProvision ==
  ASSUME BundleInv, NEW c \in Calls, call[c].step \in Staged \cup {"undo"}
  PROVE  Busy(c) /\ call[c].op = "provision"
  BY DEF BundleInv, TypeOK, StepsMatch, Staged, RemoveSteps, Busy, Call

LEMMA ProvisionStepKeeps ==
  ASSUME BundleInv, UNCHANGED ns, NEW c \in Calls, ProvisionStep(c)
  PROVE  BundleInv'
  <1>. USE DEF ProvisionSteps, Staged, Steps
  <1>1. ASSUME NEW i \in Ids, NEW n \in Names, NEW u \in Users, BeginProvision(c, i, n, u)
        PROVE  BundleInv'
    BY <1>1, BeginProvisionKeeps
  <1>2. CASE BeginStub(c)
    <2>. DEFINE x == Torn(Dir(c))
    <2>1. Busy(c) /\ call[c].op = "provision"
      BY <1>2, StagedIsProvision DEF BeginStub
    <2>2. /\ x \in Content /\ x.rootfs = Dir(c).rootfs /\ ~x.ready /\ x.config = "torn"
          /\ ~(x.rootfs = "foreign" /\ ~Multiple(ns))
      BY <1>2, <2>1, DirIsContent DEF BeginStub, Torn, Content, Fits
    <2>3. RemainsAreKnown(x) /\ Fits(x, "stubbing")
      BY <2>2 DEF RemainsAreKnown, Fits
    <2>. QED
      BY <1>2, <2>1, <2>2, <2>3, DirIsContent, OwnDirChanges DEF BeginStub
  <1>3. CASE EndStub(c)
    <2>. DEFINE x == Written(Dir(c))
    <2>1. Busy(c) /\ call[c].op = "provision"
      BY <1>3, StagedIsProvision DEF EndStub
    <2>2. /\ x \in Content /\ x.rootfs = Dir(c).rootfs /\ ~x.ready
          /\ x.config = "written" /\ x.maps = ns
          /\ ~(x.rootfs = "foreign" /\ ~Multiple(ns))
      BY <1>3, <2>1, DirIsContent DEF EndStub, Written, Content, Fits
    <2>3. RemainsAreKnown(x) /\ Fits(x, "extract")
      BY <2>2 DEF RemainsAreKnown, Fits
    <2>. QED
      BY <1>3, <2>1, <2>2, <2>3, DirIsContent, OwnDirChanges DEF EndStub
  <1>4. CASE BeginExtract(c)
    <2>1. Busy(c) /\ call[c].op = "provision"
      BY <1>4, StagedIsProvision DEF BeginExtract
    <2>2. PICK owner \in IF Multiple(ns) THEN {"own", "foreign"} ELSE {"own"} :
            SetDir(c, [Dir(c) EXCEPT !.rootfs = owner])
      BY <1>4 DEF BeginExtract
    <2>. DEFINE x == [Dir(c) EXCEPT !.rootfs = owner]
    <2>3. /\ x \in Content /\ x.rootfs = owner /\ owner # "none" /\ ~x.ready
          /\ owner = "foreign" => Multiple(ns)
          /\ Multiple(ns) => x.config = "written" /\ x.maps = ns
      BY <1>4, <2>1, DirIsContent DEF BeginExtract, Content, Fits
    <2>4. RemainsAreKnown(x) /\ Fits(x, "extracting")
      BY <2>3 DEF RemainsAreKnown, Fits
    <2>. QED
      BY <1>4, <2>1, <2>2, <2>3, <2>4, DirIsContent, OwnDirChanges DEF BeginExtract
  <1>5. CASE EndExtract(c)
    <2>. DEFINE x == [Dir(c) EXCEPT !.whole = TRUE]
    <2>1. Busy(c) /\ call[c].op = "provision"
      BY <1>5, StagedIsProvision DEF EndExtract
    <2>2. /\ x \in Content /\ x.whole /\ x.rootfs # "none" /\ ~x.ready
          /\ x.rootfs = "foreign" => x.config = "written" /\ x.maps = ns /\ Multiple(ns)
      BY <1>5, <2>1, DirIsContent DEF EndExtract, Content, Fits
    <2>3. RemainsAreKnown(x) /\ Fits(x, "config")
      BY <2>2 DEF RemainsAreKnown, Fits
    <2>. QED
      BY <1>5, <2>1, <2>2, <2>3, DirIsContent, OwnDirChanges DEF EndExtract
  <1>6. CASE PublishConfig(c)
    <2>. DEFINE x == Written(Dir(c))
    <2>1. Busy(c) /\ call[c].op = "provision"
      BY <1>6, StagedIsProvision DEF PublishConfig
    <2>2. /\ x \in Content /\ x.whole /\ x.rootfs # "none" /\ ~x.ready
          /\ x.config = "written" /\ x.maps = ns
          /\ x.rootfs = "foreign" => Multiple(ns)
      BY <1>6, <2>1, DirIsContent DEF PublishConfig, Written, Content, Fits
    <2>3. RemainsAreKnown(x) /\ Fits(x, "spec")
      BY <2>2 DEF RemainsAreKnown, Fits
    <2>. QED
      BY <1>6, <2>1, <2>2, <2>3, DirIsContent, OwnDirChanges DEF PublishConfig
  <1>7. CASE BeginSpec(c)
    <2>. DEFINE x == Torn(Dir(c))
    <2>1. Busy(c) /\ call[c].op = "provision"
      BY <1>7, StagedIsProvision DEF BeginSpec
    <2>2. /\ x \in Content /\ x.whole /\ x.rootfs # "none" /\ ~x.ready
          /\ x.config = "torn" /\ MapsUser(ns, x.user)
          /\ x.rootfs = "foreign" => Multiple(ns)
      BY <1>7, <2>1, DirIsContent DEF BeginSpec, Torn, Content, Fits
    <2>3. RemainsAreKnown(x) /\ Fits(x, "writing")
      BY <2>2 DEF RemainsAreKnown, Fits
    <2>. QED
      BY <1>7, <2>1, <2>2, <2>3, DirIsContent, OwnDirChanges DEF BeginSpec
  <1>8. CASE EndSpec(c)
    <2>. DEFINE x == [Written(Dir(c)) EXCEPT !.ready = TRUE]
    <2>1. Busy(c) /\ call[c].op = "provision"
      BY <1>8, StagedIsProvision DEF EndSpec
    <2>2. /\ x \in Content /\ x.whole /\ x.rootfs # "none" /\ x.ready
          /\ x.config = "written" /\ x.maps = ns /\ MapsUser(ns, x.user)
          /\ x.rootfs = "foreign" => Multiple(ns)
      BY <1>8, <2>1, DirIsContent DEF EndSpec, Written, Content, Fits
    <2>3. RemainsAreKnown(x) /\ Fits(x, "rename")
      BY <2>2 DEF RemainsAreKnown, Fits
    <2>. QED
      BY <1>8, <2>1, <2>2, <2>3, DirIsContent, OwnDirChanges DEF EndSpec
  <1>9. CASE SpecRefused(c) \/ CommitRefused(c) \/ ProvisionFails(c)
    <2>1. Busy(c) /\ call[c].op = "provision"
      BY <1>9, StagedIsProvision DEF SpecRefused, CommitRefused, ProvisionFails
    <2>2. Goto(c, "undo") /\ UNCHANGED <<dirs, known>> /\ Fits(Dir(c), "undo")
      BY <1>9 DEF SpecRefused, CommitRefused, ProvisionFails, Fits
    <2>. QED
      BY <2>1, <2>2, OnlyStepChanges
  <1>10. CASE Undo(c)
    <2>1. Busy(c) /\ call[c].op = "provision"
      BY <1>10, StagedIsProvision DEF Undo
    <2>2. /\ Goto(c, Way(Dir(c))) /\ UNCHANGED <<dirs, known>>
          /\ Way(Dir(c)) \in {"own", "namespace", "failed"}
      BY <1>10 DEF Undo, Way
    <2>3. Fits(Dir(c), Way(Dir(c)))
      BY <2>2 DEF Fits
    <2>. QED
      BY <2>1, <2>2, <2>3, OnlyStepChanges
  <1>. QED
    BY <1>1, <1>2, <1>3, <1>4, <1>5, <1>6, <1>7, <1>8, <1>9, <1>10, CommitKeeps
       DEF ProvisionStep

LEMMA RemoveStepKeeps ==
  ASSUME BundleInv, UNCHANGED ns, NEW c \in Calls, RemoveStep(c)
  PROVE  BundleInv'
  <1>1. ASSUME NEW n \in Names, NextStaging(c, n)
        PROVE  BundleInv'
    <2>1. n \in Places /\ n # "final"
      BY BundleAssumption DEF Places
    <2>2. Way(dirs[call[c].id][n]) \in RemoveSteps
      BY DEF Way, RemoveSteps
    <2>. QED
      BY <1>1, <2>1, <2>2, NextDirectoryKeeps DEF NextStaging
  <1>2. CASE StagingGone(c)
    <2>1. Way(dirs[call[c].id]["final"]) \in RemoveSteps /\ "final" \in Places
      BY DEF Way, RemoveSteps, Places
    <2>. QED
      BY <1>2, <2>1, NextDirectoryKeeps DEF StagingGone
  <1>3. CASE RemoveEntry(c)
    <2>1. /\ Busy(c) /\ Dir(c) # NoDir /\ Dir(c) \in Content /\ call[c].step \in {"own", "namespace"}
          /\ Goto(c, call[c].step) /\ call[c].step \in Steps /\ known' = known
      <3>1. call' = [call EXCEPT ![c].step = call[c].step]
        BY <1>3, DirIsContent DEF RemoveEntry, Call, BundleInv, TypeOK
      <3>2. Busy(c)
        BY <1>3 DEF RemoveEntry, Busy, BundleInv, StepsMatch
      <3>. QED
        BY <1>3, <3>1, <3>2, DirIsContent DEF RemoveEntry, Goto, Steps
    <2>2. call[c].op = "provision" => call[c].step \in ProvisionSteps
      BY DEF BundleInv, StepsMatch
    <2>3. CASE SetDir(c, [Dir(c) EXCEPT !.config = "none", !.maps = NoDir, !.ready = FALSE,
                                    !.cut = TRUE])
      <3>. DEFINE x == [Dir(c) EXCEPT !.config = "none", !.maps = NoDir, !.ready = FALSE,
                                  !.cut = TRUE]
      <3>1. x \in Content /\ x.config = "none" /\ ~x.ready /\ x.cut
        BY <2>1 DEF Content
      <3>2. RemainsAreKnown(x) /\ Fits(x, call[c].step)
        BY <2>1, <3>1 DEF RemainsAreKnown, Fits, Staged
      <3>. QED
        BY <2>1, <2>2, <2>3, <3>1, <3>2, OwnDirChanges
    <2>4. CASE SetDir(c, [Dir(c) EXCEPT !.rootfs = "none", !.whole = FALSE, !.cut = TRUE])
      <3>. DEFINE x == [Dir(c) EXCEPT !.rootfs = "none", !.whole = FALSE, !.cut = TRUE]
      <3>1. /\ x \in Content /\ x.rootfs = "none" /\ x.cut
            /\ x.ready = Dir(c).ready /\ x.config = Dir(c).config
        BY <2>1 DEF Content
      <3>2. RemainsAreKnown(x) /\ Fits(x, call[c].step)
        BY <2>1, <3>1, DirIsContent DEF RemainsAreKnown, Fits, Staged
      <3>. QED
        BY <2>1, <2>2, <2>4, <3>1, <3>2, OwnDirChanges
    <2>. QED
      BY <1>3, <2>3, <2>4 DEF RemoveEntry
  <1>4. CASE RemovalFails(c)
    <2>1. Busy(c) /\ "failed" \in Steps \cap RemoveSteps \cap ProvisionSteps
      BY <1>4 DEF RemovalFails, Busy, BundleInv, StepsMatch, Steps, RemoveSteps, ProvisionSteps
    <2>2. Fits(Dir(c), "failed")
      BY DEF Fits, Staged
    <2>. QED
      BY <1>4, <2>1, <2>2, OnlyStepChanges DEF RemovalFails
  <1>. QED
    BY <1>1, <1>2, <1>3, <1>4, BeginRemoveKeeps, RemovedKeeps, ReturnErrorKeeps DEF RemoveStep

LEMMA InitBundleInv == Init => BundleInv
  <1>. SUFFICES ASSUME Init PROVE BundleInv
    OBVIOUS
  <1>1. /\ call \in [Calls -> Call] /\ \A c \in Calls : call[c].step = "idle" /\ call[c].op = "none"
        /\ \A i \in Ids, n \in Places : dirs[i][n] = NoDir
    BY DEF Init
  <1>2. TypeOK
    BY <1>1 DEF Init, TypeOK
  <1>3. StepsMatch /\ CallsApart /\ StagingFits /\ StagingFirst
    BY <1>1 DEF StepsMatch, CallsApart, StagingFits, StagingFirst, Busy
  <1>4. \A i \in Ids, n \in Places : RemainsAreKnown(dirs[i][n])
    BY <1>1 DEF RemainsAreKnown
  <1>5. BundleIsComplete /\ StagingIsAccountedFor
    BY <1>1 DEF BundleIsComplete, StagingIsAccountedFor, Places
  <1>. QED
    BY <1>2, <1>3, <1>4, <1>5 DEF BundleInv

LEMMA StepBundleInv == BundleInv /\ [Next]_vars => BundleInv'
  <1>. SUFFICES ASSUME BundleInv, [Next]_vars PROVE BundleInv'
    OBVIOUS
  <1>1. CASE Crash
    BY <1>1, CrashKeeps
  <1>2. ASSUME UNCHANGED ns, NEW c \in Calls, ProvisionStep(c) \/ RemoveStep(c)
        PROVE  BundleInv'
    BY <1>2, ProvisionStepKeeps, RemoveStepKeeps
  <1>3. CASE UNCHANGED vars
    BY <1>3 DEF vars, BundleInv, TypeOK, StepsMatch, CallsApart, StagingFits, Fits, Dir, Busy,
       RemainsAreKnown, StagingFirst, BundleIsComplete, StagingIsAccountedFor, Staging
  <1>. QED
    BY <1>1, <1>2, <1>3 DEF Next

LEMMA BundleInvHolds == Spec => []BundleInv
  BY InitBundleInv, StepBundleInv, PTL DEF Spec
-----------------------------------------------------------------------------
(* What the invariant is for *)

\* Between any two steps of any calls, crashes and restarts included, what runc may be given is
\* complete and has its user mapped, in a namespace that is one to one.
THEOREM ProvisionerDirectoriesAreSound == Spec => []DirectoriesAreSound
  <1>1. BundleInv /\ NamespaceIsSound => DirectoriesAreSound
    BY DEF BundleInv, DirectoriesAreSound
  <1>. QED
    BY <1>1, BundleInvHolds, ProvisionerNamespaceIsSound, PTL

\* No staging directory is leaked silently by any Provision.
THEOREM ProvisionerStagingIsAccountedFor == Spec => []StagingIsAccountedFor
  <1>1. BundleInv => StagingIsAccountedFor
    BY DEF BundleInv
  <1>. QED
    BY <1>1, BundleInvHolds, PTL

\* A directory that no removal can ever succeed on, of whatever mappings and whoever wrote
\* them, has a half written config.json, or has lost it to an interrupted removal.
THEOREM ProvisionerOnlyTornBundlesStick == Spec => []OnlyTornBundlesStick
  <1>1. ASSUME BundleInv, NEW i \in Ids, NEW n \in Places
        PROVE  LET d == dirs[i][n]
               IN  d # NoDir /\ Stuck(d) => d.config = "torn" \/ (d.cut /\ d.config = "none")
    <2>1. RemainsAreKnown(dirs[i][n])
      BY <1>1 DEF BundleInv
    <2>2. dirs[i][n] \in Content \cup {NoDir}
      BY <1>1 DEF BundleInv, TypeOK
    <2>. QED
      BY <2>1, <2>2 DEF RemainsAreKnown, Stuck, Refused, Way, Content
  <1>2. BundleInv => OnlyTornBundlesStick
    BY <1>1 DEF OnlyTornBundlesStick
  <1>. QED
    BY <1>2, BundleInvHolds, PTL

\* The ways a step can change directories.
LEMMA StepsOnDirectories ==
  ASSUME BundleInv, NEW c \in Calls, ProvisionStep(c) \/ RemoveStep(c)
  PROVE  \/ dirs' = dirs
         \/ \E i \in Ids, n \in Names, u \in Users : BeginProvision(c, i, n, u)
         \/ Busy(c) /\ \E x : SetDir(c, x)
         \/ Commit(c)
  <1>1. CASE ProvisionStep(c)
    BY <1>1, StagedIsProvision
       DEF ProvisionStep, BeginStub, EndStub, BeginExtract, EndExtract, PublishConfig, BeginSpec,
           SpecRefused, EndSpec, CommitRefused, ProvisionFails, Undo, Staged
  <1>2. CASE RemoveStep(c)
    <2>1. RemoveEntry(c) \/ Removed(c) => Busy(c) /\ \E x : SetDir(c, x)
      BY DEF RemoveEntry, Removed, Busy, BundleInv, StepsMatch
    <2>. QED
      BY <1>2, <2>1 DEF RemoveStep, BeginRemove, NextStaging, StagingGone, RemovalFails, ReturnError
  <1>. QED
    BY <1>1, <1>2

\* A committed bundle is only ever taken away by Remove.
THEOREM ProvisionerBundleIsNotReplaced == Spec => BundleIsNotReplaced
  <1>1. ASSUME BundleInv, NEW c \in Calls, ProvisionStep(c) \/ RemoveStep(c),
               NEW i \in Ids, dirs[i]["final"] # NoDir, dirs[i]["final"].ready,
               dirs'[i]["final"] # dirs[i]["final"]
        PROVE  call[c].op = "remove" /\ call[c].id = i
    <2>1. /\ dirs \in [Ids -> [Places -> Content \cup {NoDir}]]
          /\ call[c] \in Call /\ call[c].id \in Ids /\ call[c].name \in Places
          /\ "final" \in Places /\ "final" \notin Names
      BY <1>1, BundleAssumption DEF BundleInv, TypeOK, Call, Places
    <2>2. ASSUME NEW j \in Ids, NEW n \in Names, NEW u \in Users, BeginProvision(c, j, n, u)
          PROVE  FALSE
      BY <1>1, <2>1, <2>2 DEF BeginProvision, Places
    <2>3. ASSUME Busy(c), NEW x, SetDir(c, x)
          PROVE  call[c].op = "remove" /\ call[c].id = i
      <3>1. call[c].id = i /\ call[c].name = "final"
        BY <1>1, <2>1, <2>3 DEF SetDir
      <3>. QED
        BY <1>1, <2>1, <2>3, <3>1 DEF BundleInv, StepsMatch, Busy, Call
    <2>4. ASSUME Commit(c)
          PROVE  FALSE
      <3>1. call[c].id = i
        BY <1>1, <2>1, <2>4 DEF Commit
      <3>2. dirs[i]["final"].config = "none"
        BY <1>1, <2>4, <3>1 DEF Commit, Vacant
      <3>3. dirs[i]["final"].config = "written"
        BY <1>1, <2>1 DEF BundleInv, RemainsAreKnown
      <3>. QED
        BY <3>2, <3>3
    <2>. QED
      BY <1>1, <2>2, <2>3, <2>4, StepsOnDirectories
  <1>2. BundleInv /\ [Next]_vars =>
          [\A i \in Ids :
             LET d == dirs[i]["final"]
             IN  d # NoDir /\ d.ready /\ dirs'[i]["final"] # d
                   => \E c \in Calls : call[c].op = "remove" /\ call[c].id = i]_vars
    BY <1>1 DEF Next, Crash, vars
  <1>. QED
    BY <1>2, BundleInvHolds, PTL DEF Spec, BundleIsNotReplaced

\* A Remove that reports success has removed the bundle and every staging directory of it.
THEOREM ProvisionerRemoveIsThorough == Spec => RemoveIsThorough
  <1>1. ASSUME BundleInv, NEW d \in Calls, ProvisionStep(d) \/ RemoveStep(d),
               NEW c \in Calls, call[c].op = "remove",
               call'[c].op = "none", call'[c].step = "done"
        PROVE  \A n \in Places : dirs'[call[c].id][n] = NoDir
    <2>1. /\ dirs \in [Ids -> [Places -> Content \cup {NoDir}]] /\ call \in [Calls -> Call]
          /\ call[c].id \in Ids /\ call[c].name \in Places
      BY <1>1 DEF BundleInv, TypeOK, Call
    <2>2. Removed(c) /\ Return(c, "done")
      <3>1. CASE ProvisionStep(d)
        <4>1. call[d].op # "remove" /\ \A b \in Calls : b # d => call'[b] = call[b]
          BY <1>1, <2>1, <3>1, StagedIsProvision
             DEF ProvisionStep, BeginProvision, BeginStub, EndStub, BeginExtract, EndExtract,
                 PublishConfig, BeginSpec, SpecRefused, EndSpec, Commit, CommitRefused,
                 ProvisionFails, Undo, Staged, Goto, Return, Busy
        <4>. QED
          BY <1>1, <4>1
      <3>2. CASE Removed(d)
        BY <1>1, <2>1, <3>2 DEF Removed, Goto, Return, Call
      <3>3. CASE ReturnError(d)
        BY <1>1, <2>1, <3>3 DEF ReturnError, Return, Call
      <3>4. ASSUME NEW i \in Ids, BeginRemove(d, i)
            PROVE  FALSE
        BY <1>1, <2>1, <3>4 DEF BeginRemove, Busy
      <3>5. ASSUME NEW n \in Names, NextStaging(d, n)
            PROVE  FALSE
        BY <1>1, <2>1, <3>5 DEF NextStaging, Call
      <3>6. CASE StagingGone(d)
        BY <1>1, <2>1, <3>6 DEF StagingGone, Call
      <3>7. CASE RemoveEntry(d) \/ RemovalFails(d)
        BY <1>1, <2>1, <3>7 DEF RemoveEntry, RemovalFails, Goto, Call
      <3>. QED
        BY <1>1, <3>1, <3>2, <3>3, <3>4, <3>5, <3>6, <3>7 DEF RemoveStep
    <2>3. call[c].name = "final" /\ call[c].step # "list"
      <3>1. call[c].step \in {"own", "namespace"}
        BY <2>2 DEF Removed
      <3>2. CASE call[c].name = "final"
        BY <3>1, <3>2
      <3>3. CASE call[c].name # "final"
        BY <1>1, <2>1, <2>2, <3>3 DEF Removed, Goto, Call
      <3>. QED
        BY <3>2, <3>3
    <2>4. \A n \in Names : dirs[call[c].id][n] = NoDir
      BY <1>1, <2>3 DEF BundleInv, StagingFirst
    <2>5. dirs' = [dirs EXCEPT ![call[c].id]["final"] = NoDir]
      BY <2>2, <2>3 DEF Removed, SetDir
    <2>. QED
      BY <2>1, <2>3, <2>4, <2>5 DEF Places
  <1>2. BundleInv /\ [Next]_vars =>
          [\A c \in Calls :
             call[c].op = "remove" /\ call'[c].op = "none" /\ call'[c].step = "done"
               => \A n \in Places : dirs'[call[c].id][n] = NoDir]_vars
    <2>1. ASSUME Crash, NEW c \in Calls
          PROVE  call'[c].step # "done" \/ call'[c].op # "none" \/ call[c].op # "remove" \/ ~BundleInv
      <3>1. ASSUME BundleInv PROVE call'[c].step = "idle"
        BY <2>1, <3>1 DEF Crash, BundleInv, TypeOK, Call
      <3>. QED
        BY <3>1
    <2>. QED
      BY <1>1, <2>1 DEF Next, vars
  <1>. QED
    BY <1>2, BundleInvHolds, PTL DEF Spec, RemoveIsThorough
=============================================================================
