------------------------- MODULE InstallationProofs -------------------------
(***************************************************************************)
(* Theorems about the files of an installation, for any builds and any     *)
(* passcodes.                                                              *)
(***************************************************************************)
EXTENDS Installation, TLAPS

(***************************************************************************)
(* Where the process is.                                                   *)
(***************************************************************************)
Drawing   == {"draw", "flush", "publish"}
Opened    == {"mark", "sync-mark", "open", "serving", "built", "staged", "backup", "link",
              "rename", "sync-bin", "exec"}
Staged    == {"staged", "backup", "link", "rename", "sync-bin", "exec"}
BackedUp  == {"rename", "sync-bin", "exec"}
Replaced  == {"sync-bin", "exec"}

\* What a process sees is what the machine may come up with.
SeenIsPossible == \A d \in {"root", "bin"} : Listing(seen, d) \in past[d]

\* No name of the root leads to content that is not on disk, and its passcode is the one
\* that is seen now or none: a passcode is drawn only where there was none.
PasscodeIsStable ==
  \A disk \in past["root"] :
    /\ disk["passcode"] \in (Secrets \ loose) \cup {"none", "torn"}
    /\ disk["passcode"] \in {"none", seen["passcode"]}
    /\ disk["passcode"] = "torn" => damaged

\* What a start has found or made of the passcode before it goes on.
StartIsSound ==
  /\ pc \in Drawing => seen["passcode"] = "none" /\ seen["initialized"] = "none"
                         /\ seen["jobs"] = "none"
  /\ pc \in {"flush", "publish"} => draft \in Secrets
  /\ pc = "publish" => draft \notin loose
  /\ pc \in {"sync", "read"} => seen["passcode"] # "none"
  /\ pc \in Opened => seen["passcode"] \in Secrets

\* What an update has staged, backed up and replaced.
UpdateIsSound ==
  /\ pc \in Staged => cand \notin loose
  /\ pc \in BackedUp => seen["previous"] \in Versions \ loose
  /\ pc # "down" /\ ~odd =>
       self = IF pc \in Replaced THEN seen["previous"] ELSE seen["executable"]
  /\ pc = "rename" /\ ~odd => self = seen["previous"]

\* What holds of the files whenever somebody looks, and after any stop.
FilesInv == SeenIsPossible /\ PasscodeIsStable /\ ExecutableIsWhole /\ TraceHasPasscode

\* Everything the four properties rest on.
InstallationInv ==
  TypeOK /\ FilesInv /\ StartIsSound /\ UpdateIsSound

(***************************************************************************)
(* What the directories may hold.                                          *)
(***************************************************************************)
\* A listing shows what its names hold.
LEMMA ListingShows ==
  ASSUME NEW s
  PROVE  /\ \A f \in RootFiles : Listing(s, "root")[f] = s[f]
         /\ \A f \in BinFiles : Listing(s, "bin")[f] = s[f]
BY DEF Listing, Names

\* What a process finds is one of the listings.
LEMMA SeenIsSound ==
  ASSUME FilesInv
  PROVE  /\ seen["passcode"] \in (Secrets \ loose) \cup {"none", "torn"}
         /\ seen["passcode"] = "torn" => damaged
         /\ seen["executable"] \in Versions \ loose
         /\ ~damaged /\ (seen["initialized"] # "none" \/ seen["jobs"] # "none")
              => seen["passcode"] \in Secrets \ loose
<1>1. Listing(seen, "root") \in past["root"] /\ Listing(seen, "bin") \in past["bin"]
  BY DEF FilesInv, SeenIsPossible
<1> QED
  BY <1>1, ListingShows
     DEF FilesInv, PasscodeIsStable, ExecutableIsWhole, TraceHasPasscode, RootFiles, BinFiles

\* The same files, fewer ways in which the machine may come up.
LEMMA FewerListings ==
  ASSUME FilesInv, UNCHANGED <<seen, damaged>>, loose' \subseteq loose, SeenIsPossible',
         \A d \in {"root", "bin"} : past'[d] \subseteq past[d]
  PROVE  FilesInv'
BY DEF FilesInv, PasscodeIsStable, ExecutableIsWhole, TraceHasPasscode

\* Files and directories as they were.
LEMMA SameListings ==
  ASSUME FilesInv, UNCHANGED <<seen, past, damaged>>, loose' \subseteq loose
  PROVE  FilesInv'
<1>1. SeenIsPossible'
  BY DEF FilesInv, SeenIsPossible, Listing
<1> QED
  BY <1>1, FewerListings

\* A directory is synced.
LEMMA SyncedListings ==
  ASSUME TypeOK, FilesInv, NEW d \in {"root", "bin"}, Sync(d), UNCHANGED <<loose, damaged>>
  PROVE  FilesInv'
<1>1. \A e \in {"root", "bin"} : past'[e] = IF e = d THEN {Listing(seen, d)} ELSE past[e]
  BY DEF Sync, TypeOK
<1>2. \A e \in {"root", "bin"} : Listing(seen, e)' = Listing(seen, e)
  BY DEF Sync, Listing
<1>3. SeenIsPossible' /\ \A e \in {"root", "bin"} : past'[e] \subseteq past[e]
  BY <1>1, <1>2 DEF FilesInv, SeenIsPossible
<1> QED
  BY <1>3, FewerListings DEF Sync

\* Content that is written and that no name leads to.
LEMMA LooseContent ==
  ASSUME TypeOK, FilesInv, UNCHANGED <<seen, past, damaged>>, NEW c, loose' = loose \cup {c},
         \/ c \in Secrets \ InUse("root")
         \/ c \in Versions \ InUse("bin")
  PROVE  FilesInv'
<1>1. SeenIsPossible'
  BY DEF FilesInv, SeenIsPossible, Listing
<1>2. \A disk \in past["root"] : c # disk["passcode"] \/ disk["passcode"] \notin Secrets
  BY InstallationAssumption DEF InUse, Names, RootFiles
<1>3. \A disk \in past["bin"] : c # disk["executable"] \/ disk["executable"] \notin Versions
  BY InstallationAssumption DEF InUse, Names, BinFiles
<1>4. PasscodeIsStable'
  BY <1>2 DEF FilesInv, PasscodeIsStable
<1>5. ExecutableIsWhole'
  BY <1>3 DEF FilesInv, ExecutableIsWhole
<1>6. TraceHasPasscode'
  BY <1>2 DEF FilesInv, TraceHasPasscode
<1> QED
  BY <1>1, <1>4, <1>5, <1>6 DEF FilesInv

\* Names change: a whole executable stays, a passcode is only put where there was none, and
\* a trace only beside a passcode.
LEMMA NewListing ==
  ASSUME FilesInv, NEW s, Becomes(s), UNCHANGED <<loose, damaged>>,
         s["executable"] \in Versions \ loose,
         \/ s["passcode"] = seen["passcode"]
         \/ s["passcode"] \in Secrets \ loose /\ seen["passcode"] = "none",
         ~damaged /\ (s["initialized"] # "none" \/ s["jobs"] # "none")
           => s["passcode"] \in Secrets \ loose
  PROVE  FilesInv'
<1>1. \A d \in {"root", "bin"} : past'[d] = past[d] \cup {Listing(s, d)}
  BY DEF Becomes
<1>2. SeenIsPossible'
  BY <1>1 DEF SeenIsPossible, Becomes, Listing
<1>3. PasscodeIsStable'
  BY <1>1, SeenIsSound, ListingShows, InstallationAssumption
     DEF FilesInv, PasscodeIsStable, Becomes, RootFiles
<1>4. ExecutableIsWhole'
  BY <1>1, ListingShows DEF FilesInv, ExecutableIsWhole, BinFiles
<1>5. TraceHasPasscode'
  BY <1>1, ListingShows DEF FilesInv, TraceHasPasscode, RootFiles
<1> QED
  BY <1>2, <1>3, <1>4, <1>5 DEF FilesInv

(***************************************************************************)
(* The steps.                                                              *)
(***************************************************************************)
\* New names of known content are well-typed.
LEMMA BecomesType ==
  ASSUME TypeOK, NEW s \in [Files -> Contents], Becomes(s)
  PROVE  /\ seen' \in [Files -> Contents]
         /\ DOMAIN past' = {"root", "bin"}
         /\ \A d \in {"root", "bin"} : past'[d] \subseteq [Names[d] -> Contents]
<1>1. \A d \in {"root", "bin"} : Listing(s, d) \in [Names[d] -> Contents]
  BY DEF Listing, Names, Files
<1> QED
  BY <1>1 DEF TypeOK, Becomes

\* So are synced ones.
LEMMA SyncType ==
  ASSUME TypeOK, NEW d \in {"root", "bin"}, Sync(d)
  PROVE  /\ seen' \in [Files -> Contents]
         /\ DOMAIN past' = {"root", "bin"}
         /\ \A e \in {"root", "bin"} : past'[e] \subseteq [Names[e] -> Contents]
<1>1. Listing(seen, d) \in [Names[d] -> Contents]
  BY DEF TypeOK, Listing, Names, Files
<1> QED
  BY <1>1 DEF TypeOK, Sync

\* A start that draws no passcode, up to its refusal.
LEMMA InspectionStep ==
  ASSUME InstallationInv, Start \/ Inspect \/ Refuse \/ Read \/ Marked
  PROVE  InstallationInv'
<1> USE InstallationAssumption DEF InstallationInv, aside, Halt
<1>1. FilesInv'
  BY SameListings DEF Start, Inspect, Refuse, Read, Marked
<1>2. TypeOK'
  BY DEF TypeOK, Start, Inspect, Refuse, Read, Marked
<1>3. StartIsSound'
  BY SeenIsSound DEF StartIsSound, Drawing, Opened, Start, Inspect, Refuse, Read, Marked
<1>4. UpdateIsSound'
  BY DEF UpdateIsSound, Staged, BackedUp, Replaced, Start, Inspect, Refuse, Read, Marked
<1> QED
  BY <1>1, <1>2, <1>3, <1>4

\* A passcode is drawn, written, published and made durable.
LEMMA PasscodeStep ==
  ASSUME InstallationInv, Draw \/ FlushPasscode \/ PublishPasscode \/ SyncPasscode
  PROVE  InstallationInv'
<1> USE InstallationAssumption DEF InstallationInv, aside
<1>0. seen \in [Files -> Contents] /\ pc \notin Staged
  BY DEF TypeOK, Draw, FlushPasscode, PublishPasscode, SyncPasscode, Staged
<1>1. FilesInv'
  <2>1. CASE Draw
    BY <2>1, LooseContent DEF Draw
  <2>2. CASE FlushPasscode
    BY <2>2, SameListings DEF FlushPasscode
  <2>3. CASE PublishPasscode
    BY <1>0, <2>3, NewListing, SeenIsSound
       DEF PublishPasscode, Put, StartIsSound, Drawing, Files, RootFiles, BinFiles
  <2>4. CASE SyncPasscode
    BY <2>4, SyncedListings DEF SyncPasscode
  <2> QED
    BY <2>1, <2>2, <2>3, <2>4
<1>2. TypeOK'
  <2>1. CASE Draw \/ FlushPasscode
    BY <2>1 DEF TypeOK, Draw, FlushPasscode
  <2>2. CASE PublishPasscode
    <3>1. [seen EXCEPT !["passcode"] = draft] \in [Files -> Contents]
      BY <1>0, <2>2 DEF PublishPasscode, StartIsSound, Contents
    <3> QED
      BY <2>2, <3>1, BecomesType DEF TypeOK, PublishPasscode, Put
  <2>3. CASE SyncPasscode
    BY <2>3, SyncType DEF TypeOK, SyncPasscode
  <2> QED
    BY <2>1, <2>2, <2>3
<1>3. StartIsSound'
  BY <1>0 DEF StartIsSound, Drawing, Opened, Draw, FlushPasscode, PublishPasscode, SyncPasscode,
     Put, Becomes, Sync, Files, RootFiles, BinFiles
<1>4. UpdateIsSound'
  BY <1>0 DEF UpdateIsSound, Staged, BackedUp, Replaced, Draw, FlushPasscode, PublishPasscode,
     SyncPasscode, Put, Becomes, Sync, Files, RootFiles, BinFiles
<1> QED
  BY <1>1, <1>2, <1>3, <1>4

\* The marker and the database are created beside the passcode.
LEMMA MarkStep ==
  ASSUME InstallationInv, Mark \/ SyncMark \/ OpenStore
  PROVE  InstallationInv'
<1> USE InstallationAssumption DEF InstallationInv, aside
<1>0. seen \in [Files -> Contents] /\ seen["passcode"] \in Secrets \ loose
  BY SeenIsSound DEF TypeOK, StartIsSound, Opened, Mark, SyncMark, OpenStore
<1>1. FilesInv'
  <2>1. CASE Mark \/ OpenStore
    BY <1>0, <2>1, NewListing, SeenIsSound DEF Mark, OpenStore, Put, Files, RootFiles, BinFiles
  <2>2. CASE SyncMark
    BY <2>2, SyncedListings DEF SyncMark
  <2> QED
    BY <2>1, <2>2
<1>2. TypeOK'
  <2>1. ASSUME NEW f \in RootFiles, Put(f, "present")
        PROVE  /\ seen' \in [Files -> Contents]
               /\ DOMAIN past' = {"root", "bin"}
               /\ \A d \in {"root", "bin"} : past'[d] \subseteq [Names[d] -> Contents]
    BY <1>0, <2>1, BecomesType DEF Put, Contents, Files
  <2>2. CASE Mark \/ OpenStore
    BY <2>1, <2>2 DEF TypeOK, Mark, OpenStore, RootFiles
  <2>3. CASE SyncMark
    BY <2>3, SyncType DEF TypeOK, SyncMark
  <2> QED
    BY <2>2, <2>3
<1>3. StartIsSound'
  BY <1>0 DEF StartIsSound, Drawing, Opened, Mark, SyncMark, OpenStore, Put, Becomes, Sync, Files,
     RootFiles, BinFiles
<1>4. UpdateIsSound'
  BY <1>0 DEF UpdateIsSound, Staged, BackedUp, Replaced, Mark, SyncMark, OpenStore, Put, Becomes,
     Sync, Files, RootFiles, BinFiles
<1> QED
  BY <1>1, <1>2, <1>3, <1>4

\* A candidate is built, flushed, given up or handed over: no name changes.
LEMMA CandidateStep ==
  ASSUME InstallationInv, Build \/ FlushCandidate \/ BuildFails \/ HandOff \/ ReplaceFails \/ Exec
  PROVE  InstallationInv'
<1> USE InstallationAssumption DEF InstallationInv, aside, Resume
<1>1. FilesInv'
  <2>1. CASE Build
    BY <2>1, LooseContent DEF Build
  <2>2. CASE FlushCandidate \/ BuildFails \/ HandOff \/ ReplaceFails \/ Exec
    BY <2>2, SameListings DEF FlushCandidate, BuildFails, HandOff, ReplaceFails, Exec
  <2> QED
    BY <2>1, <2>2
<1>2. TypeOK'
  BY SeenIsSound DEF TypeOK, Build, FlushCandidate, BuildFails, HandOff, ReplaceFails, Exec
<1>3. StartIsSound'
  BY DEF StartIsSound, Drawing, Opened, Build, FlushCandidate, BuildFails, HandOff, ReplaceFails, Exec
<1>4. UpdateIsSound'
  BY DEF UpdateIsSound, Staged, BackedUp, Replaced, Build, FlushCandidate, BuildFails, HandOff,
     ReplaceFails, Exec
<1> QED
  BY <1>1, <1>2, <1>3, <1>4

\* The executable is backed up, replaced and perhaps put back: names of its directory change
\* among whole executables.
LEMMA ReplaceStep ==
  ASSUME InstallationInv,
         RemoveBackup \/ LinkBackup \/ Install \/ SyncInstall \/ Restore \/ RestoreFails
  PROVE  InstallationInv'
<1> USE InstallationAssumption DEF InstallationInv, aside, Resume
<1>0. seen \in [Files -> Contents] /\ seen["executable"] \in Versions \ loose
  BY SeenIsSound DEF TypeOK
<1>1. CASE RemoveBackup \/ LinkBackup \/ Install
  <2>1. PICK f \in BinFiles, c \in Versions \cup {"none"} :
           Put(f, c) /\ (f = "executable" => c \in Versions \ loose)
    BY <1>0, <1>1 DEF RemoveBackup, LinkBackup, Install, TypeOK, BinFiles, UpdateIsSound, Staged
  <2>2. [seen EXCEPT ![f] = c] \in [Files -> Contents]
    BY <1>0 DEF Contents
  <2> DEFINE s == [seen EXCEPT ![f] = c]
  <2>3. /\ s["executable"] \in Versions \ loose
        /\ \A g \in RootFiles : s[g] = seen[g]
    BY <1>0, <2>1 DEF Files, RootFiles, BinFiles
  <2>4. Becomes(s) /\ seen' = s
    BY <2>1 DEF Put, Becomes
  <2> HIDE DEF s
  <2>5. FilesInv'
    BY <1>1, <2>3, <2>4, NewListing, SeenIsSound
       DEF RemoveBackup, LinkBackup, Install, RootFiles
  <2>6. TypeOK'
    BY <1>1, <2>2, <2>4, BecomesType DEF TypeOK, RemoveBackup, LinkBackup, Install, s
  <2>7. StartIsSound'
    BY <1>1, <2>3, <2>4 DEF StartIsSound, Drawing, Opened, RootFiles, RemoveBackup, LinkBackup,
       Install
  <2>8. UpdateIsSound'
    BY <1>0, <1>1 DEF UpdateIsSound, Staged, BackedUp, Replaced, RemoveBackup, LinkBackup, Install,
       Put, Becomes, Files, BinFiles
  <2> QED
    BY <2>5, <2>6, <2>7, <2>8
<1>2. CASE SyncInstall \/ RestoreFails
  <2>1. FilesInv'
    BY <1>2, SyncedListings, SameListings DEF SyncInstall, RestoreFails
  <2>2. TypeOK'
    BY <1>2, SyncType DEF TypeOK, SyncInstall, RestoreFails
  <2>3. StartIsSound' /\ UpdateIsSound'
    BY <1>2 DEF StartIsSound, Drawing, Opened, UpdateIsSound, Staged, BackedUp, Replaced,
       SyncInstall, RestoreFails, Sync
  <2> QED
    BY <2>1, <2>2, <2>3
<1>3. CASE Restore
  <2> DEFINE back == [seen EXCEPT !["executable"] = seen["previous"], !["previous"] = "none"]
  <2>1. /\ \/ Becomes(back)
           \/ seen' = back /\ past' = [past EXCEPT !["bin"] = {Listing(back, "bin")}]
        /\ pc \in BackedUp /\ Resume("open") /\ UNCHANGED <<loose, odd>>
    BY <1>3 DEF Restore, BackedUp
  <2>2. /\ back \in [Files -> Contents]
        /\ back["executable"] = seen["previous"]
        /\ \A g \in RootFiles : back[g] = seen[g]
    BY <1>0 DEF Contents, Files, RootFiles, BinFiles
  <2>3. seen["previous"] \in Versions \ loose
    BY <2>1 DEF UpdateIsSound
  <2> HIDE DEF back
  <2>4. seen' = back /\ pc' = "open"
    BY <2>1 DEF Becomes
  <2>5. StartIsSound'
    BY <2>1, <2>2, <2>4 DEF StartIsSound, Drawing, Opened, BackedUp, RootFiles
  <2>6. UpdateIsSound'
    BY <1>3, <2>1, <2>2, <2>4 DEF Restore, UpdateIsSound, Staged, BackedUp, Replaced
  <2>7. CASE Becomes(back)
    <3>1. FilesInv'
      BY <2>1, <2>2, <2>3, <2>7, NewListing, SeenIsSound DEF RootFiles
    <3>2. TypeOK'
      BY <2>1, <2>2, <2>7, BecomesType DEF TypeOK
    <3> QED
      BY <2>5, <2>6, <3>1, <3>2
  <2>8. CASE seen' = back /\ past' = [past EXCEPT !["bin"] = {Listing(back, "bin")}]
    <3>1. /\ past'["root"] = past["root"] /\ past'["bin"] = {Listing(back, "bin")}
          /\ DOMAIN past' = {"root", "bin"}
      BY <2>8 DEF TypeOK
    <3>2. Listing(back, "root") = Listing(seen, "root")
      BY <2>2 DEF Listing, Names
    <3>3. SeenIsPossible'
      BY <2>8, <3>1, <3>2 DEF FilesInv, SeenIsPossible, Listing
    <3>4. FilesInv'
      BY <2>1, <2>2, <2>3, <2>8, <3>1, <3>3, ListingShows
         DEF FilesInv, PasscodeIsStable, ExecutableIsWhole, TraceHasPasscode, RootFiles, BinFiles
    <3>5. Listing(back, "bin") \in [Names["bin"] -> Contents]
      BY <2>2 DEF Listing, Names, Files
    <3>6. TypeOK'
      BY <2>1, <2>2, <2>8, <3>1, <3>5 DEF TypeOK
    <3> QED
      BY <2>5, <2>6, <3>4, <3>6
  <2> QED
    BY <2>1, <2>7, <2>8
<1> QED
  BY <1>1, <1>2, <1>3

\* The process ends, or somebody tampers with the root of one that is down.
LEMMA CrashStep ==
  ASSUME InstallationInv, Crash \/ Damage
  PROVE  InstallationInv'
<1> USE InstallationAssumption DEF InstallationInv, Halt
<1>1. CASE Crash
  <2>1. FilesInv' /\ TypeOK'
    BY <1>1, SameListings DEF Crash, TypeOK
  <2> QED
    BY <1>1, <2>1 DEF Crash, StartIsSound, Drawing, Opened, UpdateIsSound, Staged, BackedUp
<1>2. CASE Damage
  <2>1. PICK f \in {"passcode", "initialized"}, c \in {"none", "torn"} :
           seen' = [seen EXCEPT ![f] = c]
    BY <1>2 DEF Damage
  <2>2. /\ past'["root"] = {Listing(seen', "root")} /\ past'["bin"] = past["bin"]
        /\ DOMAIN past' = {"root", "bin"} /\ damaged' /\ pc = "down" /\ UNCHANGED <<loose, pc>>
    BY <1>2 DEF Damage, TypeOK
  <2>3. /\ seen' \in [Files -> Contents]
        /\ seen'["passcode"] \in {c, seen["passcode"]}
        /\ \A g \in BinFiles : seen'[g] = seen[g]
    BY <2>1 DEF TypeOK, Contents, Files, RootFiles, BinFiles
  <2>4. SeenIsPossible'
    BY <2>2, <2>3 DEF FilesInv, SeenIsPossible, Listing, Names
  <2>5. FilesInv'
    BY <2>2, <2>3, <2>4, SeenIsSound, ListingShows
       DEF FilesInv, PasscodeIsStable, ExecutableIsWhole, TraceHasPasscode, RootFiles
  <2>6. Listing(seen', "root") \in [Names["root"] -> Contents]
    BY <2>3 DEF Listing, Names, Files
  <2>7. TypeOK'
    BY <1>2, <2>2, <2>3, <2>6 DEF TypeOK, Damage
  <2> QED
    BY <2>2, <2>5, <2>7 DEF StartIsSound, Drawing, Opened, UpdateIsSound, Staged, BackedUp
<1> QED
  BY <1>1, <1>2

\* The machine comes up with listings that were possible; what is torn then was on no name.
LEMMA PowerLossStep ==
  ASSUME InstallationInv, PowerLoss
  PROVE  InstallationInv' /\ seen'["passcode"] \in {"none", seen["passcode"]}
<1> USE InstallationAssumption DEF InstallationInv
<1>1. PICK root \in past["root"], bin \in past["bin"], torn \in SUBSET loose :
         LET up == [f \in Files |-> IF f \in RootFiles THEN root[f] ELSE bin[f]]
         IN  /\ seen' = [f \in Files |-> IF up[f] \in torn THEN "torn" ELSE up[f]]
             /\ past' = [d \in {"root", "bin"} |-> {Listing(seen', d)}]
  BY DEF PowerLoss
<1>2. /\ \A f \in RootFiles : seen'[f] = IF root[f] \in torn THEN "torn" ELSE root[f]
      /\ \A f \in BinFiles : seen'[f] = IF bin[f] \in torn THEN "torn" ELSE bin[f]
  BY <1>1 DEF Files, RootFiles, BinFiles
<1>3. /\ root["passcode"] \notin torn /\ seen'["passcode"] = root["passcode"]
      /\ bin["executable"] \notin torn /\ seen'["executable"] = bin["executable"]
  BY <1>2 DEF FilesInv, PasscodeIsStable, ExecutableIsWhole, RootFiles, BinFiles, TypeOK
<1>4. root \in [RootFiles -> Contents] /\ bin \in [BinFiles -> Contents]
  BY DEF TypeOK, Names
<1>5. seen' \in [Files -> Contents]
  BY <1>1, <1>4 DEF Files, Contents
<1>6. Listing(seen', "root") \in [Names["root"] -> Contents]
      /\ Listing(seen', "bin") \in [Names["bin"] -> Contents]
  BY <1>5 DEF Listing, Names, Files
<1>7. TypeOK'
  BY <1>1, <1>5, <1>6 DEF TypeOK, PowerLoss, Halt
<1>8. past' = [d \in {"root", "bin"} |-> {Listing(seen', d)}]
  BY <1>1
<1>9. SeenIsPossible'
  BY <1>8 DEF SeenIsPossible, Listing
<1>10. PasscodeIsStable' /\ ExecutableIsWhole'
  BY <1>3, <1>8, ListingShows
     DEF FilesInv, PasscodeIsStable, ExecutableIsWhole, RootFiles, BinFiles, PowerLoss
<1>11. ASSUME ~damaged, seen'["initialized"] # "none" \/ seen'["jobs"] # "none"
       PROVE  seen'["passcode"] \in Secrets
  <2>1. root["initialized"] # "none" \/ root["jobs"] # "none"
    BY <1>2, <1>11 DEF RootFiles, TypeOK
  <2> QED
    BY <1>3, <1>11, <2>1 DEF FilesInv, TraceHasPasscode
<1>12. TraceHasPasscode'
  BY <1>8, <1>11, ListingShows DEF TraceHasPasscode, RootFiles, PowerLoss
<1> QED
  BY <1>3, <1>7, <1>9, <1>10, <1>12
     DEF FilesInv, PowerLoss, Halt, StartIsSound, Drawing, Opened, UpdateIsSound, Staged, BackedUp,
         PasscodeIsStable

(***************************************************************************)
(* The theorems.                                                           *)
(***************************************************************************)
\* The invariant holds from the installation by hand on, and no step breaks it.
LEMMA InstallationInvariant == Spec => []InstallationInv
<1>1. Init => InstallationInv
  <2> SUFFICES ASSUME Init PROVE InstallationInv
    OBVIOUS
  <2> USE InstallationAssumption DEF Init
  <2>1. /\ \A d \in {"root", "bin"} : past[d] = {Listing(seen, d)}
        /\ DOMAIN past = {"root", "bin"}
    OBVIOUS
  <2>2. seen \in [Files -> Contents]
    BY DEF Contents
  <2>3. \A d \in {"root", "bin"} : Listing(seen, d) \in [Names[d] -> Contents]
    BY <2>2 DEF Listing, Names, Files
  <2>4. TypeOK
    BY <2>1, <2>2, <2>3 DEF TypeOK
  <2>5. FilesInv
    BY <2>1, ListingShows DEF FilesInv, SeenIsPossible, PasscodeIsStable, ExecutableIsWhole,
       TraceHasPasscode, Files, RootFiles, BinFiles
  <2> QED
    BY <2>4, <2>5 DEF InstallationInv, StartIsSound, Drawing, Opened, UpdateIsSound, Staged, BackedUp
<1>2. InstallationInv /\ [Next]_vars => InstallationInv'
  <2>1. ASSUME InstallationInv, UNCHANGED vars PROVE InstallationInv'
    BY <2>1 DEF vars, InstallationInv, TypeOK, FilesInv, SeenIsPossible, Listing, PasscodeIsStable,
       ExecutableIsWhole, TraceHasPasscode, StartIsSound, UpdateIsSound
  <2> QED
    BY <2>1, InspectionStep, PasscodeStep, MarkStep, CandidateStep, ReplaceStep, CrashStep,
       PowerLossStep
       DEF Next, Startup, Update
<1> QED
  BY <1>1, <1>2, PTL DEF Spec

\* A whole executable is installed whenever the process or the machine stops: writes of the
\* candidate reach the disk before its name does, and the backup before it is put back.
THEOREM InstallationFilesAreSound == Spec => []FilesAreSound
<1>1. InstallationInv => FilesAreSound
  BY DEF InstallationInv, FilesInv, FilesAreSound
<1> QED
  BY <1>1, InstallationInvariant, PTL

\* updatePasscode leaves a trace of a start only beside a whole passcode, so that no start is
\* refused for ever.
THEOREM InstallationTraceHasPasscode == Spec => []TraceHasPasscode
<1>1. InstallationInv => TraceHasPasscode
  BY DEF InstallationInv, FilesInv
<1> QED
  BY <1>1, InstallationInvariant, PTL

\* The server runs the executable that is installed, through replaceProcess and restore.
THEOREM InstallationServingIsInstalled == Spec => []ServingIsInstalled
<1>1. InstallationInv => ServingIsInstalled
  BY DEF InstallationInv, UpdateIsSound, Replaced, ServingIsInstalled
<1> QED
  BY <1>1, InstallationInvariant, PTL

\* Once the database is there no passcode is replaced by another, neither by a start nor by
\* what a stopped machine comes up with.
THEOREM InstallationPasscodeIsKept == Spec => PasscodeIsKept
<1> DEFINE Kept == seen["jobs"] # "none" /\ seen'["passcode"] # seen["passcode"]
                     => seen'["passcode"] \notin Secrets
<1>1. InstallationInv /\ [Next]_vars => [Kept]_vars
  <2> SUFFICES ASSUME InstallationInv, Next PROVE Kept
    OBVIOUS
  <2> USE InstallationAssumption
  <2>1. seen \in [Files -> Contents] /\ "passcode" \in Files
    BY DEF InstallationInv, TypeOK, Files, RootFiles
  <2>2. CASE PublishPasscode
    BY <2>2 DEF PublishPasscode, InstallationInv, StartIsSound, Drawing
  <2>3. CASE PowerLoss
    BY <2>3, PowerLossStep
  <2>4. CASE Damage
    BY <2>1, <2>4 DEF Damage
  <2>5. CASE Startup /\ ~PublishPasscode
    BY <2>1, <2>5 DEF Startup, Start, Inspect, Refuse, Draw, FlushPasscode, SyncPasscode, Read, Mark,
       SyncMark, Marked, OpenStore, Put, Becomes, Sync
  <2>6. CASE Update \/ Crash
    BY <2>1, <2>6 DEF Update, Build, FlushCandidate, BuildFails, HandOff, ReplaceFails, RemoveBackup,
       LinkBackup, Install, SyncInstall, Exec, Restore, RestoreFails, Crash, Put, Becomes, Sync
  <2> QED
    BY <2>2, <2>3, <2>4, <2>5, <2>6 DEF Next
<1> QED
  BY <1>1, InstallationInvariant, PTL DEF Spec, PasscodeIsKept
=============================================================================
