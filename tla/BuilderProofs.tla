----------------------------- MODULE BuilderProofs -----------------------------
(***************************************************************************)
(* Theorems about the installation of tools and about the builds that run  *)
(* them, for any plan of downloads, versions and number of installers. The *)
(* installation and the build are proved each on its own; a builder takes  *)
(* the steps of both.                                                      *)
(***************************************************************************)
EXTENDS Builder, TLAPS

(***************************************************************************)
(* Installation. What an installer n has established of the tools f when v *)
(* is configured.                                                          *)
(***************************************************************************)
Good(t, f, v) == f[t] \in IF t \in Pinned THEN {v} ELSE Versions

\* The first k - 1 tools of a download.
GoodBefore(g, k, f, v) == \A i \in 1..Len(Plan[g]) : i < k => Good(Plan[g][i], f, v)

\* The downloads before n's, or all of them, are in place; what n verified is what is configured.
Established(n, f, v) ==
  /\ n.step = "idle" => n.group = 1
  /\ n.step = "verify" => n.content \in {v, "bad"}
  /\ n.step = "write" => /\ n.content = v
                         /\ n.entry \in 1..Len(Plan[n.group])
                         /\ GoodBefore(n.group, n.entry, f, v)
  /\ n.step # "idle" => \A g \in 1..Len(Plan) : g < n.group \/ n.step = "done"
                          => GoodBefore(g, Len(Plan[g]) + 1, f, v)

InstallInv == TypeOK /\ \A p \in Installers : Established(inst[p], file, want)

(***************************************************************************)
(* Build. Where the daemon, the waiting goroutine and the directories can  *)
(* be at each step of Build.                                               *)
(***************************************************************************)
BuildInv ==
  /\ Build!TypeOK
  /\ waiter = "none" => daemon = "none"
  /\ waiter \in {"draining", "sent", "taken"} => daemon = "gone"
  /\ pc \in {"idle", "spawn"} => waiter = "none"
  /\ pc \in {"clean", "returned"} => ~Build!Up
  /\ dirs \in {"gone", "left"} => pc = "returned"
  /\ result = "ok" => /\ pc \in {"stop", "term", "reap", "clean", "returned"}
                      /\ layout = "whole"
  /\ pc = "returned" /\ result = "ok" => dirs = "gone"

\* A build runs only when this builder's own installation has ended.
HostInv == InstallInv /\ BuildInv /\ (Active => Constructed)

----------------------------------------------------------------------------
(* Lemmas about plans and about what installers establish *)

\* A plan: every download holds tools, and a pinned tool is alone in its own.
LEMMA PlanIs ==
  /\ Len(Plan) \in Nat \ {0}
  /\ \A g \in 1..Len(Plan) :
       /\ Len(Plan[g]) \in Nat \ {0}
       /\ \A i \in 1..Len(Plan[g]) : Plan[g][i] \in Tools
       /\ \A i \in 1..Len(Plan[g]) : Plan[g][i] \in Pinned => Len(Plan[g]) = 1
  <1>1. Plan \in Seq(Seq(STRING)) /\ Len(Plan) > 0
    BY ToolAssumption
  <1>2. ASSUME NEW g \in 1..Len(Plan)
        PROVE  /\ Len(Plan[g]) \in Nat \ {0}
               /\ \A i \in 1..Len(Plan[g]) : Plan[g][i] \in Tools
               /\ \A i \in 1..Len(Plan[g]) : Plan[g][i] \in Pinned => Len(Plan[g]) = 1
    <2>1. Plan[g] \in Seq(STRING)
      BY <1>1
    <2>2. Len(Plan[g]) \in Nat \ {0}
      BY <2>1, ToolAssumption
    <2>3. \A i \in 1..Len(Plan[g]) : Plan[g][i] \in Tools
      BY DEF Tools
    <2>4. \A i \in 1..Len(Plan[g]) : Plan[g][i] \in Pinned => Len(Plan[g]) = 1
      BY ToolAssumption
    <2> QED
      BY <2>2, <2>3, <2>4
  <1> QED
    BY <1>1, <1>2

\* One tool replaced by what is configured leaves good tools good.
LEMMA GoodStays ==
  ASSUME NEW f, NEW h, NEW v \in Versions, NEW t \in Tools,
         h[t] = f[t] \/ h[t] = v, Good(t, f, v)
  PROVE  Good(t, h, v)
  BY DEF Good

\* So what an installer has established stays so while others write what is configured.
LEMMA EstablishedStays ==
  ASSUME NEW n, n.group \in 1..Len(Plan), NEW f, NEW h, NEW v \in Versions,
         \A t \in Tools : h[t] = f[t] \/ h[t] = v, Established(n, f, v)
  PROVE  Established(n, h, v)
  <1>1. ASSUME NEW g \in 1..Len(Plan), NEW k, GoodBefore(g, k, f, v)
        PROVE  GoodBefore(g, k, h, v)
    <2> SUFFICES ASSUME NEW i \in 1..Len(Plan[g]), i < k
                 PROVE  Good(Plan[g][i], h, v)
      BY DEF GoodBefore
    <2>1. Plan[g][i] \in Tools
      BY PlanIs
    <2>2. Good(Plan[g][i], f, v)
      BY <1>1 DEF GoodBefore
    <2> QED
      BY <2>1, <2>2, GoodStays
  <1>2. /\ n.step = "idle" => n.group = 1
        /\ n.step = "verify" => n.content \in {v, "bad"}
    BY DEF Established
  <1>3. n.step = "write" => /\ n.content = v
                            /\ n.entry \in 1..Len(Plan[n.group])
                            /\ GoodBefore(n.group, n.entry, h, v)
    BY <1>1 DEF Established
  <1>4. n.step # "idle" => \A g \in 1..Len(Plan) : g < n.group \/ n.step = "done"
                             => GoodBefore(g, Len(Plan[g]) + 1, h, v)
    BY <1>1 DEF Established
  <1> QED
    BY <1>2, <1>3, <1>4 DEF Established

\* An installer that rests has established nothing.
LEMMA RestEstablishes ==
  ASSUME NEW n, n.step = "idle", n.group = 1, NEW f, NEW v
  PROVE  Established(n, f, v)
  BY DEF Established

\* Done when every tool is in place.
LEMMA DoneIsUsable ==
  ASSUME InstallInv PROVE InstalledIsUsable
  <1> SUFFICES ASSUME NEW p \in Installers, inst[p].step = "done", NEW t \in Tools
               PROVE  Good(t, file, want)
    BY DEF InstalledIsUsable, Good
  <1>1. PICK g \in 1..Len(Plan) : \E i \in 1..Len(Plan[g]) : t = Plan[g][i]
    BY DEF Tools
  <1>2. PICK i \in 1..Len(Plan[g]) : t = Plan[g][i]
    BY <1>1
  <1>3. GoodBefore(g, Len(Plan[g]) + 1, file, want)
    BY DEF InstallInv, Established
  <1>4. i < Len(Plan[g]) + 1
    BY PlanIs
  <1> QED
    BY <1>2, <1>3, <1>4 DEF GoodBefore

----------------------------------------------------------------------------
(* Steps of an installer *)

Record == [step: {"idle", "check", "download", "verify", "write", "done"},
           group: 1..Len(Plan), entry: Nat \ {0}, content: Versions \cup {"none", "bad"}]

\* An installer goes on, the others stay where they are.
Moves(p) ==
  /\ inst' \in [Installers -> Record]
  /\ \A q \in Installers \ {p} : inst'[q] = inst[q]

\* An installer's step that leaves its own record established, and writes only what is
\* configured, disturbs no other.
LEMMA SoundStep ==
  ASSUME InstallInv, NEW p \in Installers, Moves(p), Established(inst'[p], file', want),
         file' \in [Tools -> Versions \cup {"none", "bad"}], UNCHANGED want,
         \A t \in Tools : file'[t] = file[t] \/ file'[t] = want
  PROVE  InstallInv'
  <1>1. want \in Versions /\ inst \in [Installers -> Record]
    BY DEF InstallInv, TypeOK, Record
  <1>2. TypeOK'
    BY <1>1 DEF TypeOK, Moves, Record
  <1>3. ASSUME NEW q \in Installers PROVE Established(inst'[q], file', want')
    <2>1. CASE q = p
      BY <2>1
    <2>2. CASE q # p
      <3>1. inst'[q] = inst[q] /\ inst[q].group \in 1..Len(Plan)
        BY <1>1, <2>2 DEF Record, Moves
      <3>2. Established(inst[q], file, want)
        BY DEF InstallInv
      <3>3. Established(inst[q], file', want)
        BY <1>1, <3>1, <3>2, EstablishedStays
      <3> QED
        BY <3>1, <3>3
    <2> QED
      BY <2>1, <2>2
  <1> QED
    BY <1>2, <1>3 DEF InstallInv

\* The same for a step that writes no file.
LEMMA QuietStep ==
  ASSUME InstallInv, NEW p \in Installers, Moves(p), Established(inst'[p], file, want),
         UNCHANGED <<file, want>>
  PROVE  InstallInv'
  BY SoundStep DEF InstallInv, TypeOK

\* The end of one download, whose tools are all in place.
LEMMA NextIsEstablished ==
  ASSUME InstallInv, NEW p \in Installers, NextGroup(p), inst[p].step # "idle",
         NEW h, \A t \in Tools : h[t] = file[t] \/ h[t] = want,
         GoodBefore(inst[p].group, Len(Group(p)) + 1, h, want)
  PROVE  Moves(p) /\ Established(inst'[p], h, want)
  <1> DEFINE m == inst[p]
  <1>1. m \in Record /\ m.group \in 1..Len(Plan) /\ want \in Versions
        /\ inst \in [Installers -> Record]
    BY DEF InstallInv, TypeOK, Record
  <1>2. Established(m, h, want)
    BY <1>1, EstablishedStays DEF InstallInv
  <1>3. \A g \in 1..Len(Plan) : g <= m.group => GoodBefore(g, Len(Plan[g]) + 1, h, want)
    <2> SUFFICES ASSUME NEW g \in 1..Len(Plan), g <= m.group
                 PROVE  GoodBefore(g, Len(Plan[g]) + 1, h, want)
      OBVIOUS
    <2>1. CASE g = m.group
      BY <2>1 DEF Group
    <2>2. CASE g < m.group
      BY <1>2, <2>2 DEF Established
    <2> QED
      BY <1>1, <2>1, <2>2, PlanIs
  <1>4. CASE m.group = Len(Plan)
    <2>1. inst' = [inst EXCEPT ![p] = At("done", 1)]
      BY <1>4 DEF NextGroup, Stop
    <2>2. At("done", 1) \in Record
      BY PlanIs DEF Record, At
    <2>3. Established(At("done", 1), h, want)
      BY <1>3, <1>4, PlanIs DEF Established, At
    <2> QED
      BY <1>1, <2>1, <2>2, <2>3 DEF Moves
  <1>5. CASE m.group # Len(Plan)
    <2>1. inst' = [inst EXCEPT ![p] = At("check", m.group + 1)]
      BY <1>5 DEF NextGroup
    <2>2. m.group + 1 \in 1..Len(Plan)
      BY <1>1, <1>5, PlanIs
    <2>3. At("check", m.group + 1) \in Record
      BY <2>2 DEF Record, At
    <2>4. Established(At("check", m.group + 1), h, want)
      BY <1>1, <1>3, PlanIs DEF Established, At
    <2> QED
      BY <1>1, <2>1, <2>3, <2>4 DEF Moves
  <1> QED
    BY <1>4, <1>5

\* Going to another step keeps what had been established.
LEMMA GotoKeeps ==
  ASSUME InstallInv, NEW p \in Installers, inst[p].step # "idle",
         NEW step \in {"check", "download"}, Goto(p, step)
  PROVE  Moves(p) /\ Established(inst'[p], file, want)
  <1>1. inst \in [Installers -> Record] /\ inst[p] \in Record
    BY DEF InstallInv, TypeOK, Record
  <1>2. Moves(p)
    BY <1>1 DEF Goto, Moves, Record
  <1>3. inst'[p].step = step /\ inst'[p].group = inst[p].group
    BY <1>1 DEF Goto, Record
  <1>4. Established(inst[p], file, want)
    BY DEF InstallInv
  <1> QED
    BY <1>2, <1>3, <1>4 DEF Established

\* Coming to rest.
LEMMA StopRests ==
  ASSUME InstallInv, NEW p \in Installers, Stop(p, "idle"), UNCHANGED <<file, want>>
  PROVE  InstallInv'
  <1>1. inst \in [Installers -> Record]
    BY DEF InstallInv, TypeOK, Record
  <1>2. At("idle", 1) \in Record /\ At("idle", 1).step = "idle" /\ At("idle", 1).group = 1
    BY PlanIs DEF Record, At
  <1>3. Moves(p) /\ inst'[p].step = "idle" /\ inst'[p].group = 1
    BY <1>1, <1>2 DEF Stop, Moves
  <1> QED
    BY <1>3, RestEstablishes, QuietStep

\* Only while nobody installs can another version be configured.
LEMMA ReconfigureStep ==
  ASSUME InstallInv, Reconfigure PROVE InstallInv'
  <1>1. Idle \in Record /\ Idle.step = "idle" /\ Idle.group = 1
    BY PlanIs DEF Record, Idle, At
  <1>2. TypeOK'
    BY <1>1 DEF InstallInv, TypeOK, Reconfigure, Record
  <1>3. ASSUME NEW p \in Installers PROVE Established(inst'[p], file', want')
    <2>1. inst'[p] = Idle
      BY DEF Reconfigure
    <2> QED
      BY <1>1, <2>1, RestEstablishes
  <1> QED
    BY <1>2, <1>3 DEF InstallInv

\* An installer begins at the first download: nothing is before it.
LEMMA BeginStep ==
  ASSUME InstallInv, NEW p \in Installers, Begin(p) PROVE InstallInv'
  <1>1. inst \in [Installers -> Record] /\ inst[p] \in Record
    BY DEF InstallInv, TypeOK, Record
  <1>2. Moves(p)
    BY <1>1 DEF Begin, Goto, Moves, Record
  <1>3. inst'[p].step = "check" /\ inst'[p].group = 1
    BY <1>1 DEF Begin, Goto, Record, InstallInv, Established
  <1>4. Established(inst'[p], file, want)
    BY <1>3, PlanIs DEF Established
  <1> QED
    BY <1>2, <1>4, QuietStep DEF Begin

\* A download is accepted when its tools are there: all that run, or the one with the checksum.
LEMMA AcceptStep ==
  ASSUME InstallInv, NEW p \in Installers, AcceptArchive(p) \/ AcceptBinary(p)
  PROVE  InstallInv'
  <1>1. /\ inst[p].step = "check" /\ NextGroup(p) /\ UNCHANGED <<file, want>>
        /\ inst[p].group \in 1..Len(Plan) /\ Len(Group(p)) \in Nat \ {0}
    BY PlanIs DEF AcceptArchive, AcceptBinary, InstallInv, TypeOK, Group
  <1>2. ASSUME NEW i \in 1..Len(Group(p)) PROVE Good(Group(p)[i], file, want)
    <2>1. CASE AcceptArchive(p)
      <3>1. Group(p)[i] \notin Pinned
        BY <1>1, <2>1, PlanIs DEF AcceptArchive, Group
      <3>2. Runs(Group(p)[i])
        BY <2>1 DEF AcceptArchive, Members
      <3> QED
        BY <3>1, <3>2 DEF Good, Runs
    <2>2. CASE AcceptBinary(p)
      <3>1. Len(Group(p)) = 1
        BY <1>1, <2>2, PlanIs DEF AcceptBinary, Group
      <3>2. i = 1
        BY <3>1
      <3> QED
        BY <2>2, <3>2 DEF AcceptBinary, Good, Matches
    <2> QED
      BY <2>1, <2>2
  <1>3. GoodBefore(inst[p].group, Len(Group(p)) + 1, file, want)
    BY <1>2 DEF GoodBefore, Group
  <1>4. Moves(p) /\ Established(inst'[p], file, want)
    BY <1>1, <1>3, NextIsEstablished
  <1> QED
    BY <1>1, <1>4, QuietStep

\* What arrives is what was asked for or something else, and only the former is verified.
LEMMA DownloadStep ==
  ASSUME InstallInv, NEW p \in Installers, Download(p) \/ Verify(p)
  PROVE  InstallInv'
  <1>1. /\ inst \in [Installers -> Record] /\ inst[p] \in Record /\ want \in Versions
        /\ inst[p].step \in {"download", "verify"} /\ UNCHANGED <<file, want>>
        /\ inst[p].group \in 1..Len(Plan)
    BY DEF InstallInv, TypeOK, Record, Download, Verify
  <1>2. Established(inst[p], file, want)
    BY DEF InstallInv
  <1>3. CASE Download(p)
    <2>1. PICK c \in {want, "bad"} :
            inst' = [inst EXCEPT ![p].step = "verify", ![p].content = c]
      BY <1>3 DEF Download
    <2>2. Moves(p)
      BY <1>1, <2>1 DEF Moves, Record
    <2>3. /\ inst'[p].step = "verify" /\ inst'[p].content \in {want, "bad"}
          /\ inst'[p].group = inst[p].group
      BY <1>1, <2>1 DEF Record
    <2>4. Established(inst'[p], file, want)
      BY <1>1, <1>2, <2>3 DEF Established
    <2> QED
      BY <1>1, <2>2, <2>4, QuietStep
  <1>4. CASE Verify(p)
    <2>1. Moves(p)
      <3> DEFINE m == [inst[p] EXCEPT !.step = "write"]
                 n == [m EXCEPT !.entry = 1]
      <3>1. n \in Record
        <4>1. m \in Record
          BY <1>1 DEF Record
        <4> HIDE DEF m
        <4> QED
          BY <4>1 DEF Record
      <3>2. inst' = [inst EXCEPT ![p] = n]
        BY <1>1, <1>4 DEF Verify
      <3> QED
        BY <1>1, <3>1, <3>2 DEF Moves
    <2>2. /\ inst'[p].step = "write" /\ inst'[p].content = inst[p].content
          /\ inst'[p].entry = 1 /\ inst'[p].group = inst[p].group
      BY <1>1, <1>4 DEF Record, Verify
    <2>3. inst[p].content = want
      BY <1>2, <1>4 DEF Verify, Established
    <2>4. 1 \in 1..Len(Plan[inst[p].group]) /\ GoodBefore(inst[p].group, 1, file, want)
      BY <1>1, PlanIs DEF GoodBefore
    <2>5. Established(inst'[p], file, want)
      BY <1>1, <1>2, <2>2, <2>3, <2>4 DEF Established
    <2> QED
      BY <1>1, <2>1, <2>5, QuietStep
  <1> QED
    BY <1>3, <1>4

\* A tool is renamed into place.
LEMMA WriteStep ==
  ASSUME InstallInv, NEW p \in Installers, WriteEntry(p) \/ CommitBinary(p)
  PROVE  InstallInv' /\ \A t \in Tools : file'[t] = file[t] \/ file'[t] = want
  <1> DEFINE k == inst[p].entry
             t0 == Group(p)[k]
  <1>1. /\ inst \in [Installers -> Record] /\ inst[p] \in Record /\ want \in Versions
        /\ inst[p].step = "write" /\ UNCHANGED want
        /\ inst[p].group \in 1..Len(Plan)
        /\ file \in [Tools -> Versions \cup {"none", "bad"}]
    BY DEF InstallInv, TypeOK, Record, WriteEntry, CommitBinary
  <1>2. Established(inst[p], file, want)
    BY DEF InstallInv
  <1>3. /\ inst[p].content = want /\ k \in 1..Len(Group(p)) /\ Len(Group(p)) \in Nat \ {0}
        /\ GoodBefore(inst[p].group, k, file, want)
    BY <1>1, <1>2, PlanIs DEF Established, Group
  <1>4. t0 \in Tools /\ file' = [file EXCEPT ![t0] = want]
    <2>1. t0 \in Tools
      BY <1>1, <1>3, PlanIs DEF Group
    <2>2. CASE WriteEntry(p)
      BY <1>3, <2>1, <2>2 DEF WriteEntry
    <2>3. CASE CommitBinary(p)
      <3>1. Len(Group(p)) = 1
        BY <1>1, <1>3, <2>3, PlanIs DEF CommitBinary, Group
      <3>2. k = 1
        BY <1>3, <3>1
      <3> QED
        BY <1>3, <2>1, <2>3, <3>2 DEF CommitBinary
    <2> QED
      BY <2>2, <2>3
  <1>5. /\ file' \in [Tools -> Versions \cup {"none", "bad"}]
        /\ \A t \in Tools : file'[t] = file[t] \/ file'[t] = want
    BY <1>1, <1>4
  <1>6. Good(t0, file', want)
    BY <1>1, <1>4 DEF Good
  <1>7. GoodBefore(inst[p].group, k + 1, file', want)
    <2> SUFFICES ASSUME NEW i \in 1..Len(Plan[inst[p].group]), i < k + 1
                 PROVE  Good(Plan[inst[p].group][i], file', want)
      BY DEF GoodBefore
    <2>1. CASE i = k
      BY <1>6, <2>1 DEF Group
    <2>2. CASE i # k
      <3>1. i < k /\ Plan[inst[p].group][i] \in Tools
        BY <1>1, <1>3, <2>2, PlanIs
      <3>2. Good(Plan[inst[p].group][i], file, want)
        BY <1>3, <3>1 DEF GoodBefore
      <3> QED
        BY <1>1, <1>5, <3>1, <3>2, GoodStays
    <2> QED
      BY <2>1, <2>2
  <1>8. CASE NextGroup(p) /\ k = Len(Group(p))
    <2>1. Moves(p) /\ Established(inst'[p], file', want)
      BY <1>1, <1>5, <1>7, <1>8, NextIsEstablished
    <2> QED
      BY <1>1, <1>5, <2>1, SoundStep
  <1>9. CASE k # Len(Group(p)) /\ inst' = [inst EXCEPT ![p].entry = @ + 1]
    <2>1. Moves(p)
      <3> DEFINE n == [inst[p] EXCEPT !.entry = k + 1]
      <3>1. n \in Record
        BY <1>1, <1>3 DEF Record
      <3>2. inst' = [inst EXCEPT ![p] = n]
        BY <1>1, <1>9
      <3> QED
        BY <1>1, <3>1, <3>2 DEF Moves
    <2>2. /\ inst'[p].step = "write" /\ inst'[p].content = want
          /\ inst'[p].entry = k + 1 /\ inst'[p].group = inst[p].group
      BY <1>1, <1>3, <1>9 DEF Record
    <2>3. Established(inst[p], file', want)
      BY <1>1, <1>2, <1>5, EstablishedStays
    <2>4. k + 1 \in 1..Len(Plan[inst[p].group])
      BY <1>3, <1>9 DEF Group
    <2>5. Established(inst'[p], file', want)
      BY <1>1, <1>7, <2>2, <2>3, <2>4 DEF Established
    <2> QED
      BY <1>1, <1>5, <2>1, <2>5, SoundStep
  <1>10. \/ NextGroup(p) /\ k = Len(Group(p))
         \/ k # Len(Group(p)) /\ inst' = [inst EXCEPT ![p].entry = @ + 1]
    <2>1. CASE WriteEntry(p)
      BY <2>1 DEF WriteEntry
    <2>2. CASE CommitBinary(p)
      <3>1. Len(Group(p)) = 1
        BY <1>1, <1>3, <2>2, PlanIs DEF CommitBinary, Group
      <3> QED
        BY <1>3, <2>2, <3>1 DEF CommitBinary
    <2> QED
      BY <2>1, <2>2
  <1> QED
    BY <1>5, <1>8, <1>9, <1>10

----------------------------------------------------------------------------
(* The installation *)

\* Every step of an installer keeps what all of them have established.
LEMMA InstallNext ==
  ASSUME InstallInv, [Next]_vars
  PROVE  InstallInv' /\ \A t \in Tools : file'[t] # file[t] => file'[t] = want
  <1>1. CASE UNCHANGED vars
    <2>1. InstallInv'
      BY <1>1 DEF vars, InstallInv, TypeOK
    <2> QED
      BY <1>1, <2>1 DEF vars
  <1>2. CASE Reconfigure
    BY <1>2, ReconfigureStep DEF Reconfigure
  <1>3. ASSUME NEW p \in Installers,
               \/ Begin(p) \/ AcceptArchive(p) \/ RejectArchive(p) \/ AcceptBinary(p)
               \/ RejectBinary(p) \/ Download(p) \/ Verify(p) \/ InstallFails(p) \/ Crash(p)
        PROVE  InstallInv' /\ UNCHANGED file
    <2>1. CASE Begin(p)
      BY <2>1, BeginStep DEF Begin
    <2>2. CASE AcceptArchive(p) \/ AcceptBinary(p)
      BY <2>2, AcceptStep DEF AcceptArchive, AcceptBinary
    <2>3. CASE RejectArchive(p) \/ RejectBinary(p)
      <3>1. Moves(p) /\ Established(inst'[p], file, want)
        BY <2>3, GotoKeeps DEF RejectArchive, RejectBinary
      <3> QED
        BY <2>3, <3>1, QuietStep DEF RejectArchive, RejectBinary
    <2>4. CASE Download(p) \/ Verify(p)
      BY <2>4, DownloadStep DEF Download, Verify
    <2>5. CASE InstallFails(p) \/ Crash(p)
      BY <2>5, StopRests DEF InstallFails, Crash
    <2> QED
      BY <1>3, <2>1, <2>2, <2>3, <2>4, <2>5
  <1>4. ASSUME NEW p \in Installers, WriteEntry(p) \/ CommitBinary(p)
        PROVE  InstallInv' /\ \A t \in Tools : file'[t] = file[t] \/ file'[t] = want
    BY <1>4, WriteStep
  <1> QED
    BY <1>1, <1>2, <1>3, <1>4 DEF Next

\* Nothing is installed at first, and nobody claims otherwise.
LEMMA InstallInit == ASSUME Init PROVE InstallInv
  <1>1. Idle \in Record /\ Idle.step = "idle" /\ Idle.group = 1
    BY PlanIs DEF Record, Idle, At
  <1>2. TypeOK
    BY <1>1 DEF Init, TypeOK, Record
  <1> QED
    BY <1>1, <1>2, RestEstablishes DEF Init, InstallInv

\* What an installer has verified, written and passed over holds at every step of all of them.
THEOREM InstallInvariant == Spec => []InstallInv
  <1>1. InstallInv /\ [Next]_vars => InstallInv'
    BY InstallNext
  <1> QED
    BY <1>1, InstallInit, PTL DEF Spec

\* An installation that has returned left every tool there, and the pinned ones in the
\* configured version (installTools), for any plan of downloads and any number of installers.
THEOREM ToolsInstalledAreUsable == Spec => []InstalledIsUsable
  <1>1. InstallInv => InstalledIsUsable
    BY DoneIsUsable
  <1> QED
    BY <1>1, InstallInvariant, PTL

\* No step of an installer replaces a tool by anything but what is configured and verified
\* (writeExecutableAtomic, downloadBinary).
THEOREM ToolsAreNeverDegraded == Spec => NeverDegraded
  <1> DEFINE Kept == \A t \in Tools : file'[t] # file[t] => file'[t] = want
  <1>1. InstallInv /\ [Next]_vars => [Kept]_vars
    BY InstallNext
  <1> HIDE DEF Kept
  <1>2. Spec => [][Kept]_vars
    BY <1>1, InstallInvariant, PTL DEF Spec
  <1> QED
    BY <1>2 DEF NeverDegraded, Kept

----------------------------------------------------------------------------
(* The build *)

\* No daemon and no goroutine before Build starts them.
LEMMA BuildInit == ASSUME Build!Init PROVE BuildInv
  BY DEF Build!Init, BuildInv, Build!TypeOK, Build!Up

\* Build itself up to its stop: the goroutine is there from the daemon's start on.
LEMMA BuildingStep == ASSUME BuildInv, Build!Building PROVE BuildInv'
  <1> USE DEF BuildInv, Build!TypeOK, Build!Up, Build!Goto, Build!Fail, Build!process
  <1>1. CASE Build!StartDaemon
    BY <1>1 DEF Build!StartDaemon
  <1>2. CASE Build!StartFails
    BY <1>2 DEF Build!StartFails
  <1>3. CASE Build!Ready
    BY <1>3 DEF Build!Ready
  <1>4. CASE Build!NotReady
    BY <1>4 DEF Build!NotReady
  <1>5. CASE Build!DaemonExited
    BY <1>5 DEF Build!DaemonExited
  <1>6. CASE Build!GiveUp
    BY <1>6 DEF Build!GiveUp
  <1>7. CASE Build!Tick
    BY <1>7 DEF Build!Tick
  <1>8. CASE Build!RunBuildctl
    BY <1>8 DEF Build!RunBuildctl
  <1>9. CASE Build!BuildctlFails
    BY <1>9 DEF Build!BuildctlFails
  <1>10. CASE Build!Extract
    BY <1>10 DEF Build!Extract
  <1>11. CASE Build!ExtractFails
    BY <1>11 DEF Build!ExtractFails
  <1> QED
    BY <1>1, <1>2, <1>3, <1>4, <1>5, <1>6, <1>7, <1>8, <1>9, <1>10, <1>11 DEF Build!Building

\* stop ends only when the goroutine has seen the daemon's end, and only then the
\* directories are removed.
LEMMA StoppingStep == ASSUME BuildInv, Build!Stopping PROVE BuildInv'
  <1> USE DEF BuildInv, Build!TypeOK, Build!Up, Build!Goto, Build!Return, Build!process
  <1>1. CASE Build!StopDaemon
    BY <1>1 DEF Build!StopDaemon
  <1>2. CASE Build!DaemonStopped
    BY <1>2 DEF Build!DaemonStopped
  <1>3. CASE Build!KillDaemon
    BY <1>3 DEF Build!KillDaemon
  <1>4. CASE Build!CleanUp
    BY <1>4 DEF Build!CleanUp
  <1>5. CASE Build!CleanUpFails
    BY <1>5 DEF Build!CleanUpFails
  <1> QED
    BY <1>1, <1>2, <1>3, <1>4, <1>5 DEF Build!Stopping

\* The caller, the daemon and the goroutine, at any time.
LEMMA OutsideStep ==
  ASSUME BuildInv,
         \/ Build!Refuse \/ Build!MakeDirectories \/ Build!Cancel \/ Build!DaemonServes
         \/ Build!DaemonExits \/ Build!DaemonIsKilled \/ Build!Reaped \/ Build!Sent
  PROVE  BuildInv'
  <1> USE DEF BuildInv, Build!TypeOK, Build!Up, Build!Goto, Build!Return, Build!process,
              Build!build
  <1>1. CASE Build!Refuse
    BY <1>1 DEF Build!Refuse
  <1>2. CASE Build!MakeDirectories
    BY <1>2 DEF Build!MakeDirectories
  <1>3. CASE Build!Cancel
    BY <1>3 DEF Build!Cancel
  <1>4. CASE Build!DaemonServes
    BY <1>4 DEF Build!DaemonServes
  <1>5. CASE Build!DaemonExits
    BY <1>5 DEF Build!DaemonExits
  <1>6. CASE Build!DaemonIsKilled
    BY <1>6 DEF Build!DaemonIsKilled
  <1>7. CASE Build!Reaped
    BY <1>7 DEF Build!Reaped
  <1>8. CASE Build!Sent
    BY <1>8 DEF Build!Sent
  <1> QED
    BY <1>1, <1>2, <1>3, <1>4, <1>5, <1>6, <1>7, <1>8

\* Build, the goroutine and the daemon, in any order.
LEMMA BuildNext == ASSUME BuildInv, Build!Next PROVE BuildInv'
  BY BuildingStep, StoppingStep, OutsideStep DEF Build!Next

\* What others do leaves a build as it is.
LEMMA BuildStutter == ASSUME BuildInv, UNCHANGED buildVars PROVE BuildInv'
  BY DEF BuildInv, buildVars, Build!TypeOK, Build!Up

----------------------------------------------------------------------------
(* The builder *)

\* A builder's steps are steps of the installation, and of the build, or change neither.
LEMMA HostStep ==
  ASSUME [HostNext]_hostVars
  PROVE  [Next]_vars /\ [Build!Next]_Build!vars
  <1>1. CASE BuildStep
    BY <1>1 DEF BuildStep
  <1>2. CASE InstallStep
    BY <1>2 DEF InstallStep, buildVars, Build!vars, Build!build, Build!process
  <1>3. CASE UNCHANGED hostVars
    BY <1>3 DEF hostVars, buildVars, Build!vars, Build!build, Build!process
  <1> QED
    BY <1>1, <1>2, <1>3 DEF HostNext

\* Running builds beside installers adds nothing to what either may do: the composition
\* implements the installation (installTools) and the build (Builder.Build) both.
THEOREM BuilderImplementsBoth == HostSpec => Spec /\ Build!Spec
  <1>1. HostInit => Init /\ Build!Init
    BY DEF HostInit
  <1>2. [HostNext]_hostVars => [Next]_vars /\ [Build!Next]_Build!vars
    BY HostStep
  <1> QED
    BY <1>1, <1>2, PTL DEF HostSpec, Spec, Build!Spec

\* New has returned before Build runs, and its installation stays the one that was done.
LEMMA ActiveStep ==
  ASSUME Active => Constructed, [HostNext]_hostVars
  PROVE  (Active => Constructed)'
  <1>1. CASE BuildStep
    BY <1>1 DEF BuildStep, Constructed, vars
  <1>2. CASE InstallStep
    BY <1>2 DEF InstallStep, Active, Constructed, buildVars
  <1>3. CASE UNCHANGED hostVars
    BY <1>3 DEF hostVars, vars, buildVars, Active, Constructed
  <1> QED
    BY <1>1, <1>2, <1>3 DEF HostNext

\* What holds between the tools, their installers, a build and its daemon at every step.
THEOREM BuilderInvariant == HostSpec => []HostInv
  <1>1. HostInit => HostInv
    BY InstallInit, BuildInit DEF HostInit, HostInv, Active, Build!Init
  <1>2. HostInv /\ [HostNext]_hostVars => HostInv'
    <2> SUFFICES ASSUME HostInv, [HostNext]_hostVars PROVE HostInv'
      OBVIOUS
    <2>1. InstallInv'
      BY HostStep, InstallNext DEF HostInv
    <2>2. BuildInv'
      <3>1. Build!Next \/ UNCHANGED buildVars
        BY HostStep DEF buildVars, Build!vars, Build!build, Build!process
      <3> QED
        BY <3>1, BuildNext, BuildStutter DEF HostInv
    <2>3. (Active => Constructed)'
      BY ActiveStep DEF HostInv
    <2> QED
      BY <2>1, <2>2, <2>3 DEF HostInv
  <1> QED
    BY <1>1, <1>2, PTL DEF HostSpec

\* Every tool a running build may start is there, in the configured version if it is pinned,
\* whatever other installers do or fail at (New, installTools, Build).
THEOREM BuilderToolsAreSound == HostSpec => []ToolsAreSound
  <1>1. HostInv => ToolsAreSound
    <2> SUFFICES ASSUME HostInv PROVE ToolsAreSound
      OBVIOUS
    <2>1. TypeOK /\ Build!TypeOK /\ InstalledIsUsable
      BY DoneIsUsable DEF HostInv, InstallInv, BuildInv
    <2>2. ToolsServeBuild
      <3> SUFFICES ASSUME Active, NEW t \in Tools
                   PROVE  Runs(t) /\ (t \in Pinned => Matches(t))
        BY DEF ToolsServeBuild
      <3>1. file[t] \in IF t \in Pinned THEN {want} ELSE Versions
        BY <2>1, SelfAssumption DEF HostInv, Constructed, InstalledIsUsable
      <3> QED
        BY <2>1, <3>1 DEF Runs, Matches, TypeOK
    <2> QED
      BY <2>1, <2>2 DEF ToolsAreSound, HostTypeOK
  <1> QED
    BY <1>1, BuilderInvariant, PTL

\* The directories are removed, or their removal fails, only after the daemon that writes to
\* them is gone (daemonProcess.stop before cleanup).
THEOREM BuilderDirsOutliveDaemon == HostSpec => []DirsOutliveDaemon
  <1>1. HostInv => DirsOutliveDaemon
    BY DEF HostInv, BuildInv, DirsOutliveDaemon, Build!DirsOutliveDaemon
  <1> QED
    BY <1>1, BuilderInvariant, PTL

\* Build returns no error only with a whole layout, its directories and its daemon gone.
THEOREM BuilderSuccessIsClean == HostSpec => []SuccessIsClean
  <1>1. HostInv => SuccessIsClean
    BY DEF HostInv, BuildInv, SuccessIsClean, Build!SuccessIsClean
  <1> QED
    BY <1>1, BuilderInvariant, PTL

\* A build never sees a tool replaced by anything but what is configured and verified.
THEOREM BuilderToolsAreNeverDegraded == HostSpec => NeverDegraded
  BY BuilderImplementsBoth, ToolsAreNeverDegraded, PTL
=============================================================================
