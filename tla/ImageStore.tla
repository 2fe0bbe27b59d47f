----------------------------- MODULE ImageStore -----------------------------
(***************************************************************************)
(* The image store (pkg/image/internal/store and .../metadata): one shared *)
(* OCI layout whose index.json and blobs are replaced by renames, and one  *)
(* metadata record per image. Pull, Build and Remove run concurrently in   *)
(* one process under Store.mu; List and the provisioner read the files     *)
(* without it, and a crash can fall between any two writes.                *)
(*                                                                         *)
(* A request is for a canonical reference and a platform, an index.json is *)
(* a set of descriptors, a digest stands for the blob that has it, and     *)
(* Children[d] for the descriptors a manifest or an index lists. Every     *)
(* blob has size one.                                                      *)
(***************************************************************************)
EXTENDS Naturals, Sequences, FiniteSets

CONSTANTS
  Refs,      \* requests: records of a name, the canonical reference, and a platform
  Workers,   \* concurrent callers of one Store
  Digests,   \* all blobs there are
  Children,  \* the descriptors a blob lists, in order
  Layouts,   \* the index.json a registry or a build may deliver
  Troubles,  \* which of "crash", "cancel", "failure" may happen
  None       \* no record, no image, nobody; no name or platform in a descriptor

Record == [digest: Digests, size: Nat]

ASSUME ImageAssumption ==
  /\ Refs # {}
  /\ \A r, s \in Refs : r.name = s.name /\ r.platform = s.platform => r = s
  /\ \A r \in Refs : r.platform # None
  /\ IsFiniteSet(Digests)
  /\ \A l \in Layouts : l # {} /\ IsFiniteSet(l) /\ \A e \in l : e.digest \in Digests
  /\ Children \in [Digests -> Seq(Digests)]
  /\ Troubles \subseteq {"crash", "cancel", "failure"}
  /\ None \notin Workers \cup Digests \cup Record

VARIABLES
  opened,   \* whether this process has a Store: "no", "creating", "yes"
  layout,   \* the oci-layout file
  blobs,    \* layout/blobs
  index,    \* the manifests of layout/index.json
  records,  \* metadata/images
  mu,       \* who holds Store.mu
  buildMu,  \* who holds Store.buildMu
  work      \* what each caller is executing; blind: it failed to read a record that is there

vars == <<opened, layout, blobs, index, records, mu, buildMu, work>>
disk == <<layout, blobs, index, records>>

Ops == {"none", "missing", "always", "build", "remove"}  \* Pull by policy, Build, Remove
Steps == {"idle", "check", "fetch", "building", "lock", "recheck", "validate", "copy", "index",
          "record", "delete", "unindex"}
Results == {"none", "ok", "error", "invalid"}

Idle == [op |-> "none", ref |-> CHOOSE r \in Refs : TRUE, step |-> "idle", image |-> None,
         todo |-> <<>>, seen |-> {}, size |-> 0, blind |-> FALSE, result |-> "none"]

Init ==
  /\ opened = "no" /\ layout = "none"
  /\ blobs = {} /\ index = {}
  /\ records = [r \in Refs |-> None]
  /\ mu = None /\ buildMu = None
  /\ work = [w \in Workers |-> Idle]

\* With each blob of a set the blobs it lists.
Closed(set) == \A d \in set : \A k \in DOMAIN Children[d] : Children[d][k] \in set

\* Everything below each blob, itself included.
Below == [image \in Digests |->
            {d \in Digests : \A set \in SUBSET Digests : image \in set /\ Closed(set) => d \in set}]
Reach(image) == Below[image]

\* platformMatches: a descriptor without a platform matches none.
Matching(l, r) == {e \in l : e.platform = r.platform}
Named(l, r) == {e \in Matching(l, r) : e.name = r.name}

\* selectDescriptor: the manifest of this name and platform; if no name fits, the one of this
\* platform; if that is not unique, the only one there is, whatever its platform.
Candidates(l, r) ==
  IF Named(l, r) # {} THEN Named(l, r)
  ELSE IF Cardinality(Matching(l, r)) = 1 THEN Matching(l, r) ELSE l

Select(l, r) ==
  IF Cardinality(Candidates(l, r)) = 1 THEN (CHOOSE e \in Candidates(l, r) : TRUE).digest ELSE None

\* descriptorForCommit: name and platform become the requested ones.
Entry(r, d) == [name |-> r.name, platform |-> r.platform, digest |-> d]

Goto(w, step) == work' = [work EXCEPT ![w].step = step]

\* The deferred unlocks, and the result.
Return(w, how) ==
  /\ work' = [work EXCEPT ![w] = [Idle EXCEPT !.ref = work[w].ref, !.image = work[w].image,
                                              !.result = how]]
  /\ mu' = IF mu = w THEN None ELSE mu
  /\ buildMu' = IF buildMu = w THEN None ELSE buildMu
-----------------------------------------------------------------------------
(* Opening the store *)

\* initializeStoreLayout: oci-layout is created and then written, index.json comes into being
\* by a rename.
CreateLayout ==
  /\ opened = "no" /\ layout = "none"
  /\ opened' = "creating" /\ layout' = "torn"
  /\ UNCHANGED <<blobs, index, records, mu, buildMu, work>>

WriteLayout ==
  /\ opened = "creating" /\ layout = "torn"
  /\ layout' = "written"
  /\ UNCHANGED <<opened, blobs, index, records, mu, buildMu, work>>

OpenFails ==
  /\ opened = "creating" /\ "failure" \in Troubles
  /\ opened' = "no"
  /\ UNCHANGED <<disk, mu, buildMu, work>>

\* validateStoreLayout accepts no other file.
Open ==
  /\ opened # "yes" /\ layout = "written"
  /\ opened' = "yes"
  /\ UNCHANGED <<disk, mu, buildMu, work>>

\* New refuses a layout file left half written for ever: "Callers also own cleanup after a
\* process crash".
CallerCleansUp ==
  /\ opened = "no" /\ layout = "torn"
  /\ layout' = "none"
  /\ UNCHANGED <<opened, blobs, index, records, mu, buildMu, work>>
-----------------------------------------------------------------------------
(* Pull, Build *)

Begin(w, op, r) ==
  /\ opened = "yes" /\ work[w].op = "none" /\ op # "none"
  /\ work' = [work EXCEPT ![w] = [Idle EXCEPT !.op = op, !.ref = r,
                 !.step = CASE op = "missing" -> "check"
                            [] op = "always" -> "fetch"
                            [] op = "build" -> "building"
                            [] op = "remove" -> "lock"]]
  /\ UNCHANGED <<opened, disk, mu, buildMu>>

\* existingValidImage: the record, its descriptor in the index, and all blobs below it.
HasRecord(r) == records[r] # None
\* A faulty variant: the record alone is believed.
FaultyValid(r) == records[r] # None

Valid(r) ==
  /\ HasRecord(r)
  /\ Entry(r, records[r].digest) \in index
  /\ Reach(records[r].digest) \subseteq blobs

\* Any error but an invalid layout counts as a missing image.
Unreadable == "failure" \in Troubles

Reuse(w) ==
  work' = [work EXCEPT ![w] = [Idle EXCEPT !.ref = work[w].ref,
                                           !.image = records[work[w].ref].digest, !.result = "ok"]]

\* PullIfMissing looks first under the mutex, which it then gives back for the download.
Check(w) ==
  /\ work[w].step = "check" /\ mu = None
  /\ LET r == work[w].ref IN
       \/ (~HasRecord(r) \/ Unreadable) /\ Goto(w, "fetch") /\ UNCHANGED <<mu, buildMu>>
       \/ Valid(r) /\ Reuse(w) /\ UNCHANGED <<mu, buildMu>>
       \/ HasRecord(r) /\ ~Valid(r) /\ Return(w, "invalid")
  /\ UNCHANGED <<opened, disk>>

\* registry.Pull or BuildKit fills a private temporary layout, and a tag may have moved since
\* the last time; image is what the commit will select in it.
Fetch(w, l) ==
  /\ work[w].step = "fetch"
  /\ work' = [work EXCEPT ![w].image = Select(l, work[w].ref), ![w].step = "lock"]
  /\ UNCHANGED <<opened, disk, mu, buildMu>>

LockBuild(w) ==
  /\ work[w].step = "building" /\ buildMu = None
  /\ buildMu' = w
  /\ Goto(w, "fetch")
  /\ UNCHANGED <<opened, disk, mu>>

Lock(w) ==
  /\ work[w].step = "lock" /\ mu = None
  /\ mu' = w
  /\ Goto(w, CASE work[w].op = "missing" -> "recheck"
               [] work[w].op = "remove" -> "delete"
               [] OTHER -> "validate")
  /\ UNCHANGED <<opened, disk, buildMu>>

\* A faulty variant: the image is committed without a second look.
FaultyRecheck(w) ==
  /\ work[w].step = "recheck"
  /\ Goto(w, "validate")
  /\ UNCHANGED <<opened, disk, mu, buildMu>>

\* Somebody may have committed the image during the download.
Recheck(w) ==
  /\ work[w].step = "recheck"
  /\ LET r == work[w].ref IN
       \/ /\ ~HasRecord(r) \/ Unreadable
          /\ work' = [work EXCEPT ![w].step = "validate", ![w].blind = HasRecord(r)]
          /\ UNCHANGED <<mu, buildMu>>
       \/ Valid(r) /\ Reuse(w) /\ mu' = None /\ UNCHANGED buildMu
       \/ HasRecord(r) /\ ~Valid(r) /\ Return(w, "invalid")
  /\ UNCHANGED <<opened, disk>>
-----------------------------------------------------------------------------
(* commitLayout, under mu *)

\* The directory is synced after the rename, and an error of that is returned too.
Outcomes == {"ok"} \cup IF "failure" \in Troubles THEN {"error"} ELSE {}

Validate(w) ==
  /\ work[w].step = "validate"
  /\ IF work[w].image = None
     THEN Return(w, "error")
     ELSE /\ work' = [work EXCEPT ![w].step = "copy", ![w].todo = <<work[w].image>>]
          /\ UNCHANGED <<mu, buildMu>>
  /\ UNCHANGED <<opened, disk>>

\* A faulty variant: a blob that is there is taken for a complete image.
FaultySkipPresent(w) ==
  /\ work[w].step = "copy" /\ work[w].todo # <<>>
  /\ LET d == Head(work[w].todo)
         done == IF d \in blobs THEN Reach(d) ELSE {d}
     IN IF d \in work[w].seen
        THEN /\ work' = [work EXCEPT ![w].todo = Tail(@)]
             /\ UNCHANGED blobs
        ELSE /\ work' = [work EXCEPT ![w].todo = (IF d \in blobs THEN <<>> ELSE Children[d]) \o Tail(@),
                                     ![w].size = @ + Cardinality(done \ work[w].seen),
                                     ![w].seen = @ \cup done]
             /\ blobs' = blobs \cup {d}
  /\ UNCHANGED <<opened, layout, index, records, mu, buildMu>>

\* copyDescriptorGraph: parents before children, each digest once.
CopyBlob(w) ==
  /\ work[w].step = "copy" /\ work[w].todo # <<>>
  /\ LET d == Head(work[w].todo) IN
       IF d \in work[w].seen
       THEN /\ work' = [work EXCEPT ![w].todo = Tail(@)]
            /\ UNCHANGED blobs
       ELSE /\ work' = [work EXCEPT ![w].todo = Children[d] \o Tail(@),
                                    ![w].seen = @ \cup {d}, ![w].size = @ + 1]
            /\ blobs' = blobs \cup {d}
  /\ UNCHANGED <<opened, layout, index, records, mu, buildMu>>

Copied(w) ==
  /\ work[w].step = "copy" /\ work[w].todo = <<>>
  /\ Goto(w, "index")
  /\ UNCHANGED <<opened, disk, mu, buildMu>>

Without(r) == {e \in index : e.name # r.name \/ e.platform \notin {None, r.platform}}

WriteIndex(w) ==
  /\ work[w].step = "index"
  /\ index' = Without(work[w].ref) \cup {Entry(work[w].ref, work[w].image)}
  /\ Goto(w, "record")
  /\ UNCHANGED <<opened, layout, blobs, records, mu, buildMu>>

PutRecord(w) ==
  /\ work[w].step = "record"
  /\ records' = [records EXCEPT ![work[w].ref] = [digest |-> work[w].image, size |-> work[w].size]]
  /\ \E how \in Outcomes : Return(w, how)
  /\ UNCHANGED <<opened, layout, blobs, index>>
-----------------------------------------------------------------------------
(* Remove, under mu *)

\* A faulty variant: the index entry goes first, the record after it.
FaultyDeleteRecord(w) ==
  /\ work[w].step = "delete"
  /\ index' = Without(work[w].ref)
  /\ Goto(w, "unindex")
  /\ UNCHANGED <<opened, layout, blobs, records, mu, buildMu>>

DeleteRecord(w) ==
  /\ work[w].step = "delete"
  /\ records' = [records EXCEPT ![work[w].ref] = None]
  /\ Goto(w, "unindex")
  /\ UNCHANGED <<opened, layout, blobs, index, mu, buildMu>>

RemoveFromIndex(w) ==
  /\ work[w].step = "unindex"
  /\ index' = Without(work[w].ref)
  /\ \E how \in Outcomes : Return(w, how)
  /\ UNCHANGED <<opened, layout, blobs, records>>
-----------------------------------------------------------------------------
\* A failed step leaves its file as it was, or as the next step finds it. A cancelled context
\* is noticed by the download, the validation, between two blobs and by the metadata, not by
\* the writing of the index.
Fail(w) ==
  /\ \/ "failure" \in Troubles /\ work[w].step \notin {"idle", "check", "lock", "recheck"}
     \/ "cancel" \in Troubles /\ work[w].step \in {"fetch", "validate", "copy", "record", "delete"}
  /\ Return(w, "error")
  /\ UNCHANGED <<opened, disk>>

Crash ==
  /\ "crash" \in Troubles
  /\ opened' = "no"
  /\ mu' = None /\ buildMu' = None
  /\ work' = [w \in Workers |-> Idle]
  /\ UNCHANGED disk

Step(w) ==
  \/ Check(w) \/ LockBuild(w) \/ Lock(w) \/ Recheck(w) \/ Validate(w)
  \/ (\E l \in Layouts : Fetch(w, l))
  \/ CopyBlob(w) \/ Copied(w) \/ WriteIndex(w) \/ PutRecord(w)
  \/ DeleteRecord(w) \/ RemoveFromIndex(w)

Next ==
  \/ CreateLayout \/ WriteLayout \/ OpenFails \/ Open \/ CallerCleansUp \/ Crash
  \/ \E w \in Workers :
       \/ Step(w) \/ Fail(w)
       \/ \E op \in Ops, r \in Refs : Begin(w, op, r)

Spec == Init /\ [][Next]_vars
-----------------------------------------------------------------------------
Work == [op: Ops, ref: Refs, step: Steps, image: Digests \cup {None}, todo: Seq(Digests),
         seen: SUBSET Digests, size: Nat, blind: BOOLEAN, result: Results]

\* Every variable stays in its range.
TypeOK ==
  /\ opened \in {"no", "creating", "yes"} /\ layout \in {"none", "torn", "written"}
  /\ blobs \subseteq Digests /\ index \subseteq {Entry(r, d) : r \in Refs, d \in Digests}
  /\ records \in [Refs -> Record \cup {None}]
  /\ mu \in Workers \cup {None} /\ buildMu \in Workers \cup {None}
  /\ work \in [Workers -> Work]

\* Who reads the layout, at any moment and after any crash, finds every blob of every image
\* the index lists: copyDescriptorGraph must complete what an interrupted pull left behind.
IndexIsClosed == \A e \in index : Reach(e.digest) \subseteq blobs

\* The index never has two manifests for one reference and platform, which the provisioner
\* would refuse as ambiguous.
OneEntryPerReference == \A r \in Refs : Cardinality(Named(index, r)) <= 1

\* Whatever calls were interrupted and whatever else they race with, the next call finds a
\* layout it can read: typed, complete and unambiguous.
LayoutIsSound == TypeOK /\ IndexIsClosed /\ OneEntryPerReference

\* A record is never left without an entry of its reference in the index, whatever Remove or
\* commit was interrupted: List shows no image that is not in the layout at all.
RecordsHaveEntries == \A r \in Refs : HasRecord(r) => Named(index, r) # {}

\* SizeBytes counts each blob of the image once, however often manifests share it.
SizesAreExact == \A r \in Refs : HasRecord(r) => records[r].size = Cardinality(Reach(records[r].digest))

\* What List and Get say is true of the layout.
RecordsAreSound == RecordsHaveEntries /\ SizesAreExact

\* The image a Pull or Build returns is, when it returns, the one the index and the record
\* name, with all its blobs: the entry of this name, platform and digest is the one that the
\* bundle provisioner looks for.
ReturnedIsUsable ==
  [][\A w \in Workers :
       LET d == work'[w].image
       IN  work[w].op \in {"missing", "always", "build"} /\ work'[w].op = "none"
           /\ work'[w].result = "ok"
             => /\ Entry(work[w].ref, d) \in index'
                /\ records'[work[w].ref] # None /\ records'[work[w].ref].digest = d
                /\ Reach(d) \subseteq blobs']_vars

\* PullIfMissing leaves a usable image alone, also one that appeared during its download,
\* unless it could not read the image's record.
IfMissingKeepsImage ==
  [][\A w \in Workers :
       work[w].op = "missing" /\ mu = w /\ ~work[w].blind /\ Valid(work[w].ref)
         => \A d \in Digests : LET e == Entry(work[w].ref, d)
                              IN  e \in index <=> e \in index']_vars

\* contract.go: PullIfMissing reuses an existing image for the same reference and platform.
DefaultPullIsServed == \A w \in Workers : work[w].result # "invalid"
=============================================================================
