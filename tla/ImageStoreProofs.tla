--------------------------- MODULE ImageStoreProofs ---------------------------
(***************************************************************************)
(* Theorems about the image store, for any images, references and callers. *)
(***************************************************************************)
EXTENDS ImageStore, FiniteSetTheorems, TLAPS

(***************************************************************************)
(* The inductive invariant.                                                *)
(***************************************************************************)
Critical == {"recheck", "validate", "copy", "index", "record", "delete", "unindex"}
Fresh    == {"check", "fetch", "building", "lock", "recheck", "validate"}
Listed(todo) == {todo[k] : k \in DOMAIN todo}

\* The steps that touch files belong to who holds the mutex.
MutexHeld == \A w \in Workers : mu = w <=> work[w].step \in Critical

\* The index names one manifest for each name and platform.
IndexIsUnique ==
  \A e, f \in index : e.name = f.name /\ e.platform = f.platform => e = f

\* What a copy has copied lies below the image, is on disk, and lists nothing that is neither
\* copied nor still to be.
CopyIsSound(c) ==
  /\ c.image \in c.seen \cup Listed(c.todo)
  /\ c.seen \subseteq blobs
  /\ \A d \in c.seen : Listed(Children[d]) \subseteq c.seen \cup Listed(c.todo)
  /\ c.seen \cup Listed(c.todo) \subseteq Reach(c.image)
  /\ c.size = Cardinality(c.seen)

\* What each step of a call has established.
CallIsSound(c) ==
  /\ c.op = "none" => c.step = "idle"
  /\ c.step \in {"delete", "unindex"} => c.op = "remove"
  /\ c.step \in Fresh => c.seen = {} /\ c.size = 0
  /\ c.step \in {"copy", "index", "record"} => c.image \in Digests
  /\ c.step = "copy" => CopyIsSound(c)
  /\ c.step \in {"index", "record"} =>
       Reach(c.image) \subseteq blobs /\ c.size = Cardinality(Reach(c.image))
  /\ c.step = "record" => Entry(c.ref, c.image) \in index
  /\ c.step = "unindex" => ~HasRecord(c.ref)
  /\ c.op = "missing" /\ ~c.blind /\ c.step \in {"validate", "copy", "index"} => ~HasRecord(c.ref)
CallsAreSound == \A w \in Workers : CallIsSound(work[w])

ImageInv ==
  /\ TypeOK /\ MutexHeld /\ CallsAreSound
  /\ IndexIsClosed /\ IndexIsUnique /\ RecordsHaveEntries /\ SizesAreExact

(***************************************************************************)
(* Blobs below an image, and lists of blobs.                               *)
(***************************************************************************)
\* What lies below an image is closed and holds the image.
LEMMA ReachIsClosed ==
  ASSUME NEW image \in Digests
  PROVE  /\ Reach(image) \subseteq Digests /\ IsFiniteSet(Reach(image))
         /\ image \in Reach(image) /\ Closed(Reach(image))
<1>1. Reach(image) = {d \in Digests : \A set \in SUBSET Digests :
                                          image \in set /\ Closed(set) => d \in set}
  BY DEF Reach, Below
<1>2. Reach(image) \subseteq Digests /\ image \in Reach(image)
  BY <1>1
<1>3. IsFiniteSet(Reach(image))
  BY <1>2, ImageAssumption, FS_Subset
<1>4. ASSUME NEW d \in Reach(image), NEW k \in DOMAIN Children[d]
      PROVE  Children[d][k] \in Reach(image)
  <2>1. Children[d][k] \in Digests
    BY <1>2, ImageAssumption
  <2>2. \A set \in SUBSET Digests : image \in set /\ Closed(set) => Children[d][k] \in set
    BY <1>1 DEF Closed
  <2> QED
    BY <1>1, <2>1, <2>2
<1> QED
  BY <1>2, <1>3, <1>4 DEF Closed

\* It is the least such set.
LEMMA ReachIsLeast ==
  ASSUME NEW image \in Digests, NEW set \in SUBSET Digests, image \in set, Closed(set)
  PROVE  Reach(image) \subseteq set
BY DEF Reach, Below

\* A list without its first blob lists the rest.
LEMMA ListedRest ==
  ASSUME NEW todo \in Seq(Digests), todo # <<>>
  PROVE  /\ Head(todo) \in Digests /\ Tail(todo) \in Seq(Digests)
         /\ Listed(todo) = {Head(todo)} \cup Listed(Tail(todo))
<1>1. Listed(Tail(todo)) \subseteq Listed(todo) /\ Head(todo) \in Listed(todo)
  BY DEF Listed
<1>2. ASSUME NEW k \in DOMAIN todo, k # 1 PROVE todo[k] \in Listed(Tail(todo))
  <2>1. k - 1 \in DOMAIN Tail(todo) /\ Tail(todo)[k - 1] = todo[k]
    BY <1>2
  <2> QED
    BY <2>1 DEF Listed
<1> QED
  BY <1>1, <1>2 DEF Listed

\* Two lists one after the other list what both list.
LEMMA ListedBoth ==
  ASSUME NEW s \in Seq(Digests), NEW t \in Seq(Digests)
  PROVE  /\ s \o t \in Seq(Digests)
         /\ Listed(s \o t) = Listed(s) \cup Listed(t)
<1>1. Listed(s \o t) \subseteq Listed(s) \cup Listed(t)
  BY DEF Listed
<1>2. Listed(s) \subseteq Listed(s \o t)
  BY DEF Listed
<1>3. ASSUME NEW k \in DOMAIN t PROVE t[k] \in Listed(s \o t)
  <2>1. k + Len(s) \in DOMAIN (s \o t) /\ (s \o t)[k + Len(s)] = t[k]
    OBVIOUS
  <2> QED
    BY <2>1 DEF Listed
<1> QED
  BY <1>1, <1>2, <1>3 DEF Listed

(***************************************************************************)
(* What keeps the invariant.                                               *)
(***************************************************************************)
\* A call that does nothing stays sound while blobs are added, and, if it holds the mutex,
\* nobody touches index and records.
LEMMA OtherCall ==
  ASSUME NEW w \in Workers, CallIsSound(work[w]), work'[w] = work[w], blobs \subseteq blobs',
         work[w].step \in Critical => UNCHANGED <<index, records>>
  PROVE  CallIsSound(work[w])'
BY DEF CallIsSound, CopyIsSound, HasRecord, Critical

\* What the disk must be like.
DiskInv == IndexIsClosed /\ IndexIsUnique /\ RecordsHaveEntries /\ SizesAreExact

\* Index and records as they were.
LEMMA DiskKept ==
  ASSUME ImageInv, blobs \subseteq blobs', UNCHANGED <<index, records>>
  PROVE  DiskInv'
BY DEF ImageInv, DiskInv, IndexIsClosed, IndexIsUnique, RecordsHaveEntries, SizesAreExact, HasRecord,
   Named, Matching

\* A step of one caller that keeps its own part, the mutex and the disk keeps the rest.
LEMMA CallerStep ==
  ASSUME ImageInv, NEW w \in Workers, TypeOK', blobs \subseteq blobs',
         \A v \in Workers \ {w} : work'[v] = work[v],
         mu = w \/ UNCHANGED <<index, records>>,
         \/ mu' = mu /\ (mu = w <=> work'[w].step \in Critical)
         \/ mu = None /\ mu' = w /\ work'[w].step \in Critical
         \/ mu \in {w, None} /\ mu' = None /\ work'[w].step \notin Critical,
         CallIsSound(work[w])', DiskInv'
  PROVE  ImageInv'
<1>1. MutexHeld'
  BY ImageAssumption DEF ImageInv, MutexHeld
<1>2. ASSUME NEW v \in Workers, v # w PROVE CallIsSound(work[v])'
  BY <1>2, OtherCall DEF ImageInv, MutexHeld, CallsAreSound
<1> QED
  BY <1>1, <1>2 DEF ImageInv, CallsAreSound, DiskInv

\* Index, records and the layout as they were.
LEMMA QuietStep ==
  ASSUME ImageInv, NEW w \in Workers, NEW c \in Work, work' = [work EXCEPT ![w] = c],
         blobs \subseteq blobs', blobs' \subseteq Digests, UNCHANGED <<opened, layout, index, records>>,
         \/ mu' = mu /\ (mu = w <=> c.step \in Critical)
         \/ mu = None /\ mu' = w /\ c.step \in Critical
         \/ mu \in {w, None} /\ mu' = None /\ c.step \notin Critical,
         buildMu' \in Workers \cup {None},
         CallIsSound(work[w])'
  PROVE  ImageInv'
<1>1. TypeOK'
  BY DEF ImageInv, TypeOK
<1>2. /\ work'[w] = c
      /\ \A v \in Workers \ {w} : work'[v] = work[v]
  BY DEF ImageInv, TypeOK
<1> QED
  BY <1>1, <1>2, DiskKept, CallerStep

\* The fields of a call.
LEMMA CallTyped ==
  ASSUME ImageInv, NEW w \in Workers
  PROVE  /\ work[w] \in Work
         /\ work[w].op \in Ops /\ work[w].ref \in Refs /\ work[w].step \in Steps
         /\ work[w].image \in Digests \cup {None} /\ work[w].todo \in Seq(Digests)
         /\ work[w].seen \subseteq Digests /\ work[w].size \in Nat /\ work[w].blind \in BOOLEAN
BY DEF ImageInv, TypeOK, Work

\* A call that has nothing to do is typed.
LEMMA IdleIsTyped ==
  Idle \in Work /\ Idle.op = "none" /\ Idle.step = "idle" /\ Idle.seen = {} /\ Idle.size = 0
<1>1. (CHOOSE r \in Refs : TRUE) \in Refs
  BY ImageAssumption
<1> QED
  BY <1>1 DEF Idle, Work, Ops, Steps, Results

\* What a call looks like when it has returned.
Returned(r, d, how) == [Idle EXCEPT !.ref = r, !.image = d, !.result = how]

\* It is typed and does nothing.
LEMMA ReturnedIsIdle ==
  ASSUME NEW r \in Refs, NEW d \in Digests \cup {None}, NEW how \in Results
  PROVE  /\ Returned(r, d, how) \in Work
         /\ Returned(r, d, how).step = "idle" /\ Returned(r, d, how).op = "none"
BY IdleIsTyped DEF Work, Returned

\* A call returns, whatever it did to the disk before.
LEMMA ReturnStep ==
  ASSUME ImageInv, NEW w \in Workers, NEW how \in Results, Return(w, how),
         UNCHANGED <<opened, layout, blobs>>,
         mu = w \/ UNCHANGED <<index, records>>,
         index' \subseteq {Entry(r, d) : r \in Refs, d \in Digests},
         records' \in [Refs -> Record \cup {None}],
         DiskInv'
  PROVE  ImageInv'
<1> DEFINE c == Returned(work[w].ref, work[w].image, how)
<1>1. c \in Work /\ c.step = "idle" /\ c.op = "none"
  BY ReturnedIsIdle, CallTyped
<1>2. work' = [work EXCEPT ![w] = c]
  BY DEF Return, Returned
<1> HIDE DEF c
<1>3. work'[w] = c /\ \A v \in Workers \ {w} : work'[v] = work[v]
  BY <1>2 DEF ImageInv, TypeOK
<1>4. TypeOK'
  BY <1>1, <1>2 DEF ImageInv, TypeOK, Return
<1>5. CallIsSound(work[w])'
  BY <1>1, <1>3 DEF CallIsSound, Fresh
<1>6. /\ \/ mu = w /\ mu' = None
         \/ mu # w /\ mu' = mu
      /\ c.step \notin Critical
  BY <1>1 DEF Return, Critical
<1> QED
  BY <1>3, <1>4, <1>5, <1>6, CallerStep

\* An image found in the record is returned.
LEMMA ReuseStep ==
  ASSUME ImageInv, NEW w \in Workers, Reuse(w), HasRecord(work[w].ref),
         \/ mu' = mu /\ mu # w
         \/ mu = w /\ mu' = None,
         UNCHANGED <<opened, disk, buildMu>>
  PROVE  ImageInv'
<1> DEFINE d == records[work[w].ref].digest
           c == Returned(work[w].ref, d, "ok")
<1>1. d \in Digests
  BY CallTyped DEF ImageInv, TypeOK, HasRecord, Record
<1>2. c \in Work /\ c.step = "idle" /\ c.op = "none"
  BY <1>1, ReturnedIsIdle, CallTyped DEF Results
<1>3. work' = [work EXCEPT ![w] = c]
  BY DEF Reuse, Returned
<1> HIDE DEF c, d
<1>4. work'[w] = c
  BY <1>3 DEF ImageInv, TypeOK
<1>5. CallIsSound(work[w])'
  BY <1>2, <1>4 DEF CallIsSound, Fresh
<1>6. /\ blobs' = blobs /\ blobs \subseteq Digests /\ UNCHANGED <<opened, layout, index, records>>
      /\ buildMu' \in Workers \cup {None}
  BY DEF ImageInv, TypeOK, disk
<1>7. c.step \notin Critical
  BY <1>2 DEF Critical
<1> QED
  BY <1>2, <1>3, <1>5, <1>6, <1>7, QuietStep

(***************************************************************************)
(* The steps that change no name.                                          *)
(***************************************************************************)
\* The store is opened, closed or lost.
LEMMA StoreStep ==
  ASSUME ImageInv,
         CreateLayout \/ WriteLayout \/ OpenFails \/ Open \/ CallerCleansUp \/ Crash
  PROVE  ImageInv'
<1>1. DiskInv' /\ UNCHANGED <<blobs, index, records>>
  BY DiskKept DEF CreateLayout, WriteLayout, OpenFails, Open, CallerCleansUp, Crash, disk
<1>2. CASE Crash
  <2>1. TypeOK'
    BY <1>2, IdleIsTyped DEF ImageInv, TypeOK, Crash, disk
  <2>2. CallsAreSound'
    BY <1>2, IdleIsTyped DEF CallsAreSound, CallIsSound, Fresh, Crash
  <2>3. MutexHeld'
    BY <1>2, IdleIsTyped, ImageAssumption DEF MutexHeld, Critical, Crash
  <2> QED
    BY <1>1, <2>1, <2>2, <2>3 DEF ImageInv, DiskInv
<1>3. CASE CreateLayout \/ WriteLayout \/ OpenFails \/ Open \/ CallerCleansUp
  <2>1. UNCHANGED <<mu, buildMu, work>>
    BY <1>3 DEF CreateLayout, WriteLayout, OpenFails, Open, CallerCleansUp
  <2>2. TypeOK'
    BY <1>1, <1>3, <2>1
       DEF ImageInv, TypeOK, CreateLayout, WriteLayout, OpenFails, Open, CallerCleansUp, disk
  <2>3. MutexHeld'
    BY <2>1 DEF ImageInv, MutexHeld
  <2>4. ASSUME NEW w \in Workers PROVE CallIsSound(work[w])'
    <3>1. CallIsSound(work[w]) /\ work'[w] = work[w] /\ blobs \subseteq blobs'
      BY <1>1, <2>1 DEF ImageInv, CallsAreSound
    <3> QED
      BY <1>1, <3>1, OtherCall
  <2> QED
    BY <1>1, <2>2, <2>3, <2>4 DEF ImageInv, DiskInv, CallsAreSound
<1> QED
  BY <1>2, <1>3

\* What is selected in a layout is one of its blobs, or nothing.
LEMMA SelectType ==
  ASSUME NEW l \in Layouts, NEW r \in Refs
  PROVE  Select(l, r) \in Digests \cup {None}
<1>1. Candidates(l, r) \subseteq l
  BY DEF Candidates, Named, Matching
<1>2. Cardinality(Candidates(l, r)) = 1 => Candidates(l, r) # {}
  BY FS_EmptySet
<1>3. Cardinality(Candidates(l, r)) = 1 => (CHOOSE e \in Candidates(l, r) : TRUE) \in l
  BY <1>1, <1>2
<1> QED
  BY <1>3, ImageAssumption DEF Select

\* A call begins, and waits for what it needs.
LEMMA WaitingStep ==
  ASSUME ImageInv, NEW w \in Workers,
         \/ \E op \in Ops, r \in Refs : Begin(w, op, r)
         \/ \E l \in Layouts : Fetch(w, l)
         \/ LockBuild(w) \/ Lock(w)
  PROVE  ImageInv'
<1> USE CallTyped, ImageAssumption DEF disk, Critical, Fresh, Steps
<1>0. /\ mu = w <=> work[w].step \in Critical
      /\ CallIsSound(work[w]) /\ blobs \subseteq Digests /\ buildMu \in Workers \cup {None}
      /\ work \in [Workers -> Work]
  BY DEF ImageInv, MutexHeld, CallsAreSound, TypeOK
<1>1. ASSUME NEW c \in Work, work' = [work EXCEPT ![w] = c], UNCHANGED <<opened, disk>>,
             buildMu' \in {w, buildMu},
             \/ mu' = mu /\ mu # w /\ c.step \in Fresh \ {"recheck", "validate"}
             \/ mu = None /\ mu' = w /\ c.step \in {"recheck", "validate", "delete"},
             c.step \in Fresh => c.seen = {} /\ c.size = 0,
             c.op # "none", c.step = "delete" => c.op = "remove",
             c.op = "missing" => c.step # "validate"
      PROVE  ImageInv'
  <2>1. CallIsSound(work[w])'
    BY <1>0, <1>1 DEF CallIsSound
  <2> QED
    BY <1>0, <1>1, <2>1, QuietStep
<1>2. ASSUME NEW op \in Ops, NEW r \in Refs, Begin(w, op, r) PROVE ImageInv'
  <2> DEFINE s == CASE op = "missing" -> "check" [] op = "always" -> "fetch"
                    [] op = "build" -> "building" [] op = "remove" -> "lock"
             c == [Idle EXCEPT !.op = op, !.ref = r, !.step = s]
  <2>1. s \in {"check", "fetch", "building", "lock"}
    BY <1>2 DEF Begin, Ops
  <2>2. c \in Work /\ c.op = op /\ c.step = s /\ c.seen = {} /\ c.size = 0
    BY <2>1, IdleIsTyped DEF Work
  <2>3. work' = [work EXCEPT ![w] = c]
    BY <1>2 DEF Begin
  <2>4. mu # w
    BY <1>0, <1>2 DEF Begin, CallIsSound
  <2> HIDE DEF c, s
  <2> QED
    BY <1>1, <1>2, <2>1, <2>2, <2>3, <2>4 DEF Begin
<1>3. ASSUME NEW l \in Layouts, Fetch(w, l) PROVE ImageInv'
  <2> DEFINE c == [work[w] EXCEPT !.image = Select(l, work[w].ref), !.step = "lock"]
  <2>1. c \in Work /\ c.step = "lock" /\ c.op = work[w].op /\ c.seen = work[w].seen
        /\ c.size = work[w].size
    BY SelectType DEF Work
  <2>2. work' = [work EXCEPT ![w] = c]
    BY <1>3 DEF Fetch
  <2>3. work[w].step = "fetch"
    BY <1>3 DEF Fetch
  <2>4. c.op # "none" /\ c.seen = {} /\ c.size = 0 /\ mu # w
    BY <1>0, <2>1, <2>3 DEF CallIsSound
  <2> HIDE DEF c
  <2> QED
    BY <1>1, <1>3, <2>1, <2>2, <2>4 DEF Fetch
<1>4. CASE LockBuild(w)
  <2> DEFINE c == [work[w] EXCEPT !.step = "fetch"]
  <2>1. c \in Work /\ c.step = "fetch" /\ c.op = work[w].op /\ c.seen = work[w].seen
        /\ c.size = work[w].size
    BY DEF Work
  <2>2. work' = [work EXCEPT ![w] = c] /\ work[w].step = "building"
    BY <1>4 DEF LockBuild, Goto
  <2>3. c.op # "none" /\ c.seen = {} /\ c.size = 0 /\ mu # w
    BY <1>0, <2>1, <2>2 DEF CallIsSound
  <2> HIDE DEF c
  <2> QED
    BY <1>1, <1>4, <2>1, <2>2, <2>3 DEF LockBuild
<1>5. CASE Lock(w)
  <2> DEFINE s == CASE work[w].op = "missing" -> "recheck" [] work[w].op = "remove" -> "delete"
                    [] OTHER -> "validate"
             c == [work[w] EXCEPT !.step = s]
  <2>1. /\ s \in {"recheck", "delete", "validate"}
        /\ s = "delete" => work[w].op = "remove"
        /\ work[w].op = "missing" => s # "validate"
    OBVIOUS
  <2>2. c \in Work /\ c.step = s /\ c.op = work[w].op /\ c.seen = work[w].seen
        /\ c.size = work[w].size
    BY <2>1 DEF Work
  <2>3. work' = [work EXCEPT ![w] = c] /\ work[w].step = "lock" /\ mu = None
    BY <1>5 DEF Lock, Goto
  <2> HIDE DEF c, s
  <2>4. c.op # "none" /\ c.seen = {} /\ c.size = 0
    BY <1>0, <2>2, <2>3 DEF CallIsSound
  <2> QED
    BY <1>1, <1>5, <2>1, <2>2, <2>3, <2>4 DEF Lock
<1> QED
  BY <1>2, <1>3, <1>4, <1>5

\* A call ends without having changed the disk.
LEMMA QuietReturn ==
  ASSUME ImageInv, NEW w \in Workers, NEW how \in Results, Return(w, how), UNCHANGED <<opened, disk>>
  PROVE  ImageInv'
<1>1. UNCHANGED <<opened, layout, blobs, index, records>>
  BY DEF disk
<1>2. DiskInv'
  BY <1>1, DiskKept
<1>3. index' \subseteq {Entry(r, d) : r \in Refs, d \in Digests}
      /\ records' \in [Refs -> Record \cup {None}]
  BY <1>1 DEF ImageInv, TypeOK
<1> QED
  BY <1>1, <1>2, <1>3, ReturnStep

\* A pull of a missing image looks for it, before and after its download.
LEMMA LookStep ==
  ASSUME ImageInv, NEW w \in Workers, Check(w) \/ Recheck(w) \/ Fail(w)
  PROVE  ImageInv'
<1>0. /\ mu = w <=> work[w].step \in Critical
      /\ CallIsSound(work[w]) /\ blobs \subseteq Digests /\ buildMu \in Workers \cup {None}
      /\ work \in [Workers -> Work]
  BY DEF ImageInv, MutexHeld, CallsAreSound, TypeOK
<1>1. CASE Fail(w) \/ \E how \in Results : Return(w, how) /\ UNCHANGED <<opened, disk>>
  BY <1>1, QuietReturn DEF Fail, Results
<1>2. CASE Reuse(w) /\ HasRecord(work[w].ref) /\ UNCHANGED <<opened, disk, buildMu>>
           /\ ((mu' = mu /\ mu # w) \/ (mu = w /\ mu' = None))
  BY <1>2, ReuseStep
<1>3. CASE work[w].step = "check" /\ Goto(w, "fetch") /\ UNCHANGED <<mu, buildMu, opened, disk>>
  <2> DEFINE c == [work[w] EXCEPT !.step = "fetch"]
  <2>1. c \in Work /\ c.step = "fetch" /\ c.op = work[w].op /\ c.seen = work[w].seen
        /\ c.size = work[w].size
    BY CallTyped DEF Work, Steps
  <2>2. work' = [work EXCEPT ![w] = c] /\ work'[w] = c
    BY <1>0, <1>3 DEF Goto
  <2> HIDE DEF c
  <2>3. CallIsSound(work[w])'
    BY <1>0, <1>3, <2>1, <2>2 DEF CallIsSound, Fresh
  <2> QED
    BY <1>0, <1>3, <2>1, <2>2, <2>3, QuietStep DEF Critical, disk
<1>4. CASE /\ work[w].step = "recheck" /\ UNCHANGED <<mu, buildMu, opened, disk>>
           /\ work' = [work EXCEPT ![w].step = "validate", ![w].blind = HasRecord(work[w].ref)]
  <2> DEFINE c == [work[w] EXCEPT !.step = "validate", !.blind = HasRecord(work[w].ref)]
  <2>1. c \in Work /\ c.step = "validate" /\ c.op = work[w].op /\ c.seen = work[w].seen
        /\ c.size = work[w].size /\ c.ref = work[w].ref /\ (c.blind <=> HasRecord(work[w].ref))
    BY CallTyped DEF Work, Steps, HasRecord
  <2>2. work' = [work EXCEPT ![w] = c] /\ work'[w] = c
    BY <1>0, <1>4
  <2> HIDE DEF c
  <2>3. CallIsSound(work[w])'
    BY <1>0, <1>4, <2>1, <2>2 DEF CallIsSound, Fresh, HasRecord, disk
  <2> QED
    BY <1>0, <1>4, <2>1, <2>2, <2>3, QuietStep DEF Critical, disk
<1>5. CASE Check(w)
  <2>1. mu # w
    BY <1>5, ImageAssumption DEF Check
  <2> QED
    BY <1>1, <1>2, <1>3, <1>5, <2>1 DEF Check, Valid, Results
<1>6. CASE Recheck(w)
  <2>1. mu = w
    BY <1>0, <1>6 DEF Recheck, Critical
  <2> QED
    BY <1>1, <1>2, <1>4, <1>6, <2>1 DEF Recheck, Valid, Results
<1> QED
  BY <1>1, <1>5, <1>6

\* A copy begins, goes on with the next blob, and ends with the whole image.
LEMMA CopyStep ==
  ASSUME ImageInv, NEW w \in Workers, Validate(w) \/ CopyBlob(w) \/ Copied(w)
  PROVE  ImageInv'
<1> DEFINE c == work[w]
<1>0. /\ mu = w <=> c.step \in Critical
      /\ CallIsSound(c) /\ blobs \subseteq Digests /\ buildMu \in Workers \cup {None}
      /\ work \in [Workers -> Work]
      /\ c \in Work /\ c.op \in Ops /\ c.todo \in Seq(Digests) /\ c.seen \subseteq Digests
      /\ c.size \in Nat /\ c.image \in Digests \cup {None}
  BY CallTyped DEF ImageInv, MutexHeld, CallsAreSound, TypeOK
<1>1. ASSUME NEW n \in Work, work' = [work EXCEPT ![w] = n], c.step \in {"validate", "copy"},
             n.step \in {"copy", "index"}, n.op = c.op, n.ref = c.ref, n.image = c.image,
             n.blind = c.blind, c.image \in Digests,
             blobs \subseteq blobs', blobs' \subseteq Digests,
             UNCHANGED <<opened, layout, index, records, mu, buildMu>>,
             n.step = "copy" => CopyIsSound(work[w])',
             n.step = "index" => Reach(n.image) \subseteq blobs' /\ n.size = Cardinality(Reach(n.image))
      PROVE  ImageInv'
  <2>1. work'[w] = n
    BY <1>0, <1>1
  <2>2. CallIsSound(work[w])'
    BY <1>0, <1>1, <2>1 DEF CallIsSound, CopyIsSound, Fresh, HasRecord
  <2> QED
    BY <1>0, <1>1, <2>1, <2>2, QuietStep DEF Critical
<1>2. CASE Validate(w)
  <2>1. CASE c.image = None
    BY <1>2, <2>1, QuietReturn DEF Validate, Results
  <2>2. CASE c.image # None
    <3> DEFINE n == [c EXCEPT !.step = "copy", !.todo = <<c.image>>]
    <3>1. c.image \in Digests /\ c.seen = {} /\ c.size = 0 /\ c.step = "validate"
      BY <1>0, <1>2, <2>2 DEF Validate, CallIsSound, Fresh
    <3>2. <<c.image>> \in Seq(Digests) /\ Listed(<<c.image>>) = {c.image}
      BY <3>1 DEF Listed
    <3>3. n \in Work /\ n.step = "copy" /\ n.op = c.op /\ n.ref = c.ref /\ n.image = c.image
          /\ n.blind = c.blind /\ n.seen = {} /\ n.size = 0 /\ n.todo = <<c.image>>
      BY <1>0, <3>1, <3>2 DEF Work, Steps
    <3>4. work' = [work EXCEPT ![w] = n] /\ UNCHANGED <<opened, disk, mu, buildMu>> /\ work'[w] = n
      BY <1>0, <1>2, <2>2 DEF Validate
    <3> HIDE DEF n
    <3>5. CopyIsSound(work[w])'
      BY <3>1, <3>2, <3>3, <3>4, ReachIsClosed, FS_EmptySet DEF CopyIsSound
    <3> QED
      BY <1>0, <1>1, <3>1, <3>3, <3>4, <3>5 DEF disk
  <2> QED
    BY <2>1, <2>2
<1>3. CASE CopyBlob(w)
  <2> DEFINE d == Head(c.todo)
  <2>0. /\ c.step = "copy" /\ c.image \in Digests /\ CopyIsSound(c)
        /\ d \in Digests /\ Tail(c.todo) \in Seq(Digests)
        /\ Listed(c.todo) = {d} \cup Listed(Tail(c.todo))
    BY <1>0, <1>3, ListedRest DEF CopyBlob, CallIsSound
  <2>1. CASE d \in c.seen
    <3> DEFINE n == [c EXCEPT !.todo = Tail(c.todo)]
    <3>1. n \in Work /\ n.step = "copy" /\ n.op = c.op /\ n.ref = c.ref /\ n.image = c.image
          /\ n.blind = c.blind /\ n.seen = c.seen /\ n.size = c.size /\ n.todo = Tail(c.todo)
      BY <1>0, <2>0 DEF Work
    <3>2. work' = [work EXCEPT ![w] = n] /\ work'[w] = n
          /\ UNCHANGED <<opened, layout, blobs, index, records, mu, buildMu>>
      BY <1>0, <1>3, <2>1 DEF CopyBlob
    <3> HIDE DEF n
    <3>3. CopyIsSound(work[w])'
      BY <2>0, <2>1, <3>1, <3>2 DEF CopyIsSound
    <3> QED
      BY <1>0, <1>1, <2>0, <3>1, <3>2, <3>3
  <2>2. CASE d \notin c.seen
    <3> DEFINE rest == Children[d] \o Tail(c.todo)
               n == [c EXCEPT !.todo = rest, !.seen = c.seen \cup {d}, !.size = c.size + 1]
    <3>1. /\ rest \in Seq(Digests)
          /\ Listed(rest) = Listed(Children[d]) \cup Listed(Tail(c.todo))
      BY <2>0, ListedBoth, ImageAssumption
    <3>2. n \in Work /\ n.step = "copy" /\ n.op = c.op /\ n.ref = c.ref /\ n.image = c.image
          /\ n.blind = c.blind /\ n.seen = c.seen \cup {d} /\ n.size = c.size + 1 /\ n.todo = rest
      <4>1. c.seen \cup {d} \in SUBSET Digests /\ c.size + 1 \in Nat
        BY <1>0, <2>0
      <4> HIDE DEF rest, d
      <4> QED
        BY <1>0, <2>0, <3>1, <4>1 DEF Work
    <3>3. work' = [work EXCEPT ![w] = n] /\ blobs' = blobs \cup {d} /\ work'[w] = n
          /\ UNCHANGED <<opened, layout, index, records, mu, buildMu>>
      BY <1>0, <1>3, <2>2 DEF CopyBlob
    <3>4. Cardinality(c.seen \cup {d}) = Cardinality(c.seen) + 1
      BY <1>0, <2>2, ImageAssumption, FS_Subset, FS_AddElement
    <3>5. Listed(Children[d]) \subseteq Reach(c.image)
      BY <2>0, ReachIsClosed DEF CopyIsSound, Closed, Listed
    <3> HIDE DEF n, rest
    <3>6. CopyIsSound(work[w])'
      BY <2>0, <3>1, <3>2, <3>3, <3>4, <3>5 DEF CopyIsSound
    <3> QED
      BY <1>0, <1>1, <2>0, <3>2, <3>3, <3>6
  <2> QED
    BY <2>1, <2>2
<1>4. CASE Copied(w)
  <2> DEFINE n == [c EXCEPT !.step = "index"]
  <2>1. c.step = "copy" /\ c.todo = <<>> /\ c.image \in Digests /\ CopyIsSound(c)
    BY <1>0, <1>4 DEF Copied, CallIsSound
  <2>2. Listed(c.todo) = {}
    BY <2>1 DEF Listed
  <2>3. Closed(c.seen)
    BY <2>1, <2>2 DEF CopyIsSound, Closed, Listed
  <2>4. Reach(c.image) = c.seen
    BY <1>0, <2>1, <2>2, <2>3, ReachIsLeast DEF CopyIsSound
  <2>5. n \in Work /\ n.step = "index" /\ n.op = c.op /\ n.ref = c.ref /\ n.image = c.image
        /\ n.blind = c.blind /\ n.size = c.size
    BY <1>0 DEF Work, Steps
  <2>6. work' = [work EXCEPT ![w] = n] /\ UNCHANGED <<opened, disk, mu, buildMu>>
    BY <1>4 DEF Copied, Goto
  <2> HIDE DEF n
  <2> QED
    BY <1>0, <1>1, <2>1, <2>4, <2>5, <2>6 DEF CopyIsSound, disk
<1> QED
  BY <1>2, <1>3, <1>4

(***************************************************************************)
(* The steps that change index or records.                                 *)
(***************************************************************************)
\* What is left of the index when the entries of a reference are taken out.
LEMMA WithoutIs ==
  ASSUME NEW r \in Refs
  PROVE  /\ Without(r) \subseteq index
         /\ \A e \in Without(r) : ~(e.name = r.name /\ e.platform = r.platform)
         /\ \A q \in Refs : q # r => Named(index, q) = Named(Without(r), q)
<1>1. ASSUME NEW q \in Refs, q # r PROVE Named(index, q) \subseteq Named(Without(r), q)
  BY <1>1, ImageAssumption DEF Without, Named, Matching
<1>2. ASSUME NEW q \in Refs PROVE Named(Without(r), q) \subseteq Named(index, q)
  BY DEF Without, Named, Matching
<1> QED
  BY <1>1, <1>2 DEF Without

\* An image that is complete is put into the index.
LEMMA WriteIndexStep ==
  ASSUME ImageInv, NEW w \in Workers, WriteIndex(w)
  PROVE  ImageInv'
<1> DEFINE c == work[w]
           r == c.ref
           d == c.image
           n == [c EXCEPT !.step = "record"]
<1>0. /\ c \in Work /\ r \in Refs /\ work \in [Workers -> Work]
      /\ CallIsSound(c) /\ mu = w /\ c.step = "index" /\ d \in Digests
  BY CallTyped DEF ImageInv, MutexHeld, CallsAreSound, TypeOK, WriteIndex, Critical, CallIsSound
<1>1. /\ index' = Without(r) \cup {Entry(r, d)}
      /\ UNCHANGED <<opened, layout, blobs, records, mu, buildMu>>
      /\ work' = [work EXCEPT ![w] = n]
  BY DEF WriteIndex, Goto
<1>2. n \in Work /\ n.step = "record" /\ n.op = c.op /\ n.ref = r /\ n.image = d
      /\ n.size = c.size
  BY <1>0 DEF Work, Steps
<1> HIDE DEF n, r, d
<1>3. work'[w] = n /\ \A v \in Workers \ {w} : work'[v] = work[v]
  BY <1>0, <1>1
<1>4. Entry(r, d).name = r.name /\ Entry(r, d).platform = r.platform /\ Entry(r, d).digest = d
  BY DEF Entry
<1>5. Reach(d) \subseteq blobs /\ c.size = Cardinality(Reach(d))
  BY <1>0 DEF CallIsSound, d
<1>6. IndexIsClosed'
  BY <1>0, <1>1, <1>4, <1>5, WithoutIs DEF ImageInv, IndexIsClosed
<1>7. IndexIsUnique'
  BY <1>0, <1>1, <1>4, WithoutIs DEF ImageInv, IndexIsUnique
<1>8. ASSUME NEW q \in Refs, HasRecord(q) PROVE Named(index', q) # {}
  <2>1. CASE q = r
    BY <1>1, <1>4, <2>1 DEF Named, Matching
  <2>2. CASE q # r
    <3>1. Named(index, q) # {} /\ Named(index, q) = Named(Without(r), q)
      BY <1>0, <1>8, <2>2, WithoutIs DEF ImageInv, RecordsHaveEntries
    <3> QED
      BY <1>1, <3>1 DEF Named, Matching
  <2> QED
    BY <2>1, <2>2
<1>9. RecordsHaveEntries' /\ SizesAreExact'
  BY <1>1, <1>8 DEF ImageInv, RecordsHaveEntries, SizesAreExact, HasRecord
<1>10. TypeOK'
  BY <1>0, <1>1, <1>2, WithoutIs DEF ImageInv, TypeOK
<1>11. CallIsSound(work[w])'
  BY <1>0, <1>1, <1>2, <1>3, <1>5 DEF CallIsSound, Fresh
<1> QED
  BY <1>0, <1>1, <1>2, <1>3, <1>6, <1>7, <1>9, <1>10, <1>11, CallerStep DEF DiskInv, Critical

\* Its record follows.
LEMMA PutRecordStep ==
  ASSUME ImageInv, NEW w \in Workers, PutRecord(w)
  PROVE  ImageInv'
<1> DEFINE c == work[w]
<1>0. /\ c.ref \in Refs /\ CallIsSound(c) /\ mu = w /\ c.step = "record" /\ c.image \in Digests
      /\ c.size \in Nat
  BY CallTyped DEF ImageInv, MutexHeld, CallsAreSound, PutRecord, Critical, CallIsSound
<1>1. PICK how \in Results : Return(w, how)
  BY DEF PutRecord, Outcomes, Results
<1>2. records' = [records EXCEPT ![c.ref] = [digest |-> c.image, size |-> c.size]]
      /\ UNCHANGED <<opened, layout, blobs, index>>
  BY DEF PutRecord
<1>3. [digest |-> c.image, size |-> c.size] \in Record
  BY <1>0 DEF Record
<1>4. index' \subseteq {Entry(r, d) : r \in Refs, d \in Digests}
      /\ records' \in [Refs -> Record \cup {None}]
  BY <1>0, <1>2, <1>3 DEF ImageInv, TypeOK
<1>5. Entry(c.ref, c.image) \in index /\ c.size = Cardinality(Reach(c.image))
  BY <1>0 DEF CallIsSound
<1>6. Named(index, c.ref) # {}
  BY <1>5 DEF Named, Matching, Entry
<1>7. ASSUME NEW r \in Refs, records'[r] # None
      PROVE  /\ Named(index, r) # {}
             /\ records'[r].size = Cardinality(Reach(records'[r].digest))
  BY <1>2, <1>5, <1>6, <1>7
     DEF ImageInv, TypeOK, RecordsHaveEntries, SizesAreExact, HasRecord
<1>8. DiskInv'
  BY <1>2, <1>7 DEF ImageInv, DiskInv, IndexIsClosed, IndexIsUnique, RecordsHaveEntries, SizesAreExact,
     HasRecord, Named, Matching
<1> QED
  BY <1>0, <1>1, <1>2, <1>4, <1>8, ReturnStep

\* Remove deletes the record before the entry.
LEMMA RemoveStep ==
  ASSUME ImageInv, NEW w \in Workers, DeleteRecord(w) \/ RemoveFromIndex(w)
  PROVE  ImageInv'
<1> DEFINE c == work[w]
<1>0. /\ c \in Work /\ c.ref \in Refs /\ work \in [Workers -> Work] /\ CallIsSound(c) /\ mu = w
  BY CallTyped
     DEF ImageInv, MutexHeld, CallsAreSound, TypeOK, DeleteRecord, RemoveFromIndex, Critical
<1>1. CASE DeleteRecord(w)
  <2> DEFINE n == [c EXCEPT !.step = "unindex"]
  <2>1. /\ records' = [records EXCEPT ![c.ref] = None]
        /\ UNCHANGED <<opened, layout, blobs, index, mu, buildMu>>
        /\ work' = [work EXCEPT ![w] = n] /\ c.step = "delete"
    BY <1>1 DEF DeleteRecord, Goto
  <2>2. n \in Work /\ n.step = "unindex" /\ n.op = c.op /\ n.ref = c.ref
    BY <1>0 DEF Work, Steps
  <2> HIDE DEF n
  <2>3. work'[w] = n /\ \A v \in Workers \ {w} : work'[v] = work[v]
    BY <1>0, <2>1
  <2>4. TypeOK'
    BY <1>0, <2>1, <2>2 DEF ImageInv, TypeOK
  <2>5. \A r \in Refs : records'[r] = IF r = c.ref THEN None ELSE records[r]
    BY <2>1 DEF ImageInv, TypeOK
  <2>6. DiskInv'
    BY <2>1, <2>5 DEF ImageInv, DiskInv, IndexIsClosed, IndexIsUnique, RecordsHaveEntries,
       SizesAreExact, HasRecord, Named, Matching
  <2>7. CallIsSound(work[w])'
    BY <1>0, <2>1, <2>2, <2>3, <2>5 DEF CallIsSound, Fresh, HasRecord
  <2> QED
    BY <1>0, <2>1, <2>2, <2>3, <2>4, <2>6, <2>7, CallerStep DEF Critical
<1>2. CASE RemoveFromIndex(w)
  <2>1. PICK how \in Results : Return(w, how)
    BY <1>2 DEF RemoveFromIndex, Outcomes, Results
  <2>2. /\ index' = Without(c.ref) /\ UNCHANGED <<opened, layout, blobs, records>>
        /\ ~HasRecord(c.ref)
    BY <1>0, <1>2 DEF RemoveFromIndex, CallIsSound
  <2>3. index' \subseteq {Entry(r, d) : r \in Refs, d \in Digests}
        /\ records' \in [Refs -> Record \cup {None}]
    BY <1>0, <2>2, WithoutIs DEF ImageInv, TypeOK
  <2>4. ASSUME NEW r \in Refs, HasRecord(r) PROVE Named(index', r) # {}
    BY <1>0, <2>2, <2>4, WithoutIs DEF ImageInv, RecordsHaveEntries
  <2>5. DiskInv'
    BY <1>0, <2>2, <2>4, WithoutIs DEF ImageInv, DiskInv, IndexIsClosed, IndexIsUnique,
       RecordsHaveEntries, SizesAreExact, HasRecord
  <2> QED
    BY <1>0, <2>1, <2>2, <2>3, <2>5, ReturnStep
<1> QED
  BY <1>1, <1>2

(***************************************************************************)
(* The theorems.                                                           *)
(***************************************************************************)
\* The invariant holds in every behaviour.
LEMMA ImageInvariant == Spec => []ImageInv
<1>1. Init => ImageInv
  <2> SUFFICES ASSUME Init PROVE ImageInv
    OBVIOUS
  <2>1. TypeOK
    BY IdleIsTyped DEF Init, TypeOK
  <2>2. MutexHeld /\ CallsAreSound
    BY IdleIsTyped, ImageAssumption
       DEF Init, MutexHeld, CallsAreSound, CallIsSound, Critical, Fresh
  <2> QED
    BY <2>1, <2>2 DEF Init, ImageInv, IndexIsClosed, IndexIsUnique, RecordsHaveEntries, SizesAreExact,
       HasRecord
<1>2. ImageInv /\ [Next]_vars => ImageInv'
  <2>1. ASSUME ImageInv, UNCHANGED vars PROVE ImageInv'
    BY <2>1 DEF vars, disk, ImageInv, TypeOK, MutexHeld, CallsAreSound, CallIsSound, CopyIsSound,
       IndexIsClosed, IndexIsUnique, RecordsHaveEntries, SizesAreExact, HasRecord, Named, Matching
  <2> QED
    BY <2>1, StoreStep, WaitingStep, LookStep, CopyStep, WriteIndexStep, PutRecordStep, RemoveStep
       DEF Next, Step
<1> QED
  BY <1>1, <1>2, PTL DEF Spec

\* Whoever reads the layout, at any moment and after any crash, finds it typed, complete and
\* unambiguous: copyDescriptorGraph completes what an interrupted pull left, and an entry
\* replaces the one of its name and platform.
THEOREM ImagesLayoutIsSound == Spec => []LayoutIsSound
<1>1. ImageInv => LayoutIsSound
  <2> SUFFICES ASSUME ImageInv PROVE LayoutIsSound
    OBVIOUS
  <2>1. ASSUME NEW r \in Refs PROVE Cardinality(Named(index, r)) <= 1
    <3>1. \A e, f \in Named(index, r) : e = f
      BY DEF ImageInv, IndexIsUnique, Named, Matching
    <3>2. CASE Named(index, r) = {}
      BY <3>2, FS_EmptySet
    <3>3. CASE Named(index, r) # {}
      <4>1. PICK e : Named(index, r) = {e}
        BY <3>1, <3>3
      <4> QED
        BY <4>1, FS_Singleton
    <3> QED
      BY <3>2, <3>3
  <2> QED
    BY <2>1 DEF ImageInv, LayoutIsSound, OneEntryPerReference
<1> QED
  BY <1>1, ImageInvariant, PTL

\* What List and Get say is true of the layout: a record has an entry, and its size counts each
\* blob of the image once.
THEOREM ImagesRecordsAreSound == Spec => []RecordsAreSound
<1>1. ImageInv => RecordsAreSound
  BY DEF ImageInv, RecordsAreSound
<1> QED
  BY <1>1, ImageInvariant, PTL

\* The image a Pull or Build returns is, when it returns, complete and named by index and record.
THEOREM ImagesReturnedIsUsable == Spec => ReturnedIsUsable
<1> DEFINE Usable(w) ==
      LET d == work'[w].image
      IN  work[w].op \in {"missing", "always", "build"} /\ work'[w].op = "none"
          /\ work'[w].result = "ok"
            => /\ Entry(work[w].ref, d) \in index'
               /\ records'[work[w].ref] # None /\ records'[work[w].ref].digest = d
               /\ Reach(d) \subseteq blobs'
<1>1. ASSUME ImageInv, Next, NEW w \in Workers PROVE Usable(w)
  <2> SUFFICES ASSUME work[w].op \in {"missing", "always", "build"}, work'[w].op = "none",
                      work'[w].result = "ok"
               PROVE  /\ Entry(work[w].ref, work'[w].image) \in index'
                      /\ records'[work[w].ref] # None
                      /\ records'[work[w].ref].digest = work'[w].image
                      /\ Reach(work'[w].image) \subseteq blobs'
    OBVIOUS
  <2>0. work \in [Workers -> Work] /\ work[w] \in Work /\ work[w].ref \in Refs
        /\ CallIsSound(work[w])
    BY <1>1, CallTyped DEF ImageInv, TypeOK, CallsAreSound
  <2>1. ~(CreateLayout \/ WriteLayout \/ OpenFails \/ Open \/ CallerCleansUp \/ Crash)
    BY <2>0 DEF CreateLayout, WriteLayout, OpenFails, Open, CallerCleansUp, Crash, Idle
  <2>2. PICK v \in Workers : Step(v) \/ Fail(v) \/ \E op \in Ops, r \in Refs : Begin(v, op, r)
    BY <1>1, <2>1 DEF Next
  <2>3. v = w
    BY <2>0, <2>2 DEF Step, Fail, Begin, Check, LockBuild, Lock, Recheck, Validate, Fetch, CopyBlob,
       Copied, WriteIndex, PutRecord, DeleteRecord, RemoveFromIndex, Goto, Reuse, Return
  <2>4. \A how : Return(w, how) => work'[w].result = how
    BY <2>0 DEF Return, Idle
  <2>5. \A step : Goto(w, step) => work'[w].op = work[w].op
    BY <2>0 DEF Goto, Work
  <2>6. CASE Check(w) \/ Recheck(w)
    <3>1. UNCHANGED <<index, records, blobs>>
      BY <2>6 DEF Check, Recheck, disk
    <3>2. ~Return(w, "invalid")
      BY <2>0, <2>4
    <3>3. ~Goto(w, "fetch")
      BY <2>0, <2>5
    <3>4. work' # [work EXCEPT ![w].step = "validate", ![w].blind = HasRecord(work[w].ref)]
      BY <2>0 DEF Work
    <3>5. Reuse(w) /\ Valid(work[w].ref)
      BY <2>6, <3>2, <3>3, <3>4 DEF Check, Recheck
    <3>6. work'[w].image = records[work[w].ref].digest
      BY <2>0, <3>5 DEF Reuse, Idle
    <3> QED
      BY <3>1, <3>5, <3>6 DEF Valid, HasRecord
  <2>7. CASE PutRecord(w)
    <3>1. /\ work'[w].image = work[w].image /\ UNCHANGED <<index, blobs>>
          /\ records' = [records EXCEPT ![work[w].ref] =
                           [digest |-> work[w].image, size |-> work[w].size]]
      BY <2>0, <2>7 DEF PutRecord, Return, Idle
    <3>2. records'[work[w].ref] = [digest |-> work[w].image, size |-> work[w].size]
      BY <1>1, <2>0, <3>1 DEF ImageInv, TypeOK
    <3>3. Entry(work[w].ref, work[w].image) \in index /\ Reach(work[w].image) \subseteq blobs
      BY <2>0, <2>7 DEF PutRecord, CallIsSound
    <3>4. records'[work[w].ref] # None
      BY <2>0, <2>7, <3>2, CallTyped, <1>1, ImageAssumption DEF PutRecord, CallIsSound, Record
    <3> QED
      BY <3>1, <3>2, <3>3, <3>4
  <2>8. CASE RemoveFromIndex(w) \/ Fail(w) \/ Validate(w)
    <3>1. ~RemoveFromIndex(w)
      BY <2>0 DEF RemoveFromIndex, CallIsSound
    <3>2. ~Return(w, "error")
      BY <2>0, <2>4
    <3>3. work' # [work EXCEPT ![w].step = "copy", ![w].todo = <<work[w].image>>]
      BY <2>0 DEF Work
    <3> QED
      BY <2>8, <3>1, <3>2, <3>3 DEF Fail, Validate
  <2>9. CASE \/ LockBuild(w) \/ Lock(w) \/ CopyBlob(w) \/ Copied(w) \/ WriteIndex(w)
             \/ DeleteRecord(w) \/ (\E l \in Layouts : Fetch(w, l))
             \/ (\E op \in Ops, r \in Refs : Begin(w, op, r))
    <3>1. work'[w].op = work[w].op \/ work'[w].result = "none"
      <4>1. CASE LockBuild(w) \/ Lock(w) \/ Copied(w) \/ WriteIndex(w) \/ DeleteRecord(w)
        BY <2>5, <4>1 DEF LockBuild, Lock, Copied, WriteIndex, DeleteRecord
      <4>2. CASE CopyBlob(w)
        BY <2>0, <4>2 DEF CopyBlob, Work
      <4>3. ASSUME NEW l \in Layouts, Fetch(w, l) PROVE work'[w].op = work[w].op
        BY <2>0, <4>3 DEF Fetch, Work
      <4>4. ASSUME NEW op \in Ops, NEW r \in Refs, Begin(w, op, r) PROVE work'[w].result = "none"
        BY <2>0, <4>4 DEF Begin, Idle
      <4> QED
        BY <2>9, <4>1, <4>2, <4>3, <4>4
    <3> QED
      BY <2>0, <3>1
  <2> QED
    BY <2>2, <2>3, <2>6, <2>7, <2>8, <2>9 DEF Step
<1>2. ImageInv /\ [Next]_vars => [\A w \in Workers : Usable(w)]_vars
  BY <1>1
<1> QED
  BY <1>2, ImageInvariant, PTL DEF Spec, ReturnedIsUsable

\* PullIfMissing leaves a usable image alone, also one that appeared during its download.
THEOREM ImagesIfMissingKeepsImage == Spec => IfMissingKeepsImage
<1> DEFINE Keeps == \A w \in Workers :
      work[w].op = "missing" /\ mu = w /\ ~work[w].blind /\ Valid(work[w].ref)
        => \A d \in Digests : LET e == Entry(work[w].ref, d)
                             IN  e \in index <=> e \in index'
<1>1. ASSUME ImageInv, Next PROVE Keeps
  <2>1. CASE UNCHANGED index
    BY <2>1
  <2>2. CASE index' # index
    <3>1. PICK v \in Workers : WriteIndex(v) \/ RemoveFromIndex(v)
      BY <1>1, <2>2 DEF Next, Step, Fail, Begin, Check, LockBuild, Lock, Recheck, Validate, Fetch,
         CopyBlob, Copied, PutRecord, DeleteRecord, CreateLayout, WriteLayout, OpenFails, Open,
         CallerCleansUp, Crash, disk
    <3>2. /\ mu = v /\ CallIsSound(work[v]) /\ work[v].step \in {"index", "unindex"}
      BY <1>1, <3>1
         DEF ImageInv, MutexHeld, CallsAreSound, WriteIndex, RemoveFromIndex, Critical
    <3>3. ~(work[v].op = "missing" /\ ~work[v].blind /\ Valid(work[v].ref))
      BY <3>2 DEF CallIsSound, Valid
    <3> QED
      BY <3>2, <3>3
  <2> QED
    BY <2>1, <2>2
<1>2. ImageInv /\ [Next]_vars => [Keeps]_vars
  BY <1>1
<1> QED
  BY <1>2, ImageInvariant, PTL DEF Spec, IfMissingKeepsImage
=============================================================================
