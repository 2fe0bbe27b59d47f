--------------------------- MODULE UserNamespace ---------------------------
(***************************************************************************)
(* The rootless user namespace of the bundle provisioner                   *)
(* (pkg/bundle/internal/directory/userns.go): from /etc/subuid and         *)
(* /etc/subgid to the mappings that images are unpacked, containers run    *)
(* and bundles removed with.  No state: operators on what the files say.   *)
(*                                                                         *)
(* A host is [uid, gid, subuid, subgid]: the caller's effective IDs and     *)
(* the two files.  A file is the sequence of its entries, none if it is    *)
(* absent; comments and blank lines are left out.  An entry says whether   *)
(* it is the caller's (by name or by number), whether it is well formed    *)
(* (three fields, two numbers), and the range it grants.                   *)
(***************************************************************************)
EXTENDS Integers, Sequences, FiniteSets

CONSTANT MaxID   \* the largest uint32

ASSUME IDAssumption == MaxID \in Nat \ {0}

IDs == 0 .. MaxID
FileEntry == [mine: BOOLEAN, formed: BOOLEAN, start: IDs, count: IDs]
Host == [uid: IDs, gid: IDs, subuid: Seq(FileEntry), subgid: Seq(FileEntry)]
Mapping == [container: IDs, host: IDs, size: IDs]

\* The first entry that is the caller's decides, also when a later one would do.
Found(file) ==
  {k \in DOMAIN file : file[k].mine /\ \A j \in DOMAIN file : file[j].mine => k <= j}

\* The sum is computed in uint64 and does not wrap.
Proper(e, own) ==
  /\ e.formed /\ e.start # 0 /\ e.count # 0
  /\ e.start + e.count <= MaxID
  /\ ~(e.start <= own /\ own < e.start + e.count)

\* Container root is the caller, other container IDs are subordinate ones.
Maps(file, own) ==
  {[container |-> 0, host |-> own, size |-> 1]} \cup
  {[container |-> 1, host |-> file[k].start, size |-> file[k].count] : k \in Found(file)}

Accepted(file, own) == \A k \in Found(file) : Proper(file[k], own)

\* currentUserNamespace gives a namespace, not an error: both files grant, or neither does.
Usable(h) ==
  /\ Accepted(h.subuid, h.uid) /\ Accepted(h.subgid, h.gid)
  /\ Found(h.subuid) = {} <=> Found(h.subgid) = {}

Namespace(h) == [uid |-> Maps(h.subuid, h.uid), gid |-> Maps(h.subgid, h.gid)]

\* multipleIDs: counts the mappings, not the IDs.
Multiple(ns) == Cardinality(ns.uid) > 1 /\ Cardinality(ns.gid) > 1

\* processUserIDMappedInNamespace
InMapping(id, m) == m.container <= id /\ id < m.container + m.size
Mapped(id, maps) == \E m \in maps : InMapping(id, m)

\* validateProcessUserIDsMapped
MapsUser(ns, user) == Mapped(user.uid, ns.uid) /\ \A g \in user.gids : Mapped(g, ns.gid)

\* What the kernel makes of a container ID: the host IDs the mappings give it.
HostIDs(id, maps) == {m.host + (id - m.container) : m \in {n \in maps : InMapping(id, n)}}

\* No two container IDs are one ID of the host, which is the caller's own or one granted to the
\* caller, and root's only if the caller is root.
OneToOne(maps, own) ==
  \A a, b \in IDs : \A x \in HostIDs(a, maps), y \in HostIDs(b, maps) :
    /\ x \in IDs
    /\ x = y => a = b
    /\ x \in {0, own} => a = 0
=============================================================================
