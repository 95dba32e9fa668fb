--------------------------------- MODULE Vfs ---------------------------------
(***************************************************************************)
(* The file interface of the shell, the package manager and the audit log  *)
(* (fs/vfs.c) over the FAT32 volume: paths, the current directory, and     *)
(* what a call leaves behind when the disk is full or the power fails.     *)
(*                                                                         *)
(* One thread makes the calls: those of every boot (main.c), then those of *)
(* the shell's commands.  A path is absolute or not, and a sequence        *)
(* of names; a name is taken as fat32_normalize() leaves it.  The text of  *)
(* the current directory, which only the prompt shows, is left out.        *)
(***************************************************************************)
EXTENDS Fat32

CONSTANTS
  Names,     \* names in paths
  Strings,   \* paths that are passed
  Contents,  \* what is written, as sequences of pieces
  AppendMax, \* VFS_APPEND_MAX, in pieces
  BootCalls, \* what main() calls before the shell, in order (BootCall)
  Uses,      \* the kinds of call that are made (KindsOf)
  Images,    \* disks as the host's tools made them
  Paths,     \* sequences of entries from the root, for the properties
  MaxCalls,  \* bound: calls of the shell that write
  PowerCuts  \* whether the power may fail

(* path_split_last() leaves the '/' of "/a" in the name, and               *)
(* fat32_normalize() takes it for a letter.                                *)
Rooted(n) == <<"/", n>>

ASSUME VfsAssumption ==
  /\ Names \subseteq EntryNames
  /\ \A s \in Strings : s.abs \in BOOLEAN /\ s.names \in Seq(Names) \ {<<>>}
  /\ \A b \in ToSet(BootCalls) :
       /\ b.path.abs /\ b.path.names \in Seq(Names) \ {<<>>}
       /\ b.text \in Seq(Texts)
  /\ \A s \in Strings \cup {b.path : b \in ToSet(BootCalls)} :
       s.abs /\ Len(s.names) = 1 => Rooted(s.names[1]) \in EntryNames
  /\ Contents \subseteq Seq(Texts)
  /\ AppendMax \in Nat
  /\ Images \subseteq Disks
  /\ Paths \subseteq Seq(EntryNames)
  /\ MaxCalls \in Nat
  /\ PowerCuts \in BOOLEAN

VARIABLES
  disk,  \* disk 0
  cwd,   \* cwd.cluster
  booted, \* how many of BootCalls were made
  calls, \* how many calls the shell made
  (* for the properties *)
  lost,  \* clusters that a power cut, a directory without room, or a file
         \* written over a directory took out of use
  tree,  \* what each path leads to
  doubled \* the paths of which a directory holds two entries

vars == <<disk, cwd, booted, calls, lost, tree, doubled>>

Start == [disk |-> disk, disks |-> <<>>, leaked |-> {}]
-----------------------------------------------------------------------------
(* One component in resolve_dir(): a file is accepted as the last one, and *)
(* leaves the walk in the directory that holds it.                         *)
Enter(d, at, name, last) ==
  LET e == Find(d, at.cluster, name) IN
  IF ~ at.ok \/ e.kind = "end" \/ (e.kind = "arquivo" /\ ~ last)
  THEN [at EXCEPT !.ok = FALSE]
  ELSE IF e.kind = "arquivo" THEN [at EXCEPT !.file = TRUE]
  ELSE [at EXCEPT !.cluster = e.cluster]

ResolveDir(d, cur, path) ==
  LET at[n \in 0 .. Len(path.names)] ==
        IF n = 0
        THEN [ok |-> TRUE, file |-> FALSE,
              cluster |-> IF path.abs THEN RootCluster ELSE cur]
        ELSE Enter(d, at[n - 1], path.names[n], n = Len(path.names))
  IN  at[Len(path.names)]

(* path_split_last() and the resolution of the parent, as every call does  *)
(* them.                                                                   *)
ParentOf(d, cur, path) ==
  ResolveDir(d, cur, [path EXCEPT !.names = Front(path.names)])

LastOf(path) ==
  IF path.abs /\ Len(path.names) = 1 THEN Rooted(path.names[1])
                                     ELSE Last(path.names)

(* vfs_open(): the entry, or End.                                          *)
VfsOpen(d, cur, path) ==
  LET parent == ParentOf(d, cur, path)
  IN  IF parent.ok THEN Find(d, parent.cluster, LastOf(path)) ELSE End

(* vfs_read() of a whole file; nothing is read when there is none.         *)
VfsRead(d, cur, path) ==
  LET e == VfsOpen(d, cur, path)
  IN  IF e.kind = "arquivo" THEN Read(d, e.cluster, e.size) ELSE <<>>

Failed(st) == [st |-> st, ret |-> -1]

(* The slots of a directory that name something, and all directories that  *)
(* can be reached from one, by a first or a second entry.                  *)
Listed(d, dir) ==
  LET chain == Chain(d, dir)
  IN  {k \in UsedSlots(d, chain) :
         LET e == SlotAt(d, chain, k)
         IN  e.kind \in {"arquivo", "diretorio"} /\ e.name \notin {Dot, DotDot}}

EntryOf(d, slot) == SlotAt(d, Chain(d, slot.dir), slot.k)
SlotsIn(d, dirs) ==
  UNION {{[dir |-> c, k |-> k] : k \in Listed(d, c)} : c \in dirs}

DirsIn(d, dirs) ==
  {EntryOf(d, x).cluster :
     x \in {y \in SlotsIn(d, dirs) : EntryOf(d, y).kind = "diretorio"}}

DirsFrom(d, dir) ==
  LET found[n \in 0 .. NClusters] ==
        IF n = 0 THEN [all |-> {dir}, new |-> {dir}]
        ELSE LET before == found[n - 1]
                 new == DirsIn(d, before.new) \ before.all
             IN  [all |-> before.all \cup new, new |-> new]
  IN  found[NClusters].all

SlotsBelow(d, dir) == SlotsIn(d, DirsFrom(d, dir))
ChainAt(d, slot) == Chain(d, EntryOf(d, slot).cluster)
ClustersBelow(d, dir) ==
  UNION {ToSet(ChainAt(d, x)) : x \in SlotsBelow(d, dir)}

(* vfs_write(): what has the name is deleted, a file or not; nothing frees *)
(* what a directory held.                                                  *)
Held(d, e) == IF e.kind = "diretorio" THEN ClustersBelow(d, e.cluster) ELSE {}

Cleared(st, dir, name) ==
  LET e == Find(st.disk, dir, name)
  IN  IF e.kind = "end" THEN st
      ELSE [Delete(st, dir, name).st EXCEPT !.leaked = @ \cup Held(st.disk, e)]

Written(new, text) ==
  IF new.c = 0 THEN Failed(new.st) ELSE WriteFile(new.st, new.c, text)

VfsWrite(st, cur, path, text) ==
  LET parent == ParentOf(st.disk, cur, path)
      name == LastOf(path)
  IN  IF ~ parent.ok THEN Failed(st)
      ELSE Written(Create(Cleared(st, parent.cluster, name),
                          parent.cluster, name, "arquivo"), text)

(* vfs_append(): what the file holds and the new data, written again.      *)
Kept(d, e, n) ==
  IF e.kind = "arquivo" /\ e.size > 0 /\ AppendMax > n
  THEN Read(d, e.cluster, Min({e.size, AppendMax - n})) ELSE <<>>

VfsAppend(st, cur, path, text) ==
  VfsWrite(st, cur, path,
           Kept(st.disk, VfsOpen(st.disk, cur, path), Len(text)) \o text)

(* vfs_mkdir().                                                            *)
Reported(new) == [st |-> new.st, ret |-> IF new.c = 0 THEN -1 ELSE 0]

VfsMkdir(st, cur, path) ==
  LET parent == ParentOf(st.disk, cur, path)
  IN  IF parent.ok
      THEN Reported(Create(st, parent.cluster, LastOf(path), "diretorio"))
      ELSE Failed(st)

(* vfs_unlink().                                                           *)
VfsUnlink(st, cur, path) ==
  LET parent == ParentOf(st.disk, cur, path)
  IN  IF parent.ok THEN Delete(st, parent.cluster, LastOf(path))
                   ELSE Failed(st)

(* vfs_rename(): within a directory.                                       *)
VfsRename(st, cur, path, to) ==
  LET parent == ParentOf(st.disk, cur, path)
      other == ParentOf(st.disk, cur, to)
  IN  IF parent.ok /\ other.ok /\ parent.cluster = other.cluster
      THEN Rename(st, parent.cluster, LastOf(path), LastOf(to))
      ELSE Failed(st)
-----------------------------------------------------------------------------
(* What a sequence of entries from the root leads to.                      *)
Node(d, p) ==
  LET at[n \in 0 .. Len(p)] ==
        IF n = 0 THEN NewEntry("diretorio", Dot, RootCluster)
        ELSE LET dir == at[n - 1]
             IN  IF dir.kind = "diretorio" THEN Find(d, dir.cluster, p[n])
                                           ELSE End
      e == at[Len(p)]
  IN  [kind |-> IF e.kind = "end" THEN "none" ELSE e.kind,
       cluster |-> e.cluster,
       text |-> IF e.kind = "arquivo" THEN Read(d, e.cluster, e.size) ELSE <<>>]

TreeOf(d) ==
  [p \in Paths |-> LET node == Node(d, p)
                   IN  [kind |-> node.kind, text |-> node.text]]

(* The paths that more than one entry of their directory has the name of.  *)
DoubledOf(d) ==
  {p \in Paths \ {<<>>} :
     LET dir == Node(d, Front(p))
     IN  /\ dir.kind = "diretorio"
         /\ Cardinality(Matching(d, Chain(d, dir.cluster), Last(p))) > 1}

Used(d) == ToSet(Chain(d, RootCluster)) \cup ClustersBelow(d, RootCluster)
Allocated(d) == {c \in Clusters : d.fat[c] # 0}

(* vfs_init() on a volume that other tools may have put files on.          *)
Init ==
  /\ disk \in Images
  /\ cwd = RootCluster
  /\ booted = 0
  /\ calls = 0
  /\ lost = {}
  /\ tree = TreeOf(disk)
  /\ doubled = DoubledOf(disk)

Up == booted = Len(BootCalls)

(* What a careful user would not do: write a file over the directory that  *)
(* one is in, or over one that is above it.                                *)
KindsOf(op, path) ==
  LET e == VfsOpen(disk, cwd, path) IN
  {op} \cup {k \in {"overcwd"} : /\ op \in {"write", "cp"}
                                 /\ e.kind = "diretorio"
                                 /\ cwd \in DirsFrom(disk, e.cluster)}

Observe(d) == tree' = TreeOf(d) /\ doubled' = DoubledOf(d)

Returns(result) ==
  /\ disk' = result.st.disk
  /\ lost' = lost \cup result.st.leaked
  /\ Observe(result.st.disk)
  /\ UNCHANGED cwd

(* The power fails after one of the sector writes; vfs_init() starts over, *)
(* and so do the calls of the boot.                                        *)
PowerFails(result) ==
  /\ PowerCuts
  /\ \E d \in ToSet(result.st.disks) :
       /\ disk' = d
       /\ lost' = Allocated(d) \ Used(d)
       /\ Observe(d)
  /\ cwd' = RootCluster
  /\ booted' = 0

Call(op, path, results) ==
  /\ Up /\ calls < MaxCalls
  /\ calls' = calls + 1
  /\ KindsOf(op, path) \subseteq Uses
  /\ \E result \in results :
       (Returns(result) /\ UNCHANGED booted) \/ PowerFails(result)

(* What the kernel calls at each boot: vfs_mkdir() whether the directory   *)
(* is there or not (audit_init(), secboot_init()) or only when vfs_open()  *)
(* finds none (pkg_init()); the line of audit_log(); and the hash that     *)
(* secboot_init() writes when it reads none.                               *)
Skipped == [st |-> Start, ret |-> 0]

BootResult(b) ==
  CASE b.op = "mkdir" -> VfsMkdir(Start, cwd, b.path)
    [] b.op = "ensure" ->
         IF VfsOpen(disk, cwd, b.path).kind # "end" THEN Skipped
         ELSE VfsMkdir(Start, cwd, b.path)
    [] b.op = "log" -> VfsAppend(Start, cwd, b.path, b.text)
    [] b.op = "hash" ->
         IF VfsRead(disk, cwd, b.path) # <<>> THEN Skipped
         ELSE VfsWrite(Start, cwd, b.path, b.text)

BootCall ==
  /\ ~ Up
  /\ \E result \in {BootResult(BootCalls[booted + 1])} :
       \/ Returns(result) /\ booted' = booted + 1
       \/ PowerFails(result)
  /\ UNCHANGED calls

(* The machine is turned off between two calls.                            *)
Reboot ==
  /\ Up
  /\ cwd' = RootCluster
  /\ booted' = 0
  /\ UNCHANGED <<disk, calls, lost, tree, doubled>>

Write(path, text) ==
  Call("write", path, {VfsWrite(Start, cwd, path, text)})

Mkdir(path) == Call("mkdir", path, {VfsMkdir(Start, cwd, path)})

(* The command rm looks at the entry first.                                *)
Removable(e) == e.kind = "arquivo"

Rm(path) ==
  /\ Removable(VfsOpen(disk, cwd, path))
  /\ Call("unlink", path, {VfsUnlink(Start, cwd, path)})

Mv(path, to) ==
  Call("rename", path, {VfsRename(Start, cwd, path, to)})

(* The command cp: the whole file, as its entry tells the size.            *)
Cp(path, to) ==
  /\ VfsOpen(disk, cwd, path).kind = "arquivo"
  /\ Call("cp", to, {VfsWrite(Start, cwd, to, VfsRead(disk, cwd, path))})

(* vfs_chdir(): an absolute path that ends in a file leads to the          *)
(* directory of the file.                                                  *)
Chdir(path) ==
  /\ Up
  /\ path.abs \/ Len(path.names) = 1
  /\ LET at == ResolveDir(disk, cwd, path) IN
       /\ at.ok
       /\ at.file => path.abs
       /\ cwd' = at.cluster
  /\ UNCHANGED <<disk, booted, calls, lost, tree, doubled>>

(* Other tools write 0 for the root.                                       *)
Above(e) == IF e.cluster = 0 THEN RootCluster ELSE e.cluster

ChdirUp ==
  /\ Up
  /\ Find(disk, cwd, DotDot).kind # "end"
  /\ cwd' = Above(Find(disk, cwd, DotDot))
  /\ UNCHANGED <<disk, booted, calls, lost, tree, doubled>>

Next ==
  \/ BootCall \/ Reboot
  \/ \E path \in Strings :
       \/ \E text \in Contents : Write(path, text)
       \/ Mkdir(path)
       \/ Rm(path)
       \/ \E to \in Strings : Mv(path, to) \/ Cp(path, to)
       \/ Chdir(path)
  \/ ChdirUp

Spec == Init /\ [][Next]_vars
-----------------------------------------------------------------------------
TypeOK ==
  /\ disk \in Disks
  /\ cwd \in Clusters
  /\ booted \in 0 .. Len(BootCalls) /\ calls \in 0 .. MaxCalls
  /\ lost \subseteq Clusters

(* Wherever the power fails in a call: no cluster is in two files or       *)
(* directories, of a first or a second entry; each chain is allocated to   *)
(* its end, and none is a circle (fat32.c marks a cluster before it uses   *)
(* it, and an entry before it frees its chain).                            *)
WholeChain(d, chain) == IsInjective(chain) /\ d.fat[Last(chain)] = EOF

ChainsOwned ==
  LET slots == SlotsBelow(disk, RootCluster) \cup {[dir |-> 0, k |-> 0]}
      chain == [x \in slots |-> IF x.dir = 0 THEN Chain(disk, RootCluster)
                                             ELSE ChainAt(disk, x)]
  IN  \A x \in slots :
        /\ WholeChain(disk, chain[x])
        /\ \A y \in slots \ {x} : ToSet(chain[x]) \cap ToSet(chain[y]) = {}

(* Every allocated cluster is in use, but for those that a power cut, a    *)
(* directory without room or a directory written over has cost: no other   *)
(* call, failed or not, and no boot, forgets one.                          *)
NothingLost == Allocated(disk) \subseteq Used(disk) \cup lost

Volume == INSTANCE VolumeTree WITH Contents <- Seq(Texts)

(* Whatever was done before, and wherever the power fails, a call changes  *)
(* nothing but the paths it names, and what is below them; a path is       *)
(* hidden by an entry of its own name only, when that name was made again. *)
ImplementsVolumeTree == Volume!VolumeSpec

(* "cluster do diretorio atual" (vfs.c:12): the cluster of the current     *)
(* directory is that of a directory, not given up or to anything else.     *)
CwdIsDirectory == cwd \in DirsFrom(disk, RootCluster)

(* "vfs_write - cria ou sobrescreve um arquivo. Retorna bytes escritos":   *)
(* those bytes can be read.                                                *)
WrittenIsRead ==
  Up => \A path \in Strings, text \in Contents :
    KindsOf("write", path) \subseteq Uses =>
      LET call == VfsWrite(Start, cwd, path, text) IN
      call.ret = Len(text) => VfsRead(call.st.disk, cwd, path) = text

(* What every state of the volume must be: chains stay apart and whole,    *)
(* and what is allocated is in use.                                        *)
VolumeSound == TypeOK /\ ChainsOwned /\ NothingLost
=============================================================================
