# SpaceOS in TLA+

SpaceOS is a 32-bit x86 hobby kernel in C: it boots from GRUB, runs a shell on
the VGA console, has a credit scheduler, a first-fit heap, a FAT32 file system
on disk 0, its own file system (SpaceFS) with a write-ahead log on disk 1, a
small TCP/IP stack over an RTL8139, a package manager, and drivers.  This
directory holds TLA+ specifications of its core, the TLC configurations that
check them on small instances, and TLAPS proofs of the main results for every
value of the constants.  Everything is translated from the source; paths below
are relative to `src/kernel/`.

How to run (TLA+ tools, community modules and TLAPS in the path):

    tlc -config Journal.cfg MCJournal        # and so on, see the table of runs
    tlapm JournalProofs.tla

## 1. Inventory

Two facts shape everything.  The kernel is **one thread plus interrupts**: the
shell runs every command to completion, the timer (1000 Hz) and the keyboard
interrupt it, and only processes made with `proc_criar()` are switched; there
is no sleeping lock.  And there is **no cache of the disk**: every sector write
goes through synchronously, so what a power cut can leave behind is a prefix of
the writes.

| Component | Source | State | Operations | Interacts with | What is hard |
|---|---|---|---|---|---|
| Write-ahead log | `fs/journal.c` | journal sector, 31 entries of two sectors, `jmeta`, `j_ok` | `journal_init`, `journal_recover`, `journal_begin`, `journal_commit` | called by SpaceFS around every sector write | crashes between any two writes, also in recovery; ring and txid wrap; errors of the disk |
| SpaceFS | `fs/spacefs.c` | super block, two bitmaps (and RAM copies), inodes, directories | `spfs_format/mount/read/write/mkdir/unlink/ls` | shell above, log below | reuse of blocks, inodes and entries; full disk; crash between sectors |
| Scheduler, processes | `proc/sched.c`, `proc/processo.c`, `cpu/timer.c`, `cpu/syscall.c` | list of PCBs, running PCB, credits, `prox_pid` | `proc_criar`, `proc_encerrar`, `sched_tick`, `proc_fork`, `proc_exec` | timer interrupt, `int 0x80`, heap | preemption inside an unlocked list; starvation; exit with interrupts off |
| Heap | `mem/kheap.c` | list of blocks in 256 KB at 0x300000 | `kmalloc`, `kfree` | processes, slab, shell, packages | split and coalesce; preemption in the middle |
| Page frames, slabs | `mem/pmm.c`, `mem/slab.c` | bitmap of frames; caches of slabs with free lists | `pmm_alloc/free`, `slab_alloc/free` | heap, paging | counters against bitmap; use after free |
| FAT32 | `fs/fat32.c` | both FATs, directory clusters | `fat32_create/write_file/delete/rename/append` | VFS, `ata_*` | cluster chains, entries left behind on failure, no log |
| VFS | `fs/vfs.c` | current directory | `vfs_read/write/mkdir/unlink/rename/chdir/append` | FAT32, packages, audit | delete before create |
| Audit log | `fs/audit.c` | line counter, file | `audit_log` | VFS | rotation |
| Packages | `pkg/*.c` | `/pkg/incoming`, `/pkg/db`, a list of files for each package | download, install with roll-back, remove, dependency order | VFS, shell, network | failing writes and power cuts half-way; a response in pieces |
| Network core | `net/rtl8139.c`, `ethernet.c`, `arp.c`, `ipv4.c`, `netbuf.c` | receive ring, ARP cache, one static frame and packet | `poll`, `arp_resolve`, `ip_send` | everything below | polling re-enters itself; shared static buffers |
| TCP, UDP | `net/tcp.c`, `net/udp.c` | sockets, receive ring | connect, send, recv, close | IP, TLS, DNS, DHCP | loss, duplication, reordering; time-outs |
| DHCP, DNS | `net/dhcp.c`, `net/dns.c` | state, offered address; query id | init, handler, resolve | UDP | two servers, late answers |
| TLS | `net/tls.c` | session keys, sequence numbers | handshake, read, write | TCP | record boundaries |
| Keyboard, shell | `teclado.c`, `shell/*.c` | one-character buffer, line, history ring | interrupt handler, line editor, commands | everything | the buffer is shared with an interrupt |
| ATA, DMA, AHCI | `disk/*.c` | device registers | transfers | file systems | time-outs |
| SMP, APIC, ACPI | `cpu/smp.c`, `apic.c`, `drivers/acpi.c` | count of processors | bring-up | boot | handshake with a starting processor |
| Boot, GDT/IDT/PIC, paging | `main.c`, `cpu/*.c`, `mem/paging*.c` | tables | initialisation | everything | order of initialisation |
| Secure boot check | `cpu/secboot.c` | stored hash | measure, compare | FAT32 | first boot |
| USB, HDA, PCI, WiFi | `drivers/*.c`, `net/wifi.c` | registers | detection | shell | none of protocol |

What makes the components correct:

* **Log**: a sector write is atomic with respect to power cuts and, once it has
  returned, durable; recovery changes nothing that a reader could have seen; the
  commit marks the entry of its own transaction.
* **SpaceFS**: it is a tree of files; a block has one owner; nothing leaks;
  entries lead to live inodes; a crash while creating takes nothing away.
* **Scheduler**: one process runs; the dead stay dead; the list is never broken
  under the running process; no process with credits starves.
* **Heap, frames, slabs**: blocks tile the arena, live blocks are disjoint.
* **FAT32/VFS**: chains are disjoint and none is forgotten; a call concerns the paths it names.
* **Packages**: what is registered is there and can be removed; no whole file of
  what is not registered stays; the package that was asked for comes after its dependencies.
* **Network**: each packet is handled once; TCP delivers what was sent, in order;
  DHCP and DNS take no answer that was meant for another question.
* **Keyboard and shell**: keys act once and in order; the row shows what Enter
  runs; the history is what was run.

`PROJECT.json` lists the hazards at their lines, with the properties about each.

## 2. Modules

| Module | Models | State and actions against the code |
|---|---|---|
| `AtomicStore` | what the log promises: sectors, a write in progress that a crash leaves done or not done | abstract specification |
| `Journal` | `fs/journal.c`, `sfs_write_sec()`, `spfs_mount()` | `dmeta`, `hdr`, `data`, `home` are the sectors of the disk, `jmeta`, `j_ok`, `cache` the static variables; one action per sector write: `BeginHdr`, `BeginData`, `BeginMeta`, `WriteHome`, `CommitMark`, `CommitHead`, `Mount`, `Replay`, `RecoverDone`; `Crash` |
| `Sched` | `proc_criar()`, `fila_adicionar()`, `proc_encerrar()`, `sched_tick()`, and that `kmalloc()` and `kfree()` may be preempted | `fila` is the list of PCBs, `call` the place a (preempted) process has reached; `Enters` and `HeapReturns`, `PcbTaken`, `PcbFails`, `StackReturns`, `PcbFreed` are the calls of the allocator, each of them two steps; `Fill`, `TakePid`, `FindLast`, `Link`, `Encerrar` the accesses to what processes share, `Tick` the interrupt; `heap` tells whether two calls of the allocator have overlapped |
| `FileTree` | what a file system promises: a tree of files and directories, of which a call concerns one path | abstract specification of `SpaceFS` |
| `VolumeTree` | the same where a name that exists may be made again: `doubled` are the paths with two entries, of which one is found | abstract specification of `Vfs`, extends `FileTree` |
| `SpaceFS` | `fs/spacefs.c` | `disk` is the disk as the log presents it, `ram` is `sb`, `imap`, `bmap`; `SpfsWrite`, `SpfsMkdir`, `SpfsUnlink`, `SpfsFormat` are the functions, `Write`, `Mkdir`, `Unlink`, `Format` the commands, `Mount`; each may end in a power cut |
| `Fat32` | `fs/fat32.c` | no variables: each function takes a disk (allocation table and clusters) and yields the disks its sector writes produce |
| `Vfs` | `fs/vfs.c`, the commands `cd`, `mkdir`, `rm`, `mv`, `cp`, and what each boot does on disk 0 | `disk` is the volume, `cwd` is `cwd.cluster`, `booted` how far the boot has come, `calls` how many calls the shell has made; `VfsWrite`, `VfsAppend`, `VfsMkdir`, `VfsUnlink`, `VfsRename` are the functions, each may end in a power cut; `BootCall` is one of the calls of `pkg_init()`, `audit_init()`, `secboot_init()`, `Reboot` the power switch between two calls; `Chdir`, `ChdirUp`; `lost`, `tree` and `doubled` are for the properties |
| `Kheap` | `mem/kheap.c` | `heap` is the list of headers by address, `op` the block a call looks at, `held` what callers hold; one action per turn of the two loops |
| `Frames` | `mem/pmm.c`, `mem/slab.c` | `bitmap`, `paginas_livres`; `lists` are the slabs of each cache, `slab` their `livre_count`, `free_list` and the words of their objects, through which the free list runs |
| `Memory` | the two side by side | |
| `NetPoll` | `net/rtl8139.c`, `ethernet.c`, `arp.c`, `ipv4.c`, `netbuf.c` | `mem`, `cbr` and `ptr` are the ring, the card's and the driver's position in it; `free_list` the netbufs; `stack` the calls in progress, because a poll that has to answer may wait in `arp_resolve()`, which polls |
| `Tcp` | `net/tcp.c` | `sockets` with their receive rings; `call` is the one call of the thread; `net` what was ever sent, `peer` the far ends (external); `Deliver` is a segment that arrives, `Dispatched` what `tcp_recv_dispatch()` makes of it |
| `Dhcp` | `net/dhcp.c`, `net/dns.c`, `net/udp.c` | `bindings` is the table of UDP handlers, `dhcp`, `config`, `dns` the static variables; `air` every message ever sent, servers external |
| `Pkg` | `pkg/*.c` | `incoming`, `files`, `lists`, `db` are the files; `job` is the place `pkg_install()` or `pkg_remove()` has reached; one action per call of the VFS, the `vfs_mkdir()` that `ensure_parent_dir()` makes before each file among them (`EnsureParentDir`); `HttpGet` is the loop that takes a response apart; `hist` is for the properties |
| `Shell` | `teclado.c`, `shell/shell.c`, `cmd_tecla()` | `ultimo_char` is the cell shared with the interrupt, `input_buf`, `historico`, `hist_total`, `hist_nav`, `argv`; `tela` the row of the cursor; `teclado_handler` is the interrupt, `Read` the two steps of `teclado_ultimo_char()`, the others the branches of the loop of `shell_init()` |
| `JournalProofs`, `SchedProofs`, `MemoryProofs`, `NetPollProofs`, `TcpProofs`, `DhcpProofs`, `PkgProofs`, `SpaceFSProofs` | theorems | |
| `MC*` | instances for TLC | |

**How they compose.** `Journal` and `SpaceFS` compose through their abstractions: the
log is shown to implement atomic, durable sector writes (`AtomicStore`), and
`SpaceFS` is written on top of exactly that.  The one thing that leaks through is
modelled in both: `spfs_mount()` reads super block and bitmaps from their home
sectors *before* recovery, so after a crash they may be one write behind (`home`
in `SpaceFS`, `cache` in `Journal`).

`Vfs` extends `Fat32`; its abstract specification extends that of `SpaceFS`, and nothing else
connects the two file systems, which are on different disks.  `Memory` extends
`Kheap` and `Frames`, which share no variable because `pmm_init()` does not know
of the heap.  `Pkg` takes the VFS by its contract in `vfs.h`, not by `Vfs`: as the code is,
a file that `vfs_write()` has written reads back empty (the run `vfs_read`), so that on top of
`Vfs` no package could ever be installed, and every property of `Pkg` would hold
of nothing.  What `Pkg` does take from `Vfs` is that a directory that is made again may hide the one there was.  `Tcp` and `Dhcp` take the way of a frame by what `NetPoll` says of it: it may be lost,
repeated (a nested poll hands it over again) or late, and `ip_send()` may fail.

## 3. Abstractions and bounds

**Journal.** A sector's contents are one of two values, a disk has two home
sectors, one of which is cached in RAM; 3 entries for 31 and txid modulo 5 for
2^32.  5 and 3 are coprime, as 2^32 and 31 are, so every alignment of the two
rings occurs, and wraps of both do.  The checksum in the header is left out
(it is written and never read).  Writes reach the disk in program order (the
driver is synchronous).  The run has no disk errors (`IoErrors = FALSE`); the actions
have them, and `TypeCorrect` is proved with them.  The proofs remove the bounds.

**Sched.** Four PCBs, two of which create others; the 256 KB heap has room for at most 15
stacks of 16 KB, hence at most 16 PCBs, which is why `MAX_PROCESSOS` tries always
cover the list.  Fresh memory holds 0 or more credits than any priority gives
(`Garbage`): `proc_criar()` does not initialise `creditos`, so a first slice may be longer than any
priority gives.  Pids grow with
creations, which the PCBs bound.  Nothing in the tree calls `proc_criar()` yet:
the module is about the interface that `processo.h` offers.  A tick is one step
(interrupts are off); the context switch saves and restores `call[p]`.
`kmalloc()` and `kfree()` take no lock and leave interrupts on (`kheap.c:79-135`), so each call is two
steps, and any process may make one of its own.  Two calls that overlap may both be given one block, or break the list of blocks:
what the code does then (a PCB that is filled in twice, a list that leads to itself) depends on the bytes in the shared block.
From there on the model stops (`heap = "raced"`), and every property and theorem
speaks of the time before.  Two creators are still preempted at every other place, between the two `kmalloc()` too.

**SpaceFS.** Paths of at most two names out of {a, b}; 4 inodes, 3 blocks that
the bitmap covers (of 5 in the super block: in the source it is 4096 of 65437, so
`free_blocks` never reaches zero), 2 blocks to an inode and 2 entries to a block.
With these, disk and inodes run out, blocks and entries are used again, and
a file takes 2 blocks, the second one half (`Sizes`: 3 halves of a block).  What the bounds do not reach is a directory of
more than four entries.  A piece of text does not read as an
entry of a name in use.  Sizes are at least 1: the shell adds a newline.
A name stands for all names with the same first `SFS_NAME_MAX` = 27 bytes (`Cut`): `dir_add_entry()` puts only these into
the entry (`Stored`, `spacefs.c:212-213`), and `path_find()` compares the whole name.  `nl` is a longer name that is cut to `na`; it is in
`SpaceFSCreate.cfg` and `SpaceFSNames.cfg`, and is the use `longname`, which `SpaceFS.cfg` leaves out.
`Uses` says which uses of the interface a run considers.  Excluded are the
careless ones of which section 6 says what the code does with them (removing the root, mkdir of a
name that exists, a name longer than an entry holds, writing below a file or to a directory, making an entry in a directory
that has no place left).  The bounds do not reach the last one: with two names no directory fills up.
`Paths` has the directories that each path goes through (`PathsAssumption`).  Power cuts leave
every prefix of the sector writes of a call.  Transfers do not fail here.

**Fat32, Vfs.** A volume of six clusters of one sector with four entries each
(16 in the source).  Other tools have made the directory of the log, `/na/na` for `/var/log`, and the log in it
(size set, `..` of a directory in the root is 0), and have removed a file from `/na`, so that
the next entry made there lands before an older one.  Directories and disk both run full, in every phase of a write.
Paths are up to three names of {na, nb}, relative or
absolute; a name is what `fat32_normalize()` makes of it, and `Rooted(n)` is what it
makes of `/n`, which keeps its slash.  The text that is written takes five pieces of the size of an entry, so two clusters;
`AppendMax`, also five, stands for 16 KB.
Every boot, the first one too, makes the calls of `BootCalls` in order: `/na/na` if it is not there (as `pkg_init()` does with its directories), `/na` and
`/na/na` whether they are there or not (`audit_init()`, `audit.c:63-64`), a line in the log, and a file with the hash of the kernel if it reads
as empty (`secboot_init()`).  Between a boot and the next the shell makes what is left of two calls (`MaxCalls`; `cd` and reboots are not counted), and the power fails after any sector write of
any call, the boot's too.  Nothing bounds the boots: they go on until directory and disk are full, and after.
Two calls are enough to use a name once more that was made again, moved or written over.
Left out: long names and the label, which all scans skip
(`fat32_delete()` and `fat32_rename()` do not skip a label of the same name), the second
copy of the table, which is never written, the text of the current directory, and files
without a cluster, which only other tools make.  A path
below a file leads into the directory of the file: such calls are included, and so are names that are made again (by a boot, `mkdir` or `mv`)
and files written over directories, by `cp` too.  One use is not in `Vfs.cfg`: writing over the directory that the shell is in, or one above it (`overcwd`).
Then `cwd` is a free cluster, of which nothing that follows can be said; `VfsCwd.cfg` shows it.

**Memory.** An arena of 12 units with headers of 3, so that up to four blocks fit; sizes are
rounded to 2 (4 in the source), a rest needs 2 more than a header, and requests are one that is rounded,
one that is not, and one so large that rounding passes the word of 64 (2^32) and gives 0.  One call runs at a time: at this commit
only the shell allocates after boot.  Callers free what they were given, once, as those in the repository do.
Eight frames of two units and two memory maps, one of regions that overlap and end
inside a frame; a cache with two objects to a slab and one with one, so that a cache
has two slabs, the second one with room, and a frame is left.  A caller writes into
its object (`Junk`), so a link is lost unless the code puts it there again.
The proofs remove the bounds of the heap and of the frames.

**NetPoll.** Lengths are in units of 16 bytes, a ring of eight of them with frames of two and three, so
that the fourth frame may pass the end, which the card allows (WRAP); the driver takes the
ring for 16 bytes longer than it is (`Slack`), and its pointer has 16 bits (`Laps`).  Two netbufs for
16 (`NestingBounded` is stated for any number): with two, the pool runs dry inside a nested poll.  `hist.stored` is how
much of the ring the card has used, so that properties can say `FirstLap`.  A cache of one
address, so that it is replaced.  Frames are ARP, data that has to be answered, or unreadable; at most
four come.  The state graph ends when they have come (`CHECK_DEADLOCK FALSE`).

**Tcp.** Two sockets and two connections, the second of which takes the slot of the first or
runs beside it, and to which late segments of the first may come; a receive ring of two that holds one unit, so that it
fills and wraps; two units in each direction; one tick of waiting.  Sequence numbers count from the SYN and do not wrap:
the code never compares them.  `MaxExtra` bounds by how much repeated segments push `ack_num` past
the data.  The far ends follow the protocol.

**Dhcp.** Two servers, one of which gives no gateway; a call that may be repeated, with the
same transaction number (it is constant in the source); two names that are looked up and a third that cannot be
encoded; two slots for handlers.  Messages stay in the air for ever.

**Pkg.** Three packages: one, one that depends on it and names it twice, and one with a name of eight characters and a path of
the first.  A database of two lines, so that it fills.  Two failures (writes that fail
or power cuts) in a behaviour.  A failed write leaves the file absent or short, as
`vfs_write()` deletes before it creates.  `Below` says which paths are below the directory of a path (none if that is the root): before each file, `ensure_parent_dir()` calls
`vfs_mkdir()` for that directory (`pkg_install.c:134`).  Its effect, of the two that `Vfs` has, is a choice, because which slots of a directory are free is not followed here:
the old entry is still the one found, or the new one is, and all files below are hidden.  That a hidden entry may come to light later is left out, and so are paths
that are directories of others or lie below `/pkg`.
A name of eight characters, which `spk.h:20` allows, makes `k_strncpy()` leave the path of the list without its end (`pkg_db.c:203`, `224`, `pkg_install.c:250`):
the path that is used may be another one each time (`Elsewhere`, `Loaded`).  What `k_strncpy()` behind the end overwrites is not followed.
The response is a header that holds a line end, an
empty line and a package of two bytes, cut at any places into pieces of at most `PieceMax` (256 bytes in the source; here
the empty line and the package just fit into one), and ending after any of them: every such cutting is
evaluated.  `HttpAssumption` says of the data what the formats say: a header ends at its
first empty line, and a package begins with its magic number.  Two packages are downloaded, the third is on the disk from the start.
`InstalledWhole` and `Accounted` except what `hist` says was hidden, and the packages of eight characters.

**Shell.** Bytes of the keyboard: a letter, the space, Enter, backspace, Esc, two arrows, a release and the
prefix 0xE0.  A line of four characters that fills the row of five after the prompt, a ring of two
commands, one argument, so that each limit is reached; eight keys.  Only the row of the cursor is kept.
Output of commands is left out; `cmd_tecla()` is in, because it reads the same cell.

## 4. Runs

| Run | Checks | Shows |
|---|---|---|
| `Journal.cfg` | `IndInv` (types, and the invariants of the log: at most one entry, how old each header is, what the running call has written), `CommitFindsOwnEntry`, `ImplementsAtomicStore`, `PendingEntriesFrozen`, `CallsEnd` | with power cuts anywhere the log is an atomic store; recovery and calls end |
| `Sched.cfg` | `IndInv` (`TypeOK`, `OneRunning`, `CurrentInFila` and what they rest on), `DeadStaysDead`, `CreditedRuns` | any preemption of creators and of other users of the heap, exits by call and by system call, until two calls of the allocator overlap |
| `SpaceFS.cfg` | `DiskSound` (`TypeOK`, `BlocksOwned`, `EntriesLive`), `NothingLeaks`, `WrittenIsRead`, `ImplementsFileTree` | any sequence of calls with names that an entry holds implements the tree |
| `SpaceFSCreate.cfg` | `DiskSound`, `FilesStay` | power cuts while files and directories are created, names that are cut among them; stops when nothing is left to create |
| `Vfs.cfg` | `VolumeSound` (`TypeOK`, `ChainsOwned`, `NothingLost`), `ImplementsVolumeTree` | boots, each of which makes its directories again, calls between them, and power cuts after any sector write, on a volume that runs full |
| `VfsRead.cfg` | `WrittenIsRead` | *violated*: the size in the entry is never written, a written file reads as empty |
| `Memory.cfg` | `HeapInv` (`KheapTypeOK`, `Tiles`, `Apart`, `HeldIsUsed`, `Coalesced`, `FirstFit`, `LooksForAsked`), `FramesOwned`, `SlabsSound` (`FramesTypeOK`, `ChainIsFree`), `GrowsWhenFull` | blocks tile the arena, free neighbours are joined, no frame and no object has two owners, the free list in the objects is exactly the free objects |
| `NetPoll.cfg` | `StackSound` (`TypeOK`, `BuffersConserved`, `NestingBounded`, `CacheLatest`), `HandedOnce`, `SentAsGiven`, `CallsReturn` | polls inside polls lose no buffer and end; in the first lap and without nesting each frame is handed over once; a datagram is sent as given unless a segment was answered while it waited |
| `Tcp.cfg` | `CleanReads` (`CleanStream`, `CleanEnd`), `SocketsSound` (`TypeOK`, `OwnPort`, `HalfOpenIsCalled`), `SentInOrder`, `CallReturns` | reads give a prefix of what was sent as long as segments come in order and have room; connections stay apart; no slot stays half open; calls return |
| `Dhcp.cfg` | `OneServerConfig`, `AnswerIsForName`, `ClientsSound` (`TypeOK`, `BoundWhileWaiting`) | late and repeated answers: one server's configuration, the address of the name that was asked for, no handler left behind |
| `Pkg.cfg` | `SavedIsBody`, `FilesMatchDb` (`TypeOK`, `OneLine`, `Accounted`, `NoOrphans`, `InstalledWhole`), `DepsFirst` | any cutting of a response saves the package from its first byte on; installing and removing with directories made again, failing writes and power cuts |
| `Shell.cfg` | `ScreenAndHistory` (`TypeOK`, `RowShowsInput`, `HistoryRecords`), `KeysInOrder`, `ArrowRecalls`, `RunsTheWords` | keys that arrive at any step of the reader |

Seven more configurations each check one property that the code breaks; TLC stops at the trace that section 6 tells.

| Configuration | Violated | Because |
|---|---|---|
| `SchedExit.cfg` | `DeadYields` | the loop of `proc_encerrar()` behind the interrupt gate |
| `SchedLost.cfg` | `CreatedListed` | two preempted `fila_adicionar()` link behind the same PCB |
| `SpaceFSNames.cfg` | `WrittenIsRead` | a name longer than the entry holds |
| `VfsCwd.cfg` | `CwdIsDirectory` | `cp` over the current directory |
| `PkgHidden.cfg` | `NoneHidden` | the directory of an installed file, made again |
| `PkgEight.cfg` | `EightAccounted` | a name of eight characters |
| `PkgPartial.cfg` | `RollbackClears` | the file whose write failed stays |

That FAT32 survives every power cut in `Vfs.cfg` without sharing a cluster, where
SpaceFS with its log does not (section 6), is because of the order of its
writes: a cluster is marked before it is used, an entry goes before its chain.  What
a cut costs are clusters (`lost`), and so do two calls without one: an entry that finds no room, and a file that is written over a directory, whose contents nothing frees.
`ImplementsVolumeTree` sees the texts only of files whose
entry has a size, that is, those other tools have written; of the others it shows where they are.
What it does allow is that a path with two entries shows the other one when a call names it.

Several properties have a proviso, because the code does not keep more:
`HandedOnce` (first lap, no nested poll), `SentAsGiven` (no segment answered meanwhile),
`CleanStream` and `CleanEnd` (segments in order, room in the ring), `OneServerConfig` (no
second server heard), `NoOrphans` (packages whose line was lost with others, that a power cut interrupted, or with names of eight characters; the short file of a failed write),
`InstalledWhole` (packages some of whose files were hidden), everything about `Sched` (until two calls of the allocator overlap),
`SavedIsBody` (no empty line in the package), `RowShowsInput` (a line that has not gone on to a second row),
`HeldIsUsed` (sizes whose rounding does not pass 2^32).

What the run `vfs_read` contradicts is quoted, with its line, in `PROJECT.json`
under `findings`.

**Fairness.** `Journal!FairSpec` has weak fairness of `Kernel`, the steps of a call
that has begun: the processor goes on executing, each transfer ends (the drivers
time out).  No fairness of new calls, nor of crashes.  `Sched!FairSpec` has weak
fairness of `Tick` (while the heap is whole, as all of `Next`): the timer fires while interrupts are enabled; nothing is
assumed about the processes, which may compute for ever.  `NetPoll` and `Tcp` have
weak fairness of the steps of the call in progress (`Driver`, `Return`), because nothing
but interrupts takes the processor from the shell, and of the timer's `Tick`, for which
their calls wait.  No fairness of the network or of far ends: nothing has to arrive.  `CallsReturn` of `NetPoll` is about the first lap of the ring: later the
driver may find a header that is none, for ever.  Safety specifications (`Spec`) have none.

## 5. Proofs

`JournalProofs` (constants arbitrary, subject to `JournalAssumption`):

* `TypeCorrect`: type invariant, with disk errors too.
* `IndInvariant`: `IndInv` is inductive on a disk without errors.  It is
  needed because `CommitFindsOwnEntry` is about a scan of the *whole* entry area,
  which holds headers of earlier laps: the invariant says how old each header is
  (`LapInv`: the age of its txid equals the age of its slot, unless the slot has
  never been used or a crash cut the begin), that the log holds at most one entry
  (`OneEntryInLog`), and what the running call has already put on the disk
  (`CallInv`).
* `CommitOwn`, `EntriesFrozen` and `IdleReads` (between calls the home sectors are what a recovery would leave) follow from it.
* `Refinement`: `Spec => ImplementsAtomicStore`, by `RefineInit` and `RefineStep`, with
  the mapping `store <- Effective` (home sectors overlaid with the pending entry).

`SchedProofs`, until two calls of the allocator overlap (`Whole`): `IndInvariant` (types, `OneRunning`, `CurrentInFila`, `NewInv`,
`LinkInv`), hence `TypeCorrect`, `OneRuns`, `CurrentListed`, and the action property
`DeadForever`.  `LinkInv` is why a preempted `fila_adicionar()` may lose others
but never the process that runs it: the PCB found last is never before its own.  `NewInv`, that a PCB that is being created is its creator's alone, is what
a race in the heap would break, and with it all the others; that is why none of these theorems goes further.

`MemoryProofs`, the heap (an arena, a header, a grain and requests of any size, subject to
`KheapAssumption`): `HeapInvariant`, hence `HeapTypeCorrect`, `BlocksTile`, `BlocksApart`, `HeldStaysUsed`,
`FreeJoinsAll` and `WalkIsFirstFit`.  The properties of the heap are inductive only together:
that what is cut off is a new block, and not one that was there, needs `Apart`; that
joining two leaves no entry pointing to the one that is gone needs `Tiles`; that the walk of
`kfree()` leaves no pair behind needs what it has already joined (`Coalesced` up to `op.at`) and
that the walk misses no block (`NextIs`); and that a caller gets room for what it asked needs
`LooksForAsked`, that a walk looks for the size of its own caller, rounded (`RoundedIs`).

`MemoryProofs`, frames and slabs (any number of frames, any memory map, any caches, subject to `FramesAssumption`):
`FramesHaveOneOwner`, with the counter `paginas_livres` kept equal to the cardinality of the unmarked
frames; `SlabsStaySound`; and the action property `GrowsOnlyWhenFull`.  The free list of a slab is described without
following it (`SlabInv`): there are places `c[0] .. c[livre_count]` such that `c[0]` is the head,
each word holds the next, all are different, together they are the free objects, and the last is the end
(`Links`).  `Push` puts one before them, `Pop` drops the first, and a holder writes only into objects
that are not among them.  That `Chain()` of the model, which follows the words, gives the same places is
`ChainFollows`.  All are theorems of `Memory`'s `Spec`, with heap and frames in any interleaving.

`NetPollProofs` (any ring, slack, pool, cache, traffic and number of frames, subject to `NetPollAssumption`).
`IndInvariant`: the types; what the ring holds are cells of frames that arrived (`CellsOfFrames`); on the stack, polls and waits
alternate (`Alternates`); each netbuf is in the list or in one call (`BuffersConserved`); an entry of the cache is what
the last answer said (`CacheSound`); and the packet of a waiting call is still its own unless a
segment was answered since (`OwnPacket`).  Hence `StackIsSound` and the action property `SendsAsGiven`.  `NestingBounded` is a consequence: each wait
under another call keeps a buffer, so there is one more of them than buffers at most.
`HandsOverOnce` needs a second invariant, `RingInv`, which speaks of the first lap only: the stored frames lie one
behind the other from cell 0 (`Layout`), and the driver stands at the beginning of one of them,
with those before it handed over (`Follows`).

`TcpProofs` (any number of slots, connections and units, a ring of any size, subject to `TcpAssumption`).  `IndInvariant`: a segment in the network was sent to
its port (`NetOK`), a port number is given once (`PortsOK`), the indices of a ring agree with what it holds (`RingOK`), only the call
in progress has a half open slot (`HalfOpenIsCalled`), `snd_next` is where the wire stands (`WireOK`), and while a
connection is clean, what was read, then what its ring holds, is the beginning of what was sent (`StreamOK`).  Hence
`SocketsAreSound`, `CleanReadsHold` and `SendsInOrder`.  The arithmetic of the ring is in lemmas of their own, over the
positions `head + i` taken modulo its size.

`DhcpProofs` (any servers, options, names, number of slots and of calls, subject to `DhcpAssumption`).  `IndInvariant`: which
slot a waiting call has its handler in (`FirstSlot`), that an answer it accepts belongs to the question that is open (`QuestionOpen`),
and that everything noted came from a server that was heard (`KnownFromHeard`, `MessagesFromHeard`).
Hence `ClientsAreSound`, `AnswersAreForNames` and `OneServerConfigures`.

`PkgProofs` (any packages, paths, dependencies, headers, bytes, sizes and any number of failures, subject to
`PkgAssumption` and `HttpAssumption`).  `IndInvariant` has three parts.  `FilesInv` says what each place that `pkg_install()` and `pkg_remove()` can
be at knows (`JobSound`: what is extracted and not hidden since is exactly what `done` names, the list is complete before the line is
written, a roll-back still has to remove what is there), that files lie only where a header puts
them (`HeldRecorded`), that the list of a registered package, unless its name has eight characters, is there and names all of its files (`Listed`, `ListsRecorded`), and that a dependency
is installed or still ahead in the order (`DepsComing`).  `IncomingFits` and `SavedIsBody` are about the download.
Hence `DatabaseMatches`, `DependenciesFirst` and `SavesFirstBytes`, with the exceptions of section 4: files that a directory made again has hidden, names of eight
characters, and what a failed write leaves of a file.  `DependenciesFirst` is about the package that `pkg_install()` was called for: the headers of those it pulls in are not read.  The last one is about a loop over pieces of any number and
size: the invariant of that loop (`OnTrack`) says that until the empty line was seen whole nothing is copied, and that
afterwards the buffer is the beginning of the package up to where the piece ends, or full.  It needs that the
response has one empty line at the end of its header (`OneEmptyLine`), and that a piece with the header fits the buffer: the code
copies nothing of one that does not.  `Without` and `HttpGet` are recursive functions; that such a function exists, so that its definition can be
used, is the lemma `Recursion`, by counting up (`Reaches`).

`SpaceFSProofs` (any numbers of inodes and blocks, any sizes, paths and texts, subject to `SpaceFSAssumption` and
`JunkAssumption`: what lies in the inode table before a format has the type of an inode).  `IndInvariant`, hence `DiskStaysSound` and `NothingIsLost`;
`TreeInvariant`, hence `WritesAreRead` and `Refinement`; and, with power cuts, `CutsLeaveDiskSound` and `CutsLeaveFiles`.
The first three are about calls that no power cut interrupts, and an `rm` that is not given the root
(`Uninterrupted`, as in `SpaceFS.cfg`): otherwise `DiskSound` is false, as section 6 says.
`DiskSound` and `NothingLeaks` speak of the inodes that paths lead to and of the block bitmap; neither is inductive.
`IndInv` says that all *marked* inodes together are one file system (`Whole`): each of their blocks is marked and has
one owner (`Owned`); entries lead to other marked inodes and no two to the same one (`Linked`), without which `rm` through one
entry would leave the other dangling; no text reads as an entry (`Texted`); nothing else is marked (`Held`) and the counters agree
(`Counted`); and the copies in RAM are those of the disk.  In the middle of a call less holds: a block is marked before an inode has it, an
inode before an entry leads to it.  So each kind of change to the disk has a lemma of its own (`MarksKeep`, `InodeElsewhere`, `BlockElsewhere`,
`JoinKeeps`, `EmptyKeeps`, `FillKeeps`, `DropKeeps`, `EntryKeeps`), which say what it preserves for a set `R` of
inodes that need not yet be all that are marked; a call is followed write by write with them, and its loops (blocks freed, blocks
written, names of a path) by counting up, as in `PkgProofs`.

The refinement is about paths, `IndInv` about inodes.  Between them stands `Edge(d, i, x, j)`: directory `i` leads by name `x` to inode `j`.
`TreeInv` adds to `IndInv` what makes an edge mean what the bytes say (`Ordered`): the blocks of a directory have no gap, its size
covers every entry, and no two of its entries have one name; `path_find()` stops at a gap, at the size and at the first entry of the name, so without any of the three an
entry could be there and not be found, or come to light when another is cleared.  A path leads to an inode (`Leads`) along edges
(`LeadsStep`), and no two paths lead to the same one (`OnePath`, from `Linked`).  What a call does to the edges (`EntryLinks`: one more;
`DropUnlinks`: all of one inode gone; `StayLinked`: the same ones) therefore says what it does to all paths (`LeadsAdded`, `LeadsDropped`,
`LeadsSame`), by induction on the length of a path.  A file's text stays when its inode and blocks do (`Alike`, `NodeAlike`), and `WriteDataText` follows the
loop of `spfs_write()`: its blocks are the first `m` of the inode, they hold the text, and the loop ends early only on a full disk.
Both theorems assume the uses that section 3 names (`Careful`), names that an entry holds among them: with longer ones both are false.  Of them `WritesAreRead` alone needs that the directory is not full.
`WrittenIsRead` does not follow from the refinement: in `FileTree` part of a text may be written.

The two theorems on power cuts are about behaviours that only create (`Creating`: no overwrite, `rm` or format, which do not
keep `DiskSound` under a cut, and no path below a file; mkdir of a name that exists, names that are cut, the root and a full directory are allowed), as in `SpaceFSCreate.cfg`, with any
number of cuts and mounts.  After a cut nothing of `IndInv` but its core is left: a marked inode may lead nowhere or be unwritten, counters and bitmaps differ,
RAM was read from home sectors that the log has not reached yet, and the size of a directory may be one short.  `CutInv` says what is:
there is a set `R` of live inodes on which the disk is sound (`Sound`, the part of `IndInv` that does not need every
marked inode), the directories among them have no hole (`Holeless`), and of the three copies of bitmaps and counters (RAM, home, disk) each marks `R` and its blocks (`Covers`), so that
nothing live is given away twice, lags behind the disk by at most the mark that would be taken next (`Lags`), so that taking it again changes nothing, and
has counters in range (`Fits`).  A call is followed write by write (`Run`): every prefix of its writes, with the home copies of that write or the one before, satisfies this
for a set that only grows.  That no file goes away is a statement on two disks, `Grows`: a live file keeps its inode and blocks, a directory its entries, each in its place.
The first entry of a name therefore stays the first (`NamedStays`; here `Holeless` is needed: a hole could be filled by the same name), and by
induction on its length a path goes on leading to the same inode (`PathStays`).

Only model-checked: liveness (`CallsEnd`, `CreditedRuns`, `CallsReturn`,
`CallReturns`), which the prover cannot do under fairness; `Fat32`, `Vfs` and `Shell`, whose proofs
have not been written.

## 6. What the code does that its comments do not say

The run `vfs_read` shows one such case, the seven configurations listed after the runs show others, and the rest were met while modelling; the properties
above are stated so that they hold beside them.

* `spfs_mount()` reads super block and bitmaps before `journal_init()` recovers
  (`spacefs.c:271-275`), so the RAM copies may miss the write that was replayed
  (`journal.h:12` promises a consistent state after recovery).
* `journal_begin()` and `journal_commit()` do not look at what their sector writes return
  (`journal.c:95-115`): with a failing disk, an acknowledged write may be undone by a later recovery
  (`journal.h:10`).
* `fila_adicionar()` takes no lock, though `sched.c:9` has one to protect the list: two
  creators may lose a new process (`CurrentInFila` says who is never lost).  `SchedLost.cfg` shows it: both find the same last PCB, and the
  second link overwrites the first (`processo.c:22` says "adiciona processo no final da fila").
* `SYS_EXIT` ends in the loop of `proc_encerrar()` with interrupts disabled
  (`syscall.c:62`): the dead process keeps the processor, though `processo.c:100` says "scheduler vai remover no proximo tick".
  `SchedExit.cfg` shows it; `Sched.cfg` includes such exits.
* `kmalloc()` and `kfree()` take no lock and leave interrupts on (`kheap.c:87-104`): two preempted creators may be given the same PCB
  or stack.  A PCB that is filled in and linked twice leads to itself, and a dead process may be READY again.
* `spfs_unlink()` and an overwrite free blocks on the disk before they write the inode
  (`spacefs.c:328`, `398`): after a power cut between the two, blocks get a second owner.
  With `"overwrite"` or `"unlink"` added to `Uses` in `SpaceFSCreate.cfg` TLC finds `DiskSound` (its `BlocksOwned`) violated.
* `dir_add_entry()` writes the entry before the size of the directory (`spacefs.c:214-215`): after a power cut between the two
  `path_find()` does not see the entry, the next call to make an entry brings it to light, and that call's own
  stays out of sight instead.
* `spfs_mkdir()` ignores the result of `dir_add_entry()` (`spacefs.c:387`): on a full
  directory the command reports that the directory was made (`comandos.c:992`).
  `spfs_write()` ignores it too (`spacefs.c:343`): a file for which a directory of 160 entries has no place is written
  to the disk, its whole size is returned, and no path leads to it.  With `"fulldir"` in `Uses`, `NDirect = 1`,
  `Sizes = {1}` and a third name in the root, TLC finds `WrittenIsRead` violated.
* `dir_add_entry()` cuts a name to 27 bytes (`spacefs.c:212-213`), `path_find()` compares the whole (`spacefs.c:147`): a file with a longer name, which the shell's line of 128
  bytes can hold, is written, its size returned, and found by no read or `rm`; each further write makes another entry.  `SpaceFSNames.cfg` shows it.
* With `"again"` or `"underfile"` added to `Uses` in `SpaceFS.cfg`, TLC finds
  `ImplementsFileTree` violated: mkdir of a name that exists makes a second
  entry, which appears when the first is removed, and a path below a file is
  written into the contents of that file.  With `"root"`, `spfs rm /` releases inode 0.
* `vfs_mkdir()` does not look whether the name exists (`vfs.c:256`).  Every boot makes `/var` and `/var/log` again (`audit.c:63-64`) and costs an entry and a cluster each, until no directory
  has room; when an earlier slot is free, the new, empty directory is the one found, and the log begins anew.
  `pkg_install()` does the same with the parent of every file (`pkg_install.c:30`; line 29 says "vfs_mkdir falha silenciosamente se ja existe"): `PkgHidden.cfg` shows installed files hidden.
* `vfs_write()` deletes whatever has the name, a directory too (`vfs.c:226`), and `cmd_cp()` does not look at its destination (`comandos.c:729-764`): what the directory held is
  lost, and when it is the current one, `cwd.cluster` (`vfs.c:12`: "cluster do diretorio atual") is a free cluster.  `VfsCwd.cfg` shows it.
* `ip_send()` builds every datagram in one static buffer, and waits in `arp_resolve()`,
  which polls: a segment answered meanwhile replaces the datagram (`ipv4.c:74`).
* The driver takes the receive ring for 16 bytes longer than the card does, so that from the second
  lap on headers are misread (`rtl8139.c:191`); and it advances the read pointer after
  `recv_cb()`, so that a nested poll is handed the same frame.
* `tcp_recv_dispatch()` does not look at sequence numbers (`tcp.c:233`): repeated or
  reordered segments are appended, and data that finds no room is acknowledged.
* `dhcp_init()` takes the address of one server and the options another one sent, if both answer
  (`dhcp.c:132`).
* A roll-back removes the files that were written whole (`pkg_install.c:168`), not the one whose write failed, of which a part may stay
  (line 167 says "removendo arquivos parciais"; `PkgPartial.cfg`), nor the list when the line could not be written; and it removes files that another package had installed at the same path.
* With a name of eight characters (`spk.h:20`: "max 8 chars") the path of the list has no end (`pkg_db.c:203`): a package may be registered whose list `pkg_remove()` does not find (`PkgEight.cfg`).
* The headers of dependencies are not read (`pkg_solver.c:33-62`): one that is pulled in is registered without its own.
* `pkg_db_add()` writes the whole database anew, so that a
  failed write loses the lines of others (`pkg_db.c:160`).
* In the shell, `hist_nav` goes on to `hist_total - 1` though the ring holds fewer, a line that has gone on to a
  second row is not erased on the first, and the prefix 0xE0 never reaches its own test
  (`teclado.c:176`), because the test for a released key (bit 7, line 170) catches it first, so the keypad's arrows
  and digits are the same.
* The frames of the heap at 0x300000 are free for `pmm_alloc()` (`pmm.c:92`); `kmalloc()` of nearly 4 GB
  gives an empty block; a second `kfree()` of a block writes into whatever it has become part of, and
  two preempted callers of `kmalloc()` (there are none yet) would get the same block.

## 7. Not modelled, and the plan

* `proc_fork()` and `proc_exec()`: the child starts from `ctx.esp`, the parent's
  stack pointer at its last tick; the only caller is the command `fork` of the shell,
  whose process 0 has no stack of its own to copy.  What the child runs is undefined, and a model could
  only say so.
* TLS: no one calls it; its record layer is a sequence number, the rest is arithmetic.
* Descriptor tables, page tables, the order of boot: straight-line code that runs once.
* PCI, HDA, USB, WiFi, ATA, DMA, AHCI: register-level access; what the modules above need of a
  disk is that a transfer ends and says whether it was done.
* The identity of a process and the checksums: hashes.

Next, in this order: the handshake of `smp_init()` with `ap_main()`; the hash chain of the
audit log over `Vfs`; the measured files of the secure boot check; a proof of `ScreenAndHistory` for `Shell`, and of `VolumeSound` for `Vfs`, whose
chains of clusters need an induction of their own.
