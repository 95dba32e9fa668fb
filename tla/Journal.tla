------------------------------ MODULE Journal ------------------------------
(***************************************************************************)
(* The write-ahead log of SpaceFS (fs/journal.c) together with the two     *)
(* functions of fs/spacefs.c that drive it: sfs_write_sec(), which wraps   *)
(* every sector write in journal_begin()/journal_commit(), and             *)
(* spfs_mount(), which runs journal_init()/journal_recover().              *)
(*                                                                         *)
(* Every write of one disk sector is one step, so a power cut (Crash) can  *)
(* fall between any two of them: during a write, and during recovery.      *)
(* Reads have no durable effect and are part of the step that uses them.   *)
(* The kernel runs these functions on one thread, to completion.           *)
(*                                                                         *)
(* Abstractions: a sector's contents are a member of Values; the checksum  *)
(* that journal_begin() stores and nothing reads is left out; the disk     *)
(* keeps the order of the writes (the driver sends one at a time); with    *)
(* IoErrors, a bitmap that spfs_mount() fails to read is left out.         *)
(***************************************************************************)
EXTENDS Naturals

CONSTANTS
  Sectors,   \* home sectors of disk 1 that SpaceFS writes
  Super,     \* sector 0, the block_num of a header that was never written
  Cached,    \* super block and bitmaps: sectors spfs_mount() keeps in RAM
  Values,    \* contents a sector can have
  Zero,      \* contents of a sector that was never written
  NEntries,  \* J_MAX_ENTRIES, 31 in the source
  TxMod,     \* 2^32 in the source: txid is a uint32_t
  IoErrors   \* whether a disk transfer may fail (ata_ler1, ata_gravar1 = -1)

ASSUME JournalAssumption ==
  /\ Super \in Sectors
  /\ Cached \subseteq Sectors
  /\ Zero \in Values
  /\ NEntries \in Nat /\ NEntries >= 2
  /\ TxMod \in Nat /\ TxMod > NEntries
  /\ IoErrors \in BOOLEAN

VARIABLES
  home,   \* disk: the home sectors
  dmeta,  \* disk: sector 35, the j_meta_t
  hdr,    \* disk: the header sector of each journal entry
  data,   \* disk: the data sector of each journal entry
  jmeta,  \* RAM: jmeta
  j_ok,   \* RAM: j_ok
  cache,  \* RAM: sb, imap and bmap, the copies of the Cached sectors
  pc,     \* the next disk write of the running call, or "idle" or "off"
  cur,    \* RAM: arguments of the running sfs_write_sec() and its txid
  idx     \* RAM: the local idx of journal_begin() or journal_recover()

diskVars == <<home, dmeta, hdr, data>>
ramVars == <<jmeta, j_ok, cache, cur, idx>>
vars == <<home, dmeta, hdr, data, jmeta, j_ok, cache, pc, cur, idx>>

Slots == 0 .. NEntries - 1
TxIds == 0 .. TxMod - 1

(* The steps of sfs_write_sec(), named after what is written next.         *)
Writing == {"hdr", "data", "meta", "home", "mark", "head"}
PCs == {"off", "rec", "idle"} \cup Writing

(* Mutants of Then: the entry published before its data is written, and    *)
(* the entry marked before the home sector is written.                     *)
ThenPublishFirst ==
  [hdr |-> "meta", meta |-> "data", data |-> "home",
   home |-> "mark", mark |-> "head", head |-> "idle"]
ThenMarkFirst ==
  [hdr |-> "data", data |-> "meta", meta |-> "mark",
   mark |-> "home", home |-> "head", head |-> "idle"]

(* The order in which sfs_write_sec(), journal_begin() and                 *)
(* journal_commit() write.                                                 *)
Then ==
  [hdr |-> "data", data |-> "meta", meta |-> "home",
   home |-> "mark", mark |-> "head", head |-> "idle"]

(* Mutants of IncTx: no wrap-around at 2^32, and no increment.             *)
IncTxStuck(t) == t

(* (tail + 1) % J_MAX_ENTRIES and the uint32_t increment of next_txid.     *)
IncSlot(i) == IF i + 1 = NEntries THEN 0 ELSE i + 1
IncTx(t) == IF t + 1 = TxMod THEN 0 ELSE t + 1

(* How many steps forward from slot a to slot b.                           *)
Ahead(a, b) == IF a <= b THEN b - a ELSE b - a + NEntries

(* The entries between head and tail, those recovery looks at.             *)
InLog(m, i) == Ahead(m.head, i) < Ahead(m.head, m.tail)

CleanMeta == [magic |-> TRUE, head |-> 0, tail |-> 0, next_txid |-> 0]
BlankMeta == [magic |-> FALSE, head |-> 0, tail |-> 0, next_txid |-> 0]
BlankHdr == [txid |-> 0, block_num |-> Super, committed |-> FALSE]
NoCall == [sec |-> Super, val |-> Zero, txid |-> 0]

(* Results a disk transfer can have: TRUE when it took place.              *)
IoResult == IF IoErrors THEN BOOLEAN ELSE {TRUE}

Metas == [magic : BOOLEAN, head : Slots, tail : Slots, next_txid : TxIds]
Headers == [txid : TxIds, block_num : Sectors, committed : BOOLEAN]

TypeOK ==
  /\ home \in [Sectors -> Values]
  /\ dmeta \in Metas
  /\ hdr \in [Slots -> Headers]
  /\ data \in [Slots -> Values]
  /\ jmeta \in Metas
  /\ j_ok \in BOOLEAN
  /\ cache \in [Cached -> Values]
  /\ pc \in PCs
  /\ cur \in [sec : Sectors, val : Values, txid : TxIds]
  /\ idx \in Slots
-----------------------------------------------------------------------------
(* A disk that spfs_format() has just filled: any contents, and a journal  *)
(* area of zeroes in which the power may have been cut before              *)
(* journal_init() wrote its sector.                                        *)
Init ==
  /\ home \in [Sectors -> Values]
  /\ dmeta \in {BlankMeta, CleanMeta}
  /\ hdr = [i \in Slots |-> BlankHdr]
  /\ data = [i \in Slots |-> Zero]
  /\ jmeta = BlankMeta
  /\ j_ok = FALSE
  /\ cache = [s \in Cached |-> Zero]
  /\ pc = "off"
  /\ cur = NoCall
  /\ idx = 0

(* spfs_mount() up to the call of journal_recover(): the RAM copies of the *)
(* super block and the bitmaps are read first, then journal_init() takes   *)
(* the journal sector as it is or, without the magic, writes a clean one.  *)
(* If journal_init() cannot read the sector, j_ok stays 0 and              *)
(* journal_recover() returns at once.                                      *)
Mount(rd, wr) ==
  /\ pc = "off"
  /\ cache' = [s \in Cached |-> home[s]]
  /\ IF rd
     THEN /\ jmeta' = IF dmeta.magic THEN dmeta ELSE CleanMeta
          /\ dmeta' = IF wr THEN jmeta' ELSE dmeta
          /\ j_ok' = TRUE
          /\ idx' = jmeta'.head
          /\ pc' = "rec"
     ELSE /\ pc' = "idle"
          /\ UNCHANGED <<jmeta, dmeta, j_ok, idx>>
  /\ UNCHANGED <<home, hdr, data, cur>>

(* Mutant of Replay: the loop does not advance.                            *)
ReplaySameEntry(wr) ==
  /\ pc = "rec"
  /\ idx # jmeta.tail
  /\ home' = IF hdr[idx].committed \/ ~ wr
             THEN home
             ELSE [home EXCEPT ![hdr[idx].block_num] = data[idx]]
  /\ UNCHANGED <<dmeta, hdr, data, jmeta, j_ok, cache, pc, cur, idx>>

(* One turn of the loop of journal_recover(): an entry without the         *)
(* committed flag is copied to its home sector, its header stays as it is. *)
Replay(wr) ==
  /\ pc = "rec"
  /\ idx # jmeta.tail
  /\ home' = IF hdr[idx].committed \/ ~ wr
             THEN home
             ELSE [home EXCEPT ![hdr[idx].block_num] = data[idx]]
  /\ idx' = IncSlot(idx)
  /\ UNCHANGED <<dmeta, hdr, data, jmeta, j_ok, cache, pc, cur>>

(* Mutant of RecoverDone: the replayed entries are left in the log.        *)
(* The loop ends, at tail or at a header it cannot read, and the journal   *)
(* is emptied.                                                             *)
RecoverDone(rd, wr) ==
  /\ pc = "rec"
  /\ idx = jmeta.tail \/ ~ rd
  /\ jmeta' = [jmeta EXCEPT !.head = jmeta.tail]
  /\ dmeta' = IF wr THEN jmeta' ELSE dmeta
  /\ idx' = 0
  /\ pc' = "idle"
  /\ UNCHANGED <<home, hdr, data, j_ok, cache, cur>>
-----------------------------------------------------------------------------
(* sfs_write_sec(s, v) is called.  For a Cached sector the caller passes   *)
(* the RAM copy it has just changed.                                       *)
WriteSec(s, v) ==
  /\ pc = "idle"
  /\ cache' = IF s \in Cached THEN [cache EXCEPT ![s] = v] ELSE cache
  /\ cur' = [sec |-> s, val |-> v, txid |-> 0]
  /\ pc' = IF j_ok THEN "hdr" ELSE "home"
  /\ UNCHANGED <<diskVars, jmeta, j_ok, idx>>

(* journal_begin(): the header goes to the entry at tail, ...              *)
BeginHdr(wr) ==
  /\ pc = "hdr"
  /\ hdr' = IF wr
            THEN [hdr EXCEPT ![jmeta.tail] = [txid |-> jmeta.next_txid,
                                              block_num |-> cur.sec,
                                              committed |-> FALSE]]
            ELSE hdr
  /\ idx' = jmeta.tail
  /\ pc' = Then[pc]
  /\ UNCHANGED <<home, dmeta, data, jmeta, j_ok, cache, cur>>

(* ... then the data, ...                                                  *)
BeginData(wr) ==
  /\ pc = "data"
  /\ data' = IF wr THEN [data EXCEPT ![idx] = cur.val] ELSE data
  /\ pc' = Then[pc]
  /\ UNCHANGED <<home, dmeta, hdr, ramVars>>

(* ... then tail and next_txid advance and the journal sector is written:  *)
(* from here on recovery finds the entry.                                  *)
BeginMeta(wr) ==
  /\ pc = "meta"
  /\ cur' = [cur EXCEPT !.txid = jmeta.next_txid]
  /\ jmeta' = [jmeta EXCEPT !.tail = IncSlot(jmeta.tail),
                            !.next_txid = IncTx(jmeta.next_txid)]
  /\ dmeta' = IF wr THEN jmeta' ELSE dmeta
  /\ pc' = Then[pc]
  /\ UNCHANGED <<home, hdr, data, j_ok, cache, idx>>

(* sfs_write_sec() writes the home sector.                                 *)
WriteHome(wr) ==
  /\ pc = "home"
  /\ home' = IF wr THEN [home EXCEPT ![cur.sec] = cur.val] ELSE home
  /\ IF j_ok THEN pc' = Then[pc] /\ cur' = cur
             ELSE pc' = "idle" /\ cur' = NoCall
  /\ UNCHANGED <<dmeta, hdr, data, jmeta, j_ok, cache, idx>>

(* The scan of journal_commit(): the entries are read from 0 on, whatever  *)
(* head and tail say, and the first uncommitted one with this txid counts. *)
(* An entry that cannot be read is skipped, so a later one may match.      *)
Matches(t) == {i \in Slots : hdr[i].txid = t /\ ~ hdr[i].committed}
FirstMatch(t) == CHOOSE i \in Matches(t) : \A j \in Matches(t) : i <= j

Found(t, rd) == IF rd THEN {FirstMatch(t)} ELSE Matches(t)

CommitMark(rd, wr) ==
  /\ pc = "mark"
  /\ IF Matches(cur.txid) = {} \/ ~ wr
     THEN hdr' = hdr
     ELSE \E i \in Found(cur.txid, rd) :
            hdr' = [hdr EXCEPT ![i].committed = TRUE]
  /\ pc' = Then[pc]
  /\ UNCHANGED <<home, dmeta, data, ramVars>>

(* The second loop of journal_commit() stops at the first uncommitted      *)
(* entry of the log, or at tail.                                           *)
Pending(m) == {i \in Slots : InLog(m, i) /\ ~ hdr[i].committed}
NewHead(m) ==
  IF Pending(m) = {}
  THEN m.tail
  ELSE CHOOSE i \in Pending(m) :
         \A j \in Pending(m) : Ahead(m.head, i) <= Ahead(m.head, j)

(* It also stops at a header it cannot read.                               *)
Stops(m, rd) ==
  IF rd THEN {NewHead(m)}
        ELSE {i \in Slots : Ahead(m.head, i) <= Ahead(m.head, NewHead(m))}

CommitHead(rd, wr) ==
  /\ pc = "head"
  /\ \E i \in Stops(jmeta, rd) : jmeta' = [jmeta EXCEPT !.head = i]
  /\ dmeta' = IF wr THEN jmeta' ELSE dmeta
  /\ cur' = NoCall
  /\ idx' = 0
  /\ pc' = Then[pc]
  /\ UNCHANGED <<home, hdr, data, j_ok, cache>>

(* A power cut or a reset: RAM is lost, the disk is not.                   *)
Crash ==
  /\ pc # "off"
  /\ pc' = "off"
  /\ jmeta' = BlankMeta
  /\ j_ok' = FALSE
  /\ cache' = [s \in Cached |-> Zero]
  /\ cur' = NoCall
  /\ idx' = 0
  /\ UNCHANGED diskVars
-----------------------------------------------------------------------------
(* The steps of the kernel once a call has started.                        *)
Kernel ==
  \E wr \in IoResult :
    \/ \E rd \in IoResult :
         \/ Mount(rd, wr)
         \/ RecoverDone(rd, wr)
         \/ CommitMark(rd, wr)
         \/ CommitHead(rd, wr)
    \/ Replay(wr)
    \/ BeginHdr(wr)
    \/ BeginData(wr)
    \/ BeginMeta(wr)
    \/ WriteHome(wr)

Next ==
  \/ Kernel
  \/ \E s \in Sectors, v \in Values : WriteSec(s, v)
  \/ Crash

Spec == Init /\ [][Next]_vars

(* The processor keeps executing a call that has started; nothing obliges  *)
(* a program to write or the power to fail.                                *)
FairSpec == Spec /\ WF_vars(Kernel)
-----------------------------------------------------------------------------
(* What the disk means: a home sector, unless the log holds a pending      *)
(* entry for it, in which case the last such entry, the one recovery would *)
(* copy last.                                                              *)
PendingFor(s) == {i \in Pending(dmeta) : hdr[i].block_num = s}
LastPending(s) ==
  CHOOSE i \in PendingFor(s) :
    \A j \in PendingFor(s) : Ahead(dmeta.head, j) <= Ahead(dmeta.head, i)
Effective ==
  [s \in Sectors |-> IF PendingFor(s) = {} THEN home[s]
                                           ELSE data[LastPending(s)]]

(* The write in progress as the abstract store sees it.                    *)
Request ==
  IF pc \in Writing
  THEN {[sec |-> cur.sec, val |-> cur.val,
         applied |-> pc \in {"home", "mark", "head"}]}
  ELSE {}

Abstract == INSTANCE AtomicStore WITH
  store <- Effective, req <- Request, up <- pc \notin {"off", "rec"}

(* The log makes every sector write atomic with respect to power cuts,     *)
(* those during recovery included: recovery changes nothing a reader could *)
(* have seen, and a write that returned is never lost (journal.h:4-12).    *)
ImplementsAtomicStore == Abstract!Spec

(* Reads go to the home sectors and never look at the log, so between      *)
(* calls nothing may be left in it that the home sectors do not have.      *)
IdleReadsAreDurable == pc = "idle" => home = Effective

(* journal_commit() searches the whole entry area by txid, stale entries   *)
(* of earlier laps, entries replayed but never marked, and entries never   *)
(* written (txid 0) included: it must find the entry journal_begin() has   *)
(* just written and no other.                                              *)
CommitFindsOwnEntry ==
  pc = "mark" => /\ Matches(cur.txid) # {}
                 /\ IncSlot(FirstMatch(cur.txid)) = jmeta.tail

(* While an entry is pending in the log its data and its destination stay  *)
(* as they were when it was published.                                     *)
PendingEntriesFrozen ==
  [][\A i \in Pending(dmeta) :
       /\ data'[i] = data[i]
       /\ hdr'[i].block_num = hdr[i].block_num]_vars

(* A mount ends, and a sector write that has begun returns, unless the     *)
(* power fails again: the recovery loop reaches tail whatever the log is.  *)
CallsEnd == (pc \notin {"idle", "off"}) ~> (pc \in {"idle", "off"})

(* The inductive invariant of the log on a disk without errors.            *)

(* The log holds at most one entry, and only while a write is between its  *)
(* publication and its return, or after a crash in between.                *)
OneEntryInLog(m) == m.tail \in {m.head, IncSlot(m.head)}

(* How many transactions ago t was given out.                              *)
TxAge(t) == IF t < dmeta.next_txid THEN dmeta.next_txid - t
                                   ELSE dmeta.next_txid - t + TxMod

(* How many entries ago slot i was written; NEntries for the next one.     *)
SlotAge(i) == IF i < dmeta.tail THEN dmeta.tail - i
                                ELSE dmeta.tail - i + NEntries

(* The header in slot i is that of the transaction that used the slot      *)
(* last, or of none during the first lap over the entries.                 *)
HeaderAged(i) ==
  \/ TxAge(hdr[i].txid) = SlotAge(i)
  \/ /\ dmeta.tail = dmeta.next_txid /\ dmeta.tail <= i
     /\ hdr[i].txid = 0

(* The slot at tail may also hold the header of a begin that a crash cut.  *)
LapInv ==
  /\ \A i \in Slots : i # dmeta.tail => HeaderAged(i)
  /\ pc \in {"home", "mark", "head"} => HeaderAged(dmeta.tail)

(* What the running call has already put on the disk.                      *)
Own(t, committed) ==
  [txid |-> t, block_num |-> cur.sec, committed |-> committed]
CallInv ==
  /\ ~ dmeta.magic => pc = "off" /\ dmeta = BlankMeta
  /\ pc # "off" => jmeta = dmeta /\ j_ok
  /\ pc \in {"idle", "hdr", "data", "meta"} => dmeta.tail = dmeta.head
  /\ pc \in {"data", "meta"} =>
       /\ idx = dmeta.tail
       /\ hdr[idx] = Own(dmeta.next_txid, FALSE)
  /\ pc = "meta" => data[idx] = cur.val
  /\ pc \in {"home", "mark", "head"} =>
       /\ dmeta.tail = IncSlot(dmeta.head)
       /\ dmeta.next_txid = IncTx(cur.txid)
       /\ hdr[dmeta.head] = Own(cur.txid, pc = "head")
       /\ data[dmeta.head] = cur.val
  /\ pc \in {"mark", "head"} => home[cur.sec] = cur.val
  /\ pc = "rec" =>
       /\ idx \in {dmeta.head, dmeta.tail}
       /\ idx = dmeta.tail =>
            \A i \in Pending(dmeta) : home[hdr[i].block_num] = data[i]

IndInv == TypeOK /\ OneEntryInLog(dmeta) /\ LapInv /\ CallInv
=============================================================================
