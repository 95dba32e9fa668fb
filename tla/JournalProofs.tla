--------------------------- MODULE JournalProofs ---------------------------
(***************************************************************************)
(* Theorems about the write-ahead log, for any sectors, any number of      *)
(* journal entries and any width of txid.                                  *)
(***************************************************************************)
EXTENDS Journal, WellFoundedInduction, TLAPS

(* A non-empty set of natural numbers has a least element.                 *)
LEMMA NatMinimum ==
  ASSUME NEW S, S \subseteq Nat, S # {}
  PROVE  \E m \in S : \A n \in S : m <= n
<1>1. IsWellFoundedOn(OpToRel(<, Nat), Nat)
  BY NatLessThanWellFounded
<1>2. PICK m \in S : \A n \in S : ~ (<<n, m>> \in OpToRel(<, Nat))
  BY <1>1, WFMin
<1>3. \A n \in S : ~ (n < m)
  BY <1>2 DEF OpToRel
<1> QED
  BY <1>3
-----------------------------------------------------------------------------
(* The distance between two slots of the ring.                             *)
LEMMA AheadType ==
  ASSUME NEW a \in Slots, NEW b \in Slots
  PROVE  Ahead(a, b) \in Nat
BY JournalAssumption DEF Slots, Ahead

(* The slot after a slot, and the number after a txid.                     *)
LEMMA IncType ==
  /\ \A i \in Slots : IncSlot(i) \in Slots
  /\ \A t \in TxIds : IncTx(t) \in TxIds
BY JournalAssumption DEF Slots, TxIds, IncSlot, IncTx

(* journal_commit() leaves head on an entry of the area.                   *)
LEMMA NewHeadType ==
  ASSUME NEW m \in Metas
  PROVE  NewHead(m) \in Slots
<1>1. CASE Pending(m) = {}
  BY <1>1 DEF NewHead, Metas
<1>2. CASE Pending(m) # {}
  <2> DEFINE D == {Ahead(m.head, i) : i \in Pending(m)}
  <2>1. \A i \in Pending(m) : i \in Slots /\ Ahead(m.head, i) \in Nat
    BY AheadType DEF Pending, Metas
  <2>2. D \subseteq Nat /\ D # {}
    BY <1>2, <2>1
  <2>3. PICK d \in D : \A e \in D : d <= e
    BY <2>2, NatMinimum
  <2>4. PICK i \in Pending(m) : d = Ahead(m.head, i)
    BY <2>3
  <2>5. \A j \in Pending(m) : Ahead(m.head, i) <= Ahead(m.head, j)
    BY <2>3, <2>4
  <2>6. NewHead(m) \in Pending(m)
    BY <1>2, <2>4, <2>5 DEF NewHead
  <2> QED
    BY <2>1, <2>6
<1> QED
  BY <1>1, <1>2

(* The constant records have the types of the variables they initialise.   *)
LEMMA ConstantTypes ==
  /\ CleanMeta \in Metas /\ BlankMeta \in Metas
  /\ BlankHdr \in Headers
  /\ NoCall \in [sec : Sectors, val : Values, txid : TxIds]
  /\ 0 \in Slots /\ 0 \in TxIds
BY JournalAssumption
   DEF CleanMeta, BlankMeta, BlankHdr, NoCall, Metas, Headers, Slots, TxIds

(* A formatted disk and a machine that is off have the right types.         *)
LEMMA TypeInit == Init => TypeOK
BY ConstantTypes, JournalAssumption DEF Init, TypeOK, PCs

(* Every step keeps the types, whatever the disk does.                     *)
LEMMA TypeStep == TypeOK /\ [Next]_vars => TypeOK'
<1> SUFFICES ASSUME TypeOK, [Next]_vars PROVE TypeOK'
  OBVIOUS
<1> USE JournalAssumption, ConstantTypes DEF TypeOK
<1>1. ASSUME NEW wr \in IoResult, NEW rd \in IoResult, Mount(rd, wr)
      PROVE  TypeOK'
  BY <1>1 DEF Mount, PCs, Metas
<1>2. ASSUME NEW wr \in IoResult, NEW rd \in IoResult, RecoverDone(rd, wr)
      PROVE  TypeOK'
  BY <1>2 DEF RecoverDone, PCs, Metas
<1>3. ASSUME NEW wr \in IoResult, Replay(wr) PROVE TypeOK'
  BY <1>3, IncType DEF Replay, Headers
<1>4. ASSUME NEW wr \in IoResult, BeginHdr(wr) PROVE TypeOK'
  BY <1>4 DEF BeginHdr, Metas, Headers, Then, PCs, Writing
<1>5. ASSUME NEW wr \in IoResult, BeginData(wr) PROVE TypeOK'
  BY <1>5 DEF BeginData, Then, PCs, Writing, ramVars
<1>6. ASSUME NEW wr \in IoResult, BeginMeta(wr) PROVE TypeOK'
  BY <1>6, IncType DEF BeginMeta, Metas, Then, PCs, Writing
<1>7. ASSUME NEW wr \in IoResult, WriteHome(wr) PROVE TypeOK'
  BY <1>7 DEF WriteHome, Then, PCs, Writing
<1>8. ASSUME NEW wr \in IoResult, NEW rd \in IoResult, CommitMark(rd, wr)
      PROVE  TypeOK'
  <2>1. pc' \in PCs /\ UNCHANGED <<home, dmeta, data, ramVars>>
    BY <1>8 DEF CommitMark, Found, Then, PCs, Writing
  <2>2. hdr' = hdr \/ \E i : hdr' = [hdr EXCEPT ![i].committed = TRUE]
    BY <1>8 DEF CommitMark
  <2>3. ASSUME NEW i, hdr' = [hdr EXCEPT ![i].committed = TRUE]
        PROVE  hdr' \in [Slots -> Headers]
    <3>1. \A k \in Slots : hdr'[k] = IF k = i
                                     THEN [hdr[k] EXCEPT !.committed = TRUE]
                                     ELSE hdr[k]
      BY <2>3
    <3>2. \A k \in Slots : hdr'[k] \in Headers
      BY <3>1 DEF Headers
    <3> QED
      BY <2>3, <3>2
  <2> QED
    BY <2>1, <2>2, <2>3 DEF ramVars
<1>9. ASSUME NEW wr \in IoResult, NEW rd \in IoResult, CommitHead(rd, wr)
      PROVE  TypeOK'
  <2>1. NewHead(jmeta) \in Slots
    BY NewHeadType
  <2>2. Stops(jmeta, rd) \subseteq Slots
    BY <2>1 DEF Stops
  <2> QED
    BY <1>9, <2>2 DEF CommitHead, Metas, Then, PCs, Writing
<1>10. ASSUME NEW s \in Sectors, NEW v \in Values, WriteSec(s, v)
       PROVE  TypeOK'
  BY <1>10 DEF WriteSec, diskVars, PCs, Writing
<1>11. CASE Crash
  BY <1>11 DEF Crash, diskVars, PCs
<1>12. CASE UNCHANGED vars
  BY <1>12 DEF vars
<1> QED
  BY <1>1, <1>2, <1>3, <1>4, <1>5, <1>6, <1>7, <1>8, <1>9, <1>10, <1>11,
     <1>12 DEF Next, Kernel

(* Every variable keeps its type, on a disk with errors too.               *)
THEOREM TypeCorrect == Spec => []TypeOK
<1>1. Init => TypeOK
  BY TypeInit
<1>2. TypeOK /\ [Next]_vars => TypeOK'
  BY TypeStep
<1> QED
  BY <1>1, <1>2, PTL DEF Spec
-----------------------------------------------------------------------------
(* A log of at most one entry has at most that entry pending.              *)
LEMMA PendingOne ==
  ASSUME TypeOK, NEW m \in Metas, OneEntryInLog(m)
  PROVE  Pending(m) = IF m.tail # m.head /\ ~ hdr[m.head].committed
                      THEN {m.head} ELSE {}
<1>1. m.head \in Slots /\ m.tail \in Slots
  BY DEF Metas
<1>2. \A i \in Slots : InLog(m, i) <=> m.tail # m.head /\ i = m.head
  BY <1>1, JournalAssumption DEF OneEntryInLog, InLog, Ahead, Slots, IncSlot
<1> QED
  BY <1>1, <1>2 DEF Pending

(* Without errors every transfer takes place.                              *)
LEMMA NoErrors == IoErrors = FALSE => IoResult = {TRUE}
BY DEF IoResult

(* A formatted disk satisfies the invariant of the log.                    *)
LEMMA IndInit == Init => IndInv
<1> SUFFICES ASSUME Init PROVE IndInv
  OBVIOUS
<1>1. TypeOK
  BY TypeInit
<1>2. OneEntryInLog(dmeta) /\ CallInv
  BY <1>1 DEF Init, OneEntryInLog, CallInv, BlankMeta, CleanMeta
<1>3. LapInv
  BY JournalAssumption
     DEF Init, LapInv, HeaderAged, BlankMeta, CleanMeta, BlankHdr, Slots
<1> QED
  BY <1>1, <1>2, <1>3 DEF IndInv

(* Publishing an entry makes every other slot one transaction older.       *)
LEMMA AgeStep ==
  ASSUME IndInv, pc = "meta", BeginMeta(TRUE), TypeOK'
  PROVE  LapInv'
<1> USE JournalAssumption
<1>1. /\ dmeta \in Metas /\ dmeta' \in Metas /\ hdr \in [Slots -> Headers]
      /\ jmeta = dmeta /\ hdr' = hdr /\ idx = dmeta.tail
      /\ hdr[idx].txid = dmeta.next_txid
      /\ pc' = "home"
  BY DEF IndInv, TypeOK, CallInv, BeginMeta, Then, Own
<1>2. /\ dmeta'.tail = IncSlot(dmeta.tail)
      /\ dmeta'.next_txid = IncTx(dmeta.next_txid)
  BY <1>1 DEF BeginMeta, Metas
<1>3. dmeta.tail \in Slots /\ dmeta.next_txid \in TxIds
  BY <1>1 DEF Metas
<1>4. ASSUME NEW i \in Slots PROVE HeaderAged(i)'
  <2>1. hdr[i].txid \in TxIds
    BY <1>1 DEF Headers
  <2>2. CASE i = dmeta.tail
    BY <1>1, <1>2, <1>3, <2>1, <2>2
       DEF HeaderAged, TxAge, SlotAge, IncSlot, IncTx, Slots, TxIds
  <2>3. CASE i # dmeta.tail
    <3>1. HeaderAged(i)
      BY <2>3 DEF IndInv, LapInv
    <3> DEFINE n == dmeta.next_txid
               t == hdr[i].txid
               k == dmeta.tail
    <3>2. SlotAge(i)' = SlotAge(i) + 1 /\ SlotAge(i) \in 1 .. NEntries - 1
      BY <1>2, <1>3, <2>3 DEF SlotAge, IncSlot, Slots
    <3>3. CASE TxAge(t) = SlotAge(i)
      <4>1. TxAge(hdr[i].txid)' = TxAge(t) + 1
        BY <1>1, <1>2, <1>3, <2>1, <3>2, <3>3 DEF TxAge, IncTx, TxIds
      <4> QED
        BY <3>2, <3>3, <4>1 DEF HeaderAged
    <3>4. CASE k = n /\ k <= i /\ t = 0
      BY <1>1, <1>2, <1>3, <2>3, <3>4
         DEF HeaderAged, IncSlot, IncTx, Slots, TxIds
    <3> QED
      BY <3>1, <3>3, <3>4 DEF HeaderAged
  <2> QED
    BY <2>2, <2>3
<1> QED
  BY <1>1, <1>2, <1>3, <1>4, IncType DEF LapInv

(* The scan of journal_commit() by txid finds the entry of its own begin.  *)
LEMMA FirstMatchIsOwn ==
  ASSUME IndInv, pc = "mark"
  PROVE  Matches(cur.txid) # {} /\ FirstMatch(cur.txid) = dmeta.head
<1> USE JournalAssumption
<1> DEFINE h == dmeta.head
           t == cur.txid
<1>1. /\ h \in Slots /\ dmeta.tail = IncSlot(h)
      /\ dmeta.next_txid = IncTx(t) /\ t \in TxIds
      /\ hdr \in [Slots -> Headers]
      /\ hdr[h].txid = t /\ ~ hdr[h].committed
  <2>1. hdr[h] = Own(t, pc = "head") /\ (pc = "head") = FALSE
    BY DEF IndInv, CallInv
  <2>2. hdr[h] = Own(t, FALSE)
    BY <2>1
  <2> QED
    BY <2>2 DEF IndInv, TypeOK, CallInv, Metas, Own
<1>2. h \in Matches(t)
  BY <1>1 DEF Matches
<1>3. ASSUME NEW i \in Matches(t), i # h PROVE h < i
  <2>1. i \in Slots /\ hdr[i].txid = t
    BY DEF Matches
  <2>2. HeaderAged(i)
    BY <2>1 DEF IndInv, LapInv
  <2>3. TxAge(t) = 1
    BY <1>1 DEF TxAge, IncTx, TxIds
  <2>4. SlotAge(i) # 1
    BY <1>1, <1>3, <2>1 DEF SlotAge, IncSlot, Slots
  <2>5. dmeta.tail = dmeta.next_txid /\ dmeta.tail <= i /\ t = 0
    BY <2>1, <2>2, <2>3, <2>4 DEF HeaderAged
  <2> QED
    BY <1>1, <1>3, <2>1, <2>5 DEF IncSlot, IncTx, Slots, TxIds
<1>4. \A j \in Matches(t) : h <= j
  BY <1>1, <1>3 DEF Slots, Matches
<1>5. \A i \in Matches(t) : (\A j \in Matches(t) : i <= j) => i = h
  BY <1>1, <1>2, <1>3 DEF Slots, Matches
<1>6. FirstMatch(t) \in Matches(t) /\ \A j \in Matches(t) : FirstMatch(t) <= j
  BY <1>2, <1>4 DEF FirstMatch
<1> QED
  BY <1>2, <1>5, <1>6

(* A step that moves neither tail nor next_txid and changes no txid keeps  *)
(* the ages of the headers.                                                *)
LEMMA AgesKept ==
  ASSUME NEW S \in SUBSET Slots,
         dmeta'.tail = dmeta.tail, dmeta'.next_txid = dmeta.next_txid,
         \A i \in S : hdr'[i].txid = hdr[i].txid
  PROVE  \A i \in S : HeaderAged(i)' <=> HeaderAged(i)
BY DEF HeaderAged, TxAge, SlotAge

(* On a disk without errors every step keeps the invariant of the log.     *)
LEMMA IndStep ==
  ASSUME IoErrors = FALSE, IndInv, [Next]_vars
  PROVE  IndInv'
<1> USE JournalAssumption
<1>1. TypeOK /\ TypeOK'
  BY TypeStep DEF IndInv
<1>2. IoResult = {TRUE}
  BY NoErrors
<1>3. dmeta \in Metas /\ dmeta.head \in Slots /\ dmeta.tail \in Slots
  BY <1>1 DEF TypeOK, Metas
<1>4. Pending(dmeta) = IF dmeta.tail # dmeta.head /\ ~ hdr[dmeta.head].committed
                       THEN {dmeta.head} ELSE {}
  BY <1>1, <1>3, PendingOne DEF IndInv
<1>5. OneEntryInLog(dmeta) /\ LapInv /\ CallInv
  BY DEF IndInv
<1>6. ASSUME Mount(TRUE, TRUE) PROVE IndInv'
  <2>1. /\ pc = "off" /\ pc' = "rec" /\ UNCHANGED <<home, hdr, data, cur>>
        /\ dmeta' = (IF dmeta.magic THEN dmeta ELSE CleanMeta)
        /\ jmeta' = dmeta' /\ j_ok' /\ idx' = dmeta'.head
    BY <1>6 DEF Mount
  <2>2. /\ dmeta'.magic /\ dmeta'.head = dmeta.head
        /\ dmeta'.tail = dmeta.tail /\ dmeta'.next_txid = dmeta.next_txid
    BY <1>5, <2>1 DEF CallInv, CleanMeta, BlankMeta
  <2>3. LapInv' /\ OneEntryInLog(dmeta)'
    BY <1>5, <2>1, <2>2
       DEF LapInv, HeaderAged, TxAge, SlotAge, OneEntryInLog
  <2>4. Pending(dmeta)' = Pending(dmeta)
    BY <2>1, <2>2 DEF Pending, InLog
  <2>5. dmeta.head = dmeta.tail => Pending(dmeta) = {}
    BY <1>4
  <2>6. CallInv'
    BY <2>1, <2>2, <2>4, <2>5 DEF CallInv
  <2> QED
    BY <1>1, <2>3, <2>6 DEF IndInv
<1>7. ASSUME RecoverDone(TRUE, TRUE) PROVE IndInv'
  <2>1. /\ pc = "rec" /\ pc' = "idle" /\ jmeta = dmeta /\ j_ok
        /\ UNCHANGED <<home, hdr, data, j_ok>>
        /\ dmeta' = jmeta' /\ dmeta.magic
        /\ dmeta' = [dmeta EXCEPT !.head = dmeta.tail]
    BY <1>5, <1>7 DEF RecoverDone, CallInv
  <2>2. /\ dmeta'.tail = dmeta.tail /\ dmeta'.head = dmeta.tail
        /\ dmeta'.next_txid = dmeta.next_txid /\ dmeta'.magic
    BY <1>3, <2>1 DEF Metas
  <2>3. LapInv'
    BY <1>5, <2>1, <2>2 DEF LapInv, HeaderAged, TxAge, SlotAge
  <2>4. CallInv'
    BY <2>1, <2>2 DEF CallInv
  <2> QED
    BY <1>1, <2>2, <2>3, <2>4 DEF IndInv, OneEntryInLog
<1>8. ASSUME Replay(TRUE) PROVE IndInv'
  <2>1. /\ pc = "rec" /\ idx # dmeta.tail /\ idx = dmeta.head
        /\ idx' = dmeta.tail
        /\ jmeta = dmeta /\ j_ok
        /\ UNCHANGED <<dmeta, hdr, data, jmeta, j_ok, pc, cur>>
    BY <1>8, <1>3, <1>5 DEF Replay, CallInv, OneEntryInLog
  <2>2. OneEntryInLog(dmeta)' /\ LapInv'
    BY <1>5, <2>1 DEF OneEntryInLog, LapInv, HeaderAged, TxAge, SlotAge
  <2>3. Pending(dmeta)' = Pending(dmeta)
    BY <2>1 DEF Pending, InLog
  <2>4. ASSUME NEW i \in Pending(dmeta)
        PROVE  home'[hdr[i].block_num] = data[i]
    <3>1. i = idx /\ ~ hdr[idx].committed
      BY <1>4, <2>1
    <3> QED
      BY <1>1, <1>8, <3>1 DEF Replay, TypeOK, Headers
  <2>5. CallInv'
    BY <1>5, <2>1, <2>3, <2>4 DEF CallInv
  <2> QED
    BY <1>1, <2>2, <2>5 DEF IndInv
<1>9. ASSUME BeginHdr(TRUE) PROVE IndInv'
  <2>1. /\ pc = "hdr" /\ pc' = "data" /\ jmeta = dmeta /\ j_ok
        /\ dmeta.tail = dmeta.head /\ dmeta.magic /\ idx' = dmeta.tail
        /\ UNCHANGED <<home, dmeta, data, jmeta, j_ok, cur>>
    BY <1>5, <1>9 DEF BeginHdr, CallInv, Then
  <2>2. hdr' = [hdr EXCEPT ![dmeta.tail] = [txid |-> dmeta.next_txid,
                                            block_num |-> cur.sec,
                                            committed |-> FALSE]]
    BY <1>9, <2>1 DEF BeginHdr
  <2>3. \A i \in Slots \ {dmeta.tail} : hdr'[i].txid = hdr[i].txid
    BY <1>1, <2>2 DEF TypeOK
  <2>4. LapInv'
    BY <1>5, <2>1, <2>3, AgesKept DEF LapInv
  <2>5. hdr'[dmeta.tail] = Own(dmeta.next_txid, FALSE)
    BY <1>1, <1>3, <2>2 DEF TypeOK, Own
  <2>6. CallInv'
    BY <1>5, <2>1, <2>5 DEF CallInv, Own
  <2> QED
    BY <1>1, <1>5, <2>1, <2>4, <2>6 DEF IndInv, OneEntryInLog
<1>10. ASSUME BeginData(TRUE) PROVE IndInv'
  <2>1. /\ pc = "data" /\ pc' = "meta" /\ jmeta = dmeta /\ j_ok
        /\ UNCHANGED <<home, dmeta, hdr, jmeta, j_ok, cur, idx>>
        /\ data' = [data EXCEPT ![idx] = cur.val]
    BY <1>5, <1>10 DEF BeginData, CallInv, Then, ramVars
  <2>2. LapInv' /\ OneEntryInLog(dmeta)'
    BY <1>5, <2>1 DEF LapInv, HeaderAged, TxAge, SlotAge, OneEntryInLog
  <2>3. CallInv'
    BY <1>1, <1>5, <2>1 DEF CallInv, Own, TypeOK
  <2> QED
    BY <1>1, <2>2, <2>3 DEF IndInv
<1>11. ASSUME BeginMeta(TRUE) PROVE IndInv'
  <2>1. /\ pc = "meta" /\ pc' = "home" /\ jmeta = dmeta /\ j_ok
        /\ jmeta' = dmeta' /\ idx = dmeta.tail
        /\ dmeta' = [dmeta EXCEPT !.tail = IncSlot(dmeta.tail),
                                  !.next_txid = IncTx(dmeta.next_txid)]
        /\ cur' = [cur EXCEPT !.txid = dmeta.next_txid]
        /\ dmeta.tail = dmeta.head /\ dmeta.magic
        /\ UNCHANGED <<home, hdr, data, j_ok>>
    BY <1>5, <1>11 DEF BeginMeta, CallInv, Then
  <2>2. LapInv'
    BY <1>1, <1>11, <2>1, AgeStep
  <2>3. /\ dmeta'.head = dmeta.head /\ dmeta'.magic
        /\ dmeta'.tail = IncSlot(dmeta.head)
        /\ dmeta'.next_txid = IncTx(dmeta.next_txid)
    BY <1>3, <2>1 DEF Metas
  <2>4. /\ cur'.txid = dmeta.next_txid /\ cur'.sec = cur.sec
        /\ cur'.val = cur.val
    BY <1>1, <2>1 DEF TypeOK
  <2>5. hdr[dmeta.head] = Own(cur.txid, FALSE)'
    BY <1>5, <2>1, <2>4 DEF CallInv, Own
  <2>6. CallInv'
    BY <1>5, <2>1, <2>3, <2>4, <2>5 DEF CallInv
  <2> QED
    BY <1>1, <2>2, <2>3, <2>6 DEF IndInv, OneEntryInLog
<1>12. ASSUME WriteHome(TRUE) PROVE IndInv'
  <2>1. /\ pc = "home" /\ pc' = "mark" /\ jmeta = dmeta /\ j_ok
        /\ UNCHANGED <<dmeta, hdr, data, jmeta, j_ok, idx, cur>>
        /\ home' = [home EXCEPT ![cur.sec] = cur.val]
    BY <1>5, <1>12 DEF WriteHome, CallInv, Then
  <2>2. LapInv' /\ OneEntryInLog(dmeta)'
    BY <1>5, <2>1 DEF LapInv, HeaderAged, TxAge, SlotAge, OneEntryInLog
  <2>3. home'[cur.sec] = cur.val
    BY <1>1, <2>1 DEF TypeOK
  <2>4. CallInv'
    BY <1>5, <2>1, <2>3 DEF CallInv, Own
  <2> QED
    BY <1>1, <2>2, <2>4 DEF IndInv
<1>13. ASSUME CommitMark(TRUE, TRUE) PROVE IndInv'
  <2>1. /\ pc = "mark" /\ pc' = "head" /\ jmeta = dmeta /\ j_ok
        /\ UNCHANGED <<home, dmeta, data, jmeta, j_ok, idx, cur>>
    BY <1>5, <1>13 DEF CommitMark, Found, CallInv, Then, ramVars
  <2>2. hdr' = [hdr EXCEPT ![dmeta.head].committed = TRUE]
    BY <1>13, <2>1, FirstMatchIsOwn DEF CommitMark, Found
  <2>3. \A i \in Slots : hdr'[i].txid = hdr[i].txid
    BY <1>1, <2>2 DEF TypeOK, Headers
  <2>4. LapInv'
    BY <1>3, <1>5, <2>1, <2>3, AgesKept DEF LapInv
  <2>5. hdr[dmeta.head] = Own(cur.txid, FALSE)
    BY <1>5, <2>1 DEF CallInv
  <2>6. hdr'[dmeta.head] = Own(cur.txid, TRUE)
    <3>1. hdr'[dmeta.head] = [hdr[dmeta.head] EXCEPT !.committed = TRUE]
      BY <1>1, <1>3, <2>2 DEF TypeOK
    <3>2. /\ hdr[dmeta.head].txid = cur.txid
          /\ hdr[dmeta.head].block_num = cur.sec
      BY <2>5 DEF Own
    <3>3. hdr[dmeta.head] \in Headers
      BY <1>1, <1>3 DEF TypeOK
    <3> QED
      BY <3>1, <3>2, <3>3 DEF Own, Headers
  <2>7. CallInv'
    BY <1>5, <2>1, <2>6 DEF CallInv, Own
  <2> QED
    BY <1>1, <1>5, <2>1, <2>4, <2>7 DEF IndInv, OneEntryInLog
<1>14. ASSUME CommitHead(TRUE, TRUE) PROVE IndInv'
  <2>1. /\ pc = "head" /\ pc' = "idle" /\ jmeta = dmeta /\ j_ok
        /\ UNCHANGED <<home, hdr, data, j_ok>>
        /\ dmeta' = jmeta' /\ dmeta.magic
        /\ dmeta' = [dmeta EXCEPT !.head = NewHead(dmeta)]
    BY <1>5, <1>14 DEF CommitHead, Stops, CallInv, Then
  <2>2. hdr[dmeta.head].committed
    <3>1. hdr[dmeta.head] = Own(cur.txid, TRUE)
      BY <1>5, <2>1 DEF CallInv
    <3> QED
      BY <3>1 DEF Own
  <2>3. NewHead(dmeta) = dmeta.tail
    BY <1>4, <2>2 DEF NewHead
  <2>4. /\ dmeta'.tail = dmeta.tail /\ dmeta'.head = dmeta.tail
        /\ dmeta'.next_txid = dmeta.next_txid /\ dmeta'.magic
    BY <1>3, <2>1, <2>3 DEF Metas
  <2>5. LapInv'
    BY <1>5, <2>1, <2>4 DEF LapInv, HeaderAged, TxAge, SlotAge
  <2>6. CallInv'
    BY <2>1, <2>4 DEF CallInv
  <2> QED
    BY <1>1, <2>4, <2>5, <2>6 DEF IndInv, OneEntryInLog
<1>15. ASSUME NEW s \in Sectors, NEW v \in Values, WriteSec(s, v)
       PROVE  IndInv'
  <2>1. /\ pc = "idle" /\ pc' = "hdr" /\ jmeta = dmeta /\ j_ok
        /\ UNCHANGED <<home, dmeta, hdr, data, jmeta, j_ok, idx>>
    BY <1>5, <1>15 DEF WriteSec, CallInv, diskVars
  <2>2. LapInv' /\ OneEntryInLog(dmeta)'
    BY <1>5, <2>1 DEF LapInv, HeaderAged, TxAge, SlotAge, OneEntryInLog
  <2>3. CallInv'
    BY <1>5, <2>1 DEF CallInv
  <2> QED
    BY <1>1, <2>2, <2>3 DEF IndInv
<1>16. CASE Crash
  <2>1. pc' = "off" /\ UNCHANGED <<home, dmeta, hdr, data>> /\ pc # "off"
    BY <1>16 DEF Crash, diskVars
  <2>2. LapInv' /\ OneEntryInLog(dmeta)'
    BY <1>5, <2>1 DEF LapInv, HeaderAged, TxAge, SlotAge, OneEntryInLog
  <2>3. CallInv'
    BY <1>5, <2>1 DEF CallInv
  <2> QED
    BY <1>1, <2>2, <2>3 DEF IndInv
<1>17. CASE UNCHANGED vars
  <2>1. LapInv' /\ OneEntryInLog(dmeta)'
    BY <1>5, <1>17
       DEF vars, LapInv, HeaderAged, TxAge, SlotAge, OneEntryInLog
  <2>2. CallInv'
    BY <1>5, <1>17 DEF vars, CallInv, Own, Pending, InLog
  <2> QED
    BY <1>1, <2>1, <2>2 DEF IndInv
<1> QED
  BY <1>2, <1>6, <1>7, <1>8, <1>9, <1>10, <1>11, <1>12, <1>13, <1>14, <1>15,
     <1>16, <1>17 DEF Next, Kernel

(* On a disk without errors the log has the state its invariant describes. *)
THEOREM IndInvariant == IoErrors = FALSE => (Spec => []IndInv)
<1> SUFFICES ASSUME IoErrors = FALSE PROVE Spec => []IndInv
  OBVIOUS
<1>1. Init => IndInv
  BY IndInit
<1>2. IndInv /\ [Next]_vars => IndInv'
  BY IndStep
<1> QED
  BY <1>1, <1>2, PTL DEF Spec

(* journal_commit() marks the entry that journal_begin() wrote, whatever   *)
(* stale headers the entry area holds and however often txid wrapped.      *)
THEOREM CommitOwn == IoErrors = FALSE => (Spec => []CommitFindsOwnEntry)
<1> SUFFICES ASSUME IoErrors = FALSE PROVE Spec => []CommitFindsOwnEntry
  OBVIOUS
<1>1. IndInv => CommitFindsOwnEntry
  <2> SUFFICES ASSUME IndInv, pc = "mark"
               PROVE  /\ Matches(cur.txid) # {}
                      /\ IncSlot(FirstMatch(cur.txid)) = jmeta.tail
    BY DEF CommitFindsOwnEntry
  <2>1. dmeta.tail = IncSlot(dmeta.head) /\ jmeta = dmeta
    BY DEF IndInv, CallInv
  <2> QED
    BY <2>1, FirstMatchIsOwn
<1>2. Spec => []IndInv
  BY IndInvariant
<1> QED
  BY <1>1, <1>2, PTL

(* What the disk means when the log holds at most one entry.               *)
OneEntryView ==
  IF dmeta.tail # dmeta.head /\ ~ hdr[dmeta.head].committed
  THEN [home EXCEPT ![hdr[dmeta.head].block_num] = data[dmeta.head]]
  ELSE home

LEMMA EffectiveIs == IndInv => Effective = OneEntryView
<1> SUFFICES ASSUME IndInv PROVE Effective = OneEntryView
  OBVIOUS
<1> DEFINE h == dmeta.head
<1>1. TypeOK /\ dmeta \in Metas /\ OneEntryInLog(dmeta)
  BY DEF IndInv, TypeOK
<1>2. Pending(dmeta) = IF dmeta.tail # h /\ ~ hdr[h].committed
                       THEN {h} ELSE {}
  BY <1>1, PendingOne
<1>3. CASE dmeta.tail # h /\ ~ hdr[h].committed
  <2>1. \A s \in Sectors :
          PendingFor(s) = IF s = hdr[h].block_num THEN {h} ELSE {}
    BY <1>2, <1>3 DEF PendingFor
  <2>2. ASSUME NEW s \in Sectors, s = hdr[h].block_num
        PROVE  LastPending(s) = h
    <3>1. PendingFor(s) = {h}
      BY <2>1, <2>2
    <3>2. Ahead(dmeta.head, h) <= Ahead(dmeta.head, h)
      BY <1>1, AheadType DEF Metas
    <3> QED
      BY <3>1, <3>2 DEF LastPending
  <2>3. \A s \in Sectors :
          Effective[s] = IF s = hdr[h].block_num THEN data[h] ELSE home[s]
    BY <2>1, <2>2 DEF Effective
  <2> QED
    BY <1>1, <1>3, <2>3 DEF Effective, TypeOK, OneEntryView
<1>4. CASE ~ (dmeta.tail # h /\ ~ hdr[h].committed)
  <2>1. \A s \in Sectors : PendingFor(s) = {}
    BY <1>2, <1>4 DEF PendingFor
  <2>2. Effective = [s \in Sectors |-> home[s]]
    BY <2>1 DEF Effective
  <2> QED
    BY <1>1, <1>4, <2>2 DEF TypeOK, OneEntryView
<1> QED
  BY <1>3, <1>4

(* Between calls the home sectors are the contents of the store.           *)
THEOREM IdleReads == IoErrors = FALSE => (Spec => []IdleReadsAreDurable)
<1> SUFFICES ASSUME IoErrors = FALSE PROVE Spec => []IdleReadsAreDurable
  OBVIOUS
<1>1. IndInv => IdleReadsAreDurable
  <2> SUFFICES ASSUME IndInv, pc = "idle" PROVE home = Effective
    BY DEF IdleReadsAreDurable
  <2>1. dmeta.tail = dmeta.head
    BY DEF IndInv, CallInv
  <2> QED
    BY <2>1, EffectiveIs DEF OneEntryView
<1>2. Spec => []IndInv
  BY IndInvariant
<1> QED
  BY <1>1, <1>2, PTL
-----------------------------------------------------------------------------
(* A machine that is off is an abstract store that is down.                *)
LEMMA RefineInit == Init => Abstract!Init
<1> SUFFICES ASSUME Init PROVE Abstract!Init
  OBVIOUS
<1>1. IndInv
  BY IndInit
<1>2. Effective = home
  BY <1>1, EffectiveIs DEF OneEntryView, Init, BlankMeta, CleanMeta
<1> QED
  BY <1>2 DEF Abstract!Init, Init, Request, Writing

(* The request in terms of the label of the running call.                  *)
AsRequest(a) == {[sec |-> cur.sec, val |-> cur.val, applied |-> a]}

LEMMA RequestIs ==
  /\ pc \in {"hdr", "data", "meta"} => Request = AsRequest(FALSE)
  /\ pc \in {"home", "mark", "head"} => Request = AsRequest(TRUE)
<1>1. ASSUME pc \in {"hdr", "data", "meta"} PROVE Request = AsRequest(FALSE)
  <2>1. (pc \in {"home", "mark", "head"}) = FALSE
    BY <1>1
  <2> QED
    BY <1>1, <2>1 DEF Request, AsRequest, Writing
<1>2. ASSUME pc \in {"home", "mark", "head"} PROVE Request = AsRequest(TRUE)
  <2>1. (pc \in {"home", "mark", "head"}) = TRUE
    BY <1>2
  <2> QED
    BY <1>2, <2>1 DEF Request, AsRequest, Writing
<1> QED
  BY <1>1, <1>2

(* The contents and the request before and after a step decide which       *)
(* abstract step it is.                                                    *)
LEMMA RefineStep ==
  ASSUME IoErrors = FALSE, IndInv, IndInv', [Next]_vars
  PROVE  [Abstract!Next]_(Abstract!absVars)
<1> DEFINE up == pc \notin {"off", "rec"}
<1>1. Effective = OneEntryView
  BY EffectiveIs
<1>2. (IndInv => Effective = OneEntryView)'
  BY EffectiveIs, PTL
<1>r. /\ (pc \in {"hdr", "data", "meta"} => Request = AsRequest(FALSE))'
      /\ (pc \in {"home", "mark", "head"} => Request = AsRequest(TRUE))'
  BY RequestIs, PTL
<1>3. Effective' = OneEntryView'
  BY <1>2
<1>4. /\ TypeOK /\ CallInv /\ TypeOK' /\ CallInv' /\ OneEntryInLog(dmeta)
      /\ dmeta.head \in Slots /\ dmeta.tail \in Slots
  BY DEF IndInv, TypeOK, Metas
<1>5. IoResult = {TRUE}
  BY NoErrors
<1>6. ASSUME Effective' = Effective, Request' = Request, up' = up
      PROVE  [Abstract!Next]_(Abstract!absVars)
  BY <1>6 DEF Abstract!absVars
<1>7. ASSUME Mount(TRUE, TRUE) PROVE [Abstract!Next]_(Abstract!absVars)
  <2>1. /\ pc = "off" /\ pc' = "rec" /\ UNCHANGED <<home, hdr, data>>
        /\ dmeta'.head = dmeta.head /\ dmeta'.tail = dmeta.tail
    BY <1>4, <1>7 DEF Mount, CallInv, CleanMeta, BlankMeta
  <2>2. Effective' = Effective
    BY <1>1, <1>3, <2>1 DEF OneEntryView
  <2> QED
    BY <1>6, <2>1, <2>2 DEF Request, Writing
<1>8. ASSUME RecoverDone(TRUE, TRUE)
      PROVE  [Abstract!Next]_(Abstract!absVars)
  <2>1. /\ pc = "rec" /\ pc' = "idle" /\ UNCHANGED <<home, hdr, data>>
        /\ idx = dmeta.tail /\ dmeta'.head = dmeta'.tail
    BY <1>4, <1>8 DEF RecoverDone, CallInv, TypeOK, Metas
  <2>2. Effective' = home
    BY <1>3, <2>1 DEF OneEntryView
  <2>3. Effective = home
    <3>1. dmeta.tail # dmeta.head /\ ~ hdr[dmeta.head].committed
             => home[hdr[dmeta.head].block_num] = data[dmeta.head]
      BY <1>4, <2>1, PendingOne DEF CallInv, TypeOK
    <3> QED
      BY <1>1, <1>4, <3>1 DEF OneEntryView, TypeOK
  <2>4. Abstract!Restart
    BY <2>1, <2>2, <2>3 DEF Abstract!Restart, Request, Writing
  <2> QED
    BY <2>4 DEF Abstract!Next
<1>9. ASSUME Replay(TRUE) PROVE [Abstract!Next]_(Abstract!absVars)
  <2>1. /\ pc = "rec" /\ pc' = pc /\ idx = dmeta.head /\ jmeta = dmeta
        /\ UNCHANGED <<dmeta, hdr, data>> /\ idx # dmeta.tail
        /\ home' = IF hdr[idx].committed
                   THEN home
                   ELSE [home EXCEPT ![hdr[idx].block_num] = data[idx]]
    BY <1>4, <1>9 DEF Replay, CallInv
  <2>2. Effective' = Effective
    BY <1>1, <1>3, <1>4, <2>1 DEF OneEntryView, TypeOK, Headers
  <2> QED
    BY <1>6, <2>1, <2>2 DEF Request, Writing
<1>10. ASSUME BeginHdr(TRUE) PROVE [Abstract!Next]_(Abstract!absVars)
  <2>1. /\ pc = "hdr" /\ pc' = "data" /\ dmeta.tail = dmeta.head
        /\ UNCHANGED <<home, dmeta, cur>>
    BY <1>4, <1>10 DEF BeginHdr, CallInv, Then
  <2>2. Effective' = Effective
    BY <1>1, <1>3, <2>1 DEF OneEntryView
  <2> QED
    BY <1>6, <2>1, <2>2 DEF Request, Writing
<1>11. ASSUME BeginData(TRUE) PROVE [Abstract!Next]_(Abstract!absVars)
  <2>1. /\ pc = "data" /\ pc' = "meta" /\ dmeta.tail = dmeta.head
        /\ UNCHANGED <<home, dmeta, cur>>
    BY <1>4, <1>11 DEF BeginData, CallInv, Then, ramVars
  <2>2. Effective' = Effective
    BY <1>1, <1>3, <2>1 DEF OneEntryView
  <2> QED
    BY <1>6, <2>1, <2>2 DEF Request, Writing
<1>12. ASSUME BeginMeta(TRUE) PROVE [Abstract!Next]_(Abstract!absVars)
  <2>1. /\ pc = "meta" /\ pc' = "home" /\ dmeta.tail = dmeta.head
        /\ dmeta'.head = dmeta.head /\ dmeta'.tail # dmeta'.head
        /\ idx = dmeta.tail /\ hdr' = hdr /\ data' = data /\ home' = home
        /\ cur'.sec = cur.sec /\ cur'.val = cur.val
        /\ hdr[idx] = Own(dmeta.next_txid, FALSE) /\ data[idx] = cur.val
    <3>1. /\ pc = "meta" /\ jmeta = dmeta /\ idx = dmeta.tail
          /\ hdr[idx] = Own(dmeta.next_txid, FALSE) /\ data[idx] = cur.val
          /\ dmeta.tail = dmeta.head
          /\ UNCHANGED <<home, hdr, data>>
      BY <1>4, <1>12 DEF BeginMeta, CallInv
    <3>2. pc' = "home" /\ cur'.sec = cur.sec /\ cur'.val = cur.val
      BY <1>4, <1>12, <3>1 DEF BeginMeta, Then, TypeOK
    <3>3. dmeta'.head = dmeta.head /\ dmeta'.tail = IncSlot(dmeta.tail)
      BY <1>4, <1>12, <3>1 DEF BeginMeta, TypeOK, Metas
    <3>4. IncSlot(dmeta.tail) # dmeta.tail
      BY <1>4, JournalAssumption DEF IncSlot, Slots
    <3> QED
      BY <3>1, <3>2, <3>3, <3>4
  <2>2. ~ hdr[idx].committed /\ hdr[idx].block_num = cur.sec
    BY <2>1 DEF Own
  <2>3. Effective = home /\ Effective' = [home EXCEPT ![cur.sec] = cur.val]
    BY <1>1, <1>3, <2>1, <2>2 DEF OneEntryView
  <2>4. Request = AsRequest(FALSE) /\ Request' = AsRequest(TRUE)
    <3>1. Request = AsRequest(FALSE)
      BY <2>1, RequestIs
    <3>2. Request' = AsRequest(TRUE)'
      BY <2>1, <1>r
    <3> QED
      BY <2>1, <3>1, <3>2 DEF AsRequest
  <2>5. Abstract!Apply
    <3> DEFINE r == [sec |-> cur.sec, val |-> cur.val, applied |-> FALSE]
    <3>1. r \in Request /\ ~ r.applied
      BY <2>4 DEF AsRequest
    <3>2. Effective' = [Effective EXCEPT ![r.sec] = r.val]
      BY <2>3
    <3>3. Request' = {[r EXCEPT !.applied = TRUE]}
      BY <2>4 DEF AsRequest
    <3>4. up /\ up' = up
      BY <2>1
    <3> HIDE DEF r
    <3> QED
      BY <3>1, <3>2, <3>3, <3>4 DEF Abstract!Apply
  <2> QED
    BY <2>5 DEF Abstract!Next
<1>13. ASSUME WriteHome(TRUE) PROVE [Abstract!Next]_(Abstract!absVars)
  <2>1. /\ pc = "home" /\ pc' = "mark" /\ UNCHANGED <<dmeta, hdr, data, cur>>
        /\ home' = [home EXCEPT ![cur.sec] = cur.val]
        /\ hdr[dmeta.head] = Own(cur.txid, FALSE)
        /\ data[dmeta.head] = cur.val
    BY <1>4, <1>13 DEF WriteHome, CallInv, Then
  <2>2. hdr[dmeta.head].block_num = cur.sec
    BY <2>1 DEF Own
  <2>3. dmeta.tail # dmeta.head /\ ~ hdr[dmeta.head].committed
    BY <1>4, <2>1, JournalAssumption DEF CallInv, Own, IncSlot, Slots
  <2>4. Effective' = [home' EXCEPT ![cur.sec] = cur.val]
    BY <1>3, <2>1, <2>2, <2>3 DEF OneEntryView
  <2>5. Effective = home'
    BY <1>1, <2>1, <2>2, <2>3 DEF OneEntryView
  <2>6. [home' EXCEPT ![cur.sec] = cur.val] = home'
    BY <1>4, <2>1 DEF TypeOK
  <2>7. Request' = Request
    BY <1>r, <2>1, RequestIs DEF AsRequest
  <2> QED
    BY <1>6, <2>1, <2>4, <2>5, <2>6, <2>7
<1>14. ASSUME CommitMark(TRUE, TRUE) PROVE [Abstract!Next]_(Abstract!absVars)
  <2>1. /\ pc = "mark" /\ pc' = "head" /\ UNCHANGED <<home, dmeta, data, cur>>
        /\ hdr[dmeta.head] = Own(cur.txid, FALSE)
        /\ data[dmeta.head] = cur.val /\ home[cur.sec] = cur.val
        /\ hdr'[dmeta.head] = Own(cur.txid, TRUE)
    BY <1>4, <1>14 DEF CommitMark, Found, CallInv, Then, ramVars, Own
  <2>2. hdr[dmeta.head].block_num = cur.sec /\ hdr'[dmeta.head].committed
    BY <2>1 DEF Own
  <2>3. Effective' = home
    BY <1>3, <2>1, <2>2 DEF OneEntryView
  <2>4. Effective = home
    BY <1>1, <1>4, <2>1, <2>2 DEF OneEntryView, TypeOK
  <2> QED
    BY <1>6, <2>1, <2>3, <2>4 DEF Request, Writing
<1>15. ASSUME CommitHead(TRUE, TRUE) PROVE [Abstract!Next]_(Abstract!absVars)
  <2>1. /\ pc = "head" /\ pc' = "idle" /\ home' = home
        /\ hdr[dmeta.head] = Own(cur.txid, TRUE)
        /\ dmeta'.tail = dmeta'.head
    BY <1>4, <1>15 DEF CommitHead, Stops, CallInv, Then
  <2>2. hdr[dmeta.head].committed
    BY <2>1 DEF Own
  <2>3. Effective' = home /\ Effective = home
    BY <1>1, <1>3, <2>1, <2>2 DEF OneEntryView
  <2>4. Request = AsRequest(TRUE) /\ Request' = {}
    BY <2>1, RequestIs DEF Request, Writing
  <2>5. Abstract!Return
    BY <2>1, <2>3, <2>4 DEF Abstract!Return, AsRequest
  <2> QED
    BY <2>5 DEF Abstract!Next
<1>16. ASSUME NEW s \in Sectors, NEW v \in Values, WriteSec(s, v)
       PROVE  [Abstract!Next]_(Abstract!absVars)
  <2>1. /\ pc = "idle" /\ pc' = "hdr" /\ UNCHANGED <<home, dmeta, hdr, data>>
        /\ cur'.sec = s /\ cur'.val = v
    BY <1>4, <1>16 DEF WriteSec, CallInv, diskVars
  <2>2. Effective' = Effective
    BY <1>1, <1>3, <2>1 DEF OneEntryView
  <2>3. /\ Request = {}
        /\ Request' = {[sec |-> s, val |-> v, applied |-> FALSE]}
    BY <1>r, <2>1 DEF Request, Writing, AsRequest
  <2>4. Abstract!Request(s, v)
    BY <2>1, <2>2, <2>3 DEF Abstract!Request
  <2> QED
    BY <2>4 DEF Abstract!Next
<1>17. CASE Crash
  <2>1. /\ pc # "off" /\ pc' = "off" /\ UNCHANGED <<home, dmeta, hdr, data>>
    BY <1>17 DEF Crash, diskVars
  <2>2. Effective' = Effective
    BY <1>1, <1>3, <2>1 DEF OneEntryView
  <2>3. Request' = {} /\ (pc = "rec" => Request = {})
    BY <2>1 DEF Request, Writing
  <2>4. CASE pc = "rec"
    BY <1>6, <2>1, <2>2, <2>3, <2>4
  <2>5. CASE pc # "rec"
    <3>1. Abstract!Crash
      BY <2>1, <2>2, <2>3, <2>5 DEF Abstract!Crash
    <3> QED
      BY <3>1 DEF Abstract!Next
  <2> QED
    BY <2>4, <2>5
<1>18. CASE UNCHANGED vars
  <2>1. Effective' = Effective
    BY <1>1, <1>3, <1>18 DEF OneEntryView, vars
  <2> QED
    BY <1>6, <1>18, <2>1 DEF vars, Request
<1> QED
  BY <1>5, <1>7, <1>8, <1>9, <1>10, <1>11, <1>12, <1>13, <1>14, <1>15, <1>16,
     <1>17, <1>18 DEF Next, Kernel

(* The write-ahead log implements an array of atomically written sectors.  *)
THEOREM Refinement == IoErrors = FALSE => (Spec => ImplementsAtomicStore)
<1> SUFFICES ASSUME IoErrors = FALSE PROVE Spec => Abstract!Spec
  BY DEF ImplementsAtomicStore
<1>1. Init => Abstract!Init
  BY RefineInit
<1>2. IndInv /\ IndInv' /\ [Next]_vars => [Abstract!Next]_(Abstract!absVars)
  BY RefineStep
<1>3. Spec => []IndInv
  BY IndInvariant
<1> QED
  BY <1>1, <1>2, <1>3, PTL DEF Spec, Abstract!Spec

(* While an entry is pending nothing overwrites its data or its header's   *)
(* destination: the next journal_begin() cannot reach it.                  *)
THEOREM EntriesFrozen == IoErrors = FALSE => (Spec => PendingEntriesFrozen)
<1> SUFFICES ASSUME IoErrors = FALSE PROVE Spec => PendingEntriesFrozen
  OBVIOUS
<1> DEFINE Frozen == \A i \in Pending(dmeta) :
             /\ data'[i] = data[i]
             /\ hdr'[i].block_num = hdr[i].block_num
<1>1. IndInv /\ [Next]_vars => [Frozen]_vars
  <2> SUFFICES ASSUME IndInv, Next PROVE Frozen
    OBVIOUS
  <2> USE DEF IndInv
  <2>1. IoResult = {TRUE}
    BY DEF IoResult
  <2>2. CASE UNCHANGED <<hdr, data>>
    BY <2>2
  <2>3. CASE pc \in {"hdr", "data"}
    <3>1. dmeta.tail = dmeta.head /\ dmeta.head \in Slots
      BY <2>3 DEF CallInv, TypeOK, Metas
    <3>2. Pending(dmeta) = {}
      BY <3>1, AheadType, JournalAssumption DEF Pending, InLog, Ahead, Slots
    <3> QED
      BY <3>2
  <2>4. ASSUME NEW rd, NEW wr, CommitMark(rd, wr) PROVE Frozen
    <3>1. data' = data
      BY <2>4 DEF CommitMark
    <3>2. hdr' = hdr \/ \E i : hdr' = [hdr EXCEPT ![i].committed = TRUE]
      BY <2>4 DEF CommitMark
    <3>3. ASSUME NEW i, hdr' = [hdr EXCEPT ![i].committed = TRUE],
                 NEW k \in Slots
          PROVE  hdr'[k].block_num = hdr[k].block_num
      BY <3>3 DEF TypeOK, Headers
    <3> QED
      BY <3>1, <3>2, <3>3 DEF Pending
  <2> QED
    BY <2>1, <2>2, <2>3, <2>4
       DEF Next, Kernel, Mount, RecoverDone, CommitHead, Replay, BeginHdr,
           BeginData, BeginMeta, WriteHome, WriteSec, Crash, diskVars
<1> QED
  BY <1>1, IndInvariant, PTL DEF Spec, PendingEntriesFrozen
=============================================================================
