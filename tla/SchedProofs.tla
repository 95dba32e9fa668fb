---------------------------- MODULE SchedProofs ----------------------------
(***************************************************************************)
(* Theorems about the scheduler and its list, for any number of processes, *)
(* any of them creating others at any time, and any bytes in fresh memory, *)
(* as long as no two calls of the allocator have overlapped.               *)
(***************************************************************************)
EXTENDS Sched, WellFoundedInduction, TLAPS

(* A non-empty set of natural numbers has a least element.                 *)
LEMMA NatMinimum ==
  ASSUME NEW S, S \subseteq Nat, S # {}
  PROVE  \E m \in S : \A n \in S : m <= n
<1>1. IsWellFoundedOn(OpToRel(<, Nat), Nat)
  BY NatLessThanWellFounded
<1>2. PICK m \in S : \A n \in S : ~ (<<n, m>> \in OpToRel(<, Nat))
  BY <1>1, WFMin
<1>3. \A n \in S : ~ (n < m)
  BY <1>2 DEF OpToRel
<1> QED
  BY <1>3
-----------------------------------------------------------------------------
(* fila_adicionar() keeps the list up to the PCB it found last and puts    *)
(* the new one behind it, or leaves the list alone.                        *)
LEMMA LinkAfterIs ==
  ASSUME fila \in Seq(Procs), NEW last \in Procs, NEW q \in Procs
  PROVE  \/ LinkAfter(last, q) = fila /\ last \notin InFila
         \/ \E n \in DOMAIN fila :
              /\ fila[n] = last
              /\ LinkAfter(last, q) \in Seq(Procs)
              /\ DOMAIN LinkAfter(last, q) = 1 .. n + 1
              /\ \A i \in 1 .. n : LinkAfter(last, q)[i] = fila[i]
              /\ LinkAfter(last, q)[n + 1] = q
<1>1. CASE last \notin InFila
  BY <1>1 DEF LinkAfter
<1>2. CASE last \in InFila
  <2> DEFINE n == CHOOSE i \in DOMAIN fila : fila[i] = last
             f == SubSeq(fila, 1, n)
  <2>1. n \in DOMAIN fila /\ fila[n] = last
    BY <1>2 DEF InFila
  <2>2. n \in 1 .. Len(fila) /\ Len(fila) \in Nat
    BY <2>1
  <2>3. LinkAfter(last, q) = Append(f, q)
    BY <1>2 DEF LinkAfter
  <2> HIDE DEF n
  <2>4. f \in Seq(Procs) /\ Len(f) = n /\ \A i \in 1 .. n : f[i] = fila[i]
    BY <2>2
  <2> HIDE DEF f
  <2>5. /\ Append(f, q) \in Seq(Procs)
        /\ Len(Append(f, q)) = n + 1
        /\ \A i \in 1 .. n : Append(f, q)[i] = f[i]
        /\ Append(f, q)[n + 1] = q
    BY <2>2, <2>4
  <2> QED
    BY <2>1, <2>2, <2>3, <2>4, <2>5
<1> QED
  BY <1>1, <1>2

(* The process that the first search chooses is one it may choose.         *)
LEMMA CandidateIs ==
  ASSUME TypeOK, CurrentInFila, Candidates # {}
  PROVE  Candidate \in Candidates
<1> DEFINE T == {Tentativa(p) : p \in Candidates}
<1>1. \A p \in InFila : Pos(p) \in 1 .. Len(fila)
  BY DEF InFila, Pos, TypeOK
<1>2. \A p \in Candidates : Tentativa(p) \in Nat
  <2>1. proc_atual \in InFila /\ Candidates \subseteq InFila
    BY DEF Candidates, CurrentInFila
  <2>2. Len(fila) \in Nat
    BY DEF TypeOK
  <2>3. ASSUME NEW p \in Candidates PROVE Tentativa(p) \in Nat
    <3>1. Pos(p) \in 1 .. Len(fila) /\ Pos(proc_atual) \in 1 .. Len(fila)
      BY <1>1, <2>1
    <3> QED
      BY <2>2, <3>1 DEF Tentativa
  <2> QED
    BY <2>3
<1>3. PICK m \in T : \A n \in T : m <= n
  BY <1>2, NatMinimum
<1>4. PICK p \in Candidates : m = Tentativa(p)
  BY <1>3
<1>5. \A q \in Candidates : Tentativa(p) <= Tentativa(q)
  BY <1>3, <1>4
<1> QED
  BY <1>4, <1>5 DEF Candidate

(* And so is the one that the second search chooses.                       *)
LEMMA FirstReadyIs ==
  ASSUME TypeOK, Ready # {}
  PROVE  FirstReady \in Ready
<1> DEFINE T == {Pos(p) : p \in Ready}
<1>1. \A p \in Ready : Pos(p) \in Nat
  BY DEF Ready, InFila, Pos, TypeOK
<1>2. PICK m \in T : \A n \in T : m <= n
  BY <1>1, NatMinimum
<1>3. PICK p \in Ready : m = Pos(p)
  BY <1>2
<1>4. \A q \in Ready : Pos(p) <= Pos(q)
  BY <1>2, <1>3
<1> QED
  BY <1>3, <1>4 DEF FirstReady

(* The credits that recalcular_creditos() gives fit their byte.            *)
LEMMA RecalculadosType ==
  TypeOK => Recalculados \in [Procs -> 0 .. 255]
BY DEF TypeOK, Recalculados, Quota

(* A PCB in the list is a process.                                         *)
LEMMA InFilaProcs == TypeOK => InFila \subseteq Procs
BY DEF TypeOK, InFila
-----------------------------------------------------------------------------
(* The invariant holds when process 0 is alone.                            *)
LEMMA IndInit == Init => ListInv
<1> SUFFICES ASSUME Init PROVE ListInv
  OBVIOUS
<1>1. DOMAIN fila = {1} /\ fila[1] = Kernel /\ InFila = {Kernel}
  BY DEF Init, InFila
<1>2. TypeOK
  BY SchedAssumption DEF Init, TypeOK, Estados, Calls, User, Quota
<1>3. OneRunning /\ CurrentInFila
  BY <1>1, SchedAssumption DEF Init, OneRunning, CurrentInFila
<1>4. NewInv /\ LinkInv
  BY <1>1, SchedAssumption DEF Init, NewInv, LinkInv, Creating, User
<1> QED
  BY <1>2, <1>3, <1>4 DEF ListInv

(* A step of a process that leaves the list alone and neither takes a PCB  *)
(* nor comes to the link.                                                  *)
LEMMA CallMoves ==
  ASSUME ListInv, NEW c \in Calls, call' = [call EXCEPT ![proc_atual] = c],
         c.at # "link",
         c.at \in {"gap", "stack", "undo", "kfree", "fill", "pid", "find"}
           => Creating(proc_atual) /\ c.new = call[proc_atual].new,
         UNCHANGED <<fila, proc_atual>>,
         \A p \in Procs : estado'[p] = estado[p]
  PROVE  OneRunning' /\ CurrentInFila' /\ NewInv' /\ LinkInv'
<1> USE DEF ListInv
<1>1. InFila' = InFila /\ proc_atual \in Procs
  BY DEF InFila, TypeOK
<1>2. \A p \in Procs : call'[p] = IF p = proc_atual THEN c ELSE call[p]
  BY DEF TypeOK
<1>3. OneRunning' /\ CurrentInFila'
  BY <1>1 DEF OneRunning, CurrentInFila
<1>4. LinkInv'
  BY <1>2 DEF LinkInv
<1>5. \A p \in Procs : Creating(p)' => Creating(p) /\ call'[p].new = call[p].new
  BY <1>2 DEF Creating
<1>6. \A p \in Procs : p # proc_atual => call'[p] = call[p]
  BY <1>2
<1>7. estado[proc_atual] # "FREE"
  BY DEF OneRunning
<1>8. \A p \in Procs : call[p].new \in Procs
  BY DEF TypeOK, Calls
<1>9. \A p \in Procs : Creating(p) => call[p].new # proc_atual
  BY DEF NewInv, CurrentInFila
<1>10. NewInv'
  <2>1. \A p \in Procs : estado'[p] = "FREE" =>
          p \notin InFila' /\ call'[p].at = "user"
    BY <1>1, <1>6, <1>7 DEF NewInv
  <2>2. \A p \in Procs : Creating(p)' =>
          /\ estado'[call'[p].new] \in {"NEW", "READY"}
          /\ call'[p].new \notin InFila'
          /\ call'[call'[p].new].at = "user"
    BY <1>1, <1>5, <1>6, <1>8, <1>9 DEF NewInv
  <2>3. \A p, q \in Procs :
          Creating(p)' /\ Creating(q)' /\ call'[p].new = call'[q].new => p = q
    BY <1>5 DEF NewInv
  <2> QED
    BY <2>1, <2>2, <2>3 DEF NewInv
<1> QED
  BY <1>3, <1>4, <1>10

(* The allocator gives proc_criar() a PCB, or takes it back.               *)
LEMMA IndPcb ==
  ASSUME ListInv,
         (\E q \in Procs, g \in Garbage : PcbTaken(q, g)) \/ PcbFreed
  PROVE  ListInv'
<1> USE DEF ListInv
<1>a. call \in [Procs -> Calls] /\ proc_atual \in Procs /\ estado \in [Procs -> Estados]
  BY DEF TypeOK
<1>1. ASSUME NEW q \in Procs, NEW g \in Garbage, PcbTaken(q, g)
      PROVE  ListInv'
  <2> DEFINE c == [at |-> "gap", new |-> q, n |-> 0, last |-> proc_atual]
  <2>1. /\ call' = [call EXCEPT ![proc_atual] = c]
        /\ c \in Calls /\ c.at = "gap" /\ c.new = q
    BY <1>a, <1>1 DEF PcbTaken, Calls
  <2>2. q # proc_atual /\ q \notin InFila /\ call[q].at = "user"
    BY <1>1 DEF PcbTaken, NewInv, CurrentInFila
  <2> HIDE DEF c
  <2>3. InFila' = InFila /\ fila' = fila /\ proc_atual' = proc_atual
    BY <1>1 DEF PcbTaken, InFila, listVars
  <2>4. TypeOK'
    <3>1. g \in 0 .. 255
      BY SchedAssumption
    <3>2. call' \in [Procs -> Calls]
      BY <1>a, <2>1
    <3> QED
      BY <1>1, <3>1, <3>2 DEF PcbTaken, TypeOK, Estados, listVars
  <2>5. \A p \in Procs : estado'[p] = IF p = q THEN "NEW" ELSE estado[p]
    BY <1>1, <1>a DEF PcbTaken
  <2>6. OneRunning' /\ CurrentInFila'
    BY <1>a, <2>2, <2>3, <2>5 DEF OneRunning, CurrentInFila
  <2>7. \A p \in Procs : call'[p] = IF p = proc_atual THEN c ELSE call[p]
    BY <2>1 DEF TypeOK
  <2>8. \A p \in Procs : Creating(p) => call[p].new # q
    BY <1>1 DEF PcbTaken, NewInv
  <2>9. estado[proc_atual] # "FREE"
    BY DEF OneRunning
  <2>10. \A p \in Procs : Creating(p) => proc_atual # call[p].new
    BY DEF NewInv, CurrentInFila
  <2>11. \A p \in Procs : call[p].new \in Procs
    BY DEF TypeOK, Calls
  <2>12. NewInv'
    BY <2>1, <2>2, <2>3, <2>5, <2>7, <2>8, <2>9, <2>10, <2>11
       DEF NewInv, Creating
  <2>13. LinkInv'
    BY <2>1, <2>3, <2>7 DEF LinkInv
  <2> QED
    BY <2>4, <2>6, <2>12, <2>13
<1>2. CASE PcbFreed
  <2> DEFINE q == call[proc_atual].new
  <2>1. Creating(proc_atual) /\ q \in Procs /\ User(proc_atual) \in Calls
    BY <1>2, <1>a DEF PcbFreed, Creating, Calls, User
  <2>2. q # proc_atual /\ q \notin InFila /\ call[q].at = "user"
    BY <1>a, <2>1 DEF NewInv, CurrentInFila
  <2>3. InFila' = InFila /\ fila' = fila /\ proc_atual' = proc_atual
    BY <1>2 DEF PcbFreed, InFila, listVars, schedVars
  <2>4. \A p \in Procs : estado'[p] = IF p = q THEN "FREE" ELSE estado[p]
    BY <1>2, <1>a DEF PcbFreed
  <2>5. /\ call'[proc_atual].at = "user"
        /\ \A p \in Procs : p # proc_atual => call'[p] = call[p]
    BY <1>2, <1>a DEF PcbFreed, Returns, User
  <2>6. TypeOK'
    <3>1. call' \in [Procs -> Calls]
      BY <1>2, <1>a, <2>1 DEF PcbFreed, Returns
    <3>2. estado' \in [Procs -> Estados]
      BY <1>2, <1>a DEF PcbFreed, Estados
    <3> QED
      BY <1>2, <3>1, <3>2 DEF PcbFreed, TypeOK, listVars, schedVars
  <2>7. OneRunning' /\ CurrentInFila' /\ LinkInv'
    BY <1>a, <2>2, <2>3, <2>4, <2>5 DEF OneRunning, CurrentInFila, LinkInv
  <2>8. \A p \in Procs : Creating(p)' =>
          /\ Creating(p) /\ p # proc_atual /\ call'[p].new = call[p].new
          /\ call[p].new # q
    BY <1>a, <2>1, <2>5 DEF Creating, NewInv
  <2>9. \A p \in Procs : call[p].at = "user" => call'[p].at = "user"
    BY <2>5
  <2>10. \A p \in Procs : call[p].new \in Procs
    BY <1>a DEF Calls
  <2>11. NewInv'
    <3>1. \A p \in Procs : estado'[p] = "FREE" =>
            p \notin InFila' /\ call'[p].at = "user"
      BY <2>2, <2>3, <2>4, <2>9 DEF NewInv
    <3>2. \A p \in Procs : Creating(p)' =>
            /\ estado'[call'[p].new] \in {"NEW", "READY"}
            /\ call'[p].new \notin InFila'
            /\ call'[call'[p].new].at = "user"
      BY <2>3, <2>4, <2>8, <2>9, <2>10 DEF NewInv
    <3>3. \A p, r \in Procs :
            Creating(p)' /\ Creating(r)' /\ call'[p].new = call'[r].new => p = r
      BY <2>8 DEF NewInv
    <3> QED
      BY <3>1, <3>2, <3>3 DEF NewInv
  <2> QED
    BY <2>6, <2>7, <2>11
<1> QED
  BY <1>1, <1>2

(* Every other step of proc_criar() before the link, and every exit.       *)
LEMMA IndCall ==
  ASSUME ListInv,
         \/ \E to \in Inside : Enters(to)
         \/ HeapReturns \/ PcbFails \/ StackReturns
         \/ \E prio \in Priorities : Fill(prio)
         \/ TakePid \/ FindLast
         \/ \E gate \in BOOLEAN : Encerrar(gate)
  PROVE  ListInv'
<1> USE DEF ListInv
<1>0. InFila \subseteq Procs /\ DOMAIN fila = 1 .. Len(fila) /\ Len(fila) \in Nat
  BY InFilaProcs DEF TypeOK
<1>a. call \in [Procs -> Calls] /\ proc_atual \in Procs /\ estado \in [Procs -> Estados]
  BY DEF TypeOK
<1>b. ASSUME NEW to \in Inside \cup {"fill", "undo", "find", "spin"}, Goes(to)
      PROVE  /\ [call[proc_atual] EXCEPT !.at = to] \in Calls
             /\ call' = [call EXCEPT ![proc_atual] =
                           [call[proc_atual] EXCEPT !.at = to]]
             /\ call' \in [Procs -> Calls]
  <2>1. [call[proc_atual] EXCEPT !.at = to] \in Calls
    BY <1>a DEF Calls, Inside
  <2> QED
    BY <1>a, <1>b, <2>1 DEF Goes
<1>1. ASSUME NEW to \in Inside, Enters(to)
      PROVE  ListInv'
  <2> DEFINE c == [call[proc_atual] EXCEPT !.at = to]
  <2>1. c \in Calls /\ call' = [call EXCEPT ![proc_atual] = c] /\ call' \in [Procs -> Calls]
    BY <1>1, <1>b DEF Enters
  <2>2. c.at = to /\ c.new = call[proc_atual].new
    BY <1>a DEF Calls
  <2>3. to \in {"stack", "kfree"} => Creating(proc_atual)
    BY <1>1 DEF Enters, Entries, Creating
  <2>4. UNCHANGED <<fila, proc_atual, estado>>
    BY <1>1 DEF Enters, listVars, schedVars
  <2>5. TypeOK'
    BY <1>1, <2>1 DEF Enters, TypeOK, listVars, schedVars
  <2>6. OneRunning' /\ CurrentInFila' /\ NewInv' /\ LinkInv'
    <3> HIDE DEF c
    <3> QED
      BY <2>1, <2>2, <2>3, <2>4, CallMoves DEF Inside
  <2> QED
    BY <2>5, <2>6
<1>2. CASE HeapReturns \/ PcbFails
  <2> DEFINE c == User(proc_atual)
  <2>1. call' = [call EXCEPT ![proc_atual] = c] /\ c \in Calls /\ c.at = "user"
    BY <1>2, <1>a DEF HeapReturns, PcbFails, Returns, User, Calls
  <2>2. TypeOK' /\ UNCHANGED <<fila, proc_atual, estado>>
    BY <1>2, <2>1 DEF HeapReturns, PcbFails, TypeOK, listVars, schedVars
  <2>3. OneRunning' /\ CurrentInFila' /\ NewInv' /\ LinkInv'
    <3> HIDE DEF c
    <3> QED
      BY <2>1, <2>2, CallMoves
  <2> QED
    BY <2>2, <2>3
<1>5. CASE StackReturns
  <2>0. PICK to \in {"fill", "undo"} : Goes(to)
    BY <1>5 DEF StackReturns
  <2> DEFINE c == [call[proc_atual] EXCEPT !.at = to]
  <2>1. c \in Calls /\ call' = [call EXCEPT ![proc_atual] = c] /\ call' \in [Procs -> Calls]
    BY <1>b, <2>0
  <2>2. c.at = to /\ c.new = call[proc_atual].new /\ Creating(proc_atual)
    BY <1>5, <1>a DEF Calls, StackReturns, Creating
  <2>3. TypeOK' /\ UNCHANGED <<fila, proc_atual, estado>>
    BY <1>5, <2>1 DEF StackReturns, TypeOK, listVars, schedVars
  <2>4. OneRunning' /\ CurrentInFila' /\ NewInv' /\ LinkInv'
    <3> HIDE DEF c
    <3> QED
      BY <2>0, <2>1, <2>2, <2>3, CallMoves
  <2> QED
    BY <2>3, <2>4
<1>6. ASSUME NEW prio \in Priorities, Fill(prio)
      PROVE  ListInv'
  <2> DEFINE q == call[proc_atual].new
             c == [at |-> "pid", new |-> q, n |-> prox_pid, last |-> proc_atual]
  <2>1. /\ call' = [call EXCEPT ![proc_atual] = c]
        /\ c \in Calls /\ c.at = "pid" /\ c.new = q
        /\ q \in Procs /\ Creating(proc_atual)
    <3>1. prox_pid \in Nat /\ q \in Procs
      BY <1>a DEF TypeOK, Calls
    <3> QED
      BY <1>a, <1>6, <3>1 DEF Fill, Calls, Creating
  <2>2. q # proc_atual /\ q \notin InFila
    BY <1>a, <2>1 DEF NewInv, CurrentInFila
  <2> HIDE DEF c
  <2>3. InFila' = InFila /\ UNCHANGED <<fila, proc_atual>>
    BY <1>6 DEF Fill, InFila, listVars, schedVars
  <2>4. \A p \in Procs : estado'[p] = IF p = q THEN "READY" ELSE estado[p]
    BY <1>6, <1>a DEF Fill
  <2>5. TypeOK'
    <3>1. prio \in 0 .. 2
      BY SchedAssumption
    <3>2. call' \in [Procs -> Calls]
      BY <1>a, <2>1
    <3> QED
      BY <1>6, <3>1, <3>2 DEF Fill, TypeOK, Estados, listVars, schedVars
  <2>6. \A p \in Procs : call'[p] = IF p = proc_atual THEN c ELSE call[p]
    BY <1>a, <2>1
  <2>7. OneRunning' /\ CurrentInFila' /\ LinkInv'
    BY <1>a, <2>1, <2>2, <2>3, <2>4, <2>6 DEF OneRunning, CurrentInFila, LinkInv
  <2>8. NewInv'
    <3>1. \A p \in Procs : Creating(p)' <=> Creating(p)
      BY <2>1, <2>6 DEF Creating
    <3>2. \A p \in Procs : call'[p].new = call[p].new
      BY <2>1, <2>6
    <3>3. \A p \in Procs : call[p].at = "user" => call'[p].at = "user"
      BY <2>1, <2>6 DEF Creating
    <3>4. \A p \in Procs : call[p].new \in Procs
      BY <1>a DEF Calls
    <3>5. \A p \in Procs : estado'[p] = "FREE" => estado[p] = "FREE"
      BY <2>4
    <3>6. \A p \in Procs : estado[p] \in {"NEW", "READY"} =>
            estado'[p] \in {"NEW", "READY"}
      BY <2>4
    <3> QED
      BY <2>3, <3>1, <3>2, <3>3, <3>4, <3>5, <3>6 DEF NewInv
  <2> QED
    BY <2>5, <2>7, <2>8
<1>7. CASE TakePid
  <2> DEFINE c == [call[proc_atual] EXCEPT !.at = "find"]
  <2>1. c \in Calls /\ call' = [call EXCEPT ![proc_atual] = c] /\ call' \in [Procs -> Calls]
    BY <1>7, <1>b DEF TakePid
  <2>2. c.at = "find" /\ c.new = call[proc_atual].new /\ Creating(proc_atual)
    BY <1>7, <1>a DEF Calls, TakePid, Creating
  <2>3. UNCHANGED <<fila, proc_atual, estado>>
    BY <1>7 DEF TakePid, schedVars
  <2>4. TypeOK'
    <3>1. call[proc_atual].n \in Nat /\ call[proc_atual].new \in Procs
      BY <1>a DEF Calls
    <3>2. pid' \in [Procs -> Nat] /\ prox_pid' \in Nat
      BY <1>7, <3>1 DEF TakePid, TypeOK
    <3> QED
      BY <1>7, <2>1, <3>2 DEF TakePid, TypeOK, schedVars
  <2>5. OneRunning' /\ CurrentInFila' /\ NewInv' /\ LinkInv'
    <3> HIDE DEF c
    <3> QED
      BY <2>1, <2>2, <2>3, CallMoves
  <2> QED
    BY <2>4, <2>5
<1>3. CASE FindLast
  <2> DEFINE l == fila[Len(fila)]
             c == [at |-> "link", new |-> call[proc_atual].new,
                   n |-> call[proc_atual].n, last |-> l]
  <2>1. l \in Procs /\ Len(fila) \in DOMAIN fila
    BY <1>0 DEF TypeOK, CurrentInFila, InFila
  <2>2. /\ call' = [call EXCEPT ![proc_atual] = c]
        /\ c \in Calls /\ c.at = "link" /\ c.new = call[proc_atual].new
        /\ c.last = l
        /\ Creating(proc_atual)
    <3>1. call' = [call EXCEPT ![proc_atual] = c] /\ Creating(proc_atual)
      BY <1>3, <1>a DEF FindLast, Creating
    <3> QED
      BY <1>a, <2>1, <3>1 DEF Calls
  <2> HIDE DEF c
  <2>3. InFila' = InFila /\ UNCHANGED <<fila, proc_atual, estado>>
    BY <1>3 DEF FindLast, InFila, listVars, schedVars
  <2>4. TypeOK'
    BY <1>3, <2>2 DEF FindLast, TypeOK, listVars, schedVars
  <2>5. \A p \in Procs : call'[p] = IF p = proc_atual THEN c ELSE call[p]
    BY <2>2 DEF TypeOK
  <2>6. OneRunning' /\ CurrentInFila'
    BY <2>3 DEF OneRunning, CurrentInFila
  <2>7. LinkInv'
    <3> SUFFICES ASSUME NEW p \in Procs, call'[p].at = "link",
                        NEW i \in DOMAIN fila, NEW j \in DOMAIN fila,
                        fila[i] = p, fila[j] = call'[p].last
                 PROVE  i <= j
      BY <2>3 DEF LinkInv
    <3>1. CASE p = proc_atual
      <4>1. fila[j] = fila[Len(fila)]
        BY <2>2, <2>5, <3>1
      <4>2. j = Len(fila)
        BY <2>1, <4>1 DEF CurrentInFila
      <4> QED
        BY <1>0, <4>2
    <3>2. CASE p # proc_atual
      BY <2>5, <3>2 DEF LinkInv
    <3> QED
      BY <3>1, <3>2
  <2>8. NewInv'
    <3>1. \A p \in Procs : Creating(p)' <=> Creating(p)
      BY <2>2, <2>5 DEF Creating
    <3>2. \A p \in Procs : call'[p].new = call[p].new
      BY <2>2, <2>5
    <3>3. \A p \in Procs : call[p].at = "user" => call'[p].at = "user"
      BY <2>2, <2>5 DEF Creating
    <3>4. \A p \in Procs : call[p].new \in Procs
      BY DEF TypeOK, Calls
    <3> QED
      BY <2>3, <3>1, <3>2, <3>3, <3>4 DEF NewInv
  <2> QED
    BY <2>4, <2>6, <2>7, <2>8
<1>4. ASSUME NEW gate \in BOOLEAN, Encerrar(gate)
      PROVE  ListInv'
  <2>1. InFila' = InFila /\ UNCHANGED <<fila, proc_atual>>
    BY <1>4 DEF Encerrar, InFila, listVars, schedVars
  <2>2. TypeOK'
    <3>2. call' \in [Procs -> Calls]
      BY <1>4, <1>b DEF Encerrar
    <3>3. estado' \in [Procs -> Estados] /\ sti' \in BOOLEAN
      BY <1>4, <1>a DEF Encerrar, Estados
    <3> QED
      BY <1>4, <3>2, <3>3 DEF Encerrar, TypeOK, listVars, schedVars
  <2>3. \A p \in Procs :
          /\ call'[p].at = IF p = proc_atual THEN "spin" ELSE call[p].at
          /\ call'[p].new = call[p].new
          /\ call'[p].last = call[p].last
    BY <1>4 DEF Encerrar, Goes, TypeOK, Calls
  <2>4. \A p \in Procs : estado'[p] = IF p = proc_atual THEN "MORTO"
                                                        ELSE estado[p]
    BY <1>4 DEF Encerrar, TypeOK
  <2>5. OneRunning' /\ CurrentInFila' /\ LinkInv'
    <3>1. OneRunning'
      BY <1>a, <2>1, <2>4 DEF OneRunning
    <3>2. CurrentInFila'
      BY <2>1 DEF CurrentInFila
    <3>3. LinkInv'
      BY <2>1, <2>3 DEF LinkInv
    <3> QED
      BY <3>1, <3>2, <3>3
  <2>6. NewInv'
    <3>1. \A p \in Procs : Creating(p)' => Creating(p)
      BY <2>3 DEF Creating
    <3>2. \A p \in Procs : call[p].new \in Procs
      BY DEF TypeOK, Calls
    <3>3. \A p \in Procs : Creating(p) => call[p].new # proc_atual
      BY DEF NewInv, CurrentInFila
    <3> QED
      BY <2>1, <2>3, <2>4, <3>1, <3>2, <3>3 DEF NewInv
  <2> QED
    BY <2>2, <2>5, <2>6
<1> QED
  BY <1>1, <1>2, <1>3, <1>4, <1>5, <1>6, <1>7

(* The write of ultimo->proximo.                                           *)
LEMMA IndLink ==
  ASSUME ListInv, Link
  PROVE  ListInv'
<1> USE DEF ListInv
<1> DEFINE me == proc_atual
           q == call[me].new
           l == call[me].last
<1>1. /\ me \in Procs /\ q \in Procs /\ l \in Procs /\ User(me) \in Calls
      /\ fila \in Seq(Procs)
  BY DEF TypeOK, Calls, User
<1>2. /\ Creating(me) /\ q \notin InFila /\ me \in InFila /\ q # me
      /\ estado[q] \in {"NEW", "READY"} /\ call[q].at = "user"
  BY <1>1 DEF Link, Creating, NewInv, CurrentInFila
<1>3. \A p \in Procs :
        /\ p = me => call'[p].at = "user"
        /\ p # me => call'[p] = call[p]
  BY <1>1 DEF Link, Returns, TypeOK, User
<1>4. \A p \in Procs : Creating(p) /\ p # me => call[p].new # q
  BY <1>1, <1>2 DEF NewInv
<1>5. fila' = LinkAfter(l, q) /\ UNCHANGED <<estado, proc_atual>>
  BY DEF Link, schedVars
<1>6. fila' \in Seq(Procs)
  BY <1>1, <1>5, LinkAfterIs
<1>7. TypeOK'
  BY <1>1, <1>6 DEF Link, Returns, TypeOK, schedVars
<1>8. OneRunning'
  BY <1>5 DEF OneRunning
<1>9. InFila' \subseteq InFila \cup {q} /\ CurrentInFila' /\ LinkInv'
  <2>1. CASE LinkAfter(l, q) = fila
    <3>1. fila' = fila /\ InFila' = InFila
      BY <1>5, <2>1 DEF InFila
    <3>2. CurrentInFila'
      BY <1>5, <3>1 DEF CurrentInFila
    <3>3. LinkInv'
      BY <1>3, <3>1 DEF LinkInv
    <3> QED
      BY <3>1, <3>2, <3>3
  <2>2. CASE LinkAfter(l, q) # fila
    <3>1. PICK n \in DOMAIN fila :
            /\ fila[n] = l
            /\ DOMAIN fila' = 1 .. n + 1
            /\ \A i \in 1 .. n : fila'[i] = fila[i]
            /\ fila'[n + 1] = q
      BY <1>1, <1>5, <2>2, LinkAfterIs
    <3>2. n \in Nat /\ n >= 1 /\ 1 .. n \subseteq DOMAIN fila
      BY <1>1, <3>1
    <3>3. InFila' \subseteq InFila \cup {q}
      BY <3>1, <3>2 DEF InFila
    <3>4. PICK k \in DOMAIN fila : fila[k] = me
      BY <1>2 DEF InFila
    <3>5. k <= n /\ k >= 1 /\ k \in Nat
      BY <1>1, <3>1, <3>4 DEF LinkInv, Link
    <3>6. me \in InFila'
      BY <3>1, <3>2, <3>4, <3>5 DEF InFila
    <3>7. \A i \in DOMAIN fila' : fila'[i] = q <=> i = n + 1
      BY <1>2, <3>1, <3>2 DEF InFila
    <3>8. \A i, j \in DOMAIN fila' : fila'[i] = fila'[j] => i = j
      BY <3>1, <3>2, <3>7 DEF CurrentInFila
    <3>9. CurrentInFila'
      BY <1>5, <3>6, <3>8 DEF CurrentInFila
    <3>10. LinkInv'
      <4> SUFFICES ASSUME NEW p \in Procs, call'[p].at = "link",
                          NEW i \in DOMAIN fila', NEW j \in DOMAIN fila',
                          fila'[i] = p, fila'[j] = call'[p].last
                   PROVE  i <= j
        BY DEF LinkInv
      <4>1. p # me /\ call'[p] = call[p] /\ p # q
        BY <1>2, <1>3
      <4>2. i \in 1 .. n /\ fila[i] = p
        BY <3>1, <3>2, <3>7, <4>1
      <4>3. CASE j = n + 1
        BY <3>2, <4>2, <4>3
      <4>4. CASE j # n + 1
        <5>1. j \in 1 .. n /\ fila[j] = call[p].last
          BY <3>1, <3>2, <4>1, <4>4
        <5> QED
          BY <3>2, <4>1, <4>2, <5>1 DEF LinkInv
      <4> QED
        BY <4>3, <4>4
    <3> QED
      BY <3>3, <3>9, <3>10
  <2> QED
    BY <2>1, <2>2
<1>10. NewInv'
  <2>1. \A p \in Procs : Creating(p)' => Creating(p) /\ p # me
    BY <1>3 DEF Creating
  <2>2. \A p \in Procs : call[p].at = "user" => call'[p].at = "user"
    BY <1>3
  <2>3. \A p \in Procs : Creating(p)' => call'[p].new = call[p].new
    BY <1>3, <2>1
  <2>4. \A p \in Procs : call[p].new \in Procs
    BY DEF TypeOK, Calls
  <2>5. \A p \in Procs : estado'[p] = "FREE" =>
          p \notin InFila' /\ call'[p].at = "user"
    BY <1>2, <1>5, <1>9, <2>2 DEF NewInv
  <2>6. \A p \in Procs : Creating(p)' =>
          /\ estado'[call'[p].new] \in {"NEW", "READY"}
          /\ call'[p].new \notin InFila'
          /\ call'[call'[p].new].at = "user"
    BY <1>4, <1>5, <1>9, <2>1, <2>2, <2>3, <2>4 DEF NewInv
  <2>7. \A p, r \in Procs :
          Creating(p)' /\ Creating(r)' /\ call'[p].new = call'[r].new => p = r
    BY <2>1, <2>3 DEF NewInv
  <2> QED
    BY <2>5, <2>6, <2>7 DEF NewInv
<1> QED
  BY <1>7, <1>8, <1>9, <1>10

(* Every tick of the timer.                                                *)
LEMMA IndTick ==
  ASSUME ListInv, Tick
  PROVE  ListInv'
<1> USE DEF ListInv
<1>1. /\ UNCHANGED <<fila, call, pid, prox_pid, prioridade, sti, heap>>
      /\ InFila' = InFila
  BY DEF Tick, TickKeep, TickSwitch, TickRecalc, listVars, InFila
<1>2. ASSUME NEW p \in InFila, estado[p] = "READY",
             NEW cr \in [Procs -> 0 .. 255], Troca(p, cr),
             creditos' \in [Procs -> 0 .. 255]
      PROVE  ListInv'
  <2>1. p \in Procs
    BY InFilaProcs
  <2>2. TypeOK'
    BY <1>1, <1>2, <2>1 DEF Troca, TypeOK, Estados
  <2>3. proc_atual' = p /\ p \in InFila'
    BY <1>1, <1>2 DEF Troca
  <2>4. \A q \in Procs : estado'[q] =
          IF q = p THEN "RUNNING"
          ELSE IF q = proc_atual /\ estado[q] = "RUNNING" THEN "READY"
          ELSE estado[q]
    BY <1>2 DEF Troca
  <2>5. OneRunning'
    BY <2>1, <2>3, <2>4 DEF OneRunning
  <2>6. CurrentInFila' /\ LinkInv'
    BY <1>1, <2>3 DEF CurrentInFila, LinkInv
  <2>7. \A q \in Procs :
          /\ estado'[q] = "FREE" <=> estado[q] = "FREE"
          /\ q \notin InFila => estado'[q] = estado[q]
    BY <1>2, <2>1, <2>4 DEF CurrentInFila
  <2>8. NewInv'
    <3>1. \A q \in Procs : call[q].new \in Procs
      BY DEF TypeOK, Calls
    <3> QED
      BY <1>1, <2>7, <3>1 DEF NewInv, Creating
  <2> QED
    BY <2>2, <2>5, <2>6, <2>8
<1>3. CASE UNCHANGED <<estado, proc_atual>> /\ creditos_atuais' \in 0 .. 255
           /\ creditos' \in [Procs -> 0 .. 255]
  <2>1. TypeOK'
    BY <1>1, <1>3 DEF TypeOK
  <2>2. OneRunning' /\ CurrentInFila' /\ LinkInv'
    BY <1>1, <1>3 DEF OneRunning, CurrentInFila, LinkInv
  <2>3. NewInv'
    BY <1>1, <1>3 DEF NewInv, Creating
  <2> QED
    BY <2>1, <2>2, <2>3
<1>4. CASE TickKeep
  <2>1. creditos_atuais' \in 0 .. 255
    BY <1>4 DEF TickKeep, Gasta, TypeOK
  <2> QED
    BY <1>3, <1>4, <2>1 DEF TickKeep, TypeOK
<1>5. CASE TickSwitch
  <2>1. Candidate \in InFila /\ estado[Candidate] = "READY"
    BY <1>5, CandidateIs DEF TickSwitch, Candidates, Eligible
  <2> QED
    BY <1>2, <1>5, <2>1 DEF TickSwitch, TypeOK
<1>6. CASE TickRecalc
  <2>1. CASE Ready # {}
    <3>1. FirstReady \in InFila /\ estado[FirstReady] = "READY"
      BY <2>1, FirstReadyIs DEF Ready
    <3> QED
      BY <1>2, <1>6, <2>1, <3>1, RecalculadosType DEF TickRecalc
  <2>2. CASE Ready = {}
    BY <1>3, <1>6, <2>2, RecalculadosType DEF TickRecalc
  <2> QED
    BY <2>1, <2>2
<1> QED
  BY <1>4, <1>5, <1>6 DEF Tick

(* Every step keeps the invariant, as long as no calls of the allocator    *)
(* have overlapped.                                                        *)
LEMMA IndStep == IndInv /\ [Next]_vars => IndInv'
<1> SUFFICES ASSUME IndInv, [Next]_vars, Whole' PROVE ListInv'
  BY DEF IndInv
<1>1. CASE UNCHANGED vars
  <2>1. ListInv
    BY <1>1 DEF vars, IndInv, Whole
  <2> QED
    BY <1>1, <2>1 DEF vars, ListInv, TypeOK, OneRunning, CurrentInFila,
                      NewInv, LinkInv, InFila, Creating
<1>2. CASE Next
  <2>1. ListInv
    BY <1>2 DEF Next, IndInv
  <2> QED
    BY <1>2, <2>1, IndPcb, IndCall, IndLink, IndTick DEF Next
<1> QED
  BY <1>1, <1>2
-----------------------------------------------------------------------------
(* The invariant that the theorems below rest on holds until two calls of  *)
(* the allocator overlap: up to then the races of the unlocked             *)
(* fila_adicionar() neither cut off the running process nor close a cycle. *)
THEOREM IndInvariant == Spec => []IndInv
<1>1. Init => IndInv
  BY IndInit DEF IndInv
<1>2. IndInv /\ [Next]_vars => IndInv'
  BY IndStep
<1> QED
  BY <1>1, <1>2, PTL DEF Spec

(* Every variable keeps its type: creditos_atuais never leaves the range   *)
(* of the byte it is loaded from.                                          *)
THEOREM TypeCorrect == Spec => [](Whole => TypeOK)
<1>1. IndInv => (Whole => TypeOK)
  BY DEF IndInv, ListInv
<1> QED
  BY <1>1, IndInvariant, PTL

(* sched_tick() never leaves two processes RUNNING, nor one RUNNING that   *)
(* is not the current one.                                                 *)
THEOREM OneRuns == Spec => [](Whole => OneRunning)
<1>1. IndInv => (Whole => OneRunning)
  BY DEF IndInv, ListInv
<1> QED
  BY <1>1, IndInvariant, PTL

(* While no calls of the allocator have overlapped, the unlocked list may  *)
(* lose PCBs, but never the one that is running, and it never gets a       *)
(* cycle: the searches of sched_tick() end.                                *)
THEOREM CurrentListed == Spec => [](Whole => CurrentInFila)
<1>1. IndInv => (Whole => CurrentInFila)
  BY DEF IndInv, ListInv
<1> QED
  BY <1>1, IndInvariant, PTL

(* A process that called proc_encerrar() is never switched to again, as    *)
(* long as no calls of the allocator have overlapped.                      *)
THEOREM DeadForever == Spec => DeadStaysDead
<1> DEFINE Kept == \A p \in Procs : estado[p] = "MORTO" =>
             /\ estado'[p] = "MORTO"
             /\ proc_atual' = p => proc_atual = p
           Dead == Whole' => Kept
<1>1. IndInv /\ [Next]_vars => [Dead]_vars
  <2> SUFFICES ASSUME IndInv, Next PROVE Kept
    OBVIOUS
  <2>0. ListInv
    BY DEF Next, IndInv
  <2> USE <2>0 DEF ListInv, TypeOK
  <2>1. ASSUME NEW q \in InFila, estado[q] = "READY",
               NEW cr, Troca(q, cr)
        PROVE  Kept
    BY <2>1 DEF Troca
  <2>2. CASE TickSwitch
    <3>1. Candidate \in InFila /\ estado[Candidate] = "READY"
      BY <2>2, CandidateIs DEF TickSwitch, Candidates, Eligible
    <3> QED
      BY <2>1, <2>2, <3>1 DEF TickSwitch
  <2>3. CASE TickRecalc
    <3>1. CASE Ready # {}
      <4>1. FirstReady \in InFila /\ estado[FirstReady] = "READY"
        BY <3>1, FirstReadyIs DEF Ready
      <4> QED
        BY <2>1, <2>3, <3>1, <4>1 DEF TickRecalc
    <3>2. CASE Ready = {}
      BY <2>3, <3>2 DEF TickRecalc
    <3> QED
      BY <3>1, <3>2
  <2>4. CASE TickKeep
    BY <2>4 DEF TickKeep
  <2>5. ASSUME NEW q \in Procs, NEW g \in Garbage, PcbTaken(q, g)
        PROVE  Kept
    BY <2>5 DEF PcbTaken
  <2>6. CASE \/ \E to \in Inside : Enters(to)
             \/ HeapReturns \/ PcbFails \/ StackReturns
             \/ TakePid \/ FindLast \/ Link
    BY <2>6 DEF Enters, HeapReturns, PcbFails, StackReturns, TakePid, FindLast,
                Link, schedVars
  <2>7. ASSUME NEW gate \in BOOLEAN, Encerrar(gate)
        PROVE  Kept
    BY <2>7 DEF Encerrar, schedVars
  <2>8. CASE PcbFreed \/ \E prio \in Priorities : Fill(prio)
    <3>1. Creating(proc_atual) /\ proc_atual' = proc_atual
      BY <2>8 DEF PcbFreed, Fill, Creating, schedVars
    <3>2. estado[call[proc_atual].new] # "MORTO"
      BY <3>1 DEF NewInv
    <3> QED
      BY <2>8, <3>1, <3>2 DEF PcbFreed, Fill
  <2> QED
    BY <2>2, <2>3, <2>4, <2>5, <2>6, <2>7, <2>8 DEF Next, Tick
<1> QED
  BY <1>1, IndInvariant, PTL DEF Spec, DeadStaysDead
=============================================================================
