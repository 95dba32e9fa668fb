------------------------------- MODULE Sched -------------------------------
(***************************************************************************)
(* Process creation, exit and the credit scheduler (proc/processo.c,       *)
(* proc/sched.c) on the one processor that takes the timer interrupt       *)
(* (cpu/timer.c, timer_handler_asm).                                       *)
(*                                                                         *)
(* A process runs proc_criar() with interrupts enabled, so a timer tick    *)
(* may preempt it between any two of its accesses to what processes share: *)
(* the heap, prox_pid and the queue.  Each such access is a step of its    *)
(* own; a call of kmalloc() or kfree() is two, its entry and its return.   *)
(* sched_tick() runs with interrupts disabled and is one step.             *)
(*                                                                         *)
(* Nothing locks the heap: two calls that overlap may both be given one    *)
(* block, or leave its list of blocks broken.  What the code does then     *)
(* depends on bytes this module does not have, so the model ends there     *)
(* (heap = "raced"), and every property speaks of the time before.         *)
(*                                                                         *)
(* Abstractions: a PCB is its address, a member of Procs; the saved        *)
(* context of a preempted process is the place it has reached in           *)
(* proc_criar(), which sched_tick() saves and restores exactly; names,     *)
(* identities and the two tick counters are left out.                      *)
(***************************************************************************)
EXTENDS Integers, Sequences

CONSTANTS
  Procs,         \* the PCBs the 256 KB heap has room for
  Kernel,        \* the PCB of process 0, made by proc_init()
  Creators,      \* the processes that call proc_criar()
  Priorities,    \* the priorities they ask for
  Garbage,       \* what the creditos byte of a fresh kmalloc() block may hold
  MaxProcessos   \* MAX_PROCESSOS, 16 in the source

(* The heap holds at most 15 stacks of 16 KB, so with process 0 there are  *)
(* never more than MAX_PROCESSOS PCBs: no numbering of them is longer.     *)
ASSUME SchedAssumption ==
  /\ Kernel \in Procs
  /\ Creators \subseteq Procs
  /\ Priorities \subseteq 0 .. 2
  /\ Garbage \subseteq 0 .. 255
  /\ MaxProcessos \in Nat \ {0}

VARIABLES
  fila,            \* fila_pronto: the list of PCBs, in order
  prox_pid,        \* the next pid
  pid,             \* pid of each PCB
  estado,          \* estado of each PCB, "FREE" when it is not allocated
  prioridade,      \* prioridade of each PCB
  creditos,        \* creditos of each PCB, a uint8_t
  proc_atual,      \* proc_atual_ptr
  creditos_atuais, \* credits left of the running process
  call,            \* what each process is doing, with its locals
  sti,             \* the processor takes interrupts
  heap             \* "raced" once two calls of the allocator have overlapped

vars == <<fila, prox_pid, pid, estado, prioridade, creditos, proc_atual,
          creditos_atuais, call, sti, heap>>
schedVars == <<creditos, proc_atual, creditos_atuais>>
listVars == <<fila, prox_pid, pid>>

(* "NEW": allocated, and not filled in yet.                                *)
Estados == {"FREE", "NEW", "READY", "RUNNING", "MORTO"}

(* Where a process is: in its own code ("user"), in a kmalloc() or kfree() *)
(* of its own ("heap"), in the loop of proc_encerrar() ("spin"), or in     *)
(* proc_criar(): in the first kmalloc() ("pcb"), between the two ("gap"),  *)
(* in the second ("stack"), on the way to kfree() ("undo") and in it       *)
(* ("kfree"), filling the PCB in ("fill", "pid"), in fila_adicionar()      *)
(* ("find", "link").                                                       *)
Inside == {"heap", "pcb", "stack", "kfree"}
User(p) == [at |-> "user", new |-> p, n |-> 0, last |-> p]
Calls == [at : {"user", "gap", "undo", "fill", "pid", "find", "link", "spin"}
                 \cup Inside,
          new : Procs, n : Nat, last : Procs]

TypeOK ==
  /\ fila \in Seq(Procs)
  /\ prox_pid \in Nat
  /\ pid \in [Procs -> Nat]
  /\ estado \in [Procs -> Estados]
  /\ prioridade \in [Procs -> 0 .. 2]
  /\ creditos \in [Procs -> 0 .. 255]
  /\ proc_atual \in Procs
  /\ creditos_atuais \in 0 .. 255
  /\ call \in [Procs -> Calls]
  /\ sti \in BOOLEAN
  /\ heap \in {"whole", "raced"}

InFila == {fila[i] : i \in DOMAIN fila}

(* Credits by priority: high 3, medium 2, low 1.                           *)
Quota(prio) == CASE prio = 2 -> 3 [] prio = 1 -> 2 [] OTHER -> 1

(* After proc_init() and sched_init(): process 0 is alone and running.     *)
Init ==
  /\ fila = <<Kernel>>
  /\ prox_pid = 1
  /\ pid = [p \in Procs |-> 0]
  /\ estado = [p \in Procs |-> IF p = Kernel THEN "RUNNING" ELSE "FREE"]
  /\ prioridade = [p \in Procs |-> IF p = Kernel THEN 1 ELSE 0]
  /\ creditos = [p \in Procs |-> IF p = Kernel THEN Quota(1) ELSE 0]
  /\ proc_atual = Kernel
  /\ creditos_atuais = Quota(1)
  /\ call = [p \in Procs |-> User(p)]
  /\ sti = TRUE
  /\ heap = "whole"
-----------------------------------------------------------------------------
(* The running process goes on from one place to the next.                 *)
Goes(to) == call' = [call EXCEPT ![proc_atual].at = to]
Returns == call' = [call EXCEPT ![proc_atual] = User(proc_atual)]

(* A process enters kmalloc() or kfree(): for itself, for the PCB and for  *)
(* the stack of a process it creates, or to give the PCB back.             *)
Entries == {<<"user", "heap">>, <<"user", "pcb">>, <<"gap", "stack">>,
            <<"undo", "kfree">>}
Enters(to) ==
  /\ <<call[proc_atual].at, to>> \in Entries
  /\ to = "pcb" => proc_atual \in Creators
  /\ Goes(to)
  /\ heap' = IF \E p \in Procs : call[p].at \in Inside THEN "raced" ELSE heap
  /\ UNCHANGED <<listVars, estado, prioridade, schedVars, sti>>

(* The process's own call returns.                                         *)
HeapReturns ==
  /\ call[proc_atual].at = "heap"
  /\ Returns
  /\ UNCHANGED <<listVars, estado, prioridade, schedVars, sti, heap>>

(* proc_criar() is given a PCB.  creditos is not assigned: it keeps what   *)
(* the block held.                                                         *)
PcbTaken(q, g) ==
  /\ call[proc_atual].at = "pcb"
  /\ estado[q] = "FREE"
  /\ estado' = [estado EXCEPT ![q] = "NEW"]
  /\ creditos' = [creditos EXCEPT ![q] = g]
  /\ call' = [call EXCEPT ![proc_atual] = [at |-> "gap", new |-> q,
                 n |-> 0, last |-> proc_atual]]
  /\ UNCHANGED <<listVars, prioridade, proc_atual, creditos_atuais, sti, heap>>

PcbFails ==
  /\ call[proc_atual].at = "pcb"
  /\ Returns
  /\ UNCHANGED <<listVars, estado, prioridade, schedVars, sti, heap>>

(* It is given a stack, or else frees the PCB.                             *)
StackReturns ==
  /\ call[proc_atual].at = "stack"
  /\ Goes("fill") \/ Goes("undo")
  /\ UNCHANGED <<listVars, estado, prioridade, schedVars, sti, heap>>

PcbFreed ==
  /\ call[proc_atual].at = "kfree"
  /\ estado' = [estado EXCEPT ![call[proc_atual].new] = "FREE"]
  /\ Returns
  /\ UNCHANGED <<listVars, prioridade, schedVars, sti, heap>>

(* The PCB is filled in, with the first half of prox_pid++.                *)
Fill(prio) ==
  LET c == call[proc_atual] IN
  /\ c.at = "fill"
  /\ estado' = [estado EXCEPT ![c.new] = "READY"]
  /\ prioridade' = [prioridade EXCEPT ![c.new] = prio]
  /\ call' = [call EXCEPT ![proc_atual] = [at |-> "pid", new |-> c.new,
                 n |-> prox_pid, last |-> proc_atual]]
  /\ UNCHANGED <<listVars, schedVars, sti, heap>>

(* The second half of prox_pid++.                                          *)
TakePid ==
  LET c == call[proc_atual] IN
  /\ c.at = "pid"
  /\ pid' = [pid EXCEPT ![c.new] = c.n]
  /\ prox_pid' = c.n + 1
  /\ Goes("find")
  /\ UNCHANGED <<fila, estado, prioridade, schedVars, sti, heap>>

(* fila_adicionar() walks to the last PCB of the list ...                  *)
FindLast ==
  LET c == call[proc_atual] IN
  /\ c.at = "find"
  /\ call' = [call EXCEPT ![proc_atual] = [at |-> "link", new |-> c.new,
                 n |-> c.n, last |-> fila[Len(fila)]]]
  /\ UNCHANGED <<listVars, estado, prioridade, schedVars, sti, heap>>

(* ultimo->proximo = p: whatever followed ultimo by now is cut off.  If    *)
(* ultimo has itself been cut off, so is p.                                *)
LinkAfter(last, q) ==
  IF last \in InFila
  THEN LET i == CHOOSE i \in DOMAIN fila : fila[i] = last
       IN  Append(SubSeq(fila, 1, i), q)
  ELSE fila

(* ... and links the new one behind it.                                    *)
Link ==
  LET c == call[proc_atual] IN
  /\ c.at = "link"
  /\ fila' = LinkAfter(c.last, c.new)
  /\ Returns
  /\ UNCHANGED <<prox_pid, pid, estado, prioridade, schedVars, sti, heap>>

(* proc_encerrar(): the process is marked dead and loops until a tick      *)
(* takes the processor away.  SYS_EXIT calls it behind the interrupt gate  *)
(* of int 0x80, with interrupts disabled; a call from C leaves them alone. *)
Encerrar(gate) ==
  /\ call[proc_atual].at = "user"
  /\ estado' = [estado EXCEPT ![proc_atual] = "MORTO"]
  /\ Goes("spin")
  /\ sti' = ~ gate
  /\ UNCHANGED <<listVars, prioridade, schedVars, heap>>
-----------------------------------------------------------------------------
(* Mutants: the search starts at the head whoever is running; a candidate  *)
(* need not be READY.                                                      *)
TentativaFromHead(p) == CHOOSE i \in DOMAIN fila : fila[i] = p
EligibleIfCredited(p) == creditos[p] > 0

Gasta(c) == IF c > 0 THEN c - 1 ELSE 0

Pos(p) == CHOOSE i \in DOMAIN fila : fila[i] = p

(* escolher_proximo() starts behind the running process and goes round the *)
(* list: at which try it meets p.                                          *)
Tentativa(p) ==
  IF Pos(p) > Pos(proc_atual)
  THEN Pos(p) - Pos(proc_atual) - 1
  ELSE Pos(p) + Len(fila) - Pos(proc_atual) - 1

Eligible(p) == estado[p] = "READY" /\ creditos[p] > 0

Candidates ==
  {p \in InFila \ {proc_atual} : Eligible(p) /\ Tentativa(p) < MaxProcessos}
Candidate ==
  CHOOSE p \in Candidates : \A q \in Candidates : Tentativa(p) <= Tentativa(q)

(* recalcular_creditos().                                                  *)
Recalculados ==
  [p \in Procs |-> IF p \in InFila /\ estado[p] \in {"READY", "RUNNING"}
                   THEN Quota(prioridade[p]) ELSE creditos[p]]

(* The second search goes from the head and finds any READY process: they  *)
(* all have credits now.                                                   *)
Ready == {p \in InFila : estado[p] = "READY"}
FirstReady == CHOOSE p \in Ready : \A q \in Ready : Pos(p) <= Pos(q)

(* Mutant of Troca: the process that loses the processor stays RUNNING.    *)
TrocaKeepsRunning(p, cr) ==
  /\ estado' = [estado EXCEPT ![p] = "RUNNING"]
  /\ creditos_atuais' = cr[p]
  /\ proc_atual' = p

(* The end of sched_tick().                                                *)
Troca(p, cr) ==
  /\ estado' = [q \in Procs |->
                  IF q = p THEN "RUNNING"
                  ELSE IF q = proc_atual /\ estado[q] = "RUNNING" THEN "READY"
                  ELSE estado[q]]
  /\ creditos_atuais' = cr[p]
  /\ proc_atual' = p

(* The running process still has credits.                                  *)
TickKeep ==
  /\ sti
  /\ Gasta(creditos_atuais) > 0
  /\ creditos_atuais' = Gasta(creditos_atuais)
  /\ UNCHANGED <<listVars, estado, prioridade, creditos, proc_atual, call,
                 sti, heap>>

(* Another process has credits.                                            *)
TickSwitch ==
  /\ sti
  /\ Gasta(creditos_atuais) = 0
  /\ Candidates # {}
  /\ Troca(Candidate, creditos)
  /\ UNCHANGED <<listVars, prioridade, creditos, call, sti, heap>>

(* None has: the credits of all are renewed, and the running process goes  *)
(* on if no other is READY.                                                *)
TickRecalc ==
  /\ sti
  /\ Gasta(creditos_atuais) = 0
  /\ Candidates = {}
  /\ creditos' = Recalculados
  /\ IF Ready # {}
     THEN Troca(FirstReady, Recalculados)
     ELSE creditos_atuais' = 0 /\ UNCHANGED <<estado, proc_atual>>
  /\ UNCHANGED <<listVars, prioridade, call, sti, heap>>

Tick == TickKeep \/ TickSwitch \/ TickRecalc

(* A system whose heap has been raced is not followed any further.         *)
Whole == heap = "whole"

Next ==
  /\ Whole
  /\ \/ \E to \in Inside : Enters(to)
     \/ HeapReturns
     \/ \E q \in Procs, g \in Garbage : PcbTaken(q, g)
     \/ PcbFails
     \/ StackReturns
     \/ PcbFreed
     \/ \E prio \in Priorities : Fill(prio)
     \/ TakePid
     \/ FindLast
     \/ Link
     \/ \E gate \in BOOLEAN : Encerrar(gate)
     \/ Tick

Spec == Init /\ [][Next]_vars

(* The timer keeps interrupting while interrupts are enabled.  Nothing is  *)
(* assumed of the processes themselves.                                    *)
FairSpec == Spec /\ WF_vars(Whole /\ Tick)
-----------------------------------------------------------------------------
(* The processor runs one process: it alone may be RUNNING, and it is      *)
(* RUNNING unless it has died and waits for a tick to take it off.         *)
OneRunning ==
  /\ estado[proc_atual] \in {"RUNNING", "MORTO"}
  /\ \A p \in Procs : estado[p] = "RUNNING" => p = proc_atual

(* Whatever the interleaving of calls to fila_adicionar() cuts off the     *)
(* list, it is never the process on the processor: the search for the next *)
(* one starts from a PCB that is in the list, and the list has no cycle.   *)
CurrentInFila ==
  /\ proc_atual \in InFila
  /\ \A i, j \in DOMAIN fila : fila[i] = fila[j] => i = j

(* proc_criar() holds a PCB that is not in the list yet.                   *)
Creating(p) ==
  call[p].at \in {"gap", "stack", "undo", "kfree", "fill", "pid", "find", "link"}

(* A PCB is new to the list: nobody else links it, it is not in the list,  *)
(* and it has not run.                                                     *)
NewInv ==
  /\ \A p \in Procs : estado[p] = "FREE" =>
       p \notin InFila /\ call[p].at = "user"
  /\ \A p \in Procs : Creating(p) =>
       LET q == call[p].new IN
       /\ estado[q] \in {"NEW", "READY"}
       /\ q \notin InFila /\ call[q].at = "user"
  /\ \A p, q \in Procs :
       Creating(p) /\ Creating(q) /\ call[p].new = call[q].new => p = q

(* The PCB a process is about to link behind does not come before its own: *)
(* so the process never cuts itself off.                                   *)
LinkInv ==
  \A p \in Procs : call[p].at = "link" =>
    \A i, j \in DOMAIN fila :
      fila[i] = p /\ fila[j] = call[p].last => i <= j

(* Until two calls of the allocator overlap, one process runs, the list    *)
(* never loses it nor closes into a cycle, and every PCB being created is  *)
(* its creator's alone: the races of fila_adicionar() itself do no more.   *)
ListInv == TypeOK /\ OneRunning /\ CurrentInFila /\ NewInv /\ LinkInv
IndInv == Whole => ListInv

(* A process that has died and lost the processor never gets it back, and  *)
(* no process comes back to life, until two calls of the allocator overlap *)
(* and a PCB may be filled in twice.                                       *)
DeadStaysDead ==
  [][Whole' =>
       \A p \in Procs : estado[p] = "MORTO" =>
         /\ estado'[p] = "MORTO"
         /\ proc_atual' = p => proc_atual = p]_vars

(* No READY process that has credits waits forever, however many others    *)
(* come and go: unless a race in fila_adicionar() cuts it off the list, a  *)
(* system call to exit ends all ticks, or the heap is raced.               *)
CreditedRuns ==
  \A p \in Procs :
    (estado[p] = "READY" /\ creditos[p] > 0 /\ p \in InFila)
      ~> (proc_atual = p \/ p \notin InFila \/ ~ sti \/ ~ Whole)

(* "loop infinito - scheduler vai remover no proximo tick" (processo.c     *)
(* line 100): a dead process gives the processor up when another is READY. *)
(* False of an exit by the system call: no tick comes.                     *)
DeadYields ==
  (estado[proc_atual] = "MORTO" /\ Ready # {} /\ Whole)
    ~> (estado[proc_atual] = "RUNNING" \/ ~ Whole)

(* "adiciona processo no final da fila" (processo.c line 22): a process    *)
(* that proc_criar() has made is in the list.  False: nothing keeps two    *)
(* callers of fila_adicionar() from linking behind the same PCB.           *)
CreatedListed ==
  Whole =>
    \A q \in Procs : estado[q] = "READY" =>
      q \in InFila \/ \E p \in Procs : Creating(p) /\ call[p].new = q
=============================================================================
