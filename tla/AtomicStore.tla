---------------------------- MODULE AtomicStore ----------------------------
(***************************************************************************)
(* What SpaceFS expects of sfs_write_sec() (fs/spacefs.c) on top of the    *)
(* write-ahead log (fs/journal.c): an array of sectors in which a write    *)
(* takes effect at one instant.  A power cut before that instant loses the *)
(* write, a power cut after it does not, and a write that returned to its  *)
(* caller has taken effect.                                                *)
(***************************************************************************)
CONSTANTS Sectors, Values

VARIABLES
  store,  \* the durable contents: what is read after any sequence of crashes
  req,    \* the write in progress: {} or one [sec, val, applied] record
  up      \* the file system is mounted

absVars == <<store, req, up>>

Init ==
  /\ store \in [Sectors -> Values]
  /\ req = {}
  /\ up = FALSE

(* The file system calls sfs_write_sec(s, v).                              *)
Request(s, v) ==
  /\ up /\ req = {}
  /\ req' = {[sec |-> s, val |-> v, applied |-> FALSE]}
  /\ UNCHANGED <<store, up>>

(* The instant from which the write can no longer be lost.                 *)
Apply ==
  /\ up
  /\ \E r \in req :
       /\ ~ r.applied
       /\ store' = [store EXCEPT ![r.sec] = r.val]
       /\ req' = {[r EXCEPT !.applied = TRUE]}
  /\ UNCHANGED up

(* sfs_write_sec() returns: only a write that took effect may return.      *)
Return ==
  /\ up
  /\ \E r \in req : r.applied
  /\ req' = {}
  /\ UNCHANGED <<store, up>>

(* Power cut: the call in progress vanishes, the contents do not change.   *)
Crash ==
  /\ up
  /\ up' = FALSE
  /\ req' = {}
  /\ UNCHANGED store

(* The next mount ends.  Recovery is invisible: it changes no contents.    *)
Restart ==
  /\ ~ up
  /\ up' = TRUE
  /\ UNCHANGED <<store, req>>

Next ==
  \/ \E s \in Sectors, v \in Values : Request(s, v)
  \/ Apply
  \/ Return
  \/ Crash
  \/ Restart

Spec == Init /\ [][Next]_absVars
=============================================================================
