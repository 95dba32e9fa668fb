--------------------------------- MODULE Pkg ---------------------------------
(***************************************************************************)
(* The package manager (pkg/): download, dependencies, installation with   *)
(* roll-back, removal, over the files of the VFS.  Each of its writes and  *)
(* removals is a step, and the power may fail between any two of them.     *)
(*                                                                         *)
(* The file system is taken as vfs.h announces it: what was written is     *)
(* read back, a call that fails on a full disk has removed or shortened    *)
(* the file it was to replace, and removing a file that exists succeeds.   *)
(* A vfs_mkdir() of a directory that exists makes it again, and may so     *)
(* hide what is in it.  No path is that of a directory or below /pkg.      *)
(* Names have at most the 8 characters of spk.h; of a path built from one  *)
(* of 8, which is left without its end, only that it may be another than   *)
(* the last time is followed, not what else the call may write.            *)
(***************************************************************************)
EXTENDS Integers, Sequences, FiniteSets, SequencesExt

CONSTANTS
  Names,    \* packages
  Paths,    \* where they install files
  Records,  \* the install_path of the files of each
  Deps,     \* the dependencies in the header of each
  Below,    \* what is below the directory of each path: none if in the root
  Eight,    \* the packages whose name has 8 characters
  Served,   \* the packages the repository has; the others came on the disk
  Bytes,    \* what files and messages consist of
  Header,   \* what the server sends before the package, up to the empty line
  Body,     \* the package that it sends
  PieceMax, \* bytes that tcp_recv() is asked for at once
  BufSize,  \* max_size of http_get()
  DbMax,    \* lines that fit in PKG_DB_MAX
  MaxFails  \* bound: writes that fail and power cuts

None == "none"
Broken == "broken"

(* A piece fits the buffer, even one that begins with the empty line.      *)
ASSUME PkgAssumption ==
  /\ Records \in [Names -> Seq(Paths)] /\ Deps \in [Names -> Seq(Names)]
  /\ {None, Broken} \cap (Names \cup Paths) = {}
  /\ Below \in [Paths -> SUBSET Paths]
  /\ Served \subseteq Names /\ Eight \subseteq Names
  /\ Header \in Seq(Bytes) /\ Body \in Seq(Bytes)
  /\ BufSize \in Nat /\ PieceMax \in 0 .. BufSize + 4
  /\ DbMax \in Nat /\ MaxFails \in Nat

VARIABLES
  incoming,  \* /pkg/incoming/name.spk: what was saved in it, or none
  files,     \* the package whose content is at each path, none, or broken
  lists,     \* /pkg/name.lst: the paths in it, or none
  db,        \* /pkg/db: the names, in the order of the lines
  job,       \* pkg_install() or pkg_remove() in progress
  fails,     \* failures so far
  hist       \* for the properties: see NoOrphans and InstalledWhole

vars == <<incoming, files, lists, db, job, fails, hist>>
-----------------------------------------------------------------------------
NoFile == <<None>>
NoList == <<None>>
NoJob == [at |-> None, order |-> <<>>, i |-> 1, todo |-> <<>>, done |-> <<>>]

Init ==
  /\ incoming = [n \in Names |-> IF n \in Served THEN NoFile ELSE Body]
  /\ files = [p \in Paths |-> None]
  /\ lists = [n \in Names |-> NoList]
  /\ db = <<>>
  /\ job = NoJob
  /\ fails = 0
  /\ hist = [dirty |-> {}, leaving |-> {}, hidden |-> {}]

Jobless == job.at = None
This == job.order[job.i]
IsInstalled(n) == \E k \in DOMAIN db : db[k] = n
Failing == fails < MaxFails /\ fails' = fails + 1

Step(at) == job' = [job EXCEPT !.at = at]

(* What is left of a sequence when those in a set are passed over.         *)
Without(seq, S) ==
  LET kept[k \in 0 .. Len(seq)] ==
        IF k = 0 THEN <<>>
        ELSE IF seq[k] \in S THEN kept[k - 1] ELSE Append(kept[k - 1], seq[k])
  IN kept[Len(seq)]
-----------------------------------------------------------------------------
(* http_get(): tcp_recv() gives the response in pieces, which end at Ends, *)
(* and nothing after the last: the server has closed, or the connection    *)
(* fell silent.  What comes before the empty line is skipped, and a piece  *)
(* in which the empty line is not seen whole is skipped whole.  A package  *)
(* begins with SPK_MAGIC, and so not with the end of a line.               *)
EmptyLine == <<"r", "n", "r", "n">>

EmptyLinesIn(piece) ==
  {i \in 1 .. Len(piece) - 3 : SubSeq(piece, i, i + 3) = EmptyLine}

ASSUME HttpAssumption ==
  /\ EmptyLinesIn(Header) = {Len(Header) - 3}
  /\ ~ IsPrefix(<<"r", "n">>, Body)

BodyInFirstFromLast(piece) ==
  SubSeq(piece, (CHOOSE i \in EmptyLinesIn(piece) : \A j \in EmptyLinesIn(piece) : i <= j) + 3,
         Len(piece))
BodyInFirst(piece) ==
  SubSeq(piece, (CHOOSE i \in EmptyLinesIn(piece) : \A j \in EmptyLinesIn(piece) : i <= j) + 4,
         Len(piece))

Receive(got, piece) ==
  LET room == BufSize - Len(got.buf)
      first == BodyInFirst(piece)
  IN IF room = 0 THEN got
     ELSE IF got.header_done
     THEN [got EXCEPT !.buf = @ \o (IF Len(piece) <= room THEN piece ELSE SubSeq(piece, 1, room))]
     ELSE IF EmptyLinesIn(piece) = {} THEN got
     ELSE [got EXCEPT !.header_done = TRUE, !.buf = IF Len(first) <= room THEN first ELSE <<>>]

Response == Header \o Body

Heard(before, e) ==
  [Receive(before, SubSeq(Response, before.from, e)) EXCEPT !.from = e + 1]

HttpGet(Ends) ==
  LET got[e \in 0 .. Len(Response)] ==
        IF e = 0 THEN [header_done |-> FALSE, buf |-> <<>>, from |-> 1]
        ELSE IF e \in Ends THEN Heard(got[e - 1], e) ELSE got[e - 1]
  IN got[Len(Response)].buf

Cuts ==
  {Ends \in SUBSET (1 .. Len(Response)) :
     \A e \in Ends : \E f \in Ends \cup {0} : e - f \in 1 .. PieceMax}

Downloads == {HttpGet(Ends) : Ends \in Cuts}

(* pkg_remote_download(): whatever came is saved.                          *)
Download(n) ==
  /\ Jobless
  /\ \E got \in Downloads \ {<<>>} : incoming' = [incoming EXCEPT ![n] = got]
  /\ UNCHANGED <<files, lists, db, job, fails, hist>>

DownloadFails(n) ==
  /\ Jobless
  /\ Failing
  /\ \E got \in Downloads \ {<<>>} :
       \E left \in {NoFile} \cup {SubSeq(got, 1, k) : k \in 0 .. Len(got) - 1} :
         incoming' = [incoming EXCEPT ![n] = left]
  /\ UNCHANGED <<files, lists, db, job, hist>>

(* pkg_solve_deps(): the direct dependencies that are not installed and    *)
(* have a file, then the package itself.                                   *)
MissingInverted(n) == Without(Deps[n], {d \in Names : ~ IsInstalled(d)})
Missing(n) == Without(Deps[n], {d \in Names : IsInstalled(d)})
InstallOrder(n) == Append(Missing(n), n)

PkgInstall(n) ==
  /\ Jobless
  /\ \A m \in ToSet(InstallOrder(n)) : incoming[m] # NoFile
  /\ job' = [NoJob EXCEPT !.at = "open", !.order = InstallOrder(n)]
  /\ UNCHANGED <<incoming, files, lists, db, fails, hist>>

(* instalar_spk(): sizes and checksum of the file are right, and no        *)
(* package of this name is installed.                                      *)
Acceptable(n) == incoming[n] = Body /\ ~ IsInstalled(n)

OpenSpk ==
  /\ job.at = "open"
  /\ IF Acceptable(This)
     THEN /\ job' = [job EXCEPT !.at = "extract", !.todo = Records[This], !.done = <<>>]
          /\ hist' = [hist EXCEPT !.hidden = @ \ {This}]
     ELSE job' = NoJob /\ UNCHANGED hist
  /\ UNCHANGED <<incoming, files, lists, db, fails>>

(* ensure_parent_dir(), for every file.  vfs_mkdir() does not look whether *)
(* the directory is there: a second entry that gets a slot before the      *)
(* first is the one found from now on, and its cluster is empty.  Which    *)
(* slots are free is not followed.  For a directory in the root,           *)
(* path_split_last() leaves the slash in the name: nothing is hidden.      *)
Hidden == Below[Head(job.todo)]

EnsureParentDir ==
  /\ job.at = "extract" /\ job.todo # <<>>
  /\ Step("write")
  /\ \/ UNCHANGED <<files, hist>>
     \/ /\ files' = [q \in Paths |-> IF q \in Hidden THEN None ELSE files[q]]
        /\ hist' = [hist EXCEPT !.hidden = @ \cup {n \in Names : \E q \in Hidden : files[q] = n}]
  /\ UNCHANGED <<incoming, lists, db, fails>>

Extract ==
  /\ job.at = "write"
  /\ files' = [files EXCEPT ![Head(job.todo)] = This]
  /\ job' = [job EXCEPT !.at = "extract", !.todo = Tail(@), !.done = Append(@, Head(job.todo))]
  /\ UNCHANGED <<incoming, lists, db, fails, hist>>

ExtractFails ==
  /\ job.at = "write"
  /\ Failing
  /\ \E left \in {None, Broken} : files' = [files EXCEPT ![Head(job.todo)] = left]
  /\ Step("rollback")
  /\ UNCHANGED <<incoming, lists, db, hist>>

(* pkg_files_save(), and the path of a list: k_strncpy() puts no end after *)
(* a name of 8 characters, the rest is what was on the stack, and so the   *)
(* call may be for another file.                                           *)
Elsewhere(n) == IF n \in Eight THEN {lists[n]} ELSE {}

SaveList ==
  /\ job.at = "extract" /\ job.todo = <<>>
  /\ \E left \in {job.done} \cup Elsewhere(This) : lists' = [lists EXCEPT ![This] = left]
  /\ Step("register")
  /\ UNCHANGED <<incoming, files, db, fails, hist>>

SaveListFails ==
  /\ job.at = "extract" /\ job.todo = <<>>
  /\ Failing
  /\ \E left \in {NoList, <<>>} \cup Elsewhere(This) : lists' = [lists EXCEPT ![This] = left]
  /\ Step("rollback")
  /\ UNCHANGED <<incoming, files, db, hist>>

DbHasRoom == Len(db) < DbMax

(* pkg_db_add(): a line at the end of the file, which is written anew.     *)
Registered ==
  IF job.i = Len(job.order) THEN NoJob
  ELSE [NoJob EXCEPT !.at = "open", !.order = job.order, !.i = job.i + 1]

DbAdd ==
  /\ job.at = "register"
  /\ IF DbHasRoom
     THEN /\ db' = Append(db, This)
          /\ job' = Registered
          /\ hist' = [hist EXCEPT !.dirty = @ \ {This}, !.leaving = @ \ {This}]
     ELSE Step("rollback") /\ UNCHANGED <<db, hist>>
  /\ UNCHANGED <<incoming, files, lists, fails>>

(* The old lines are gone before the new ones are written: packages whose  *)
(* line is lost keep their files.                                          *)
DbLosesLines ==
  /\ Failing
  /\ \E k \in 0 .. Len(db) :
       /\ db' = SubSeq(db, 1, k)
       /\ hist' = [hist EXCEPT !.dirty = @ \cup {db[j] : j \in k + 1 .. Len(db)}]

DbAddFails ==
  /\ job.at = "register" /\ DbHasRoom
  /\ DbLosesLines
  /\ Step("rollback")
  /\ UNCHANGED <<incoming, files, lists>>

(* rollback: what was extracted is removed, whatever was there before.     *)
Undone == Head(job.done)

RollbackNothing ==
  /\ job.at = "rollback"
  /\ job' = NoJob
  /\ UNCHANGED <<incoming, files, lists, db, fails, hist>>

Rollback ==
  /\ job.at = "rollback"
  /\ IF job.done = <<>>
     THEN job' = NoJob /\ UNCHANGED files
     ELSE /\ files' = [files EXCEPT ![Undone] = None]
          /\ job' = [job EXCEPT !.done = Tail(@)]
  /\ UNCHANGED <<incoming, lists, db, fails, hist>>
-----------------------------------------------------------------------------
(* pkg_remove(): the files of the list, the list, the line.                *)
ListOf(n) == IF lists[n] = NoList THEN <<>> ELSE lists[n]

Loaded(n) == {ListOf(n)} \cup (IF n \in Eight THEN {<<>>, Records[n]} ELSE {})

PkgRemove(n) ==
  /\ Jobless
  /\ IsInstalled(n)
  /\ \E found \in Loaded(n) :
       job' = [NoJob EXCEPT !.at = "unlink", !.order = <<n>>, !.todo = found]
  /\ hist' = [hist EXCEPT !.leaving = @ \cup {n}]
  /\ UNCHANGED <<incoming, files, lists, db, fails>>

Unlink ==
  /\ job.at = "unlink" /\ job.todo # <<>>
  /\ files' = [files EXCEPT ![Head(job.todo)] = None]
  /\ job' = [job EXCEPT !.todo = Tail(@)]
  /\ UNCHANGED <<incoming, lists, db, fails, hist>>

UnlinkList ==
  /\ job.at = "unlink" /\ job.todo = <<>>
  /\ \E left \in {NoList} \cup Elsewhere(This) : lists' = [lists EXCEPT ![This] = left]
  /\ Step("unregister")
  /\ UNCHANGED <<incoming, files, db, fails, hist>>

DbRemove ==
  /\ job.at = "unregister"
  /\ db' = Without(db, {This})
  /\ job' = NoJob
  /\ UNCHANGED <<incoming, files, lists, fails, hist>>

(* pkg_remove() does not look at what pkg_db_remove() returns.             *)
DbRemoveFails ==
  /\ job.at = "unregister"
  /\ DbLosesLines
  /\ job' = NoJob
  /\ UNCHANGED <<incoming, files, lists>>

PowerFails ==
  /\ ~ Jobless
  /\ Failing
  /\ job' = NoJob
  /\ hist' = [hist EXCEPT !.dirty = @ \cup {This}]
  /\ UNCHANGED <<incoming, files, lists, db>>

Work == \/ OpenSpk \/ EnsureParentDir \/ Extract \/ SaveList \/ DbAdd \/ Rollback
        \/ Unlink \/ UnlinkList \/ DbRemove

Fault == ExtractFails \/ SaveListFails \/ DbAddFails \/ DbRemoveFails \/ PowerFails

Next ==
  \/ \E n \in Served : Download(n) \/ DownloadFails(n)
  \/ \E n \in Names : PkgInstall(n) \/ PkgRemove(n)
  \/ Work \/ Fault

Spec == Init /\ [][Next]_vars

-----------------------------------------------------------------------------
TypeOK ==
  /\ \A n \in Served : incoming[n] = NoFile \/ Len(incoming[n]) <= BufSize
  /\ files \in [Paths -> Names \cup {None, Broken}]
  /\ \A n \in Names : lists[n] = NoList \/ lists[n] \in Seq(Paths)
  /\ db \in Seq(Names) /\ Len(db) <= DbMax
  /\ job.at \in {None, "open", "extract", "write", "register", "rollback", "unlink",
                 "unregister"}
  /\ fails \in 0 .. MaxFails

Holds(p, n) == files[p] = n

(* However tcp_recv() cuts the response into pieces, and wherever it ends: *)
(* what is saved is the package from its first byte on, without any of the *)
(* header and without a hole, so that instalar_spk() finds the lengths of  *)
(* the package in it.  A package with an empty line in it is beyond this:  *)
(* if that of the header is split, the code takes the other for it.        *)
SavedIsBody ==
  EmptyLinesIn(Body) = {} =>
    \A n \in Names : incoming[n] # NoFile => IsPrefix(incoming[n], Body)

(* Every file of a package that is registered is in its list, so that      *)
(* pkg_remove() finds it, after any failure and wherever the power was     *)
(* cut: the list is written before the line, and goes after the files.     *)
Found(n) == IsInstalled(n) => \A p \in Paths : Holds(p, n) => p \in ToSet(ListOf(n))

Accounted == \A n \in Names \ Eight : Found(n)

(* spk.h: the name of a package has at most 8 characters.  Those of 8 are  *)
(* not found.                                                              *)
EightAccounted == \A n \in Eight : Found(n)

(* No package has two lines, whichever list of dependencies it was in,     *)
(* and however often.                                                      *)
OneLine == \A i, j \in DOMAIN db : db[i] = db[j] => i = j

(* A package without a line has none of its files on the disk whole: the   *)
(* removal and the roll-back missed none.  (What a write that failed left  *)
(* of a file, and the list, may stay.)  The exceptions are the one at      *)
(* work, those (dirty) that a power cut interrupted, or whose line was     *)
(* lost with others, until they are installed again, and names of 8.       *)
InWork(n) == ~ Jobless /\ This = n

NoOrphans ==
  \A n \in Names \ (hist.dirty \cup Eight) :
    ~ IsInstalled(n) /\ ~ InWork(n) => \A p \in Paths : ~ Holds(p, n)

(* A package that is registered has all its files, unless another one took *)
(* the path, its removal has begun (leaving), or the directory of one was  *)
(* made again since its installation began (hidden).                       *)
Exclusive(p, n) == \A m \in Names \ {n} : p \notin ToSet(Records[m])

Complete(n) ==
  IsInstalled(n) => \A p \in ToSet(Records[n]) : Exclusive(p, n) => Holds(p, n)

InstalledWhole == \A n \in Names \ (hist.leaving \cup hist.hidden) : Complete(n)

(* ensure_parent_dir(): vfs_mkdir() fails when the directory exists, and   *)
(* so installing a package leaves the files of the others where they are.  *)
NoneHidden == \A n \in Names \ hist.leaving : Complete(n)

(* instalar_spk() removes the partial files when it rolls back: nothing of *)
(* a file that could not be written is left when it gives up.              *)
RollbackClears ==
  [][job.at = "rollback" /\ job'.at = None /\ fails' = fails
       => \A p \in ToSet(Records[This]) : files'[p] # Broken]_vars

(* When pkg_install() has registered the package it was called for, all    *)
(* the dependencies of its header are registered.  The header of a         *)
(* dependency is not looked at: what that one needs may be missing.        *)
DepsFirst ==
  [][job.at = "register" /\ job'.at = None /\ fails' = fails
       => \A d \in ToSet(Deps[This]) : IsInstalled(d)']_vars

(* The database says what is on the disk: what is registered is there,     *)
(* once, and can be removed, and of what is not no file is there whole.    *)
FilesMatchDb == TypeOK /\ OneLine /\ Accounted /\ NoOrphans /\ InstalledWhole
=============================================================================
