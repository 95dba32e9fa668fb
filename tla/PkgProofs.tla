------------------------------ MODULE PkgProofs ------------------------------
(***************************************************************************)
(* Theorems about the package manager, for packages, headers, paths and a  *)
(* database of any kind and size, and any number of failures.              *)
(***************************************************************************)
EXTENDS Pkg, WellFoundedInduction, TLAPS

(* A non-empty set of natural numbers has a least element.                 *)
LEMMA NatMinimum ==
  ASSUME NEW S, S \subseteq Nat, S # {}
  PROVE  \E m \in S : \A n \in S : m <= n
<1>1. IsWellFoundedOn(OpToRel(<, Nat), Nat)
  BY NatLessThanWellFounded
<1>2. PICK m \in S : \A n \in S : ~ (<<n, m>> \in OpToRel(<, Nat))
  BY <1>1, WFMin
<1>3. \A n \in S : ~ (n < m)
  BY <1>2 DEF OpToRel
<1> QED
  BY <1>3

(* Counting up to n: what holds of 0, and of k if it holds of k - 1.       *)
LEMMA Reaches ==
  ASSUME NEW n \in Nat, NEW Good, 0 \in Good,
         \A k \in 1 .. n : k - 1 \in Good => k \in Good
  PROVE  \A k \in 0 .. n : k \in Good
<1> DEFINE Bad == {k \in 0 .. n : k \notin Good}
<1>1. SUFFICES ASSUME Bad # {} PROVE FALSE
  OBVIOUS
<1>2. Bad \subseteq Nat
  OBVIOUS
<1>3. PICK m \in Bad : \A i \in Bad : m <= i
  <2> HIDE DEF Bad
  <2> QED
    BY <1>1, <1>2, NatMinimum
<1>4. m \in 1 .. n /\ m - 1 \in 0 .. n /\ ~ (m <= m - 1)
  BY <1>3
<1>5. m - 1 \in Good
  BY <1>3, <1>4
<1> QED
  BY <1>3, <1>4, <1>5

(* A recursive definition over the numbers up to n, whose step takes a     *)
(* value to the next, has a function that satisfies it.                    *)
Recurs(g, n, v0, step) ==
  g[0] = v0 /\ \A k \in 1 .. n : g[k] = step[k][g[k - 1]]

LEMMA Recursion ==
  ASSUME NEW n \in Nat, NEW V, NEW v0 \in V, NEW step \in [1 .. n -> [V -> V]]
  PROVE  \E g \in [0 .. n -> V] : Recurs(g, n, v0, step)
<1> DEFINE Upto(m) == \E g \in [0 .. m -> V] : Recurs(g, m, v0, step)
           Good == {m \in 0 .. n : Upto(m)}
<1>1. 0 \in Good
  <2> DEFINE g == [k \in 0 .. 0 |-> v0]
  <2>1. g \in [0 .. 0 -> V] /\ Recurs(g, 0, v0, step)
    BY DEF Recurs
  <2> QED
    BY <2>1
<1>2. ASSUME NEW m \in 1 .. n, m - 1 \in Good PROVE m \in Good
  <2>1. PICK h \in [0 .. m - 1 -> V] : h[0] = v0 /\ \A k \in 1 .. m - 1 : h[k] = step[k][h[k - 1]]
    BY <1>2 DEF Recurs
  <2> DEFINE g == [k \in 0 .. m |-> IF k = m THEN step[m][h[m - 1]] ELSE h[k]]
  <2>2. h[m - 1] \in V /\ step[m][h[m - 1]] \in V
    <3>1. m - 1 \in 0 .. m - 1
      OBVIOUS
    <3> QED
      BY <3>1
  <2>3. \A k \in 0 .. m : k # m => k \in 0 .. m - 1
    OBVIOUS
  <2>4. g \in [0 .. m -> V]
    BY <2>2, <2>3
  <2>5. g[0] = v0
    BY <2>1
  <2>6. ASSUME NEW k \in 1 .. m PROVE g[k] = step[k][g[k - 1]]
    <3>1. k \in 0 .. m /\ k - 1 \in 0 .. m /\ k - 1 # m /\ g[k - 1] = h[k - 1]
      OBVIOUS
    <3>2. CASE k = m
      BY <3>1, <3>2
    <3>3. CASE k # m
      <4>1. k \in 1 .. m - 1
        BY <3>3
      <4> QED
        BY <3>1, <3>3, <4>1, <2>1
    <3> QED
      BY <3>2, <3>3
  <2> HIDE DEF g
  <2>7. Upto(m)
    BY <2>4, <2>5, <2>6 DEF Recurs
  <2> QED
    BY <2>7
<1>3. \A m \in 0 .. n : m \in Good
  <2> HIDE DEF Good
  <2> QED
    BY <1>1, <1>2, Reaches
<1> QED
  BY <1>3
-----------------------------------------------------------------------------
(* Between calls nothing is at work; pkg_install() works on its list from  *)
(* the front, pkg_remove() on one package.                                 *)
JobType ==
  [at : {None, "open", "extract", "write", "register", "rollback", "unlink", "unregister"},
   order : Seq(Names), i : Nat, todo : Seq(Paths), done : Seq(Paths)]

HistType == [dirty : SUBSET Names, leaving : SUBSET Names, hidden : SUBSET Names]

VarsOK ==
  /\ incoming \in [Names -> Seq(Bytes) \cup {NoFile}]
  /\ files \in [Paths -> Names \cup {None, Broken}]
  /\ lists \in [Names -> Seq(Paths) \cup {NoList}]
  /\ db \in Seq(Names)
  /\ job \in JobType
  /\ fails \in 0 .. MaxFails
  /\ hist \in HistType

JobOK ==
  /\ Jobless => job = NoJob
  /\ ~ Jobless => job.i \in 1 .. Len(job.order)

FitsDb == Len(db) <= DbMax

(* Files of a package are only where its header puts them.                 *)
HeldRecorded ==
  \A p \in Paths : files[p] \in Names => p \in ToSet(Records[files[p]])

HoldsOnly(n, S) == \A p \in Paths : Holds(p, n) => p \in S
HoldsAll(n, S) == \A p \in S : Holds(p, n)

(* The list of a package that is registered names all the files of its     *)
(* header, until it is removed, and then there is no file any more.        *)
Listed ==
  \A n \in Names \ Eight : IsInstalled(n) =>
    \/ lists[n] # NoList /\ ToSet(lists[n]) = ToSet(Records[n])
    \/ lists[n] = NoList /\ HoldsOnly(n, {})

(* No list, and be it an old one, names another file.                      *)
ListsRecorded ==
  \A n \in Names : lists[n] # NoList => ToSet(lists[n]) \subseteq ToSet(Records[n])

(* Where instalar_spk() is: what it has written, unless a directory was    *)
(* made again meanwhile, and that there is nothing else, unless an earlier *)
(* attempt was interrupted or the name has 8 characters.                   *)
Opening == job.at = "open" =>
  IsInstalled(This) \/ This \in hist.dirty \cup Eight \/ HoldsOnly(This, {})

Extracting == job.at \in {"extract", "write"} =>
  /\ ~ IsInstalled(This)
  /\ job.at = "write" => job.todo # <<>>
  /\ ToSet(job.done) \cup ToSet(job.todo) = ToSet(Records[This])
  /\ This \in hist.hidden \/ HoldsAll(This, ToSet(job.done))
  /\ This \in hist.dirty \cup Eight \/ HoldsOnly(This, ToSet(job.done))

Registering == job.at = "register" =>
  /\ ~ IsInstalled(This)
  /\ ToSet(job.done) = ToSet(Records[This])
  /\ This \in hist.hidden \/ HoldsAll(This, ToSet(job.done))
  /\ This \in Eight \/ lists[This] = job.done

RollingBack == job.at = "rollback" =>
  /\ ~ IsInstalled(This)
  /\ ToSet(job.done) \subseteq ToSet(Records[This])
  /\ This \in hist.dirty \cup Eight \/ HoldsOnly(This, ToSet(job.done))

(* Where pkg_remove() is: the files that are left are those to do.         *)
Unlinking == job.at = "unlink" =>
  /\ IsInstalled(This) /\ This \in hist.leaving
  /\ ToSet(job.todo) \subseteq ToSet(Records[This])
  /\ This \in Eight \/ HoldsOnly(This, ToSet(job.todo))

Unregistering == job.at = "unregister" =>
  /\ IsInstalled(This) /\ This \in hist.leaving
  /\ This \in Eight \/ HoldsOnly(This, {})

JobSound == Opening /\ Extracting /\ Registering /\ RollingBack /\ Unlinking /\ Unregistering

(* Each dependency of the last package of the list is registered, or still *)
(* to come.                                                                *)
Asked == job.order[Len(job.order)]
DepsComing == job.at \in {"open", "extract", "write", "register"} =>
  \A d \in ToSet(Deps[Asked]) :
    IsInstalled(d) \/ \E j \in job.i .. Len(job.order) : job.order[j] = d

FilesInv ==
  /\ VarsOK /\ JobOK /\ FitsDb /\ HeldRecorded /\ Listed /\ ListsRecorded /\ OneLine
  /\ NoOrphans /\ InstalledWhole /\ JobSound /\ DepsComing

IncomingFits ==
  \A n \in Served : incoming[n] = NoFile \/ Len(incoming[n]) <= BufSize

IndInv == FilesInv /\ IncomingFits /\ SavedIsBody
-----------------------------------------------------------------------------
Distinct(s) == \A i, j \in DOMAIN s : s[i] = s[j] => i = j

(* What pkg_db_remove() and pkg_solve_deps() keep: the others, in order.   *)
Passes(g, s, S) ==
  /\ g[0] = <<>>
  /\ \A k \in 1 .. Len(s) :
       g[k] = IF s[k] \in S THEN g[k - 1] ELSE Append(g[k - 1], s[k])

LEMMA WithoutFollows ==
  ASSUME NEW A, NEW s \in Seq(A), NEW S
  PROVE  \E g \in [0 .. Len(s) -> Seq(A)] : Passes(g, s, S) /\ Without(s, S) = g[Len(s)]
<1> DEFINE n == Len(s)
           D(kept) == [k \in 0 .. Len(s) |->
                         IF k = 0 THEN <<>>
                         ELSE IF s[k] \in S THEN kept[k - 1] ELSE Append(kept[k - 1], s[k])]
           f == CHOOSE kept : kept = D(kept)
           step == [k \in 1 .. n |->
                      [v \in Seq(A) |-> IF s[k] \in S THEN v ELSE Append(v, s[k])]]
<1>1. n \in Nat /\ \A k \in 1 .. n : s[k] \in A
  OBVIOUS
<1>2. step \in [1 .. n -> [Seq(A) -> Seq(A)]]
  BY <1>1
<1>3. <<>> \in Seq(A)
  OBVIOUS
<1>4. PICK g \in [0 .. n -> Seq(A)] : g[0] = <<>> /\ \A k \in 1 .. n : g[k] = step[k][g[k - 1]]
  <2> DEFINE V == Seq(A)
             v0 == <<>>
  <2>1. n \in Nat /\ v0 \in V /\ step \in [1 .. n -> [V -> V]]
    BY <1>1, <1>2, <1>3
  <2> HIDE DEF n, step, V, v0
  <2>2. \E g \in [0 .. n -> V] : Recurs(g, n, v0, step)
    BY <2>1, Recursion
  <2> QED
    BY <2>2 DEF V, v0, Recurs
<1>5. ASSUME NEW k \in 1 .. n
      PROVE  g[k] = IF s[k] \in S THEN g[k - 1] ELSE Append(g[k - 1], s[k])
  <2>1. k - 1 \in 0 .. n
    BY <1>1
  <2> QED
    BY <2>1, <1>4
<1>6. g = D(g)
  <2>1. \A k \in 0 .. n : k # 0 => k \in 1 .. n
    BY <1>1
  <2>2. DOMAIN g = 0 .. n
    BY <1>4
  <2> HIDE DEF step
  <2> QED
    BY <1>4, <1>5, <2>1, <2>2
<1>7. f = D(f)
  <2> HIDE DEF D
  <2> QED
    BY <1>6
<1>8. \A k \in 0 .. n : f[k] \in Seq(A) /\ f[k] = g[k]
  <2> DEFINE Good == {k \in 0 .. n : f[k] = g[k]}
  <2>1. ASSUME NEW k \in 0 .. n
        PROVE  f[k] = IF k = 0 THEN <<>>
                      ELSE IF s[k] \in S THEN f[k - 1] ELSE Append(f[k - 1], s[k])
    <3> HIDE DEF f
    <3> QED
      BY <1>7
  <2> HIDE DEF f, step
  <2>2. 0 \in Good
    BY <2>1, <1>1, <1>4
  <2>3. ASSUME NEW k \in 1 .. n, k - 1 \in Good PROVE k \in Good
    <3>1. k \in 0 .. n /\ k # 0 /\ f[k - 1] = g[k - 1]
      BY <1>1, <2>3
    <3>2. f[k] = IF s[k] \in S THEN f[k - 1] ELSE Append(f[k - 1], s[k])
      BY <2>1, <3>1
    <3>3. g[k] = IF s[k] \in S THEN g[k - 1] ELSE Append(g[k - 1], s[k])
      BY <1>5
    <3>4. f[k] = g[k]
      BY <3>1, <3>2, <3>3
    <3> QED
      BY <3>1, <3>4
  <2>4. \A k \in 0 .. n : k \in Good
    <3> HIDE DEF Good
    <3> QED
      BY <1>1, <2>2, <2>3, Reaches
  <2> QED
    BY <2>4, <1>4
<1>9. Without(s, S) = f[n]
  BY DEF Without
<1> HIDE DEF f, step
<1>10. n \in 0 .. n
  BY <1>1
<1>11. Without(s, S) = g[n]
  BY <1>8, <1>9, <1>10
<1> QED
  BY <1>4, <1>5, <1>11 DEF Passes

LEMMA WithoutIs ==
  ASSUME NEW A, NEW s \in Seq(A), NEW S
  PROVE  /\ Without(s, S) \in Seq(A)
         /\ ToSet(Without(s, S)) = ToSet(s) \ S
         /\ Len(Without(s, S)) <= Len(s)
         /\ Distinct(s) => Distinct(Without(s, S))
<1>a. PICK g \in [0 .. Len(s) -> Seq(A)] : Passes(g, s, S) /\ Without(s, S) = g[Len(s)]
  BY WithoutFollows
<1>1. /\ g \in [0 .. Len(s) -> Seq(A)]
      /\ Without(s, S) = g[Len(s)]
      /\ g[0] = <<>>
      /\ \A k \in 1 .. Len(s) :
           g[k] = IF s[k] \in S THEN g[k - 1] ELSE Append(g[k - 1], s[k])
  BY <1>a DEF Passes
<1> DEFINE n == Len(s)
           Seen(k) == {s[i] : i \in 1 .. k}
           P(k) == /\ ToSet(g[k]) = Seen(k) \ S
                   /\ Len(g[k]) <= k
                   /\ Distinct(s) => Distinct(g[k])
           Good == {k \in 0 .. n : P(k)}
<1>2. n \in Nat /\ DOMAIN s = 1 .. n
  OBVIOUS
<1>3. 0 \in Good
  BY <1>1, <1>2 DEF ToSet, Distinct
<1>4. ASSUME NEW k \in 1 .. n, k - 1 \in Good PROVE k \in Good
  <2>1. k \in 0 .. n /\ k - 1 \in 0 .. n /\ g[k - 1] \in Seq(A)
    <3>1. k \in 0 .. n /\ k - 1 \in 0 .. n
      BY <1>2
    <3>2. g \in [0 .. n -> Seq(A)]
      BY <1>1
    <3> HIDE DEF n
    <3> QED
      BY <3>1, <3>2
  <2>2. P(k - 1)
    BY <1>4
  <2>3. Seen(k) = Seen(k - 1) \cup {s[k]}
    <3>1. 1 .. k = (1 .. k - 1) \cup {k}
      BY <1>2
    <3> QED
      BY <3>1
  <2>4. CASE s[k] \in S
    <3>1. g[k] = g[k - 1]
      BY <1>1, <2>4
    <3>2. Seen(k) \ S = Seen(k - 1) \ S
      BY <2>3, <2>4
    <3>3. Len(g[k]) <= k
      BY <2>1, <2>2, <3>1
    <3> QED
      BY <2>1, <2>2, <3>1, <3>2, <3>3
  <2>5. CASE s[k] \notin S
    <3> DEFINE t == g[k - 1]
    <3>1. g[k] = Append(t, s[k])
      BY <1>1, <2>5
    <3>2. /\ t \in Seq(A) /\ Len(t) \in Nat /\ DOMAIN t = 1 .. Len(t)
          /\ DOMAIN g[k] = 1 .. Len(t) + 1 /\ Len(g[k]) = Len(t) + 1
          /\ g[k][Len(t) + 1] = s[k]
          /\ \A i \in 1 .. Len(t) : g[k][i] = t[i]
      BY <2>1, <3>1
    <3> HIDE DEF t
    <3>3. ToSet(g[k]) = ToSet(t) \cup {s[k]}
      <4> DEFINE D == 1 .. Len(t)
                 u == g[k]
      <4>1. /\ DOMAIN u = D \cup {Len(t) + 1} /\ DOMAIN t = D
            /\ u[Len(t) + 1] = s[k] /\ \A i \in D : u[i] = t[i]
        BY <3>2
      <4> HIDE DEF D, u
      <4>2. ToSet(u) \subseteq ToSet(t) \cup {s[k]}
        BY <4>1 DEF ToSet
      <4>3. s[k] \in ToSet(u)
        BY <4>1 DEF ToSet
      <4>4. ASSUME NEW x \in ToSet(t) PROVE x \in ToSet(u)
        <5>1. PICK i \in D : t[i] = x
          BY <4>1 DEF ToSet
        <5> QED
          BY <4>1, <5>1 DEF ToSet
      <4> QED
        BY <4>2, <4>3, <4>4 DEF u
    <3>4. ToSet(g[k]) = Seen(k) \ S
      BY <2>2, <2>3, <2>5, <3>3 DEF t
    <3>5. Len(g[k]) <= k
      BY <2>2, <3>2 DEF t
    <3>6. ASSUME Distinct(s) PROVE Distinct(g[k])
      <4>1. s[k] \notin Seen(k - 1)
        <5>1. \A i \in 1 .. k - 1 : i \in 1 .. n /\ i # k
          BY <1>2
        <5> QED
          BY <5>1, <3>6, <1>2 DEF Distinct
      <4>2. \A i \in 1 .. Len(t) : t[i] \in ToSet(t)
        BY <3>2 DEF ToSet
      <4>3. ToSet(t) = Seen(k - 1) \ S /\ Distinct(t)
        BY <2>2, <3>6 DEF t
      <4>4. \A i \in 1 .. Len(t) : g[k][i] # s[k]
        BY <3>2, <4>1, <4>2, <4>3
      <4>5. \A i \in 1 .. Len(t) + 1 : i \in 1 .. Len(t) \/ i = Len(t) + 1
        BY <3>2
      <4> HIDE DEF Seen
      <4> QED
        BY <3>2, <4>3, <4>4, <4>5 DEF Distinct
    <3> QED
      BY <2>1, <3>4, <3>5, <3>6
  <2> QED
    BY <2>4, <2>5
<1>5. \A k \in 0 .. n : k \in Good
  <2> HIDE DEF Good, n
  <2> QED
    BY <1>2, <1>3, <1>4, Reaches
<1>6. n \in 0 .. n /\ P(n)
  <2>1. n \in 0 .. n
    BY <1>2
  <2> QED
    BY <2>1, <1>5
<1>7. ToSet(s) = Seen(n)
  BY <1>2 DEF ToSet
<1> QED
  BY <1>1, <1>6, <1>7

(* One more at the end, the first one gone, the end lost.                  *)
LEMMA AppendIs ==
  ASSUME NEW A, NEW s \in Seq(A), NEW e \in A
  PROVE  /\ Append(s, e) \in Seq(A)
         /\ ToSet(Append(s, e)) = ToSet(s) \cup {e}
         /\ Len(Append(s, e)) = Len(s) + 1
         /\ Distinct(s) /\ e \notin ToSet(s) => Distinct(Append(s, e))
<1> DEFINE u == Append(s, e)
           D == 1 .. Len(s)
           last == Len(s) + 1
<1>1. /\ u \in Seq(A) /\ Len(u) = last
      /\ DOMAIN u = D \cup {last} /\ DOMAIN s = D /\ last \notin D
      /\ u[last] = e /\ \A i \in D : u[i] = s[i]
  OBVIOUS
<1> HIDE DEF u, D, last
<1>2. ToSet(u) \subseteq ToSet(s) \cup {e}
  BY <1>1 DEF ToSet
<1>3. e \in ToSet(u)
  BY <1>1 DEF ToSet
<1>4. ASSUME NEW x \in ToSet(s) PROVE x \in ToSet(u)
  <2>1. PICK i \in D : s[i] = x
    BY <1>1 DEF ToSet
  <2> QED
    BY <1>1, <2>1 DEF ToSet
<1>5. ASSUME Distinct(s), e \notin ToSet(s) PROVE Distinct(u)
  <2>1. \A i \in D : s[i] \in ToSet(s)
    BY <1>1 DEF ToSet
  <2> QED
    BY <1>1, <1>5, <2>1 DEF Distinct
<1> QED
  BY <1>1, <1>2, <1>3, <1>4, <1>5 DEF u, last

LEMMA TailIs ==
  ASSUME NEW A, NEW s \in Seq(A), s # <<>>
  PROVE  /\ Head(s) \in A /\ Tail(s) \in Seq(A)
         /\ ToSet(s) = {Head(s)} \cup ToSet(Tail(s))
<1> DEFINE u == Tail(s)
<1>1. /\ Len(s) \in Nat \ {0} /\ DOMAIN s = 1 .. Len(s)
      /\ Head(s) = s[1] /\ s[1] \in A /\ u \in Seq(A) /\ DOMAIN u = 1 .. Len(s) - 1
      /\ \A i \in 1 .. Len(s) - 1 : u[i] = s[i + 1]
  OBVIOUS
<1> HIDE DEF u
<1>2. s[1] \in ToSet(s)
  BY <1>1 DEF ToSet
<1>3. ASSUME NEW x \in ToSet(u) PROVE x \in ToSet(s)
  <2>1. PICK i \in 1 .. Len(s) - 1 : u[i] = x
    BY <1>1 DEF ToSet
  <2>2. i + 1 \in 1 .. Len(s)
    BY <1>1
  <2> QED
    BY <1>1, <2>1, <2>2 DEF ToSet
<1>4. ASSUME NEW x \in ToSet(s) PROVE x = s[1] \/ x \in ToSet(u)
  <2>1. PICK i \in 1 .. Len(s) : s[i] = x
    BY <1>1 DEF ToSet
  <2>2. CASE i = 1
    BY <2>1, <2>2
  <2>3. CASE i # 1
    <3>1. i - 1 \in 1 .. Len(s) - 1 /\ (i - 1) + 1 = i
      BY <1>1, <2>3
    <3>2. u[i - 1] = x
      BY <1>1, <2>1, <3>1
    <3> QED
      BY <1>1, <3>1, <3>2 DEF ToSet
  <2> QED
    BY <2>2, <2>3
<1> QED
  BY <1>1, <1>2, <1>3, <1>4 DEF u

LEMMA CutIs ==
  ASSUME NEW A, NEW s \in Seq(A), NEW k \in 0 .. Len(s)
  PROVE  LET u == SubSeq(s, 1, k)
         IN /\ u \in Seq(A) /\ Len(u) = k
            /\ ToSet(u) \subseteq ToSet(s)
            /\ \A x \in ToSet(s) : x \in ToSet(u) \/ \E j \in k + 1 .. Len(s) : s[j] = x
            /\ Distinct(s) => Distinct(u)
<1> DEFINE u == SubSeq(s, 1, k)
<1>1. /\ u \in Seq(A) /\ Len(u) = k
      /\ DOMAIN s = 1 .. Len(s) /\ DOMAIN u = 1 .. k
      /\ \A i \in 1 .. k : u[i] = s[i] /\ i \in 1 .. Len(s)
      /\ \A i \in 1 .. Len(s) : i \in 1 .. k \/ i \in k + 1 .. Len(s)
  OBVIOUS
<1> HIDE DEF u
<1>2. ToSet(u) \subseteq ToSet(s)
  <2> SUFFICES ASSUME NEW x \in ToSet(u) PROVE x \in ToSet(s)
    OBVIOUS
  <2>1. PICK i \in 1 .. k : u[i] = x
    BY <1>1 DEF ToSet
  <2> QED
    BY <1>1, <2>1 DEF ToSet
<1>3. ASSUME NEW x \in ToSet(s) PROVE x \in ToSet(u) \/ \E j \in k + 1 .. Len(s) : s[j] = x
  <2>1. PICK i \in 1 .. Len(s) : s[i] = x
    BY <1>1 DEF ToSet
  <2>2. CASE i \in 1 .. k
    BY <1>1, <2>1, <2>2 DEF ToSet
  <2>3. CASE i \in k + 1 .. Len(s)
    BY <2>1, <2>3
  <2> QED
    BY <1>1, <2>2, <2>3
<1>4. Distinct(s) => Distinct(u)
  BY <1>1 DEF Distinct
<1> QED
  BY <1>1, <1>2, <1>3, <1>4 DEF u
-----------------------------------------------------------------------------
(* pkg_is_installed(), and the package that is at work.                    *)
Lines == ToSet(db)

LEMMA InstalledIs ==
  ASSUME VarsOK
  PROVE  \A n \in Names : IsInstalled(n) <=> n \in Lines
BY DEF Lines, ToSet, IsInstalled

LEMMA ThisIs ==
  ASSUME VarsOK, JobOK, ~ Jobless
  PROVE  /\ This \in Names
         /\ Records[This] \in Seq(Paths) /\ Deps[This] \in Seq(Names)
         /\ ToSet(Records[This]) \subseteq Paths
         /\ job.todo \in Seq(Paths) /\ job.done \in Seq(Paths)
         /\ ToSet(job.todo) \subseteq Paths /\ ToSet(job.done) \subseteq Paths
         /\ job.i \in 1 .. Len(job.order) /\ job.order \in Seq(Names)
<1>1. job.order \in Seq(Names) /\ job.i \in 1 .. Len(job.order)
      /\ job.todo \in Seq(Paths) /\ job.done \in Seq(Paths)
  BY DEF VarsOK, JobOK, JobType
<1>2. This \in Names
  BY <1>1 DEF This
<1>3. \A s \in Seq(Paths) : ToSet(s) \subseteq Paths
  BY DEF ToSet
<1> QED
  BY <1>1, <1>2, <1>3, PkgAssumption

(* A step that leaves files, lists, database and place alone.              *)
LEMMA DownloadKeeps ==
  ASSUME FilesInv, UNCHANGED <<files, lists, db, job, hist>>,
         incoming' \in [Names -> Seq(Bytes) \cup {NoFile}], fails' \in 0 .. MaxFails
  PROVE  FilesInv'
<1>1. VarsOK' /\ JobOK' /\ FitsDb'
  BY DEF FilesInv, VarsOK, JobOK, FitsDb, Jobless
<1>2. HeldRecorded' /\ Listed' /\ ListsRecorded' /\ OneLine' /\ NoOrphans' /\ InstalledWhole'
  BY DEF FilesInv, HeldRecorded, Listed, ListsRecorded, OneLine, NoOrphans, InstalledWhole,
         Complete, IsInstalled, HoldsOnly,
         Holds, InWork, Jobless, This, Exclusive
<1>3. JobSound' /\ DepsComing'
  BY DEF FilesInv, JobSound, Opening, Extracting, Registering, RollingBack, Unlinking, Unregistering,
         DepsComing, Asked, IsInstalled, HoldsOnly, HoldsAll, Holds, This
<1> QED
  BY <1>1, <1>2, <1>3 DEF FilesInv

(* pkg_solve_deps().                                                       *)
LEMMA InstallOrderIs ==
  ASSUME VarsOK, NEW n \in Names
  PROVE  LET order == InstallOrder(n)
         IN /\ order \in Seq(Names) /\ Len(order) \in Nat \ {0}
            /\ order[Len(order)] = n
            /\ \A d \in ToSet(Deps[n]) :
                 IsInstalled(d) \/ \E j \in 1 .. Len(order) : order[j] = d
<1> DEFINE m == Missing(n)
           order == InstallOrder(n)
           I == {d \in Names : IsInstalled(d)}
<1>1. Deps[n] \in Seq(Names)
  BY PkgAssumption
<1>2. m \in Seq(Names) /\ ToSet(m) = ToSet(Deps[n]) \ I
  <2> HIDE DEF I
  <2>1. Without(Deps[n], I) \in Seq(Names) /\ ToSet(Without(Deps[n], I)) = ToSet(Deps[n]) \ I
    BY <1>1, WithoutIs
  <2> QED
    BY <2>1 DEF I, Missing
<1>3. order = Append(m, n)
  BY DEF InstallOrder
<1> HIDE DEF m, order
<1>4. order \in Seq(Names) /\ ToSet(order) = ToSet(m) \cup {n} /\ Len(order) = Len(m) + 1
  BY <1>2, <1>3, AppendIs
<1>5. Len(m) \in Nat /\ order[Len(order)] = n
  BY <1>2, <1>3, <1>4
<1>6. ASSUME NEW d \in ToSet(Deps[n]) PROVE IsInstalled(d) \/ \E j \in 1 .. Len(order) : order[j] = d
  <2>1. d \in Names
    BY <1>1 DEF ToSet
  <2>2. CASE d \in I
    BY <2>2
  <2>3. CASE d \notin I
    <3>1. d \in ToSet(order)
      BY <1>2, <1>4, <2>3
    <3> QED
      BY <1>4, <3>1 DEF ToSet
  <2> QED
    BY <2>2, <2>3
<1> QED
  BY <1>4, <1>5, <1>6 DEF order

LEMMA PkgInstallKeeps ==
  ASSUME FilesInv, NEW n \in Names, PkgInstall(n)
  PROVE  FilesInv'
<1> DEFINE order == InstallOrder(n)
<1>1. /\ VarsOK /\ JobOK /\ FitsDb /\ HeldRecorded /\ Listed /\ ListsRecorded /\ OneLine
      /\ NoOrphans /\ InstalledWhole /\ JobSound /\ DepsComing
  BY DEF FilesInv
<1>2. /\ Jobless /\ job' = [NoJob EXCEPT !.at = "open", !.order = order]
      /\ UNCHANGED <<incoming, files, lists, db, fails, hist>>
  BY DEF PkgInstall
<1>3. /\ order \in Seq(Names) /\ Len(order) \in Nat \ {0} /\ order[Len(order)] = n
      /\ \A d \in ToSet(Deps[n]) : IsInstalled(d) \/ \E j \in 1 .. Len(order) : order[j] = d
  BY <1>1, InstallOrderIs
<1> HIDE DEF order
<1>4. job' = [at |-> "open", order |-> order, i |-> 1, todo |-> <<>>, done |-> <<>>]
  BY <1>2 DEF NoJob
<1>5. job'.at = "open" /\ job'.order = order /\ job'.i = 1 /\ job'.todo = <<>> /\ job'.done = <<>>
  BY <1>4
<1>6. job' \in JobType
  BY <1>3, <1>4 DEF JobType
<1>7. This' = order[1] /\ This' \in Names
  BY <1>3, <1>5 DEF This
<1>8. VarsOK' /\ FitsDb'
  BY <1>1, <1>2, <1>6 DEF VarsOK, FitsDb
<1>9. JobOK' /\ ~ Jobless'
  BY <1>3, <1>5 DEF JobOK, Jobless, None
<1>10. HeldRecorded' /\ Listed' /\ ListsRecorded' /\ OneLine' /\ InstalledWhole'
  BY <1>1, <1>2 DEF HeldRecorded, Listed, ListsRecorded, OneLine, InstalledWhole, Complete,
                    IsInstalled, HoldsOnly, Holds, Exclusive
<1>11. \A m \in Names \ (hist.dirty \cup Eight) : ~ IsInstalled(m) => \A p \in Paths : ~ Holds(p, m)
  BY <1>1, <1>2 DEF NoOrphans, InWork
<1>12. NoOrphans'
  BY <1>2, <1>11 DEF NoOrphans, IsInstalled, Holds
<1>13. JobSound'
  <2>1. Opening'
    BY <1>2, <1>7, <1>11 DEF Opening, IsInstalled, HoldsOnly, Holds
  <2> QED
    BY <1>5, <2>1 DEF JobSound, Extracting, Registering, RollingBack, Unlinking, Unregistering
<1>14. DepsComing'
  <2>1. Asked' = n
    BY <1>3, <1>5 DEF Asked
  <2> QED
    BY <1>2, <1>3, <1>5, <2>1 DEF DepsComing, IsInstalled
<1> QED
  BY <1>8, <1>9, <1>10, <1>12, <1>13, <1>14 DEF FilesInv

LEMMA SamePlace ==
  ASSUME job'.order = job.order, job'.i = job.i
  PROVE  This' = This /\ Asked' = Asked
BY DEF This, Asked

(* A file of the package at work is written or removed: no other package   *)
(* gets a file by it, or loses one that is its alone.                      *)
LEMMA OthersKeep ==
  ASSUME FilesInv, ~ Jobless,
         NEW p0 \in ToSet(Records[This]), NEW c \in {This, None, Broken},
         IsInstalled(This) => This \in hist.leaving /\ c # This,
         files' = [files EXCEPT ![p0] = c], UNCHANGED <<lists, db, hist>>
  PROVE  /\ files' \in [Paths -> Names \cup {None, Broken}]
         /\ HeldRecorded' /\ Listed' /\ ListsRecorded' /\ OneLine' /\ InstalledWhole'
         /\ \A m \in Names \ {This} : \A p \in Paths : Holds(p, m)' => Holds(p, m)
<1>1. This \in Names /\ p0 \in Paths
  BY ThisIs DEF FilesInv
<1>2. files \in [Paths -> Names \cup {None, Broken}] /\ None \notin Names /\ Broken \notin Names
  BY PkgAssumption DEF FilesInv, VarsOK
<1>3. \A p \in Paths : files'[p] = IF p = p0 THEN c ELSE files[p]
  BY <1>1, <1>2
<1>4. files' \in [Paths -> Names \cup {None, Broken}]
  BY <1>1, <1>2
<1>5. \A m \in Names \ {This} : \A p \in Paths : files'[p] = m => files[p] = m
  BY <1>2, <1>3
<1>6. HeldRecorded'
  BY <1>2, <1>3 DEF FilesInv, HeldRecorded
<1>7. OneLine' /\ ListsRecorded'
  BY DEF FilesInv, OneLine, ListsRecorded
<1>8. Listed'
  <2> SUFFICES ASSUME NEW m \in Names \ Eight, IsInstalled(m)
               PROVE  \/ lists[m] # NoList /\ ToSet(lists[m]) = ToSet(Records[m])
                      \/ lists[m] = NoList /\ \A p \in Paths : files'[p] # m
    BY DEF Listed, IsInstalled, HoldsOnly, Holds
  <2>1. \A p \in Paths : files'[p] = m => files[p] = m
    <3>1. CASE m = This
      BY <1>2, <1>3, <3>1
    <3>2. CASE m # This
      BY <1>5, <3>2
    <3> QED
      BY <3>1, <3>2
  <2> QED
    BY <2>1 DEF FilesInv, Listed, HoldsOnly, Holds
<1>9. InstalledWhole'
  <2> SUFFICES ASSUME NEW m \in Names \ (hist.leaving \cup hist.hidden), IsInstalled(m),
                      NEW p \in ToSet(Records[m]), Exclusive(p, m)
               PROVE  files'[p] = m
    BY DEF InstalledWhole, Complete, IsInstalled, Holds, Exclusive
  <2>1. m # This
    OBVIOUS
  <2>2. p # p0
    BY <1>1, <2>1 DEF Exclusive
  <2>3. p \in Paths
    <3>1. Records[m] \in Seq(Paths)
      BY PkgAssumption
    <3> QED
      BY <3>1 DEF ToSet
  <2> QED
    BY <1>3, <2>2, <2>3 DEF FilesInv, InstalledWhole, Complete, Holds
<1> QED
  BY <1>4, <1>5, <1>6, <1>7, <1>8, <1>9 DEF Holds

LEMMA StillInWork ==
  ASSUME FilesInv, ~ Jobless, ~ Jobless', This' = This, db' = db, hist'.dirty = hist.dirty,
         \A m \in Names \ {This} : \A p \in Paths : Holds(p, m)' => Holds(p, m)
  PROVE  NoOrphans'
<1> SUFFICES ASSUME NEW m \in Names \ (hist.dirty \cup Eight), ~ IsInstalled(m), m # This,
                    NEW p \in Paths, Holds(p, m)'
             PROVE  FALSE
  BY DEF NoOrphans, IsInstalled, InWork
<1> QED
  BY DEF FilesInv, NoOrphans, InWork

LEMMA OpenSpkKeeps ==
  ASSUME FilesInv, OpenSpk
  PROVE  FilesInv'
<1>1. /\ VarsOK /\ JobOK /\ FitsDb /\ HeldRecorded /\ Listed /\ ListsRecorded /\ OneLine
      /\ NoOrphans /\ InstalledWhole /\ JobSound /\ DepsComing
  BY DEF FilesInv
<1>2. job.at = "open" /\ ~ Jobless /\ UNCHANGED <<incoming, files, lists, db, fails>>
  BY DEF OpenSpk, Jobless, None
<1>3. HeldRecorded' /\ Listed' /\ ListsRecorded' /\ OneLine' /\ FitsDb'
  BY <1>1, <1>2 DEF HeldRecorded, Listed, ListsRecorded, OneLine, IsInstalled, HoldsOnly, Holds,
                    FitsDb
<1>4. This \in Names /\ Records[This] \in Seq(Paths)
  BY <1>1, <1>2, ThisIs
<1>5. CASE Acceptable(This)
  <2>1. /\ job' = [job EXCEPT !.at = "extract", !.todo = Records[This], !.done = <<>>]
        /\ hist' = [hist EXCEPT !.hidden = @ \ {This}] /\ ~ IsInstalled(This)
    BY <1>5 DEF OpenSpk, Acceptable
  <2>2. /\ job' \in JobType /\ job'.at = "extract" /\ job'.todo = Records[This] /\ job'.done = <<>>
        /\ job'.order = job.order /\ job'.i = job.i
    <3>1. job \in JobType /\ <<>> \in Seq(Paths)
      BY <1>1 DEF VarsOK
    <3>2. job' \in JobType
      BY <1>4, <2>1, <3>1 DEF JobType
    <3> QED
      BY <2>1, <3>1, <3>2 DEF JobType
  <2>3. This' = This /\ Asked' = Asked
    BY <2>2, SamePlace
  <2>4. /\ hist' \in HistType /\ hist'.dirty = hist.dirty /\ hist'.leaving = hist.leaving
        /\ hist'.hidden = hist.hidden \ {This}
    BY <1>1, <2>1 DEF VarsOK, HistType
  <2>5. VarsOK' /\ JobOK' /\ ~ Jobless'
    BY <1>1, <1>2, <2>2, <2>4 DEF VarsOK, JobOK, Jobless, None
  <2>6. NoOrphans'
    BY <1>2, <2>3, <2>4, <2>5, StillInWork DEF Holds
  <2>7. InstalledWhole'
    <3> SUFFICES ASSUME NEW m \in Names \ (hist'.leaving \cup hist'.hidden), IsInstalled(m)
                 PROVE  Complete(m)
      BY <1>2 DEF InstalledWhole, Complete, IsInstalled, Holds, Exclusive
    <3> QED
      BY <1>1, <2>1, <2>4 DEF InstalledWhole
  <2>8. Extracting'
    <3>1. ~ IsInstalled(This)
      BY <1>5 DEF Acceptable
    <3>2. This \in hist.dirty \cup Eight \/ HoldsOnly(This, {})
      BY <1>1, <1>2, <3>1 DEF JobSound, Opening
    <3>3. ToSet(<<>>) = {}
      BY DEF ToSet
    <3>4. /\ ToSet(job'.done) = {} /\ job'.at # "write" /\ This' = This
          /\ ToSet(job'.done) \cup ToSet(job'.todo) = ToSet(Records[This])
      BY <2>2, <2>3, <3>3
    <3> QED
      BY <1>2, <2>4, <3>1, <3>2, <3>4 DEF Extracting, IsInstalled, HoldsOnly, HoldsAll, Holds
  <2>9. JobSound'
    BY <2>2, <2>8 DEF JobSound, Opening, Registering, RollingBack, Unlinking, Unregistering
  <2>10. DepsComing'
    BY <1>1, <1>2, <2>2, <2>3 DEF DepsComing, IsInstalled
  <2> QED
    BY <1>3, <2>5, <2>9, <2>10, <2>6, <2>7 DEF FilesInv
<1>6. CASE ~ Acceptable(This)
  <2>1. job' = NoJob /\ job'.at = None /\ hist' = hist
    BY <1>6 DEF OpenSpk, NoJob
  <2>2. VarsOK' /\ JobOK' /\ Jobless'
    BY <1>1, <1>2, <2>1 DEF VarsOK, JobOK, JobType, Jobless, NoJob
  <2>3. InstalledWhole'
    BY <1>1, <1>2, <2>1 DEF InstalledWhole, Complete, IsInstalled, Holds, Exclusive
  <2>4. NoOrphans'
    <3> SUFFICES ASSUME NEW m \in Names \ (hist.dirty \cup Eight), ~ IsInstalled(m), NEW p \in Paths, Holds(p, m)
                 PROVE  FALSE
      BY <1>2, <2>1 DEF NoOrphans, IsInstalled, Holds
    <3>1. CASE m = This
      BY <1>1, <1>2, <3>1 DEF JobSound, Opening, HoldsOnly
    <3>2. CASE m # This
      BY <1>1, <3>2 DEF NoOrphans, InWork
    <3> QED
      BY <3>1, <3>2
  <2>5. JobSound' /\ DepsComing'
    BY <2>1 DEF JobSound, Opening, Extracting, Registering, RollingBack, Unlinking, Unregistering,
                DepsComing, None
  <2> QED
    BY <1>3, <2>2, <2>4, <2>5, <2>3 DEF FilesInv
<1> QED
  BY <1>5, <1>6

(* ensure_parent_dir(): what is below the directory is hidden, or nothing. *)
LEMMA EnsureParentDirKeeps ==
  ASSUME FilesInv, EnsureParentDir
  PROVE  FilesInv'
<1>1. /\ VarsOK /\ JobOK /\ FitsDb /\ HeldRecorded /\ Listed /\ ListsRecorded /\ OneLine
      /\ NoOrphans /\ InstalledWhole /\ JobSound /\ DepsComing
  BY DEF FilesInv
<1>2. /\ job.at = "extract" /\ ~ Jobless /\ job.todo # <<>>
      /\ job' = [job EXCEPT !.at = "write"]
      /\ UNCHANGED <<incoming, lists, db, fails>>
  BY DEF EnsureParentDir, Step, Jobless, None
<1>3. /\ ~ IsInstalled(This)
      /\ ToSet(job.done) \cup ToSet(job.todo) = ToSet(Records[This])
      /\ This \in hist.hidden \/ HoldsAll(This, ToSet(job.done))
      /\ This \in hist.dirty \cup Eight \/ HoldsOnly(This, ToSet(job.done))
  BY <1>1, <1>2 DEF JobSound, Extracting
<1>4. This \in Names /\ ToSet(job.done) \subseteq Paths
  BY <1>1, <1>2, ThisIs
<1>5. /\ job' \in JobType /\ job'.at = "write" /\ job'.todo = job.todo /\ job'.done = job.done
      /\ job'.order = job.order /\ job'.i = job.i
  BY <1>1, <1>2 DEF VarsOK, JobType
<1>6. This' = This /\ Asked' = Asked
  BY <1>5, SamePlace
<1>7. PICK H \in SUBSET Paths :
        /\ files' = [q \in Paths |-> IF q \in H THEN None ELSE files[q]]
        /\ hist' = [hist EXCEPT !.hidden = @ \cup {n \in Names : \E q \in H : files[q] = n}]
  <2>1. CASE UNCHANGED <<files, hist>>
    <3>1. files' = [q \in Paths |-> IF q \in {} THEN None ELSE files[q]]
      BY <1>1, <2>1 DEF VarsOK
    <3>2. {n \in Names : \E q \in {} : files[q] = n} = {}
      OBVIOUS
    <3>3. hist' = [hist EXCEPT !.hidden = @ \cup {}]
      BY <1>1, <2>1 DEF VarsOK, HistType
    <3> QED
      BY <3>1, <3>2, <3>3
  <2>2. CASE ~ UNCHANGED <<files, hist>>
    <3>1. Head(job.todo) \in Paths
      BY <1>1, <1>2, ThisIs, TailIs
    <3>2. Hidden \in SUBSET Paths
      BY <3>1, PkgAssumption DEF Hidden
    <3> QED
      BY <2>2, <3>2 DEF EnsureParentDir
  <2> QED
    BY <2>1, <2>2
<1>8. /\ hist' \in HistType /\ hist'.dirty = hist.dirty /\ hist'.leaving = hist.leaving
      /\ hist'.hidden = hist.hidden \cup {n \in Names : \E q \in H : files[q] = n}
  BY <1>1, <1>7 DEF VarsOK, HistType
<1>9. /\ files' \in [Paths -> Names \cup {None, Broken}]
      /\ \A p \in Paths : files'[p] = IF p \in H THEN None ELSE files[p]
  BY <1>1, <1>7 DEF VarsOK
<1>10. None \notin Names
  BY PkgAssumption
<1>11. \A m \in Names : \A p \in Paths : Holds(p, m)' => Holds(p, m)
  BY <1>9, <1>10 DEF Holds
<1>12. \A m \in Names \ hist'.hidden : \A p \in Paths : Holds(p, m) => Holds(p, m)'
  BY <1>8, <1>9 DEF Holds
<1>13. HeldRecorded'
  BY <1>1, <1>9, <1>10 DEF HeldRecorded
<1>14. Listed' /\ ListsRecorded' /\ OneLine' /\ FitsDb'
  BY <1>1, <1>2, <1>11 DEF Listed, ListsRecorded, OneLine, FitsDb, IsInstalled, HoldsOnly
<1>15. InstalledWhole'
  <2> SUFFICES ASSUME NEW m \in Names \ (hist'.leaving \cup hist'.hidden), IsInstalled(m),
                      NEW p \in ToSet(Records[m]), Exclusive(p, m)
               PROVE  Holds(p, m)'
    BY <1>2 DEF InstalledWhole, Complete, IsInstalled, Exclusive
  <2>1. p \in Paths
    <3>1. Records[m] \in Seq(Paths)
      BY PkgAssumption
    <3> QED
      BY <3>1 DEF ToSet
  <2>2. Holds(p, m)
    BY <1>1, <1>8 DEF InstalledWhole, Complete
  <2> QED
    BY <1>12, <2>1, <2>2
<1>16. VarsOK' /\ JobOK' /\ ~ Jobless'
  BY <1>1, <1>2, <1>5, <1>8, <1>9 DEF VarsOK, JobOK, Jobless, None
<1>17. NoOrphans'
  BY <1>2, <1>6, <1>8, <1>11, <1>16, StillInWork
<1>18. Extracting'
  <2>1. This \in hist'.hidden \/ \A p \in ToSet(job.done) : files'[p] = This
    BY <1>3, <1>4, <1>8, <1>12 DEF HoldsAll, Holds
  <2>2. This \in hist.dirty \cup Eight \/ \A p \in Paths : files'[p] = This => p \in ToSet(job.done)
    BY <1>3, <1>4, <1>11 DEF HoldsOnly, Holds
  <2> QED
    BY <1>2, <1>3, <1>5, <1>6, <1>8, <2>1, <2>2 DEF Extracting, IsInstalled, HoldsOnly, HoldsAll,
                                                    Holds
<1>19. JobSound'
  BY <1>5, <1>18 DEF JobSound, Opening, Registering, RollingBack, Unlinking, Unregistering
<1>20. DepsComing'
  BY <1>1, <1>2, <1>5, <1>6 DEF DepsComing, IsInstalled
<1> QED
  BY <1>13, <1>14, <1>15, <1>16, <1>17, <1>19, <1>20 DEF FilesInv

LEMMA ExtractKeeps ==
  ASSUME FilesInv, Extract
  PROVE  FilesInv'
<1> DEFINE p0 == Head(job.todo)
<1>1. /\ VarsOK /\ JobOK /\ FitsDb /\ HeldRecorded /\ Listed /\ ListsRecorded /\ OneLine
      /\ NoOrphans /\ InstalledWhole /\ JobSound /\ DepsComing
  BY DEF FilesInv
<1>2. /\ job.at = "write" /\ ~ Jobless
      /\ files' = [files EXCEPT ![p0] = This]
      /\ job' = [job EXCEPT !.at = "extract", !.todo = Tail(@), !.done = Append(@, p0)]
      /\ UNCHANGED <<incoming, lists, db, fails, hist>>
  BY DEF Extract, Jobless, None
<1>3. This \in Names /\ job.todo \in Seq(Paths) /\ job.done \in Seq(Paths)
  BY <1>1, <1>2, ThisIs
<1>4. /\ ~ IsInstalled(This) /\ job.todo # <<>>
      /\ ToSet(job.done) \cup ToSet(job.todo) = ToSet(Records[This])
      /\ This \in hist.hidden \/ HoldsAll(This, ToSet(job.done))
      /\ This \in hist.dirty \cup Eight \/ HoldsOnly(This, ToSet(job.done))
  BY <1>1, <1>2 DEF JobSound, Extracting
<1>5. p0 \in Paths /\ Tail(job.todo) \in Seq(Paths) /\ ToSet(job.todo) = {p0} \cup ToSet(Tail(job.todo))
  BY <1>3, <1>4, TailIs
<1> HIDE DEF p0
<1>6. Append(job.done, p0) \in Seq(Paths) /\ ToSet(Append(job.done, p0)) = ToSet(job.done) \cup {p0}
  BY <1>3, <1>5, AppendIs
<1>7. /\ job' \in JobType /\ job'.at = "extract" /\ job'.todo = Tail(job.todo)
      /\ job'.done = Append(job.done, p0) /\ job'.order = job.order /\ job'.i = job.i
  BY <1>1, <1>2, <1>5, <1>6 DEF VarsOK, JobType
<1>8. This' = This /\ Asked' = Asked
  BY <1>7, SamePlace
<1>9. /\ files' \in [Paths -> Names \cup {None, Broken}]
      /\ HeldRecorded' /\ Listed' /\ ListsRecorded' /\ OneLine' /\ InstalledWhole'
      /\ \A m \in Names \ {This} : \A p \in Paths : Holds(p, m)' => Holds(p, m)
  BY <1>2, <1>4, <1>5, OthersKeep
<1>10. VarsOK' /\ JobOK' /\ FitsDb' /\ ~ Jobless'
  BY <1>1, <1>2, <1>7, <1>9 DEF VarsOK, JobOK, FitsDb, Jobless, None
<1>11. NoOrphans'
  BY <1>2, <1>8, <1>9, <1>10, StillInWork
<1>12. Extracting'
  <2>1. \A p \in Paths : files'[p] = IF p = p0 THEN This ELSE files[p]
    BY <1>1, <1>2, <1>5 DEF VarsOK
  <2>2. ToSet(job'.done) \cup ToSet(job'.todo) = ToSet(Records[This])
    BY <1>4, <1>5, <1>6, <1>7
  <2>3. ToSet(job'.done) = ToSet(job.done) \cup {p0} /\ ToSet(job.done) \subseteq Paths
    BY <1>1, <1>2, <1>6, <1>7, ThisIs
  <2>4. This \in hist.hidden \/ \A p \in ToSet(job'.done) : files'[p] = This
    BY <1>4, <1>5, <2>1, <2>3 DEF HoldsAll, Holds
  <2>5. This \in hist.dirty \cup Eight \/ \A p \in Paths : files'[p] = This => p \in ToSet(job'.done)
    BY <1>4, <2>1, <2>3 DEF HoldsOnly, Holds
  <2> QED
    BY <1>2, <1>4, <1>7, <1>8, <2>2, <2>4, <2>5 DEF Extracting, IsInstalled, HoldsOnly, HoldsAll,
                                                    Holds
<1>13. JobSound'
  BY <1>7, <1>12 DEF JobSound, Opening, Registering, RollingBack, Unlinking, Unregistering
<1>14. DepsComing'
  BY <1>1, <1>2, <1>7, <1>8 DEF DepsComing, IsInstalled
<1> QED
  BY <1>9, <1>10, <1>11, <1>13, <1>14 DEF FilesInv

(* The roll-back begins: a file could not be written, or the list.         *)
LEMMA ExtractFailsKeeps ==
  ASSUME FilesInv, ExtractFails
  PROVE  FilesInv'
<1> DEFINE p0 == Head(job.todo)
<1>1. /\ VarsOK /\ JobOK /\ FitsDb /\ HeldRecorded /\ Listed /\ ListsRecorded /\ OneLine
      /\ NoOrphans /\ InstalledWhole /\ JobSound /\ DepsComing
  BY DEF FilesInv
<1>2. PICK left \in {None, Broken} : files' = [files EXCEPT ![p0] = left]
  BY DEF ExtractFails
<1>3. /\ job.at = "write" /\ ~ Jobless
      /\ job' = [job EXCEPT !.at = "rollback"] /\ fails' \in 0 .. MaxFails
      /\ UNCHANGED <<incoming, lists, db, hist>>
  BY <1>1, PkgAssumption DEF ExtractFails, Failing, Step, Jobless, None, VarsOK
<1>4. This \in Names /\ job.todo \in Seq(Paths) /\ ToSet(job.done) \subseteq Paths
  BY <1>1, <1>3, ThisIs
<1>5. /\ ~ IsInstalled(This) /\ job.todo # <<>>
      /\ ToSet(job.done) \cup ToSet(job.todo) = ToSet(Records[This])
      /\ This \in hist.dirty \cup Eight \/ HoldsOnly(This, ToSet(job.done))
  BY <1>1, <1>3 DEF JobSound, Extracting
<1>6. p0 \in Paths /\ p0 \in ToSet(job.todo)
  BY <1>4, <1>5, TailIs
<1> HIDE DEF p0
<1>7. /\ job' \in JobType /\ job'.at = "rollback" /\ job'.done = job.done
      /\ job'.order = job.order /\ job'.i = job.i
  BY <1>1, <1>3 DEF VarsOK, JobType
<1>8. This' = This /\ Asked' = Asked
  BY <1>7, SamePlace
<1>9. /\ files' \in [Paths -> Names \cup {None, Broken}]
      /\ HeldRecorded' /\ Listed' /\ ListsRecorded' /\ OneLine' /\ InstalledWhole'
      /\ \A m \in Names \ {This} : \A p \in Paths : Holds(p, m)' => Holds(p, m)
  BY <1>2, <1>3, <1>5, <1>6, OthersKeep
<1>10. VarsOK' /\ JobOK' /\ FitsDb' /\ ~ Jobless'
  BY <1>1, <1>3, <1>7, <1>9 DEF VarsOK, JobOK, FitsDb, Jobless, None
<1>11. NoOrphans'
  BY <1>3, <1>8, <1>9, <1>10, StillInWork
<1>12. RollingBack'
  <2>1. \A p \in Paths : files'[p] = This => files[p] = This
    BY <1>1, <1>2, <1>4, <1>6, PkgAssumption DEF VarsOK
  <2> QED
    BY <1>3, <1>5, <1>7, <1>8, <2>1 DEF RollingBack, IsInstalled, HoldsOnly, Holds
<1>13. JobSound' /\ DepsComing'
  BY <1>7, <1>12 DEF JobSound, Opening, Extracting, Registering, Unlinking, Unregistering, DepsComing
<1> QED
  BY <1>9, <1>10, <1>11, <1>13 DEF FilesInv

(* The list of a package that is not registered changes.                   *)
LEMMA ListChanges ==
  ASSUME FilesInv, ~ Jobless, ~ IsInstalled(This), NEW l \in Seq(Paths) \cup {NoList},
         l # NoList => ToSet(l) \subseteq ToSet(Records[This]),
         lists' = [lists EXCEPT ![This] = l], UNCHANGED <<files, db, hist>>
  PROVE  /\ lists' \in [Names -> Seq(Paths) \cup {NoList}] /\ lists'[This] = l
         /\ HeldRecorded' /\ Listed' /\ ListsRecorded' /\ OneLine' /\ InstalledWhole' /\ FitsDb'
<1>1. This \in Names /\ lists \in [Names -> Seq(Paths) \cup {NoList}]
  BY ThisIs DEF FilesInv, VarsOK
<1>2. HeldRecorded' /\ OneLine' /\ InstalledWhole' /\ FitsDb'
  BY DEF FilesInv, HeldRecorded, OneLine, InstalledWhole, Complete, IsInstalled, Holds, Exclusive,
         FitsDb
<1>3. lists' \in [Names -> Seq(Paths) \cup {NoList}] /\ lists'[This] = l
      /\ \A m \in Names \ {This} : lists'[m] = lists[m]
  BY <1>1
<1>4. Listed'
  <2> SUFFICES ASSUME NEW m \in Names \ Eight, IsInstalled(m)
               PROVE  \/ lists'[m] # NoList /\ ToSet(lists'[m]) = ToSet(Records[m])
                      \/ lists'[m] = NoList /\ HoldsOnly(m, {})
    BY DEF Listed, IsInstalled, HoldsOnly, Holds
  <2>1. m # This
    OBVIOUS
  <2> QED
    BY <1>3, <2>1 DEF FilesInv, Listed
<1>5. ListsRecorded'
  BY <1>1, <1>3 DEF FilesInv, ListsRecorded
<1> QED
  BY <1>2, <1>3, <1>4, <1>5

LEMMA SaveListKeeps ==
  ASSUME FilesInv, SaveList
  PROVE  FilesInv'
<1>1. /\ VarsOK /\ JobOK /\ FitsDb /\ HeldRecorded /\ Listed /\ ListsRecorded /\ OneLine
      /\ NoOrphans /\ InstalledWhole /\ JobSound /\ DepsComing
  BY DEF FilesInv
<1>2. /\ job.at = "extract" /\ ~ Jobless /\ job.todo = <<>>
      /\ job' = [job EXCEPT !.at = "register"]
      /\ UNCHANGED <<incoming, files, db, fails, hist>>
  BY DEF SaveList, Step, Jobless, None
<1>3. /\ ~ IsInstalled(This)
      /\ ToSet(job.done) \cup ToSet(job.todo) = ToSet(Records[This])
      /\ This \in hist.hidden \/ HoldsAll(This, ToSet(job.done))
  BY <1>1, <1>2 DEF JobSound, Extracting
<1>4. /\ job' \in JobType /\ job'.at = "register" /\ job'.done = job.done
      /\ job'.order = job.order /\ job'.i = job.i
  BY <1>1, <1>2 DEF VarsOK, JobType
<1>5. This' = This /\ Asked' = Asked
  BY <1>4, SamePlace
<1>6. job.done \in Seq(Paths)
  BY <1>1, <1>2, ThisIs
<1>7. This \in Names
  BY <1>1, <1>2, ThisIs
<1>8. PICK left \in {job.done} \cup Elsewhere(This) : lists' = [lists EXCEPT ![This] = left]
  BY DEF SaveList
<1>9. /\ left \in Seq(Paths) \cup {NoList} /\ (This \in Eight \/ left = job.done)
      /\ left # NoList => ToSet(left) \subseteq ToSet(Records[This])
  <2>1. CASE left = job.done
    BY <1>3, <1>6, <2>1
  <2>2. CASE left # job.done
    <3>1. This \in Eight /\ left = lists[This]
      BY <1>8, <2>2 DEF Elsewhere
    <3> QED
      BY <1>1, <1>7, <3>1 DEF VarsOK, ListsRecorded
  <2> QED
    BY <2>1, <2>2
<1>10. /\ lists' \in [Names -> Seq(Paths) \cup {NoList}] /\ lists'[This] = left
       /\ HeldRecorded' /\ Listed' /\ ListsRecorded' /\ OneLine' /\ InstalledWhole' /\ FitsDb'
  BY <1>2, <1>3, <1>8, <1>9, ListChanges
<1>11. VarsOK' /\ JobOK' /\ ~ Jobless'
  BY <1>1, <1>2, <1>4, <1>10 DEF VarsOK, JobOK, Jobless, None
<1>12. NoOrphans'
  BY <1>2, <1>5, <1>11, StillInWork DEF Holds
<1>13. Registering'
  <2>1. ToSet(<<>>) = {}
    BY DEF ToSet
  <2>2. ToSet(job.done) = ToSet(Records[This])
    BY <1>2, <1>3, <2>1
  <2> QED
    BY <1>2, <1>3, <1>4, <1>5, <1>10, <1>9, <2>2 DEF Registering, IsInstalled, HoldsAll, Holds
<1>14. JobSound'
  BY <1>4, <1>13 DEF JobSound, Opening, Extracting, RollingBack, Unlinking, Unregistering
<1>15. DepsComing'
  BY <1>1, <1>2, <1>4, <1>5 DEF DepsComing, IsInstalled
<1> QED
  BY <1>10, <1>11, <1>12, <1>14, <1>15 DEF FilesInv

LEMMA SaveListFailsKeeps ==
  ASSUME FilesInv, SaveListFails
  PROVE  FilesInv'
<1>1. /\ VarsOK /\ JobOK /\ FitsDb /\ HeldRecorded /\ Listed /\ ListsRecorded /\ OneLine
      /\ NoOrphans /\ InstalledWhole /\ JobSound /\ DepsComing
  BY DEF FilesInv
<1>2. PICK left \in {NoList, <<>>} \cup Elsewhere(This) : lists' = [lists EXCEPT ![This] = left]
  BY DEF SaveListFails
<1>3. /\ job.at = "extract" /\ ~ Jobless /\ job.todo = <<>>
      /\ job' = [job EXCEPT !.at = "rollback"] /\ fails' \in 0 .. MaxFails
      /\ UNCHANGED <<incoming, files, db, hist>>
  BY <1>1, PkgAssumption DEF SaveListFails, Failing, Step, Jobless, None, VarsOK
<1>4. /\ ~ IsInstalled(This)
      /\ ToSet(job.done) \cup ToSet(job.todo) = ToSet(Records[This])
      /\ This \in hist.dirty \cup Eight \/ HoldsOnly(This, ToSet(job.done))
  BY <1>1, <1>3 DEF JobSound, Extracting
<1>5. /\ job' \in JobType /\ job'.at = "rollback" /\ job'.done = job.done
      /\ job'.order = job.order /\ job'.i = job.i
  BY <1>1, <1>3 DEF VarsOK, JobType
<1>6. This' = This /\ Asked' = Asked
  BY <1>5, SamePlace
<1>7. /\ lists' \in [Names -> Seq(Paths) \cup {NoList}]
      /\ HeldRecorded' /\ Listed' /\ ListsRecorded' /\ OneLine' /\ InstalledWhole' /\ FitsDb'
  <2>1. left \in Seq(Paths) \cup {NoList} /\ (left # NoList => ToSet(left) \subseteq ToSet(Records[This]))
    <3>1. <<>> \in Seq(Paths) /\ ToSet(<<>>) = {}
      BY DEF ToSet
    <3>2. CASE left \in {NoList, <<>>}
      BY <3>1, <3>2
    <3>3. CASE left \notin {NoList, <<>>}
      <4>1. left = lists[This] /\ This \in Names
        BY <1>1, <1>2, <1>3, <3>3, ThisIs DEF Elsewhere
      <4> QED
        BY <1>1, <4>1 DEF VarsOK, ListsRecorded
    <3> QED
      BY <3>2, <3>3
  <2> QED
    BY <1>2, <1>3, <1>4, <2>1, ListChanges
<1>8. VarsOK' /\ JobOK' /\ ~ Jobless'
  BY <1>1, <1>3, <1>5, <1>7 DEF VarsOK, JobOK, Jobless, None
<1>9. NoOrphans'
  BY <1>3, <1>6, <1>8, StillInWork DEF Holds
<1>10. RollingBack'
  BY <1>3, <1>4, <1>5, <1>6 DEF RollingBack, IsInstalled, HoldsOnly, Holds
<1>11. JobSound' /\ DepsComing'
  BY <1>5, <1>10 DEF JobSound, Opening, Extracting, Registering, Unlinking, Unregistering, DepsComing
<1> QED
  BY <1>7, <1>8, <1>9, <1>11 DEF FilesInv

LEMMA InstalledNext ==
  ASSUME db' \in Seq(Names)
  PROVE  \A n \in Names : IsInstalled(n)' <=> n \in Lines'
BY DEF Lines, ToSet, IsInstalled

LEMMA DbAddKeeps ==
  ASSUME FilesInv, DbAdd
  PROVE  FilesInv'
<1>1. /\ VarsOK /\ JobOK /\ FitsDb /\ HeldRecorded /\ Listed /\ ListsRecorded /\ OneLine
      /\ NoOrphans /\ InstalledWhole /\ JobSound /\ DepsComing
  BY DEF FilesInv
<1>2. job.at = "register" /\ ~ Jobless /\ UNCHANGED <<incoming, files, lists, fails>>
  BY DEF DbAdd, Jobless, None
<1>3. /\ ~ IsInstalled(This)
      /\ ToSet(job.done) = ToSet(Records[This])
      /\ This \in hist.hidden \/ HoldsAll(This, ToSet(job.done))
      /\ This \in Eight \/ lists[This] = job.done
  BY <1>1, <1>2 DEF JobSound, Registering
<1>4. /\ This \in Names /\ job.done \in Seq(Paths) /\ job.order \in Seq(Names)
      /\ job.i \in 1 .. Len(job.order) /\ Len(job.order) \in Nat
  BY <1>1, <1>2, ThisIs
<1>5. db \in Seq(Names) /\ Distinct(db) /\ \A m \in Names : IsInstalled(m) <=> m \in Lines
  BY <1>1, InstalledIs DEF VarsOK, OneLine, Distinct
<1>6. HeldRecorded'
  BY <1>1, <1>2 DEF HeldRecorded
<1>7. CASE DbHasRoom
  <2>1. /\ db' = Append(db, This) /\ job' = Registered
        /\ hist' = [hist EXCEPT !.dirty = @ \ {This}, !.leaving = @ \ {This}]
    BY <1>7 DEF DbAdd
  <2>2. db' \in Seq(Names) /\ Lines' = Lines \cup {This} /\ Len(db') = Len(db) + 1 /\ Distinct(db')
    <3>1. This \notin ToSet(db)
      BY <1>3, <1>4, <1>5 DEF Lines
    <3> QED
      BY <1>4, <1>5, <2>1, <3>1, AppendIs DEF Lines
  <2>3. \A m \in Names : IsInstalled(m)' <=> IsInstalled(m) \/ m = This
    BY <1>4, <1>5, <2>2, InstalledNext
  <2>4. /\ hist' \in HistType
        /\ hist'.dirty = hist.dirty \ {This} /\ hist'.leaving = hist.leaving \ {This}
        /\ hist'.hidden = hist.hidden
    BY <1>1, <2>1 DEF VarsOK, HistType
  <2>5. FitsDb' /\ OneLine'
    BY <1>7, <2>2, <1>5, PkgAssumption DEF FitsDb, OneLine, Distinct, DbHasRoom
  <2>6. Listed'
    <3> SUFFICES ASSUME NEW m \in Names \ Eight, IsInstalled(m)'
                 PROVE  \/ lists[m] # NoList /\ ToSet(lists[m]) = ToSet(Records[m])
                        \/ lists[m] = NoList /\ HoldsOnly(m, {})
      BY <1>2 DEF Listed, HoldsOnly, Holds
    <3>1. CASE m = This
      <4>1. NoList \notin Seq(Paths)
        <5>1. NoList[1] = None /\ Len(NoList) = 1
          BY DEF NoList
        <5>2. None \notin Paths
          BY PkgAssumption
        <5> QED
          BY <5>1, <5>2
      <4> QED
        BY <1>3, <1>4, <3>1, <4>1
    <3>2. CASE m # This
      BY <1>1, <2>3, <3>2 DEF Listed
    <3> QED
      BY <3>1, <3>2
  <2>7. ListsRecorded'
    BY <1>1, <1>2 DEF ListsRecorded
  <2>8. InstalledWhole'
    <3> SUFFICES ASSUME NEW m \in Names \ (hist'.leaving \cup hist'.hidden), IsInstalled(m)',
                        NEW p \in ToSet(Records[m]), Exclusive(p, m)
                 PROVE  Holds(p, m)
      BY <1>2 DEF InstalledWhole, Complete, Holds, Exclusive
    <3>1. CASE m = This
      BY <1>3, <2>4, <3>1 DEF HoldsAll
    <3>2. CASE m # This
      BY <1>1, <2>3, <2>4, <3>2 DEF InstalledWhole, Complete
    <3> QED
      BY <3>1, <3>2
  <2>9. \A m \in Names \ (hist'.dirty \cup Eight) : ~ IsInstalled(m)' => HoldsOnly(m, {})
    BY <1>1, <2>3, <2>4 DEF NoOrphans, InWork, HoldsOnly
  <2>10. NoOrphans'
    BY <1>2, <2>9 DEF NoOrphans, HoldsOnly, Holds
  <2>11. CASE job.i = Len(job.order)
    <3>1. job' = NoJob /\ job'.at = None
      BY <2>1, <2>11 DEF Registered, NoJob
    <3>2. VarsOK' /\ JobOK'
      BY <1>1, <1>2, <2>2, <2>4, <3>1 DEF VarsOK, JobOK, JobType, Jobless, NoJob
    <3>3. JobSound' /\ DepsComing'
      BY <3>1 DEF JobSound, Opening, Extracting, Registering, RollingBack, Unlinking, Unregistering,
                  DepsComing, None
    <3> QED
      BY <1>6, <2>5, <2>6, <2>8, <2>10, <2>7, <3>2, <3>3 DEF FilesInv
  <2>12. CASE job.i # Len(job.order)
    <3>1. job' = [at |-> "open", order |-> job.order, i |-> job.i + 1, todo |-> <<>>, done |-> <<>>]
      BY <2>1, <2>12 DEF Registered, NoJob
    <3>2. job'.at = "open" /\ job'.order = job.order /\ job'.i = job.i + 1
      BY <3>1
    <3>3. job.i + 1 \in 1 .. Len(job.order)
      BY <1>4, <2>12
    <3>4. job' \in JobType
      BY <1>4, <3>1 DEF JobType
    <3>5. VarsOK' /\ JobOK'
      BY <1>1, <1>2, <2>2, <2>4, <3>2, <3>3, <3>4 DEF VarsOK, JobOK, Jobless, None
    <3>6. This' \in Names /\ Asked' = Asked
      BY <1>4, <3>2, <3>3 DEF This, Asked
    <3>7. Opening'
      BY <1>2, <2>9, <3>6 DEF Opening, HoldsOnly, Holds
    <3>8. JobSound'
      BY <3>2, <3>7 DEF JobSound, Extracting, Registering, RollingBack, Unlinking, Unregistering
    <3>9. DepsComing'
      <4> SUFFICES ASSUME NEW d \in ToSet(Deps[Asked]), ~ IsInstalled(d)'
                   PROVE  \E j \in job.i + 1 .. Len(job.order) : job.order[j] = d
        BY <3>2, <3>6 DEF DepsComing
      <4>1. IsInstalled(d) \/ \E j \in job.i .. Len(job.order) : job.order[j] = d
        BY <1>1, <1>2 DEF DepsComing
      <4>2. d \in Names
        <5>1. Asked \in Names
          BY <1>4 DEF Asked
        <5>2. Deps[Asked] \in Seq(Names)
          BY <5>1, PkgAssumption
        <5> QED
          BY <5>2 DEF ToSet
      <4>3. d # This /\ ~ IsInstalled(d)
        BY <2>3, <4>2
      <4>4. PICK j \in job.i .. Len(job.order) : job.order[j] = d
        BY <4>1, <4>3
      <4>5. j # job.i
        BY <4>3, <4>4 DEF This
      <4>6. j \in job.i + 1 .. Len(job.order)
        BY <1>4, <4>4, <4>5
      <4> QED
        BY <4>4, <4>6
    <3> QED
      BY <1>6, <2>5, <2>6, <2>8, <2>10, <2>7, <3>5, <3>8, <3>9 DEF FilesInv
  <2> QED
    BY <2>11, <2>12
<1>8. CASE ~ DbHasRoom
  <2>1. job' = [job EXCEPT !.at = "rollback"] /\ UNCHANGED <<db, hist>>
    BY <1>8 DEF DbAdd, Step
  <2>2. /\ job' \in JobType /\ job'.at = "rollback" /\ job'.done = job.done
        /\ job'.order = job.order /\ job'.i = job.i
    BY <1>1, <2>1 DEF VarsOK, JobType
  <2>3. This' = This
    BY <2>2, SamePlace
  <2>4. VarsOK' /\ JobOK' /\ FitsDb' /\ ~ Jobless'
    BY <1>1, <1>2, <2>1, <2>2 DEF VarsOK, JobOK, FitsDb, Jobless, None
  <2>5. Listed' /\ ListsRecorded' /\ OneLine' /\ InstalledWhole'
    BY <1>1, <1>2, <2>1 DEF Listed, ListsRecorded, OneLine, InstalledWhole, Complete, IsInstalled,
                            HoldsOnly, Holds, Exclusive
  <2>6. NoOrphans'
    BY <1>2, <2>1, <2>3, <2>4, StillInWork DEF Holds
  <2>7. RollingBack'
    <3>1. HoldsOnly(This, ToSet(job.done))
      BY <1>1, <1>3, <1>4 DEF HeldRecorded, HoldsOnly, Holds
    <3> QED
      BY <1>2, <1>3, <2>1, <2>2, <2>3, <3>1 DEF RollingBack, IsInstalled, HoldsOnly, Holds
  <2>8. JobSound' /\ DepsComing'
    BY <2>2, <2>7 DEF JobSound, Opening, Extracting, Registering, Unlinking, Unregistering, DepsComing
  <2> QED
    BY <1>6, <2>4, <2>5, <2>6, <2>8 DEF FilesInv
<1> QED
  BY <1>7, <1>8

(* A write of the database fails: lines are lost, and their packages noted *)
(* in dirty.                                                               *)
LEMMA LinesLost ==
  ASSUME FilesInv, DbLosesLines, UNCHANGED <<files, lists>>
  PROVE  /\ db' \in Seq(Names) /\ fails' \in 0 .. MaxFails
         /\ hist' \in HistType
         /\ hist.dirty \subseteq hist'.dirty /\ hist'.leaving = hist.leaving /\ hist'.hidden = hist.hidden
         /\ \A m \in Names : IsInstalled(m)' => IsInstalled(m)
         /\ \A m \in Names \ hist'.dirty :
              ~ IsInstalled(m)' => ~ IsInstalled(m) /\ m \notin hist.dirty
         /\ HeldRecorded' /\ Listed' /\ ListsRecorded' /\ OneLine' /\ InstalledWhole' /\ FitsDb'
<1>1. /\ VarsOK /\ FitsDb /\ HeldRecorded /\ Listed /\ ListsRecorded /\ OneLine
      /\ InstalledWhole
  BY DEF FilesInv
<1>2. PICK k \in 0 .. Len(db) :
        /\ db' = SubSeq(db, 1, k)
        /\ hist' = [hist EXCEPT !.dirty = @ \cup {db[j] : j \in k + 1 .. Len(db)}]
  BY DEF DbLosesLines
<1>3. fails' \in 0 .. MaxFails
  BY <1>1, PkgAssumption DEF DbLosesLines, Failing, VarsOK
<1>4. db \in Seq(Names) /\ Distinct(db) /\ \A m \in Names : IsInstalled(m) <=> m \in Lines
  BY <1>1, InstalledIs DEF VarsOK, OneLine, Distinct
<1>5. /\ db' \in Seq(Names) /\ Len(db') = k /\ ToSet(db') \subseteq ToSet(db) /\ Distinct(db')
      /\ \A x \in ToSet(db) : x \in ToSet(db') \/ \E j \in k + 1 .. Len(db) : db[j] = x
  BY <1>2, <1>4, CutIs
<1>6. {db[j] : j \in k + 1 .. Len(db)} \subseteq Names
  BY <1>2, <1>4
<1>7. /\ hist' \in HistType
      /\ hist'.dirty = hist.dirty \cup {db[j] : j \in k + 1 .. Len(db)}
      /\ hist'.leaving = hist.leaving /\ hist'.hidden = hist.hidden
  BY <1>1, <1>2, <1>6 DEF VarsOK, HistType
<1>8. \A m \in Names : IsInstalled(m)' <=> m \in Lines'
  BY <1>5, InstalledNext
<1>9. \A m \in Names : IsInstalled(m)' => IsInstalled(m)
  BY <1>4, <1>5, <1>8 DEF Lines
<1>10. \A m \in Names \ hist'.dirty :
         ~ IsInstalled(m)' => ~ IsInstalled(m) /\ m \notin hist.dirty
  BY <1>4, <1>5, <1>7, <1>8 DEF Lines
<1>11. FitsDb' /\ OneLine'
  <2>1. k <= DbMax
    <3>1. Len(db) \in Nat /\ Len(db) <= DbMax /\ DbMax \in Nat
      BY <1>1, <1>4, PkgAssumption DEF FitsDb
    <3> QED
      BY <3>1
  <2>2. FitsDb'
    BY <1>5, <2>1 DEF FitsDb
  <2>3. OneLine'
    BY <1>5 DEF OneLine, Distinct
  <2> QED
    BY <2>2, <2>3
<1>12. HeldRecorded'
  BY <1>1 DEF HeldRecorded
<1>13. Listed' /\ ListsRecorded'
  BY <1>1, <1>9 DEF Listed, ListsRecorded, HoldsOnly, Holds
<1>14. InstalledWhole'
  BY <1>1, <1>7, <1>9 DEF InstalledWhole, Complete, Holds, Exclusive
<1> QED
  BY <1>3, <1>5, <1>7, <1>9, <1>10, <1>11, <1>12, <1>13, <1>14

LEMMA DbAddFailsKeeps ==
  ASSUME FilesInv, DbAddFails
  PROVE  FilesInv'
<1>1. /\ VarsOK /\ JobOK /\ HeldRecorded /\ NoOrphans /\ JobSound
  BY DEF FilesInv
<1>2. /\ job.at = "register" /\ ~ Jobless /\ DbLosesLines
      /\ job' = [job EXCEPT !.at = "rollback"] /\ UNCHANGED <<incoming, files, lists>>
  BY DEF DbAddFails, Step, Jobless, None
<1>3. ~ IsInstalled(This) /\ ToSet(job.done) = ToSet(Records[This])
  BY <1>1, <1>2 DEF JobSound, Registering
<1>4. /\ db' \in Seq(Names) /\ fails' \in 0 .. MaxFails
      /\ hist' \in HistType
      /\ \A m \in Names : IsInstalled(m)' => IsInstalled(m)
      /\ \A m \in Names \ hist'.dirty :
           ~ IsInstalled(m)' => ~ IsInstalled(m) /\ m \notin hist.dirty
      /\ HeldRecorded' /\ Listed' /\ ListsRecorded' /\ OneLine' /\ InstalledWhole' /\ FitsDb'
  BY <1>2, LinesLost
<1>5. /\ job' \in JobType /\ job'.at = "rollback" /\ job'.done = job.done
      /\ job'.order = job.order /\ job'.i = job.i
  BY <1>1, <1>2 DEF VarsOK, JobType
<1>6. This' = This /\ This \in Names
  BY <1>1, <1>2, <1>5, SamePlace, ThisIs
<1>7. VarsOK' /\ JobOK' /\ ~ Jobless'
  BY <1>1, <1>2, <1>4, <1>5 DEF VarsOK, JobOK, Jobless, None
<1>8. NoOrphans'
  <2> SUFFICES ASSUME NEW m \in Names \ (hist'.dirty \cup Eight), ~ IsInstalled(m)', m # This
               PROVE  \A p \in Paths : ~ Holds(p, m)
    BY <1>2, <1>6, <1>7 DEF NoOrphans, InWork, Holds
  <2> QED
    BY <1>1, <1>4 DEF NoOrphans, InWork
<1>9. RollingBack'
  <2>1. HoldsOnly(This, ToSet(job.done))
    BY <1>1, <1>3, <1>6 DEF HeldRecorded, HoldsOnly, Holds
  <2>2. ~ IsInstalled(This)'
    BY <1>3, <1>4, <1>6
  <2> QED
    BY <1>2, <1>3, <1>5, <1>6, <2>1, <2>2 DEF RollingBack, IsInstalled, HoldsOnly, Holds
<1>10. JobSound' /\ DepsComing'
  BY <1>5, <1>9 DEF JobSound, Opening, Extracting, Registering, Unlinking, Unregistering, DepsComing
<1> QED
  BY <1>4, <1>7, <1>8, <1>10 DEF FilesInv

(* Between calls: nothing is at work.                                      *)
LEMMA NoJobKeeps ==
  ASSUME job' = NoJob
  PROVE  Jobless' /\ job' \in JobType /\ JobOK' /\ JobSound' /\ DepsComing'
<1>1. job'.at = None
  BY DEF NoJob
<1>2. job' \in JobType
  <2>1. <<>> \in Seq(Names) /\ <<>> \in Seq(Paths)
    OBVIOUS
  <2> QED
    BY <2>1 DEF NoJob, JobType
<1> QED
  BY <1>1, <1>2 DEF JobOK, Jobless, JobSound, Opening, Extracting, Registering, RollingBack,
                    Unlinking,
                    Unregistering, DepsComing, None

LEMMA RollbackKeeps ==
  ASSUME FilesInv, Rollback
  PROVE  FilesInv'
<1>1. /\ VarsOK /\ JobOK /\ FitsDb /\ HeldRecorded /\ Listed /\ ListsRecorded /\ OneLine
      /\ NoOrphans /\ InstalledWhole /\ JobSound
  BY DEF FilesInv
<1>2. job.at = "rollback" /\ ~ Jobless /\ UNCHANGED <<incoming, lists, db, fails, hist>>
  BY DEF Rollback, Jobless, None
<1>3. /\ ~ IsInstalled(This)
      /\ ToSet(job.done) \subseteq ToSet(Records[This])
      /\ This \in hist.dirty \cup Eight \/ HoldsOnly(This, ToSet(job.done))
  BY <1>1, <1>2 DEF JobSound, RollingBack
<1>4. This \in Names /\ job.done \in Seq(Paths)
  BY <1>1, <1>2, ThisIs
<1>5. CASE job.done = <<>>
  <2>1. job' = NoJob /\ UNCHANGED files
    BY <1>5 DEF Rollback
  <2>2. Jobless' /\ job' \in JobType /\ JobOK' /\ JobSound' /\ DepsComing'
    BY <2>1, NoJobKeeps
  <2>3. VarsOK' /\ FitsDb' /\ HeldRecorded' /\ Listed' /\ ListsRecorded' /\ OneLine' /\ InstalledWhole'
    BY <1>1, <1>2, <2>1, <2>2 DEF VarsOK, FitsDb, HeldRecorded, Listed, ListsRecorded, OneLine,
                                  InstalledWhole, Complete,
                                  IsInstalled, HoldsOnly, Holds, Exclusive
  <2>4. NoOrphans'
    <3> SUFFICES ASSUME NEW m \in Names \ (hist.dirty \cup Eight), ~ IsInstalled(m)
                 PROVE  \A p \in Paths : ~ Holds(p, m)
      BY <1>2, <2>1 DEF NoOrphans, IsInstalled, Holds
    <3>1. CASE m = This
      <4>1. ToSet(job.done) = {}
        BY <1>5 DEF ToSet
      <4> QED
        BY <1>3, <3>1, <4>1 DEF HoldsOnly
    <3>2. CASE m # This
      BY <1>1, <3>2 DEF NoOrphans, InWork
    <3> QED
      BY <3>1, <3>2
  <2> QED
    BY <2>2, <2>3, <2>4 DEF FilesInv
<1>6. CASE job.done # <<>>
  <2> DEFINE p0 == Head(job.done)
  <2>1. files' = [files EXCEPT ![p0] = None] /\ job' = [job EXCEPT !.done = Tail(@)]
    BY <1>6 DEF Rollback, Undone
  <2>2. /\ p0 \in Paths /\ Tail(job.done) \in Seq(Paths)
        /\ ToSet(job.done) = {p0} \cup ToSet(Tail(job.done))
    BY <1>4, <1>6, TailIs
  <2> HIDE DEF p0
  <2>3. /\ job' \in JobType /\ job'.at = "rollback" /\ job'.done = Tail(job.done)
        /\ job'.order = job.order /\ job'.i = job.i
    BY <1>1, <1>2, <2>1, <2>2 DEF VarsOK, JobType
  <2>4. This' = This
    BY <2>3, SamePlace
  <2>5. /\ files' \in [Paths -> Names \cup {None, Broken}]
        /\ HeldRecorded' /\ Listed' /\ ListsRecorded' /\ OneLine' /\ InstalledWhole'
        /\ \A m \in Names \ {This} : \A p \in Paths : Holds(p, m)' => Holds(p, m)
    BY <1>2, <1>3, <2>1, <2>2, OthersKeep
  <2>6. VarsOK' /\ JobOK' /\ FitsDb' /\ ~ Jobless'
    BY <1>1, <1>2, <2>3, <2>5 DEF VarsOK, JobOK, FitsDb, Jobless, None
  <2>7. NoOrphans'
    BY <1>2, <2>4, <2>5, <2>6, StillInWork
  <2>8. RollingBack'
    <3>1. \A p \in Paths : files'[p] = This => files[p] = This /\ p # p0
      BY <1>1, <1>4, <2>1, <2>2, PkgAssumption DEF VarsOK
    <3>2. This \in hist.dirty \cup Eight \/ \A p \in Paths : files'[p] = This => p \in ToSet(Tail(job.done))
      BY <1>3, <2>2, <3>1 DEF HoldsOnly, Holds
    <3> QED
      BY <1>2, <1>3, <2>2, <2>3, <2>4, <3>2 DEF RollingBack, IsInstalled, HoldsOnly, Holds
  <2>9. JobSound' /\ DepsComing'
    BY <2>3, <2>8 DEF JobSound, Opening, Extracting, Registering, Unlinking, Unregistering, DepsComing
  <2> QED
    BY <2>5, <2>6, <2>7, <2>9 DEF FilesInv
<1> QED
  BY <1>5, <1>6

LEMMA PkgRemoveKeeps ==
  ASSUME FilesInv, NEW n \in Names, PkgRemove(n)
  PROVE  FilesInv'
<1>1. /\ VarsOK /\ JobOK /\ FitsDb /\ HeldRecorded /\ Listed /\ ListsRecorded /\ OneLine
      /\ NoOrphans /\ InstalledWhole
  BY DEF FilesInv
<1>2. /\ Jobless /\ IsInstalled(n)
      /\ hist' = [hist EXCEPT !.leaving = @ \cup {n}]
      /\ UNCHANGED <<incoming, files, lists, db, fails>>
  BY DEF PkgRemove
<1>3. PICK found \in Loaded(n) :
        job' = [NoJob EXCEPT !.at = "unlink", !.order = <<n>>, !.todo = found]
  BY DEF PkgRemove
<1>4. ListOf(n) \in Seq(Paths) /\ ToSet(ListOf(n)) \subseteq ToSet(Records[n])
  <2>1. ToSet(<<>>) = {} /\ <<>> \in Seq(Paths)
    BY DEF ToSet
  <2> QED
    BY <1>1, <2>1 DEF ListOf, VarsOK, ListsRecorded
<1>5. /\ found \in Seq(Paths) /\ ToSet(found) \subseteq ToSet(Records[n])
      /\ n \in Eight \/ found = ListOf(n)
  <2>1. ToSet(<<>>) = {} /\ <<>> \in Seq(Paths) /\ Records[n] \in Seq(Paths)
    BY PkgAssumption DEF ToSet
  <2> QED
    BY <1>3, <1>4, <2>1 DEF Loaded
<1>6. n \in Eight \/ HoldsOnly(n, ToSet(found))
  <2> SUFFICES ASSUME n \notin Eight
               PROVE  HoldsOnly(n, ToSet(ListOf(n)))
    BY <1>5
  <2>1. CASE lists[n] # NoList
    <3>1. ListOf(n) = lists[n] /\ ToSet(lists[n]) = ToSet(Records[n])
      BY <1>1, <1>2, <2>1 DEF ListOf, Listed
    <3> QED
      BY <1>1, <3>1 DEF HeldRecorded, HoldsOnly, Holds
  <2>2. CASE lists[n] = NoList
    <3>1. ToSet(ListOf(n)) = {}
      BY <2>2 DEF ListOf, ToSet
    <3> QED
      BY <1>1, <1>2, <2>2, <3>1 DEF Listed
  <2> QED
    BY <2>1, <2>2
<1>7. job' = [at |-> "unlink", order |-> <<n>>, i |-> 1, todo |-> found, done |-> <<>>]
  BY <1>3 DEF NoJob
<1>8. job'.at = "unlink" /\ job'.order = <<n>> /\ job'.i = 1 /\ job'.todo = found
  BY <1>7
<1>9. job' \in JobType
  BY <1>5, <1>7 DEF JobType
<1>10. This' = n /\ 1 \in 1 .. Len(<<n>>)
  BY <1>8 DEF This
<1>11. /\ hist' \in HistType
       /\ hist'.dirty = hist.dirty /\ hist'.leaving = hist.leaving \cup {n}
       /\ hist'.hidden = hist.hidden
  BY <1>1, <1>2 DEF VarsOK, HistType
<1>12. VarsOK' /\ JobOK' /\ FitsDb' /\ ~ Jobless'
  BY <1>1, <1>2, <1>8, <1>9, <1>10, <1>11 DEF VarsOK, JobOK, FitsDb, Jobless, None
<1>13. HeldRecorded' /\ Listed' /\ ListsRecorded' /\ OneLine'
  BY <1>1, <1>2 DEF HeldRecorded, Listed, ListsRecorded, OneLine, IsInstalled, HoldsOnly, Holds
<1>14. InstalledWhole'
  BY <1>1, <1>2, <1>11 DEF InstalledWhole, Complete, IsInstalled, Holds, Exclusive
<1>15. NoOrphans'
  BY <1>1, <1>2, <1>11 DEF NoOrphans, InWork, IsInstalled, Holds
<1>16. Unlinking'
  BY <1>2, <1>5, <1>6, <1>8, <1>10, <1>11 DEF Unlinking, IsInstalled, HoldsOnly, Holds
<1>17. JobSound' /\ DepsComing'
  BY <1>8, <1>16 DEF JobSound, Opening, Extracting, Registering, RollingBack, Unregistering,
                     DepsComing
<1> QED
  BY <1>12, <1>13, <1>14, <1>15, <1>17 DEF FilesInv

LEMMA UnlinkKeeps ==
  ASSUME FilesInv, Unlink
  PROVE  FilesInv'
<1> DEFINE p0 == Head(job.todo)
<1>1. /\ VarsOK /\ JobOK /\ FitsDb /\ HeldRecorded /\ Listed /\ ListsRecorded /\ OneLine
      /\ NoOrphans /\ InstalledWhole /\ JobSound
  BY DEF FilesInv
<1>2. /\ job.at = "unlink" /\ ~ Jobless /\ job.todo # <<>>
      /\ files' = [files EXCEPT ![p0] = None] /\ job' = [job EXCEPT !.todo = Tail(@)]
      /\ UNCHANGED <<incoming, lists, db, fails, hist>>
  BY DEF Unlink, Jobless, None
<1>3. /\ IsInstalled(This) /\ This \in hist.leaving
      /\ ToSet(job.todo) \subseteq ToSet(Records[This])
      /\ This \in Eight \/ HoldsOnly(This, ToSet(job.todo))
  BY <1>1, <1>2 DEF JobSound, Unlinking
<1>4. This \in Names /\ job.todo \in Seq(Paths)
  BY <1>1, <1>2, ThisIs
<1>5. /\ p0 \in Paths /\ Tail(job.todo) \in Seq(Paths)
      /\ ToSet(job.todo) = {p0} \cup ToSet(Tail(job.todo))
  BY <1>2, <1>4, TailIs
<1> HIDE DEF p0
<1>6. /\ job' \in JobType /\ job'.at = "unlink" /\ job'.todo = Tail(job.todo)
      /\ job'.order = job.order /\ job'.i = job.i
  BY <1>1, <1>2, <1>5 DEF VarsOK, JobType
<1>7. This' = This
  BY <1>6, SamePlace
<1>8. /\ files' \in [Paths -> Names \cup {None, Broken}]
      /\ HeldRecorded' /\ Listed' /\ ListsRecorded' /\ OneLine' /\ InstalledWhole'
      /\ \A m \in Names \ {This} : \A p \in Paths : Holds(p, m)' => Holds(p, m)
  <2>1. None # This
    BY <1>4, PkgAssumption
  <2> QED
    BY <1>2, <1>3, <1>5, <2>1, OthersKeep
<1>9. VarsOK' /\ JobOK' /\ FitsDb' /\ ~ Jobless'
  BY <1>1, <1>2, <1>6, <1>8 DEF VarsOK, JobOK, FitsDb, Jobless, None
<1>10. NoOrphans'
  BY <1>2, <1>7, <1>8, <1>9, StillInWork
<1>11. Unlinking'
  <2>1. \A p \in Paths : files'[p] = This => files[p] = This /\ p # p0
    BY <1>1, <1>2, <1>4, <1>5, PkgAssumption DEF VarsOK
  <2>2. This \in Eight \/ \A p \in Paths : files'[p] = This => p \in ToSet(Tail(job.todo))
    BY <1>3, <1>5, <2>1 DEF HoldsOnly, Holds
  <2> QED
    BY <1>2, <1>3, <1>5, <1>6, <1>7, <2>2 DEF Unlinking, IsInstalled, HoldsOnly, Holds
<1>12. JobSound' /\ DepsComing'
  BY <1>6, <1>11 DEF JobSound, Opening, Extracting, Registering, RollingBack, Unregistering,
                     DepsComing
<1> QED
  BY <1>8, <1>9, <1>10, <1>12 DEF FilesInv

LEMMA UnlinkListKeeps ==
  ASSUME FilesInv, UnlinkList
  PROVE  FilesInv'
<1>1. /\ VarsOK /\ JobOK /\ FitsDb /\ HeldRecorded /\ Listed /\ ListsRecorded /\ OneLine
      /\ NoOrphans /\ InstalledWhole /\ JobSound
  BY DEF FilesInv
<1>2. /\ job.at = "unlink" /\ ~ Jobless /\ job.todo = <<>>
      /\ job' = [job EXCEPT !.at = "unregister"]
      /\ UNCHANGED <<incoming, files, db, fails, hist>>
  BY DEF UnlinkList, Step, Jobless, None
<1>3. IsInstalled(This) /\ This \in hist.leaving /\ (This \in Eight \/ HoldsOnly(This, {}))
  <2>1. ToSet(job.todo) = {}
    BY <1>2 DEF ToSet
  <2> QED
    BY <1>1, <1>2, <2>1 DEF JobSound, Unlinking
<1>4. This \in Names
  BY <1>1, <1>2, ThisIs
<1>5. /\ job' \in JobType /\ job'.at = "unregister"
      /\ job'.order = job.order /\ job'.i = job.i
  BY <1>1, <1>2 DEF VarsOK, JobType
<1>6. This' = This
  BY <1>5, SamePlace
<1>7. PICK left \in {NoList} \cup Elsewhere(This) : lists' = [lists EXCEPT ![This] = left]
  BY DEF UnlinkList
<1>8. left = NoList \/ (This \in Eight /\ left = lists[This])
  BY <1>7 DEF Elsewhere
<1>9. lists' \in [Names -> Seq(Paths) \cup {NoList}]
  BY <1>1, <1>4, <1>7, <1>8 DEF VarsOK
<1>10. /\ lists' \in [Names -> Seq(Paths) \cup {NoList}]
       /\ \A m \in Names : lists'[m] = IF m = This THEN left ELSE lists[m]
  BY <1>1, <1>4, <1>7, <1>9 DEF VarsOK
<1>11. VarsOK' /\ JobOK' /\ FitsDb' /\ ~ Jobless'
  BY <1>1, <1>2, <1>5, <1>10 DEF VarsOK, JobOK, FitsDb, Jobless, None
<1>12. HeldRecorded' /\ OneLine' /\ InstalledWhole'
  BY <1>1, <1>2 DEF HeldRecorded, OneLine, InstalledWhole, Complete, IsInstalled, Holds, Exclusive
<1>13. Listed' /\ ListsRecorded'
  BY <1>1, <1>2, <1>3, <1>10, <1>8 DEF Listed, ListsRecorded, IsInstalled, HoldsOnly, Holds
<1>14. NoOrphans'
  BY <1>2, <1>6, <1>11, StillInWork DEF Holds
<1>15. Unregistering'
  BY <1>2, <1>3, <1>5, <1>6 DEF Unregistering, IsInstalled, HoldsOnly, Holds
<1>16. JobSound' /\ DepsComing'
  BY <1>5, <1>15 DEF JobSound, Opening, Extracting, Registering, RollingBack, Unlinking, DepsComing
<1> QED
  BY <1>11, <1>12, <1>13, <1>14, <1>16 DEF FilesInv

LEMMA DbRemoveKeeps ==
  ASSUME FilesInv, DbRemove
  PROVE  FilesInv'
<1>1. /\ VarsOK /\ JobOK /\ FitsDb /\ HeldRecorded /\ Listed /\ ListsRecorded /\ OneLine
      /\ NoOrphans /\ InstalledWhole /\ JobSound
  BY DEF FilesInv
<1>2. /\ job.at = "unregister" /\ ~ Jobless
      /\ db' = Without(db, {This}) /\ job' = NoJob
      /\ UNCHANGED <<incoming, files, lists, fails, hist>>
  BY DEF DbRemove, Jobless, None
<1>3. This \in Names /\ (This \in Eight \/ HoldsOnly(This, {}))
  BY <1>1, <1>2, ThisIs DEF JobSound, Unregistering
<1>4. db \in Seq(Names) /\ Distinct(db) /\ \A m \in Names : IsInstalled(m) <=> m \in Lines
  BY <1>1, InstalledIs DEF VarsOK, OneLine, Distinct
<1>5. /\ db' \in Seq(Names) /\ ToSet(db') = ToSet(db) \ {This}
      /\ Len(db') <= Len(db) /\ Distinct(db')
  BY <1>2, <1>4, WithoutIs
<1>6. \A m \in Names : IsInstalled(m)' <=> m \in Lines'
  BY <1>5, InstalledNext
<1>7. \A m \in Names : IsInstalled(m)' <=> IsInstalled(m) /\ m # This
  BY <1>4, <1>5, <1>6 DEF Lines
<1>8. Jobless' /\ job' \in JobType /\ JobOK' /\ JobSound' /\ DepsComing'
  BY <1>2, NoJobKeeps
<1>9. VarsOK' /\ OneLine'
  BY <1>1, <1>2, <1>5, <1>8 DEF VarsOK, OneLine, Distinct
<1>10. FitsDb'
  <2>1. Len(db) \in Nat /\ Len(db') \in Nat /\ DbMax \in Nat
    BY <1>4, <1>5, PkgAssumption
  <2> QED
    BY <1>1, <1>5, <2>1 DEF FitsDb
<1>11. HeldRecorded' /\ Listed' /\ ListsRecorded' /\ InstalledWhole'
  BY <1>1, <1>2, <1>7 DEF HeldRecorded, Listed, ListsRecorded, InstalledWhole, Complete, HoldsOnly,
                          Holds, Exclusive
<1>12. NoOrphans'
  <2> SUFFICES ASSUME NEW m \in Names \ (hist.dirty \cup Eight), ~ IsInstalled(m)'
               PROVE  \A p \in Paths : ~ Holds(p, m)
    BY <1>2 DEF NoOrphans, Holds
  <2>1. CASE m = This
    BY <1>3, <2>1 DEF HoldsOnly
  <2>2. CASE m # This
    BY <1>1, <1>7, <2>2 DEF NoOrphans, InWork
  <2> QED
    BY <2>1, <2>2
<1> QED
  BY <1>8, <1>9, <1>10, <1>11, <1>12 DEF FilesInv

LEMMA DbRemoveFailsKeeps ==
  ASSUME FilesInv, DbRemoveFails
  PROVE  FilesInv'
<1>1. VarsOK /\ JobOK /\ NoOrphans /\ JobSound
  BY DEF FilesInv
<1>2. /\ job.at = "unregister" /\ ~ Jobless /\ DbLosesLines /\ job' = NoJob
      /\ UNCHANGED <<incoming, files, lists>>
  BY DEF DbRemoveFails, Jobless, None
<1>3. This \in Eight \/ HoldsOnly(This, {})
  BY <1>1, <1>2 DEF JobSound, Unregistering
<1>4. /\ db' \in Seq(Names) /\ fails' \in 0 .. MaxFails
      /\ hist' \in HistType
      /\ \A m \in Names \ hist'.dirty :
           ~ IsInstalled(m)' => ~ IsInstalled(m) /\ m \notin hist.dirty
      /\ HeldRecorded' /\ Listed' /\ ListsRecorded' /\ OneLine' /\ InstalledWhole' /\ FitsDb'
  BY <1>2, LinesLost
<1>5. Jobless' /\ job' \in JobType /\ JobOK' /\ JobSound' /\ DepsComing'
  BY <1>2, NoJobKeeps
<1>6. VarsOK'
  BY <1>1, <1>2, <1>4, <1>5 DEF VarsOK
<1>7. NoOrphans'
  <2> SUFFICES ASSUME NEW m \in Names \ (hist'.dirty \cup Eight), ~ IsInstalled(m)'
               PROVE  \A p \in Paths : ~ Holds(p, m)
    BY <1>2 DEF NoOrphans, Holds
  <2>1. CASE m = This
    BY <1>3, <2>1 DEF HoldsOnly
  <2>2. CASE m # This
    BY <1>1, <1>4, <2>2 DEF NoOrphans, InWork
  <2> QED
    BY <2>1, <2>2
<1> QED
  BY <1>4, <1>5, <1>6, <1>7 DEF FilesInv

LEMMA PowerFailsKeeps ==
  ASSUME FilesInv, PowerFails
  PROVE  FilesInv'
<1>1. /\ VarsOK /\ JobOK /\ FitsDb /\ HeldRecorded /\ Listed /\ ListsRecorded /\ OneLine
      /\ NoOrphans /\ InstalledWhole
  BY DEF FilesInv
<1>2. /\ ~ Jobless /\ job' = NoJob
      /\ hist' = [hist EXCEPT !.dirty = @ \cup {This}]
      /\ UNCHANGED <<incoming, files, lists, db>>
  BY DEF PowerFails
<1>3. This \in Names /\ fails' \in 0 .. MaxFails
  <2>1. This \in Names
    BY <1>1, <1>2, ThisIs
  <2>2. fails' \in 0 .. MaxFails
    BY <1>1, PkgAssumption DEF PowerFails, Failing, VarsOK
  <2> QED
    BY <2>1, <2>2
<1>4. /\ hist' \in HistType
      /\ hist'.dirty = hist.dirty \cup {This} /\ hist'.leaving = hist.leaving /\ hist'.hidden = hist.hidden
  BY <1>1, <1>2, <1>3 DEF VarsOK, HistType
<1>5. Jobless' /\ job' \in JobType /\ JobOK' /\ JobSound' /\ DepsComing'
  BY <1>2, NoJobKeeps
<1>6. VarsOK' /\ FitsDb' /\ HeldRecorded' /\ Listed' /\ ListsRecorded' /\ OneLine'
  BY <1>1, <1>2, <1>3, <1>4, <1>5 DEF VarsOK, FitsDb, HeldRecorded, Listed, ListsRecorded, OneLine,
                                      IsInstalled,
                                      HoldsOnly, Holds
<1>7. InstalledWhole'
  BY <1>1, <1>2, <1>4 DEF InstalledWhole, Complete, IsInstalled, Holds, Exclusive
<1>8. NoOrphans'
  BY <1>1, <1>2, <1>4 DEF NoOrphans, InWork, IsInstalled, Holds
<1> QED
  BY <1>5, <1>6, <1>7, <1>8 DEF FilesInv

LEMMA FilesInit ==
  ASSUME Init
  PROVE  FilesInv
<1>1. /\ files = [p \in Paths |-> None] /\ lists = [n \in Names |-> NoList] /\ db = <<>>
      /\ job = NoJob /\ fails = 0 /\ hist = [dirty |-> {}, leaving |-> {}, hidden |-> {}]
      /\ incoming = [n \in Names |-> IF n \in Served THEN NoFile ELSE Body]
  BY DEF Init
<1>2. None \notin Names /\ Body \in Seq(Bytes) /\ MaxFails \in Nat /\ DbMax \in Nat
  BY PkgAssumption
<1>3. job.at = None /\ job \in JobType
  <2>1. <<>> \in Seq(Names) /\ <<>> \in Seq(Paths)
    OBVIOUS
  <2> QED
    BY <1>1, <2>1 DEF NoJob, JobType
<1>4. db \in Seq(Names) /\ Len(db) = 0 /\ DOMAIN db = {}
  BY <1>1
<1>5. VarsOK
  BY <1>1, <1>2, <1>3, <1>4 DEF VarsOK, HistType
<1>6. JobOK /\ JobSound /\ DepsComing
  BY <1>1, <1>3 DEF JobOK, Jobless, JobSound, Opening, Extracting, Registering, RollingBack,
                    Unlinking,
                    Unregistering, DepsComing, None
<1>7. FitsDb /\ Listed /\ ListsRecorded /\ OneLine /\ InstalledWhole
  BY <1>1, <1>2, <1>4 DEF FitsDb, Listed, ListsRecorded, OneLine, InstalledWhole, Complete,
                          IsInstalled
<1>8. HeldRecorded /\ NoOrphans
  BY <1>1, <1>2 DEF HeldRecorded, NoOrphans, Holds
<1> QED
  BY <1>5, <1>6, <1>7, <1>8 DEF FilesInv
-----------------------------------------------------------------------------
(* http_get(): the loop that takes the response apart.                     *)
Taken ==
  [header_done : BOOLEAN, buf : {b \in Seq(Bytes) : Len(b) <= BufSize}, from : Nat \ {0}]

First(piece) == CHOOSE i \in EmptyLinesIn(piece) : \A j \in EmptyLinesIn(piece) : i <= j

LEMMA FirstIs ==
  ASSUME NEW piece \in Seq(Bytes), EmptyLinesIn(piece) # {}
  PROVE  /\ First(piece) \in 1 .. Len(piece) - 3
         /\ SubSeq(piece, First(piece), First(piece) + 3) = EmptyLine
         /\ BodyInFirst(piece) = SubSeq(piece, First(piece) + 4, Len(piece))
         /\ BodyInFirst(piece) \in Seq(Bytes)
         /\ Len(BodyInFirst(piece)) = Len(piece) - First(piece) - 3
<1>1. EmptyLinesIn(piece) \subseteq Nat
  BY DEF EmptyLinesIn
<1>2. First(piece) \in EmptyLinesIn(piece)
  <2>1. \E m \in EmptyLinesIn(piece) : \A j \in EmptyLinesIn(piece) : m <= j
    BY <1>1, NatMinimum
  <2> QED
    BY <2>1 DEF First
<1>3. First(piece) \in 1 .. Len(piece) - 3 /\ SubSeq(piece, First(piece), First(piece) + 3) = EmptyLine
  BY <1>2 DEF EmptyLinesIn
<1>4. BodyInFirst(piece) = SubSeq(piece, First(piece) + 4, Len(piece))
  BY DEF BodyInFirst, First
<1>5. First(piece) + 4 \in 1 .. Len(piece) + 1
  BY <1>3
<1>6. \A i \in 1 .. Len(piece) + 1 :
        /\ SubSeq(piece, i, Len(piece)) \in Seq(Bytes)
        /\ Len(SubSeq(piece, i, Len(piece))) = Len(piece) - i + 1
  OBVIOUS
<1>7. Len(piece) - (First(piece) + 4) + 1 = Len(piece) - First(piece) - 3
  BY <1>3
<1> QED
  BY <1>3, <1>4, <1>5, <1>6, <1>7

LEMMA HeardTypes ==
  ASSUME NEW v \in Taken, NEW k \in 1 .. Len(Response)
  PROVE  Heard(v, k) \in Taken
<1> DEFINE piece == SubSeq(Response, v.from, k)
           room == BufSize - Len(v.buf)
           w == Receive(v, piece)
<1>1. /\ v.header_done \in BOOLEAN /\ v.buf \in Seq(Bytes) /\ Len(v.buf) \in Nat /\ v.from \in Nat \ {0}
      /\ BufSize \in Nat /\ Len(v.buf) <= BufSize /\ room \in Nat
  BY PkgAssumption DEF Taken
<1>2. Response \in Seq(Bytes) /\ k \in Nat /\ k <= Len(Response)
  BY PkgAssumption DEF Response
<1>3. piece \in Seq(Bytes)
  BY <1>1, <1>2
<1>4. Heard(v, k) = [w EXCEPT !.from = k + 1]
  BY DEF Heard
<1> HIDE DEF piece, room
<1>5. w \in Taken
  <2>1. CASE room = 0
    BY <2>1 DEF Receive, room
  <2>2. CASE room # 0 /\ v.header_done
    <3> DEFINE more == IF Len(piece) <= room THEN piece ELSE SubSeq(piece, 1, room)
    <3>1. more \in Seq(Bytes) /\ Len(more) \in Nat /\ Len(more) <= room
      <4>1. Len(piece) \in Nat
        BY <1>3
      <4>2. CASE Len(piece) <= room
        BY <1>3, <4>1, <4>2
      <4>3. CASE ~ (Len(piece) <= room)
        <5>1. room \in 0 .. Len(piece)
          BY <1>1, <4>1, <4>3
        <5>2. SubSeq(piece, 1, room) \in Seq(Bytes) /\ Len(SubSeq(piece, 1, room)) = room
          BY <1>3, <5>1, CutIs
        <5> QED
          BY <1>1, <4>3, <5>2
      <4> QED
        BY <4>2, <4>3
    <3>2. w = [v EXCEPT !.buf = @ \o more]
      BY <2>2 DEF Receive, room
    <3> HIDE DEF more
    <3>3. v.buf \o more \in Seq(Bytes) /\ Len(v.buf \o more) <= BufSize
      BY <1>1, <3>1 DEF room
    <3> QED
      BY <3>2, <3>3 DEF Taken
  <2>3. CASE room # 0 /\ ~ v.header_done /\ EmptyLinesIn(piece) = {}
    BY <2>3 DEF Receive, room
  <2>4. CASE room # 0 /\ ~ v.header_done /\ EmptyLinesIn(piece) # {}
    <3> DEFINE b == IF Len(BodyInFirst(piece)) <= room THEN BodyInFirst(piece) ELSE <<>>
    <3>1. b \in Seq(Bytes) /\ Len(b) <= BufSize
      <4>1. BodyInFirst(piece) \in Seq(Bytes)
        BY <1>3, <2>4, FirstIs
      <4>2. Len(BodyInFirst(piece)) \in Nat /\ <<>> \in Seq(Bytes) /\ Len(<<>>) = 0
        BY <4>1
      <4>3. room <= BufSize
        BY <1>1 DEF room
      <4> HIDE DEF w
      <4>4. CASE Len(BodyInFirst(piece)) <= room
        BY <1>1, <4>1, <4>2, <4>3, <4>4
      <4>5. CASE ~ (Len(BodyInFirst(piece)) <= room)
        BY <1>1, <4>2, <4>5
      <4> QED
        BY <4>4, <4>5
    <3>2. w = [v EXCEPT !.header_done = TRUE, !.buf = b]
      BY <2>4 DEF Receive, room
    <3> HIDE DEF b, w
    <3> QED
      BY <3>1, <3>2 DEF Taken
  <2> QED
    BY <2>1, <2>2, <2>3, <2>4
<1> HIDE DEF w
<1>6. k + 1 \in Nat \ {0}
  BY <1>2
<1> QED
  BY <1>4, <1>5, <1>6 DEF Taken

Hears(g, Ends) ==
  /\ g[0] = [header_done |-> FALSE, buf |-> <<>>, from |-> 1]
  /\ \A k \in 1 .. Len(Response) :
       g[k] = IF k \in Ends THEN Heard(g[k - 1], k) ELSE g[k - 1]

LEMMA HttpFollows ==
  ASSUME NEW Ends
  PROVE  \E g \in [0 .. Len(Response) -> Taken] :
           Hears(g, Ends) /\ HttpGet(Ends) = g[Len(Response)].buf
<1> DEFINE n == Len(Response)
           v0 == [header_done |-> FALSE, buf |-> <<>>, from |-> 1]
           D(got) == [e \in 0 .. Len(Response) |->
                        IF e = 0 THEN [header_done |-> FALSE, buf |-> <<>>, from |-> 1]
                        ELSE IF e \in Ends THEN Heard(got[e - 1], e) ELSE got[e - 1]]
           f == CHOOSE got : got = D(got)
           step == [k \in 1 .. n |-> [v \in Taken |-> IF k \in Ends THEN Heard(v, k) ELSE v]]
<1>1. n \in Nat
  BY PkgAssumption DEF Response
<1>2. step \in [1 .. n -> [Taken -> Taken]]
  <2>1. \A k \in 1 .. n : \A v \in Taken : Heard(v, k) \in Taken
    BY HeardTypes
  <2> QED
    BY <2>1
<1>3. v0 \in Taken
  BY PkgAssumption DEF Taken
<1>4. PICK g \in [0 .. n -> Taken] : Recurs(g, n, v0, step)
  <2> HIDE DEF n, step, v0
  <2> QED
    BY <1>1, <1>2, <1>3, Recursion
<1>5. g[0] = v0 /\ \A k \in 1 .. n : g[k] = step[k][g[k - 1]]
  BY <1>4 DEF Recurs
<1>6. ASSUME NEW k \in 1 .. n PROVE g[k] = IF k \in Ends THEN Heard(g[k - 1], k) ELSE g[k - 1]
  <2>1. k - 1 \in 0 .. n
    BY <1>1
  <2>2. g[k - 1] \in Taken
    BY <1>4, <2>1
  <2> QED
    BY <1>5, <2>2
<1>7. Hears(g, Ends)
  BY <1>5, <1>6 DEF Hears
<1>8. g = D(g)
  <2>1. \A k \in 0 .. n : k # 0 => k \in 1 .. n
    BY <1>1
  <2>2. DOMAIN g = 0 .. n
    BY <1>4
  <2> HIDE DEF step
  <2> QED
    BY <1>4, <1>5, <1>6, <2>1, <2>2
<1>9. f = D(f)
  <2> HIDE DEF D
  <2> QED
    BY <1>8
<1>10. \A k \in 0 .. n : f[k] = g[k]
  <2> DEFINE Good == {k \in 0 .. n : f[k] = g[k]}
  <2>1. ASSUME NEW k \in 0 .. n
        PROVE  f[k] = IF k = 0 THEN v0 ELSE IF k \in Ends THEN Heard(f[k - 1], k) ELSE f[k - 1]
    <3> HIDE DEF f
    <3> QED
      BY <1>9
  <2> HIDE DEF f, step, v0
  <2>2. 0 \in Good
    BY <2>1, <1>1, <1>5
  <2>3. ASSUME NEW k \in 1 .. n, k - 1 \in Good PROVE k \in Good
    BY <2>1, <2>3, <1>6
  <2>4. \A k \in 0 .. n : k \in Good
    <3> HIDE DEF Good
    <3> QED
      BY <1>1, <2>2, <2>3, Reaches
  <2> QED
    BY <2>4
<1>11. HttpGet(Ends) = f[n].buf
  BY DEF HttpGet
<1>12. n \in 0 .. n
  BY <1>1
<1> HIDE DEF f
<1> QED
  BY <1>7, <1>10, <1>11, <1>12

IsEmptyLine(s, i) == s[i] = "r" /\ s[i + 1] = "n" /\ s[i + 2] = "r" /\ s[i + 3] = "n"

LEMMA ResponseIs ==
  /\ Header \in Seq(Bytes) /\ Body \in Seq(Bytes) /\ Response \in Seq(Bytes)
  /\ Len(Header) \in Nat /\ Len(Body) \in Nat /\ Len(Response) = Len(Header) + Len(Body)
  /\ \A i \in 1 .. Len(Header) : Response[i] = Header[i]
  /\ \A j \in 1 .. Len(Body) : Response[Len(Header) + j] = Body[j]
BY PkgAssumption DEF Response

LEMMA PieceIs ==
  ASSUME NEW s \in Seq(Bytes), NEW k \in 1 .. Len(s), NEW a \in 1 .. k
  PROVE  /\ SubSeq(s, a, k) \in Seq(Bytes) /\ Len(SubSeq(s, a, k)) = k - a + 1
         /\ \A i \in 1 .. k - a + 1 : SubSeq(s, a, k)[i] = s[a + i - 1]
OBVIOUS

LEMMA EmptyLineAt ==
  ASSUME NEW s \in Seq(Bytes), NEW i \in 1 .. Len(s) - 3
  PROVE  SubSeq(s, i, i + 3) = EmptyLine <=> IsEmptyLine(s, i)
<1> DEFINE u == SubSeq(s, i, i + 3)
<1>1. /\ u \in Seq(Bytes) /\ Len(u) = 4
      /\ u[1] = s[i] /\ u[2] = s[i + 1] /\ u[3] = s[i + 2] /\ u[4] = s[i + 3]
  <2>1. i \in 1 .. i + 3 /\ i + 3 \in 1 .. Len(s)
    OBVIOUS
  <2>2. /\ u \in Seq(Bytes) /\ Len(u) = (i + 3) - i + 1
        /\ \A j \in 1 .. (i + 3) - i + 1 : u[j] = s[i + j - 1]
    BY <2>1, PieceIs
  <2>3. (i + 3) - i + 1 = 4 /\ i + 1 - 1 = i /\ i + 2 - 1 = i + 1 /\ i + 3 - 1 = i + 2 /\ i + 4 - 1 = i + 3
    OBVIOUS
  <2> HIDE DEF u
  <2> QED
    BY <2>2, <2>3
<1> HIDE DEF u
<1>2. Len(EmptyLine) = 4 /\ EmptyLine[1] = "r" /\ EmptyLine[2] = "n" /\ EmptyLine[3] = "r" /\ EmptyLine[4] = "n"
  BY DEF EmptyLine
<1>3. ASSUME u = EmptyLine PROVE IsEmptyLine(s, i)
  BY <1>1, <1>2, <1>3 DEF IsEmptyLine
<1>4. ASSUME IsEmptyLine(s, i) PROVE u = EmptyLine
  <2>1. u[1] = "r" /\ u[2] = "n" /\ u[3] = "r" /\ u[4] = "n"
    BY <1>1, <1>4 DEF IsEmptyLine
  <2>2. u = <<u[1], u[2], u[3], u[4]>>
    BY <1>1
  <2> QED
    BY <2>1, <2>2 DEF EmptyLine
<1> QED
  BY <1>3, <1>4 DEF u

LEMMA JoinIs ==
  ASSUME NEW A, NEW s \in Seq(A), NEW t \in Seq(A)
  PROVE  /\ s \o t \in Seq(A) /\ Len(s \o t) = Len(s) + Len(t)
         /\ \A i \in 1 .. Len(s) : (s \o t)[i] = s[i]
         /\ \A i \in 1 .. Len(t) : (s \o t)[Len(s) + i] = t[i]
OBVIOUS

LEMMA PrefixIs ==
  ASSUME NEW A, NEW s \in Seq(A), NEW t \in Seq(A), Len(s) <= Len(t),
         \A i \in 1 .. Len(s) : s[i] = t[i]
  PROVE  IsPrefix(s, t)
<1> DEFINE u == SubSeq(t, 1, Len(s))
<1>1. u \in Seq(A) /\ Len(u) = Len(s) /\ \A i \in 1 .. Len(s) : u[i] = t[i]
  OBVIOUS
<1>2. u = s
  <2> HIDE DEF u
  <2> QED
    BY <1>1
<1>3. SubSeq(s, 1, Len(s)) = s
  OBVIOUS
<1> QED
  BY <1>2, <1>3 DEF IsPrefix

LEMMA WholeIs ==
  ASSUME NEW A, NEW s \in Seq(A)
  PROVE  SubSeq(s, 1, Len(s)) = s
OBVIOUS

(* The only empty line in the response is the one that ends the header.    *)
LEMMA OneEmptyLine ==
  ASSUME EmptyLinesIn(Body) = {}, NEW p \in 1 .. Len(Response) - 3, IsEmptyLine(Response, p)
  PROVE  p = Len(Header) - 3
<1> DEFINE H == Len(Header)
           B == Len(Body)
<1>1. /\ H \in Nat /\ B \in Nat /\ Len(Response) = H + B
      /\ Header \in Seq(Bytes) /\ Body \in Seq(Bytes)
      /\ \A i \in 1 .. H : Response[i] = Header[i]
      /\ \A j \in 1 .. B : Response[H + j] = Body[j]
  BY ResponseIs
<1>2. H - 3 \in 1 .. H - 3 /\ IsEmptyLine(Header, H - 3)
  <2>1. H - 3 \in EmptyLinesIn(Header)
    BY HttpAssumption
  <2>2. H - 3 \in 1 .. H - 3 /\ SubSeq(Header, H - 3, (H - 3) + 3) = EmptyLine
    BY <2>1 DEF EmptyLinesIn
  <2> QED
    BY <1>1, <2>2, EmptyLineAt
<1> HIDE DEF H, B
<1>3. /\ Response[p] = "r" /\ Response[p + 1] = "n" /\ Response[p + 2] = "r" /\ Response[p + 3] = "n"
      /\ p \in Nat \ {0} /\ p + 3 <= H + B
  BY <1>1 DEF IsEmptyLine
<1>4. /\ Response[H] = "n" /\ Response[H - 1] = "r" /\ Response[H - 2] = "n" /\ H >= 4
  <2>1. Header[H] = "n" /\ Header[H - 1] = "r" /\ Header[H - 2] = "n" /\ H >= 4
    <3>1. H - 3 + 1 = H - 2 /\ H - 3 + 2 = H - 1 /\ H - 3 + 3 = H
      BY <1>1
    <3> QED
      BY <1>1, <1>2, <3>1 DEF IsEmptyLine
  <2> QED
    BY <1>1, <2>1
<1>5. CASE p + 3 <= H
  <2>1. p \in 1 .. H - 3 /\ p \in 1 .. H /\ p + 1 \in 1 .. H /\ p + 2 \in 1 .. H /\ p + 3 \in 1 .. H
    BY <1>1, <1>3, <1>5
  <2>2. IsEmptyLine(Header, p)
    BY <1>1, <1>3, <2>1 DEF IsEmptyLine
  <2>3. SubSeq(Header, p, p + 3) = EmptyLine
    BY <1>1, <2>1, <2>2, EmptyLineAt DEF H
  <2>4. p \in EmptyLinesIn(Header)
    BY <2>1, <2>3 DEF EmptyLinesIn, H
  <2> QED
    BY <2>4, HttpAssumption DEF H
<1>6. CASE p > H
  <2> DEFINE q == p - H
  <2>1. q \in 1 .. B - 3 /\ q \in 1 .. B /\ q + 1 \in 1 .. B /\ q + 2 \in 1 .. B /\ q + 3 \in 1 .. B
        /\ H + q = p /\ H + (q + 1) = p + 1 /\ H + (q + 2) = p + 2 /\ H + (q + 3) = p + 3
    BY <1>1, <1>3, <1>6
  <2> HIDE DEF q
  <2>2. IsEmptyLine(Body, q)
    BY <1>1, <1>3, <2>1 DEF IsEmptyLine
  <2>3. SubSeq(Body, q, q + 3) = EmptyLine
    BY <1>1, <2>1, <2>2, EmptyLineAt DEF B
  <2>4. q \in EmptyLinesIn(Body)
    BY <2>1, <2>3 DEF EmptyLinesIn, B
  <2> QED
    BY <2>4
<1>7. CASE p = H \/ p = H - 2
  BY <1>3, <1>4, <1>7
<1>8. CASE p = H - 1
  <2>1. H + 1 = p + 2 /\ H + 2 = p + 3 /\ 1 \in 1 .. B /\ 2 \in 1 .. B /\ B >= 2
    BY <1>1, <1>3, <1>8
  <2>2. Body[1] = "r" /\ Body[2] = "n"
    BY <1>1, <1>3, <2>1
  <2>3. IsPrefix(<<"r", "n">>, Body)
    <3> DEFINE u == SubSeq(Body, 1, 2)
               t == <<"r", "n">>
    <3>1. u \in Seq(Bytes) /\ Len(u) = 2 /\ u[1] = "r" /\ u[2] = "n"
      BY <1>1, <2>1, <2>2 DEF B
    <3>2. u = <<u[1], u[2]>>
      <4> HIDE DEF u
      <4> QED
        BY <3>1
    <3>3. Len(t) = 2 /\ SubSeq(t, 1, 2) = t
      <4>1. t \in Seq({"r", "n"}) /\ Len(t) = 2
        OBVIOUS
      <4> HIDE DEF t
      <4> QED
        BY <4>1, WholeIs
    <3>4. u = t
      BY <3>1, <3>2
    <3> HIDE DEF t
    <3>5. IsPrefix(t, Body)
      BY <2>1, <3>3, <3>4 DEF IsPrefix, B
    <3> QED
      BY <3>5 DEF t
  <2> QED
    BY <2>3, HttpAssumption
<1> QED
  BY <1>1, <1>3, <1>4, <1>5, <1>6, <1>7, <1>8

(* After k bytes: nothing was taken, or the first bytes of the package, as *)
(* many as have come and fit.                                              *)
OnTrack(v, k) ==
  /\ v.from \in 1 .. k + 1
  /\ ~ v.header_done => v.buf = <<>>
  /\ v.header_done =>
       /\ v.from - 1 >= Len(Header)
       /\ \/ Len(v.buf) = v.from - 1 - Len(Header)
          \/ Len(v.buf) = BufSize /\ BufSize <= v.from - 1 - Len(Header)
       /\ \A i \in 1 .. Len(v.buf) : v.buf[i] = Body[i]

LEMMA HeardIs ==
  ASSUME EmptyLinesIn(Body) = {}, NEW v \in Taken, NEW k \in 1 .. Len(Response),
         OnTrack(v, k - 1), k - v.from + 1 <= PieceMax
  PROVE  OnTrack(Heard(v, k), k) /\ Heard(v, k).from = k + 1
<1> DEFINE H == Len(Header)
           B == Len(Body)
           buf == v.buf
           fr == v.from
           piece == SubSeq(Response, fr, k)
           room == BufSize - Len(buf)
           w == Receive(v, piece)
           u == Heard(v, k)
<1>1. /\ H \in Nat /\ B \in Nat /\ Len(Response) = H + B /\ Body \in Seq(Bytes) /\ Response \in Seq(Bytes)
      /\ \A j \in 1 .. B : Response[H + j] = Body[j]
  BY ResponseIs
<1>2. /\ v.header_done \in BOOLEAN /\ buf \in Seq(Bytes) /\ Len(buf) \in Nat
      /\ BufSize \in Nat /\ Len(buf) <= BufSize /\ room \in Nat
      /\ PieceMax \in Nat /\ PieceMax <= BufSize + 4
      /\ DOMAIN v = {"header_done", "buf", "from"}
  BY PkgAssumption DEF Taken
<1>3. /\ fr \in 1 .. k /\ k \in Nat /\ fr \in Nat
      /\ ~ v.header_done => buf = <<>>
      /\ v.header_done =>
           /\ fr - 1 >= H
           /\ \/ Len(buf) = fr - 1 - H
              \/ Len(buf) = BufSize /\ BufSize <= fr - 1 - H
           /\ \A i \in 1 .. Len(buf) : buf[i] = Body[i]
  BY <1>1 DEF OnTrack
<1>4. /\ piece \in Seq(Bytes) /\ Len(piece) = k - fr + 1 /\ Len(piece) \in Nat
      /\ \A i \in 1 .. Len(piece) : piece[i] = Response[fr + i - 1]
  <2>1. k \in 1 .. Len(Response) /\ fr \in 1 .. k
    BY <1>3
  <2>2. /\ piece \in Seq(Bytes) /\ Len(piece) = k - fr + 1
        /\ \A i \in 1 .. k - fr + 1 : piece[i] = Response[fr + i - 1]
    BY <1>1, <2>1, PieceIs
  <2> HIDE DEF piece
  <2> QED
    BY <2>1, <2>2
<1>5. u = [w EXCEPT !.from = k + 1]
  BY DEF Heard
<1>6. /\ Len(piece) \in Nat /\ Len(buf) \in Nat /\ H \in Nat /\ B \in Nat /\ k \in Nat /\ fr \in Nat
      /\ room \in Nat /\ BufSize \in Nat /\ PieceMax \in Nat
      /\ 1 <= fr /\ fr <= k /\ k <= H + B /\ Len(piece) = k - fr + 1
      /\ room = BufSize - Len(buf) /\ Len(piece) <= PieceMax /\ PieceMax <= BufSize + 4
  <2>1. k <= Len(Response)
    BY <1>1
  <2>2. fr <= k /\ 1 <= fr
    BY <1>3
  <2> HIDE DEF piece, H, B
  <2> QED
    BY <1>1, <1>2, <1>3, <1>4, <2>1, <2>2
<1>7. w \in Taken => /\ u.from = k + 1 /\ u.header_done = w.header_done /\ u.buf = w.buf
  <2> HIDE DEF w, u
  <2> QED
    BY <1>5 DEF Taken
<1> HIDE DEF H, B, piece, room, u, buf, fr
<1>8. CASE room = 0
  <2>1. w = v
    BY <1>8 DEF Receive, room, buf
  <2>2. u.from = k + 1 /\ u.header_done = v.header_done /\ u.buf = buf
    BY <1>7, <2>1 DEF buf
  <2>3. v.header_done => k >= H /\ Len(buf) = BufSize /\ BufSize <= k - H
    BY <1>1, <1>2, <1>3, <1>8 DEF room
  <2> QED
    BY <1>1, <1>2, <1>3, <2>2, <2>3 DEF OnTrack, H, u, buf, fr
<1>9. CASE room # 0 /\ v.header_done
  <2> DEFINE more == IF Len(piece) <= room THEN piece ELSE SubSeq(piece, 1, room)
  <2>1. w = [v EXCEPT !.buf = @ \o more]
    BY <1>9 DEF Receive, room, buf
  <2>2. /\ more \in Seq(Bytes) /\ Len(more) \in Nat
        /\ Len(more) = IF Len(piece) <= room THEN Len(piece) ELSE room
        /\ \A i \in 1 .. Len(more) : more[i] = piece[i] /\ i \in 1 .. Len(piece)
    <3>1. CASE Len(piece) <= room
      BY <1>4, <3>1
    <3>2. CASE ~ (Len(piece) <= room)
      <4> DEFINE cut == SubSeq(piece, 1, room)
      <4>1. room \in 1 .. Len(piece) /\ 1 \in 1 .. room
        BY <1>2, <1>4, <1>9, <3>2
      <4>2. /\ cut \in Seq(Bytes) /\ Len(cut) = room - 1 + 1
            /\ \A i \in 1 .. room - 1 + 1 : cut[i] = piece[1 + i - 1]
        BY <1>4, <4>1, PieceIs
      <4>3. room - 1 + 1 = room /\ \A i \in 1 .. room : 1 + i - 1 = i /\ i \in 1 .. Len(piece)
        BY <1>2, <1>4, <4>1
      <4> HIDE DEF cut
      <4>4. Len(cut) = room /\ \A i \in 1 .. room : cut[i] = piece[i] /\ i \in 1 .. Len(piece)
        BY <4>2, <4>3
      <4>5. more = cut
        BY <3>2 DEF cut
      <4> HIDE DEF more
      <4> QED
        BY <1>2, <3>2, <4>2, <4>4, <4>5
    <3> QED
      BY <3>1, <3>2
  <2> HIDE DEF more
  <2>3. /\ buf \o more \in Seq(Bytes) /\ Len(buf \o more) = Len(buf) + Len(more)
        /\ \A i \in 1 .. Len(buf) : (buf \o more)[i] = buf[i]
        /\ \A i \in 1 .. Len(more) : (buf \o more)[Len(buf) + i] = more[i]
    <3>1. buf \in Seq(Bytes) /\ more \in Seq(Bytes)
      BY <1>2, <2>2
    <3> QED
      BY <3>1, JoinIs
  <2>4. Len(buf \o more) <= BufSize
    BY <1>6, <2>2, <2>3
  <2>5. w \in Taken /\ w.header_done /\ w.buf = buf \o more
    <3> HIDE DEF w
    <3> QED
      BY <1>9, <2>1, <2>3, <2>4 DEF Taken, buf
  <2>6. u.from = k + 1 /\ u.header_done /\ u.buf = buf \o more
    BY <1>7, <2>5
  <2>7. Len(buf) = fr - 1 - H /\ fr - 1 >= H
    BY <1>6, <1>3, <1>9
  <2>8. /\ \/ Len(u.buf) = k - H
           \/ Len(u.buf) = BufSize /\ BufSize <= k - H
        /\ k >= H
    <3>1. Len(u.buf) = Len(buf) + Len(more)
      BY <2>3, <2>6
    <3>2. /\ Len(more) \in Nat
          /\ \/ Len(more) = Len(piece)
             \/ Len(more) = room /\ room <= Len(piece)
      BY <1>6, <2>2
    <3> QED
      BY <1>6, <2>7, <3>1, <3>2
  <2>9. ASSUME NEW i \in 1 .. Len(u.buf) PROVE u.buf[i] = Body[i]
    <3>1. CASE i \in 1 .. Len(buf)
      BY <1>3, <1>9, <2>3, <2>6, <3>1
    <3>2. CASE i \notin 1 .. Len(buf)
      <4> DEFINE j == i - Len(buf)
      <4>1. j \in 1 .. Len(more) /\ i = Len(buf) + j
        BY <1>2, <2>2, <2>3, <2>6, <3>2
      <4>2. u.buf[i] = piece[j] /\ j \in 1 .. Len(piece)
        BY <2>2, <2>3, <2>6, <4>1
      <4>3. piece[j] = Response[fr + j - 1]
        BY <1>4, <4>2
      <4>4. fr + j - 1 = H + i /\ i \in 1 .. B
        <5>1. j \in Nat /\ 1 <= j /\ j <= Len(piece) /\ i = Len(buf) + j
          BY <1>6, <4>1, <4>2
        <5> HIDE DEF j
        <5> QED
          BY <1>6, <2>7, <5>1
      <4> HIDE DEF j
      <4> QED
        BY <1>1, <4>2, <4>3, <4>4
    <3> QED
      BY <3>1, <3>2
  <2> QED
    BY <1>1, <1>3, <2>6, <2>8, <2>9 DEF OnTrack, H, u, buf, fr
<1>10. CASE room # 0 /\ ~ v.header_done /\ EmptyLinesIn(piece) = {}
  <2>1. w = v
    BY <1>10 DEF Receive, room, buf
  <2>2. u.from = k + 1 /\ u.header_done = v.header_done /\ u.buf = buf
    BY <1>7, <2>1 DEF buf
  <2> QED
    BY <1>3, <1>10, <2>2 DEF OnTrack, u, buf, fr
<1>11. CASE room # 0 /\ ~ v.header_done /\ EmptyLinesIn(piece) # {}
  <2> DEFINE i0 == First(piece)
             b == BodyInFirst(piece)
  <2>1. /\ i0 \in 1 .. Len(piece) - 3 /\ SubSeq(piece, i0, i0 + 3) = EmptyLine
        /\ b = SubSeq(piece, i0 + 4, Len(piece)) /\ b \in Seq(Bytes)
        /\ Len(b) = Len(piece) - i0 - 3
    BY <1>4, <1>11, FirstIs
  <2>2. w = [v EXCEPT !.header_done = TRUE, !.buf = IF Len(b) <= room THEN b ELSE <<>>]
    BY <1>11 DEF Receive, room, buf
  <2> HIDE DEF i0, b
  <2>3. IsEmptyLine(piece, i0)
    BY <1>4, <2>1, EmptyLineAt
  <2>4. fr + i0 - 1 = H - 3
    <3> DEFINE q == fr + i0 - 1
    <3>1. /\ q \in 1 .. Len(Response) - 3
          /\ fr + (i0 + 1) - 1 = q + 1 /\ fr + (i0 + 2) - 1 = q + 2 /\ fr + (i0 + 3) - 1 = q + 3
          /\ i0 \in 1 .. Len(piece) /\ i0 + 1 \in 1 .. Len(piece)
          /\ i0 + 2 \in 1 .. Len(piece) /\ i0 + 3 \in 1 .. Len(piece)
      <4>1. i0 \in Nat /\ 1 <= i0 /\ i0 <= Len(piece) - 3
        BY <1>6, <2>1
      <4>2. Len(Response) = H + B
        BY <1>1
      <4> QED
        BY <1>6, <4>1, <4>2
    <3> HIDE DEF q
    <3>2. fr + i0 - 1 = q
      BY DEF q
    <3>3. IsEmptyLine(Response, q)
      BY <1>4, <2>3, <3>1, <3>2 DEF IsEmptyLine
    <3> QED
      BY <3>1, <3>2, <3>3, OneEmptyLine DEF H
  <2>5. Len(b) = k - H /\ Len(b) \in Nat /\ Len(b) <= BufSize /\ buf = <<>> /\ room = BufSize
    <3>1. buf = <<>> /\ Len(buf) = 0
      BY <1>3, <1>11
    <3>2. i0 \in Nat /\ 1 <= i0 /\ i0 <= Len(piece) - 3 /\ Len(b) = Len(piece) - i0 - 3
      BY <1>6, <2>1
    <3> QED
      BY <1>6, <2>4, <3>1, <3>2
  <2>6. w = [v EXCEPT !.header_done = TRUE, !.buf = b]
    BY <2>2, <2>5
  <2>7. w \in Taken /\ w.header_done /\ w.buf = b
    <3> HIDE DEF w
    <3> QED
      BY <2>1, <2>5, <2>6 DEF Taken
  <2>8. u.from = k + 1 /\ u.header_done /\ u.buf = b
    BY <1>7, <2>7
  <2>9. ASSUME NEW i \in 1 .. Len(b) PROVE b[i] = Body[i]
    <3>1. i0 + 4 \in 1 .. Len(piece) /\ Len(piece) \in 1 .. Len(piece)
      BY <1>4, <2>1
    <3>2. \A j \in 1 .. Len(piece) - (i0 + 4) + 1 : b[j] = piece[i0 + 4 + j - 1]
      BY <1>4, <2>1, <3>1, PieceIs
    <3>3. /\ i \in 1 .. Len(piece) - (i0 + 4) + 1 /\ i0 + 4 + i - 1 \in 1 .. Len(piece)
          /\ fr + (i0 + 4 + i - 1) - 1 = H + i /\ i \in 1 .. B
      <4>1. i0 \in Nat /\ 1 <= i0 /\ i0 <= Len(piece) - 3 /\ Len(b) = Len(piece) - i0 - 3
        BY <1>6, <2>1
      <4>2. i \in Nat /\ 1 <= i /\ i <= Len(b) /\ Len(b) = k - H
        BY <2>5
      <4> QED
        BY <1>6, <2>4, <4>1, <4>2
    <3>4. b[i] = piece[i0 + 4 + i - 1]
      BY <3>2, <3>3
    <3>5. piece[i0 + 4 + i - 1] = Response[H + i]
      BY <1>4, <3>3
    <3> QED
      BY <1>1, <3>3, <3>4, <3>5
  <2>10. k >= H
    BY <1>1, <1>3, <2>5
  <2> QED
    BY <1>1, <1>3, <2>5, <2>8, <2>9, <2>10 DEF OnTrack, H, u, buf, fr
<1> QED
  BY <1>8, <1>9, <1>10, <1>11

(* What pkg_remote_download() may save: the first bytes of the package.    *)
LEMMA DownloadsAre ==
  ASSUME NEW got \in Downloads
  PROVE  /\ got \in Seq(Bytes) /\ Len(got) <= BufSize
         /\ EmptyLinesIn(Body) = {} => IsPrefix(got, Body)
<1>1. PICK Ends \in Cuts : got = HttpGet(Ends)
  BY DEF Downloads
<1> DEFINE N == Len(Response)
<1>2. PICK g \in [0 .. N -> Taken] : Hears(g, Ends) /\ HttpGet(Ends) = g[N].buf
  BY HttpFollows
<1>3. N \in Nat /\ N = Len(Header) + Len(Body) /\ Len(Header) \in Nat /\ Len(Body) \in Nat
  BY ResponseIs
<1> HIDE DEF N
<1>4. N \in 0 .. N /\ g[N] \in Taken
  BY <1>2, <1>3
<1>5. got \in Seq(Bytes) /\ Len(got) <= BufSize
  BY <1>1, <1>2, <1>4 DEF Taken
<1>6. ASSUME EmptyLinesIn(Body) = {} PROVE IsPrefix(got, Body)
  <2> DEFINE P(k) == OnTrack(g[k], k) /\ \A e \in Ends : e <= k => e < g[k].from
             Good == {k \in 0 .. N : P(k)}
  <2>1. 0 \in Good
    <3> DEFINE v == g[0]
    <3>1. v = [header_done |-> FALSE, buf |-> <<>>, from |-> 1]
      BY <1>2 DEF Hears
    <3>2. v.from = 1 /\ ~ v.header_done /\ v.buf = <<>>
      BY <3>1
    <3> HIDE DEF v
    <3>3. \A e \in Ends : e <= 0 => e < v.from
      <4>1. \A e \in Ends : e \in Nat
        BY <1>1 DEF Cuts
      <4> QED
        BY <3>2, <4>1
    <3>4. OnTrack(v, 0)
      BY <3>2 DEF OnTrack
    <3> QED
      BY <1>3, <3>3, <3>4 DEF v
  <2>2. ASSUME NEW k \in 1 .. N, k - 1 \in Good PROVE k \in Good
    <3> DEFINE v == g[k - 1]
               u == g[k]
               fr == v.from
    <3>1. k \in 0 .. N /\ k - 1 \in 0 .. N /\ k \in Nat /\ k - 1 \in Nat
      BY <1>3
    <3>2. v \in Taken /\ OnTrack(v, k - 1) /\ \A e \in Ends : e <= k - 1 => e < fr
      BY <1>2, <2>2, <3>1
    <3>3. u = IF k \in Ends THEN Heard(v, k) ELSE v
      BY <1>2 DEF Hears, N
    <3>4. fr \in 1 .. (k - 1) + 1
      BY <3>2 DEF OnTrack
    <3>5. \A e \in Ends : e \in Nat
      BY <1>1 DEF Cuts
    <3> HIDE DEF v, u
    <3>6. CASE k \in Ends
      <4>1. PICK f \in Ends \cup {0} : k - f \in 1 .. PieceMax
        BY <1>1, <3>6 DEF Cuts
      <4>2. f \in Nat /\ f <= k - 1 /\ k - f <= PieceMax /\ PieceMax \in Nat
        BY <3>1, <3>5, <4>1, PkgAssumption
      <4>3. f < fr
        <5> HIDE DEF fr
        <5>1. CASE f \in Ends
          BY <3>2, <4>2, <5>1
        <5>2. CASE f = 0
          BY <3>4, <5>2
        <5> QED
          BY <4>1, <5>1, <5>2
      <4>4. k - fr + 1 <= PieceMax
        <5> HIDE DEF fr
        <5> QED
          BY <3>1, <3>4, <4>2, <4>3
      <4>5. OnTrack(u, k) /\ u.from = k + 1
        BY <1>6, <3>2, <3>3, <3>6, <4>4, HeardIs DEF N
      <4>6. \A e \in Ends : e <= k => e < u.from
        BY <3>1, <3>5, <4>5
      <4> QED
        BY <3>1, <4>5, <4>6 DEF u
    <3>7. CASE k \notin Ends
      <4>1. u = v
        BY <3>3, <3>7
      <4>2. v.from \in 1 .. k + 1
        BY <3>1, <3>4
      <4>3. OnTrack(v, k)
        BY <3>2, <4>2 DEF OnTrack
      <4>4. \A e \in Ends : e <= k => e <= k - 1
        BY <3>1, <3>5, <3>7
      <4>5. \A e \in Ends : e <= k => e < v.from
        BY <3>2, <4>4
      <4> QED
        BY <3>1, <4>1, <4>3, <4>5 DEF u
    <3> QED
      BY <3>6, <3>7
  <2>3. \A k \in 0 .. N : k \in Good
    <3> HIDE DEF Good
    <3> QED
      BY <1>3, <2>1, <2>2, Reaches
  <2>4. OnTrack(g[N], N)
    BY <1>4, <2>3
  <2> DEFINE v == g[N]
             buf == v.buf
             fr == v.from
  <2>5. /\ buf = got /\ fr \in 1 .. N + 1 /\ Len(buf) \in Nat
        /\ Len(buf) <= Len(Body)
        /\ \A i \in 1 .. Len(buf) : buf[i] = Body[i]
    <3>1. /\ fr \in 1 .. N + 1
          /\ ~ v.header_done => buf = <<>>
          /\ v.header_done =>
               /\ fr - 1 >= Len(Header)
               /\ \/ Len(buf) = fr - 1 - Len(Header)
                  \/ Len(buf) = BufSize /\ BufSize <= fr - 1 - Len(Header)
               /\ \A i \in 1 .. Len(buf) : buf[i] = Body[i]
      BY <2>4 DEF OnTrack
    <3>2. buf = got /\ Len(buf) \in Nat /\ v.header_done \in BOOLEAN
      BY <1>1, <1>2, <1>4, <1>5 DEF Taken
    <3> HIDE DEF v, buf, fr
    <3>3. CASE v.header_done
      BY <1>3, <3>1, <3>2, <3>3, PkgAssumption
    <3>4. CASE ~ v.header_done
      BY <1>3, <3>1, <3>2, <3>4
    <3> QED
      BY <3>2, <3>3, <3>4
  <2>6. got \in Seq(Bytes) /\ Body \in Seq(Bytes) /\ Len(got) \in Nat /\ Len(got) <= Len(Body)
        /\ \A i \in 1 .. Len(got) : got[i] = Body[i]
    BY <1>5, <2>5, PkgAssumption
  <2> QED
    BY <2>6, PrefixIs
<1> QED
  BY <1>5, <1>6

(* A file that a failed write has cut short is still the first bytes.      *)
LEMMA ShorterIs ==
  ASSUME NEW A, NEW s \in Seq(A), NEW k \in 0 .. Len(s)
  PROVE  LET u == SubSeq(s, 1, k)
         IN /\ u \in Seq(A) /\ Len(u) = k
            /\ \A t \in Seq(A) : IsPrefix(s, t) => IsPrefix(u, t)
<1> DEFINE u == SubSeq(s, 1, k)
<1>1. u \in Seq(A) /\ Len(u) = k /\ Len(s) \in Nat /\ \A i \in 1 .. k : u[i] = s[i]
  OBVIOUS
<1> HIDE DEF u
<1>2. ASSUME NEW t \in Seq(A), IsPrefix(s, t) PROVE IsPrefix(u, t)
  <2>1. Len(s) <= Len(t) /\ SubSeq(s, 1, Len(s)) = SubSeq(t, 1, Len(s)) /\ Len(t) \in Nat
    BY <1>2 DEF IsPrefix
  <2>2. SubSeq(s, 1, Len(s)) = s
    BY WholeIs
  <2>3. \A i \in 1 .. Len(s) : SubSeq(t, 1, Len(s))[i] = t[i]
    BY <2>1
  <2>4. \A i \in 1 .. k : u[i] = t[i]
    BY <1>1, <2>1, <2>2, <2>3
  <2>5. Len(u) <= Len(t)
    BY <1>1, <2>1
  <2> QED
    BY <1>1, <2>4, <2>5, PrefixIs
<1> QED
  BY <1>1, <1>2 DEF u

LEMMA SavedKeeps ==
  ASSUME IndInv, NEW n \in Served, NEW f \in Seq(Bytes) \cup {NoFile},
         incoming' = [incoming EXCEPT ![n] = f],
         f # NoFile => Len(f) <= BufSize /\ (EmptyLinesIn(Body) = {} => IsPrefix(f, Body))
  PROVE  /\ incoming' \in [Names -> Seq(Bytes) \cup {NoFile}]
         /\ IncomingFits' /\ SavedIsBody'
<1>1. /\ n \in Names /\ Served \subseteq Names
      /\ incoming \in [Names -> Seq(Bytes) \cup {NoFile}] /\ IncomingFits /\ SavedIsBody
  BY PkgAssumption DEF IndInv, FilesInv, VarsOK
<1>2. /\ incoming' \in [Names -> Seq(Bytes) \cup {NoFile}]
      /\ \A m \in Names : incoming'[m] = IF m = n THEN f ELSE incoming[m]
  BY <1>1
<1>3. IncomingFits'
  BY <1>1, <1>2 DEF IncomingFits
<1>4. SavedIsBody'
  BY <1>1, <1>2 DEF SavedIsBody
<1> QED
  BY <1>2, <1>3, <1>4

LEMMA DownloadStep ==
  ASSUME IndInv, NEW n \in Served, Download(n) \/ DownloadFails(n)
  PROVE  IndInv'
<1>1. UNCHANGED <<files, lists, db, job, hist>>
  BY DEF Download, DownloadFails
<1>2. fails' \in 0 .. MaxFails
  BY PkgAssumption DEF Download, DownloadFails, Failing, IndInv, FilesInv, VarsOK
<1>3. Body \in Seq(Bytes)
  BY PkgAssumption
<1>4. \E f \in Seq(Bytes) \cup {NoFile} :
        /\ incoming' = [incoming EXCEPT ![n] = f]
        /\ f # NoFile => Len(f) <= BufSize /\ (EmptyLinesIn(Body) = {} => IsPrefix(f, Body))
  <2>1. CASE Download(n)
    <3>1. PICK got \in Downloads : incoming' = [incoming EXCEPT ![n] = got]
      BY <2>1 DEF Download
    <3> QED
      BY <3>1, DownloadsAre
  <2>2. CASE DownloadFails(n)
    <3>1. PICK got \in Downloads :
            \E left \in {NoFile} \cup {SubSeq(got, 1, k) : k \in 0 .. Len(got) - 1} :
              incoming' = [incoming EXCEPT ![n] = left]
      BY <2>2 DEF DownloadFails
    <3>2. PICK left \in {NoFile} \cup {SubSeq(got, 1, k) : k \in 0 .. Len(got) - 1} :
            incoming' = [incoming EXCEPT ![n] = left]
      BY <3>1
    <3>3. got \in Seq(Bytes) /\ Len(got) <= BufSize /\ (EmptyLinesIn(Body) = {} => IsPrefix(got, Body))
      BY DownloadsAre
    <3>4. CASE left = NoFile
      BY <3>2, <3>4
    <3>5. CASE left # NoFile
      <4>1. PICK k \in 0 .. Len(got) - 1 : left = SubSeq(got, 1, k)
        BY <3>2, <3>5
      <4>2. k \in 0 .. Len(got) /\ k <= BufSize
        BY <3>3, <4>1, PkgAssumption
      <4>3. /\ left \in Seq(Bytes) /\ Len(left) = k
            /\ \A t \in Seq(Bytes) : IsPrefix(got, t) => IsPrefix(left, t)
        BY <3>3, <4>1, <4>2, ShorterIs
      <4> QED
        BY <1>3, <3>2, <3>3, <4>2, <4>3
    <3> QED
      BY <3>4, <3>5
  <2> QED
    BY <2>1, <2>2
<1>5. /\ incoming' \in [Names -> Seq(Bytes) \cup {NoFile}]
      /\ IncomingFits' /\ SavedIsBody'
  BY <1>4, SavedKeeps
<1>6. FilesInv'
  BY <1>1, <1>2, <1>5, DownloadKeeps DEF IndInv
<1> QED
  BY <1>5, <1>6 DEF IndInv

LEMMA WorkStep ==
  ASSUME FilesInv, Work \/ Fault \/ \E n \in Names : PkgInstall(n) \/ PkgRemove(n)
  PROVE  FilesInv' /\ UNCHANGED incoming
<1>1. CASE OpenSpk
  BY <1>1, OpenSpkKeeps DEF OpenSpk
<1>2. CASE Extract
  BY <1>2, ExtractKeeps DEF Extract
<1>3. CASE SaveList
  BY <1>3, SaveListKeeps DEF SaveList
<1>4. CASE DbAdd
  BY <1>4, DbAddKeeps DEF DbAdd
<1>5. CASE Rollback
  BY <1>5, RollbackKeeps DEF Rollback
<1>6. CASE Unlink
  BY <1>6, UnlinkKeeps DEF Unlink
<1>7. CASE UnlinkList
  BY <1>7, UnlinkListKeeps DEF UnlinkList
<1>8. CASE DbRemove
  BY <1>8, DbRemoveKeeps DEF DbRemove
<1>9. CASE ExtractFails
  BY <1>9, ExtractFailsKeeps DEF ExtractFails
<1>10. CASE SaveListFails
  BY <1>10, SaveListFailsKeeps DEF SaveListFails
<1>11. CASE DbAddFails
  BY <1>11, DbAddFailsKeeps DEF DbAddFails
<1>12. CASE DbRemoveFails
  BY <1>12, DbRemoveFailsKeeps DEF DbRemoveFails
<1>13. CASE PowerFails
  BY <1>13, PowerFailsKeeps DEF PowerFails
<1>14. CASE \E n \in Names : PkgInstall(n) \/ PkgRemove(n)
  BY <1>14, PkgInstallKeeps, PkgRemoveKeeps DEF PkgInstall, PkgRemove
<1>15. CASE EnsureParentDir
  BY <1>15, EnsureParentDirKeeps DEF EnsureParentDir
<1> QED
  BY <1>1, <1>2, <1>3, <1>4, <1>5, <1>6, <1>7, <1>8, <1>9, <1>10, <1>11, <1>12, <1>13, <1>14, <1>15
     DEF Work, Fault

LEMMA Step_IndInv ==
  ASSUME IndInv, [Next]_vars
  PROVE  IndInv'
<1>1. CASE \E n \in Served : Download(n) \/ DownloadFails(n)
  BY <1>1, DownloadStep
<1>2. CASE Work \/ Fault \/ \E n \in Names : PkgInstall(n) \/ PkgRemove(n)
  <2>1. FilesInv' /\ UNCHANGED incoming
    BY <1>2, WorkStep DEF IndInv
  <2> QED
    BY <2>1 DEF IndInv, IncomingFits, SavedIsBody
<1>3. CASE UNCHANGED vars
  <2>1. UNCHANGED <<files, lists, db, job, hist>> /\ UNCHANGED incoming /\ UNCHANGED fails
    BY <1>3 DEF vars
  <2>2. incoming' \in [Names -> Seq(Bytes) \cup {NoFile}] /\ fails' \in 0 .. MaxFails
    BY <2>1 DEF IndInv, FilesInv, VarsOK
  <2>3. FilesInv'
    BY <2>1, <2>2, DownloadKeeps DEF IndInv
  <2> QED
    BY <2>1, <2>3 DEF IndInv, IncomingFits, SavedIsBody
<1> QED
  BY <1>1, <1>2, <1>3 DEF Next

LEMMA Init_IndInv ==
  ASSUME Init
  PROVE  IndInv
<1>1. /\ incoming = [n \in Names |-> IF n \in Served THEN NoFile ELSE Body]
      /\ Served \subseteq Names /\ Body \in Seq(Bytes)
  BY PkgAssumption DEF Init
<1>2. IncomingFits
  BY <1>1 DEF IncomingFits
<1>3. IsPrefix(Body, Body)
  BY <1>1, PrefixIs
<1>4. SavedIsBody
  BY <1>1, <1>3 DEF SavedIsBody
<1> QED
  BY <1>2, <1>4, FilesInit DEF IndInv
-----------------------------------------------------------------------------
(* The inductive invariant: what each place in pkg_install() and           *)
(* pkg_remove() knows of the files, the list and the lines of the package  *)
(* at work, and what is left behind by those that were interrupted.        *)
THEOREM IndInvariant == Spec => []IndInv
BY Init_IndInv, Step_IndInv, PTL DEF Spec

(* http_get() saves a package from its first byte on, however tcp_recv()   *)
(* cuts the response, as long as the package holds no empty line.          *)
THEOREM SavesFirstBytes == Spec => []SavedIsBody
<1>1. IndInv => SavedIsBody
  BY DEF IndInv
<1> QED
  BY <1>1, IndInvariant, PTL

(* pkg_install() and pkg_remove(): what is registered is on the disk and   *)
(* in its list, once, and of what is not no file is there whole, with      *)
(* failing writes and power cuts between any two steps; but for the        *)
(* packages some of whose files ensure_parent_dir() has hidden, and the    *)
(* lists and the leavings of those with a name of 8 characters.            *)
THEOREM DatabaseMatches == Spec => []FilesMatchDb
<1>1. ASSUME IndInv PROVE FilesMatchDb
  <2>1. VarsOK /\ JobOK /\ FitsDb /\ HeldRecorded /\ Listed /\ ListsRecorded /\ OneLine
        /\ NoOrphans /\ InstalledWhole
    BY <1>1 DEF IndInv, FilesInv
  <2>2. TypeOK
    BY <1>1, <2>1 DEF IndInv, IncomingFits, TypeOK, VarsOK, FitsDb, JobType
  <2>3. Accounted
    <3> SUFFICES ASSUME NEW n \in Names \ Eight, IsInstalled(n), NEW p \in Paths, Holds(p, n)
                 PROVE  p \in ToSet(ListOf(n))
      BY DEF Accounted, Found
    <3>1. lists[n] # NoList /\ ToSet(lists[n]) = ToSet(Records[n])
      BY <2>1 DEF Listed, HoldsOnly
    <3> QED
      BY <2>1, <3>1 DEF HeldRecorded, Holds, ListOf
  <2> QED
    BY <2>1, <2>2, <2>3 DEF FilesMatchDb
<1> QED
  BY <1>1, IndInvariant, PTL

(* pkg_solve_deps() and pkg_install(): the package that pkg_install() was  *)
(* called for is registered after all that its own header names.  What     *)
(* the headers of those name is not looked at.                             *)
Registers == job.at = "register" /\ job'.at = None /\ fails' = fails
  => \A d \in ToSet(Deps[This]) : IsInstalled(d)'

THEOREM DependenciesFirst == Spec => DepsFirst
<1>1. ASSUME IndInv, [Next]_vars, job.at = "register", job'.at = None, fails' = fails
      PROVE  \A d \in ToSet(Deps[This]) : IsInstalled(d)'
  <2>1. VarsOK /\ JobOK /\ DepsComing /\ fails \in Nat /\ ~ Jobless
    BY <1>1, PkgAssumption DEF IndInv, FilesInv, VarsOK, Jobless, None
  <2>2. ~ Failing
    BY <1>1, <2>1 DEF Failing
  <2>3. DbAdd
    <3>1. ~ UNCHANGED vars
      BY <1>1 DEF vars, None
    <3>2. ~ Fault
      BY <1>1, <2>2 DEF Fault, ExtractFails, SaveListFails, DbAddFails, DbRemoveFails, DbLosesLines,
                        PowerFails
    <3>3. /\ ~ \E n \in Served : Download(n) \/ DownloadFails(n)
          /\ ~ \E n \in Names : PkgInstall(n) \/ PkgRemove(n)
      BY <2>1 DEF Download, DownloadFails, PkgInstall, PkgRemove
    <3>4. Work => DbAdd
      BY <1>1 DEF Work, OpenSpk, EnsureParentDir, Extract, SaveList, Rollback, Unlink, UnlinkList,
                  DbRemove
    <3> QED
      BY <1>1, <3>1, <3>2, <3>3, <3>4 DEF Next
  <2>4. /\ This \in Names /\ Deps[This] \in Seq(Names) /\ job.order \in Seq(Names)
        /\ job.i \in 1 .. Len(job.order)
    BY <2>1, ThisIs
  <2>5. job \in JobType
    BY <2>1 DEF VarsOK
  <2>6. DbHasRoom /\ db' = Append(db, This) /\ job' = Registered
    <3>1. job' = [job EXCEPT !.at = "rollback"] => job'.at = "rollback"
      BY <2>5 DEF JobType
    <3> QED
      BY <1>1, <2>3, <3>1 DEF DbAdd, Step, None
  <2>7. job.i = Len(job.order)
    <3>1. [NoJob EXCEPT !.at = "open", !.order = job.order, !.i = job.i + 1].at = "open"
      BY DEF NoJob
    <3> QED
      BY <1>1, <2>6, <3>1 DEF Registered, None
  <2>8. Asked = This
    BY <2>7 DEF Asked, This
  <2>9. db \in Seq(Names) /\ \A m \in Names : IsInstalled(m) <=> m \in Lines
    BY <2>1, InstalledIs DEF VarsOK
  <2>10. db' \in Seq(Names) /\ Lines' = Lines \cup {This}
    BY <2>4, <2>6, <2>9, AppendIs DEF Lines
  <2>11. \A m \in Names : IsInstalled(m)' <=> m \in Lines'
    BY <2>10, InstalledNext
  <2>12. ASSUME NEW d \in ToSet(Deps[This]) PROVE IsInstalled(d)'
    <3>1. d \in Names
      BY <2>4 DEF ToSet
    <3>2. IsInstalled(d) \/ \E j \in job.i .. Len(job.order) : job.order[j] = d
      BY <1>1, <2>1, <2>8 DEF DepsComing
    <3>3. \A j \in job.i .. Len(job.order) : j = job.i
      BY <2>4, <2>7
    <3>4. IsInstalled(d) \/ d = This
      BY <3>2, <3>3 DEF This
    <3> QED
      BY <2>9, <2>10, <2>11, <3>1, <3>4
  <2> QED
    BY <2>12
<1>2. IndInv /\ [Next]_vars => [Registers]_vars
  BY <1>1 DEF Registers
<1>3. Spec => [][Registers]_vars
  BY <1>2, IndInvariant, PTL DEF Spec
<1> QED
  BY <1>3 DEF DepsFirst, Registers
=============================================================================
