---------------------------- MODULE ProcessProofs ----------------------------
(***************************************************************************)
(* Whatever the process sample, the loop of Plan::build reviews the family *)
(* of the selected process. Whatever processes start, exit and use PIDs    *)
(* again, "End process tree" terminates only processes the user confirmed, *)
(* who still belong to that family, and holds every one that still runs    *)
(* before it terminates the first. The order of the process table is a     *)
(* strict total order, as a sort needs one, and the sums of GPU readings   *)
(* that a tree displays do not depend on the order in which they are       *)
(* added. Whatever samples come between two clicks, the table is of the    *)
(* newest one, and a dialog sends the process it was opened for.           *)
(***************************************************************************)
EXTENDS EndTree, ProcessWalk, ProcessOrder, ProcessTable, ProcessPage, TLAPS,
        FiniteSetTheorems, WellFoundedInduction

\* The list at the worker is one the user confirmed.
JobConfirmed ==
    job # None => \A i \in DOMAIN job.targets : Id(job.targets[i].id) \in confirmed

\* Every handle was opened on a confirmed process.
HandlesConfirmed == handles \in Seq(confirmed)

\* Only a request is verified.
VerifiesAJob == phase = "verify" => job # None

KillInv == JobConfirmed /\ HandlesConfirmed /\ VerifiesAJob /\ OnlyConfirmed

\* What Verified compares is enough to know the process behind the handle.
LEMMA VerifiedIsReviewed ==
    ASSUME NEW target, Verified(target)
    PROVE  IdAt(target.id.pid) = Id(target.id)
BY DEF Verified, IdAt, Id

\* Steps that leave the worker and the histories alone, and their stutters.
LEMMA Elsewhere ==
    ASSUME KillInv, UNCHANGED <<job, phase, handles, confirmed, killed>>
    PROVE  KillInv'
BY DEF KillInv, JobConfirmed, HandlesConfirmed, VerifiesAJob, OnlyConfirmed

\* The worker's early returns and its last step.
LEMMA ReturnKeepsInv ==
    ASSUME KillInv, Return, UNCHANGED <<confirmed, killed>>
    PROVE  KillInv'
BY DEF KillInv, JobConfirmed, HandlesConfirmed, VerifiesAJob, OnlyConfirmed, Return

\* A step of the system keeps the three parts of the invariant.
LEMMA KillInvStep == KillInv /\ [Next]_vars => KillInv'
<1> SUFFICES ASSUME KillInv, [Next]_vars PROVE KillInv'
    OBVIOUS
<1>1. CASE World
  BY <1>1, Elsewhere DEF World, Spawn, Exit, Tick, workerVars
<1>2. CASE Dialog
  <2>1. CASE Confirm
    <3>1. \A i \in DOMAIN job'.targets : Id(job'.targets[i].id) \in confirmed'
      BY <2>1 DEF Confirm
    <3>2. handles' \in Seq(confirmed') /\ killed' \subseteq confirmed'
      BY <2>1 DEF Confirm, KillInv, OnlyConfirmed
    <3>3. job' # None
      BY <2>1 DEF Confirm, Current
    <3> QED  BY <3>1, <3>2, <3>3 DEF VerifiesAJob, KillInv, JobConfirmed, HandlesConfirmed, OnlyConfirmed
  <2>2. CASE Sample \/ (\E row \in rows : Request(row)) \/ (\E s \in Scopes : Refresh(s)) \/ Cancel
    BY <2>2, Elsewhere DEF Sample, Request, Refresh, Cancel, workerVars
  <2> QED  BY <1>2, <2>1, <2>2 DEF Dialog
<1>3. CASE Verify
  <2> DEFINE target == job.targets[next]
  <2>1. CASE Return
    BY <1>3, <2>1, ReturnKeepsInv DEF Verify
  <2>2. CASE UNCHANGED <<job, phase, handles>>
    BY <1>3, <2>2, Elsewhere DEF Verify
  <2>3. CASE /\ Verified(target)
             /\ handles' = Append(handles, IdAt(target.id.pid))
             /\ UNCHANGED <<job, phase>>
    <3>1. Id(target.id) \in confirmed
      BY <1>3 DEF Verify, KillInv, VerifiesAJob, JobConfirmed
    <3>2. IdAt(target.id.pid) \in confirmed
      BY <2>3, <3>1, VerifiedIsReviewed
    <3>3. handles' \in Seq(confirmed)
      BY <2>3, <3>2 DEF KillInv, HandlesConfirmed
    <3>4. UNCHANGED <<job, phase, confirmed, killed>>
      BY <1>3, <2>3 DEF Verify
    <3> QED  BY <3>3, <3>4 DEF KillInv, JobConfirmed, HandlesConfirmed, VerifiesAJob, OnlyConfirmed
  <2> QED  BY <1>3, <2>1, <2>2, <2>3 DEF Verify
<1>4. CASE AllVerified
  BY <1>4 DEF AllVerified, KillInv, JobConfirmed, HandlesConfirmed, VerifiesAJob, OnlyConfirmed
<1>5. CASE Kill
  <2>1. handles[next] \in confirmed
    BY <1>5 DEF Kill, KillInv, HandlesConfirmed
  <2> QED  BY <1>5, <2>1 DEF Kill, KillInv, JobConfirmed, HandlesConfirmed, VerifiesAJob, OnlyConfirmed
<1>6. CASE Finish
  BY <1>6, ReturnKeepsInv DEF Finish
<1>7. CASE UNCHANGED vars
  BY <1>7, Elsewhere DEF vars
<1> QED  BY <1>1, <1>2, <1>3, <1>4, <1>5, <1>6, <1>7 DEF Next, Worker

\* Every process that is sent a termination request is one the user confirmed,
\* in this life of its PID (terminate_tree acts on verified handles only).
THEOREM TerminatesOnlyConfirmed == Spec => []OnlyConfirmed
<1>1. Init => KillInv
  BY DEF Init, KillInv, JobConfirmed, HandlesConfirmed, VerifiesAJob, OnlyConfirmed
<1>2. KillInv => OnlyConfirmed
  BY DEF KillInv
<1> QED  BY <1>1, <1>2, KillInvStep, PTL DEF Spec
-----------------------------------------------------------------------------
(* Induction over sets of natural numbers *)

LEMMA LeastNumber ==
    ASSUME NEW T \in SUBSET Nat, T # {}
    PROVE  \E x \in T : \A y \in T : x <= y
<1> DEFINE less == {p \in Nat \X Nat : p[1] < p[2]}
<1>1. IsWellFoundedOn(less, Nat)
  <2>1. OpToRel(<, Nat) = less
    BY Zenon DEF OpToRel
  <2> QED  BY <2>1, NatLessThanWellFounded, Zenon
<1>2. \E x \in T : \A y \in T : <<y, x>> \notin less
  <2> HIDE DEF less
  <2> QED  BY <1>1, WFMin
<1>3. PICK x \in T : \A y \in T : <<y, x>> \notin less
  BY <1>2
<1>4. ASSUME NEW y \in T PROVE x <= y
  <2>1. x \in Nat /\ y \in Nat /\ <<y, x>> \in Nat \X Nat
    OBVIOUS
  <2>2. ~(y < x)
    BY <1>3, <2>1
  <2> QED  BY <2>1, <2>2
<1> QED  BY <1>4

LEMMA SetInduction ==
    ASSUME NEW T, 0 \in T, \A n \in Nat : n \in T => n + 1 \in T
    PROVE  \A n \in Nat : n \in T
<1> SUFFICES ASSUME Nat \ T # {} PROVE FALSE
    OBVIOUS
<1>1. PICK x \in Nat \ T : \A y \in Nat \ T : x <= y
  <2>1. Nat \ T \in SUBSET Nat
    OBVIOUS
  <2> QED  BY <2>1, LeastNumber
<1>2. x - 1 \in Nat /\ x - 1 \in T
  BY <1>1
<1>3. x - 1 + 1 = x
  BY <1>1
<1> QED  BY <1>1, <1>2, <1>3

\* A function of the naturals that is defined by its first value and a step exists.
LEMMA Iterates ==
    ASSUME NEW W, NEW s \in W, NEW step \in [W -> W]
    PROVE  \E f \in [Nat -> W] : f[0] = s /\ \A n \in Nat : f[n + 1] = step[f[n]]
<1> DEFINE Upto(n) == {g \in [0..n -> W] : g[0] = s /\ \A k \in 1..n : g[k] = step[g[k - 1]]}
           T == {n \in Nat : Upto(n) # {}}
<1>1. 0 \in T
  <2>1. [k \in 0..0 |-> s] \in Upto(0)
    OBVIOUS
  <2> QED  BY <2>1
<1>2. ASSUME NEW n \in Nat, n \in T PROVE n + 1 \in T
  <2>1. PICK g \in [0..n -> W] : g[0] = s /\ \A k \in 1..n : g[k] = step[g[k - 1]]
    BY <1>2
  <2> DEFINE h == [k \in 0..(n + 1) |-> IF k = n + 1 THEN step[g[n]] ELSE g[k]]
  <2>2. h \in [0..(n + 1) -> W]
    OBVIOUS
  <2>3. h[0] = s /\ \A k \in 1..(n + 1) : h[k] = step[h[k - 1]]
    BY <2>1
  <2>4. h \in Upto(n + 1)
    <3> HIDE DEF h
    <3> QED  BY <2>2, <2>3
  <2> QED  BY <2>4
<1>3. \A n \in Nat : Upto(n) # {}
  <2>1. \A n \in Nat : n \in T
    <3> HIDE DEF T
    <3> QED  BY <1>1, <1>2, SetInduction
  <2> QED  BY <2>1
<1> DEFINE G(n) == CHOOSE g \in Upto(n) : TRUE
<1>4. \A n \in Nat : G(n) \in Upto(n)
  BY <1>3
<1> HIDE DEF G, Upto
<1>5. ASSUME NEW n \in Nat PROVE G(n + 1)[n] = G(n)[n]
  <2> DEFINE Equal == {k \in Nat : k <= n => G(n + 1)[k] = G(n)[k]}
  <2>1. G(n) \in Upto(n) /\ G(n + 1) \in Upto(n + 1)
    <3>1. n + 1 \in Nat
      OBVIOUS
    <3> QED  BY <1>4, <3>1
  <2>2. PICK a \in Upto(n), b \in Upto(n + 1) : a = G(n) /\ b = G(n + 1)
    BY <2>1
  <2>3. 0 \in Equal
    BY <2>2 DEF Upto
  <2>4. ASSUME NEW k \in Nat, k \in Equal PROVE k + 1 \in Equal
    <3>1. CASE k + 1 <= n
      <4>1. k + 1 \in 1..n /\ k + 1 \in 1..(n + 1) /\ (k + 1) - 1 = k
        BY <3>1
      <4>2. a[k] = b[k]
        BY <2>2, <2>4, <3>1
      <4>3. a[k + 1] = step[a[k]] /\ b[k + 1] = step[b[k]]
        BY <4>1 DEF Upto
      <4> QED  BY <2>2, <4>2, <4>3
    <3> QED  BY <3>1
  <2>5. \A k \in Nat : k \in Equal
    <3> HIDE DEF Equal
    <3> QED  BY <2>3, <2>4, SetInduction
  <2>6. n \in Equal
    BY <2>5
  <2> QED  BY <2>6
<1> DEFINE f == [n \in Nat |-> G(n)[n]]
<1>6. f \in [Nat -> W]
  <2>1. ASSUME NEW n \in Nat PROVE G(n)[n] \in W
    <3>1. G(n) \in [0..n -> W]
      BY <1>4 DEF Upto
    <3> QED  BY <3>1
  <2> QED  BY <2>1
<1>7. ASSUME NEW n \in Nat PROVE f[n] = IF n = 0 THEN s ELSE step[f[n - 1]]
  <2>1. CASE n = 0
    BY <1>4, <2>1 DEF Upto
  <2>2. CASE n # 0
    <3>1. PICK m \in Nat : m + 1 = n /\ n - 1 = m /\ n \in 1..n
      <4>1. n - 1 \in Nat /\ (n - 1) + 1 = n /\ n \in 1..n
        BY <2>2
      <4> QED  BY <4>1
    <3>2. G(n) \in Upto(n)
      BY <1>4
    <3>3. G(n)[n] = step[G(n)[n - 1]]
      BY <3>1, <3>2 DEF Upto
    <3>4. G(n)[n - 1] = G(n - 1)[n - 1]
      BY <1>5, <3>1
    <3> QED  BY <2>2, <3>1, <3>3, <3>4
  <2> QED  BY <2>1, <2>2
<1>8. f[0] = s /\ \A n \in Nat : f[n + 1] = step[f[n]]
  <2>1. \A n \in Nat : n + 1 \in Nat /\ n + 1 # 0 /\ (n + 1) - 1 = n
    OBVIOUS
  <2> HIDE DEF f
  <2> QED  BY <1>7, <2>1
<1> QED  BY <1>6, <1>8

\* A finite set whose subsets have a first element each can be put in that order.
LEMMA OrderExists ==
    ASSUME NEW A, NEW R, NEW S \in SUBSET A, IsFiniteSet(S),
           \A T \in SUBSET A : T # {} => \E x \in T : \A y \in T \ {x} : <<x, y>> \in R
    PROVE  \E s \in [1..Cardinality(S) -> S] :
              \A i, j \in DOMAIN s : i < j => <<s[i], s[j]>> \in R
<1> DEFINE InOrder(T, n) ==
              \E s \in [1..n -> T] : /\ \A i, j \in 1..n : i < j => <<s[i], s[j]>> \in R
                                     /\ \A x \in T : \E i \in 1..n : s[i] = x
           K == {n \in Nat : \A T \in SUBSET A :
                    IsFiniteSet(T) /\ Cardinality(T) = n => InOrder(T, n)}
<1>1. 0 \in K
  <2> SUFFICES ASSUME NEW T \in SUBSET A, IsFiniteSet(T), Cardinality(T) = 0 PROVE InOrder(T, 0)
    OBVIOUS
  <2>1. T = {}
    BY FS_EmptySet
  <2>2. PICK s \in [1..0 -> T] : TRUE
    <3>1. [i \in 1..0 |-> i] \in [1..0 -> T]
      OBVIOUS
    <3> QED  BY <3>1
  <2>3. \A i \in 1..0 : FALSE
    OBVIOUS
  <2>4. /\ \A i, j \in 1..0 : i < j => <<s[i], s[j]>> \in R
        /\ \A x \in T : \E i \in 1..0 : s[i] = x
    BY <2>1, <2>3
  <2> QED  BY <2>4
<1>2. ASSUME NEW n \in Nat, n \in K PROVE n + 1 \in K
  <2> SUFFICES ASSUME NEW T \in SUBSET A, IsFiniteSet(T), Cardinality(T) = n + 1
               PROVE  InOrder(T, n + 1)
    OBVIOUS
  <2>1. T # {}
    BY FS_EmptySet
  <2>2. PICK x \in T : \A y \in T \ {x} : <<x, y>> \in R
    BY <2>1
  <2>3. IsFiniteSet(T \ {x}) /\ Cardinality(T \ {x}) = n
    <3>1. x \in T /\ IsFiniteSet(T \ {x}) /\ Cardinality(T \ {x}) = Cardinality(T) - 1
      BY <2>2, FS_RemoveElement, Zenon
    <3> QED  BY <3>1
  <2>4. PICK s \in [1..n -> T \ {x}] : /\ \A i, j \in 1..n : i < j => <<s[i], s[j]>> \in R
                                       /\ \A y \in T \ {x} : \E i \in 1..n : s[i] = y
    <3>1. T \ {x} \in SUBSET A
      OBVIOUS
    <3>2. InOrder(T \ {x}, n)
      BY <1>2, <2>3, <3>1
    <3> QED  BY <3>2
  <2>5. PICK t \in [1..(n + 1) -> T] : t = [i \in 1..(n + 1) |-> IF i = 1 THEN x ELSE s[i - 1]]
    <3>1. \A i \in 1..(n + 1) : i # 1 => i - 1 \in 1..n
      OBVIOUS
    <3> QED  BY <2>2, <3>1
  <2>6. ASSUME NEW i \in 1..(n + 1), NEW j \in 1..(n + 1), i < j PROVE <<t[i], t[j]>> \in R
    <3>1. j - 1 \in 1..n /\ t[j] = s[j - 1] /\ t[j] \in T \ {x}
      BY <2>5, <2>6
    <3>2. CASE i = 1
      <4>1. t[i] = x
        BY <2>5, <3>2
      <4> QED  BY <2>2, <3>1, <4>1
    <3>3. CASE i # 1
      <4>1. i - 1 \in 1..n /\ t[i] = s[i - 1] /\ i - 1 < j - 1
        BY <2>5, <2>6, <3>3
      <4> QED  BY <2>4, <3>1, <4>1
    <3> QED  BY <3>2, <3>3
  <2>7. ASSUME NEW y \in T PROVE \E i \in 1..(n + 1) : t[i] = y
    <3>1. CASE y = x
      <4>1. 1 \in 1..(n + 1) /\ t[1] = x
        BY <2>5
      <4> QED  BY <3>1, <4>1
    <3>2. CASE y # x
      <4>1. PICK i \in 1..n : s[i] = y
        BY <2>4, <3>2
      <4>2. i + 1 \in 1..(n + 1) /\ t[i + 1] = s[i]
        <5>1. i + 1 \in 1..(n + 1) /\ i + 1 # 1 /\ (i + 1) - 1 = i
          OBVIOUS
        <5> QED  BY <2>5, <5>1
      <4> QED  BY <4>1, <4>2
    <3> QED  BY <3>1, <3>2
  <2> QED  BY <2>6, <2>7
<1>3. Cardinality(S) \in Nat
  BY FS_CardinalityType
<1>4. \A n \in Nat : n \in K
  <2> HIDE DEF K
  <2> QED  BY <1>1, <1>2, SetInduction
<1>5. InOrder(S, Cardinality(S))
  BY <1>3, <1>4
<1> QED  BY <1>5

\* Rows of different processes.
Distinct(set) == \A a, b \in set : a.pid = b.pid => a = b

LEMMA RowFields ==
    ASSUME NEW row \in Row
    PROVE  /\ row.pid \in Pids /\ row.pid \in Nat /\ row.created \in Nat
           /\ row.parent \in Pids \cup {None} /\ row.path \in Paths \cup {None}
BY ProcessTreeAssumption DEF Row

LEMMA RowsAreFinite ==
    ASSUME NEW set \in SUBSET Row, Distinct(set) PROVE IsFiniteSet(set)
<1> DEFINE f == [row \in set |-> row.pid]
<1>1. f \in Injection(set, Pids)
  BY DEF Injection, IsInjective, Distinct, Row
<1> QED  BY <1>1, FS_Injection, ProcessTreeAssumption

LEMMA SortedByAge ==
    ASSUME NEW set \in SUBSET Row, Distinct(set)
    PROVE  LET s == Arranged(set, ByAge)
           IN  /\ s \in [1..Cardinality(set) -> set] /\ Cardinality(set) \in Nat
               /\ \A i, j \in DOMAIN s : i < j => ByAge(s[i], s[j])
<1> DEFINE R == {p \in Row \X Row : ByAge(p[1], p[2])}
<1>1. ASSUME NEW T \in SUBSET set, T # {} PROVE \E x \in T : \A y \in T \ {x} : <<x, y>> \in R
  <2>1. PICK c \in {row.created : row \in T} : \A d \in {row.created : row \in T} : c <= d
    <3>1. {row.created : row \in T} \in SUBSET Nat /\ {row.created : row \in T} # {}
      BY <1>1 DEF Row
    <3> QED  BY <3>1, LeastNumber
  <2> DEFINE U == {row.pid : row \in {r \in T : r.created = c}}
  <2>2. PICK p \in U : \A q \in U : p <= q
    <3>1. U \in SUBSET Nat /\ U # {}
      <4>1. \A row \in T : row.pid \in Nat
        BY RowFields
      <4> QED  BY <2>1, <4>1
    <3> HIDE DEF U
    <3> QED  BY <3>1, LeastNumber
  <2>3. PICK x \in T : x.created = c /\ x.pid = p
    BY <2>2
  <2>4. ASSUME NEW y \in T \ {x} PROVE <<x, y>> \in R
    <3>1. x \in Row /\ y \in Row /\ x.pid # y.pid
      BY <2>3, <2>4 DEF Distinct
    <3>2. x.created <= y.created
      BY <2>1, <2>3
    <3>3. x.created = y.created => x.pid <= y.pid
      BY <2>2, <2>3
    <3>4. ByAge(x, y)
      <4>1. x.created \in Nat /\ y.created \in Nat /\ x.pid \in Nat /\ y.pid \in Nat
        BY <3>1, RowFields
      <4> QED  BY <3>1, <3>2, <3>3, <4>1 DEF ByAge
    <3> QED  BY <3>1, <3>4
  <2> QED  BY <2>4
<1>2. IsFiniteSet(set)
  BY RowsAreFinite
<1>3. PICK s \in [1..Cardinality(set) -> set] : \A i, j \in DOMAIN s : i < j => <<s[i], s[j]>> \in R
  <2> HIDE DEF R
  <2> QED  BY <1>1, <1>2, OrderExists
<1>4. \A i, j \in DOMAIN s : i < j => ByAge(s[i], s[j])
  BY <1>3
<1> QED  BY <1>2, <1>4, FS_CardinalityType DEF Arranged

LEMMA SortedByPid ==
    ASSUME NEW set \in SUBSET Row, Distinct(set)
    PROVE  LET s == Arranged(set, ByPid)
           IN  /\ s \in [1..Cardinality(set) -> set] /\ Cardinality(set) \in Nat
               /\ \A i, j \in DOMAIN s : i < j => ByPid(s[i], s[j])
<1> DEFINE R == {p \in Row \X Row : ByPid(p[1], p[2])}
<1>1. ASSUME NEW T \in SUBSET set, T # {} PROVE \E x \in T : \A y \in T \ {x} : <<x, y>> \in R
  <2>1. PICK p \in {row.pid : row \in T} : \A q \in {row.pid : row \in T} : p <= q
    <3>1. {row.pid : row \in T} \in SUBSET Nat /\ {row.pid : row \in T} # {}
      BY <1>1, RowFields
    <3> QED  BY <3>1, LeastNumber
  <2>2. PICK x \in T : x.pid = p
    BY <2>1
  <2>3. ASSUME NEW y \in T \ {x} PROVE <<x, y>> \in R
    <3>1. x \in Row /\ y \in Row /\ x.pid # y.pid /\ x.pid <= y.pid
      BY <2>1, <2>2, <2>3 DEF Distinct
    <3>2. ByPid(x, y)
      BY <3>1, RowFields DEF ByPid
    <3> QED  BY <3>1, <3>2
  <2> QED  BY <2>3
<1>2. IsFiniteSet(set)
  BY RowsAreFinite
<1>3. PICK s \in [1..Cardinality(set) -> set] : \A i, j \in DOMAIN s : i < j => <<s[i], s[j]>> \in R
  <2> HIDE DEF R
  <2> QED  BY <1>1, <1>2, OrderExists
<1>4. \A i, j \in DOMAIN s : i < j => ByPid(s[i], s[j])
  BY <1>3
<1> QED  BY <1>2, <1>4, FS_CardinalityType DEF Arranged

-----------------------------------------------------------------------------
(* What Build returns *)

\* A parent in the queue or on the list is a known row that the sample names as the
\* parent of this one, and that is not younger.
Parented(set, row, parent) ==
    parent = None \/ \E mother \in set : /\ mother.created # 0 /\ parent = Id(mother)
                                         /\ row \in Younger(set, mother)

Queued(set) == {e \in [row : set, parent : Identity \cup {None}] : Parented(set, e.row, e.parent)}

Reviewed(set) ==
    {t \in Target : \E row \in set : t.id = Id(row) /\ Parented(set, row, t.parent)}

Walks(set, top, span) ==
    {w \in [pending : Seq(Queued(set)), seen : SUBSET Pids, targets : Seq(Reviewed(set)),
            failed : BOOLEAN] : ~w.failed => ~Refused(set, top, span)}

LEMMA IdIsIdentity ==
    ASSUME NEW row \in Row, row.created # 0
    PROVE  Id(row) \in Identity /\ Id(row).pid = row.pid /\ Id(row).created = row.created
BY RowFields DEF Id, Identity

LEMMA StartType ==
    ASSUME NEW set \in SUBSET Row, Distinct(set), NEW top, NEW span
    PROVE  Start(set, top, span) \in Walks(set, top, span)
<1> DEFINE S == Roots(set, top, span)
<1>1. S \in SUBSET set /\ S \in SUBSET Row /\ Distinct(S)
  BY DEF Roots, Selected, SamePath, Distinct
<1> HIDE DEF S
<1>2. PICK n \in Nat : \E s \in [1..n -> S] : s = Arranged(S, ByAge)
  BY <1>1, SortedByAge
<1> PICK s \in [1..n -> S] : s = Arranged(S, ByAge)
  BY <1>2
<1>3. \A row \in S : [row |-> row, parent |-> None] \in Queued(set)
  BY <1>1 DEF Queued, Parented
<1> DEFINE q == [i \in DOMAIN s |-> [row |-> s[i], parent |-> None]]
<1>4. q \in [1..n -> Queued(set)]
  BY <1>2, <1>3
<1> HIDE DEF q
<1>5. q \in Seq(Queued(set))
  BY <1>4
<1>6. Start(set, top, span) =
          [pending |-> q, seen |-> {}, targets |-> <<>>, failed |-> Refused(set, top, span)]
  BY <1>2 DEF Start, S, q
<1>7. Refused(set, top, span) \in BOOLEAN
  BY DEF Refused
<1>8. <<>> \in Seq(Reviewed(set))
  OBVIOUS
<1> QED  BY <1>5, <1>6, <1>7, <1>8 DEF Walks

LEMMA DescendantsType ==
    ASSUME NEW set \in SUBSET Row, Distinct(set), NEW row \in set, row.created # 0, NEW seen
    PROVE  Descendants(set, row, seen) \in Seq(Queued(set))
<1> DEFINE S == {child \in Younger(set, row) : child.pid \notin seen}
<1>1. S \in SUBSET set /\ S \in SUBSET Row /\ Distinct(S) /\ S \subseteq Younger(set, row)
  BY DEF Younger, Children, Distinct
<1> HIDE DEF S
<1>2. PICK n \in Nat : \E s \in [1..n -> S] : s = Arranged(S, ByPid)
  BY <1>1, SortedByPid
<1> PICK s \in [1..n -> S] : s = Arranged(S, ByPid)
  BY <1>2
<1>3. Id(row) \in Identity
  BY IdIsIdentity
<1>4. ASSUME NEW child \in S PROVE [row |-> child, parent |-> Id(row)] \in Queued(set)
  <2>1. Parented(set, child, Id(row))
    BY <1>1 DEF Parented
  <2> QED  BY <1>1, <1>3, <2>1 DEF Queued
<1> DEFINE q == [i \in DOMAIN s |-> [row |-> s[i], parent |-> Id(row)]]
<1>5. q \in [1..n -> Queued(set)]
  BY <1>2, <1>4
<1> HIDE DEF q
<1>6. q \in Seq(Queued(set))
  BY <1>5
<1> QED  BY <1>2, <1>6 DEF Descendants, S, q

LEMMA VisitType ==
    ASSUME NEW set \in SUBSET Row, Distinct(set), NEW top, NEW span,
           NEW w \in Walks(set, top, span), ~Done(w)
    PROVE  Visit(set, span, w) \in Walks(set, top, span)
<1>1. /\ w.pending \in Seq(Queued(set)) /\ w.pending # <<>> /\ w.seen \in SUBSET Pids
      /\ w.targets \in Seq(Reviewed(set)) /\ ~w.failed /\ ~Refused(set, top, span)
      /\ w = [pending |-> w.pending, seen |-> w.seen, targets |-> w.targets, failed |-> FALSE]
  BY DEF Walks, Done
<1>2. PICK e \in Queued(set) : e = Head(w.pending)
  BY <1>1
<1>3. e.row \in set /\ e.parent \in Identity \cup {None} /\ Parented(set, e.row, e.parent)
  BY DEF Queued
<1>4. PICK row \in set : row = e.row
  BY <1>3
<1>5. Tail(w.pending) \in Seq(Queued(set))
  BY <1>1
<1>6. CASE row.pid \in w.seen
  <2>1. Visit(set, span, w) = [w EXCEPT !.pending = Tail(w.pending)]
    BY <1>2, <1>4, <1>6 DEF Visit
  <2> QED  BY <1>1, <1>5, <2>1 DEF Walks
<1>7. CASE row.pid \notin w.seen /\ Refusal(set, span, w)
  <2>1. Visit(set, span, w) =
           [pending |-> w.pending, seen |-> w.seen, targets |-> w.targets, failed |-> TRUE]
    BY <1>1, <1>2, <1>4, <1>7 DEF Visit
  <2> QED  BY <1>1, <2>1 DEF Walks
<1>8. CASE row.pid \notin w.seen /\ ~Refusal(set, span, w)
  <2>1. row.created # 0
    BY <1>2, <1>4, <1>8 DEF Refusal
  <2>2. row \in Row /\ Id(row) \in Identity
    BY <2>1, IdIsIdentity
  <2>3. [id |-> Id(row), parent |-> e.parent] \in Reviewed(set)
    BY <1>3, <1>4, <2>2 DEF Reviewed, Target
  <2>4. PICK t \in Reviewed(set) : t = [id |-> Id(row), parent |-> e.parent]
    BY <2>3
  <2>5. Append(w.targets, t) \in Seq(Reviewed(set))
    BY <1>1
  <2>6. w.seen \cup {row.pid} \in SUBSET Pids
    BY <1>1, <2>2, RowFields
  <2>7. PICK d \in Seq(Queued(set)) : d = Descendants(set, row, w.seen \cup {row.pid})
    BY <2>1, DescendantsType
  <2>8. Tail(w.pending) \o d \in Seq(Queued(set))
    BY <1>5
  <2>9. Visit(set, span, w) =
           [pending |-> Tail(w.pending) \o d, seen |-> w.seen \cup {row.pid},
            targets |-> Append(w.targets, t), failed |-> FALSE]
    BY <1>2, <1>4, <1>8, <2>4, <2>7 DEF Visit
  <2> QED  BY <1>1, <2>5, <2>6, <2>8, <2>9 DEF Walks
<1> QED  BY <1>6, <1>7, <1>8

\* The walk after each number of turns, as Build defines it.
Turns(set, top, span) ==
    CHOOSE f : f = [n \in Nat |-> IF n = 0 THEN Start(set, top, span)
                                  ELSE LET before == f[n - 1]
                                       IN  IF Done(before) THEN before ELSE Visit(set, span, before)]

LEMMA TurnsExist ==
    ASSUME NEW set \in SUBSET Row, Distinct(set), NEW top, NEW span
    PROVE  LET f == Turns(set, top, span)
           IN  /\ f[0] = Start(set, top, span)
               /\ \A n \in Nat : /\ f[n] \in Walks(set, top, span)
                                 /\ f[n + 1] = IF Done(f[n]) THEN f[n] ELSE Visit(set, span, f[n])
<1> DEFINE W == Walks(set, top, span)
           step == [w \in W |-> IF Done(w) THEN w ELSE Visit(set, span, w)]
           Defined(f) == f = [n \in Nat |-> IF n = 0 THEN Start(set, top, span)
                                            ELSE LET before == f[n - 1]
                                                 IN  IF Done(before) THEN before
                                                     ELSE Visit(set, span, before)]
           turns == Turns(set, top, span)
<1>1. step \in [W -> W]
  BY VisitType
<1>2. Start(set, top, span) \in W
  BY StartType
<1>3. PICK f \in [Nat -> W] :
         f[0] = Start(set, top, span) /\ \A n \in Nat : f[n + 1] = step[f[n]]
  <2> HIDE DEF step, W, Defined, turns
  <2> QED  BY <1>1, <1>2, Iterates
<1>4. Defined(f)
  <2>1. ASSUME NEW n \in Nat, n # 0
        PROVE  f[n] = IF Done(f[n - 1]) THEN f[n - 1] ELSE Visit(set, span, f[n - 1])
    <3>1. PICK m \in Nat : n - 1 = m /\ n = m + 1
      <4>1. n - 1 \in Nat /\ n = (n - 1) + 1
        BY <2>1
      <4> QED  BY <4>1
    <3>2. f[m] \in W /\ f[n] = step[f[m]]
      BY <1>3, <3>1
    <3> HIDE DEF W
    <3> QED  BY <3>1, <3>2
  <2> HIDE DEF W, step
  <2> QED  BY <1>3, <2>1
<1>5. Defined(turns)
  <2>1. turns = CHOOSE g : Defined(g)
    BY DEF Turns
  <2> HIDE DEF Defined, turns
  <2> QED  BY <1>4, <2>1
<1> HIDE DEF turns
<1>6. turns[0] = Start(set, top, span)
  BY <1>5
<1>7. ASSUME NEW n \in Nat
      PROVE  turns[n + 1] = IF Done(turns[n]) THEN turns[n] ELSE Visit(set, span, turns[n])
  <2>1. n + 1 \in Nat /\ n + 1 # 0 /\ (n + 1) - 1 = n
    OBVIOUS
  <2> HIDE DEF W
  <2> QED  BY <1>5, <2>1
<1>8. \A n \in Nat : turns[n] \in W
  <2>1. turns[0] \in W
    BY <1>2, <1>6
  <2>2. ASSUME NEW n \in Nat, turns[n] \in W PROVE turns[n + 1] \in W
    BY <1>7, <2>2, VisitType
  <2> HIDE DEF W
  <2> DEFINE T == {m \in Nat : turns[m] \in W}
  <2>3. 0 \in T /\ \A n \in Nat : n \in T => n + 1 \in T
    BY <2>1, <2>2
  <2>4. \A n \in Nat : n \in T
    <3> HIDE DEF T
    <3> QED  BY <2>3, SetInduction
  <2> QED  BY <2>4
<1> HIDE DEF Defined, W
<1> QED  BY <1>6, <1>7, <1>8 DEF W, turns

LEMMA BuildsTurns ==
    ASSUME NEW set, NEW top, NEW span
    PROVE  LET end == Turns(set, top, span)[2 * Cardinality(set)]
           IN  Build(set, top, span) =
                  IF end.failed \/ ~PlanValid(end.targets) THEN None
                  ELSE [root |-> top, scope |-> span, targets |-> end.targets,
                        path |-> (CHOOSE r \in Selected(set, top) : TRUE).path]
BY DEF Build, Turns

\* The reviewed list, whatever the sample.
LEMMA BuildType ==
    ASSUME NEW set \in SUBSET Row, Distinct(set), NEW top \in Identity, NEW span \in Scopes,
           Build(set, top, span) # None
    PROVE  /\ Build(set, top, span) \in Plan
           /\ Build(set, top, span).targets \in Seq(Reviewed(set))
<1>1. 2 * Cardinality(set) \in Nat
  BY RowsAreFinite, FS_CardinalityType
<1>2. PICK e \in Walks(set, top, span) : e = Turns(set, top, span)[2 * Cardinality(set)]
  BY <1>1, TurnsExist
<1>3. /\ ~e.failed /\ PlanValid(e.targets)
      /\ Build(set, top, span) =
            [root |-> top, scope |-> span, targets |-> e.targets,
             path |-> (CHOOSE r \in Selected(set, top) : TRUE).path]
  BY <1>2, BuildsTurns
<1>4. e.targets \in Seq(Reviewed(set)) /\ ~Refused(set, top, span)
  BY <1>3 DEF Walks
<1>5. e.targets \in Seq(Target)
  BY <1>4 DEF Reviewed
<1>6. PICK r \in Selected(set, top) : r = CHOOSE x \in Selected(set, top) : TRUE
  BY <1>4 DEF Refused
<1>7. r \in Row
  BY <1>6 DEF Selected
<1>8. PICK p \in Paths \cup {None} : p = r.path
  BY <1>7, RowFields
<1> QED  BY <1>3, <1>4, <1>5, <1>6, <1>8 DEF Plan

-----------------------------------------------------------------------------
(* What is ended is a family, and all of it *)

\* No identity is used twice, and a mother's PID is free, hers, or in use since her
\* child was there.
Ages == \A p \in Pids : procs[p] # None => IdAt(p) \in born /\ procs[p].created <= now

Mothers ==
    \A p, q \in Pids :
        procs[p] # None /\ procs[p].mother # None /\ procs[p].mother.pid = q =>
            \/ procs[q] = None
            \/ IdAt(q) = procs[p].mother
            \/ procs[p].created <= procs[q].created

\* A parent is the mother, or was started in the same tick.
Begot(parent, id) == Live(id) => parent = procs[id.pid].mother \/ parent.created = id.created

\* Two rows of a sample, however old it is.
SampleInv ==
    /\ Distinct(rows)
    /\ \A row \in rows : row.created # 0 => Id(row) \in born
    /\ \A a, b \in rows : a.created # 0 /\ b \in Younger(rows, a) => Begot(Id(a), Id(b))

Known(target) == target.id \in born /\ (target.parent = None \/ Begot(target.parent, target.id))

KnownPlan(plan) == plan # None => \A i \in DOMAIN plan.targets : Known(plan.targets[i])

PlansInv == KnownPlan(job) /\ (pending # None => KnownPlan(pending.plan))

\* What still runs of the targets passed so far is held.
Held(i) == Live(job.targets[i].id) => \E j \in DOMAIN handles : handles[j] = job.targets[i].id

HeldInv == phase = "verify" => next >= 1 /\ \A i \in DOMAIN job.targets : i < next => Held(i)

FamilyInv == /\ TypeOK /\ Ages /\ Mothers /\ SampleInv /\ PlansInv /\ HeldInv /\ NoSurvivorLeftOut
             /\ phase # "idle" => job # None

LEMMA Identities ==
    ASSUME NEW id \in Identity
    PROVE  /\ id.pid \in Pids /\ id.created \in Nat \ {0} /\ Id(id) = id /\ id # None
           /\ \A other \in Identity : id.pid = other.pid /\ id.created = other.created => id = other
BY ProcessTreeAssumption DEF Identity, Id

LEMMA Processes ==
    ASSUME TypeOK, NEW p \in Pids, procs[p] # None
    PROVE  /\ procs[p] \in Process /\ procs[p].created \in Nat \ {0} /\ procs[p].path \in Paths
           /\ procs[p].mother \in Identity \cup {None} /\ IdAt(p) \in Identity
           /\ ParentPid(procs[p]) \in Pids \cup {None}
BY DEF TypeOK, Process, IdAt, Identity, ParentPid

\* No process has the identity of an earlier one.
LEMMA NobodyReturns ==
    ASSUME TypeOK, World, NEW id \in born
    PROVE  id \in born' /\ (Live(id)' => Live(id) /\ procs'[id.pid] = procs[id.pid])
<1>1. id.pid \in Pids /\ id \in Identity
  BY Identities DEF TypeOK
<1>2. CASE \E pid, mother \in Pids, path \in Paths : Spawn(pid, mother, path)
  <2>1. PICK pid \in Pids, mother \in Pids, path \in Paths : Spawn(pid, mother, path)
    BY <1>2
  <2>2. /\ [pid |-> pid, created |-> now] \notin born
        /\ born' = born \cup {[pid |-> pid, created |-> now]}
        /\ procs' = [procs EXCEPT ![pid] =
                        [created |-> now, mother |-> IdAt(mother), path |-> path]]
    BY <2>1 DEF Spawn
  <2>3. CASE id.pid = pid
    <3>1. procs'[id.pid].created = now
      BY <1>1, <2>2, <2>3 DEF TypeOK
    <3>2. id.created # now
      BY <1>1, <2>2, <2>3 DEF Identity
    <3> QED  BY <2>2, <3>1, <3>2 DEF Live
  <2>4. CASE id.pid # pid
    <3>1. procs'[id.pid] = procs[id.pid]
      BY <1>1, <2>2, <2>4 DEF TypeOK
    <3> QED  BY <2>2, <3>1 DEF Live
  <2> QED  BY <2>3, <2>4
<1>3. CASE \E pid \in Pids : Exit(pid)
  <2>1. PICK pid \in Pids : Exit(pid)
    BY <1>3
  <2>2. procs' = [procs EXCEPT ![pid] = None] /\ born' = born
    BY <2>1 DEF Exit
  <2>3. procs'[id.pid] = None \/ procs'[id.pid] = procs[id.pid]
    BY <1>1, <2>2 DEF TypeOK
  <2> QED  BY <2>2, <2>3 DEF Live
<1>4. CASE Tick
  BY <1>4 DEF Tick, Live
<1> QED  BY <1>2, <1>3, <1>4 DEF World

LEMMA BegotKept ==
    ASSUME TypeOK, World, NEW id \in born, NEW parent, Begot(parent, id)
    PROVE  Begot(parent, id)'
BY NobodyReturns DEF Begot

LEMMA WorldMothers ==
    ASSUME TypeOK, Ages, Mothers, World PROVE TypeOK' /\ Ages' /\ Mothers'
<1>1. now \in Nat \ {0} /\ procs \in [Pids -> Process \cup {None}] /\ born \in SUBSET Identity
  BY DEF TypeOK
<1>2. UNCHANGED <<rows, pending, job, phase, next, handles, confirmed, killed, jobs>>
  BY DEF World, Spawn, Exit, Tick, uiVars, workerVars
<1>3. CASE \E pid, mother \in Pids, path \in Paths : Spawn(pid, mother, path)
  <2>1. PICK pid \in Pids, mother \in Pids, path \in Paths : Spawn(pid, mother, path)
    BY <1>3
  <2>2. PICK id : id = [pid |-> pid, created |-> now]
    OBVIOUS
  <2>3. PICK m : m = IdAt(mother)
    OBVIOUS
  <2>4. PICK new : new = [created |-> now, mother |-> m, path |-> path]
    OBVIOUS
  <2>5. /\ born' = born \cup {id} /\ now' = now /\ procs[pid] = None /\ procs[mother] # None
        /\ procs' = [procs EXCEPT ![pid] = new]
    BY <2>1, <2>2, <2>3, <2>4 DEF Spawn
  <2>6. m \in Identity /\ m.pid = mother /\ id \in Identity
    BY <1>1, <2>2, <2>3, <2>5, Processes DEF IdAt, Identity
  <2>7. new \in Process /\ new # None /\ new.created = now /\ new.mother = m
    <3>1. new \in Process
      BY <1>1, <2>4, <2>6 DEF Process
    <3>2. new # None
      BY <3>1, EndTreeAssumption
    <3> QED  BY <2>4, <3>1, <3>2
  <2>8. procs'[pid] = new /\ \A p \in Pids \ {pid} : procs'[p] = procs[p]
    BY <1>1, <2>5
  <2>9. TypeOK'
    BY <1>1, <1>2, <2>5, <2>6, <2>7 DEF TypeOK
  <2>10. IdAt(pid)' = id
    BY <2>2, <2>7, <2>8 DEF IdAt
  <2>11. \A p \in Pids \ {pid} : IdAt(p)' = IdAt(p)
    BY <2>8 DEF IdAt
  <2>12. Ages'
    <3>1. \A p \in Pids \ {pid} : procs[p] # None => IdAt(p) \in born /\ procs[p].created <= now
      BY DEF Ages
    <3>2. now <= now
      BY <1>1
    <3> QED  BY <2>5, <2>7, <2>8, <2>10, <2>11, <3>1, <3>2 DEF Ages
  <2>13. ASSUME NEW p \in Pids, NEW q \in Pids, procs'[p] # None, procs'[p].mother # None,
                procs'[p].mother.pid = q
         PROVE  procs'[q] = None \/ IdAt(q)' = procs'[p].mother
                   \/ procs'[p].created <= procs'[q].created
    <3>1. CASE p = pid
      <4>1. q \in Pids \ {pid} /\ IdAt(q) = m /\ procs'[p].mother = m
        BY <2>3, <2>5, <2>6, <2>7, <2>8, <2>13, <3>1
      <4> QED  BY <2>11, <4>1
    <3>2. CASE p # pid /\ q = pid
      <4>1. procs'[p] = procs[p] /\ procs[p].created <= now
        BY <2>8, <2>13, <3>2 DEF Ages
      <4> QED  BY <2>7, <2>8, <3>2, <4>1
    <3>3. CASE p # pid /\ q # pid
      BY <2>8, <2>11, <2>13, <3>3 DEF Mothers
    <3> QED  BY <3>1, <3>2, <3>3
  <2>14. Mothers'
    BY <2>13 DEF Mothers
  <2> QED  BY <2>9, <2>12, <2>14
<1>4. CASE \E pid \in Pids : Exit(pid)
  <2>1. PICK pid \in Pids : Exit(pid)
    BY <1>4
  <2>2. procs' = [procs EXCEPT ![pid] = None] /\ born' = born /\ now' = now
    BY <2>1 DEF Exit
  <2>3. TypeOK'
    BY <1>1, <1>2, <2>2 DEF TypeOK
  <2>4. \A p \in Pids : procs'[p] # None => procs'[p] = procs[p] /\ IdAt(p)' = IdAt(p)
    BY <1>1, <2>2 DEF IdAt
  <2> QED  BY <2>2, <2>3, <2>4 DEF Ages, Mothers
<1>5. CASE Tick
  <2>1. now' = now + 1 /\ procs' = procs /\ born' = born
    BY <1>5 DEF Tick
  <2>2. TypeOK'
    BY <1>1, <1>2, <2>1 DEF TypeOK
  <2>3. \A p \in Pids : procs[p] # None => procs[p].created \in Nat /\ procs[p].created <= now + 1
    BY <1>1, Processes DEF Ages
  <2> QED  BY <2>1, <2>2, <2>3 DEF Ages, Mothers, IdAt
<1> QED  BY <1>3, <1>4, <1>5 DEF World

LEMMA KnownKept ==
    ASSUME TypeOK, World, NEW target, Known(target)
    PROVE  Known(target)'
BY NobodyReturns, BegotKept DEF Known

LEMMA WorldKeepsFamilies == ASSUME FamilyInv, World PROVE FamilyInv'
<1>1. UNCHANGED <<rows, pending, job, phase, next, handles>>
  BY DEF World, Spawn, Exit, Tick, uiVars, workerVars
<1>2. TypeOK' /\ Ages' /\ Mothers'
  BY WorldMothers DEF FamilyInv
<1>3. SampleInv'
  <2>1. \A row \in rows : row.created # 0 => Id(row) \in born'
    BY NobodyReturns DEF FamilyInv, SampleInv
  <2>2. ASSUME NEW a \in rows, NEW b \in rows, a.created # 0, b \in Younger(rows, a)
        PROVE  Begot(Id(a), Id(b))'
    <3>1. a \in Row /\ b \in Row /\ b.created # 0
      <4>1. a \in Row /\ b \in Row /\ b.created >= a.created
        BY <2>2 DEF FamilyInv, TypeOK, Younger
      <4> QED  BY <2>2, <4>1, RowFields
    <3>2. Id(b) \in born /\ Begot(Id(a), Id(b))
      BY <2>2, <3>1 DEF FamilyInv, SampleInv
    <3> QED  BY <3>2, BegotKept DEF FamilyInv
  <2> QED  BY <1>1, <2>1, <2>2 DEF FamilyInv, SampleInv
<1>4. PlansInv'
  <2>1. ASSUME NEW plan, KnownPlan(plan) PROVE KnownPlan(plan)'
    BY <2>1, KnownKept DEF KnownPlan, FamilyInv
  <2> QED  BY <1>1, <2>1 DEF FamilyInv, PlansInv, KnownPlan
<1>5. ASSUME NEW i \in DOMAIN job.targets, job # None, Held(i) PROVE Held(i)'
  <2>1. job.targets[i].id \in born
    BY <1>5 DEF FamilyInv, PlansInv, KnownPlan, Known
  <2> QED  BY <1>1, <1>5, <2>1, NobodyReturns DEF Held, FamilyInv
<1>6. phase # "idle" => job # None
  BY DEF FamilyInv
<1>7. HeldInv'
  BY <1>1, <1>5, <1>6 DEF FamilyInv, HeldInv
<1>8. NoSurvivorLeftOut'
  BY <1>1, <1>5, <1>6 DEF FamilyInv, NoSurvivorLeftOut, Held
<1> QED  BY <1>1, <1>2, <1>3, <1>4, <1>7, <1>8 DEF FamilyInv

LEMMA ReviewIsKnown ==
    ASSUME FamilyInv, NEW top \in Identity, NEW span \in Scopes
    PROVE  LET plan == Build(rows, top, span)
           IN  plan \in Plan \cup {None} /\ KnownPlan(plan)
<1>1. rows \in SUBSET Row /\ Distinct(rows)
  BY DEF FamilyInv, TypeOK, SampleInv
<1>2. PICK plan : plan = Build(rows, top, span)
  OBVIOUS
<1>3. CASE plan = None
  BY <1>2, <1>3 DEF KnownPlan
<1>4. CASE plan # None
  <2>1. plan \in Plan /\ plan.targets \in Seq(Reviewed(rows))
    BY <1>1, <1>2, <1>4, BuildType
  <2>2. ASSUME NEW i \in DOMAIN plan.targets PROVE Known(plan.targets[i])
    <3>1. PICK t \in Reviewed(rows) : t = plan.targets[i]
      BY <2>1, <2>2
    <3>2. PICK row \in rows : t.id = Id(row) /\ Parented(rows, row, t.parent)
      BY DEF Reviewed
    <3>3. row.created # 0
      BY <3>2 DEF Reviewed, Target, Identity, Id
    <3>4. t.id \in born
      BY <3>2, <3>3 DEF FamilyInv, SampleInv
    <3>5. t.parent = None \/ Begot(t.parent, t.id)
      BY <3>2 DEF Parented, FamilyInv, SampleInv
    <3> QED  BY <3>1, <3>4, <3>5 DEF Known
  <2> QED  BY <1>2, <2>1, <2>2 DEF KnownPlan
<1> QED  BY <1>3, <1>4

\* The steps of the dialog that leave the processes and the worker alone.
LEMMA PendingKeepsFamilies ==
    ASSUME FamilyInv, UNCHANGED <<worldVars, rows, workerVars, confirmed, killed, jobs>>,
           pending' = None \/ (\E top \in Identity, span \in Scopes : pending' = Review(top, span))
    PROVE  FamilyInv'
<1>1. UNCHANGED <<now, procs, born, rows, job, phase, next, handles>>
  BY DEF worldVars, workerVars
<1>2. /\ pending' = None \/ /\ pending'.root \in Identity /\ pending'.scope \in Scopes
                            /\ pending'.plan = None \/ pending'.plan \in Plan
      /\ pending' # None => KnownPlan(pending'.plan)
  <2>1. CASE pending' = None
    BY <2>1
  <2>2. CASE \E top \in Identity, span \in Scopes : pending' = Review(top, span)
    <3>1. PICK top \in Identity, span \in Scopes : pending' = Review(top, span)
      BY <2>2
    <3>2. PICK plan : plan = Build(rows, top, span)
      OBVIOUS
    <3>3. plan \in Plan \cup {None} /\ KnownPlan(plan)
      BY <3>2, ReviewIsKnown
    <3>4. pending' = [root |-> top, scope |-> span, plan |-> plan]
      BY <3>1, <3>2 DEF Review
    <3> QED  BY <3>3, <3>4
  <2> QED  BY <2>1, <2>2
<1>3. TypeOK'
  BY <1>1, <1>2 DEF FamilyInv, TypeOK
<1>4. PlansInv'
  BY <1>1, <1>2 DEF FamilyInv, PlansInv, KnownPlan, Known, Begot, Live
<1> QED  BY <1>1, <1>3, <1>4 DEF FamilyInv, Ages, Mothers, IdAt, SampleInv, Begot, Live, Younger,
            Children, HeldInv, Held, NoSurvivorLeftOut

LEMMA SampleKeepsFamilies == ASSUME FamilyInv, Sample PROVE FamilyInv'
<1>1. /\ UNCHANGED <<now, procs, born, pending, job, phase, next, handles, confirmed, killed, jobs>>
      /\ TypeOK /\ Ages /\ Mothers
  BY DEF Sample, worldVars, workerVars, FamilyInv
<1>2. PICK unknown \in SUBSET Pids :
         rows' = {Sampled(p, unknown) : p \in {q \in Pids : procs[q] # None}}
  BY DEF Sample
<1>3. ASSUME NEW p \in Pids, procs[p] # None
      PROVE  LET row == Sampled(p, unknown)
             IN  /\ row \in Row /\ row.pid = p /\ row.parent = ParentPid(procs[p])
                 /\ row.created # 0 => row.created = procs[p].created /\ Id(row) = IdAt(p)
  <2>1. PICK process \in Process : process = procs[p]
    BY <1>1, <1>3, Processes
  <2>2. PICK parent \in Pids \cup {None} : parent = ParentPid(process)
    BY <1>1, <1>3, <2>1, Processes
  <2>3. process.created \in Nat \ {0} /\ process.path \in Paths
    BY DEF Process
  <2>4. PICK c \in Nat : c = IF p \in unknown THEN 0 ELSE process.created
    BY <2>3
  <2>5. PICK path \in Paths \cup {None} : path = IF p \in unknown THEN None ELSE process.path
    BY <2>3
  <2>6. PICK row \in Row : row = [pid |-> p, parent |-> parent, created |-> c, path |-> path,
                                  name |-> process.path]
    BY <2>3 DEF Row
  <2>7. row = Sampled(p, unknown)
    BY <2>1, <2>2, <2>4, <2>5, <2>6 DEF Sampled
  <2> QED  BY <2>1, <2>2, <2>4, <2>6, <2>7 DEF Id, IdAt
<1>4. TypeOK'
  BY <1>1, <1>2, <1>3 DEF TypeOK
<1>5. SampleInv'
  <2>1. \A row \in rows' : \E p \in Pids : procs[p] # None /\ row = Sampled(p, unknown)
    BY <1>2
  <2>2. Distinct(rows')
    BY <1>3, <2>1 DEF Distinct
  <2>3. \A row \in rows' : row.created # 0 => Id(row) \in born
    BY <1>1, <1>3, <2>1 DEF Ages
  <2>4. ASSUME NEW a \in rows', NEW b \in rows', a.created # 0, b \in Younger(rows', a)
        PROVE  Begot(Id(a), Id(b))
    <3>1. PICK p \in Pids : procs[p] # None /\ a = Sampled(p, unknown)
      BY <2>1
    <3>2. PICK q \in Pids : procs[q] # None /\ b = Sampled(q, unknown)
      BY <2>1
    <3>3. b.parent = p /\ b.created >= a.created
      BY <1>3, <2>4, <3>1 DEF Younger, Children
    <3>4. a.created \in Nat /\ b.created \in Nat
      BY <1>3, <3>1, <3>2, RowFields
    <3>5. b.created # 0
      BY <2>4, <3>3, <3>4
    <3>6. Id(a) = IdAt(p) /\ Id(b) = IdAt(q) /\ a.created = procs[p].created /\ b.created = procs[q].created
      BY <1>3, <2>4, <3>1, <3>2, <3>5
    <3>7. procs[q].mother # None /\ procs[q].mother.pid = p
      BY <1>3, <3>2, <3>3, ProcessTreeAssumption DEF ParentPid
    <3>8. IdAt(p) = procs[q].mother \/ procs[q].created <= procs[p].created
      BY <1>1, <3>1, <3>2, <3>7 DEF Mothers
    <3>9. IdAt(p).created = procs[p].created /\ IdAt(q).created = procs[q].created /\ IdAt(q).pid = q
      BY DEF IdAt
    <3> QED  BY <3>3, <3>4, <3>6, <3>8, <3>9 DEF Begot
  <2> QED  BY <1>1, <2>2, <2>3, <2>4 DEF SampleInv, Begot, Live
<1> QED  BY <1>1, <1>4, <1>5 DEF FamilyInv, Ages, Mothers, IdAt, PlansInv, KnownPlan, Known, Begot,
            Live, HeldInv, Held, NoSurvivorLeftOut

LEMMA ConfirmKeepsFamilies == ASSUME FamilyInv, Confirm PROVE FamilyInv'
<1>1. PICK plan \in Plan : plan = pending.plan /\ KnownPlan(plan) /\ plan # None
  BY DEF Confirm, Current, FamilyInv, TypeOK, PlansInv
<1>2. /\ UNCHANGED <<now, procs, born, rows, killed>>
      /\ job' = plan /\ phase' = "verify" /\ next' = 1 /\ handles' = <<>> /\ pending' = None
      /\ confirmed' = confirmed \cup {Id(plan.targets[i].id) : i \in DOMAIN plan.targets}
      /\ jobs' = jobs + 1
  BY <1>1 DEF Confirm, worldVars
<1>3. confirmed' \subseteq Identity
  <2>1. \A i \in DOMAIN plan.targets : plan.targets[i].id \in Identity
    <3>1. \A target \in Target : target.id \in Identity
      BY DEF Target
    <3>2. plan.targets \in Seq(Target)
      BY DEF Plan
    <3> QED  BY <3>1, <3>2
  <2> QED  BY <1>2, <2>1, Identities DEF FamilyInv, TypeOK
<1>4. TypeOK'
  BY <1>2, <1>3 DEF FamilyInv, TypeOK
<1>5. PlansInv'
  BY <1>1, <1>2 DEF PlansInv, KnownPlan, Known, Begot, Live
<1>6. HeldInv' /\ NoSurvivorLeftOut'
  <2>1. \A i \in DOMAIN plan.targets : i \in Nat /\ ~(i < 1)
    BY DEF Plan
  <2> QED  BY <1>2, <2>1 DEF HeldInv, NoSurvivorLeftOut
<1> QED  BY <1>1, <1>2, <1>4, <1>5, <1>6 DEF FamilyInv, Ages, Mothers, IdAt, SampleInv, Begot, Live,
            Younger, Children

LEMMA WorkerKeepsFamilies == ASSUME FamilyInv, Worker PROVE FamilyInv'
<1>1. UNCHANGED <<now, procs, born, rows, pending, confirmed, jobs>>
  BY DEF Worker, Verify, AllVerified, Kill, Finish, worldVars, uiVars
<1>2. Ages' /\ Mothers' /\ SampleInv'
  BY <1>1 DEF FamilyInv, Ages, Mothers, IdAt, SampleInv, Begot, Live, Younger, Children
<1>3. ASSUME job' = job \/ job' = None PROVE PlansInv'
  BY <1>1, <1>3 DEF FamilyInv, PlansInv, KnownPlan, Known, Begot, Live
<1>4. ASSUME Return, killed' = killed PROVE FamilyInv'
  <2>1. TypeOK'
    BY <1>1, <1>4 DEF Return, FamilyInv, TypeOK
  <2> QED  BY <1>2, <1>3, <1>4, <2>1 DEF Return, FamilyInv, HeldInv, NoSurvivorLeftOut
<1>5. CASE Verify
  <2>1. phase = "verify" /\ job \in Plan /\ next \in DOMAIN job.targets /\ killed' = killed
    BY <1>5 DEF Verify, FamilyInv, TypeOK
  <2>2. PICK target \in Target : target = job.targets[next]
    BY <2>1 DEF Plan
  <2>3. next \in Nat /\ next >= 1 /\ \A i \in DOMAIN job.targets : i \in Nat
    BY <2>1 DEF Plan
  <2>4. ASSUME job' = job, phase' = phase, next' = next + 1,
               handles' \in Seq(Identity), \A j \in DOMAIN handles : j \in DOMAIN handles' /\ handles'[j] = handles[j],
               Live(target.id) => \E j \in DOMAIN handles' : handles'[j] = target.id
        PROVE  FamilyInv'
    <3>1. TypeOK'
      BY <1>1, <2>1, <2>3, <2>4 DEF FamilyInv, TypeOK
    <3>2. ASSUME NEW i \in DOMAIN job.targets, i < next + 1 PROVE Held(i)'
      <4>1. CASE i = next
        BY <1>1, <2>2, <2>4, <4>1 DEF Held, Live
      <4>2. CASE i # next
        <5>1. Held(i)
          BY <2>1, <2>3, <3>2, <4>2 DEF FamilyInv, HeldInv
        <5> QED  BY <1>1, <2>4, <5>1 DEF Held, Live
      <4> QED  BY <4>1, <4>2
    <3>3. HeldInv'
      BY <2>3, <2>4, <3>2 DEF HeldInv
    <3>4. NoSurvivorLeftOut'
      BY <2>1, <2>4 DEF NoSurvivorLeftOut
    <3> QED  BY <1>2, <1>3, <2>4, <3>1, <3>3, <3>4 DEF FamilyInv
  <2>5. CASE /\ procs[target.id.pid] = None
             /\ next' = next + 1 /\ UNCHANGED <<job, phase, handles>>
    BY <2>4, <2>5 DEF Live, FamilyInv, TypeOK
  <2>6. CASE /\ procs[target.id.pid] # None /\ Verified(target)
             /\ next' = next + 1 /\ handles' = Append(handles, IdAt(target.id.pid))
             /\ UNCHANGED <<job, phase>>
    <3>1. target.id \in Identity /\ target.id.pid \in Pids
      BY Identities DEF Target
    <3>2. PICK id \in Identity : id = IdAt(target.id.pid)
      BY <2>6, <3>1, Processes DEF FamilyInv
    <3>3. id = target.id
      BY <2>6, <3>1, <3>2, VerifiedIsReviewed, Identities
    <3>4. handles \in Seq(Identity) /\ handles' = Append(handles, id)
      BY <2>6, <3>2 DEF FamilyInv, TypeOK
    <3>5. /\ handles' \in Seq(Identity)
          /\ \A j \in DOMAIN handles : j \in DOMAIN handles' /\ handles'[j] = handles[j]
          /\ Len(handles) + 1 \in DOMAIN handles' /\ handles'[Len(handles) + 1] = id
      BY <3>4
    <3> QED  BY <2>4, <2>6, <3>3, <3>5
  <2>7. CASE Return
    BY <1>4, <2>1, <2>7
  <2> QED  BY <1>5, <2>2, <2>5, <2>6, <2>7 DEF Verify
<1>6. CASE AllVerified
  <2>1. /\ phase = "verify" /\ job \in Plan /\ next \notin DOMAIN job.targets /\ killed' = killed
        /\ phase' = "kill" /\ next' = 1 /\ job' = job /\ handles' = handles
    BY <1>6 DEF AllVerified, FamilyInv, TypeOK
  <2>2. TypeOK'
    BY <1>1, <2>1 DEF FamilyInv, TypeOK
  <2>3. next \in Nat /\ next >= 1
    BY <2>1 DEF FamilyInv, TypeOK, HeldInv
  <2>4. ASSUME NEW i \in DOMAIN job.targets PROVE Held(i)
    <3>1. i < next
      <4>1. PICK n \in Nat : DOMAIN job.targets = 1..n
        BY <2>1 DEF Plan
      <4> QED  BY <2>1, <2>3, <4>1
    <3> QED  BY <2>1, <3>1 DEF FamilyInv, HeldInv
  <2>5. NoSurvivorLeftOut'
    BY <1>1, <2>1, <2>4 DEF NoSurvivorLeftOut, Held, Live
  <2>6. HeldInv'
    BY <2>1 DEF HeldInv
  <2> QED  BY <1>2, <1>3, <2>1, <2>2, <2>5, <2>6 DEF FamilyInv
<1>7. CASE Kill
  <2>1. /\ phase = "kill" /\ next \in DOMAIN handles /\ next' = next + 1
        /\ UNCHANGED <<job, phase, handles>>
        /\ killed' = killed \/ killed' = killed \cup {handles[next]}
    BY <1>7 DEF Kill
  <2>2. handles[next] \in Identity
    BY <2>1 DEF FamilyInv, TypeOK
  <2>3. TypeOK'
    BY <1>1, <2>1, <2>2 DEF FamilyInv, TypeOK
  <2> QED  BY <1>1, <1>2, <1>3, <2>1, <2>3 DEF FamilyInv, HeldInv, NoSurvivorLeftOut, Live
<1>8. CASE Finish
  BY <1>4, <1>8 DEF Finish
<1> QED  BY <1>5, <1>6, <1>7, <1>8 DEF Worker

LEMMA InitIsFamily == Init => FamilyInv
<1> SUFFICES ASSUME Init PROVE FamilyInv
  OBVIOUS
<1>1. Pids # {} /\ Pids \in SUBSET Nat
  BY EndTreeAssumption, ProcessTreeAssumption
<1>2. PICK pid \in Pids : pid = CHOOSE p \in Pids : \A q \in Pids : p <= q
  BY <1>1, LeastNumber
<1>3. PICK path \in Paths :
        /\ procs = [p \in Pids |-> IF p = pid THEN [created |-> 1, mother |-> None, path |-> path]
                                   ELSE None]
        /\ born = {[pid |-> pid, created |-> 1]}
  BY <1>2 DEF Init
<1>4. PICK process \in Process : process = [created |-> 1, mother |-> None, path |-> path]
  <2>1. 1 \in Nat \ {0}
    OBVIOUS
  <2> QED  BY <2>1 DEF Process
<1>5. process # None /\ process.created = 1 /\ process.mother = None
  BY <1>4, EndTreeAssumption
<1>6. procs \in [Pids -> Process \cup {None}] /\ \A p \in Pids : procs[p] # None => p = pid /\ procs[p] = process
  BY <1>3, <1>4
<1>7. born \in SUBSET Identity
  BY <1>3 DEF Identity
<1>8. TypeOK
  BY <1>6, <1>7 DEF Init, TypeOK
<1>9. Ages /\ Mothers
  BY <1>3, <1>5, <1>6 DEF Init, Ages, Mothers, IdAt
<1> QED  BY <1>8, <1>9 DEF Init, FamilyInv, SampleInv, Distinct, PlansInv, KnownPlan, HeldInv,
            NoSurvivorLeftOut

\* What terminate_tree ends is the family that was reviewed, and all of it that still
\* runs, whatever starts, exits and uses PIDs again meanwhile (the parent checks of
\* tree.rs, and the verification of every target before the first request).
THEOREM FamiliesEndWhole == Spec => []EndsTheFamily
<1>1. FamilyInv /\ [Next]_vars => FamilyInv'
  <2> SUFFICES ASSUME FamilyInv, [Next]_vars PROVE FamilyInv'
    OBVIOUS
  <2>1. CASE Dialog
    <3>1. \A row \in rows : row.created # 0 => Id(row) \in Identity
      BY IdIsIdentity DEF FamilyInv, TypeOK
    <3>2. CASE (\E row \in rows : Request(row)) \/ (\E span \in Scopes : Refresh(span)) \/ Cancel
      <4>1. /\ UNCHANGED <<worldVars, rows, workerVars, confirmed, killed, jobs>>
            /\ pending' = None
                  \/ (\E top \in Identity, span \in Scopes : pending' = Review(top, span))
        BY <3>1, <3>2 DEF Request, Refresh, Cancel, Scopes, FamilyInv, TypeOK
      <4> QED  BY <4>1, PendingKeepsFamilies
    <3> QED  BY <2>1, <3>2, SampleKeepsFamilies, ConfirmKeepsFamilies DEF Dialog
  <2>2. CASE UNCHANGED vars
    BY <2>2 DEF vars, uiVars, workerVars, worldVars, FamilyInv, TypeOK, Ages, Mothers, IdAt, SampleInv, PlansInv, KnownPlan,
       Known, Begot, Live, Younger, Children, HeldInv, Held, NoSurvivorLeftOut
  <2> QED  BY <2>1, <2>2, WorldKeepsFamilies, WorkerKeepsFamilies DEF Next
<1>2. FamilyInv => EndsTheFamily
  <2> SUFFICES ASSUME FamilyInv PROVE FamilyOnly
    BY DEF FamilyInv, EndsTheFamily
  <2> QED  BY DEF FamilyInv, PlansInv, KnownPlan, Known, Begot, FamilyOnly
<1> QED  BY <1>1, <1>2, InitIsFamily, PTL DEF Spec
-----------------------------------------------------------------------------
(* The reviewed list is the family *)

\* The reference of ProcessWalk for any sample.
FamilyOf(set, top, span) ==
    {row \in set : \A family \in SUBSET set :
        /\ Roots(set, top, span) \subseteq family
        /\ \A member \in family, child \in set :
              child.parent = member.pid /\ child.created >= member.created => child \in family
        => row \in family}

ReviewableOf(set, top, span) ==
    LET family == FamilyOf(set, top, span) IN
    /\ Cardinality(family) <= MaxTargets
    /\ \A row \in set : row.path # None
    /\ \A row \in family : row.created # 0 /\ row.pid \notin Untouchable
    /\ \A row \in family : \A child \in Children(set, row) :
          child.created # 0 /\ child.created # row.created

Seen(set, w) == {row \in set : row.pid \in w.seen}
Queue(w) == {w.pending[i].row : i \in DOMAIN w.pending}

\* The list names every row that was seen, and each process once.
Listing(set, w) ==
    /\ \A row \in set : row.pid \in w.seen <=> \E i \in DOMAIN w.targets : w.targets[i].id = Id(row)
    /\ \A i, j \in DOMAIN w.targets : i # j => w.targets[i].id.pid # w.targets[j].id.pid

\* What waits is a root, or its parent is on the list; what is listed, after its parent.
Ancestry(set, top, span, w) ==
    /\ \A i \in DOMAIN w.pending :
          IF w.pending[i].parent = None THEN w.pending[i].row \in Roots(set, top, span)
          ELSE \E j \in DOMAIN w.targets : w.targets[j].id = w.pending[i].parent
    /\ \A j \in DOMAIN w.targets :
          LET target == w.targets[j] IN
          IF target.parent = None
          THEN \E row \in Roots(set, top, span) : Id(row) = target.id
          ELSE /\ \E i \in 1..(j - 1) : w.targets[i].id = target.parent
               /\ \E row \in set : Id(row) = target.id /\ row.parent = target.parent.pid

\* Nothing but the family was reached, and what is missing is still to come.
Growing(set, top, span, w) ==
    /\ Seen(set, w) \cup Queue(w) \subseteq FamilyOf(set, top, span)
    /\ Roots(set, top, span) \subseteq Seen(set, w) \cup Queue(w)
    /\ \A row \in Seen(set, w) : Younger(set, row) \subseteq Seen(set, w) \cup Queue(w)

Allowed(w) ==
    /\ Len(w.targets) <= MaxTargets
    /\ \A i \in DOMAIN w.targets : w.targets[i].id.pid \notin Untouchable

\* Every turn takes an entry from the queue, and a process is queued once as a child,
\* when the only process with its parent's PID is visited.
Counted(set, top, span, w) ==
    ~w.failed => \E n \in Nat :
        /\ w = Turns(set, top, span)[n]
        /\ n + Len(w.pending) <= Cardinality(set) + Cardinality({row \in set : row.parent \in w.seen})

\* One branch: nothing is older than its root, and nothing listed before its parent.
Branch(set, top, span, w) ==
    span = "SelectedTree" =>
        /\ \A row \in Seen(set, w) \cup Queue(w) : row.created >= top.created
        /\ \A i, j \in DOMAIN w.targets : \A a, b \in set :
              Id(a) = w.targets[i].id /\ Id(b) = w.targets[j].id /\ b \in Younger(set, a) => i < j

ForCause(set, top, span, w) == w.failed => ~ReviewableOf(set, top, span)

WalkInv(set, top, span, w) ==
    /\ w \in Walks(set, top, span) /\ Listing(set, w) /\ Ancestry(set, top, span, w)
    /\ Growing(set, top, span, w) /\ Allowed(w) /\ Counted(set, top, span, w)
    /\ Branch(set, top, span, w) /\ ForCause(set, top, span, w)

LEMMA FamilyCloses ==
    ASSUME NEW set, NEW top, NEW span
    PROVE  LET family == FamilyOf(set, top, span)
           IN  /\ Roots(set, top, span) \subseteq family /\ family \subseteq set
               /\ \A row \in family : Younger(set, row) \subseteq family
               /\ \A all \in SUBSET set :
                     /\ Roots(set, top, span) \subseteq all
                     /\ \A row \in all : Younger(set, row) \subseteq all
                     => family \subseteq all
<1>1. Roots(set, top, span) \subseteq set
  BY DEF Roots, Selected, SamePath
<1>2. Roots(set, top, span) \subseteq FamilyOf(set, top, span)
  BY <1>1 DEF FamilyOf
<1>3. \A row \in FamilyOf(set, top, span) : Younger(set, row) \subseteq FamilyOf(set, top, span)
  BY DEF FamilyOf, Younger, Children
<1>4. ASSUME NEW all \in SUBSET set, Roots(set, top, span) \subseteq all,
             \A row \in all : Younger(set, row) \subseteq all
      PROVE  FamilyOf(set, top, span) \subseteq all
  <2>1. \A member \in all, child \in set :
           child.parent = member.pid /\ child.created >= member.created => child \in all
    BY <1>4 DEF Younger, Children
  <2> QED  BY <1>4, <2>1 DEF FamilyOf
<1>5. FamilyOf(set, top, span) \subseteq set
  BY DEF FamilyOf
<1> QED  BY <1>2, <1>3, <1>4, <1>5

\* An enumeration without repetitions leaves nothing out.
LEMMA NothingLeftOut ==
    ASSUME NEW S, IsFiniteSet(S), NEW s \in [1..Cardinality(S) -> S],
           \A i, j \in DOMAIN s : i < j => s[i] # s[j]
    PROVE  \A x \in S : \E i \in DOMAIN s : s[i] = x
<1>1. Cardinality(S) \in Nat
  BY FS_CardinalityType
<1>2. s \in Injection(1..Cardinality(S), S)
  <2>1. \A i, j \in 1..Cardinality(S) : s[i] = s[j] => i = j
    BY <1>1
  <2> QED  BY <2>1 DEF Injection, IsInjective
<1>3. Cardinality(1..Cardinality(S)) = Cardinality(S)
  BY <1>1, FS_Interval
<1>4. s \in Surjection(1..Cardinality(S), S)
  BY <1>2, <1>3, FS_Injection
<1> QED  BY <1>4 DEF Surjection

LEMMA OrdersAreStrict == ASSUME NEW row \in Row PROVE ~ByAge(row, row) /\ ~ByPid(row, row)
BY RowFields DEF ByAge, ByPid

LEMMA StartIsRoots ==
    ASSUME NEW set \in SUBSET Row, Distinct(set), NEW top, NEW span
    PROVE  LET w == Start(set, top, span)
           IN  /\ \A i \in DOMAIN w.pending :
                     w.pending[i].parent = None /\ w.pending[i].row \in Roots(set, top, span)
               /\ Queue(w) = Roots(set, top, span)
               /\ Len(w.pending) = Cardinality(Roots(set, top, span))
               /\ w.seen = {} /\ w.targets = <<>> /\ w.failed = Refused(set, top, span)
<1> DEFINE S == Roots(set, top, span)
<1>1. S \in SUBSET set /\ S \in SUBSET Row /\ Distinct(S)
  BY DEF Roots, Selected, SamePath, Distinct
<1> HIDE DEF S
<1>2. PICK n \in Nat : n = Cardinality(S) /\ \E s \in [1..n -> S] : s = Arranged(S, ByAge)
  BY <1>1, SortedByAge
<1> PICK s \in [1..n -> S] : s = Arranged(S, ByAge)
  BY <1>2
<1>3. \A i, j \in DOMAIN s : i < j => ByAge(s[i], s[j])
  BY <1>1, SortedByAge
<1>4. \A i, j \in DOMAIN s : i < j => s[i] # s[j]
  <2>1. ASSUME NEW r \in S PROVE ~ByAge(r, r)
    BY <1>1, OrdersAreStrict
  <2> QED  BY <1>3, <2>1
<1>5. IsFiniteSet(S)
  BY <1>1, RowsAreFinite
<1>6. \A x \in S : \E i \in DOMAIN s : s[i] = x
  BY <1>2, <1>4, <1>5, NothingLeftOut
<1> DEFINE q == [i \in DOMAIN s |-> [row |-> s[i], parent |-> None]]
<1>7. /\ DOMAIN q = 1..n /\ Len(q) = n
      /\ \A i \in 1..n : q[i].row = s[i] /\ q[i].parent = None
  BY <1>2
<1>8. Start(set, top, span) =
          [pending |-> q, seen |-> {}, targets |-> <<>>, failed |-> Refused(set, top, span)]
  BY <1>2 DEF Start, S, q
<1> HIDE DEF q
<1>9. PICK w : w = Start(set, top, span)
  OBVIOUS
<1>10. w.pending = q /\ w.seen = {} /\ w.targets = <<>> /\ w.failed = Refused(set, top, span)
  BY <1>8, <1>9
<1>11. Queue(w) = S
  BY <1>6, <1>7, <1>10 DEF Queue
<1> QED  BY <1>2, <1>7, <1>9, <1>10, <1>11 DEF S

\* The children that join the queue.
Joining(set, row, seen) == {child \in Younger(set, row) : child.pid \notin seen}

LEMMA DescendantsAre ==
    ASSUME NEW set \in SUBSET Row, Distinct(set), NEW row \in set, NEW seen
    PROVE  LET d == Descendants(set, row, seen)
               new == Joining(set, row, seen)
           IN  /\ \A i \in DOMAIN d : d[i].row \in new /\ d[i].parent = Id(row)
               /\ \A child \in new : \E i \in DOMAIN d : d[i].row = child
               /\ Len(d) = Cardinality(new)
<1> DEFINE S == Joining(set, row, seen)
<1>1. S \in SUBSET Row /\ Distinct(S)
  BY DEF Joining, Younger, Children, Distinct
<1>2. PICK new : new = S
  OBVIOUS
<1> HIDE DEF S
<1>3. PICK n \in Nat : n = Cardinality(new) /\ \E s \in [1..n -> new] : s = Arranged(new, ByPid)
  BY <1>1, <1>2, SortedByPid
<1> PICK s \in [1..n -> new] : s = Arranged(new, ByPid)
  BY <1>3
<1>4. \A i, j \in DOMAIN s : i < j => ByPid(s[i], s[j])
  BY <1>1, <1>2, SortedByPid
<1>5. \A i, j \in DOMAIN s : i < j => s[i] # s[j]
  <2>1. ASSUME NEW r \in new PROVE ~ByPid(r, r)
    BY <1>1, <1>2, OrdersAreStrict
  <2> QED  BY <1>4, <2>1
<1>6. IsFiniteSet(new)
  BY <1>1, <1>2, RowsAreFinite
<1>7. \A x \in new : \E i \in DOMAIN s : s[i] = x
  BY <1>3, <1>5, <1>6, NothingLeftOut
<1> DEFINE q == [i \in DOMAIN s |-> [row |-> s[i], parent |-> Id(row)]]
<1>8. /\ DOMAIN q = 1..n /\ Len(q) = n
      /\ \A i \in 1..n : q[i].row = s[i] /\ q[i].parent = Id(row)
  BY <1>3
<1>9. Descendants(set, row, seen) = q
  BY <1>2 DEF Descendants, Joining, S, q
<1> HIDE DEF q
<1>10. PICK d : d = Descendants(set, row, seen)
  OBVIOUS
<1>11. /\ \A i \in DOMAIN d : d[i].row \in new /\ d[i].parent = Id(row)
       /\ \A child \in new : \E i \in DOMAIN d : d[i].row = child
       /\ Len(d) = Cardinality(new)
  BY <1>3, <1>7, <1>8, <1>9, <1>10
<1> QED  BY <1>2, <1>10, <1>11 DEF S

\* What a walk that goes on has at the head of its queue.
LEMMA Heads ==
    ASSUME NEW set \in SUBSET Row, NEW top, NEW span, NEW w \in Walks(set, top, span), ~Done(w)
    PROVE  LET e == Head(w.pending)
           IN  /\ w.pending \in Seq(Queued(set)) /\ w.targets \in Seq(Reviewed(set))
               /\ Len(w.pending) >= 1 /\ e = w.pending[1] /\ e \in Queued(set)
               /\ e.row \in set /\ e.parent \in Identity \cup {None} /\ e.row \in Queue(w)
               /\ Parented(set, e.row, e.parent) /\ ~w.failed
               /\ Tail(w.pending) \in Seq(Queued(set))
               /\ Len(Tail(w.pending)) = Len(w.pending) - 1
               /\ \A i \in DOMAIN Tail(w.pending) :
                     i + 1 \in DOMAIN w.pending /\ Tail(w.pending)[i] = w.pending[i + 1]
               /\ \A row \in Queue(w) :
                     row = e.row \/ \E i \in DOMAIN Tail(w.pending) : Tail(w.pending)[i].row = row
<1>1. w.pending \in Seq(Queued(set)) /\ w.pending # <<>> /\ ~w.failed /\ w.targets \in Seq(Reviewed(set))
  BY DEF Walks, Done
<1>2. PICK q \in Seq(Queued(set)) : q = w.pending
  BY <1>1
<1>3. Len(q) >= 1 /\ Head(q) = q[1] /\ 1 \in DOMAIN q /\ q[1] \in Queued(set)
  BY <1>1, <1>2
<1>4. /\ Tail(q) \in Seq(Queued(set)) /\ Len(Tail(q)) = Len(q) - 1
      /\ \A i \in DOMAIN Tail(q) : i + 1 \in DOMAIN q /\ Tail(q)[i] = q[i + 1]
  BY <1>1, <1>2
<1>5. ASSUME NEW i \in DOMAIN q, i # 1 PROVE \E j \in DOMAIN Tail(q) : Tail(q)[j] = q[i]
  <2>1. i - 1 \in DOMAIN Tail(q) /\ (i - 1) + 1 = i
    BY <1>2, <1>4, <1>5
  <2> QED  BY <1>4, <2>1
<1>6. \A row \in Queue(w) : row = q[1].row \/ \E j \in DOMAIN Tail(q) : Tail(q)[j].row = row
  BY <1>2, <1>5 DEF Queue
<1>7. PICK e \in Queued(set) : e = q[1]
  BY <1>3
<1>8. e.row \in set /\ e.parent \in Identity \cup {None} /\ Parented(set, e.row, e.parent)
  BY DEF Queued
<1>9. e.row \in Queue(w)
  BY <1>2, <1>3, <1>7 DEF Queue
<1> QED  BY <1>1, <1>2, <1>3, <1>4, <1>6, <1>7, <1>8, <1>9

\* A listed identity is that of a row that was seen.
LEMMA ListedIsSeen ==
    ASSUME NEW set \in SUBSET Row, Distinct(set), NEW top, NEW span,
           NEW w \in Walks(set, top, span), Listing(set, w), NEW i \in DOMAIN w.targets
    PROVE  \E row \in Seen(set, w) : w.targets[i].id = Id(row) /\ w.targets[i].id.pid = row.pid
<1>1. w.targets[i] \in Reviewed(set)
  BY DEF Walks
<1>2. PICK row \in set : w.targets[i].id = Id(row)
  BY <1>1 DEF Reviewed
<1>3. row.pid \in w.seen
  BY <1>2 DEF Listing
<1> QED  BY <1>2, <1>3 DEF Seen, Id

\* As many targets as rows that were seen.
LEMMA ListingCounts ==
    ASSUME NEW set \in SUBSET Row, Distinct(set), NEW top, NEW span,
           NEW w \in Walks(set, top, span), Listing(set, w)
    PROVE  /\ IsFiniteSet(Seen(set, w)) /\ Cardinality(Seen(set, w)) = Len(w.targets)
           /\ Len(w.targets) \in Nat
<1>1. PICK n \in Nat : n = Len(w.targets) /\ DOMAIN w.targets = 1..n
  BY DEF Walks
<1> DEFINE S == Seen(set, w)
           f == [i \in 1..n |-> CHOOSE row \in S : w.targets[i].id = Id(row)]
<1>2. \A i \in 1..n : \E row \in S : w.targets[i].id = Id(row)
  BY <1>1, ListedIsSeen
<1>3. \A i \in 1..n : f[i] \in S /\ w.targets[i].id = Id(f[i])
  <2> HIDE DEF S
  <2> QED  BY <1>2
<1>4. f \in [1..n -> S]
  BY <1>3
<1> HIDE DEF f
<1>5. ASSUME NEW i \in 1..n, NEW j \in 1..n, f[i] = f[j] PROVE i = j
  BY <1>1, <1>3, <1>5 DEF Listing
<1>6. ASSUME NEW row \in S PROVE \E i \in 1..n : f[i] = row
  <2>1. PICK i \in 1..n : w.targets[i].id = Id(row)
    BY <1>1 DEF Listing, Seen
  <2>2. Id(f[i]) = Id(row) /\ Id(f[i]).pid = f[i].pid /\ Id(row).pid = row.pid
    BY <1>3, <2>1 DEF Id
  <2>3. f[i] = row
    BY <1>3, <2>2 DEF Distinct, Seen
  <2> QED  BY <2>3
<1>7. f \in Bijection(1..n, S)
  BY <1>4, <1>5, <1>6 DEF Bijection, Injection, IsInjective, Surjection
<1>8. IsFiniteSet(1..n) /\ Cardinality(1..n) = n
  BY FS_Interval
<1> HIDE DEF S
<1>9. IsFiniteSet(S) /\ Cardinality(S) = n
  <2>1. ExistsBijection(1..n, S)
    BY <1>7 DEF ExistsBijection
  <2> QED  BY <1>8, <2>1, FS_Bijection
<1> QED  BY <1>1, <1>9 DEF S

\* The early returns, before the first turn.
LEMMA StartKeepsWalk ==
    ASSUME NEW set \in SUBSET Row, Distinct(set), NEW top \in {Id(row) : row \in set},
           NEW span \in Scopes
    PROVE  WalkInv(set, top, span, Start(set, top, span))
<1>1. PICK w \in Walks(set, top, span) : w = Start(set, top, span)
  BY StartType
<1>2. /\ \A i \in DOMAIN w.pending :
            w.pending[i].parent = None /\ w.pending[i].row \in Roots(set, top, span)
      /\ Queue(w) = Roots(set, top, span)
      /\ Len(w.pending) = Cardinality(Roots(set, top, span))
      /\ w.seen = {} /\ w.targets = <<>> /\ w.failed = Refused(set, top, span)
  BY <1>1, StartIsRoots
<1>3. DOMAIN w.targets = {} /\ Len(w.targets) = 0 /\ Seen(set, w) = {}
  BY <1>2 DEF Seen
<1>4. Listing(set, w) /\ Ancestry(set, top, span, w)
  BY <1>2, <1>3 DEF Listing, Ancestry
<1>5. Growing(set, top, span, w)
  BY <1>2, <1>3, FamilyCloses DEF Growing
<1>6. Allowed(w)
  BY <1>3, ProcessTreeAssumption DEF Allowed
<1>7. Counted(set, top, span, w)
  <2>1. Roots(set, top, span) \subseteq set /\ IsFiniteSet(set)
    BY RowsAreFinite DEF Roots, Selected, SamePath
  <2>2. Cardinality(Roots(set, top, span)) <= Cardinality(set)
    BY <2>1, FS_Subset
  <2>3. {row \in set : row.parent \in w.seen} = {}
    BY <1>2
  <2>4. Cardinality({row \in set : row.parent \in w.seen}) = 0
    BY <2>3, FS_EmptySet
  <2>5. w = Turns(set, top, span)[0]
    BY <1>1, TurnsExist
  <2>6. Cardinality(set) \in Nat /\ Cardinality(Roots(set, top, span)) \in Nat
    BY <2>1, FS_Subset, FS_CardinalityType
  <2>7. 0 + Len(w.pending) <= Cardinality(set) + Cardinality({row \in set : row.parent \in w.seen})
    BY <1>2, <2>2, <2>4, <2>6
  <2> QED  BY <2>5, <2>7 DEF Counted
<1>8. Branch(set, top, span, w)
  <2>1. ASSUME span = "SelectedTree", NEW row \in Queue(w) PROVE row.created >= top.created
    <3>1. row \in Row /\ Id(row) = top
      BY <1>2, <2>1 DEF Roots, Selected
    <3> QED  BY <3>1, RowFields DEF Id
  <2> QED  BY <1>3, <2>1 DEF Branch
<1>9. ASSUME Refused(set, top, span), ReviewableOf(set, top, span) PROVE FALSE
  <2>1. PICK own \in set : Id(own) = top
    OBVIOUS
  <2>2. own \in Selected(set, top) /\ \A r \in Selected(set, top) : r = own
    BY <2>1 DEF Selected, Distinct, Id
  <2>3. \A row \in set : row.path # None
    BY <1>9 DEF ReviewableOf
  <2>4. own \in Roots(set, top, span)
    BY <2>1, <2>2, <2>3 DEF Roots, SamePath
  <2>5. own \in FamilyOf(set, top, span)
    BY <2>4, FamilyCloses
  <2>6. own.created # 0
    BY <1>9, <2>5 DEF ReviewableOf
  <2>7. top.created # 0
    BY <2>1, <2>6 DEF Id
  <2> QED  BY <1>9, <2>2, <2>3, <2>7 DEF Refused, Distinct
<1> QED  BY <1>1, <1>2, <1>4, <1>5, <1>6, <1>7, <1>8, <1>9 DEF WalkInv, ForCause

\* A turn that only drops an entry, for a process that was visited.
LEMMA SkipKeepsWalk ==
    ASSUME NEW set \in SUBSET Row, Distinct(set), NEW top, NEW span, NEW w,
           WalkInv(set, top, span, w), ~Done(w), Head(w.pending).row.pid \in w.seen
    PROVE  WalkInv(set, top, span, Visit(set, span, w))
<1>1. PICK v \in Walks(set, top, span) : v = Visit(set, span, w)
  BY VisitType DEF WalkInv
<1>2. PICK e \in Queued(set) : e = Head(w.pending)
  BY Heads DEF WalkInv
<1>3. /\ w.pending \in Seq(Queued(set)) /\ w.targets \in Seq(Reviewed(set))
      /\ e.row \in set /\ e.row \in Queue(w) /\ Len(w.pending) >= 1
      /\ Len(Tail(w.pending)) = Len(w.pending) - 1 /\ Tail(w.pending) \in Seq(Queued(set))
      /\ \A i \in DOMAIN Tail(w.pending) :
            i + 1 \in DOMAIN w.pending /\ Tail(w.pending)[i] = w.pending[i + 1]
      /\ \A row \in Queue(w) :
            row = e.row \/ \E i \in DOMAIN Tail(w.pending) : Tail(w.pending)[i].row = row
  BY <1>2, Heads DEF WalkInv
<1>4. /\ v.pending = Tail(w.pending) /\ v.seen = w.seen /\ v.targets = w.targets /\ ~v.failed
      /\ ~w.failed
  <2>1. /\ w = [pending |-> w.pending, seen |-> w.seen, targets |-> w.targets, failed |-> w.failed]
        /\ ~w.failed
    BY DEF WalkInv, Walks, Done
  <2>2. Visit(set, span, w) = [w EXCEPT !.pending = Tail(w.pending)]
    BY <1>2 DEF Visit
  <2> QED  BY <1>1, <2>1, <2>2
<1>5. /\ Seen(set, v) = Seen(set, w) /\ Queue(v) \subseteq Queue(w)
      /\ Queue(w) \subseteq Queue(v) \cup Seen(set, v)
  <2>1. Seen(set, v) = Seen(set, w) /\ e.row \in Seen(set, v)
    BY <1>2, <1>3, <1>4 DEF Seen
  <2>2. Queue(v) \subseteq Queue(w)
    BY <1>3, <1>4 DEF Queue
  <2>3. ASSUME NEW row \in Queue(w), row # e.row PROVE row \in Queue(v)
    <3>1. PICK i \in DOMAIN Tail(w.pending) : Tail(w.pending)[i].row = row
      BY <1>3, <2>3
    <3> QED  BY <1>4, <3>1 DEF Queue
  <2> QED  BY <2>1, <2>2, <2>3
<1>6. Listing(set, v)
  BY <1>4 DEF WalkInv, Listing
<1>7. Ancestry(set, top, span, v)
  <2>1. \A i \in DOMAIN v.pending :
            IF v.pending[i].parent = None THEN v.pending[i].row \in Roots(set, top, span)
            ELSE \E j \in DOMAIN v.targets : v.targets[j].id = v.pending[i].parent
    BY <1>3, <1>4 DEF WalkInv, Ancestry
  <2> QED  BY <1>4, <2>1 DEF WalkInv, Ancestry
<1>8. Growing(set, top, span, v)
  BY <1>5 DEF WalkInv, Growing
<1>9. Allowed(v)
  BY <1>4 DEF WalkInv, Allowed
<1>10. Counted(set, top, span, v)
  <2>1. PICK n \in Nat :
           /\ w = Turns(set, top, span)[n]
           /\ n + Len(w.pending) <= Cardinality(set) + Cardinality({row \in set : row.parent \in w.seen})
    BY <1>4 DEF WalkInv, Counted
  <2>2. n + 1 \in Nat /\ v = Turns(set, top, span)[n + 1]
    BY <1>1, <2>1, TurnsExist
  <2>3. (n + 1) + Len(v.pending) = n + Len(w.pending)
    BY <1>3, <1>4
  <2>4. (n + 1) + Len(v.pending) <= Cardinality(set) + Cardinality({row \in set : row.parent \in v.seen})
    BY <1>4, <2>1, <2>3
  <2> QED  BY <2>2, <2>4 DEF Counted
<1>11. Branch(set, top, span, v)
  BY <1>4, <1>5 DEF WalkInv, Branch
<1> QED  BY <1>1, <1>4, <1>6, <1>7, <1>8, <1>9, <1>10, <1>11 DEF WalkInv, ForCause

\* A refusal is for a reason.
LEMMA RefusalHasACause ==
    ASSUME NEW set \in SUBSET Row, Distinct(set), NEW top \in {Id(row) : row \in set},
           NEW span, NEW w, WalkInv(set, top, span, w), ~Done(w),
           Head(w.pending).row.pid \notin w.seen, Refusal(set, span, w)
    PROVE  ~ReviewableOf(set, top, span)
<1> SUFFICES ASSUME ReviewableOf(set, top, span) PROVE FALSE
  OBVIOUS
<1>1. PICK row \in set : row = Head(w.pending).row /\ row \in Queue(w)
  BY Heads DEF WalkInv
<1>2. row \in FamilyOf(set, top, span) /\ Seen(set, w) \subseteq FamilyOf(set, top, span)
  BY <1>1 DEF WalkInv, Growing
<1>3. row.created # 0 /\ row.pid \notin Untouchable /\ row \notin Seen(set, w) /\ row \in Row
  BY <1>1, <1>2 DEF ReviewableOf, Seen
<1>4. Len(w.targets) # MaxTargets
  <2> DEFINE F == FamilyOf(set, top, span)
             S == Seen(set, w)
  <2>1. IsFiniteSet(S) /\ Cardinality(S) = Len(w.targets) /\ Len(w.targets) \in Nat
    BY ListingCounts DEF WalkInv
  <2>2. IsFiniteSet(set) /\ F \subseteq set
    BY RowsAreFinite DEF FamilyOf
  <2>3. S \cup {row} \subseteq F /\ row \notin S /\ Cardinality(F) <= MaxTargets
    BY <1>2, <1>3 DEF ReviewableOf
  <2> HIDE DEF F, S
  <2>4. IsFiniteSet(F) /\ Cardinality(F) \in Nat
    BY <2>2, FS_Subset, FS_CardinalityType
  <2>5. Cardinality(S \cup {row}) = Cardinality(S) + 1
    BY <2>1, <2>3, FS_AddElement
  <2>6. Cardinality(S \cup {row}) <= Cardinality(F)
    BY <2>3, <2>4, FS_Subset
  <2> QED  BY <2>1, <2>3, <2>4, <2>5, <2>6, ProcessTreeAssumption
<1>5. \A child \in Children(set, row) : child.created # 0 /\ child.created # row.created
  BY <1>2 DEF ReviewableOf
<1>6. PICK child \in Younger(set, row) : span = "SelectedTree" /\ child.pid \in w.seen \cup {row.pid}
  BY <1>1, <1>3, <1>4, <1>5 DEF Refusal
<1>7. /\ child \in set /\ child \in Row /\ child.parent = row.pid
      /\ child.created > row.created /\ row.created >= top.created
  <2>1. child \in set /\ child \in Row /\ child.parent = row.pid /\ child.created >= row.created
    BY <1>6 DEF Younger, Children
  <2>2. child.created \in Nat /\ row.created \in Nat /\ child.created # row.created
    BY <1>3, <1>5, <1>6, <2>1, RowFields DEF Younger
  <2>3. row.created >= top.created
    BY <1>1, <1>6 DEF WalkInv, Branch
  <2> QED  BY <2>1, <2>2, <2>3
<1>8. top.created \in Nat /\ row.created \in Nat /\ child.created \in Nat
  <2>1. \A own \in set : own.created \in Nat /\ Id(own).created = own.created
    BY RowFields DEF Id
  <2> QED  BY <1>7, <2>1
<1>9. child.pid # row.pid
  <2>1. SUFFICES ASSUME child.pid = row.pid PROVE FALSE
    OBVIOUS
  <2>2. child = row
    BY <1>7, <2>1 DEF Distinct
  <2> QED  BY <1>7, <1>8, <2>2
<1>10. PICK j \in DOMAIN w.targets : w.targets[j].id = Id(child)
  BY <1>6, <1>7, <1>9 DEF WalkInv, Listing
<1>11. CASE w.targets[j].parent = None
  <2>1. PICK r \in Roots(set, top, span) : Id(r) = Id(child)
    BY <1>10, <1>11 DEF WalkInv, Ancestry
  <2>2. Id(child) = top
    BY <1>6, <2>1 DEF Roots, Selected
  <2>3. child.created = top.created
    BY <2>2 DEF Id
  <2> QED  BY <1>7, <1>8, <2>3
<1>12. CASE w.targets[j].parent # None
  <2>1. /\ \E i \in 1..(j - 1) : w.targets[i].id = w.targets[j].parent
        /\ \E r \in set : Id(r) = Id(child) /\ r.parent = w.targets[j].parent.pid
    BY <1>10, <1>12 DEF WalkInv, Ancestry
  <2>2. PICK r \in set : Id(r) = Id(child) /\ r.parent = w.targets[j].parent.pid
    BY <2>1
  <2>3. r = child
    BY <1>7, <2>2 DEF Id, Distinct
  <2>4. PICK i \in 1..(j - 1) : w.targets[i].id.pid = row.pid
    BY <1>7, <2>1, <2>2, <2>3
  <2>5. i \in DOMAIN w.targets
    BY <2>4 DEF WalkInv, Walks
  <2>6. PICK r2 \in Seen(set, w) : w.targets[i].id.pid = r2.pid
    BY <2>5, ListedIsSeen DEF WalkInv
  <2>7. r2 = row
    BY <2>4, <2>6 DEF Seen, Distinct
  <2> QED  BY <1>3, <2>7
<1> QED  BY <1>11, <1>12

LEMMA RefusalKeepsWalk ==
    ASSUME NEW set \in SUBSET Row, Distinct(set), NEW top \in {Id(row) : row \in set},
           NEW span, NEW w, WalkInv(set, top, span, w), ~Done(w),
           Head(w.pending).row.pid \notin w.seen, Refusal(set, span, w)
    PROVE  WalkInv(set, top, span, Visit(set, span, w))
<1>1. PICK v \in Walks(set, top, span) : v = Visit(set, span, w)
  BY VisitType DEF WalkInv
<1>2. v.pending = w.pending /\ v.seen = w.seen /\ v.targets = w.targets /\ v.failed
  <2>1. w = [pending |-> w.pending, seen |-> w.seen, targets |-> w.targets, failed |-> w.failed]
    BY DEF WalkInv, Walks
  <2>2. Visit(set, span, w) = [w EXCEPT !.failed = TRUE]
    BY DEF Visit
  <2> QED  BY <1>1, <2>1, <2>2
<1>3. Seen(set, v) = Seen(set, w) /\ Queue(v) = Queue(w)
  BY <1>2 DEF Seen, Queue
<1>4. ~ReviewableOf(set, top, span)
  BY RefusalHasACause
<1>5. Listing(set, v) /\ Allowed(v)
  BY <1>2 DEF WalkInv, Listing, Allowed
<1>6. Ancestry(set, top, span, v)
  BY <1>2 DEF WalkInv, Ancestry
<1>7. Growing(set, top, span, v)
  BY <1>3 DEF WalkInv, Growing
<1>8. Counted(set, top, span, v)
  BY <1>2 DEF Counted
<1>9. Branch(set, top, span, v)
  BY <1>2, <1>3 DEF WalkInv, Branch
<1> QED  BY <1>1, <1>4, <1>5, <1>6, <1>7, <1>8, <1>9 DEF WalkInv, ForCause

\* A process that joins the list, and its children the queue.
LEMMA ListedKeepsWalk ==
    ASSUME NEW set \in SUBSET Row, Distinct(set), NEW top \in {Id(row) : row \in set},
           NEW span, NEW w, WalkInv(set, top, span, w), ~Done(w),
           Head(w.pending).row.pid \notin w.seen, ~Refusal(set, span, w)
    PROVE  WalkInv(set, top, span, Visit(set, span, w))
<1>1. PICK v \in Walks(set, top, span) : v = Visit(set, span, w)
  BY VisitType DEF WalkInv
<1>2. PICK e \in Queued(set) : e = Head(w.pending)
  BY Heads DEF WalkInv
<1> DEFINE row == e.row
           rest == Tail(w.pending)
           d == Descendants(set, row, w.seen \cup {row.pid})
           new == Joining(set, row, w.seen \cup {row.pid})
           here == Len(w.targets) + 1
<1>3. /\ w.pending \in Seq(Queued(set)) /\ w.targets \in Seq(Reviewed(set))
      /\ row \in set /\ row \in Queue(w) /\ Len(w.pending) >= 1
      /\ e.parent \in Identity \cup {None} /\ Parented(set, row, e.parent)
      /\ Len(rest) = Len(w.pending) - 1 /\ rest \in Seq(Queued(set))
      /\ e = w.pending[1] /\ ~w.failed
      /\ \A i \in DOMAIN rest : i + 1 \in DOMAIN w.pending /\ rest[i] = w.pending[i + 1]
      /\ \A r \in Queue(w) : r = row \/ \E i \in DOMAIN rest : rest[i].row = r
  BY <1>2, Heads DEF WalkInv
<1>4. row \in Row /\ row.created # 0 /\ row.pid \notin Untouchable /\ Len(w.targets) # MaxTargets
  BY <1>2, <1>3 DEF Refusal
<1>5. /\ d \in Seq(Queued(set)) /\ Len(d) = Cardinality(new)
      /\ \A i \in DOMAIN d : d[i].row \in new /\ d[i].parent = Id(row)
      /\ \A child \in new : \E i \in DOMAIN d : d[i].row = child
  <2>1. PICK r \in set : r = row
    BY <1>3
  <2>2. PICK seen : seen = w.seen \cup {row.pid}
    OBVIOUS
  <2>3. PICK q \in Seq(Queued(set)) : q = Descendants(set, r, seen)
    BY <1>4, <2>1, DescendantsType
  <2>4. /\ \A i \in DOMAIN q : q[i].row \in Joining(set, r, seen) /\ q[i].parent = Id(r)
        /\ \A child \in Joining(set, r, seen) : \E i \in DOMAIN q : q[i].row = child
        /\ Len(q) = Cardinality(Joining(set, r, seen))
    BY <2>3, DescendantsAre
  <2> QED  BY <2>1, <2>2, <2>3, <2>4
<1> HIDE DEF d
<1>6. /\ v.pending = rest \o d /\ v.seen = w.seen \cup {row.pid} /\ ~v.failed
      /\ v.targets = Append(w.targets, [id |-> Id(row), parent |-> e.parent])
  BY <1>1, <1>2 DEF Visit, d
<1>7. /\ here \in DOMAIN v.targets /\ v.targets[here].id = Id(row) /\ v.targets[here].parent = e.parent
      /\ \A i \in DOMAIN w.targets : i \in DOMAIN v.targets /\ v.targets[i] = w.targets[i] /\ i < here
      /\ \A i \in DOMAIN v.targets : i = here \/ i \in DOMAIN w.targets
      /\ Len(v.targets) = here /\ Len(w.targets) \in Nat
  BY <1>3, <1>6
<1>8. /\ \A i \in DOMAIN rest : i \in DOMAIN v.pending /\ v.pending[i] = rest[i]
      /\ \A i \in DOMAIN d : Len(rest) + i \in DOMAIN v.pending /\ v.pending[Len(rest) + i] = d[i]
      /\ \A i \in DOMAIN v.pending : (i \in DOMAIN rest /\ v.pending[i] = rest[i])
                                     \/ \E j \in DOMAIN d : v.pending[i] = d[j]
      /\ Len(v.pending) = Len(rest) + Len(d)
  <2>1. rest \in Seq(Queued(set)) /\ d \in Seq(Queued(set)) /\ v.pending = rest \o d
    BY <1>3, <1>5, <1>6
  <2>2. /\ Len(v.pending) = Len(rest) + Len(d) /\ DOMAIN v.pending = 1..(Len(rest) + Len(d))
        /\ \A i \in 1..(Len(rest) + Len(d)) :
              v.pending[i] = IF i <= Len(rest) THEN rest[i] ELSE d[i - Len(rest)]
        /\ DOMAIN rest = 1..Len(rest) /\ DOMAIN d = 1..Len(d) /\ Len(rest) \in Nat /\ Len(d) \in Nat
    BY <2>1
  <2>3. \A i \in DOMAIN v.pending : i <= Len(rest) \/ i - Len(rest) \in DOMAIN d
    BY <2>2
  <2>4. \A i \in DOMAIN d : (Len(rest) + i) - Len(rest) = i /\ ~(Len(rest) + i <= Len(rest))
                            /\ Len(rest) + i \in 1..(Len(rest) + Len(d))
    BY <2>2
  <2>5. \A i \in DOMAIN d : v.pending[Len(rest) + i] = d[i]
    BY <2>2, <2>4
  <2>6. \A i \in DOMAIN rest : i \in DOMAIN v.pending /\ v.pending[i] = rest[i]
    BY <2>2
  <2> QED  BY <2>2, <2>3, <2>4, <2>5, <2>6
<1> HIDE DEF rest
<1>9. Seen(set, v) = Seen(set, w) \cup {row} /\ row \notin Seen(set, w)
  BY <1>2, <1>3, <1>6 DEF Seen, Distinct
<1>10. Queue(v) \subseteq Queue(w) \cup new /\ new \subseteq Queue(v)
       /\ Queue(w) \subseteq Queue(v) \cup {row}
  <2>1. \A i \in DOMAIN rest : rest[i].row \in Queue(w)
    BY <1>3 DEF Queue
  <2>2. Queue(v) \subseteq Queue(w) \cup new
    <3>1. ASSUME NEW i \in DOMAIN v.pending PROVE v.pending[i].row \in Queue(w) \cup new
      <4>1. CASE i \in DOMAIN rest /\ v.pending[i] = rest[i]
        BY <2>1, <4>1
      <4>2. CASE \E j \in DOMAIN d : v.pending[i] = d[j]
        BY <1>5, <4>2
      <4> QED  BY <1>8, <4>1, <4>2
    <3> HIDE DEF new
    <3> QED  BY <3>1 DEF Queue
  <2>3. new \subseteq Queue(v)
    <3>1. ASSUME NEW child \in new PROVE child \in Queue(v)
      <4>1. PICK i \in DOMAIN d : d[i].row = child
        BY <1>5, <3>1
      <4> QED  BY <1>8, <4>1 DEF Queue
    <3> QED  BY <3>1
  <2>4. Queue(w) \subseteq Queue(v) \cup {row}
    <3>1. ASSUME NEW r \in Queue(w), r # row PROVE r \in Queue(v)
      <4>1. PICK i \in DOMAIN rest : rest[i].row = r
        BY <1>3, <3>1
      <4> QED  BY <1>8, <4>1 DEF Queue
    <3> QED  BY <3>1
  <2> QED  BY <2>2, <2>3, <2>4
<1>11. Listing(set, v)
  <2>1. ASSUME NEW r \in set
        PROVE  r.pid \in v.seen <=> \E i \in DOMAIN v.targets : v.targets[i].id = Id(r)
    <3>1. r.pid \in w.seen <=> \E i \in DOMAIN w.targets : w.targets[i].id = Id(r)
      BY DEF WalkInv, Listing
    <3>2. r.pid = row.pid <=> Id(row) = Id(r)
      BY <1>3 DEF Distinct, Id
    <3> QED  BY <1>6, <1>7, <3>1, <3>2
  <2>2. ASSUME NEW i \in DOMAIN w.targets PROVE w.targets[i].id.pid # row.pid
    <3>1. PICK r \in Seen(set, w) : w.targets[i].id.pid = r.pid
      BY ListedIsSeen DEF WalkInv
    <3> QED  BY <1>2, <3>1 DEF Seen
  <2>3. v.targets[here].id.pid = row.pid
    BY <1>7 DEF Id
  <2>4. \A i, j \in DOMAIN v.targets : i # j => v.targets[i].id.pid # v.targets[j].id.pid
    BY <1>7, <2>2, <2>3 DEF WalkInv, Listing
  <2> QED  BY <2>1, <2>4 DEF Listing
<1>12. Ancestry(set, top, span, v)
  <2>1. \A i \in DOMAIN w.pending :
           IF w.pending[i].parent = None THEN w.pending[i].row \in Roots(set, top, span)
           ELSE \E j \in DOMAIN w.targets : w.targets[j].id = w.pending[i].parent
    BY DEF WalkInv, Ancestry
  <2>2. ASSUME NEW i \in DOMAIN v.pending
        PROVE  IF v.pending[i].parent = None THEN v.pending[i].row \in Roots(set, top, span)
               ELSE \E j \in DOMAIN v.targets : v.targets[j].id = v.pending[i].parent
    <3>1. CASE i \in DOMAIN rest /\ v.pending[i] = rest[i]
      <4>1. i + 1 \in DOMAIN w.pending /\ v.pending[i] = w.pending[i + 1]
        BY <1>3, <3>1
      <4>2. v.pending[i].parent # None =>
               \E j \in DOMAIN w.targets : w.targets[j].id = v.pending[i].parent
        BY <2>1, <4>1
      <4> QED  BY <1>7, <2>1, <4>1, <4>2
    <3>2. CASE \E j \in DOMAIN d : v.pending[i] = d[j]
      <4>1. v.pending[i].parent = Id(row)
        BY <1>5, <3>2
      <4>2. Id(row) # None
        BY <1>4, IdIsIdentity, Identities
      <4> QED  BY <1>7, <4>1, <4>2
    <3> QED  BY <1>8, <3>1, <3>2
  <2>3. IF e.parent = None THEN row \in Roots(set, top, span)
        ELSE \E j \in DOMAIN w.targets : w.targets[j].id = e.parent
    <3>1. 1 \in DOMAIN w.pending
      BY <1>3
    <3> QED  BY <1>3, <2>1, <3>1
  <2>4. e.parent # None => row.parent = e.parent.pid
    <3>1. ASSUME NEW mother \in set, e.parent = Id(mother), row \in Younger(set, mother)
          PROVE  row.parent = e.parent.pid
      BY <3>1 DEF Younger, Children, Id
    <3> QED  BY <1>3, <3>1 DEF Parented
  <2>5. ASSUME NEW j \in DOMAIN v.targets
        PROVE  IF v.targets[j].parent = None
               THEN \E r \in Roots(set, top, span) : Id(r) = v.targets[j].id
               ELSE /\ \E i \in 1..(j - 1) : v.targets[i].id = v.targets[j].parent
                    /\ \E r \in set : Id(r) = v.targets[j].id /\ r.parent = v.targets[j].parent.pid
    <3>1. CASE j \in DOMAIN w.targets
      <4>1. \A i \in 1..(j - 1) : i \in DOMAIN w.targets
        BY <1>3, <3>1
      <4>2. IF w.targets[j].parent = None
            THEN \E r \in Roots(set, top, span) : Id(r) = w.targets[j].id
            ELSE /\ \E i \in 1..(j - 1) : w.targets[i].id = w.targets[j].parent
                 /\ \E r \in set : Id(r) = w.targets[j].id /\ r.parent = w.targets[j].parent.pid
        BY <3>1 DEF WalkInv, Ancestry
      <4>3. v.targets[j] = w.targets[j] /\ \A i \in 1..(j - 1) : v.targets[i] = w.targets[i]
        BY <1>7, <3>1, <4>1
      <4> QED  BY <4>2, <4>3
    <3>2. CASE j = here
      <4>1. \A i \in DOMAIN w.targets : i \in 1..(here - 1)
        BY <1>3
      <4>2. v.targets[j].id = Id(row) /\ v.targets[j].parent = e.parent
        BY <1>7, <3>2
      <4>3. CASE e.parent = None
        BY <2>3, <4>2, <4>3
      <4>4. CASE e.parent # None
        <5>1. PICK i \in DOMAIN w.targets : w.targets[i].id = e.parent
          BY <2>3, <4>4
        <5>2. i \in 1..(j - 1) /\ v.targets[i].id = e.parent
          BY <1>7, <3>2, <4>1, <5>1
        <5> QED  BY <1>3, <2>4, <4>2, <4>4, <5>2
      <4> QED  BY <4>3, <4>4
    <3> QED  BY <1>7, <3>1, <3>2
  <2> QED  BY <2>2, <2>5 DEF Ancestry
<1>13. Growing(set, top, span, v)
  <2>1. /\ Seen(set, w) \cup Queue(w) \subseteq FamilyOf(set, top, span)
        /\ Roots(set, top, span) \subseteq Seen(set, w) \cup Queue(w)
        /\ \A r \in Seen(set, w) : Younger(set, r) \subseteq Seen(set, w) \cup Queue(w)
    BY DEF WalkInv, Growing
  <2>2. new \subseteq FamilyOf(set, top, span)
    <3>1. Younger(set, row) \subseteq FamilyOf(set, top, span)
      BY <1>3, <2>1, FamilyCloses
    <3> QED  BY <3>1 DEF Joining
  <2>3. Younger(set, row) \subseteq Seen(set, v) \cup new
    BY <1>6 DEF Joining, Seen, Younger, Children
  <2> HIDE DEF new
  <2> QED  BY <1>3, <1>9, <1>10, <2>1, <2>2, <2>3 DEF Growing
<1>14. Allowed(v)
  <2>1. Len(v.targets) <= MaxTargets
    BY <1>4, <1>7, ProcessTreeAssumption DEF WalkInv, Allowed
  <2>2. v.targets[here].id.pid \notin Untouchable
    BY <1>4, <1>7 DEF Id
  <2> QED  BY <1>7, <2>1, <2>2 DEF WalkInv, Allowed
<1>15. Counted(set, top, span, v)
  <2> DEFINE Of(seen) == {r \in set : r.parent \in seen}
  <2>1. PICK n \in Nat :
           /\ w = Turns(set, top, span)[n]
           /\ n + Len(w.pending) <= Cardinality(set) + Cardinality(Of(w.seen))
    BY <1>3 DEF WalkInv, Counted
  <2>2. n + 1 \in Nat /\ v = Turns(set, top, span)[n + 1]
    BY <1>1, <2>1, TurnsExist
  <2>3. Cardinality(Of(v.seen)) >= Cardinality(Of(w.seen)) + Cardinality(new)
        /\ Cardinality(new) \in Nat /\ Cardinality(Of(w.seen)) \in Nat
        /\ Cardinality(Of(v.seen)) \in Nat /\ Cardinality(set) \in Nat
    <3>1. Of(w.seen) \cap new = {} /\ Of(w.seen) \cup new \subseteq Of(v.seen)
      BY <1>2, <1>6 DEF Joining, Younger, Children
    <3>2. IsFiniteSet(set) /\ Of(v.seen) \subseteq set
      BY RowsAreFinite
    <3> DEFINE A == Of(w.seen)
               B == new
               C == Of(v.seen)
    <3> HIDE DEF A, B, C
    <3>3. A \cap B = {} /\ A \cup B \subseteq C /\ C \subseteq set
      BY <3>1, <3>2 DEF A, B, C
    <3>4. IsFiniteSet(C) /\ Cardinality(C) \in Nat /\ Cardinality(set) \in Nat
      BY <3>2, <3>3, FS_Subset, FS_CardinalityType
    <3>5. IsFiniteSet(A) /\ IsFiniteSet(B) /\ IsFiniteSet(A \cup B)
      BY <3>3, <3>4, FS_Subset
    <3>6. Cardinality(A) \in Nat /\ Cardinality(B) \in Nat
      BY <3>5, FS_CardinalityType
    <3>7. Cardinality(A \cup B) = Cardinality(A) + Cardinality(B)
      <4>1. Cardinality(A \cup B) = Cardinality(A) + Cardinality(B) - Cardinality(A \cap B)
        BY <3>5, FS_Union
      <4>2. Cardinality(A \cap B) = 0
        BY <3>3, FS_EmptySet
      <4> QED  BY <3>6, <4>1, <4>2
    <3>8. Cardinality(A \cup B) <= Cardinality(C)
      BY <3>3, <3>4, FS_Subset
    <3>9. Cardinality(C) >= Cardinality(A) + Cardinality(B)
      BY <3>4, <3>6, <3>7, <3>8
    <3> QED  BY <3>4, <3>6, <3>9 DEF A, B, C
  <2> HIDE DEF Of, new
  <2>4. Len(v.pending) = Len(w.pending) - 1 + Cardinality(new) /\ Len(w.pending) \in Nat
    BY <1>3, <1>5, <1>8
  <2>5. (n + 1) + Len(v.pending) <= Cardinality(set) + Cardinality(Of(v.seen))
    BY <2>1, <2>3, <2>4
  <2> QED  BY <2>2, <2>5 DEF Counted, Of
<1>16. Branch(set, top, span, v)
  <2> SUFFICES ASSUME span = "SelectedTree" PROVE Branch(set, top, span, v)
    BY DEF Branch
  <2>1. /\ \A r \in Seen(set, w) \cup Queue(w) : r.created >= top.created
        /\ \A i, j \in DOMAIN w.targets : \A a, b \in set :
              Id(a) = w.targets[i].id /\ Id(b) = w.targets[j].id /\ b \in Younger(set, a) => i < j
    BY DEF WalkInv, Branch
  <2>2. \A own \in set : own.created \in Nat /\ Id(own).created = own.created
    BY RowFields DEF Id
  <2>3. \A child \in new : child \in set /\ child.created >= row.created
    BY DEF Joining, Younger, Children
  <2>4. row.created >= top.created /\ top.created \in Nat
    BY <1>3, <2>1, <2>2
  <2>5. \A child \in new : child.created >= top.created
    BY <1>3, <2>2, <2>3, <2>4
  <2>6. \A r \in Seen(set, v) \cup Queue(v) : r.created >= top.created
    <3> HIDE DEF new
    <3> QED  BY <1>3, <1>9, <1>10, <2>1, <2>5
  <2>7. ASSUME NEW i \in DOMAIN v.targets, NEW j \in DOMAIN v.targets, NEW a \in set, NEW b \in set,
               Id(a) = v.targets[i].id, Id(b) = v.targets[j].id, b \in Younger(set, a)
        PROVE  i < j
    <3>1. CASE i = here
      <4>1. a = row
        BY <1>3, <1>7, <2>7, <3>1 DEF Id, Distinct
      <4>2. b.pid \in w.seen \cup {row.pid}
        BY <1>6, <1>11, <2>7 DEF Listing
      <4>3. Refusal(set, span, w)
        BY <1>2, <2>7, <4>1, <4>2 DEF Refusal
      <4> QED  BY <4>3
    <3>2. CASE i \in DOMAIN w.targets /\ j = here
      BY <1>7, <3>2
    <3>3. CASE i \in DOMAIN w.targets /\ j \in DOMAIN w.targets
      <4>1. Id(a) = w.targets[i].id /\ Id(b) = w.targets[j].id
        BY <1>7, <2>7, <3>3
      <4> QED  BY <2>1, <2>7, <3>3, <4>1
    <3> QED  BY <1>7, <3>1, <3>2, <3>3
  <2> HIDE DEF new, here
  <2> QED  BY <2>6, <2>7 DEF Branch
<1> QED  BY <1>1, <1>6, <1>11, <1>12, <1>13, <1>14, <1>15, <1>16 DEF WalkInv, ForCause

\* What a walk that ended without an error lists.
LEMMA FinishedIsFamily ==
    ASSUME NEW set \in SUBSET Row, Distinct(set), NEW top, NEW span \in Scopes,
           NEW w, WalkInv(set, top, span, w), Done(w), ~w.failed
    PROVE  /\ \A i \in DOMAIN w.targets :
                 \E row \in FamilyOf(set, top, span) : w.targets[i].id = Id(row)
           /\ \A row \in FamilyOf(set, top, span) :
                 \E i \in DOMAIN w.targets : w.targets[i].id = Id(row)
           /\ Len(w.targets) = Cardinality(FamilyOf(set, top, span)) /\ Len(w.targets) >= 1
<1>1. Queue(w) = {}
  BY DEF Done, Queue
<1>2. Seen(set, w) = FamilyOf(set, top, span)
  <2>1. /\ Seen(set, w) \subseteq FamilyOf(set, top, span) /\ Roots(set, top, span) \subseteq Seen(set, w)
        /\ \A row \in Seen(set, w) : Younger(set, row) \subseteq Seen(set, w)
    BY <1>1 DEF WalkInv, Growing
  <2>2. PICK all \in SUBSET set : all = Seen(set, w)
    BY DEF Seen
  <2>3. FamilyOf(set, top, span) \subseteq all
    BY <2>1, <2>2, FamilyCloses
  <2> QED  BY <2>1, <2>2, <2>3
<1> PICK F : F = FamilyOf(set, top, span)
  OBVIOUS
<1>3. \A i \in DOMAIN w.targets : \E row \in F : w.targets[i].id = Id(row)
  BY <1>2, ListedIsSeen DEF WalkInv
<1>4. \A row \in F : \E i \in DOMAIN w.targets : w.targets[i].id = Id(row)
  BY <1>2 DEF WalkInv, Listing, Seen
<1>6. IsFiniteSet(F) /\ Cardinality(F) = Len(w.targets) /\ Len(w.targets) \in Nat
  <2>1. IsFiniteSet(Seen(set, w)) /\ Cardinality(Seen(set, w)) = Len(w.targets) /\ Len(w.targets) \in Nat
    BY ListingCounts DEF WalkInv
  <2> QED  BY <1>2, <2>1
<1>7. Seen(set, w) # {}
  <2>1. ~Refused(set, top, span)
    BY DEF WalkInv, Walks
  <2>2. PICK row \in Selected(set, top) : TRUE
    BY <2>1 DEF Refused
  <2>3. span = "AllInstances" => row.path # None
    BY <2>1, <2>2 DEF Refused
  <2>4. CASE span = "SelectedTree"
    <3>1. row \in Roots(set, top, span)
      BY <2>2, <2>4 DEF Roots
    <3> QED  BY <1>2, <3>1, FamilyCloses
  <2>5. CASE span = "AllInstances"
    <3>1. row \in Roots(set, top, span)
      BY <2>2, <2>3, <2>5 DEF Roots, SamePath, Selected
    <3> QED  BY <1>2, <3>1, FamilyCloses
  <2> QED  BY <2>4, <2>5 DEF Scopes
<1>8. Len(w.targets) # 0
  BY <1>2, <1>6, <1>7, FS_EmptySet
<1>9. Len(w.targets) >= 1
  BY <1>6, <1>8
<1> QED  BY <1>3, <1>4, <1>6, <1>9

\* A walk that ends without an error is the one of Build, within its turns.
LEMMA FinishedIsBuilt ==
    ASSUME NEW set \in SUBSET Row, Distinct(set), NEW top, NEW span \in Scopes,
           NEW w, WalkInv(set, top, span, w), Done(w), ~w.failed
    PROVE  Build(set, top, span).targets = w.targets
<1>1. PICK n \in Nat :
         /\ w = Turns(set, top, span)[n]
         /\ n + Len(w.pending) <= Cardinality(set) + Cardinality({row \in set : row.parent \in w.seen})
  BY DEF WalkInv, Counted
<1>2. n <= 2 * Cardinality(set) /\ 2 * Cardinality(set) \in Nat
  <2>1. IsFiniteSet(set)
    BY RowsAreFinite
  <2>2. PICK S \in SUBSET set : S = {row \in set : row.parent \in w.seen}
    OBVIOUS
  <2>3. Cardinality(S) <= Cardinality(set) /\ Cardinality(S) \in Nat /\ Cardinality(set) \in Nat
    BY <2>1, FS_Subset, FS_CardinalityType
  <2>4. Len(w.pending) \in Nat
    BY DEF WalkInv, Walks
  <2> QED  BY <1>1, <2>2, <2>3, <2>4
<1>3. \A m \in Nat : Turns(set, top, span)[n + m] = w
  <2> DEFINE T == {m \in Nat : Turns(set, top, span)[n + m] = w}
  <2>1. 0 \in T
    BY <1>1
  <2>2. ASSUME NEW m \in Nat, m \in T PROVE m + 1 \in T
    <3>1. PICK k \in Nat : k = n + m
      OBVIOUS
    <3>2. Turns(set, top, span)[k] = w
      BY <2>2, <3>1
    <3>3. Turns(set, top, span)[k + 1] = w
      BY <3>2, TurnsExist
    <3> QED  BY <3>1, <3>3
  <2>3. \A m \in Nat : m \in T
    <3> HIDE DEF T
    <3> QED  BY <2>1, <2>2, SetInduction
  <2> QED  BY <2>3
<1>4. Turns(set, top, span)[2 * Cardinality(set)] = w
  <2>1. PICK m \in Nat : n + m = 2 * Cardinality(set)
    <3>1. 2 * Cardinality(set) - n \in Nat /\ n + (2 * Cardinality(set) - n) = 2 * Cardinality(set)
      BY <1>2
    <3> QED  BY <3>1
  <2> QED  BY <1>3, <2>1
<1>5. PlanValid(w.targets)
  <2>1. Len(w.targets) \in 1..MaxTargets
    <3>1. Len(w.targets) >= 1 /\ Len(w.targets) \in Nat
      BY FinishedIsFamily, ListingCounts DEF WalkInv
    <3> QED  BY <3>1, ProcessTreeAssumption DEF WalkInv, Allowed
  <2>2. ASSUME NEW i \in DOMAIN w.targets PROVE w.targets[i].id.created # 0
    <3>1. w.targets[i] \in Reviewed(set)
      BY DEF WalkInv, Walks
    <3> QED  BY <3>1 DEF Reviewed, Target, Identity
  <2> QED  BY <2>1, <2>2 DEF PlanValid, WalkInv, Allowed, Listing
<1> QED  BY <1>4, <1>5, BuildsTurns

\* The state of the walk.
ReviewInv ==
    /\ sampled \in SUBSET Row /\ Distinct(sampled) /\ root \in {Id(row) : row \in sampled}
    /\ scope \in Scopes /\ WalkInv(sampled, root, scope, walk)

LEMMA TurnKeepsReview == ReviewInv /\ [Turn]_treeVars => ReviewInv'
<1> SUFFICES ASSUME ReviewInv, [Turn]_treeVars PROVE ReviewInv'
  OBVIOUS
<1>1. CASE Turn
  <2>1. PICK set \in SUBSET Row, top \in {root}, span \in Scopes, w \in {walk} :
           set = sampled /\ span = scope
    BY DEF ReviewInv
  <2>2. /\ Distinct(set) /\ top \in {Id(row) : row \in set} /\ WalkInv(set, top, span, w) /\ ~Done(w)
    BY <1>1, <2>1 DEF ReviewInv, Turn
  <2>3. WalkInv(set, top, span, Visit(set, span, w))
    <3>1. CASE Head(w.pending).row.pid \in w.seen
      BY <2>2, <3>1, SkipKeepsWalk
    <3>2. CASE Head(w.pending).row.pid \notin w.seen /\ Refusal(set, span, w)
      BY <2>2, <3>2, RefusalKeepsWalk
    <3>3. CASE Head(w.pending).row.pid \notin w.seen /\ ~Refusal(set, span, w)
      BY <2>2, <3>3, ListedKeepsWalk
    <3> QED  BY <3>1, <3>2, <3>3
  <2>4. sampled' = set /\ root' = top /\ scope' = span /\ walk' = Visit(set, span, w)
    BY <1>1, <2>1 DEF Turn
  <2> QED  BY <2>2, <2>3, <2>4 DEF ReviewInv
<1>2. CASE UNCHANGED treeVars
  BY <1>2 DEF treeVars, ReviewInv
<1> QED  BY <1>1, <1>2

\* What the properties of the walk say follows from its invariant.
LEMMA ReviewIsWhole == ASSUME ReviewInv PROVE ReviewsTheFamily
<1>1. Family = FamilyOf(sampled, root, scope)
  BY DEF Family, FamilyOf, Closed
<1>2. PICK w \in Walks(sampled, root, scope) : w = walk
  BY DEF ReviewInv, WalkInv
<1>3. TreeTypeOK
  <2>1. w.pending \in Seq(Entry)
    <3>1. Queued(sampled) \subseteq Entry
      BY DEF ReviewInv, Queued, Entry
    <3> QED  BY <3>1 DEF Walks
  <2>2. w.targets \in Seq(Target)
    BY DEF Walks, Reviewed
  <2>3. root \in [pid : Pids, created : Nat]
    BY RowFields DEF ReviewInv, Id
  <2> QED  BY <1>2, <2>1, <2>2, <2>3 DEF TreeTypeOK, ReviewInv, Walks
<1>4. ListsTheFamily
  <2> SUFFICES ASSUME Finished PROVE ListsTheFamily
    BY DEF ListsTheFamily
  <2>1. Build(sampled, root, scope).targets = walk.targets
    BY FinishedIsBuilt DEF Finished, ReviewInv
  <2>2. /\ \A i \in DOMAIN walk.targets : \E row \in Family : walk.targets[i].id = Id(row)
        /\ \A row \in Family : \E i \in DOMAIN walk.targets : walk.targets[i].id = Id(row)
        /\ Len(walk.targets) = Cardinality(Family)
    BY <1>1, FinishedIsFamily DEF Finished, ReviewInv
  <2>3. {walk.targets[i].id : i \in DOMAIN walk.targets} = {Id(row) : row \in Family}
    BY <2>2
  <2> QED  BY <2>1, <2>2, <2>3 DEF ListsTheFamily
<1>5. ParentListedBefore
  BY DEF ReviewInv, WalkInv, Ancestry, ParentListedBefore
<1>6. BranchParentsFirst
  BY DEF ReviewInv, WalkInv, Branch, BranchParentsFirst, ParentsPrecedeChildren
<1>7. RefusedForCause
  <2>1. Reviewable => ReviewableOf(sampled, root, scope)
    BY <1>1 DEF Reviewable, ReviewableOf
  <2> QED  BY <2>1 DEF RefusedForCause, ReviewInv, WalkInv, ForCause
<1> QED  BY <1>3, <1>4, <1>5, <1>6, <1>7 DEF ReviewsTheFamily

\* A sample has one row per process.
LEMMA InitIsReview == TreeInit => ReviewInv
<1> SUFFICES ASSUME TreeInit PROVE ReviewInv
  OBVIOUS
<1>1. PICK present \in SUBSET Pids : \E table \in [present -> SampleRows] :
         /\ sampled = SampleOf(table) /\ root \in {Id(row) : row \in sampled} /\ scope \in Scopes
         /\ walk = Start(sampled, root, scope)
  BY DEF TreeInit
<1> PICK table \in [present -> SampleRows] :
         /\ sampled = SampleOf(table) /\ root \in {Id(row) : row \in sampled} /\ scope \in Scopes
         /\ walk = Start(sampled, root, scope)
  BY <1>1
<1>2. ASSUME NEW pid \in present
      PROVE  [pid |-> pid, parent |-> table[pid].parent, created |-> table[pid].created,
              path |-> table[pid].path, name |-> table[pid].name] \in Row
  BY ProcessWalkAssumption DEF SampleRows, Row
<1>3. sampled \in SUBSET Row /\ Distinct(sampled)
  BY <1>2 DEF SampleOf, Distinct
<1>4. WalkInv(sampled, root, scope, walk)
  BY <1>3, StartKeepsWalk
<1> QED  BY <1>3, <1>4 DEF ReviewInv

\* Whatever the sample, the loop of Plan::build reviews the family of the selected
\* process: each member once, after its parent, and a refusal is for a reason.
THEOREM WholeFamiliesAreReviewed == TreeSpec => []ReviewsTheFamily
<1>1. ReviewInv => ReviewsTheFamily
  BY ReviewIsWhole
<1> QED  BY <1>1, InitIsReview, TurnKeepsReview, PTL DEF TreeSpec

-----------------------------------------------------------------------------
SortKeys == [pid : Nat, missing : BOOLEAN, field : Nat]

Ways == {"Ascending", "Descending"}

(* Of two keys of different processes one precedes the other, in each      *)
(* direction, and not both.                                                *)
LEMMA OneIsFirst ==
  ASSUME NEW x \in SortKeys, NEW y \in SortKeys, NEW way \in Ways, x.pid # y.pid
  PROVE  Precedes(x, y, way) <=> ~Precedes(y, x, way)
  BY DEF SortKeys, Ways, Precedes, Below

LEMMA PrecedesIsTransitive ==
  ASSUME NEW x \in SortKeys, NEW y \in SortKeys, NEW z \in SortKeys, NEW way \in Ways,
         Precedes(x, y, way), Precedes(y, z, way)
  PROVE  Precedes(x, z, way)
  BY DEF SortKeys, Ways, Precedes, Below

OrderTypeOK ==
  /\ orderRows \in [OrderPids -> [parent : OrderPids \cup {0}, is : OrderKinds]]
  /\ direction \in Ways

LEMMA OrderTypeCorrect == OrderSpec => []OrderTypeOK
<1>1. OrderInit => OrderTypeOK
  BY DEF OrderInit, OrderTypeOK, Ways
<1>2. OrderTypeOK /\ [OrderNext]_orderVars => OrderTypeOK'
  BY DEF OrderTypeOK, OrderNext, ClickColumn, OtherWay, orderVars, Ways
<1> QED BY <1>1, <1>2, PTL DEF OrderSpec

LEMMA KeysAreKeys ==
  ASSUME OrderTypeOK, NEW p \in OrderPids
  PROVE  FlatKey(p) \in SortKeys /\ FlatKey(p).pid = p
<1>1. Listed(p) \in OrderKind /\ p \in Nat
  BY OrderAssumption DEF OrderTypeOK, Listed
<1>2. Listed(p).number \in Nat /\ Folded(Listed(p).name) \in Nat /\ Listed(p).gpu.value \in Nat
  BY <1>1 DEF OrderKind, Usage, Folded
<1>3. StateLabel(Listed(p)) \in Nat
  BY <1>1 DEF OrderKind, StateLabel, Suspended
<1> DEFINE key == FlatKey(p)
<1>4. key.pid = p /\ key.missing \in BOOLEAN /\ key.field \in Nat
  BY <1>1, <1>2, <1>3 DEF FlatKey, SortKey
<1>5. key \in SortKeys
  BY <1>1, <1>2, <1>3 DEF FlatKey, SortKey, SortKeys
<1> QED BY <1>4, <1>5

(* Whatever the sample, the column and the direction: two rows of the      *)
(* table are in one order only, and the orders of three rows agree, so     *)
(* that the sort has one result (model.rs:341-382).                        *)
THEOREM TableOrderIsStrict ==
  OrderSpec => [](\A p, q, r \in OrderPids :
     /\ p # q => (Precedes(FlatKey(p), FlatKey(q), direction)
                    <=> ~Precedes(FlatKey(q), FlatKey(p), direction))
     /\ Precedes(FlatKey(p), FlatKey(q), direction) /\ Precedes(FlatKey(q), FlatKey(r), direction)
          => Precedes(FlatKey(p), FlatKey(r), direction))
<1> DEFINE Strict ==
     \A p, q, r \in OrderPids :
     /\ p # q => (Precedes(FlatKey(p), FlatKey(q), direction)
                    <=> ~Precedes(FlatKey(q), FlatKey(p), direction))
     /\ Precedes(FlatKey(p), FlatKey(q), direction) /\ Precedes(FlatKey(q), FlatKey(r), direction)
          => Precedes(FlatKey(p), FlatKey(r), direction)
<1>1. OrderTypeOK => Strict
  <2> SUFFICES ASSUME OrderTypeOK, NEW p \in OrderPids, NEW q \in OrderPids, NEW r \in OrderPids
               PROVE  /\ p # q => (Precedes(FlatKey(p), FlatKey(q), direction)
                                     <=> ~Precedes(FlatKey(q), FlatKey(p), direction))
                      /\ Precedes(FlatKey(p), FlatKey(q), direction)
                         /\ Precedes(FlatKey(q), FlatKey(r), direction)
                           => Precedes(FlatKey(p), FlatKey(r), direction)
    OBVIOUS
  <2>1. direction \in Ways
    BY DEF OrderTypeOK
  <2>2. /\ FlatKey(p) \in SortKeys /\ FlatKey(q) \in SortKeys /\ FlatKey(r) \in SortKeys
        /\ FlatKey(p).pid = p /\ FlatKey(q).pid = q
    BY KeysAreKeys
  <2>3. ASSUME p # q
        PROVE  Precedes(FlatKey(p), FlatKey(q), direction)
                 <=> ~Precedes(FlatKey(q), FlatKey(p), direction)
    BY <2>1, <2>2, <2>3, OneIsFirst
  <2>4. ASSUME Precedes(FlatKey(p), FlatKey(q), direction),
               Precedes(FlatKey(q), FlatKey(r), direction)
        PROVE  Precedes(FlatKey(p), FlatKey(r), direction)
    BY <2>1, <2>2, <2>4, PrecedesIsTransitive
  <2> QED BY <2>3, <2>4
<1> QED BY <1>1, OrderTypeCorrect, PTL
-----------------------------------------------------------------------------
(* A sum by its kind and value, a missing reading counting as nothing.     *)
IsSum(s, a, b) ==
  /\ s \in Usage /\ s.value = a.value + b.value
  /\ a.kind = "Measured" /\ b.kind = "Measured" => s.kind = "Measured"
  /\ (HasValue(a) \/ HasValue(b)) /\ ~(a.kind = "Measured" /\ b.kind = "Measured")
       => s.kind = "Partial"
  /\ ~HasValue(a) /\ ~HasValue(b) /\ a.kind = b.kind => s.kind = a.kind
  /\ ~HasValue(a) /\ ~HasValue(b) /\ a.kind # b.kind => s.kind = "Unavailable"

LEMMA MissingIsNothing ==
  ASSUME NEW a \in Usage
  PROVE  /\ a.value \in Nat
         /\ a.kind \in {"Measured", "Partial", "Warming", "Unreported", "Unavailable"}
         /\ ~HasValue(a) => a.value = 0
         /\ a = [kind |-> a.kind, value |-> a.value]
  BY DEF Usage, HasValue

LEMMA UsageIs ==
  ASSUME NEW kind, NEW value \in Nat,
         kind \in {"Measured", "Partial"}
           \/ (kind \in {"Warming", "Unreported", "Unavailable"} /\ value = 0)
  PROVE  [kind |-> kind, value |-> value] \in Usage
  BY DEF Usage

LEMMA SumOfUsages ==
  ASSUME NEW a \in Usage, NEW b \in Usage
  PROVE  IsSum(SumUsage(a, b), a, b)
<1>1. CASE a.kind = "Measured" /\ b.kind = "Measured"
  <2>1. SumUsage(a, b) = [kind |-> "Measured", value |-> a.value + b.value]
    BY <1>1 DEF SumUsage, Combine, Measured, HasValue
  <2> QED BY <1>1, <2>1, MissingIsNothing, UsageIs DEF IsSum
<1>2. CASE HasValue(a) /\ HasValue(b) /\ ~(a.kind = "Measured" /\ b.kind = "Measured")
  <2>1. SumUsage(a, b) = [kind |-> "Partial", value |-> a.value + b.value]
    BY <1>2 DEF SumUsage, Combine, Partial, HasValue
  <2> QED BY <1>2, <2>1, MissingIsNothing, UsageIs DEF IsSum
<1>3. CASE HasValue(a) /\ ~HasValue(b)
  <2>1. SumUsage(a, b) = [kind |-> "Partial", value |-> a.value]
    BY <1>3 DEF SumUsage, Combine, Partial, HasValue
  <2>2. a.value = a.value + b.value /\ b.kind # "Measured"
    BY <1>3, MissingIsNothing DEF HasValue
  <2> QED BY <1>3, <2>1, <2>2, MissingIsNothing, UsageIs DEF IsSum
<1>4. CASE ~HasValue(a) /\ HasValue(b)
  <2>1. SumUsage(a, b) = [kind |-> "Partial", value |-> b.value]
    BY <1>4 DEF SumUsage, Combine, Partial, HasValue
  <2>2. b.value = a.value + b.value /\ a.kind # "Measured"
    BY <1>4, MissingIsNothing DEF HasValue
  <2> QED BY <1>4, <2>1, <2>2, MissingIsNothing, UsageIs DEF IsSum
<1>5. CASE ~HasValue(a) /\ ~HasValue(b) /\ a.kind = b.kind
  <2>1. SumUsage(a, b) = a
    BY <1>5 DEF SumUsage, Combine, HasValue
  <2>2. a.value = a.value + b.value /\ a.kind # "Measured"
    BY <1>5, MissingIsNothing DEF HasValue
  <2> QED BY <1>5, <2>1, <2>2 DEF IsSum
<1>6. CASE ~HasValue(a) /\ ~HasValue(b) /\ a.kind # b.kind
  <2>1. SumUsage(a, b) = [kind |-> "Unavailable", value |-> 0]
    BY <1>6 DEF SumUsage, Combine, Missing, HasValue
  <2>2. 0 = a.value + b.value /\ a.kind # "Measured"
    BY <1>6, MissingIsNothing DEF HasValue
  <2> QED BY <1>6, <2>1, <2>2, UsageIs DEF IsSum
<1> QED BY <1>1, <1>2, <1>3, <1>4, <1>5, <1>6

LEMMA SameUsage ==
  ASSUME NEW u \in Usage, NEW v \in Usage, u.kind = v.kind, u.value = v.value
  PROVE  u = v
  BY MissingIsNothing

(* The parts of a tree's GPU reading may be added in any order and         *)
(* grouping; the sum is missing only if all of them are (gpu_activity.rs   *)
(* Usage::sum, process_tree.rs:47-63).                                     *)
THEOREM UsagesAddInAnyOrder ==
  ASSUME NEW a \in Usage, NEW b \in Usage, NEW c \in Usage
  PROVE  /\ SumUsage(a, b) = SumUsage(b, a)
         /\ SumUsage(SumUsage(a, b), c) = SumUsage(a, SumUsage(b, c))
         /\ HasValue(SumUsage(a, b)) <=> HasValue(a) \/ HasValue(b)
<1> DEFINE ab == SumUsage(a, b) ba == SumUsage(b, a) bc == SumUsage(b, c)
           left == SumUsage(ab, c) right == SumUsage(a, bc)
<1> HIDE DEF ab, ba, bc, left, right
<1>1. IsSum(ab, a, b) /\ IsSum(ba, b, a) /\ IsSum(bc, b, c)
  BY SumOfUsages DEF ab, ba, bc
<1>2. ab \in Usage /\ ba \in Usage /\ bc \in Usage
  BY <1>1 DEF IsSum
<1>3. IsSum(left, ab, c) /\ IsSum(right, a, bc)
  BY <1>2, SumOfUsages DEF left, right
<1>4. left \in Usage /\ right \in Usage
  BY <1>3 DEF IsSum
<1>5. ab = ba
  <2>1. ab.value = ba.value
    BY <1>1, MissingIsNothing DEF IsSum
  <2>2. ab.kind = ba.kind
    BY <1>1, MissingIsNothing DEF IsSum, HasValue
  <2> QED BY <1>2, <2>1, <2>2, SameUsage
<1>6. left = right
  <2>1. left.value = right.value
    <3>1. left.value = (a.value + b.value) + c.value
          /\ right.value = a.value + (b.value + c.value)
      BY <1>1, <1>3 DEF IsSum
    <3> QED BY <3>1, MissingIsNothing
  <2>2. left.kind = right.kind
    <3>1. CASE a.kind = "Measured" /\ b.kind = "Measured" /\ c.kind = "Measured"
      BY <3>1, <1>1, <1>3 DEF IsSum
    <3>2. CASE ~HasValue(a) /\ ~HasValue(b) /\ ~HasValue(c)
      <4>1. ~HasValue(ab) /\ ~HasValue(bc)
        BY <3>2, <1>1, MissingIsNothing DEF IsSum, HasValue
      <4>2. CASE a.kind = b.kind /\ b.kind = c.kind
        BY <3>2, <4>1, <4>2, <1>1, <1>3 DEF IsSum
      <4>3. CASE ~(a.kind = b.kind /\ b.kind = c.kind)
        BY <3>2, <4>1, <4>3, <1>1, <1>3 DEF IsSum
      <4> QED BY <4>2, <4>3
    <3>3. CASE /\ HasValue(a) \/ HasValue(b) \/ HasValue(c)
               /\ ~(a.kind = "Measured" /\ b.kind = "Measured" /\ c.kind = "Measured")
      <4>1. left.kind = "Partial"
        <5>1. CASE HasValue(a) \/ HasValue(b)
          BY <3>3, <5>1, <1>1, <1>3 DEF IsSum, HasValue
        <5>2. CASE ~HasValue(a) /\ ~HasValue(b)
          BY <3>3, <5>2, <1>1, <1>3, MissingIsNothing DEF IsSum, HasValue
        <5> QED BY <5>1, <5>2
      <4>2. right.kind = "Partial"
        <5>1. CASE HasValue(b) \/ HasValue(c)
          BY <3>3, <5>1, <1>1, <1>3 DEF IsSum, HasValue
        <5>2. CASE ~HasValue(b) /\ ~HasValue(c)
          BY <3>3, <5>2, <1>1, <1>3, MissingIsNothing DEF IsSum, HasValue
        <5> QED BY <5>1, <5>2
      <4> QED BY <4>1, <4>2
    <3> QED BY <3>1, <3>2, <3>3
  <2> QED BY <1>4, <2>1, <2>2, SameUsage
<1>7. HasValue(ab) <=> HasValue(a) \/ HasValue(b)
  BY <1>1, MissingIsNothing DEF IsSum, HasValue
<1> QED BY <1>5, <1>6, <1>7 DEF ab, ba, bc, left, right

-----------------------------------------------------------------------------
(* What the table shows *)

\* What is expanded is listed, and every creation time it was seen with is the one kept.
TableInv ==
    /\ view = Inputs
    /\ DOMAIN readAs = DOMAIN expansion /\ DOMAIN expansion \subseteq DOMAIN tableRows
    /\ (~initialized => DOMAIN tableRows = {})
    /\ \A p \in DOMAIN expansion :
          readAs[p] \subseteq {expansion[p].native} \ {0}

\* A start continued keeps what was once known of it.
LEMMA ContinuedKeeps ==
    ASSUME NEW old, NEW new, NEW start \in Continued(old, new)
    PROVE  /\ old.native # 0 => start.native = old.native
           /\ new.native # 0 => start.native = new.native
BY DEF Continued, Changed, Either

LEMMA RetainedIs ==
    ASSUME NEW starts, NEW listed, NEW p \in DOMAIN RetainLive(starts, listed)
    PROVE  /\ p \in DOMAIN starts /\ p \in DOMAIN listed
           /\ starts[p].native # 0 => RetainLive(starts, listed)[p].native = starts[p].native
           /\ listed[p].native # 0 => RetainLive(starts, listed)[p].native = listed[p].native
<1>1. /\ p \in DOMAIN starts \cap DOMAIN listed /\ Continued(starts[p], listed[p]) # {}
      /\ RetainLive(starts, listed)[p] = CHOOSE start \in Continued(starts[p], listed[p]) : TRUE
  BY DEF RetainLive
<1>2. PICK start \in Continued(starts[p], listed[p]) : RetainLive(starts, listed)[p] = start
  BY <1>1
<1> QED  BY <1>1, <1>2, ContinuedKeeps

LEMMA SampleKeepsTable == ASSUME TableInv, AcceptTableSample PROVE TableInv'
<1>1. PICK listed \in SUBSET TablePids :
         /\ DOMAIN tableRows' = listed
         /\ IF initialized \/ listed = {}
            THEN expansion' = RetainLive(expansion, tableRows') /\ UNCHANGED initialized
            ELSE /\ \E roots \in SUBSET listed : expansion' = [p \in roots |-> tableRows'[p]]
                 /\ initialized' = TRUE
  BY DEF AcceptTableSample
<1>2. readAs' = SeenAs(expansion', tableRows') /\ view' = Inputs'
  BY DEF AcceptTableSample, RebuildVisibleProcesses
<1>3. /\ DOMAIN readAs' = DOMAIN expansion'
      /\ \A p \in DOMAIN expansion' :
            readAs'[p] = (IF p \in DOMAIN readAs THEN readAs[p] ELSE {}) \cup ({tableRows'[p].native} \ {0})
  BY <1>2 DEF SeenAs
<1>4. CASE initialized \/ listed = {}
  <2>1. expansion' = RetainLive(expansion, tableRows') /\ initialized' = initialized
    BY <1>1, <1>4
  <2>2. ASSUME NEW p \in DOMAIN expansion'
        PROVE  p \in DOMAIN tableRows' /\ readAs'[p] \subseteq {expansion'[p].native} \ {0}
    <3>1. /\ p \in DOMAIN expansion /\ p \in DOMAIN tableRows'
          /\ expansion[p].native # 0 => expansion'[p].native = expansion[p].native
          /\ tableRows'[p].native # 0 => expansion'[p].native = tableRows'[p].native
      BY <2>1, RetainedIs
    <3>2. readAs[p] \subseteq {expansion[p].native} \ {0}
      BY <3>1 DEF TableInv
    <3>3. readAs'[p] \subseteq readAs[p] \cup ({tableRows'[p].native} \ {0})
      BY <1>3
    <3> QED  BY <3>1, <3>2, <3>3
  <2>3. ~initialized' => DOMAIN tableRows' = {}
    BY <1>1, <1>4, <2>1
  <2> QED  BY <1>2, <1>3, <2>2, <2>3 DEF TableInv
<1>5. CASE ~(initialized \/ listed = {})
  <2>1. PICK roots \in SUBSET listed : expansion' = [p \in roots |-> tableRows'[p]]
    BY <1>1, <1>5
  <2>2. DOMAIN readAs = {}
    BY <1>5 DEF TableInv
  <2>3. \A p \in DOMAIN expansion' : readAs'[p] \subseteq {expansion'[p].native} \ {0}
    BY <1>3, <2>1, <2>2
  <2> QED  BY <1>1, <1>2, <1>3, <1>5, <2>1, <2>3 DEF TableInv
<1> QED  BY <1>4, <1>5

LEMMA ToggleKeepsTable == ASSUME TableInv, NEW p, ToggleRow(p) PROVE TableInv'
<1>1. /\ p \in DOMAIN tableRows /\ tableRows' = tableRows /\ initialized' = initialized
      /\ expansion' = Toggled(expansion, p, tableRows[p]) /\ view' = Inputs'
  BY DEF ToggleRow, RebuildVisibleProcesses
<1>2. /\ DOMAIN readAs' = DOMAIN expansion'
      /\ \A q \in DOMAIN expansion' :
            readAs'[q] = IF q \in DOMAIN readAs THEN readAs[q] ELSE {tableRows[q].native} \ {0}
  BY DEF ToggleRow
<1>3. CASE p \in DOMAIN expansion
  <2>1. /\ DOMAIN expansion' = DOMAIN expansion \ {p}
        /\ \A q \in DOMAIN expansion' : expansion'[q] = expansion[q]
    BY <1>1, <1>3 DEF Toggled, Collapsed
  <2> QED  BY <1>1, <1>2, <2>1 DEF TableInv
<1>4. CASE p \notin DOMAIN expansion
  <2>1. /\ DOMAIN expansion' = DOMAIN expansion \cup {p} /\ expansion'[p] = tableRows[p]
        /\ \A q \in DOMAIN expansion : expansion'[q] = expansion[q]
    BY <1>1, <1>4 DEF Toggled, Expanded
  <2>2. \A q \in DOMAIN expansion' : readAs'[q] \subseteq {expansion'[q].native} \ {0}
    BY <1>2, <1>4, <2>1 DEF TableInv
  <2> QED  BY <1>1, <1>2, <2>1, <2>2 DEF TableInv
<1> QED  BY <1>3, <1>4

\* The search, the order, the page and the suspensions leave the rows alone, and the
\* view is rebuilt whenever it depends on what changed.
LEMMA OthersKeepTable ==
    ASSUME TableInv, UNCHANGED <<tableRows, expansion, initialized, readAs>>,
           RebuildVisibleProcesses \/ (UNCHANGED view /\ Inputs' = Inputs)
    PROVE  TableInv'
BY DEF TableInv, RebuildVisibleProcesses

LEMMA TableStep == TableInv /\ [TableNext]_tableVars => TableInv'
<1> SUFFICES ASSUME TableInv, [TableNext]_tableVars PROVE TableInv'
  OBVIOUS
<1>1. CASE AcceptTableSample
  BY <1>1, SampleKeepsTable
<1>2. ASSUME NEW p \in TablePids, ToggleRow(p) PROVE TableInv'
  BY <1>2, ToggleKeepsTable
<1>3. ASSUME NEW text \in Searches, Search(text) PROVE TableInv'
  BY <1>3, OthersKeepTable DEF Search
<1>4. ASSUME NEW column \in Columns, SortBy(column) PROVE TableInv'
  BY <1>4, OthersKeepTable DEF SortBy
<1>5. CASE OpenTable
  <2>1. RebuildVisibleProcesses \/ (UNCHANGED view /\ Inputs' = Inputs)
    BY <1>5 DEF OpenTable, Inputs
  <2> QED  BY <1>5, <2>1, OthersKeepTable DEF OpenTable
<1>6. CASE TakeOutcome
  <2>1. RebuildVisibleProcesses \/ (UNCHANGED view /\ Inputs' = Inputs)
    BY <1>6 DEF TakeOutcome, Inputs
  <2> QED  BY <1>6, <2>1, OthersKeepTable DEF TakeOutcome
<1>7. CASE UNCHANGED tableVars
  BY <1>7, OthersKeepTable DEF tableVars, Inputs
<1> QED  BY <1>1, <1>2, <1>3, <1>4, <1>5, <1>6, <1>7 DEF TableNext

\* However samples, clicks, searches and suspensions come, the table is of the inputs of
\* the moment, and a row stays expanded for one process.
THEOREM TableShowsTheSample == TableInit /\ [][TableNext]_tableVars => []TableIsOfTheSample
<1>1. TableInit => TableInv
  BY DEF TableInit, TableInv
<1>2. TableInv => TableIsOfTheSample
  <2> SUFFICES ASSUME TableInv PROVE ExpandedForOneProcess
    BY DEF TableInv, TableIsOfTheSample, ViewIsCurrent
  <2>1. ASSUME NEW p \in DOMAIN readAs PROVE Cardinality(readAs[p]) <= 1
    <3>1. readAs[p] = {} \/ readAs[p] = {expansion[p].native}
      BY DEF TableInv
    <3>2. CASE readAs[p] = {}
      <4>1. Cardinality(readAs[p]) = 0
        BY <3>2, FS_EmptySet
      <4> QED  BY <4>1
    <3>3. CASE readAs[p] = {expansion[p].native}
      <4>1. Cardinality(readAs[p]) = 1
        BY <3>3, FS_Singleton
      <4> QED  BY <4>1
    <3> QED  BY <3>1, <3>2, <3>3
  <2> QED  BY <2>1 DEF TableInv, ExpandedForOneProcess
<1> QED  BY <1>1, <1>2, TableStep, PTL

-----------------------------------------------------------------------------
(* What is selected, and what a dialog sends *)

\* An open dialog is for the identity it was opened for.
Reviews(dialog, target) ==
    target.pid # 0 => reviewed[dialog] = [pid |-> target.pid, native |-> target.native]

DialogsInv ==
    /\ DOMAIN reviewed = Dialogs
    /\ Reviews("end", endTask) /\ Reviews("tree", endTree) /\ Reviews("control", control)

\* Steps that open and close no dialog.
LEMMA DialogsRest ==
    ASSUME DialogsInv, UNCHANGED <<endTask, endTree, control, reviewed>> PROVE DialogsInv'
BY DEF DialogsInv, Reviews

LEMMA DialogsStep == DialogsInv /\ [PageNext]_pageVars => DialogsInv'
<1> SUFFICES ASSUME DialogsInv, [PageNext]_pageVars PROVE DialogsInv'
  OBVIOUS
<1>1. CASE AcceptSample
  BY <1>1, DialogsRest DEF AcceptSample
<1>2. ASSUME NEW p \in PagePids, SelectProcess(p) PROVE DialogsInv'
  BY <1>2, DialogsRest DEF SelectProcess, dialogVars
<1>3. CASE RequestEndSelected
  BY <1>3 DEF RequestEndSelected, Opens, Selection, NoTarget, NoControl, DialogsInv, Reviews, Dialogs
<1>4. CASE RequestEndTreeSelected
  BY <1>4 DEF RequestEndTreeSelected, Opens, Selection, NoTarget, NoControl, DialogsInv, Reviews, Dialogs
<1>5. CASE RequestSuspension
  BY <1>5 DEF RequestSuspension, Opens, Selection, Asked, DialogsInv, Reviews, Dialogs
<1>6. ASSUME NEW editor \in {"priority", "affinity"}, OpenEditor(editor) \/ CancelEditor(editor)
      PROVE  DialogsInv'
  BY <1>6, DialogsRest DEF OpenEditor, CancelEditor
<1>7. ASSUME NEW editor \in {"priority", "affinity"}, ChooseInEditor(editor) PROVE DialogsInv'
  BY <1>7 DEF ChooseInEditor, Opens, Selection, Asked, DialogsInv, Reviews, Dialogs
<1>8. CASE ConfirmEndTask
  BY <1>8 DEF ConfirmEndTask, CloseReview, NoTarget, DialogsInv, Reviews, Dialogs
<1>9. CASE ConfirmEndTree
  BY <1>9 DEF ConfirmEndTree, CloseReview, NoTarget, DialogsInv, Reviews, Dialogs
<1>10. CASE ConfirmControlAction
  BY <1>10 DEF ConfirmControlAction, CloseReview, NoControl, DialogsInv, Reviews, Dialogs
<1>11. ASSUME NEW dialog \in Dialogs, CancelDialog(dialog) PROVE DialogsInv'
  BY <1>11 DEF CancelDialog, CloseReview, NoTarget, NoControl, DialogsInv, Reviews, Dialogs
<1>12. CASE OutcomeTaken \/ RendererReports
  BY <1>12, DialogsRest DEF OutcomeTaken, RendererReports, dialogVars
<1>13. CASE UNCHANGED pageVars
  BY <1>13, DialogsRest DEF pageVars, dialogVars
<1> QED  BY <1>1, <1>2, <1>3, <1>4, <1>5, <1>6, <1>7, <1>8, <1>9, <1>10, <1>11, <1>12, <1>13 DEF PageNext

\* Only a confirmation makes the controller busy.
LEMMA SubmitsTheReviewed ==
    ASSUME DialogsInv, PageNext, ~working, working'
    PROVE  /\ sent'.id = reviewed[sent'.dialog]
           /\ pageRows[sent'.id.pid].native = sent'.id.native
           /\ ~reconnecting
<1>1. ASSUME NEW dialog, NEW target, Submits(dialog, target), Reviews(dialog, target)
      PROVE  /\ sent'.id = reviewed[sent'.dialog]
             /\ pageRows[sent'.id.pid].native = sent'.id.native
             /\ ~reconnecting
  BY <1>1 DEF Submits, StillListed, Reviews
<1>2. CASE ConfirmEndTask
  BY <1>1, <1>2 DEF ConfirmEndTask, DialogsInv
<1>3. CASE ConfirmEndTree
  BY <1>1, <1>3 DEF ConfirmEndTree, DialogsInv
<1>4. CASE ConfirmControlAction
  BY <1>1, <1>4 DEF ConfirmControlAction, DialogsInv
<1>5. CASE AcceptSample \/ RequestEndSelected \/ RequestEndTreeSelected \/ RequestSuspension
           \/ OutcomeTaken \/ RendererReports
  BY <1>5 DEF AcceptSample, RequestEndSelected, RequestEndTreeSelected, RequestSuspension,
              OutcomeTaken, RendererReports
<1>6. CASE (\E p \in PagePids : SelectProcess(p)) \/ (\E dialog \in Dialogs : CancelDialog(dialog))
           \/ \E editor \in {"priority", "affinity"} :
                 OpenEditor(editor) \/ ChooseInEditor(editor) \/ CancelEditor(editor)
  BY <1>6 DEF SelectProcess, CancelDialog, OpenEditor, ChooseInEditor, CancelEditor
<1> QED  BY <1>2, <1>3, <1>4, <1>5, <1>6 DEF PageNext

LEMMA SelectionStep == SelectionKeepsItsSecond /\ [PageNext]_pageVars => SelectionKeepsItsSecond'
<1> SUFFICES ASSUME SelectionKeepsItsSecond, [PageNext]_pageVars PROVE SelectionKeepsItsSecond'
  OBVIOUS
<1>1. CASE AcceptSample
  <2>1. CASE selectedPid # 0 /\ ~Same(pageRows[selectedPid], pageRows'[selectedPid])
    BY <1>1, <2>1 DEF AcceptSample, SelectionKeepsItsSecond
  <2>2. CASE ~(selectedPid # 0 /\ ~Same(pageRows[selectedPid], pageRows'[selectedPid]))
    <3>1. UNCHANGED <<selectedPid, clickedSecond>>
      BY <1>1, <2>2 DEF AcceptSample
    <3> QED  BY <2>2, <3>1 DEF Same, SelectionKeepsItsSecond, IsSelected, SelectedRow
  <2> QED  BY <2>1, <2>2
<1>2. ASSUME NEW p \in PagePids, SelectProcess(p) PROVE SelectionKeepsItsSecond'
  BY <1>2 DEF SelectProcess, samplingVars, SelectionKeepsItsSecond, IsSelected, SelectedRow
<1>3. CASE UNCHANGED <<pageRows, selectedPid, clickedSecond>>
  BY <1>3 DEF SelectionKeepsItsSecond, IsSelected, SelectedRow
<1>4. CASE RequestEndSelected \/ RequestEndTreeSelected \/ RequestSuspension \/ ConfirmEndTask
           \/ ConfirmEndTree \/ ConfirmControlAction \/ OutcomeTaken \/ RendererReports
  BY <1>3, <1>4 DEF RequestEndSelected, RequestEndTreeSelected, RequestSuspension, ConfirmEndTask,
                    ConfirmEndTree, ConfirmControlAction, OutcomeTaken, RendererReports, samplingVars
<1>5. CASE \E editor \in {"priority", "affinity"} :
              OpenEditor(editor) \/ ChooseInEditor(editor) \/ CancelEditor(editor)
  BY <1>3, <1>5 DEF OpenEditor, ChooseInEditor, CancelEditor, samplingVars
<1>6. CASE \E dialog \in Dialogs : CancelDialog(dialog)
  BY <1>3, <1>6 DEF CancelDialog, samplingVars
<1>7. CASE UNCHANGED pageVars
  BY <1>3, <1>7 DEF pageVars, samplingVars
<1> QED  BY <1>1, <1>2, <1>4, <1>5, <1>6, <1>7 DEF PageNext

\* For any PIDs and any samples: what is selected started in the second of the clicked
\* row, and what is sent is what a dialog was opened for and the newest sample lists.
THEOREM OneProcessIsMeant == PageInit /\ [][PageNext]_pageVars => ActsOnTheClicked
<1> DEFINE Acts == ~working /\ working' => /\ sent'.id = reviewed[sent'.dialog]
                                           /\ pageRows[sent'.id.pid].native = sent'.id.native
                                           /\ ~reconnecting
<1>1. PageInit => DialogsInv /\ SelectionKeepsItsSecond
  BY DEF PageInit, DialogsInv, Reviews, NoTarget, NoControl, SelectionKeepsItsSecond
<1>2. DialogsInv /\ [PageNext]_pageVars => [Acts]_pageVars
  BY SubmitsTheReviewed
<1> QED  BY <1>1, <1>2, DialogsStep, SelectionStep, PTL DEF ActsOnTheClicked, ActsOnTheReviewed
=============================================================================
