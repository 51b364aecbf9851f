------------------------ MODULE SnapshotStore_proofs ------------------------
(***************************************************************************)
(* Proofs about SnapshotStore, in eight parts.                             *)
(*                                                                         *)
(* Sets of numbers: greatest and least elements, and induction over the    *)
(* naturals for a set, from the well-foundedness of < on Nat.              *)
(*                                                                         *)
(* Restructuring: whatever the table of links it starts from, the          *)
(* algorithm of restructure_for_restore leaves every parent older than its *)
(* child.                                                                  *)
(*                                                                         *)
(* Loading: what a row is rebuilt as is what its checksum says, and no     *)
(* workspace is made of a difference without a base.                       *)
(*                                                                         *)
(* Types: TypeInv types the tables, the memory of the processes and their  *)
(* jobs, counts the snapshots asked for, and has the processes between the *)
(* row and the head hold the lock.  TypeTheorem.                           *)
(*                                                                         *)
(* The tree: rows that no one has deleted form a tree that is contiguous   *)
(* on main; restructuring keeps it one, and puts the snapshot restored on  *)
(* main before the one that the restore has created.                       *)
(*                                                                         *)
(* One process undisturbed: while a process saves and restores and no      *)
(* other writes, deletes or stops, the rows it has written and those in    *)
(* its plan together are that tree.  SpineTheorem.                         *)
(*                                                                         *)
(* Chains: the bounds of the three counters of a chain; LinearInv, by      *)
(* which main is a line as long as nothing is restored.  ChainsTheorem.    *)
(*                                                                         *)
(* Nothing lost, and the refinement: in a store that one process lets grow *)
(* every snapshot loads (LosslessInv); every step of the store is a step   *)
(* of Timeline or none.  KeepsContentsTheorem.                             *)
(***************************************************************************)
EXTENDS SnapshotStore, Integers, FiniteSetTheorems, WellFoundedInduction, TLAPS

USE DEF Jobless

-----------------------------------------------------------------------------
(* Sets of numbers.                                                         *)

(* A set of naturals has a least element.                                   *)
LEMMA LeastNat ==
  ASSUME NEW T, T \subseteq Nat, T # {}
  PROVE  \E m \in T : \A n \in T : m <= n
<1> DEFINE R == {p \in Nat \X Nat : p[1] < p[2]}
<1>1. IsWellFoundedOn(R, Nat)
  BY NatLessThanWellFounded DEF OpToRel
<1>2. \A m, n \in Nat : n < m => <<n, m>> \in R
  OBVIOUS
<1> HIDE DEF R
<1>3. PICK m \in T : \A n \in T : ~ (<<n, m>> \in R)
  BY <1>1, WFMin
<1>4. \A n \in T : ~(n < m)
  BY <1>2, <1>3
<1>5. \A n \in T : m <= n
  BY <1>4
<1> QED
  BY <1>5

(* Induction, for a set of naturals.                                        *)
LEMMA NatSetInduction ==
  ASSUME NEW S, 0 \in S, \A n \in Nat : n \in S => n + 1 \in S
  PROVE  Nat \subseteq S
<1> SUFFICES ASSUME ~(Nat \subseteq S) PROVE FALSE
  OBVIOUS
<1>1. PICK m \in Nat \ S : \A n \in Nat \ S : m <= n
  BY LeastNat
<1>2. m # 0 /\ m - 1 \in Nat
  BY <1>1
<1>3. m - 1 \in S
  BY <1>1, <1>2
<1> QED
  BY <1>1, <1>2, <1>3

(* A bounded set of naturals has a greatest element.                        *)
LEMMA GreatestNat ==
  ASSUME NEW T, T \subseteq Nat, T # {}, NEW n \in Nat, \A t \in T : t <= n
  PROVE  \E m \in T : \A t \in T : t <= m
<1> DEFINE B == {b \in Nat : \A t \in T : t <= b}
<1>1. n \in B /\ B \subseteq Nat
  OBVIOUS
<1>2. PICK b \in B : \A c \in B : b <= c
  BY <1>1, LeastNat
<1>3. b \in T
  <2> SUFFICES ASSUME b \notin T PROVE FALSE
    OBVIOUS
  <2>1. b \in Nat /\ \A t \in T : t < b
    BY <1>2
  <2>2. b # 0
    <3>1. PICK t \in T : TRUE
      OBVIOUS
    <3> QED
      BY <2>1, <3>1
  <2>3. b - 1 \in B
    BY <2>1, <2>2
  <2>4. b <= b - 1
    <3> HIDE DEF B
    <3> QED
      BY <1>2, <2>3
  <2> QED
    BY <2>1, <2>4
<1> QED
  BY <1>2, <1>3

(* Greatest of a bounded set of naturals is its greatest element.           *)
LEMMA GreatestOf ==
  ASSUME NEW T, T \subseteq Nat, T # {}, NEW n \in Nat, \A t \in T : t <= n
  PROVE  Greatest(T) \in T /\ \A t \in T : t <= Greatest(T)
BY GreatestNat DEF Greatest

(* Least of a set of naturals is its least element.                         *)
LEMMA LeastOf ==
  ASSUME NEW T, T \subseteq Nat, T # {}
  PROVE  Least(T) \in T /\ \A t \in T : Least(T) <= t
BY LeastNat DEF Least

(* The numbers up to n are n.                                               *)
LEMMA UpTo ==
  ASSUME NEW n \in Nat
  PROVE  IsFiniteSet(1..n) /\ Cardinality(1..n) = n
<1>1. 1 \in Int /\ n \in Int
  OBVIOUS
<1>2. IsFiniteSet(1..n) /\ Cardinality(1..n) = IF 1 > n THEN 0 ELSE n - 1 + 1
  BY <1>1, FS_Interval
<1> QED
  BY <1>2

(* The element of a set of one.                                             *)
LEMMA TheOne == \A x : The({x}) = x
BY DEF The

-----------------------------------------------------------------------------
(* Restructuring keeps every parent older than its child.                   *)

Link == [branch : Branch, parent : Id]

(* Links as the tables can have them: a parent is older than its child.     *)
LinksType(L) ==
  /\ DOMAIN L \subseteq Snapshot
  /\ \A s \in DOMAIN L : L[s] \in Link /\ L[s].parent < s

(* There is always a free branch: there are more branches than snapshots.   *)
LEMMA FreeBranch ==
  ASSUME NEW L, LinksType(L)
  PROVE  NextAlt(L) \in Branch \ {Main} /\ On(L, NextAlt(L)) = {}
<1> DEFINE T == {b \in Branch \ {Main} : On(L, b) = {}}
           f == [b \in 1..MaxBranch |-> CHOOSE s \in DOMAIN L : L[s].branch = b]
<1>0. /\ MaxBranch \in Nat /\ MaxSnapshots \in Nat /\ MaxSnapshots < MaxBranch
      /\ Branch \ {Main} = 1..MaxBranch
  BY SnapshotStoreAssumption DEF Branch, Main
<1>1. T # {}
  <2> SUFFICES ASSUME T = {} PROVE FALSE
    OBVIOUS
  <2>1. \A b \in 1..MaxBranch : \E s \in DOMAIN L : L[s].branch = b
    BY <1>0 DEF On
  <2>2. \A b \in 1..MaxBranch : f[b] \in DOMAIN L /\ L[f[b]].branch = b
    BY <2>1
  <2>3. f \in [1..MaxBranch -> 1..MaxSnapshots]
    BY <2>2 DEF LinksType, Snapshot
  <2>4. /\ IsFiniteSet(1..MaxBranch) /\ Cardinality(1..MaxBranch) = MaxBranch
        /\ IsFiniteSet(1..MaxSnapshots) /\ Cardinality(1..MaxSnapshots) = MaxSnapshots
    BY <1>0, UpTo
  <2> HIDE DEF f, T
  <2>5. \E x, y \in 1..MaxBranch : x # y /\ f[x] = f[y]
    BY <1>0, <2>3, <2>4, FS_PigeonHole
  <2> QED
    BY <2>2, <2>5
<1>2. T \subseteq Nat
  BY <1>0
<1>3. Least(T) \in T
  BY <1>1, <1>2, LeastOf
<1> QED
  BY <1>3 DEF NextAlt

(* Moving changes branches only.                                            *)
LEMMA MovedLinks ==
  ASSUME NEW L, LinksType(L), NEW S, NEW b \in Branch
  PROVE  /\ LinksType(Moved(L, S, b)) /\ DOMAIN Moved(L, S, b) = DOMAIN L
         /\ \A s \in DOMAIN L :
              /\ Moved(L, S, b)[s].parent = L[s].parent
              /\ Moved(L, S, b)[s].branch = IF s \in S THEN b ELSE L[s].branch
<1>1. \A s \in DOMAIN L : /\ [L[s] EXCEPT !.branch = b] \in Link
                          /\ [L[s] EXCEPT !.branch = b].parent = L[s].parent
                          /\ [L[s] EXCEPT !.branch = b].branch = b
  BY DEF LinksType, Link
<1>2. DOMAIN Moved(L, S, b) = DOMAIN L
  BY DEF Moved
<1>3. \A s \in DOMAIN L : Moved(L, S, b)[s] = IF s \in S THEN [L[s] EXCEPT !.branch = b] ELSE L[s]
  BY DEF Moved
<1>4. \A s \in DOMAIN L :
        /\ Moved(L, S, b)[s] \in Link
        /\ Moved(L, S, b)[s].parent = L[s].parent
        /\ Moved(L, S, b)[s].branch = IF s \in S THEN b ELSE L[s].branch
  BY <1>1, <1>3 DEF LinksType
<1> QED
  BY <1>2, <1>4 DEF LinksType

(* Giving one snapshot an older parent.                                     *)
LEMMA NewParent ==
  ASSUME NEW L, LinksType(L), NEW n, NEW t \in Id, n \in DOMAIN L => t < n,
         NEW M, M = [L EXCEPT ![n].parent = t]
  PROVE  /\ LinksType(M) /\ DOMAIN M = DOMAIN L
         /\ \A s \in DOMAIN L : /\ M[s].branch = L[s].branch
                                /\ M[s].parent = IF s = n THEN t ELSE L[s].parent
<1>1. DOMAIN M = DOMAIN L /\ \A s \in DOMAIN L : M[s] = IF s = n THEN [L[s] EXCEPT !.parent = t] ELSE L[s]
  OBVIOUS
<1>2. \A s \in DOMAIN L : /\ [L[s] EXCEPT !.parent = t] \in Link
                          /\ [L[s] EXCEPT !.parent = t].parent = t
                          /\ [L[s] EXCEPT !.parent = t].branch = L[s].branch
  BY DEF LinksType, Link
<1>3. \A s \in DOMAIN L : /\ M[s] \in Link /\ M[s].branch = L[s].branch
                          /\ M[s].parent = IF s = n THEN t ELSE L[s].parent
  BY <1>1, <1>2 DEF LinksType
<1> QED
  BY <1>1, <1>3 DEF LinksType

(* Main becomes an alternative and the target's branch main.                *)
LEMMA PromotedType ==
  ASSUME NEW L, LinksType(L), NEW t \in DOMAIN L, NEW n, n \in DOMAIN L => t < n
  PROVE  LinksType(Promoted(L, t, n)) /\ DOMAIN Promoted(L, t, n) = DOMAIN L
<1>1. CASE L[t].branch = Main
  BY <1>1 DEF Promoted
<1>2. CASE L[t].branch # Main
  <2> DEFINE A == Moved(L, On(L, Main) \ {n}, NextAlt(L))
             B == Moved(A, On(A, L[t].branch) \cup Ancestors(L, t), Main)
  <2>1. Promoted(L, t, n) = [B EXCEPT ![n].parent = t]
    BY <1>2 DEF Promoted
  <2>2. LinksType(A) /\ DOMAIN A = DOMAIN L
    BY FreeBranch, MovedLinks
  <2>3. Main \in Branch /\ t \in Id
    BY SnapshotStoreAssumption DEF Main, Branch, Id, LinksType
  <2> HIDE DEF A
  <2>4. LinksType(B) /\ DOMAIN B = DOMAIN L
    BY <2>2, <2>3, MovedLinks
  <2> HIDE DEF B
  <2>5. PICK M : M = [B EXCEPT ![n].parent = t]
    OBVIOUS
  <2>6. LinksType(M) /\ DOMAIN M = DOMAIN B
    BY <2>3, <2>4, <2>5, NewParent
  <2> QED
    BY <2>1, <2>4, <2>5, <2>6
<1> QED
  BY <1>1, <1>2

(* Rewiring takes its parents among older snapshots.                        *)
LEMMA RewiredType ==
  ASSUME NEW L, LinksType(L), NEW t \in Id, NEW moved, \A s \in moved : t < s
  PROVE  LinksType(Rewired(L, t, moved)) /\ DOMAIN Rewired(L, t, moved) = DOMAIN L
<1> DEFINE main == On(L, Main)
           roots == {s \in main : L[s].parent = None}
           root == IF roots # {} THEN Least(roots) ELSE Least(main)
           up(s) == Greatest({u \in main : u < s})
           R == Rewired(L, t, moved)
<1>1. DOMAIN R = DOMAIN L
  BY DEF Rewired
<1>2. main \subseteq Nat /\ main \subseteq DOMAIN L
  BY DEF On, LinksType, Snapshot
<1>3. main # {} => root \in main
  <2>1. CASE roots # {}
    <3>1. Least(roots) \in roots
      BY <1>2, <2>1, LeastOf
    <3> QED
      BY <2>1, <3>1
  <2>2. CASE roots = {} /\ main # {}
    <3>1. Least(main) \in main
      BY <1>2, <2>2, LeastOf
    <3> QED
      BY <2>2, <3>1
  <2> QED
    BY <2>1, <2>2
<1>4. ASSUME NEW s \in main, s > root PROVE up(s) \in DOMAIN L /\ up(s) < s
  <2> DEFINE T == {u \in main : u < s}
  <2>1. root \in T /\ T \subseteq Nat /\ s \in Nat /\ \A u \in T : u <= s
    BY <1>2, <1>3, <1>4
  <2>2. Greatest(T) \in T
    <3> HIDE DEF T
    <3> QED
      BY <2>1, GreatestOf
  <2> QED
    BY <1>2, <2>2
<1>5. \A s \in DOMAIN L, p \in Id : p < s => [L[s] EXCEPT !.parent = p] \in Link
                                             /\ [L[s] EXCEPT !.parent = p].parent < s
  BY DEF LinksType, Link
<1>6. ASSUME NEW s \in DOMAIN L PROVE R[s] \in Link /\ R[s].parent < s
  <2>0. s \in Nat /\ 0 < s /\ None \in Id /\ None < s
    BY DEF LinksType, Snapshot, Id, None
  <2>1. CASE s = root
    <3>1. R[s] = [L[s] EXCEPT !.parent = None]
      BY <2>1 DEF Rewired
    <3> QED
      BY <1>5, <2>0, <3>1
  <2>2. CASE s # root /\ s \in main /\ s > root /\ L[s].parent \notin main
    <3>1. R[s] = [L[s] EXCEPT !.parent = up(s)]
      BY <2>2 DEF Rewired
    <3>2. up(s) \in Id /\ up(s) < s
      BY <1>4, <2>2 DEF LinksType, Id
    <3> HIDE DEF up
    <3> QED
      BY <1>5, <3>1, <3>2
  <2>3. CASE s # root /\ ~(s \in main /\ s > root /\ L[s].parent \notin main)
             /\ s \in moved /\ L[s].parent \notin moved
    <3>1. R[s] = [L[s] EXCEPT !.parent = t]
      BY <2>3 DEF Rewired
    <3> QED
      BY <1>5, <2>3, <3>1
  <2>4. CASE s # root /\ ~(s \in main /\ s > root /\ L[s].parent \notin main)
             /\ ~(s \in moved /\ L[s].parent \notin moved)
    <3>1. R[s] = L[s]
      BY <2>4 DEF Rewired
    <3> QED
      BY <3>1 DEF LinksType
  <2> QED
    BY <2>1, <2>2, <2>3, <2>4
<1> QED
  BY <1>1, <1>6 DEF LinksType

(* So every parent stays older than its child.                              *)
LEMMA RestructuredType ==
  ASSUME NEW L, LinksType(L), NEW t \in Id, NEW n, n \in DOMAIN L => t < n
  PROVE  LinksType(Restructured(L, t, n)) /\ DOMAIN Restructured(L, t, n) = DOMAIN L
<1>1. CASE t \notin DOMAIN L
  BY <1>1 DEF Restructured
<1>2. CASE t \in DOMAIN L
  <2> DEFINE P == Promoted(L, t, n)
             moved == {s \in On(P, Main) \ {n} : s > t}
             A == IF moved = {} THEN P ELSE Moved(P, moved, NextAlt(P))
  <2>1. Restructured(L, t, n) = Rewired(A, t, moved)
    BY <1>2 DEF Restructured
  <2>2. LinksType(P) /\ DOMAIN P = DOMAIN L
    BY <1>2, PromotedType
  <2>3. \A s \in moved : t < s
    BY <2>2 DEF On, LinksType, Snapshot, Id, None
  <2> HIDE DEF P, moved
  <2>4. LinksType(A) /\ DOMAIN A = DOMAIN L
    BY <2>2, FreeBranch, MovedLinks
  <2> HIDE DEF A
  <2> QED
    BY <2>1, <2>3, <2>4, RewiredType
<1> QED
  BY <1>1, <1>2

-----------------------------------------------------------------------------
(* What loading gives.                                                      *)

(* Loading s from the rows R, when the older snapshots load as f says.      *)
LoadFrom(R, f, s) ==
  IF s \notin DOMAIN R THEN {}
  ELSE IF ~R[s].delta THEN {R[s].payload}
  ELSE {w \in {Apply(b, R[s].payload) : b \in f[R[s].base]} : w = R[s].sum}

LoadedIn(R) == CHOOSE f : f = [s \in Id |-> LoadFrom(R, f, s)]

(* What load_snapshot gives: a difference without a base as it is.          *)
LoadsIn(R) ==
  [s \in Id |-> IF s \in DOMAIN R /\ R[s].delta /\ R[s].base = None
                THEN {Foreign} ELSE LoadedIn(R)[s]]

(* The workspaces that can be made of what R loads.                         *)
ReadableIn(R) == {s \in DOMAIN R : \E w \in LoadsIn(R)[s] : DOMAIN w = Field}

(* Loaded is what loading from the table gives, before and after a step.    *)
LEMMA LoadedIsLoadsIn ==
  /\ Loaded = LoadsIn(rows) /\ Readable = ReadableIn(rows)
  /\ Loaded' = LoadsIn(rows') /\ Readable' = ReadableIn(rows')
<1>1. Rebuilt = LoadedIn(rows) /\ Rebuilt' = LoadedIn(rows')
  BY DEF Rebuilt, LoadedIn, LoadFrom
<1>2. Loaded = LoadsIn(rows) /\ Loaded' = LoadsIn(rows')
  BY <1>1 DEF Loaded, LoadsIn
<1> QED
  BY <1>2 DEF Readable, ReadableIn

(* A difference is taken from an older snapshot.                            *)
BasesOlder(R) == \A s \in DOMAIN R : R[s].delta => R[s].base \in Id /\ R[s].base < s

(* The ids are the numbers up to MaxSnapshots.                              *)
LEMMA IdUpTo == Id = 0..MaxSnapshots /\ MaxSnapshots \in Nat
BY SnapshotStoreAssumption DEF Id, Snapshot, None

(* Then the recursion of Loaded comes to an end, for every snapshot.        *)
LEMMA LoadedInEquation ==
  ASSUME NEW R, BasesOlder(R)
  PROVE  LoadedIn(R) = [s \in Id |-> LoadFrom(R, LoadedIn(R), s)]
<1> DEFINE Is(f, k) == f = [s \in 0..k |-> LoadFrom(R, f, s)]
           S == {k \in Nat : \E f : Is(f, k)}
<1>1. 0 \in S
  <2>1. PICK f : f = [s \in 0..0 |-> LoadFrom(R, [t \in {} |-> t], s)]
    OBVIOUS
  <2>2. \A s \in 0..0 : LoadFrom(R, f, s) = LoadFrom(R, [t \in {} |-> t], s)
    <3> SUFFICES ASSUME 0 \in DOMAIN R PROVE ~R[0].delta
      BY DEF LoadFrom
    <3> QED
      BY DEF BasesOlder, Id, Snapshot, None
  <2>3. Is(f, 0)
    BY <2>1, <2>2
  <2> QED
    BY <2>3
<1>2. ASSUME NEW k \in Nat, k \in S PROVE k + 1 \in S
  <2>1. PICK f : Is(f, k)
    BY <1>2
  <2> DEFINE g == [s \in 0..k + 1 |-> IF s = k + 1 THEN LoadFrom(R, f, s) ELSE f[s]]
  <2>2. \A s \in 0..k : g[s] = f[s] /\ f[s] = LoadFrom(R, f, s)
    BY <2>1
  <2>3. \A s \in 0..k + 1 : LoadFrom(R, g, s) = LoadFrom(R, f, s)
    <3> SUFFICES ASSUME NEW s \in 0..k + 1, s \in DOMAIN R, R[s].delta
                 PROVE  g[R[s].base] = f[R[s].base]
      BY DEF LoadFrom
    <3>1. R[s].base \in 0..k
      BY IdUpTo DEF BasesOlder
    <3> QED
      BY <2>2, <3>1
  <2>4. g[k + 1] = LoadFrom(R, f, k + 1) /\ DOMAIN g = 0..k + 1
    OBVIOUS
  <2>5. \A s \in 0..k + 1 : g[s] = LoadFrom(R, g, s)
    <3> SUFFICES ASSUME NEW s \in 0..k + 1 PROVE g[s] = LoadFrom(R, f, s)
      BY <2>3
    <3>1. s = k + 1 \/ s \in 0..k
      OBVIOUS
    <3> QED
      BY <2>2, <2>4, <3>1
  <2>6. Is(g, k + 1)
    BY <2>4, <2>5
  <2> HIDE DEF g
  <2> QED
    BY <2>6
<1> HIDE DEF S
<1>3. Nat \subseteq S
  BY <1>1, <1>2, NatSetInduction
<1>4. \E f : f = [s \in Id |-> LoadFrom(R, f, s)]
  BY <1>3, IdUpTo DEF S
<1> QED
  BY <1>4 DEF LoadedIn

(* A full payload loads as itself.                                          *)
LEMMA LoadedFull ==
  ASSUME NEW R, BasesOlder(R), NEW s \in Id, s \in DOMAIN R, ~R[s].delta
  PROVE  LoadedIn(R)[s] = {R[s].payload}
BY LoadedInEquation DEF LoadFrom

(* A difference loads as what its base loads as, with the changes, if that  *)
(* has the checksum.                                                        *)
LEMMA LoadedDelta ==
  ASSUME NEW R, BasesOlder(R), NEW s \in Id, s \in DOMAIN R, R[s].delta
  PROVE  LoadedIn(R)[s] =
           {w \in {Apply(b, R[s].payload) : b \in LoadedIn(R)[R[s].base]} : w = R[s].sum}
<1>1. LoadedIn(R)[s] = LoadFrom(R, LoadedIn(R), s)
  BY LoadedInEquation
<1> QED
  BY <1>1 DEF LoadFrom

(* So a snapshot loads as the payload its checksum was made of, or not.     *)
LEMMA LoadedSum ==
  ASSUME NEW R, BasesOlder(R), NEW s \in Id, s \in DOMAIN R,
         ~R[s].delta => R[s].payload = R[s].sum
  PROVE  LoadedIn(R)[s] \subseteq {R[s].sum}
<1>1. CASE R[s].delta
  BY <1>1, LoadedDelta
<1>2. CASE ~R[s].delta
  BY <1>2, LoadedFull
<1> QED
  BY <1>1, <1>2

(* A difference without a base makes no workspace;  otherwise what a        *)
(* snapshot loads as is what is rebuilt.                                    *)
LEMMA WhatLoads ==
  ASSUME NEW R, BasesOlder(R), DOMAIN R \subseteq Snapshot, NEW s \in DOMAIN R,
         R[s].sum \in Payload, ~R[s].delta => R[s].payload = R[s].sum
  PROVE  /\ s \in ReadableIn(R) <=> LoadedIn(R)[s] # {}
         /\ s \in ReadableIn(R) => LoadsIn(R)[s] = {R[s].sum} /\ LoadedIn(R)[s] = {R[s].sum}
<1>1. s \in Id /\ None \in Id /\ None \notin DOMAIN R
  BY IdUpTo DEF Snapshot, Id, None
<1>2. LoadedIn(R)[s] \subseteq {R[s].sum}
  BY <1>1, LoadedSum
<1>3. CASE R[s].delta /\ R[s].base = None
  <2>1. LoadedIn(R)[None] = {}
    <3>1. LoadedIn(R)[None] = LoadFrom(R, LoadedIn(R), None)
      BY <1>1, LoadedInEquation
    <3> QED
      BY <1>1, <3>1 DEF LoadFrom
  <2>2. LoadedIn(R)[s] = {}
    BY <1>1, <1>3, <2>1, LoadedDelta
  <2>3. LoadsIn(R)[s] = {Foreign}
    BY <1>1, <1>3 DEF LoadsIn
  <2>4. DOMAIN Foreign # Field
    BY SnapshotStoreAssumption DEF Foreign
  <2> QED
    BY <2>2, <2>3, <2>4 DEF ReadableIn
<1>4. CASE ~(R[s].delta /\ R[s].base = None)
  <2>1. LoadsIn(R)[s] = LoadedIn(R)[s]
    BY <1>1, <1>4 DEF LoadsIn
  <2>2. DOMAIN R[s].sum = Field
    BY SnapshotStoreAssumption
  <2> QED
    BY <1>2, <2>1, <2>2 DEF ReadableIn
<1> QED
  BY <1>3, <1>4

-----------------------------------------------------------------------------
(* The types.                                                               *)

(* What is to be written, after a restructuring.                            *)
Change == [id : Snapshot, was : Link, link : Link]

Stage == Jobless \cup {"create", "head", "restructure", "rewire"}

(* Who is about to write a row.                                             *)
Creators == {p \in Process : pc[p] = "create"}

TablesType ==
  /\ setting \in Settings
  /\ created \in 0..MaxSnapshots
  /\ created + Cardinality(Creators) <= Limit(setting)
  /\ saved \in [1..created -> Payload]
  /\ heads \in [Branch -> 0..created] /\ current \in Branch

(* The row of s, which was created from w.                                  *)
RowOf(r, s, w) ==
  /\ r \in Row /\ r.sum = w
  /\ r.parent < s
  /\ IF r.delta THEN r.base < s ELSE r.payload = w

RowsType ==
  /\ DOMAIN rows \subseteq 1..created
  /\ \A s \in DOMAIN rows : RowOf(rows[s], s, saved[s])

MemoryType ==
  /\ memory \in [Process -> Memory]
  /\ \A p \in Process : memory[p].lastFull <= created

(* The job of a process that is at a stage, when n snapshots are created.   *)
JobAt(j, at, n) ==
  /\ j \in Job
  /\ j.parent <= n /\ j.from <= n /\ j.id <= n
  /\ at # "create" => j.from < j.id
  /\ at \in {"restructure", "rewire"} => j.from # None

JobsType ==
  /\ lock \in Process \cup {Nobody}
  /\ pc \in [Process -> Stage]
  /\ job \in [Process -> SUBSET Job] /\ plan \in [Process -> SUBSET Change]
  /\ \A p \in Process :
       /\ IF pc[p] \in Jobless THEN job[p] = {}
          ELSE \E j \in Job : job[p] = {j} /\ JobAt(j, pc[p], created)
       /\ lock = p => pc[p] = "head"
       /\ plan[p] # {} => pc[p] = "rewire"
       /\ \A c \in plan[p] : c.link.parent < c.id

TypeInv == TablesType /\ RowsType /\ MemoryType /\ JobsType

(* The file of the store, and the sessions emptied.                         *)
FileType == file \in BOOLEAN /\ emptied \subseteq 0..created

(* The shape of the constants.                                              *)
LEMMA Constants ==
  /\ MaxSnapshots \in Nat /\ MaxBranch \in Nat
  /\ IsFiniteSet(Process) /\ Nobody \notin Process
  /\ Main \in Branch /\ None \in Id /\ None = 0
  /\ Snapshot \subseteq Id /\ Snapshot = 1..MaxSnapshots
  /\ Payload \subseteq Partial /\ Foreign \in Partial
<1>1. Payload \subseteq Partial
  <2>1. [Field -> Value] \subseteq Partial
    BY DEF Partial
  <2> QED
    BY <2>1, SnapshotStoreAssumption
<1>2. Foreign \in Partial
  <2>1. Foreign \in [{} -> Value]
    BY DEF Foreign
  <2> QED
    BY <2>1 DEF Partial
<1> QED
  BY <1>1, <1>2, SnapshotStoreAssumption DEF Main, Branch, None, Id, Snapshot

(* The invariant gives the types as they are stated.                        *)
LEMMA TypeInvIsTypeOK == TypeInv /\ FileType => TypeOK
<1> SUFFICES ASSUME TypeInv, FileType PROVE TypeOK
  OBVIOUS
<1>1. \A p \in Process : /\ job[p] \subseteq Job /\ Cardinality(job[p]) <= 1
                         /\ job[p] = {} <=> pc[p] \in Jobless
  <2> TAKE p \in Process
  <2>1. CASE pc[p] \in Jobless
    <3>1. job[p] = {} /\ Cardinality(job[p]) = 0
      BY <2>1, FS_EmptySet DEF TypeInv, JobsType
    <3> QED
      BY <2>1, <3>1
  <2>2. CASE pc[p] \notin Jobless
    <3>1. PICK j \in Job : job[p] = {j}
      BY <2>2 DEF TypeInv, JobsType
    <3>2. Cardinality(job[p]) = 1
      BY <3>1, FS_Singleton
    <3> QED
      BY <2>2, <3>1, <3>2
  <2> QED
    BY <2>1, <2>2
<1>2. heads \in [Branch -> Id]
  BY IdUpTo DEF TypeInv, TablesType
<1>3. \A s \in DOMAIN rows : rows[s] \in Row
  BY DEF TypeInv, RowsType, RowOf
<1> QED
  BY <1>1, <1>2, <1>3 DEF TypeInv, TablesType, RowsType, MemoryType, JobsType, TypeOK, Stage,
                         FileType

(* An empty store has the types.                                            *)
LEMMA TypeInit == Init => TypeInv /\ FileType
<1> SUFFICES ASSUME Init PROVE TypeInv /\ FileType
  OBVIOUS
<1>1. Creators = {} /\ Cardinality({}) = 0
  BY FS_EmptySet DEF Init, Creators
<1>2. 0 <= Limit(setting) /\ setting \in Settings
  BY SnapshotStoreAssumption DEF Init
<1>3. TablesType
  BY <1>1, <1>2, Constants DEF Init, TablesType
<1>4. Fresh \in Memory /\ Fresh.lastFull = 0
  BY Constants DEF Fresh, Memory
<1>5. FileType
  BY DEF Init, FileType
<1> QED
  BY <1>3, <1>4, <1>5, Constants DEF Init, TypeInv, RowsType, MemoryType, JobsType, Stage

(* The processes that are about to write, when one of them moves on.        *)
LEMMA CreatorsStep ==
  ASSUME TypeInv, NEW p \in Process, NEW at \in Stage, pc' = [pc EXCEPT ![p] = at]
  PROVE  /\ Cardinality(Creators) \in Nat /\ Cardinality(Creators') \in Nat
         /\ at # "create" => Cardinality(Creators') <= Cardinality(Creators)
         /\ at # "create" /\ pc[p] = "create" =>
              Cardinality(Creators') + 1 = Cardinality(Creators)
         /\ Cardinality(Creators') <= Cardinality(Creators) + 1
<1>1. IsFiniteSet(Creators)
  <2>1. Creators \in SUBSET Process
    BY DEF Creators
  <2> QED
    BY <2>1, Constants, FS_Subset
<1>2. Cardinality(Creators) \in Nat
  BY <1>1, FS_CardinalityType
<1>3. Creators' = IF at = "create" THEN Creators \cup {p} ELSE Creators \ {p}
  BY DEF Creators, TypeInv, JobsType
<1>4. /\ Cardinality(Creators \cup {p}) <= Cardinality(Creators) + 1
      /\ Cardinality(Creators \cup {p}) \in Nat
  <2>1. /\ IsFiniteSet(Creators \cup {p})
        /\ Cardinality(Creators \cup {p}) =
             IF p \in Creators THEN Cardinality(Creators) ELSE Cardinality(Creators) + 1
    BY <1>1, FS_AddElement
  <2> QED
    BY <1>2, <2>1
<1>5. /\ Cardinality(Creators \ {p}) = IF p \in Creators THEN Cardinality(Creators) - 1
                                       ELSE Cardinality(Creators)
      /\ Cardinality(Creators \ {p}) \in Nat
  <2>1. /\ IsFiniteSet(Creators \ {p})
        /\ Cardinality(Creators \ {p}) = IF p \in Creators THEN Cardinality(Creators) - 1
                                         ELSE Cardinality(Creators)
    BY <1>1, FS_RemoveElement
  <2>2. Cardinality(Creators \ {p}) \in Nat
    BY <2>1, FS_CardinalityType
  <2> QED
    BY <2>1, <2>2
<1>6. pc[p] = "create" => p \in Creators
  BY DEF Creators
<1>7. CASE at = "create"
  BY <1>2, <1>3, <1>4, <1>7
<1>8. CASE at # "create"
  BY <1>2, <1>3, <1>5, <1>6, <1>8
<1> QED
  BY <1>7, <1>8

(* A process goes to another stage, with its job and its changes.           *)
LEMMA JobsStep ==
  ASSUME JobsType, created \in Nat, created' \in Nat, created <= created',
         NEW p \in Process, NEW at \in Stage, NEW J, NEW C \in SUBSET Change,
         pc' = [pc EXCEPT ![p] = at],
         job' = [job EXCEPT ![p] = J], plan' = [plan EXCEPT ![p] = C],
         lock' \in Process \cup {Nobody},
         lock' = p => at = "head", \A q \in Process \ {p} : lock' = q => lock = q,
         IF at \in Jobless THEN J = {}
         ELSE \E j \in Job : J = {j} /\ JobAt(j, at, created'),
         C # {} => at = "rewire", \A c \in C : c.link.parent < c.id
  PROVE  JobsType'
<1>1. J \in SUBSET Job
  OBVIOUS
<1>2. /\ pc' \in [Process -> Stage]
      /\ job' \in [Process -> SUBSET Job] /\ plan' \in [Process -> SUBSET Change]
  BY <1>1 DEF JobsType
<1>3. \A n, m \in Nat : \A j, s : n <= m /\ JobAt(j, s, n) => JobAt(j, s, m)
  BY IdUpTo DEF JobAt, Job
<1>4. ASSUME NEW q \in Process
      PROVE  /\ IF pc'[q] \in Jobless THEN job'[q] = {}
                ELSE \E j \in Job : job'[q] = {j} /\ JobAt(j, pc'[q], created')
             /\ lock' = q => pc'[q] = "head"
             /\ plan'[q] # {} => pc'[q] = "rewire"
             /\ \A c \in plan'[q] : c.link.parent < c.id
  <2>1. CASE q = p
    <3>1. pc'[p] = at /\ job'[p] = J /\ plan'[p] = C
      BY DEF JobsType
    <3> QED
      BY <2>1, <3>1
  <2>2. CASE q # p
    <3>1. pc'[q] = pc[q] /\ job'[q] = job[q] /\ plan'[q] = plan[q]
      BY <2>2 DEF JobsType
    <3>2. /\ IF pc[q] \in Jobless THEN job[q] = {}
             ELSE \E j \in Job : job[q] = {j} /\ JobAt(j, pc[q], created)
          /\ lock' = q => pc[q] = "head"
          /\ plan[q] # {} => pc[q] = "rewire"
          /\ \A c \in plan[q] : c.link.parent < c.id
      BY <2>2 DEF JobsType
    <3> QED
      BY <1>3, <3>1, <3>2
  <2> QED
    BY <2>1, <2>2
<1> QED
  BY <1>2, <1>4 DEF JobsType

(* What holds before a step, in short.                                      *)
LEMMA TypeFacts ==
  ASSUME TypeInv
  PROVE  /\ created \in Nat /\ created <= MaxSnapshots
         /\ pc \in [Process -> Stage] /\ job \in [Process -> SUBSET Job]
         /\ plan \in [Process -> SUBSET Change] /\ lock \in Process \cup {Nobody}
         /\ BasesOlder(rows) /\ DOMAIN rows \subseteq Snapshot /\ LinksType(Links)
         /\ \A s \in DOMAIN rows :
              /\ s \in Id /\ rows[s].sum = saved[s] /\ rows[s].sum \in Payload
              /\ ~rows[s].delta => rows[s].payload = rows[s].sum
<1>1. created \in Nat /\ created <= MaxSnapshots
  BY Constants DEF TypeInv, TablesType
<1>2. DOMAIN rows \subseteq Snapshot
  BY <1>1, Constants DEF TypeInv, RowsType
<1>3. \A s \in DOMAIN rows : RowOf(rows[s], s, saved[s])
  BY DEF TypeInv, RowsType
<1>4. BasesOlder(rows)
  BY <1>3 DEF RowOf, BasesOlder, Row
<1>5. LinksType(Links)
  <2>1. \A s \in DOMAIN rows : /\ rows[s].branch \in Branch /\ rows[s].parent \in Id
                               /\ rows[s].parent < s
    BY <1>3 DEF RowOf, Row
  <2>2. DOMAIN Links = DOMAIN rows
    BY DEF Links
  <2>3. \A s \in DOMAIN rows :
          Links[s] = [branch |-> rows[s].branch, parent |-> rows[s].parent]
    BY DEF Links
  <2>4. \A s \in DOMAIN rows : Links[s] \in Link /\ Links[s].parent = rows[s].parent
    <3> TAKE s \in DOMAIN rows
    <3>1. PICK l \in Link : l = [branch |-> rows[s].branch, parent |-> rows[s].parent]
      BY <2>1 DEF Link
    <3>2. l.parent = rows[s].parent
      BY <3>1
    <3> QED
      BY <2>3, <3>1, <3>2
  <2> QED
    BY <1>2, <2>1, <2>2, <2>4 DEF LinksType
<1>6. \A s \in DOMAIN rows :
        /\ s \in Id /\ rows[s].sum = saved[s] /\ rows[s].sum \in Payload
        /\ ~rows[s].delta => rows[s].payload = rows[s].sum
  BY <1>2, <1>3, Constants DEF RowOf, Row
<1> QED
  BY <1>1, <1>2, <1>4, <1>5, <1>6 DEF TypeInv, JobsType

(* The job of a process at work.                                            *)
LEMMA JobFacts ==
  ASSUME TypeInv, NEW p \in Process, pc[p] \notin Jobless
  PROVE  job[p] = {The(job[p])} /\ JobAt(The(job[p]), pc[p], created)
<1>1. PICK j \in Job : job[p] = {j} /\ JobAt(j, pc[p], created)
  BY DEF TypeInv, JobsType
<1> QED
  BY <1>1, TheOne

(* What a process remembers when it opens the workspace.                    *)
LEMMA RecoveredType ==
  ASSUME TypeInv
  PROVE  Recovered \in Memory /\ Recovered.lastFull <= created
         /\ Recovered.lastFull \in DOMAIN rows \cup {None} /\ Recovered.chain = {}
         /\ (Recovered.lastFull # None => rows[Recovered.lastFull].index = 0)
<1>1. created \in Nat /\ DOMAIN rows \subseteq 1..created /\ DOMAIN rows \subseteq Snapshot
  BY TypeFacts DEF TypeInv, RowsType
<1>2. CASE FullRows = {}
  <2>1. Recovered = Fresh
    BY <1>2 DEF Recovered
  <2>2. Fresh \in Memory /\ Fresh.lastFull = None /\ Fresh.chain = {}
    BY Constants DEF Fresh, Memory
  <2> QED
    BY <1>1, <2>1, <2>2, Constants
<1>3. CASE FullRows # {}
  <2> DEFINE last == Greatest(FullRows)
             newer == {s \in DOMAIN rows : s > last}
  <2>1. FullRows \subseteq Nat /\ \A s \in FullRows : s <= created
    BY <1>1 DEF FullRows
  <2>2. last \in FullRows
    BY <1>1, <1>3, <2>1, GreatestOf
  <2>3. Cardinality(newer) \in Nat
    <3>1. IsFiniteSet(1..created)
      BY <1>1, UpTo
    <3>2. newer \in SUBSET (1..created)
      BY <1>1
    <3> HIDE DEF newer
    <3>3. IsFiniteSet(newer)
      BY <3>1, <3>2, FS_Subset
    <3> QED
      BY <3>3, FS_CardinalityType
  <2>4. Recovered = [lastFull |-> last, chain |-> {}, count |-> Cardinality(newer)]
    BY <1>3 DEF Recovered
  <2>5. last \in Id /\ last <= created /\ last \in DOMAIN rows /\ rows[last].index = 0
    BY <1>1, <2>1, <2>2, Constants DEF FullRows
  <2> HIDE DEF last, newer
  <2>6. Recovered \in Memory /\ Recovered.lastFull = last /\ Recovered.chain = {}
    BY <2>3, <2>4, <2>5 DEF Memory
  <2> QED
    BY <2>5, <2>6
<1> QED
  BY <1>2, <1>3

(* A difference is a payload for some of the fields.                        *)
LEMMA DeltaOfType ==
  ASSUME NEW old, NEW new \in Payload
  PROVE  DeltaOf(old, new) \in Partial
<1> DEFINE F == {g \in Field : g \in DOMAIN old => ~PythonEqual(old[g], new[g])}
<1>1. new \in [Field -> Value]
  BY SnapshotStoreAssumption
<1>2. F \in SUBSET Field
  OBVIOUS
<1>3. DeltaOf(old, new) = [f \in F |-> new[f]]
  BY DEF DeltaOf
<1> HIDE DEF F
<1>4. [f \in F |-> new[f]] \in [F -> Value]
  BY <1>1, <1>2
<1> QED
  BY <1>2, <1>3, <1>4 DEF Partial

(* The chain in memory is that of a payload.                                *)
LEMMA ChainType ==
  ASSUME TypeInv, NEW m \in Memory
  PROVE  ChainOf(m) \in SUBSET [state : Partial, length : Nat]
<1>1. CASE m.chain # {}
  BY <1>1 DEF ChainOf, Memory
<1>2. CASE m.chain = {} /\ m.lastFull \notin DOMAIN rows
  BY <1>2 DEF ChainOf
<1>3. CASE m.chain = {} /\ m.lastFull \in DOMAIN rows
  <2> DEFINE state == IF rows[m.lastFull].delta THEN Foreign ELSE rows[m.lastFull].payload
  <2>1. rows[m.lastFull] \in Row
    BY <1>3 DEF TypeInv, RowsType, RowOf
  <2>2. state \in Partial
    BY <2>1, Constants DEF Row
  <2>3. ChainOf(m) = {[state |-> state, length |-> 0]}
    BY <1>3 DEF ChainOf
  <2> HIDE DEF state
  <2> QED
    BY <2>2, <2>3
<1> QED
  BY <1>1, <1>2, <1>3

(* Whether a row is a full payload.                                         *)
FullNow(m, j, parent) ==
  \/ ForcedFull(m, j, parent)
  \/ ChainOf(m) = {}
  \/ The(ChainOf(m)).length >= MaxDeltaChain

(* What save_snapshot writes, and what it remembers, when the snapshot is   *)
(* stored as a whole: a row without base, and a new count and chain.        *)
LEMMA SaveFull ==
  ASSUME NEW m, NEW s, NEW j, NEW parent, FullNow(m, j, parent)
  PROVE  /\ Save(m, s, j, parent).row =
              [parent |-> parent, branch |-> j.branch, delta |-> FALSE, base |-> None,
               index |-> 0, payload |-> j.payload, sum |-> j.payload]
         /\ Save(m, s, j, parent).memory = [lastFull |-> s, count |-> 0, chain |-> {}]
BY DEF Save, FullNow

(* What save_snapshot writes, and what it remembers, when the snapshot is   *)
(* stored as a difference: its base is its parent, its place in the chain   *)
(* is one more than the chain in memory says.                               *)
LEMMA SaveDelta ==
  ASSUME NEW m \in Memory, NEW s, NEW j, NEW parent, ~FullNow(m, j, parent)
  PROVE  /\ Save(m, s, j, parent).row =
              [parent |-> parent, branch |-> j.branch, delta |-> TRUE,
               base |-> IF parent # None THEN parent ELSE m.lastFull,
               index |-> IndexAfter(parent),
               payload |-> DeltaOf(The(ChainOf(m)).state, j.payload),
               sum |-> j.payload]
         /\ Save(m, s, j, parent).memory =
              [lastFull |-> m.lastFull, count |-> m.count + 1,
               chain |-> {[state |-> j.payload, length |-> The(ChainOf(m)).length + 1]}]
<1>1. /\ Save(m, s, j, parent).row =
           [parent |-> parent, branch |-> j.branch, delta |-> TRUE,
            base |-> IF parent # None THEN parent ELSE m.lastFull,
            index |-> IndexAfter(parent),
            payload |-> DeltaOf(The(ChainOf(m)).state, j.payload),
            sum |-> j.payload]
      /\ Save(m, s, j, parent).memory =
           [m EXCEPT !.count = @ + 1,
                     !.chain = {[state |-> j.payload,
                                 length |-> The(ChainOf(m)).length + 1]}]
  BY DEF Save, FullNow
<1>2. ASSUME NEW c
      PROVE  [m EXCEPT !.count = @ + 1, !.chain = c] =
               [lastFull |-> m.lastFull, count |-> m.count + 1, chain |-> c]
  <2>1. PICK k : k = [m EXCEPT !.count = @ + 1]
    OBVIOUS
  <2>2. k = [lastFull |-> m.lastFull, count |-> m.count + 1, chain |-> m.chain]
    BY <2>1 DEF Memory
  <2>3. [k EXCEPT !.chain = c] = [lastFull |-> m.lastFull, count |-> m.count + 1, chain |-> c]
    BY <2>2
  <2>4. [m EXCEPT !.count = @ + 1, !.chain = c] = [k EXCEPT !.chain = c]
    BY <2>1, Zenon
  <2> QED
    BY <2>3, <2>4, Zenon
<1>3. [m EXCEPT !.count = @ + 1,
                !.chain = {[state |-> j.payload, length |-> The(ChainOf(m)).length + 1]}] =
        [lastFull |-> m.lastFull, count |-> m.count + 1,
         chain |-> {[state |-> j.payload, length |-> The(ChainOf(m)).length + 1]}]
  BY <1>2, Zenon
<1> QED
  BY <1>1, <1>3, Zenon

(* The row that is written, and what is remembered.                         *)
LEMMA SaveType ==
  ASSUME TypeInv, NEW m \in Memory, m.lastFull <= created,
         NEW j \in Job, NEW parent \in Id, parent <= created,
         NEW s \in Snapshot, s = created + 1
  PROVE  /\ RowOf(Save(m, s, j, parent).row, s, j.payload)
         /\ Save(m, s, j, parent).memory \in Memory
         /\ Save(m, s, j, parent).memory.lastFull <= s
<1>0. /\ created \in Nat /\ s \in Id /\ m.lastFull \in Id
      /\ j.branch \in Branch /\ j.payload \in Payload /\ j.payload \in Partial
      /\ None \in Id
  BY TypeFacts, Constants DEF Job, Memory
<1>3. parent < s /\ m.lastFull < s /\ m.lastFull <= s
  <2>1. parent \in Nat /\ m.lastFull \in Nat
    BY <1>0, IdUpTo
  <2> QED
    BY <1>0, <2>1
<1>1. CASE FullNow(m, j, parent)
  <2>1. PICK r : r = Save(m, s, j, parent).row
    OBVIOUS
  <2>2. PICK n : n = Save(m, s, j, parent).memory
    OBVIOUS
  <2>3. /\ r = [parent |-> parent, branch |-> j.branch, delta |-> FALSE, base |-> None,
                index |-> 0, payload |-> j.payload, sum |-> j.payload]
        /\ n = [lastFull |-> s, count |-> 0, chain |-> {}]
    BY <1>1, <2>1, <2>2, SaveFull
  <2>4. r \in Row /\ r.sum = j.payload /\ r.parent < s /\ ~r.delta /\ r.payload = j.payload
    BY <1>0, <1>3, <2>3 DEF Row
  <2>5. n \in Memory /\ n.lastFull <= s
    BY <1>0, <2>3 DEF Memory
  <2> QED
    BY <2>1, <2>2, <2>4, <2>5 DEF RowOf
<1>2. CASE ~FullNow(m, j, parent)
  <2> DEFINE chain == The(ChainOf(m))
             base == IF parent # None THEN parent ELSE m.lastFull
             delta == DeltaOf(chain.state, j.payload)
  <2>1. PICK r : r = Save(m, s, j, parent).row
    OBVIOUS
  <2>2. PICK n : n = Save(m, s, j, parent).memory
    OBVIOUS
  <2>3. /\ r = [parent |-> parent, branch |-> j.branch, delta |-> TRUE, base |-> base,
                index |-> IndexAfter(parent), payload |-> delta, sum |-> j.payload]
        /\ n = [lastFull |-> m.lastFull, count |-> m.count + 1,
                chain |-> {[state |-> j.payload, length |-> chain.length + 1]}]
    BY <1>2, <2>1, <2>2, SaveDelta
  <2>4. IndexAfter(parent) \in Nat
    <3>1. parent \in DOMAIN rows => rows[parent].index \in Nat
      BY DEF TypeInv, RowsType, RowOf, Row
    <3> QED
      BY <3>1 DEF IndexAfter
  <2>5. delta \in Partial
    BY <1>0, DeltaOfType
  <2>6. base \in Id /\ base < s
    BY <1>0, <1>3
  <2>7. chain.length \in Nat
    <3>1. ChainOf(m) # {} /\ ChainOf(m) \in SUBSET [state : Partial, length : Nat]
      BY <1>2, ChainType DEF FullNow
    <3>2. chain \in ChainOf(m)
      BY <3>1 DEF The
    <3> QED
      BY <3>1, <3>2
  <2> HIDE DEF chain, base, delta
  <2>8. r \in Row /\ r.sum = j.payload /\ r.parent < s /\ r.delta /\ r.base < s
    BY <1>0, <1>3, <2>3, <2>4, <2>5, <2>6 DEF Row
  <2>9. n \in Memory /\ n.lastFull <= s
    <3>1. PICK c : c = {[state |-> j.payload, length |-> chain.length + 1]}
      OBVIOUS
    <3>2. c \in SUBSET [state : Partial, length : Nat]
      BY <1>0, <2>7, <3>1
    <3>3. n = [lastFull |-> m.lastFull, count |-> m.count + 1, chain |-> c]
      BY <2>3, <3>1
    <3>4. n \in Memory /\ n.lastFull = m.lastFull
      BY <3>2, <3>3 DEF Memory
    <3> QED
      BY <1>3, <3>4
  <2> QED
    BY <2>1, <2>2, <2>8, <2>9 DEF RowOf
<1> QED
  BY <1>1, <1>2

(* A process that does not begin a creation leaves the tables' types alone. *)
LEMMA TablesStay ==
  ASSUME TypeInv, NEW p \in Process, NEW at \in Stage, at # "create",
         pc' = [pc EXCEPT ![p] = at], UNCHANGED <<setting, created, saved>>,
         heads' \in [Branch -> 0..created], current' \in Branch
  PROVE  TablesType'
<1>1. /\ Cardinality(Creators) \in Nat /\ Cardinality(Creators') \in Nat
      /\ Cardinality(Creators') <= Cardinality(Creators)
  BY CreatorsStep
<1>2. Limit(setting) \in Nat /\ created + Cardinality(Creators) <= Limit(setting)
  BY SnapshotStoreAssumption DEF TypeInv, TablesType
<1>3. created + Cardinality(Creators') <= Limit(setting)
  BY <1>1, <1>2, TypeFacts
<1> QED
  BY <1>3 DEF TypeInv, TablesType

(* One that begins a creation finds room.                                   *)
LEMMA TablesGrow ==
  ASSUME TypeInv, NEW p \in Process, pc' = [pc EXCEPT ![p] = "create"],
         UNCHANGED <<setting, created, saved, heads>>, current' \in Branch,
         created + Cardinality(Creators) < Limit(setting)
  PROVE  TablesType'
<1>1. /\ Cardinality(Creators) \in Nat /\ Cardinality(Creators') \in Nat
      /\ Cardinality(Creators') <= Cardinality(Creators) + 1
  BY CreatorsStep DEF Stage
<1>2. Limit(setting) \in Nat
  BY SnapshotStoreAssumption DEF TypeInv, TablesType
<1>3. created + Cardinality(Creators') <= Limit(setting)
  BY <1>1, <1>2, TypeFacts
<1> QED
  BY <1>3 DEF TypeInv, TablesType

(* A process comes to rest.                                                 *)
LEMMA JobsRest ==
  ASSUME TypeInv, NEW p \in Process, NEW at \in Jobless,
         pc' = [pc EXCEPT ![p] = at], job' = [job EXCEPT ![p] = {}],
         plan' = [plan EXCEPT ![p] = {}], created' = created,
         lock' \in {lock, Nobody}, lock' # p
  PROVE  JobsType'
<1>1. at \in Stage /\ at # "head"
  BY DEF Stage
<1>2. lock' \in Process \cup {Nobody} /\ \A q \in Process \ {p} : lock' = q => lock = q
  BY TypeFacts, Constants
<1> HIDE DEF Stage
<1>3. {} \in SUBSET Change /\ \A c \in {} : c.link.parent < c.id
  OBVIOUS
<1>4. JobsType /\ created \in Nat /\ created <= created'
  BY TypeFacts DEF TypeInv
<1> QED
  BY <1>1, <1>2, <1>3, <1>4, JobsStep

(* A process is at work on j.                                               *)
LEMMA JobsWork ==
  ASSUME TypeInv, NEW p \in Process, NEW at \in Stage \ (Jobless \cup {"rewire"}), NEW j,
         pc' = [pc EXCEPT ![p] = at], job' = [job EXCEPT ![p] = {j}], plan' = plan,
         plan[p] = {}, created' \in Nat, created <= created', JobAt(j, at, created'),
         lock' \in {lock, p, Nobody}, lock' = p => at = "head"
  PROVE  JobsType'
<1>1. j \in Job
  BY DEF JobAt
<1>2. lock' \in Process \cup {Nobody} /\ \A q \in Process \ {p} : lock' = q => lock = q
  BY TypeFacts, Constants
<1>3. {} \in SUBSET Change /\ \A c \in {} : c.link.parent < c.id
  OBVIOUS
<1>4. plan' = [plan EXCEPT ![p] = {}]
  BY TypeFacts
<1>5. JobsType /\ created \in Nat
  BY TypeFacts DEF TypeInv
<1> QED
  BY <1>1, <1>2, <1>3, <1>4, <1>5, JobsStep

(* A process that goes from rest to rest touches no row.                    *)
LEMMA RestType ==
  ASSUME TypeInv, NEW p \in Process, NEW at \in Jobless, pc[p] \in Jobless,
         pc' = [pc EXCEPT ![p] = at],
         UNCHANGED <<setting, rows, saved, created, current, lock, job, plan>>,
         heads' \in [Branch -> 0..created],
         memory' \in {memory, [memory EXCEPT ![p] = Recovered]}
  PROVE  TypeInv'
<1>1. at \in Stage /\ at # "create"
  BY DEF Stage
<1>2. TablesType'
  <2>1. current \in Branch
    BY DEF TypeInv, TablesType
  <2> QED
    BY <1>1, <2>1, TablesStay
<1>3. RowsType'
  BY DEF TypeInv, RowsType
<1>4. MemoryType'
  BY RecoveredType DEF TypeInv, MemoryType
<1>5. JobsType'
  <2>1. job[p] = {} /\ plan[p] = {} /\ lock # p
    BY DEF TypeInv, JobsType
  <2>2. job' = [job EXCEPT ![p] = {}] /\ plan' = [plan EXCEPT ![p] = {}]
    BY <2>1, TypeFacts
  <2> QED
    BY <2>1, <2>2, JobsRest
<1> QED
  BY <1>2, <1>3, <1>4, <1>5 DEF TypeInv

(* Opening the workspace, and making its store, are such steps.             *)
LEMMA OpenType ==
  ASSUME TypeInv, NEW p \in Process,
         Open(p) \/ FindNoFile(p) \/ CreateNew(p) \/ WriteSession(p)
  PROVE  TypeInv'
<1>1. heads \in [Branch -> 0..created] /\ [b \in Branch |-> None] \in [Branch -> 0..created]
  BY TypeFacts, Constants DEF TypeInv, TablesType
<1>2. CASE Open(p)
  BY <1>1, <1>2, RestType DEF Open
<1>3. CASE FindNoFile(p)
  BY <1>1, <1>3, RestType DEF FindNoFile
<1>4. CASE CreateNew(p)
  BY <1>1, <1>4, RestType DEF CreateNew
<1>5. CASE WriteSession(p)
  BY <1>1, <1>5, RestType DEF WriteSession
<1> QED
  BY <1>2, <1>3, <1>4, <1>5

(* A process that ends drops the lock, its job and its memory.              *)
LEMMA StopType ==
  ASSUME TypeInv, NEW p \in Process, Stop(p)
  PROVE  TypeInv'
<1>1. pc' = [pc EXCEPT ![p] = "down"] /\ "down" \in Stage
  BY DEF Stop, Stage
<1>2. TablesType'
  <2>1. heads \in [Branch -> 0..created] /\ current \in Branch
    BY DEF TypeInv, TablesType
  <2> QED
    BY <1>1, <2>1, TablesStay DEF Stop
<1>3. RowsType'
  BY DEF Stop, TypeInv, RowsType
<1>4. MemoryType'
  <2>1. Fresh \in Memory /\ Fresh.lastFull = 0
    BY Constants DEF Fresh, Memory
  <2> QED
    BY <2>1, TypeFacts DEF Stop, TypeInv, MemoryType
<1>5. JobsType'
  <2>1. lock' \in {lock, Nobody} /\ lock' # p /\ created' = created
    BY Constants DEF Stop
  <2> QED
    BY <1>1, <2>1, JobsRest DEF Stop
<1> QED
  BY <1>2, <1>3, <1>4, <1>5 DEF TypeInv

(* A request takes room for one snapshot more.                              *)
LEMMA RequestType ==
  ASSUME TypeInv, NEW p \in Process, NEW w \in Payload, NEW b \in Branch,
         NEW parent \in Id, NEW full \in BOOLEAN, Request(p, w, b, parent, full)
  PROVE  TypeInv'
<1>1. pc' = [pc EXCEPT ![p] = "create"] /\ "create" \in Stage /\ pc[p] = "idle"
  BY DEF Request, Stage
<1>2. TablesType'
  <2>1. created + Cardinality(Creators) < Limit(setting)
    BY DEF Request, Room, Creators
  <2>2. current \in Branch
    BY DEF TypeInv, TablesType
  <2> QED
    BY <1>1, <2>1, <2>2, TablesGrow DEF Request
<1>3. RowsType'
  BY DEF Request, TypeInv, RowsType
<1>4. MemoryType'
  BY DEF Request, TypeInv, MemoryType
<1>5. JobsType'
  <2>1. PICK j : j = [branch |-> b, parent |-> parent, full |-> full, payload |-> w,
                      from |-> None, id |-> None]
    OBVIOUS
  <2>2. parent <= created
    <3>1. parent \in DOMAIN rows \/ parent = None
      BY DEF Request
    <3> QED
      BY <3>1, TypeFacts, Constants DEF TypeInv, RowsType
  <2>3. JobAt(j, "create", created)
    <3>1. j \in Job
      BY <2>1, Constants DEF Job
    <3>2. j.parent = parent /\ j.from = 0 /\ j.id = 0
      BY <2>1, Constants
    <3> QED
      BY <2>2, <3>1, <3>2, TypeFacts DEF JobAt
  <2>4. plan[p] = {} /\ lock # p
    BY <1>1 DEF TypeInv, JobsType
  <2>5. job' = [job EXCEPT ![p] = {j}] /\ plan' = plan /\ lock' = lock /\ created' = created
    BY <2>1 DEF Request
  <2>6. created' \in Nat /\ created <= created' /\ JobAt(j, "create", created')
    BY <2>3, <2>5, TypeFacts
  <2>7. "create" \in Stage \ (Jobless \cup {"rewire"}) /\ lock' # p
    BY <1>1, <2>4, <2>5
  <2> QED
    BY <1>1, <2>4, <2>5, <2>6, <2>7, JobsWork
<1> QED
  BY <1>2, <1>3, <1>4, <1>5 DEF TypeInv

(* What writing a row does: s is created, and its row is there unless the   *)
(* write has failed.                                                        *)
LEMMA Writes ==
  ASSUME TypeInv, NEW p \in Process, CreateRow(p),
         NEW s, s = created + 1, NEW j, j = The(job[p]),
         NEW parent, parent = IF j.parent # None THEN j.parent ELSE heads[j.branch],
         NEW m, m = memory[p]
  PROVE  /\ s \in Snapshot /\ s \notin DOMAIN rows /\ j \in Job /\ job[p] = {j}
         /\ parent \in Id /\ parent <= created /\ JobAt(j, "create", created)
         /\ m \in Memory /\ m.lastFull <= created
         /\ pc[p] = "create" /\ lock = Nobody /\ lock' = p
         /\ created' = s /\ saved' = [t \in 1..s |-> IF t = s THEN j.payload ELSE saved[t]]
         /\ memory' = [memory EXCEPT ![p] = Save(m, s, j, parent).memory]
         /\ \/ rows' = Inserted(s, Save(m, s, j, parent).row)
            \/ May("write_fails") /\ rows' = rows
         /\ pc' = [pc EXCEPT ![p] = "head"] /\ job' = [job EXCEPT ![p] = {[j EXCEPT !.id = s]}]
         /\ UNCHANGED <<setting, heads, current, plan>>
<1>1. pc[p] = "create" /\ Creating(p)
  BY DEF CreateRow
<1>2. job[p] = {j} /\ JobAt(j, "create", created) /\ j \in Job
  BY <1>1, JobFacts DEF JobAt
<1>3. s \in Snapshot
  <2>1. /\ Cardinality(Creators) \in Nat /\ Cardinality(Creators) # 0
    <3>1. p \in Creators /\ Creators \in SUBSET Process
      BY <1>1 DEF Creators
    <3>2. IsFiniteSet(Creators)
      BY <3>1, Constants, FS_Subset
    <3> QED
      BY <3>1, <3>2, FS_CardinalityType, FS_EmptySet
  <2>2. Limit(setting) \in Nat /\ Limit(setting) <= MaxSnapshots
    BY SnapshotStoreAssumption DEF TypeInv, TablesType
  <2>3. created + Cardinality(Creators) <= Limit(setting)
    BY DEF TypeInv, TablesType
  <2> QED
    BY <2>1, <2>2, <2>3, TypeFacts, Constants
<1>4. s \notin DOMAIN rows
  BY TypeFacts DEF TypeInv, RowsType
<1>5. parent \in Id /\ parent <= created
  <2>1. j.parent \in Id /\ j.parent <= created /\ j.branch \in Branch
    BY <1>2 DEF JobAt, Job
  <2>2. heads[j.branch] \in 0..created /\ 0..created \subseteq Id
    BY <2>1, TypeFacts, IdUpTo DEF TypeInv, TablesType
  <2> QED
    BY <2>1, <2>2, TypeFacts
<1>6. m \in Memory /\ m.lastFull <= created
  BY DEF TypeInv, MemoryType
<1>7. lock = Nobody /\ lock' = p
  BY DEF CreateRow
<1>8. /\ created' = s /\ saved' = [t \in 1..s |-> IF t = s THEN j.payload ELSE saved[t]]
      /\ memory' = [memory EXCEPT ![p] = Save(m, s, j, parent).memory]
      /\ \/ rows' = Inserted(s, Save(m, s, j, parent).row)
         \/ May("write_fails") /\ rows' = rows
      /\ pc' = [pc EXCEPT ![p] = "head"] /\ job' = [job EXCEPT ![p] = {[j EXCEPT !.id = s]}]
      /\ UNCHANGED <<setting, heads, current, plan>>
  BY <1>1, Zenon DEF Creating
<1> QED
  BY <1>1, <1>2, <1>3, <1>4, <1>5, <1>6, <1>7, <1>8

(* The row of a snapshot goes in under the lock, with a number that no row  *)
(* has, and a parent that is older.                                         *)
LEMMA CreateRowType ==
  ASSUME TypeInv, NEW p \in Process, CreateRow(p)
  PROVE  TypeInv'
<1>1. PICK s : s = created + 1
  OBVIOUS
<1>2. PICK j : j = The(job[p])
  OBVIOUS
<1>3. PICK parent : parent = IF j.parent # None THEN j.parent ELSE heads[j.branch]
  OBVIOUS
<1>4. PICK m : m = memory[p]
  OBVIOUS
<1>5. /\ s \in Snapshot /\ s \notin DOMAIN rows /\ j \in Job /\ job[p] = {j}
      /\ parent \in Id /\ parent <= created /\ JobAt(j, "create", created)
      /\ m \in Memory /\ m.lastFull <= created
      /\ pc[p] = "create" /\ lock = Nobody /\ lock' = p
      /\ created' = s /\ saved' = [t \in 1..s |-> IF t = s THEN j.payload ELSE saved[t]]
      /\ memory' = [memory EXCEPT ![p] = Save(m, s, j, parent).memory]
      /\ \/ rows' = Inserted(s, Save(m, s, j, parent).row)
         \/ May("write_fails") /\ rows' = rows
      /\ pc' = [pc EXCEPT ![p] = "head"] /\ job' = [job EXCEPT ![p] = {[j EXCEPT !.id = s]}]
      /\ UNCHANGED <<setting, heads, current, plan>>
  BY <1>1, <1>2, <1>3, <1>4, Writes
<1>6. /\ RowOf(Save(m, s, j, parent).row, s, j.payload)
      /\ Save(m, s, j, parent).memory \in Memory
      /\ Save(m, s, j, parent).memory.lastFull <= s
  BY <1>1, <1>5, SaveType
<1>7. created \in Nat /\ s \in 1..MaxSnapshots /\ DOMAIN rows \subseteq 1..created
  BY <1>5, TypeFacts, Constants DEF TypeInv, RowsType
<1>8. \A t \in 1..created : saved[t] \in Payload /\ saved'[t] = saved[t] /\ t # s
  BY <1>1, <1>5, <1>7 DEF TypeInv, TablesType
<1>9. TablesType'
  <2>1. /\ Cardinality(Creators) \in Nat /\ Cardinality(Creators') \in Nat
        /\ Cardinality(Creators') + 1 = Cardinality(Creators)
    <3>1. "head" \in Stage /\ "head" # "create"
      BY DEF Stage
    <3> QED
      BY <1>5, <3>1, CreatorsStep
  <2>2. created + Cardinality(Creators) <= Limit(setting) /\ Limit(setting) \in Nat
    BY SnapshotStoreAssumption DEF TypeInv, TablesType
  <2>3. created' + Cardinality(Creators') <= Limit(setting')
    BY <1>1, <1>5, <1>7, <2>1, <2>2
  <2>4. saved' \in [1..s -> Payload]
    <3>1. j.payload \in Payload
      BY <1>5 DEF Job
    <3>2. \A t \in 1..s : t = s \/ t \in 1..created
      BY <1>1, <1>7
    <3> QED
      BY <1>5, <1>8, <3>1, <3>2
  <2>5. heads \in [Branch -> 0..s]
    BY <1>1, <1>7 DEF TypeInv, TablesType
  <2>6. created' \in 0..MaxSnapshots
    BY <1>5, <1>7
  <2> QED
    BY <1>5, <2>3, <2>4, <2>5, <2>6 DEF TypeInv, TablesType
<1>10. RowsType'
  <2>1. \A t \in DOMAIN rows : RowOf(rows[t], t, saved[t]) /\ saved'[t] = saved[t] /\ t # s
    BY <1>7, <1>8 DEF TypeInv, RowsType
  <2>2. saved'[s] = j.payload
    BY <1>5, <1>7
  <2>3. DOMAIN rows \cup {s} \subseteq 1..s
    BY <1>1, <1>7
  <2>4. CASE rows' = rows
    BY <1>5, <2>1, <2>3, <2>4 DEF RowsType
  <2>5. CASE rows' = Inserted(s, Save(m, s, j, parent).row)
    <3>1. /\ DOMAIN rows' = DOMAIN rows \cup {s}
          /\ rows'[s] = Save(m, s, j, parent).row
          /\ \A t \in DOMAIN rows \ {s} : rows'[t] = rows[t]
      BY <2>5 DEF Inserted
    <3> QED
      BY <1>5, <1>6, <2>1, <2>2, <2>3, <3>1 DEF RowsType
  <2> QED
    BY <1>5, <2>4, <2>5
<1>11. MemoryType'
  <2>1. \A q \in Process : memory[q] \in Memory /\ memory[q].lastFull <= s
    <3> TAKE q \in Process
    <3>1. memory[q] \in Memory /\ memory[q].lastFull <= created
      BY DEF TypeInv, MemoryType
    <3>2. memory[q].lastFull \in Nat
      BY <3>1, IdUpTo DEF Memory
    <3> QED
      BY <1>1, <1>7, <3>1, <3>2
  <2>2. memory' \in [Process -> Memory]
    BY <1>5, <1>6 DEF TypeInv, MemoryType
  <2>3. \A q \in Process : memory'[q] = IF q = p THEN Save(m, s, j, parent).memory ELSE memory[q]
    BY <1>5 DEF TypeInv, MemoryType
  <2> QED
    BY <1>5, <1>6, <2>1, <2>2, <2>3 DEF MemoryType
<1>12. JobsType'
  <2>1. PICK k : k = [j EXCEPT !.id = s]
    OBVIOUS
  <2>2. k \in Job /\ k.parent = j.parent /\ k.from = j.from /\ k.id = s
    BY <1>5, <2>1, Constants DEF Job
  <2>3. j.parent \in Nat /\ j.from \in Nat /\ j.parent <= created /\ j.from <= created
    BY <1>5, IdUpTo DEF Job, JobAt
  <2>4. JobAt(k, "head", s)
    BY <1>1, <1>7, <2>2, <2>3 DEF JobAt
  <2>5. "head" \in Stage \ (Jobless \cup {"rewire"})
    BY DEF Stage
  <2>6. plan[p] = {}
    BY <1>5 DEF TypeInv, JobsType
  <2>7. s \in Nat /\ created <= s
    BY <1>1, <1>7
  <2> QED
    BY <1>5, <2>1, <2>4, <2>5, <2>6, <2>7, JobsWork
<1> QED
  BY <1>9, <1>10, <1>11, <1>12 DEF TypeInv

(* The head of a branch moves to a snapshot that exists.                    *)
LEMMA CreateHeadType ==
  ASSUME TypeInv, NEW p \in Process, CreateHead(p)
  PROVE  TypeInv'
<1>1. PICK j : j = The(job[p])
  OBVIOUS
<1>2. /\ pc[p] = "head" /\ heads' = [heads EXCEPT ![j.branch] = j.id] /\ lock' = Nobody
      /\ IF j.from = None
         THEN pc' = [pc EXCEPT ![p] = "idle"] /\ job' = [job EXCEPT ![p] = {}]
         ELSE pc' = [pc EXCEPT ![p] = "restructure"] /\ UNCHANGED job
      /\ UNCHANGED <<setting, rows, saved, created, current, memory, plan>>
  BY <1>1 DEF CreateHead
<1>3. job[p] = {j} /\ JobAt(j, "head", created) /\ plan[p] = {}
  BY <1>1, <1>2, JobFacts DEF TypeInv, JobsType
<1>4. heads' \in [Branch -> 0..created] /\ current' \in Branch
  <2>1. j.branch \in Branch /\ j.id \in Nat /\ j.id <= created
    BY <1>3, IdUpTo DEF JobAt, Job
  <2> QED
    BY <1>2, <2>1, TypeFacts DEF TypeInv, TablesType
<1>5. RowsType' /\ MemoryType'
  BY <1>2 DEF TypeInv, RowsType, MemoryType
<1>6. created \in Nat /\ plan' = [plan EXCEPT ![p] = {}] /\ job = [job EXCEPT ![p] = {j}]
  BY <1>2, <1>3, TypeFacts
<1>7. CASE j.from = None
  <2>1. TablesType'
    BY <1>2, <1>4, <1>7, TablesStay DEF Stage
  <2>2. JobsType'
    BY <1>2, <1>6, <1>7, JobsRest, Constants
  <2> QED
    BY <1>5, <2>1, <2>2 DEF TypeInv
<1>8. CASE j.from # None
  <2>1. TablesType'
    BY <1>2, <1>4, <1>8, TablesStay DEF Stage
  <2>2. JobAt(j, "restructure", created)
    BY <1>3, <1>8 DEF JobAt
  <2>3. "restructure" \in Stage \ (Jobless \cup {"rewire"}) /\ lock' # p
    BY <1>2, Constants DEF Stage
  <2>4. JobsType'
    BY <1>2, <1>3, <1>6, <1>8, <2>2, <2>3, JobsWork
  <2> QED
    BY <1>5, <2>1, <2>4 DEF TypeInv
<1> QED
  BY <1>7, <1>8

(* Deleting a row keeps the types of the others.                            *)
LEMMA DeleteType ==
  ASSUME TypeInv, NEW p \in Process, NEW s \in Snapshot, DeleteSnapshot(p, s)
  PROVE  TypeInv'
<1>1. /\ rows' = [t \in DOMAIN rows \ {s} |-> rows[t]]
      /\ UNCHANGED <<setting, saved, created, heads, current, lock, memory, pc, job, plan>>
  BY DEF DeleteSnapshot
<1>2. TablesType'
  BY <1>1 DEF TypeInv, TablesType, Creators
<1>3. MemoryType' /\ JobsType'
  BY <1>1 DEF TypeInv, MemoryType, JobsType
<1>4. RowsType'
  BY <1>1 DEF TypeInv, RowsType
<1> QED
  BY <1>2, <1>3, <1>4 DEF TypeInv

(* What a restore asks for: a new snapshot of what the old one loads as.    *)
LEMMA Restores ==
  ASSUME TypeInv, NEW p \in Process, NEW s \in Snapshot, Restore(p, s)
  PROVE  /\ s \in DOMAIN rows /\ Loaded[s] = {rows[s].sum} /\ rows[s].sum = saved[s]
         /\ rows[s].sum \in Payload
         /\ pc[p] = "idle" /\ job[p] = {} /\ plan[p] = {}
         /\ job' = [job EXCEPT ![p] = {[branch |-> Main, parent |-> s, full |-> FALSE,
                                       payload |-> rows[s].sum, from |-> s, id |-> None]}]
<1>1. s \in DOMAIN rows /\ s \in Readable /\ pc[p] = "idle"
  BY DEF Restore, Readable
<1>2. /\ BasesOlder(rows) /\ DOMAIN rows \subseteq Snapshot /\ rows[s].sum \in Payload
      /\ ~rows[s].delta => rows[s].payload = rows[s].sum
  BY <1>1, TypeFacts
<1>3. s \in ReadableIn(rows) /\ Loaded = LoadsIn(rows)
  BY <1>1, LoadedIsLoadsIn
<1>4. Loaded[s] = {rows[s].sum}
  BY <1>1, <1>2, <1>3, WhatLoads
<1>5. The(Loaded[s]) = rows[s].sum
  BY <1>4, TheOne
<1>6. job[p] = {} /\ plan[p] = {}
  BY <1>1 DEF TypeInv, JobsType
<1>7. job' = [job EXCEPT ![p] = {[branch |-> Main, parent |-> s, full |-> FALSE,
                                 payload |-> rows[s].sum, from |-> s, id |-> None]}]
  BY <1>5 DEF Restore
<1> QED
  BY <1>1, <1>4, <1>6, <1>7, TypeFacts

(* A restore asks for a snapshot on main, after the one restored.           *)
LEMMA RestoreType ==
  ASSUME TypeInv, NEW p \in Process, NEW s \in Snapshot, Restore(p, s)
  PROVE  TypeInv'
<1>1. /\ pc' = [pc EXCEPT ![p] = "create"] /\ Room /\ current' = rows[s].branch
      /\ memory' = [memory EXCEPT ![p] = [lastFull |-> s, count |-> 0, chain |-> {}]]
      /\ UNCHANGED <<setting, rows, saved, created, heads, lock, plan>>
  BY DEF Restore
<1>2. s \in DOMAIN rows /\ s \in Id /\ s <= created /\ created \in Nat /\ rows[s] \in Row
      /\ rows[s].sum \in Payload
  BY Restores, TypeFacts DEF TypeInv, RowsType, RowOf
<1>3. TablesType'
  <2>1. created + Cardinality(Creators) < Limit(setting)
    BY <1>1 DEF Room, Creators
  <2>2. rows[s].branch \in Branch
    BY <1>2 DEF Row
  <2> QED
    BY <1>1, <2>1, <2>2, TablesGrow
<1>4. RowsType'
  BY <1>1 DEF TypeInv, RowsType
<1>5. MemoryType'
  <2>1. [lastFull |-> s, count |-> 0, chain |-> {}] \in Memory
    BY <1>2 DEF Memory
  <2> QED
    BY <1>1, <1>2, <2>1 DEF TypeInv, MemoryType
<1>6. JobsType'
  <2>1. PICK j : j = [branch |-> Main, parent |-> s, full |-> FALSE,
                      payload |-> rows[s].sum, from |-> s, id |-> None]
    OBVIOUS
  <2>2. j \in Job /\ j.parent = s /\ j.from = s /\ j.id = 0
    BY <1>2, <2>1, Constants DEF Job
  <2>3. JobAt(j, "create", created)
    <3>1. j \in Job /\ j.parent <= created /\ j.from <= created /\ j.id <= created
      BY <1>2, <2>2
    <3> QED
      BY <3>1 DEF JobAt
  <2>4. job' = [job EXCEPT ![p] = {j}] /\ plan[p] = {} /\ pc[p] = "idle"
    BY <2>1, Restores
  <2>5. "create" \in Stage \ (Jobless \cup {"rewire"}) /\ lock # p
    BY <2>4 DEF Stage, TypeInv, JobsType
  <2>6. created' \in Nat /\ created <= created' /\ JobAt(j, "create", created')
        /\ lock' \in {lock, p, Nobody} /\ lock' # p /\ plan' = plan
    BY <1>1, <1>2, <2>3, <2>5
  <2> QED
    BY <1>1, <2>4, <2>5, <2>6, JobsWork
<1> QED
  BY <1>3, <1>4, <1>5, <1>6 DEF TypeInv

(* The changes that a restructuring makes.                                  *)
Changes(L, M) ==
  {[id |-> s, was |-> L[s], link |-> M[s]] : s \in {t \in DOMAIN L : M[t] # L[t]}}

(* The changes between two tables of links are changes of rows, to a parent *)
(* older than the row.                                                      *)
LEMMA ChangesType ==
  ASSUME NEW L, NEW M, LinksType(L), LinksType(M), DOMAIN M = DOMAIN L
  PROVE  Changes(L, M) \in SUBSET Change /\ \A c \in Changes(L, M) : c.link.parent < c.id
<1> SUFFICES ASSUME NEW s \in DOMAIN L, NEW c, c = [id |-> s, was |-> L[s], link |-> M[s]]
             PROVE  c \in Change /\ c.link.parent < c.id
  BY DEF Changes
<1>1. c.id = s /\ c.link = M[s]
  OBVIOUS
<1>2. s \in Snapshot /\ L[s] \in Link /\ M[s] \in Link /\ M[s].parent < s
  BY DEF LinksType
<1>3. c \in Change
  BY <1>2 DEF Change
<1> QED
  BY <1>1, <1>2, <1>3

(* What restructuring plans.                                                *)
LEMMA Restructures ==
  ASSUME TypeInv, NEW p \in Process, Restructure(p), NEW j, j = The(job[p])
  PROVE  /\ pc[p] = "restructure" /\ job[p] = {j} /\ JobAt(j, "restructure", created)
         /\ LinksType(Links) /\ DOMAIN Links = DOMAIN rows
         /\ LinksType(Restructured(Links, j.from, j.id))
         /\ DOMAIN Restructured(Links, j.from, j.id) = DOMAIN rows
         /\ plan' = [plan EXCEPT ![p] = Changes(Links, Restructured(Links, j.from, j.id))]
         /\ pc' = [pc EXCEPT ![p] = "rewire"]
         /\ UNCHANGED <<setting, rows, saved, created, heads, current, lock, memory, job>>
<1>1. pc[p] = "restructure"
  BY DEF Restructure
<1>2. job[p] = {j} /\ JobAt(j, "restructure", created)
  BY <1>1, JobFacts
<1>3. j.from \in Id /\ j.from < j.id
  BY <1>2 DEF JobAt, Job
<1>4. LinksType(Links) /\ DOMAIN Links = DOMAIN rows
  BY TypeFacts DEF Links
<1>5. LinksType(Restructured(Links, j.from, j.id))
      /\ DOMAIN Restructured(Links, j.from, j.id) = DOMAIN rows
  BY <1>3, <1>4, RestructuredType
<1>6. plan' = [plan EXCEPT ![p] = Changes(Links, Restructured(Links, j.from, j.id))]
  BY <1>4, Zenon DEF Restructure, Changes
<1> QED
  BY <1>1, <1>2, <1>4, <1>5, <1>6 DEF Restructure

(* Planning to restructure leaves changes of rows to write.                 *)
LEMMA RestructureType ==
  ASSUME TypeInv, NEW p \in Process, Restructure(p)
  PROVE  TypeInv'
<1>1. PICK j : j = The(job[p])
  OBVIOUS
<1>2. PICK C : C = Changes(Links, Restructured(Links, j.from, j.id))
  OBVIOUS
<1>3. /\ pc[p] = "restructure" /\ job[p] = {j} /\ JobAt(j, "restructure", created)
      /\ plan' = [plan EXCEPT ![p] = C] /\ pc' = [pc EXCEPT ![p] = "rewire"]
      /\ UNCHANGED <<setting, rows, saved, created, heads, current, lock, memory, job>>
  BY <1>1, <1>2, Restructures
<1>4. C \in SUBSET Change /\ \A c \in C : c.link.parent < c.id
  BY <1>1, <1>2, Restructures, ChangesType
<1>5. TablesType'
  <2>1. heads \in [Branch -> 0..created] /\ current \in Branch
    BY DEF TypeInv, TablesType
  <2> QED
    BY <1>3, <2>1, TablesStay DEF Stage
<1>6. RowsType' /\ MemoryType'
  BY <1>3 DEF TypeInv, RowsType, MemoryType
<1>7. JobsType'
  <2>1. j \in Job /\ JobAt(j, "rewire", created)
    BY <1>3 DEF JobAt
  <2>2. job' = [job EXCEPT ![p] = {j}] /\ created \in Nat /\ lock \in Process \cup {Nobody}
    BY <1>3, TypeFacts
  <2>3. lock # p /\ "rewire" \in Stage
    BY <1>3 DEF TypeInv, JobsType, Stage
  <2>4. \E k \in Job : {j} = {k} /\ JobAt(k, "rewire", created')
    BY <1>3, <2>1
  <2>5. created' \in Nat /\ created <= created' /\ lock' \in Process \cup {Nobody}
        /\ lock' # p /\ \A q \in Process \ {p} : lock' = q => lock = q
    BY <1>3, <2>2, <2>3
  <2>6. "rewire" \notin Jobless /\ JobsType
    BY DEF TypeInv
  <2> QED
    BY <1>3, <1>4, <2>2, <2>3, <2>4, <2>5, <2>6, JobsStep
<1> QED
  BY <1>5, <1>6, <1>7 DEF TypeInv

(* The earliest change that is left is written.                             *)
LEMMA Rewrites ==
  ASSUME TypeInv, NEW p \in Process, RewriteRow(p)
  PROVE  \E c \in plan[p] :
           /\ c \in Change /\ c.link.parent < c.id /\ pc[p] = "rewire"
           /\ \A d \in plan[p] : c.id <= d.id
           /\ plan' = [plan EXCEPT ![p] = (@ \ {c}) \cup Left(c)]
           /\ rows' = [s \in DOMAIN rows |-> IF s = c.id THEN Rewrite(rows[s], c) ELSE rows[s]]
           /\ UNCHANGED <<setting, saved, created, heads, current, lock, memory, pc, job>>
<1> DEFINE c == CHOOSE c \in plan[p] : \A d \in plan[p] : c.id <= d.id
<1>1. pc[p] = "rewire" /\ plan[p] # {} /\ plan[p] \in SUBSET Change
  BY TypeFacts DEF RewriteRow
<1>2. \E x \in plan[p] : \A d \in plan[p] : x.id <= d.id
  <2> DEFINE T == {d.id : d \in plan[p]}
  <2>1. T \subseteq Nat /\ T # {}
    BY <1>1, Constants DEF Change
  <2>2. PICK n \in T : \A k \in T : n <= k
    BY <2>1, LeastNat
  <2>3. PICK x \in plan[p] : x.id = n
    BY <2>2
  <2> QED
    BY <2>2, <2>3
<1>3. c \in plan[p] /\ \A d \in plan[p] : c.id <= d.id
  BY <1>2
<1>4. c \in Change /\ c.link.parent < c.id
  BY <1>1, <1>3 DEF TypeInv, JobsType
<1>5. /\ plan' = [plan EXCEPT ![p] = (@ \ {c}) \cup Left(c)]
      /\ rows' = [s \in DOMAIN rows |-> IF s = c.id THEN Rewrite(rows[s], c) ELSE rows[s]]
      /\ UNCHANGED <<setting, saved, created, heads, current, lock, memory, pc, job>>
  BY DEF RewriteRow
<1> HIDE DEF c
<1> QED
  BY <1>1, <1>3, <1>4, <1>5

(* What is written of a change: its branch, or its parent.                  *)
LEMMA RewriteFields ==
  ASSUME NEW r \in Row, NEW c \in Change
  PROVE  /\ Rewrite(r, c) \in Row
         /\ Rewrite(r, c).delta = r.delta /\ Rewrite(r, c).index = r.index
         /\ Rewrite(r, c).payload = r.payload /\ Rewrite(r, c).sum = r.sum
         /\ c.link.branch # c.was.branch =>
              /\ Rewrite(r, c).branch = c.link.branch
              /\ Rewrite(r, c).parent = r.parent /\ Rewrite(r, c).base = r.base
         /\ c.link.branch = c.was.branch =>
              /\ Rewrite(r, c).branch = r.branch /\ Rewrite(r, c).parent = c.link.parent
              /\ Rewrite(r, c).base = IF r.delta THEN c.link.parent ELSE r.base
<1>1. c.link.branch \in Branch /\ c.link.parent \in Id
  BY DEF Change, Link
<1>2. CASE c.link.branch # c.was.branch
  <2>1. Rewrite(r, c) = [r EXCEPT !.branch = c.link.branch]
    BY <1>2 DEF Rewrite
  <2>2. PICK n \in Row : n = [r EXCEPT !.branch = c.link.branch]
    BY <1>1 DEF Row
  <2>3. /\ n.branch = c.link.branch /\ n.parent = r.parent /\ n.base = r.base
        /\ n.delta = r.delta /\ n.index = r.index /\ n.payload = r.payload /\ n.sum = r.sum
    BY <2>2 DEF Row
  <2> QED
    BY <1>2, <2>1, <2>2, <2>3
<1>3. CASE c.link.branch = c.was.branch
  <2>1. PICK a : a = IF r.delta THEN c.link.parent ELSE r.base
    OBVIOUS
  <2>2. Rewrite(r, c) = [r EXCEPT !.parent = c.link.parent, !.base = a]
    BY <1>3, <2>1, Zenon DEF Rewrite
  <2>3. a \in Id
    BY <1>1, <2>1 DEF Row
  <2>4. PICK n \in Row : n = [r EXCEPT !.parent = c.link.parent, !.base = a]
    BY <1>1, <2>3 DEF Row
  <2>5. /\ n.branch = r.branch /\ n.parent = c.link.parent /\ n.base = a
        /\ n.delta = r.delta /\ n.index = r.index /\ n.payload = r.payload /\ n.sum = r.sum
    BY <2>4 DEF Row
  <2> QED
    BY <1>3, <2>1, <2>2, <2>4, <2>5
<1> QED
  BY <1>2, <1>3

(* What is left of a change is one of the same row to the same link;        *)
(* nothing is, when the branch or the parent alone changes.                 *)
LEMMA LeftType ==
  ASSUME NEW c \in Change
  PROVE  \A d \in Left(c) : /\ d \in Change /\ d.id = c.id /\ d.link = c.link
                             /\ d.was.branch = c.link.branch /\ d.was.parent = c.was.parent
                             /\ d.link.parent # d.was.parent /\ c.link.branch # c.was.branch
<1>1. PICK d : d = [c EXCEPT !.was.branch = c.link.branch]
  OBVIOUS
<1>2. PICK w : w = [c.was EXCEPT !.branch = c.link.branch]
  OBVIOUS
<1>3. w \in Link /\ w.branch = c.link.branch /\ w.parent = c.was.parent
  BY <1>2 DEF Change, Link
<1>4. d = [id |-> c.id, was |-> w, link |-> c.link]
  BY <1>1, <1>2 DEF Change
<1>5. d \in Change /\ d.id = c.id /\ d.link = c.link /\ d.was = w
  BY <1>3, <1>4 DEF Change
<1>6. d.was # d.link => d.link.parent # d.was.parent
  BY <1>3, <1>5 DEF Change, Link
<1> QED
  BY <1>1, <1>3, <1>5, <1>6 DEF Left

(* A row that is rewritten has a branch and an older parent.                *)
LEMMA RewriteRowType ==
  ASSUME TypeInv, NEW p \in Process, RewriteRow(p)
  PROVE  TypeInv'
<1>1. PICK c \in plan[p] :
           /\ c \in Change /\ c.link.parent < c.id /\ pc[p] = "rewire"
           /\ plan' = [plan EXCEPT ![p] = (@ \ {c}) \cup Left(c)]
           /\ rows' = [s \in DOMAIN rows |-> IF s = c.id THEN Rewrite(rows[s], c) ELSE rows[s]]
           /\ UNCHANGED <<setting, saved, created, heads, current, lock, memory, pc, job>>
  BY Rewrites
<1>2. TablesType'
  BY <1>1 DEF TypeInv, TablesType, Creators
<1>3. MemoryType'
  BY <1>1 DEF TypeInv, MemoryType
<1>4. RowsType'
  <2>1. \A s \in DOMAIN rows : RowOf(rows[s], s, saved[s])
    BY DEF TypeInv, RowsType
  <2>2. ASSUME NEW r \in Row, NEW w, RowOf(r, c.id, w) PROVE RowOf(Rewrite(r, c), c.id, w)
    <3>1. CASE c.link.branch = c.was.branch
      BY <1>1, <2>2, <3>1, RewriteFields DEF RowOf
    <3>2. CASE c.link.branch # c.was.branch
      BY <1>1, <2>2, <3>2, RewriteFields DEF RowOf
    <3> QED
      BY <3>1, <3>2
  <2>3. \A s \in DOMAIN rows : RowOf(rows'[s], s, saved[s])
    BY <1>1, <2>1, <2>2 DEF RowOf
  <2> QED
    BY <1>1, <2>3 DEF TypeInv, RowsType
<1>5. JobsType'
  <2>1. \A d \in Left(c) : d \in Change /\ d.link.parent < d.id
    BY <1>1, LeftType
  <2>2. /\ plan' \in [Process -> SUBSET Change]
        /\ \A q \in Process : plan'[q] = IF q = p THEN (plan[p] \ {c}) \cup Left(c) ELSE plan[q]
    BY <1>1, <2>1, TypeFacts
  <2> QED
    BY <1>1, <2>1, <2>2 DEF TypeInv, JobsType
<1> QED
  BY <1>2, <1>3, <1>4, <1>5 DEF TypeInv

(* At the end of a restore the process rests on main.                       *)
LEMMA RestoreDoneType ==
  ASSUME TypeInv, NEW p \in Process, RestoreDone(p)
  PROVE  TypeInv'
<1>1. /\ pc[p] = "rewire" /\ plan[p] = {} /\ current' = Main
      /\ pc' = [pc EXCEPT ![p] = "idle"] /\ job' = [job EXCEPT ![p] = {}]
      /\ UNCHANGED <<setting, rows, saved, created, heads, lock, memory, plan>>
  BY DEF RestoreDone
<1>2. TablesType'
  <2>1. heads \in [Branch -> 0..created] /\ Main \in Branch
    BY Constants DEF TypeInv, TablesType
  <2> QED
    BY <1>1, <2>1, TablesStay DEF Stage
<1>3. RowsType' /\ MemoryType'
  BY <1>1 DEF TypeInv, RowsType, MemoryType
<1>4. JobsType'
  <2>1. lock # p /\ plan' = [plan EXCEPT ![p] = {}]
    BY <1>1, TypeFacts DEF TypeInv, JobsType
  <2> QED
    BY <1>1, <2>1, JobsRest
<1> QED
  BY <1>2, <1>3, <1>4 DEF TypeInv

(* Every step keeps the types.                                              *)
LEMMA TypeStep == TypeInv /\ [Next]_vars => TypeInv'
<1> SUFFICES ASSUME TypeInv, [Next]_vars PROVE TypeInv'
  OBVIOUS
<1>1. CASE UNCHANGED vars
  BY <1>1 DEF vars, TypeInv, TablesType, RowsType, MemoryType, JobsType, Creators
<1>2. ASSUME NEW p \in Process,
             \/ Open(p) \/ FindNoFile(p) \/ CreateNew(p) \/ WriteSession(p) \/ Stop(p)
             \/ \E w \in Payload, b \in Branch, parent \in Id, full \in BOOLEAN :
                  Request(p, w, b, parent, full)
             \/ CreateRow(p) \/ CreateHead(p)
             \/ \E s \in Snapshot : DeleteSnapshot(p, s) \/ Restore(p, s)
             \/ Restructure(p) \/ RewriteRow(p) \/ RestoreDone(p)
      PROVE  TypeInv'
  BY <1>2, OpenType, StopType, RequestType, CreateRowType, CreateHeadType, DeleteType,
     RestoreType, RestructureType, RewriteRowType, RestoreDoneType
<1> QED
  BY <1>1, <1>2 DEF Next

(* And those of the file.                                                   *)
LEMMA FileStep == TypeInv /\ FileType /\ [Next]_vars => FileType'
<1> SUFFICES ASSUME TypeInv, FileType, [Next]_vars PROVE FileType'
  OBVIOUS
<1>0. created \in Nat
  BY TypeFacts
<1>1. CASE UNCHANGED <<created, file, emptied>>
  BY <1>1 DEF FileType
<1>2. ASSUME NEW p \in Process, CreateNew(p) \/ WriteSession(p)
      PROVE  FileType'
  <2>1. created' = created /\ file' \in BOOLEAN /\ emptied' \in {emptied, emptied \cup {created}}
    BY <1>2 DEF CreateNew, WriteSession, FileType
  <2> QED
    BY <1>0, <2>1 DEF FileType
<1>3. ASSUME NEW p \in Process, CreateRow(p)
      PROVE  FileType'
  <2>1. created' = created + 1 /\ UNCHANGED <<file, emptied>>
    BY <1>3, Zenon DEF CreateRow, Creating
  <2> QED
    BY <1>0, <2>1 DEF FileType
<1>4. ASSUME NEW p \in Process,
             \/ Open(p) \/ FindNoFile(p) \/ Stop(p)
             \/ \E w \in Payload, b \in Branch, parent \in Id, full \in BOOLEAN :
                  Request(p, w, b, parent, full)
             \/ CreateHead(p)
             \/ \E s \in Snapshot : DeleteSnapshot(p, s) \/ Restore(p, s)
             \/ Restructure(p) \/ RewriteRow(p) \/ RestoreDone(p)
      PROVE  UNCHANGED <<created, file, emptied>>
  BY <1>4, Zenon DEF Open, FindNoFile, Stop, Request, CreateHead, DeleteSnapshot, Restore,
     Restructure, RewriteRow, RestoreDone
<1> QED
  BY <1>1, <1>2, <1>3, <1>4 DEF Next, vars

(* Every variable keeps its type: a row's parent is a snapshot or none, a   *)
(* process at work has one job, and whoever holds the lock is about to set  *)
(* the head.                                                                *)
THEOREM TypeTheorem == Spec => []TypeOK
<1>1. Init => TypeInv /\ FileType
  BY TypeInit
<1>2. TypeInv /\ FileType /\ [Next]_vars => (TypeInv /\ FileType)'
  BY TypeStep, FileStep
<1>3. TypeInv /\ FileType => TypeOK
  BY TypeInvIsTypeOK
<1> QED
  BY <1>1, <1>2, <1>3, PTL DEF Spec

-----------------------------------------------------------------------------
(* The tree of the snapshots, when nothing disturbs a restore.              *)

(* Every snapshot but the first comes after an older one.                   *)
Rooted(L, n) ==
  /\ DOMAIN L = 1..n
  /\ n > 0 => L[1].parent = None
  /\ \A s \in 2..n : L[s].parent \in 1..s - 1

(* On a branch, a snapshot comes after the one before it.                   *)
Contiguous(L, n) ==
  \A s, u \in 1..n : s < u /\ L[s].branch = L[u].branch =>
    L[L[u].parent].branch = L[u].branch /\ s <= L[u].parent

(* The first and the last are on main.                                      *)
Tree(L, n) ==
  /\ Rooted(L, n) /\ Contiguous(L, n)
  /\ n > 0 => L[1].branch = Main /\ L[n].branch = Main

(* As it is when the last has been created after t, wherever t is.          *)
Grown(L, n, t) ==
  /\ Rooted(L, n) /\ Contiguous(L, n - 1)
  /\ t \in 1..n - 1
  /\ L[1].branch = Main /\ L[n].branch = Main /\ L[n].parent = t

(* With each of its snapshots S has its parent.                             *)
Closed(L, S) == \A u \in S : L[u].parent \in DOMAIN L => L[u].parent \in S

(* The ancestors of t are the least set that has t and is closed.           *)
LEMMA AncestorsLeast ==
  ASSUME NEW L, NEW t \in DOMAIN L
  PROVE  /\ Ancestors(L, t) \subseteq DOMAIN L
         /\ t \in Ancestors(L, t) /\ Closed(L, Ancestors(L, t))
         /\ \A S \in SUBSET DOMAIN L : t \in S /\ Closed(L, S) => Ancestors(L, t) \subseteq S
<1>1. \A x : x \in Ancestors(L, t) <=>
              x \in DOMAIN L /\ \A S \in SUBSET DOMAIN L : t \in S /\ Closed(L, S) => x \in S
  BY DEF Ancestors, Closed
<1>2. \A S \in SUBSET DOMAIN L : t \in S /\ Closed(L, S) => Ancestors(L, t) \subseteq S
  BY <1>1
<1>3. ASSUME NEW u \in Ancestors(L, t), L[u].parent \in DOMAIN L
      PROVE  L[u].parent \in Ancestors(L, t)
  <2>1. ASSUME NEW S \in SUBSET DOMAIN L, t \in S, Closed(L, S) PROVE L[u].parent \in S
    BY <1>1, <1>3, <2>1 DEF Closed
  <2> QED
    BY <1>1, <1>3, <2>1
<1> QED
  BY <1>1, <1>2, <1>3 DEF Closed

(* They are a path from t to the first snapshot.                            *)
LEMMA AncestorsPath ==
  ASSUME NEW n \in Nat, NEW L, Rooted(L, n), NEW t \in 1..n, NEW A, A = Ancestors(L, t)
  PROVE  /\ A \subseteq 1..t /\ t \in A /\ 1 \in A
         /\ \A u \in A : u # 1 => L[u].parent \in A
         /\ \A s, u \in A : s < u => s <= L[u].parent
<1>0. /\ A \subseteq 1..n /\ t \in A /\ Closed(L, A)
      /\ \A S \in SUBSET (1..n) : t \in S /\ Closed(L, S) => A \subseteq S
      /\ DOMAIN L = 1..n
  BY AncestorsLeast DEF Rooted
<1>1. \A u \in 1..n : IF u = 1 THEN L[u].parent = None /\ L[u].parent \notin 1..n
                      ELSE L[u].parent \in 1..n /\ L[u].parent < u
  BY DEF Rooted, None
<1>2. A \subseteq 1..t
  <2>1. Closed(L, 1..t) /\ 1..t \in SUBSET (1..n) /\ t \in 1..t
    BY <1>0, <1>1 DEF Closed
  <2> QED
    BY <1>0, <2>1
<1>3. \A u \in A : u # 1 => L[u].parent \in A /\ L[u].parent < u /\ L[u].parent \in Nat
  BY <1>0, <1>1 DEF Closed
<1>4. 1 \in A
  <2>1. A \subseteq Nat /\ A # {}
    BY <1>0
  <2>2. PICK m \in A : \A a \in A : m <= a
    BY <2>1, LeastNat
  <2>3. m = 1
    BY <1>3, <2>1, <2>2
  <2> QED
    BY <2>2, <2>3
<1> DEFINE over(x) == \A y \in A : y > x => L[y].parent >= x
           under(x) == \A y \in A : y < x => y <= L[x].parent
           S == {x \in A : over(x) /\ under(x)}
<1>5. over(t)
  BY <1>2
(* Nothing in a gap below x is an ancestor of t.                            *)
<1>6. ASSUME NEW x \in A, over(x) PROVE under(x)
  <2> DEFINE Q == A \ {y \in A : L[x].parent < y /\ y < x}
  <2>1. t \in Q
    BY <1>0, <1>2
  <2>2. ASSUME NEW z \in Q, L[z].parent \in 1..n PROVE L[z].parent \in Q
    <3>1. z \in A /\ z # 1 /\ L[z].parent \in A /\ L[z].parent < z /\ z \in Nat /\ x \in Nat
      BY <1>0, <1>1, <1>3, <2>2
    <3>2. z > x => L[z].parent >= x
      BY <1>6, <3>1
    <3>3. z < x => L[z].parent <= L[x].parent
      <4>1. x # 1 => L[x].parent \in Nat
        BY <1>3
      <4>2. z < x => z <= L[x].parent /\ x # 1
        BY <1>0, <3>1, <4>1
      <4> QED
        BY <1>3, <3>1, <4>1, <4>2
    <3>4. ~(L[x].parent < L[z].parent /\ L[z].parent < x)
      <4>1. CASE z > x
        BY <1>3, <3>1, <3>2, <4>1
      <4>2. CASE z = x
        BY <1>3, <3>1, <4>2
      <4>3. CASE z < x
        <5>1. x # 1 /\ L[x].parent \in Nat /\ L[z].parent \in Nat
          BY <1>0, <1>3, <3>1, <4>3
        <5> QED
          BY <3>3, <4>3, <5>1
      <4> QED
        BY <3>1, <4>1, <4>2, <4>3
    <3> QED
      BY <3>1, <3>4
  <2>3. Closed(L, Q) /\ Q \in SUBSET (1..n)
    BY <1>0, <2>2 DEF Closed
  <2>4. A \subseteq Q
    <3> HIDE DEF Q
    <3> QED
      BY <1>0, <2>1, <2>3
  <2>5. ASSUME NEW y \in A, y < x PROVE y <= L[x].parent
    <3>1. x # 1 /\ L[x].parent \in Nat /\ y \in Nat
      BY <1>0, <1>3, <2>5
    <3> QED
      BY <2>4, <2>5, <3>1
  <2> QED
    BY <2>5
<1>7. ASSUME NEW x \in S, L[x].parent \in 1..n PROVE L[x].parent \in S
  <2>1. x \in A /\ x # 1 /\ L[x].parent \in A /\ L[x].parent < x /\ over(x) /\ under(x)
    BY <1>1, <1>3, <1>7, <1>0
  <2>2. over(L[x].parent)
    <3> SUFFICES ASSUME NEW y \in A, y > L[x].parent PROVE L[y].parent >= L[x].parent
      OBVIOUS
    <3>1. y \in Nat /\ x \in Nat /\ y # 1 /\ L[y].parent \in Nat /\ L[x].parent \in Nat /\ L[x].parent \in 1..n
      BY <1>0, <1>3, <2>1
    <3>2. ~(y < x)
      BY <2>1, <3>1
    <3>3. CASE y = x
      BY <3>1, <3>3
    <3>4. CASE y > x
      BY <2>1, <3>1, <3>4
    <3> QED
      BY <3>1, <3>2, <3>3, <3>4
  <2> QED
    BY <1>6, <2>1, <2>2
<1>8. A \subseteq S
  <2>1. t \in S
    BY <1>0, <1>5, <1>6
  <2>2. Closed(L, S) /\ S \in SUBSET (1..n)
    BY <1>0, <1>7 DEF Closed
  <2> HIDE DEF S
  <2> QED
    BY <1>0, <2>1, <2>2
<1> QED
  BY <1>0, <1>2, <1>3, <1>4, <1>8

(* What is below an ancestor of t on its branch is an ancestor as well.     *)
LEMMA AncestorsBelow ==
  ASSUME NEW n \in Nat, NEW L, Rooted(L, n), NEW m \in 0..n, Contiguous(L, m),
         NEW t \in 1..m, NEW A, A = Ancestors(L, t),
         NEW u \in A, NEW s \in 1..n, s < u, L[s].branch = L[u].branch
  PROVE  s \in A
<1> DEFINE B == {x \in A : s <= x /\ L[x].branch = L[s].branch}
<1>0. /\ A \subseteq 1..t /\ \A x \in A : x # 1 => L[x].parent \in A
      /\ 1..t \subseteq 1..m /\ 1..t \subseteq 2..n \cup {1}
  <2>1. t \in 1..n
    OBVIOUS
  <2> QED
    BY <2>1, AncestorsPath
<1>1. u \in B /\ B \subseteq Nat
  BY <1>0
<1>2. PICK x \in B : \A y \in B : x <= y
  BY <1>1, LeastNat
<1>3. SUFFICES ASSUME s # x PROVE FALSE
  BY <1>2
<1>4. s < x /\ x \in 1..m /\ s \in 1..m /\ x \in A /\ L[x].branch = L[s].branch /\ x # 1
  BY <1>0, <1>2, <1>3
<1>5. L[L[x].parent].branch = L[x].branch /\ s <= L[x].parent
  BY <1>4 DEF Contiguous
<1>6. L[x].parent \in A /\ L[x].parent < x /\ L[x].parent \in Nat
  <2>1. x \in 2..n
    BY <1>4
  <2> QED
    BY <1>0, <1>4, <2>1 DEF Rooted
<1>7. L[x].parent \in B
  BY <1>4, <1>5, <1>6
<1> HIDE DEF B
<1>8. x <= L[x].parent /\ x \in Nat
  BY <1>1, <1>2, <1>7
<1> QED
  BY <1>6, <1>8

(* With t and what it comes from on main, before the last snapshot, and     *)
(* nothing else, every branch is contiguous.                                *)
LEMMA Respined ==
  ASSUME NEW n \in Nat, NEW L, NEW t, Grown(L, n, t), NEW A, A = Ancestors(L, t),
         NEW M, DOMAIN M = 1..n, \A s \in 1..n : M[s].parent = L[s].parent,
         \A s \in 1..n : M[s].branch = Main <=> s \in A \cup {n},
         \A s, u \in (1..n) \ (A \cup {n}) :
           M[s].branch = M[u].branch <=> L[s].branch = L[u].branch
  PROVE  Tree(M, n)
<1>1. /\ Rooted(L, n) /\ Contiguous(L, n - 1) /\ t \in 1..n - 1 /\ t \in 1..n /\ n > 1
      /\ L[n].parent = t /\ n - 1 \in 0..n
  BY DEF Grown
<1>2. /\ A \subseteq 1..t /\ t \in A /\ 1 \in A
      /\ \A u \in A : u # 1 => L[u].parent \in A
      /\ \A s, u \in A : s < u => s <= L[u].parent
  BY <1>1, AncestorsPath
<1>3. \A u \in A, s \in 1..n : s < u /\ L[s].branch = L[u].branch => s \in A
  BY <1>1, AncestorsBelow
<1>4. Rooted(M, n)
  BY <1>1 DEF Rooted
<1>5. ASSUME NEW s \in 1..n, NEW u \in 1..n, s < u, M[s].branch = M[u].branch
      PROVE  M[M[u].parent].branch = M[u].branch /\ s <= M[u].parent
  <2>1. u \in 2..n /\ L[u].parent \in 1..n /\ L[u].parent < u
    BY <1>1, <1>5 DEF Rooted
  <2>2. CASE u = n
    <3>1. s \in A /\ s <= t
      BY <1>1, <1>2, <1>5, <2>2
    <3> QED
      BY <1>1, <1>2, <2>2, <3>1
  <2>3. CASE u \in A
    <3>1. s \in A
      BY <1>2, <1>1, <1>5, <2>3
    <3> QED
      BY <1>2, <2>1, <2>3, <3>1, <1>5
  <2>4. CASE u \notin A \cup {n}
    <3>1. s \notin A \cup {n}
      BY <1>5, <2>4
    <3>2. s \in 1..n - 1 /\ u \in 1..n - 1 /\ L[s].branch = L[u].branch
      BY <1>5, <2>4, <3>1
    <3>3. L[L[u].parent].branch = L[u].branch /\ s <= L[u].parent
      BY <1>1, <1>5, <3>2 DEF Contiguous
    <3>4. L[u].parent \notin A
      BY <1>3, <2>1, <3>1, <3>2, <3>3
    <3>5. L[u].parent \notin A \cup {n}
      BY <2>1, <3>2, <3>4
    <3> QED
      BY <2>1, <2>4, <3>3, <3>5
  <2> QED
    BY <2>2, <2>3, <2>4
<1>6. M[1].branch = Main /\ M[n].branch = Main
  BY <1>1, <1>2
<1> QED
  BY <1>4, <1>5, <1>6 DEF Tree, Contiguous

(* In a tree, main is what the last snapshot comes from.                    *)
LEMMA MainIsAncestors ==
  ASSUME NEW n \in Nat, n > 0, NEW L, Tree(L, n)
  PROVE  On(L, Main) = Ancestors(L, n)
<1> DEFINE A == Ancestors(L, n)
<1>1. /\ Rooted(L, n) /\ Contiguous(L, n) /\ n \in 1..n /\ n \in 0..n
      /\ L[1].branch = Main /\ L[n].branch = Main /\ DOMAIN L = 1..n
  BY DEF Tree, Rooted
<1>2. On(L, Main) \subseteq A
  <2> SUFFICES ASSUME NEW s \in On(L, Main), s # n PROVE s \in A
    BY <1>1, AncestorsPath
  <2>1. n \in A
    BY <1>1, AncestorsPath
  <2> QED
    BY <1>1, <2>1, AncestorsBelow DEF On
<1>3. A \subseteq On(L, Main)
  <2>1. On(L, Main) \in SUBSET DOMAIN L /\ n \in On(L, Main)
    BY <1>1 DEF On
  <2>2. ASSUME NEW u \in On(L, Main), L[u].parent \in DOMAIN L
        PROVE  L[u].parent \in On(L, Main)
    <3>1. u # 1 /\ u \in 1..n /\ 1 \in 1..n /\ 1 < u
      BY <1>1, <2>2 DEF On, Rooted, None
    <3> QED
      BY <1>1, <2>2, <3>1 DEF On, Contiguous
  <2> QED
    BY <1>1, <2>1, <2>2, AncestorsLeast DEF Closed
<1> QED
  BY <1>2, <1>3

(* The snapshots on the branch of t, without the last.                      *)
Kin(L, n, t) == {s \in 1..n - 1 : L[s].branch = L[t].branch}

(* What main is after the target has been promoted.                         *)
LEMMA PromotedMain ==
  ASSUME NEW n \in Nat, NEW L, LinksType(L), NEW t, Grown(L, n, t),
         NEW A, A = Ancestors(L, t), NEW C, C = Kin(L, n, t),
         NEW P, P = Promoted(L, t, n)
  PROVE  /\ LinksType(P) /\ DOMAIN P = 1..n
         /\ \A s \in 1..n : P[s].parent = L[s].parent
         /\ \A s \in 1..n : P[s].branch = Main <=> s \in C \cup A \cup {n}
         /\ \A s, u \in (1..n) \ (C \cup A \cup {n}) :
              P[s].branch = P[u].branch <=> L[s].branch = L[u].branch
<1>1. /\ Rooted(L, n) /\ Contiguous(L, n - 1) /\ t \in 1..n - 1 /\ t \in 1..n /\ n > 1
      /\ L[n].parent = t /\ L[n].branch = Main /\ L[1].branch = Main /\ DOMAIN L = 1..n
  BY DEF Grown, Rooted
<1>0. C = {s \in 1..n - 1 : L[s].branch = L[t].branch}
  BY DEF Kin
<1>2. A \subseteq 1..t /\ t \in A
  BY <1>1, AncestorsPath
<1>3. CASE L[t].branch = Main
  <2>1. P = L
    BY <1>3 DEF Promoted
  <2>2. A \subseteq C
    <3>1. C \in SUBSET DOMAIN L /\ t \in C
      BY <1>0, <1>1
    <3>2. ASSUME NEW u \in C, L[u].parent \in DOMAIN L PROVE L[u].parent \in C
      <4>1. u \in 1..n - 1 /\ L[u].branch = Main
        BY <1>0, <1>3
      <4>2. u # 1 /\ u \in 2..n /\ 1 \in 1..n - 1 /\ 1 < u
        BY <1>1, <3>2, <4>1 DEF Rooted, None
      <4>3. L[u].parent \in 1..n - 1
        BY <1>1, <4>1, <4>2 DEF Rooted
      <4> QED
        BY <1>0, <1>1, <1>3, <4>1, <4>2, <4>3 DEF Contiguous
    <3> QED
      BY <1>1, <3>1, <3>2, AncestorsLeast DEF Closed
  <2> QED
    BY <1>0, <1>1, <1>3, <2>1, <2>2
<1>4. CASE L[t].branch # Main
  <2> DEFINE c == L[t].branch
             b == NextAlt(L)
             K == Moved(L, On(L, Main) \ {n}, b)
             B == Moved(K, On(K, c) \cup A, Main)
  <2>1. P = [B EXCEPT ![n].parent = t]
    BY <1>4 DEF Promoted
  <2>2. b \in Branch /\ b # Main /\ \A s \in 1..n : L[s].branch # b
    BY <1>1, FreeBranch DEF On
  <2>3. LinksType(K) /\ DOMAIN K = 1..n /\ \A s \in 1..n : K[s].parent = L[s].parent
    BY <1>1, <2>2, MovedLinks
  <2>4. \A s \in 1..n : K[s].branch = IF s # n /\ L[s].branch = Main THEN b ELSE L[s].branch
    <3>1. \A s \in 1..n : s \in On(L, Main) \ {n} <=> s # n /\ L[s].branch = Main
      BY <1>1 DEF On
    <3>2. \A s \in 1..n : K[s].branch = IF s \in On(L, Main) \ {n} THEN b ELSE L[s].branch
      BY <1>1, <2>2, MovedLinks
    <3> QED
      BY <3>1, <3>2
  <2>5. \A s \in 1..n : s \in On(K, c) <=> s \in C
    BY <1>0, <1>1, <1>4, <2>2, <2>3, <2>4 DEF On
  <2> HIDE DEF K, b
  <2>6. LinksType(B) /\ DOMAIN B = 1..n /\ \A s \in 1..n : B[s].parent = L[s].parent
    BY <2>3, Constants, MovedLinks
  <2>7. \A s \in 1..n : B[s].branch = IF s \in C \cup A THEN Main ELSE K[s].branch
    <3>1. \A s \in 1..n : B[s].branch = IF s \in On(K, c) \cup A THEN Main ELSE K[s].branch
      BY <2>3, Constants, MovedLinks
    <3> QED
      BY <2>5, <3>1
  <2> HIDE DEF B
  <2>8. /\ LinksType(P) /\ DOMAIN P = 1..n
        /\ \A s \in 1..n : P[s].branch = B[s].branch /\ P[s].parent = IF s = n THEN t ELSE B[s].parent
    <3>1. t \in Id /\ t < n /\ LinksType(B)
      <4>1. t \in DOMAIN L /\ t < n
        BY <1>1
      <4>2. DOMAIN L \subseteq Snapshot
        BY DEF LinksType
      <4> QED
        BY <2>6, <4>1, <4>2, Constants
    <3>2. PICK N : N = [B EXCEPT ![n].parent = t]
      OBVIOUS
    <3>3. LinksType(N) /\ DOMAIN N = DOMAIN B
      BY <3>1, <3>2, NewParent
    <3>4. \A s \in DOMAIN B : /\ N[s].branch = B[s].branch
                              /\ N[s].parent = IF s = n THEN t ELSE B[s].parent
      BY <3>1, <3>2, NewParent
    <3>5. P = N
      BY <2>1, <3>2
    <3> QED
      BY <2>6, <3>3, <3>4, <3>5
  <2>9. n \notin C \cup A
    BY <1>0, <1>1, <1>2
  <2>10. \A s \in 1..n : P[s].branch = IF s \in C \cup A \cup {n} THEN Main
                                       ELSE IF L[s].branch = Main THEN b ELSE L[s].branch
    BY <1>1, <2>4, <2>7, <2>8, <2>9
  <2> QED
    BY <1>0, <1>1, <2>2, <2>6, <2>8, <2>10
<1> QED
  BY <1>3, <1>4

(* Rewiring changes nothing when everything comes after its like.           *)
LEMMA RewiredSame ==
  ASSUME NEW n \in Nat, NEW Q, LinksType(Q), DOMAIN Q = 1..n, NEW t, NEW moved,
         Rooted(Q, n), n > 0, Q[1].branch = Main,
         \A s \in 2..n : Q[s].branch = Main => Q[Q[s].parent].branch = Main,
         \A s \in moved : s # 1 /\ Q[s].branch # Main
                          /\ (Q[s].parent \notin moved => Q[s].parent = t),
         NEW R, R = Rewired(Q, t, moved)
  PROVE  /\ DOMAIN R = 1..n
         /\ \A s \in 1..n : R[s].parent = Q[s].parent /\ R[s].branch = Q[s].branch
<1> DEFINE main == On(Q, Main)
           roots == {s \in main : Q[s].parent = None}
           root == IF roots # {} THEN Least(roots) ELSE Least(main)
<1>1. roots = {1}
  <2>1. 1 \in roots
    BY DEF On, Rooted
  <2>2. \A s \in roots : s = 1
    BY DEF On, Rooted, None
  <2> QED
    BY <2>1, <2>2
<1>2. root = 1
  <2>1. Least({1}) = 1
    BY LeastOf
  <2> QED
    BY <1>1, <2>1
<1>3. DOMAIN R = 1..n
  BY DEF Rewired
<1>4. \A s \in 1..n : \A p : /\ [Q[s] EXCEPT !.parent = p].branch = Q[s].branch
                             /\ [Q[s] EXCEPT !.parent = p].parent = p
  BY DEF LinksType, Link
<1>5. ASSUME NEW s \in 1..n PROVE R[s].parent = Q[s].parent /\ R[s].branch = Q[s].branch
  <2>1. CASE s = 1
    <3>1. R[s] = [Q[s] EXCEPT !.parent = None]
      BY <1>2, <2>1 DEF Rewired
    <3>2. Q[s].parent = None
      BY <2>1 DEF Rooted
    <3> QED
      BY <1>4, <3>1, <3>2
  <2>2. CASE s # 1
    <3>1. s \in main => Q[s].parent \in main
      <4>1. s \in 2..n /\ Q[s].parent \in 1..n
        BY <2>2 DEF Rooted
      <4> QED
        BY <4>1 DEF On
    <3>2. s # root /\ ~(s \in main /\ s > root /\ Q[s].parent \notin main)
      <4> HIDE DEF root, main
      <4> QED
        BY <1>2, <2>2, <3>1
    <3>3. CASE s \in moved /\ Q[s].parent \notin moved
      <4>1. R[s] = [Q[s] EXCEPT !.parent = t]
        BY <3>2, <3>3 DEF Rewired
      <4> QED
        BY <1>4, <3>3, <4>1
    <3>4. CASE ~(s \in moved /\ Q[s].parent \notin moved)
      <4>1. R[s] = Q[s]
        BY <3>2, <3>4 DEF Rewired
      <4> QED
        BY <4>1
    <3> QED
      BY <3>3, <3>4
  <2> QED
    BY <2>1, <2>2
<1> QED
  BY <1>3, <1>5

(* A restructuring that nothing disturbs makes a tree again, and everything *)
(* keeps its parent.                                                        *)
LEMMA RestructuredTree ==
  ASSUME NEW n \in Nat, NEW L, LinksType(L), NEW t, Grown(L, n, t),
         NEW R, R = Restructured(L, t, n)
  PROVE  /\ Tree(R, n) /\ \A s \in 1..n : R[s].parent = L[s].parent
<1> DEFINE A == Ancestors(L, t)
           C == Kin(L, n, t)
           P == Promoted(L, t, n)
           moved == {s \in On(P, Main) \ {n} : s > t}
           Q == IF moved = {} THEN P ELSE Moved(P, moved, NextAlt(P))
<1>1. /\ Rooted(L, n) /\ Contiguous(L, n - 1) /\ t \in 1..n - 1 /\ t \in 1..n /\ n > 1
      /\ L[n].parent = t /\ L[n].branch = Main /\ DOMAIN L = 1..n /\ n - 1 \in 0..n
  BY DEF Grown, Rooted
<1>2. /\ A \subseteq 1..t /\ t \in A /\ 1 \in A
      /\ \A u \in A : u # 1 => L[u].parent \in A
  BY <1>1, AncestorsPath
<1>3. /\ LinksType(P) /\ DOMAIN P = 1..n
      /\ \A s \in 1..n : P[s].parent = L[s].parent
      /\ \A s \in 1..n : P[s].branch = Main <=> s \in C \cup A \cup {n}
      /\ \A s, u \in (1..n) \ (C \cup A \cup {n}) :
           P[s].branch = P[u].branch <=> L[s].branch = L[u].branch
  BY PromotedMain
<1>4. R = Rewired(Q, t, moved)
  BY <1>1 DEF Restructured
<1>0. C = {s \in 1..n - 1 : L[s].branch = L[t].branch}
  BY DEF Kin
<1> HIDE DEF P, C
(* What is not after the target on its branch it comes from.                *)
<1>5. \A s \in C : s \in A \/ s > t
  <2> SUFFICES ASSUME NEW s \in C, s < t PROVE s \in A
    BY <1>0, <1>1, <1>2
  <2> HIDE DEF A
  <2>1. s \in 1..n /\ L[s].branch = L[t].branch
    BY <1>0
  <2> QED
    BY <1>1, <1>2, <2>1, AncestorsBelow DEF A
<1>6. moved = {s \in C : s > t}
  <2>1. \A s : s \in On(P, Main) \ {n} <=> s \in 1..n - 1 /\ s \in C \cup A
    BY <1>0, <1>1, <1>2, <1>3 DEF On
  <2>2. \A s \in A : s \in 1..n - 1 /\ ~(s > t)
    BY <1>1, <1>2
  <2> HIDE DEF A
  <2>3. \A s : s \in C => s \in 1..n - 1
    BY <1>0
  <2>4. ASSUME NEW s PROVE s \in moved <=> s \in C /\ s > t
    BY <2>1, <2>2, <2>3
  <2> HIDE DEF moved
  <2> QED
    BY <2>4
<1> HIDE DEF A, moved
<1>7. /\ LinksType(Q) /\ DOMAIN Q = 1..n /\ \A s \in 1..n : Q[s].parent = L[s].parent
      /\ \E b \in Branch \ {Main} :
           /\ \A s \in 1..n : P[s].branch = b => moved = {}
           /\ \A s \in 1..n : Q[s].branch = IF s \in moved THEN b ELSE P[s].branch
  <2>1. NextAlt(P) \in Branch \ {Main} /\ On(P, NextAlt(P)) = {}
    BY <1>3, FreeBranch
  <2>2. CASE moved = {}
    BY <1>3, <2>1, <2>2
  <2>3. CASE moved # {}
    <3>1. Q = Moved(P, moved, NextAlt(P))
      BY <2>3
    <3>2. /\ LinksType(Q) /\ DOMAIN Q = DOMAIN P
          /\ \A s \in DOMAIN P : /\ Q[s].parent = P[s].parent
                                 /\ Q[s].branch = IF s \in moved THEN NextAlt(P) ELSE P[s].branch
      BY <1>3, <2>1, <3>1, MovedLinks
    <3>3. \A s \in 1..n : P[s].branch # NextAlt(P)
      BY <1>3, <2>1 DEF On
    <3> HIDE DEF Q
    <3> QED
      BY <1>3, <2>1, <3>2, <3>3
  <2> QED
    BY <2>2, <2>3
<1> HIDE DEF Q
<1>8. PICK b \in Branch \ {Main} :
           /\ \A s \in 1..n : P[s].branch = b => moved = {}
           /\ \A s \in 1..n : Q[s].branch = IF s \in moved THEN b ELSE P[s].branch
  BY <1>7
<1>9. \A s \in 1..n : Q[s].branch = Main <=> s \in A \cup {n}
  <2>1. \A s \in moved : s # n /\ s \notin A /\ s \in 1..n
    BY <1>0, <1>1, <1>2, <1>6
  <2>2. \A s \in 1..n : s \in C /\ s \notin moved => s \in A
    BY <1>5, <1>6
  <2> QED
    BY <1>3, <1>8, <2>1, <2>2
<1>10. ASSUME NEW s \in (1..n) \ (A \cup {n}), NEW u \in (1..n) \ (A \cup {n})
       PROVE  Q[s].branch = Q[u].branch <=> L[s].branch = L[u].branch
  <2>1. (s \in moved <=> s \in C) /\ (u \in moved <=> u \in C)
    BY <1>5, <1>6
  <2>2. s \in 1..n - 1 /\ u \in 1..n - 1
    BY <1>1
  <2>3. (s \in C <=> L[s].branch = L[t].branch) /\ (u \in C <=> L[u].branch = L[t].branch)
    BY <1>0, <2>2
  <2>4. CASE s \in C /\ u \in C
    BY <1>8, <2>1, <2>3, <2>4
  <2>5. CASE s \in C /\ u \notin C
    BY <1>8, <2>1, <2>3, <2>5
  <2>6. CASE s \notin C /\ u \in C
    BY <1>8, <2>1, <2>3, <2>6
  <2>7. CASE s \notin C /\ u \notin C
    BY <1>3, <1>8, <2>1, <2>7
  <2> QED
    BY <2>4, <2>5, <2>6, <2>7
<1>11. \A s \in moved : s # 1 /\ Q[s].branch # Main /\ (Q[s].parent \notin moved => Q[s].parent = t)
  <2> SUFFICES ASSUME NEW s \in moved
               PROVE  s # 1 /\ Q[s].branch # Main /\ (Q[s].parent \notin moved => Q[s].parent = t)
    OBVIOUS
  <2>1. s \in 1..n - 1 /\ s > t /\ L[s].branch = L[t].branch /\ s \in 2..n /\ s \in 1..n
    BY <1>0, <1>1, <1>6
  <2>2. Q[s].branch # Main
    BY <1>8, <2>1
  <2>3. L[L[s].parent].branch = L[s].branch /\ t <= L[s].parent
    BY <1>1, <2>1 DEF Contiguous
  <2>4. L[s].parent \in 1..s - 1
    BY <1>1, <2>1 DEF Rooted
  <2>5. L[s].parent \in C
    BY <1>0, <2>1, <2>3, <2>4
  <2>6. L[s].parent \notin moved => L[s].parent = t
    <3> QED
      BY <1>1, <1>6, <2>1, <2>3, <2>4, <2>5
  <2> QED
    BY <1>7, <2>1, <2>2, <2>6
<1>12. /\ DOMAIN R = 1..n
       /\ \A s \in 1..n : R[s].parent = L[s].parent /\ R[s].branch = Q[s].branch
  <2>1. Rooted(Q, n) /\ n > 0 /\ Q[1].branch = Main
    BY <1>1, <1>2, <1>7, <1>9 DEF Rooted
  <2>2. \A s \in 2..n : Q[s].branch = Main => Q[Q[s].parent].branch = Main
    <3> SUFFICES ASSUME NEW s \in 2..n, Q[s].branch = Main PROVE Q[Q[s].parent].branch = Main
      OBVIOUS
    <3>1. s \in A \cup {n} /\ L[s].parent \in A /\ L[s].parent \in 1..n /\ Q[s].parent = L[s].parent
      <4>1. s \in 1..n /\ s # 1 /\ s \in A \cup {n}
        BY <1>9
      <4>2. L[s].parent \in A
        <5>1. CASE s = n
          BY <1>1, <1>2, <5>1
        <5>2. CASE s \in A
          BY <1>2, <4>1, <5>2
        <5> QED
          BY <4>1, <5>1, <5>2
      <4>3. L[s].parent \in 1..n
        BY <1>1 DEF Rooted
      <4> QED
        BY <1>7, <4>1, <4>2, <4>3
    <3> QED
      BY <1>9, <3>1
  <2> QED
    BY <1>4, <1>7, <1>11, <2>1, <2>2, RewiredSame
<1>13. /\ \A s \in 1..n : R[s].branch = Main <=> s \in A \cup {n}
       /\ \A s, u \in (1..n) \ (A \cup {n}) :
            R[s].branch = R[u].branch <=> L[s].branch = L[u].branch
  BY <1>9, <1>10, <1>12
<1> QED
  BY <1>12, <1>13, Respined DEF A

-----------------------------------------------------------------------------
(* One process that saves and restores, undisturbed.                        *)

Tame == setting \subseteq {"restore", "full", "twin", "new"}

(* Written out, the changes that are left make the links L.                 *)
Heading(p, L) ==
  /\ DOMAIN L = DOMAIN rows
  /\ \A s \in DOMAIN rows : /\ L[s].parent = rows[s].parent
                            /\ L[s] # Links[s] => \E c \in plan[p] : c.id = s
  /\ \A c \in plan[p] : /\ c.id \in DOMAIN rows
                        /\ c.was = Links[c.id] /\ c.link = L[c.id] /\ c.was # c.link

(* What holds between two operations.                                       *)
AtRest == current = Main /\ heads[Main] = created /\ Tree(Links, created)

(* A job saves on main, and after the restored snapshot if there is one.    *)
OnMain(j) == j.branch = Main /\ j.parent = j.from /\ (j.from = None => current = Main)

AtHead(j) ==
  /\ j.id = created
  /\ IF j.from = None THEN Tree(Links, created) ELSE Grown(Links, created, j.from)

AtRestructure(j) ==
  j.id = created /\ heads[Main] = created /\ Grown(Links, created, j.from)

AtRewire(p, j) ==
  /\ j.id = created /\ heads[Main] = created /\ rows[created].parent = j.from
  /\ \E L : Heading(p, L) /\ Tree(L, created)

AtStage(p) ==
  IF pc[p] \in Jobless THEN AtRest /\ (pc[p] # "idle" => created = 0)
  ELSE \E j \in Job :
         /\ job[p] = {j} /\ OnMain(j)
         /\ pc[p] = "create" => heads[Main] = created /\ Tree(Links, created)
         /\ pc[p] = "head" => AtHead(j)
         /\ pc[p] = "restructure" => AtRestructure(j)
         /\ pc[p] = "rewire" => AtRewire(p, j)

Alone(p) == pc[p] # "down" /\ \A q \in Process \ {p} : pc[q] = "down"

Untouched == AtRest /\ created = 0 /\ \A p \in Process : pc[p] = "down"

(* No snapshot is lost, and the tree is as it should be at every stage.     *)
TameInv ==
  Tame => /\ DOMAIN rows = 1..created
          /\ Untouched \/ \E p \in Process : Alone(p) /\ AtStage(p)

(* A tree with one more snapshot at the end of main, or after another.      *)
LEMMA GrowTree ==
  ASSUME NEW n \in Nat, NEW L, Tree(L, n), NEW M, DOMAIN M = 1..n + 1,
         \A s \in 1..n : M[s] = L[s], M[n + 1].branch = Main
  PROVE  /\ M[n + 1].parent = n => Tree(M, n + 1)
         /\ \A t \in 1..n : M[n + 1].parent = t => Grown(M, n + 1, t)
<1>1. /\ \A s \in 2..n : M[s].parent \in 1..s - 1
      /\ n > 0 => M[1].parent = None /\ M[1].branch = Main /\ M[n].branch = Main
  BY DEF Tree, Rooted
<1>2. \A s, u \in 1..n : s < u /\ M[s].branch = M[u].branch =>
        M[M[u].parent].branch = M[u].branch /\ s <= M[u].parent
  <2> SUFFICES ASSUME NEW s \in 1..n, NEW u \in 1..n, s < u, M[s].branch = M[u].branch
               PROVE  M[M[u].parent].branch = M[u].branch /\ s <= M[u].parent
    OBVIOUS
  <2>1. L[L[u].parent].branch = L[u].branch /\ s <= L[u].parent /\ u \in 2..n
    BY DEF Tree, Contiguous
  <2>2. L[u].parent \in 1..n
    BY <2>1 DEF Tree, Rooted
  <2> QED
    BY <2>1, <2>2
<1>3. ASSUME M[n + 1].parent = n PROVE Tree(M, n + 1)
  <2>1. Rooted(M, n + 1)
    <3>1. M[1].parent = None
      BY <1>1, <1>3 DEF None
    <3>2. \A s \in 2..n + 1 : M[s].parent \in 1..s - 1
      <4> SUFFICES ASSUME NEW s \in 2..n + 1 PROVE M[s].parent \in 1..s - 1
        OBVIOUS
      <4>1. s = n + 1 \/ s \in 2..n
        OBVIOUS
      <4> QED
        BY <1>1, <1>3, <4>1
    <3> QED
      BY <3>1, <3>2 DEF Rooted
  <2>2. Contiguous(M, n + 1)
    <3> SUFFICES ASSUME NEW s \in 1..n + 1, NEW u \in 1..n + 1, s < u, M[s].branch = M[u].branch
                 PROVE  M[M[u].parent].branch = M[u].branch /\ s <= M[u].parent
      BY DEF Contiguous
    <3>1. CASE u = n + 1
      BY <1>1, <1>3, <3>1
    <3>2. CASE u # n + 1
      <4>1. s \in 1..n /\ u \in 1..n
        BY <3>2
      <4> QED
        BY <1>2, <4>1
    <3> QED
      BY <3>1, <3>2
  <2>3. M[1].branch = Main
    BY <1>1
  <2> QED
    BY <2>1, <2>2, <2>3 DEF Tree
<1>4. ASSUME NEW t \in 1..n, M[n + 1].parent = t PROVE Grown(M, n + 1, t)
  <2>1. Rooted(M, n + 1)
    <3> SUFFICES ASSUME NEW s \in 2..n + 1 PROVE M[s].parent \in 1..s - 1
      BY <1>1 DEF Rooted
    <3>1. s = n + 1 \/ s \in 2..n
      OBVIOUS
    <3> QED
      BY <1>1, <1>4, <3>1
  <2>2. Contiguous(M, (n + 1) - 1)
    BY <1>2 DEF Contiguous
  <2> QED
    BY <1>1, <1>4, <2>1, <2>2 DEF Grown
<1> QED
  BY <1>3, <1>4

(* Trees are alike when their links are.                                    *)
LEMMA SameTree ==
  ASSUME NEW n \in Nat, NEW L, NEW M, Tree(L, n), DOMAIN M = 1..n, \A s \in 1..n : M[s] = L[s]
  PROVE  Tree(M, n)
<1>0. Rooted(L, n) /\ Contiguous(L, n) /\ (n > 0 => L[1].branch = Main /\ L[n].branch = Main)
  BY DEF Tree
<1>1. \A u \in 1..n : u # 1 => L[u].parent \in 1..n
  <2> TAKE u \in 1..n
  <2>1. u # 1 => u \in 2..n
    OBVIOUS
  <2> QED
    BY <1>0, <2>1 DEF Rooted
<1>2. Rooted(M, n) /\ (n > 0 => M[1].branch = Main /\ M[n].branch = Main)
  <2>1. n > 0 => 1 \in 1..n /\ n \in 1..n
    OBVIOUS
  <2>2. \A s \in 2..n : s \in 1..n
    OBVIOUS
  <2> QED
    BY <1>0, <2>1, <2>2 DEF Rooted
<1>3. Contiguous(M, n)
  <2> SUFFICES ASSUME NEW s \in 1..n, NEW u \in 1..n, s < u, M[s].branch = M[u].branch
               PROVE  M[M[u].parent].branch = M[u].branch /\ s <= M[u].parent
    BY DEF Contiguous
  <2>1. L[L[u].parent].branch = L[u].branch /\ s <= L[u].parent /\ L[u].parent \in 1..n
    <3>1. L[L[u].parent].branch = L[u].branch /\ s <= L[u].parent
      BY <1>0 DEF Contiguous
    <3> QED
      BY <1>1, <3>1
  <2> QED
    BY <2>1
<1> QED
  BY <1>2, <1>3 DEF Tree

(* Where the new row hangs.                                                 *)
LEMMA SaveLink ==
  ASSUME NEW m \in Memory, NEW s, NEW j, NEW parent
  PROVE  Save(m, s, j, parent).row.parent = parent /\ Save(m, s, j, parent).row.branch = j.branch
<1> PICK r : r = Save(m, s, j, parent).row
  OBVIOUS
<1>1. CASE FullNow(m, j, parent)
  <2>1. r = [parent |-> parent, branch |-> j.branch, delta |-> FALSE, base |-> None,
             index |-> 0, payload |-> j.payload, sum |-> j.payload]
    BY <1>1 DEF FullNow, Save
  <2>2. r.parent = parent /\ r.branch = j.branch
    BY <2>1
  <2> QED
    BY <2>2
<1>2. CASE ~FullNow(m, j, parent)
  <2>1. r = [parent |-> parent, branch |-> j.branch, delta |-> TRUE,
             base |-> IF parent # None THEN parent ELSE m.lastFull,
             index |-> IndexAfter(parent),
             payload |-> DeltaOf(The(ChainOf(m)).state, j.payload),
             sum |-> j.payload]
    BY <1>2, SaveDelta
  <2>2. r.parent = parent /\ r.branch = j.branch
    BY <2>1
  <2> QED
    BY <2>2
<1> QED
  BY <1>1, <1>2

(* The setting does not change.                                             *)
LEMMA SettingStays == [Next]_vars => setting' = setting
<1>1. ASSUME NEW p \in Process PROVE CreateRow(p) => setting' = setting
  BY Zenon DEF CreateRow, Creating
<1>2. ASSUME NEW p \in Process
      PROVE  CreateHead(p) \/ Restructure(p) \/ RewriteRow(p) => setting' = setting
  BY Zenon DEF CreateHead, Restructure, RewriteRow
<1>3. ASSUME NEW p \in Process
      PROVE  /\ Open(p) \/ FindNoFile(p) \/ CreateNew(p) \/ WriteSession(p) => setting' = setting
             /\ Stop(p) \/ RestoreDone(p) => setting' = setting
             /\ \A w \in Payload, b \in Branch, parent \in Id, full \in BOOLEAN :
                  Request(p, w, b, parent, full) => setting' = setting
             /\ \A s \in Snapshot : DeleteSnapshot(p, s) \/ Restore(p, s) => setting' = setting
  BY DEF Open, FindNoFile, CreateNew, WriteSession, Stop, RestoreDone, Request, DeleteSnapshot,
     Restore
<1> QED
  BY <1>1, <1>2, <1>3 DEF Next, vars

(* What a process alone keeps.                                              *)
Undisturbed(p) == DOMAIN rows = 1..created /\ Alone(p) /\ AtStage(p)

(* A process that is alone and moves on stays alone.                        *)
LEMMA AloneStep ==
  ASSUME TypeInv, NEW p \in Process, \A q \in Process \ {p} : pc[q] = "down",
         NEW at \in Stage, at # "down", pc' = [pc EXCEPT ![p] = at]
  PROVE  Alone(p)' /\ pc'[p] = at
BY TypeFacts DEF Alone

(* The first process finds an empty workspace, or no store.                 *)
LEMMA OpenTame ==
  ASSUME TypeInv, DOMAIN rows = 1..created, Untouched, NEW p \in Process,
         Open(p) \/ FindNoFile(p)
  PROVE  Undisturbed(p)'
<1>1. /\ UNCHANGED <<rows, created, heads, current>>
      /\ \E at \in {"idle", "new"} : pc' = [pc EXCEPT ![p] = at]
  BY DEF Open, FindNoFile
<1>2. Alone(p)' /\ pc'[p] \in {"idle", "new"}
  BY <1>1, AloneStep DEF Untouched, Stage
<1>3. AtRest' /\ created' = 0
  BY <1>1 DEF Untouched, AtRest, Links
<1> QED
  BY <1>1, <1>2, <1>3 DEF Undisturbed, AtStage

(* It makes the store, and the session is empty as it was.                  *)
LEMMA MakeTame ==
  ASSUME TypeInv, NEW p \in Process, Undisturbed(p), CreateNew(p) \/ WriteSession(p)
  PROVE  Undisturbed(p)'
<1>1. /\ UNCHANGED <<rows, created, current>> /\ heads' \in {heads, [b \in Branch |-> None]}
      /\ pc[p] \in {"new", "made"}
      /\ \E at \in {"made", "idle"} : pc' = [pc EXCEPT ![p] = at]
  BY DEF CreateNew, WriteSession
<1>2. Alone(p)' /\ pc'[p] \in {"made", "idle"}
  BY <1>1, AloneStep DEF Undisturbed, Alone, Stage
<1>3. AtRest /\ created = 0
  BY <1>1 DEF Undisturbed, AtStage
<1>4. AtRest' /\ created' = 0
  BY <1>1, <1>3, Constants DEF AtRest, Links
<1> QED
  BY <1>1, <1>2, <1>4 DEF Undisturbed, AtStage

(* Snapshots are asked for on main.                                         *)
LEMMA RequestTame ==
  ASSUME TypeInv, Tame, NEW p \in Process, Undisturbed(p),
         NEW w \in Payload, NEW b \in Branch, NEW parent \in Id, NEW full \in BOOLEAN,
         Request(p, w, b, parent, full)
  PROVE  Undisturbed(p)'
<1>1. /\ pc' = [pc EXCEPT ![p] = "create"] /\ pc[p] = "idle"
      /\ UNCHANGED <<rows, created, heads, current>>
      /\ b = current /\ parent = None
  BY DEF Request, Tame, May
<1>2. Alone(p)' /\ pc'[p] = "create"
  BY <1>1, AloneStep DEF Undisturbed, Alone, Stage
<1>3. AtRest
  BY <1>1 DEF Undisturbed, AtStage
<1>4. PICK j : j = [branch |-> b, parent |-> parent, full |-> full, payload |-> w,
                    from |-> None, id |-> None]
  OBVIOUS
<1>5. j \in Job /\ j.branch = b /\ j.parent = parent /\ j.from = None
  BY <1>4, Constants DEF Job
<1>6. job'[p] = {j}
  BY <1>4, TypeFacts DEF Request
<1>7. OnMain(j)'
  BY <1>1, <1>3, <1>5 DEF OnMain, AtRest
<1>8. heads'[Main] = created' /\ Tree(Links, created)'
  BY <1>1, <1>3 DEF AtRest, Links
<1> QED
  BY <1>1, <1>2, <1>5, <1>6, <1>7, <1>8 DEF Undisturbed, AtStage

(* A restore asks for a snapshot of its payload after the one restored.     *)
LEMMA RestoreTame ==
  ASSUME TypeInv, NEW p \in Process, Undisturbed(p), NEW s \in Snapshot, Restore(p, s)
  PROVE  Undisturbed(p)'
<1>1. /\ pc' = [pc EXCEPT ![p] = "create"] /\ pc[p] = "idle"
      /\ UNCHANGED <<rows, created, heads>>
  BY DEF Restore
<1>2. Alone(p)' /\ pc'[p] = "create"
  BY <1>1, AloneStep DEF Undisturbed, Alone, Stage
<1>3. AtRest
  BY <1>1 DEF Undisturbed, AtStage
<1>4. PICK j : j = [branch |-> Main, parent |-> s, full |-> FALSE,
                    payload |-> rows[s].sum, from |-> s, id |-> None]
  OBVIOUS
<1>5. j \in Job /\ j.branch = Main /\ j.parent = s /\ j.from = s /\ s # None
  BY <1>4, Constants, Restores DEF Job
<1>6. job'[p] = {j}
  BY <1>4, Restores, TypeFacts
<1>7. OnMain(j)'
  BY <1>5 DEF OnMain
<1>8. heads'[Main] = created' /\ Tree(Links, created)'
  BY <1>1, <1>3 DEF AtRest, Links
<1> QED
  BY <1>1, <1>2, <1>5, <1>6, <1>7, <1>8 DEF Undisturbed, AtStage

(* The new row hangs from the last on main, or from the one restored.       *)
LEMMA CreateRowTame ==
  ASSUME TypeInv, Tame, NEW p \in Process, Undisturbed(p), CreateRow(p)
  PROVE  Undisturbed(p)'
<1>1. PICK s : s = created + 1
  OBVIOUS
<1>2. PICK j : j = The(job[p])
  OBVIOUS
<1>3. PICK parent : parent = IF j.parent # None THEN j.parent ELSE heads[j.branch]
  OBVIOUS
<1>4. PICK m : m = memory[p]
  OBVIOUS
<1>5. /\ s \in Snapshot /\ s \notin DOMAIN rows /\ j \in Job /\ job[p] = {j}
      /\ parent \in Id /\ JobAt(j, "create", created)
      /\ m \in Memory /\ pc[p] = "create" /\ created' = s
      /\ \/ rows' = Inserted(s, Save(m, s, j, parent).row)
         \/ May("write_fails") /\ rows' = rows
      /\ pc' = [pc EXCEPT ![p] = "head"] /\ job' = [job EXCEPT ![p] = {[j EXCEPT !.id = s]}]
      /\ UNCHANGED current
  BY <1>1, <1>2, <1>3, <1>4, Writes
<1>6. /\ DOMAIN rows' = 1..created + 1
      /\ \A t \in 1..created : rows'[t] = rows[t]
      /\ rows'[s].parent = parent /\ rows'[s].branch = j.branch
  <2>1. rows' = Inserted(s, Save(m, s, j, parent).row)
    BY <1>5 DEF Tame, May
  <2>2. /\ DOMAIN rows' = DOMAIN rows \cup {s} /\ rows'[s] = Save(m, s, j, parent).row
        /\ \A t \in DOMAIN rows : t # s => rows'[t] = rows[t]
    BY <2>1 DEF Inserted
  <2>3. DOMAIN rows = 1..created /\ created \in Nat
    BY TypeFacts DEF Undisturbed
  <2>4. (1..created) \cup {s} = 1..created + 1 /\ \A t \in 1..created : t # s
    BY <1>1, <2>3
  <2> QED
    BY <1>5, <2>2, <2>3, <2>4, SaveLink
<1>7. heads[Main] = created /\ Tree(Links, created) /\ OnMain(j) /\ DOMAIN rows = 1..created
  <2>1. PICK k \in Job : job[p] = {k} /\ OnMain(k) /\ heads[Main] = created /\ Tree(Links, created)
    BY <1>5 DEF Undisturbed, AtStage
  <2>2. k = j
    BY <1>5, <2>1
  <2> QED
    BY <2>1, <2>2 DEF Undisturbed
<1>8. /\ DOMAIN Links' = 1..created + 1
      /\ \A t \in 1..created : Links'[t] = Links[t]
      /\ Links'[created + 1].branch = Main /\ Links'[created + 1].parent = parent
  <2>1. created + 1 \in DOMAIN rows'
    BY <1>5, <1>6, TypeFacts
  <2>2. \A t \in 1..created : t \in DOMAIN rows /\ t \in DOMAIN rows'
    BY <1>6, <1>7, TypeFacts
  <2>3. j.branch = Main
    BY <1>7 DEF OnMain
  <2>4. \A t \in 1..created : Links'[t] = [branch |-> rows[t].branch, parent |-> rows[t].parent]
    BY <1>6, <2>2 DEF Links
  <2>5. \A t \in 1..created : Links[t] = [branch |-> rows[t].branch, parent |-> rows[t].parent]
    BY <2>2 DEF Links
  <2> QED
    BY <1>1, <1>6, <2>1, <2>3, <2>4, <2>5 DEF Links
<1>9. PICK k : k = [j EXCEPT !.id = s]
  OBVIOUS
<1>10. k \in Job /\ k.branch = j.branch /\ k.parent = j.parent /\ k.from = j.from /\ k.id = s
  BY <1>5, <1>9, Constants DEF Job
<1>11. AtHead(k)'
  <2> PICK n : n = created
    OBVIOUS
  <2>0. n \in Nat /\ created' = n + 1
    BY <1>1, <1>5, TypeFacts
  <2>1. CASE j.from = None
    <3>1. parent = n
      BY <1>3, <1>7, <2>1 DEF OnMain
    <3>2. Tree(Links', n + 1)
      BY <1>7, <1>8, <2>0, <3>1, GrowTree
    <3> QED
      BY <1>1, <1>5, <1>10, <2>0, <2>1, <3>2 DEF AtHead
  <2>2. CASE j.from # None
    <3>1. parent = j.from /\ j.from \in 1..n
      <4>1. j.from \in Id /\ j.from <= n
        BY <1>5 DEF JobAt, Job
      <4>2. j.from \in 1..n
        BY <2>2, <4>1, <2>0, IdUpTo DEF None
      <4> QED
        BY <1>3, <1>7, <2>2, <4>2 DEF OnMain
    <3>2. Grown(Links', n + 1, j.from)
      BY <1>7, <1>8, <2>0, <3>1, GrowTree
    <3> QED
      BY <1>1, <1>5, <1>10, <2>0, <2>2, <3>2 DEF AtHead
  <2> QED
    BY <2>1, <2>2
<1>12. Alone(p)' /\ pc'[p] = "head"
  BY <1>5, AloneStep DEF Undisturbed, Alone, Stage
<1>13. OnMain(k)'
  BY <1>5, <1>7, <1>10 DEF OnMain
<1>14. job'[p] = {k}
  BY <1>5, <1>9, TypeFacts
<1>15. DOMAIN rows' = 1..created'
  BY <1>1, <1>5, <1>6
<1> QED
  BY <1>10, <1>11, <1>12, <1>13, <1>14, <1>15 DEF Undisturbed, AtStage

(* The head of main is the new snapshot.                                    *)
LEMMA CreateHeadTame ==
  ASSUME TypeInv, NEW p \in Process, Undisturbed(p), CreateHead(p)
  PROVE  Undisturbed(p)'
<1>1. PICK j : j = The(job[p])
  OBVIOUS
<1>2. /\ pc[p] = "head" /\ heads' = [heads EXCEPT ![j.branch] = j.id]
      /\ IF j.from = None
         THEN pc' = [pc EXCEPT ![p] = "idle"] /\ job' = [job EXCEPT ![p] = {}]
         ELSE pc' = [pc EXCEPT ![p] = "restructure"] /\ UNCHANGED job
      /\ UNCHANGED <<rows, created, current>>
  BY <1>1 DEF CreateHead
<1>3. /\ j \in Job /\ job[p] = {j} /\ OnMain(j) /\ AtHead(j)
  <2>1. job[p] = {j}
    BY <1>1, <1>2, JobFacts
  <2>2. PICK k \in Job : job[p] = {k} /\ OnMain(k) /\ AtHead(k)
    BY <1>2 DEF Undisturbed, AtStage
  <2>3. k = j
    BY <2>1, <2>2
  <2> QED
    BY <2>2, <2>3
<1>4. heads'[Main] = created
  BY <1>2, <1>3, Constants DEF TypeInv, TablesType, OnMain, AtHead
<1>5. Links' = Links /\ DOMAIN rows' = 1..created'
  BY <1>2 DEF Links, Undisturbed
<1>6. CASE j.from = None
  <2>1. Alone(p)' /\ pc'[p] = "idle"
    BY <1>2, <1>6, AloneStep DEF Undisturbed, Alone, Stage
  <2>2. AtRest'
    BY <1>2, <1>3, <1>4, <1>5, <1>6 DEF AtRest, AtHead, OnMain
  <2> QED
    BY <1>5, <2>1, <2>2 DEF Undisturbed, AtStage
<1>7. CASE j.from # None
  <2>1. Alone(p)' /\ pc'[p] = "restructure"
    BY <1>2, <1>7, AloneStep DEF Undisturbed, Alone, Stage
  <2>2. AtRestructure(j)' /\ OnMain(j)' /\ job'[p] = {j}
    BY <1>2, <1>3, <1>4, <1>5, <1>7 DEF AtRestructure, AtHead, OnMain
  <2> QED
    BY <1>3, <1>5, <2>1, <2>2 DEF Undisturbed, AtStage
<1> QED
  BY <1>6, <1>7

(* The changes planned make a tree.                                         *)
LEMMA RestructureTame ==
  ASSUME TypeInv, NEW p \in Process, Undisturbed(p), Restructure(p)
  PROVE  Undisturbed(p)'
<1>1. PICK j : j = The(job[p])
  OBVIOUS
<1>2. PICK R : R = Restructured(Links, j.from, j.id)
  OBVIOUS
<1>3. /\ pc[p] = "restructure" /\ job[p] = {j} /\ LinksType(Links)
      /\ DOMAIN Links = DOMAIN rows /\ DOMAIN R = DOMAIN rows
      /\ plan' = [plan EXCEPT ![p] = Changes(Links, R)]
      /\ pc' = [pc EXCEPT ![p] = "rewire"]
      /\ UNCHANGED <<rows, created, heads, current, job>>
  BY <1>1, <1>2, Restructures
<1>4. j \in Job /\ OnMain(j) /\ AtRestructure(j)
  <2>1. PICK k \in Job : job[p] = {k} /\ OnMain(k) /\ AtRestructure(k)
    BY <1>3 DEF Undisturbed, AtStage
  <2>2. k = j
    BY <1>3, <2>1
  <2> QED
    BY <2>1, <2>2
<1>5. /\ j.id = created /\ heads[Main] = created /\ Grown(Links, created, j.from)
      /\ created \in Nat /\ DOMAIN rows = 1..created
  BY <1>4, TypeFacts DEF AtRestructure, Undisturbed
<1>6. Tree(R, created) /\ \A s \in 1..created : R[s].parent = Links[s].parent
  BY <1>2, <1>3, <1>5, RestructuredTree
<1>7. \A s \in DOMAIN rows : Links[s].parent = rows[s].parent
  BY DEF Links
<1>8. rows[created].parent = j.from
  <2>1. created \in 1..created /\ Links[created].parent = j.from
    BY <1>5 DEF Grown
  <2> QED
    BY <1>5, <1>7, <2>1
<1>9. plan'[p] = Changes(Links, R) /\ Links' = Links
  BY <1>3, TypeFacts DEF Links
<1>10. Heading(p, R)'
  <2>1. \A s \in DOMAIN rows : R[s] # Links[s] =>
          \E c \in Changes(Links, R) : c.id = s
    <3> SUFFICES ASSUME NEW s \in DOMAIN rows, R[s] # Links[s]
                 PROVE  \E c \in Changes(Links, R) : c.id = s
      OBVIOUS
    <3>1. PICK c : c = [id |-> s, was |-> Links[s], link |-> R[s]]
      OBVIOUS
    <3>2. c \in Changes(Links, R) /\ c.id = s
      BY <1>3, <3>1 DEF Changes
    <3> QED
      BY <3>2
  <2>2. \A c \in Changes(Links, R) :
          c.id \in DOMAIN rows /\ c.was = Links[c.id] /\ c.link = R[c.id] /\ c.was # c.link
    BY <1>3 DEF Changes
  <2>3. \A s \in DOMAIN rows : R[s].parent = rows[s].parent
    BY <1>5, <1>6, <1>7
  <2> QED
    BY <1>3, <1>9, <2>1, <2>2, <2>3 DEF Heading
<1>11. AtRewire(p, j)'
  BY <1>3, <1>5, <1>6, <1>8, <1>10 DEF AtRewire
<1>12. Alone(p)' /\ pc'[p] = "rewire"
  BY <1>3, AloneStep DEF Undisturbed, Alone, Stage
<1>13. OnMain(j)' /\ job'[p] = {j} /\ DOMAIN rows' = 1..created'
  BY <1>3, <1>4, <1>5 DEF OnMain
<1> QED
  BY <1>4, <1>11, <1>12, <1>13 DEF Undisturbed, AtStage

(* A row that is written gets the link that it should have.                 *)
LEMMA Rewritten ==
  ASSUME NEW r \in Row, NEW c \in Change,
         c.was = [branch |-> r.branch, parent |-> r.parent], c.link.parent = r.parent,
         c.was # c.link
  PROVE  /\ Rewrite(r, c).branch = c.link.branch /\ Rewrite(r, c).parent = r.parent
         /\ Left(c) = {}
<1>1. c.was.parent = c.link.parent
  OBVIOUS
<1>2. c.link.branch # c.was.branch
  <2>1. \A k, l \in Link : k.branch = l.branch /\ k.parent = l.parent => k = l
    BY DEF Link
  <2>2. c.was \in Link /\ c.link \in Link
    BY DEF Change
  <2> QED
    BY <1>1, <2>1, <2>2
<1>3. Left(c) = {}
  BY <1>1, LeftType
<1> QED
  BY <1>2, <1>3, RewriteFields

(* Rewriting one row: the rows written and the rows planned are together    *)
(* still the tree that the restore has computed.                            *)
LEMMA RewriteRowTame ==
  ASSUME TypeInv, NEW p \in Process, Undisturbed(p), RewriteRow(p)
  PROVE  Undisturbed(p)'
<1>1. PICK c \in plan[p] :
           /\ c \in Change /\ pc[p] = "rewire"
           /\ plan' = [plan EXCEPT ![p] = (@ \ {c}) \cup Left(c)]
           /\ rows' = [s \in DOMAIN rows |-> IF s = c.id THEN Rewrite(rows[s], c) ELSE rows[s]]
           /\ UNCHANGED <<created, heads, current, pc, job>>
  BY Rewrites
<1>2. PICK j \in Job : job[p] = {j} /\ OnMain(j) /\ AtRewire(p, j)
  BY <1>1 DEF Undisturbed, AtStage
<1>3. PICK L : Heading(p, L) /\ Tree(L, created)
  BY <1>2 DEF AtRewire
<1>4. /\ c.id \in DOMAIN rows /\ c.was = Links[c.id] /\ c.link = L[c.id] /\ c.was # c.link
      /\ L[c.id].parent = rows[c.id].parent
      /\ Links[c.id] = [branch |-> rows[c.id].branch, parent |-> rows[c.id].parent]
      /\ rows[c.id] \in Row
  BY <1>1, <1>3 DEF Heading, Links, TypeInv, RowsType, RowOf
<1>5. Rewrite(rows[c.id], c).branch = c.link.branch
      /\ Rewrite(rows[c.id], c).parent = rows[c.id].parent /\ Left(c) = {}
  BY <1>1, <1>4, Rewritten
<1>6. /\ DOMAIN rows' = DOMAIN rows
      /\ \A s \in DOMAIN rows : rows'[s].parent = rows[s].parent
      /\ \A s \in DOMAIN rows : s # c.id => rows'[s] = rows[s]
      /\ rows'[c.id].branch = c.link.branch
  BY <1>1, <1>4, <1>5
<1>7. \A s \in DOMAIN rows : s # c.id => Links'[s] = Links[s]
  BY <1>6 DEF Links
<1>8. Links'[c.id] = L[c.id]
  <2>1. Links'[c.id] = [branch |-> L[c.id].branch, parent |-> L[c.id].parent]
    BY <1>4, <1>6 DEF Links
  <2>2. L[c.id] \in Link
    BY <1>1, <1>4 DEF Change
  <2>3. \A l \in Link : l = [branch |-> l.branch, parent |-> l.parent]
    BY DEF Link
  <2> QED
    BY <2>1, <2>2, <2>3
<1>9. plan'[p] = plan[p] \ {c} /\ plan[p] \subseteq Change
  BY <1>1, <1>5, TypeFacts
<1>10. Heading(p, L)'
  <2>1. ASSUME NEW s \in DOMAIN rows, L[s] # Links'[s]
        PROVE  \E d \in plan'[p] : d.id = s
    <3>1. s # c.id /\ L[s] # Links[s]
      BY <1>7, <1>8, <2>1
    <3>2. PICK d \in plan[p] : d.id = s
      BY <1>3, <3>1 DEF Heading
    <3> QED
      BY <1>9, <3>1, <3>2
  <2>2. ASSUME NEW d \in plan'[p]
        PROVE  /\ d.id \in DOMAIN rows
               /\ d.was = Links'[d.id] /\ d.link = L[d.id] /\ d.was # d.link
    <3>1. d \in plan[p] /\ d # c /\ d \in Change
      BY <1>9
    <3>2. d.id \in DOMAIN rows /\ d.was = Links[d.id] /\ d.link = L[d.id] /\ d.was # d.link
      BY <1>3, <3>1 DEF Heading
    <3>3. d.id # c.id
      <4>1. \A x, y \in Change : x.id = y.id /\ x.was = y.was /\ x.link = y.link => x = y
        BY DEF Change
      <4> QED
        BY <1>1, <1>4, <3>1, <3>2, <4>1
    <3> QED
      BY <1>7, <3>2, <3>3
  <2>3. DOMAIN L = DOMAIN rows /\ \A s \in DOMAIN rows : L[s].parent = rows[s].parent
    BY <1>3 DEF Heading
  <2> QED
    BY <1>6, <2>1, <2>2, <2>3 DEF Heading
<1>11. AtRewire(p, j)'
  <2>1. rows'[created].parent = j.from /\ j.id = created /\ heads[Main] = created
    <3>1. rows[created].parent = j.from /\ j.id = created /\ heads[Main] = created
      BY <1>2 DEF AtRewire
    <3>2. created \in DOMAIN rows
      <4>1. created # 0
        BY <1>4, TypeFacts DEF Undisturbed
      <4> QED
        BY <4>1, TypeFacts DEF Undisturbed
    <3> QED
      BY <1>6, <3>1, <3>2
  <2> QED
    BY <1>1, <1>3, <1>10, <2>1 DEF AtRewire
<1>12. Alone(p)' /\ OnMain(j)' /\ DOMAIN rows' = 1..created' /\ pc'[p] = "rewire"
       /\ job'[p] = {j}
  BY <1>1, <1>2, <1>6 DEF Undisturbed, Alone, OnMain
<1> QED
  BY <1>11, <1>12 DEF Undisturbed, AtStage

(* When nothing is left to write it is a tree.                              *)
LEMMA RestoreDoneTame ==
  ASSUME TypeInv, NEW p \in Process, Undisturbed(p), RestoreDone(p)
  PROVE  /\ Undisturbed(p)'
         /\ LET j == The(job[p])
            IN  created > 0 /\ j.id = created /\ heads[Main] = created
                /\ rows[created].parent = j.from /\ Tree(Links, created)
<1>1. /\ pc[p] = "rewire" /\ plan[p] = {} /\ current' = Main
      /\ pc' = [pc EXCEPT ![p] = "idle"]
      /\ UNCHANGED <<rows, created, heads>>
  BY DEF RestoreDone
<1>2. PICK j \in Job : job[p] = {j} /\ AtRewire(p, j)
  BY <1>1 DEF Undisturbed, AtStage
<1>3. PICK L : Heading(p, L) /\ Tree(L, created)
  BY <1>2 DEF AtRewire
<1>4. Tree(Links, created)
  <2>1. DOMAIN Links = 1..created /\ \A s \in 1..created : Links[s] = L[s]
    BY <1>1, <1>3 DEF Heading, Links, Undisturbed
  <2> QED
    BY <1>3, <2>1, TypeFacts, SameTree
<1>5. The(job[p]) = j
  BY <1>2, TheOne
<1>6. created > 0
  <2>1. JobAt(j, "rewire", created)
    BY <1>1, <1>5, JobFacts
  <2>2. j.from \in Nat /\ j.id \in Nat /\ j.from < j.id /\ j.id <= created
    BY <2>1, IdUpTo DEF JobAt, Job
  <2> QED
    BY <2>2, TypeFacts
<1>7. AtRest'
  BY <1>1, <1>2, <1>4 DEF AtRest, AtRewire, Links
<1>8. Alone(p)' /\ pc'[p] = "idle" /\ DOMAIN rows' = 1..created'
  BY <1>1, AloneStep DEF Undisturbed, Alone, Stage
<1> QED
  BY <1>2, <1>4, <1>5, <1>6, <1>7, <1>8 DEF Undisturbed, AtStage, AtRewire

(* So it is after every step.                                               *)
LEMMA TameStep == TypeInv /\ TameInv /\ [Next]_vars => TameInv'
<1> SUFFICES ASSUME TypeInv, TameInv, [Next]_vars, Tame' PROVE TameInv'
  BY DEF TameInv
<1>0. Tame
  BY SettingStays DEF Tame
<1>1. CASE UNCHANGED vars
  <2>1. DOMAIN rows' = 1..created' /\ Links' = Links
    BY <1>0, <1>1 DEF vars, TameInv, Links
  <2>2. Untouched => Untouched'
    BY <1>1, <2>1 DEF vars, Untouched, AtRest
  <2>3. ASSUME NEW p \in Process, Alone(p), AtStage(p) PROVE Alone(p)' /\ AtStage(p)'
    <3>1. Alone(p)'
      BY <1>1, <2>3 DEF vars, Alone
    <3>2. AtStage(p)'
      BY <1>1, <2>1, <2>3 DEF vars, AtStage, AtRest, OnMain, AtHead, AtRestructure, AtRewire, Heading
    <3> QED
      BY <3>1, <3>2
  <2> QED
    BY <1>0, <2>1, <2>2, <2>3 DEF TameInv
<1>2. ASSUME NEW p \in Process,
             \/ Open(p) \/ FindNoFile(p) \/ CreateNew(p) \/ WriteSession(p) \/ Stop(p)
             \/ \E w \in Payload, b \in Branch, parent \in Id, full \in BOOLEAN :
                  Request(p, w, b, parent, full)
             \/ CreateRow(p) \/ CreateHead(p)
             \/ \E s \in Snapshot : DeleteSnapshot(p, s) \/ Restore(p, s)
             \/ Restructure(p) \/ RewriteRow(p) \/ RestoreDone(p)
      PROVE  Undisturbed(p)'
  <2>0. DOMAIN rows = 1..created /\ (Untouched \/ \E q \in Process : Alone(q) /\ AtStage(q))
    BY <1>0 DEF TameInv
  <2>1. CASE pc[p] = "down"
    <3>1. Open(p) \/ FindNoFile(p)
      BY <1>2, <2>1 DEF CreateNew, WriteSession, Stop, Request, CreateRow, CreateHead, DeleteSnapshot, Restore,
                        Restructure, RewriteRow, RestoreDone
    <3>2. \A q \in Process : pc[q] = "down"
      BY <1>0, <3>1 DEF Open, FindNoFile, Tame, May
    <3>3. Untouched
      BY <2>0, <3>2 DEF Alone
    <3> QED
      BY <2>0, <3>1, <3>3, OpenTame
  <2>2. CASE pc[p] # "down"
    <3>1. Undisturbed(p)
      BY <2>0, <2>2 DEF Undisturbed, Untouched, Alone
    <3>2. /\ ~Open(p) /\ ~FindNoFile(p) /\ ~Stop(p)
          /\ \A s \in Snapshot : ~DeleteSnapshot(p, s)
      BY <1>0, <2>2 DEF Open, FindNoFile, Stop, DeleteSnapshot, Tame, May
    <3> QED
      BY <1>0, <1>2, <3>1, <3>2, MakeTame, RequestTame, CreateRowTame, CreateHeadTame, RestoreTame,
         RestructureTame, RewriteRowTame, RestoreDoneTame
  <2> QED
    BY <2>1, <2>2
<1>3. CASE Next
  BY <1>2, <1>3 DEF Next, Undisturbed, TameInv
<1> QED
  BY <1>1, <1>3

(* An empty store has an empty tree, and main rests at it.                  *)
LEMMA TameInit == Init => TameInv
<1> SUFFICES ASSUME Init PROVE TameInv
  OBVIOUS
<1>1. DOMAIN rows = 1..created /\ DOMAIN Links = 1..0 /\ created = 0
  BY DEF Init, Links
<1>2. Tree(Links, created)
  BY <1>1 DEF Tree, Rooted, Contiguous
<1>3. heads[Main] = created /\ current = Main
  BY Constants DEF Init
<1> QED
  BY <1>1, <1>2, <1>3 DEF Init, TameInv, Untouched, AtRest

(* A restore that nothing disturbs leaves main what its head comes from:    *)
(* the way from the first snapshot to the target and from there to the new  *)
(* one.                                                                     *)
THEOREM SpineTheorem == Spec => RestoredSpine
<1>1. Init => TypeInv /\ TameInv
  BY TypeInit, TameInit
<1>2. TypeInv /\ TameInv /\ [Next]_vars => TypeInv' /\ TameInv'
  BY TypeStep, TameStep
<1>3. TypeInv /\ TameInv =>
        \A p \in Process : RestoreDone(p) /\ setting \subseteq {"restore", "full", "twin", "new"} =>
          LET j == The(job[p])
          IN  /\ heads[Main] = j.id /\ rows[j.id].parent = j.from
              /\ On(Links, Main) = Ancestors(Links, j.id)
              /\ 1 \in On(Links, Main)
  <2> SUFFICES ASSUME TypeInv, TameInv, NEW p \in Process, RestoreDone(p), Tame,
                      NEW j, j = The(job[p])
               PROVE  /\ heads[Main] = j.id /\ rows[j.id].parent = j.from
                      /\ On(Links, Main) = Ancestors(Links, j.id)
                      /\ 1 \in On(Links, Main)
    BY DEF Tame
  <2>1. Undisturbed(p)
    BY DEF TameInv, Undisturbed, Untouched, Alone, RestoreDone
  <2>2. created > 0 /\ j.id = created /\ heads[Main] = created
        /\ rows[created].parent = j.from /\ Tree(Links, created)
    BY <2>1, RestoreDoneTame
  <2>3. On(Links, Main) = Ancestors(Links, created)
    BY <2>2, TypeFacts, MainIsAncestors
  <2>4. 1 \in On(Links, Main)
    BY <2>2, TypeFacts DEF Tree, Rooted, On
  <2> QED
    BY <2>2, <2>3, <2>4
<1> QED
  BY <1>1, <1>2, <1>3, PTL DEF Spec, RestoredSpine

-----------------------------------------------------------------------------
(* Chains of differences, and the chain of several processes.               *)

(* Without restores, nobody works on one.                                   *)
NoRestore == "restore" \notin setting => \A p \in Process : \A j \in job[p] : j.from = None

Sharing == setting \subseteq {"shared", "full", "twin", "new"}

(* What the snapshot after s comes after.                                   *)
After(s) == IF s \in emptied THEN None ELSE s

(* When several processes only create snapshots, the head of main is the    *)
(* latest one whenever the lock is free, unless the session has been        *)
(* emptied since.                                                           *)
LinearInv ==
  Sharing =>
    /\ current = Main /\ emptied \subseteq 0..created
    /\ IF lock = Nobody THEN heads[Main] = After(created) ELSE created \notin emptied
    /\ \A s \in DOMAIN rows : rows[s].parent = After(s - 1)
    /\ \A p \in Process : \A j \in job[p] : j.branch = Main /\ j.parent = None
    /\ \A p \in Process : pc[p] = "head" => lock = p /\ \A j \in job[p] : j.id = created

(* The position of a difference is below the limit, and after that of its   *)
(* base.                                                                    *)
Positions(R) ==
  \A s \in DOMAIN R :
    IF R[s].delta
    THEN /\ R[s].index \in 1..MaxDeltaChain - 1
         /\ R[s].base \in DOMAIN R => R[R[s].base].index < R[s].index
    ELSE R[s].index = 0

(* What a process remembers as its last full snapshot is one, if it is      *)
(* still there.                                                             *)
FullRemembered ==
  "restore" \notin setting =>
    \A p \in Process : memory[p].lastFull \in DOMAIN rows => rows[memory[p].lastFull].index = 0

BoundInv == ("restore" \notin setting \/ Tame => Positions(rows)) /\ FullRemembered

(* The number of differences below s, when f says it for the older ones.    *)
DepthFrom(R, f, s) == IF s \in DOMAIN R /\ R[s].delta THEN f[R[s].base] + 1 ELSE 0

DepthIn(R) == CHOOSE f : f = [s \in Id |-> DepthFrom(R, f, s)]

(* Depth, the length of the chain that loading a snapshot follows, as a     *)
(* function of a table of rows.                                             *)
LEMMA DepthIsDepthIn == Depth = DepthIn(rows)
BY DEF Depth, DepthIn, DepthFrom

(* The recursion of Depth comes to an end, for every snapshot.              *)
LEMMA DepthInEquation ==
  ASSUME NEW R, BasesOlder(R)
  PROVE  DepthIn(R) = [s \in Id |-> DepthFrom(R, DepthIn(R), s)]
<1> DEFINE Is(f, k) == f = [s \in 0..k |-> DepthFrom(R, f, s)]
           S == {k \in Nat : \E f : Is(f, k)}
<1>1. 0 \in S
  <2>1. PICK f : f = [s \in 0..0 |-> DepthFrom(R, [t \in {} |-> t], s)]
    OBVIOUS
  <2>2. \A s \in 0..0 : DepthFrom(R, f, s) = DepthFrom(R, [t \in {} |-> t], s)
    <3> SUFFICES ASSUME 0 \in DOMAIN R PROVE ~R[0].delta
      BY DEF DepthFrom
    <3> QED
      BY DEF BasesOlder, Id, Snapshot, None
  <2>3. Is(f, 0)
    BY <2>1, <2>2
  <2> QED
    BY <2>3
<1>2. ASSUME NEW k \in Nat, k \in S PROVE k + 1 \in S
  <2>1. PICK f : Is(f, k)
    BY <1>2
  <2> DEFINE g == [s \in 0..k + 1 |-> IF s = k + 1 THEN DepthFrom(R, f, s) ELSE f[s]]
  <2>2. \A s \in 0..k : g[s] = f[s] /\ f[s] = DepthFrom(R, f, s)
    BY <2>1
  <2>3. \A s \in 0..k + 1 : DepthFrom(R, g, s) = DepthFrom(R, f, s)
    <3> SUFFICES ASSUME NEW s \in 0..k + 1, s \in DOMAIN R, R[s].delta
                 PROVE  g[R[s].base] = f[R[s].base]
      BY DEF DepthFrom
    <3>1. R[s].base \in 0..k
      BY IdUpTo DEF BasesOlder
    <3> QED
      BY <2>2, <3>1
  <2>4. g[k + 1] = DepthFrom(R, f, k + 1) /\ DOMAIN g = 0..k + 1
    OBVIOUS
  <2>5. \A s \in 0..k + 1 : g[s] = DepthFrom(R, g, s)
    <3> SUFFICES ASSUME NEW s \in 0..k + 1 PROVE g[s] = DepthFrom(R, f, s)
      BY <2>3
    <3>1. s = k + 1 \/ s \in 0..k
      OBVIOUS
    <3> QED
      BY <2>2, <2>4, <3>1
  <2>6. Is(g, k + 1)
    BY <2>4, <2>5
  <2> HIDE DEF g
  <2> QED
    BY <2>6
<1> HIDE DEF S
<1>3. Nat \subseteq S
  BY <1>1, <1>2, NatSetInduction
<1>4. \E f : f = [s \in Id |-> DepthFrom(R, f, s)]
  BY <1>3, IdUpTo DEF S
<1> QED
  BY <1>4 DEF DepthIn

(* A snapshot is no deeper than its position.                               *)
LEMMA DepthBound ==
  ASSUME TypeInv, Positions(rows)
  PROVE  \A s \in DOMAIN rows : Depth[s] < MaxDeltaChain
<1>1. /\ BasesOlder(rows) /\ DOMAIN rows \subseteq Snapshot /\ DOMAIN rows \subseteq Nat
      /\ \A s \in DOMAIN rows : rows[s].index \in Nat
  BY TypeFacts, Constants DEF TypeInv, RowsType, RowOf, Row
<1> DEFINE At(s) == IF s \in DOMAIN rows THEN rows[s].index ELSE 0
           S == {k \in Nat : \A s \in Id : s <= k => Depth[s] \in Nat /\ Depth[s] <= At(s)}
<1>2. \A s \in Id : Depth[s] = IF s \in DOMAIN rows /\ rows[s].delta
                                THEN Depth[rows[s].base] + 1 ELSE 0
  <2>1. DepthIn(rows) = [s \in Id |-> DepthFrom(rows, DepthIn(rows), s)]
    BY <1>1, DepthInEquation
  <2>2. Depth = [s \in Id |-> DepthFrom(rows, Depth, s)]
    BY <2>1, DepthIsDepthIn
  <2>3. \A s \in Id : Depth[s] = DepthFrom(rows, Depth, s)
    BY <2>2
  <2> QED
    BY <2>3 DEF DepthFrom
<1>3. ASSUME NEW s \in Id,
             s \in DOMAIN rows /\ rows[s].delta =>
               Depth[rows[s].base] \in Nat /\ Depth[rows[s].base] <= At(rows[s].base)
      PROVE  Depth[s] \in Nat /\ Depth[s] <= At(s)
  <2>1. CASE s \in DOMAIN rows /\ rows[s].delta
    <3>1. Depth[s] = Depth[rows[s].base] + 1 /\ At(s) = rows[s].index
      BY <1>2, <2>1
    <3>2. rows[s].index \in Nat /\ rows[s].index >= 1 /\ At(rows[s].base) < rows[s].index
          /\ At(rows[s].base) \in Nat
      BY <1>1, <2>1 DEF Positions
    <3> HIDE DEF At
    <3> QED
      BY <1>3, <2>1, <3>1, <3>2
  <2>2. CASE ~(s \in DOMAIN rows /\ rows[s].delta)
    BY <1>1, <1>2, <2>2
  <2> QED
    BY <2>1, <2>2
<1> HIDE DEF At
<1>4. 0 \in S
  <2>1. \A s \in Id : s <= 0 => s = 0 /\ s \notin DOMAIN rows
    BY <1>1, IdUpTo, Constants
  <2> QED
    BY <1>3, <2>1
<1>5. ASSUME NEW k \in Nat, k \in S PROVE k + 1 \in S
  <2> SUFFICES ASSUME NEW s \in Id, s <= k + 1
               PROVE  Depth[s] \in Nat /\ Depth[s] <= At(s)
    OBVIOUS
  <2>1. s \in DOMAIN rows /\ rows[s].delta => rows[s].base \in Id /\ rows[s].base <= k
    BY <1>1, IdUpTo DEF BasesOlder
  <2> QED
    BY <1>3, <1>5, <2>1
<1>6. \A s \in DOMAIN rows : Depth[s] \in Nat /\ Depth[s] <= rows[s].index
  <2> HIDE DEF S
  <2>1. Nat \subseteq S
    BY <1>4, <1>5, NatSetInduction
  <2> QED
    BY <1>1, <2>1, Constants DEF S, At
<1> TAKE s \in DOMAIN rows
<1>7. rows[s].index < MaxDeltaChain /\ rows[s].index \in Nat /\ MaxDeltaChain \in Nat
  BY <1>1, SnapshotStoreAssumption DEF Positions
<1> QED
  BY <1>6, <1>7

(* The steps keep these.                                                    *)
LEMMA NoRestoreStep == TypeInv /\ NoRestore /\ [Next]_vars => NoRestore'
<1> SUFFICES ASSUME TypeInv, NoRestore, [Next]_vars, "restore" \notin setting'
             PROVE  \A p \in Process : \A j \in job'[p] : j.from = None
  BY DEF NoRestore
<1>0. "restore" \notin setting /\ \A p \in Process : \A j \in job[p] : j.from = None
  BY SettingStays DEF NoRestore
<1>1. CASE UNCHANGED vars
  BY <1>0, <1>1 DEF vars
<1>2. ASSUME NEW p \in Process,
             \/ Open(p) \/ FindNoFile(p) \/ CreateNew(p) \/ WriteSession(p)
             \/ Restructure(p) \/ RewriteRow(p) \/ \E s \in Snapshot : DeleteSnapshot(p, s)
      PROVE  job' = job
  BY <1>2 DEF Open, FindNoFile, CreateNew, WriteSession, Restructure, RewriteRow, DeleteSnapshot
<1>3. ASSUME NEW p \in Process, Stop(p) \/ RestoreDone(p) \/ CreateHead(p)
      PROVE  \A q \in Process : job'[q] \subseteq job[q]
  BY <1>3, TypeFacts DEF Stop, RestoreDone, CreateHead
<1>4. ASSUME NEW p \in Process, NEW w \in Payload, NEW b \in Branch, NEW parent \in Id,
             NEW full \in BOOLEAN, Request(p, w, b, parent, full)
      PROVE  \A q \in Process : \A j \in job'[q] : j.from = None
  <2>1. PICK j : j = [branch |-> b, parent |-> parent, full |-> full, payload |-> w,
                      from |-> None, id |-> None]
    OBVIOUS
  <2>2. j.from = None /\ job' = [job EXCEPT ![p] = {j}]
    BY <1>4, <2>1 DEF Request
  <2> QED
    BY <1>0, <2>2, TypeFacts
<1>5. ASSUME NEW p \in Process, CreateRow(p)
      PROVE  \A q \in Process : \A j \in job'[q] : j.from = None
  <2>1. PICK j : j = The(job[p])
    OBVIOUS
  <2>2. PICK s : s = created + 1
    OBVIOUS
  <2>3. j \in Job /\ job[p] = {j} /\ s \in Snapshot /\ job' = [job EXCEPT ![p] = {[j EXCEPT !.id = s]}]
    BY <1>5, <2>1, <2>2, Writes
  <2>4. PICK k : k = [j EXCEPT !.id = s]
    OBVIOUS
  <2>5. k.from = j.from /\ job' = [job EXCEPT ![p] = {k}]
    BY <2>3, <2>4 DEF Job
  <2> QED
    BY <1>0, <2>3, <2>5, TypeFacts
<1>6. ASSUME NEW p \in Process, NEW s \in Snapshot PROVE ~Restore(p, s)
  BY <1>0 DEF Restore, May
<1> QED
  BY <1>0, <1>1, <1>2, <1>3, <1>4, <1>5, <1>6 DEF Next

(* Without restores nothing is restructured.                                *)
LEMMA NoRewrite ==
  ASSUME TypeInv, NoRestore, "restore" \notin setting, NEW p \in Process
  PROVE  pc[p] \notin {"restructure", "rewire"}
<1> SUFFICES ASSUME pc[p] \in {"restructure", "rewire"} PROVE FALSE
  OBVIOUS
<1>1. PICK j \in Job : job[p] = {j} /\ j.from # None
  BY DEF TypeInv, JobsType, JobAt
<1> QED
  BY <1>1 DEF NoRestore

(* Several processes make one chain.                                        *)
LEMMA LinearStep == TypeInv /\ NoRestore /\ LinearInv /\ [Next]_vars => LinearInv'
<1> SUFFICES ASSUME TypeInv, NoRestore, LinearInv, [Next]_vars, Sharing' PROVE LinearInv'
  BY DEF LinearInv
<1>0. Sharing
  BY SettingStays DEF Sharing
<1>1. /\ current = Main /\ emptied \subseteq 0..created /\ created \in Nat
      /\ IF lock = Nobody THEN heads[Main] = After(created) ELSE created \notin emptied
      /\ \A s \in DOMAIN rows : rows[s].parent = After(s - 1)
      /\ \A p \in Process : \A j \in job[p] : j.branch = Main /\ j.parent = None
      /\ \A p \in Process : pc[p] = "head" => lock = p /\ \A j \in job[p] : j.id = created
  BY <1>0, TypeFacts DEF LinearInv
<1>2. CASE UNCHANGED vars
  BY <1>0, <1>1, <1>2 DEF vars, LinearInv, After
<1>3. ASSUME NEW p \in Process, Open(p) \/ FindNoFile(p) \/ CreateNew(p) PROVE LinearInv'
  <2>1. /\ \E at \in Jobless : pc' = [pc EXCEPT ![p] = at]
        /\ UNCHANGED <<rows, created, heads, current, lock, job, emptied>>
    BY <1>3 DEF Open, FindNoFile, CreateNew
  <2>2. \A q \in Process : pc'[q] = "head" => pc[q] = "head"
    BY <2>1, TypeFacts
  <2> QED
    BY <1>1, <2>1, <2>2 DEF LinearInv, After
<1>10. ASSUME NEW p \in Process, WriteSession(p) PROVE LinearInv'
  <2>1. /\ pc' = [pc EXCEPT ![p] = "idle"] /\ heads' = [b \in Branch |-> None]
        /\ emptied' = IF lock = Nobody THEN emptied \cup {created} ELSE emptied
        /\ UNCHANGED <<rows, created, current, lock, job>>
    BY <1>10 DEF WriteSession
  <2>2. \A q \in Process : pc'[q] = "head" => pc[q] = "head"
    BY <2>1, TypeFacts
  <2>3. IF lock' = Nobody THEN heads'[Main] = After(created)' ELSE created' \notin emptied'
    BY <1>1, <2>1, Constants DEF After
  <2>4. \A s \in DOMAIN rows' : rows'[s].parent = After(s - 1)'
    <3>1. \A s \in DOMAIN rows : s - 1 # created /\ s - 1 \in Nat
      BY <1>1 DEF TypeInv, RowsType
    <3> QED
      BY <1>1, <2>1, <3>1 DEF After
  <2>5. emptied' \subseteq 0..created'
    BY <1>1, <2>1
  <2> QED
    BY <1>1, <2>1, <2>2, <2>3, <2>4, <2>5 DEF LinearInv
<1>4. ASSUME NEW p \in Process, NEW w \in Payload, NEW b \in Branch, NEW parent \in Id,
             NEW full \in BOOLEAN, Request(p, w, b, parent, full)
      PROVE  LinearInv'
  <2>1. PICK j : j = [branch |-> b, parent |-> parent, full |-> full, payload |-> w,
                      from |-> None, id |-> None]
    OBVIOUS
  <2>2. /\ pc' = [pc EXCEPT ![p] = "create"] /\ job' = [job EXCEPT ![p] = {j}]
        /\ j.branch = Main /\ j.parent = None
        /\ UNCHANGED <<rows, created, heads, current, lock, emptied>>
    BY <1>0, <1>1, <1>4, <2>1 DEF Request, Sharing, May
  <2>3. \A q \in Process : pc'[q] = "head" => pc[q] = "head" /\ job'[q] = job[q]
    BY <2>2, TypeFacts
  <2>4. \A q \in Process : \A k \in job'[q] : k.branch = Main /\ k.parent = None
    BY <1>1, <2>2, TypeFacts
  <2> QED
    BY <1>1, <2>2, <2>3, <2>4 DEF LinearInv, After
<1>5. ASSUME NEW p \in Process, CreateRow(p) PROVE LinearInv'
  <2>1. PICK s : s = created + 1
    OBVIOUS
  <2>2. PICK j : j = The(job[p])
    OBVIOUS
  <2>3. PICK parent : parent = IF j.parent # None THEN j.parent ELSE heads[j.branch]
    OBVIOUS
  <2>4. PICK m : m = memory[p]
    OBVIOUS
  <2>5. /\ s \in Snapshot /\ s \notin DOMAIN rows /\ j \in Job /\ job[p] = {j}
        /\ m \in Memory /\ lock = Nobody /\ lock' = p /\ created' = s
        /\ \/ rows' = Inserted(s, Save(m, s, j, parent).row)
           \/ May("write_fails") /\ rows' = rows
        /\ pc' = [pc EXCEPT ![p] = "head"] /\ job' = [job EXCEPT ![p] = {[j EXCEPT !.id = s]}]
        /\ UNCHANGED <<heads, current>>
    BY <1>5, <2>1, <2>2, <2>3, <2>4, Writes
  <2>13. emptied' = emptied
    BY <1>5, Zenon DEF CreateRow, Creating
  <2>6. parent = After(created)
    BY <1>1, <2>3, <2>5
  <2>7. PICK k : k = [j EXCEPT !.id = s]
    OBVIOUS
  <2>8. k.branch = Main /\ k.parent = None /\ k.id = s /\ job' = [job EXCEPT ![p] = {k}]
    BY <1>1, <2>5, <2>7 DEF Job
  <2>9. \A t \in DOMAIN rows' : rows'[t].parent = After(t - 1)
    <3>1. rows' = Inserted(s, Save(m, s, j, parent).row)
      BY <1>0, <2>5 DEF Sharing, May
    <3>2. /\ DOMAIN rows' = DOMAIN rows \cup {s} /\ rows'[s] = Save(m, s, j, parent).row
          /\ \A t \in DOMAIN rows : t # s => rows'[t] = rows[t]
      BY <3>1 DEF Inserted
    <3>3. rows'[s].parent = After(s - 1)
      <4>1. s - 1 = created
        BY <1>1, <2>1
      <4> QED
        BY <2>5, <2>6, <3>2, <4>1, SaveLink
    <3> QED
      BY <1>1, <2>5, <3>2, <3>3
  <2>10. \A q \in Process : pc'[q] = "head" => q = p
    BY <1>1, <2>5, Constants, TypeFacts
  <2>11. \A q \in Process : \A i \in job'[q] : i.branch = Main /\ i.parent = None
    BY <1>1, <2>8, TypeFacts
  <2>12. job'[p] = {k} /\ lock' # Nobody
    BY <2>5, <2>8, TypeFacts, Constants
  <2>14. emptied' \subseteq 0..created' /\ created' \notin emptied'
    BY <1>1, <2>1, <2>5, <2>13
  <2>15. \A t \in DOMAIN rows' : rows'[t].parent = After(t - 1)'
    BY <2>9, <2>13 DEF After
  <2> QED
    BY <1>1, <2>5, <2>8, <2>10, <2>11, <2>12, <2>14, <2>15 DEF LinearInv
<1>6. ASSUME NEW p \in Process, CreateHead(p) PROVE LinearInv'
  <2>1. PICK j : j = The(job[p])
    OBVIOUS
  <2>2. /\ pc[p] = "head" /\ heads' = [heads EXCEPT ![j.branch] = j.id] /\ lock' = Nobody
        /\ IF j.from = None
           THEN pc' = [pc EXCEPT ![p] = "idle"] /\ job' = [job EXCEPT ![p] = {}]
           ELSE pc' = [pc EXCEPT ![p] = "restructure"] /\ UNCHANGED job
        /\ UNCHANGED <<rows, created, current, emptied>>
    BY <1>6, <2>1 DEF CreateHead
  <2>3. job[p] = {j}
    BY <2>1, <2>2, JobFacts
  <2>4. heads'[Main] = created /\ created \notin emptied
    BY <1>1, <2>2, <2>3, Constants DEF TypeInv, TablesType, JobsType
  <2>5. \A q \in Process : pc'[q] # "head"
    BY <1>1, <2>2, TypeFacts
  <2>6. \A q \in Process : \A i \in job'[q] : i.branch = Main /\ i.parent = None
    BY <1>1, <2>2, TypeFacts
  <2> QED
    BY <1>1, <2>2, <2>4, <2>5, <2>6 DEF LinearInv, After
<1>7. ASSUME NEW p \in Process, NEW s \in Snapshot
      PROVE  ~Stop(p) /\ ~DeleteSnapshot(p, s) /\ ~Restore(p, s)
  BY <1>0 DEF Stop, DeleteSnapshot, Restore, Sharing, May
<1>8. ASSUME NEW p \in Process PROVE ~Stop(p)
  BY <1>0 DEF Stop, Sharing, May
<1>9. ASSUME NEW p \in Process PROVE ~Restructure(p) /\ ~RewriteRow(p) /\ ~RestoreDone(p)
  <2>1. pc[p] \notin {"restructure", "rewire"}
    BY <1>0, NoRewrite DEF Sharing
  <2> QED
    BY <2>1 DEF Restructure, RewriteRow, RestoreDone
<1> QED
  BY <1>2, <1>3, <1>4, <1>5, <1>6, <1>7, <1>8, <1>9, <1>10 DEF Next

(* A new row is a full payload, or comes after its base.                    *)
LEMMA PositionsGrow ==
  ASSUME TypeInv, Positions(rows), NEW m \in Memory, m.lastFull <= created,
         NEW j, NEW parent \in Id, parent <= created,
         NEW s \in Snapshot, s = created + 1,
         parent = None /\ m.lastFull \in DOMAIN rows => rows[m.lastFull].index = 0
  PROVE  Positions(Inserted(s, Save(m, s, j, parent).row))
<1> PICK r : r = Save(m, s, j, parent).row
  OBVIOUS
<1> PICK R : R = Inserted(s, r)
  OBVIOUS
<1>1. /\ DOMAIN R = DOMAIN rows \cup {s} /\ R[s] = r
      /\ \A t \in DOMAIN rows : R[t] = rows[t] /\ t # s /\ t < s
      /\ DOMAIN rows \subseteq Nat /\ s \in Nat
  BY TypeFacts, Constants DEF Inserted, TypeInv, RowsType
<1>2. \A t \in DOMAIN rows : rows[t].delta => rows[t].base # s
  BY <1>1, TypeFacts, IdUpTo DEF BasesOlder
<1>3. /\ MaxDeltaChain \in Nat /\ MaxDeltaChain > 1
      /\ \A t \in DOMAIN rows : rows[t].index \in Nat
  BY SnapshotStoreAssumption DEF TypeInv, RowsType, RowOf, Row
<1>4. IF r.delta
      THEN /\ r.index \in 1..MaxDeltaChain - 1
           /\ r.base # s /\ (r.base \in DOMAIN rows => rows[r.base].index < r.index)
      ELSE r.index = 0
  <2>1. CASE FullNow(m, j, parent)
    <3>1. r = [parent |-> parent, branch |-> j.branch, delta |-> FALSE, base |-> None,
               index |-> 0, payload |-> j.payload, sum |-> j.payload]
      BY <2>1 DEF FullNow, Save
    <3>2. ~r.delta /\ r.index = 0
      BY <3>1
    <3> QED
      BY <3>2
  <2>2. CASE ~FullNow(m, j, parent)
    <3>1. r = [parent |-> parent, branch |-> j.branch, delta |-> TRUE,
               base |-> IF parent # None THEN parent ELSE m.lastFull,
               index |-> IndexAfter(parent),
               payload |-> DeltaOf(The(ChainOf(m)).state, j.payload),
               sum |-> j.payload]
      BY <2>2, SaveDelta
    <3>2. /\ r.delta /\ r.index = IndexAfter(parent)
          /\ r.base = IF parent # None THEN parent ELSE m.lastFull
      BY <3>1
    <3>3. parent \in DOMAIN rows => IndexAfter(parent) < MaxDeltaChain
      <4>1. parent \in DOMAIN rows => ~(IndexAfter(parent) >= MaxDeltaChain)
        BY <2>2 DEF FullNow, ForcedFull
      <4>2. IndexAfter(parent) \in Nat
        BY <1>3 DEF IndexAfter
      <4> QED
        BY <1>3, <4>1, <4>2
    <3>4. IndexAfter(parent) = IF parent \in DOMAIN rows THEN rows[parent].index + 1 ELSE 1
      BY DEF IndexAfter
    <3>5. r.base # s
      BY <1>1, <3>2, TypeFacts, IdUpTo DEF Memory
    <3>6. parent = None => parent \notin DOMAIN rows
      BY TypeFacts, Constants
    <3> QED
      BY <1>3, <3>2, <3>3, <3>4, <3>5, <3>6
  <2> QED
    BY <2>1, <2>2
<1>5. Positions(R)
  BY <1>1, <1>2, <1>4 DEF Positions
<1> QED
  BY <1>5

(* The last full snapshot after saving s.                                   *)
LEMMA SaveLastFull ==
  ASSUME NEW m \in Memory, NEW s, NEW j, NEW parent
  PROVE  Save(m, s, j, parent).memory.lastFull = IF FullNow(m, j, parent) THEN s ELSE m.lastFull
<1>1. CASE FullNow(m, j, parent)
  <2>1. Save(m, s, j, parent).memory = [lastFull |-> s, count |-> 0, chain |-> {}]
    BY <1>1 DEF FullNow, Save
  <2> QED
    BY <1>1, <2>1
<1>2. CASE ~FullNow(m, j, parent)
  <2>1. PICK r : r = Save(m, s, j, parent).row
    OBVIOUS
  <2>2. PICK n : n = Save(m, s, j, parent).memory
    OBVIOUS
  <2>3. /\ r = [parent |-> parent, branch |-> j.branch, delta |-> TRUE,
                base |-> IF parent # None THEN parent ELSE m.lastFull,
                index |-> IndexAfter(parent),
                payload |-> DeltaOf(The(ChainOf(m)).state, j.payload),
                sum |-> j.payload]
        /\ n = [lastFull |-> m.lastFull, count |-> m.count + 1,
                chain |-> {[state |-> j.payload, length |-> The(ChainOf(m)).length + 1]}]
    BY <1>2, <2>1, <2>2, SaveDelta
  <2>4. n.lastFull = m.lastFull
    BY <2>3
  <2> QED
    BY <1>2, <2>2, <2>4
<1> QED
  BY <1>1, <1>2

(* What a process remembers is a full payload after a creation as well.     *)
LEMMA FullRememberedGrow ==
  ASSUME TypeInv, FullRemembered, NEW p \in Process, CreateRow(p), "restore" \notin setting
  PROVE  FullRemembered'
<1>1. PICK s : s = created + 1
  OBVIOUS
<1>2. PICK j : j = The(job[p])
  OBVIOUS
<1>3. PICK parent : parent = IF j.parent # None THEN j.parent ELSE heads[j.branch]
  OBVIOUS
<1>4. PICK m : m = memory[p]
  OBVIOUS
<1>5. /\ s \in Snapshot /\ s \notin DOMAIN rows
      /\ m \in Memory /\ m.lastFull <= created
      /\ memory' = [memory EXCEPT ![p] = Save(m, s, j, parent).memory]
      /\ \/ rows' = Inserted(s, Save(m, s, j, parent).row)
         \/ May("write_fails") /\ rows' = rows
  BY <1>1, <1>2, <1>3, <1>4, Writes
<1>6. \A q \in Process : /\ memory[q].lastFull # s
                         /\ memory[q].lastFull \in DOMAIN rows => rows[memory[q].lastFull].index = 0
  <2> TAKE q \in Process
  <2>1. memory[q].lastFull \in Nat /\ memory[q].lastFull <= created
    BY IdUpTo DEF TypeInv, MemoryType, Memory
  <2> QED
    BY <1>1, <2>1, TypeFacts DEF FullRemembered
<1>7. \A t \in DOMAIN rows' : t \in DOMAIN rows \/ t = s
  BY <1>5 DEF Inserted
<1>8. \A t \in DOMAIN rows : rows'[t] = rows[t]
  BY <1>5 DEF Inserted
<1>9. PICK n : n = Save(m, s, j, parent).memory
  OBVIOUS
<1>10. n.lastFull \in DOMAIN rows' => rows'[n.lastFull].index = 0
  <2>1. CASE FullNow(m, j, parent)
    <3>2. n.lastFull = s
      BY <1>5, <1>9, <2>1, SaveLastFull
    <3>3. PICK r : r = Save(m, s, j, parent).row
      OBVIOUS
    <3>4. r.index = 0
      <4>1. r = [parent |-> parent, branch |-> j.branch, delta |-> FALSE, base |-> None,
                 index |-> 0, payload |-> j.payload, sum |-> j.payload]
        BY <2>1, <3>3 DEF FullNow, Save
      <4> QED
        BY <4>1
    <3>5. s \in DOMAIN rows' => rows'[s] = r
      BY <1>5, <3>3 DEF Inserted
    <3> QED
      BY <3>2, <3>4, <3>5
  <2>2. CASE ~FullNow(m, j, parent)
    <3>2. n.lastFull = memory[p].lastFull
      BY <1>4, <1>5, <1>9, <2>2, SaveLastFull
    <3> QED
      BY <1>6, <1>7, <1>8, <3>2
  <2> QED
    BY <2>1, <2>2
<1>11. \A q \in Process : memory'[q] = IF q = p THEN n ELSE memory[q]
  BY <1>5, <1>9 DEF TypeInv, MemoryType
<1> QED
  BY <1>6, <1>7, <1>8, <1>10, <1>11 DEF FullRemembered

(* What an undisturbed restore writes leaves the differences alone.         *)
LEMMA BasesStay ==
  ASSUME TypeInv, NEW p \in Process, Undisturbed(p), RewriteRow(p)
  PROVE  /\ DOMAIN rows' = DOMAIN rows
         /\ \A t \in DOMAIN rows : /\ rows'[t].base = rows[t].base
                                   /\ rows'[t].delta = rows[t].delta
                                   /\ rows'[t].index = rows[t].index
                                   /\ rows'[t].payload = rows[t].payload
<1>1. PICK c \in plan[p] :
         /\ c \in Change /\ pc[p] = "rewire"
         /\ rows' = [s \in DOMAIN rows |-> IF s = c.id THEN Rewrite(rows[s], c) ELSE rows[s]]
  BY Rewrites
<1>2. PICK L : Heading(p, L)
  BY <1>1 DEF Undisturbed, AtStage, AtRewire
<1>3. c.id \in DOMAIN rows /\ c.link.branch # c.was.branch
  <2>1. c.id \in DOMAIN rows /\ c.was = Links[c.id] /\ c.link = L[c.id] /\ c.was # c.link
        /\ L[c.id].parent = rows[c.id].parent
    BY <1>2 DEF Heading
  <2>2. Links[c.id].parent = rows[c.id].parent
    BY <2>1 DEF Links
  <2>3. \A k, l \in Link : k.branch = l.branch /\ k.parent = l.parent => k = l
    BY DEF Link
  <2>4. c.was \in Link /\ c.link \in Link
    BY <1>1 DEF Change
  <2> QED
    BY <2>1, <2>2, <2>3, <2>4
<1>4. \A t \in DOMAIN rows : rows[t] \in Row
  BY DEF TypeInv, RowsType, RowOf
<1>5. /\ Rewrite(rows[c.id], c).base = rows[c.id].base
      /\ Rewrite(rows[c.id], c).delta = rows[c.id].delta
      /\ Rewrite(rows[c.id], c).index = rows[c.id].index
      /\ Rewrite(rows[c.id], c).payload = rows[c.id].payload
  BY <1>1, <1>3, <1>4, RewriteFields
<1> QED
  BY <1>1, <1>5

(* So the positions stay bounded by every step.                             *)
LEMMA BoundStep == TypeInv /\ NoRestore /\ TameInv /\ BoundInv /\ [Next]_vars => BoundInv'
<1> SUFFICES ASSUME TypeInv, NoRestore, TameInv, BoundInv, [Next]_vars PROVE BoundInv'
  OBVIOUS
<1>0. setting' = setting
  BY SettingStays
<1> DEFINE Case == "restore" \notin setting \/ Tame
<1>1. (Case => Positions(rows)) /\ FullRemembered
  BY DEF BoundInv
<1>2. SUFFICES (Case => Positions(rows')) /\ FullRemembered'
  BY <1>0 DEF BoundInv, Tame
<1>3. CASE rows' = rows /\ memory' = memory
  BY <1>0, <1>1, <1>3 DEF FullRemembered
<1>4. ASSUME NEW p \in Process, Open(p) \/ CreateNew(p)
      PROVE  (Case => Positions(rows')) /\ FullRemembered'
  <2>1. rows' = rows /\ memory' = [memory EXCEPT ![p] = Recovered]
    BY <1>4 DEF Open, CreateNew
  <2>2. Recovered.lastFull \in DOMAIN rows => rows[Recovered.lastFull].index = 0
    BY RecoveredType, TypeFacts, Constants
  <2>3. FullRemembered'
    BY <1>0, <1>1, <2>1, <2>2 DEF FullRemembered, TypeInv, MemoryType
  <2> QED
    BY <1>1, <2>1, <2>3
<1>5. ASSUME NEW p \in Process, Stop(p) PROVE (Case => Positions(rows')) /\ FullRemembered'
  <2>1. rows' = rows /\ memory' = [memory EXCEPT ![p] = Fresh]
    BY <1>5 DEF Stop
  <2>2. Fresh.lastFull \notin DOMAIN rows
    BY TypeFacts, Constants DEF Fresh
  <2>3. FullRemembered'
    BY <1>0, <1>1, <2>1, <2>2 DEF FullRemembered, TypeInv, MemoryType
  <2> QED
    BY <1>1, <2>1, <2>3
<1>6. ASSUME NEW p \in Process, NEW s \in Snapshot, Restore(p, s)
      PROVE (Case => Positions(rows')) /\ FullRemembered'
  <2>1. rows' = rows /\ "restore" \in setting
    BY <1>6 DEF Restore, May
  <2> QED
    BY <1>0, <1>1, <2>1 DEF FullRemembered
<1>7. ASSUME NEW p \in Process, CreateRow(p) PROVE (Case => Positions(rows')) /\ FullRemembered'
  <2>1. PICK s : s = created + 1
    OBVIOUS
  <2>2. PICK j : j = The(job[p])
    OBVIOUS
  <2>3. PICK parent : parent = IF j.parent # None THEN j.parent ELSE heads[j.branch]
    OBVIOUS
  <2>4. PICK m : m = memory[p]
    OBVIOUS
  <2>5. /\ s \in Snapshot /\ job[p] = {j} /\ parent \in Id /\ parent <= created
        /\ m \in Memory /\ m.lastFull <= created /\ pc[p] = "create"
        /\ \/ rows' = Inserted(s, Save(m, s, j, parent).row)
           \/ May("write_fails") /\ rows' = rows
    BY <1>7, <2>1, <2>2, <2>3, <2>4, Writes
  <2>6. ASSUME Case, parent = None, m.lastFull \in DOMAIN rows PROVE rows[m.lastFull].index = 0
    <3>1. CASE "restore" \notin setting
      BY <1>1, <2>4, <2>6, <3>1 DEF FullRemembered
    <3>2. CASE Tame
      <4>1. AtStage(p)
        BY <2>5, <3>2 DEF TameInv, Untouched, Alone
      <4>2. OnMain(j) /\ heads[Main] = created
        <5>1. PICK k \in Job : job[p] = {k} /\ OnMain(k) /\ heads[Main] = created
          BY <2>5, <4>1 DEF AtStage
        <5>2. k = j
          BY <2>5, <5>1
        <5> QED
          BY <5>1, <5>2
      <4>3. created = 0
        BY <2>3, <2>6, <4>2 DEF OnMain, None
      <4>4. DOMAIN rows = {}
        BY <4>3 DEF TypeInv, RowsType
      <4> QED
        BY <2>6, <4>4
    <3> QED
      BY <2>6, <3>1, <3>2
  <2>7. Case => Positions(Inserted(s, Save(m, s, j, parent).row))
    BY <1>1, <2>1, <2>5, <2>6, PositionsGrow
  <2>8. Case => Positions(rows')
    BY <1>1, <2>5, <2>7
  <2>9. FullRemembered'
    <3>1. CASE "restore" \in setting
      BY <1>0, <3>1 DEF FullRemembered
    <3>2. CASE "restore" \notin setting
      BY <1>1, <1>7, <3>2, FullRememberedGrow
    <3> QED
      BY <3>1, <3>2
  <2> QED
    BY <2>8, <2>9
<1>8. ASSUME NEW p \in Process, NEW s \in Snapshot, DeleteSnapshot(p, s)
      PROVE (Case => Positions(rows')) /\ FullRemembered'
  <2>1. rows' = [t \in DOMAIN rows \ {s} |-> rows[t]] /\ memory' = memory
    BY <1>8 DEF DeleteSnapshot
  <2>2. DOMAIN rows' \subseteq DOMAIN rows /\ \A t \in DOMAIN rows' : rows'[t] = rows[t]
    BY <2>1
  <2>3. Case => Positions(rows')
    BY <1>1, <2>2 DEF Positions
  <2> QED
    BY <1>0, <1>1, <2>1, <2>2, <2>3 DEF FullRemembered
<1>9. ASSUME NEW p \in Process, RewriteRow(p)
      PROVE (Case => Positions(rows')) /\ FullRemembered'
  <2>1. PICK c \in plan[p] :
           /\ c \in Change /\ pc[p] = "rewire"
           /\ rows' = [s \in DOMAIN rows |-> IF s = c.id THEN Rewrite(rows[s], c) ELSE rows[s]]
           /\ UNCHANGED memory
    BY <1>9, Rewrites
  <2>2. "restore" \in setting
    BY <2>1, NoRewrite
  <2>3. ASSUME Tame PROVE Positions(rows')
    <3>1. Undisturbed(p)
      BY <2>1, <2>3 DEF TameInv, Untouched, Alone, Undisturbed
    <3>2. /\ DOMAIN rows' = DOMAIN rows
          /\ \A t \in DOMAIN rows : /\ rows'[t].base = rows[t].base
                                    /\ rows'[t].delta = rows[t].delta
                                    /\ rows'[t].index = rows[t].index
      BY <1>9, <3>1, BasesStay
    <3> QED
      BY <1>1, <2>3, <3>2 DEF Positions
  <2> QED
    BY <1>0, <2>2, <2>3 DEF FullRemembered
<1>10. CASE UNCHANGED vars
  BY <1>3, <1>10 DEF vars
<1>11. ASSUME NEW p \in Process,
              \/ \E w \in Payload, b \in Branch, parent \in Id, full \in BOOLEAN :
                   Request(p, w, b, parent, full)
              \/ CreateHead(p) \/ Restructure(p) \/ RestoreDone(p)
              \/ FindNoFile(p) \/ WriteSession(p)
       PROVE  rows' = rows /\ memory' = memory
  <2>1. CreateHead(p) \/ Restructure(p) => rows' = rows /\ memory' = memory
    BY Zenon DEF CreateHead, Restructure
  <2> QED
    BY <1>11, <2>1 DEF Request, RestoreDone, FindNoFile, WriteSession
<1> HIDE DEF Case
<1> QED
  BY <1>3, <1>4, <1>5, <1>6, <1>7, <1>8, <1>9, <1>10, <1>11 DEF Next

(* Processes that create snapshots at the same time make one chain, which   *)
(* begins again only after a session has been emptied by a process that     *)
(* found no file; and no snapshot is rebuilt from a chain longer than the   *)
(* limit.                                                                   *)
THEOREM ChainsTheorem == Spec => []Chains
<1> DEFINE Inv == TypeInv /\ TameInv /\ NoRestore /\ LinearInv /\ BoundInv
<1>1. Init => Inv
  <2>1. Init => NoRestore /\ LinearInv /\ BoundInv
    <3> SUFFICES ASSUME Init PROVE NoRestore /\ LinearInv /\ BoundInv
      OBVIOUS
    <3>1. heads[Main] = created /\ current = Main /\ DOMAIN rows = {} /\ emptied = {}
          /\ \A p \in Process : job[p] = {} /\ pc[p] # "head"
      BY Constants DEF Init
    <3> QED
      BY <3>1 DEF NoRestore, LinearInv, BoundInv, Positions, FullRemembered, After
  <2> QED
    BY <2>1, TypeInit, TameInit
<1>2. Inv /\ [Next]_vars => Inv'
  BY TypeStep, TameStep, NoRestoreStep, LinearStep, BoundStep
<1>3. Inv => Chains
  <2> SUFFICES ASSUME Inv PROVE Chains
    OBVIOUS
  <2>1. LinearChain
    BY DEF LinearInv, Sharing, LinearChain, After
  <2>2. \A s \in DOMAIN rows : rows[s].delta => rows[s].base < s
    BY TypeFacts DEF BasesOlder
  <2>3. "restore" \notin setting \/ Tame => \A s \in DOMAIN rows : Depth[s] < MaxDeltaChain
    BY DepthBound DEF BoundInv
  <2> QED
    BY <2>1, <2>2, <2>3 DEF Chains, ChainBounded, Tame
<1> HIDE DEF Inv
<1> QED
  BY <1>1, <1>2, <1>3, PTL DEF Spec

-----------------------------------------------------------------------------
(* Nothing is lost when one process lets main grow and restores.            *)

Plain(w) == \A f \in Field : w[f] \notin Twin

(* A difference has its base, and makes of the payload of the base that of  *)
(* the snapshot.                                                            *)
Follows(R, S) ==
  \A s \in DOMAIN R : R[s].delta =>
    R[s].base \in DOMAIN R /\ Apply(S[R[s].base], R[s].payload) = S[s]

(* The snapshot that the next one is a difference from.                     *)
Tip(p) ==
  IF pc[p] = "create" /\ The(job[p]).from # None THEN The(job[p]).from ELSE created

(* The chain in memory is at t, or begins there.                            *)
ChainAt(m, t) ==
  /\ m.chain # {} => t \in DOMAIN rows /\ \A c \in m.chain : c.state = saved[t]
  /\ m.chain = {} /\ m.lastFull \in DOMAIN rows => m.lastFull = t

PlainInv ==
  /\ \A s \in 1..created : Plain(saved[s])
  /\ \A p \in Process : \A j \in job[p] : Plain(j.payload)

LosslessInv ==
  Lossless =>
    /\ PlainInv /\ Follows(rows, saved)
    /\ \A p \in Process : pc[p] \notin {"down", "new"} => ChainAt(memory[p], Tip(p))

(* Applying a difference gives the payload it was made for, when no values  *)
(* are mistaken for each other; so does a difference from nothing known.    *)
LEMMA ApplyDelta ==
  ASSUME NEW old \in Payload, NEW new \in Payload, Plain(old), Plain(new),
         NEW state \in {old, Foreign}
  PROVE  Apply(old, DeltaOf(state, new)) = new
<1>1. old \in [Field -> Value] /\ new \in [Field -> Value]
  BY SnapshotStoreAssumption
<1>2. DOMAIN DeltaOf(state, new) =
        {g \in Field : g \in DOMAIN state => ~PythonEqual(state[g], new[g])}
  BY DEF DeltaOf
<1>3. \A f \in DOMAIN DeltaOf(state, new) : DeltaOf(state, new)[f] = new[f]
  BY DEF DeltaOf
<1>4. \A f \in Field : f \notin DOMAIN DeltaOf(state, new) => old[f] = new[f]
  <2> SUFFICES ASSUME NEW f \in Field, f \notin DOMAIN DeltaOf(state, new)
               PROVE  old[f] = new[f]
    OBVIOUS
  <2>1. f \in DOMAIN state /\ PythonEqual(state[f], new[f])
    BY <1>2
  <2>2. DOMAIN Foreign = {}
    BY DEF Foreign
  <2>3. state = old
    BY <2>1, <2>2
  <2>4. old[f] \notin Twin /\ new[f] \notin Twin
    BY DEF Plain
  <2> QED
    BY <2>1, <2>3, <2>4 DEF PythonEqual
<1>5. \A f \in Field : (IF f \in DOMAIN DeltaOf(state, new) THEN DeltaOf(state, new)[f]
                        ELSE old[f]) = new[f]
  BY <1>3, <1>4
<1>6. Apply(old, DeltaOf(state, new)) = [f \in Field |-> new[f]]
  BY <1>1, <1>5 DEF Apply
<1> QED
  BY <1>1, <1>6

(* Tables whose rows load as what they were created from, or not at all.    *)
Sound(R, S) ==
  /\ BasesOlder(R) /\ DOMAIN R \subseteq Snapshot
  /\ \A s \in DOMAIN R : /\ R[s].sum = S[s] /\ R[s].sum \in Payload
                         /\ ~R[s].delta => R[s].payload = R[s].sum

(* Such are the tables, before and after a step.                            *)
LEMMA SoundTables ==
  /\ TypeInv => Sound(rows, saved)
  /\ TypeInv' => Sound(rows', saved')
<1>1. ASSUME NEW R, NEW S, NEW n, n \in 0..MaxSnapshots, DOMAIN R \subseteq 1..n,
             \A s \in DOMAIN R : RowOf(R[s], s, S[s])
      PROVE  Sound(R, S)
  <2>1. DOMAIN R \subseteq Snapshot
    BY <1>1, Constants
  <2> QED
    BY <1>1, <2>1 DEF Sound, BasesOlder, RowOf, Row
<1> QED
  BY <1>1 DEF TypeInv, TablesType, RowsType

(* When the differences follow from their bases, every snapshot loads.      *)
LEMMA FollowsLoads ==
  ASSUME NEW R, NEW S, Sound(R, S), Follows(R, S)
  PROVE  \A s \in DOMAIN R : LoadedIn(R)[s] = {S[s]}
<1>1. /\ BasesOlder(R) /\ DOMAIN R \subseteq Nat /\ DOMAIN R \subseteq Id
      /\ \A s \in DOMAIN R : /\ R[s].sum = S[s] /\ s > 0
                             /\ ~R[s].delta => R[s].payload = R[s].sum
  BY Constants DEF Sound
<1> DEFINE T == {k \in Nat : \A s \in DOMAIN R : s <= k => LoadedIn(R)[s] = {S[s]}}
<1>2. ASSUME NEW s \in DOMAIN R, R[s].delta => LoadedIn(R)[R[s].base] = {S[R[s].base]}
      PROVE  LoadedIn(R)[s] = {S[s]}
  <2>1. CASE R[s].delta
    <3>1. LoadedIn(R)[s] =
            {w \in {Apply(b, R[s].payload) : b \in {S[R[s].base]}} : w = S[s]}
      BY <1>1, <1>2, <2>1, LoadedDelta
    <3>2. Apply(S[R[s].base], R[s].payload) = S[s]
      BY <2>1 DEF Follows
    <3> QED
      BY <3>1, <3>2
  <2>2. CASE ~R[s].delta
    <3>1. LoadedIn(R)[s] = {R[s].payload}
      BY <1>1, <2>2, LoadedFull
    <3> QED
      BY <1>1, <2>2, <3>1
  <2> QED
    BY <2>1, <2>2
<1>3. 0 \in T
  BY <1>1
<1>4. ASSUME NEW k \in Nat, k \in T PROVE k + 1 \in T
  <2> SUFFICES ASSUME NEW s \in DOMAIN R, s <= k + 1 PROVE LoadedIn(R)[s] = {S[s]}
    OBVIOUS
  <2>1. R[s].delta => R[s].base \in DOMAIN R /\ R[s].base < s
    BY <1>1 DEF Follows, BasesOlder
  <2>2. R[s].delta => R[s].base <= k
    BY <1>1, <2>1
  <2> QED
    BY <1>2, <1>4, <2>1, <2>2
<1> HIDE DEF T
<1>5. Nat \subseteq T
  BY <1>3, <1>4, NatSetInduction
<1> QED
  BY <1>1, <1>5 DEF T

(* The new row follows from the tip of the chain.                           *)
LEMMA FollowsGrow ==
  ASSUME TypeInv, PlainInv, Follows(rows, saved), DOMAIN rows = 1..created,
         NEW m \in Memory, NEW j \in Job, NEW t \in Id, t <= created, ChainAt(m, t),
         Plain(j.payload), NEW s \in Snapshot, s = created + 1,
         NEW S, S = [u \in 1..s |-> IF u = s THEN j.payload ELSE saved[u]],
         NEW R, R = Inserted(s, Save(m, s, j, t).row)
  PROVE  Follows(R, S)
<1> PICK r : r = Save(m, s, j, t).row
  OBVIOUS
<1>1. /\ DOMAIN R = DOMAIN rows \cup {s} /\ R[s] = r
      /\ \A u \in DOMAIN rows : R[u] = rows[u] /\ u # s /\ u \in 1..s
      /\ created \in Nat
  BY TypeFacts DEF Inserted
<1>2. S[s] = j.payload /\ \A u \in DOMAIN rows : S[u] = saved[u]
  BY <1>1
<1>3. ASSUME r.delta PROVE r.base \in DOMAIN rows /\ Apply(saved[r.base], r.payload) = j.payload
  <2>1. ~FullNow(m, j, t)
    <3> SUFFICES ASSUME FullNow(m, j, t) PROVE FALSE
      OBVIOUS
    <3>1. r = [parent |-> t, branch |-> j.branch, delta |-> FALSE, base |-> None,
               index |-> 0, payload |-> j.payload, sum |-> j.payload]
      BY DEF FullNow, Save
    <3> QED
      BY <1>3, <3>1
  <2>2. /\ r.base = IF t # None THEN t ELSE m.lastFull
        /\ r.payload = DeltaOf(The(ChainOf(m)).state, j.payload)
    <3>1. r = [parent |-> t, branch |-> j.branch, delta |-> TRUE,
               base |-> IF t # None THEN t ELSE m.lastFull,
               index |-> IndexAfter(t),
               payload |-> DeltaOf(The(ChainOf(m)).state, j.payload),
               sum |-> j.payload]
      BY <2>1, SaveDelta
    <3> QED
      BY <3>1
  <2>3. ChainOf(m) # {}
    BY <2>1 DEF FullNow
  <2>4. t \in DOMAIN rows /\ The(ChainOf(m)).state \in {saved[t], Foreign}
    <3>1. CASE m.chain # {}
      <4>1. ChainOf(m) = m.chain /\ The(m.chain) \in m.chain
        BY <3>1 DEF ChainOf, The
      <4> QED
        BY <3>1, <4>1 DEF ChainAt
    <3>2. CASE m.chain = {}
      <4>1. m.lastFull \in DOMAIN rows /\ m.lastFull = t
        BY <2>3, <3>2 DEF ChainOf, ChainAt
      <4>2. PICK state : state = IF rows[t].delta THEN Foreign ELSE rows[t].payload
        OBVIOUS
      <4>3. ChainOf(m) = {[state |-> state, length |-> 0]}
        BY <3>2, <4>1, <4>2 DEF ChainOf
      <4>4. The(ChainOf(m)) = [state |-> state, length |-> 0]
        BY <4>3, TheOne
      <4>5. ~rows[t].delta => rows[t].payload = saved[t]
        BY <4>1, TypeFacts
      <4>6. The(ChainOf(m)).state = state
        BY <4>4
      <4> QED
        BY <4>1, <4>2, <4>5, <4>6
    <3> QED
      BY <3>1, <3>2
  <2>5. saved[t] \in Payload /\ Plain(saved[t]) /\ j.payload \in Payload /\ t # None
    BY <2>4, TypeFacts, Constants DEF PlainInv, TypeInv, TablesType, Job
  <2> QED
    BY <2>2, <2>4, <2>5, ApplyDelta
<1>4. r.delta => r.base \in DOMAIN R /\ Apply(S[r.base], r.payload) = S[s]
  BY <1>1, <1>2, <1>3
<1>5. \A u \in DOMAIN rows : rows[u].delta =>
         rows[u].base \in DOMAIN R /\ Apply(S[rows[u].base], rows[u].payload) = S[u]
  BY <1>1, <1>2 DEF Follows
<1> QED
  BY <1>1, <1>4, <1>5 DEF Follows

(* The steps keep payloads plain, where they are asked for so.              *)
LEMMA PlainStep ==
  ASSUME TypeInv, PlainInv, "twin" \notin setting, [Next]_vars
  PROVE  PlainInv'
<1>1. CASE UNCHANGED vars
  BY <1>1 DEF vars, PlainInv
<1>2. ASSUME NEW p \in Process,
             \/ Open(p) \/ FindNoFile(p) \/ CreateNew(p) \/ WriteSession(p)
             \/ Restructure(p) \/ RewriteRow(p) \/ \E s \in Snapshot : DeleteSnapshot(p, s)
      PROVE  PlainInv'
  <2>1. job' = job /\ saved' = saved /\ created' = created
    BY <1>2 DEF Open, FindNoFile, CreateNew, WriteSession, Restructure, RewriteRow, DeleteSnapshot
  <2> QED
    BY <2>1 DEF PlainInv
<1>3. ASSUME NEW p \in Process, Stop(p) \/ RestoreDone(p) \/ CreateHead(p)
      PROVE  PlainInv'
  <2>1. saved' = saved /\ created' = created /\ \A q \in Process : job'[q] \subseteq job[q]
    BY <1>3, TypeFacts DEF Stop, RestoreDone, CreateHead
  <2> QED
    BY <2>1 DEF PlainInv
<1>4. ASSUME NEW p \in Process, NEW w \in Payload, NEW b \in Branch, NEW parent \in Id,
             NEW full \in BOOLEAN, Request(p, w, b, parent, full)
      PROVE  PlainInv'
  <2>1. PICK j : j = [branch |-> b, parent |-> parent, full |-> full, payload |-> w,
                      from |-> None, id |-> None]
    OBVIOUS
  <2>2. j.payload = w /\ Plain(w) /\ job' = [job EXCEPT ![p] = {j}]
        /\ UNCHANGED <<saved, created>>
    BY <1>4, <2>1 DEF Request, May, Plain
  <2> QED
    BY <2>2, TypeFacts DEF PlainInv
<1>5. ASSUME NEW p \in Process, NEW s \in Snapshot, Restore(p, s)
      PROVE  PlainInv'
  <2>1. PICK j : j = [branch |-> Main, parent |-> s, full |-> FALSE,
                      payload |-> rows[s].sum, from |-> s, id |-> None]
    OBVIOUS
  <2>2. j.payload = saved[s] /\ s \in 1..created /\ job' = [job EXCEPT ![p] = {j}]
        /\ UNCHANGED <<saved, created>>
    BY <1>5, <2>1, Restores DEF Restore, TypeInv, RowsType
  <2> QED
    BY <2>2, TypeFacts DEF PlainInv
<1>6. ASSUME NEW p \in Process, CreateRow(p)
      PROVE  PlainInv'
  <2>1. PICK s : s = created + 1
    OBVIOUS
  <2>2. PICK j : j = The(job[p])
    OBVIOUS
  <2>3. /\ j \in Job /\ job[p] = {j} /\ created' = s /\ s \in Snapshot
        /\ saved' = [t \in 1..s |-> IF t = s THEN j.payload ELSE saved[t]]
        /\ job' = [job EXCEPT ![p] = {[j EXCEPT !.id = s]}]
    BY <1>6, <2>1, <2>2, Writes
  <2>4. PICK k : k = [j EXCEPT !.id = s]
    OBVIOUS
  <2>5. k.payload = j.payload /\ job' = [job EXCEPT ![p] = {k}] /\ Plain(j.payload)
    BY <2>3, <2>4 DEF Job, PlainInv
  <2>6. \A t \in 1..s : t = s \/ t \in 1..created
    BY <2>1, TypeFacts
  <2> QED
    BY <2>3, <2>5, <2>6, TypeFacts DEF PlainInv
<1> QED
  BY <1>1, <1>2, <1>3, <1>4, <1>5, <1>6 DEF Next

(* The chain in memory after saving a difference.                           *)
LEMMA SaveChain ==
  ASSUME NEW m \in Memory, NEW s, NEW j, NEW parent, ~FullNow(m, j, parent)
  PROVE  Save(m, s, j, parent).memory.chain =
           {[state |-> j.payload, length |-> The(ChainOf(m)).length + 1]}
<1>1. PICK r : r = Save(m, s, j, parent).row
  OBVIOUS
<1>2. PICK n : n = Save(m, s, j, parent).memory
  OBVIOUS
<1>3. /\ r = [parent |-> parent, branch |-> j.branch, delta |-> TRUE,
              base |-> IF parent # None THEN parent ELSE m.lastFull,
              index |-> IndexAfter(parent),
              payload |-> DeltaOf(The(ChainOf(m)).state, j.payload),
              sum |-> j.payload]
      /\ n = [lastFull |-> m.lastFull, count |-> m.count + 1,
              chain |-> {[state |-> j.payload, length |-> The(ChainOf(m)).length + 1]}]
  BY <1>1, <1>2, SaveDelta
<1>4. n.chain = {[state |-> j.payload, length |-> The(ChainOf(m)).length + 1]}
  BY <1>3
<1> QED
  BY <1>2, <1>4

(* The tip and the parent of the next snapshot are the same.                *)
LEMMA TipIsParent ==
  ASSUME TypeInv, NEW p \in Process, Undisturbed(p), pc[p] = "create",
         NEW j, j = The(job[p])
  PROVE  /\ Tip(p) = IF j.parent # None THEN j.parent ELSE heads[j.branch]
         /\ Tip(p) \in Id /\ Tip(p) <= created
<1>1. PICK k \in Job : job[p] = {k} /\ OnMain(k) /\ heads[Main] = created
  BY DEF Undisturbed, AtStage
<1>2. j = k /\ JobAt(j, "create", created)
  BY <1>1, TheOne, JobFacts
<1>3. Tip(p) = IF j.parent # None THEN j.parent ELSE heads[j.branch]
  BY <1>1, <1>2 DEF Tip, OnMain
<1>4. j.from \in Id /\ j.from <= created /\ created \in Id /\ created <= created
  BY <1>1, <1>2, TypeFacts, IdUpTo DEF JobAt, Job
<1> QED
  BY <1>2, <1>3, <1>4 DEF Tip

(* So nothing is lost.                                                      *)
LEMMA LosslessStep == TypeInv /\ TameInv /\ LosslessInv /\ [Next]_vars => LosslessInv'
<1> SUFFICES ASSUME TypeInv, TameInv, LosslessInv, [Next]_vars, Lossless'
             PROVE  /\ PlainInv' /\ Follows(rows', saved')
                    /\ \A p \in Process : pc'[p] \notin {"down", "new"} => ChainAt(memory[p], Tip(p))'
  BY DEF LosslessInv
<1>0. Lossless /\ Tame
  BY SettingStays DEF Lossless, Tame
<1>1. /\ PlainInv /\ Follows(rows, saved) /\ DOMAIN rows = 1..created
      /\ \A p \in Process : pc[p] \notin {"down", "new"} => ChainAt(memory[p], Tip(p))
  BY <1>0 DEF LosslessInv, TameInv
<1>2. PlainInv'
  BY <1>0, <1>1, PlainStep DEF Lossless
<1>3. CASE UNCHANGED vars
  BY <1>1, <1>2, <1>3 DEF vars, ChainAt, Tip
<1>4. ASSUME NEW p \in Process, pc[p] # "down"
      PROVE  /\ Undisturbed(p) /\ (pc[p] # "new" => ChainAt(memory[p], Tip(p)))
             /\ \A s \in Snapshot : ~Stop(p) /\ ~DeleteSnapshot(p, s)
             /\ ~Stop(p)
             /\ \A q \in Process \ {p} : pc[q] = "down"
  BY <1>0, <1>1, <1>4 DEF TameInv, Undisturbed, Untouched, Alone, Stop, DeleteSnapshot,
                          Lossless, May
<1> DEFINE Kept == /\ Follows(rows', saved')
                   /\ \A p \in Process : pc'[p] \notin {"down", "new"} => ChainAt(memory[p], Tip(p))'
<1>5. ASSUME NEW p \in Process, Open(p) \/ FindNoFile(p) \/ CreateNew(p) PROVE Kept
  <2>1. /\ (pc[p] = "down" /\ \A q \in Process : pc[q] = "down") \/ pc[p] = "new"
        /\ \/ pc' = [pc EXCEPT ![p] = "new"]
           \/ /\ \E at \in {"idle", "made"} : pc' = [pc EXCEPT ![p] = at]
              /\ memory' = [memory EXCEPT ![p] = Recovered]
        /\ UNCHANGED <<rows, saved, created>>
    BY <1>0, <1>5 DEF Open, FindNoFile, CreateNew, Lossless, May
  <2>2. created = 0 /\ \A q \in Process \ {p} : pc[q] = "down"
    <3>1. CASE \A q \in Process : pc[q] = "down"
      BY <1>0, <3>1 DEF TameInv, Untouched, Alone
    <3>2. CASE pc[p] = "new"
      BY <1>4, <3>2 DEF Undisturbed, AtStage
    <3> QED
      BY <2>1, <3>1, <3>2
  <2>3. DOMAIN rows = {}
    BY <1>1, <2>2
  <2>4. Recovered.chain = {}
    BY RecoveredType
  <2>5. \A q \in Process : pc'[q] # "down" => q = p
    BY <2>1, <2>2, TypeFacts
  <2>6. DOMAIN rows' = {} /\ (pc'[p] = "new" \/ memory'[p].chain = {})
    BY <2>1, <2>3, <2>4, TypeFacts DEF TypeInv, MemoryType
  <2> QED
    BY <1>1, <2>1, <2>5, <2>6 DEF ChainAt
<1>6. ASSUME NEW p \in Process, pc[p] \notin {"down", "new"}, NEW at, pc' = [pc EXCEPT ![p] = at],
             at # "create" \/ \E j : job'[p] = {j} /\ j.from = None,
             pc[p] = "create" => at = "create",
             pc[p] = "create" => job'[p] = job[p],
             UNCHANGED <<saved, created, memory>>, DOMAIN rows' = DOMAIN rows
      PROVE  \A q \in Process : pc'[q] \notin {"down", "new"} => ChainAt(memory[q], Tip(q))'
  <2> SUFFICES ASSUME NEW q \in Process, pc'[q] \notin {"down", "new"}
               PROVE  ChainAt(memory[q], Tip(q))'
    OBVIOUS
  <2>1. q = p
    BY <1>4, <1>6, TypeFacts
  <2>2. Tip(p)' = created /\ Tip(p) = created
    <3>1. pc'[p] = at
      BY <1>6, TypeFacts
    <3>2. \A j : The({j}) = j
      BY TheOne
    <3> QED
      BY <1>6, <3>1, <3>2 DEF Tip
  <2> QED
    BY <1>4, <1>6, <2>1, <2>2 DEF ChainAt
<1>7. ASSUME NEW p \in Process, NEW w \in Payload, NEW b \in Branch, NEW parent \in Id,
             NEW full \in BOOLEAN, Request(p, w, b, parent, full)
      PROVE  Kept
  <2>1. PICK j : j = [branch |-> b, parent |-> parent, full |-> full, payload |-> w,
                      from |-> None, id |-> None]
    OBVIOUS
  <2>2. /\ pc[p] = "idle" /\ pc' = [pc EXCEPT ![p] = "create"]
        /\ job' = [job EXCEPT ![p] = {j}] /\ j.from = None
        /\ UNCHANGED <<rows, saved, created, memory>>
    BY <1>7, <2>1 DEF Request
  <2>3. job'[p] = {j}
    BY <2>2, TypeFacts
  <2> QED
    BY <1>1, <1>6, <2>2, <2>3
<1>8. ASSUME NEW p \in Process,
             CreateHead(p) \/ Restructure(p) \/ RestoreDone(p) \/ WriteSession(p)
      PROVE  Kept
  <2>1. /\ UNCHANGED <<rows, saved, created, memory>>
        /\ pc[p] \in {"made", "head", "restructure", "rewire"}
        /\ \E at \in {"idle", "restructure", "rewire"} : pc' = [pc EXCEPT ![p] = at]
    BY <1>8 DEF CreateHead, Restructure, RestoreDone, WriteSession
  <2> QED
    BY <1>1, <1>6, <2>1
<1>9. ASSUME NEW p \in Process, RewriteRow(p) PROVE Kept
  <2>1. pc[p] = "rewire" /\ UNCHANGED <<saved, created, memory, pc>>
    BY <1>9 DEF RewriteRow
  <2>2. /\ DOMAIN rows' = DOMAIN rows
        /\ \A t \in DOMAIN rows : /\ rows'[t].base = rows[t].base
                                  /\ rows'[t].delta = rows[t].delta
                                  /\ rows'[t].payload = rows[t].payload
    BY <1>4, <1>9, <2>1, BasesStay
  <2>3. Follows(rows', saved')
    BY <1>1, <2>1, <2>2 DEF Follows
  <2>4. pc' = [pc EXCEPT ![p] = "rewire"]
    BY <2>1, TypeFacts
  <2> QED
    BY <1>6, <2>1, <2>2, <2>3, <2>4
<1>10. ASSUME NEW p \in Process, NEW s \in Snapshot, Restore(p, s) PROVE Kept
  <2>1. /\ pc[p] = "idle" /\ pc' = [pc EXCEPT ![p] = "create"]
        /\ memory' = [memory EXCEPT ![p] = [lastFull |-> s, count |-> 0, chain |-> {}]]
        /\ UNCHANGED <<rows, saved, created>>
    BY <1>10 DEF Restore
  <2>2. PICK j : j = [branch |-> Main, parent |-> s, full |-> FALSE,
                      payload |-> rows[s].sum, from |-> s, id |-> None]
    OBVIOUS
  <2>3. job'[p] = {j} /\ j.from = s /\ s # None
    BY <1>10, <2>2, Restores, TypeFacts, Constants
  <2>4. \A q \in Process : pc'[q] # "down" => q = p
    BY <1>4, <2>1, TypeFacts
  <2>5. pc'[p] = "create" /\ memory'[p].chain = {} /\ memory'[p].lastFull = s
    BY <2>1, TypeFacts DEF TypeInv, MemoryType
  <2>6. Tip(p)' = s
    BY <2>3, <2>5, TheOne DEF Tip
  <2> QED
    BY <1>1, <2>1, <2>4, <2>5, <2>6 DEF ChainAt
<1>11. ASSUME NEW p \in Process, CreateRow(p) PROVE Kept
  <2>1. PICK s : s = created + 1
    OBVIOUS
  <2>2. PICK j : j = The(job[p])
    OBVIOUS
  <2>3. PICK parent : parent = IF j.parent # None THEN j.parent ELSE heads[j.branch]
    OBVIOUS
  <2>4. PICK m : m = memory[p]
    OBVIOUS
  <2>5. /\ s \in Snapshot /\ s \notin DOMAIN rows /\ j \in Job /\ job[p] = {j}
        /\ parent \in Id /\ parent <= created
        /\ m \in Memory /\ pc[p] = "create" /\ created' = s
        /\ saved' = [t \in 1..s |-> IF t = s THEN j.payload ELSE saved[t]]
        /\ memory' = [memory EXCEPT ![p] = Save(m, s, j, parent).memory]
        /\ \/ rows' = Inserted(s, Save(m, s, j, parent).row)
           \/ May("write_fails") /\ rows' = rows
        /\ pc' = [pc EXCEPT ![p] = "head"]
    BY <1>11, <2>1, <2>2, <2>3, <2>4, Writes
  <2>6. rows' = Inserted(s, Save(m, s, j, parent).row)
    BY <1>0, <2>5 DEF Lossless, May
  <2>7. Undisturbed(p) /\ ChainAt(m, parent)
    <3>1. Undisturbed(p) /\ ChainAt(memory[p], Tip(p))
      BY <1>4, <2>5
    <3>2. Tip(p) = parent
      BY <2>2, <2>3, <2>5, <3>1, TipIsParent
    <3> QED
      BY <2>4, <3>1, <3>2
  <2>8. Plain(j.payload)
    BY <1>1, <2>5 DEF PlainInv
  <2>9. Follows(rows', saved')
    BY <1>1, <2>1, <2>5, <2>6, <2>7, <2>8, FollowsGrow
  <2>10. \A q \in Process : pc'[q] # "down" => q = p
    BY <1>4, <2>5, TypeFacts
  <2>11. Tip(p)' = s
    BY <2>5, TypeFacts DEF Tip
  <2>12. saved'[s] = j.payload /\ s \in DOMAIN rows'
    BY <2>5, <2>6, Constants DEF Inserted
  <2>13. PICK n : n = Save(m, s, j, parent).memory
    OBVIOUS
  <2>14. memory'[p] = n
    BY <2>5, <2>13 DEF TypeInv, MemoryType
  <2>15. CASE FullNow(m, j, parent)
    <3>1. Save(m, s, j, parent).memory = [lastFull |-> s, count |-> 0, chain |-> {}]
      BY <2>15 DEF FullNow, Save
    <3>2. n.chain = {} /\ n.lastFull = s
      BY <2>13, <3>1
    <3> QED
      BY <2>9, <2>10, <2>11, <2>14, <3>2 DEF ChainAt
  <2>16. CASE ~FullNow(m, j, parent)
    <3>1. n.chain = {[state |-> j.payload, length |-> The(ChainOf(m)).length + 1]}
      BY <2>5, <2>13, <2>16, SaveChain
    <3>2. n.chain # {} /\ \A c \in n.chain : c.state = j.payload
      BY <3>1
    <3> QED
      BY <2>9, <2>10, <2>11, <2>12, <2>14, <3>2 DEF ChainAt
  <2> QED
    BY <2>15, <2>16
<1> HIDE DEF Kept
<1>12. CASE Next
  <2>1. PICK p \in Process :
             \/ Open(p) \/ FindNoFile(p) \/ CreateNew(p) \/ WriteSession(p) \/ Stop(p)
             \/ \E w \in Payload, b \in Branch, parent \in Id, full \in BOOLEAN :
                  Request(p, w, b, parent, full)
             \/ CreateRow(p) \/ CreateHead(p)
             \/ \E s \in Snapshot : DeleteSnapshot(p, s) \/ Restore(p, s)
             \/ Restructure(p) \/ RewriteRow(p) \/ RestoreDone(p)
    BY <1>12 DEF Next
  <2>2. ~Stop(p) /\ \A s \in Snapshot : ~DeleteSnapshot(p, s)
    BY <1>0 DEF Stop, DeleteSnapshot, Lossless, May
  <2>3. Kept
    BY <1>5, <1>7, <1>8, <1>9, <1>10, <1>11, <2>1, <2>2
  <2> QED
    BY <1>2, <2>3 DEF Kept
<1> QED
  BY <1>3, <1>12

-----------------------------------------------------------------------------
(* The store keeps the promise of Timeline.                                 *)

(* The snapshots that load, their contents and what is being restored, as   *)
(* Timeline sees them.                                                      *)
ContentIn(R, S) ==
  [s \in DOMAIN R |-> IF s \in ReadableIn(R) THEN The(LoadsIn(R)[s]) ELSE S[s]]
Content == [s \in DOMAIN rows |-> IF s \in Readable THEN The(Loaded[s]) ELSE saved[s]]
Restoring == [p \in Process |-> {j.payload : j \in {k \in job[p] : k.from # None}}]

(* Which snapshots load, and as what, are functions of the tables.          *)
LEMMA ReadableIs ==
  /\ Readable = ReadableIn(rows) /\ Content = ContentIn(rows, saved)
  /\ Readable' = ReadableIn(rows') /\ Content' = ContentIn(rows', saved')
BY LoadedIsLoadsIn DEF Content, ContentIn

(* What loads is what was saved.                                            *)
LEMMA ContentIs ==
  /\ TypeInv => Content = [s \in DOMAIN rows |-> saved[s]]
  /\ TypeInv' => Content' = [s \in DOMAIN rows' |-> saved'[s]]
<1>1. ASSUME NEW R, NEW S, Sound(R, S)
      PROVE  ContentIn(R, S) = [s \in DOMAIN R |-> S[s]]
  <2>1. ASSUME NEW s \in DOMAIN R, s \in ReadableIn(R) PROVE The(LoadsIn(R)[s]) = S[s]
    <3>1. LoadsIn(R)[s] = {S[s]}
      BY <1>1, <2>1, WhatLoads DEF Sound
    <3> QED
      BY <3>1, TheOne
  <2>2. \A s \in DOMAIN R : (IF s \in ReadableIn(R) THEN The(LoadsIn(R)[s]) ELSE S[s]) = S[s]
    BY <2>1
  <2> QED
    BY <2>2 DEF ContentIn
<1> QED
  BY <1>1, SoundTables, ReadableIs

(* Without loss everything loads.                                           *)
LEMMA LosslessLoads ==
  /\ TypeInv /\ LosslessInv /\ Lossless => Readable = DOMAIN rows
  /\ (TypeInv /\ LosslessInv /\ Lossless)' => Readable' = DOMAIN rows'
<1>1. ASSUME NEW R, NEW S, Sound(R, S), Follows(R, S) PROVE ReadableIn(R) = DOMAIN R
  <2>1. \A s \in DOMAIN R : LoadedIn(R)[s] # {}
    BY <1>1, FollowsLoads
  <2>2. \A s \in DOMAIN R : s \in ReadableIn(R)
    BY <1>1, <2>1, WhatLoads DEF Sound
  <2> QED
    BY <2>2 DEF ReadableIn
<1> QED
  BY <1>1, SoundTables, ReadableIs DEF LosslessInv

(* The store starts as Timeline does.                                       *)
LEMMA ContentInit == Init => Contents!Init
<1> SUFFICES ASSUME Init PROVE Contents!Init
  OBVIOUS
<1>1. DOMAIN rows = {}
  BY DEF Init
<1>2. Readable = {}
  BY <1>1 DEF Readable
<1>3. Content = [s \in {} |-> s]
  BY <1>1 DEF Content
<1>4. Restoring = [p \in Process |-> {}]
  BY DEF Init, Restoring
<1>5. (~Lossless) \in BOOLEAN
  BY DEF Lossless
<1> QED
  BY <1>2, <1>3, <1>4, <1>5 DEF Contents!Init, Content, Restoring

(* A step that leaves rows, payloads and what is being restored as they     *)
(* are leaves Timeline as it is.                                            *)
LEMMA Stutters ==
  ASSUME TypeInv, TypeInv', setting' = setting, rows' = rows,
         \A s \in DOMAIN rows : saved'[s] = saved[s], Restoring' = Restoring
  PROVE  UNCHANGED Contents!contentVars
<1>1. Readable' = Readable
  BY ReadableIs
<1>2. Content' = Content
  BY ContentIs
<1>3. Lossless' = Lossless
  BY DEF Lossless
<1> QED
  BY <1>1, <1>2, <1>3 DEF Contents!contentVars, Content, Restoring

(* Whatever happens to the rows, those that can be loaded are all of them   *)
(* unless the setting is lossy.                                             *)
LEMMA LoadsStep ==
  ASSUME (TypeInv /\ LosslessInv)', setting' = setting
  PROVE  /\ Readable' = DOMAIN Content' \/ (~Lossless /\ Readable' \subseteq DOMAIN Content')
         /\ Lossless' = Lossless
<1>1. Lossless' = Lossless
  BY DEF Lossless
<1>2. DOMAIN Content' = DOMAIN rows'
  BY DEF Content
<1>3. Readable' \subseteq DOMAIN rows'
  BY DEF Readable
<1>4. Lossless' => Readable' = DOMAIN rows'
  BY LosslessLoads
<1> QED
  BY <1>1, <1>2, <1>3, <1>4

(* What a process is restoring.                                             *)
LEMMA RestoringOf ==
  ASSUME NEW J, NEW j, J = {j}
  PROVE  {k.payload : k \in {i \in J : i.from # None}} = IF j.from # None THEN {j.payload} ELSE {}
OBVIOUS

(* The steps, as Timeline sees them.                                        *)
LEMMA RestSees ==
  ASSUME TypeInv, TypeInv', NEW p \in Process,
         \/ Open(p) \/ FindNoFile(p) \/ CreateNew(p) \/ WriteSession(p)
         \/ CreateHead(p) \/ Restructure(p)
         \/ \E w \in Payload, b \in Branch, parent \in Id, full \in BOOLEAN :
              Request(p, w, b, parent, full)
  PROVE  UNCHANGED Contents!contentVars
<1>1. UNCHANGED <<setting, rows, saved>>
  <2>1. CreateHead(p) \/ Restructure(p) => UNCHANGED <<setting, rows, saved>>
    BY Zenon DEF CreateHead, Restructure
  <2> QED
    BY <2>1 DEF Open, FindNoFile, CreateNew, WriteSession, Request
<1>2. Restoring' = Restoring
  <2>1. CASE job' = job
    BY <2>1 DEF Restoring
  <2>2. ASSUME NEW J, job' = [job EXCEPT ![p] = J],
               {j.payload : j \in {k \in J : k.from # None}} =
                 {j.payload : j \in {k \in job[p] : k.from # None}}
        PROVE  Restoring' = Restoring
    <3>1. \A q \in Process : job'[q] = IF q = p THEN J ELSE job[q]
      BY <2>2, TypeFacts
    <3>2. \A q \in Process : {j.payload : j \in {k \in job'[q] : k.from # None}} =
                               {j.payload : j \in {k \in job[q] : k.from # None}}
      BY <2>2, <3>1
    <3> QED
      BY <3>2 DEF Restoring
  <2>3. CASE \/ Open(p) \/ FindNoFile(p) \/ CreateNew(p) \/ WriteSession(p)
             \/ Restructure(p)
    BY <2>1, <2>3 DEF Open, FindNoFile, CreateNew, WriteSession, Restructure
  <2>4. CASE CreateHead(p)
    <3>1. PICK j : j = The(job[p])
      OBVIOUS
    <3>2. /\ pc[p] = "head"
          /\ IF j.from = None THEN job' = [job EXCEPT ![p] = {}] ELSE UNCHANGED job
      BY <2>4, <3>1 DEF CreateHead
    <3>3. job[p] = {j}
      BY <3>1, <3>2, JobFacts
    <3>4. CASE j.from = None
      <4>1. /\ {k.payload : k \in {i \in job[p] : i.from # None}} = {}
            /\ {k.payload : k \in {i \in {} : i.from # None}} = {}
        BY <3>3, <3>4
      <4> QED
        BY <2>2, <3>2, <3>4, <4>1
    <3>5. CASE j.from # None
      BY <2>1, <3>2, <3>5
    <3> QED
      BY <3>4, <3>5
  <2>5. ASSUME NEW w \in Payload, NEW b \in Branch, NEW parent \in Id, NEW full \in BOOLEAN,
               Request(p, w, b, parent, full)
        PROVE  Restoring' = Restoring
    <3>1. PICK j : j = [branch |-> b, parent |-> parent, full |-> full, payload |-> w,
                        from |-> None, id |-> None]
      OBVIOUS
    <3>2. pc[p] = "idle" /\ job' = [job EXCEPT ![p] = {j}] /\ j.from = None
      BY <2>5, <3>1 DEF Request
    <3>3. job[p] = {}
      BY <3>2 DEF TypeInv, JobsType
    <3>4. /\ {k.payload : k \in {i \in job[p] : i.from # None}} = {}
          /\ {k.payload : k \in {i \in {j} : i.from # None}} = {}
      BY <3>2, <3>3
    <3> QED
      BY <2>2, <3>2, <3>4
  <2> QED
    BY <2>3, <2>4, <2>5
<1> QED
  BY <1>1, <1>2, Stutters

(* The end of a restore, or of a process.                                   *)
LEMMA RestoredSees ==
  ASSUME TypeInv, TypeInv', NEW p \in Process, Stop(p) \/ RestoreDone(p)
  PROVE  Contents!Restored(p)
<1>1. UNCHANGED <<setting, rows, saved>> /\ job' = [job EXCEPT ![p] = {}]
  BY DEF Stop, RestoreDone
<1>2. Restoring' = [Restoring EXCEPT ![p] = {}]
  <2>1. \A q \in Process : job'[q] = IF q = p THEN {} ELSE job[q]
    BY <1>1, TypeFacts
  <2>2. \A q \in Process : {j.payload : j \in {k \in job'[q] : k.from # None}} =
          IF q = p THEN {} ELSE {j.payload : j \in {k \in job[q] : k.from # None}}
    BY <2>1
  <2> QED
    BY <2>2 DEF Restoring
<1>3. Readable' = Readable
  BY <1>1, ReadableIs
<1>4. Content' = Content
  BY <1>1, ContentIs
<1>5. Lossless' = Lossless
  BY <1>1 DEF Lossless
<1> QED
  BY <1>2, <1>3, <1>4, <1>5 DEF Contents!Restored, Content, Restoring

(* The restore of a snapshot that loads is one of Timeline.                 *)
LEMMA RestoreSees ==
  ASSUME TypeInv, TypeInv', NEW p \in Process, NEW s \in Snapshot, Restore(p, s)
  PROVE  s \in DOMAIN rows /\ Contents!Restore(p, s)
<1>1. UNCHANGED <<setting, rows, saved>> /\ s \in Readable /\ s \in DOMAIN rows
  BY DEF Restore, Readable
<1>2. PICK j : j = [branch |-> Main, parent |-> s, full |-> FALSE,
                    payload |-> rows[s].sum, from |-> s, id |-> None]
  OBVIOUS
<1>3. /\ job[p] = {} /\ job' = [job EXCEPT ![p] = {j}] /\ j.from # None
      /\ j.payload = saved[s]
  BY <1>2, Restores, Constants
<1>4. Restoring[p] = {} /\ Restoring' = [Restoring EXCEPT ![p] = {Content[s]}]
  <2>1. Content[s] = saved[s]
    BY <1>1, ContentIs
  <2>2. \A q \in Process : job'[q] = IF q = p THEN {j} ELSE job[q]
    BY <1>3, TypeFacts
  <2>3. {k.payload : k \in {i \in {j} : i.from # None}} = {saved[s]}
    BY <1>3
  <2>4. \A q \in Process : {i.payload : i \in {k \in job'[q] : k.from # None}} =
          IF q = p THEN {saved[s]} ELSE {i.payload : i \in {k \in job[q] : k.from # None}}
    BY <2>2, <2>3
  <2>5. Restoring[p] = {}
    BY <1>3 DEF Restoring
  <2> QED
    BY <2>1, <2>4, <2>5 DEF Restoring
<1>5. Readable' = Readable
  BY <1>1, ReadableIs
<1>6. Content' = Content
  BY <1>1, ContentIs
<1>7. Lossless' = Lossless
  BY <1>1 DEF Lossless
<1> QED
  BY <1>1, <1>4, <1>5, <1>6, <1>7 DEF Contents!Restore, Content, Restoring

(* A row that is written is a snapshot of what was asked for; one that is   *)
(* not written leaves no trace.                                             *)
LEMMA CreateRowSees ==
  ASSUME TypeInv, (TypeInv /\ LosslessInv)', NEW p \in Process, CreateRow(p)
  PROVE  \/ UNCHANGED Contents!contentVars
         \/ \E s \in Snapshot, w \in Payload : Contents!Create(p, s, w)
<1>1. PICK s : s = created + 1
  OBVIOUS
<1>2. PICK j : j = The(job[p])
  OBVIOUS
<1>3. PICK parent : parent = IF j.parent # None THEN j.parent ELSE heads[j.branch]
  OBVIOUS
<1>4. PICK m : m = memory[p]
  OBVIOUS
<1>5. /\ s \in Snapshot /\ s \notin DOMAIN rows /\ j \in Job /\ job[p] = {j}
      /\ saved' = [t \in 1..s |-> IF t = s THEN j.payload ELSE saved[t]]
      /\ \/ rows' = Inserted(s, Save(m, s, j, parent).row)
         \/ rows' = rows
      /\ job' = [job EXCEPT ![p] = {[j EXCEPT !.id = s]}]
      /\ UNCHANGED setting
  BY <1>1, <1>2, <1>3, <1>4, Writes
<1>6. PICK k : k = [j EXCEPT !.id = s]
  OBVIOUS
<1>7. k.payload = j.payload /\ k.from = j.from /\ job' = [job EXCEPT ![p] = {k}]
      /\ j.payload \in Payload
  BY <1>5, <1>6 DEF Job
<1>8. Restoring' = Restoring /\ Restoring[p] \subseteq {j.payload}
  <2>1. \A q \in Process : job'[q] = IF q = p THEN {k} ELSE job[q]
    BY <1>7, TypeFacts
  <2>2. {i.payload : i \in {x \in {k} : x.from # None}} =
          {i.payload : i \in {x \in {j} : x.from # None}}
    BY <1>7
  <2>3. \A q \in Process : {i.payload : i \in {x \in job'[q] : x.from # None}} =
                             {i.payload : i \in {x \in job[q] : x.from # None}}
    BY <1>5, <2>1, <2>2
  <2>4. {i.payload : i \in {x \in {j} : x.from # None}} \subseteq {j.payload}
    OBVIOUS
  <2>5. Restoring[p] \subseteq {j.payload}
    BY <1>5, <2>4 DEF Restoring
  <2> QED
    BY <2>3, <2>5 DEF Restoring
<1>9. \A t \in DOMAIN rows : t # s /\ t \in 1..s /\ saved'[t] = saved[t]
  BY <1>1, <1>5, TypeFacts DEF TypeInv, RowsType
<1>10. CASE rows' = rows
  BY <1>5, <1>8, <1>9, <1>10, Stutters
<1>11. CASE rows' = Inserted(s, Save(m, s, j, parent).row)
  <2>1. DOMAIN rows' = DOMAIN rows \cup {s}
    BY <1>11 DEF Inserted
  <2>2. Content = [t \in DOMAIN rows |-> saved[t]] /\ Content' = [t \in DOMAIN rows' |-> saved'[t]]
    BY ContentIs
  <2>3. saved'[s] = j.payload
    BY <1>1, <1>5, TypeFacts
  <2>4. Content' = [t \in DOMAIN Content \cup {s} |-> IF t = s THEN j.payload ELSE Content[t]]
    BY <1>9, <2>1, <2>2, <2>3
  <2>5. s \notin DOMAIN Content
    BY <1>5, <2>2
  <2>6. /\ Readable' = DOMAIN Content' \/ (~Lossless /\ Readable' \subseteq DOMAIN Content')
        /\ Lossless' = Lossless
    BY <1>5, LoadsStep
  <2>7. Contents!Create(p, s, j.payload)
    BY <1>8, <2>4, <2>5, <2>6 DEF Contents!Create, Contents!Loads, Content, Restoring
  <2> QED
    BY <1>5, <1>7, <2>7
<1> QED
  BY <1>5, <1>10, <1>11

(* Deleting a snapshot may make others stop loading: none loads as another  *)
(* payload.                                                                 *)
LEMMA DeleteSees ==
  ASSUME TypeInv, (TypeInv /\ LosslessInv)', NEW p \in Process, NEW s \in Snapshot,
         DeleteSnapshot(p, s)
  PROVE  s \in DOMAIN rows /\ Contents!Delete(s)
<1>1. /\ s \in DOMAIN rows /\ rows' = [t \in DOMAIN rows \ {s} |-> rows[t]]
      /\ UNCHANGED <<setting, saved, job>>
  BY DEF DeleteSnapshot
<1>2. Content = [t \in DOMAIN rows |-> saved[t]] /\ Content' = [t \in DOMAIN rows' |-> saved'[t]]
  BY ContentIs
<1>3. Content' = [t \in DOMAIN Content \ {s} |-> Content[t]] /\ s \in DOMAIN Content
  BY <1>1, <1>2
<1>4. Restoring' = Restoring
  BY <1>1 DEF Restoring
<1>5. /\ Readable' = DOMAIN Content' \/ (~Lossless /\ Readable' \subseteq DOMAIN Content')
      /\ Lossless' = Lossless
  BY <1>1, LoadsStep
<1> QED
  BY <1>1, <1>3, <1>4, <1>5 DEF Contents!Delete, Contents!Loads, Content, Restoring

(* Rewriting a row changes no content.                                      *)
LEMMA RewriteSees ==
  ASSUME TypeInv, (TypeInv /\ LosslessInv)', NEW p \in Process, RewriteRow(p)
  PROVE  Contents!Rearrange
<1>1. DOMAIN rows' = DOMAIN rows /\ UNCHANGED <<setting, saved, job>>
  BY Rewrites
<1>2. Content' = Content
  BY <1>1, ContentIs
<1>3. Restoring' = Restoring
  BY <1>1 DEF Restoring
<1>4. /\ Readable' = DOMAIN Content' \/ (~Lossless /\ Readable' \subseteq DOMAIN Content')
      /\ Lossless' = Lossless
  BY <1>1, LoadsStep
<1> QED
  BY <1>2, <1>3, <1>4 DEF Contents!Rearrange, Contents!Loads, Content, Restoring

(* Every step of the store is one of Timeline, or none.                     *)
LEMMA Simulation ==
  TypeInv /\ (TypeInv /\ LosslessInv)' /\ [Next]_vars => [Contents!Next]_(Contents!contentVars)
<1> SUFFICES ASSUME TypeInv, (TypeInv /\ LosslessInv)', [Next]_vars
             PROVE  Contents!Next \/ UNCHANGED Contents!contentVars
  OBVIOUS
<1>1. CASE UNCHANGED vars
  <2>1. UNCHANGED <<setting, rows, saved, job>>
    BY <1>1 DEF vars
  <2>2. Restoring' = Restoring
    BY <2>1 DEF Restoring
  <2> QED
    BY <2>1, <2>2, Stutters
<1>2. DOMAIN Content = DOMAIN rows
  BY DEF Content
<1>3. ASSUME NEW p \in Process, NEW s \in Snapshot, DeleteSnapshot(p, s) \/ Restore(p, s)
      PROVE  Contents!Next
  <2>1. s \in DOMAIN Content
    BY <1>2, <1>3, DeleteSees, RestoreSees
  <2>2. Contents!Delete(s) \/ Contents!Restore(p, s)
    BY <1>3, DeleteSees, RestoreSees
  <2> QED
    BY <2>1, <2>2 DEF Contents!Next, Content
<1>4. ASSUME NEW p \in Process, CreateRow(p)
      PROVE  Contents!Next \/ UNCHANGED Contents!contentVars
  <2>1. CASE UNCHANGED Contents!contentVars
    BY <2>1
  <2>2. ASSUME NEW s \in Snapshot, NEW w \in Payload, Contents!Create(p, s, w)
        PROVE  Contents!Next
    BY <2>2 DEF Contents!Next
  <2> QED
    BY <1>4, <2>2, CreateRowSees
<1>5. ASSUME NEW p \in Process, Stop(p) \/ RestoreDone(p)
      PROVE  Contents!Next
  <2>1. Contents!Restored(p)
    BY <1>5, RestoredSees
  <2> QED
    BY <2>1 DEF Contents!Next
<1>6. ASSUME NEW p \in Process, RewriteRow(p)
      PROVE  Contents!Next
  <2>1. Contents!Rearrange
    BY <1>6, RewriteSees
  <2> QED
    BY <2>1 DEF Contents!Next
<1>7. ASSUME NEW p \in Process,
             \/ Open(p) \/ FindNoFile(p) \/ CreateNew(p) \/ WriteSession(p)
             \/ CreateHead(p) \/ Restructure(p)
             \/ \E w \in Payload, b \in Branch, parent \in Id, full \in BOOLEAN :
                  Request(p, w, b, parent, full)
      PROVE  UNCHANGED Contents!contentVars
  BY <1>7, RestSees
<1> QED
  BY <1>1, <1>3, <1>4, <1>5, <1>6, <1>7 DEF Next

(* The store implements Timeline: in every setting, whatever is written,    *)
(* deleted, restored, crashed or opened in two windows, the workspace made  *)
(* of a snapshot is the one it was created from or there is none, and a     *)
(* restore saves what it has loaded; and without what can lose one, there   *)
(* always is.                                                               *)
THEOREM KeepsContentsTheorem == Spec => KeepsContents
<1> DEFINE Inv == TypeInv /\ TameInv /\ LosslessInv
<1>1. Init => Inv
  <2>1. Init => LosslessInv
    <3> SUFFICES ASSUME Init PROVE LosslessInv
      OBVIOUS
    <3>1. created = 0 /\ DOMAIN rows = {} /\ \A p \in Process : job[p] = {} /\ pc[p] = "down"
      BY DEF Init
    <3> QED
      BY <3>1 DEF LosslessInv, PlainInv, Follows
  <2> QED
    BY <2>1, TypeInit, TameInit
<1>2. Inv /\ [Next]_vars => Inv'
  BY TypeStep, TameStep, LosslessStep
<1>3. Inv /\ Inv' /\ [Next]_vars => [Contents!Next]_(Contents!contentVars)
  BY Simulation
<1>4. Init => Contents!Init
  BY ContentInit
<1> HIDE DEF Inv
<1> QED
  BY <1>1, <1>2, <1>3, <1>4, PTL DEF Spec, KeepsContents, Contents!Spec
=============================================================================
