---------------------------- MODULE ContentProofs ----------------------------
(***************************************************************************)
(* Theorems about ContentStore and the views of PublicViews, for any       *)
(* titles, posts, assets, quota and number of failures.  The files, the    *)
(* rows and the tracker of the server stay in order whatever requests      *)
(* succeed, fail half-way or end with it (StoreIsInOrder); so the rows say *)
(* what the files say, the tracker is exact, what a list shows opens, and  *)
(* addresses and assets follow a post that moves.                          *)
(*                                                                         *)
(* None of these is inductive alone: which directory a request writes to   *)
(* is a matter of symlinks, which must end (Acyclic) and of rows that lead *)
(* to directories of their own (RowsApart), also for the posts whose last  *)
(* request failed.  All requests are proved by one argument: a request     *)
(* about the post i moves the directory of i and spares the others         *)
(* (Spares), so only what is said of i is left to prove (RequestHolds).    *)
(***************************************************************************)
EXTENDS PublicViews, FiniteSetTheorems, TLAPS

-----------------------------------------------------------------------------
(* Symlinks.  Where they lead is a matter of every set that holds a name    *)
(* and, with each symlink, its target; there is no loop if each set of      *)
(* names has one whose symlink, if any, leads out of it.                    *)

\* Each name is a symlink to a name, or none
Linking(d) == d.link \in [Names -> Names \cup {NoName}]

\* No loops: walking the symlinks leaves every set of names
Acyclic(d) ==
  /\ Linking(d)
  /\ \A S \in (SUBSET Names) \ {{}} : \E k \in S : d.link[k] \notin S

LEMMA NoNameIsNoName == NoName \notin Names
<1>1. 0 \notin 1 .. MaxSuffix
  BY ContentAssumption
<1> QED BY <1>1 DEF NoName, Names

\* A name and the target of its symlink lead to the same end
LEMMA EndsNext ==
  ASSUME NEW d, Linking(d), NEW n \in Names, NEW w \in Names, d.link[n] # NoName
  PROVE  EndsAt(d, n, w) <=> EndsAt(d, d.link[n], w)
<1>1. ASSUME EndsAt(d, n, w), NEW S \in SUBSET (Names \ {w}), d.link[n] \in S
      PROVE  \E k \in S : d.link[k] \notin S \cup {NoName}
  <2>1. n # w
    BY <1>1 DEF EndsAt
  <2>2. S \cup {n} \in SUBSET (Names \ {w})
    BY <2>1
  <2>3. PICK k \in S \cup {n} : d.link[k] \notin (S \cup {n}) \cup {NoName}
    BY <1>1, <2>2 DEF EndsAt
  <2> QED BY <1>1, <2>3
<1>2. ASSUME EndsAt(d, d.link[n], w), NEW S \in SUBSET (Names \ {w}), n \in S
      PROVE  \E k \in S : d.link[k] \notin S \cup {NoName}
  BY <1>2 DEF EndsAt
<1> QED BY <1>1, <1>2 DEF EndsAt

LEMMA EndsOnce ==
  ASSUME NEW d, Linking(d), NEW n \in Names, NEW v \in Names, NEW w \in Names,
         EndsAt(d, n, v), EndsAt(d, n, w)
  PROVE  v = w
<1> DEFINE S == {k \in Names : EndsAt(d, k, v) /\ EndsAt(d, k, w)}
<1>1. SUFFICES ASSUME v # w PROVE FALSE
  OBVIOUS
<1>2. w \notin S
  <2>1. {w} \in SUBSET (Names \ {v}) /\ d.link[w] = NoName
    BY <1>1 DEF EndsAt
  <2>2. ~ EndsAt(d, w, v)
    BY <2>1 DEF EndsAt
  <2> QED BY <2>2
<1>3. S \in SUBSET (Names \ {w}) /\ n \in S
  BY <1>2
<1>4. PICK k \in S : d.link[k] \notin S \cup {NoName}
  BY <1>3 DEF EndsAt
<1>5. k \in Names /\ d.link[k] \in Names /\ d.link[k] # NoName
  BY <1>4 DEF Linking
<1>6. d.link[k] \in S
  BY <1>4, <1>5, EndsNext
<1> QED BY <1>4, <1>6

LEMMA EndsExist ==
  ASSUME NEW d, Acyclic(d), NEW n \in Names
  PROVE  \E w \in Names : EndsAt(d, n, w)
<1> DEFINE S == {k \in Names : ~ \E w \in Names : EndsAt(d, k, w)}
<1>1. ASSUME NEW k \in S PROVE d.link[k] \in S
  <2>1. d.link[k] # NoName
    <3>1. d.link[k] = NoName => EndsAt(d, k, k)
      BY DEF EndsAt
    <3> QED BY <3>1
  <2>2. d.link[k] \in Names
    BY <2>1 DEF Acyclic, Linking
  <2> QED BY <2>1, <2>2, EndsNext DEF Acyclic
<1>2. S = {}
  BY <1>1 DEF Acyclic
<1> QED BY <1>2

\* What the rest of the proofs know of Target
LEMMA TargetFacts ==
  ASSUME NEW d, Acyclic(d), NEW n \in Names
  PROVE  /\ Target(d, n) \in Names /\ d.link[Target(d, n)] = NoName
         /\ d.link[n] = NoName => Target(d, n) = n
         /\ d.link[n] # NoName => d.link[n] \in Names /\ Target(d, n) = Target(d, d.link[n])
<1>1. ASSUME NEW k \in Names PROVE Target(d, k) \in Names /\ EndsAt(d, k, Target(d, k))
  <2>1. CASE d.link[k] = NoName
    <3>1. EndsAt(d, k, k)
      BY <2>1 DEF EndsAt
    <3> QED BY <2>1, <3>1 DEF Target
  <2>2. CASE d.link[k] # NoName
    <3>1. \E w \in Names : EndsAt(d, k, w)
      BY EndsExist
    <3>2. Target(d, k) = CHOOSE w \in Names : EndsAt(d, k, w)
      BY <2>2 DEF Target
    <3> QED BY ONLY <3>1, <3>2
  <2> QED BY <2>1, <2>2
<1>2. ASSUME d.link[n] # NoName PROVE d.link[n] \in Names /\ Target(d, n) = Target(d, d.link[n])
  <2>1. d.link[n] \in Names
    BY <1>2 DEF Acyclic, Linking
  <2>2. EndsAt(d, d.link[n], Target(d, n))
    BY <1>1, <1>2, EndsNext DEF Acyclic
  <2>3. Target(d, d.link[n]) \in Names /\ EndsAt(d, d.link[n], Target(d, d.link[n]))
    BY <1>1, <2>1
  <2> QED BY <1>1, <2>1, <2>2, <2>3, EndsOnce DEF Acyclic
<1>3. Target(d, n) \in Names /\ d.link[Target(d, n)] = NoName
  BY <1>1 DEF EndsAt
<1> QED BY <1>2, <1>3 DEF Target

\* Names whose symlinks lead to each other, or to v, lead to v
LEMMA LeadsTo ==
  ASSUME NEW d, Acyclic(d), NEW v, NEW A \in SUBSET Names,
         \A k \in A : Target(d, k) = v \/ d.link[k] \in A
  PROVE  \A k \in A : Target(d, k) = v
<1> DEFINE S == {k \in A : Target(d, k) # v}
<1>1. ASSUME NEW k \in S PROVE d.link[k] \in S
  <2>1. d.link[k] \in A /\ d.link[k] # NoName
    BY NoNameIsNoName
  <2> QED BY <2>1, TargetFacts
<1>2. S = {}
  BY <1>1 DEF Acyclic
<1> QED BY <1>2

LEMMA TargetSame ==
  ASSUME NEW d, NEW e, Acyclic(d), e.link = d.link
  PROVE  /\ Acyclic(e)
         /\ \A n \in Names : Target(e, n) = Target(d, n)
<1>1. Acyclic(e)
  BY DEF Acyclic, Linking
<1>2. ASSUME NEW n \in Names PROVE Target(e, n) = Target(d, n)
  <2> DEFINE A == {k \in Names : Target(d, k) = Target(d, n)}
  <2>1. ASSUME NEW k \in A PROVE Target(e, k) = Target(d, n) \/ e.link[k] \in A
    BY <1>1, TargetFacts
  <2>2. \A k \in A : Target(e, k) = Target(d, n)
    <3>1. A \in SUBSET Names
      OBVIOUS
    <3> HIDE DEF A
    <3> QED BY ONLY <1>1, <2>1, <3>1, LeadsTo
  <2> QED BY <2>2
<1> QED BY <1>1, <1>2

\* A symlink n is added to a name m that is none
LEMMA LinkAdded ==
  ASSUME NEW d, NEW e, Acyclic(d), NEW n \in Names, NEW m \in Names, n # m,
         d.link[n] = NoName, d.link[m] = NoName, e.link = [d.link EXCEPT ![n] = m]
  PROVE  /\ Acyclic(e)
         /\ \A k \in Names : Target(d, k) = n => Target(e, k) = m
         /\ \A k \in Names : Target(d, k) # n => Target(e, k) = Target(d, k)
<1>1. /\ Linking(e) /\ e.link[n] = m
      /\ \A k \in Names \ {n} : e.link[k] = d.link[k]
  BY DEF Acyclic, Linking
<1>2. Acyclic(e)
  <2>1. ASSUME NEW S \in (SUBSET Names) \ {{}}, \A k \in S : e.link[k] \in S PROVE FALSE
    <3>1. m \notin S
      BY <1>1, <2>1, NoNameIsNoName
    <3>2. \A k \in S : d.link[k] \in S
      BY <1>1, <2>1, <3>1
    <3> QED BY <3>2 DEF Acyclic
  <2> QED BY <1>1, <2>1 DEF Acyclic
<1>2e. ASSUME NEW k \in Names
       PROVE  /\ e.link[k] = NoName => Target(e, k) = k
              /\ e.link[k] # NoName => Target(e, k) = Target(e, e.link[k])
  BY <1>2, TargetFacts
<1>3. ASSUME NEW k \in Names
      PROVE  Target(e, k) = IF Target(d, k) = n THEN m ELSE Target(d, k)
  <2> DEFINE A == {j \in Names : Target(d, j) = Target(d, k)}
             v == IF Target(d, k) = n THEN m ELSE Target(d, k)
  <2>1. ASSUME NEW j \in A PROVE Target(e, j) = v \/ e.link[j] \in A
    <3>1. CASE j = n
      <4>1. Target(e, n) = Target(e, m) /\ Target(e, m) = m
        BY <1>1, <1>2e, NoNameIsNoName
      <4>2. Target(d, n) = n
        BY TargetFacts
      <4> QED BY <3>1, <4>1, <4>2
    <3>2. CASE j # n /\ d.link[j] = NoName
      <4>1. Target(d, j) = j /\ Target(e, j) = j
        BY <1>1, <1>2e, <3>2, TargetFacts
      <4> QED BY <3>2, <4>1
    <3>3. CASE j # n /\ d.link[j] # NoName
      BY <1>1, <3>3, TargetFacts
    <3> QED BY <3>1, <3>2, <3>3
  <2>2. \A j \in A : Target(e, j) = v
    <3>1. A \in SUBSET Names
      OBVIOUS
    <3> HIDE DEF A, v
    <3> QED BY ONLY <1>2, <2>1, <3>1, LeadsTo
  <2> QED BY <2>2
<1> QED BY <1>2, <1>3

\* The symlink n takes the name m, and x is where n leads then, if anywhere
LinkShift(d, e, n, m, x) ==
  x \in {m, NoName} /\ e.link = [d.link EXCEPT ![m] = d.link[n], ![n] = x]

\* A symlink n takes the name m, which led nowhere the posts concerned are, and
\* n becomes a symlink to m, or is gone
LEMMA LinkMoved ==
  ASSUME NEW d, NEW e, Acyclic(d), NEW n \in Names, NEW m \in Names, d.link[n] # NoName,
         Target(d, m) # Target(d, n), NEW x, LinkShift(d, e, n, m, x)
  PROVE  /\ Acyclic(e)
         /\ Target(e, m) = Target(d, n)
         /\ \A k \in Names : Target(d, k) \notin {Target(d, m), Target(d, n)} =>
              Target(e, k) = Target(d, k)
         /\ x = m => \A k \in Names : Target(d, k) # Target(d, m) =>
              Target(e, k) = Target(d, k)
<1> DEFINE w == Target(d, n)
<1>1. /\ x \in {m, NoName} /\ Linking(e) /\ n # m /\ e.link[n] = x /\ e.link[m] = d.link[n] /\ d.link[n] \in Names
      /\ \A k \in Names \ {n, m} : e.link[k] = d.link[k]
  BY TargetFacts DEF Acyclic, Linking, LinkShift
<1>2. ASSUME NEW k \in Names, d.link[k] # NoName
      PROVE  d.link[k] \in Names /\ Target(d, d.link[k]) = Target(d, k)
  BY <1>2, TargetFacts
<1>3. Acyclic(e)
  <2>1. ASSUME NEW S \in (SUBSET Names) \ {{}}, \A k \in S : e.link[k] \in S PROVE FALSE
    <3> DEFINE L == {k \in S : Target(d, k) = w}
    <3>1. n \in S => m \in S
      BY <1>1, <2>1, NoNameIsNoName
    <3>2. ASSUME NEW k \in L PROVE d.link[k] \in L
      <4>1. CASE k = n
        <5>1. d.link[n] \in S
          BY <1>1, <2>1, <3>1, <4>1
        <5> QED BY <1>2, <4>1, <5>1
      <4>2. CASE k # n
        <5>1. k # m /\ d.link[k] \in S
          BY <1>1, <2>1, <4>2
        <5>2. d.link[k] # NoName
          BY <5>1, NoNameIsNoName
        <5> QED BY <1>2, <5>1, <5>2
      <4> QED BY <4>1, <4>2
    <3>3. L = {}
      BY <3>2 DEF Acyclic
    <3>4. n \notin S /\ m \notin S
      <4>1. d.link[n] \in S => d.link[n] \in L
        BY <1>2
      <4> QED BY <1>1, <2>1, <3>3, <4>1
    <3>5. \A k \in S : d.link[k] \in S
      BY <1>1, <2>1, <3>4
    <3> QED BY <3>5 DEF Acyclic
  <2> QED BY <1>1, <2>1 DEF Acyclic
<1>3e. ASSUME NEW k \in Names
       PROVE  /\ e.link[k] = NoName => Target(e, k) = k
              /\ e.link[k] # NoName => Target(e, k) = Target(e, e.link[k])
  BY <1>3, TargetFacts
\* The names that lead to v, and m when it is one of them now
<1>4. ASSUME NEW v \in Names, v # Target(d, m), v # w \/ x = m
      PROVE  /\ \A k \in Names : Target(d, k) = v => Target(e, k) = v
             /\ v = w => Target(e, m) = v
  <2> DEFINE A == {k \in Names : Target(d, k) = v} \cup IF v = w THEN {m} ELSE {}
  <2>1. ASSUME NEW k \in A PROVE Target(e, k) = v \/ e.link[k] \in A
    <3>1. CASE k = m
      <4>1. v = w
        BY <1>4, <3>1
      <4> QED BY <1>1, <1>2, <3>1, <4>1
    <3>2. CASE k = n
      BY <1>1, <1>4, <3>2
    <3>3. CASE k \notin {m, n} /\ d.link[k] = NoName
      <4>1. Target(d, k) = k /\ Target(e, k) = k
        BY <1>1, <1>3, <3>3, TargetFacts
      <4> QED BY <3>3, <4>1
    <3>4. CASE k \notin {m, n} /\ d.link[k] # NoName
      BY <1>1, <1>2, <3>4
    <3> QED BY <3>1, <3>2, <3>3, <3>4
  <2>2. \A k \in A : Target(e, k) = v
    <3>1. A \in SUBSET Names
      OBVIOUS
    <3> HIDE DEF A
    <3> QED BY ONLY <1>3, <2>1, <3>1, LeadsTo
  <2> QED BY <2>2
\* The way on from the old target never came back to n
<1>5. Target(e, m) = w
  <2> DEFINE S == {k \in Names \ {m} : Target(d, k) = w /\ Target(e, k) # w}
  <2>1. SUFFICES ASSUME Target(e, m) # w PROVE FALSE
    OBVIOUS
  <2>2. d.link[n] \in S
    <3>1. Target(e, m) = Target(e, d.link[n])
      BY <1>1, <1>3e, NoNameIsNoName
    <3> QED BY <1>1, <1>2, <2>1, <3>1
  <2>3. ASSUME NEW k \in S PROVE d.link[k] \in S
    <3>1. CASE k = n
      BY <2>2, <3>1
    <3>2. CASE k # n /\ d.link[k] = NoName
      BY <1>1, <1>3, <3>2, TargetFacts
    <3>3. CASE k # n /\ d.link[k] # NoName
      <4>1. e.link[k] = d.link[k]
        BY <1>1, <3>3
      <4>2. Target(e, d.link[k]) = Target(e, k)
        BY <1>3e, <3>3, <4>1
      <4> QED BY <1>2, <3>3, <4>2
    <3> QED BY <3>1, <3>2, <3>3
  <2> QED BY <2>2, <2>3 DEF Acyclic
<1> QED BY <1>3, <1>4, <1>5, TargetFacts

\* The symlinks in R are removed
LEMMA LinksRemoved ==
  ASSUME NEW d, NEW e, Acyclic(d), NEW R \in SUBSET Names,
         e.link = [k \in Names |-> IF k \in R THEN NoName ELSE d.link[k]]
  PROVE  /\ Acyclic(e)
         /\ \A k \in Names : (\A j \in R : Target(d, j) # Target(d, k)) =>
              Target(e, k) = Target(d, k)
<1>1. /\ Linking(e)
      /\ \A k \in Names : e.link[k] = IF k \in R THEN NoName ELSE d.link[k]
  BY DEF Acyclic, Linking
<1>2. Acyclic(e)
  <2>1. ASSUME NEW S \in (SUBSET Names) \ {{}}, \A k \in S : e.link[k] \in S PROVE FALSE
    <3>1. \A k \in S : d.link[k] \in S
      BY <1>1, <2>1, NoNameIsNoName
    <3> QED BY <3>1 DEF Acyclic
  <2> QED BY <1>1, <2>1 DEF Acyclic
<1>3. ASSUME NEW k \in Names, \A j \in R : Target(d, j) # Target(d, k)
      PROVE  Target(e, k) = Target(d, k)
  <2> DEFINE A == {j \in Names : Target(d, j) = Target(d, k)}
  <2>1. ASSUME NEW j \in A PROVE Target(e, j) = Target(d, k) \/ e.link[j] \in A
    <3>1. e.link[j] = d.link[j]
      BY <1>1, <1>3
    <3> QED BY <1>2, <3>1, TargetFacts
  <2>2. \A j \in A : Target(e, j) = Target(d, k)
    <3>1. A \in SUBSET Names
      OBVIOUS
    <3> HIDE DEF A
    <3> QED BY ONLY <1>2, <2>1, <3>1, LeadsTo
  <2> QED BY <2>2
<1> QED BY <1>2, <1>3

-----------------------------------------------------------------------------
(* Counting.  The units of the directories S are those of one directory and *)
(* those of the others.                                                     *)

Held(d, S) == Cardinality(PostUnits(d, S)) + Cardinality(AssetUnits(d, S))

LEMMA NamesFinite == IsFiniteSet(Names)
<1>1. IsFiniteSet(1 .. MaxSuffix)
  BY ContentAssumption, FS_Interval
<1> QED BY <1>1, ContentAssumption, FS_Product DEF Names

LEMMA PostBytesType ==
  ASSUME NEW p \in Posts \cup {NoPost, Torn}
  PROVE  PostBytes(p) \in 0 .. 2
BY DEF PostBytes

LEMMA UnitsFinite ==
  ASSUME NEW d, NEW S \in SUBSET Names
  PROVE  IsFiniteSet(PostUnits(d, S)) /\ IsFiniteSet(AssetUnits(d, S))
<1>1. IsFiniteSet(S) /\ IsFiniteSet(1 .. 2) /\ IsFiniteSet(AssetNames)
  BY NamesFinite, ContentAssumption, FS_Subset, FS_Interval
<1>2. IsFiniteSet(S \X (1 .. 2)) /\ IsFiniteSet(S \X AssetNames)
  BY <1>1, FS_Product
<1>3. PostUnits(d, S) \in SUBSET (S \X (1 .. 2)) /\ AssetUnits(d, S) \in SUBSET (S \X AssetNames)
  BY DEF PostUnits, AssetUnits
<1> QED BY <1>2, <1>3, FS_Subset

LEMMA ColumnSize ==
  ASSUME NEW w, NEW T, IsFiniteSet(T)
  PROVE  IsFiniteSet({w} \X T) /\ Cardinality({w} \X T) = Cardinality(T)
<1>1. IsFiniteSet({w}) /\ Cardinality({w}) = 1
  BY FS_Singleton
<1>2. Cardinality(T) \in Nat
  BY FS_CardinalityType
<1>3. IsFiniteSet({w} \X T) /\ Cardinality({w} \X T) = 1 * Cardinality(T)
  BY <1>1, FS_Product
<1> QED BY <1>2, <1>3

LEMMA ColumnApart ==
  ASSUME NEW A, IsFiniteSet(A), NEW w, NEW T, IsFiniteSet(T), A \cap ({w} \X T) = {}
  PROVE  Cardinality(A \cup ({w} \X T)) = Cardinality(A) + Cardinality(T)
<1>1. Cardinality(A \cup ({w} \X T)) = Cardinality(A) + Cardinality({w} \X T) - Cardinality({})
  BY ColumnSize, FS_Union
<1>2. Cardinality({}) = 0 /\ Cardinality(A) \in Nat /\ Cardinality(T) \in Nat
  BY FS_EmptySet, FS_CardinalityType
<1>3. Cardinality({w} \X T) = Cardinality(T)
  BY ColumnSize
<1> QED BY <1>1, <1>2, <1>3

LEMMA HeldType ==
  ASSUME NEW d, NEW S \in SUBSET Names
  PROVE  Held(d, S) \in Nat
BY UnitsFinite, FS_CardinalityType DEF Held

LEMMA DirBytesType ==
  ASSUME NEW d \in Disks, NEW w \in Names
  PROVE  DirBytes(d, w) \in Nat /\ PostBytes(d.post[w]) \in 0 .. 2
         /\ IsFiniteSet(d.assets[w]) /\ Cardinality(d.assets[w]) \in Nat
<1>1. PostBytes(d.post[w]) \in 0 .. 2
  BY PostBytesType DEF Disks
<1>2. IsFiniteSet(d.assets[w])
  <2>1. d.assets[w] \in SUBSET AssetNames
    BY DEF Disks
  <2> QED BY <2>1, ContentAssumption, FS_Subset
<1> QED BY <1>1, <1>2, FS_CardinalityType DEF DirBytes

\* One directory and the others
LEMMA HeldSplit ==
  ASSUME NEW d \in Disks, NEW S \in SUBSET Names, NEW w \in S
  PROVE  Held(d, S) = Held(d, S \ {w}) + DirBytes(d, w)
<1> DEFINE T == S \ {w}
<1>1. PostUnits(d, S) = PostUnits(d, T) \cup ({w} \X (1 .. PostBytes(d.post[w])))
  BY DirBytesType DEF PostUnits
<1>2. AssetUnits(d, S) = AssetUnits(d, T) \cup ({w} \X d.assets[w])
  BY DEF AssetUnits, Disks
<1>3. /\ PostUnits(d, T) \cap ({w} \X (1 .. PostBytes(d.post[w]))) = {}
      /\ AssetUnits(d, T) \cap ({w} \X d.assets[w]) = {}
  BY DEF PostUnits, AssetUnits
<1>4. IsFiniteSet(PostUnits(d, T)) /\ IsFiniteSet(AssetUnits(d, T))
  BY UnitsFinite
<1>5. /\ IsFiniteSet(1 .. PostBytes(d.post[w]))
      /\ Cardinality(1 .. PostBytes(d.post[w])) = PostBytes(d.post[w])
  <2>1. PostBytes(d.post[w]) \in 0 .. 2
    BY DirBytesType
  <2> HIDE DEF T
  <2>2. ASSUME NEW k \in 0 .. 2 PROVE IsFiniteSet(1 .. k) /\ Cardinality(1 .. k) = k
    <3>1. 1 \in Int /\ k \in Int
      OBVIOUS
    <3>2. IsFiniteSet(1 .. k) /\ Cardinality(1 .. k) = IF 1 > k THEN 0 ELSE k - 1 + 1
      BY ONLY <3>1, FS_Interval
    <3> QED BY <3>2
  <2> QED BY <2>1, <2>2
<1> HIDE DEF T
<1>6. Cardinality(PostUnits(d, S)) = Cardinality(PostUnits(d, T)) + PostBytes(d.post[w])
  <2> DEFINE A == PostUnits(d, T)
             U == 1 .. PostBytes(d.post[w])
  <2>1. IsFiniteSet(A) /\ IsFiniteSet(U) /\ A \cap ({w} \X U) = {}
    BY <1>3, <1>4, <1>5
  <2>2. Cardinality(A \cup ({w} \X U)) = Cardinality(A) + Cardinality(U)
    <3> HIDE DEF A, U
    <3> QED BY ONLY <2>1, ColumnApart
  <2> QED BY <1>1, <1>5, <2>2
<1>7. Cardinality(AssetUnits(d, S)) = Cardinality(AssetUnits(d, T)) + Cardinality(d.assets[w])
  <2> DEFINE A == AssetUnits(d, T)
             U == d.assets[w]
  <2>1. IsFiniteSet(A) /\ IsFiniteSet(U) /\ A \cap ({w} \X U) = {}
    BY <1>3, <1>4, DirBytesType
  <2>2. Cardinality(A \cup ({w} \X U)) = Cardinality(A) + Cardinality(U)
    <3> HIDE DEF A, U
    <3> QED BY ONLY <2>1, ColumnApart
  <2> QED BY <1>2, <2>2
<1>8. Cardinality(PostUnits(d, T)) \in Nat /\ Cardinality(AssetUnits(d, T)) \in Nat
  BY <1>4, FS_CardinalityType
<1>9. Held(d, S) = Held(d, T) + DirBytes(d, w)
  BY <1>6, <1>7, <1>8, DirBytesType DEF Held, DirBytes
<1> QED BY <1>9 DEF T

\* Only what the directories hold counts
LEMMA HeldSame ==
  ASSUME NEW d, NEW e, NEW S \in SUBSET Names,
         \A n \in S : e.post[n] = d.post[n] /\ e.assets[n] = d.assets[n]
  PROVE  Held(e, S) = Held(d, S)
<1>1. PostUnits(e, S) = PostUnits(d, S) /\ AssetUnits(e, S) = AssetUnits(d, S)
  BY DEF PostUnits, AssetUnits
<1> QED BY <1>1 DEF Held

LEMMA DiskBytesType ==
  ASSUME NEW d \in Disks
  PROVE  DiskBytes(d) = Held(d, d.dirs) /\ DiskBytes(d) \in Nat
BY HeldType DEF DiskBytes, Held, Disks

-----------------------------------------------------------------------------
(* The inductive invariant.                                                 *)

\* Directories and symlinks, and nothing where there is no directory
Plain(d) ==
  /\ d \in Disks /\ Acyclic(d)
  /\ \A w \in d.dirs : d.link[w] = NoName
  /\ \A w \in Names \ d.dirs : d.post[w] = NoPost /\ d.assets[w] = {}

\* No two directories hold the same post
Distinct(d) ==
  \A v, w \in d.dirs : d.post[v].id = d.post[w].id /\ d.post[v].id \in Ids => v = w

\* Each row leads to a directory of its own, which holds its post or none, and
\* the post is in no other one
RowsApart(d, c) ==
  /\ \A n \in Names : c[n].id \in Ids => Target(d, n) \in d.dirs
  /\ \A n, m \in Names : c[n].id \in Ids /\ c[m].id \in Ids =>
       (Target(d, n) = Target(d, m) \/ c[n].id = c[m].id => n = m)
  /\ \A n \in Names : c[n].id \in Ids =>
       /\ d.post[Target(d, n)].id \in {c[n].id, 0, -1}
       /\ \A w \in d.dirs : d.post[w].id = c[n].id => w = Target(d, n)

\* The rows of the post i say what its file does, the file has its row, and
\* the addresses A lead where a row does
PostAgrees(d, c, A, i) ==
  /\ \A n \in Names : c[n].id = i =>
       Target(d, n) \in d.dirs /\ d.post[Target(d, n)] = c[n]
  /\ \A w \in d.dirs : d.post[w].id = i =>
       \E m \in Names : Target(d, m) = w /\ c[m] = d.post[w]
  /\ \A n \in A : \E m \in Names : c[m].id = i /\ Target(d, n) = Target(d, m)

\* No file and no row is of a post that was not created
Known == \A n \in Names : {disk.post[n].id, cache[n].id} \cap Ids \subseteq born

\* The rows of a server that is down are rebuilt before they are read; those of
\* a post whose request failed may disagree with its file
IInv ==
  /\ TypeOK /\ Plain(disk) /\ Distinct(disk) /\ Known
  /\ up => RowsApart(disk, cache)
  /\ \A i \in Ids \ adrift : PostAgrees(disk, cache, addresses[i], i)
  /\ UsageIsExact

LEMMA IdFacts ==
  /\ 0 \notin Ids /\ -1 \notin Ids
  /\ NoPost.id = 0 /\ Torn.id = -1 /\ NoPost # Torn
  /\ \A p \in Posts : p.id \in Ids /\ p # NoPost /\ p # Torn
  /\ \A p \in Posts \cup {NoPost} : p # NoPost <=> p.id \in Ids
  /\ \A p \in Posts \cup {NoPost} : p # NoPost <=> p.id # 0
<1>1. 0 \notin Ids /\ -1 \notin Ids
  BY ContentAssumption
<1>2. NoPost.id = 0 /\ Torn.id = -1
  BY DEF NoPost, Torn
<1>3. \A p \in Posts : p.id \in Ids
  BY DEF Posts
<1> QED BY <1>1, <1>2, <1>3

-----------------------------------------------------------------------------
(* What a request about the post i does to the files and rows: the          *)
(* directory v of the post becomes w, and the other posts stay.             *)

Files == [disk : Disks, cache : [Names -> Posts \cup {NoPost}], used : Nat]

\* From d to e, the directory v becomes w; all others stay, with what leads there
Moves(d, e, v, w) ==
  /\ \A k \in Names : Target(d, k) \in d.dirs \ {v} => Target(e, k) = Target(d, k)
  /\ \A x \in d.dirs \ {v} :
       x \in e.dirs /\ x # w /\ e.post[x] = d.post[x] /\ e.assets[x] = d.assets[x]
  /\ \A x \in e.dirs \ {w} : x \in d.dirs \ {v}

\* v is where the rows of i lead, if it has any, and no others
Owns(i, v) ==
  /\ \A m \in Names : cache[m].id \in Ids => (cache[m].id = i <=> Target(disk, m) = v)
  /\ \A x \in disk.dirs : disk.post[x].id = i => x = v

\* The files and rows of s differ from those now in the ones of i only
Spares(i, v, w, s) ==
  /\ s \in Files /\ Plain(s.disk) /\ Moves(disk, s.disk, v, w)
  /\ s.disk.post[w].id \in {i, 0, -1}
  /\ \A m \in Names : s.cache[m] = cache[m] \/ {s.cache[m].id, cache[m].id} \subseteq {0, i}

\* The post has at most one row, and it leads to w
Settled(i, w, s) ==
  \A m \in Names : s.cache[m].id = i =>
    /\ Target(s.disk, m) = w /\ w \in s.disk.dirs
    /\ \A k \in Names : s.cache[k].id = i => k = m

LEMMA OwnsRow ==
  ASSUME IInv, up, NEW n \in Names, cache[n] # NoPost
  PROVE  /\ cache[n].id \in Ids /\ cache[n].id \in born /\ cache[n] \in Posts
         /\ Target(disk, n) \in disk.dirs /\ Owns(cache[n].id, Target(disk, n))
         /\ disk.post[Target(disk, n)].id \in {cache[n].id, 0, -1}
         /\ \A m \in Names : cache[m].id = cache[n].id => m = n
<1>1. cache[n] \in Posts \cup {NoPost} /\ RowsApart(disk, cache)
  BY DEF IInv, TypeOK
<1>2. cache[n].id \in Ids /\ cache[n] \in Posts
  BY <1>1, IdFacts
<1>3. cache[n].id \in born
  BY <1>2 DEF IInv, Known
<1> QED BY <1>1, <1>2, <1>3 DEF RowsApart, Owns

LEMMA OwnsNew ==
  ASSUME IInv, up, NEW i \in Ids \ born, NEW v \in Names \ disk.dirs
  PROVE  Owns(i, v)
<1>1. RowsApart(disk, cache) /\ Known /\ disk.dirs \in SUBSET Names
  BY DEF IInv, Plain, Disks
<1> QED BY <1>1 DEF RowsApart, Known, Owns

LEMMA Spared ==
  ASSUME IInv, up, NEW i \in Ids, NEW v \in Names, NEW w \in Names, NEW s,
         Owns(i, v), Spares(i, v, w, s)
  PROVE  /\ Distinct(s.disk)
         /\ \A n \in Names : {s.disk.post[n].id, s.cache[n].id} \cap Ids \subseteq born \cup {i}
         /\ Settled(i, w, s) => RowsApart(s.disk, s.cache)
         /\ \A j \in (Ids \ adrift) \ {i} :
              PostAgrees(s.disk, s.cache, addresses[j] \cup PublicNames(s.cache, j), j)
<1> DEFINE d == disk
           e == s.disk
           c == cache
           cc == s.cache
<1>1. /\ Plain(d) /\ Distinct(d) /\ RowsApart(d, c) /\ Known
      /\ d.dirs \in SUBSET Names /\ e.dirs \in SUBSET Names /\ Plain(e)
      /\ \A k \in Names : c[k] \in Posts \cup {NoPost} /\ cc[k] \in Posts \cup {NoPost}
      /\ \A k \in Names : Target(d, k) \in Names /\ Target(e, k) \in Names
  BY TargetFacts DEF IInv, Spares, Plain, Disks, Files, TypeOK
<1>2. Moves(d, e, v, w) /\ e.post[w].id \in {i, 0, -1} /\ i \notin {0, -1}
      /\ \A m \in Names : cc[m] = c[m] \/ {cc[m].id, c[m].id} \subseteq {0, i}
  BY IdFacts DEF Spares
<1>3. ASSUME NEW x \in e.dirs, e.post[x].id \in Ids \ {i}
      PROVE  x \in d.dirs \ {v} /\ d.post[x] = e.post[x]
  BY <1>2, <1>3, IdFacts DEF Moves
<1>4. ASSUME NEW x \in e.dirs, e.post[x].id = i
      PROVE  x = w
  <2>1. SUFFICES ASSUME x # w PROVE FALSE
    OBVIOUS
  <2>2. x \in d.dirs \ {v} /\ d.post[x].id = i
    BY <1>2, <1>4, <2>1 DEF Moves
  <2> QED BY <2>2 DEF Owns
<1>5. Distinct(e)
  BY <1>1, <1>3, <1>4 DEF Distinct
\* The other rows are the old ones, with their targets
<1>6. ASSUME NEW m \in Names, cc[m].id \in Ids \ {i}
      PROVE  /\ cc[m] = c[m] /\ Target(e, m) = Target(d, m)
             /\ Target(d, m) \in d.dirs \ {v} /\ Target(e, m) \in e.dirs /\ Target(e, m) # w
             /\ e.post[Target(e, m)] = d.post[Target(d, m)]
  <2>1. cc[m] = c[m]
    BY <1>2, <1>6, IdFacts
  <2>2. Target(d, m) \in d.dirs \ {v}
    BY <1>1, <1>6, <2>1 DEF RowsApart, Owns
  <2>3. Target(e, m) = Target(d, m)
    BY <1>2, <2>2 DEF Moves
  <2> QED BY <1>2, <2>1, <2>2, <2>3 DEF Moves
<1>7. ASSUME NEW m \in Names, c[m].id \in Ids \ {i}
      PROVE  cc[m] = c[m]
  BY <1>2, <1>7, IdFacts
<1>8. \A n \in Names : {e.post[n].id, cc[n].id} \cap Ids \subseteq born \cup {i}
  <2>1. ASSUME NEW n \in Names, e.post[n].id \in Ids \ {i} PROVE e.post[n].id \in born
    <3>1. n \in e.dirs
      BY <1>1, <2>1, IdFacts DEF Plain
    <3> QED BY <1>1, <1>3, <2>1, <3>1 DEF Known
  <2>2. ASSUME NEW n \in Names, cc[n].id \in Ids \ {i} PROVE cc[n].id \in born
    BY <1>1, <1>6, <2>2 DEF Known
  <2> QED BY <2>1, <2>2
<1>9. ASSUME Settled(i, w, s) PROVE RowsApart(e, cc)
  <2>1. ASSUME NEW n \in Names, cc[n].id \in Ids PROVE Target(e, n) \in e.dirs
    BY <1>6, <1>9, <2>1 DEF Settled
  <2>2. ASSUME NEW n \in Names, NEW m \in Names, cc[n].id \in Ids, cc[m].id \in Ids,
               Target(e, n) = Target(e, m) \/ cc[n].id = cc[m].id
        PROVE  n = m
    <3>1. CASE cc[n].id = i
      <4>1. cc[m].id = i
        BY <1>6, <1>9, <2>2, <3>1 DEF Settled
      <4> QED BY <1>9, <3>1, <4>1 DEF Settled
    <3>2. CASE cc[m].id = i /\ cc[n].id # i
      BY <1>6, <1>9, <2>2, <3>2 DEF Settled
    <3>3. CASE cc[n].id # i /\ cc[m].id # i
      <4>1. c[n] = cc[n] /\ c[m] = cc[m]
            /\ Target(d, n) = Target(e, n) /\ Target(d, m) = Target(e, m)
        BY <1>6, <2>2, <3>3
      <4> QED BY <1>1, <2>2, <4>1 DEF RowsApart
    <3> QED BY <3>1, <3>2, <3>3
  <2>3. ASSUME NEW n \in Names, cc[n].id \in Ids, NEW x \in e.dirs, e.post[x].id = cc[n].id
        PROVE  x = Target(e, n)
    <3>1. CASE cc[n].id = i
      BY <1>4, <1>9, <2>3, <3>1 DEF Settled
    <3>2. CASE cc[n].id # i
      <4>1. c[n] = cc[n] /\ Target(d, n) = Target(e, n)
        BY <1>6, <2>3, <3>2
      <4>2. x \in d.dirs /\ d.post[x] = e.post[x]
        BY <1>3, <2>3, <3>2
      <4> QED BY <1>1, <2>3, <4>1, <4>2 DEF RowsApart
    <3> QED BY <3>1, <3>2
  <2>4. ASSUME NEW n \in Names, cc[n].id \in Ids
        PROVE  e.post[Target(e, n)].id \in {cc[n].id, 0, -1}
    <3>1. CASE cc[n].id = i
      BY <1>2, <1>9, <2>4, <3>1 DEF Settled
    <3>2. CASE cc[n].id # i
      BY <1>1, <1>6, <2>4, <3>2 DEF RowsApart
    <3> QED BY <3>1, <3>2
  <2> QED BY <2>1, <2>2, <2>3, <2>4 DEF RowsApart
<1>10. ASSUME NEW j \in (Ids \ adrift) \ {i}
       PROVE  PostAgrees(e, cc, addresses[j] \cup PublicNames(cc, j), j)
  <2>1. PostAgrees(d, c, addresses[j], j)
    BY DEF IInv
  <2>2. ASSUME NEW n \in Names, cc[n].id = j
        PROVE  Target(e, n) \in e.dirs /\ e.post[Target(e, n)] = cc[n]
    BY <1>6, <2>1, <2>2 DEF PostAgrees
  <2>3. ASSUME NEW x \in e.dirs, e.post[x].id = j
        PROVE  \E m \in Names : Target(e, m) = x /\ cc[m] = e.post[x]
    <3>1. x \in d.dirs \ {v} /\ d.post[x] = e.post[x]
      BY <1>3, <2>3
    <3>2. PICK m \in Names : Target(d, m) = x /\ c[m] = d.post[x]
      BY <2>1, <2>3, <3>1 DEF PostAgrees
    <3>3. cc[m] = c[m] /\ Target(e, m) = Target(d, m)
      BY <1>6, <1>7, <2>3, <3>1, <3>2
    <3> QED BY <3>1, <3>2, <3>3
  <2>4. ASSUME NEW n \in addresses[j] PROVE \E m \in Names : cc[m].id = j /\ Target(e, n) = Target(e, m)
    <3>1. n \in Names
      BY DEF IInv, TypeOK
    <3>2. PICK m \in Names : c[m].id = j /\ Target(d, n) = Target(d, m)
      BY <2>1 DEF PostAgrees
    <3>3. cc[m] = c[m] /\ Target(e, m) = Target(d, m) /\ Target(d, m) \in d.dirs \ {v}
      BY <1>6, <1>7, <3>2
    <3>4. Target(e, n) = Target(d, n)
      BY <1>2, <3>1, <3>2, <3>3 DEF Moves
    <3> QED BY <3>2, <3>3, <3>4
  <2>5. ASSUME NEW n \in PublicNames(cc, j) PROVE \E m \in Names : cc[m].id = j /\ Target(e, n) = Target(e, m)
    BY <2>5 DEF PublicNames
  <2> QED BY <2>2, <2>3, <2>4, <2>5 DEF PostAgrees
<1> QED BY <1>5, <1>8, <1>9, <1>10

LEMMA MovesBytes ==
  ASSUME NEW d, NEW e, Plain(d), Plain(e), NEW v \in Names, NEW w \in Names, Moves(d, e, v, w)
  PROVE  DiskBytes(e) = DiskBytes(d) - DirBytes(d, v) + DirBytes(e, w)
<1> DEFINE S == d.dirs \ {v}
<1>1. ASSUME NEW x, Plain(x), NEW n \in Names
      PROVE  DiskBytes(x) = Held(x, x.dirs \ {n}) + DirBytes(x, n)
  <2>1. x \in Disks /\ x.dirs \in SUBSET Names
    BY <1>1 DEF Plain, Disks
  <2>2. DiskBytes(x) = Held(x, x.dirs)
    BY <2>1, DiskBytesType
  <2>3. CASE n \in x.dirs
    BY <2>1, <2>2, <2>3, HeldSplit
  <2>4. CASE n \notin x.dirs
    <3>1. x.post[n] = NoPost /\ x.assets[n] = {} /\ x.dirs \ {n} = x.dirs
      BY <1>1, <2>4 DEF Plain
    <3>2. DirBytes(x, n) = 0
      BY <3>1, IdFacts, FS_EmptySet DEF DirBytes, PostBytes
    <3>3. Held(x, x.dirs) \in Nat
      BY <2>1, HeldType
    <3> QED BY <2>2, <3>1, <3>2, <3>3
  <2> QED BY <2>3, <2>4
<1>2. e.dirs \ {w} = S
  BY DEF Moves
<1>3. Held(e, S) = Held(d, S)
  <2>1. S \in SUBSET Names
    BY DEF Plain, Disks
  <2>2. \A n \in S : e.post[n] = d.post[n] /\ e.assets[n] = d.assets[n]
    BY DEF Moves
  <2> HIDE DEF S
  <2> QED BY <2>1, <2>2, HeldSame
<1>4. Held(d, S) \in Nat /\ DirBytes(d, v) \in Nat /\ DirBytes(e, w) \in Nat
  BY HeldType, DirBytesType DEF Plain, Disks
<1>5. DiskBytes(d) = Held(d, S) + DirBytes(d, v) /\ DiskBytes(e) = Held(d, S) + DirBytes(e, w)
  BY <1>1, <1>2, <1>3
<1> QED BY <1>4, <1>5

\* The tracker stays accurate
Exact(s) == used = DiskBytes(disk) => s.used = DiskBytes(s.disk)

LEMMA CountExact ==
  ASSUME IInv, NEW v \in Names, NEW w \in Names, NEW t \in Files, t.used = used,
         Plain(t.disk), Moves(disk, t.disk, v, w),
         NEW delta, delta = DirBytes(t.disk, w) - DirBytes(disk, v)
  PROVE  Count(t, delta) \in Files /\ Exact(Count(t, delta))
         /\ Count(t, delta).disk = t.disk /\ Count(t, delta).cache = t.cache
<1>1. DiskBytes(t.disk) = DiskBytes(disk) - DirBytes(disk, v) + DirBytes(t.disk, w)
  BY MovesBytes DEF IInv
<1>2. /\ DiskBytes(t.disk) \in Nat /\ DiskBytes(disk) \in Nat
      /\ DirBytes(disk, v) \in Nat /\ DirBytes(t.disk, w) \in Nat
  BY DiskBytesType, DirBytesType DEF Plain, IInv
<1>3. t.used \in Nat /\ delta \in Int
  BY <1>2 DEF Files
<1>4. Count(t, delta).used = (IF t.used + delta < 0 THEN 0 ELSE t.used + delta)
      /\ Count(t, delta).disk = t.disk /\ Count(t, delta).cache = t.cache
      /\ Count(t, delta) \in Files
  BY <1>3 DEF Count, Files
<1>5. ASSUME used = DiskBytes(disk) PROVE Count(t, delta).used = DiskBytes(t.disk)
  BY <1>1, <1>2, <1>4, <1>5
<1> QED BY <1>4, <1>5 DEF Exact

LEMMA RecountExact ==
  ASSUME NEW t \in Files
  PROVE  Recount(t) \in Files /\ Exact(Recount(t))
         /\ Recount(t).disk = t.disk /\ Recount(t).cache = t.cache
<1>1. DiskBytes(t.disk) \in Nat
  BY DiskBytesType DEF Files
<1> QED BY <1>1 DEF Recount, Exact, Files

\* What a request may leave behind, alive or dead
Alive(i, s) == \E v, w \in Names : Owns(i, v) /\ Spares(i, v, w, s) /\ Settled(i, w, s)
Dead(i, s) == \E v, w \in Names : Owns(i, v) /\ Spares(i, v, w, s)

LEMMA OwnPost ==
  ASSUME IInv, up, NEW i \in Ids, NEW v \in Names, NEW w \in Names, NEW s, NEW A,
         Owns(i, v), Spares(i, v, w, s), Settled(i, w, s),
         \A m \in Names : s.cache[m].id = i => s.cache[m] = s.disk.post[w],
         s.disk.post[w].id = i \/ A # {} => \E m \in Names : s.cache[m].id = i,
         \A n \in A : Target(s.disk, n) = w
  PROVE  PostAgrees(s.disk, s.cache, A \cup PublicNames(s.cache, i), i)
<1>1. ASSUME NEW x \in s.disk.dirs, s.disk.post[x].id = i PROVE x = w
  BY <1>1, IdFacts DEF Spares, Moves, Owns
<1>2. ASSUME NEW x \in s.disk.dirs, s.disk.post[x].id = i
      PROVE  \E m \in Names : Target(s.disk, m) = x /\ s.cache[m] = s.disk.post[x]
  BY <1>1, <1>2 DEF Settled
<1>3. \A n \in Names : s.cache[n].id = i =>
        Target(s.disk, n) \in s.disk.dirs /\ s.disk.post[Target(s.disk, n)] = s.cache[n]
  BY DEF Settled
<1>4. \A n \in A \cup PublicNames(s.cache, i) :
        \E m \in Names : s.cache[m].id = i /\ Target(s.disk, n) = Target(s.disk, m)
  BY DEF Settled, PublicNames
<1> QED BY <1>2, <1>3, <1>4 DEF PostAgrees

LEMMA AgreesLess ==
  ASSUME NEW d, NEW c, NEW A, NEW B \in SUBSET A, NEW i, PostAgrees(d, c, A, i)
  PROVE  PostAgrees(d, c, B, i)
BY DEF PostAgrees

\* A state that spares the other posts, with what goes with it
LEMMA OutcomeHolds ==
  ASSUME IInv, up, NEW i \in Ids, NEW s, Becomes(s), Dead(i, s),
         up' = TRUE => Alive(i, s),
         up' = TRUE /\ ~ loose' => Exact(s) /\ ~ loose,
         i \in adrift' \/ PostAgrees(s.disk, s.cache, addresses'[i], i),
         up' \in BOOLEAN /\ loose' \in BOOLEAN,
         adrift \subseteq adrift' /\ adrift' \subseteq Ids /\ faults' \in 0 .. MaxFaults,
         i \in born' /\ born \subseteq born' /\ born' \subseteq Ids,
         addresses' \in [Ids -> SUBSET Names],
         \A j \in Ids \ {i} : addresses'[j] \subseteq addresses[j] \cup PublicNames(cache', j)
  PROVE  IInv'
<1>0. TypeOK /\ UsageIsExact
  BY DEF IInv
<1>2. disk' = s.disk /\ cache' = s.cache /\ used' = s.used
  BY DEF Becomes
<1>3. s \in Files /\ Plain(s.disk)
  BY DEF Dead, Spares
<1>4. /\ Distinct(s.disk)
      /\ \A n \in Names : {s.disk.post[n].id, s.cache[n].id} \cap Ids \subseteq born \cup {i}
      /\ \A j \in (Ids \ adrift) \ {i} :
           PostAgrees(s.disk, s.cache, addresses[j] \cup PublicNames(s.cache, j), j)
  BY Spared DEF Dead
<1>5. TypeOK'
  BY <1>0, <1>2, <1>3 DEF TypeOK, Files
<1>6. Plain(disk') /\ Distinct(disk')
  BY <1>2, <1>3, <1>4
<1>7. Known'
  BY <1>2, <1>4 DEF Known
<1>8. ASSUME up' PROVE RowsApart(disk', cache')
  BY <1>2, <1>5, <1>8, Spared DEF Alive, TypeOK
<1>9. ASSUME NEW j \in Ids \ adrift' PROVE PostAgrees(disk', cache', addresses'[j], j)
  <2>1. CASE j = i
    BY <1>2, <1>9, <2>1
  <2>2. CASE j # i
    <3>1. PostAgrees(s.disk, s.cache, addresses[j] \cup PublicNames(s.cache, j), j)
      BY <1>4, <1>9, <2>2
    <3>2. addresses'[j] \in SUBSET (addresses[j] \cup PublicNames(s.cache, j))
      BY <1>2, <2>2
    <3> QED BY <1>2, <3>1, <3>2, AgreesLess
  <2> QED BY <2>1, <2>2
<1>10. UsageIsExact'
  BY <1>0, <1>2, <1>5 DEF UsageIsExact, Exact, TypeOK
<1> QED BY <1>5, <1>6, <1>7, <1>8, <1>9, <1>10 DEF IInv

LEMMA RequestHolds ==
  ASSUME IInv, up, NEW i \in Ids, NEW o, Request(i, o),
         \A s \in o.done : Alive(i, s) /\ Exact(s)
           /\ (Becomes(s) => i \in adrift' \/ PostAgrees(s.disk, s.cache, addresses'[i], i)),
         \A s \in o.kept : Alive(i, s) /\ Exact(s),
         \A s \in o.fails : Alive(i, s),
         \A s \in o.dies : Dead(i, s),
         i \in born' /\ born \subseteq born' /\ born' \subseteq Ids,
         addresses' \in [Ids -> SUBSET Names],
         \A j \in Ids \ {i} : addresses'[j] \subseteq addresses[j] \cup PublicNames(cache', j)
  PROVE  IInv'
<1>0. TypeOK
  BY DEF IInv
<1>1. PICK s : /\ Becomes(s) /\ Dead(i, s)
               /\ up' = TRUE => Alive(i, s)
               /\ up' = TRUE /\ ~ loose' => Exact(s) /\ ~ loose
               /\ i \in adrift' \/ PostAgrees(s.disk, s.cache, addresses'[i], i)
               /\ up' \in BOOLEAN /\ loose' \in BOOLEAN
               /\ adrift \subseteq adrift' /\ adrift' \subseteq Ids /\ faults' \in 0 .. MaxFaults
  <2>1. CASE Succeeds(o)
    <3>1. PICK s \in o.done : Becomes(s)
      BY <2>1 DEF Succeeds
    <3>2. UNCHANGED <<up, loose, faults, adrift>>
      BY <2>1 DEF Succeeds
    <3>3. Alive(i, s) /\ Exact(s) /\ (i \in adrift' \/ PostAgrees(s.disk, s.cache, addresses'[i], i))
      BY <3>1
    <3>4. Dead(i, s)
      BY <3>3 DEF Alive, Dead
    <3>5. /\ up' \in BOOLEAN /\ loose' \in BOOLEAN /\ (~ loose' => ~ loose)
          /\ adrift \subseteq adrift' /\ adrift' \subseteq Ids /\ faults' \in 0 .. MaxFaults
      BY <1>0, <3>2 DEF TypeOK
    <3> QED BY <3>1, <3>3, <3>4, <3>5
  <2>2. CASE Fails(i, o)
    <3>1. adrift' \subseteq Ids /\ i \in adrift' /\ adrift \subseteq adrift' /\ faults' \in 0 .. MaxFaults
      <4>1. faults < MaxFaults /\ faults' = faults + 1 /\ adrift' = adrift \cup {i}
        BY <2>2 DEF Fails
      <4>2. faults \in 0 .. MaxFaults /\ adrift \subseteq Ids /\ MaxFaults \in Nat
        BY <1>0, ContentAssumption DEF TypeOK
      <4> QED BY <4>1, <4>2
    <3>2. CASE \E s \in o.kept : Becomes(s) /\ UNCHANGED <<up, loose>>
      BY <1>0, <3>1, <3>2 DEF TypeOK, Alive, Dead
    <3>3. CASE \E s \in o.fails : Becomes(s) /\ loose' = TRUE /\ UNCHANGED up
      BY <1>0, <3>1, <3>3 DEF TypeOK, Alive, Dead
    <3>4. CASE \E s \in o.dies : Crashes /\ Becomes(s) /\ up' = FALSE /\ UNCHANGED loose
      BY <1>0, <3>1, <3>4 DEF TypeOK
    <3> QED BY <2>2, <3>2, <3>3, <3>4 DEF Fails
  <2> QED BY <2>1, <2>2 DEF Request
<1> QED BY <1>1, OutcomeHolds
-----------------------------------------------------------------------------
(* Writing files and rows.                                                  *)

LEMMA NowIs ==
  ASSUME TypeOK
  PROVE  Now \in Files /\ Now.disk = disk /\ Now.cache = cache /\ Now.used = used
BY DEF Now, Files, TypeOK

LEMMA PutPostIs ==
  ASSUME NEW s \in Files, NEW n \in Names, NEW p \in Posts \cup {NoPost, Torn},
         NEW w \in Names, w = Target(s.disk, n)
  PROVE  /\ PutPost(s, n, p) \in Files
         /\ PutPost(s, n, p).cache = s.cache /\ PutPost(s, n, p).used = s.used
         /\ PutPost(s, n, p).disk.link = s.disk.link
         /\ PutPost(s, n, p).disk.dirs = s.disk.dirs \cup {w}
         /\ PutPost(s, n, p).disk.post = [s.disk.post EXCEPT ![w] = p]
         /\ PutPost(s, n, p).disk.assets = s.disk.assets
BY DEF PutPost, Files, Disks

LEMMA PutAssetsIs ==
  ASSUME NEW s \in Files, NEW n \in Names, NEW A \in SUBSET AssetNames,
         NEW w \in Names, w = Target(s.disk, n)
  PROVE  /\ PutAssets(s, n, A) \in Files
         /\ PutAssets(s, n, A).cache = s.cache /\ PutAssets(s, n, A).used = s.used
         /\ PutAssets(s, n, A).disk.link = s.disk.link
         /\ PutAssets(s, n, A).disk.dirs = s.disk.dirs \cup {w}
         /\ PutAssets(s, n, A).disk.post = s.disk.post
         /\ PutAssets(s, n, A).disk.assets = [s.disk.assets EXCEPT ![w] = A]
BY DEF PutAssets, Files, Disks

LEMMA PutRowIs ==
  ASSUME NEW s \in Files, NEW n \in Names, NEW p \in Posts \cup {NoPost}
  PROVE  /\ PutRow(s, n, p) \in Files
         /\ PutRow(s, n, p).disk = s.disk /\ PutRow(s, n, p).used = s.used
         /\ PutRow(s, n, p).cache = [s.cache EXCEPT ![n] = p]
BY DEF PutRow, Files

\* s differs from now only by what is in the directory w, which is perhaps new,
\* and by the row n; the post there and the rows changed are those of i
PutAt(i, n, w, s) ==
  /\ s \in Files /\ s.used = used
  /\ s.disk.link = disk.link /\ s.disk.dirs = disk.dirs \cup {w}
  /\ \A x \in Names \ {w} : s.disk.post[x] = disk.post[x] /\ s.disk.assets[x] = disk.assets[x]
  /\ s.disk.post[w].id \in {i, 0, -1}
  /\ \A m \in Names \ {n} : s.cache[m] = cache[m]
  /\ s.cache[n] = cache[n] \/ {s.cache[n].id, cache[n].id} \subseteq {0, i}
  /\ \A m \in Names : s.cache[m].id = i => m = n

LEMMA PutSpares ==
  ASSUME IInv, NEW i \in Ids, NEW n \in Names, NEW w \in Names, w = Target(disk, n),
         NEW s, PutAt(i, n, w, s)
  PROVE  /\ Spares(i, w, w, s) /\ Settled(i, w, s) /\ w \in s.disk.dirs
         /\ \A k \in Names : Target(s.disk, k) = Target(disk, k)
<1>1. /\ Plain(disk) /\ disk.link[w] = NoName /\ s \in Files
  BY TargetFacts DEF IInv, Plain, PutAt
<1>2. Acyclic(s.disk) /\ \A k \in Names : Target(s.disk, k) = Target(disk, k)
  BY <1>1, TargetSame DEF Plain, PutAt
<1>3. Plain(s.disk)
  BY <1>1, <1>2 DEF Plain, PutAt, Files
<1>4. Moves(disk, s.disk, w, w)
  <2>1. disk.dirs \in SUBSET Names
    BY <1>1 DEF Plain, Disks
  <2> QED BY <1>2, <2>1 DEF Moves, PutAt
<1>5. Settled(i, w, s) /\ w \in s.disk.dirs
  BY <1>2 DEF Settled, PutAt
<1>6. \A m \in Names : s.cache[m] = cache[m] \/ {s.cache[m].id, cache[m].id} \subseteq {0, i}
  BY DEF PutAt
<1> QED BY <1>1, <1>2, <1>3, <1>4, <1>5, <1>6 DEF Spares, PutAt

\* Counting does not touch files or rows
LEMMA CountedSpares ==
  ASSUME NEW i, NEW v, NEW w, NEW s, NEW t \in Files, t.disk = s.disk, t.cache = s.cache
  PROVE  /\ Spares(i, v, w, s) => Spares(i, v, w, t)
         /\ Settled(i, w, s) => Settled(i, w, t)
BY DEF Spares, Settled

\* An accurate count of a directory that was rewritten
LEMMA PutCounted ==
  ASSUME IInv, NEW i \in Ids, NEW n \in Names, NEW w \in Names, w = Target(disk, n),
         Owns(i, w), NEW t, PutAt(i, n, w, t),
         NEW delta, delta = DirBytes(t.disk, w) - DirBytes(disk, w)
  PROVE  /\ Alive(i, Count(t, delta)) /\ Exact(Count(t, delta))
         /\ Count(t, delta).disk = t.disk /\ Count(t, delta).cache = t.cache
         /\ Spares(i, w, w, Count(t, delta)) /\ Settled(i, w, Count(t, delta))
<1>1. Spares(i, w, w, t) /\ Settled(i, w, t)
  BY PutSpares
<1>2. t \in Files /\ t.used = used /\ Plain(t.disk) /\ Moves(disk, t.disk, w, w)
  BY <1>1 DEF Spares, PutAt
<1>3. /\ Count(t, delta) \in Files /\ Exact(Count(t, delta))
      /\ Count(t, delta).disk = t.disk /\ Count(t, delta).cache = t.cache
  BY <1>2, CountExact
<1> HIDE DEF Count
<1>4. Spares(i, w, w, Count(t, delta)) /\ Settled(i, w, Count(t, delta))
  BY <1>1, <1>3, CountedSpares
<1> QED BY <1>3, <1>4 DEF Alive

LEMMA PutAlive ==
  ASSUME IInv, NEW i \in Ids, NEW n \in Names, NEW w \in Names, w = Target(disk, n),
         Owns(i, w), NEW s, PutAt(i, n, w, s)
  PROVE  Alive(i, s) /\ Dead(i, s)
BY PutSpares DEF Alive, Dead

LEMMA FreeNamesFree ==
  ASSUME NEW d, NEW t \in Titles, NEW current, NEW n \in FreeNames(d, t, current)
  PROVE  n \in Names /\ (n = current \/ ~ Exists(d, n))
<1>1. PICK k \in 1 .. MaxSuffix : n = <<t, k>> /\ (<<t, k>> = current \/ ~ Exists(d, <<t, k>>))
  BY DEF FreeNames
<1> QED BY <1>1 DEF Names

-----------------------------------------------------------------------------
(* Creating a post.                                                         *)

LEMMA NewPost ==
  ASSUME IInv, up, NEW i \in Ids \ born, NEW n \in Names, NEW w, w = Target(disk, n), w \notin disk.dirs
  PROVE  /\ w \in Names /\ Owns(i, w) /\ DirBytes(disk, w) = 0
         /\ disk.post[w] = NoPost /\ disk.assets[w] = {}
         /\ \A m \in Names : cache[m].id # i
         /\ i \in adrift \/ addresses[i] = {}
<1>1. Plain(disk) /\ Known
  BY DEF IInv
<1>2. w \in Names
  BY <1>1, TargetFacts DEF Plain
<1>3. disk.post[w] = NoPost /\ disk.assets[w] = {}
  BY <1>1, <1>2 DEF Plain
<1>4. DirBytes(disk, w) = 0
  BY <1>3, IdFacts, FS_EmptySet DEF DirBytes, PostBytes
<1>5. \A m \in Names : cache[m].id # i
  BY <1>1 DEF Known
<1>6. ASSUME i \notin adrift PROVE addresses[i] = {}
  <2>1. PostAgrees(disk, cache, addresses[i], i)
    BY <1>6 DEF IInv
  <2> QED BY <1>5, <2>1 DEF PostAgrees
<1> QED BY <1>2, <1>3, <1>4, <1>5, <1>6, OwnsNew

\* The directory of a post that was created, also by an upload, and its row
LEMMA NewRow ==
  ASSUME IInv, up, NEW i \in Ids \ born, NEW n \in Names, NEW w, w = Target(disk, n), w \notin disk.dirs,
         NEW p \in Posts, p.id = i, cache[n] = NoPost, NEW s, PutAt(i, n, w, s)
  PROVE  PutAt(i, n, w, PutRow(s, n, p))
<1>1. s \in Files
  BY DEF PutAt
<1>2. PutRow(s, n, p) \in Files
      /\ PutRow(s, n, p).disk = s.disk /\ PutRow(s, n, p).used = s.used
      /\ PutRow(s, n, p).cache = [s.cache EXCEPT ![n] = p]
  BY <1>1, PutRowIs
<1> HIDE DEF PutRow
<1> QED BY <1>1, <1>2, IdFacts DEF PutAt, Files

\* The end of either request: the post is new, so it has no earlier address
LEMMA NewPostAgrees ==
  ASSUME IInv, up, NEW i \in Ids \ born, NEW n \in Names, NEW w, w = Target(disk, n), w \notin disk.dirs,
         NEW p \in Posts, p.id = i, NEW s, PutAt(i, n, w, s), s.disk.post[w] = p, s.cache[n] = p,
         cache' = s.cache, Publish(addresses), adrift \subseteq adrift'
  PROVE  i \in adrift' \/ PostAgrees(s.disk, s.cache, addresses'[i], i)
<1>1. w \in Names /\ Owns(i, w) /\ (i \in adrift \/ addresses[i] = {})
  BY NewPost
<1>2. addresses'[i] = addresses[i] \cup PublicNames(s.cache, i)
  BY DEF Publish
<1>3. Spares(i, w, w, s) /\ Settled(i, w, s)
  BY <1>1, PutSpares
<1>4. ASSUME addresses[i] = {} PROVE PostAgrees(s.disk, s.cache, {} \cup PublicNames(s.cache, i), i)
  <2>1. \A m \in Names : s.cache[m].id = i => s.cache[m] = s.disk.post[w]
    BY DEF PutAt
  <2>2. \E m \in Names : s.cache[m].id = i
    OBVIOUS
  <2>3. \A k \in {} : Target(s.disk, k) = w
    OBVIOUS
  <2> QED BY <1>1, <1>3, <2>1, <2>2, <2>3, OwnPost
<1> QED BY <1>1, <1>2, <1>4

\* What the other posts' addresses become
LEMMA PublishOthers ==
  ASSUME TypeOK, cache' \in [Names -> Posts \cup {NoPost}], NEW i,
         NEW known, known \in [Ids -> SUBSET Names], \A j \in Ids \ {i} : known[j] = addresses[j],
         Publish(known)
  PROVE  /\ addresses' \in [Ids -> SUBSET Names]
         /\ \A j \in Ids \ {i} : addresses'[j] \subseteq addresses[j] \cup PublicNames(cache', j)
BY DEF Publish, PublicNames

LEMMA RequestRows ==
  ASSUME NEW i, NEW o, Request(i, o),
         \A s \in o.done \cup o.kept \cup o.fails \cup o.dies : Dead(i, s)
  PROVE  /\ cache' \in [Names -> Posts \cup {NoPost}]
         /\ adrift \subseteq adrift'
<1>1. PICK s \in o.done \cup o.kept \cup o.fails \cup o.dies : Becomes(s)
  BY DEF Request, Succeeds, Fails
<1>2. s \in Files
  BY <1>1 DEF Dead, Spares
<1> QED BY <1>1, <1>2 DEF Becomes, Files, Request, Succeeds, Fails

\* Each outcome rewrites the directory w and perhaps the row n
LEMMA NewOutcomes ==
  ASSUME IInv, up, NEW i \in Ids \ born, NEW n \in Names, NEW w, w = Target(disk, n), w \notin disk.dirs,
         NEW p \in Posts, p.id = i, born' = born \cup {i}, Publish(addresses),
         NEW o, Request(i, o), o.kept = {},
         \A s \in o.fails \cup o.dies : PutAt(i, n, w, s),
         \A s \in o.done : \E t : PutAt(i, n, w, t) /\ s = Count(t, DirBytes(t.disk, w))
                             /\ t.disk.post[w] = p /\ t.cache[n] = p
  PROVE  IInv'
<1>1. w \in Names /\ Owns(i, w) /\ DirBytes(disk, w) = 0 /\ TypeOK
  BY NewPost DEF IInv
<1>2. \A s \in o.fails \cup o.dies : Alive(i, s) /\ Dead(i, s)
  BY <1>1, PutAlive
<1>3. ASSUME NEW s \in o.done
      PROVE  /\ Alive(i, s) /\ Exact(s) /\ Dead(i, s)
             /\ Becomes(s) /\ adrift \subseteq adrift' =>
                  i \in adrift' \/ PostAgrees(s.disk, s.cache, addresses'[i], i)
  <2>1. PICK t : PutAt(i, n, w, t) /\ s = Count(t, DirBytes(t.disk, w))
                   /\ t.disk.post[w] = p /\ t.cache[n] = p
    OBVIOUS
  <2>2. DirBytes(t.disk, w) = DirBytes(t.disk, w) - DirBytes(disk, w)
    <3>1. DirBytes(t.disk, w) \in Nat
      BY <1>1, <2>1, DirBytesType DEF PutAt, Files
    <3> QED BY <1>1, <3>1
  <2>3. /\ Alive(i, s) /\ Exact(s) /\ s.disk = t.disk /\ s.cache = t.cache
        /\ Spares(i, w, w, s)
    BY <1>1, <2>1, <2>2, PutCounted
  <2>4. ASSUME Becomes(s), adrift \subseteq adrift'
        PROVE  i \in adrift' \/ PostAgrees(s.disk, s.cache, addresses'[i], i)
    <3>1. cache' = t.cache
      BY <2>3, <2>4 DEF Becomes
    <3>2. i \in adrift' \/ PostAgrees(t.disk, t.cache, addresses'[i], i)
      BY <2>1, <2>4, <3>1, NewPostAgrees
    <3> QED BY <2>3, <3>2
  <2> QED BY <2>3, <2>4 DEF Spares, Dead, Alive
<1>4. /\ cache' \in [Names -> Posts \cup {NoPost}] /\ adrift \subseteq adrift'
  BY <1>2, <1>3, RequestRows
<1>5. /\ addresses' \in [Ids -> SUBSET Names]
      /\ \A j \in Ids \ {i} : addresses'[j] \subseteq addresses[j] \cup PublicNames(cache', j)
  BY <1>1, <1>4, PublishOthers DEF TypeOK
<1>6. i \in born' /\ born \subseteq born' /\ born' \subseteq Ids
  BY <1>1 DEF TypeOK
<1> QED BY <1>2, <1>3, <1>4, <1>5, <1>6, RequestHolds

\* The directory w holds the post i or none, and only the row n is that post's
Only(i, n, w) ==
  disk.post[w].id \in {i, 0, -1} /\ \A m \in Names : cache[m].id = i => m = n

\* Wrote what s had, and p or A
WrotePost(i, n, w, s, t, p) ==
  /\ PutAt(i, n, w, t) /\ t.cache = s.cache
  /\ t.disk.post[w] = p /\ t.disk.assets[w] = s.disk.assets[w]
WroteAssets(i, n, w, s, t, A) ==
  /\ PutAt(i, n, w, t) /\ t.cache = s.cache
  /\ t.disk.post[w] = s.disk.post[w] /\ t.disk.assets[w] = A

LEMMA NearNow ==
  ASSUME IInv, NEW i \in Ids, NEW n \in Names, NEW w \in Names, w = Target(disk, n),
         Only(i, n, w), NEW s, s = Now \/ PutAt(i, n, w, s)
  PROVE  /\ s \in Files /\ s.used = used /\ w = Target(s.disk, n)
         /\ s.disk.link = disk.link /\ s.disk.dirs \cup {w} = disk.dirs \cup {w}
         /\ \A x \in Names \ {w} : s.disk.post[x] = disk.post[x] /\ s.disk.assets[x] = disk.assets[x]
         /\ s.disk.post[w].id \in {i, 0, -1}
         /\ \A m \in Names \ {n} : s.cache[m] = cache[m]
         /\ s.cache[n] = cache[n] \/ {s.cache[n].id, cache[n].id} \subseteq {0, i}
         /\ \A m \in Names : s.cache[m].id = i => m = n
         /\ s.disk.post \in [Names -> Posts \cup {NoPost, Torn}]
         /\ s.disk.assets \in [Names -> SUBSET AssetNames]
<1>1. /\ s \in Files /\ s.used = used
      /\ s.disk.link = disk.link /\ s.disk.dirs \cup {w} = disk.dirs \cup {w}
      /\ \A x \in Names \ {w} : s.disk.post[x] = disk.post[x] /\ s.disk.assets[x] = disk.assets[x]
      /\ s.disk.post[w].id \in {i, 0, -1}
      /\ \A m \in Names \ {n} : s.cache[m] = cache[m]
      /\ s.cache[n] = cache[n] \/ {s.cache[n].id, cache[n].id} \subseteq {0, i}
      /\ \A m \in Names : s.cache[m].id = i => m = n
  <2>1. CASE s = Now
    <3>1. Now \in Files /\ Now.disk = disk /\ Now.cache = cache /\ Now.used = used
      BY NowIs DEF IInv
    <3> QED BY <2>1, <3>1 DEF Only
  <2>2. CASE PutAt(i, n, w, s)
    BY <2>2 DEF PutAt
  <2> QED BY <2>1, <2>2
<1>2. w = Target(s.disk, n)
  <2>1. Acyclic(disk)
    BY DEF IInv, Plain
  <2> QED BY <1>1, <2>1, TargetSame
<1>3. s.disk.post \in [Names -> Posts \cup {NoPost, Torn}]
      /\ s.disk.assets \in [Names -> SUBSET AssetNames]
  BY <1>1 DEF Files, Disks
<1> QED BY <1>1, <1>2, <1>3

LEMMA PutFile ==
  ASSUME IInv, NEW i \in Ids, NEW n \in Names, NEW w \in Names, w = Target(disk, n),
         Only(i, n, w), NEW s, s = Now \/ PutAt(i, n, w, s),
         NEW p \in Posts \cup {NoPost, Torn}, p.id \in {i, 0, -1}
  PROVE  WrotePost(i, n, w, s, PutPost(s, n, p), p)
<1> DEFINE t == PutPost(s, n, p)
<1>1. s \in Files /\ w = Target(s.disk, n)
  BY NearNow
<1>2. /\ t \in Files /\ t.cache = s.cache /\ t.used = s.used
      /\ t.disk.link = s.disk.link /\ t.disk.dirs = s.disk.dirs \cup {w}
      /\ t.disk.post = [s.disk.post EXCEPT ![w] = p] /\ t.disk.assets = s.disk.assets
  BY <1>1, PutPostIs
<1> HIDE DEF t
<1>3. t.disk.post[w] = p /\ \A x \in Names \ {w} : t.disk.post[x] = s.disk.post[x]
  <2>1. s.disk.post \in [Names -> Posts \cup {NoPost, Torn}]
    BY NearNow
  <2> QED BY <1>2, <2>1
<1>4. PutAt(i, n, w, t)
  BY <1>2, <1>3, NearNow DEF PutAt
<1>5. WrotePost(i, n, w, s, t, p)
  BY <1>2, <1>3, <1>4 DEF WrotePost
<1> QED BY <1>5 DEF t

LEMMA PutFiles ==
  ASSUME IInv, NEW i \in Ids, NEW n \in Names, NEW w \in Names, w = Target(disk, n),
         Only(i, n, w), NEW s, s = Now \/ PutAt(i, n, w, s),
         NEW A \in SUBSET AssetNames
  PROVE  WroteAssets(i, n, w, s, PutAssets(s, n, A), A)
<1> DEFINE t == PutAssets(s, n, A)
<1>1. s \in Files /\ w = Target(s.disk, n)
  BY NearNow
<1>2. /\ t \in Files /\ t.cache = s.cache /\ t.used = s.used
      /\ t.disk.link = s.disk.link /\ t.disk.dirs = s.disk.dirs \cup {w}
      /\ t.disk.post = s.disk.post /\ t.disk.assets = [s.disk.assets EXCEPT ![w] = A]
  BY <1>1, PutAssetsIs
<1> HIDE DEF t
<1>3. t.disk.assets[w] = A /\ \A x \in Names \ {w} : t.disk.assets[x] = s.disk.assets[x]
  <2>1. s.disk.assets \in [Names -> SUBSET AssetNames]
    BY NearNow
  <2> QED BY <1>2, <2>1
<1>4. PutAt(i, n, w, t)
  BY <1>2, <1>3, NearNow DEF PutAt
<1>5. WroteAssets(i, n, w, s, t, A)
  BY <1>2, <1>3, <1>4 DEF WroteAssets
<1> QED BY <1>5 DEF t

LEMMA CreatePostHolds ==
  ASSUME IInv, NEW i \in Ids, CreatePost(i)
  PROVE  IInv'
<1>1. i \notin born /\ up /\ born' = born \cup {i} /\ Publish(addresses)
  BY DEF CreatePost, NextId
<1>2. PICK t \in Titles, draft \in BOOLEAN :
        \E n \in FreeNames(disk, t, NoName) :
          Request(i, Created(n, [id |-> i, title |-> t, draft |-> draft]))
  BY DEF CreatePost
<1> DEFINE p == [id |-> i, title |-> t, draft |-> draft]
<1>3. PICK n \in FreeNames(disk, t, NoName) : Request(i, Created(n, p))
  BY <1>2
<1> DEFINE w == Target(disk, n)
<1>4. n \in Names /\ w \notin disk.dirs
  BY FreeNamesFree, NoNameIsNoName DEF Exists
<1>5. p \in Posts /\ p.id = i
  BY DEF Posts
<1> HIDE DEF p
<1>6. cache[n] = NoPost
  BY <1>3 DEF Created, Outcomes, Request, Succeeds, Fails
<1> DEFINE written == PutPost(Now, n, p)
           saved == PutRow(written, n, p)
<1>7. Created(n, p) = Outcomes({Count(saved, PostBytes(p))}, {},
                        {PutPost(Now, n, NoPost), PutPost(Now, n, Torn), written},
                        {written, saved})
  BY <1>6 DEF Created
<1>8. w \in Names /\ disk.post[w] = NoPost /\ disk.assets[w] = {} /\ \A m \in Names : cache[m].id # i
  BY <1>1, <1>4, NewPost
<1>9. /\ \A q \in {NoPost, Torn, p} : WrotePost(i, n, w, Now, PutPost(Now, n, q), q)
      /\ PutAt(i, n, w, written) /\ written.disk.post[w] = p /\ written.disk.assets[w] = {}
  <2>w. w = Target(disk, n)
    OBVIOUS
  <2>1. Only(i, n, w)
    BY <1>8, IdFacts DEF Only
  <2>2. Now.disk.assets[w] = {}
    BY <1>8, NowIs DEF IInv
  <2>3. \A q \in {NoPost, Torn, p} : q \in Posts \cup {NoPost, Torn} /\ q.id \in {i, 0, -1}
    BY <1>5, IdFacts
  <2> HIDE DEF w
  <2>4. ASSUME NEW q \in {NoPost, Torn, p} PROVE WrotePost(i, n, w, Now, PutPost(Now, n, q), q)
    BY <1>4, <1>8, <2>w, <2>1, <2>3, PutFile
  <2> QED BY <2>2, <2>4 DEF WrotePost
<1>10. PutAt(i, n, w, saved)
  BY <1>1, <1>4, <1>5, <1>6, <1>9, NewRow
<1>11. saved.disk = written.disk /\ saved.cache[n] = p
  <2>1. written \in Files
    BY <1>9 DEF PutAt
  <2>2. saved.disk = written.disk /\ saved.cache = [written.cache EXCEPT ![n] = p]
    BY <1>4, <1>5, <2>1, PutRowIs
  <2> QED BY <1>4, <2>1, <2>2 DEF Files
<1>12. DirBytes(saved.disk, w) = PostBytes(p)
  <2>1. Cardinality({}) = 0 /\ PostBytes(p) \in 0 .. 2
    BY <1>5, FS_EmptySet, PostBytesType
  <2>2. saved.disk.post[w] = p /\ saved.disk.assets[w] = {}
    BY <1>9, <1>11
  <2> HIDE DEF saved, w
  <2> QED BY <2>1, <2>2 DEF DirBytes
<1> HIDE DEF written, saved, w
<1> DEFINE o == Created(n, p)
<1>13. /\ o.kept = {}
       /\ \A s \in o.fails \cup o.dies : PutAt(i, n, w, s)
       /\ \A s \in o.done : s = Count(saved, DirBytes(saved.disk, w))
  BY <1>7, <1>9, <1>10, <1>12 DEF Outcomes, written, WrotePost
<1>14. saved.disk.post[w] = p
  BY <1>9, <1>11
<1> HIDE DEF o
<1>15. Request(i, o) /\ w = Target(disk, n)
  BY <1>3 DEF o, w
<1> QED BY <1>1, <1>4, <1>5, <1>10, <1>11, <1>13, <1>14, <1>15, NewOutcomes

LEMMA UploadPostHolds ==
  ASSUME IInv, NEW i \in Ids, UploadPost(i)
  PROVE  IInv'
<1>1. i \notin born /\ up /\ born' = born \cup {i} /\ Publish(addresses)
  BY DEF UploadPost, NextId
<1>2. PICK t \in Titles, draft \in BOOLEAN, A \in SUBSET AssetNames :
        \E n \in FreeNames(disk, t, NoName) :
          Request(i, Uploaded(n, [id |-> i, title |-> t, draft |-> draft], A))
  BY DEF UploadPost
<1> DEFINE p == [id |-> i, title |-> t, draft |-> draft]
<1>3. PICK n \in FreeNames(disk, t, NoName) : Request(i, Uploaded(n, p, A))
  BY <1>2
<1> DEFINE w == Target(disk, n)
<1>4. n \in Names /\ w \notin disk.dirs
  BY FreeNamesFree, NoNameIsNoName DEF Exists
<1>5. p \in Posts /\ p.id = i
  BY DEF Posts
<1> HIDE DEF p
<1>6. disk.link[n] = NoName /\ cache[n] = NoPost
  BY <1>3 DEF Uploaded, Outcomes, Request, Succeeds, Fails
<1> DEFINE withAssets == PutAssets(Now, n, A)
           written == PutPost(withAssets, n, p)
           torn == PutPost(Now, n, Torn)
           saved == PutRow(written, n, p)
           delta == PostBytes(p) + Cardinality(A)
<1> DEFINE o == Uploaded(n, p, A)
<1>7. /\ o.kept = {} /\ \A s \in o.done : s = Count(saved, delta)
      /\ \A s \in o.fails : s \in {torn, written} \/ \E a \in A : s = PutAssets(Now, n, {a})
      /\ \A s \in o.dies : s \in {withAssets, written, saved}
  <2>1. ~ (disk.link[n] # NoName \/ cache[n] # NoPost)
    BY <1>6
  <2> HIDE DEF w, p
  <2>2. o = Outcomes({Count(saved, delta)}, {}, {torn, written} \cup {PutAssets(Now, n, {a}) : a \in A},
                     {withAssets, written, saved})
    BY <2>1 DEF Uploaded
  <2> HIDE DEF o, withAssets, written, torn, saved, delta
  <2> QED BY ONLY <2>2 DEF Outcomes
<1>8. w \in Names /\ disk.post[w] = NoPost /\ \A m \in Names : cache[m].id # i
  BY <1>1, <1>4, NewPost
<1>w. w = Target(disk, n)
  OBVIOUS
<1> HIDE DEF w, withAssets, written, torn, saved, delta, o
<1>9. Only(i, n, w)
  BY <1>8, IdFacts DEF Only
<1>10. WroteAssets(i, n, w, Now, withAssets, A) /\ PutAt(i, n, w, withAssets)
  <2>1. WroteAssets(i, n, w, Now, withAssets, A)
    BY <1>4, <1>8, <1>9, <1>w, PutFiles DEF withAssets
  <2> QED BY <2>1 DEF WroteAssets
<1>11. \A a \in A : PutAt(i, n, w, PutAssets(Now, n, {a}))
  <2>1. ASSUME NEW a \in A PROVE PutAt(i, n, w, PutAssets(Now, n, {a}))
    <3>1. {a} \in SUBSET AssetNames
      OBVIOUS
    <3>2. WroteAssets(i, n, w, Now, PutAssets(Now, n, {a}), {a})
      BY <1>4, <1>8, <1>9, <1>w, <3>1, PutFiles
    <3> QED BY <3>2 DEF WroteAssets
  <2> QED BY <2>1
<1>12. WrotePost(i, n, w, withAssets, written, p)
  BY <1>4, <1>5, <1>8, <1>9, <1>10, <1>w, PutFile DEF written
<1>13. WrotePost(i, n, w, Now, torn, Torn)
  BY <1>4, <1>8, <1>9, <1>10, <1>w, IdFacts, PutFile DEF torn
<1>14. PutAt(i, n, w, written) /\ PutAt(i, n, w, torn)
       /\ written.disk.post[w] = p /\ written.disk.assets[w] = A
  BY <1>10, <1>12, <1>13 DEF WrotePost, WroteAssets
<1>15. PutAt(i, n, w, saved)
  BY <1>1, <1>4, <1>5, <1>6, <1>14, <1>w, NewRow DEF saved
<1>16. saved.disk = written.disk /\ saved.cache[n] = p
  <2>1. written \in Files
    BY <1>14 DEF PutAt
  <2>2. saved.disk = written.disk /\ saved.cache = [written.cache EXCEPT ![n] = p]
    BY <1>4, <1>5, <2>1, PutRowIs DEF saved
  <2> QED BY <1>4, <2>1, <2>2 DEF Files
<1>17. DirBytes(saved.disk, w) = delta
  BY <1>14, <1>16 DEF DirBytes, delta
<1>18. /\ o.kept = {}
       /\ \A s \in o.fails \cup o.dies : PutAt(i, n, w, s)
       /\ \A s \in o.done : s = Count(saved, DirBytes(saved.disk, w))
  BY <1>7, <1>10, <1>11, <1>14, <1>15, <1>17
<1>19. saved.disk.post[w] = p
  BY <1>14, <1>16
<1>20. Request(i, o)
  BY <1>3 DEF o
<1> QED BY <1>1, <1>4, <1>5, <1>w, <1>15, <1>16, <1>18, <1>19, <1>20, NewOutcomes

-----------------------------------------------------------------------------
(* Assets: the post and its rows stay.                                      *)

LEMMA AssetsAgree ==
  ASSUME IInv, NEW i \in Ids, NEW n \in Names, NEW w \in disk.dirs, w = Target(disk, n),
         NEW s, NEW A, WroteAssets(i, n, w, Now, s, A), PostAgrees(disk, cache, addresses[i], i)
  PROVE  PostAgrees(s.disk, s.cache, addresses[i], i)
<1>1. PutAt(i, n, w, s) /\ s.cache = cache /\ s.disk.post[w] = disk.post[w]
  BY DEF WroteAssets, Now
<1>2. w \in Names /\ disk.dirs \in SUBSET Names /\ addresses[i] \in SUBSET Names
  BY DEF IInv, TypeOK, Disks
<1>3. \A k \in Names : Target(s.disk, k) = Target(disk, k)
  BY <1>1, <1>2, PutSpares
<1>4. s.disk.dirs = disk.dirs /\ \A x \in Names : s.disk.post[x] = disk.post[x]
  BY <1>1, <1>2 DEF PutAt
<1>5. \A x \in Names : s.cache[x] = cache[x]
  BY <1>1
<1>6. ASSUME NEW k \in Names, s.cache[k].id = i
      PROVE  Target(s.disk, k) \in s.disk.dirs /\ s.disk.post[Target(s.disk, k)] = s.cache[k]
  BY <1>2, <1>3, <1>4, <1>5, <1>6 DEF PostAgrees
<1>7. ASSUME NEW x \in s.disk.dirs, s.disk.post[x].id = i
      PROVE  \E m \in Names : Target(s.disk, m) = x /\ s.cache[m] = s.disk.post[x]
  BY <1>2, <1>3, <1>4, <1>5, <1>7 DEF PostAgrees
<1>8. ASSUME NEW k \in addresses[i]
      PROVE  \E m \in Names : s.cache[m].id = i /\ Target(s.disk, k) = Target(s.disk, m)
  BY <1>2, <1>3, <1>5 DEF PostAgrees
<1> QED BY <1>6, <1>7, <1>8 DEF PostAgrees

LEMMA AssetRequestHolds ==
  ASSUME IInv, NEW n \in Names, NEW done \in SUBSET (SUBSET AssetNames),
         NEW partial \in SUBSET (SUBSET AssetNames), AssetRequest(n, done, partial)
  PROVE  IInv'
<1> DEFINE w == Target(disk, n)
           i == cache[n].id
           With(A) == Count(PutAssets(Now, n, A), Cardinality(A) - Cardinality(disk.assets[w]))
           o == Outcomes(IF w \in disk.dirs THEN {With(A) : A \in done} ELSE {},
                         IF w \in disk.dirs THEN {With(A) : A \in partial} ELSE {},
                         {}, IF w \in disk.dirs THEN {With(A) : A \in done \cup partial} ELSE {})
<1>1. up /\ cache[n] # NoPost /\ Request(i, o) /\ UNCHANGED <<born, addresses>>
  BY DEF AssetRequest
<1>2. /\ i \in Ids /\ i \in born /\ w \in disk.dirs /\ Owns(i, w)
      /\ Only(i, n, w)
  BY <1>1, OwnsRow DEF Only
<1>3. disk \in Disks /\ w \in Names /\ TypeOK
  BY <1>2 DEF IInv, Plain, Disks
<1>w. w = Target(disk, n)
  OBVIOUS
<1>4. /\ o.fails = {}
      /\ \A s \in o.done \cup o.kept \cup o.dies : \E A \in SUBSET AssetNames : s = With(A)
  <2> HIDE DEF w, i, With
  <2> QED BY <1>2 DEF Outcomes
<1> HIDE DEF w, i, o
<1>5. ASSUME NEW A \in SUBSET AssetNames
      PROVE  /\ Alive(i, With(A)) /\ Dead(i, With(A)) /\ Exact(With(A))
             /\ i \in adrift \/ PostAgrees(With(A).disk, With(A).cache, addresses[i], i)
  <2> DEFINE t == PutAssets(Now, n, A)
             delta == Cardinality(A) - Cardinality(disk.assets[w])
  <2>1. WroteAssets(i, n, w, Now, t, A)
    BY <1>2, <1>3, <1>w, PutFiles
  <2> HIDE DEF t
  <2>2. PutAt(i, n, w, t) /\ t.disk.post[w] = disk.post[w] /\ t.disk.assets[w] = A
    BY <2>1, NowIs, <1>3 DEF WroteAssets
  <2>3. delta = DirBytes(t.disk, w) - DirBytes(disk, w)
    <3>1. PostBytes(disk.post[w]) \in 0 .. 2 /\ Cardinality(disk.assets[w]) \in Nat
      BY <1>3, DirBytesType
    <3>2. Cardinality(A) \in Nat
      BY ContentAssumption, FS_Subset, FS_CardinalityType
    <3>3. DirBytes(t.disk, w) = PostBytes(disk.post[w]) + Cardinality(A)
          /\ DirBytes(disk, w) = PostBytes(disk.post[w]) + Cardinality(disk.assets[w])
      BY <2>2 DEF DirBytes
    <3> QED BY <3>1, <3>2, <3>3
  <2> HIDE DEF delta
  <2>4. /\ Alive(i, Count(t, delta)) /\ Exact(Count(t, delta))
        /\ Count(t, delta).disk = t.disk /\ Count(t, delta).cache = t.cache
    BY <1>2, <1>3, <1>w, <2>2, <2>3, PutCounted
  <2>5. i \in adrift \/ PostAgrees(t.disk, t.cache, addresses[i], i)
    <3>1. i \notin adrift => PostAgrees(disk, cache, addresses[i], i)
      BY <1>2 DEF IInv
    <3> QED BY <1>2, <1>w, <2>1, <3>1, AssetsAgree
  <2>6. With(A) = Count(t, delta)
    BY DEF t, delta
  <2> HIDE DEF With
  <2> QED BY <2>4, <2>5, <2>6 DEF Alive, Dead
<1> HIDE DEF With
<1>6. /\ \A s \in o.done \cup o.kept \cup o.dies :
           /\ Alive(i, s) /\ Dead(i, s) /\ Exact(s)
           /\ i \in adrift \/ PostAgrees(s.disk, s.cache, addresses[i], i)
  BY <1>4, <1>5
<1>7. adrift \subseteq adrift'
  BY <1>1, <1>4, <1>6, RequestRows
<1>8. /\ addresses' \in [Ids -> SUBSET Names] /\ born' \subseteq Ids /\ addresses' = addresses
      /\ i \in born' /\ born \subseteq born'
  BY <1>1, <1>2, <1>3 DEF TypeOK
<1>9. \A j \in Ids \ {i} : addresses'[j] \subseteq addresses[j] \cup PublicNames(cache', j)
  BY <1>8
<1>10. \A s \in o.done : Becomes(s) => i \in adrift' \/ PostAgrees(s.disk, s.cache, addresses'[i], i)
  BY <1>6, <1>7, <1>8
<1> QED BY <1>1, <1>2, <1>4, <1>6, <1>8, <1>9, <1>10, RequestHolds

LEMMA AssetsHold ==
  ASSUME IInv, NEW n \in Names,
         \/ UploadAssets(n)
         \/ \E x \in AssetNames : DeleteAsset(n, x) \/ \E y \in AssetNames : RenameAsset(n, x, y)
  PROVE  IInv'
<1> DEFINE old == disk.assets[Target(disk, n)]
<1>1. old \in SUBSET AssetNames
  BY TargetFacts DEF IInv, Plain, Disks
<1>2. CASE UploadAssets(n)
  <2>1. PICK A \in SUBSET AssetNames :
          AssetRequest(n, {old \cup A}, {old \cup B : B \in (SUBSET A) \ {{}, A}})
    BY <1>2 DEF UploadAssets
  <2> HIDE DEF old
  <2> QED BY <1>1, <2>1, AssetRequestHolds
<1>3. CASE \E x \in AssetNames : DeleteAsset(n, x)
  <2>1. PICK x \in AssetNames : AssetRequest(n, {old \ {x}}, {})
    BY <1>3 DEF DeleteAsset
  <2> HIDE DEF old
  <2> QED BY <1>1, <2>1, AssetRequestHolds
<1>4. CASE \E x, y \in AssetNames : RenameAsset(n, x, y)
  <2>1. PICK x \in AssetNames, y \in AssetNames : AssetRequest(n, {(old \ {x}) \cup {y}}, {})
    BY <1>4 DEF RenameAsset
  <2> HIDE DEF old
  <2> QED BY <1>1, <2>1, AssetRequestHolds
<1> QED BY <1>2, <1>3, <1>4

-----------------------------------------------------------------------------
(* Editing and renaming.                                                    *)

LEMMA RowPut ==
  ASSUME NEW i \in Ids, NEW n \in Names, NEW w, NEW s, PutAt(i, n, w, s), cache[n].id \in {0, i},
         NEW p \in Posts \cup {NoPost}, p.id \in {0, i}
  PROVE  /\ PutAt(i, n, w, PutRow(s, n, p)) /\ PutRow(s, n, p).disk = s.disk
         /\ PutRow(s, n, p).cache[n] = p
<1>1. s \in Files
  BY DEF PutAt
<1> DEFINE t == PutRow(s, n, p)
<1>2. t \in Files /\ t.disk = s.disk /\ t.used = s.used /\ t.cache = [s.cache EXCEPT ![n] = p]
  BY <1>1, PutRowIs
<1> HIDE DEF t
<1>3. t.cache[n] = p /\ \A m \in Names \ {n} : t.cache[m] = s.cache[m]
  BY <1>1, <1>2 DEF Files
<1>4. PutAt(i, n, w, t)
  BY <1>2, <1>3 DEF PutAt
<1> QED BY <1>2, <1>3, <1>4 DEF t

\* All addresses of a post lead where its row does
LEMMA OldAddresses ==
  ASSUME IInv, up, NEW n \in Names, cache[n] # NoPost, cache[n].id \notin adrift
  PROVE  \A k \in addresses[cache[n].id] : k \in Names /\ Target(disk, k) = Target(disk, n)
<1> DEFINE i == cache[n].id
<1>1. i \in Ids /\ \A m \in Names : cache[m].id = i => m = n
  BY OwnsRow
<1>2. PostAgrees(disk, cache, addresses[i], i) /\ addresses[i] \in SUBSET Names
  BY <1>1 DEF IInv, TypeOK
<1> QED BY <1>1, <1>2 DEF PostAgrees

\* What writing the post of the row n comes to
LEMMA RowWritten ==
  ASSUME IInv, up, NEW n \in Names, cache[n] # NoPost, NEW w, w = Target(disk, n),
         NEW p \in Posts \cup {NoPost, Torn}, p.id \in {cache[n].id, 0, -1}
  PROVE  /\ PutAt(cache[n].id, n, w, PutPost(Now, n, p)) /\ PutPost(Now, n, p).cache = cache
         /\ PutPost(Now, n, p).disk.post[w] = p
         /\ PutPost(Now, n, p).disk.assets[w] = disk.assets[w]
         /\ PutPost(Now, n, p).disk.dirs = disk.dirs
         /\ DirBytes(PutPost(Now, n, p).disk, w) - DirBytes(disk, w)
              = PostBytes(p) - PostBytes(disk.post[w])
<1> DEFINE i == cache[n].id
           t == PutPost(Now, n, p)
<1>1. i \in Ids /\ w \in disk.dirs /\ Only(i, n, w)
  BY OwnsRow DEF Only
<1>2. disk \in Disks /\ w \in Names
  BY <1>1 DEF IInv, Plain, Disks
<1> HIDE DEF i
<1>3. WrotePost(i, n, w, Now, t, p)
  <2>1. p.id \in {i, 0, -1}
    BY DEF i
  <2> QED BY <1>1, <1>2, <2>1, PutFile
<1> HIDE DEF t
<1>4. Now.disk = disk /\ Now.cache = cache
  BY DEF Now
<1>5. /\ PutAt(i, n, w, t) /\ t.cache = cache /\ t.disk.post[w] = p
      /\ t.disk.assets[w] = disk.assets[w]
  BY <1>3, <1>4 DEF WrotePost
<1>6. t.disk.dirs = disk.dirs
  BY <1>1, <1>5 DEF PutAt
<1>7. DirBytes(t.disk, w) - DirBytes(disk, w) = PostBytes(p) - PostBytes(disk.post[w])
  <2>1. /\ PostBytes(p) \in 0 .. 2 /\ PostBytes(disk.post[w]) \in 0 .. 2
        /\ Cardinality(disk.assets[w]) \in Nat
    BY <1>2, PostBytesType, DirBytesType
  <2>2. /\ DirBytes(t.disk, w) = PostBytes(p) + Cardinality(disk.assets[w])
        /\ DirBytes(disk, w) = PostBytes(disk.post[w]) + Cardinality(disk.assets[w])
    BY <1>5 DEF DirBytes
  <2> QED BY <2>1, <2>2
<1> QED BY <1>5, <1>6, <1>7 DEF i, t

LEMMA EditedHolds ==
  ASSUME IInv, up, NEW n \in Names, cache[n] # NoPost, NEW r \in Posts, r.id = cache[n].id,
         Request(r.id, Edited(n, r)), Publish(addresses), UNCHANGED born
  PROVE  IInv'
<1> DEFINE i == cache[n].id
           w == Target(disk, n)
           written == PutPost(Now, n, r)
           saved == PutRow(written, n, r)
           torn == PutPost(Now, n, Torn)
           delta == PostBytes(r) - PostBytes(disk.post[w])
           o == Edited(n, r)
<1>1. i \in Ids /\ i \in born /\ Owns(i, w) /\ w \in Names /\ TypeOK
  <2>1. i \in Ids /\ i \in born /\ Owns(i, w) /\ w \in disk.dirs
    BY OwnsRow
  <2> QED BY <2>1 DEF IInv, Plain, Disks
<1>2. /\ o.done = {Count(saved, delta)} /\ o.kept = {Count(written, delta)}
      /\ o.fails = {torn} /\ o.dies = {written, saved}
  BY DEF Edited, Outcomes
<1>3. Request(i, o) /\ r.id = i /\ w = Target(disk, n)
  OBVIOUS
<1>4. /\ PutAt(i, n, w, written) /\ written.disk.post[w] = r
      /\ DirBytes(written.disk, w) - DirBytes(disk, w) = delta
  BY RowWritten
<1>5. PutAt(i, n, w, torn)
  BY IdFacts, RowWritten
<1>6. PutAt(i, n, w, saved) /\ saved.disk = written.disk /\ saved.cache[n] = r
  <2> HIDE DEF w, written, i
  <2>1. cache[n].id \in {0, i} /\ r.id \in {0, i}
    BY <1>3 DEF i
  <2> QED BY <1>1, <1>4, <2>1, RowPut
<1> HIDE DEF i, w, written, saved, torn, delta, o
<1>7. /\ Alive(i, torn) /\ Alive(i, written) /\ Alive(i, saved)
      /\ Dead(i, written) /\ Dead(i, saved) /\ Dead(i, torn)
  BY <1>1, <1>3, <1>4, <1>5, <1>6, PutAlive
<1> DEFINE s == Count(saved, delta)
           k == Count(written, delta)
<1>8. /\ Alive(i, s) /\ Exact(s) /\ s.disk = saved.disk /\ s.cache = saved.cache
      /\ Spares(i, w, w, s) /\ Settled(i, w, s)
  BY <1>1, <1>3, <1>4, <1>6, PutCounted
<1>9. Alive(i, k) /\ Exact(k)
  BY <1>1, <1>3, <1>4, PutCounted
<1> HIDE DEF s, k
<1>10. o.done = {s} /\ o.kept = {k}
  BY <1>2 DEF s, k
<1>11. cache' \in [Names -> Posts \cup {NoPost}] /\ adrift \subseteq adrift'
  BY <1>2, <1>3, <1>7, <1>8, <1>9, <1>10, RequestRows DEF Alive, Dead
<1>12. /\ addresses' \in [Ids -> SUBSET Names]
       /\ \A j \in Ids \ {i} : addresses'[j] \subseteq addresses[j] \cup PublicNames(cache', j)
  BY <1>1, <1>11, PublishOthers DEF TypeOK
<1>13. ASSUME Becomes(s), i \notin adrift
       PROVE  PostAgrees(s.disk, s.cache, addresses'[i], i)
  <2>1. addresses'[i] = addresses[i] \cup PublicNames(s.cache, i)
    BY <1>1, <1>13 DEF Publish, Becomes
  <2>2. \A a \in addresses[i] : Target(s.disk, a) = w
    <3>1. \A a \in Names : Target(saved.disk, a) = Target(disk, a)
      BY <1>1, <1>3, <1>6, PutSpares
    <3>2. \A a \in addresses[i] : a \in Names /\ Target(disk, a) = w
      BY <1>3, <1>13, OldAddresses DEF i
    <3> QED BY <1>8, <3>1, <3>2
  <2>3. \A a \in Names : s.cache[a].id = i => s.cache[a] = s.disk.post[w]
    BY <1>4, <1>6, <1>8 DEF PutAt
  <2>4. \E a \in Names : s.cache[a].id = i
    BY <1>3, <1>6, <1>8
  <2>5. PostAgrees(s.disk, s.cache, addresses[i] \cup PublicNames(s.cache, i), i)
    BY <1>1, <1>8, <2>2, <2>3, <2>4, OwnPost
  <2> QED BY <2>1, <2>5
<1>14. i \in born' /\ born \subseteq born' /\ born' \subseteq Ids
  BY <1>1 DEF TypeOK
<1>15. \A x \in o.done : Alive(i, x) /\ Exact(x)
         /\ (Becomes(x) => i \in adrift' \/ PostAgrees(x.disk, x.cache, addresses'[i], i))
  BY <1>8, <1>10, <1>11, <1>13
<1> QED BY <1>1, <1>2, <1>3, <1>7, <1>9, <1>10, <1>12, <1>14, <1>15, RequestHolds

LEMMA MovedDirIs ==
  ASSUME NEW s \in Files, NEW n \in Names, NEW m \in Names, n # m, n \in s.disk.dirs
  PROVE  LET t == Moved(s, n, m)
         IN  /\ t \in Files /\ t.cache = s.cache /\ t.used = s.used
             /\ t.disk.dirs = (s.disk.dirs \ {n}) \cup {m} /\ t.disk.link = s.disk.link
             /\ t.disk.post[m] = s.disk.post[n] /\ t.disk.post[n] = NoPost
             /\ t.disk.assets[m] = s.disk.assets[n] /\ t.disk.assets[n] = {}
             /\ \A x \in Names \ {n, m} : t.disk.post[x] = s.disk.post[x]
                                          /\ t.disk.assets[x] = s.disk.assets[x]
<1> DEFINE t == Moved(s, n, m)
<1>1. /\ s.disk \in Disks /\ s \in Files
      /\ s.disk.post \in [Names -> Posts \cup {NoPost, Torn}]
      /\ s.disk.assets \in [Names -> SUBSET AssetNames]
  BY DEF Files, Disks
<1>2. t = [s EXCEPT !.disk.dirs = (@ \ {n}) \cup {m},
                    !.disk.post[m] = s.disk.post[n], !.disk.post[n] = NoPost,
                    !.disk.assets[m] = s.disk.assets[n], !.disk.assets[n] = {}]
  BY DEF Moved
<1> HIDE DEF t
<1>3. /\ t.cache = s.cache /\ t.used = s.used
      /\ t.disk.dirs = (s.disk.dirs \ {n}) \cup {m} /\ t.disk.link = s.disk.link
      /\ t.disk.post = [s.disk.post EXCEPT ![m] = s.disk.post[n], ![n] = NoPost]
      /\ t.disk.assets = [s.disk.assets EXCEPT ![m] = s.disk.assets[n], ![n] = {}]
  <2>1. t.disk = [s.disk EXCEPT !.dirs = (@ \ {n}) \cup {m},
                    !.post[m] = s.disk.post[n], !.post[n] = NoPost,
                    !.assets[m] = s.disk.assets[n], !.assets[n] = {}]
    BY <1>1, <1>2 DEF Files
  <2>2. t.cache = s.cache /\ t.used = s.used
    BY <1>2 DEF Files
  <2>3. t.disk.dirs = (s.disk.dirs \ {n}) \cup {m} /\ t.disk.link = s.disk.link
    BY <1>1, <2>1 DEF Disks
  <2>4. t.disk.post = [s.disk.post EXCEPT ![m] = s.disk.post[n], ![n] = NoPost]
    BY <1>1, <2>1 DEF Disks
  <2>5. t.disk.assets = [s.disk.assets EXCEPT ![m] = s.disk.assets[n], ![n] = {}]
    BY <1>1, <2>1 DEF Disks
  <2> QED BY <2>2, <2>3, <2>4, <2>5
<1>4. t \in Files
  <2>1. t.disk = [dirs |-> t.disk.dirs, link |-> t.disk.link,
                  post |-> t.disk.post, assets |-> t.disk.assets]
    <3>1. t.disk = [s.disk EXCEPT !.dirs = (@ \ {n}) \cup {m},
                      !.post[m] = s.disk.post[n], !.post[n] = NoPost,
                      !.assets[m] = s.disk.assets[n], !.assets[n] = {}]
      BY <1>1, <1>2 DEF Files
    <3> QED BY ONLY <1>1, <3>1 DEF Disks
  <2>2. t = [disk |-> t.disk, cache |-> t.cache, used |-> t.used]
    BY <1>2 DEF Files
  <2>3. /\ t.disk.dirs \in SUBSET Names /\ t.disk.link \in [Names -> Names \cup {NoName}]
        /\ t.cache \in [Names -> Posts \cup {NoPost}] /\ t.used \in Nat
    BY <1>3 DEF Files, Disks
  <2>4. t.disk.post \in [Names -> Posts \cup {NoPost, Torn}]
    BY <1>1, <1>3
  <2>5. t.disk.assets \in [Names -> SUBSET AssetNames]
    BY <1>1, <1>3
  <2>6. t.disk \in Disks
    BY <2>1, <2>3, <2>4, <2>5 DEF Disks
  <2> QED BY <2>2, <2>3, <2>6 DEF Files
<1>5. /\ t.disk.post[m] = s.disk.post[n] /\ t.disk.post[n] = NoPost
      /\ t.disk.assets[m] = s.disk.assets[n] /\ t.disk.assets[n] = {}
      /\ \A x \in Names \ {n, m} : t.disk.post[x] = s.disk.post[x]
                                   /\ t.disk.assets[x] = s.disk.assets[x]
  BY <1>1, <1>3
<1> QED BY <1>3, <1>4, <1>5 DEF t

LEMMA MovedLinkIs ==
  ASSUME NEW s \in Files, NEW n \in Names, NEW m \in Names, n # m, n \notin s.disk.dirs
  PROVE  LET t == Moved(s, n, m)
         IN  /\ t \in Files /\ t.cache = s.cache /\ t.used = s.used
             /\ t.disk.dirs = s.disk.dirs /\ t.disk.post = s.disk.post
             /\ t.disk.assets = s.disk.assets
             /\ t.disk.link = [s.disk.link EXCEPT ![m] = s.disk.link[n], ![n] = NoName]
BY DEF Moved, Files, Disks

LEMMA LinkedIs ==
  ASSUME NEW s \in Files, NEW n \in Names, NEW m \in Names
  PROVE  LET t == Linked(s, n, m)
         IN  /\ t \in Files /\ t.cache = s.cache /\ t.used = s.used
             /\ t.disk.dirs = s.disk.dirs /\ t.disk.post = s.disk.post
             /\ t.disk.assets = s.disk.assets
             /\ t.disk.link = [s.disk.link EXCEPT ![n] = m]
BY DEF Linked, Files, Disks

\* The post r is now in the directory p, under the name m, and with a symlink
\* under every name that led to it in v
AtPlace(m, r, v, p, t, linked) ==
  /\ t \in Files /\ t.used = used /\ t.cache = cache
  /\ Plain(t.disk) /\ Moves(disk, t.disk, v, p)
  /\ p \in t.disk.dirs /\ t.disk.post[p] = r /\ t.disk.assets[p] = disk.assets[v]
  /\ Target(t.disk, m) = p
  /\ linked => \A k \in Names : Target(disk, k) = v => Target(t.disk, k) = p

\* A directory becomes another one, a post behind a symlink stays in its own
Place(n, m) == IF n \in disk.dirs THEN m ELSE Target(disk, n)

Relocated(n, m, r, linked) ==
  LET moved == Moved(PutPost(Now, n, r), n, m)
  IN  IF linked THEN Linked(moved, n, m) ELSE moved

LEMMA MoveDir ==
  ASSUME IInv, NEW n \in disk.dirs, NEW m \in Names, m # n, disk.link[m] = NoName,
         m \notin disk.dirs, NEW r \in Posts, NEW linked \in BOOLEAN,
         NEW s \in Files, s.used = used, s.cache = cache, s.disk.link = disk.link,
         s.disk.dirs = disk.dirs, s.disk.post[n] = r,
         \A x \in Names : s.disk.assets[x] = disk.assets[x] /\ (x # n => s.disk.post[x] = disk.post[x]),
         NEW t, t = IF linked THEN Linked(Moved(s, n, m), n, m) ELSE Moved(s, n, m)
  PROVE  AtPlace(m, r, n, m, t, linked)
<1> DEFINE u == Moved(s, n, m)
<1>1. /\ Plain(disk) /\ disk.dirs \in SUBSET Names /\ n \in Names /\ disk.link[n] = NoName
      /\ Acyclic(disk) /\ disk.link \in [Names -> Names \cup {NoName}]
  BY DEF IInv, Plain, Disks
<1>2. /\ u \in Files /\ u.cache = cache /\ u.used = used
      /\ u.disk.dirs = (disk.dirs \ {n}) \cup {m} /\ u.disk.link = disk.link
      /\ u.disk.post[m] = r /\ u.disk.post[n] = NoPost
      /\ u.disk.assets[m] = disk.assets[n] /\ u.disk.assets[n] = {}
      /\ \A x \in Names \ {n, m} : u.disk.post[x] = disk.post[x] /\ u.disk.assets[x] = disk.assets[x]
  BY <1>1, MovedDirIs
<1> HIDE DEF u
<1>3. /\ t \in Files /\ t.cache = u.cache /\ t.used = u.used
      /\ t.disk.dirs = u.disk.dirs /\ t.disk.post = u.disk.post /\ t.disk.assets = u.disk.assets
      /\ t.disk.link = IF linked THEN [disk.link EXCEPT ![n] = m] ELSE disk.link
  <2>1. CASE linked
    <3>1. t = Linked(u, n, m)
      BY <2>1 DEF u
    <3> QED BY <1>1, <1>2, <2>1, <3>1, LinkedIs
  <2>2. CASE ~ linked
    <3>1. t = u
      BY <2>2 DEF u
    <3> QED BY <1>2, <2>2, <3>1
  <2> QED BY <2>1, <2>2
<1>4. /\ Acyclic(t.disk)
      /\ \A k \in Names : Target(disk, k) # n => Target(t.disk, k) = Target(disk, k)
      /\ linked => \A k \in Names : Target(disk, k) = n => Target(t.disk, k) = m
  <2>1. CASE linked
    <3>1. t.disk.link = [disk.link EXCEPT ![n] = m]
      BY <1>3, <2>1
    <3> QED BY <1>1, <2>1, <3>1, LinkAdded
  <2>2. CASE ~ linked
    <3>1. t.disk.link = disk.link
      BY <1>3, <2>2
    <3> QED BY <1>1, <2>2, <3>1, TargetSame
  <2> QED BY <2>1, <2>2
<1>5. t.disk.link[m] = NoName /\ \A x \in Names \ {n} : t.disk.link[x] = disk.link[x]
  BY <1>1, <1>3
<1>6. Target(t.disk, m) = m
  BY <1>4, <1>5, TargetFacts
<1>7. Plain(t.disk)
  BY <1>1, <1>2, <1>3, <1>4, <1>5 DEF Plain, Files
<1>8. Moves(disk, t.disk, n, m)
  BY <1>1, <1>2, <1>3, <1>4 DEF Moves
<1> QED BY <1>2, <1>3, <1>4, <1>6, <1>7, <1>8 DEF AtPlace

LEMMA MoveLink ==
  ASSUME IInv, NEW n \in Names, n \notin disk.dirs, NEW w \in disk.dirs, w = Target(disk, n),
         NEW m \in Names, Target(disk, m) \notin disk.dirs, NEW r \in Posts, NEW linked \in BOOLEAN,
         NEW s \in Files, s.used = used, s.cache = cache, s.disk.link = disk.link,
         s.disk.dirs = disk.dirs, s.disk.post[w] = r,
         \A x \in Names : s.disk.assets[x] = disk.assets[x] /\ (x # w => s.disk.post[x] = disk.post[x]),
         NEW t, t = IF linked THEN Linked(Moved(s, n, m), n, m) ELSE Moved(s, n, m)
  PROVE  AtPlace(m, r, w, w, t, linked)
<1> DEFINE u == Moved(s, n, m)
           x == IF linked THEN m ELSE NoName
<1>1. /\ Plain(disk) /\ disk.dirs \in SUBSET Names /\ w \in Names
      /\ Acyclic(disk) /\ disk.link \in [Names -> Names \cup {NoName}]
  BY DEF IInv, Plain, Disks
<1>2. disk.link[n] # NoName /\ n # m /\ m \notin disk.dirs
  <2>1. disk.link[n] # NoName
    BY <1>1, TargetFacts
  <2>2. ASSUME m \in disk.dirs PROVE FALSE
    BY <1>1, <2>2, TargetFacts DEF Plain
  <2> QED BY <2>1, <2>2
<1>3. /\ u \in Files /\ u.cache = cache /\ u.used = used
      /\ u.disk.dirs = disk.dirs /\ u.disk.post = s.disk.post /\ u.disk.assets = s.disk.assets
      /\ u.disk.link = [disk.link EXCEPT ![m] = disk.link[n], ![n] = NoName]
  BY <1>2, MovedLinkIs
<1> HIDE DEF u
<1>4. /\ t \in Files /\ t.cache = cache /\ t.used = used
      /\ t.disk.dirs = disk.dirs /\ t.disk.post = s.disk.post /\ t.disk.assets = s.disk.assets
      /\ t.disk.link = [disk.link EXCEPT ![m] = disk.link[n], ![n] = x]
  <2>1. CASE linked
    <3>1. t = Linked(u, n, m)
      BY <2>1 DEF u
    <3>2. /\ t \in Files /\ t.cache = u.cache /\ t.used = u.used
          /\ t.disk.dirs = u.disk.dirs /\ t.disk.post = u.disk.post /\ t.disk.assets = u.disk.assets
          /\ t.disk.link = [u.disk.link EXCEPT ![n] = m]
      BY <1>3, <3>1, LinkedIs
    <3>3. t.disk.link = [disk.link EXCEPT ![m] = disk.link[n], ![n] = m]
      BY <1>1, <1>2, <1>3, <3>2
    <3> QED BY <1>3, <2>1, <3>2, <3>3
  <2>2. CASE ~ linked
    <3>1. t = u
      BY <2>2 DEF u
    <3> QED BY <1>3, <2>2, <3>1
  <2> QED BY <2>1, <2>2
<1>5. x \in {m, NoName} /\ (linked => x = m)
  OBVIOUS
<1> HIDE DEF x
<1>6. Target(disk, m) # w
  OBVIOUS
<1>7. /\ Acyclic(t.disk) /\ Target(t.disk, m) = w
      /\ \A k \in Names : Target(disk, k) \notin {Target(disk, m), w} =>
           Target(t.disk, k) = Target(disk, k)
      /\ x = m => \A k \in Names : Target(disk, k) # Target(disk, m) =>
           Target(t.disk, k) = Target(disk, k)
  <2>1. w = Target(disk, n) /\ n \in Names /\ m \in Names
    OBVIOUS
  <2>2. t.disk.link = [disk.link EXCEPT ![m] = disk.link[n], ![n] = x]
    BY <1>4
  <2>3. LinkShift(disk, t.disk, n, m, x)
    BY <1>5, <2>2 DEF LinkShift
  <2> QED BY <1>1, <1>2, <1>6, <2>1, <2>3, LinkMoved
<1>8. \A k \in disk.dirs : t.disk.link[k] = NoName
  BY <1>1, <1>2, <1>4 DEF Plain
<1>9. Plain(t.disk)
  BY <1>1, <1>4, <1>7, <1>8 DEF Plain, Files
<1>10. Moves(disk, t.disk, w, w)
  BY <1>1, <1>4, <1>7 DEF Moves
<1>11. linked => \A k \in Names : Target(disk, k) = w => Target(t.disk, k) = w
  BY <1>5, <1>6, <1>7
<1>12. t.disk.post[w] = r /\ t.disk.assets[w] = disk.assets[w] /\ w \in t.disk.dirs
  BY <1>1, <1>4
<1> QED BY <1>4, <1>7, <1>9, <1>10, <1>11, <1>12 DEF AtPlace

LEMMA RelocatedIs ==
  ASSUME IInv, up, NEW n \in Names, cache[n] # NoPost, NEW m \in Names, m # n, ~ Exists(disk, m),
         NEW r \in Posts, r.id = cache[n].id, CanMove(PutPost(Now, n, r).disk, n, m),
         NEW linked \in BOOLEAN
  PROVE  AtPlace(m, r, Target(disk, n), Place(n, m), Relocated(n, m, r, linked), linked)
<1> DEFINE w == Target(disk, n)
           s == PutPost(Now, n, r)
           t == Relocated(n, m, r, linked)
<1>1. w \in disk.dirs /\ w \in Names /\ Plain(disk) /\ Target(disk, m) \notin disk.dirs
  BY OwnsRow DEF IInv, Plain, Disks, Exists
<1>2. /\ PutAt(cache[n].id, n, w, s) /\ s.cache = cache /\ s.disk.post[w] = r
      /\ s.disk.assets[w] = disk.assets[w] /\ s.disk.dirs = disk.dirs
  BY RowWritten
<1>w. w = Target(disk, n)
  OBVIOUS
<1>t. t = IF linked THEN Linked(Moved(s, n, m), n, m) ELSE Moved(s, n, m)
  BY DEF Relocated
<1> HIDE DEF w, s, t
<1>3. /\ s \in Files /\ s.used = used /\ s.disk.link = disk.link
      /\ \A x \in Names : s.disk.assets[x] = disk.assets[x] /\ (x # w => s.disk.post[x] = disk.post[x])
  BY <1>2 DEF PutAt
<1>4. CASE n \in disk.dirs
  <2>1. w = n
    BY <1>1, <1>4, <1>w, TargetFacts DEF Plain
  <2>2. disk.link[m] = NoName
    BY <1>2, <1>3, <1>4 DEF CanMove, s
  <2>3. m \notin disk.dirs
    BY <1>1, <2>2, TargetFacts DEF Plain
  <2>4. Place(n, m) = m
    BY <1>4 DEF Place
  <2>5. AtPlace(m, r, n, m, t, linked)
    BY <1>2, <1>3, <1>4, <1>t, <2>1, <2>2, <2>3, MoveDir
  <2> QED BY <1>w, <2>1, <2>4, <2>5 DEF t
<1>5. CASE n \notin disk.dirs
  <2>1. Place(n, m) = w
    BY <1>5, <1>w DEF Place
  <2>2. AtPlace(m, r, w, w, t, linked)
    BY <1>1, <1>2, <1>3, <1>5, <1>t, <1>w, MoveLink
  <2> QED BY <1>w, <2>1, <2>2 DEF t
<1> QED BY <1>4, <1>5

\* The moved post under its old row, which an error leaves
LEMMA PlacedAlive ==
  ASSUME IInv, up, NEW n \in Names, cache[n] # NoPost, NEW m \in Names, NEW w \in Names,
         w = Target(disk, n), NEW p \in Names, NEW r, r.id = cache[n].id, NEW linked \in BOOLEAN,
         NEW t, AtPlace(m, r, w, p, t, linked)
  PROVE  /\ Dead(cache[n].id, t)
         /\ linked => Alive(cache[n].id, t)
<1> DEFINE i == cache[n].id
<1>1. i \in Ids /\ Owns(i, w) /\ \A k \in Names : cache[k].id = i => k = n
  BY OwnsRow
<1>2. Spares(i, w, p, t)
  BY <1>1 DEF Spares, AtPlace
<1>3. ASSUME linked PROVE Settled(i, p, t)
  BY <1>1, <1>3 DEF Settled, AtPlace
<1> QED BY <1>1, <1>2, <1>3 DEF Alive, Dead

LEMMA RowMovedIs ==
  ASSUME NEW t \in Files, NEW n \in Names, NEW m \in Names, n # m, NEW r \in Posts,
         NEW s, s = PutRow(PutRow(t, n, NoPost), m, r)
  PROVE  /\ s \in Files /\ s.disk = t.disk /\ s.used = t.used
         /\ s.cache[m] = r /\ s.cache[n] = NoPost
         /\ \A k \in Names \ {n, m} : s.cache[k] = t.cache[k]
<1>1. PICK q : q = PutRow(t, n, NoPost)
  OBVIOUS
<1>2. q \in Files /\ q.disk = t.disk /\ q.used = t.used /\ q.cache = [t.cache EXCEPT ![n] = NoPost]
  BY <1>1 DEF PutRow, Files
<1>3. s = PutRow(q, m, r)
  BY <1>1
<1>4. s \in Files /\ s.disk = q.disk /\ s.used = q.used /\ s.cache = [q.cache EXCEPT ![m] = r]
  BY <1>2, <1>3 DEF PutRow, Files
<1>5. t.cache \in [Names -> Posts \cup {NoPost}] /\ q.cache \in [Names -> Posts \cup {NoPost}]
  BY <1>2 DEF Files
<1>6. \A k \in Names : s.cache[k] = IF k = m THEN r ELSE q.cache[k]
  BY <1>4, <1>5
<1>7. \A k \in Names : q.cache[k] = IF k = n THEN NoPost ELSE t.cache[k]
  BY <1>2, <1>5
<1> QED BY <1>2, <1>4, <1>6, <1>7

\* The moved post with its new row, counted
Rowed(n, m, r, w, t, s, c) ==
  /\ s = PutRow(PutRow(t, n, NoPost), m, r)
  /\ c = Count(s, PostBytes(r) - PostBytes(disk.post[w]))

LEMMA PlacedSaved ==
  ASSUME IInv, up, NEW n \in Names, cache[n] # NoPost, NEW i, i = cache[n].id, NEW m \in Names, m # n, cache[m] = NoPost,
         NEW w \in Names, w = Target(disk, n), NEW p \in Names, NEW r \in Posts, r.id = i,
         NEW linked \in BOOLEAN, NEW t, AtPlace(m, r, w, p, t, linked),
         NEW s, NEW c, Rowed(n, m, r, w, t, s, c)
  PROVE  /\ Alive(i, s) /\ Dead(i, s)
         /\ Alive(i, c) /\ Dead(i, c) /\ Exact(c)
         /\ i \notin adrift =>
              /\ linked => PostAgrees(c.disk, c.cache, addresses[i]
                                        \cup PublicNames(c.cache, i), i)
              /\ PostAgrees(c.disk, c.cache, {} \cup PublicNames(c.cache, i), i)
<1> DEFINE delta == PostBytes(r) - PostBytes(disk.post[w])
<1>1. i \in Ids /\ Owns(i, w) /\ \A k \in Names : cache[k].id = i => k = n
  BY OwnsRow
<1>2. t \in Files /\ t.used = used /\ t.cache = cache
  BY DEF AtPlace
<1>5. s \in Files /\ s.disk = t.disk /\ s.used = used
  BY <1>2, RowMovedIs DEF Rowed
<1>6. /\ s.cache[m] = r /\ s.cache[n] = NoPost
      /\ \A k \in Names \ {n, m} : s.cache[k] = cache[k]
  BY <1>2, RowMovedIs DEF Rowed
<1>7. \A k \in Names : s.cache[k].id = i => k = m
  BY <1>1, <1>6, IdFacts
<1>8. /\ Plain(t.disk) /\ Moves(disk, t.disk, w, p) /\ p \in t.disk.dirs /\ Target(t.disk, m) = p
      /\ t.disk.post[p] = r /\ t.disk.assets[p] = disk.assets[w]
  BY DEF AtPlace
<1>9. Spares(i, w, p, s)
  <2>1. \A k \in Names : s.cache[k] = cache[k] \/ {s.cache[k].id, cache[k].id} \subseteq {0, i}
    BY <1>6, IdFacts
  <2> QED BY <1>5, <1>8, <2>1 DEF Spares
<1>10. Settled(i, p, s)
  BY <1>5, <1>7, <1>8 DEF Settled
<1>11. delta = DirBytes(s.disk, p) - DirBytes(disk, w)
  <2>1. /\ PostBytes(r) \in 0 .. 2 /\ PostBytes(disk.post[w]) \in 0 .. 2
        /\ Cardinality(disk.assets[w]) \in Nat
    BY PostBytesType, DirBytesType DEF IInv, Plain
  <2>2. /\ DirBytes(s.disk, p) = PostBytes(r) + Cardinality(disk.assets[w])
        /\ DirBytes(disk, w) = PostBytes(disk.post[w]) + Cardinality(disk.assets[w])
    BY <1>5, <1>8 DEF DirBytes
  <2> QED BY <2>1, <2>2
<1>12. c \in Files /\ Exact(c) /\ c.disk = s.disk /\ c.cache = s.cache
  <2>1. c = Count(s, delta)
    BY DEF Rowed
  <2> HIDE DEF delta
  <2> QED BY <1>5, <1>8, <1>11, <2>1, CountExact
<1>13. Spares(i, w, p, c) /\ Settled(i, p, c)
  BY <1>9, <1>10, <1>12, CountedSpares
<1>r. /\ c.cache[m] = r /\ c.disk.post[p] = r
      /\ \A k \in Names : c.cache[k].id = i => k = m
  <2>1. c.cache[m] = r
    BY <1>6, <1>12
  <2>2. c.disk.post[p] = r
    BY <1>5, <1>8, <1>12
  <2>3. \A k \in Names : c.cache[k].id = i => k = m
    BY <1>7, <1>12
  <2> QED BY <2>1, <2>2, <2>3
<1>i. r.id = i
  OBVIOUS
<1>14. ASSUME NEW A, \A k \in A : Target(c.disk, k) = p
       PROVE  PostAgrees(c.disk, c.cache, A \cup PublicNames(c.cache, i), i)
  <2>1. \A k \in Names : c.cache[k].id = i => c.cache[k] = c.disk.post[p]
    BY <1>r
  <2>2. \E k \in Names : c.cache[k].id = i
    BY <1>r, <1>i
  <2> QED BY ONLY IInv, up, <1>1, p \in Names, w \in Names, <1>13, <1>14, <2>1, <2>2, OwnPost
<1>15. ASSUME i \notin adrift, linked
       PROVE  \A k \in addresses[i] : Target(c.disk, k) = p
  <2>1. \A k \in addresses[i] : k \in Names /\ Target(disk, k) = w
    BY <1>15, OldAddresses
  <2> QED BY <1>5, <1>12, <1>15, <2>1 DEF AtPlace
<1>16. \A k \in {} : Target(c.disk, k) = p
  OBVIOUS
<1> QED BY <1>1, <1>9, <1>10, <1>12, <1>13, <1>14, <1>15, <1>16 DEF Alive, Dead

LEMMA RenamedHolds ==
  ASSUME IInv, up, NEW n \in Names, cache[n] # NoPost, NEW m \in Names, m # n, ~ Exists(disk, m),
         NEW r \in Posts, r.id = cache[n].id, NEW linked \in BOOLEAN,
         Request(r.id, Renamed(n, m, r, linked)),
         Publish(IF linked THEN addresses ELSE [addresses EXCEPT ![r.id] = {}]), UNCHANGED born
  PROVE  IInv'
<1> DEFINE i == cache[n].id
           w == Target(disk, n)
           p == Place(n, m)
           written == PutPost(Now, n, r)
           torn == PutPost(Now, n, Torn)
           moved == Moved(written, n, m)
           done == IF linked THEN Linked(moved, n, m) ELSE moved
           saved == PutRow(PutRow(done, n, NoPost), m, r)
           delta == PostBytes(r) - PostBytes(disk.post[w])
           can == CanMove(written.disk, n, m)
           c == Count(saved, delta)
           k == Count(written, delta)
           o == Renamed(n, m, r, linked)
<1>1. i \in Ids /\ i \in born /\ Owns(i, w) /\ w \in Names /\ TypeOK /\ p \in Names
  <2>1. i \in Ids /\ i \in born /\ Owns(i, w) /\ w \in disk.dirs
    BY OwnsRow
  <2> QED BY <2>1 DEF IInv, Plain, Disks, Place
<1>2. cache[m] = NoPost
  BY OwnsRow DEF Exists
<1>3. /\ \A s \in o.done : can /\ s = c
      /\ \A s \in o.kept : s = k
      /\ \A s \in o.fails : s \in {torn, written} \/ (can /\ linked /\ s = done)
      /\ \A s \in o.dies : s = written \/ (can /\ linked /\ s \in {moved, done, saved})
  <2>1. CASE ~ can
    <3>1. o = Outcomes({}, {}, {torn, written}, {written})
      BY <2>1 DEF Renamed
    <3> HIDE DEF o, c, k, done, moved, saved, torn, written, can
    <3> QED BY <3>1 DEF Outcomes
  <2>2. CASE can /\ ~ linked
    <3>1. o = Outcomes({c}, {}, {}, {})
      BY <2>2 DEF Renamed
    <3> HIDE DEF o, c, k, done, moved, saved, torn, written, can
    <3> QED BY <2>2, <3>1 DEF Outcomes
  <2>3. CASE can /\ linked
    <3>1. o = Outcomes({c}, {k}, {torn, written} \cup {done}, {written, moved, done, saved})
      BY <1>2, <2>3 DEF Renamed
    <3> HIDE DEF o, c, k, done, moved, saved, torn, written, can
    <3> QED BY <2>3, <3>1 DEF Outcomes
  <2> QED BY <2>1, <2>2, <2>3
<1>4. /\ PutAt(i, n, w, written)
      /\ DirBytes(written.disk, w) - DirBytes(disk, w) = delta
  BY RowWritten
<1>5. PutAt(i, n, w, torn)
  BY IdFacts, RowWritten
<1>w. w = Target(disk, n) /\ r.id = i /\ Request(i, o)
      /\ k = Count(written, delta) /\ c = Count(saved, delta)
      /\ saved = PutRow(PutRow(done, n, NoPost), m, r) /\ delta = PostBytes(r) - PostBytes(disk.post[w])
  OBVIOUS
<1>6. ASSUME can PROVE AtPlace(m, r, w, p, done, linked)
  <2>1. AtPlace(m, r, w, p, Relocated(n, m, r, linked), linked)
    BY <1>6, RelocatedIs
  <2> QED BY <2>1 DEF Relocated
<1>7. ASSUME can PROVE AtPlace(m, r, w, p, moved, FALSE)
  <2>1. AtPlace(m, r, w, p, Relocated(n, m, r, FALSE), FALSE)
    BY <1>7, RelocatedIs
  <2> QED BY <2>1 DEF Relocated
<1>i. i = cache[n].id
  OBVIOUS
<1> HIDE DEF i, w, p, written, torn, moved, done, saved, delta, can, c, k, o
<1>8. /\ Alive(i, torn) /\ Alive(i, written) /\ Dead(i, written) /\ Dead(i, torn)
  BY <1>1, <1>4, <1>5, <1>w, PutAlive
<1>9. Alive(i, k) /\ Exact(k)
  BY <1>1, <1>4, <1>w, PutCounted
<1>10. ASSUME can
       PROVE  /\ Dead(i, done) /\ Dead(i, moved) /\ (linked => Alive(i, done))
  BY <1>1, <1>6, <1>7, <1>10, <1>w, PlacedAlive DEF i
<1>11. ASSUME can
       PROVE  /\ Dead(i, saved) /\ Alive(i, c) /\ Dead(i, c) /\ Exact(c)
              /\ i \notin adrift =>
                   /\ linked => PostAgrees(c.disk, c.cache, addresses[i] \cup PublicNames(c.cache, i), i)
                   /\ PostAgrees(c.disk, c.cache, {} \cup PublicNames(c.cache, i), i)
  <2>1. AtPlace(m, r, w, p, done, linked)
    BY <1>6, <1>11
  <2>2. Rowed(n, m, r, w, done, saved, c)
    BY <1>w DEF Rowed
  <2>3. w \in Names /\ w = Target(disk, n) /\ p \in Names /\ r.id = i /\ i = cache[n].id
    BY <1>1, <1>w, <1>i
  <2>4. IInv /\ up /\ n \in Names /\ cache[n] # NoPost /\ m \in Names /\ m # n
        /\ r \in Posts /\ linked \in BOOLEAN
    OBVIOUS
  <2> QED BY ONLY <1>2, <2>1, <2>2, <2>3, <2>4, PlacedSaved, ZenonT(60)
<1>12. /\ \A s \in o.done : Alive(i, s) /\ Exact(s) /\ Dead(i, s)
       /\ \A s \in o.kept : Alive(i, s) /\ Exact(s)
       /\ \A s \in o.fails : Alive(i, s)
       /\ \A s \in o.dies : Dead(i, s)
  BY <1>3, <1>8, <1>9, <1>10, <1>11
<1>13. \A s \in o.done \cup o.kept \cup o.fails \cup o.dies : Dead(i, s)
  BY <1>12 DEF Alive, Dead
<1>14. cache' \in [Names -> Posts \cup {NoPost}] /\ adrift \subseteq adrift'
  BY <1>13, <1>w, RequestRows
<1> DEFINE known == IF linked THEN addresses ELSE [addresses EXCEPT ![i] = {}]
<1>15. /\ known \in [Ids -> SUBSET Names] /\ \A j \in Ids \ {i} : known[j] = addresses[j]
       /\ Publish(known) /\ known[i] = IF linked THEN addresses[i] ELSE {}
  BY <1>1, <1>w DEF TypeOK
<1> HIDE DEF known
<1>16. /\ addresses' \in [Ids -> SUBSET Names]
       /\ \A j \in Ids \ {i} : addresses'[j] \subseteq addresses[j] \cup PublicNames(cache', j)
  BY <1>1, <1>14, <1>15, PublishOthers
<1>17. ASSUME NEW s \in o.done, Becomes(s), i \notin adrift
       PROVE  PostAgrees(s.disk, s.cache, addresses'[i], i)
  <2>1. s = c /\ can
    BY <1>3, <1>17
  <2>2. addresses'[i] = known[i] \cup PublicNames(c.cache, i)
    BY <1>1, <1>15, <1>17, <2>1 DEF Publish, Becomes
  <2>3. CASE linked
    <3>1. addresses'[i] = addresses[i] \cup PublicNames(c.cache, i)
      BY <1>15, <2>2, <2>3
    <3> QED BY <1>11, <1>17, <2>1, <2>3, <3>1
  <2>4. CASE ~ linked
    <3>1. addresses'[i] = {} \cup PublicNames(c.cache, i)
      BY <1>15, <2>2, <2>4
    <3> QED BY <1>11, <1>17, <2>1, <3>1
  <2> QED BY <2>3, <2>4
<1>18. i \in born' /\ born \subseteq born' /\ born' \subseteq Ids
  BY <1>1 DEF TypeOK
<1>19. \A s \in o.done : Alive(i, s) /\ Exact(s)
         /\ (Becomes(s) => i \in adrift' \/ PostAgrees(s.disk, s.cache, addresses'[i], i))
  BY <1>12, <1>14, <1>17
<1> QED BY <1>1, <1>12, <1>16, <1>18, <1>19, <1>w, RequestHolds

LEMMA UpdatePostHolds ==
  ASSUME IInv, NEW n \in Names, UpdatePost(n)
  PROVE  IInv'
<1>1. up /\ cache[n] # NoPost /\ UNCHANGED born
  BY DEF UpdatePost
<1>2. PICK t \in Titles, draft \in BOOLEAN, linked \in BOOLEAN :
        LET r == [cache[n] EXCEPT !.title = t, !.draft = draft]
        IN  /\ Fits(PostBytes(r) - PostBytes(disk.post[Target(disk, n)]))
            /\ \E m \in IF t = cache[n].title THEN {n} ELSE FreeNames(disk, t, n) :
                 /\ linked \/ m # n
                 /\ Request(r.id, IF m = n THEN Edited(n, r) ELSE Renamed(n, m, r, linked))
            /\ Publish(IF linked THEN addresses ELSE [addresses EXCEPT ![r.id] = {}])
  BY ONLY UpdatePost(n), ZenonT(30) DEF UpdatePost
<1> DEFINE r == [cache[n] EXCEPT !.title = t, !.draft = draft]
<1>3. r \in Posts /\ r.id = cache[n].id
  BY <1>1, OwnsRow DEF Posts
<1>4. PICK m \in IF t = cache[n].title THEN {n} ELSE FreeNames(disk, t, n) :
        /\ linked \/ m # n
        /\ Request(r.id, IF m = n THEN Edited(n, r) ELSE Renamed(n, m, r, linked))
  BY <1>2
<1>5. Publish(IF linked THEN addresses ELSE [addresses EXCEPT ![r.id] = {}])
  BY <1>2
<1> HIDE DEF r
<1>6. CASE m = n
  <2>1. linked
    BY <1>4, <1>6
  <2> QED BY <1>1, <1>3, <1>4, <1>5, <1>6, <2>1, EditedHolds
<1>7. CASE m # n
  <2>1. m \in Names /\ ~ Exists(disk, m)
    BY <1>4, <1>7, FreeNamesFree
  <2>2. Request(r.id, Renamed(n, m, r, linked))
    BY <1>4, <1>7
  <2> QED BY <1>1, <1>3, <1>5, <1>7, <2>1, <2>2, RenamedHolds
<1> QED BY <1>6, <1>7

-----------------------------------------------------------------------------
(* Deleting.                                                                *)

\* s differs from now by the symlinks R, which led to the directory w, by what
\* was in w, if it is still there, and by the row n, which is gone
SweptAt(i, n, w, R, s) ==
  /\ s \in Files /\ R \in SUBSET Names /\ \A k \in R : Target(disk, k) = w
  /\ s.disk.link = [k \in Names |-> IF k \in R THEN NoName ELSE disk.link[k]]
  /\ s.disk.dirs \subseteq disk.dirs /\ disk.dirs \ {w} \subseteq s.disk.dirs
  /\ w \notin s.disk.dirs => s.disk.post[w] = NoPost /\ s.disk.assets[w] = {}
  /\ \A x \in Names \ {w} : s.disk.post[x] = disk.post[x] /\ s.disk.assets[x] = disk.assets[x]
  /\ s.disk.post[w].id \in {i, 0, -1}
  /\ s.cache = [cache EXCEPT ![n] = NoPost]

LEMMA SweptSpares ==
  ASSUME IInv, up, NEW n \in Names, cache[n] # NoPost, NEW i, i = cache[n].id,
         NEW w, w = Target(disk, n), NEW R, NEW s, SweptAt(i, n, w, R, s)
  PROVE  /\ Alive(i, s) /\ Dead(i, s) /\ Plain(s.disk) /\ Moves(disk, s.disk, w, w)
         /\ s.disk.post[w].id # i => PostAgrees(s.disk, s.cache, {}, i)
<1>1. /\ i \in Ids /\ w \in disk.dirs /\ Owns(i, w) /\ \A m \in Names : cache[m].id = i => m = n
  BY OwnsRow
<1>2. /\ Plain(disk) /\ Acyclic(disk) /\ disk.dirs \in SUBSET Names /\ w \in Names
      /\ cache \in [Names -> Posts \cup {NoPost}]
  BY <1>1 DEF IInv, Plain, Disks, TypeOK
<1>3. /\ s \in Files /\ R \in SUBSET Names /\ \A k \in R : Target(disk, k) = w
      /\ s.disk.link = [k \in Names |-> IF k \in R THEN NoName ELSE disk.link[k]]
  BY DEF SweptAt
<1>4. /\ Acyclic(s.disk)
      /\ \A k \in Names : Target(disk, k) # w => Target(s.disk, k) = Target(disk, k)
  BY <1>2, <1>3, LinksRemoved
<1>5. Plain(s.disk)
  <2>1. \A x \in s.disk.dirs : s.disk.link[x] = NoName
    BY <1>2, <1>3 DEF Plain, SweptAt
  <2>2. \A x \in Names \ s.disk.dirs : s.disk.post[x] = NoPost /\ s.disk.assets[x] = {}
    BY <1>2 DEF Plain, SweptAt
  <2> QED BY <1>3, <1>4, <2>1, <2>2 DEF Plain, Files
<1>6. Moves(disk, s.disk, w, w)
  <2>1. \A k \in Names : Target(disk, k) \in disk.dirs \ {w} => Target(s.disk, k) = Target(disk, k)
    BY <1>4
  <2>2. \A x \in disk.dirs \ {w} :
          x \in s.disk.dirs /\ x # w /\ s.disk.post[x] = disk.post[x] /\ s.disk.assets[x] = disk.assets[x]
    BY <1>2 DEF SweptAt
  <2>3. \A x \in s.disk.dirs \ {w} : x \in disk.dirs \ {w}
    BY DEF SweptAt
  <2> QED BY <2>1, <2>2, <2>3 DEF Moves
<1>7. s.cache[n] = NoPost /\ \A m \in Names \ {n} : s.cache[m] = cache[m]
  BY <1>2 DEF SweptAt
<1>8. \A m \in Names : s.cache[m].id # i
  BY <1>1, <1>7, IdFacts
<1>9. Spares(i, w, w, s)
  <2>1. \A m \in Names : s.cache[m] = cache[m] \/ {s.cache[m].id, cache[m].id} \subseteq {0, i}
    BY <1>7, IdFacts
  <2>2. s.disk.post[w].id \in {i, 0, -1}
    BY DEF SweptAt
  <2> QED BY <1>3, <1>5, <1>6, <2>1, <2>2 DEF Spares
<1>10. Settled(i, w, s)
  BY <1>8 DEF Settled
<1>11. ASSUME s.disk.post[w].id # i PROVE PostAgrees(s.disk, s.cache, {}, i)
  <2>1. \A m \in Names : s.cache[m].id = i => s.cache[m] = s.disk.post[w]
    BY <1>8
  <2> DEFINE A == {}
  <2>2. s.disk.post[w].id = i \/ A # {} => \E m \in Names : s.cache[m].id = i
    BY <1>11
  <2>3. \A k \in A : Target(s.disk, k) = w
    OBVIOUS
  <2>4. A \in SUBSET (A \cup PublicNames(s.cache, i))
    OBVIOUS
  <2> HIDE DEF A
  <2>5. PostAgrees(s.disk, s.cache, A \cup PublicNames(s.cache, i), i)
    BY <1>1, <1>2, <1>9, <1>10, <2>1, <2>2, <2>3, OwnPost
  <2>6. PostAgrees(s.disk, s.cache, A, i)
    <3> DEFINE B == A \cup PublicNames(s.cache, i)
    <3>1. PostAgrees(s.disk, s.cache, B, i) /\ A \in SUBSET B
      BY <2>4, <2>5
    <3> HIDE DEF B
    <3> QED BY ONLY <3>1, AgreesLess
  <2> QED BY <2>6 DEF A
<1> QED BY <1>1, <1>2, <1>5, <1>6, <1>9, <1>10, <1>11 DEF Alive, Dead

\* The tracker does not matter
LEMMA SweptSame ==
  ASSUME NEW i, NEW n, NEW w, NEW R, NEW s, SweptAt(i, n, w, R, s),
         NEW c \in Files, c.disk = s.disk, c.cache = s.cache
  PROVE  SweptAt(i, n, w, R, c)
BY DEF SweptAt

LEMMA CountIs ==
  ASSUME NEW t \in Files, NEW delta \in Int
  PROVE  Count(t, delta) \in Files /\ Count(t, delta).disk = t.disk /\ Count(t, delta).cache = t.cache
<1>1. t.used \in Nat
  BY DEF Files
<1> QED BY <1>1 DEF Count, Files

LEMMA SweptRow ==
  ASSUME IInv, up, NEW n \in Names, cache[n] # NoPost, NEW i, i = cache[n].id,
         NEW w, w = Target(disk, n), NEW s, s = PutRow(Now, n, NoPost)
  PROVE  SweptAt(i, n, w, {}, s) /\ s.disk = disk /\ s.used = used
<1>1. w \in Names /\ disk.post[w].id \in {i, 0, -1} /\ w \in disk.dirs
  BY OwnsRow DEF IInv, Plain, Disks
<1>2. Now \in Files /\ Now.disk = disk /\ Now.cache = cache /\ Now.used = used
  BY NowIs DEF IInv
<1>3. s \in Files /\ s.disk = disk /\ s.used = used /\ s.cache = [cache EXCEPT ![n] = NoPost]
  BY <1>2, PutRowIs
<1>4. disk.link = [k \in Names |-> IF k \in {} THEN NoName ELSE disk.link[k]]
  BY DEF IInv, Plain, Disks
<1> QED BY <1>1, <1>3, <1>4 DEF SweptAt

LEMMA SweptLinks ==
  ASSUME IInv, up, NEW n \in Names, cache[n] # NoPost, NEW i, i = cache[n].id,
         NEW w, w = Target(disk, n), NEW s, s = PutRow(Now, n, NoPost),
         NEW R \in SUBSET Names, \A k \in R : Target(disk, k) = w, NEW t, t = Swept(s, R)
  PROVE  /\ SweptAt(i, n, w, R, t) /\ t.used = used /\ t.disk.dirs = disk.dirs
         /\ (disk.link[n] = NoName => t.disk.link[n] = NoName)
<1>1. SweptAt(i, n, w, {}, s) /\ s.disk = disk /\ s.used = used
  BY SweptRow
<1>2. s \in Files /\ disk \in Disks
  BY <1>1 DEF SweptAt, Files
<1>3. /\ t.disk.link = [k \in Names |-> IF k \in R THEN NoName ELSE disk.link[k]]
      /\ t.disk.dirs = disk.dirs /\ t.disk.post = disk.post /\ t.disk.assets = disk.assets
      /\ t.cache = s.cache /\ t.used = used
  BY <1>1, <1>2 DEF Swept, Files, Disks
<1>4. t \in Files
  <2>1. [k \in Names |-> IF k \in R THEN NoName ELSE disk.link[k]] \in [Names -> Names \cup {NoName}]
    BY <1>2 DEF Disks
  <2>2. t = [s EXCEPT !.disk.link = [k \in Names |-> IF k \in R THEN NoName ELSE disk.link[k]]]
    BY <1>1 DEF Swept
  <2> QED BY <1>2, <2>1, <2>2 DEF Files, Disks
<1> QED BY <1>1, <1>3, <1>4 DEF SweptAt

LEMMA SweptEmptied ==
  ASSUME IInv, NEW n \in Names, NEW i, NEW w \in disk.dirs, NEW R, NEW s, SweptAt(i, n, w, R, s),
         w \in s.disk.dirs, w = Target(s.disk, n), NEW t, t = PutPost(s, n, NoPost)
  PROVE  /\ SweptAt(i, n, w, R, t) /\ t.disk.post[w] = NoPost
         /\ t.disk.assets[w] = s.disk.assets[w] /\ t.used = s.used
<1>1. s \in Files /\ w \in Names /\ s.disk.post \in [Names -> Posts \cup {NoPost, Torn}]
  BY DEF SweptAt, IInv, Plain, Files, Disks
<1>2. /\ t \in Files /\ t.cache = s.cache /\ t.used = s.used /\ t.disk.link = s.disk.link
      /\ t.disk.dirs = s.disk.dirs \cup {w} /\ t.disk.assets = s.disk.assets
      /\ t.disk.post = [s.disk.post EXCEPT ![w] = NoPost]
  BY <1>1, PutPostIs
<1>3. t.disk.post[w] = NoPost /\ \A x \in Names \ {w} : t.disk.post[x] = s.disk.post[x]
  BY <1>1, <1>2
<1> QED BY <1>2, <1>3, IdFacts DEF SweptAt

LEMMA SweptRemoved ==
  ASSUME NEW n \in Names, NEW i, NEW R, NEW s, SweptAt(i, n, n, R, s),
         NEW t, t = WithoutDir(s, n)
  PROVE  /\ SweptAt(i, n, n, R, t) /\ t.disk.post[n] = NoPost /\ t.disk.assets[n] = {}
         /\ t.used = s.used
<1>s. s \in Files /\ s.disk \in Disks
  BY DEF SweptAt, Files
<1>1. /\ s \in Files /\ s.disk.post \in [Names -> Posts \cup {NoPost, Torn}]
      /\ s.disk.assets \in [Names -> SUBSET AssetNames]
  BY DEF SweptAt, Files, Disks
<1>2. /\ t.cache = s.cache /\ t.used = s.used /\ t.disk.link = s.disk.link
      /\ t.disk.dirs = s.disk.dirs \ {n}
      /\ t.disk.post = [s.disk.post EXCEPT ![n] = NoPost]
      /\ t.disk.assets = [s.disk.assets EXCEPT ![n] = {}]
  BY <1>1 DEF WithoutDir, Files, Disks
<1>3. t \in Files
  <2>1. t = [s EXCEPT !.disk.dirs = @ \ {n}, !.disk.post[n] = NoPost, !.disk.assets[n] = {}]
    BY DEF WithoutDir
  <2>2. t.disk = [dirs |-> t.disk.dirs, link |-> t.disk.link,
                  post |-> t.disk.post, assets |-> t.disk.assets]
    <3>1. t.disk = [s.disk EXCEPT !.dirs = @ \ {n}, !.post[n] = NoPost, !.assets[n] = {}]
      BY <1>s, <2>1 DEF Files
    <3> QED BY ONLY <1>s, <3>1 DEF Disks
  <2>3. t = [disk |-> t.disk, cache |-> t.cache, used |-> t.used]
    BY <1>1, <2>1 DEF Files
  <2>4. /\ t.disk.dirs \in SUBSET Names /\ t.disk.link \in [Names -> Names \cup {NoName}]
        /\ t.cache \in [Names -> Posts \cup {NoPost}] /\ t.used \in Nat
    BY <1>1, <1>2 DEF Files, Disks
  <2>5. t.disk.post \in [Names -> Posts \cup {NoPost, Torn}]
    BY <1>1, <1>2
  <2>6. t.disk.assets \in [Names -> SUBSET AssetNames]
    BY <1>1, <1>2
  <2>7. t.disk \in Disks
    BY <2>2, <2>4, <2>5, <2>6 DEF Disks
  <2> QED BY <2>3, <2>4, <2>7 DEF Files
<1>4. /\ t.disk.post[n] = NoPost /\ t.disk.assets[n] = {}
      /\ \A x \in Names \ {n} : t.disk.post[x] = s.disk.post[x] /\ t.disk.assets[x] = s.disk.assets[x]
  BY <1>1, <1>2
<1> QED BY <1>2, <1>3, <1>4, IdFacts DEF SweptAt

\* What a deletion leaves, counted by the size it measured
LEMMA SweptExact ==
  ASSUME IInv, up, NEW n \in Names, cache[n] # NoPost, NEW i, i = cache[n].id,
         NEW w, w = Target(disk, n), NEW R, NEW s, SweptAt(i, n, w, R, s), s.used = used,
         s.disk.post[w] = NoPost, NEW freed, freed = DirBytes(disk, w) - DirBytes(s.disk, w),
         NEW c, c = Count(s, - freed)
  PROVE  Alive(i, c) /\ Dead(i, c) /\ Exact(c) /\ PostAgrees(c.disk, c.cache, {}, i)
<1>1. Plain(s.disk) /\ Moves(disk, s.disk, w, w) /\ s \in Files
  BY SweptSpares DEF SweptAt
<1>2. w \in Names /\ disk \in Disks /\ s.disk \in Disks
  BY <1>1, OwnsRow DEF IInv, Plain, Disks
<1>3. DirBytes(disk, w) \in Nat /\ DirBytes(s.disk, w) \in Nat
  BY <1>2, DirBytesType
<1> DEFINE delta == - freed
<1>4. delta = DirBytes(s.disk, w) - DirBytes(disk, w)
  BY <1>3
<1>5. c = Count(s, delta)
  OBVIOUS
<1> HIDE DEF delta
<1>6. c \in Files /\ Exact(c) /\ c.disk = s.disk /\ c.cache = s.cache
  BY <1>1, <1>2, <1>4, <1>5, CountExact
<1>7. s.disk.post[w].id # i
  BY OwnsRow, IdFacts
<1>8. SweptAt(i, n, w, R, c)
  BY <1>6, SweptSame
<1>9. c.disk.post[w].id # i
  BY <1>6, <1>7
<1> QED BY <1>6, <1>8, <1>9, SweptSpares

\* Every outcome of a deletion
LEMMA DeletedIs ==
  ASSUME IInv, up, NEW n \in Names, cache[n] # NoPost, NEW i, i = cache[n].id,
         NEW all \in BOOLEAN, NEW o, o = Deleted(n, all)
  PROVE  /\ \A s \in o.done \cup o.kept \cup o.fails \cup o.dies : Alive(i, s) /\ Dead(i, s)
         /\ ~ (disk.post[Target(disk, n)] = NoPost \/ disk.link[n] # NoName) =>
              /\ \A s \in o.done : Exact(s) /\ PostAgrees(s.disk, s.cache, {}, i)
              /\ \A s \in o.kept : Exact(s)
<1> DEFINE w == Target(disk, n)
           s == PutRow(Now, n, NoPost)
           P(x) == \E R : SweptAt(i, n, w, R, x)
           Q(x) == P(x) /\ Exact(x) /\ PostAgrees(x.disk, x.cache, {}, i)
<1>w. w = Target(disk, n)
  OBVIOUS
<1>1. /\ w \in disk.dirs /\ w \in Names /\ disk \in Disks /\ Plain(disk) /\ Acyclic(disk)
      /\ disk.link[n] = NoName => w = n
  <2>1. w \in disk.dirs /\ disk.dirs \in SUBSET Names /\ Plain(disk)
    BY OwnsRow DEF IInv, Plain, Disks
  <2> QED BY <2>1, TargetFacts DEF Plain
<1>s. s = PutRow(Now, n, NoPost)
  OBVIOUS
<1> HIDE DEF w, s
<1>2. SweptAt(i, n, w, {}, s) /\ s.disk = disk /\ s.used = used
  BY <1>w, <1>s, SweptRow
<1>3. ASSUME NEW x, P(x) PROVE Alive(i, x) /\ Dead(i, x) /\ x \in Files
  <2>1. PICK R : SweptAt(i, n, w, R, x)
    BY <1>3
  <2>2. Alive(i, x) /\ Dead(i, x)
    BY <1>w, <2>1, SweptSpares
  <2> QED BY <2>1, <2>2 DEF SweptAt
<1>4. ASSUME NEW x, P(x) PROVE P(Recount(x)) /\ Exact(Recount(x))
  BY <1>3, <1>4, RecountExact, SweptSame
<1>5. ASSUME NEW x, P(x), NEW delta \in Int PROVE P(Count(x, delta))
  BY <1>3, <1>5, CountIs, SweptSame
<1>6. /\ DirBytes(disk, w) \in Nat /\ PostBytes(disk.post[w]) \in 0 .. 2
      /\ Cardinality(disk.assets[w]) \in Nat /\ PostBytes(NoPost) = 0
      /\ DirBytes(disk, w) = PostBytes(disk.post[w]) + Cardinality(disk.assets[w])
  BY <1>1, DirBytesType, IdFacts DEF DirBytes, PostBytes
<1>7. Freed(n, TRUE) = DirBytes(disk, w) /\ Freed(n, FALSE) = PostBytes(disk.post[w])
  BY <1>1, <1>w DEF Freed
<1>8. CASE disk.post[w] = NoPost
  <2>1. \E f \in Int : o.done = {Count(s, - f)} /\ o.kept = {} /\ o.fails = {} /\ o.dies = {s}
    <3>1. o = Outcomes({Count(s, - Freed(n, all))}, {}, {}, {s})
      BY <1>8, <1>w, <1>s DEF Deleted
    <3>2. CASE all = TRUE
      <4>0. DirBytes(disk, w) \in Int
        BY <1>6
      <4>1. o = Outcomes({Count(s, - DirBytes(disk, w))}, {}, {}, {s})
        BY ONLY <1>7, <3>1, <3>2, Zenon
      <4> QED BY <4>0, <4>1 DEF Outcomes
    <3>3. CASE all = FALSE
      <4>0. PostBytes(disk.post[w]) \in Int
        BY <1>6
      <4>1. o = Outcomes({Count(s, - PostBytes(disk.post[w]))}, {}, {}, {s})
        BY ONLY <1>7, <3>1, <3>3, Zenon
      <4> QED BY <4>0, <4>1 DEF Outcomes
    <3> QED BY <3>2, <3>3
  <2>2. PICK f \in Int : o.done = {Count(s, - f)} /\ o.kept = {} /\ o.fails = {} /\ o.dies = {s}
    BY <2>1
  <2>3. P(s)
    BY <1>2
  <2>4. P(Count(s, - f))
    BY <1>5, <2>3
  <2> HIDE DEF P
  <2> QED BY <1>3, <1>8, <1>w, <2>2, <2>3, <2>4
<1>9. CASE disk.post[w] # NoPost /\ ~ all
  <2> DEFINE gone == PutPost(s, n, NoPost)
             c == Count(gone, - PostBytes(disk.post[w]))
  <2>1. /\ o.done = {c} /\ o.kept = {Recount(s)} /\ o.fails = {} /\ o.dies = {s, gone}
    <3>1. o = FileDeleted(s, n)
      BY <1>9, <1>w, <1>s DEF Deleted
    <3>2. o = Outcomes({c}, {Recount(s)}, {}, {s, gone})
      BY <1>7, <3>1, Zenon DEF FileDeleted
    <3> HIDE DEF gone
    <3> QED BY <3>2 DEF Outcomes
  <2>g. gone = PutPost(s, n, NoPost) /\ c = Count(gone, - PostBytes(disk.post[w]))
    OBVIOUS
  <2> HIDE DEF gone, c
  <2>2. /\ SweptAt(i, n, w, {}, gone) /\ gone.disk.post[w] = NoPost
        /\ gone.disk.assets[w] = disk.assets[w] /\ gone.used = used
    <3>1. w \in s.disk.dirs /\ w = Target(s.disk, n)
      BY <1>1, <1>2, <1>w
    <3> QED BY <1>1, <1>2, <2>g, <3>1, SweptEmptied
  <2>3. PostBytes(disk.post[w]) = DirBytes(disk, w) - DirBytes(gone.disk, w)
    <3>1. DirBytes(gone.disk, w) = 0 + Cardinality(disk.assets[w])
      BY <1>6, <2>2 DEF DirBytes
    <3> QED BY <1>6, <3>1
  <2>4. Exact(c) /\ Alive(i, c) /\ Dead(i, c) /\ PostAgrees(c.disk, c.cache, {}, i)
    BY <1>w, <2>g, <2>2, <2>3, SweptExact
  <2>5. P(s) /\ P(gone)
    BY <1>2, <2>2
  <2> HIDE DEF P
  <2> QED BY <1>3, <1>4, <2>1, <2>4, <2>5
<1>10. CASE disk.post[w] # NoPost /\ all /\ disk.link[n] # NoName
  <2> DEFINE gone == Swept(s, {n})
  <2>1. /\ o.done = {Count(gone, - DirBytes(disk, w))} /\ o.kept = {Recount(s)} /\ o.fails = {}
        /\ o.dies = {s, gone}
    <3>1. o = LinkDeleted(s, n)
      BY <1>10, <1>w, <1>s DEF Deleted
    <3>2. o = Outcomes({Count(gone, - DirBytes(disk, w))}, {Recount(s)}, {}, {s, gone})
      BY <1>7, <3>1, Zenon DEF LinkDeleted
    <3> HIDE DEF gone
    <3> QED BY <3>2 DEF Outcomes
  <2>2. - DirBytes(disk, w) \in Int
    BY <1>6
  <2>3. P(s) /\ P(gone)
    <3>1. {n} \in SUBSET Names /\ \A k \in {n} : Target(disk, k) = w
      BY <1>w
    <3>2. SweptAt(i, n, w, {n}, gone)
      BY <1>w, <1>s, <3>1, SweptLinks
    <3> QED BY <1>2, <3>2
  <2> HIDE DEF gone
  <2>4. P(Count(gone, - DirBytes(disk, w)))
    BY <1>5, <2>2, <2>3
  <2> HIDE DEF P
  <2>5. P(Recount(s))
    BY <1>4, <2>3
  <2>6. \A x \in o.done \cup o.kept \cup o.fails \cup o.dies : P(x)
    BY <2>1, <2>3, <2>4, <2>5
  <2> QED BY <1>3, <1>10, <1>w, <2>6
<1>11. CASE disk.post[w] # NoPost /\ all /\ disk.link[n] = NoName
  <2> DEFINE swept == {Swept(s, R) : R \in LinkSweeps(disk, n)}
             D(t) == Count(WithoutDir(t, n), - DirBytes(disk, w))
  <2>1. /\ o.done = {D(t) : t \in swept}
        /\ o.kept = {Recount(t) : t \in swept \cup {PutPost(t, n, NoPost) : t \in swept}}
        /\ o.fails = {} /\ o.dies = {s} \cup swept \cup {WithoutDir(t, n) : t \in swept}
    <3>1. o = DirDeleted(s, n)
      BY <1>11, <1>w, <1>s DEF Deleted
    <3>2. o = Outcomes({D(t) : t \in swept},
                       {Recount(t) : t \in swept \cup {PutPost(t, n, NoPost) : t \in swept}},
                       {}, {s} \cup swept \cup {WithoutDir(t, n) : t \in swept})
      BY <1>7, <3>1, Zenon DEF DirDeleted
    <3> HIDE DEF swept, D
    <3> QED BY <3>2 DEF Outcomes
  <2>2. w = n
    BY <1>1, <1>11
  <2>3. ASSUME NEW t \in swept
        PROVE  \E R : SweptAt(i, n, w, R, t) /\ t.used = used /\ t.disk.dirs = disk.dirs
                      /\ t.disk.link[n] = NoName
    <3>1. PICK R \in LinkSweeps(disk, n) : t = Swept(s, R)
      BY <2>3
    <3>2. R \in SUBSET Names /\ \A k \in R : Target(disk, k) = w
      BY <2>2, <3>1 DEF LinkSweeps, LinksTo
    <3> QED BY <1>w, <1>s, <1>11, <3>1, <3>2, SweptLinks
  <2> HIDE DEF swept
  <2>4. ASSUME NEW t \in swept
        PROVE  /\ P(t) /\ P(PutPost(t, n, NoPost)) /\ P(WithoutDir(t, n))
               /\ Alive(i, D(t)) /\ Dead(i, D(t)) /\ Exact(D(t))
               /\ PostAgrees(D(t).disk, D(t).cache, {}, i)
    <3>1. PICK R : SweptAt(i, n, w, R, t) /\ t.used = used /\ t.disk.dirs = disk.dirs
                   /\ t.disk.link[n] = NoName
      BY <2>3, <2>4
    <3>2. P(t)
      BY <3>1
    <3>3. P(PutPost(t, n, NoPost))
      <4>1. w = Target(t.disk, n)
        BY <2>2, <3>1 DEF Target
      <4>2. SweptAt(i, n, w, R, PutPost(t, n, NoPost))
        BY <1>1, <3>1, <4>1, SweptEmptied
      <4> QED BY <4>2
    <3> DEFINE u == WithoutDir(t, n)
    <3>u. u = WithoutDir(t, n)
      OBVIOUS
    <3> HIDE DEF u
    <3>4. SweptAt(i, n, w, R, u) /\ u.disk.post[w] = NoPost /\ u.disk.assets[w] = {} /\ u.used = used
      BY <2>2, <3>1, <3>u, SweptRemoved
    <3>5. DirBytes(disk, w) = DirBytes(disk, w) - DirBytes(u.disk, w)
      <4>1. DirBytes(u.disk, w) = 0
        BY <1>6, <3>4, FS_EmptySet DEF DirBytes
      <4> QED BY <1>6, <4>1
    <3>6. D(t) = Count(u, - DirBytes(disk, w))
      BY DEF u
    <3> HIDE DEF D
    <3>7. Exact(D(t)) /\ Alive(i, D(t)) /\ Dead(i, D(t)) /\ PostAgrees(D(t).disk, D(t).cache, {}, i)
      BY <1>w, <3>4, <3>5, <3>6, SweptExact
    <3>8. P(WithoutDir(t, n))
      BY <3>4, <3>u
    <3> QED BY <3>2, <3>3, <3>7, <3>8
  <2> HIDE DEF P, D
  <2>5. P(s)
    BY <1>2 DEF P
  <2>6. \A x \in o.done : Alive(i, x) /\ Dead(i, x) /\ Exact(x) /\ PostAgrees(x.disk, x.cache, {}, i)
    BY <2>1, <2>4
  <2>7. \A x \in o.kept : P(x) /\ Exact(x)
    BY <1>4, <2>1, <2>4
  <2>8. \A x \in o.dies : P(x)
    BY <2>1, <2>4, <2>5
  <2> QED BY <1>3, <2>1, <2>6, <2>7, <2>8
<1> QED BY <1>8, <1>9, <1>10, <1>11

LEMMA DeletePostHolds ==
  ASSUME IInv, NEW n \in Names, DeletePost(n)
  PROVE  IInv'
<1>1. up /\ cache[n] # NoPost /\ UNCHANGED born /\ addresses' = [addresses EXCEPT ![cache[n].id] = {}]
  BY DEF DeletePost
<1>2. PICK deleteAssets \in BOOLEAN :
        LET all == deleteAssets \/ cache[n].draft
            hollow == disk.post[Target(disk, n)] = NoPost \/ disk.link[n] # NoName
        IN  IF hollow
              THEN /\ \E s \in Deleted(n, all).done \cup Deleted(n, all).kept : Becomes(s)
                   /\ adrift' = adrift \cup {cache[n].id} /\ loose' = TRUE
                   /\ UNCHANGED <<up, faults>>
              ELSE Request(cache[n].id, Deleted(n, all))
  BY DEF DeletePost
<1> DEFINE i == cache[n].id
           all == deleteAssets \/ cache[n].draft
           hollow == disk.post[Target(disk, n)] = NoPost \/ disk.link[n] # NoName
           o == Deleted(n, all)
<1>3. i \in Ids /\ i \in born /\ TypeOK
  BY <1>1, OwnsRow DEF IInv
<1>4. all \in BOOLEAN
  OBVIOUS
<1>5. o = Deleted(n, all) /\ i = cache[n].id
  OBVIOUS
<1>6. /\ \A s \in o.done \cup o.kept \cup o.fails \cup o.dies : Alive(i, s) /\ Dead(i, s)
      /\ ~ hollow => /\ \A s \in o.done : Exact(s) /\ PostAgrees(s.disk, s.cache, {}, i)
                     /\ \A s \in o.kept : Exact(s)
  <2> HIDE DEF all, o, i
  <2> QED BY <1>1, <1>4, <1>5, DeletedIs
<1>7. /\ addresses' \in [Ids -> SUBSET Names] /\ addresses'[i] = {}
      /\ \A j \in Ids \ {i} : addresses'[j] = addresses[j]
      /\ i \in born' /\ born \subseteq born' /\ born' \subseteq Ids
  BY <1>1, <1>3 DEF TypeOK
<1>8. CASE hollow
  <2>1. /\ \E s \in o.done \cup o.kept : Becomes(s)
        /\ adrift' = adrift \cup {i} /\ loose' = TRUE /\ UNCHANGED <<up, faults>>
    BY <1>2, <1>8
  <2> HIDE DEF i, o, hollow
  <2>2. PICK s \in o.done \cup o.kept : Becomes(s)
    BY <2>1
  <2>3. Alive(i, s) /\ Dead(i, s)
    BY <1>6
  <2>4. /\ up' \in BOOLEAN /\ loose' \in BOOLEAN /\ faults' \in 0 .. MaxFaults
        /\ adrift \subseteq adrift' /\ adrift' \subseteq Ids /\ i \in adrift'
    BY <1>3, <2>1 DEF TypeOK
  <2>5. ~ (~ loose')
    BY <2>1
  <2>6. \A j \in Ids \ {i} : addresses'[j] \subseteq addresses[j] \cup PublicNames(cache', j)
    BY <1>7
  <2> QED BY <1>1, <1>3, <1>7, <2>2, <2>3, <2>4, <2>5, <2>6, OutcomeHolds
<1>9. CASE ~ hollow
  <2>1. Request(i, o)
    BY <1>2, <1>9
  <2> HIDE DEF i, o, hollow
  <2>2. \A s \in o.done : Alive(i, s) /\ Exact(s)
          /\ (Becomes(s) => i \in adrift' \/ PostAgrees(s.disk, s.cache, addresses'[i], i))
    BY <1>6, <1>7, <1>9
  <2>3. /\ \A s \in o.kept : Alive(i, s) /\ Exact(s)
        /\ \A s \in o.fails : Alive(i, s)
        /\ \A s \in o.dies : Dead(i, s)
    BY <1>6, <1>9
  <2>4. \A j \in Ids \ {i} : addresses'[j] \subseteq addresses[j] \cup PublicNames(cache', j)
    BY <1>7
  <2> QED BY <1>1, <1>3, <1>7, <2>1, <2>2, <2>3, <2>4, RequestHolds
<1> QED BY <1>8, <1>9

-----------------------------------------------------------------------------
(* The rebuild.                                                             *)

LEMMA RestartHolds ==
  ASSUME IInv, Restart
  PROVE  IInv'
<1>1. /\ up' = TRUE /\ cache' = Rebuilt(disk) /\ used' = DiskBytes(disk)
      /\ loose' = FALSE /\ adrift' = {} /\ disk' = disk /\ born' = born /\ faults' = faults
      /\ Publish([j \in Ids |-> IF j \in adrift THEN {} ELSE addresses[j]])
  BY DEF Restart
<1>2. /\ TypeOK /\ Plain(disk) /\ Acyclic(disk) /\ Distinct(disk) /\ Known
      /\ disk \in Disks /\ disk.dirs \in SUBSET Names
  BY DEF IInv, Plain, Disks
<1>3. ASSUME NEW n \in Names
      PROVE  /\ cache'[n] = IF n \in disk.dirs /\ disk.post[n] # Torn THEN disk.post[n] ELSE NoPost
             /\ cache'[n] \in Posts \cup {NoPost}
             /\ n \in disk.dirs => Target(disk, n) = n
  <2>1. cache'[n] = IF n \in disk.dirs /\ disk.post[n] # Torn THEN disk.post[n] ELSE NoPost
    BY <1>1 DEF Rebuilt
  <2>2. disk.post[n] \in Posts \cup {NoPost, Torn}
    BY <1>2 DEF Disks
  <2>3. n \in disk.dirs => Target(disk, n) = n
    BY <1>2, TargetFacts DEF Plain
  <2> QED BY <2>1, <2>2, <2>3
<1>4. cache' \in [Names -> Posts \cup {NoPost}]
  <2>1. cache' = [n \in Names |-> IF n \in disk.dirs /\ disk.post[n] # Torn THEN disk.post[n] ELSE NoPost]
    BY <1>1 DEF Rebuilt
  <2> QED BY <1>3, <2>1
<1>5. /\ addresses' \in [Ids -> SUBSET Names]
      /\ \A j \in Ids : addresses'[j] = (IF j \in adrift THEN {} ELSE addresses[j]) \cup PublicNames(cache', j)
  BY <1>1, <1>2 DEF Publish, PublicNames, TypeOK
<1>6. TypeOK'
  <2>1. DiskBytes(disk) \in Nat
    BY <1>2, DiskBytesType
  <2> QED BY <1>1, <1>2, <1>4, <1>5, <2>1 DEF TypeOK
<1>7. Plain(disk)' /\ Distinct(disk)'
  BY <1>1, <1>2
<1>8. ASSUME NEW n \in Names, cache'[n].id \in Ids
      PROVE  n \in disk.dirs /\ Target(disk, n) = n /\ cache'[n] = disk.post[n]
  BY <1>3, <1>8, IdFacts
<1>9. RowsApart(disk', cache')
  <2>1. \A n, m \in Names : cache'[n].id \in Ids /\ cache'[m].id \in Ids =>
          (Target(disk, n) = Target(disk, m) \/ cache'[n].id = cache'[m].id => n = m)
    BY <1>2, <1>8 DEF Distinct
  <2>2. \A n \in Names : cache'[n].id \in Ids =>
          /\ Target(disk, n) \in disk.dirs
          /\ disk.post[Target(disk, n)].id \in {cache'[n].id, 0, -1}
          /\ \A w \in disk.dirs : disk.post[w].id = cache'[n].id => w = Target(disk, n)
    BY <1>2, <1>8 DEF Distinct
  <2> QED BY <1>1, <2>1, <2>2 DEF RowsApart
<1>10. Known'
  <2>1. \A n \in Names : {disk.post[n].id, cache'[n].id} \cap Ids \subseteq born
    BY <1>2, <1>8 DEF Known
  <2> QED BY <1>1, <2>1 DEF Known
<1>11. ASSUME NEW j \in Ids PROVE PostAgrees(disk', cache', addresses'[j], j)
  <2>1. \A n \in Names : cache'[n].id = j =>
          Target(disk, n) \in disk.dirs /\ disk.post[Target(disk, n)] = cache'[n]
    BY <1>8
  <2>2. ASSUME NEW w \in disk.dirs, disk.post[w].id = j
        PROVE  w \in Names /\ Target(disk, w) = w /\ cache'[w] = disk.post[w]
    BY <1>2, <1>3, <2>2, IdFacts
  <2>3. ASSUME NEW n \in addresses'[j]
        PROVE  \E m \in Names : cache'[m].id = j /\ Target(disk, n) = Target(disk, m)
    <3>1. CASE n \in PublicNames(cache', j)
      BY <3>1 DEF PublicNames
    <3>2. CASE n \notin PublicNames(cache', j)
      <4>1. j \notin adrift /\ n \in addresses[j]
        BY <1>5, <2>3, <3>2
      <4>2. PICK m \in Names : cache[m].id = j /\ Target(disk, n) = Target(disk, m)
        BY <4>1 DEF IInv, PostAgrees
      <4>3. Target(disk, m) \in disk.dirs /\ disk.post[Target(disk, m)].id = j
        BY <4>1, <4>2 DEF IInv, PostAgrees
      <4> QED BY <2>2, <4>2, <4>3
    <3> QED BY <3>1, <3>2
  <2> QED BY <1>1, <2>1, <2>2, <2>3 DEF PostAgrees
<1>12. UsageIsExact'
  BY <1>1 DEF UsageIsExact
<1> QED BY <1>6, <1>7, <1>9, <1>10, <1>11, <1>12 DEF IInv

-----------------------------------------------------------------------------
(* The theorems.                                                            *)

LEMMA InitHolds == Init => IInv
<1> SUFFICES ASSUME Init PROVE IInv
  OBVIOUS
<1>1. /\ disk = [dirs |-> {}, link |-> [n \in Names |-> NoName],
                 post |-> [n \in Names |-> NoPost], assets |-> [n \in Names |-> {}]]
      /\ cache = [n \in Names |-> NoPost] /\ used = 0 /\ up = TRUE /\ born = {}
      /\ loose = FALSE /\ faults = 0 /\ adrift = {} /\ addresses = [i \in Ids |-> {}]
  BY DEF Init
<1>2. /\ disk.dirs = {} /\ \A n \in Names : disk.link[n] = NoName /\ disk.post[n] = NoPost
      /\ \A n \in Names : disk.assets[n] = {} /\ cache[n] = NoPost
      /\ disk \in Disks
  BY <1>1 DEF Disks
<1>3. TypeOK
  <2>1. cache \in [Names -> Posts \cup {NoPost}]
    BY <1>1
  <2>2. addresses \in [Ids -> SUBSET Names]
    BY <1>1
  <2>3. 0 \in 0 .. MaxFaults
    BY ContentAssumption
  <2>4. used \in Nat /\ up \in BOOLEAN /\ loose \in BOOLEAN /\ faults \in 0 .. MaxFaults
    BY <1>1, <2>3
  <2> QED BY <1>1, <1>2, <2>1, <2>2, <2>4 DEF TypeOK
<1>4. Plain(disk)
  <2>1. Acyclic(disk)
    BY <1>2, NoNameIsNoName DEF Acyclic, Linking, Disks
  <2> QED BY <1>2, <2>1 DEF Plain
<1>5. Distinct(disk) /\ Known /\ RowsApart(disk, cache)
  BY <1>2, IdFacts DEF Distinct, Known, RowsApart
<1>6. \A i \in Ids : PostAgrees(disk, cache, addresses[i], i)
  <2>1. \A i \in Ids : addresses[i] = {}
    BY <1>1
  <2> QED BY <1>2, <2>1, IdFacts DEF PostAgrees
<1>7. UsageIsExact
  <2>1. PostUnits(disk, disk.dirs) = {} /\ AssetUnits(disk, disk.dirs) = {}
    BY <1>2 DEF PostUnits, AssetUnits
  <2>2. DiskBytes(disk) = 0
    BY <2>1, FS_EmptySet DEF DiskBytes
  <2> QED BY <1>1, <2>2 DEF UsageIsExact
<1> QED BY <1>3, <1>4, <1>5, <1>6, <1>7 DEF IInv

LEMMA NextHolds == IInv /\ [Next]_vars => IInv'
<1> SUFFICES ASSUME IInv, [Next]_vars PROVE IInv'
  OBVIOUS
<1>1. CASE \E i \in Ids : CreatePost(i)
  BY <1>1, CreatePostHolds
<1>2. CASE \E i \in Ids : UploadPost(i)
  BY <1>2, UploadPostHolds
<1>3. CASE \E n \in Names : UpdatePost(n)
  BY <1>3, UpdatePostHolds
<1>4. CASE \E n \in Names : DeletePost(n)
  BY <1>4, DeletePostHolds
<1>5. CASE \E n \in Names : UploadAssets(n)
  BY <1>5, AssetsHold
<1>6. CASE \E n \in Names, x \in AssetNames :
             DeleteAsset(n, x) \/ \E y \in AssetNames : RenameAsset(n, x, y)
  BY <1>6, AssetsHold
<1>7. CASE Restart
  BY <1>7, RestartHolds
<1>8. CASE UNCHANGED vars
  BY <1>8 DEF vars, IInv, TypeOK, Known, UsageIsExact
<1> QED BY <1>1, <1>2, <1>3, <1>4, <1>5, <1>6, <1>7, <1>8 DEF Next

\* The files, the rows, the tracker and the public addresses stay as IInv says,
\* whatever requests succeed, fail half-way or end with the server
THEOREM StoreIsInOrder == Spec => []IInv
<1> QED BY InitHolds, NextHolds, PTL DEF Spec

\* All variables keep their types: the tracker never becomes negative, and no
\* deletion leaves a row or an address that is no name
THEOREM TypeCorrect == Spec => []TypeOK
<1>1. IInv => TypeOK
  BY DEF IInv
<1> QED BY <1>1, StoreIsInOrder, PTL

\* A running server's rows say what their paths read, and every readable post
\* has its row, unless a request about it failed since the last rebuild
THEOREM CacheFollowsDisk == Spec => []CacheMatchesDisk
<1>1. IInv => CacheMatchesDisk
  <2> SUFFICES ASSUME IInv, up PROVE
          /\ \A n \in Names : cache[n] # NoPost /\ cache[n].id \notin adrift
               => disk.post[Target(disk, n)] = cache[n]
          /\ \A n \in disk.dirs : disk.post[n].id \in Ids \ adrift
               => \E m \in Names : Target(disk, m) = n /\ cache[m] = disk.post[n]
    BY DEF CacheMatchesDisk
  <2>1. \A i \in Ids \ adrift : PostAgrees(disk, cache, addresses[i], i)
    BY DEF IInv
  <2>2. ASSUME NEW n \in Names, cache[n] # NoPost, cache[n].id \notin adrift
        PROVE  disk.post[Target(disk, n)] = cache[n]
    BY <2>1, <2>2, OwnsRow DEF PostAgrees
  <2>3. ASSUME NEW n \in disk.dirs, disk.post[n].id \in Ids \ adrift
        PROVE  \E m \in Names : Target(disk, m) = n /\ cache[m] = disk.post[n]
    BY <2>1, <2>3 DEF PostAgrees
  <2> QED BY <2>2, <2>3
<1> QED BY <1>1, StoreIsInOrder, PTL

\* The size tracker, which every request adds its own difference to, equals the
\* size of all directories until a request fails where it cannot count
THEOREM TrackerIsExact == Spec => []UsageIsExact
<1>1. IInv => UsageIsExact
  BY DEF IInv
<1> QED BY <1>1, StoreIsInOrder, PTL

\* The post page tries the symlink before the row and the API the row before
\* the symlink; both open every listed name as itself
THEOREM ListsOpen == Spec => []ListedPostsOpen
<1>1. IInv => ListedPostsOpen
  <2> SUFFICES ASSUME IInv, up, NEW n \in Listed PROVE PostRoute(n) = n /\ GetPost(n) = n
    BY DEF ListedPostsOpen
  <2>1. n \in Names /\ IsPublic(n)
    BY DEF Listed, FeedItems, SitemapPosts, HomepagePosts, LabelPosts, SearchHits
  <2> DEFINE w == Target(disk, n)
  <2>2. /\ w \in Names /\ w # Nothing /\ Plain(disk) /\ Acyclic(disk)
        /\ \A m \in Names : cache[m] # NoPost /\ Target(disk, m) = w => m = n
    <3>1. Plain(disk) /\ Acyclic(disk) /\ w \in Names
      BY <2>1, TargetFacts DEF IInv, Plain
    <3>2. cache[n] # NoPost
      BY <2>1 DEF IsPublic
    <3>3. ASSUME NEW m \in Names, cache[m] # NoPost, Target(disk, m) = w PROVE m = n
      <4>1. cache[m].id \in Ids /\ cache[n].id \in Ids /\ RowsApart(disk, cache)
        BY <2>1, <3>2, <3>3, OwnsRow DEF IInv
      <4> QED BY <2>1, <3>3, <4>1 DEF RowsApart
    <3> QED BY <3>1, <3>3, NoNameIsNoName DEF Nothing
  <2>3. ASSUME SymlinkTarget(n) # Nothing PROVE SymlinkTarget(n) = w /\ ~ IsPublic(w)
    <3>1. SymlinkTarget(n) = w /\ w # n /\ w \in disk.dirs
      BY <2>3 DEF SymlinkTarget
    <3>2. Target(disk, w) = w
      BY <2>2, <3>1, TargetFacts DEF Plain
    <3> QED BY <2>2, <3>1, <3>2 DEF IsPublic
  <2> QED BY <2>1, <2>3 DEF PostRoute, GetPost
<1> QED BY <1>1, StoreIsInOrder, PTL

\* The one row that an old address of a post leads to
LEMMA AddressLeads ==
  ASSUME IInv, up, NEW i \in Ids \ adrift, NEW n \in addresses[i], ~ OverSymlink(i)
  PROVE  \E m \in Names : /\ n \in Names /\ Target(disk, n) = m /\ m \in disk.dirs
                          /\ disk.post[m] # NoPost /\ cache[m] # NoPost /\ cache[m].id = i
                          /\ \A k \in Names : cache[k].id = i => k = m
                          /\ cache[n] # NoPost => n = m
<1>1. n \in Names /\ Acyclic(disk) /\ RowsApart(disk, cache)
      /\ PostAgrees(disk, cache, addresses[i], i)
  BY DEF IInv, TypeOK, Plain
<1>2. PICK m \in Names : cache[m].id = i /\ Target(disk, n) = Target(disk, m)
  BY <1>1 DEF PostAgrees
<1>3. disk.link[m] = NoName
  BY <1>2 DEF OverSymlink
<1>4. Target(disk, m) = m
  BY <1>1, <1>3, TargetFacts
<1>5. m \in disk.dirs /\ disk.post[m] = cache[m] /\ cache[m] # NoPost
  BY <1>1, <1>2, <1>4, IdFacts DEF PostAgrees
<1>6. \A k \in Names : cache[k].id = i => k = m
  BY <1>1, <1>2 DEF RowsApart
<1>7. ASSUME cache[n] # NoPost PROVE n = m
  <2>1. cache[n].id \in Ids
    BY <1>1, <1>7, OwnsRow
  <2> QED BY <1>1, <1>2, <2>1 DEF RowsApart
<1> QED BY <1>1, <1>2, <1>4, <1>5, <1>6, <1>7

\* Every name a post was ever public under opens it in both views while it is
\* public, and nothing on the page once it is not, over any number of renames
THEOREM AddressesKeepWorking == Spec => []PermalinksWork
<1>1. IInv => PermalinksWork
  <2> SUFFICES ASSUME IInv, up, NEW i \in Ids \ adrift, NEW n \in addresses[i], ~ OverSymlink(i)
               PROVE  IF PublicNames(cache, i) = {} THEN PostRoute(n) = Nothing
                      ELSE PostRoute(n) \in PublicNames(cache, i) /\ GetPost(n) \in PublicNames(cache, i)
    BY DEF PermalinksWork
  <2>1. PICK m \in Names : /\ n \in Names /\ Target(disk, n) = m /\ m \in disk.dirs
                           /\ disk.post[m] # NoPost /\ cache[m] # NoPost /\ cache[m].id = i
                           /\ \A k \in Names : cache[k].id = i => k = m
                           /\ cache[n] # NoPost => n = m
    BY AddressLeads
  <2>2. m # Nothing /\ n # Nothing
    BY <2>1, NoNameIsNoName DEF Nothing
  <2>3. SymlinkTarget(n) = IF n = m THEN Nothing ELSE m
    BY <2>1 DEF SymlinkTarget
  <2>4. IsPublic(n) => n = m
    BY <2>1 DEF IsPublic
  <2>5. PublicNames(cache, i) = IF IsPublic(m) THEN {m} ELSE {}
    BY <2>1 DEF PublicNames, IsPublic
  <2>6. CASE IsPublic(m)
    <3>1. PostRoute(n) = m /\ GetPost(n) = m
      BY <2>2, <2>3, <2>4, <2>6 DEF PostRoute, GetPost
    <3> QED BY <2>5, <2>6, <3>1
  <2>7. CASE ~ IsPublic(m)
    <3>1. PostRoute(n) = Nothing
      BY <2>2, <2>3, <2>4, <2>7 DEF PostRoute
    <3> QED BY <2>5, <2>7, <3>1
  <2> QED BY <2>6, <2>7
<1> QED BY <1>1, StoreIsInOrder, PTL

\* The assets of a post are served under all its addresses while it is public
\* and under none while it is a draft
THEOREM AssetsComeAlong == Spec => []AssetsFollowPost
<1>1. IInv => AssetsFollowPost
  <2> SUFFICES ASSUME IInv, up, NEW n \in Names, NEW i \in Ids \ adrift, n \in addresses[i], ~ OverSymlink(i)
               PROVE  IF \E m \in Names : cache[m].id = i /\ ~ cache[m].draft
                        THEN ServedAssets(n) = disk.assets[Target(disk, n)]
                        ELSE ServedAssets(n) = {}
    BY DEF AssetsFollowPost
  <2>1. PICK m \in Names : /\ Target(disk, n) = m /\ m \in disk.dirs
                           /\ cache[m] # NoPost /\ cache[m].id = i
                           /\ \A k \in Names : cache[k].id = i => k = m
    BY AddressLeads
  <2>2. CASE cache[m].draft
    <3>1. ServedAssets(n) = {}
      BY <2>1, <2>2 DEF ServedAssets
    <3>2. ~ \E k \in Names : cache[k].id = i /\ ~ cache[k].draft
      BY <2>1, <2>2
    <3> QED BY <3>1, <3>2
  <2>3. CASE ~ cache[m].draft
    <3>1. ServedAssets(n) = disk.assets[Target(disk, n)]
      BY <2>1, <2>3 DEF ServedAssets
    <3>2. \E k \in Names : cache[k].id = i /\ ~ cache[k].draft
      BY <2>1, <2>3
    <3> QED BY <3>1, <3>2
  <2> QED BY <2>2, <2>3
<1> QED BY <1>1, StoreIsInOrder, PTL
====
