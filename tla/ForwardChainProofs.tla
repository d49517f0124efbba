-------------------------- MODULE ForwardChainProofs --------------------------
(***************************************************************************)
(* For any chain of forward plugins, any configurations and any number of  *)
(* attempts.  First what json_rename, a fold over the pairs of a           *)
(* dictionary, makes of any fields.  ChainInv then says of every place of  *)
(* the chain what is true of the body, the headers, the events and the     *)
(* answer between that place and upstream, and how often the chain has     *)
(* come by it.                                                             *)
(***************************************************************************)
EXTENDS ForwardChain, FiniteSetTheorems, WellFoundedInduction, TLAPS

(* Of some natural numbers one is the least. *)
LEMMA Least ==
    ASSUME NEW B \in SUBSET Nat, B # {}
    PROVE  \E m \in B : \A k \in B : m <= k
<1>1. PICK b \in B : TRUE
  OBVIOUS
<1> DEFINE S == 0 .. b
           T == {U \in SUBSET S : \E k \in B : U = 0 .. k}
<1>2. IsFiniteSet(S) /\ S \in T
  BY FS_Interval
<1>3. PICK X \in T : \A Y \in T : ~ (<<Y, X>> \in StrictSubsetOrdering(S))
  <2>1. IsWellFoundedOn(StrictSubsetOrdering(S), SUBSET S)
    BY <1>2, FS_StrictSubsetOrderingWellFounded, FS_FiniteSubsetsOfFinite
  <2>2. T \subseteq SUBSET S /\ T # {}
    BY <1>2
  <2> HIDE DEF T, S
  <2> QED
    BY <2>1, <2>2, WFMin
<1>4. PICK m \in B : X = 0 .. m
  OBVIOUS
<1>5. ASSUME NEW k \in B, k < m PROVE FALSE
  <2>1. 0 .. k \in T /\ 0 .. k \subseteq X /\ 0 .. k # X
    <3>1. m \in X /\ m \notin 0 .. k
      BY <1>4, <1>5
    <3>2. 0 .. k \subseteq X /\ X \subseteq S
      BY <1>4, <1>5
    <3> QED
      BY <3>1, <3>2
  <2>2. <<0 .. k, X>> \in StrictSubsetOrdering(S)
    BY <2>1 DEF StrictSubsetOrdering
  <2> HIDE DEF T, S
  <2> QED
    BY <1>3, <2>1, <2>2
<1> QED
  BY <1>5

(* What holds of 0 and of the next of each number up to n holds of n. *)
LEMMA UpTo ==
    ASSUME NEW n \in Nat, NEW Good, 0 \in Good, \A k \in 0 .. n - 1 : k \in Good => k + 1 \in Good
    PROVE  0 .. n \subseteq Good
<1> DEFINE B == {k \in 0 .. n : k \notin Good}
<1> SUFFICES ASSUME B # {} PROVE FALSE
  OBVIOUS
<1>1. PICK m \in B : \A k \in B : m <= k
  <2> B \in SUBSET Nat
    OBVIOUS
  <2> HIDE DEF B
  <2> QED
    BY Least
<1>2. m - 1 \in 0 .. n - 1 /\ m - 1 \in Good
  BY <1>1
<1> QED
  BY <1>1, <1>2

LEMMA MaxUpTo ==
    ASSUME NEW k \in Nat, k # 0, NEW s \in SUBSET (1 .. k), k \in s
    PROVE  Max(s) = k
<1>1. k \in s /\ \A y \in s : k >= y
  OBVIOUS
<1>2. Max(s) \in s /\ \A y \in s : Max(s) >= y
  BY <1>1 DEF Max
<1>3. Max(s) \in 1 .. k /\ Max(s) >= k
  BY <1>2
<1> QED
  BY <1>3

(* A fold over the places of a sequence: F says what one place does.  *)
Folds(F, base, S, it) ==
    \A s \in SUBSET S : it[s] = IF s = {} THEN base ELSE F[<<Max(s), it[s \ {Max(s)}]>>]

LEMMA FoldExists ==
    ASSUME NEW n \in Nat, NEW D, NEW base \in D, NEW F \in [(1 .. n) \X D -> D]
    PROVE  \E it \in [SUBSET (1 .. n) -> D] : Folds(F, base, 1 .. n, it)
<1> DEFINE Good == {k \in 0 .. n : \E it \in [SUBSET (1 .. k) -> D] : Folds(F, base, 1 .. k, it)}
<1>1. 0 \in Good
  <2> DEFINE it == [s \in SUBSET (1 .. 0) |-> base]
  <2>1. it \in [SUBSET (1 .. 0) -> D] /\ Folds(F, base, 1 .. 0, it)
    BY DEF Folds
  <2> QED
    BY <2>1
<1>2. ASSUME NEW k \in 0 .. n - 1, k \in Good PROVE k + 1 \in Good
  <2>1. PICK i \in [SUBSET (1 .. k) -> D] : Folds(F, base, 1 .. k, i)
    BY <1>2
  <2> DEFINE Reaches(s) == k + 1 \in s
             it == [s \in SUBSET (1 .. k + 1) |->
                      IF Reaches(s) THEN F[<<k + 1, i[s \ {k + 1}]>>] ELSE i[s]]
  <2>2. ASSUME NEW s \in SUBSET (1 .. k + 1)
        PROVE  /\ Reaches(s) => /\ Max(s) = k + 1 /\ s # {} /\ s \ {k + 1} \in SUBSET (1 .. k)
                             /\ ~Reaches(s \ {k + 1})
               /\ ~Reaches(s) => s \in SUBSET (1 .. k) /\ (s # {} => s \ {Max(s)} \in SUBSET (1 .. k) /\ ~Reaches(s \ {Max(s)}))
    <3>1. k \in Nat /\ k + 1 \in Nat /\ k + 1 # 0
      OBVIOUS
    <3>2. Reaches(s) => Max(s) = k + 1
      BY <3>1, MaxUpTo
    <3>3. \A u \in SUBSET (1 .. k + 1) : k + 1 \notin u => u \in SUBSET (1 .. k)
      <4>1. \A x \in 1 .. k + 1 : x = k + 1 \/ x \in 1 .. k
        BY <3>1
      <4> QED
        BY <4>1
    <3> QED
      BY <3>2, <3>3
  <2>3. it \in [SUBSET (1 .. k + 1) -> D]
    <3>1. ASSUME NEW s \in SUBSET (1 .. k + 1)
          PROVE  (IF Reaches(s) THEN F[<<k + 1, i[s \ {k + 1}]>>] ELSE i[s]) \in D
      BY <2>2, <2>1
    <3> QED
      BY <3>1
  <2>4. ASSUME NEW s \in SUBSET (1 .. k + 1)
        PROVE  it[s] = IF s = {} THEN base ELSE F[<<Max(s), it[s \ {Max(s)}]>>]
    <3>1. CASE Reaches(s)
      <4>1. it[s \ {k + 1}] = i[s \ {k + 1}]
        BY <2>2, <3>1
      <4> QED
        BY <2>2, <3>1, <4>1
    <3>2. CASE ~Reaches(s)
      <4>1. i[s] = IF s = {} THEN base ELSE F[<<Max(s), i[s \ {Max(s)}]>>]
        BY <2>1, <2>2, <3>2 DEF Folds
      <4>2. s # {} => it[s \ {Max(s)}] = i[s \ {Max(s)}]
        BY <2>2, <3>2
      <4> QED
        BY <3>2, <4>1, <4>2
    <3> QED
      BY <3>1, <3>2
  <2>5. Folds(F, base, 1 .. k + 1, it)
    <3> HIDE DEF it
    <3> QED
      BY <2>4 DEF Folds
  <2>6. k + 1 \in 0 .. n
    OBVIOUS
  <2> HIDE DEF it
  <2> QED
    BY <2>3, <2>5, <2>6
<1>3. n \in Good
  <2> HIDE DEF Good
  <2>1. 0 .. n \subseteq Good
    BY <1>1, <1>2, UpTo
  <2> QED
    BY <2>1
<1> QED
  BY <1>3

(* json_rename: a pair after the other. *)
Contents == UNION {[S -> Values] : S \in SUBSET Fields}
RenameOne(g, p) == IF p[1] \in DOMAIN g THEN With(Without(g, {p[1]}), p[2], g[p[1]]) ELSE g

LEMMA StepTyped ==
    ASSUME NEW g \in Contents, NEW p \in Fields \X Fields
    PROVE  RenameOne(g, p) \in Contents
<1>1. PICK S \in SUBSET Fields : g \in [S -> Values]
  BY DEF Contents
<1>2. p[1] \in Fields /\ p[2] \in Fields
  OBVIOUS
<1>3. CASE p[1] \in DOMAIN g
  <2> DEFINE T == (DOMAIN g \ {p[1]}) \cup {p[2]}
  <2>1. With(Without(g, {p[1]}), p[2], g[p[1]]) = [y \in T |-> IF y = p[2] THEN g[p[1]] ELSE g[y]]
    BY DEF With, Without
  <2>2. T \in SUBSET Fields /\ \A y \in T : (IF y = p[2] THEN g[p[1]] ELSE g[y]) \in Values
    BY <1>1, <1>2, <1>3
  <2>3. [y \in T |-> IF y = p[2] THEN g[p[1]] ELSE g[y]] \in [T -> Values]
    BY <2>2
  <2> HIDE DEF T
  <2> QED
    BY <1>3, <2>1, <2>2, <2>3 DEF Contents, RenameOne
<1> QED
  BY <1>3 DEF RenameOne

Runs(f, it) ==
    it = [s \in SUBSET (DOMAIN config.rename) |->
            IF s = {} THEN f ELSE RenameOne(it[s \ {Max(s)}], config.rename[Max(s)])]

LEMMA MaxIn ==
    ASSUME NEW n \in Nat, NEW s \in SUBSET (1 .. n), s # {}
    PROVE  Max(s) \in s /\ \A y \in s : y <= Max(s)
<1> DEFINE B == {k \in 0 .. n : \A y \in s : y <= k}
<1>1. n \in B
  OBVIOUS
<1>2. PICK m \in B : \A k \in B : m <= k
  <2> B \in SUBSET Nat /\ B # {}
    BY <1>1
  <2> HIDE DEF B
  <2> QED
    BY Least
<1>3. m \in s
  <2> SUFFICES ASSUME m \notin s PROVE FALSE
    OBVIOUS
  <2>1. PICK x \in s : TRUE
    OBVIOUS
  <2>2. x <= m /\ x # m /\ x \in 1 .. n
    BY <1>2, <2>1
  <2>3. m - 1 \in 0 .. n /\ \A y \in s : y <= m - 1
    BY <1>2, <2>2
  <2> QED
    BY <1>2, <2>3
<1>4. \A y \in s : m >= y
  BY <1>2
<1>5. Max(s) \in s /\ \A y \in s : Max(s) >= y
  BY <1>3, <1>4 DEF Max
<1> QED
  BY <1>5

(* What json_rename has made of f after each of its entries. *)
Stages(f, h) ==
    /\ h \in [0 .. Len(config.rename) -> Contents]
    /\ h[0] = f
    /\ \A k \in 1 .. Len(config.rename) : h[k] = RenameOne(h[k - 1], config.rename[k])

LEMMA RenamedInStages ==
    ASSUME config \in ConfigRecords, NEW f \in Contents
    PROVE  \E h : Stages(f, h) /\ Renamed(f) = h[Len(config.rename)]
<1> DEFINE rs == config.rename
           n == Len(rs)
           F == [x \in (1 .. n) \X Contents |-> RenameOne(x[2], rs[x[1]])]
           G == CHOOSE it : Runs(f, it)
<1>0. rs \in Seq(Fields \X Fields)
  BY DEF ConfigRecords
<1>1. n \in Nat /\ DOMAIN rs = 1 .. n /\ \A k \in 1 .. n : rs[k] \in Fields \X Fields
  BY <1>0
<1>2. F \in [(1 .. n) \X Contents -> Contents]
  <2>1. ASSUME NEW x \in (1 .. n) \X Contents PROVE RenameOne(x[2], rs[x[1]]) \in Contents
    BY <1>1, <2>1, StepTyped
  <2> HIDE DEF n, rs
  <2> QED
    BY <2>1
<1>3. PICK it \in [SUBSET (1 .. n) -> Contents] : Folds(F, f, 1 .. n, it)
  <2> HIDE DEF F, n, rs
  <2> QED
    BY <1>1, <1>2, FoldExists
<1>4. Runs(f, it)
  <2>1. ASSUME NEW s \in SUBSET (1 .. n)
        PROVE  it[s] = IF s = {} THEN f ELSE RenameOne(it[s \ {Max(s)}], rs[Max(s)])
    <3>1. s # {} => Max(s) \in 1 .. n /\ s \ {Max(s)} \in SUBSET (1 .. n)
      BY <1>1, <2>1, MaxIn
    <3>2. s # {} => F[<<Max(s), it[s \ {Max(s)}]>>] = RenameOne(it[s \ {Max(s)}], rs[Max(s)])
      BY <3>1, <1>3
    <3> QED
      BY <1>3, <2>1, <3>2 DEF Folds
  <2>2. DOMAIN it = SUBSET (DOMAIN rs)
    BY <1>1, <1>3
  <2> QED
    BY <1>1, <2>1, <2>2 DEF Runs
<1>5. Runs(f, G)
  BY <1>4
<1>6. Renamed(f) = G[DOMAIN rs]
  BY DEF Renamed, FoldLeft, MapThenFoldSet, Runs, RenameOne
<1> DEFINE h == [k \in 0 .. n |-> G[1 .. k]]
<1>7. \A s \in SUBSET (1 .. n) : G[s] = IF s = {} THEN f ELSE RenameOne(G[s \ {Max(s)}], rs[Max(s)])
  <2> DEFINE g == G
  <2>1. Runs(f, g)
    BY <1>5
  <2> HIDE DEF g, G
  <2>2. \A s \in SUBSET (1 .. n) : g[s] = IF s = {} THEN f ELSE RenameOne(g[s \ {Max(s)}], rs[Max(s)])
    BY <1>1, <2>1 DEF Runs
  <2> QED
    BY <2>2 DEF g
<1> HIDE DEF G
<1>8. h[0] = f /\ Renamed(f) = h[n]
  <2>1. h[n] = G[1 .. n] /\ h[0] = G[1 .. 0] /\ 1 .. 0 = {} /\ {} \in SUBSET (1 .. n)
    BY <1>1
  <2>2. G[{}] = f
    BY <1>7, <2>1
  <2> QED
    BY <1>1, <1>6, <2>1, <2>2
<1>9. ASSUME NEW k \in 1 .. n PROVE h[k] = RenameOne(h[k - 1], rs[k])
  <2>1. 1 .. k \in SUBSET (1 .. n) /\ 1 .. k # {} /\ k \in 1 .. k /\ k \in Nat /\ k # 0
    <3>1. n \in Nat
      BY <1>1
    <3> HIDE DEF n, h, F
    <3> QED
      BY <3>1
  <2>2. Max(1 .. k) = k
    BY <2>1, MaxUpTo
  <2>3. (1 .. k) \ {k} = 1 .. k - 1
    BY <2>1
  <2>4. G[1 .. k] = RenameOne(G[1 .. k - 1], rs[k])
    BY <1>7, <2>1, <2>2, <2>3
  <2> QED
    BY <1>1, <2>4
<1>10. h \in [0 .. n -> Contents]
  <2> DEFINE Good == {k \in 0 .. n : h[k] \in Contents}
  <2>1. 0 \in Good
    BY <1>1, <1>8
  <2>2. ASSUME NEW k \in 0 .. n - 1, k \in Good PROVE k + 1 \in Good
    <3>1. k + 1 \in 1 .. n /\ (k + 1) - 1 = k
      BY <1>1
    <3>2. h[k + 1] = RenameOne(h[k], rs[k + 1])
      BY <1>9, <3>1
    <3> HIDE DEF h
    <3> QED
      BY <1>1, <2>2, <3>1, <3>2, StepTyped
  <2>3. 0 .. n \subseteq Good
    <3> HIDE DEF Good
    <3> QED
      BY <1>1, <2>1, <2>2, UpTo
  <2> QED
    BY <2>3
<1> HIDE DEF h
<1> QED
  BY <1>8, <1>9, <1>10 DEF Stages

(* json_rename comes from a dictionary. *)
Renaming ==
    /\ config \in ConfigRecords
    /\ \A i, j \in DOMAIN config.rename : config.rename[i][1] = config.rename[j][1] => i = j

Old(i) == config.rename[i][1]
New(i) == config.rename[i][2]

LEMMA StageStep ==
    ASSUME Renaming, NEW f, NEW h, Stages(f, h), NEW k \in 0 .. Len(config.rename) - 1
    PROVE  /\ k + 1 \in DOMAIN config.rename /\ Old(k + 1) \in Fields /\ New(k + 1) \in Fields
           /\ Old(k + 1) \notin DOMAIN h[k] => h[k + 1] = h[k]
           /\ Old(k + 1) \in DOMAIN h[k] =>
                /\ DOMAIN h[k + 1] = (DOMAIN h[k] \ {Old(k + 1)}) \cup {New(k + 1)}
                /\ \A x \in DOMAIN h[k + 1] :
                      h[k + 1][x] = IF x = New(k + 1) THEN h[k][Old(k + 1)] ELSE h[k][x]
<1>1. config.rename \in Seq(Fields \X Fields)
  BY DEF Renaming, ConfigRecords
<1>2. k + 1 \in 1 .. Len(config.rename) /\ (k + 1) - 1 = k /\ 1 .. Len(config.rename) = DOMAIN config.rename
  BY <1>1
<1>3. config.rename[k + 1] \in Fields \X Fields
  BY <1>1, <1>2
<1>4. h[k + 1] = RenameOne(h[k], config.rename[k + 1])
  BY <1>2 DEF Stages
<1> DEFINE w == With(Without(h[k], {Old(k + 1)}), New(k + 1), h[k][Old(k + 1)])
<1>5. h[k + 1] = IF Old(k + 1) \in DOMAIN h[k] THEN w ELSE h[k]
  BY <1>4 DEF RenameOne, Old, New
<1>6. /\ DOMAIN w = (DOMAIN h[k] \ {Old(k + 1)}) \cup {New(k + 1)}
      /\ \A x \in DOMAIN w : w[x] = IF x = New(k + 1) THEN h[k][Old(k + 1)] ELSE h[k][x]
  BY DEF With, Without
<1>7. Old(k + 1) \in Fields /\ New(k + 1) \in Fields
  BY <1>3 DEF Old, New
<1> HIDE DEF w
<1>8. CASE Old(k + 1) \in DOMAIN h[k]
  <2>1. h[k + 1] = w
    BY <1>5, <1>8
  <2> QED
    BY <1>2, <1>6, <1>7, <1>8, <2>1
<1>9. CASE Old(k + 1) \notin DOMAIN h[k]
  BY <1>2, <1>5, <1>7, <1>9
<1> QED
  BY <1>8, <1>9

LEMMA RenamedTyped ==
    ASSUME config \in ConfigRecords, NEW f \in Contents
    PROVE  Renamed(f) \in Contents
<1>1. config.rename \in Seq(Fields \X Fields)
  BY DEF ConfigRecords
<1>2. Len(config.rename) \in 0 .. Len(config.rename)
  BY <1>1
<1> QED
  BY <1>2, RenamedInStages DEF Stages

Moved == {p[1] : p \in Range(config.rename)}
Renames(c) == {p \in Range(config.rename) : p[1] \in DOMAIN c}
HandedOver(c) == {c[q[1]] : q \in Renames(c)}

(* A field that has not come up for renaming is there. *)
LEMMA NotYetMoved ==
    ASSUME Renaming, NEW c \in Contents, NEW h, Stages(c, h), NEW k \in 0 .. Len(config.rename),
           NEW x \in DOMAIN c, \A i \in 1 .. k : Old(i) # x
    PROVE  x \in DOMAIN h[k]
<1> DEFINE n == Len(config.rename)
           Good == {m \in 0 .. n : m <= k => x \in DOMAIN h[m]}
<1>1. n \in Nat
  BY DEF Renaming, ConfigRecords
<1>2. 0 \in Good
  BY <1>1 DEF Stages
<1>3. ASSUME NEW m \in 0 .. n - 1, m \in Good PROVE m + 1 \in Good
  <2>1. m + 1 <= k => Old(m + 1) # x /\ x \in DOMAIN h[m]
    BY <1>1, <1>3
  <2> QED
    BY <1>1, <2>1, StageStep
<1>4. 0 .. n \subseteq Good
  <2> HIDE DEF Good, n
  <2> QED
    BY <1>1, <1>2, <1>3, UpTo
<1> QED
  BY <1>1, <1>4

(* Every value is the client's: where it was, or by a renaming. *)
LEMMA ValuesAreTheirs ==
    ASSUME Renaming, NEW c \in Contents, NEW h, Stages(c, h)
    PROVE  \A k \in 0 .. Len(config.rename) : \A x \in DOMAIN h[k] :
              (x \in DOMAIN c /\ h[k][x] = c[x]) \/ h[k][x] \in HandedOver(c)
<1> DEFINE n == Len(config.rename)
           Theirs(m) == \A x \in DOMAIN h[m] : (x \in DOMAIN c /\ h[m][x] = c[x]) \/ h[m][x] \in HandedOver(c)
           Good == {m \in 0 .. n : Theirs(m)}
<1>1. n \in Nat
  BY DEF Renaming, ConfigRecords
<1>2. 0 \in Good
  BY <1>1 DEF Stages
<1>3. ASSUME NEW m \in 0 .. n - 1, m \in Good PROVE m + 1 \in Good
  <2>1. Old(m + 1) \in DOMAIN c => c[Old(m + 1)] \in HandedOver(c)
    <3>1. m + 1 \in DOMAIN config.rename
      BY StageStep
    <3>2. config.rename[m + 1] \in Range(config.rename)
      BY <3>1 DEF Range
    <3> QED
      BY <3>2 DEF HandedOver, Renames, Old
  <2>2. CASE Old(m + 1) \in DOMAIN h[m]
    <3>1. h[m][Old(m + 1)] \in HandedOver(c)
      BY <1>3, <2>1, <2>2
    <3>2. /\ DOMAIN h[m + 1] = (DOMAIN h[m] \ {Old(m + 1)}) \cup {New(m + 1)}
          /\ \A x \in DOMAIN h[m + 1] :
                h[m + 1][x] = IF x = New(m + 1) THEN h[m][Old(m + 1)] ELSE h[m][x]
      BY <2>2, StageStep
    <3>3. Theirs(m + 1)
      BY <1>3, <3>1, <3>2
    <3> QED
      BY <1>1, <3>3
  <2>3. CASE Old(m + 1) \notin DOMAIN h[m]
    BY <1>1, <1>3, <2>3, StageStep
  <2> QED
    BY <2>2, <2>3
<1>4. 0 .. n \subseteq Good
  <2> HIDE DEF Good, n
  <2> QED
    BY <1>1, <1>2, <1>3, UpTo
<1> QED
  BY <1>4

(* A name that is given to a field of the client's and never taken again   *)
(* holds a field of the client's.                                          *)
LEMMA TakenStays ==
    ASSUME Renaming, NEW c \in Contents, NEW h, Stages(c, h),
           NEW i \in DOMAIN config.rename, Old(i) \in DOMAIN c, New(i) \notin Moved
    PROVE  LET g == h[Len(config.rename)] IN New(i) \in DOMAIN g /\ g[New(i)] \in HandedOver(c)
<1> DEFINE n == Len(config.rename)
           Good == {m \in 0 .. n : m >= i => New(i) \in DOMAIN h[m] /\ h[m][New(i)] \in HandedOver(c)}
<1>1. n \in Nat /\ DOMAIN config.rename = 1 .. n
  BY DEF Renaming, ConfigRecords
<1>2. 0 \in Good
  BY <1>1
<1>3. ASSUME NEW m \in 0 .. n - 1, m \in Good PROVE m + 1 \in Good
  <2>0. Old(m + 1) \in DOMAIN h[m] =>
          /\ DOMAIN h[m + 1] = (DOMAIN h[m] \ {Old(m + 1)}) \cup {New(m + 1)}
          /\ \A x \in DOMAIN h[m + 1] :
                h[m + 1][x] = IF x = New(m + 1) THEN h[m][Old(m + 1)] ELSE h[m][x]
    <3>1. m \in 0 .. Len(config.rename) - 1
      OBVIOUS
    <3> HIDE DEF n, Good
    <3> QED
      BY ONLY <3>1, StageStep, Renaming, Stages(c, h)
  <2>8. Old(m + 1) \notin DOMAIN h[m] => h[m + 1] = h[m]
    <3>1. m \in 0 .. Len(config.rename) - 1
      OBVIOUS
    <3> HIDE DEF n, Good
    <3> QED
      BY ONLY <3>1, StageStep, Renaming, Stages(c, h)
  <2>1. m + 1 \in DOMAIN config.rename /\ m \in 0 .. n /\ m + 1 \in 0 .. n
    BY <1>1
  <2>2. config.rename[m + 1] \in Range(config.rename)
    BY <2>1 DEF Range
  <2>3. New(i) # Old(m + 1)
    BY <2>2 DEF Moved, Old
  <2>4. Old(m + 1) \in DOMAIN h[m] => h[m][Old(m + 1)] \in HandedOver(c)
    <3>1. Old(m + 1) \in DOMAIN c => c[Old(m + 1)] \in HandedOver(c)
      BY <2>2 DEF HandedOver, Renames, Old
    <3> QED
      BY <2>1, <3>1, ValuesAreTheirs
  <2>5. CASE i = m + 1
    <3>0. Old(i) = Old(m + 1) /\ New(i) = New(m + 1)
      BY <2>5, Zenon
    <3>1. \A j \in 1 .. m : Old(j) # Old(m + 1)
      BY <1>1, <2>1 DEF Renaming, Old
    <3>2. Old(m + 1) \in DOMAIN h[m]
      BY <2>1, <3>0, <3>1, NotYetMoved
    <3>3. New(i) \in DOMAIN h[m + 1] /\ h[m + 1][New(i)] = h[m][Old(m + 1)]
      <4>1. /\ DOMAIN h[m + 1] = (DOMAIN h[m] \ {Old(m + 1)}) \cup {New(m + 1)}
            /\ \A x \in DOMAIN h[m + 1] :
                  h[m + 1][x] = IF x = New(m + 1) THEN h[m][Old(m + 1)] ELSE h[m][x]
        BY <2>0, <3>2
      <4> QED
        BY <3>0, <4>1
    <3> QED
      BY <2>1, <2>4, <3>2, <3>3
  <2>6. CASE i <= m
    <3>1. New(i) \in DOMAIN h[m] /\ h[m][New(i)] \in HandedOver(c)
      BY <1>3, <1>1, <2>6
    <3>2. New(i) \in DOMAIN h[m + 1] /\ h[m + 1][New(i)] \in HandedOver(c)
      BY ONLY <2>8, <2>0, <2>3, <2>4, <3>1
    <3> QED
      BY <2>1, <3>2
  <2>7. CASE i > m + 1
    <3>1. m + 1 \in 0 .. n /\ ~(m + 1 >= i)
      BY <1>1, <2>1, <2>7
    <3> QED
      BY <3>1
  <2> QED
    BY <1>1, <2>1, <2>5, <2>6, <2>7
<1>4. 0 .. n \subseteq Good
  <2> HIDE DEF Good, n
  <2> QED
    BY <1>1, <1>2, <1>3, UpTo
<1>5. n \in Good /\ n >= i
  BY <1>1, <1>4
<1> QED
  BY <1>5

(* Where a renaming leads from c and S is in S. *)
Leads(c, S) == \A p \in Range(config.rename) : p[1] \in DOMAIN c \cup S => p[2] \in S

(* What no renaming reaches is as it was. *)
LEMMA UnreachedStays ==
    ASSUME Renaming, NEW c \in Contents, NEW h, Stages(c, h),
           NEW S \in SUBSET Fields, Leads(c, S)
    PROVE  \A k \in 0 .. Len(config.rename) :
              \A x \in DOMAIN h[k] \ S : x \in DOMAIN c /\ h[k][x] = c[x]
<1> DEFINE n == Len(config.rename)
           Good == {m \in 0 .. n : \A x \in DOMAIN h[m] \ S : x \in DOMAIN c /\ h[m][x] = c[x]}
<1>1. n \in Nat
  BY DEF Renaming, ConfigRecords
<1>2. 0 \in Good
  BY <1>1 DEF Stages
<1>3. ASSUME NEW m \in 0 .. n - 1, m \in Good PROVE m + 1 \in Good
  <2>1. m + 1 \in DOMAIN config.rename
    BY StageStep
  <2>2. config.rename[m + 1] \in Range(config.rename)
    BY <2>1 DEF Range
  <2>3. \A x \in DOMAIN h[m] \ S : x \in DOMAIN c /\ h[m][x] = c[x]
    BY <1>3
  <2>4. Old(m + 1) \in DOMAIN h[m] => New(m + 1) \in S
    BY <2>2, <2>3 DEF Leads, Old, New
  <2>5. /\ Old(m + 1) \notin DOMAIN h[m] => h[m + 1] = h[m]
        /\ Old(m + 1) \in DOMAIN h[m] =>
             /\ DOMAIN h[m + 1] = (DOMAIN h[m] \ {Old(m + 1)}) \cup {New(m + 1)}
             /\ \A x \in DOMAIN h[m + 1] :
                   h[m + 1][x] = IF x = New(m + 1) THEN h[m][Old(m + 1)] ELSE h[m][x]
    <3>1. m \in 0 .. Len(config.rename) - 1
      OBVIOUS
    <3> HIDE DEF n, Good
    <3> QED
      BY ONLY <3>1, StageStep, Renaming, Stages(c, h)
  <2>6. \A x \in DOMAIN h[m + 1] \ S : x \in DOMAIN c /\ h[m + 1][x] = c[x]
    BY ONLY <2>3, <2>4, <2>5
  <2>7. m + 1 \in 0 .. n
    BY <1>1
  <2> QED
    BY <2>6, <2>7
<1>4. 0 .. n \subseteq Good
  <2> HIDE DEF Good, n
  <2> QED
    BY <1>1, <1>2, <1>3, UpTo
<1> QED
  BY <1>4

(* A name that was taken away, and is given to nothing later, is gone. *)
LEMMA MovedIsGone ==
    ASSUME Renaming, NEW c \in Contents, NEW h, Stages(c, h),
           NEW i \in DOMAIN config.rename, Old(i) # New(i),
           \A j \in DOMAIN config.rename : j > i => New(j) # Old(i)
    PROVE  Old(i) \notin DOMAIN h[Len(config.rename)]
<1> DEFINE n == Len(config.rename)
           Good == {m \in 0 .. n : m >= i => Old(i) \notin DOMAIN h[m]}
<1>1. n \in Nat /\ DOMAIN config.rename = 1 .. n
  BY DEF Renaming, ConfigRecords
<1>2. 0 \in Good
  BY <1>1
<1>3. ASSUME NEW m \in 0 .. n - 1, m \in Good PROVE m + 1 \in Good
  <2>1. m + 1 \in DOMAIN config.rename /\ m \in 0 .. n /\ m + 1 \in 0 .. n
    BY <1>1
  <2>2. CASE i = m + 1
    BY <2>1, <2>2, StageStep
  <2>3. CASE i <= m
    <3>1. Old(i) \notin DOMAIN h[m] /\ New(m + 1) # Old(i)
      BY <1>1, <1>3, <2>1, <2>3
    <3> QED
      BY <2>1, <3>1, StageStep
  <2>4. CASE i > m + 1
    BY <1>1, <2>1, <2>4
  <2> QED
    BY <1>1, <2>1, <2>2, <2>3, <2>4
<1>4. 0 .. n \subseteq Good
  <2> HIDE DEF Good, n
  <2> QED
    BY <1>1, <1>2, <1>3, UpTo
<1>5. n \in Good /\ n >= i
  BY <1>1, <1>4
<1> QED
  BY <1>5

(* The fields of a rewritten body. *)
Final(c) == Without(Defaulted(Renamed(c)), config.remove)

LEMMA FinalIs ==
    ASSUME config \in ConfigRecords, NEW c \in Contents
    PROVE  /\ Renamed(c) \in Contents /\ Final(c) \in Contents
           /\ DOMAIN Final(c) = (DOMAIN Renamed(c) \cup config.defaults) \ config.remove
           /\ \A x \in DOMAIN Final(c) :
                 Final(c)[x] = IF x \in DOMAIN Renamed(c) THEN Renamed(c)[x] ELSE Default
<1> DEFINE g == Renamed(c)
           D == (DOMAIN g \cup config.defaults) \ config.remove
           V(x) == IF x \in DOMAIN g THEN g[x] ELSE Default
<1>1. g \in Contents
  BY RenamedTyped
<1>2. config.defaults \subseteq Fields
  BY DEF ConfigRecords
<1>3. Final(c) = [x \in D |-> V(x)]
  BY DEF Final, Without, Defaulted
<1>4. D \in SUBSET Fields /\ \A x \in D : V(x) \in Values
  BY <1>1, <1>2 DEF Contents, Values
<1>5. [x \in D |-> V(x)] \in [D -> Values]
  BY <1>4
<1> HIDE DEF g
<1>6. Final(c) \in Contents
  <2> HIDE DEF D, V
  <2> QED
    BY <1>3, <1>4, <1>5 DEF Contents
<1> QED
  BY <1>1, <1>3, <1>6 DEF g

(* Rewriting does to the client's fields what IsRewritingOf asks for. *)
LEMMA RewritingSound ==
    ASSUME Renaming, NEW c \in Contents, Default \notin Range(c)
    PROVE  IsRewritingOf(Final(c), c)
<1> DEFINE s == Final(c)
           g == Renamed(c)
           n == Len(config.rename)
<1>1. PICK h : Stages(c, h) /\ g = h[n]
  BY RenamedInStages DEF Renaming
<1>2. n \in Nat /\ n \in 0 .. n /\ DOMAIN config.rename = 1 .. n
  BY DEF Renaming, ConfigRecords
<1>3. /\ g \in Contents
      /\ DOMAIN s = (DOMAIN g \cup config.defaults) \ config.remove
      /\ \A x \in DOMAIN s : s[x] = IF x \in DOMAIN g THEN g[x] ELSE Default
  BY FinalIs DEF Renaming
<1>4. ASSUME NEW x \in DOMAIN c \ Moved PROVE x \in DOMAIN g
  <2>1. \A i \in 1 .. n : Old(i) # x
    BY <1>2 DEF Moved, Old, Range
  <2> QED
    BY <1>1, <1>2, <2>1, NotYetMoved
<1>5. ASSUME NEW p \in Renames(c), p[2] \notin Moved
      PROVE  p[2] \in DOMAIN g /\ g[p[2]] \in HandedOver(c)
  <2>1. PICK i \in DOMAIN config.rename : p = config.rename[i]
    BY DEF Renames, Range
  <2>2. Old(i) \in DOMAIN c /\ New(i) \notin Moved /\ New(i) = p[2]
    BY <1>5, <2>1 DEF Renames, Old, New
  <2> QED
    BY <1>1, <2>2, TakenStays
<1>6. ASSUME NEW x \in DOMAIN g PROVE g[x] # Default
  <2>1. (x \in DOMAIN c /\ g[x] = c[x]) \/ g[x] \in HandedOver(c)
    BY <1>1, <1>2, <1>6, ValuesAreTheirs
  <2>2. HandedOver(c) \subseteq Range(c)
    BY DEF HandedOver, Renames, Range
  <2> QED
    BY <2>1, <2>2 DEF Range
<1>7. ASSUME NEW x \in Fields, x \in DOMAIN g, x \notin Reached(c) PROVE x \in DOMAIN c /\ g[x] = c[x]
  <2>1. PICK S \in SUBSET Fields :
           Leads(c, S) /\ x \notin S
    BY <1>7 DEF Reached, Leads
  <2>2. \A k \in 0 .. Len(config.rename) : \A y \in DOMAIN h[k] \ S : y \in DOMAIN c /\ h[k][y] = c[y]
    BY <1>1, <2>1, UnreachedStays
  <2> QED
    BY <1>1, <1>2, <1>7, <2>1, <2>2
<1> HIDE DEF s, g, n
<1>8. DOMAIN s \cap config.remove = {} /\ config.defaults \ config.remove \subseteq DOMAIN s
  BY <1>3
<1>9. ASSUME NEW x \in DOMAIN c \ (Moved \cup Reached(c) \cup config.remove)
      PROVE  x \in DOMAIN s /\ s[x] = c[x]
  <2>1. x \in Fields
    BY DEF Contents
  <2> QED
    BY <1>3, <1>4, <1>7, <1>9, <2>1
<1>10. ASSUME NEW x \in ({p[2] : p \in Renames(c)} \ Moved) \ config.remove
       PROVE  x \in DOMAIN s /\ s[x] \in HandedOver(c)
  BY <1>3, <1>5, <1>10
<1>11. ASSUME NEW x \in DOMAIN s, s[x] = Default
       PROVE  /\ x \in config.defaults \ ({p[2] : p \in Renames(c)} \ Moved)
              /\ x \notin DOMAIN c \ Moved
  <2>1. x \notin DOMAIN g
    BY <1>3, <1>6, <1>11
  <2> QED
    BY <1>3, <1>4, <1>5, <2>1
<1> QED
  BY <1>8, <1>9, <1>10, <1>11 DEF IsRewritingOf, Renames, Moved, HandedOver, s

(* Doing it again changes nothing if no name taken away comes back. *)
LEMMA RewritingAgain ==
    ASSUME Renaming, Stable, NEW c \in Contents
    PROVE  Final(Final(c)) = Final(c)
<1> DEFINE s == Final(c)
           n == Len(config.rename)
<1>1. n \in Nat /\ n \in 0 .. n /\ DOMAIN config.rename = 1 .. n
  BY DEF Renaming, ConfigRecords
<1>2. /\ Renamed(c) \in Contents /\ s \in Contents
      /\ DOMAIN s = (DOMAIN Renamed(c) \cup config.defaults) \ config.remove
  BY FinalIs DEF Renaming
<1>3. ASSUME NEW i \in DOMAIN config.rename, Old(i) # New(i) PROVE Old(i) \notin DOMAIN s
  <2>1. PICK h : Stages(c, h) /\ Renamed(c) = h[n]
    BY RenamedInStages DEF Renaming
  <2>2. /\ Old(i) \notin config.defaults \ config.remove
        /\ \A j \in DOMAIN config.rename : j > i => New(j) # Old(i)
    BY DEF Stable, Old, New
  <2>3. Old(i) \notin DOMAIN Renamed(c)
    BY <1>3, <2>1, <2>2, MovedIsGone
  <2> QED
    BY <1>2, <2>2, <2>3
<1>4. Renamed(s) = s
  <2> HIDE DEF s
  <2>1. PICK h : Stages(s, h) /\ Renamed(s) = h[n]
    BY <1>2, RenamedInStages DEF Renaming
  <2> DEFINE Good == {k \in 0 .. n : h[k] = s}
  <2>2. 0 \in Good
    BY <1>1, <2>1 DEF Stages
  <2>3. ASSUME NEW k \in 0 .. n - 1, k \in Good PROVE k + 1 \in Good
    <3>1. /\ k + 1 \in DOMAIN config.rename
          /\ Old(k + 1) \notin DOMAIN h[k] => h[k + 1] = h[k]
          /\ Old(k + 1) \in DOMAIN h[k] =>
                /\ DOMAIN h[k + 1] = (DOMAIN h[k] \ {Old(k + 1)}) \cup {New(k + 1)}
                /\ \A x \in DOMAIN h[k + 1] :
                      h[k + 1][x] = IF x = New(k + 1) THEN h[k][Old(k + 1)] ELSE h[k][x]
      BY <1>2, <2>1, StageStep
    <3>2. h[k] = s /\ k + 1 \in 0 .. n
      BY <1>1, <2>3
    <3>3. h[k + 1] \in Contents
      BY <1>1, <2>1, <3>2 DEF Stages
    <3>4. CASE Old(k + 1) \in DOMAIN s
      <4>1. Old(k + 1) = New(k + 1)
        BY <1>3, <3>1, <3>4
      <4>2. DOMAIN h[k + 1] = DOMAIN s /\ \A x \in DOMAIN s : h[k + 1][x] = s[x]
        BY <3>1, <3>2, <3>4, <4>1
      <4>3. h[k + 1] = s
        BY <1>2, <3>3, <4>2 DEF Contents
      <4> QED
        BY <3>2, <4>3
    <3> QED
      BY <3>1, <3>2, <3>4
  <2>4. 0 .. n \subseteq Good
    <3> HIDE DEF Good, n
    <3> QED
      BY <1>1, <2>2, <2>3, UpTo
  <2> QED
    BY <1>1, <2>1, <2>4
<1>5. /\ Final(s) \in Contents
      /\ DOMAIN Final(s) = (DOMAIN Renamed(s) \cup config.defaults) \ config.remove
      /\ \A x \in DOMAIN Final(s) :
            Final(s)[x] = IF x \in DOMAIN Renamed(s) THEN Renamed(s)[x] ELSE Default
  <2> HIDE DEF s
  <2> QED
    BY <1>2, FinalIs DEF Renaming
<1> HIDE DEF s
<1>6. DOMAIN Final(s) = DOMAIN s /\ \A x \in DOMAIN s : Final(s)[x] = s[x]
  BY <1>2, <1>4, <1>5
<1>7. Final(s) = s
  BY <1>2, <1>5, <1>6 DEF Contents
<1> QED
  BY <1>7 DEF s

-----------------------------------------------------------------------------
(* The places of the chain. *)

(* A place of the chain, down or up; upstream is the one after the last. *)
Placed ==
    /\ chain \in Seq(Types)
    /\ \A i, j \in DOMAIN chain : chain[i] = chain[j] => i = j
    /\ pc \in {"down", "up"}
    /\ at \in 0 .. Len(chain) + 1
    /\ pc = "down" => at >= 1
    /\ pc = "up" => at <= Len(chain)

Records ==
    /\ \E Calls : sent \in Seq(Calls)
    /\ events \in Nat
    /\ headers = [n \in Names |-> headers[n]]
    /\ result = [status |-> result.status, id |-> result.id, cors |-> result.cors]

RewrittenAfter(i) == \E j \in DOMAIN chain : i < j /\ chain[j] = "transformation"

(* A retry goes round again through what is below it only, so the body at  *)
(* hand has passed the checks above, unless it is rewritten below them.    *)
Checked ==
    \A i \in DOMAIN chain : i < at =>
        /\ chain[i] = "request_size" /\ ~RewrittenAfter(i) => SizeOf(body) <= MaxBytes
        /\ chain[i] = "validation" => client.rules
        /\ chain[i] = "validation" /\ ~RewrittenAfter(i) =>
              /\ body.kind \in {"empty", "object"}
              /\ config.require \subseteq DOMAIN body.fields

Inside(i, type) == \E j \in DOMAIN chain : i < j /\ chain[j] = type
Outside(i, type) == \E j \in DOMAIN chain : j < i /\ chain[j] = type

(* An event precedes every call of upstream, one each or one for all. *)
Announced ==
    \A e \in DOMAIN chain : chain[e] = "event_bridge" =>
        /\ at > e \/ sent # <<>> => config.after /\ events >= 1
        /\ Inside(e, "retry") \/ events >= Len(sent) + (IF pc = "down" /\ at > e THEN 1 ELSE 0)

(* What cors lets by, and what it makes of an answer. *)
LetBy(k) ==
    (at > k \/ sent # <<>>) /\ client.origin # "none"
          => ~client.preflight /\ (AllowsOrigin \/ ~config.block)

MarkedAt(k) ==
    pc = "up" /\ at < k /\ result # Error /\ AllowsOrigin =>
        \/ ~config.after /\ Outside(k, "event_bridge")
        \/ \A n \in CorsSet : result.cors[n] = "gateway"

CorsChecked == \A k \in DOMAIN chain : chain[k] = "cors" => LetBy(k) /\ MarkedAt(k)

(* What cors does not set comes from upstream. *)
CorsLeft == CorsNames \ (IF AllowsOrigin THEN CorsSet ELSE {})
CorsCarried ==
    pc = "up" /\ sent # <<>> /\ result # Error =>
        \A n \in CorsLeft : result.cors[n] = sent[Len(sent)].cors[n]

KeepsId(c) ==
    /\ ~(Inside(c, "transformation") /\ "id" \in config.setHeaders \cup config.removeHeaders)
    /\ ~(Inside(c, "forward_auth") /\ config.target = "id")
LastId == sent[Len(sent)].headers["id"]

(* The id goes from correlation_id to upstream, and from there back to it. *)
IdCarried ==
    \A c \in DOMAIN chain : chain[c] = "correlation_id" =>
        /\ at > c /\ KeepsId(c) => headers["id"] = requestId
        /\ client.id /\ (at > c \/ (pc = "up" /\ at = c)) => requestId = Given
        /\ pc = "up" /\ sent # <<>> /\ result # Error =>
              /\ at >= c /\ KeepsId(c) => requestId = LastId
              /\ at < c => /\ client.id => result.id = Given
                           /\ KeepsId(c) => result.id = LastId

Failures == Retryable \cup {500}

(* The way down again, or what sends it there, follows a failed call. *)
FailedLast ==
    /\ result.status = 500 => result = Error
    /\ sent # <<>> =>
          /\ pc = "down" => "retry" \in {chain[i] : i \in DOMAIN chain}
          /\ pc = "down" \/ Repeats(result) => sent[Len(sent)].outcome \in Failures

-----------------------------------------------------------------------------

LEMMA PlacedStep ==
    ASSUME Placed, Next
    PROVE  Placed'
<1> USE DEF Entering, Returning, CallNext, Respond, Raise, PassOn,
           route, position, context, memory, record, Placed
<1>1. CASE EnterCorrelation
  BY <1>1 DEF EnterCorrelation
<1>2. CASE LeaveCorrelation
  BY <1>2 DEF LeaveCorrelation
<1>3. CASE CheckSize
  BY <1>3 DEF CheckSize
<1>4. CASE Validate
  BY <1>4 DEF Validate
<1>5. CASE Transform
  BY <1>5 DEF Transform
<1>6. CASE Publish
  BY <1>6 DEF Publish
<1>7. CASE PublishFails
  BY <1>7 DEF PublishFails, AfterPublishError
<1>8. CASE EnterCors
  BY <1>8 DEF EnterCors
<1>9. CASE LeaveCors
  BY <1>9 DEF LeaveCors
<1>10. CASE Authorize
  BY <1>10 DEF Authorize
<1>11. CASE EnterRetry
  BY <1>11 DEF EnterRetry
<1>12. CASE LeaveRetry
  BY <1>12 DEF LeaveRetry
<1>13. CASE LeaveOthers
  BY <1>13 DEF LeaveOthers
<1>14. CASE Answered
  BY <1>14 DEF Answered, vars
<1>15. ASSUME NEW outcome \in Outcomes, NEW cors \in UpstreamCors,
             CallUpstream(outcome, cors)
      PROVE  Placed'
  BY <1>15 DEF CallUpstream, AfterSend
<1> QED
  BY <1>1, <1>2, <1>3, <1>4, <1>5, <1>6, <1>7, <1>8, <1>9, <1>10, <1>11, <1>12, <1>13, <1>14, <1>15,
     Zenon DEF Next

LEMMA RecordsStep ==
    ASSUME Placed, Records, Next
    PROVE  Records'
<1> USE DEF Entering, Returning, CallNext, Respond, Raise, PassOn,
           route, position, context, memory, record, Placed, Records, Error, Answer
<1>1. CASE EnterCorrelation
  BY <1>1 DEF EnterCorrelation, Mark
<1>2. CASE LeaveCorrelation
  BY <1>2 DEF LeaveCorrelation
<1>3. CASE CheckSize
  BY <1>3 DEF CheckSize
<1>4. CASE Validate
  BY <1>4 DEF Validate
<1>5. CASE Transform
  <2>1. UNCHANGED <<sent, events>> /\ (UNCHANGED result \/ result' = Error)
    BY <1>5 DEF Transform
  <2>2. headers' = [n \in Names |-> headers'[n]]
    BY <1>5 DEF Transform
  <2> QED
    BY <2>1, <2>2
<1>6. CASE Publish
  BY <1>6 DEF Publish, Published
<1>7. CASE PublishFails
  BY <1>7 DEF PublishFails, AfterPublishError
<1>8. CASE EnterCors
  BY <1>8 DEF EnterCors
<1>9. CASE LeaveCors
  BY <1>9 DEF LeaveCors, MergedCors
<1>10. CASE Authorize
  BY <1>10 DEF Authorize
<1>11. CASE EnterRetry
  BY <1>11 DEF EnterRetry
<1>12. CASE LeaveRetry
  BY <1>12 DEF LeaveRetry, NoResponse
<1>13. CASE LeaveOthers
  BY <1>13 DEF LeaveOthers
<1>14. CASE Answered
  BY <1>14 DEF Answered, vars
<1>15. ASSUME NEW outcome \in Outcomes, NEW cors \in UpstreamCors,
             CallUpstream(outcome, cors)
      PROVE  Records'
  <2>1. PICK Calls : sent \in Seq(Calls)
    OBVIOUS
  <2>2. PICK c : sent' = Append(sent, c)
    BY <1>15 DEF CallUpstream
  <2>3. sent' \in Seq(Calls \cup {c})
    BY <2>1, <2>2
  <2>4. UNCHANGED <<headers, events>>
    BY <1>15 DEF CallUpstream
  <2>5. result' = [status |-> result'.status, id |-> result'.id, cors |-> result'.cors]
    <3>1. result' = IF outcome = 500 THEN Error
                    ELSE [status |-> outcome, id |-> Unset, cors |-> cors]
      BY ONLY <1>15 DEF CallUpstream, Respond, Answer
    <3>2. CASE outcome = 500
      BY ONLY <3>1, <3>2 DEF Error
    <3>3. CASE outcome # 500
      BY ONLY <3>1, <3>3
    <3> QED
      BY <3>2, <3>3
  <2> QED
    BY ONLY Records, <2>3, <2>4, <2>5 DEF Records
<1> QED
  BY <1>1, <1>2, <1>3, <1>4, <1>5, <1>6, <1>7, <1>8, <1>9, <1>10, <1>11, <1>12, <1>13, <1>14, <1>15,
     Zenon DEF Next

LEMMA CheckedStep ==
    ASSUME Placed, Checked, Next
    PROVE  Checked'
<1> USE DEF Entering, Returning, CallNext, Respond, Raise, PassOn,
           route, position, context, memory, record, Placed, Checked, RewrittenAfter
<1>1. CASE EnterCorrelation
  BY <1>1 DEF EnterCorrelation
<1>2. CASE LeaveCorrelation
  BY <1>2 DEF LeaveCorrelation
<1>3. CASE CheckSize
  BY <1>3 DEF CheckSize, Fits
<1>4. CASE Validate
  BY <1>4 DEF Validate, Valid, Parses
<1>5. CASE Transform
  BY <1>5 DEF Transform
<1>6. CASE Publish
  BY <1>6 DEF Publish
<1>7. CASE PublishFails
  BY <1>7 DEF PublishFails, AfterPublishError
<1>8. CASE EnterCors
  BY <1>8 DEF EnterCors
<1>9. CASE LeaveCors
  BY <1>9 DEF LeaveCors
<1>10. CASE Authorize
  BY <1>10 DEF Authorize
<1>11. CASE EnterRetry
  BY <1>11 DEF EnterRetry
<1>12. CASE LeaveRetry
  BY <1>12 DEF LeaveRetry
<1>13. CASE LeaveOthers
  BY <1>13 DEF LeaveOthers
<1>14. CASE Answered
  BY <1>14 DEF Answered, vars
<1>15. ASSUME NEW outcome \in Outcomes, NEW cors \in UpstreamCors,
             CallUpstream(outcome, cors)
      PROVE  Checked'
  BY <1>15 DEF CallUpstream, AfterSend
<1> QED
  BY <1>1, <1>2, <1>3, <1>4, <1>5, <1>6, <1>7, <1>8, <1>9, <1>10, <1>11, <1>12, <1>13, <1>14, <1>15,
     Zenon DEF Next

LEMMA AnnouncedStep ==
    ASSUME Placed, Records, Announced, Next
    PROVE  Announced'
<1> USE DEF Entering, Returning, CallNext, Respond, Raise, PassOn,
           route, position, context, memory, record, Placed, Announced, Inside, Outside
<1>0. Len(sent) \in Nat /\ events \in Nat
  <2>1. PICK Calls : sent \in Seq(Calls)
    BY DEF Records
  <2> QED
    BY <2>1 DEF Records
<1>1. CASE EnterCorrelation
  BY <1>0, <1>1 DEF EnterCorrelation
<1>2. CASE LeaveCorrelation
  BY <1>0, <1>2 DEF LeaveCorrelation
<1>3. CASE CheckSize
  BY <1>0, <1>3 DEF CheckSize
<1>4. CASE Validate
  BY <1>0, <1>4 DEF Validate
<1>5. CASE Transform
  <2>1. /\ chain[at] = "transformation" /\ at \in DOMAIN chain /\ pc = "down"
        /\ UNCHANGED <<chain, config, sent, events>>
        /\ \/ at' = at + 1 /\ pc' = "down"
           \/ at' = at - 1 /\ pc' = "up"
    BY <1>0, <1>5 DEF Transform
  <2>2. at \in Int /\ \A e \in DOMAIN chain : e \in Int /\ (chain[e] = "event_bridge" => e # at)
    BY <2>1
  <2> HIDE DEF Placed, Inside, Outside
  <2>3. \A e : (Inside(e, "retry")' <=> Inside(e, "retry")) /\ (Outside(e, "retry")' <=> Outside(e, "retry"))
    BY ONLY <2>1 DEF Inside, Outside
  <2> QED
    BY ONLY <1>0, <2>1, <2>2, <2>3, Announced DEF Announced
<1>6. CASE Publish
  BY <1>0, <1>6 DEF Publish
<1>7. CASE PublishFails
  BY <1>0, <1>7 DEF PublishFails, AfterPublishError
<1>8. CASE EnterCors
  BY <1>0, <1>8 DEF EnterCors
<1>9. CASE LeaveCors
  BY <1>0, <1>9 DEF LeaveCors
<1>10. CASE Authorize
  BY <1>0, <1>10 DEF Authorize
<1>11. CASE EnterRetry
  BY <1>0, <1>11 DEF EnterRetry
<1>12. CASE LeaveRetry
  BY <1>0, <1>12 DEF LeaveRetry
<1>13. CASE LeaveOthers
  BY <1>0, <1>13 DEF LeaveOthers
<1>14. CASE Answered
  BY <1>0, <1>14 DEF Answered, vars
<1>15. ASSUME NEW outcome \in Outcomes, NEW cors \in UpstreamCors,
             CallUpstream(outcome, cors)
      PROVE  Announced'
  <2>1. Len(sent) \in Nat /\ sent' # <<>> /\ Len(sent') = Len(sent) + 1
    <3>1. PICK Calls : sent \in Seq(Calls)
      BY DEF Records
    <3>2. PICK c : sent' = Append(sent, c)
      BY <1>15 DEF CallUpstream
    <3> QED
      BY <3>1, <3>2
  <2> QED
    BY <1>15, <2>1 DEF CallUpstream, Records
<1> QED
  BY <1>1, <1>2, <1>3, <1>4, <1>5, <1>6, <1>7, <1>8, <1>9, <1>10, <1>11, <1>12, <1>13, <1>14, <1>15,
     Zenon DEF Next

(* The route and the request stay; upstream is sent the body at hand. *)
LEMMA SentStep ==
    ASSUME Placed, Records, Next
    PROVE  /\ UNCHANGED <<chain, config, client>>
           /\ \/ UNCHANGED sent
              \/ /\ at = Len(chain) + 1 /\ pc = "down" /\ Len(sent') = Len(sent) + 1
                 /\ \A i \in 1 .. Len(sent) : sent'[i] = sent[i]
                 /\ sent'[Len(sent')].body = body
<1> USE DEF route, context, memory, record
<1>1. ASSUME NEW outcome \in Outcomes, NEW cors \in UpstreamCors,
             CallUpstream(outcome, cors)
      PROVE  /\ at = Len(chain) + 1 /\ pc = "down" /\ Len(sent') = Len(sent) + 1
             /\ \A i \in 1 .. Len(sent) : sent'[i] = sent[i]
             /\ sent'[Len(sent')].body = body
             /\ UNCHANGED <<chain, config, client>>
  <2>1. PICK Calls : sent \in Seq(Calls)
    BY DEF Records
  <2> DEFINE answer == IF outcome = 500 THEN Error ELSE Answer(outcome, cors)
             c == [body |-> body, headers |-> headers, outcome |-> outcome, cors |-> answer.cors]
  <2>2. sent' = Append(sent, c) /\ c.body = body
    BY <1>1 DEF CallUpstream
  <2> HIDE DEF c
  <2>3. Len(sent') = Len(sent) + 1 /\ sent'[Len(sent) + 1] = c /\ \A i \in 1 .. Len(sent) : sent'[i] = sent[i]
    BY ONLY <2>1, <2>2
  <2> QED
    BY <1>1, <2>2, <2>3 DEF CallUpstream
<1>2. CASE UNCHANGED vars
  BY <1>2 DEF vars
<1>3. CASE EnterCorrelation \/ LeaveCorrelation \/ CheckSize \/ Validate
           \/ Transform \/ Publish \/ PublishFails
  BY <1>3 DEF EnterCorrelation, LeaveCorrelation, CheckSize, Validate,
              Transform, Publish, PublishFails
<1>4. CASE EnterCors \/ LeaveCors \/ Authorize \/ EnterRetry
           \/ LeaveRetry \/ LeaveOthers
  BY <1>4 DEF EnterCors, LeaveCors, Authorize, EnterRetry,
              LeaveRetry, LeaveOthers
<1> QED
  BY <1>1, <1>2, <1>3, <1>4 DEF Next, Answered

(* What a step makes of the CORS headers of an answer. *)
CorsMoves ==
    \/ pc' = "down"
    \/ pc' = "up" /\ result' = Error
    \/ /\ pc = "up" /\ pc' = "up" /\ UNCHANGED sent /\ result # Error
       /\ \/ /\ at \in DOMAIN chain /\ chain[at] = "cors" /\ AllowsOrigin /\ at' = at - 1
             /\ result'.cors = CorsOver(result.cors)
          \/ /\ at' = at \/ (at' = at - 1 /\ (at \in DOMAIN chain /\ chain[at] = "cors" => ~AllowsOrigin))
             /\ result'.cors = result.cors
    \/ /\ pc = "down" /\ at \in DOMAIN chain /\ at' = at - 1 /\ UNCHANGED sent
       /\ \/ chain[at] = "event_bridge" /\ ~config.after
          \/ /\ chain[at] = "cors" /\ client.preflight /\ client.origin # "none"
             /\ AllowsOrigin => result'.cors = CorsOver(NoCors)
    \/ /\ pc = "down" /\ at = Len(chain) + 1 /\ at' = at - 1
       /\ result'.cors = sent'[Len(sent')].cors

LEMMA StepCors ==
    ASSUME Placed, Records, Next
    PROVE  CorsMoves
<1> USE DEF Entering, Returning, CallNext, Respond, Raise, PassOn,
           route, position, context, memory, record, Placed, CorsMoves
<1>1. CASE EnterCorrelation
  BY <1>1 DEF EnterCorrelation
<1>2. CASE LeaveCorrelation
  BY <1>2 DEF LeaveCorrelation, Records
<1>3. CASE CheckSize
  BY <1>3 DEF CheckSize
<1>4. CASE Validate
  BY <1>4 DEF Validate
<1>5. CASE Transform
  BY <1>5 DEF Transform
<1>6. CASE Publish
  BY <1>6 DEF Publish, Published
<1>7. CASE PublishFails
  BY <1>7 DEF PublishFails, AfterPublishError
<1>8. CASE EnterCors
  BY <1>8 DEF EnterCors, Answer
<1>9. CASE LeaveCors
  BY <1>9 DEF LeaveCors, MergedCors, Records
<1>10. CASE Authorize
  BY <1>10 DEF Authorize
<1>11. CASE EnterRetry
  BY <1>11 DEF EnterRetry
<1>12. CASE LeaveRetry
  BY <1>12 DEF LeaveRetry
<1>13. CASE LeaveOthers
  BY <1>13 DEF LeaveOthers
<1>14. CASE Answered
  BY <1>14 DEF Answered, vars
<1>15. ASSUME NEW outcome \in Outcomes, NEW cors \in UpstreamCors,
             CallUpstream(outcome, cors)
      PROVE  CorsMoves
  <2> DEFINE answer == IF outcome = 500 THEN Error ELSE Answer(outcome, cors)
             c == [body |-> body, headers |-> headers, outcome |-> outcome, cors |-> answer.cors]
  <2>1. PICK Calls : sent \in Seq(Calls)
    BY DEF Records
  <2>2. sent' = Append(sent, c) /\ c.cors = answer.cors /\ result' = answer
    BY <1>15 DEF CallUpstream
  <2> HIDE DEF c, answer
  <2>3. sent'[Len(sent')] = c
    BY <2>1, <2>2
  <2> QED
    BY <1>15, <2>2, <2>3 DEF CallUpstream
<1> QED
  BY <1>1, <1>2, <1>3, <1>4, <1>5, <1>6, <1>7, <1>8, <1>9, <1>10, <1>11, <1>12, <1>13, <1>14, <1>15,
     Zenon DEF Next

LEMMA LetByStep ==
    ASSUME Placed, NEW k \in DOMAIN chain, chain[k] = "cors", LetBy(k), Next
    PROVE  LetBy(k)'
<1> USE DEF Entering, Returning, CallNext, Respond, Raise, PassOn,
           route, position, context, memory, record, Placed, LetBy, AllowsOrigin
<1>1. CASE EnterCorrelation
  BY <1>1 DEF EnterCorrelation
<1>2. CASE LeaveCorrelation
  BY <1>2 DEF LeaveCorrelation
<1>3. CASE CheckSize
  BY <1>3 DEF CheckSize
<1>4. CASE Validate
  BY <1>4 DEF Validate
<1>5. CASE Transform
  BY <1>5 DEF Transform
<1>6. CASE Publish
  BY <1>6 DEF Publish, Published
<1>7. CASE PublishFails
  BY <1>7 DEF PublishFails, AfterPublishError
<1>8. CASE EnterCors
  BY <1>8 DEF EnterCors
<1>9. CASE LeaveCors
  BY <1>9 DEF LeaveCors, MergedCors
<1>10. CASE Authorize
  BY <1>10 DEF Authorize
<1>11. CASE EnterRetry
  BY <1>11 DEF EnterRetry
<1>12. CASE LeaveRetry
  BY <1>12 DEF LeaveRetry
<1>13. CASE LeaveOthers
  BY <1>13 DEF LeaveOthers
<1>14. CASE Answered
  BY <1>14 DEF Answered, vars
<1>15. ASSUME NEW outcome \in Outcomes, NEW cors \in UpstreamCors,
             CallUpstream(outcome, cors)
      PROVE  LetBy(k)'
  BY <1>15 DEF CallUpstream
<1> QED
  BY <1>1, <1>2, <1>3, <1>4, <1>5, <1>6, <1>7, <1>8, <1>9, <1>10, <1>11, <1>12, <1>13, <1>14, <1>15,
     Zenon DEF Next

LEMMA SameCors ==
    ASSUME UNCHANGED <<chain, config, client>>
    PROVE  /\ CorsSet' = CorsSet /\ CorsLeft' = CorsLeft /\ (AllowsOrigin' <=> AllowsOrigin)
           /\ \A k : Outside(k, "event_bridge")' <=> Outside(k, "event_bridge")
BY DEF CorsSet, CorsLeft, AllowsOrigin, Outside

LEMMA SetOver ==
    ASSUME NEW cors
    PROVE  /\ \A n \in CorsSet : CorsOver(cors)[n] = "gateway"
           /\ AllowsOrigin => \A n \in CorsLeft : CorsOver(cors)[n] = cors[n]
BY DEF CorsSet, CorsOver, CorsLeft, CorsNames

LEMMA CorsStep ==
    ASSUME Placed, Records, CorsChecked, Next
    PROVE  CorsChecked'
<1>1. /\ Len(chain) \in Nat /\ DOMAIN chain = 1 .. Len(chain) /\ at \in Int /\ at <= Len(chain) + 1
      /\ \A i, j \in DOMAIN chain : chain[i] = chain[j] => i = j
      /\ pc = "up" => at <= Len(chain)
  BY DEF Placed
<1>2. UNCHANGED <<chain, config, client>>
  BY SentStep
<1>3. ASSUME NEW k \in DOMAIN chain, chain[k] = "cors" PROVE MarkedAt(k)'
  <2> SUFFICES ASSUME pc' = "up", at' < k, result' # Error, AllowsOrigin,
                      config.after \/ ~Outside(k, "event_bridge"), NEW n \in CorsSet
               PROVE  result'.cors[n] = "gateway"
    BY <1>2, SameCors DEF MarkedAt
  <2>1. MarkedAt(k)
    BY <1>3 DEF CorsChecked
  <2>2. CASE result'.cors = result.cors /\ pc = "up" /\ at < k /\ result # Error
    BY <2>1, <2>2 DEF MarkedAt
  <2>3. CASE result'.cors = CorsOver(result.cors) \/ result'.cors = CorsOver(NoCors)
    BY <2>3, SetOver
  <2>4. CASE pc = "down" /\ at \in DOMAIN chain /\ at' = at - 1 /\ chain[at] = "event_bridge" /\ ~config.after
    BY <1>1, <1>3, <2>4 DEF Outside
  <2> QED
    BY <1>1, <1>3, <2>2, <2>3, <2>4, StepCors DEF CorsMoves
<1>4. ASSUME NEW k \in DOMAIN chain, chain[k] = "cors" PROVE LetBy(k)'
  BY <1>4, LetByStep DEF CorsChecked
<1> QED
  BY <1>2, <1>3, <1>4 DEF CorsChecked

LEMMA CarriedStep ==
    ASSUME Placed, Records, Announced, CorsChecked, CorsCarried, Next
    PROVE  CorsCarried'
<1>1. UNCHANGED <<chain, config, client>> /\ CorsLeft' = CorsLeft
  BY SentStep, SameCors
<1> SUFFICES ASSUME pc' = "up", sent' # <<>>, result' # Error, NEW n \in CorsLeft
             PROVE  result'.cors[n] = sent'[Len(sent')].cors[n]
  BY <1>1 DEF CorsCarried
<1>2. CASE pc = "up" /\ UNCHANGED sent /\ result # Error
  <2>1. result.cors[n] = sent[Len(sent)].cors[n]
    BY <1>2 DEF CorsCarried
  <2>2. result'.cors = result.cors \/ (AllowsOrigin /\ result'.cors = CorsOver(result.cors))
    BY <1>2, StepCors DEF CorsMoves
  <2> QED
    BY <1>2, <2>1, <2>2, SetOver
<1>3. CASE result'.cors = sent'[Len(sent')].cors
  BY <1>3
<1>4. CASE pc = "down" /\ at \in DOMAIN chain /\ UNCHANGED sent
           /\ chain[at] = "event_bridge" /\ ~config.after
  BY <1>4 DEF Announced
<1>5. CASE pc = "down" /\ at \in DOMAIN chain /\ UNCHANGED sent
           /\ chain[at] = "cors" /\ client.preflight /\ client.origin # "none"
  BY <1>5 DEF CorsChecked, LetBy
<1> QED
  BY <1>2, <1>3, <1>4, <1>5, StepCors DEF CorsMoves

LEMMA IdStep ==
    ASSUME Placed, Records, Announced, CorsChecked, IdCarried, Next
    PROVE  IdCarried'
<1> USE DEF Entering, Returning, CallNext, Respond, Raise, PassOn,
           route, position, context, memory, record, Placed, IdCarried, Inside, KeepsId, LastId
<1>1. CASE EnterCorrelation
  <2>1. PICK id : headers' = [headers EXCEPT !["id"] = id] /\ requestId' = id
                  /\ (client.id => id = Given)
    BY <1>1 DEF EnterCorrelation, Mark
  <2>2. headers'["id"] = requestId'
    BY <2>1 DEF Records, Names
  <2> QED
    BY <1>1, <2>1, <2>2 DEF EnterCorrelation
<1>2. CASE LeaveCorrelation
  BY <1>2 DEF LeaveCorrelation, Records
<1>3. CASE CheckSize
  BY <1>3 DEF CheckSize
<1>4. CASE Validate
  BY <1>4 DEF Validate
<1>5. CASE Transform
  <2>1. "id" \notin config.setHeaders \cup config.removeHeaders => headers'["id"] = headers["id"]
    BY <1>5 DEF Transform, Names, Records
  <2>2. /\ chain[at] = "transformation" /\ at \in DOMAIN chain /\ pc = "down"
        /\ UNCHANGED <<chain, config, client, requestId, sent>>
        /\ \/ at' = at + 1 /\ UNCHANGED <<pc, result>>
           \/ at' = at - 1 /\ pc' = "up" /\ result' = Error
    BY <1>5 DEF Transform
  <2> QED
    BY ONLY <2>1, <2>2, Placed, IdCarried DEF Placed, IdCarried, Inside, KeepsId, LastId
<1>6. CASE Publish
  BY <1>6 DEF Publish, Announced
<1>7. CASE PublishFails
  BY <1>7 DEF PublishFails, AfterPublishError
<1>8. CASE EnterCors
  BY <1>8 DEF EnterCors, CorsChecked, LetBy
<1>9. CASE LeaveCors
  BY <1>9 DEF LeaveCors, Records, MergedCors
<1>10. CASE Authorize
  <2>1. config.target # "id" => headers'["id"] = headers["id"]
    BY <1>10 DEF Authorize, Names, Records
  <2>2. /\ chain[at] = "forward_auth" /\ at \in DOMAIN chain /\ pc = "down" /\ at' = at + 1
        /\ UNCHANGED <<chain, config, client, requestId, sent, pc, result>>
    BY <1>10 DEF Authorize
  <2> QED
    BY ONLY <2>1, <2>2, Placed, IdCarried DEF Placed, IdCarried, Inside, KeepsId, LastId
<1>11. CASE EnterRetry
  BY <1>11 DEF EnterRetry
<1>12. CASE LeaveRetry
  BY <1>12 DEF LeaveRetry
<1>13. CASE LeaveOthers
  BY <1>13 DEF LeaveOthers
<1>14. CASE Answered
  BY <1>14 DEF Answered, vars
<1>15. ASSUME NEW outcome \in Outcomes, NEW cors \in UpstreamCors,
             CallUpstream(outcome, cors)
      PROVE  IdCarried'
  BY <1>15 DEF CallUpstream, AfterSend
<1> QED
  BY <1>1, <1>2, <1>3, <1>4, <1>5, <1>6, <1>7, <1>8, <1>9, <1>10, <1>11, <1>12, <1>13, <1>14, <1>15,
     Zenon DEF Next

LEMMA FailedStep ==
    ASSUME Placed, Records, FailedLast, Next
    PROVE  FailedLast'
<1> USE DEF Entering, Returning, CallNext, Respond, Raise, PassOn,
           route, position, context, memory, record, Placed, FailedLast, Repeats, Error, Answer
<1>1. CASE EnterCorrelation
  BY <1>1 DEF EnterCorrelation
<1>2. CASE LeaveCorrelation
  BY <1>2 DEF LeaveCorrelation, Records
<1>3. CASE CheckSize
  BY <1>3 DEF CheckSize
<1>4. CASE Validate
  BY <1>4 DEF Validate
<1>5. CASE Transform
  BY <1>5 DEF Transform
<1>6. CASE Publish
  BY <1>6 DEF Publish, Published, Retryable
<1>7. CASE PublishFails
  BY <1>7 DEF PublishFails, AfterPublishError
<1>8. CASE EnterCors
  BY <1>8 DEF EnterCors, Retryable
<1>9. CASE LeaveCors
  BY <1>9 DEF LeaveCors, Records, MergedCors
<1>10. CASE Authorize
  BY <1>10 DEF Authorize
<1>11. CASE EnterRetry
  BY <1>11 DEF EnterRetry
<1>12. CASE LeaveRetry
  BY <1>12 DEF LeaveRetry, NoResponse
<1>13. CASE LeaveOthers
  BY <1>13 DEF LeaveOthers
<1>14. CASE Answered
  BY <1>14 DEF Answered, vars
<1>15. ASSUME NEW outcome \in Outcomes, NEW cors \in UpstreamCors,
             CallUpstream(outcome, cors)
      PROVE  FailedLast'
  <2> DEFINE answer == IF outcome = 500 THEN Error ELSE Answer(outcome, cors)
             c == [body |-> body, headers |-> headers, outcome |-> outcome, cors |-> answer.cors]
  <2>1. PICK Calls : sent \in Seq(Calls)
    BY DEF Records
  <2>2. sent' = Append(sent, c) /\ c.outcome = outcome
    BY <1>15 DEF CallUpstream
  <2> HIDE DEF c
  <2>3. sent'[Len(sent')].outcome = outcome
    BY <2>1, <2>2
  <2> QED
    BY <1>15, <2>3 DEF CallUpstream, Failures, Outcomes
<1> QED
  BY <1>1, <1>2, <1>3, <1>4, <1>5, <1>6, <1>7, <1>8, <1>9, <1>10, <1>11, <1>12, <1>13, <1>14, <1>15,
     Zenon DEF Next

(* What has passed all plugins and is sent now has passed the checks. *)
LEMMA SendsChecked ==
    ASSUME Placed, Records, Checked, SentWasChecked, Next
    PROVE  SentWasChecked'
<1>1. CASE UNCHANGED sent
  BY <1>1, SentStep DEF SentWasChecked, Has, Range, Around
<1>2. CASE ~UNCHANGED sent
  <2>1. /\ UNCHANGED <<chain, config, client>>
        /\ at = Len(chain) + 1 /\ Len(sent') = Len(sent) + 1
        /\ \A i \in 1 .. Len(sent) : sent'[i] = sent[i]
        /\ sent'[Len(sent')].body = body
    BY <1>2, SentStep
  <2>2. \A p \in {"request_size", "validation"} :
           Has(p) /\ ~Around(p, "transformation") =>
             \E i \in DOMAIN chain : i < at /\ chain[i] = p /\ ~RewrittenAfter(i)
    BY <2>1 DEF Placed, Has, Range, Around, RewrittenAfter
  <2>3. Has("validation") => client.rules
    BY <2>1 DEF Placed, Checked, Has, Range
  <2>4. /\ Has("request_size") /\ ~Around("request_size", "transformation")
             => SizeOf(body) <= MaxBytes
        /\ Has("validation") /\ ~Around("validation", "transformation")
             => body.kind \in {"empty", "object"} /\ config.require \subseteq DOMAIN body.fields
    BY <2>2 DEF Checked
  <2>5. \A p, q : /\ Has(p)' <=> Has(p)
                  /\ Around(p, q)' <=> Around(p, q)
    BY <2>1 DEF Has, Range, Around
  <2>6. Len(sent) \in Nat /\ DOMAIN sent = 1 .. Len(sent) /\ DOMAIN sent' = 1 .. Len(sent')
    <3>1. PICK Calls : sent \in Seq(Calls)
      BY DEF Records
    <3>2. PICK Calls2 : sent' \in Seq(Calls2)
      BY RecordsStep DEF Records
    <3> QED
      BY <3>1, <3>2
  <2>7. ASSUME NEW i \in DOMAIN sent' PROVE (i \in DOMAIN sent /\ sent'[i] = sent[i]) \/ sent'[i].body = body
    BY <2>1, <2>6
  <2> QED
    BY <2>1, <2>3, <2>4, <2>5, <2>7 DEF SentWasChecked
<1> QED
  BY <1>1, <1>2

(* A call that is not the last one had failed. *)
LEMMA RepeatsFailures ==
    ASSUME Placed, Records, FailedLast, RepeatsOnlyFailures, Next
    PROVE  RepeatsOnlyFailures'
<1>1. CASE UNCHANGED sent
  BY <1>1, SentStep DEF RepeatsOnlyFailures, Has, Range
<1>2. CASE ~UNCHANGED sent
  <2>1. /\ UNCHANGED chain /\ pc = "down" /\ Len(sent') = Len(sent) + 1
        /\ \A i \in 1 .. Len(sent) : sent'[i] = sent[i]
    BY <1>2, SentStep
  <2>2. PICK Calls : sent \in Seq(Calls)
    BY DEF Records
  <2>3. ASSUME NEW i \in 1 .. Len(sent)
        PROVE  Has("retry") /\ sent[i].outcome \in Failures
    <3>1. CASE i = Len(sent)
      <4>1. sent # <<>>
        BY <2>2, <3>1
      <4> QED
        BY <2>1, <3>1, <4>1 DEF FailedLast, Has, Range
    <3>2. CASE i # Len(sent)
      <4>1. i \in 1 .. (Len(sent) - 1)
        BY <2>2, <3>2
      <4> QED
        BY <4>1 DEF RepeatsOnlyFailures, Failures
    <3> QED
      BY <3>1, <3>2
  <2>4. Len(sent') - 1 = Len(sent) /\ (Has("retry")' <=> Has("retry"))
    BY <2>1, <2>2 DEF Has, Range
  <2> QED
    BY <2>1, <2>3, <2>4 DEF RepeatsOnlyFailures, Failures
<1> QED
  BY <1>1, <1>2

-----------------------------------------------------------------------------
(* The plugins that set a header, and what they set it to: forward_auth    *)
(* its target; transformation the headers it is to set or remove, and the  *)
(* content type if there is none.                                          *)
Gives(j, n) ==
    /\ chain[j] = "forward_auth" /\ n = config.target
    /\ config.auth = "static" \/ (config.auth = "propagate" /\ client.auth)

Says(n) == n \in config.setHeaders \cup config.removeHeaders

Writes(j, n) ==
    \/ chain[j] = "correlation_id" /\ n = "id"
    \/ Gives(j, n)
    \/ /\ chain[j] = "transformation"
       /\ \/ Says(n)
          \/ n = "ctype" /\ Rewrites /\ \A k \in DOMAIN chain : k < j => ~Gives(k, n)

Written(j, n) ==
    IF chain[j] = "correlation_id" THEN requestId
    ELSE IF chain[j] = "forward_auth" THEN (IF config.auth = "static" THEN "config" ELSE Given)
    ELSE IF n = "ctype" /\ Rewrites /\ (n \in config.removeHeaders \/ ~Says(n)) THEN "json"
    ELSE IF n \in config.removeHeaders THEN Unset ELSE "config"

TypeHeader ==
    "ctype" \notin config.setHeaders /\ (\A j \in DOMAIN chain : ~Gives(j, "ctype"))
        => headers["ctype"] \in {Unset, "json"}

(* A step goes down past a plugin or back from it, sends, comes up, or     *)
(* goes round again.                                                       *)
GoesDown ==
    /\ pc = "down" /\ at \in DOMAIN chain /\ UNCHANGED sent
    /\ (pc' = "down" /\ at' = at + 1) \/ (pc' = "up" /\ at' = at - 1 /\ chain[at] # "retry")
    /\ attempt' = IF chain[at] = "retry" THEN 1 ELSE attempt
    /\ ids' = ids \/ (chain[at] = "correlation_id" /\ ids' = ids + 1)
    /\ \/ events' = events
       \/ chain[at] = "event_bridge" /\ \E n \in 0 .. MaxRepeats + 1 : events' = events + n
    /\ chain[at] # "correlation_id" => requestId' = requestId
    /\ IF chain[at] = "transformation" /\ Rewrites /\ pc' = "down"
       THEN Parses(body) /\ body' = Rewritten(body) ELSE body' = body

Sends ==
    /\ pc = "down" /\ at = Len(chain) + 1 /\ pc' = "up" /\ at' = at - 1
    /\ \E o, c : sent' = Append(sent, [body |-> body, headers |-> headers, outcome |-> o, cors |-> c])
    /\ UNCHANGED <<context, memory, ids, events>>

ComesUp == pc = "up" /\ pc' = "up" /\ at' \in {at, at - 1} /\ UNCHANGED <<context, memory, record>>

GoesRound ==
    /\ pc = "up" /\ at \in DOMAIN chain /\ chain[at] = "retry" /\ pc' = "down" /\ at' = at + 1
    /\ attempt < Attempts /\ attempt' = attempt + 1
    /\ UNCHANGED <<context, requestId, record>>

Moves == UNCHANGED route /\ (GoesDown \/ Sends \/ ComesUp \/ GoesRound)

LEMMA StepMoves ==
    ASSUME Placed, Next
    PROVE  Moves
<1> USE DEF Entering, Returning, CallNext, Respond, Raise, PassOn,
           route, position, context, memory, record, Placed
<1>1. CASE EnterCorrelation
  BY <1>1 DEF EnterCorrelation, Mark, Moves, GoesDown, Sends, ComesUp, GoesRound
<1>2. CASE LeaveCorrelation
  BY <1>2 DEF LeaveCorrelation, Moves, GoesDown, Sends, ComesUp, GoesRound
<1>3. CASE CheckSize
  BY <1>3 DEF CheckSize, Moves, GoesDown, Sends, ComesUp, GoesRound
<1>4. CASE Validate
  BY <1>4 DEF Validate, Moves, GoesDown, Sends, ComesUp, GoesRound
<1>5. CASE Transform
  BY <1>5 DEF Transform, Moves, GoesDown, Sends, ComesUp, GoesRound
<1>6. CASE Publish
  BY <1>6 DEF Publish, Published, Moves, GoesDown, Sends, ComesUp, GoesRound
<1>7. CASE PublishFails
  BY <1>7 DEF PublishFails, AfterPublishError, Moves, GoesDown, Sends, ComesUp, GoesRound
<1>8. CASE EnterCors
  BY <1>8 DEF EnterCors, Moves, GoesDown, Sends, ComesUp, GoesRound
<1>9. CASE LeaveCors
  BY <1>9 DEF LeaveCors, MergedCors, Moves, GoesDown, Sends, ComesUp, GoesRound
<1>10. CASE Authorize
  BY <1>10 DEF Authorize, Moves, GoesDown, Sends, ComesUp, GoesRound
<1>11. CASE EnterRetry
  BY <1>11 DEF EnterRetry, Moves, GoesDown, Sends, ComesUp, GoesRound
<1>12. CASE LeaveRetry
  BY <1>12 DEF LeaveRetry, More, Moves, GoesDown, Sends, ComesUp, GoesRound
<1>13. CASE LeaveOthers
  BY <1>13 DEF LeaveOthers, Moves, GoesDown, Sends, ComesUp, GoesRound
<1>14. CASE Answered
  BY <1>14 DEF Answered, Finished, vars, Moves, GoesDown, Sends, ComesUp, GoesRound
<1>15. ASSUME NEW outcome \in Outcomes, NEW cors \in UpstreamCors,
             CallUpstream(outcome, cors)
      PROVE  Moves
  <2> DEFINE answer == IF outcome = 500 THEN Error ELSE Answer(outcome, cors)
  <2>1. sent' = Append(sent, [body |-> body, headers |-> headers,
                              outcome |-> outcome, cors |-> answer.cors])
    BY <1>15 DEF CallUpstream
  <2> HIDE DEF answer
  <2>2. Sends /\ UNCHANGED route
    BY <1>15, <2>1 DEF CallUpstream, AfterSend, Sends
  <2> QED
    BY <2>2 DEF Moves
<1> QED
  BY <1>1, <1>2, <1>3, <1>4, <1>5, <1>6, <1>7, <1>8, <1>9, <1>10, <1>11, <1>12, <1>13, <1>14, <1>15,
     Zenon DEF Next

-----------------------------------------------------------------------------
(* How often the chain has come by a place. *)

(* x things happened at place p, one on each way down; d is the direction, *)
(* a the place and m the attempt.                                          *)
CountedAt(p, x, d, a, m) ==
    /\ x \in Nat
    /\ IF Outside(p, "retry") THEN x <= m /\ (d = "down" /\ a <= p /\ m # 0 => x < m)
       ELSE x <= 1 /\ (d = "down" /\ a <= p => x = 0)

Counted(p, x) == CountedAt(p, x, pc, at, attempt)

Attempted ==
    /\ attempt \in 0 .. Attempts
    /\ \A r \in DOMAIN chain : chain[r] = "retry" /\ pc = "down" => (at <= r <=> attempt = 0)

(* What x commands may have published, redis-py repeating each. *)
Most(x) == x * (MaxRepeats + 1)

Counts ==
    /\ Counted(Len(chain) + 1, Len(sent))
    /\ \A i \in DOMAIN chain :
          /\ chain[i] = "correlation_id" => Counted(i, ids)
          /\ chain[i] = "event_bridge" => \E x : Counted(i, x) /\ events <= Most(x)
    /\ (\A i \in DOMAIN chain : chain[i] # "correlation_id") => ids = 0
    /\ (\A i \in DOMAIN chain : chain[i] # "event_bridge") => events = 0

LEMMA MostMore ==
    /\ MaxRepeats \in Nat /\ Most(0) = 0 /\ Most(1) = MaxRepeats + 1
    /\ \A x \in Nat : Most(x) \in Nat /\ Most(x + 1) = Most(x) + MaxRepeats + 1
<1>1. MaxRepeats \in Nat
  BY ChainAssumption
<1>2. ASSUME NEW r \in Nat, NEW x \in Nat
      PROVE  x * (r + 1) \in Nat /\ (x + 1) * (r + 1) = x * (r + 1) + r + 1
  OBVIOUS
<1>3. ASSUME NEW r \in Nat PROVE 0 * (r + 1) = 0 /\ 1 * (r + 1) = r + 1
  OBVIOUS
<1> QED
  BY <1>1, <1>2, <1>3 DEF Most

LEMMA MostOrder ==
    ASSUME NEW x \in Nat, NEW y \in Nat, x <= y
    PROVE  Most(x) <= Most(y)
<1>1. MaxRepeats \in Nat
  BY ChainAssumption
<1>2. ASSUME NEW r \in Nat, NEW z \in Nat PROVE z * (r + 1) \in Nat /\ (x + z) * (r + 1) = x * (r + 1) + z * (r + 1) /\ x * (r + 1) \in Nat
  OBVIOUS
<1>3. y - x \in Nat /\ x + (y - x) = y
  OBVIOUS
<1> QED
  BY <1>1, <1>2, <1>3 DEF Most

LEMMA PlacesAreNumbers ==
    ASSUME Placed
    PROVE  /\ Len(chain) \in Nat /\ DOMAIN chain = 1 .. Len(chain) /\ at \in Int
           /\ at >= 0 /\ at <= Len(chain) + 1
BY DEF Placed

LEMMA AttemptedStep ==
    ASSUME Placed, Attempted, Moves
    PROVE  Attempted'
<1>1. /\ Len(chain) \in Nat /\ DOMAIN chain = 1 .. Len(chain) /\ at \in Int
      /\ \A i, j \in DOMAIN chain : chain[i] = chain[j] => i = j
      /\ chain' = chain /\ Attempts \in Nat \ {0}
  BY PlacesAreNumbers, ChainAssumption DEF Placed, Moves, route
<1>2. CASE GoesDown
  BY <1>1, <1>2 DEF GoesDown, Attempted
<1>3. CASE Sends
  BY <1>1, <1>3 DEF Sends, Attempted, memory
<1>4. CASE ComesUp
  BY <1>1, <1>4 DEF ComesUp, Attempted, memory
<1>5. CASE GoesRound
  BY <1>1, <1>5 DEF GoesRound, Attempted
<1> QED
  BY <1>2, <1>3, <1>4, <1>5 DEF Moves

LEMMA CountedStep ==
    ASSUME Placed, Attempted, Moves,
           NEW p \in 1 .. Len(chain) + 1, p \in DOMAIN chain => chain[p] # "retry",
           NEW x, Counted(p, x), NEW y, y = x \/ (y = x + 1 /\ pc = "down" /\ at = p)
    PROVE  CountedAt(p, y, pc', at', attempt')
<1>1. /\ Len(chain) \in Nat /\ DOMAIN chain = 1 .. Len(chain) /\ at \in Int
      /\ \A i, j \in DOMAIN chain : chain[i] = chain[j] => i = j
      /\ attempt \in Nat /\ x \in Nat
  BY PlacesAreNumbers, ChainAssumption DEF Placed, Attempted, Counted, CountedAt
<1> USE DEF Counted, CountedAt, Outside
<1>2. CASE GoesDown
  BY <1>1, <1>2 DEF GoesDown, Attempted
<1>3. CASE Sends
  BY <1>1, <1>3 DEF Sends, Attempted, memory
<1>4. CASE ComesUp
  BY <1>1, <1>4 DEF ComesUp, Attempted, memory
<1>5. CASE GoesRound
  BY <1>1, <1>5 DEF GoesRound, Attempted
<1> QED
  BY <1>2, <1>3, <1>4, <1>5 DEF Moves

LEMMA CountsStep ==
    ASSUME Placed, Records, Attempted, Counts, Moves
    PROVE  Counts'
<1>1. /\ Len(chain) \in Nat /\ DOMAIN chain = 1 .. Len(chain) /\ chain' = chain
      /\ \A i, j \in DOMAIN chain : chain[i] = chain[j] => i = j
  BY PlacesAreNumbers DEF Placed, Moves, route
<1>2. /\ ids' = ids \/ (pc = "down" /\ at \in DOMAIN chain /\ chain[at] = "correlation_id" /\ ids' = ids + 1)
      /\ \/ events' = events
         \/ /\ pc = "down" /\ at \in DOMAIN chain /\ chain[at] = "event_bridge"
            /\ \E n \in 0 .. MaxRepeats + 1 : events' = events + n
  BY DEF Moves, GoesDown, Sends, ComesUp, GoesRound, record
<1>3. Len(sent') = Len(sent) \/ (Len(sent') = Len(sent) + 1 /\ pc = "down" /\ at = Len(chain) + 1)
  <2>1. PICK Calls : sent \in Seq(Calls)
    BY DEF Records
  <2>2. sent' = sent \/ (pc = "down" /\ at = Len(chain) + 1 /\ \E c : sent' = Append(sent, c))
    BY DEF Moves, GoesDown, Sends, ComesUp, GoesRound, record
  <2> QED
    BY <2>1, <2>2
<1>4. \A p : Outside(p, "retry")' <=> Outside(p, "retry")
  BY <1>1 DEF Outside
<1>5. CountedAt(Len(chain) + 1, Len(sent'), pc', at', attempt')
  BY <1>1, <1>3, CountedStep DEF Counts
<1>6. ASSUME NEW i \in DOMAIN chain, chain[i] = "correlation_id"
      PROVE  CountedAt(i, ids', pc', at', attempt')
  <2>1. Counted(i, ids) /\ i \in 1 .. Len(chain) + 1 /\ chain[i] # "retry"
    BY <1>1, <1>6 DEF Counts
  <2>2. ids' = ids \/ (ids' = ids + 1 /\ pc = "down" /\ at = i)
    BY <1>1, <1>2, <1>6
  <2> QED
    BY <2>1, <2>2, CountedStep
<1>7. ASSUME NEW i \in DOMAIN chain, chain[i] = "event_bridge"
      PROVE  \E y : CountedAt(i, y, pc', at', attempt') /\ events' <= Most(y)
  <2>1. PICK x : Counted(i, x) /\ events <= Most(x)
    BY <1>7 DEF Counts
  <2>2. i \in 1 .. Len(chain) + 1 /\ chain[i] # "retry" /\ x \in Nat /\ events \in Nat
    BY <1>1, <1>7, <2>1 DEF Counted, CountedAt, Records
  <2>3. \/ events' = events
        \/ pc = "down" /\ at = i /\ \E n \in 0 .. MaxRepeats + 1 : events' = events + n
    BY <1>1, <1>2, <1>7
  <2>4. CASE events' = events
    BY <2>1, <2>2, <2>4, CountedStep
  <2>5. CASE pc = "down" /\ at = i /\ \E n \in 0 .. MaxRepeats + 1 : events' = events + n
    <3>1. events' <= Most(x + 1)
      <4>1. events <= Most(x) /\ Most(x) \in Nat /\ Most(x + 1) = Most(x) + MaxRepeats + 1
        BY <2>1, <2>2, MostMore
      <4>2. PICK n \in 0 .. MaxRepeats + 1 : events' = events + n
        BY <2>5
      <4>3. MaxRepeats \in Nat
        BY MostMore
      <4> HIDE DEF Most
      <4> QED
        BY ONLY <2>2, <4>1, <4>2, <4>3
    <3>2. CountedAt(i, x + 1, pc', at', attempt')
      BY <2>1, <2>2, <2>5, CountedStep
    <3> QED
      BY <3>1, <3>2
  <2> QED
    BY <2>3, <2>4, <2>5
<1>8. /\ (\A i \in DOMAIN chain : chain[i] # "correlation_id") => ids' = 0
      /\ (\A i \in DOMAIN chain : chain[i] # "event_bridge") => events' = 0
  BY <1>2 DEF Counts
<1> QED
  BY <1>1, <1>4, <1>5, <1>6, <1>7, <1>8 DEF Counts, Counted, CountedAt

Typed ==
    /\ chain \in Chains /\ config \in Configs /\ client \in Clients
    /\ body \in Bodies /\ headers \in [Names -> Marks]
    /\ requestId \in Marks /\ result \in Answers

LEMMA TypedConfig ==
    ASSUME Typed
    PROVE  Renaming /\ config.defaults \subseteq Fields
BY ChainAssumption DEF Typed, Renaming, ConfigRecords

LEMMA BodyContents ==
    ASSUME NEW b \in Bodies
    PROVE  b.fields \in Contents /\ (b.kind = "object" => b = Object(b.fields))
<1>1. NoFields \in Contents
  <2>1. {} \in SUBSET Fields /\ NoFields \in [{} -> Values]
    BY DEF NoFields
  <2> QED
    BY <2>1 DEF Contents
<1>2. CASE b \in Objects
  <2>1. b \in [kind : {"object"}, fields : Contents]
    BY <1>2 DEF Objects, Contents
  <2> HIDE DEF Contents
  <2> QED
    BY <2>1 DEF Object
<1>3. CASE b \notin Objects
  BY <1>1, <1>3 DEF Bodies
<1> QED
  BY <1>2, <1>3

LEMMA BodyRewritten ==
    ASSUME Renaming, NEW b \in Bodies
    PROVE  Rewritten(b) = Object(Final(b.fields)) /\ Rewritten(b) \in Bodies
<1>1. Rewritten(b) = Object(Final(b.fields))
  BY DEF Rewritten, Final
<1>2. Final(b.fields) \in Contents
  BY BodyContents, FinalIs DEF Renaming
<1> HIDE DEF Contents
<1>3. Object(Final(b.fields)) \in [kind : {"object"}, fields : Contents]
  BY <1>2 DEF Object
<1>4. [kind : {"object"}, fields : Contents] = Objects
  BY DEF Objects, Contents
<1> QED
  BY <1>1, <1>3, <1>4 DEF Bodies

(* uuid4() has not yet been called as often as retry makes attempts. *)
LEMMA NextUuid ==
    ASSUME Placed, Attempted, Counts, Entering("correlation_id")
    PROVE  ids \in Nat /\ ids + 1 <= Attempts /\ Uuids[ids + 1] \in Marks
<1>1. /\ Attempts \in Nat \ {0} /\ Len(Uuids) \in Nat /\ DOMAIN Uuids = 1 .. Len(Uuids)
      /\ Len(Uuids) >= Attempts
  BY ChainAssumption
<1>2. at \in DOMAIN chain /\ pc = "down" /\ Counted(at, ids)
  BY DEF Entering, Counts
<1>3. /\ Len(chain) \in Nat /\ DOMAIN chain = 1 .. Len(chain) /\ at \in Int
  BY PlacesAreNumbers
<1>4. ids \in Nat /\ ids + 1 <= Attempts
  <2>1. CASE Outside(at, "retry")
    <3>1. attempt # 0 /\ attempt \in 0 .. Attempts
      BY <1>2, <1>3, <2>1 DEF Outside, Attempted
    <3> QED
      BY <1>1, <1>2, <1>3, <2>1, <3>1 DEF Counted, CountedAt
  <2>2. CASE ~Outside(at, "retry")
    BY <1>1, <1>2, <1>3, <2>2 DEF Counted, CountedAt
  <2> QED
    BY <2>1, <2>2
<1> QED
  BY <1>1, <1>4 DEF Marks

Statuses == {0, 200, 202, 204, 500, 503}
Corses == [CorsNames -> {Unset, "upstream", "gateway"}]

LEMMA AnswersMade ==
    /\ Error \in Answers /\ NoResponse \in Answers /\ NoCors \in Corses
    /\ UpstreamCors \subseteq Corses /\ \A c \in Corses : CorsOver(c) \in Corses
    /\ \A st \in Statuses, c \in Corses : Answer(st, c) \in Answers
    /\ \A a \in Answers :
          /\ \A m \in Marks : [a EXCEPT !.id = m] \in Answers
          /\ MergedCors(a) \in Answers
<1>1. \A c \in Corses : CorsOver(c) \in Corses
  BY DEF CorsOver, Corses
<1>2. NoCors \in Corses /\ UpstreamCors \subseteq Corses
  BY DEF NoCors, UpstreamCors, Corses
<1>3. Answers = [status : Statuses, id : Marks, cors : Corses]
  BY DEF Answers, Statuses, Corses
<1>4. Unset \in Marks
  BY DEF Marks
<1>5. \A st \in Statuses, c \in Corses : Answer(st, c) \in Answers
  BY <1>3, <1>4 DEF Answer
<1>6. 0 \in Statuses /\ 500 \in Statuses
  BY DEF Statuses
<1>7. ASSUME NEW a \in Answers, NEW m \in Marks PROVE [a EXCEPT !.id = m] \in Answers
  BY <1>3
<1>8. ASSUME NEW a \in Answers PROVE MergedCors(a) \in Answers
  <2>1. CorsOver(a.cors) \in Corses
    BY <1>1, <1>3
  <2> QED
    BY <1>3, <2>1 DEF MergedCors
<1> QED
  BY <1>1, <1>2, <1>5, <1>6, <1>7, <1>8 DEF Error, NoResponse

LEMMA TypedStep ==
    ASSUME Placed, Attempted, Counts, Typed, Next
    PROVE  Typed'
<1>0. {Unset, Given, "config", "json"} \subseteq Marks
  BY DEF Marks
<1>16. {Unset, Given, "config", "json"} \subseteq Marks /\ Error \in Answers /\ NoResponse \in Answers
  BY <1>0, AnswersMade
<1> USE DEF Entering, Returning, CallNext, Respond, Raise, PassOn,
           route, position, context, memory, record
<1> HIDE DEF Error, Corses
<1>1. CASE EnterCorrelation
  <2>1. (IF client.id THEN Given ELSE Uuids[ids + 1]) \in Marks
    BY <1>0, <1>1, NextUuid DEF EnterCorrelation
  <2>2. headers' \in [Names -> Marks] /\ requestId' \in Marks
    BY <1>1, <2>1 DEF EnterCorrelation, Mark, Typed
  <2> QED
    BY <1>1, <2>2 DEF EnterCorrelation, Typed
<1>2. CASE LeaveCorrelation
  <2>1. result' \in Answers
    BY <1>2, AnswersMade DEF LeaveCorrelation, Typed
  <2> QED
    BY <1>2, <2>1 DEF LeaveCorrelation, Typed
<1>3. CASE CheckSize
  BY <1>16, <1>3 DEF CheckSize, Typed
<1>4. CASE Validate
  BY <1>16, <1>4 DEF Validate, Typed
<1>5. CASE Transform
  <2>1. headers' \in [Names -> Marks]
    <3> DEFINE named == [n \in Names |-> IF n \in config.removeHeaders THEN Unset
                                     ELSE IF n \in config.setHeaders THEN "config" ELSE headers[n]]
    <3>1. named \in [Names -> Marks]
      BY <1>16 DEF Typed
    <3>2. headers' = named \/ headers' = [named EXCEPT !["ctype"] = "json"]
      BY <1>5 DEF Transform
    <3> HIDE DEF named
    <3> QED
      BY <1>16, <3>1, <3>2
  <2>2. body' = body \/ body' = Rewritten(body)
    BY <1>5 DEF Transform
  <2>3. body' \in Bodies
    BY <2>2, BodyRewritten, TypedConfig DEF Typed
  <2>4. UNCHANGED <<route, memory, record>> /\ (result' = result \/ result' = Error)
    BY <1>5 DEF Transform
  <2> QED
    BY <1>16, <2>1, <2>3, <2>4 DEF Typed
<1>6. CASE Publish
  <2>1. result' \in Answers
    BY <1>6, AnswersMade DEF Publish, Typed, Published, Statuses
  <2> QED
    BY <1>6, <2>1 DEF Publish, Typed
<1>7. CASE PublishFails
  BY <1>16, <1>7 DEF PublishFails, Typed, AfterPublishError
<1>8. CASE EnterCors
  <2>1. result' \in Answers
    BY <1>8, AnswersMade DEF EnterCors, Typed, Statuses
  <2> QED
    BY <1>8, <2>1 DEF EnterCors, Typed
<1>9. CASE LeaveCors
  <2>1. result' \in Answers
    BY <1>9, AnswersMade DEF LeaveCors, Typed
  <2> QED
    BY <1>9, <2>1 DEF LeaveCors, Typed
<1>10. CASE Authorize
  <2>1. headers' \in [Names -> Marks]
    BY <1>16, <1>10 DEF Authorize, Typed
  <2> QED
    BY <1>10, <2>1 DEF Authorize, Typed
<1>11. CASE EnterRetry
  BY <1>16, <1>11 DEF EnterRetry, Typed
<1>12. CASE LeaveRetry
  BY <1>16, <1>12 DEF LeaveRetry, Typed
<1>13. CASE LeaveOthers
  BY <1>16, <1>13 DEF LeaveOthers, Typed
<1>14. CASE Answered
  BY <1>16, <1>14 DEF Answered, Typed, vars, Finished
<1>15. ASSUME NEW outcome \in Outcomes, NEW cors \in UpstreamCors,
             CallUpstream(outcome, cors)
      PROVE  Typed'
  <2>1. result' \in Answers
    BY <1>15, AnswersMade DEF CallUpstream, Outcomes, Statuses
  <2> QED
    BY <1>15, <2>1 DEF CallUpstream, AfterSend, Typed
<1> QED
  BY <1>1, <1>2, <1>3, <1>4, <1>5, <1>6, <1>7, <1>8, <1>9, <1>10, <1>11, <1>12, <1>13, <1>14, <1>15,
     Zenon DEF Next

LEMMA TypesFit ==
    ASSUME Placed, Records, Attempted, Counts, Typed
    PROVE  TypeOK
<1>1. /\ Attempts \in Nat \ {0} /\ attempt \in 0 .. Attempts
      /\ Len(chain) \in Nat /\ DOMAIN chain = 1 .. Len(chain)
  BY PlacesAreNumbers, ChainAssumption DEF Attempted
<1>6. events \in Nat
  BY DEF Records
<1>2. ASSUME NEW p, NEW x, Counted(p, x) PROVE x \in 0 .. Attempts
  BY <1>1, <1>2 DEF Counted, CountedAt
<1>3. ids \in 0 .. Attempts
  BY <1>1, <1>2 DEF Counts
<1>4. events \in 0 .. (Attempts * (MaxRepeats + 1))
  <2>1. events = 0 \/ \E x : x \in 0 .. Attempts /\ events <= Most(x)
    BY <1>2 DEF Counts
  <2>2. events = 0 \/ events <= Most(Attempts)
    <3>1. ASSUME NEW x \in 0 .. Attempts, events <= Most(x) PROVE events <= Most(Attempts)
      <4>0. x \in Nat /\ Attempts \in Nat /\ x <= Attempts
        BY <1>1
      <4>1. Most(x) <= Most(Attempts) /\ Most(x) \in Nat /\ Most(Attempts) \in Nat
        BY <4>0, MostMore, MostOrder
      <4> QED
        BY <3>1, <4>1, <1>6
    <3> QED
      BY <2>1, <3>1
  <2>3. Most(Attempts) \in Nat
    BY <1>1, MostMore
  <2> QED
    BY <1>6, <2>2, <2>3 DEF Most
<1>5. Len(sent) <= Attempts
  BY <1>1, <1>2 DEF Counts
<1> QED
  BY <1>1, <1>3, <1>4, <1>5 DEF TypeOK, Typed, Placed

-----------------------------------------------------------------------------
(* The body between the attempts. *)

Due == Rewritten(client.body)

(* t: the place of transformation, if it rewrites. *)
BodyFits(t) ==
    /\ body \in {client.body, Due}
    /\ at > t => body = Due
    /\ Stable \/ (pc = "down" /\ at <= t => body = client.body)
    /\ \A i \in DOMAIN sent : sent[i].body = Due

BodiesFit ==
    /\ RewrittenOnce /\ Rewrites =>
          \A t \in DOMAIN chain : chain[t] = "transformation" => BodyFits(t)
    /\ ~Rewrites \/ (\A t \in DOMAIN chain : chain[t] # "transformation") =>
          body = client.body /\ \A i \in DOMAIN sent : sent[i].body = client.body

LEMMA SameRoute ==
    ASSUME UNCHANGED route
    PROVE  /\ Due' = Due /\ (RewrittenOnce' <=> RewrittenOnce)
           /\ (Stable' <=> Stable) /\ (Rewrites' <=> Rewrites)
           /\ chain' = chain /\ config' = config /\ client' = client
<1>1. chain' = chain /\ config' = config /\ client' = client
  BY DEF route
<1>2. ASSUME NEW f PROVE Renamed(f)' = Renamed(f)
  BY <1>1 DEF Renamed, FoldLeft, MapThenFoldSet
<1>3. Due' = Due
  BY <1>1, <1>2 DEF Due, Rewritten, Defaulted
<1>4. Stable' <=> Stable
  BY <1>1 DEF Stable
<1>5. Rewrites' <=> Rewrites
  BY <1>1 DEF Rewrites
<1>6. Around("retry", "transformation")' <=> Around("retry", "transformation")
  BY <1>1 DEF Around
<1> QED
  BY <1>1, <1>3, <1>4, <1>5, <1>6 DEF RewrittenOnce

(* What the calls of upstream are after a step. *)
LEMMA CallsAfter ==
    ASSUME Records, Moves
    PROVE  \/ sent' = sent
           \/ /\ Sends /\ DOMAIN sent = 1 .. Len(sent) /\ Len(sent) \in Nat
              /\ DOMAIN sent' = 1 .. Len(sent) + 1
              /\ \A i \in DOMAIN sent : sent'[i] = sent[i]
              /\ sent'[Len(sent) + 1].body = body /\ sent'[Len(sent) + 1].headers = headers
<1>1. CASE Sends
  <2>1. PICK Calls : sent \in Seq(Calls)
    BY DEF Records
  <2>2. PICK o, c : sent' = Append(sent, [body |-> body, headers |-> headers, outcome |-> o, cors |-> c])
    BY <1>1 DEF Sends
  <2> QED
    BY <1>1, <2>1, <2>2
<1>2. CASE ~Sends
  BY <1>2 DEF Moves, GoesDown, ComesUp, GoesRound, record
<1> QED
  BY <1>1, <1>2

LEMMA RewrittenAgain ==
    ASSUME Typed, Rewrites, Stable
    PROVE  Rewritten(Due) = Due
<1>1. /\ client.body \in Bodies /\ Renaming
  BY TypedConfig, ChainAssumption DEF Typed, ClientRecords
<1>2. Due = Object(Final(client.body.fields)) /\ Due \in Bodies
  BY <1>1, BodyRewritten DEF Due
<1>3. Due.fields = Final(client.body.fields)
  BY <1>2 DEF Object
<1>4. Rewritten(Due) = Object(Final(Due.fields))
  BY <1>1, <1>2, BodyRewritten
<1>5. Final(Final(client.body.fields)) = Final(client.body.fields)
  BY <1>1, BodyContents, RewritingAgain
<1> QED
  BY <1>2, <1>3, <1>4, <1>5

LEMMA BodyStep ==
    ASSUME Placed, Records, Typed, Moves, RewrittenOnce, Rewrites,
           NEW t \in DOMAIN chain, chain[t] = "transformation", BodyFits(t)
    PROVE  BodyFits(t)'
<1>0. UNCHANGED route
  BY DEF Moves
<1>1. /\ Due' = Due /\ (Stable' <=> Stable) /\ client' = client /\ chain' = chain
      /\ Len(chain) \in Nat /\ DOMAIN chain = 1 .. Len(chain) /\ at \in Int
      /\ \A i, j \in DOMAIN chain : chain[i] = chain[j] => i = j
  BY <1>0, SameRoute, PlacesAreNumbers DEF Placed
<1>2. Stable \/ \A r \in DOMAIN chain : chain[r] = "retry" => r >= t
  BY <1>1 DEF RewrittenOnce, Around
<1>3. (\A i \in DOMAIN sent' : sent'[i].body = Due)
  <2>1. Sends => body = Due
    BY <1>1 DEF Sends, BodyFits
  <2> QED
    BY <2>1, CallsAfter DEF BodyFits
<1> HIDE DEF Due
<1>4. CASE GoesDown /\ at = t
  <2>1. body' = body \/ body' = Rewritten(body)
    BY <1>4 DEF GoesDown
  <2>2. Rewritten(body) = Due
    <3>1. CASE body = client.body
      BY <3>1 DEF Due
    <3>2. CASE body # client.body
      BY <1>1, <1>4, <3>2, RewrittenAgain DEF GoesDown, BodyFits
    <3> QED
      BY <3>1, <3>2
  <2>3. at' > t => body' = Due
    BY <1>1, <1>4, <2>2 DEF GoesDown
  <2>4. ~(pc' = "down" /\ at' <= t)
    BY <1>1, <1>4 DEF GoesDown
  <2> QED
    BY <1>1, <1>3, <2>1, <2>2, <2>3, <2>4 DEF BodyFits
<1>5. CASE GoesDown /\ at # t
  <2>1. body' = body
    BY <1>1, <1>5 DEF GoesDown
  <2>2. at' > t => at > t
    BY <1>1, <1>5 DEF GoesDown
  <2>3. pc' = "down" /\ at' <= t => pc = "down" /\ at <= t
    BY <1>1, <1>5 DEF GoesDown
  <2> QED
    BY <1>1, <1>3, <2>1, <2>2, <2>3 DEF BodyFits
<1>6. CASE Sends
  BY <1>1, <1>3, <1>6 DEF Sends, BodyFits, context
<1>7. CASE ComesUp
  BY <1>1, <1>3, <1>7 DEF ComesUp, BodyFits, context
<1>8. CASE GoesRound
  <2>1. body' = body /\ (Stable \/ at > t) /\ (at' > t => at > t \/ at = t) /\ at # t
    BY <1>1, <1>2, <1>8 DEF GoesRound, context
  <2>2. Stable \/ ~(at' <= t)
    BY <1>1, <1>8, <2>1 DEF GoesRound
  <2> QED
    BY <1>1, <1>3, <2>1, <2>2 DEF BodyFits
<1> QED
  BY <1>4, <1>5, <1>6, <1>7, <1>8 DEF Moves

LEMMA BodiesStep ==
    ASSUME Placed, Records, Typed, Moves, BodiesFit
    PROVE  BodiesFit'
<1>0. UNCHANGED route
  BY DEF Moves
<1>1. /\ (RewrittenOnce' <=> RewrittenOnce) /\ (Rewrites' <=> Rewrites)
      /\ client' = client /\ chain' = chain
  BY <1>0, SameRoute
<1>2. ASSUME RewrittenOnce, Rewrites, NEW t \in DOMAIN chain, chain[t] = "transformation"
      PROVE  BodyFits(t)'
  BY <1>2, BodyStep DEF BodiesFit
<1>3. ASSUME ~Rewrites \/ (\A t \in DOMAIN chain : chain[t] # "transformation")
      PROVE  body' = client.body /\ \A i \in DOMAIN sent' : sent'[i].body = client.body
  <2>1. body = client.body /\ \A i \in DOMAIN sent : sent[i].body = client.body
    BY <1>3 DEF BodiesFit
  <2>2. body' = body
    BY <1>3 DEF Moves, GoesDown, Sends, ComesUp, GoesRound, context
  <2> QED
    BY <2>1, <2>2, CallsAfter
<1> QED
  BY <1>1, <1>2, <1>3 DEF BodiesFit

LEMMA BodiesKept ==
    ASSUME Typed, BodiesFit
    PROVE  ClientValuesKept
<1> SUFFICES ASSUME RewrittenOnce, NEW i \in DOMAIN sent
             PROVE  IF Has("transformation") /\ Rewrites
                    THEN sent[i].body.kind = "object"
                         /\ IsRewritingOf(sent[i].body.fields, client.body.fields)
                    ELSE sent[i].body = client.body
  BY DEF ClientValuesKept
<1>1. Has("transformation") <=> \E t \in DOMAIN chain : chain[t] = "transformation"
  BY DEF Has, Range
<1>2. CASE Has("transformation") /\ Rewrites
  <2>1. sent[i].body = Due
    BY <1>1, <1>2 DEF BodiesFit, BodyFits
  <2>2. /\ client.body \in Bodies /\ Renaming /\ Default \notin Range(client.body.fields)
    BY TypedConfig, ChainAssumption DEF Typed, ClientRecords
  <2>3. sent[i].body.kind = "object" /\ sent[i].body.fields = Final(client.body.fields)
    BY <2>1, <2>2, BodyRewritten DEF Due, Object
  <2>4. IsRewritingOf(Final(client.body.fields), client.body.fields)
    BY <2>2, BodyContents, RewritingSound
  <2> QED
    BY <1>2, <2>3, <2>4
<1>3. CASE ~(Has("transformation") /\ Rewrites)
  BY <1>1, <1>3 DEF BodiesFit
<1> QED
  BY <1>2, <1>3

-----------------------------------------------------------------------------
(* The headers between the attempts. *)

LastWriter(j, n) ==
    /\ j \in DOMAIN chain /\ Writes(j, n)
    /\ \A k \in DOMAIN chain : Writes(k, n) => k <= j

Unwritten(n) == \A j \in DOMAIN chain : ~Writes(j, n)

(* The id is made anew in every attempt. *)
MadeAnew(j) == chain[j] = "correlation_id" /\ Outside(j, "retry")

HeaderFits(n) ==
    /\ \A j \in DOMAIN chain : LastWriter(j, n) /\ at > j => headers[n] = Written(j, n)
    /\ Unwritten(n) => headers[n] = Unset

HeaderSent(n) ==
    \A i \in DOMAIN sent :
        /\ \A j \in DOMAIN chain : LastWriter(j, n) /\ ~MadeAnew(j) => sent[i].headers[n] = Written(j, n)
        /\ Unwritten(n) => sent[i].headers[n] = Unset

HeadersFit == TypeHeader /\ \A n \in Names : HeaderFits(n) /\ HeaderSent(n)

(* One plugin at a time writes, and only its own headers. *)
HeaderMoves ==
    /\ TypeHeader'
    /\ \A n \in Names :
          IF pc = "down" /\ at \in DOMAIN chain /\ Writes(at, n)
          THEN at' = at + 1 /\ LastWriter(at, n) =>
                   headers'[n] = IF chain[at] = "correlation_id" THEN requestId' ELSE Written(at, n)
          ELSE headers'[n] = headers[n]

(* The place of a plugin that writes no header, or a step not down. *)
LEMMA NoHeader ==
    ASSUME Placed, TypeHeader, UNCHANGED route, UNCHANGED headers,
           \/ pc # "down" \/ at \notin DOMAIN chain
           \/ chain[at] \notin {"correlation_id", "transformation", "forward_auth"}
    PROVE  HeaderMoves
<1>1. TypeHeader'
  BY SameRoute DEF TypeHeader, Gives, route
<1>2. pc = "down" /\ at \in DOMAIN chain => \A n : ~Writes(at, n)
  BY DEF Writes, Gives
<1> QED
  BY <1>1, <1>2 DEF HeaderMoves

LEMMA StepHeaders ==
    ASSUME Placed, Typed, TypeHeader, HeaderFits("ctype"), Next
    PROVE  HeaderMoves
<1> USE DEF Entering, Returning, CallNext, Respond, Raise, PassOn,
           route, position, context, memory, record
<1>0. /\ headers \in [Names -> Marks] /\ at \in Int /\ Names = {"id", "auth", "custom", "ctype"}
      /\ Len(chain) \in Nat /\ DOMAIN chain = 1 .. Len(chain)
      /\ \A i, j \in DOMAIN chain : chain[i] = chain[j] => i = j
      /\ config.target \in Names
  BY PlacesAreNumbers, ChainAssumption DEF Typed, Names, Placed, ConfigRecords
<1>1. CASE EnterCorrelation
  <2>1. /\ pc = "down" /\ at \in DOMAIN chain /\ chain[at] = "correlation_id" /\ UNCHANGED route
        /\ headers' = [headers EXCEPT !["id"] = requestId']
    BY <1>1 DEF EnterCorrelation, Mark
  <2>2. TypeHeader'
    BY <1>0, <2>1, SameRoute DEF TypeHeader, Gives
  <2>3. \A n \in Names : Writes(at, n) <=> n = "id"
    BY <2>1 DEF Writes, Gives
  <2> QED
    BY <1>0, <2>1, <2>2, <2>3 DEF HeaderMoves
<1>5. CASE Transform
  <2> DEFINE named == [n \in Names |-> IF n \in config.removeHeaders THEN Unset
                                   ELSE IF n \in config.setHeaders THEN "config" ELSE headers[n]]
  <2>1. \/ ~Rewrites /\ headers' = named
        \/ /\ Rewrites
           /\ headers' = IF named["ctype"] = Unset THEN [named EXCEPT !["ctype"] = "json"] ELSE named
        \/ Rewrites /\ headers' = named /\ at' = at - 1
    BY <1>5 DEF Transform
  <2>2. pc = "down" /\ at \in DOMAIN chain /\ chain[at] = "transformation" /\ UNCHANGED <<route, memory>>
    BY <1>5 DEF Transform
  <2>3. \A n \in Names : headers'[n] = named[n] \/ (n = "ctype" /\ Rewrites /\ named[n] = Unset /\ headers'[n] = "json")
    BY <1>0, <2>1
  <2>4. TypeHeader'
    <3> SUFFICES ASSUME "ctype" \notin config.setHeaders, \A j \in DOMAIN chain : ~Gives(j, "ctype")
                 PROVE  headers'["ctype"] \in {Unset, "json"}
      BY <2>2, SameRoute DEF TypeHeader, Gives
    <3>1. headers["ctype"] \in {Unset, "json"}
      BY DEF TypeHeader
    <3> QED
      BY <1>0, <2>3, <3>1
  <2>5. ASSUME NEW n \in Names, ~Writes(at, n) PROVE headers'[n] = headers[n]
    <3>1. ~Says(n) /\ named[n] = headers[n]
      BY <2>2, <2>5 DEF Writes, Says
    <3>2. CASE n = "ctype" /\ Rewrites
      <4>1. PICK k \in DOMAIN chain : k < at /\ Gives(k, "ctype")
        BY <2>2, <2>5, <3>2 DEF Writes
      <4>2. LastWriter(k, "ctype")
        <5>1. Writes(k, "ctype")
          BY <4>1 DEF Writes
        <5>2. ASSUME NEW m \in DOMAIN chain, Writes(m, "ctype") PROVE m <= k
          BY <1>0, <2>2, <2>5, <3>2, <4>1, <5>2 DEF Writes, Gives
        <5> QED
          BY <5>1, <5>2 DEF LastWriter
      <4>3. headers["ctype"] = Written(k, "ctype") /\ chain[k] = "forward_auth"
        BY <1>0, <4>1, <4>2 DEF HeaderFits, Gives
      <4>4. headers["ctype"] # Unset
        BY <4>3 DEF Written, Unset, Given
      <4> QED
        BY <2>3, <3>1, <3>2, <4>4
    <3>3. CASE ~(n = "ctype" /\ Rewrites)
      BY <2>3, <3>1, <3>3
    <3> QED
      BY <3>2, <3>3
  <2>6. ASSUME NEW n \in Names, LastWriter(at, n), at' = at + 1 PROVE headers'[n] = Written(at, n)
    <3>1. \/ ~Rewrites /\ headers' = named
          \/ /\ Rewrites
             /\ headers' = IF named["ctype"] = Unset THEN [named EXCEPT !["ctype"] = "json"] ELSE named
      BY <1>0, <2>1, <2>6
    <3>2. CASE n \in config.removeHeaders
      BY <1>0, <2>2, <3>1, <3>2 DEF Written
    <3>3. CASE n \notin config.removeHeaders /\ n \in config.setHeaders
      <4>1. named[n] = "config"
        BY <3>3
      <4>2. headers'[n] = "config"
        BY <1>0, <3>1, <4>1 DEF Unset
      <4> QED
        BY <2>2, <3>3, <4>2 DEF Written, Says
    <3>4. CASE ~Says(n)
      <4>1. n = "ctype" /\ Rewrites /\ \A k \in DOMAIN chain : k < at => ~Gives(k, n)
        BY <2>2, <2>6, <3>4 DEF LastWriter, Writes, Gives
      <4>2. \A k \in DOMAIN chain : ~Gives(k, n)
        <5>1. \A k \in DOMAIN chain : Gives(k, n) => k <= at /\ k # at
          BY <2>2, <2>6 DEF LastWriter, Writes, Gives
        <5> QED
          BY <1>0, <2>2, <4>1, <5>1
      <4>3. headers[n] \in {Unset, "json"} /\ named[n] = headers[n]
        BY <3>4, <4>1, <4>2 DEF TypeHeader, Says
      <4>4. headers'[n] = "json"
        BY <1>0, <3>1, <4>1, <4>3
      <4> QED
        BY <2>2, <3>4, <4>1, <4>4 DEF Written
    <3> QED
      BY <3>2, <3>3, <3>4 DEF Says
  <2> QED
    BY <2>2, <2>4, <2>5, <2>6 DEF HeaderMoves
<1>10. CASE Authorize
  <2>1. /\ pc = "down" /\ at \in DOMAIN chain /\ chain[at] = "forward_auth" /\ UNCHANGED route
        /\ headers' = [headers EXCEPT ![config.target] =
                         IF config.auth = "static" THEN "config"
                         ELSE IF config.auth = "propagate" /\ client.auth THEN Given ELSE @]
    BY <1>10 DEF Authorize
  <2>2. ASSUME NEW n \in Names
        PROVE  headers'[n] = IF Gives(at, n) THEN Written(at, n) ELSE headers[n]
    BY <1>0, <2>1 DEF Gives, Written
  <2>3. TypeHeader'
    BY <1>0, <2>1, <2>2, SameRoute DEF TypeHeader, Gives
  <2>4. \A n \in Names : Writes(at, n) <=> Gives(at, n)
    BY <2>1 DEF Writes
  <2> QED
    BY <2>1, <2>2, <2>3, <2>4 DEF HeaderMoves
<1>2. CASE LeaveCorrelation
  BY <1>2, NoHeader DEF LeaveCorrelation
<1>3. CASE CheckSize
  BY <1>3, NoHeader DEF CheckSize
<1>4. CASE Validate
  BY <1>4, NoHeader DEF Validate
<1>6. CASE Publish
  BY <1>6, NoHeader DEF Publish
<1>7. CASE PublishFails
  BY <1>7, NoHeader DEF PublishFails, AfterPublishError
<1>8. CASE EnterCors
  BY <1>8, NoHeader DEF EnterCors
<1>9. CASE LeaveCors
  BY <1>9, NoHeader DEF LeaveCors
<1>11. CASE EnterRetry
  BY <1>11, NoHeader DEF EnterRetry
<1>12. CASE LeaveRetry
  BY <1>12, NoHeader DEF LeaveRetry
<1>13. CASE LeaveOthers
  BY <1>13, NoHeader DEF LeaveOthers
<1>14. CASE Answered
  BY <1>14, NoHeader DEF Answered, Finished, vars
<1>15. ASSUME NEW outcome \in Outcomes, NEW cors \in UpstreamCors,
             CallUpstream(outcome, cors)
      PROVE  HeaderMoves
  <2>1. at \notin DOMAIN chain /\ UNCHANGED <<route, headers>>
    BY <1>0, <1>15 DEF CallUpstream
  <2> QED
    BY <2>1, NoHeader
<1> QED
  BY <1>1, <1>2, <1>3, <1>4, <1>5, <1>6, <1>7, <1>8, <1>9, <1>10, <1>11, <1>12, <1>13, <1>14, <1>15,
     Zenon DEF Next

(* An id that is not made anew was made before the first call. *)
LEMMA IdStays ==
    ASSUME Placed, Attempted, Counts, Moves, NEW j \in DOMAIN chain,
           chain[j] = "correlation_id", ~MadeAnew(j), sent # <<>> \/ at > j, Records
    PROVE  requestId' = requestId
<1>1. /\ Len(chain) \in Nat /\ DOMAIN chain = 1 .. Len(chain) /\ at \in Int
      /\ \A i, k \in DOMAIN chain : chain[i] = chain[k] => i = k
  BY PlacesAreNumbers DEF Placed
<1> SUFFICES ASSUME GoesDown, at = j, sent # <<>> PROVE FALSE
  BY <1>1 DEF Moves, GoesDown, Sends, ComesUp, GoesRound, memory
<1>2. PICK Calls : sent \in Seq(Calls)
  BY DEF Records
<1>3. Len(sent) \in Nat /\ Len(sent) # 0
  BY <1>2
<1>4. Counted(Len(chain) + 1, Len(sent)) /\ pc = "down" /\ attempt \in Nat
  BY ChainAssumption DEF Counts, GoesDown, Attempted
<1>5. CASE Outside(Len(chain) + 1, "retry")
  <2>1. PICK r \in DOMAIN chain : chain[r] = "retry"
    BY <1>5 DEF Outside
  <2>2. r > at
    BY <1>1, <2>1 DEF MadeAnew, Outside
  <2>3. attempt = 0
    BY <1>1, <1>4, <2>1, <2>2 DEF Attempted
  <2> QED
    BY <1>3, <1>4, <1>5, <2>3 DEF Counted, CountedAt
<1>6. CASE ~Outside(Len(chain) + 1, "retry")
  BY <1>1, <1>3, <1>4, <1>6 DEF Counted, CountedAt
<1> QED
  BY <1>5, <1>6

LEMMA SameWriters ==
    ASSUME UNCHANGED route
    PROVE  \A n : /\ Unwritten(n)' <=> Unwritten(n)
                  /\ \A j : /\ Writes(j, n)' <=> Writes(j, n)
                            /\ LastWriter(j, n)' <=> LastWriter(j, n)
                            /\ MadeAnew(j)' <=> MadeAnew(j)
                            /\ Written(j, n)' = IF chain[j] = "correlation_id" THEN requestId'
                                                ELSE Written(j, n)
<1>1. chain' = chain /\ config' = config /\ client' = client
  BY DEF route
<1>2. \A j, n : Writes(j, n)' <=> Writes(j, n)
  BY <1>1 DEF Writes, Gives, Says, Rewrites
<1>3. \A j, n : LastWriter(j, n)' <=> LastWriter(j, n)
  BY <1>1, <1>2 DEF LastWriter
<1>4. \A n : Unwritten(n)' <=> Unwritten(n)
  BY <1>1, <1>2 DEF Unwritten
<1>5. \A j : MadeAnew(j)' <=> MadeAnew(j)
  BY <1>1 DEF MadeAnew, Outside
<1>6. \A j, n : Written(j, n)' = IF chain[j] = "correlation_id" THEN requestId' ELSE Written(j, n)
  BY <1>1 DEF Written, Says, Rewrites
<1> QED
  BY <1>2, <1>3, <1>4, <1>5, <1>6

LEMMA HeaderStep ==
    ASSUME Placed, Records, Attempted, Counts, Moves, HeaderMoves,
           NEW n \in Names, HeaderFits(n)
    PROVE  HeaderFits(n)'
<1>0. UNCHANGED route
  BY DEF Moves
<1>1. /\ Len(chain) \in Nat /\ DOMAIN chain = 1 .. Len(chain) /\ at \in Int /\ chain' = chain
      /\ \A i, k \in DOMAIN chain : chain[i] = chain[k] => i = k
  BY <1>0, PlacesAreNumbers DEF Placed, route
<1>2. ASSUME NEW j \in DOMAIN chain, LastWriter(j, n), at' > j
      PROVE  headers'[n] = IF chain[j] = "correlation_id" THEN requestId' ELSE Written(j, n)
  <2>1. CASE GoesDown /\ at = j
    BY <1>1, <1>2, <2>1 DEF GoesDown, HeaderMoves, LastWriter
  <2>2. CASE ~(GoesDown /\ at = j)
    <3>1. at > j
      <4>1. at = j => ~GoesRound
        BY <1>2 DEF GoesRound, LastWriter, Writes, Gives
      <4> QED
        BY <1>1, <1>2, <2>2, <4>1 DEF Moves, GoesDown, Sends, ComesUp, GoesRound
    <3>2. ~Writes(at, n) \/ at \notin DOMAIN chain
      BY <1>1, <1>2, <3>1 DEF LastWriter
    <3>3. headers'[n] = headers[n] /\ headers[n] = Written(j, n)
      BY <1>2, <3>1, <3>2 DEF HeaderMoves, HeaderFits
    <3>4. chain[j] = "correlation_id" => requestId' = requestId
      BY <1>1, <3>1 DEF Moves, GoesDown, Sends, ComesUp, GoesRound, memory
    <3> QED
      BY <3>3, <3>4 DEF Written
  <2> QED
    BY <2>1, <2>2
<1>3. ASSUME Unwritten(n) PROVE headers'[n] = Unset
  BY <1>3 DEF Unwritten, HeaderMoves, HeaderFits
<1> QED
  BY <1>0, <1>1, <1>2, <1>3, SameWriters DEF HeaderFits

LEMMA HeaderSentStep ==
    ASSUME Placed, Records, Attempted, Counts, Moves,
           NEW n \in Names, HeaderFits(n), HeaderSent(n)
    PROVE  HeaderSent(n)'
<1>0. UNCHANGED route
  BY DEF Moves
<1>1. /\ Len(chain) \in Nat /\ DOMAIN chain = 1 .. Len(chain) /\ at \in Int /\ chain' = chain
  BY <1>0, PlacesAreNumbers DEF route
<1>2. ASSUME NEW i \in DOMAIN sent', NEW j \in DOMAIN chain, LastWriter(j, n), ~MadeAnew(j)
      PROVE  sent'[i].headers[n] = IF chain[j] = "correlation_id" THEN requestId' ELSE Written(j, n)
  <2>1. CASE i \in DOMAIN sent /\ sent'[i] = sent[i]
    <3>1. sent'[i].headers[n] = Written(j, n) /\ sent # <<>>
      BY <1>2, <2>1 DEF HeaderSent
    <3> QED
      BY <1>2, <3>1, IdStays DEF Written
  <2>2. CASE ~(i \in DOMAIN sent /\ sent'[i] = sent[i])
    <3>1. Sends /\ sent'[i].headers = headers
      BY <1>2, <2>2, CallsAfter
    <3>2. at > j /\ requestId' = requestId
      BY <1>1, <3>1 DEF Sends, memory
    <3> QED
      BY <1>2, <3>1, <3>2 DEF HeaderFits, Written
  <2> QED
    BY <2>1, <2>2
<1>3. ASSUME NEW i \in DOMAIN sent', Unwritten(n) PROVE sent'[i].headers[n] = Unset
  BY <1>3, CallsAfter DEF HeaderSent, HeaderFits
<1> QED
  BY <1>0, <1>1, <1>2, <1>3, SameWriters DEF HeaderSent

LEMMA WriterExists ==
    ASSUME Placed, NEW n, ~Unwritten(n)
    PROVE  \E j \in DOMAIN chain : LastWriter(j, n)
<1> DEFINE W == {j \in DOMAIN chain : Writes(j, n)}
<1>1. /\ Len(chain) \in Nat /\ DOMAIN chain = 1 .. Len(chain)
  BY PlacesAreNumbers
<1>2. W # {} /\ W \subseteq 1 .. Len(chain)
  BY <1>1 DEF Unwritten
<1>3. Max(W) \in W /\ \A k \in W : k <= Max(W)
  <2> HIDE DEF W
  <2> QED
    BY <1>1, <1>2, MaxIn
<1> QED
  BY <1>3, Zenon DEF LastWriter

LEMMA AttemptsTheSame ==
    ASSUME Placed, Records, BodiesFit, HeadersFit
    PROVE  AttemptsAlike
<1> SUFFICES ASSUME NEW i \in 1 .. (Len(sent) - 1)
             PROVE  /\ RewrittenOnce => sent[i + 1].body = sent[i].body
                    /\ \A n \in Names \ (IF Around("retry", "correlation_id") THEN {"id"} ELSE {}) :
                          sent[i + 1].headers[n] = sent[i].headers[n]
  BY Zenon DEF AttemptsAlike
<1>1. PICK Calls : sent \in Seq(Calls)
  BY DEF Records
<1>2. i \in DOMAIN sent /\ i + 1 \in DOMAIN sent
  BY <1>1
<1>3. RewrittenOnce => sent[i + 1].body = sent[i].body
  BY <1>2 DEF BodiesFit, BodyFits
<1>4. ASSUME NEW n \in Names, n # "id" \/ ~Around("retry", "correlation_id")
      PROVE  sent[i + 1].headers[n] = sent[i].headers[n]
  <2>1. HeaderSent(n)
    BY DEF HeadersFit
  <2>2. CASE Unwritten(n)
    BY <1>2, <2>1, <2>2 DEF HeaderSent
  <2>3. CASE ~Unwritten(n)
    <3>1. PICK j \in DOMAIN chain : LastWriter(j, n)
      BY <2>3, WriterExists
    <3>2. chain[j] = "correlation_id" => n = "id"
      BY <3>1 DEF LastWriter, Writes, Gives
    <3>3. ~MadeAnew(j)
      BY <1>4, <3>2 DEF MadeAnew, Outside, Around
    <3> QED
      BY <1>2, <2>1, <3>1, <3>3 DEF HeaderSent
  <2> QED
    BY <2>2, <2>3
<1> QED
  BY <1>3, <1>4

-----------------------------------------------------------------------------
ChainInv ==
    /\ Placed /\ Records
    /\ Checked /\ Announced /\ CorsChecked /\ CorsCarried /\ IdCarried /\ FailedLast
    /\ SentWasChecked /\ RepeatsOnlyFailures
    /\ Attempted /\ Counts
    /\ Typed /\ BodiesFit /\ HeadersFit

LEMMA ChainInitially == Init => ChainInv
<1> SUFFICES ASSUME Init PROVE ChainInv
  OBVIOUS
<1>1. chain \in Seq(Types) /\ \A i, j \in DOMAIN chain : chain[i] = chain[j] => i = j
  BY ChainAssumption DEF Init, IsInjective
<1>2. Placed
  BY <1>1 DEF Init, Placed
<1>3. Records
  <2>1. sent = <<>> /\ sent \in Seq({}) /\ events = 0
    BY DEF Init
  <2>2. headers = [n \in Names |-> headers[n]]
    BY DEF Init
  <2>3. result = [status |-> result.status, id |-> result.id, cors |-> result.cors]
    BY DEF Init, NoResponse, Answer
  <2> QED
    BY <2>1, <2>2, <2>3 DEF Records
<1>4. Checked /\ Announced /\ CorsChecked /\ CorsCarried /\ IdCarried
  BY <1>2 DEF Init, Placed, Checked, Announced, CorsChecked, LetBy, MarkedAt, CorsCarried, IdCarried
<1>5. SentWasChecked /\ RepeatsOnlyFailures
  BY DEF Init, SentWasChecked, RepeatsOnlyFailures
<1>6. FailedLast
  BY DEF Init, FailedLast, NoResponse, Answer
<1>7. Len(chain) \in Nat /\ DOMAIN chain = 1 .. Len(chain) /\ Attempts \in Nat
  BY <1>2, PlacesAreNumbers, ChainAssumption
<1>8. Attempted /\ Counts
  <2>1. Counted(Len(chain) + 1, 0) /\ \A i \in DOMAIN chain : Counted(i, 0)
    BY <1>7 DEF Init, Counted, CountedAt
  <2> QED
    BY <1>7, <2>1, MostMore DEF Init, Attempted, Counts
<1>9. Typed
  <2>1. Unset \in Marks
    BY DEF Marks
  <2>2. client.body \in Bodies
    BY ChainAssumption DEF Init, ClientRecords
  <2> QED
    BY <2>1, <2>2 DEF Init, Typed, Answers, NoResponse, Answer, NoCors
<1>10. BodiesFit
  BY <1>7 DEF Init, BodiesFit, BodyFits
<1>11. HeadersFit
  BY <1>7 DEF Init, HeadersFit, HeaderFits, HeaderSent, TypeHeader, Names
<1> QED
  BY <1>2, <1>3, <1>4, <1>5, <1>6, <1>8, <1>9, <1>10, <1>11 DEF ChainInv

LEMMA ChainInductive == ChainInv /\ [Next]_vars => ChainInv'
<1> SUFFICES ASSUME ChainInv, [Next]_vars PROVE ChainInv'
  OBVIOUS
<1>1. CASE Next
  <2>1. /\ Placed' /\ Records' /\ Checked' /\ Announced' /\ CorsChecked' /\ CorsCarried' /\ IdCarried' /\ FailedLast'
        /\ SentWasChecked' /\ RepeatsOnlyFailures'
    BY <1>1, PlacedStep, RecordsStep, CheckedStep, AnnouncedStep, CorsStep, CarriedStep, IdStep, FailedStep,
       SendsChecked, RepeatsFailures DEF ChainInv
  <2>2. Moves
    BY <1>1, StepMoves DEF ChainInv
  <2>3. Attempted' /\ Counts'
    BY <2>2, AttemptedStep, CountsStep DEF ChainInv
  <2>4. Typed'
    BY <1>1, TypedStep DEF ChainInv
  <2>5. BodiesFit'
    BY <2>2, BodiesStep DEF ChainInv
  <2>6. HeaderMoves
    BY <1>1, StepHeaders DEF ChainInv, HeadersFit, Names
  <2>7. HeadersFit'
    BY <2>2, <2>6, HeaderStep, HeaderSentStep DEF ChainInv, HeadersFit, HeaderMoves
  <2> QED
    BY <2>1, <2>3, <2>4, <2>5, <2>7 DEF ChainInv
<1>2. CASE UNCHANGED vars
  <2>1. Placed' /\ Checked' /\ Announced'
    BY <1>2 DEF ChainInv, vars, Placed, Checked, Announced, RewrittenAfter, Inside, Outside
  <2>2. Records' /\ CorsChecked' /\ CorsCarried' /\ IdCarried'
    BY <1>2 DEF ChainInv, vars, Records, CorsChecked, LetBy, MarkedAt, CorsSet, CorsCarried, CorsLeft,
                IdCarried, Inside, Outside, KeepsId, LastId, AllowsOrigin
  <2>3. SentWasChecked'
    BY <1>2 DEF ChainInv, vars, SentWasChecked, Has, Range, Around
  <2>4. FailedLast' /\ RepeatsOnlyFailures'
    BY <1>2 DEF ChainInv, vars, FailedLast, Repeats, RepeatsOnlyFailures,
                Has, Range
  <2>5. Attempted' /\ Counts' /\ Typed'
    BY <1>2 DEF ChainInv, vars, Attempted, Counts, Counted, CountedAt, Outside, Typed
  <2>6. BodiesFit'
    BY <1>2, SameRoute DEF ChainInv, vars, route, BodiesFit, BodyFits
  <2>7. HeadersFit'
    <3>1. /\ UNCHANGED <<route, headers, sent, at, requestId>> /\ HeadersFit /\ chain' = chain
          /\ (Rewrites' <=> Rewrites)
      BY <1>2 DEF ChainInv, vars, route, Rewrites
    <3>2. \A j, n : Written(j, n)' = Written(j, n)
      BY <3>1 DEF Written, Says, route
    <3>3. TypeHeader'
      BY <3>1 DEF HeadersFit, TypeHeader, Gives, route
    <3>4. \A n \in Names : HeaderFits(n)' /\ HeaderSent(n)'
      BY <3>1, <3>2, SameWriters DEF HeadersFit, HeaderFits, HeaderSent
    <3> QED
      BY <3>3, <3>4 DEF HeadersFit
  <2> QED
    BY <2>1, <2>2, <2>3, <2>4, <2>5, <2>6, <2>7 DEF ChainInv
<1> QED
  BY <1>1, <1>2

LEMMA ChainStands == Spec => []ChainInv
<1>1. Init => ChainInv
  BY ChainInitially
<1>2. ChainInv /\ [Next]_vars => ChainInv'
  BY ChainInductive
<1> QED
  BY <1>1, <1>2, PTL DEF Spec

(* Whatever order the plugins of a chain have, how often retry goes round  *)
(* and what they do to the body: what is sent upstream has passed          *)
(* request_size and validation as the route has them.                      *)
THEOREM ChecksBeforeSending == Spec => []SentWasChecked
<1>1. ChainInv => SentWasChecked
  BY DEF ChainInv
<1> QED
  BY <1>1, ChainStands, PTL

(* Nothing is forwarded that was not published first, and but for what     *)
(* redis-py repeats one event stands for one request, or for one attempt   *)
(* if retry is around event_bridge, for any chain.                         *)
THEOREM EventsComeFirst == Spec => []PublishedFirst
<1>1. ChainInv => PublishedFirst
  <2> SUFFICES ASSUME ChainInv, Has("event_bridge") PROVE PublishedFirst
    BY DEF PublishedFirst
  <2>1. PICK e \in DOMAIN chain : chain[e] = "event_bridge"
    BY DEF Has, Range
  <2>2. /\ Around("event_bridge", "retry") <=> Inside(e, "retry")
        /\ Around("retry", "event_bridge") <=> Outside(e, "retry")
    BY <2>1 DEF ChainInv, Placed, Around, Inside, Outside
  <2>3. PICK Calls : sent \in Seq(Calls)
    BY DEF ChainInv, Records
  <2>4. Len(sent) \in Nat /\ events \in Nat
    BY <2>3 DEF ChainInv, Records
  <2>5. /\ sent # <<>> => config.after /\ events >= 1
        /\ Inside(e, "retry") \/ events >= Len(sent)
    BY <2>1, <2>4 DEF ChainInv, Announced
  <2> DEFINE calls == IF Around("retry", "event_bridge") THEN attempt ELSE 1
  <2>6. events <= calls * (MaxRepeats + 1)
    <3>1. PICK x : Counted(e, x) /\ events <= Most(x)
      BY <2>1 DEF ChainInv, Counts
    <3>2. x \in Nat /\ calls \in Nat /\ x <= calls
      BY <2>2, <3>1, ChainAssumption DEF ChainInv, Attempted, Counted, CountedAt
    <3>3. Most(x) <= Most(calls) /\ Most(x) \in Nat /\ Most(calls) \in Nat
      BY <3>2, MostOrder, MostMore
    <3> HIDE DEF calls
    <3> QED
      BY <2>4, <3>1, <3>3 DEF Most
  <2> QED
    BY <2>2, <2>4, <2>5, <2>6 DEF PublishedFirst
<1> QED
  BY <1>1, ChainStands, PTL

(* The id and the CORS headers a client is answered with are those of the  *)
(* exchange that answer comes from, for any chain and any retries.         *)
THEOREM AnswersAreMarked == Spec => []AnswerMarked
<1>1. ChainInv => CorrelationAgrees
  <2> SUFFICES ASSUME ChainInv, Finished, Has("correlation_id"), sent # <<>>,
                      result # Error
               PROVE  /\ client.id => result.id = Given
                      /\ \/ result.id = Last(sent).headers["id"]
                         \/ /\ Around("correlation_id", "transformation")
                            /\ "id" \in config.setHeaders \cup config.removeHeaders
                         \/ Around("correlation_id", "forward_auth") /\ config.target = "id"
    BY DEF CorrelationAgrees
  <2>1. PICK c \in DOMAIN chain : chain[c] = "correlation_id"
    BY DEF Has, Range
  <2>2. /\ Around("correlation_id", "transformation") <=> Inside(c, "transformation")
        /\ Around("correlation_id", "forward_auth") <=> Inside(c, "forward_auth")
    BY <2>1 DEF ChainInv, Placed, Around, Inside
  <2>3. pc = "up" /\ at < c
    BY <2>1 DEF ChainInv, Placed, Finished
  <2> QED
    BY <2>1, <2>2, <2>3 DEF ChainInv, IdCarried, KeepsId, LastId, Last
<1>2. ChainInv => CorsAnswered
  <2> SUFFICES ASSUME ChainInv, Has("cors") PROVE CorsAnswered
    BY DEF CorsAnswered
  <2>1. PICK k \in DOMAIN chain : chain[k] = "cors"
    BY DEF Has, Range
  <2>2. Around("event_bridge", "cors") <=> Outside(k, "event_bridge")
    BY <2>1 DEF ChainInv, Placed, Around, Outside
  <2>3. Finished => pc = "up" /\ at < k
    BY <2>1 DEF ChainInv, Placed, Finished
  <2>4. LetBy(k) /\ MarkedAt(k)
    BY <2>1 DEF ChainInv, CorsChecked
  <2>5. /\ Finished /\ result # Error /\ AllowsOrigin /\ (config.after \/ ~Around("event_bridge", "cors"))
             => \A n \in CorsSet : result.cors[n] = "gateway"
        /\ sent # <<>> /\ client.origin # "none" => ~client.preflight /\ (AllowsOrigin \/ ~config.block)
    BY <2>2, <2>3, <2>4 DEF LetBy, MarkedAt
  <2>6. Finished /\ result # Error /\ sent # <<>>
             => \A n \in CorsLeft : result.cors[n] = Last(sent).cors[n]
    BY DEF ChainInv, CorsCarried, Finished, Last
  <2> QED
    BY <2>5, <2>6 DEF CorsAnswered, CorsLeft
<1>3. ChainInv => AnswerMarked
  BY <1>1, <1>2 DEF AnswerMarked
<1> QED
  BY <1>3, ChainStands, PTL

(* Every variable keeps its type, and the counters stay within the         *)
(* attempts: uuid4(), event_bridge and upstream are called at most once in *)
(* each, wherever retry stands in the chain.                                *)
THEOREM TypesKept == Spec => []TypeOK
<1>1. ChainInv => TypeOK
  BY TypesFit DEF ChainInv
<1> QED
  BY <1>1, ChainStands, PTL

(* Whatever json_rename, json_defaults and json_remove a route has and     *)
(* however often retry sends it, what goes upstream is the client's body   *)
(* as the configuration says to rewrite it.                                *)
THEOREM ClientValuesAreKept == Spec => []ClientValuesKept
<1>1. ChainInv => ClientValuesKept
  BY BodiesKept DEF ChainInv
<1> QED
  BY <1>1, ChainStands, PTL

(* Upstream is called again only when it failed in a way that retry_on     *)
(* names or raised, and with the request of the attempt before, for any    *)
(* chain and any number of attempts.                                       *)
THEOREM RetriesAreSound == Spec => []RetriesSound
<1>1. ChainInv => RetriesSound
  BY AttemptsTheSame DEF ChainInv, RetriesSound
<1> QED
  BY <1>1, ChainStands, PTL

=============================================================================
