-------------------------- MODULE SaveImport_proofs --------------------------
(***************************************************************************)
(* For any archives, any number of concurrent imports, faults and crashes:   *)
(* every archive is unpacked as it was packed and its saves are the first    *)
(* ones in it; SaveImport is type correct, no import touches a region the    *)
(* player had before or takes a save another has staged, what the game       *)
(* cannot write to is a save somebody still works on, and an import that was *)
(* alone and succeeds has put every save where it says.                      *)
(***************************************************************************)
EXTENDS SaveImport, SequenceTheorems, FiniteSetTheorems, WellFoundedInduction,
        TLAPS

-----------------------------------------------------------------------------
(* Induction, with sets instead of predicates.                               *)

NatOrder == OpToRel(<, Nat)

(* The order of the numbers as a relation.                                  *)
LEMMA NatOrderIs == \A i, j \in Nat : <<i, j>> \in NatOrder <=> i < j
BY DEF NatOrder, OpToRel

(* A set of numbers that is not empty has a least one.                      *)
LEMMA LeastNat == \A S \in SUBSET Nat : S # {} => \E n \in S : \A m \in S : n <= m
<1> SUFFICES ASSUME NEW S \in SUBSET Nat, S # {}
             PROVE  \E n \in S : \A m \in S : n <= m
  OBVIOUS
<1>1. IsWellFoundedOn(NatOrder, Nat)
  BY NatLessThanWellFounded DEF NatOrder
<1>2. PICK n \in S : \A m \in S : <<m, n>> \notin NatOrder
  BY <1>1, WFMin
<1>3. \A m \in S : n <= m
  <2> SUFFICES ASSUME NEW m \in S PROVE n <= m
    OBVIOUS
  <2>1. m \in Nat /\ n \in Nat
    OBVIOUS
  <2>2. ~ (m < n)
    BY <1>2, <2>1, NatOrderIs
  <2> QED BY <2>1, <2>2
<1> QED BY <1>3

(* A set that has 0 and, with each number below N, the next, has 0..N.      *)
LEMMA SetInduction ==
  ASSUME NEW N \in Nat, NEW S, 0 \in S, \A n \in 0..(N - 1) : n \in S => n + 1 \in S
  PROVE  0..N \subseteq S
<1> SUFFICES ASSUME ~ (0..N \subseteq S) PROVE FALSE
  OBVIOUS
<1>1. PICK n \in (0..N) \ S : \A m \in (0..N) \ S : n <= m
  <2>1. (0..N) \ S \in SUBSET Nat
    OBVIOUS
  <2> QED BY <2>1, LeastNat
<1>2. n # 0 /\ n - 1 \in 0..(N - 1) /\ n - 1 \in 0..N
  BY <1>1
<1>3. n - 1 \in S
  BY <1>1, <1>2
<1>4. (n - 1) + 1 \in S
  BY <1>2, <1>3
<1> QED BY <1>1, <1>4

-----------------------------------------------------------------------------
(* The recursive functions are what their equations say.                     *)

AfterIs(u, N, f) ==
  f = [n \in 0..N |-> IF n = 0 THEN Empty ELSE Extract(f[n - 1], u[n])]

(* A function with the equation of After exists, so CHOOSE finds it.        *)
LEMMA AfterExists == ASSUME NEW u, NEW N \in Nat PROVE \E f : AfterIs(u, N, f)
<1> DEFINE S == {n \in Nat : \E f : AfterIs(u, n, f)}
<1>1. 0 \in S
  <2> DEFINE f == [n \in 0..0 |-> Empty]
  <2>1. AfterIs(u, 0, f)
    BY DEF AfterIs
  <2> QED BY <2>1
<1>2. ASSUME NEW n \in Nat, n \in S PROVE n + 1 \in S
  <2>1. PICK f : AfterIs(u, n, f)
    BY <1>2
  <2> DEFINE g == [m \in 0..(n + 1) |-> IF m <= n THEN f[m] ELSE Extract(f[n], u[n + 1])]
  <2>2. ASSUME NEW m \in 0..(n + 1)
        PROVE  g[m] = IF m = 0 THEN Empty ELSE Extract(g[m - 1], u[m])
    <3>1. CASE m <= n
      <4>1. m \in 0..n /\ (m # 0 => m - 1 \in 0..n /\ m - 1 <= n /\ m - 1 \in 0..(n + 1))
        BY <3>1
      <4>2. f[m] = IF m = 0 THEN Empty ELSE Extract(f[m - 1], u[m])
        BY <2>1, <4>1 DEF AfterIs
      <4>3. m # 0 => g[m - 1] = f[m - 1]
        BY <4>1
      <4> QED BY <3>1, <4>1, <4>2, <4>3
    <3>2. CASE m = n + 1
      <4>1. m # 0 /\ m - 1 = n /\ n \in 0..(n + 1) /\ n <= n /\ ~ (m <= n)
        BY <3>2
      <4>2. g[n] = f[n]
        BY <4>1
      <4> QED BY <3>2, <4>1, <4>2
    <3> QED BY <3>1, <3>2
  <2>3. g = [m \in 0..(n + 1) |-> g[m]]
    OBVIOUS
  <2> HIDE DEF g
  <2>4. AfterIs(u, n + 1, g)
    BY <2>2, <2>3 DEF AfterIs
  <2> QED BY <2>4
<1> HIDE DEF S
<1>3. 0..N \subseteq S
  BY <1>1, <1>2, SetInduction
<1> QED BY <1>3 DEF S

(* Nothing is there at first, and an entry brings what Extract says.        *)
LEMMA AfterSteps ==
  ASSUME NEW u, Len(u) \in Nat
  PROVE  /\ After(u)[0] = Empty
         /\ \A n \in 0..(Len(u) - 1) : After(u)[n + 1] = Extract(After(u)[n], u[n + 1])
<1>1. AfterIs(u, Len(u), After(u))
  BY AfterExists DEF After, AfterIs
<1> HIDE DEF After
<1>2. \A n \in 0..Len(u) :
        After(u)[n] = IF n = 0 THEN Empty ELSE Extract(After(u)[n - 1], u[n])
  BY <1>1 DEF AfterIs
<1>3. \A n \in 0..(Len(u) - 1) : n + 1 \in 0..Len(u) /\ n + 1 # 0 /\ (n + 1) - 1 = n
  OBVIOUS
<1> QED BY <1>2, <1>3

TotalsAre(u, N, f) ==
  f = [n \in 0..N |-> IF n = 0 THEN 0 ELSE f[n - 1] + SizeOf(u[n])]

(* A function with the equation of Totals exists.                           *)
LEMMA TotalsExist == ASSUME NEW u, NEW N \in Nat PROVE \E f : TotalsAre(u, N, f)
<1> DEFINE S == {n \in Nat : \E f : TotalsAre(u, n, f)}
<1>1. 0 \in S
  <2> DEFINE f == [n \in 0..0 |-> 0]
  <2>1. TotalsAre(u, 0, f)
    BY DEF TotalsAre
  <2> QED BY <2>1
<1>2. ASSUME NEW n \in Nat, n \in S PROVE n + 1 \in S
  <2>1. PICK f : TotalsAre(u, n, f)
    BY <1>2
  <2> DEFINE g == [m \in 0..(n + 1) |-> IF m <= n THEN f[m] ELSE f[n] + SizeOf(u[n + 1])]
  <2>2. ASSUME NEW m \in 0..(n + 1)
        PROVE  g[m] = IF m = 0 THEN 0 ELSE g[m - 1] + SizeOf(u[m])
    <3>1. CASE m <= n
      <4>1. m \in 0..n /\ (m # 0 => m - 1 \in 0..n /\ m - 1 <= n /\ m - 1 \in 0..(n + 1))
        BY <3>1
      <4>2. f[m] = IF m = 0 THEN 0 ELSE f[m - 1] + SizeOf(u[m])
        BY <2>1, <4>1 DEF TotalsAre
      <4>3. m # 0 => g[m - 1] = f[m - 1]
        BY <4>1
      <4> QED BY <3>1, <4>1, <4>2, <4>3
    <3>2. CASE m = n + 1
      <4>1. m # 0 /\ m - 1 = n /\ n \in 0..(n + 1) /\ n <= n /\ ~ (m <= n)
        BY <3>2
      <4>2. g[n] = f[n]
        BY <4>1
      <4> QED BY <3>2, <4>1, <4>2
    <3> QED BY <3>1, <3>2
  <2>3. g = [m \in 0..(n + 1) |-> g[m]]
    OBVIOUS
  <2> HIDE DEF g
  <2>4. TotalsAre(u, n + 1, g)
    BY <2>2, <2>3 DEF TotalsAre
  <2> QED BY <2>4
<1> HIDE DEF S
<1>3. 0..N \subseteq S
  BY <1>1, <1>2, SetInduction
<1> QED BY <1>3 DEF S

(* An entry adds its size to the total.                                     *)
LEMMA TotalsStep ==
  ASSUME NEW u, Len(u) \in Nat
  PROVE  /\ Totals(u)[0] = 0
         /\ \A n \in 0..(Len(u) - 1) : Totals(u)[n + 1] = Totals(u)[n] + SizeOf(u[n + 1])
<1>1. TotalsAre(u, Len(u), Totals(u))
  BY TotalsExist DEF Totals, TotalsAre
<1> HIDE DEF Totals
<1>2. \A n \in 0..Len(u) :
        Totals(u)[n] = IF n = 0 THEN 0 ELSE Totals(u)[n - 1] + SizeOf(u[n])
  BY <1>1 DEF TotalsAre
<1>3. \A n \in 0..(Len(u) - 1) : n + 1 \in 0..Len(u) /\ n + 1 # 0 /\ (n + 1) - 1 = n
  OBVIOUS
<1> QED BY <1>2, <1>3

-----------------------------------------------------------------------------
(* Paths and their heads.                                                    *)

Path == Seq(Nat) \ {<<>>}

(* A head of a path: so long, and the same names.                           *)
LEMMA HeadIs ==
  ASSUME NEW p \in Seq(Nat), NEW n \in 1..Len(p)
  PROVE  /\ SubSeq(p, 1, n) \in Path /\ Len(SubSeq(p, 1, n)) = n
         /\ \A i \in 1..n : SubSeq(p, 1, n)[i] = p[i]
<1>1. /\ Len(p) \in Nat /\ \A i \in 1..n : p[i] \in Nat
  BY LenProperties, ElementOfSeq
<1>2. 1 \in Int /\ n \in Int /\ 1 <= n
  BY <1>1
<1>3. /\ SubSeq(p, 1, n) \in Seq(Nat) /\ Len(SubSeq(p, 1, n)) = n - 1 + 1
      /\ \A i \in 1..(n - 1 + 1) : SubSeq(p, 1, n)[i] = p[1 + i - 1]
  BY <1>1, <1>2, SubSeqProperties
<1>4. n - 1 + 1 = n /\ \A i \in 1..n : 1 + i - 1 = i
  BY <1>2
<1>5. Len(SubSeq(p, 1, n)) # 0
  BY <1>2, <1>3, <1>4
<1>6. SubSeq(p, 1, n) # <<>>
  BY <1>5, EmptySeq
<1> QED BY <1>3, <1>4, <1>6 DEF Path

(* The heads of a path are paths.                                           *)
LEMMA HeadsArePaths == ASSUME NEW p \in Seq(Nat) PROVE Heads(p) \subseteq Path
BY HeadIs DEF Heads

(* A path is a head of itself.                                              *)
LEMMA PathIsHead == ASSUME NEW p \in Path PROVE p \in Heads(p)
<1>1. p \in Seq(Nat) /\ Len(p) \in 1..Len(p)
  BY EmptySeq, LenProperties DEF Path
<1>2. SubSeq(p, 1, Len(p)) = p
  BY <1>1, SubSeqFull
<1> QED BY <1>1, <1>2 DEF Heads

(* A head of a head is a head.                                               *)
LEMMA HeadsOfHead ==
  ASSUME NEW p \in Seq(Nat), NEW h \in Heads(p)
  PROVE  Heads(h) \subseteq Heads(p)
<1>1. PICK n \in 1..Len(p) : h = SubSeq(p, 1, n)
  BY DEF Heads
<1>2. h \in Seq(Nat) /\ Len(h) = n /\ \A i \in 1..n : h[i] = p[i]
  BY <1>1, HeadIs DEF Path
<1>3. Len(p) \in Nat
  BY LenProperties
<1> SUFFICES ASSUME NEW m \in 1..Len(h) PROVE SubSeq(h, 1, m) \in Heads(p)
  BY DEF Heads
<1>4. m \in 1..Len(p) /\ m \in 1..n /\ 1..m \subseteq 1..n
  BY <1>2, <1>3
<1>5. /\ SubSeq(h, 1, m) \in Seq(Nat) /\ Len(SubSeq(h, 1, m)) = m
      /\ \A i \in 1..m : SubSeq(h, 1, m)[i] = h[i]
  BY <1>2, HeadIs DEF Path
<1>6. /\ SubSeq(p, 1, m) \in Seq(Nat) /\ Len(SubSeq(p, 1, m)) = m
      /\ \A i \in 1..m : SubSeq(p, 1, m)[i] = p[i]
  BY <1>4, HeadIs DEF Path
<1>7. SubSeq(h, 1, m) = SubSeq(p, 1, m)
  BY <1>2, <1>4, <1>5, <1>6, SeqEqual
<1> QED BY <1>4, <1>7 DEF Heads

(* A path has finitely many heads.                                          *)
LEMMA HeadsAreFinite == ASSUME NEW p \in Seq(Nat) PROVE IsFiniteSet(Heads(p))
<1> DEFINE f == [n \in 1..Len(p) |-> SubSeq(p, 1, n)]
<1>1. Len(p) \in Nat
  BY LenProperties
<1>2. f \in Surjection(1..Len(p), Heads(p))
  BY DEF Surjection, Heads
<1>3. IsFiniteSet(1..Len(p))
  BY <1>1, FS_Interval
<1> HIDE DEF f
<1> QED BY <1>2, <1>3, FS_Surjection

(* A parent is a head that is shorter, and its heads are parents, too.       *)
LEMMA HeadsOfParent ==
  ASSUME NEW p \in Path, NEW h \in Parents(p)
  PROVE  Heads(h) \subseteq Parents(p)
<1>1. p \in Seq(Nat) /\ Len(p) \in Nat
  BY LenProperties DEF Path
<1>2. PICK n \in 1..Len(p) : h = SubSeq(p, 1, n)
  BY DEF Heads, Parents
<1>3. SubSeq(p, 1, Len(p)) = p
  BY <1>1, SubSeqFull
<1>4. n < Len(p) /\ Len(h) = n /\ h \in Seq(Nat)
  <2>1. n # Len(p)
    BY <1>2, <1>3 DEF Parents
  <2>2. Len(h) = n /\ h \in Seq(Nat)
    BY <1>1, <1>2, HeadIs DEF Path
  <2> QED BY <1>1, <2>1, <2>2
<1>5. \A m \in 1..Len(h) : Len(SubSeq(h, 1, m)) < Len(p)
  BY <1>1, <1>4, HeadIs
<1>6. p \notin Heads(h)
  BY <1>1, <1>5 DEF Heads
<1> QED BY <1>1, <1>6, HeadsOfHead DEF Parents

-----------------------------------------------------------------------------
(* A step of the extraction.                                                 *)

(* A tree has these fields, and its directories have their parents.          *)
Tree(t) ==
  /\ t = [ok |-> t.ok, files |-> t.files, dirs |-> t.dirs, bytes |-> t.bytes,
          count |-> t.count]
  /\ t.ok \in BOOLEAN /\ t.files = [p \in DOMAIN t.files |-> t.files[p]]
  /\ IsFiniteSet(t.dirs) /\ t.dirs \subseteq Path
  /\ \A d \in t.dirs : Heads(d) \subseteq t.dirs

(* The directory is a tree before the first entry.                          *)
LEMMA EmptyIsTree == Tree(Empty)
BY FS_EmptySet DEF Tree, Empty

(* Directories that come with their parents keep a tree a tree.             *)
LEMMA AddsDirs ==
  ASSUME NEW t, Tree(t), NEW D, IsFiniteSet(D), D \subseteq Path,
         \A d \in D : Heads(d) \subseteq D
  PROVE  /\ IsFiniteSet(t.dirs \cup D) /\ t.dirs \cup D \subseteq Path
         /\ \A d \in t.dirs \cup D : Heads(d) \subseteq t.dirs \cup D
BY FS_Union DEF Tree

(* No entry makes it anything but a tree.                                   *)
LEMMA ExtractIsTree ==
  ASSUME NEW t, Tree(t), NEW e \in Entry
  PROVE  Tree(Extract(t, e))
<1>0. e.path \in Path /\ e.path \in Seq(Nat)
  BY DEF Entry, Path
<1>1. CASE Extract(t, e) = t
  BY <1>1
<1>2. CASE Extract(t, e) = [t EXCEPT !.ok = FALSE]
  BY <1>2 DEF Tree
<1>3. CASE Extract(t, e) = [t EXCEPT !.dirs = @ \cup Heads(e.path)]
  <2>1. /\ IsFiniteSet(Heads(e.path)) /\ Heads(e.path) \subseteq Path
        /\ \A d \in Heads(e.path) : Heads(d) \subseteq Heads(e.path)
    BY <1>0, HeadsAreFinite, HeadsArePaths, HeadsOfHead
  <2>2. /\ IsFiniteSet(t.dirs \cup Heads(e.path)) /\ t.dirs \cup Heads(e.path) \subseteq Path
        /\ \A d \in t.dirs \cup Heads(e.path) : Heads(d) \subseteq t.dirs \cup Heads(e.path)
    BY <2>1, AddsDirs
  <2> DEFINE D == t.dirs \cup Heads(e.path)
  <2>3. /\ Extract(t, e) = [t EXCEPT !.dirs = D] /\ IsFiniteSet(D) /\ D \subseteq Path
        /\ \A d \in D : Heads(d) \subseteq D
    BY <1>3, <2>2 DEF Tree
  <2> HIDE DEF D
  <2> QED BY <2>3 DEF Tree
<1>4. CASE Extract(t, e) = Written(t, e)
  <2>1. /\ IsFiniteSet(Parents(e.path)) /\ Parents(e.path) \subseteq Path
        /\ \A d \in Parents(e.path) : Heads(d) \subseteq Parents(e.path)
    <3>1. Parents(e.path) \in SUBSET Heads(e.path)
      BY DEF Parents
    <3> QED BY <1>0, <3>1, HeadsAreFinite, HeadsArePaths, HeadsOfParent, FS_Subset
  <2> DEFINE D == t.dirs \cup Parents(e.path)
             F == [p \in DOMAIN t.files \cup {e.path} |->
                     IF p = e.path THEN e.size ELSE t.files[p]]
  <2>2. IsFiniteSet(D) /\ D \subseteq Path /\ \A d \in D : Heads(d) \subseteq D
    BY <2>1, AddsDirs
  <2>3. F = [p \in DOMAIN F |-> F[p]]
    OBVIOUS
  <2>4. Extract(t, e) = [t EXCEPT !.files = F, !.dirs = D, !.bytes = t.bytes + e.size,
                                  !.count = t.count + 1]
    BY <1>4 DEF Tree, Written
  <2> HIDE DEF D, F
  <2> QED BY <2>2, <2>3, <2>4 DEF Tree
<1>5. e.type \in {"skip", "bad", "other", "dir", "file"}
  BY DEF Entry, EntryTypes
<1> QED BY <1>1, <1>2, <1>3, <1>4, <1>5 DEF Extract, Refuses

-----------------------------------------------------------------------------
(* What the first entries have brought.                                      *)

FilesIn(u, n) == {i \in 1..n : u[i].type = "file"}
PathsIn(u, n) == {u[i].path : i \in FilesIn(u, n)}
FileDirs(u, n) == UNION {Parents(p) : p \in PathsIn(u, n)}
OwnDirs(u, n) == UNION {Heads(u[i].path) : i \in {j \in 1..n : u[j].type = "dir"}}
DirsIn(u, n) == FileDirs(u, n) \cup OwnDirs(u, n)
IsLast(u, n, i) ==
  i \in FilesIn(u, n) /\ \A j \in FilesIn(u, n) : u[j].path = u[i].path => j <= i

Packed(u, n, t) ==
  /\ DOMAIN t.files = PathsIn(u, n)
  /\ \A i \in 1..n : IsLast(u, n, i) => t.files[u[i].path] = u[i].size
  /\ t.dirs = DirsIn(u, n) /\ t.dirs \cap PathsIn(u, n) = {}
  /\ t.bytes = Totals(u)[n] /\ t.bytes \in Nat /\ t.bytes <= Cap
  /\ IsFiniteSet(FilesIn(u, n)) /\ t.count = Cardinality(FilesIn(u, n))

(* What an archive may be refused for.                                       *)
Cause(u) ==
  \/ \E i \in DOMAIN u : u[i].type \in {"bad", "other"}
  \/ \E i \in FilesOf(u), j \in DOMAIN u :
       \/ u[j].type = "file" /\ u[i].path \in Parents(u[j].path)
       \/ u[j].type = "dir" /\ u[i].path \in Heads(u[j].path)
  \/ Totals(u)[Len(u)] > Cap
  \/ \E i \in FilesOf(u) : Totals(u)[i - 1] = Cap

(* The entries of an archive have their types.                              *)
LEMMA UploadIs ==
  ASSUME NEW u \in Uploads
  PROVE  /\ u \in Seq(Entry) /\ Len(u) \in Nat /\ DOMAIN u = 1..Len(u)
         /\ \A n \in 1..Len(u) : /\ u[n] \in Entry /\ u[n].path \in Path
                                 /\ u[n].path \in Seq(Nat) /\ u[n].size \in Nat
                                 /\ u[n].type \in {"skip", "bad", "other", "dir", "file"}
                                 /\ SizeOf(u[n]) \in Nat
<1>1. u \in Seq(Entry)
  BY UploadsAssumption
<1>2. Len(u) \in Nat /\ DOMAIN u = 1..Len(u)
  BY <1>1, LenProperties
<1>3. \A n \in 1..Len(u) : u[n] \in Entry
  BY <1>1, ElementOfSeq
<1> QED BY <1>1, <1>2, <1>3 DEF Entry, EntryTypes, Path, SizeOf

(* The total only grows.                                                     *)
LEMMA TotalsGrow ==
  ASSUME NEW u \in Uploads
  PROVE  \A n \in 0..Len(u) :
           Totals(u)[n] \in Nat /\ Totals(u)[n] <= Totals(u)[Len(u)]
<1>1. Len(u) \in Nat /\ \A n \in 1..Len(u) : SizeOf(u[n]) \in Nat
  BY UploadIs
<1>2. /\ Totals(u)[0] = 0
      /\ \A n \in 0..(Len(u) - 1) : Totals(u)[n + 1] = Totals(u)[n] + SizeOf(u[n + 1])
  BY <1>1, TotalsStep
<1>3. \A n \in 0..Len(u) : Totals(u)[n] \in Nat
  <2> DEFINE S == {n \in Nat : Totals(u)[n] \in Nat}
  <2>1. 0 \in S
    BY <1>2
  <2>2. \A n \in 0..(Len(u) - 1) : n \in S => n + 1 \in S
    BY <1>1, <1>2
  <2> HIDE DEF S
  <2>3. 0..Len(u) \subseteq S
    BY <1>1, <2>1, <2>2, SetInduction
  <2> QED BY <2>3 DEF S
<1>4. \A n \in 0..Len(u) : Totals(u)[n] <= Totals(u)[Len(u)]
  <2> DEFINE S == {n \in Nat : Totals(u)[Len(u) - n] <= Totals(u)[Len(u)]}
  <2>1. 0 \in S
    BY <1>1, <1>3
  <2>2. ASSUME NEW n \in 0..(Len(u) - 1), n \in S PROVE n + 1 \in S
    <3> DEFINE m == Len(u) - (n + 1)
    <3>1. m \in 0..(Len(u) - 1) /\ m + 1 = Len(u) - n /\ m + 1 \in 1..Len(u)
          /\ m \in 0..Len(u) /\ m + 1 \in 0..Len(u)
      BY <1>1
    <3>2. Totals(u)[m + 1] = Totals(u)[m] + SizeOf(u[m + 1]) /\ SizeOf(u[m + 1]) \in Nat
      BY <1>1, <1>2, <3>1
    <3>3. Totals(u)[m] \in Nat /\ Totals(u)[Len(u)] \in Nat /\ Totals(u)[m + 1] \in Nat
      BY <1>1, <1>3, <3>1
    <3>4. Totals(u)[m + 1] <= Totals(u)[Len(u)]
      BY <2>2, <3>1
    <3>5. Totals(u)[m] <= Totals(u)[Len(u)]
      BY <3>2, <3>3, <3>4
    <3>6. n + 1 \in Nat
      OBVIOUS
    <3> QED BY <3>5, <3>6
  <2> HIDE DEF S
  <2>3. 0..Len(u) \subseteq S
    BY <1>1, <2>1, <2>2, SetInduction
  <2>4. \A n \in 0..Len(u) : Len(u) - n \in 0..Len(u) /\ Len(u) - (Len(u) - n) = n
    BY <1>1
  <2>5. \A n \in S : Totals(u)[Len(u) - n] <= Totals(u)[Len(u)]
    BY DEF S
  <2>6. \A n \in 0..Len(u) : Totals(u)[Len(u) - (Len(u) - n)] <= Totals(u)[Len(u)]
    BY <2>3, <2>4, <2>5
  <2> QED BY <2>4, <2>6
<1> QED BY <1>3, <1>4

(* The next entry belongs to the files, or it does not.                      *)
LEMMA NextFiles ==
  ASSUME NEW u, NEW n \in Nat
  PROVE  FilesIn(u, n + 1) = IF u[n + 1].type = "file" THEN FilesIn(u, n) \cup {n + 1}
                             ELSE FilesIn(u, n)
<1>1. \A i : i \in 1..(n + 1) <=> i \in 1..n \/ i = n + 1
  OBVIOUS
<1> QED BY <1>1 DEF FilesIn

(* Its path belongs to their paths, or it does not.                         *)
LEMMA NextPaths ==
  ASSUME NEW u, NEW n \in Nat
  PROVE  PathsIn(u, n + 1) = IF u[n + 1].type = "file" THEN PathsIn(u, n) \cup {u[n + 1].path}
                             ELSE PathsIn(u, n)
BY NextFiles DEF PathsIn

(* Its directories come with it.                                            *)
LEMMA NextDirs ==
  ASSUME NEW u, NEW n \in Nat
  PROVE  DirsIn(u, n + 1) =
           CASE u[n + 1].type = "file" -> DirsIn(u, n) \cup Parents(u[n + 1].path)
             [] u[n + 1].type = "dir" -> DirsIn(u, n) \cup Heads(u[n + 1].path)
             [] OTHER -> DirsIn(u, n)
<1>1. FileDirs(u, n + 1) = IF u[n + 1].type = "file"
                           THEN FileDirs(u, n) \cup Parents(u[n + 1].path)
                           ELSE FileDirs(u, n)
  BY NextPaths DEF FileDirs
<1>2. OwnDirs(u, n + 1) = IF u[n + 1].type = "dir"
                          THEN OwnDirs(u, n) \cup Heads(u[n + 1].path)
                          ELSE OwnDirs(u, n)
  <2> DEFINE E(m) == {j \in 1..m : u[j].type = "dir"}
  <2>1. \A i : i \in 1..(n + 1) <=> i \in 1..n \/ i = n + 1
    OBVIOUS
  <2>2. E(n + 1) = IF u[n + 1].type = "dir" THEN E(n) \cup {n + 1} ELSE E(n)
    BY <2>1
  <2>3. /\ OwnDirs(u, n) = UNION {Heads(u[i].path) : i \in E(n)}
        /\ OwnDirs(u, n + 1) = UNION {Heads(u[i].path) : i \in E(n + 1)}
    BY DEF OwnDirs
  <2> HIDE DEF E
  <2> QED BY ZenonT(30), <2>2, <2>3
<1> QED BY <1>1, <1>2 DEF DirsIn

(* An entry that is skipped, one that is a directory, one that is a file.    *)
LEMMA SkipPacks ==
  ASSUME NEW u \in Uploads, NEW n \in 0..(Len(u) - 1), NEW t,
         u[n + 1].type = "skip", Packed(u, n, t)
  PROVE  Packed(u, n + 1, t)
<1>1. n \in Nat /\ n + 1 \in 1..Len(u) /\ SizeOf(u[n + 1]) = 0 /\ Totals(u)[n] \in Nat
  <2>1. Len(u) \in Nat
    BY UploadIs
  <2> QED BY <2>1, TotalsGrow DEF SizeOf
<1>2. Totals(u)[n + 1] = Totals(u)[n]
  BY <1>1, TotalsStep, UploadIs
<1>3. FilesIn(u, n + 1) = FilesIn(u, n) /\ PathsIn(u, n + 1) = PathsIn(u, n)
      /\ DirsIn(u, n + 1) = DirsIn(u, n)
  BY <1>1, NextFiles, NextPaths, NextDirs
<1>4. \A i : IsLast(u, n + 1, i) => i \in 1..n /\ IsLast(u, n, i)
  BY <1>3 DEF IsLast, FilesIn
<1> QED BY <1>2, <1>3, <1>4 DEF Packed

(* A directory brings its heads.                                            *)
LEMMA DirPacks ==
  ASSUME NEW u \in Uploads, NEW n \in 0..(Len(u) - 1), NEW t, Tree(t),
         u[n + 1].type = "dir", ~Refuses(t, u[n + 1]), Packed(u, n, t)
  PROVE  Packed(u, n + 1, [t EXCEPT !.dirs = @ \cup Heads(u[n + 1].path)])
<1>1. n \in Nat /\ n + 1 \in 1..Len(u) /\ SizeOf(u[n + 1]) = 0 /\ Totals(u)[n] \in Nat
  <2>1. Len(u) \in Nat
    BY UploadIs
  <2> QED BY <2>1, TotalsGrow DEF SizeOf
<1>2. Totals(u)[n + 1] = Totals(u)[n]
  BY <1>1, TotalsStep, UploadIs
<1>3. /\ FilesIn(u, n + 1) = FilesIn(u, n) /\ PathsIn(u, n + 1) = PathsIn(u, n)
      /\ DirsIn(u, n + 1) = DirsIn(u, n) \cup Heads(u[n + 1].path)
  BY <1>1, NextFiles, NextPaths, NextDirs
<1>4. \A i : IsLast(u, n + 1, i) => i \in 1..n /\ IsLast(u, n, i)
  BY <1>3 DEF IsLast, FilesIn
<1>5. Heads(u[n + 1].path) \cap DOMAIN t.files = {}
  BY DEF Refuses, Clashes
<1> DEFINE D == t.dirs \cup Heads(u[n + 1].path)
           s == [t EXCEPT !.dirs = @ \cup Heads(u[n + 1].path)]
<1>6. /\ s.files = t.files /\ s.dirs = D /\ s.bytes = t.bytes /\ s.count = t.count
  BY DEF Tree
<1>7. D = DirsIn(u, n + 1) /\ D \cap PathsIn(u, n + 1) = {}
  BY <1>3, <1>5 DEF Packed
<1> HIDE DEF D, s
<1>8. Packed(u, n + 1, s)
  BY <1>2, <1>3, <1>4, <1>6, <1>7 DEF Packed
<1> QED BY <1>8 DEF s

(* A file brings its content and its parents.                               *)
LEMMA FilePacks ==
  ASSUME NEW u \in Uploads, NEW n \in 0..(Len(u) - 1), NEW t, Tree(t),
         u[n + 1].type = "file", ~Refuses(t, u[n + 1]), Packed(u, n, t)
  PROVE  Packed(u, n + 1, Written(t, u[n + 1]))
<1> DEFINE e == u[n + 1]
           F == [p \in DOMAIN t.files \cup {e.path} |->
                   IF p = e.path THEN e.size ELSE t.files[p]]
           D == t.dirs \cup Parents(e.path)
           s == Written(t, e)
<1>1. /\ n \in Nat /\ n + 1 \in 1..Len(u) /\ n + 1 \notin 1..n
      /\ SizeOf(e) = e.size /\ e.size \in Nat /\ Totals(u)[n] \in Nat
  <2>1. Len(u) \in Nat
    BY UploadIs
  <2> QED BY <2>1, UploadIs, TotalsGrow DEF SizeOf
<1>2. Totals(u)[n + 1] = Totals(u)[n] + e.size
  BY <1>1, TotalsStep, UploadIs
<1>3. /\ FilesIn(u, n + 1) = FilesIn(u, n) \cup {n + 1}
      /\ PathsIn(u, n + 1) = PathsIn(u, n) \cup {e.path}
      /\ DirsIn(u, n + 1) = DirsIn(u, n) \cup Parents(e.path)
  BY <1>1, NextFiles, NextPaths, NextDirs
<1>4. /\ s.files = F /\ s.dirs = D /\ s.bytes = t.bytes + e.size
      /\ s.count = t.count + 1
  BY DEF Tree, Written
<1>5. /\ Parents(e.path) \cap DOMAIN t.files = {} /\ e.path \notin t.dirs
      /\ e.size <= Cap - t.bytes
  <2>1. ~OverBudget(Cap - t.bytes, e.size) /\ ~Clashes(t, e)
    BY DEF Refuses
  <2>2. Cap - t.bytes \in Int /\ e.size \in Int
    BY <1>1, CapAssumption DEF Packed
  <2> QED BY <2>1, <2>2 DEF OverBudget, Clashes
<1>6. DOMAIN F = PathsIn(u, n + 1)
  BY <1>3 DEF Packed
<1>7. \A i \in 1..(n + 1) : IsLast(u, n + 1, i) => F[u[i].path] = u[i].size
  <2> SUFFICES ASSUME NEW i \in 1..(n + 1), IsLast(u, n + 1, i)
               PROVE  F[u[i].path] = u[i].size
    OBVIOUS
  <2>1. CASE i = n + 1
    BY <2>1
  <2>2. CASE i # n + 1
    <3>1. i \in FilesIn(u, n) /\ i \in 1..n /\ i < n + 1
      BY <1>1, <1>3, <2>2 DEF IsLast, FilesIn
    <3>2. u[i].path # e.path
      <4>1. n + 1 \in FilesIn(u, n + 1)
        BY <1>3
      <4>2. e.path = u[i].path => n + 1 <= i
        BY <4>1 DEF IsLast
      <4> QED BY <1>1, <3>1, <4>2
    <3>3. IsLast(u, n, i)
      BY <1>3, <3>1 DEF IsLast
    <3>4. u[i].path \in DOMAIN t.files /\ t.files[u[i].path] = u[i].size
      BY <3>1, <3>3 DEF Packed, PathsIn
    <3> QED BY <3>2, <3>4
  <2> QED BY <2>1, <2>2
<1>8. D = DirsIn(u, n + 1) /\ D \cap PathsIn(u, n + 1) = {}
  <2>1. e.path \notin Parents(e.path)
    BY DEF Parents
  <2> QED BY <1>3, <1>5, <2>1 DEF Packed
<1>9. /\ t.bytes + e.size = Totals(u)[n + 1] /\ t.bytes + e.size \in Nat
      /\ t.bytes + e.size <= Cap
  <2>1. t.bytes = Totals(u)[n] /\ t.bytes \in Nat /\ Cap \in Nat /\ e.size \in Nat
    BY <1>1, CapAssumption DEF Packed
  <2> QED BY <1>2, <1>5, <2>1
<1>10. IsFiniteSet(FilesIn(u, n + 1)) /\ t.count + 1 = Cardinality(FilesIn(u, n + 1))
  <2>1. n + 1 \notin FilesIn(u, n)
    BY <1>1 DEF FilesIn
  <2> QED BY <1>3, <2>1, FS_AddElement DEF Packed
<1> HIDE DEF e, F, D, s
<1>11. Packed(u, n + 1, s)
  BY <1>3, <1>4, <1>6, <1>7, <1>8, <1>9, <1>10 DEF Packed
<1> QED BY <1>11 DEF s, e

(* An entry that is refused is a cause.                                      *)
LEMMA RefusedIsCause ==
  ASSUME NEW u \in Uploads, NEW n \in 0..(Len(u) - 1), NEW t,
         Refuses(t, u[n + 1]), Packed(u, n, t)
  PROVE  Cause(u)
<1> DEFINE e == u[n + 1]
<1>1. /\ Len(u) \in Nat /\ n \in 0..Len(u) /\ n + 1 \in DOMAIN u /\ 1..n \subseteq DOMAIN u
      /\ e.size \in Nat /\ (n + 1) - 1 = n /\ n + 1 \in 0..Len(u)
  BY UploadIs
<1>2. FilesIn(u, n) \subseteq FilesOf(u) /\ (e.type = "file" => n + 1 \in FilesOf(u))
  BY <1>1 DEF FilesIn, FilesOf
<1>3. CASE e.type \in {"bad", "other"}
  BY <1>1, <1>3 DEF Cause
<1>4. CASE Clashes(t, e)
  <2>1. CASE e.type = "dir" /\ Heads(e.path) \cap DOMAIN t.files # {}
    <3>1. PICK i \in FilesIn(u, n) : u[i].path \in Heads(e.path)
      BY <2>1 DEF Packed, PathsIn
    <3> QED BY <1>1, <1>2, <2>1, <3>1 DEF Cause
  <2>2. CASE e.type = "file" /\ Parents(e.path) \cap DOMAIN t.files # {}
    <3>1. PICK i \in FilesIn(u, n) : u[i].path \in Parents(e.path)
      BY <2>2 DEF Packed, PathsIn
    <3> QED BY <1>1, <1>2, <2>2, <3>1 DEF Cause
  <2>3. CASE e.type = "file" /\ e.path \in t.dirs
    <3>1. e.path \in DirsIn(u, n)
      BY <2>3 DEF Packed
    <3>2. CASE e.path \in FileDirs(u, n)
      <4>1. PICK j \in FilesIn(u, n) : e.path \in Parents(u[j].path)
        BY <3>2 DEF FileDirs, PathsIn
      <4>2. j \in DOMAIN u /\ u[j].type = "file"
        BY <1>1, <4>1 DEF FilesIn
      <4> QED BY <1>1, <1>2, <2>3, <4>1, <4>2 DEF Cause
    <3>3. CASE e.path \in OwnDirs(u, n)
      <4>1. PICK j \in 1..n : u[j].type = "dir" /\ e.path \in Heads(u[j].path)
        BY <3>3 DEF OwnDirs
      <4>2. j \in DOMAIN u
        BY <1>1
      <4> QED BY <1>1, <1>2, <2>3, <4>1, <4>2 DEF Cause
    <3> QED BY <3>1, <3>2, <3>3 DEF DirsIn
  <2> QED BY <1>4, <2>1, <2>2, <2>3 DEF Clashes
<1>5. CASE e.type = "file" /\ OverBudget(Cap - t.bytes, e.size)
  <2>1. /\ t.bytes = Totals(u)[n] /\ t.bytes \in Nat /\ t.bytes <= Cap /\ Cap \in Nat
        /\ Totals(u)[Len(u)] \in Nat /\ Totals(u)[n + 1] \in Nat
        /\ Totals(u)[n + 1] <= Totals(u)[Len(u)]
    BY <1>1, CapAssumption, TotalsGrow DEF Packed
  <2>2. CASE Cap - t.bytes <= 0
    <3>1. Totals(u)[(n + 1) - 1] = Cap
      BY <1>1, <2>1, <2>2
    <3> QED BY <1>2, <1>5, <3>1 DEF Cause
  <2>3. CASE e.size > Cap - t.bytes
    <3>1. Totals(u)[n + 1] = Totals(u)[n] + e.size
      BY <1>1, <1>5, TotalsStep DEF SizeOf
    <3>2. Totals(u)[Len(u)] > Cap
      BY <1>1, <2>1, <2>3, <3>1
    <3> QED BY <3>2 DEF Cause
  <2> QED BY <1>5, <2>2, <2>3 DEF OverBudget
<1> QED BY <1>3, <1>4, <1>5 DEF Refuses

(* What is there after each of the entries.                                  *)
Reads(u, n, t) ==
  Tree(t) /\ (t.ok => Packed(u, n, t)) /\ (~t.ok => Cause(u))

(* Whatever the next entry is, what is there is what was packed so far.     *)
LEMMA ExtractReads ==
  ASSUME NEW u \in Uploads, NEW n \in 0..(Len(u) - 1), NEW t, Reads(u, n, t)
  PROVE  Reads(u, n + 1, Extract(t, u[n + 1]))
<1> DEFINE e == u[n + 1]
<1>1. Len(u) \in Nat /\ n + 1 \in 1..Len(u)
  BY UploadIs
<1>2. e \in Entry /\ e.type \in {"skip", "bad", "other", "dir", "file"}
  BY <1>1, UploadIs
<1>3. Tree(t) /\ Tree(Extract(t, e))
  BY <1>2, ExtractIsTree DEF Reads
<1>4. CASE ~t.ok \/ e.type = "skip"
  <2>1. Extract(t, e) = t
    BY <1>4 DEF Extract, Refuses, Clashes
  <2>2. t.ok => Packed(u, n + 1, t)
    BY <1>4, SkipPacks DEF Reads
  <2> QED BY <1>3, <2>1, <2>2 DEF Reads
<1>5. CASE t.ok /\ e.type # "skip" /\ Refuses(t, e)
  <2>1. Extract(t, e) = [t EXCEPT !.ok = FALSE]
    BY <1>5 DEF Extract
  <2>2. Extract(t, e).ok = FALSE
    BY <1>3, <2>1 DEF Tree
  <2>3. Cause(u)
    BY <1>5, RefusedIsCause DEF Reads
  <2> QED BY <1>3, <2>2, <2>3 DEF Reads
<1>6. CASE t.ok /\ e.type = "dir" /\ ~Refuses(t, e)
  <2>1. Extract(t, e) = [t EXCEPT !.dirs = @ \cup Heads(e.path)]
    BY <1>6 DEF Extract
  <2>2. Extract(t, e).ok
    BY <1>3, <1>6, <2>1 DEF Tree
  <2>3. Packed(u, n + 1, Extract(t, e))
    BY <1>3, <1>6, <2>1, DirPacks DEF Reads
  <2> QED BY <1>3, <2>2, <2>3 DEF Reads
<1>7. CASE t.ok /\ e.type = "file" /\ ~Refuses(t, e)
  <2>1. Extract(t, e) = Written(t, e)
    BY <1>7 DEF Extract
  <2>2. Extract(t, e).ok
    BY <1>3, <1>7, <2>1 DEF Tree, Written
  <2>3. Packed(u, n + 1, Extract(t, e))
    BY <1>3, <1>7, <2>1, FilePacks DEF Reads
  <2> QED BY <1>3, <2>2, <2>3 DEF Reads
<1> QED BY <1>2, <1>3, <1>4, <1>5, <1>6, <1>7 DEF Refuses, Tree

(* Before the first entry that is nothing.                                  *)
LEMMA EmptyReads == ASSUME NEW u \in Uploads PROVE Reads(u, 0, Empty)
<1>1. FilesIn(u, 0) = {} /\ PathsIn(u, 0) = {} /\ DirsIn(u, 0) = {}
  <2>1. FilesIn(u, 0) = {}
    BY DEF FilesIn
  <2>2. PathsIn(u, 0) = {}
    BY <2>1 DEF PathsIn
  <2>3. FileDirs(u, 0) = {} /\ OwnDirs(u, 0) = {}
    BY <2>2 DEF FileDirs, OwnDirs
  <2> QED BY <2>1, <2>2, <2>3 DEF DirsIn
<1>2. Totals(u)[0] = 0
  BY TotalsStep, UploadIs
<1>3. Packed(u, 0, Empty)
  BY <1>1, <1>2, CapAssumption, FS_EmptySet DEF Packed, Empty
<1> QED BY <1>3, EmptyIsTree DEF Reads, Empty

(* What is there in the end is what was packed, or it was refused.          *)
LEMMA UnpackedReads ==
  ASSUME NEW u \in Uploads
  PROVE  Reads(u, Len(u), Unpacked(u))
<1> DEFINE S == {n \in Nat : Reads(u, n, After(u)[n])}
<1>1. Len(u) \in Nat
  BY UploadIs
<1>2. 0 \in S
  BY <1>1, AfterSteps, EmptyReads
<1>3. \A n \in 0..(Len(u) - 1) : n \in S => n + 1 \in S
  BY <1>1, AfterSteps, ExtractReads
<1> HIDE DEF S
<1>4. 0..Len(u) \subseteq S
  BY <1>1, <1>2, <1>3, SetInduction
<1>5. Len(u) \in S
  BY <1>1, <1>4
<1> QED BY <1>5 DEF S, Unpacked

(* Of the entries for a path one is the last.                                *)
LEMMA LastOfIs ==
  ASSUME NEW u \in Uploads, NEW p \in PathsIn(u, Len(u))
  PROVE  /\ LastOf(u, p) \in 1..Len(u) /\ u[LastOf(u, p)].path = p
         /\ IsLast(u, Len(u), LastOf(u, p))
<1>1. Len(u) \in Nat /\ DOMAIN u = 1..Len(u) /\ FilesOf(u) = FilesIn(u, Len(u))
  BY UploadIs DEF FilesOf, FilesIn
<1> DEFINE S == {k \in 0..Len(u) : Len(u) - k \in FilesOf(u) /\ u[Len(u) - k].path = p}
<1>2. PICK i \in FilesOf(u) : u[i].path = p
  BY <1>1 DEF PathsIn
<1>3. i \in 1..Len(u) /\ Len(u) - i \in 0..Len(u) /\ Len(u) - (Len(u) - i) = i
  BY <1>1, <1>2 DEF FilesOf
<1>4. Len(u) - i \in S
  BY <1>2, <1>3
<1>5. PICK k \in S : \A m \in S : k <= m
  <2>1. S \in SUBSET Nat
    BY <1>1
  <2> HIDE DEF S
  <2> QED BY <1>4, <2>1, LeastNat
<1> DEFINE l == Len(u) - k
<1>6. l \in FilesOf(u) /\ u[l].path = p
  OBVIOUS
<1>7. \A j \in FilesOf(u) : u[j].path = p => j <= l
  <2> SUFFICES ASSUME NEW j \in FilesOf(u), u[j].path = p PROVE j <= l
    OBVIOUS
  <2>1. j \in 1..Len(u)
    BY <1>1 DEF FilesOf
  <2>2. Len(u) - j \in 0..Len(u) /\ Len(u) - (Len(u) - j) = j
    BY <1>1, <2>1
  <2>3. Len(u) - j \in S
    BY <2>2
  <2>4. k <= Len(u) - j /\ k \in 0..Len(u)
    BY <1>5, <2>3
  <2> HIDE DEF S
  <2> QED BY <1>1, <2>1, <2>4
<1> HIDE DEF l, S
<1>8. /\ LastOf(u, p) \in FilesOf(u) /\ u[LastOf(u, p)].path = p
      /\ \A j \in FilesOf(u) : u[j].path = p => j <= LastOf(u, p)
  BY <1>6, <1>7 DEF LastOf
<1> QED BY <1>1, <1>8 DEF IsLast, FilesOf

(* An archive that is accepted is there as it was packed.                   *)
LEMMA UploadsAsPacked == ASSUME NEW u \in Uploads PROVE AcceptedAsPacked(u)
<1> DEFINE t == Unpacked(u)
<1> SUFFICES ASSUME t.ok
             PROVE  /\ t.files = [p \in PathsOf(u) |-> u[LastOf(u, p)].size]
                    /\ t.dirs = ParentsOf(u) \cup DirsOf(u) /\ t.dirs \cap PathsOf(u) = {}
                    /\ t.bytes = Totals(u)[Len(u)] /\ t.bytes <= Cap
                    /\ t.count = Cardinality(FilesOf(u))
  BY DEF AcceptedAsPacked
<1>1. Tree(t) /\ Packed(u, Len(u), t)
  BY UnpackedReads DEF Reads
<1>2. Len(u) \in Nat /\ DOMAIN u = 1..Len(u) /\ FilesOf(u) = FilesIn(u, Len(u))
  BY UploadIs DEF FilesOf, FilesIn
<1>3. PathsOf(u) = PathsIn(u, Len(u))
  BY <1>2 DEF PathsIn, PathsOf
<1> HIDE DEF t
<1>4. t.files = [p \in PathsOf(u) |-> u[LastOf(u, p)].size]
  <2>1. t.files = [p \in PathsOf(u) |-> t.files[p]]
    BY <1>1, <1>3 DEF Tree, Packed
  <2>2. ASSUME NEW p \in PathsOf(u) PROVE t.files[p] = u[LastOf(u, p)].size
    <3>1. /\ LastOf(u, p) \in 1..Len(u) /\ u[LastOf(u, p)].path = p
          /\ IsLast(u, Len(u), LastOf(u, p))
      BY <1>3, LastOfIs
    <3> QED BY <1>1, <3>1 DEF Packed
  <2> QED BY <2>1, <2>2
<1>5. DirsIn(u, Len(u)) = ParentsOf(u) \cup DirsOf(u)
  <2>1. FileDirs(u, Len(u)) = ParentsOf(u)
    BY <1>3 DEF FileDirs, ParentsOf
  <2>2. OwnDirs(u, Len(u)) = DirsOf(u)
    BY <1>2 DEF OwnDirs, DirsOf
  <2> QED BY <2>1, <2>2 DEF DirsIn
<1> QED BY <1>1, <1>2, <1>3, <1>4, <1>5 DEF Packed

(* An archive is refused for a cause only.                                  *)
LEMMA UploadsForCause == ASSUME NEW u \in Uploads PROVE RefusedForCause(u)
BY UnpackedReads DEF Reads, RefusedForCause, Cause

-----------------------------------------------------------------------------
(* The search for the saves.                                                 *)

FindIs(t, N, f) == f = [depth \in 0..N |-> FoundAt(t, depth, f[depth - 1])]

(* A function with the equation of Find exists.                             *)
LEMMA FindExists == ASSUME NEW t, NEW N \in Nat PROVE \E f : FindIs(t, N, f)
<1> DEFINE S == {n \in Nat : \E f : FindIs(t, n, f)}
<1>0. \A g, h : FoundAt(t, 0, g) = FoundAt(t, 0, h)
  <2> SUFFICES ASSUME NEW g, NEW h PROVE FoundAt(t, 0, g) = FoundAt(t, 0, h)
    OBVIOUS
  <2>1. \A d : [n \in {} |-> g[Append(d, n)]] = [n \in {} |-> h[Append(d, n)]]
    OBVIOUS
  <2> QED BY <2>1 DEF FoundAt
<1>1. 0 \in S
  <2> DEFINE f == [k \in 0..0 |-> FoundAt(t, 0, {})]
  <2>1. f = [k \in 0..0 |-> FoundAt(t, k, f[k - 1])]
    <3>1. \A k \in 0..0 : k = 0
      OBVIOUS
    <3> QED BY <1>0, <3>1
  <2>2. FindIs(t, 0, f)
    BY <2>1 DEF FindIs
  <2> QED BY <2>2
<1>2. ASSUME NEW n \in Nat, n \in S PROVE n + 1 \in S
  <2>1. PICK f : FindIs(t, n, f)
    BY <1>2
  <2> DEFINE g == [k \in 0..(n + 1) |-> IF k <= n THEN f[k] ELSE FoundAt(t, n + 1, f[n])]
  <2>2. f = [k \in 0..n |-> FoundAt(t, k, f[k - 1])]
    BY <2>1 DEF FindIs
  <2>3. ASSUME NEW k \in 0..(n + 1)
        PROVE  g[k] = FoundAt(t, k, g[k - 1])
    <3>1. CASE k <= n /\ k # 0
      <4>1. k \in 0..n /\ k - 1 \in 0..n /\ k - 1 <= n /\ k - 1 \in 0..(n + 1)
        BY <3>1
      <4> QED BY <2>2, <3>1, <4>1
    <3>2. CASE k = n + 1
      <4>1. k - 1 = n /\ n \in 0..(n + 1) /\ n <= n /\ ~ (k <= n)
        BY <3>2
      <4>2. g[n] = f[n]
        BY <4>1
      <4> QED BY <3>2, <4>1, <4>2
    <3>3. CASE k = 0
      <4>1. k \in 0..n /\ k <= n
        BY <3>3
      <4>2. g[k] = FoundAt(t, k, f[k - 1])
        BY <2>2, <4>1
      <4>3. FoundAt(t, k, f[k - 1]) = FoundAt(t, k, g[k - 1])
        BY <1>0, <3>3
      <4> QED BY <4>2, <4>3
    <3> QED BY <3>1, <3>2, <3>3
  <2>4. g = [k \in 0..(n + 1) |-> g[k]]
    OBVIOUS
  <2> HIDE DEF g
  <2>5. g = [k \in 0..(n + 1) |-> FoundAt(t, k, g[k - 1])]
    BY <2>3, <2>4
  <2>6. FindIs(t, n + 1, g)
    BY <2>5 DEF FindIs
  <2> QED BY <2>6
<1> HIDE DEF S
<1>3. 0..N \subseteq S
  BY <1>1, <1>2, SetInduction
<1> QED BY <1>3 DEF S

(* What is found with so many levels to go depends on one level less.       *)
LEMMA FindSteps ==
  ASSUME NEW t, NEW k \in 0..MaxDepth, NEW d \in t.dirs \cup {<<>>}
  PROVE  Find(t)[k][d] = Found(t, d, [n \in IF k = 0 THEN {} ELSE Names(t, d) |->
                                        Find(t)[k - 1][Append(d, n)]])
<1>1. FindIs(t, MaxDepth, Find(t))
  BY FindExists, MaxDepthAssumption DEF Find, FindIs
<1> HIDE DEF Find
<1>2. Find(t)[k] = FoundAt(t, k, Find(t)[k - 1])
  BY <1>1 DEF FindIs
<1> QED BY <1>2 DEF FoundAt

(* The names in a directory.                                                 *)
LEMMA AppendIs ==
  ASSUME NEW d \in Seq(Nat), NEW n \in Nat
  PROVE  /\ Append(d, n) \in Seq(Nat) /\ Len(Append(d, n)) = Len(d) + 1
         /\ Append(d, n)[Len(d) + 1] = n /\ Len(d) \in Nat
         /\ \A i \in 1..Len(d) : Append(d, n)[i] = d[i]
BY AppendProperties, LenProperties

(* A name is in a directory when the directory of that name is there.       *)
LEMMA NamesAre ==
  ASSUME NEW t, Tree(t), NEW d \in Seq(Nat)
  PROVE  \A n : n \in Names(t, d) <=> n \in Nat /\ Append(d, n) \in t.dirs
<1>1. ASSUME NEW n \in Names(t, d) PROVE n \in Nat /\ Append(d, n) \in t.dirs
  <2>1. PICK q \in t.dirs : q = Append(d, q[Len(q)]) /\ n = q[Len(q)]
    BY DEF Names
  <2>2. q \in Seq(Nat) /\ Len(q) \in 1..Len(q)
    BY EmptySeq, LenProperties DEF Tree, Path
  <2>3. q[Len(q)] \in Nat
    BY <2>2, ElementOfSeq
  <2> QED BY <2>1, <2>3
<1>2. ASSUME NEW n \in Nat, Append(d, n) \in t.dirs PROVE n \in Names(t, d)
  <2>1. Append(d, n)[Len(Append(d, n))] = n
    BY AppendIs
  <2> QED BY <1>2, <2>1 DEF Names
<1> QED BY <1>1, <1>2

(* No two directories come before each other.                                *)
LEMMA BeforeIsStrict ==
  ASSUME NEW d \in Seq(Nat), NEW e \in Seq(Nat), Before(d, e), Before(e, d)
  PROVE  FALSE
<1>1. /\ Len(d) \in Nat /\ Len(e) \in Nat /\ DOMAIN d = 1..Len(d) /\ DOMAIN e = 1..Len(e)
      /\ \A n \in 1..Len(d) : d[n] \in Nat
      /\ \A n \in 1..Len(e) : e[n] \in Nat
  BY LenProperties, ElementOfSeq
<1>2. ASSUME NEW a \in {d, e}, NEW b \in {d, e},
             Len(a) < Len(b), Alike(a, b, Len(a)), Before(b, a)
      PROVE  FALSE
  <2>1. PICK n \in DOMAIN b \cap DOMAIN a : b[n] < a[n]
    BY <1>1, <1>2 DEF Before
  <2>2. n \in 1..Len(a) /\ a[n] \in Nat
    BY <1>1, <2>1
  <2> QED BY <1>2, <2>1, <2>2 DEF Alike
<1>3. ASSUME NEW n \in 1..Len(d), n \in 1..Len(e), d[n] < e[n], Alike(d, e, n - 1),
             NEW m \in 1..Len(d), m \in 1..Len(e), e[m] < d[m], Alike(e, d, m - 1)
      PROVE  FALSE
  <2>1. CASE n < m
    <3>1. n \in 1..(m - 1) /\ d[n] \in Nat
      BY <1>1, <2>1
    <3> QED BY <1>3, <3>1 DEF Alike
  <2>2. CASE m < n
    <3>1. m \in 1..(n - 1) /\ d[m] \in Nat
      BY <1>1, <2>2
    <3> QED BY <1>3, <3>1 DEF Alike
  <2>3. CASE n = m
    <3>1. d[n] \in Nat /\ e[n] \in Nat
      BY <1>1, <1>3
    <3> QED BY <1>3, <2>3, <3>1
  <2> QED BY <1>1, <2>1, <2>2, <2>3
<1>4. (\E n \in DOMAIN d \cap DOMAIN e : d[n] < e[n] /\ Alike(d, e, n - 1))
      \/ (Len(d) < Len(e) /\ Alike(d, e, Len(d)))
  BY DEF Before
<1>5. (\E n \in DOMAIN e \cap DOMAIN d : e[n] < d[n] /\ Alike(e, d, n - 1))
      \/ (Len(e) < Len(d) /\ Alike(e, d, Len(e)))
  BY DEF Before
<1> QED BY <1>1, <1>2, <1>3, <1>4, <1>5

(* The directories of a set that come before all others: one at most.        *)
FirstOf(S) == {d \in S : \A e \in S \ {d} : Before(d, e)}

(* One that comes before all the others is the first.                       *)
LEMMA FirstOfIs ==
  ASSUME NEW S \in SUBSET Seq(Nat), NEW r \in S, \A e \in S \ {r} : Before(r, e)
  PROVE  FirstOf(S) = {r}
<1>1. ASSUME NEW d \in FirstOf(S), d # r PROVE FALSE
  <2>1. Before(d, r) /\ Before(r, d) /\ d \in Seq(Nat) /\ r \in Seq(Nat)
    BY <1>1 DEF FirstOf
  <2> QED BY <2>1, BeforeIsStrict
<1> QED BY <1>1 DEF FirstOf

(* The directories with saves from d on, k levels deep.                      *)
Beneath(t, d, k) ==
  {e \in t.dirs \cup {<<>>} : /\ Len(d) <= Len(e) /\ Len(e) <= Len(d) + k
                              /\ Alike(d, e, Len(d)) /\ SavesIn(t, e) # {}}

(* What is beneath a directory is it, or beneath one of its own.            *)
LEMMA BeneathIs ==
  ASSUME NEW t, Tree(t), NEW d \in t.dirs \cup {<<>>}, NEW k \in Nat
  PROVE  /\ d \in Seq(Nat) /\ Len(d) \in Nat /\ Beneath(t, d, k) \subseteq Seq(Nat)
         /\ \A e \in Beneath(t, d, k) :
              e # d => Len(d) < Len(e) /\ SubSeq(e, 1, Len(d) + 1) \in t.dirs
<1>1. /\ t.dirs \cup {<<>>} \subseteq Seq(Nat)
      /\ \A e \in t.dirs \cup {<<>>} : Len(e) \in Nat
  BY EmptySeq, LenProperties DEF Tree, Path
<1>2. Beneath(t, d, k) \subseteq Seq(Nat)
  BY <1>1 DEF Beneath
<1>3. ASSUME NEW e \in Beneath(t, d, k), e # d
      PROVE  Len(d) < Len(e) /\ SubSeq(e, 1, Len(d) + 1) \in t.dirs
  <2>1. e \in Seq(Nat) /\ d \in Seq(Nat) /\ Len(d) \in Nat /\ Len(e) \in Nat
        /\ Len(d) <= Len(e) /\ \A i \in 1..Len(d) : d[i] = e[i]
    BY <1>1, <1>3 DEF Beneath, Alike
  <2>2. Len(d) # Len(e)
    BY <1>3, <2>1, SeqEqual
  <2>3. e # <<>> /\ e \in t.dirs
    BY <2>1, <2>2, EmptySeq DEF Beneath
  <2>4. SubSeq(e, 1, Len(d) + 1) \in Heads(e)
    <3>1. Len(d) + 1 \in 1..Len(e)
      BY <2>1, <2>2
    <3> QED BY <3>1 DEF Heads
  <2> QED BY <2>1, <2>2, <2>3, <2>4 DEF Tree
<1> QED BY <1>1, <1>2, <1>3

(* What is beneath a directory, and not itself, is beneath one of its own.   *)
LEMMA BeneathSplits ==
  ASSUME NEW t, Tree(t), NEW d \in t.dirs \cup {<<>>}, NEW k \in Nat \ {0}
  PROVE  /\ \A n \in Names(t, d) :
              /\ Append(d, n) \in t.dirs
              /\ Beneath(t, Append(d, n), k - 1) \subseteq Beneath(t, d, k)
              /\ \A e \in Beneath(t, Append(d, n), k - 1) :
                   /\ Len(d) + 1 \in DOMAIN e /\ e[Len(d) + 1] = n
                   /\ Alike(d, e, Len(d))
         /\ \A e \in Beneath(t, d, k) :
              e # d => \E n \in Names(t, d) : e \in Beneath(t, Append(d, n), k - 1)
<1>0. d \in Seq(Nat) /\ Len(d) \in Nat
  BY BeneathIs
<1>1. ASSUME NEW n \in Names(t, d)
      PROVE  /\ Append(d, n) \in t.dirs
             /\ \A e \in Beneath(t, Append(d, n), k - 1) :
                  /\ e \in Beneath(t, d, k)
                  /\ Len(d) + 1 \in DOMAIN e /\ e[Len(d) + 1] = n
                  /\ Alike(d, e, Len(d))
  <2>1. Append(d, n) \in t.dirs /\ n \in Nat
    BY <1>0, NamesAre
  <2>2. /\ Len(Append(d, n)) = Len(d) + 1 /\ Append(d, n)[Len(d) + 1] = n
        /\ \A i \in 1..Len(d) : Append(d, n)[i] = d[i]
    BY <1>0, <2>1, AppendIs
  <2> SUFFICES ASSUME NEW e \in Beneath(t, Append(d, n), k - 1)
               PROVE  /\ e \in Beneath(t, d, k)
                      /\ Len(d) + 1 \in DOMAIN e /\ e[Len(d) + 1] = n
                      /\ Alike(d, e, Len(d))
    BY <2>1
  <2>3. k - 1 \in Nat
    OBVIOUS
  <2>4. e \in Seq(Nat)
    BY <2>1, <2>3, BeneathIs
  <2>5. Len(e) \in Nat /\ DOMAIN e = 1..Len(e)
    BY <2>4, LenProperties
  <2>6. /\ Len(d) + 1 <= Len(e) /\ Len(e) <= Len(d) + 1 + (k - 1)
        /\ SavesIn(t, e) # {} /\ e \in t.dirs \cup {<<>>}
        /\ \A i \in 1..(Len(d) + 1) : Append(d, n)[i] = e[i]
    BY <2>2 DEF Beneath, Alike
  <2>7. Len(d) + 1 \in 1..(Len(d) + 1) /\ 1..Len(d) \subseteq 1..(Len(d) + 1)
    BY <1>0
  <2>8. e[Len(d) + 1] = n /\ \A i \in 1..Len(d) : d[i] = e[i]
    BY <2>2, <2>6, <2>7
  <2>9. Len(d) <= Len(e) /\ Len(e) <= Len(d) + k /\ Len(d) + 1 \in 1..Len(e)
    BY <1>0, <2>5, <2>6
  <2> QED BY <2>5, <2>6, <2>8, <2>9 DEF Beneath, Alike
<1>2. ASSUME NEW e \in Beneath(t, d, k), e # d
      PROVE  \E n \in Names(t, d) : e \in Beneath(t, Append(d, n), k - 1)
  <2>1. /\ e \in Seq(Nat) /\ Len(d) < Len(e)
        /\ SubSeq(e, 1, Len(d) + 1) \in t.dirs
    BY <1>2, BeneathIs
  <2>2. Len(e) \in Nat /\ Len(d) + 1 \in 1..Len(e) /\ e[Len(d) + 1] \in Nat
    BY <1>0, <2>1, LenProperties, ElementOfSeq
  <2>3. /\ Len(e) <= Len(d) + k /\ SavesIn(t, e) # {} /\ e \in t.dirs \cup {<<>>}
        /\ \A i \in 1..Len(d) : d[i] = e[i]
    BY DEF Beneath, Alike
  <2> DEFINE n == e[Len(d) + 1]
             h == SubSeq(e, 1, Len(d) + 1)
  <2>4. /\ h \in Seq(Nat) /\ Len(h) = Len(d) + 1
        /\ \A i \in 1..(Len(d) + 1) : h[i] = e[i]
    BY <2>1, <2>2, HeadIs DEF Path
  <2>5. /\ Append(d, n) \in Seq(Nat) /\ Len(Append(d, n)) = Len(d) + 1
        /\ Append(d, n)[Len(d) + 1] = n
        /\ \A i \in 1..Len(d) : Append(d, n)[i] = d[i]
    BY <1>0, <2>2, AppendIs
  <2> HIDE DEF h
  <2>6. \A i \in 1..(Len(d) + 1) : Append(d, n)[i] = e[i]
    <3>1. \A i \in 1..(Len(d) + 1) : i \in 1..Len(d) \/ i = Len(d) + 1
      BY <1>0
    <3> QED BY <2>3, <2>5, <3>1
  <2>7. h = Append(d, n)
    BY <2>4, <2>5, <2>6, SeqEqual
  <2>8. n \in Names(t, d)
    BY <1>0, <2>1, <2>2, <2>7, NamesAre DEF h
  <2>9. Len(d) + 1 <= Len(e) /\ Len(e) <= (Len(d) + 1) + (k - 1)
    BY <1>0, <2>2, <2>3
  <2> HIDE DEF n
  <2>10. e \in Beneath(t, Append(d, n), k - 1)
    BY <2>3, <2>5, <2>6, <2>9 DEF Beneath, Alike
  <2> QED BY <2>8, <2>10
<1> QED BY <1>1, <1>2

(* What is found in a directory is the first one beneath it.                 *)
FindsFirst(t, k) ==
  \A d \in t.dirs \cup {<<>>} :
    /\ Find(t)[k][d] = FirstOf(Beneath(t, d, k))
    /\ Beneath(t, d, k) # {} => Find(t)[k][d] # {}

(* The least of some names is one of them, and least.                       *)
LEMMA LeastIs ==
  ASSUME NEW S \in SUBSET Nat, S # {}
  PROVE  Least(S) \in S /\ \A m \in S : Least(S) <= m
BY LeastNat DEF Least

(* It is the directory itself, if that has saves.                            *)
LEMMA FoundHere ==
  ASSUME NEW t, Tree(t), NEW d \in t.dirs \cup {<<>>}, NEW k \in Nat, SavesIn(t, d) # {}
  PROVE  FirstOf(Beneath(t, d, k)) = {d}
<1>1. d \in Seq(Nat) /\ Len(d) \in Nat /\ Beneath(t, d, k) \subseteq Seq(Nat)
  BY BeneathIs
<1>2. d \in Beneath(t, d, k)
  <2>1. Len(d) <= Len(d) /\ Len(d) <= Len(d) + k
    BY <1>1
  <2> QED BY <2>1 DEF Beneath, Alike
<1>3. \A e \in Beneath(t, d, k) \ {d} : Before(d, e)
  BY BeneathIs DEF Beneath, Before
<1> QED BY <1>1, <1>2, <1>3, FirstOfIs

(* One level more finds the first directory one level deeper.               *)
LEMMA FindStep ==
  ASSUME NEW t, Tree(t), NEW k \in 0..MaxDepth, k # 0 => FindsFirst(t, k - 1)
  PROVE  FindsFirst(t, k)
<1> SUFFICES ASSUME NEW d \in t.dirs \cup {<<>>}
             PROVE  /\ Find(t)[k][d] = FirstOf(Beneath(t, d, k))
                    /\ Beneath(t, d, k) # {} => Find(t)[k][d] # {}
  BY DEF FindsFirst
<1> DEFINE below == [n \in IF k = 0 THEN {} ELSE Names(t, d) |->
                       Find(t)[k - 1][Append(d, n)]]
           hits == {n \in DOMAIN below : below[n] # {}}
<1>0. k \in Nat /\ d \in Seq(Nat) /\ Len(d) \in Nat /\ Beneath(t, d, k) \subseteq Seq(Nat)
  BY BeneathIs, MaxDepthAssumption
<1>1. Find(t)[k][d] = IF SavesIn(t, d) # {} THEN {d}
                      ELSE IF hits = {} THEN {} ELSE below[Least(hits)]
  <2>1. Find(t)[k][d] = Found(t, d, below)
    BY FindSteps
  <2> HIDE DEF below
  <2>2. Found(t, d, below) = IF SavesIn(t, d) # {} THEN {d}
                             ELSE IF hits = {} THEN {} ELSE below[Least(hits)]
    BY DEF Found
  <2> QED BY <2>1, <2>2
<1>2. CASE SavesIn(t, d) # {}
  BY <1>0, <1>1, <1>2, FoundHere
<1>3. CASE SavesIn(t, d) = {} /\ k = 0
  <2>1. hits = {}
    BY <1>3
  <2>2. Beneath(t, d, k) = {}
    <3> SUFFICES ASSUME NEW e \in Beneath(t, d, k) PROVE FALSE
      OBVIOUS
    <3>1. e # d
      BY <1>3 DEF Beneath
    <3>2. Len(d) < Len(e) /\ Len(e) <= Len(d) + k /\ e \in Seq(Nat)
      BY <1>0, <3>1, BeneathIs DEF Beneath
    <3>3. Len(e) \in Nat
      BY <3>2, LenProperties
    <3> QED BY <1>0, <1>3, <3>2, <3>3
  <2> HIDE DEF hits
  <2> QED BY <1>1, <1>3, <2>1, <2>2 DEF FirstOf
<1>4. CASE SavesIn(t, d) = {} /\ k # 0
  <2>1. k \in Nat \ {0} /\ k - 1 \in Nat /\ FindsFirst(t, k - 1)
    BY <1>0, <1>4
  <2>2. \A n \in Names(t, d) : n \in Nat /\ Append(d, n) \in t.dirs
    BY <1>0, NamesAre
  <2>3. DOMAIN below = Names(t, d)
    BY <1>4
  <2>4. \A n \in Names(t, d) :
          /\ below[n] = FirstOf(Beneath(t, Append(d, n), k - 1))
          /\ below[n] # {} <=> Beneath(t, Append(d, n), k - 1) # {}
    <3> SUFFICES ASSUME NEW n \in Names(t, d)
                 PROVE  /\ below[n] = FirstOf(Beneath(t, Append(d, n), k - 1))
                        /\ below[n] # {} <=> Beneath(t, Append(d, n), k - 1) # {}
      OBVIOUS
    <3>1. below[n] = Find(t)[k - 1][Append(d, n)]
      BY <1>4
    <3>2. Append(d, n) \in t.dirs \cup {<<>>}
      BY <2>2
    <3> HIDE DEF below
    <3> QED BY <2>1, <3>1, <3>2 DEF FindsFirst, FirstOf
  <2>5. hits = {n \in Names(t, d) : Beneath(t, Append(d, n), k - 1) # {}}
    <3> HIDE DEF below
    <3> QED BY <2>3, <2>4
  <2> HIDE DEF below, hits
  <2>6. \A e \in Beneath(t, d, k) :
          \E n \in hits : e \in Beneath(t, Append(d, n), k - 1)
    <3>1. \A e \in Beneath(t, d, k) : e # d
      BY <1>4 DEF Beneath
    <3>2. \A e \in Beneath(t, d, k) :
            \E n \in Names(t, d) : e \in Beneath(t, Append(d, n), k - 1)
      BY <2>1, <3>1, BeneathSplits
    <3> QED BY <2>5, <3>2
  <2>7. CASE hits = {}
    <3>1. Beneath(t, d, k) = {}
      BY <2>6, <2>7
    <3> QED BY <1>1, <1>4, <2>7, <3>1 DEF FirstOf
  <2>8. CASE hits # {}
    <3> DEFINE m == Least(hits)
    <3>1. hits \in SUBSET Nat
      BY <2>2, <2>5
    <3>2. m \in hits /\ \A n \in hits : m <= n
      BY <2>8, <3>1, LeastIs
    <3> HIDE DEF m
    <3>3. /\ m \in Names(t, d) /\ m \in Nat /\ Append(d, m) \in t.dirs
          /\ below[m] = FirstOf(Beneath(t, Append(d, m), k - 1)) /\ below[m] # {}
      BY <2>2, <2>4, <2>5, <3>2
    <3>4. PICK r \in FirstOf(Beneath(t, Append(d, m), k - 1)) : TRUE
      BY <3>3
    <3>5. /\ r \in Beneath(t, d, k) /\ Len(d) + 1 \in DOMAIN r /\ r[Len(d) + 1] = m
          /\ Alike(d, r, Len(d))
      BY <2>1, <3>3, BeneathSplits DEF FirstOf
    <3>6. ASSUME NEW e \in Beneath(t, d, k) \ {r} PROVE Before(r, e)
      <4>1. PICK n \in hits : e \in Beneath(t, Append(d, n), k - 1)
        BY <2>6
      <4>2. /\ Len(d) + 1 \in DOMAIN e /\ e[Len(d) + 1] = n /\ Alike(d, e, Len(d))
            /\ n \in Nat
        BY <2>1, <2>2, <2>5, <4>1, BeneathSplits
      <4>3. CASE n = m
        BY <4>1, <4>3, <3>4 DEF FirstOf
      <4>4. CASE n # m
        <5>1. m < n
          BY <3>2, <3>3, <4>2, <4>4
        <5>2. Alike(r, e, (Len(d) + 1) - 1)
          <6>1. (Len(d) + 1) - 1 = Len(d)
            BY <1>0
          <6> QED BY <3>5, <4>2, <6>1 DEF Alike
        <5> QED BY <3>5, <4>2, <5>1, <5>2 DEF Before
      <4> QED BY <4>3, <4>4
    <3>7. FirstOf(Beneath(t, d, k)) = {r}
      BY <1>0, <3>5, <3>6, FirstOfIs
    <3>8. FirstOf(Beneath(t, Append(d, m), k - 1)) = {r}
      <4>1. Beneath(t, Append(d, m), k - 1) \in SUBSET Seq(Nat)
        BY <2>1, <3>3, BeneathIs
      <4> QED BY <3>4, <4>1, FirstOfIs DEF FirstOf
    <3> QED BY <1>1, <1>4, <2>8, <3>3, <3>7, <3>8 DEF m
  <2> QED BY <2>7, <2>8
<1> QED BY <1>2, <1>3, <1>4

(* The search finds the first directory that has saves.                     *)
LEMMA SaveRootIsFirst ==
  ASSUME NEW t, Tree(t)
  PROVE  SaveRoot(t) = FirstOf({d \in t.dirs \cup {<<>>} :
                                  Len(d) <= MaxDepth /\ SavesIn(t, d) # {}})
<1> DEFINE S == {k \in Nat : FindsFirst(t, k)}
           roots == {d \in t.dirs \cup {<<>>} : Len(d) <= MaxDepth /\ SavesIn(t, d) # {}}
<1>1. MaxDepth \in Nat
  BY MaxDepthAssumption
<1>2. 0 \in S
  BY <1>1, FindStep
<1>3. \A k \in 0..(MaxDepth - 1) : k \in S => k + 1 \in S
  <2> SUFFICES ASSUME NEW k \in 0..(MaxDepth - 1), k \in S PROVE k + 1 \in S
    OBVIOUS
  <2>1. k + 1 \in 0..MaxDepth /\ (k + 1) - 1 = k /\ k + 1 \in Nat
    BY <1>1
  <2>2. FindsFirst(t, k + 1)
    BY <2>1, FindStep
  <2> QED BY <2>1, <2>2
<1> HIDE DEF S
<1>4. MaxDepth \in S
  <2>1. 0..MaxDepth \subseteq S
    BY <1>1, <1>2, <1>3, SetInduction
  <2> QED BY <1>1, <2>1
<1>5. SaveRoot(t) = FirstOf(Beneath(t, <<>>, MaxDepth))
  BY <1>4 DEF S, FindsFirst, SaveRoot
<1>6. Beneath(t, <<>>, MaxDepth) = roots
  <2>1. Len(<<>>) = 0 /\ 0 + MaxDepth = MaxDepth
    BY <1>1, EmptySeq
  <2>2. \A e \in t.dirs \cup {<<>>} : Len(e) \in Nat /\ 0 <= Len(e)
    BY EmptySeq, LenProperties DEF Tree, Path
  <2> QED BY <2>1, <2>2 DEF Beneath, Alike
<1> QED BY <1>5, <1>6

(* It does so in every archive.                                             *)
LEMMA UploadsFirstRoot == ASSUME NEW u \in Uploads PROVE FirstRootTaken(u)
<1>1. Tree(Unpacked(u))
  BY UnpackedReads DEF Reads
<1> QED BY <1>1, SaveRootIsFirst DEF FirstRootTaken, FirstOf

(* Every archive is read rightly.                                           *)
LEMMA AllRight == \A u \in Uploads : ReadRightly(u)
BY UploadsAsPacked, UploadsForCause, UploadsFirstRoot DEF ReadRightly

-----------------------------------------------------------------------------
(* The saves of an archive, in the order of their names.                     *)

(* A directory has finitely many names.                                     *)
LEMMA NamesAreFinite ==
  ASSUME NEW t, Tree(t), NEW d
  PROVE  IsFiniteSet(Names(t, d))
<1> DEFINE Q == {q \in t.dirs : q = Append(d, q[Len(q)])}
           f == [q \in Q |-> q[Len(q)]]
<1>1. IsFiniteSet(Q)
  <2>1. Q \in SUBSET t.dirs
    OBVIOUS
  <2> QED BY <2>1, FS_Subset DEF Tree
<1>2. f \in Surjection(Q, Names(t, d))
  BY DEF Surjection, Names
<1> HIDE DEF f, Q
<1> QED BY <1>1, <1>2, FS_Surjection

(* The saves of an archive are finitely many names.                         *)
LEMMA SavesAreNames ==
  ASSUME NEW t, Tree(t)
  PROVE  IsFiniteSet(Saves(t)) /\ Saves(t) \in SUBSET Nat
<1> DEFINE roots == {d \in t.dirs \cup {<<>>} : Len(d) <= MaxDepth /\ SavesIn(t, d) # {}}
<1>1. SaveRoot(t) = FirstOf(roots)
  BY SaveRootIsFirst
<1>2. roots \subseteq Seq(Nat)
  BY EmptySeq DEF Tree, Path
<1>3. \A d, e \in FirstOf(roots) : d = e
  <2> SUFFICES ASSUME NEW d \in FirstOf(roots), NEW e \in FirstOf(roots), d # e
               PROVE  FALSE
    OBVIOUS
  <2> HIDE DEF roots
  <2>1. d \in Seq(Nat) /\ e \in Seq(Nat) /\ Before(d, e) /\ Before(e, d)
    BY <1>2 DEF FirstOf
  <2> QED BY <2>1, BeforeIsStrict
<1>4. FirstOf(roots) \subseteq Seq(Nat)
  BY <1>2 DEF FirstOf
<1> HIDE DEF roots
<1>5. CASE SaveRoot(t) = {}
  <2>1. Saves(t) = {}
    BY <1>5 DEF Saves
  <2> QED BY <2>1, FS_EmptySet
<1>6. CASE SaveRoot(t) # {}
  <2>1. PICK d \in Seq(Nat) : SaveRoot(t) = {d}
    BY <1>1, <1>3, <1>4, <1>6
  <2>2. Saves(t) = SavesIn(t, d)
    BY <2>1 DEF Saves
  <2>3. Saves(t) \in SUBSET Names(t, d)
    BY <2>2 DEF SavesIn
  <2>4. \A n \in Names(t, d) : n \in Nat
    BY NamesAre
  <2> QED BY <2>3, <2>4, NamesAreFinite, FS_Subset
<1> QED BY <1>5, <1>6

Smaller(S, m) == {k \in S : k < m}

(* The n-th of a set of numbers is the one with n - 1 smaller ones.          *)
LEMMA NthIs ==
  ASSUME NEW S \in SUBSET Nat, IsFiniteSet(S), NEW n \in 1..Cardinality(S)
  PROVE  Nth(S, n) \in S /\ Cardinality(Smaller(S, Nth(S, n))) = n - 1
<1> DEFINE N == Cardinality(S)
           T == {k \in Nat : k < N => \E m \in S : Cardinality(Smaller(S, m)) = k}
<1>1. N \in Nat
  BY FS_CardinalityType
<1>2. 0 \in T
  <2> SUFFICES ASSUME 0 < N PROVE \E m \in S : Cardinality(Smaller(S, m)) = 0
    OBVIOUS
  <2>1. S # {}
    BY FS_EmptySet
  <2>2. PICK m \in S : \A k \in S : m <= k
    BY <2>1, LeastNat
  <2>3. Smaller(S, m) = {}
    <3>1. \A k \in S : ~ (k < m)
      BY <2>2
    <3> QED BY <3>1 DEF Smaller
  <2> QED BY <2>3, FS_EmptySet
<1>3. ASSUME NEW k \in 0..(N - 1), k \in T PROVE k + 1 \in T
  <2> SUFFICES ASSUME k + 1 < N PROVE \E m \in S : Cardinality(Smaller(S, m)) = k + 1
    BY <1>1
  <2>1. k < N
    BY <1>1
  <2>2. PICK m \in S : Cardinality(Smaller(S, m)) = k
    BY <1>3, <2>1
  <2> DEFINE Low == Smaller(S, m) \cup {m}
  <2>3. m \notin Smaller(S, m) /\ IsFiniteSet(Smaller(S, m))
    <3>1. Smaller(S, m) \in SUBSET S
      BY DEF Smaller
    <3>2. ~ (m < m)
      OBVIOUS
    <3> QED BY <3>1, <3>2, FS_Subset DEF Smaller
  <2>4. Cardinality(Low) = k + 1
    BY <2>2, <2>3, FS_AddElement
  <2>5. S \ Low # {}
    <3> SUFFICES ASSUME S \ Low = {} PROVE FALSE
      OBVIOUS
    <3>1. S = Low
      BY DEF Smaller
    <3> QED BY <1>1, <2>4, <3>1
  <2>6. S \ Low \in SUBSET Nat
    OBVIOUS
  <2>7. PICK l \in S \ Low : \A j \in S \ Low : l <= j
    BY <2>5, <2>6, LeastNat
  <2>8. Smaller(S, l) = Low
    <3>1. ASSUME NEW j \in S, j < l PROVE j \in Low
      <4>1. ~ (l <= j)
        BY <3>1
      <4> QED BY <2>7, <4>1
    <3>2. ASSUME NEW j \in Low PROVE j \in S /\ j < l
      <4>1. j \in S /\ j <= m
        BY DEF Smaller
      <4>2. l \in S /\ l # m /\ ~ (l < m)
        BY <2>7 DEF Smaller
      <4>3. j \in Nat /\ l \in Nat /\ m \in Nat
        BY <4>1, <4>2
      <4> QED BY <4>1, <4>2, <4>3
    <3> HIDE DEF Low
    <3> QED BY <3>1, <3>2 DEF Smaller
  <2> QED BY <2>4, <2>7, <2>8
<1> HIDE DEF T
<1>4. 0..N \subseteq T
  BY <1>1, <1>2, <1>3, SetInduction
<1>5. n - 1 \in T /\ n - 1 < N
  BY <1>1, <1>4
<1>6. \E m \in S : Cardinality({k \in S : k < m}) = n - 1
  BY <1>5 DEF T, Smaller
<1> QED BY <1>6 DEF Nth, Smaller

Folder == {AnyRegion} \cup [region : {FALSE}, nr : Nat]

(* The saves read in an archive are a list, and no two have the same name.   *)
LEMMA ReadingsAre ==
  ASSUME NEW a \in Readings
  PROVE  /\ a \in Seq(Folder)
         /\ \A j, k \in DOMAIN a : a[j] = a[k] /\ a[j] # AnyRegion => j = k
<1>1. PICK u \in Uploads : a = FoldersOf(u)
  BY DEF Readings
<1> DEFINE t == Unpacked(u)
           S == IF t.ok THEN Saves(t) ELSE {}
<1>2. IsFiniteSet(S) /\ S \in SUBSET Nat
  <2>1. Tree(t)
    BY UnpackedReads DEF Reads
  <2> HIDE DEF t
  <2> QED BY <2>1, SavesAreNames, FS_EmptySet
<1>3. a = [n \in 1..Cardinality(S) |-> FolderOf(Nth(S, n))]
  BY <1>1 DEF FoldersOf
<1> HIDE DEF S
<1>4. Cardinality(S) \in Nat
  BY <1>2, FS_CardinalityType
<1>5. ASSUME NEW n \in 1..Cardinality(S)
      PROVE  Nth(S, n) \in Nat /\ Cardinality(Smaller(S, Nth(S, n))) = n - 1
  BY <1>2, NthIs
<1>6. \A m \in Nat : FolderOf(m) \in Folder
  BY DEF FolderOf, Folder, AnyRegion
<1>7. a \in [1..Cardinality(S) -> Folder]
  BY <1>3, <1>5, <1>6
<1>8. a \in Seq(Folder)
  BY <1>4, <1>7, SeqDef
<1>9. ASSUME NEW j \in DOMAIN a, NEW k \in DOMAIN a, a[j] = a[k], a[j] # AnyRegion
      PROVE  j = k
  <2>1. j \in 1..Cardinality(S) /\ k \in 1..Cardinality(S)
    BY <1>3
  <2>2. FolderOf(Nth(S, j)) = FolderOf(Nth(S, k)) /\ FolderOf(Nth(S, j)) # AnyRegion
    BY <1>3, <1>9, <2>1
  <2>3. Nth(S, j) = Nth(S, k)
    BY <2>2 DEF FolderOf
  <2>4. j - 1 = k - 1
    BY <1>5, <2>1, <2>3
  <2> QED BY <1>4, <2>1, <2>4
<1> QED BY <1>8, <1>9

-----------------------------------------------------------------------------
(* What one request keeps for the player.                                   *)

(* An import works on a slot that was free when it looked, so on none of the *)
(* player's regions: those are never free.                                   *)
TargetsNotMine ==
  \A p \in Imports : pc[p] \in {"clear", "rename", "chown", "rollback"} =>
    target[p] \in Places \ mine
NextIsReal == \A p \in Imports : next[p] # 0

(* What is inductive: the regions are kept because no target is one of them, *)
(* and no target is one of them because a kept region is never free and the  *)
(* name a save keeps is not a region's.                                      *)
Inv == TypeOK /\ NextIsReal /\ PlayerRegionsKept /\ TargetsNotMine

Labels == {"start", "pick", "clear", "rename", "chown", "rollback", "cleanup",
           "done"}

(* The invariant holds at the start.                                         *)
LEMMA InitHolds == Init => Inv
<1> SUFFICES ASSUME Init PROVE Inv
  OBVIOUS
<1>1. mine \in SUBSET Regions /\ Own \in Save
  BY DEF Init, Regions, Own, Save
<1>2. PICK named \in SUBSET Named :
        saves = [t \in Places |-> IF t \in mine \cup named THEN Own ELSE None]
  BY DEF Init
<1>3. saves \in [Places -> Save \cup {None}]
  BY <1>1, <1>2
<1>4. TypeOK
  <2>1. staged \in [Imports -> SUBSET Nat] /\ target \in [Imports -> Places \cup {AnyRegion}]
    BY DEF Init
  <2>2. /\ archive \in [Imports -> Readings \cup {<<>>}] /\ next \in [Imports -> Nat]
        /\ answer \in [Imports -> {None, "ok", "failed", "stuck"}]
    BY DEF Init
  <2>3. /\ pc \in [Imports -> {"start", "pick", "clear", "rename", "chown",
                               "rollback", "cleanup", "done"}]
        /\ crashes \in 0..MaxCrashes
    BY MaxCrashesAssumption DEF Init
  <2>4. installed \in [Imports -> Seq(Places \cup {AnyRegion})]
    <3>1. <<>> \in Seq(Places \cup {AnyRegion})
      BY EmptySeq
    <3> QED BY <3>1 DEF Init
  <2> QED BY <1>1, <1>3, <2>1, <2>2, <2>3, <2>4 DEF TypeOK
<1>5. PlayerRegionsKept
  BY <1>1, <1>2 DEF PlayerRegionsKept, Places
<1>6. TargetsNotMine /\ NextIsReal
  BY DEF Init, TargetsNotMine, NextIsReal
<1> QED BY <1>4, <1>5, <1>6 DEF Inv

-----------------------------------------------------------------------------
(* The region an import picks is nobody's: a region of the player is kept,   *)
(* and what is kept is not free.                                             *)
LEMMA NextFreeIsNotMine ==
  ASSUME Inv, NEW t \in NextFree
  PROVE  t \in Places \ mine
<1>1. t \in Regions /\ saves[t] = None
  BY DEF NextFree, Free
<1>2. Own # None
  <2>1. Own \in Save
    BY DEF Own, Save
  <2> QED BY <2>1, NoneAssumption
<1> QED BY <1>1, <1>2 DEF Inv, PlayerRegionsKept, Places

(* A save of an archive that is no region has its name among the named.      *)
LEMMA NameIsNamed ==
  ASSUME NEW a \in Readings, NEW n \in DOMAIN a, a[n] # AnyRegion
  PROVE  a[n] \in Named
<1> DEFINE s == {a[m] : m \in DOMAIN a}
           all == {{b[m] : m \in DOMAIN b} : b \in Readings}
<1>1. s \in all /\ a[n] \in s
  OBVIOUS
<1>2. Named = (UNION all) \ {AnyRegion}
  BY DEF Named
<1> HIDE DEF s, all
<1> QED BY <1>1, <1>2

(* The name a save keeps is not the name of a region.                        *)
LEMMA NamesAreNotMine ==
  ASSUME Inv, NEW p \in Imports, More(p), archive[p][next[p]] # AnyRegion
  PROVE  archive[p][next[p]] \in Places \ mine
<1>1. archive[p] \in Readings /\ archive[p] \in Seq(Folder)
      /\ next[p] \in DOMAIN archive[p]
  <2>1. next[p] \in Nat /\ next[p] # 0 /\ archive[p] \in Readings \cup {<<>>}
    BY DEF Inv, TypeOK, NextIsReal
  <2>2. archive[p] # <<>>
    <3>1. archive[p] = <<>> => Len(archive[p]) = 0
      BY EmptySeq
    <3> QED BY <2>1, <3>1 DEF More
  <2>3. archive[p] \in Seq(Folder)
    BY <2>1, <2>2, ReadingsAre
  <2>4. DOMAIN archive[p] = 1..Len(archive[p]) /\ Len(archive[p]) \in Nat
    BY <2>3, LenProperties
  <2> QED BY <2>1, <2>2, <2>3, <2>4 DEF More
<1>2. archive[p][next[p]] \in Named
  BY <1>1, NameIsNamed
<1>3. archive[p][next[p]] \in Folder
  BY <1>1, ElementOfSeq, LenProperties
<1>4. archive[p][next[p]].region = FALSE
  BY <1>3 DEF Folder
<1>5. archive[p][next[p]] \notin Regions
  BY <1>4 DEF Regions
<1> QED BY <1>2, <1>5 DEF Inv, TypeOK, Places

(* A slot that is none of the player's may change without touching theirs.   *)
LEMMA OtherSlotsAreFree ==
  ASSUME Inv, NEW p \in Imports, target[p] \in Places \ mine, UNCHANGED mine,
         NEW s \in Save \cup {None}, saves' = [saves EXCEPT ![target[p]] = s]
  PROVE  PlayerRegionsKept' /\ saves' \in [Places -> Save \cup {None}]
<1>1. saves \in [Places -> Save \cup {None}] /\ mine \subseteq Places
  BY DEF Inv, TypeOK, Places
<1> QED BY <1>1 DEF Inv, PlayerRegionsKept

(* The name of an import's next step changes, and nothing about its target.  *)
LEMMA TargetsStay ==
  ASSUME Inv, NEW p \in Imports, NEW l \in Labels, pc' = [pc EXCEPT ![p] = l],
         UNCHANGED <<target, mine>>,
         l \in {"clear", "rename", "chown", "rollback"} => target[p] \in Places \ mine
  PROVE  TargetsNotMine' /\ pc' \in [Imports -> Labels]
BY DEF Inv, TypeOK, TargetsNotMine, Labels

-----------------------------------------------------------------------------
(* The steps, one by one.                                                    *)

(* The number of the save an import installs only grows.                     *)
LEMMA NextStaysReal ==
  ASSUME Inv, NEW p \in Imports, Step(p)
  PROVE  NextIsReal'
<1> USE DEF Inv, TypeOK, NextIsReal
<1>1. CASE Chown(p)
  BY <1>1 DEF Chown
<1>2. CASE UNCHANGED next
  BY <1>2
<1> QED BY <1>1, <1>2 DEF Step, Stage, StageFails, PickRegion, NoFreeRegion, KeepName,
    Removes, Clear, ClearFails, Rename, RenameFails, ChownFails, Rollback, Succeed,
    Cleanup

(* Every step of an import preserves the invariant.                          *)
LEMMA StepHolds ==
  ASSUME Inv, NEW p \in Imports, Step(p)
  PROVE  Inv'
<1> USE DEF Goto, Fail, FailAs, Labels
<1>0. /\ TypeOK /\ PlayerRegionsKept /\ TargetsNotMine
      /\ pc[p] \in {"clear", "rename", "chown", "rollback"} =>
           target[p] \in Places \ mine
  BY DEF Inv, TargetsNotMine
<1>a. NextIsReal'
  BY NextStaysReal
<1>1. CASE Stage(p)
  <2>1. TargetsNotMine' /\ pc' \in [Imports -> Labels]
    BY <1>0, <1>1, TargetsStay DEF Stage
  <2>2. PlayerRegionsKept'
    BY <1>0, <1>1 DEF Stage, PlayerRegionsKept
  <2>3. PICK a \in Readings : /\ archive' = [archive EXCEPT ![p] = a]
                              /\ staged' = [staged EXCEPT ![StagingOf(p)] = DOMAIN a]
    BY <1>1 DEF Stage
  <2>4. DOMAIN a \in SUBSET Nat
    <3>1. DOMAIN a = 1..Len(a)
      BY ReadingsAre, LenProperties
    <3> QED BY <3>1
  <2>5. TypeOK'
    BY <1>0, <1>1, <2>1, <2>3, <2>4 DEF Stage, TypeOK, StagingOf
  <2> QED BY <1>a, <2>1, <2>2, <2>5 DEF Inv
<1>2. CASE StageFails(p)
  <2>1. TargetsNotMine' /\ pc' \in [Imports -> Labels]
    BY <1>0, <1>2, TargetsStay DEF StageFails, StagingOf
  <2>2. PlayerRegionsKept'
    BY <1>0, <1>2 DEF StageFails, PlayerRegionsKept, StagingOf
  <2>3. TypeOK'
    BY <1>0, <1>2, <2>1 DEF StageFails, TypeOK, StagingOf
  <2> QED BY <1>a, <2>1, <2>2, <2>3 DEF Inv
<1>3. CASE PickRegion(p)
  <2>1. PICK t \in NextFree : target' = [target EXCEPT ![p] = t]
    BY <1>3 DEF PickRegion
  <2>2. t \in Places \ mine
    BY NextFreeIsNotMine
  <2>3. TypeOK'
    BY <1>0, <1>3, <2>1, <2>2 DEF PickRegion, TypeOK
  <2>4. PlayerRegionsKept'
    BY <1>0, <1>3 DEF PickRegion, PlayerRegionsKept
  <2>5. TargetsNotMine'
    BY <1>0, <1>3, <2>1, <2>2 DEF PickRegion, TypeOK, TargetsNotMine
  <2> QED BY <1>a, <2>3, <2>4, <2>5 DEF Inv
<1>4. CASE NoFreeRegion(p)
  <2>1. TargetsNotMine' /\ pc' \in [Imports -> Labels]
    BY <1>0, <1>4, TargetsStay DEF NoFreeRegion
  <2>2. PlayerRegionsKept'
    BY <1>0, <1>4 DEF NoFreeRegion, PlayerRegionsKept
  <2>3. TypeOK'
    BY <1>0, <1>4, <2>1 DEF NoFreeRegion, TypeOK
  <2> QED BY <1>a, <2>1, <2>2, <2>3 DEF Inv
<1>5. CASE KeepName(p)
  <2> DEFINE t == archive[p][next[p]]
  <2>1. target' = [target EXCEPT ![p] = t]
    BY <1>5 DEF KeepName
  <2>2. t \in Places \ mine
    BY <1>5, NamesAreNotMine DEF KeepName
  <2> HIDE DEF t
  <2>3. TypeOK'
    BY <1>0, <1>5, <2>1, <2>2 DEF KeepName, TypeOK
  <2>4. PlayerRegionsKept'
    BY <1>0, <1>5 DEF KeepName, PlayerRegionsKept
  <2>5. TargetsNotMine'
    BY <1>0, <1>5, <2>1, <2>2 DEF KeepName, TypeOK, TargetsNotMine
  <2> QED BY <1>a, <2>3, <2>4, <2>5 DEF Inv
<1>6. CASE Clear(p)
  <2>1. None \in Save \cup {None}
    OBVIOUS
  <2>2. saves' = [saves EXCEPT ![target[p]] = None]
    BY <1>6 DEF Clear
  <2>3. PlayerRegionsKept' /\ saves' \in [Places -> Save \cup {None}]
    BY <1>0, <1>6, <2>1, <2>2, OtherSlotsAreFree DEF Clear
  <2>4. TargetsNotMine' /\ pc' \in [Imports -> Labels]
    BY <1>0, <1>6, TargetsStay DEF Clear
  <2>5. TypeOK'
    BY <1>0, <1>6, <2>3, <2>4 DEF Clear, TypeOK
  <2> QED BY <1>a, <2>3, <2>4, <2>5 DEF Inv
<1>7. CASE ClearFails(p)
  <2>1. TargetsNotMine' /\ pc' \in [Imports -> Labels]
    BY <1>0, <1>7, TargetsStay DEF ClearFails
  <2>2. PlayerRegionsKept'
    BY <1>0, <1>7 DEF ClearFails, PlayerRegionsKept
  <2>3. TypeOK'
    BY <1>0, <1>7, <2>1 DEF ClearFails, TypeOK
  <2> QED BY <1>a, <2>1, <2>2, <2>3 DEF Inv
<1>8. CASE Rename(p)
  <2>1. New(p, next[p], FALSE) \in Save \cup {None}
    BY <1>0 DEF TypeOK, New, Save
  <2>2. saves' = [saves EXCEPT ![target[p]] = New(p, next[p], FALSE)]
    BY <1>8 DEF Rename
  <2>3. PlayerRegionsKept' /\ saves' \in [Places -> Save \cup {None}]
    BY <1>0, <1>8, <2>1, <2>2, OtherSlotsAreFree DEF Rename
  <2>4. TargetsNotMine' /\ pc' \in [Imports -> Labels]
    BY <1>0, <1>8, TargetsStay DEF Rename
  <2>5. TypeOK'
    BY <1>0, <1>8, <2>3, <2>4 DEF Rename, TypeOK, StagingOf
  <2> QED BY <1>a, <2>3, <2>4, <2>5 DEF Inv
<1>9. CASE RenameFails(p)
  <2>1. TargetsNotMine' /\ pc' \in [Imports -> Labels]
    BY <1>0, <1>9, TargetsStay DEF RenameFails
  <2>2. PlayerRegionsKept'
    BY <1>0, <1>9 DEF RenameFails, PlayerRegionsKept
  <2>3. TypeOK'
    BY <1>0, <1>9, <2>1 DEF RenameFails, TypeOK
  <2> QED BY <1>a, <2>1, <2>2, <2>3 DEF Inv
<1>10. CASE Chown(p)
  <2>1. [saves[target[p]] EXCEPT !.owned = TRUE] \in Save \cup {None}
    <3>1. saves[target[p]] \in Save
      BY <1>0, <1>10 DEF Chown, TypeOK
    <3> QED BY <3>1 DEF Save
  <2>2. saves' = [saves EXCEPT ![target[p]] = [saves[target[p]] EXCEPT !.owned = TRUE]]
    BY <1>10 DEF Chown
  <2>3. PlayerRegionsKept' /\ saves' \in [Places -> Save \cup {None}]
    BY <1>0, <1>10, <2>1, <2>2, OtherSlotsAreFree DEF Chown
  <2>4. TargetsNotMine' /\ pc' \in [Imports -> Labels]
    BY <1>0, <1>10, TargetsStay DEF Chown
  <2>5. TypeOK'
    <3>1. installed' \in [Imports -> Seq(Places \cup {AnyRegion})]
      <4>1. Append(installed[p], target[p]) \in Seq(Places \cup {AnyRegion})
        BY <1>0, AppendProperties DEF TypeOK
      <4> QED BY <1>0, <1>10, <4>1 DEF Chown, TypeOK
    <3>2. next' \in [Imports -> Nat]
      BY <1>0, <1>10 DEF Chown, TypeOK
    <3> QED BY <1>0, <1>10, <2>3, <2>4, <3>1, <3>2 DEF Chown, TypeOK
  <2> QED BY <1>a, <2>3, <2>4, <2>5 DEF Inv
<1>11. CASE ChownFails(p)
  <2>1. TargetsNotMine' /\ pc' \in [Imports -> Labels]
    BY <1>0, <1>11, TargetsStay DEF ChownFails, OnChownError
  <2>2. PlayerRegionsKept'
    BY <1>0, <1>11 DEF ChownFails, PlayerRegionsKept, OnChownError
  <2>3. TypeOK'
    BY <1>0, <1>11, <2>1 DEF ChownFails, TypeOK, OnChownError
  <2> QED BY <1>a, <2>1, <2>2, <2>3 DEF Inv
<1>12. CASE Rollback(p)
  <2>1. PlayerRegionsKept' /\ saves' \in [Places -> Save \cup {None}]
    <3>1. CASE saves' = [saves EXCEPT ![target[p]] = None]
      BY <1>0, <1>12, <3>1, OtherSlotsAreFree DEF Rollback
    <3>2. CASE UNCHANGED saves
      BY <1>0, <1>12, <3>2 DEF Rollback, PlayerRegionsKept, TypeOK
    <3> QED BY <1>12, <3>1, <3>2 DEF Rollback
  <2>2. TargetsNotMine' /\ pc' \in [Imports -> Labels]
    BY <1>0, <1>12, TargetsStay DEF Rollback
  <2>3. TypeOK'
    BY <1>0, <1>12, <2>1, <2>2 DEF Rollback, TypeOK
  <2> QED BY <1>a, <2>1, <2>2, <2>3 DEF Inv
<1>13. CASE Succeed(p)
  <2>1. TargetsNotMine' /\ pc' \in [Imports -> Labels]
    BY <1>0, <1>13, TargetsStay DEF Succeed
  <2>2. PlayerRegionsKept'
    BY <1>0, <1>13 DEF Succeed, PlayerRegionsKept
  <2>3. TypeOK'
    BY <1>0, <1>13, <2>1 DEF Succeed, TypeOK
  <2> QED BY <1>a, <2>1, <2>2, <2>3 DEF Inv
<1>14. CASE Cleanup(p)
  <2>1. TargetsNotMine' /\ pc' \in [Imports -> Labels]
    BY <1>0, <1>14, TargetsStay DEF Cleanup, StagingOf
  <2>2. PlayerRegionsKept'
    BY <1>0, <1>14 DEF Cleanup, PlayerRegionsKept, StagingOf
  <2>3. TypeOK'
    BY <1>0, <1>14, <2>1 DEF Cleanup, TypeOK, StagingOf
  <2> QED BY <1>a, <2>1, <2>2, <2>3 DEF Inv
<1>15. CASE Removes(p)
  <2>1. [saves[target[p]] EXCEPT !.whole = FALSE] \in Save \cup {None}
    <3>1. saves[target[p]] \in Save
      BY <1>0, <1>15 DEF Removes, TypeOK
    <3> QED BY <3>1 DEF Save
  <2>2. saves' = [saves EXCEPT ![target[p]] = [saves[target[p]] EXCEPT !.whole = FALSE]]
    BY <1>15 DEF Removes
  <2>3. PlayerRegionsKept' /\ saves' \in [Places -> Save \cup {None}]
    BY <1>0, <1>15, <2>1, <2>2, OtherSlotsAreFree DEF Removes
  <2>4. TargetsNotMine'
    BY <1>0, <1>15 DEF Removes, TargetsNotMine
  <2>5. TypeOK'
    BY <1>0, <1>15, <2>3 DEF Removes, TypeOK
  <2> QED BY <1>a, <2>3, <2>4, <2>5 DEF Inv
<1> QED BY <1>1, <1>2, <1>3, <1>4, <1>5, <1>6, <1>7, <1>8, <1>9, <1>10, <1>11, <1>12,
           <1>13, <1>14, <1>15 DEF Step

(* A crash forgets the requests and leaves the files.                        *)
LEMMA CrashHolds == Inv /\ Crash => Inv'
<1> SUFFICES ASSUME Inv, Crash PROVE Inv'
  OBVIOUS
<1>1. TypeOK'
  BY MaxCrashesAssumption DEF Inv, TypeOK, Crash
<1>2. PlayerRegionsKept'
  BY DEF Inv, PlayerRegionsKept, Crash
<1>3. TargetsNotMine' /\ NextIsReal'
  BY DEF Inv, TargetsNotMine, NextIsReal, Crash
<1> QED BY <1>1, <1>2, <1>3 DEF Inv

(* Every step of the specification preserves the invariant.                *)
LEMMA NextHolds == Inv /\ [Next]_vars => Inv'
<1> SUFFICES ASSUME Inv, [Next]_vars PROVE Inv'
  OBVIOUS
<1>1. CASE Next
  BY <1>1, StepHolds, CrashHolds DEF Next
<1>2. CASE UNCHANGED vars
  BY <1>2 DEF vars, Inv, TypeOK, NextIsReal, PlayerRegionsKept, TargetsNotMine
<1> QED BY <1>1, <1>2

-----------------------------------------------------------------------------
(* What is staged, and what is handed over.                                  *)

(* The saves a request has read are a list.                                  *)
LEMMA ArchivesAreLists ==
  ASSUME TypeOK, NEW p \in Imports
  PROVE  /\ archive[p] \in Seq(Folder) /\ Len(archive[p]) \in Nat
         /\ DOMAIN archive[p] = 1..Len(archive[p])
BY ReadingsAre, EmptySeq, LenProperties DEF TypeOK

(* A request has in its staging directory what it has yet to install.        *)
StagedFor(p) ==
  /\ pc[p] = "start" => next[p] = 1
  /\ pc[p] \in {"pick", "clear", "rename"} =>
       next[p]..Len(archive[p]) \subseteq staged[StagingOf(p)]
  /\ pc[p] = "chown" =>
       (next[p] + 1)..Len(archive[p]) \subseteq staged[StagingOf(p)]
StagedInv == \A p \in Imports : StagedFor(p)

(* A step of one request is about its own state.                             *)
LEMMA OthersStay ==
  ASSUME TypeOK, NEW p \in Imports, Step(p), NEW q \in Imports \ {p}
  PROVE  /\ pc'[q] = pc[q] /\ next'[q] = next[q] /\ archive'[q] = archive[q]
         /\ staged'[q] = staged[q] /\ target'[q] = target[q]
         /\ answer'[q] = answer[q]
<1> USE DEF TypeOK, Goto, Fail, FailAs, StagingOf
<1>1. CASE Stage(p) \/ StageFails(p) \/ PickRegion(p) \/ NoFreeRegion(p)
  BY <1>1 DEF Stage, StageFails, PickRegion, NoFreeRegion
<1>2. CASE \/ KeepName(p) \/ Removes(p) \/ Clear(p) \/ ClearFails(p) \/ Rename(p)
          \/ RenameFails(p)
  BY <1>2 DEF KeepName, Removes, Clear, ClearFails, Rename, RenameFails
<1>3. CASE Chown(p) \/ ChownFails(p) \/ Rollback(p) \/ Succeed(p) \/ Cleanup(p)
  BY <1>3 DEF Chown, ChownFails, OnChownError, Rollback, Succeed, Cleanup
<1> QED BY <1>1, <1>2, <1>3 DEF Step

(* A step takes nothing another request has yet to install.                 *)
LEMMA StagedStep ==
  ASSUME TypeOK, StagedInv, NEW p \in Imports, Step(p)
  PROVE  StagedInv'
<1>1. ASSUME NEW q \in Imports \ {p} PROVE StagedFor(q)'
  BY OthersStay DEF StagedInv, StagedFor, StagingOf
<1>2. StagedFor(p)'
  <2> USE DEF TypeOK, Goto, Fail, FailAs, StagingOf
  <2>0. StagedFor(p)
    BY DEF StagedInv
  <2>1. CASE Stage(p)
    <3>1. PICK a \in Readings \ {<<>>} :
            /\ archive' = [archive EXCEPT ![p] = a]
            /\ staged' = [staged EXCEPT ![StagingOf(p)] = DOMAIN a]
      BY <2>1 DEF Stage
    <3>2. DOMAIN a = 1..Len(a)
      BY <3>1, ReadingsAre, LenProperties
    <3>3. next'[p] = 1 /\ pc'[p] = "pick" /\ archive'[p] = a /\ staged'[p] = 1..Len(a)
      BY <2>0, <2>1, <3>1, <3>2 DEF Stage, StagedFor
    <3> QED BY <3>3 DEF StagedFor
  <2>2. CASE StageFails(p) \/ NoFreeRegion(p) \/ ClearFails(p) \/ RenameFails(p)
    BY <2>2 DEF StagedFor, StageFails, NoFreeRegion, ClearFails, RenameFails
  <2>3. CASE PickRegion(p) \/ KeepName(p) \/ Removes(p) \/ Clear(p)
    BY <2>0, <2>3 DEF StagedFor, PickRegion, KeepName, Removes, Clear
  <2>4. CASE Rename(p)
    <3>1. /\ pc[p] = "rename" /\ pc'[p] = "chown" /\ next'[p] = next[p]
          /\ archive'[p] = archive[p] /\ staged'[p] = staged[p] \ {next[p]}
      BY <2>4 DEF Rename
    <3>2. next[p]..Len(archive[p]) \subseteq staged[p] /\ next[p] \in Nat
      BY <2>0, <3>1 DEF StagedFor
    <3>3. Len(archive[p]) \in Nat
      BY ArchivesAreLists
    <3>4. (next[p] + 1)..Len(archive[p]) \subseteq staged[p] \ {next[p]}
      BY <3>2, <3>3
    <3> QED BY <3>1, <3>4 DEF StagedFor
  <2>5. CASE Chown(p)
    <3>1. /\ pc[p] = "chown" /\ pc'[p] = "pick" /\ next'[p] = next[p] + 1
          /\ archive'[p] = archive[p] /\ staged'[p] = staged[p]
      BY <2>5 DEF Chown
    <3> QED BY <2>0, <3>1 DEF StagedFor
  <2>6. CASE ChownFails(p) \/ Rollback(p) \/ Succeed(p) \/ Cleanup(p)
    BY <2>6 DEF StagedFor, ChownFails, OnChownError, Rollback, Succeed, Cleanup
  <2> QED BY <2>1, <2>2, <2>3, <2>4, <2>5, <2>6 DEF Step
<1> QED BY <1>1, <1>2 DEF StagedInv

(* A request that is stuck has ended.                                        *)
StuckInv ==
  \A p \in Imports : answer[p] = "stuck" => pc[p] \in {"cleanup", "done"}

(* A request is to hand over, or could not take away, what is in slot t.     *)
WorksOn(p, t) ==
  target[p] = t /\ (pc[p] \in {"chown", "rollback"} \/ answer[p] = "stuck")

(* Who leaves a save behind that was not handed over is stuck or at it.     *)
LEMMA OwnedStep ==
  ASSUME Inv, StuckInv, InstalledAreOwned, NEW p \in Imports, Step(p)
  PROVE  StuckInv' /\ InstalledAreOwned'
<1>0. TypeOK /\ TargetsNotMine
  BY DEF Inv
<1> USE <1>0 DEF TypeOK, Goto, Fail, FailAs, StagingOf
<1>1. StuckInv'
  <2>1. \A q \in Imports \ {p} : pc'[q] = pc[q] /\ answer'[q] = answer[q]
    BY OthersStay
  <2>2. answer'[p] = "stuck" => pc'[p] \in {"cleanup", "done"}
    <3>0. answer[p] = "stuck" => pc[p] \in {"cleanup", "done"}
      BY DEF StuckInv
    <3>1. CASE Stage(p) \/ StageFails(p) \/ PickRegion(p) \/ NoFreeRegion(p)
      BY <3>0, <3>1 DEF Stage, StageFails, PickRegion, NoFreeRegion
    <3>2. CASE \/ KeepName(p) \/ Removes(p) \/ Clear(p) \/ ClearFails(p) \/ Rename(p)
              \/ RenameFails(p)
      BY <3>0, <3>2 DEF KeepName, Removes, Clear, ClearFails, Rename, RenameFails
    <3>3. CASE Chown(p) \/ ChownFails(p) \/ Rollback(p) \/ Succeed(p) \/ Cleanup(p)
      BY <3>0, <3>3 DEF Chown, ChownFails, OnChownError, Rollback, Succeed, Cleanup
    <3> QED BY <3>1, <3>2, <3>3 DEF Step
  <2> QED BY <2>1, <2>2 DEF StuckInv
<1>2. ASSUME crashes' = 0, NEW t \in Places, saves'[t] # None, ~saves'[t].owned
      PROVE  \E q \in Imports : WorksOn(q, t)'
  <2>1. crashes = 0
    BY <1>2 DEF Step, Stage, StageFails, PickRegion, NoFreeRegion, KeepName, Removes,
       Clear, ClearFails, Rename, RenameFails, Chown, ChownFails, Rollback, Succeed, Cleanup
  <2>2. ASSUME saves'[t] = saves[t], WorksOn(p, t) => WorksOn(p, t)'
        PROVE  \E q \in Imports : WorksOn(q, t)'
    <3>1. PICK q \in Imports : WorksOn(q, t)
      BY <1>2, <2>1, <2>2 DEF InstalledAreOwned, WorksOn
    <3>2. q # p => WorksOn(q, t)'
      BY <3>1, OthersStay DEF WorksOn
    <3> QED BY <2>2, <3>1, <3>2
  <2>3. ASSUME pc[p] \in {"start", "pick", "clear", "rename"}
        PROVE  ~WorksOn(p, t)
    BY <2>3 DEF WorksOn, StuckInv
  <2>4. CASE Stage(p) \/ StageFails(p) \/ PickRegion(p) \/ NoFreeRegion(p)
             \/ KeepName(p) \/ ClearFails(p) \/ RenameFails(p) \/ Succeed(p)
    BY <2>2, <2>3, <2>4 DEF Stage, StageFails, PickRegion, NoFreeRegion, KeepName,
       ClearFails, RenameFails, Succeed
  <2>5. CASE Clear(p)
    <3>1. t # target[p] /\ saves'[t] = saves[t]
      BY <1>2, <2>5 DEF Clear
    <3> QED BY <2>2, <2>3, <2>5, <3>1 DEF Clear
  <2>6. CASE Rename(p)
    <3>1. CASE t = target[p]
      BY <2>6, <3>1 DEF Rename, WorksOn
    <3>2. CASE t # target[p]
      BY <2>2, <2>3, <2>6, <3>2 DEF Rename
    <3> QED BY <3>1, <3>2
  <2>7. CASE Chown(p)
    <3>1. t # target[p]
      <4>1. saves[target[p]] \in Save
        BY <2>7 DEF Chown, TargetsNotMine
      <4> QED BY <1>2, <2>7, <4>1 DEF Chown, Save
    <3>2. saves'[t] = saves[t] /\ ~WorksOn(p, t)
      BY <2>7, <3>1 DEF Chown, WorksOn
    <3> QED BY <2>2, <3>2
  <2>8. CASE ChownFails(p) \/ Cleanup(p)
    BY <2>2, <2>8 DEF ChownFails, OnChownError, Cleanup, WorksOn
  <2>9. CASE Rollback(p)
    <3>1. CASE saves' = [saves EXCEPT ![target[p]] = None]
      <4>1. t # target[p]
        BY <1>2, <3>1
      <4> QED BY <2>2, <2>9, <3>1, <4>1 DEF Rollback, WorksOn
    <3>2. CASE UNCHANGED saves /\ FailAs(p, "stuck")
      BY <2>2, <2>9, <3>2 DEF Rollback, WorksOn
    <3> QED BY <2>9, <3>1, <3>2 DEF Rollback
  <2>10. CASE Removes(p)
    <3>0. saves[target[p]] # None => saves[target[p]] \in Save
      BY <2>10 DEF Removes, TargetsNotMine
    <3>1. CASE t = target[p]
      <4>1. saves[t] # None /\ ~saves[t].owned
        BY <1>2, <2>10, <3>0, <3>1 DEF Removes, Save
      <4>2. PICK q \in Imports : WorksOn(q, t)
        BY <2>1, <4>1 DEF InstalledAreOwned, WorksOn
      <4>3. WorksOn(q, t)'
        BY <2>10, <4>2 DEF Removes, WorksOn
      <4> QED BY <4>3
    <3>2. CASE t # target[p]
      <4>1. saves'[t] = saves[t] /\ (WorksOn(p, t) => WorksOn(p, t)')
        BY <2>10, <3>2 DEF Removes, WorksOn
      <4> QED BY <2>2, <4>1
    <3> QED BY <3>1, <3>2
  <2> QED BY <2>4, <2>5, <2>6, <2>7, <2>8, <2>9, <2>10 DEF Step
<1> QED BY <1>1, <1>2 DEF InstalledAreOwned, WorksOn

-----------------------------------------------------------------------------
(* An import that is alone.                                                  *)

(* No other request has begun.                                               *)
Alone(p) == \A q \in Imports \ {p} : pc[q] = "start"

(* Where its k-th save is: a region of its own, or where its name says.      *)
Suits(p, k, t) == t \in Regions \/ t = archive[p][k]

(* What it has installed is there, each save handed over.                    *)
Placed(p) ==
  /\ Len(installed[p]) = next[p] - 1 /\ next[p] - 1 <= Len(archive[p])
  /\ \A k \in 1..(next[p] - 1) : /\ Suits(p, k, installed[p][k])
                                 /\ installed[p][k] \in Places
                                 /\ saves[installed[p][k]] = New(p, k, TRUE)

(* What it installs goes to a slot that is none of them.                     *)
Aside(p) ==
  /\ next[p] <= Len(archive[p]) /\ Suits(p, next[p], target[p])
  /\ \A k \in 1..(next[p] - 1) : installed[p][k] # target[p]

Fresh == \A p \in Imports : pc[p] = "start" => next[p] = 1 /\ installed[p] = <<>>

AloneInv ==
  \A p \in Imports : Alone(p) =>
    /\ pc[p] \in {"pick", "clear", "rename", "chown"} => Placed(p)
    /\ pc[p] \in {"clear", "rename", "chown"} => Aside(p)
    /\ pc[p] = "chown" => saves[target[p]] = New(p, next[p], FALSE)

(* Who takes a step has begun, and the others are where they were.           *)
LEMMA StepBegins ==
  ASSUME TypeOK, NEW p \in Imports, Step(p)
  PROVE  /\ pc'[p] # "start" /\ \A r \in Imports \ {p} : ~Alone(r)'
         /\ Alone(p)' => Alone(p)
<1>1. pc'[p] # "start"
  BY DEF TypeOK, Goto, Fail, FailAs, OnChownError, Step, Stage, StageFails, PickRegion,
     NoFreeRegion, KeepName, Removes, Clear, ClearFails, Rename, RenameFails, Chown,
     ChownFails, Rollback, Succeed, Cleanup
<1>2. \A q \in Imports \ {p} : pc'[q] = pc[q]
  BY OthersStay
<1> QED BY <1>1, <1>2 DEF Alone

(* A request that has not begun has installed nothing.                      *)
LEMMA FreshStep ==
  ASSUME TypeOK, Fresh, NEW p \in Imports, Step(p)
  PROVE  Fresh'
<1>1. pc'[p] # "start"
  BY StepBegins
<1>2. \A q \in Imports \ {p} : pc'[q] = pc[q] /\ next'[q] = next[q]
  BY OthersStay
<1>3. \A q \in Imports \ {p} : installed'[q] = installed[q]
  BY DEF TypeOK, Step, Stage, StageFails, PickRegion,
     NoFreeRegion, KeepName, Removes, Clear, ClearFails, Rename, RenameFails, Chown,
     ChownFails, Rollback, Succeed, Cleanup
<1> QED BY <1>1, <1>2, <1>3 DEF Fresh

(* What an import that is alone has installed, and where, when its archive   *)
(* and the saves in those slots stay as they are.                            *)
LEMMA PlacedStays ==
  ASSUME NEW p \in Imports, Placed(p), archive'[p] = archive[p], next'[p] = next[p],
         installed'[p] = installed[p],
         \A k \in 1..(next[p] - 1) : saves'[installed[p][k]] = saves[installed[p][k]]
  PROVE  Placed(p)'
BY DEF Placed, Suits

(* And where it is about to install the next one.                           *)
LEMMA AsideStays ==
  ASSUME NEW p \in Imports, Aside(p), archive'[p] = archive[p], next'[p] = next[p],
         installed'[p] = installed[p], target'[p] = target[p]
  PROVE  Aside(p)'
BY DEF Aside, Suits

(* The slot an import picks is none of those it has filled: they are taken,  *)
(* and no two saves of an archive have the same name.                        *)
LEMMA PickedIsAside ==
  ASSUME Inv, NEW p \in Imports, Placed(p), More(p),
         PickRegion(p) \/ KeepName(p)
  PROVE  Aside(p)'
<1>1. /\ archive'[p] = archive[p] /\ next'[p] = next[p] /\ installed'[p] = installed[p]
      /\ next[p] <= Len(archive[p])
  BY DEF PickRegion, KeepName, More
<1>2. CASE PickRegion(p)
  <2>1. PICK t \in NextFree : target' = [target EXCEPT ![p] = t]
    BY <1>2 DEF PickRegion
  <2>2. target'[p] = t /\ t \in Regions /\ saves[t] = None
    BY <2>1 DEF NextFree, Free, Inv, TypeOK
  <2>3. \A k \in Nat : New(p, k, TRUE) # None
    <3>1. \A k \in Nat : New(p, k, TRUE) \in Save
      BY DEF New, Save
    <3>2. None \notin Save
      BY NoneAssumption
    <3> QED BY <3>1, <3>2
  <2>4. \A k \in 1..(next[p] - 1) : installed[p][k] # t
    <3>1. \A k \in 1..(next[p] - 1) : k \in Nat
      BY DEF Inv, TypeOK
    <3> QED BY <2>2, <2>3, <3>1 DEF Placed
  <2> QED BY <1>1, <2>2, <2>4 DEF Aside, Suits
<1>3. CASE KeepName(p)
  <2> DEFINE a == archive[p]
             t == a[next[p]]
  <2>1. target'[p] = t /\ t # AnyRegion
    BY <1>3 DEF KeepName, Inv, TypeOK
  <2>2. t \notin Regions
    <3>1. t \in Folder
      BY ArchivesAreLists, ElementOfSeq DEF Inv, TypeOK, More, NextIsReal
    <3> HIDE DEF t
    <3> QED BY <2>1, <3>1 DEF Folder, Regions
  <2>3. ASSUME NEW k \in 1..(next[p] - 1), a[k] = t PROVE FALSE
    <3>1. next[p] \in Nat /\ next[p] # 0 /\ Len(a) \in Nat /\ DOMAIN a = 1..Len(a)
      BY ArchivesAreLists DEF Inv, TypeOK, NextIsReal
    <3>2. k \in DOMAIN a /\ next[p] \in DOMAIN a /\ k # next[p]
      BY <1>1, <3>1
    <3>3. a \in Readings
      <4>1. a # <<>>
        BY <3>1, <3>2, EmptySeq
      <4> QED BY <4>1 DEF Inv, TypeOK
    <3> HIDE DEF a
    <3> QED BY <2>1, <2>3, <3>2, <3>3, ReadingsAre
  <2>4. \A k \in 1..(next[p] - 1) : installed[p][k] # t
    BY <2>2, <2>3 DEF Placed, Suits
  <2> QED BY <1>1, <2>1, <2>4 DEF Aside, Suits
<1> QED BY <1>2, <1>3

(* Every step of an import keeps what it has placed when it is alone.        *)
LEMMA AloneStep ==
  ASSUME Inv, Fresh, AloneInv, NEW p \in Imports, Step(p)
  PROVE  AloneInv'
<1>0. TypeOK /\ TargetsNotMine /\ next[p] \in Nat /\ next[p] # 0
  BY DEF Inv, TypeOK, NextIsReal
<1> SUFFICES ASSUME Alone(p)
             PROVE  /\ pc'[p] \in {"pick", "clear", "rename", "chown"} => Placed(p)'
                    /\ pc'[p] \in {"clear", "rename", "chown"} => Aside(p)'
                    /\ pc'[p] = "chown" => saves'[target'[p]] = New(p, next'[p], FALSE)
  BY <1>0, StepBegins DEF AloneInv
<1>a. /\ pc[p] \in {"pick", "clear", "rename", "chown"} => Placed(p)
      /\ pc[p] \in {"clear", "rename", "chown"} => Aside(p)
      /\ pc[p] = "chown" => saves[target[p]] = New(p, next[p], FALSE)
  BY DEF AloneInv
<1> USE DEF Goto, Fail, FailAs
<1>1. CASE Stage(p)
  <2>1. PICK a \in Readings \ {<<>>} : archive' = [archive EXCEPT ![p] = a]
    BY <1>1 DEF Stage
  <2>2. /\ archive'[p] = a /\ next'[p] = 1 /\ installed'[p] = <<>> /\ pc'[p] = "pick"
    BY <1>0, <1>1, <2>1 DEF Stage, TypeOK, Fresh
  <2>3. Len(a) \in Nat /\ Len(<<>>) = 0
    BY ReadingsAre, LenProperties, EmptySeq
  <2> QED BY <2>2, <2>3 DEF Placed
<1>2. CASE StageFails(p) \/ NoFreeRegion(p) \/ ClearFails(p) \/ RenameFails(p)
  BY <1>0, <1>2 DEF StageFails, NoFreeRegion, ClearFails, RenameFails, TypeOK
<1>3. CASE PickRegion(p) \/ KeepName(p)
  <2>1. /\ pc[p] = "pick" /\ pc'[p] = "clear" /\ archive'[p] = archive[p] /\ More(p)
        /\ next'[p] = next[p] /\ installed'[p] = installed[p] /\ saves' = saves
    BY <1>0, <1>3 DEF PickRegion, KeepName, TypeOK
  <2>2. Placed(p)'
    BY <1>a, <2>1, PlacedStays
  <2>3. Aside(p)'
    BY <1>3, <1>a, <2>1, PickedIsAside
  <2> QED BY <2>1, <2>2, <2>3
<1>4. CASE Clear(p)
  <2>1. /\ pc[p] = "clear" /\ pc'[p] = "rename" /\ archive'[p] = archive[p]
        /\ next'[p] = next[p] /\ installed'[p] = installed[p] /\ target'[p] = target[p]
        /\ \A t \in Places : t # target[p] => saves'[t] = saves[t]
    BY <1>0, <1>4 DEF Clear, TypeOK
  <2>2. Placed(p)'
    BY <1>a, <2>1, PlacedStays DEF Placed, Aside
  <2>3. Aside(p)'
    BY <1>a, <2>1, AsideStays
  <2> QED BY <2>1, <2>2, <2>3
<1>5. CASE Rename(p)
  <2>1. /\ pc[p] = "rename" /\ pc'[p] = "chown" /\ archive'[p] = archive[p]
        /\ next'[p] = next[p] /\ installed'[p] = installed[p] /\ target'[p] = target[p]
        /\ \A t \in Places : t # target[p] => saves'[t] = saves[t]
        /\ saves'[target[p]] = New(p, next[p], FALSE)
    BY <1>0, <1>5 DEF Rename, TypeOK, TargetsNotMine
  <2>2. Placed(p)'
    BY <1>a, <2>1, PlacedStays DEF Placed, Aside
  <2>3. Aside(p)'
    BY <1>a, <2>1, AsideStays
  <2> QED BY <2>1, <2>2, <2>3
<1>6. CASE Chown(p)
  <2>1. /\ pc[p] = "chown" /\ pc'[p] = "pick" /\ archive'[p] = archive[p]
        /\ next'[p] = next[p] + 1 /\ installed'[p] = Append(installed[p], target[p])
        /\ \A t \in Places : t # target[p] => saves'[t] = saves[t]
        /\ saves'[target[p]] = [saves[target[p]] EXCEPT !.owned = TRUE]
        /\ target[p] \in Places
    BY <1>0, <1>6 DEF Chown, TypeOK, TargetsNotMine
  <2>2. saves'[target[p]] = New(p, next[p], TRUE)
    <3>1. [New(p, next[p], FALSE) EXCEPT !.owned = TRUE] = New(p, next[p], TRUE)
      <4> DEFINE s == New(p, next[p], FALSE)
                 r == [s EXCEPT !.owned = TRUE]
      <4>1. s \in [of : {p}, nr : {next[p]}, owned : BOOLEAN, whole : {TRUE}]
        BY DEF New
      <4> HIDE DEF s
      <4>2. r \in [of : {p}, nr : {next[p]}, owned : {TRUE}, whole : {TRUE}]
        BY <4>1
      <4> HIDE DEF r
      <4>3. r = New(p, next[p], TRUE)
        BY <4>2 DEF New
      <4> QED BY <4>3 DEF r, s
    <3> QED BY <1>a, <2>1, <3>1
  <2>3. /\ Len(installed'[p]) = next[p] /\ installed'[p][next[p]] = target[p]
        /\ \A k \in 1..(next[p] - 1) : installed'[p][k] = installed[p][k]
    <3>1. installed[p] \in Seq(Places \cup {AnyRegion}) /\ Len(installed[p]) = next[p] - 1
          /\ target[p] \in Places \cup {AnyRegion}
      BY <1>0, <1>a, <2>1 DEF TypeOK, Placed
    <3> QED BY <1>0, <2>1, <3>1, AppendProperties
  <2>4. ASSUME NEW k \in 1..(next'[p] - 1)
        PROVE  /\ Suits(p, k, installed[p][k])' /\ installed'[p][k] \in Places
               /\ saves'[installed'[p][k]] = New(p, k, TRUE)
    <3>1. k \in 1..(next[p] - 1) \/ k = next[p]
      BY <1>0, <2>1
    <3>2. CASE k = next[p]
      BY <1>a, <2>1, <2>2, <2>3, <3>2 DEF Aside, Suits
    <3>3. CASE k \in 1..(next[p] - 1)
      <4>1. /\ installed'[p][k] = installed[p][k] /\ installed[p][k] # target[p]
            /\ Suits(p, k, installed[p][k]) /\ installed[p][k] \in Places
            /\ saves[installed[p][k]] = New(p, k, TRUE)
        BY <1>a, <2>1, <2>3, <3>3 DEF Placed, Aside
      <4> QED BY <2>1, <4>1 DEF Suits
    <3> QED BY <3>1, <3>2, <3>3
  <2>5. next'[p] - 1 = next[p] /\ next[p] <= Len(archive[p])
    BY <1>0, <1>a, <2>1 DEF Aside
  <2> QED BY <2>1, <2>3, <2>4, <2>5 DEF Placed
<1>7. CASE ChownFails(p) \/ Rollback(p) \/ Succeed(p) \/ Cleanup(p)
  BY <1>0, <1>7 DEF ChownFails, OnChownError, Rollback, Succeed, Cleanup, TypeOK
<1>8. CASE Removes(p)
  <2>1. /\ pc[p] \in {"clear", "rollback"} /\ pc'[p] = pc[p] /\ archive'[p] = archive[p]
        /\ next'[p] = next[p] /\ installed'[p] = installed[p] /\ target'[p] = target[p]
        /\ \A t \in Places : t # target[p] => saves'[t] = saves[t]
    BY <1>0, <1>8 DEF Removes, TypeOK
  <2>2. pc[p] = "clear" => Placed(p)'
    BY <1>a, <2>1, PlacedStays DEF Placed, Aside
  <2>3. pc[p] = "clear" => Aside(p)'
    BY <1>a, <2>1, AsideStays
  <2> QED BY <2>1, <2>2, <2>3
<1> QED BY <1>1, <1>2, <1>3, <1>4, <1>5, <1>6, <1>7, <1>8 DEF Step

-----------------------------------------------------------------------------
(* Every state of the save directory, the staging directories and the        *)
(* requests is well typed.                                                   *)
THEOREM ImportTypeCorrect == Spec => []TypeOK
<1>1. Inv => TypeOK
  BY DEF Inv
<1> QED BY <1>1, InitHolds, NextHolds, PTL DEF Spec

(* However many imports run at once, whatever fails and whenever the session *)
(* manager dies, the regions the player had are what they were               *)
(* (saves_import.go:235-268).                                                *)
THEOREM PlayerRegionsSafe == Spec => []PlayerRegionsKept
<1>1. Inv => PlayerRegionsKept
  BY DEF Inv
<1> QED BY <1>1, InitHolds, NextHolds, PTL DEF Spec

(* No request takes away the saves another one has yet to install            *)
(* (saves_import.go:93-109).                                                 *)
THEOREM SourcesAreSafe == Spec => []SourcesStayStaged
<1>1. Init => StagedInv
  BY DEF Init, StagedInv, StagedFor
<1>2. TypeOK /\ StagedInv /\ [Next]_vars => StagedInv'
  <2> SUFFICES ASSUME TypeOK, StagedInv, [Next]_vars PROVE StagedInv'
    OBVIOUS
  <2>1. CASE Crash
    BY <2>1 DEF Crash, StagedInv, StagedFor, TypeOK
  <2>2. CASE UNCHANGED vars
    BY <2>2 DEF vars, StagedInv, StagedFor, StagingOf
  <2> QED BY <2>1, <2>2, StagedStep DEF Next
<1>3. StagedInv => SourcesStayStaged
  BY DEF StagedInv, StagedFor, SourcesStayStaged
<1> QED BY <1>1, <1>2, <1>3, ImportTypeCorrect, PTL DEF Spec

(* A save that was not handed over to the game is one an import still works  *)
(* on, or could not take away, unless the manager died                       *)
(* (saves_import.go:262-269).                                                *)
THEOREM InstalledOrUnderWay == Spec => []InstalledAreOwned
<1>1. Init => StuckInv /\ InstalledAreOwned
  <2> SUFFICES ASSUME Init PROVE StuckInv /\ InstalledAreOwned
    OBVIOUS
  <2>1. \A t \in Places : saves[t] = None \/ saves[t] = Own
    BY DEF Init
  <2> QED BY <2>1, NoneAssumption DEF Init, StuckInv, InstalledAreOwned, Own
<1>2. Inv /\ StuckInv /\ InstalledAreOwned /\ [Next]_vars
        => StuckInv' /\ InstalledAreOwned'
  <2> SUFFICES ASSUME Inv, StuckInv, InstalledAreOwned, [Next]_vars
               PROVE  StuckInv' /\ InstalledAreOwned'
    OBVIOUS
  <2>1. CASE Crash
    <3>1. crashes' # 0
      BY <2>1, MaxCrashesAssumption DEF Crash, Inv, TypeOK
    <3>2. StuckInv'
      BY <2>1 DEF Crash, StuckInv, Inv, TypeOK
    <3> QED BY <3>1, <3>2 DEF InstalledAreOwned
  <2>2. CASE UNCHANGED vars
    BY <2>2 DEF vars, StuckInv, InstalledAreOwned
  <2> QED BY <2>1, <2>2, OwnedStep DEF Next
<1> QED BY <1>1, <1>2, InitHolds, NextHolds, PTL DEF Spec

(* Every archive an import has read was unpacked as it was packed or refused *)
(* for a cause, and its saves are the first ones in it, for archives of any  *)
(* length and depth (saves_import.go:286-306, 375-523).                      *)
THEOREM ArchivesReadRightly == Spec => []UploadsReadRightly
<1>1. UploadsReadRightly
  BY AllRight DEF UploadsReadRightly, AllReadRightly
<1> QED BY <1>1, PTL

(* An import that was alone and succeeds has put each of its saves where it  *)
(* says, and nothing else is there (saves_import.go:270-279).                *)
THEOREM SuccessIsTrue == Spec => AnswerIsTrue
<1> DEFINE I == Inv /\ Fresh /\ AloneInv
<1>1. Init => I
  <2>1. Init => Fresh /\ AloneInv
    BY DEF Init, Fresh, AloneInv
  <2> QED BY <2>1, InitHolds
<1>2. I /\ [Next]_vars => I'
  <2> SUFFICES ASSUME I, [Next]_vars PROVE Fresh' /\ AloneInv'
    BY NextHolds
  <2>1. CASE Crash
    <3>1. /\ \A p \in Imports : pc'[p] = IF pc[p] = "start" THEN "start" ELSE "done"
          /\ UNCHANGED <<saves, archive, next, target, installed>>
      BY <2>1 DEF Crash
    <3> QED BY <3>1 DEF Fresh, AloneInv
  <2>2. CASE UNCHANGED vars
    BY <2>2 DEF vars, Fresh, AloneInv, Alone, Placed, Aside, Suits
  <2>3. CASE \E p \in Imports : Step(p)
    BY <2>3, FreshStep, AloneStep DEF Inv
  <2> QED BY <2>1, <2>2, <2>3 DEF Next
<1>3. I /\ [Next]_vars =>
        \A p \in Imports :
          Succeed(p) /\ (\A q \in Imports \ {p} : pc[q] = "start") =>
            \A k \in DOMAIN archive[p] : saves[installed[p][k]] = New(p, k, TRUE)
  <2> SUFFICES ASSUME I, NEW p \in Imports, Succeed(p), Alone(p),
                      NEW k \in DOMAIN archive[p]
               PROVE  saves[installed[p][k]] = New(p, k, TRUE)
    BY DEF Alone
  <2>1. Placed(p) /\ ~More(p) /\ next[p] \in Nat
    BY DEF Succeed, AloneInv, Inv, TypeOK
  <2>2. Len(archive[p]) \in Nat /\ k \in 1..Len(archive[p])
    BY ArchivesAreLists DEF Inv
  <2>3. k \in 1..(next[p] - 1)
    BY <2>1, <2>2 DEF More
  <2> QED BY <2>1, <2>3 DEF Placed
<1> HIDE DEF I
<1> QED BY <1>1, <1>2, <1>3, PTL DEF Spec, AnswerIsTrue
=============================================================================
