---------------------------- MODULE ArchiveUnpack ----------------------------
(***************************************************************************)
(* What an uploaded archive becomes: extractZip and extractTarGz write its  *)
(* entries into an empty directory, one after another and within a budget   *)
(* of bytes, and findSaveRoot looks for the saves in what they wrote.       *)
(*                                                                         *)
(* A name is a natural number, in the order of os.ReadDir; a path is a      *)
(* sequence of names.  An entry is of type "skip" when its cleaned name is  *)
(* "." or one isMetadataEntry knows, "bad" when validateEntryName refuses   *)
(* it, "other" when it is neither a file nor a directory.                   *)
(***************************************************************************)
EXTENDS Integers, Sequences, FiniteSets

CONSTANTS
  Uploads,      \* the archives clients upload: sequences of entries
  Cap,          \* maxImportExtractBytes
  MaxDepth,     \* how deep findSaveRoot looks, 5 in the code
  WorldSav,     \* the name world.sav
  RegionNames   \* the names regionDirRe matches

EntryTypes == {"skip", "bad", "other", "dir", "file"}
Entry == [type : EntryTypes, path : Seq(Nat) \ {<<>>}, size : Nat]

ASSUME UploadsAssumption == Uploads \subseteq Seq(Entry)
ASSUME CapAssumption == Cap \in Nat \ {0}
ASSUME MaxDepthAssumption == MaxDepth \in Nat
ASSUME NamesAssumption == WorldSav \in Nat /\ RegionNames \subseteq Nat

-----------------------------------------------------------------------------
(* The entries, one by one, in the order of the archive.                     *)

Empty == [ok |-> TRUE, files |-> <<>>, dirs |-> {}, bytes |-> 0, count |-> 0]

Heads(path) == {SubSeq(path, 1, n) : n \in 1..Len(path)}
Parents(path) == Heads(path) \ {path}

(* Mistake: a file that just fits is refused.                                *)
OverOrEqual(limit, size) == limit <= 0 \/ size >= limit
(* writeLimitedReader: nothing is written once the budget is spent, not even *)
(* an empty file.                                                            *)
OverBudget(limit, size) == limit <= 0 \/ size > limit

(* os.MkdirAll and os.OpenFile: a file is no directory, nor the other way.   *)
Clashes(t, e) ==
  \/ e.type = "dir" /\ Heads(e.path) \cap DOMAIN t.files # {}
  \/ e.type = "file" /\ Parents(e.path) \cap DOMAIN t.files # {}
  \/ e.type = "file" /\ e.path \in t.dirs

Refuses(t, e) ==
  \/ e.type \in {"bad", "other"} \/ Clashes(t, e)
  \/ e.type = "file" /\ OverBudget(Cap - t.bytes, e.size)

(* A file of the same name is truncated and written anew.                    *)
Written(t, e) ==
  [t EXCEPT !.files = [p \in DOMAIN @ \cup {e.path} |->
                         IF p = e.path THEN e.size ELSE @[p]],
            !.dirs = @ \cup Parents(e.path),
            !.bytes = @ + e.size, !.count = @ + 1]

Extract(t, e) ==
  CASE ~t.ok \/ e.type = "skip" -> t
    [] t.ok /\ Refuses(t, e) -> [t EXCEPT !.ok = FALSE]
    [] t.ok /\ e.type = "dir" /\ ~Refuses(t, e) ->
         [t EXCEPT !.dirs = @ \cup Heads(e.path)]
    [] t.ok /\ e.type = "file" /\ ~Refuses(t, e) -> Written(t, e)

(* What is there after the first entries.                                    *)
After(u) ==
  LET after[n \in 0..Len(u)] == IF n = 0 THEN Empty ELSE Extract(after[n - 1], u[n])
  IN  after
Unpacked(u) == After(u)[Len(u)]

-----------------------------------------------------------------------------
(* The search for the saves.                                                 *)

Names(t, d) == {p[Len(p)] : p \in {q \in t.dirs : q = Append(d, q[Len(q)])}}

(* dfSaveDirsIn: hasSaveFile takes whatever has the name world.sav.          *)
SavesIn(t, d) ==
  {n \in Names(t, d) : d \o <<n, WorldSav>> \in DOMAIN t.files \cup t.dirs}

Least(S) == CHOOSE n \in S : \A m \in S : n <= m

(* What findSaveRoot finds in a directory, as the set of its result, when    *)
(* below[n] is what it finds in the directory n of this one.                 *)
Found(t, d, below) ==
  LET hits == {n \in DOMAIN below : below[n] # {}}
  IN  IF SavesIn(t, d) # {} THEN {d}
      ELSE IF hits = {} THEN {} ELSE below[Least(hits)]

(* What it finds in each directory, when deeper[d] is what it finds in d     *)
(* with one level less to go.                                                *)
FoundAt(t, depth, deeper) ==
  [d \in t.dirs \cup {<<>>} |->
     Found(t, d, [n \in IF depth = 0 THEN {} ELSE Names(t, d) |->
                    deeper[Append(d, n)]])]
Find(t) ==
  LET find[depth \in 0..MaxDepth] == FoundAt(t, depth, find[depth - 1])
  IN  find
SaveRoot(t) == Find(t)[MaxDepth][<<>>]

Saves(t) == UNION {SavesIn(t, d) : d \in SaveRoot(t)}

(* The saves of an archive in the order of their names, none when it is      *)
(* refused.  For the installation a save is a region, which gets a number    *)
(* that is free, or one that keeps its name.                                 *)
Nth(S, n) == CHOOSE m \in S : Cardinality({k \in S : k < m}) = n - 1
AnyRegion == [region |-> TRUE, nr |-> 0]
FolderOf(name) ==
  IF name \in RegionNames THEN AnyRegion ELSE [region |-> FALSE, nr |-> name]
FoldersOf(u) ==
  LET t == Unpacked(u)
      S == IF t.ok THEN Saves(t) ELSE {}
  IN  [n \in 1..Cardinality(S) |-> FolderOf(Nth(S, n))]

Readings == {FoldersOf(u) : u \in Uploads}

-----------------------------------------------------------------------------
(* What it should be, without going through the entries one by one.          *)

FilesOf(u) == {i \in DOMAIN u : u[i].type = "file"}
PathsOf(u) == {u[i].path : i \in FilesOf(u)}
ParentsOf(u) == UNION {Parents(p) : p \in PathsOf(u)}
DirsOf(u) == UNION {Heads(u[i].path) : i \in {j \in DOMAIN u : u[j].type = "dir"}}
SizeOf(e) == IF e.type = "file" THEN e.size ELSE 0
(* How many bytes the first entries have.                                    *)
Totals(u) ==
  LET sum[n \in 0..Len(u)] == IF n = 0 THEN 0 ELSE sum[n - 1] + SizeOf(u[n])
  IN  sum
LastOf(u, p) == CHOOSE i \in FilesOf(u) :
                  u[i].path = p /\ \A j \in FilesOf(u) : u[j].path = p => j <= i

(* An archive that is accepted is there as it was packed: its files, each as *)
(* its last entry has it, their directories, and no more bytes than the cap. *)
AcceptedAsPacked(u) ==
  LET t == Unpacked(u)
  IN  t.ok =>
        /\ t.files = [p \in PathsOf(u) |-> u[LastOf(u, p)].size]
        /\ t.dirs = ParentsOf(u) \cup DirsOf(u) /\ t.dirs \cap PathsOf(u) = {}
        /\ t.bytes = Totals(u)[Len(u)] /\ t.bytes <= Cap
        /\ t.count = Cardinality(FilesOf(u))

(* An archive is refused for a bad entry, for two entries that cannot both   *)
(* be there, for its size, or for a file that comes when the cap is reached. *)
RefusedForCause(u) ==
  ~Unpacked(u).ok =>
    \/ \E i \in DOMAIN u : u[i].type \in {"bad", "other"}
    \/ \E i \in FilesOf(u), j \in DOMAIN u :
         \/ u[j].type = "file" /\ u[i].path \in Parents(u[j].path)
         \/ u[j].type = "dir" /\ u[i].path \in Heads(u[j].path)
    \/ Totals(u)[Len(u)] > Cap
    \/ \E i \in FilesOf(u) : Totals(u)[i - 1] = Cap

(* d comes before e where directories are listed depth first, in order.      *)
Alike(d, e, n) == \A i \in 1..n : d[i] = e[i]
Before(d, e) ==
  \/ Len(d) < Len(e) /\ Alike(d, e, Len(d))
  \/ \E n \in DOMAIN d \cap DOMAIN e : d[n] < e[n] /\ Alike(d, e, n - 1)

(* The saves taken are those of the first directory that has any.            *)
FirstRootTaken(u) ==
  LET t == Unpacked(u)
      roots == {d \in t.dirs \cup {<<>>} : Len(d) <= MaxDepth /\ SavesIn(t, d) # {}}
  IN  SaveRoot(t) = {d \in roots : \A e \in roots \ {d} : Before(d, e)}

ReadRightly(u) == AcceptedAsPacked(u) /\ RefusedForCause(u) /\ FirstRootTaken(u)
=============================================================================
