----------------------------- MODULE Manifests -----------------------------
(***************************************************************************)
(* What a manifest may list (src/config_backup.rs: Manifest::validate,     *)
(* check_rel, scan, make_dirs).  A restore writes, as root, to every path  *)
(* of it.  A path is the sequence of what stands between its slashes; an   *)
(* absolute one starts with an empty segment.                              *)
(***************************************************************************)
EXTENDS Naturals, Sequences, SequencesExt, FiniteSets

CONSTANTS
    Names, Transient,   \* names of entries, and those that hold no state of their own
    Empty, Dot, DotDot, \* the segments "", "." and ".."
    FILE_CAP, TOTAL_CAP,
    MAX_DEPTH           \* directories within one another that a walk goes down

ASSUME ManifestsAssumption == MAX_DEPTH \in Nat /\ Names \cap {Empty, Dot, DotDot} = {}

Segments == Names \cup {Empty, Dot, DotDot}

\* Plain relative.
check_rel(p) == Len(p) > 0 /\ \A i \in 1 .. Len(p) : p[i] \in Names

\* split_rel: the directory that holds the path.
DirOf(p) == Front(p)

\* An entry has its path, whether its mode has more than permission bits, and its size.
Entry(p, special, size) == [path |-> p, special |-> special, size |-> size]
PathsOf(entries) == {entries[i].path : i \in 1 .. Len(entries)}
Total(files) == FoldSeq(LAMBDA f, sum : sum + f.size, 0, files)

validate(m) ==
    LET entries == m.dirs \o m.files
        all == 1 .. Len(entries)
    IN  /\ \A i \in all : check_rel(entries[i].path) /\ ~entries[i].special
        /\ \A i, j \in all : entries[i].path = entries[j].path => i = j
        /\ \A i \in all :
              LET parent == DirOf(entries[i].path)
              IN  parent = <<>> \/ parent \in PathsOf(m.dirs)
        /\ \A i \in 1 .. Len(m.files) : m.files[i].size <= FILE_CAP
        /\ Total(m.files) <= TOTAL_CAP

transient(name) == name \in Transient

\* What a capture finds below the config directory, a tree of kinds: no symlinks, and
\* nothing transient or below a directory that is.
scan(tree, kind) ==
    {p \in DOMAIN tree : tree[p] = kind /\ \A i \in 1 .. Len(p) : ~transient(p[i])}

\* A capture of a tree with a deeper directory fails, and writes no manifest.
descend(tree) == \A p \in scan(tree, "dir") : Len(p) <= MAX_DEPTH

\* capture: the directories and the files, each sorted.
ManifestOf(tree, size) ==
    [dirs |-> SetToSeq({Entry(p, FALSE, 0) : p \in scan(tree, "dir")}),
     files |-> SetToSeq({Entry(p, FALSE, size[p]) : p \in scan(tree, "file")})]

\* make_dirs: the fewest slashes first, so that a parent is there when its child is made.
MakeDirs(dirs) ==
    {made \in SetToSeqs(ToSet(dirs)) :
        \A i, j \in 1 .. Len(made) : i < j => Len(made[i].path) <= Len(made[j].path)}

-----------------------------------------------------------------------------
(* What the manifest is for, independently of the above *)

Entries == [path : Seq(Segments), special : BOOLEAN, size : Nat]
Manifest == [dirs : Seq(Entries), files : Seq(Entries)]

\* Where the kernel ends up, starting at the config directory: ".." goes up, an absolute
\* path leaves it.
Outside == <<DotDot>>
Go(at, s) ==
    IF at = Outside \/ s \in {Empty, Dot} THEN at
    ELSE IF s = DotDot THEN (IF at = <<>> THEN Outside ELSE Front(at))
    ELSE Append(at, s)
Walk(p) ==
    LET at[k \in 0 .. Len(p)] ==
            IF k = 0 THEN (IF p[1] = Empty THEN Outside ELSE <<>>) ELSE Go(at[k - 1], p[k])
    IN  at[Len(p)]

\* A tree below the config directory: each entry leads to a place below it that no other
\* leads to, every directory on the way is listed and no file is on it, and each order
\* that make_dirs may take makes a parent before its children.
IsATree(m) ==
    LET entries == m.dirs \o m.files
        place(i) == Walk(entries[i].path)
        all == 1 .. Len(entries)
    IN  /\ \A i \in all : place(i) \notin {Outside, <<>>}
        /\ \A i, j \in all : place(i) = place(j) => i = j
        /\ \A i \in all : \A k \in 1 .. Len(place(i)) - 1 :
              /\ SubSeq(place(i), 1, k) \in PathsOf(m.dirs)
              /\ SubSeq(place(i), 1, k) \notin PathsOf(m.files)
        /\ \A made \in MakeDirs(m.dirs) : \A i \in 1 .. Len(made) :
              Len(made[i].path) > 1 =>
                 \E j \in 1 .. i - 1 : made[j].path = DirOf(made[i].path)

\* What may be below a config directory: what is there has its parent.
IsContent(tree) ==
    /\ IsFiniteSet(DOMAIN tree) /\ DOMAIN tree \subseteq Seq(Names) \ {<<>>}
    /\ \A p \in DOMAIN tree :
          tree[p] # "none" /\ Len(p) > 1 => Front(p) \in DOMAIN tree /\ tree[Front(p)] = "dir"
====
