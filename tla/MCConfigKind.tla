--------------------------- MODULE MCConfigKind ---------------------------
(* ConfigKind for TLC: the server's container, which mounts the volume by its *)
(* name, and another that mounts it by its path; and a check of Manifests     *)
(* over small manifests and trees.                                            *)
EXTENDS ConfigKind, Manifests, TLC

CONSTANTS server, other, users, tokens, acme, lock

MCMounts == (server :> "name") @@ (other :> "path")

UpTo(set, n) == UNION {[1 .. k -> set] : k \in 0 .. n}
SmallPaths == {<<s>> : s \in Segments} \cup (Segments \X Segments)
SmallEntries == {Entry(p, FALSE, 1) : p \in SmallPaths}
                \cup {Entry(<<acme>>, TRUE, 1), Entry(<<acme, lock, acme>>, FALSE, 1),
                      Entry(<<acme, lock, DotDot>>, FALSE, TOTAL_CAP), Entry(<<lock>>, FALSE, FILE_CAP)}
SmallManifests == [dirs : UpTo(SmallEntries, 2), files : UpTo(SmallEntries, 1)]

\* An accepted manifest is a tree, and there is an order in which to make its
\* directories (Manifest::validate, make_dirs).
ASSUME AcceptedManifests ==
    \A m \in SmallManifests : validate(m) => IsATree(m) /\ MakeDirs(m.dirs) # {}

\* Every tree two levels deep of files, directories and links.
TreePaths == {<<s>> : s \in Names} \cup (Names \X Names)
Trees2 == {t \in [TreePaths -> {"none", "file", "dir", "link"}] :
              \A p \in TreePaths : Len(p) > 1 /\ t[p] # "none" => t[Front(p)] = "dir"}

\* Whatever is in a config directory that a capture can walk, its backup can be restored:
\* the manifest that the capture writes is accepted (scan, descend, capture_with,
\* Manifest::validate).
ASSUME CapturedManifests ==
    \A t \in Trees2 :
        IsContent(t) /\ (descend(t) => validate(ManifestOf(t, [p \in TreePaths |-> 1])))
=============================================================================
