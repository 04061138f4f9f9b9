------------------------------- MODULE Paths -------------------------------
(***************************************************************************)
(* Paths, mount points and permissions (fs.rs, mount.rs).  A path string   *)
(* is the sequence of its components as split at '/', so that "/a" is      *)
(* <<"", "a">> and "a/.." is <<"a", "..">>; a normalized path is the       *)
(* sequence of its names, <<>> for "/".                                    *)
(***************************************************************************)
EXTENDS Naturals, Sequences, SequencesExt

StartsWithSlash(p) == Len(p) > 1 /\ p[1] = ""

\* Mistake: ".." at the root is kept for later.
StepUpUnchecked(done, c) ==
    IF c \in {"", "."} THEN done
    ELSE IF c = ".." /\ done # <<>> /\ Last(done) # ".." THEN Front(done)
    ELSE Append(done, c)

\* One turn of normalize_path's loop.
StepUp(done, c) ==
    IF c \in {"", "."} THEN done
    ELSE IF c = ".." THEN IF done = <<>> THEN done ELSE Front(done)
    ELSE Append(done, c)

NormalizePath(p) == FoldLeft(StepUp, <<>>, p)

\* An absolute path as it is, any other behind the working directory.
ResolvePath(cwd, p) ==
    IF StartsWithSlash(p) THEN NormalizePath(p) ELSE NormalizePath(<<"">> \o cwd \o p)

\* The first mount whose point is the path or a directory above it.
ResolveMount(mounts, path) ==
    LET hits == {k \in 1 .. Len(mounts) : IsPrefix(mounts[k].point, path)}
        k == CHOOSE h \in hits : \A g \in hits : h <= g
    IN  IF hits = {} THEN [type |-> "none", rel |-> path]
        ELSE [type |-> mounts[k].type,
              rel |-> SubSeq(path, Len(mounts[k].point) + 1, Len(path))]

\* The part before the last '/' and the part after it; the root of a mount
\* has the empty name.
ParentOf(rel) == IF rel = <<>> THEN <<>> ELSE Front(rel)
NameOf(rel) == IF rel = <<>> THEN "" ELSE Last(rel)

(***************************************************************************)
(* Permissions: a mode gives owner, group and others their rights          *)
(***************************************************************************)

Mode(u, g, o) == [u |-> u, g |-> g, o |-> o]
DefaultFileMode == Mode({"r", "w"}, {"r"}, {"r"})
DefaultDirMode == Mode({"r", "w", "x"}, {"r", "x"}, {"r", "x"})

\* can_read, can_write, can_exec: root needs the right somewhere, anyone else
\* in the one class that is theirs.
Can(right, who, uid, gid, mode) ==
    right \in IF who.uid = 0 THEN mode.u \cup mode.g \cup mode.o
              ELSE IF who.uid = uid THEN mode.u
              ELSE IF who.gid = gid THEN mode.g
              ELSE mode.o

=============================================================================
