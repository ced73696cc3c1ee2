------------------------------- MODULE Overlay -------------------------------
(***************************************************************************)
(* rootfs/overlay.rs: the layers that the annotations of a bundle name,    *)
(* what is refused before the container is forked, and the mount, whose    *)
(* options have to fit into a page.                                        *)
(*                                                                         *)
(* A path is the sequence of its components and may be absent (<<>>) or    *)
(* given (<<path>>) where the code has an Option.                          *)
(***************************************************************************)
EXTENDS Integers, Sequences, SequencesExt

CONSTANT MAX_OPTION_BYTES
ASSUME MaxOptionAssumption == MAX_OPTION_BYTES \in Nat

MIN_READONLY_LOWER == 2

\* The host: a directory that is not there, a second file system, a symbolic link to /l.
IsDirectory(path) == ~Contains(path, "gone")
Device(path) == IF Contains(path, "other") THEN 2 ELSE 1
canonicalize(path) == IF path # <<>> /\ path[1] = "alias" THEN <<"l">> \o Tail(path) ELSE path

Overlap(p, q) == IsPrefix(p, q) \/ IsPrefix(q, p)

-----------------------------------------------------------------------------
(***************************************************************************)
(* From the annotations.                                                   *)
(***************************************************************************)
absolute(bundle, dir) == IF dir.absolute THEN dir.path ELSE bundle \o dir.path

\* Blank lowerdir is none; one of separators alone lists no directory.
annotations_ok(a) == IF a.lower = <<>> THEN a.upper = <<>> /\ a.work = <<>> ELSE a.lower[1] # <<>>

from_annotations(a, bundle) ==
    LET Abs(dirs) == [i \in 1..Len(dirs) |-> absolute(bundle, dirs[i])]
    IN  [lower |-> Abs(a.lower[1]), upper |-> Abs(a.upper), work |-> Abs(a.work)]

is_readonly(l) == l.upper = <<>>

Directories(l) == l.lower \o l.upper \o l.work

-----------------------------------------------------------------------------
(***************************************************************************)
(* Before the fork.  The upper and work directories are made, and are      *)
(* compared by what they really are.                                       *)
(***************************************************************************)
check_same_filesystem(upper, work) == Device(upper) = Device(work)
check_not_nested(upper, work) == ~Overlap(upper, work)

prepare(l) ==
    /\ \A dir \in ToSet(l.lower) : IsDirectory(dir)
    /\ \/ is_readonly(l) /\ l.work = <<>> /\ Len(l.lower) >= MIN_READONLY_LOWER
       \/ /\ ~is_readonly(l) /\ l.work # <<>>
          /\ LET upper == canonicalize(l.upper[1])
                 work == canonicalize(l.work[1])
             IN  /\ check_same_filesystem(upper, work) /\ check_not_nested(upper, work)
                 /\ \A dir \in ToSet(l.lower) : ~Overlap(canonicalize(dir), upper)

\* The mount point: an empty directory, made when it is not there.
prepare_merged(rootPath) == rootPath \in {"gone", "empty"}

-----------------------------------------------------------------------------
(***************************************************************************)
(* The option string, of which only the length and the forbidden commas    *)
(* matter.  A name counts one byte, a name with a colon two: it is escaped.*)
(***************************************************************************)
escape_ok(path) == ~Contains(path, "com,ma")

Bytes(path, separators) ==
    FoldLeft(LAMBDA n, name : n + IF name = "co:lon" THEN 2 ELSE 1, separators, path)

options_ok(l) == \A dir \in ToSet(Directories(l)) : escape_ok(dir)

\* An absolute path has one separator more than a relative one.
options_length(l, abs) ==
    FoldLeft(LAMBDA n, dir : n + 1 + Bytes(dir, Len(dir) - IF abs THEN 0 ELSE 1), 0, Directories(l))

common_parent(l) == LongestCommonPrefix({Front(dir) : dir \in ToSet(Directories(l))})

relative_to(l, base) ==
    LET Strip(dirs) == [i \in 1..Len(dirs) |-> SubSeq(dirs[i], Len(base) + 1, Len(dirs[i]))]
    IN  [lower |-> Strip(l.lower), upper |-> Strip(l.upper), work |-> Strip(l.work)]

TooLong(l) == options_length(l, TRUE) > MAX_OPTION_BYTES

\* overlayfs: what names what, from the working directory of the caller, and which layers it
\* takes: no two of them inside one another.
Resolved(l, cwd) == 
    LET From(dirs) == [i \in 1..Len(dirs) |-> cwd \o dirs[i]]
    IN  [lower |-> From(l.lower), upper |-> From(l.upper), work |-> From(l.work)]

KernelTakes(l) ==
    LET dirs == Directories(l)
    IN  \A i, j \in 1..Len(dirs) :
            i # j => ~Overlap(canonicalize(dirs[i]), canonicalize(dirs[j]))

\* Variant: the caller does not go to the common parent.
mount_at_staying(l) ==
    LET data == IF TooLong(l) THEN relative_to(l, common_parent(l)) ELSE l
    IN  [ok |-> options_ok(l), mounted |-> Resolved(data, <<>>)]

\* The mount, made from "/" or, when the options are too long, from the common parent of all
\* directories; afterwards the caller is at "/" again.
mount_at(l) ==
    LET base == IF TooLong(l) THEN common_parent(l) ELSE <<>>
        data == relative_to(l, base)
    IN  [ok |-> /\ options_ok(l)
                /\ TooLong(l) => options_length(data, FALSE) <= MAX_OPTION_BYTES
                /\ KernelTakes(Resolved(data, base)),
         mounted |-> Resolved(data, base)]
=============================================================================
