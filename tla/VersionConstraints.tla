-------------------------- MODULE VersionConstraints --------------------------
(***************************************************************************)
(* Version constraints as tfls-core evaluates them, and the gate the       *)
(* deprecation rules put in front of a suggestion: a construct is reported *)
(* as superseded only when its replacement exists in every version the     *)
(* module may run.                                                         *)
(*                                                                         *)
(* A version is its key: major, minor, patch, stability (1 for a release,  *)
(* 0 for a pre-release) and the rank of the pre-release tag.  A constraint *)
(* keeps the operator, the key of its version, and the number of segments  *)
(* that were written, which only `~>` looks at.                            *)
(***************************************************************************)
EXTENDS Integers

Ops == {"=", "!=", ">", ">=", "<", "<=", "~>"}

VersionKey == [major : Nat, minor : Nat, patch : Nat,
               stability : {0, 1}, pre : Nat]

Constraint == [op : Ops, version : VersionKey, segments : 1..3]

\* The order of the keys: field by field, a pre-release before its release.
Below(v, w) ==
    \/ v.major < w.major
    \/ /\ v.major = w.major
       /\ \/ v.minor < w.minor
          \/ /\ v.minor = w.minor
             /\ \/ v.patch < w.patch
                \/ /\ v.patch = w.patch
                   /\ \/ v.stability < w.stability
                      \/ v.stability = w.stability /\ v.pre < w.pre

AtLeast(v, w) == ~Below(v, w)

\* A pre-release satisfies a range only when the operand is a pre-release too
\* or has the same core.
PreExcluded(c, v) ==
    /\ v.stability = 0
    /\ c.version.stability = 1
    /\ \/ v.major # c.version.major
       \/ v.minor # c.version.minor
       \/ v.patch # c.version.patch

PessimisticMatches(c, v) ==
    /\ AtLeast(v, c.version)
    /\ c.segments >= 2 => v.major = c.version.major
    /\ c.segments >= 3 => v.minor = c.version.minor

SatisfiesOne(c, v) ==
    \/ c.op = "=" /\ v = c.version
    \/ c.op = "!=" /\ v # c.version
    \/ /\ ~PreExcluded(c, v)
       /\ \/ c.op = ">" /\ Below(c.version, v)
          \/ c.op = ">=" /\ AtLeast(v, c.version)
          \/ c.op = "<" /\ Below(v, c.version)
          \/ c.op = "<=" /\ AtLeast(c.version, v)
          \/ c.op = "~>" /\ PessimisticMatches(c, v)

SatisfiesAll(cs, v) == \A c \in cs : SatisfiesOne(c, v)

\* Faulty: an upper bound counts as one from below.
AllBounds(cs) == {c.version : c \in {k \in cs : k.op # "!="}}

\* The versions min_admitted_version takes the largest of.
LowerBounds(cs) == {c.version : c \in {k \in cs : k.op \in {"=", ">", ">=", "~>"}}}

\* The gate: the largest lower bound reaches the threshold exactly when some
\* lower bound does.  A module that states no constraint is not held back.
Supports(cs, threshold) ==
    cs = {} \/ \E bound \in LowerBounds(cs) : AtLeast(bound, threshold)
=============================================================================
