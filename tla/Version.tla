------------------------------ MODULE Version ------------------------------
(***************************************************************************)
(* The data model shared by both scripts of contrib/localnet/scripts: a    *)
(* version is the triple (major, minor, patch) that parse_version and      *)
(* parse_major_minor_patch return, and versions are compared the way       *)
(* Python compares tuples, lexicographically.                              *)
(***************************************************************************)
EXTENDS Naturals

\* Python's None, returned by the parsers for a string of no valid form and
\* used for "not yet set" in the program models.
CONSTANT None

Version == Nat \X Nat \X Nat

ASSUME NoneAssumption == None \notin Version

\* Python's (a1, a2, a3) < (b1, b2, b3) on tuples of integers.
VersionLt(a, b) ==
  \/ a[1] < b[1]
  \/ a[1] = b[1] /\ a[2] < b[2]
  \/ a[1] = b[1] /\ a[2] = b[2] /\ a[3] < b[3]

VersionLeq(a, b) == a = b \/ VersionLt(a, b)

=============================================================================
