----------------------------- MODULE PreviousTag -----------------------------
(***************************************************************************)
(* What previous-git-version promises (spec.md 4.3, 5, 6 and 7), as one    *)
(* step: an invocation given sys.argv[1:] and a repository whose tags git  *)
(* lists in some order ends with one outcome, chosen among those the       *)
(* specification allows.  The outcome is the tag printed or the kind of    *)
(* error reported, not the wording of the message.                         *)
(*                                                                         *)
(* Ties are left open: when several tags of the target series share the    *)
(* newest version (v1.3.4 and v1.03.4), any one of them may be printed.    *)
(***************************************************************************)
EXTENDS Version, Integers, Sequences

CONSTANTS
  Parse(_),     \* the version parser of spec.md 4.1
  Strings,      \* the strings arguments and tag names are drawn from
  TagV1_0_20,   \* "v1.0.20"
  TagV1_1_1,    \* "v1.1.1"
  Argvs,        \* the sys.argv[1:] an invocation may be given
  Listings,     \* the tag lists the source may provide, in its order
  GitFaults     \* the ways the tag source may fail; {} if it cannot

VARIABLES
  argv,         \* sys.argv[1:]
  gitTags,      \* the repository's tags, as the source lists them
  outcome       \* None while running, then the outcome of the invocation

absVars == <<argv, gitTags, outcome>>

\* An outcome: the kind of error with its series, or "Tag" with the name.
Out(kind, arg) == [kind |-> kind, arg |-> arg]

RepoOf(g) == {g[i] : i \in DOMAIN g}

\* The target series of the table of 4.3: <<M, m>> is v{M}.{m}.x, <<M>> v{M}.x.y.
TargetSeries(v) ==
  IF VersionLt(v, <<1, 2, 0>>) THEN <<1, 1>>
  ELSE IF VersionLt(v, <<2, 0, 0>>) THEN <<1, v[2] - 1>>
  ELSE <<v[1] - 1>>

InSeries(ver, series) ==
  /\ ver # None
  /\ ver[1] = series[1]
  /\ Len(series) = 2 => ver[2] = series[2]

\* The tags of T whose version no tag of T exceeds.
Newest(T) == {t \in T : \A u \in T : ~VersionLt(Parse(t), Parse(u))}

\* The outcomes of the tag search for version v in the repository R.
Resolved(v, R) ==
  LET S   == TargetSeries(v)
      InS == {t \in R : InSeries(Parse(t), S)}
  IN  IF \A t \in R : Parse(t) = None THEN {Out("NoValidTags", <<>>)}
      ELSE IF InS = {} THEN {Out("NotFound", S)}
      ELSE {Out("Tag", t) : t \in Newest(InS)}

\* A failure of the tag source is fatal (spec.md 5).
SourceFailures == IF GitFaults = {} THEN {} ELSE {Out("SourceFailed", <<>>)}

\* The outcomes spec.md allows for arguments a and the listing g.
Outcomes(a, g) ==
  IF Len(a) # 1 THEN {Out("Usage", <<>>)}
  ELSE IF Parse(a[1]) = None THEN {Out("Format", <<>>)}
  ELSE IF VersionLt(Parse(a[1]), <<1, 1, 1>>) THEN {Out("Tag", TagV1_0_20)}
  ELSE IF VersionLt(Parse(a[1]), <<1, 1, 5>>) THEN {Out("Tag", TagV1_1_1)}
  ELSE SourceFailures \cup Resolved(Parse(a[1]), RepoOf(g))

AbsInit ==
  /\ argv \in Argvs
  /\ gitTags \in Listings
  /\ outcome = None

\* The invocation runs to its end.
Resolve ==
  /\ outcome = None
  /\ outcome' \in Outcomes(argv, gitTags)
  /\ UNCHANGED <<argv, gitTags>>

AbsSpec == AbsInit /\ [][Resolve]_absVars

=============================================================================
