------------------------- MODULE PreviousGitVersion -------------------------
(***************************************************************************)
(* get_previous_git_version.py: one invocation of main(), which reads its  *)
(* argument, answers the versions below v1.1.5 with a fixed tag, and for   *)
(* the others lists the repository's tags with `git tag --list` and picks  *)
(* the newest tag of the series the threshold ladder derives.              *)
(*                                                                         *)
(* The parser is a parameter, Parse, so that this module can be reasoned   *)
(* about for every parser returning None or a version; the model-checking  *)
(* modules instantiate it with VersionParser's parse_major_minor_patch.    *)
(***************************************************************************)
EXTENDS Version, Integers, Sequences

CONSTANTS
  Parse(_),     \* parse_major_minor_patch
  Strings,      \* the strings arguments and tag names are drawn from
  EmptyLine,    \* the empty string ""
  TagV1_0_20,   \* the string "v1.0.20" printed by rule 1
  TagV1_1_1,    \* the string "v1.1.1" printed by rule 2
  Argvs,        \* the sys.argv[1:] the invocation may be given
  Listings,     \* the tag lists `git tag --list` may print, in its order
  GitFaults     \* how running git may fail: "NonZeroExit", "NotRunnable"

ASSUME ParseAssumption ==
  \A s \in Strings : Parse(s) \in Version \cup {None}

\* Every pattern starts with "v": the empty line of an empty listing is no tag.
ASSUME EmptyLineAssumption == Parse(EmptyLine) = None

ASSUME StringsAssumption ==
  /\ {EmptyLine, TagV1_0_20, TagV1_1_1} \subseteq Strings
  /\ Argvs \subseteq Seq(Strings)
  /\ Listings \subseteq Seq(Strings)
  /\ GitFaults \subseteq {"NonZeroExit", "NotRunnable"}

VARIABLES
  argv,       \* sys.argv[1:]
  gitTags,    \* the tags `git tag --list` prints for this repository
  pc,         \* "main", "tags" (at the git call), "search", "exited"
  parsed,     \* main's `parsed`, None before and if parsing fails
  tags,       \* get_all_version_tags(): <<[name, ver]>> in git's order
  stdout,     \* the line printed, None if none
  stderr,     \* the error reported, None if none
  exitCode    \* the exit status, None while running

vars == <<argv, gitTags, pc, parsed, tags, stdout, stderr, exitCode>>

Tag == [name : Strings, ver : Version]

\* fail() messages, the not-found one naming the series v{M}.{m}.x or v{M}.x.y,
\* and the traceback Python prints for an exception nobody catches.
Err(k) == [kind |-> k, series |-> <<>>]

NotFound(series) == [kind |-> "NotFound", series |-> series]

Series == (Int \X Int) \cup [1..1 -> Int]

ErrorKinds ==
  {"Usage", "Format", "SourceFailed", "NoValidTags", "InvalidMinor",
   "MajorBelowOne", "Traceback"}

Errors == [kind : ErrorKinds, series : {<<>>}] \cup [kind : {"NotFound"}, series : Series]

\* None, Python's None, is neither a string nor an error message.
ASSUME NoneDistinctAssumption == None \notin Strings \cup Errors

TypeOK ==
  /\ argv \in Argvs
  /\ gitTags \in Seq(Strings)
  /\ pc \in {"main", "tags", "search", "exited"}
  /\ parsed \in Version \cup {None}
  /\ DOMAIN tags \subseteq Nat
  /\ tags \in [DOMAIN tags -> Tag]
  /\ stdout \in Strings \cup {None}
  /\ stderr \in Errors \cup {None}
  /\ exitCode \in {None, 0, 1}

Init ==
  /\ argv \in Argvs
  /\ gitTags \in Listings
  /\ pc = "main"
  /\ parsed = None
  /\ tags = <<>>
  /\ stdout = None
  /\ stderr = None
  /\ exitCode = None

\* fail(msg), and print(...) followed by return: the process ends.
Fail(e) ==
  /\ stderr' = e /\ exitCode' = 1 /\ pc' = "exited"
  /\ UNCHANGED stdout

Answer(s) ==
  /\ stdout' = s /\ exitCode' = 0 /\ pc' = "exited"
  /\ UNCHANGED stderr

\* main() up to the git call: the argument check, parsing, rules 1 and 2.
Main ==
  /\ pc = "main"
  /\ UNCHANGED <<argv, gitTags, tags>>
  /\ \/ /\ Len(argv) # 1
        /\ Fail(Err("Usage")) /\ UNCHANGED parsed
     \/ /\ Len(argv) = 1
        /\ parsed' = Parse(argv[1])
        /\ IF parsed' = None THEN Fail(Err("Format"))
           ELSE IF VersionLt(parsed', <<1, 1, 1>>) THEN Answer(TagV1_0_20)
           ELSE IF VersionLt(parsed', <<1, 1, 5>>) THEN Answer(TagV1_1_1)
           ELSE pc' = "tags" /\ UNCHANGED <<stdout, stderr, exitCode>>

\* output.strip().split("\n") of what git prints: one name per line, each
\* ended by a newline; an empty repository prints "", which gives [""].
Lines(listing) == IF listing = <<>> THEN <<EmptyLine>> ELSE listing

\* Mutant: every line is appended, the `is not None` check dropped.
VersionTagsUnchecked(lines) ==
  [i \in DOMAIN lines |-> [name |-> lines[i], ver |-> Parse(lines[i])]]

\* The loop of get_all_version_tags: the lines that parse, with their
\* version.  The list `results` is represented by the positions its entries
\* have in git's output, which keeps their order.
VersionTags(lines) ==
  [i \in {j \in DOMAIN lines : Parse(lines[j]) # None} |->
     [name |-> lines[i], ver |-> Parse(lines[i])]]

\* tags = get_all_version_tags() and the check that follows it.  git exiting
\* non-zero raises CalledProcessError, which is caught; git that cannot be
\* started (FileNotFoundError) or whose output is not UTF-8
\* (UnicodeDecodeError) raises an exception nothing catches.
GetAllVersionTags ==
  /\ pc = "tags"
  /\ UNCHANGED <<argv, gitTags, parsed>>
  /\ \/ /\ "NonZeroExit" \in GitFaults
        /\ Fail(Err("SourceFailed")) /\ UNCHANGED tags
     \/ /\ "NotRunnable" \in GitFaults
        /\ Fail(Err("Traceback")) /\ UNCHANGED tags
     \/ /\ tags' = VersionTags(Lines(gitTags))
        /\ IF DOMAIN tags' = {}
             THEN Fail(Err("NoValidTags"))
             ELSE pc' = "search" /\ UNCHANGED <<stdout, stderr, exitCode>>

\* candidates.sort(key=...); candidates[-1] is entry i of the candidate
\* positions C, where Below holds the pairs <<j, k>> whose keys are ordered
\* key(j) < key(k): Python's sort is stable, so it is the last-listed
\* candidate of largest key, whose key no candidate's exceeds and every later
\* candidate's is below.
SortedLastAt(C, i, Below) ==
  /\ i \in C
  /\ \A j \in C : <<i, j>> \notin Below
  /\ \A j \in C : j > i => <<j, i>> \in Below

PatchLt(x, y) == x.ver[3] < y.ver[3]

\* Mutant: the one-level series sorted by minor only.
MinorLt(x, y) == x.ver[2] < y.ver[2]

MinorPatchLt(x, y) ==
  x.ver[2] < y.ver[2] \/ (x.ver[2] = y.ver[2] /\ x.ver[3] < y.ver[3])

\* The candidates: [x for x in tags if x[1] == major and x[2] == minor],
\* and [x for x in tags if x[1] == major].
InMajorMinor(ts, major, minor) ==
  {i \in DOMAIN ts : ts[i].ver[1] = major /\ ts[i].ver[2] = minor}

InMajor(ts, major) == {i \in DOMAIN ts : ts[i].ver[1] = major}

\* The entry i the two functions return when they have candidates.
find_largest_in_major_minor(ts, major, minor, i) ==
  LET C == InMajorMinor(ts, major, minor)
  IN  SortedLastAt(C, i, {p \in C \X C : PatchLt(ts[p[1]], ts[p[2]])})

find_largest_in_major(ts, major, i) ==
  LET C == InMajor(ts, major)
  IN  SortedLastAt(C, i, {p \in C \X C : MinorPatchLt(ts[p[1]], ts[p[2]])})

\* No candidates C: the function returns None and main fails naming the
\* series; otherwise main prints the original name of the entry returned,
\* one of the positions Returned.
Report(C, Returned, series) ==
  IF C = {} THEN Fail(NotFound(series))
  ELSE \E i \in Returned : Answer(tags[i].name)

\* Mutant: the major not decremented.
TargetMajorSame(v) == v[1]

\* The derived series of rules 4 and 5.
TargetMinor(v) == v[2] - 1

TargetMajor(v) == v[1] - 1

\* The guards `target_minor < 0` and `target_major < 1`.
MinorInvalid(m) == m < 0

\* Mutant: the major guard written `target_major <= 1`.
MajorAtMostOne(major) == major <= 1

MajorInvalid(major) == major < 1

\* main() after the tags are read: rules 3, 4 and 5.
Search ==
  /\ pc = "search"
  /\ UNCHANGED <<argv, gitTags, parsed, tags>>
  /\ \/ /\ VersionLt(parsed, <<1, 2, 0>>)
        /\ Report(InMajorMinor(tags, 1, 1),
                  {i \in DOMAIN tags : find_largest_in_major_minor(tags, 1, 1, i)},
                  <<1, 1>>)
     \/ /\ ~VersionLt(parsed, <<1, 2, 0>>) /\ VersionLt(parsed, <<2, 0, 0>>)
        /\ IF MinorInvalid(TargetMinor(parsed))
             THEN Fail(Err("InvalidMinor"))
             ELSE Report(InMajorMinor(tags, 1, TargetMinor(parsed)),
                         {i \in DOMAIN tags :
                            find_largest_in_major_minor(tags, 1, TargetMinor(parsed), i)},
                         <<1, TargetMinor(parsed)>>)
     \/ /\ ~VersionLt(parsed, <<2, 0, 0>>)
        /\ IF MajorInvalid(TargetMajor(parsed))
             THEN Fail(Err("MajorBelowOne"))
             ELSE Report(InMajor(tags, TargetMajor(parsed)),
                         {i \in DOMAIN tags : find_largest_in_major(tags, TargetMajor(parsed), i)},
                         <<TargetMajor(parsed)>>)

Next == Main \/ GetAllVersionTags \/ Search

Spec == Init /\ [][Next]_vars

-----------------------------------------------------------------------------
(***************************************************************************)
(* Properties, stated against the repository's tags (gitTags) and the      *)
(* table of spec.md 4.3, not against the intermediate list `tags`.         *)
(***************************************************************************)
\* The outcome of the invocation in the terms of PreviousTag: the tag
\* printed or the kind of error reported.  A source that cannot be run ends
\* the process too; it is the source failure of spec.md 5, whatever it prints.
Outcome ==
  IF pc # "exited" THEN None
  ELSE IF exitCode = 0 THEN [kind |-> "Tag", arg |-> stdout]
  ELSE IF stderr = Err("Traceback") THEN [kind |-> "SourceFailed", arg |-> <<>>]
  ELSE [kind |-> stderr.kind, arg |-> stderr.series]

PT == INSTANCE PreviousTag WITH outcome <- Outcome

Repo == PT!RepoOf(gitTags)

\* The run got past the git call, which succeeded.
SearchedRepo ==
  /\ pc = "exited"
  /\ parsed \in Version
  /\ VersionLeq(<<1, 1, 5>>, parsed)
  /\ stderr \notin {Err("SourceFailed"), Err("Traceback")}

\* spec.md 4.3 for the versions from v1.1.5 on: with no parseable tag in the
\* repository the script reports that; otherwise, if the target series has
\* a tag, it prints the name of a newest one (by the whole version, however
\* git orders its listing), and if not, it reports the series not found.
SearchOutcome ==
  SearchedRepo =>
    LET S   == PT!TargetSeries(parsed)
        InS == {t \in Repo : PT!InSeries(Parse(t), S)}
    IN  IF \A t \in Repo : Parse(t) = None THEN stderr = Err("NoValidTags")
        ELSE IF InS = {} THEN stderr = NotFound(S)
        ELSE /\ stdout \in InS
             /\ \A t \in InS : ~VersionLt(Parse(stdout), Parse(t))

\* From v1.2.0 on the series is derived by subtracting one from the minor
\* (below v2) or the major version: the tag printed is strictly older than
\* the version given.
DerivedSeriesIsPrior ==
  pc = "exited" /\ exitCode = 0 /\ parsed \in Version
  /\ VersionLeq(<<1, 2, 0>>, parsed)
    => VersionLt(Parse(stdout), parsed)

\* The guards against a negative derived minor and a derived major below 1
\* never fire, for any version: the ladder's bounds already exclude them.
GuardsNeverFire == stderr \notin {Err("InvalidMinor"), Err("MajorBelowOne")}

\* spec.md 5 and 7: a failure of the tag source is fatal and, like every
\* error, reported with its "Error: ..." message and exit status 1.
FailuresReported == exitCode = 1 => stderr \in Errors \ {Err("Traceback")}

\* The script implements spec.md 4.3 as PreviousTag states it: every run of
\* main, for every listing git gives, ends with an outcome the specification
\* allows, and before its end nothing is decided.
Refines == PT!AbsSpec

=============================================================================
