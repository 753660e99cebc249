--------------------- MODULE PreviousGitVersionProofs ---------------------
(***************************************************************************)
(* Proofs about get_previous_git_version.py, for every parser returning     *)
(* None or a version (ParseAssumption) and every set of arguments and tag   *)
(* listings.                                                               *)
(***************************************************************************)
EXTENDS PreviousGitVersion, TLAPS

USE ParseAssumption, StringsAssumption, NoneAssumption, NoneDistinctAssumption

(***************************************************************************)
(* TypeOK is not inductive by itself: Search computes the derived series   *)
(* from `parsed`, which TypeOK allows to be None.  The strengthening says  *)
(* that once main has passed rules 1 and 2, `parsed` is a version from     *)
(* v1.1.5 on.                                                              *)
(***************************************************************************)
PastFixedRules ==
  pc \in {"tags", "search"} => parsed \in Version /\ VersionLeq(<<1, 1, 5>>, parsed)

TypeInv == TypeOK /\ PastFixedRules

LEMMA TypeInvInit == Init => TypeInv
BY DEF Init, TypeInv, TypeOK, PastFixedRules

LEMMA LinesType == ASSUME NEW l \in Seq(Strings) PROVE Lines(l) \in Seq(Strings)
BY DEF Lines

LEMMA VersionTagsType ==
  ASSUME NEW lines \in Seq(Strings)
  PROVE  /\ DOMAIN VersionTags(lines) \subseteq Nat
         /\ VersionTags(lines) \in [DOMAIN VersionTags(lines) -> Tag]
BY DEF VersionTags, Tag

LEMMA TypeInvMain == TypeInv /\ Main => TypeInv'
<1> SUFFICES ASSUME TypeInv, Main PROVE TypeInv'
  OBVIOUS
<1>1. CASE Len(argv) # 1
  BY <1>1 DEF Main, Fail, TypeInv, TypeOK, PastFixedRules, Errors, Err, ErrorKinds
<1>2. CASE Len(argv) = 1
  <2>0. argv \in Seq(Strings)
    BY DEF TypeInv, TypeOK
  <2>1. argv[1] \in Strings
    BY <1>2, <2>0
  <2>2. parsed' = Parse(argv[1]) /\ parsed' \in Version \cup {None}
    BY <1>2, <2>1 DEF Main
  <2>. QED
    BY <1>2, <2>2 DEF Main, Fail, Answer, TypeInv, TypeOK, PastFixedRules,
                      Errors, Err, ErrorKinds, VersionLeq, VersionLt, Version
<1>. QED BY <1>1, <1>2

LEMMA TypeInvGetAllVersionTags == TypeInv /\ GetAllVersionTags => TypeInv'
<1> SUFFICES ASSUME TypeInv, GetAllVersionTags PROVE TypeInv'
  OBVIOUS
<1>1. Lines(gitTags) \in Seq(Strings)
  BY LinesType DEF TypeInv, TypeOK
<1>2. CASE tags' = VersionTags(Lines(gitTags))
  BY <1>1, <1>2, VersionTagsType
     DEF GetAllVersionTags, Fail, TypeInv, TypeOK, PastFixedRules, Errors, Err, ErrorKinds
<1>3. CASE tags' = tags
  BY <1>3 DEF GetAllVersionTags, Fail, TypeInv, TypeOK, PastFixedRules, Errors, Err, ErrorKinds
<1>. QED BY <1>2, <1>3 DEF GetAllVersionTags

LEMMA TypeInvSearch == TypeInv /\ Search => TypeInv'
<1> SUFFICES ASSUME TypeInv, Search PROVE TypeInv'
  OBVIOUS
<1>1. parsed \in Version
  BY DEF Search, TypeInv, PastFixedRules
<1>2. /\ TargetMinor(parsed) \in Int
      /\ TargetMajor(parsed) \in Int
  BY <1>1 DEF TargetMinor, TargetMajor, Version
<1>3. /\ NotFound(<<1, 1>>) \in Errors
      /\ NotFound(<<1, TargetMinor(parsed)>>) \in Errors
      /\ NotFound(<<TargetMajor(parsed)>>) \in Errors
  <2>1. <<TargetMajor(parsed)>> \in [1..1 -> Int]
    BY <1>2
  <2>. QED BY <1>2, <2>1 DEF NotFound, Errors, Series
<1>4. \A C, R \in SUBSET DOMAIN tags, e \in Errors :
        (IF C = {} THEN Fail(e) ELSE \E i \in R : Answer(tags[i].name))
        /\ UNCHANGED <<argv, gitTags, parsed, tags>>
        => TypeInv'
  BY <1>1 DEF Fail, Answer, TypeInv, TypeOK, PastFixedRules, Tag
<1>5. /\ InMajorMinor(tags, 1, 1) \subseteq DOMAIN tags
      /\ InMajorMinor(tags, 1, TargetMinor(parsed)) \subseteq DOMAIN tags
      /\ InMajor(tags, TargetMajor(parsed)) \subseteq DOMAIN tags
  BY DEF InMajorMinor, InMajor
<1>6. Err("InvalidMinor") \in Errors /\ Err("MajorBelowOne") \in Errors
  BY DEF Err, Errors, ErrorKinds
<1>7. UNCHANGED <<argv, gitTags, parsed, tags>>
  BY DEF Search
\* The entries the two functions may return are entries of `tags`.
<1>8. /\ {i \in DOMAIN tags : find_largest_in_major_minor(tags, 1, 1, i)} \subseteq DOMAIN tags
      /\ {i \in DOMAIN tags : find_largest_in_major_minor(tags, 1, TargetMinor(parsed), i)}
           \subseteq DOMAIN tags
      /\ {i \in DOMAIN tags : find_largest_in_major(tags, TargetMajor(parsed), i)}
           \subseteq DOMAIN tags
  OBVIOUS
<1>. QED
  BY <1>3, <1>4, <1>5, <1>6, <1>7, <1>8 DEF Search, Report

LEMMA TypeInvStutter == TypeInv /\ UNCHANGED vars => TypeInv'
BY DEF TypeInv, TypeOK, PastFixedRules, vars

\* Every state of every run has the types TypeOK gives its variables.
THEOREM TypeCorrect == Spec => []TypeOK
<1>1. TypeInv /\ [Next]_vars => TypeInv'
  BY TypeInvMain, TypeInvGetAllVersionTags, TypeInvSearch, TypeInvStutter DEF Next
<1>. QED
  BY TypeInvInit, <1>1, PTL DEF Spec, TypeInv
-----------------------------------------------------------------------------
(***************************************************************************)
(* The guards of rules 4 and 5 and the strict age of a derived tag.  Both  *)
(* rest on the ladder's ranges: rule 4 runs for v1.m.p with m >= 2, rule 5 *)
(* for majors from 2 on; and on the printed name being that of an entry    *)
(* of `tags`, whose version is what parsing that name gives (TagsParsed).  *)
(***************************************************************************)
TagsParsed == \A i \in DOMAIN tags : tags[i].ver = Parse(tags[i].name)

Inv == TypeInv /\ TagsParsed /\ GuardsNeverFire /\ DerivedSeriesIsPrior

\* The ranges of the ladder, as facts about a version.
LEMMA LadderRanges ==
  ASSUME NEW v \in Version
  PROVE  /\ VersionLt(v, <<1, 1, 5>>) => ~VersionLeq(<<1, 2, 0>>, v)
         /\ VersionLt(v, <<1, 2, 0>>) => ~VersionLeq(<<1, 2, 0>>, v)
         /\ ~VersionLt(v, <<1, 2, 0>>) /\ VersionLt(v, <<2, 0, 0>>)
              => v[1] = 1 /\ v[2] >= 2
         /\ ~VersionLt(v, <<2, 0, 0>>) => v[1] >= 2
BY DEF Version, VersionLt, VersionLeq

\* The two guard messages are error messages, hence not None.
LEMMA GuardErrors ==
  /\ Err("InvalidMinor") \in Errors /\ Err("MajorBelowOne") \in Errors
  /\ None \notin {Err("InvalidMinor"), Err("MajorBelowOne")}
<1>1. Err("InvalidMinor") \in Errors /\ Err("MajorBelowOne") \in Errors
  BY DEF Err, Errors, ErrorKinds
<1>. QED BY <1>1

LEMMA InvInit == Init => Inv
<1> SUFFICES ASSUME Init PROVE Inv
  OBVIOUS
<1>1. TypeInv
  BY TypeInvInit
<1>2. DOMAIN tags = {}
  BY DEF Init
<1>3. GuardsNeverFire
  BY GuardErrors DEF Init, GuardsNeverFire
<1>. QED
  BY <1>1, <1>2, <1>3 DEF Init, Inv, TagsParsed, DerivedSeriesIsPrior

LEMMA InvMain == Inv /\ Main => Inv'
<1> SUFFICES ASSUME Inv, Main PROVE Inv'
  OBVIOUS
<1>1. TypeInv'
  BY TypeInvMain DEF Inv
<1>2. parsed' \in Version \cup {None}
  BY <1>1 DEF TypeInv, TypeOK
<1>3. (TagsParsed /\ GuardsNeverFire)'
  BY DEF Inv, Main, Fail, Answer, TagsParsed, GuardsNeverFire, Err
<1>4. DerivedSeriesIsPrior'
  <2>1. CASE Len(argv) # 1
    BY <2>1 DEF Main, Fail, DerivedSeriesIsPrior
  <2>2. CASE Len(argv) = 1 /\ parsed' = None
    BY <2>2 DEF Main, Fail, DerivedSeriesIsPrior
  <2>3. CASE Len(argv) = 1 /\ parsed' \in Version
    <3>1. /\ VersionLt(parsed', <<1, 1, 5>>) => ~VersionLeq(<<1, 2, 0>>, parsed')
          /\ VersionLt(parsed', <<1, 1, 1>>) => ~VersionLeq(<<1, 2, 0>>, parsed')
      BY <2>3, LadderRanges DEF Version, VersionLt
    <3>. QED
      BY <2>3, <3>1 DEF Main, Fail, Answer, DerivedSeriesIsPrior
  <2>. QED BY <1>2, <2>1, <2>2, <2>3
<1>. QED BY <1>1, <1>3, <1>4 DEF Inv

LEMMA InvGetAllVersionTags == Inv /\ GetAllVersionTags => Inv'
<1> SUFFICES ASSUME Inv, GetAllVersionTags PROVE Inv'
  OBVIOUS
<1>1. TypeInv'
  BY TypeInvGetAllVersionTags DEF Inv
<1>2. TagsParsed'
  BY DEF Inv, GetAllVersionTags, TagsParsed, VersionTags
<1>3. (GuardsNeverFire /\ DerivedSeriesIsPrior)'
  BY DEF Inv, GetAllVersionTags, Fail, GuardsNeverFire, DerivedSeriesIsPrior, Err
<1>. QED BY <1>1, <1>2, <1>3 DEF Inv
LEMMA InvSearch == Inv /\ Search => Inv'
<1> SUFFICES ASSUME Inv, Search PROVE Inv'
  OBVIOUS
<1>1. /\ parsed \in Version
      /\ TypeOK
      /\ UNCHANGED <<argv, gitTags, parsed, tags>>
  BY DEF Inv, TypeInv, PastFixedRules, Search
<1>2. TypeInv' /\ TagsParsed'
  BY <1>1, TypeInvSearch DEF Inv, TagsParsed
\* A NotFound message is not a guard message; an answer leaves stderr alone.
<1>3. \A sr : NotFound(sr) \notin {Err("InvalidMinor"), Err("MajorBelowOne")}
  BY DEF NotFound, Err
\* What printing the name of entry i of `tags` prints, parsed again.
<1>4. \A i \in DOMAIN tags : Answer(tags[i].name) => Parse(stdout') = tags[i].ver
  BY DEF Answer, Inv, TagsParsed
<1>5. CASE VersionLt(parsed, <<1, 2, 0>>)
  <2>1. ~VersionLeq(<<1, 2, 0>>, parsed)
    BY <1>1, <1>5, LadderRanges
  <2>2. ~VersionLt(parsed, <<2, 0, 0>>) => ~VersionLt(parsed, <<1, 2, 0>>)
    BY <1>1 DEF VersionLt, Version
  <2>3. Fail(NotFound(<<1, 1>>)) \/ \E i \in DOMAIN tags : Answer(tags[i].name)
    BY <1>5, <2>2 DEF Search, Report, InMajorMinor
  <2>4. GuardsNeverFire'
    BY <1>3, <2>3 DEF Fail, Answer, Inv, GuardsNeverFire
  <2>5. DerivedSeriesIsPrior'
    BY <1>1, <2>1, <2>3 DEF Fail, Answer, DerivedSeriesIsPrior
  <2>. QED
    BY <1>2, <2>4, <2>5 DEF Inv
<1>6. CASE ~VersionLt(parsed, <<1, 2, 0>>) /\ VersionLt(parsed, <<2, 0, 0>>)
  <2>1. parsed[1] = 1 /\ parsed[2] >= 2 /\ parsed[2] \in Nat
    BY <1>1, <1>6, LadderRanges DEF Version
  <2>2. ~MinorInvalid(TargetMinor(parsed))
    BY <2>1 DEF MinorInvalid, TargetMinor
  <2>3. \A i \in InMajorMinor(tags, 1, TargetMinor(parsed)) :
          Answer(tags[i].name) => VersionLt(Parse(stdout'), parsed)
    <3> SUFFICES ASSUME NEW i \in InMajorMinor(tags, 1, TargetMinor(parsed)),
                        Answer(tags[i].name)
                 PROVE  VersionLt(Parse(stdout'), parsed)
      OBVIOUS
    <3>1. i \in DOMAIN tags /\ tags[i].ver[1] = 1 /\ tags[i].ver[2] = parsed[2] - 1
      BY DEF InMajorMinor, TargetMinor
    <3>2. tags[i].ver \in Version
      BY <1>1, <3>1 DEF TypeOK, Tag
    <3>. QED
      BY <1>4, <2>1, <3>1, <3>2 DEF VersionLt, Version
  <2>. QED
    BY <1>1, <1>2, <1>3, <1>6, <2>2, <2>3
       DEF Search, Report, Fail, Inv, GuardsNeverFire, DerivedSeriesIsPrior, Answer,
           find_largest_in_major_minor, SortedLastAt
<1>7. CASE ~VersionLt(parsed, <<2, 0, 0>>)
  <2>0. ~VersionLt(parsed, <<1, 2, 0>>)
    BY <1>1, <1>7 DEF VersionLt, Version
  <2>1. parsed[1] >= 2 /\ parsed[1] \in Nat
    BY <1>1, <1>7, LadderRanges DEF Version
  <2>2. ~MajorInvalid(TargetMajor(parsed))
    BY <2>1 DEF MajorInvalid, TargetMajor
  <2>3. \A i \in InMajor(tags, TargetMajor(parsed)) :
          Answer(tags[i].name) => VersionLt(Parse(stdout'), parsed)
    <3> SUFFICES ASSUME NEW i \in InMajor(tags, TargetMajor(parsed)),
                        Answer(tags[i].name)
                 PROVE  VersionLt(Parse(stdout'), parsed)
      OBVIOUS
    <3>1. i \in DOMAIN tags /\ tags[i].ver[1] = parsed[1] - 1
      BY DEF InMajor, TargetMajor
    <3>2. tags[i].ver \in Version
      BY <1>1, <3>1 DEF TypeOK, Tag
    <3>. QED
      BY <1>4, <2>1, <3>1, <3>2 DEF VersionLt, Version
  <2>. QED
    BY <1>1, <1>2, <1>3, <1>7, <2>0, <2>2, <2>3
       DEF Search, Report, Fail, Inv, GuardsNeverFire, DerivedSeriesIsPrior, Answer,
           find_largest_in_major, SortedLastAt
<1>. QED BY <1>5, <1>6, <1>7

LEMMA InvStutter == Inv /\ UNCHANGED vars => Inv'
BY TypeInvStutter DEF Inv, TagsParsed, GuardsNeverFire, DerivedSeriesIsPrior, vars

\* Inv holds in every state of every run.
LEMMA InvAlways == Spec => []Inv
<1>1. Inv /\ [Next]_vars => Inv'
  BY InvMain, InvGetAllVersionTags, InvSearch, InvStutter DEF Next
<1>. QED
  BY InvInit, <1>1, PTL DEF Spec

\* No version makes main report "Invalid minor version" or "Major version
\* must be at least 1": the two guards of rules 4 and 5 are dead code.
THEOREM GuardsDead == Spec => []GuardsNeverFire
BY InvAlways, PTL DEF Inv

\* From v1.2.0 on, the tag main prints is strictly older than its argument.
THEOREM DerivedTagPrior == Spec => []DerivedSeriesIsPrior
BY InvAlways, PTL DEF Inv
-----------------------------------------------------------------------------
(***************************************************************************)
(* The outcome.  Every run ends with an outcome PreviousTag allows; this    *)
(* gives SearchOutcome and the refinement.  The invariant records what the *)
(* control point says of the variables: nothing is decided before the end; *)
(* past the argument check `parsed` is the argument's version; at the      *)
(* search `tags` is what get_all_version_tags built from git's listing.    *)
(***************************************************************************)
Started ==
  pc = "main" => parsed = None /\ stdout = None /\ stderr = None /\ exitCode = None

Running ==
  pc \in {"tags", "search"} =>
    /\ Len(argv) = 1 /\ parsed = Parse(argv[1])
    /\ stdout = None /\ stderr = None /\ exitCode = None

ListingRead == pc = "search" => tags = VersionTags(Lines(gitTags)) /\ DOMAIN tags # {}

ParsedArg == pc = "exited" /\ parsed # None => Len(argv) = 1 /\ parsed = Parse(argv[1])

OutcomeAllowed == pc = "exited" => Outcome \in PT!Outcomes(argv, gitTags)

OInv == Inv /\ Started /\ Running /\ ListingRead /\ ParsedArg /\ OutcomeAllowed

\* get_all_version_tags() for the listing g.
TS(g) == VersionTags(Lines(g))

USE EmptyLineAssumption

\* The entries of the list are the listed names that parse, at their place
\* in the listing; an empty listing's one empty line gives no entry.
LEMMA TSFacts ==
  ASSUME NEW g \in Seq(Strings)
  PROVE  /\ \A i \in DOMAIN TS(g) :
              /\ i \in DOMAIN g
              /\ TS(g)[i].name = g[i] /\ TS(g)[i].ver = Parse(g[i])
              /\ Parse(g[i]) # None
         /\ \A j \in DOMAIN g : Parse(g[j]) # None => j \in DOMAIN TS(g)
<1>1. CASE g = <<>>
  <2>1. Lines(g) = <<EmptyLine>>
    BY <1>1 DEF Lines
  <2>2. DOMAIN TS(g) = {}
    BY <2>1 DEF TS, VersionTags
  <2>. QED BY <1>1, <2>2
<1>2. CASE g # <<>>
  <2>1. Lines(g) = g
    BY <1>2 DEF Lines
  <2>. QED BY <2>1 DEF TS, VersionTags
<1>. QED BY <1>1, <1>2

\* Whether the listing holds a version tag at all.
LEMMA SomeTag ==
  ASSUME NEW g \in Seq(Strings)
  PROVE  DOMAIN TS(g) = {} <=> \A t \in PT!RepoOf(g) : Parse(t) = None
BY TSFacts DEF PT!RepoOf

\* The tags of the repository in a series are the names of the entries in it.
LEMMA SeriesNames ==
  ASSUME NEW g \in Seq(Strings), NEW S
  PROVE  {t \in PT!RepoOf(g) : PT!InSeries(Parse(t), S)}
           = {TS(g)[i].name : i \in {j \in DOMAIN TS(g) : PT!InSeries(TS(g)[j].ver, S)}}
<1>1. \A t \in PT!RepoOf(g) : PT!InSeries(Parse(t), S) =>
        \E i \in DOMAIN TS(g) : PT!InSeries(TS(g)[i].ver, S) /\ TS(g)[i].name = t
  BY TSFacts DEF PT!RepoOf, PT!InSeries
<1>2. \A i \in DOMAIN TS(g) : PT!InSeries(TS(g)[i].ver, S) =>
        TS(g)[i].name \in PT!RepoOf(g) /\ PT!InSeries(Parse(TS(g)[i].name), S)
  BY TSFacts DEF PT!RepoOf
<1>. QED BY <1>1, <1>2

\* An entry of the series that no entry of the series is newer than has a
\* newest name of the series.
LEMMA NewestEntry ==
  ASSUME NEW g \in Seq(Strings), NEW S, NEW i \in DOMAIN TS(g),
         PT!InSeries(TS(g)[i].ver, S),
         \A j \in DOMAIN TS(g) :
           PT!InSeries(TS(g)[j].ver, S) => ~VersionLt(TS(g)[i].ver, TS(g)[j].ver)
  PROVE  TS(g)[i].name \in PT!Newest({t \in PT!RepoOf(g) : PT!InSeries(Parse(t), S)})
<1> DEFINE InS == {t \in PT!RepoOf(g) : PT!InSeries(Parse(t), S)}
<1>1. InS = {TS(g)[j].name : j \in {k \in DOMAIN TS(g) : PT!InSeries(TS(g)[k].ver, S)}}
  BY SeriesNames
<1>2. TS(g)[i].name \in InS
  BY <1>1
<1>3. \A j \in DOMAIN TS(g) : Parse(TS(g)[j].name) = TS(g)[j].ver
  BY TSFacts
<1>4. \A u \in InS : ~VersionLt(Parse(TS(g)[i].name), Parse(u))
  BY <1>1, <1>3
<1>. QED BY <1>2, <1>4 DEF PT!Newest, PT!VersionLt, VersionLt

\* Past rules 1 and 2 the specification allows a source failure or the
\* outcome of the search.
LEMMA OutcomesSearched ==
  ASSUME NEW a, NEW g, Len(a) = 1, Parse(a[1]) \in Version,
         VersionLeq(<<1, 1, 5>>, Parse(a[1]))
  PROVE  PT!Outcomes(a, g) = PT!SourceFailures \cup PT!Resolved(Parse(a[1]), PT!RepoOf(g))
BY DEF PT!Outcomes, PT!VersionLt, VersionLeq, VersionLt, Version

LEMMA OInvInit == Init => OInv
BY InvInit DEF OInv, Init, Started, Running, ListingRead, ParsedArg, OutcomeAllowed

LEMMA OInvMain == OInv /\ Main => OInv'
<1> SUFFICES ASSUME OInv, Main PROVE OInv'
  OBVIOUS
<1>1. Inv' /\ TypeOK'
  BY InvMain DEF OInv, Inv, TypeInv
<1>2. pc = "main" /\ parsed = None /\ UNCHANGED <<argv, gitTags>>
  BY DEF Main, OInv, Started
<1>3. CASE Len(argv) # 1
  <2>1. pc' = "exited" /\ parsed' = None /\ Outcome' = PT!Out("Usage", <<>>)
    BY <1>2, <1>3 DEF Main, Fail, Outcome, Err, PT!Out
  <2>2. Outcome' \in PT!Outcomes(argv, gitTags)'
    BY <1>2, <1>3, <2>1 DEF PT!Outcomes
  <2>. QED BY <1>1, <2>1, <2>2 DEF OInv, Started, Running, ListingRead, ParsedArg, OutcomeAllowed
<1>4. CASE Len(argv) = 1
  <2>0. argv \in Seq(Strings)
    BY DEF OInv, Inv, TypeInv, TypeOK
  <2>1. argv[1] \in Strings
    BY <1>4, <2>0
  <2>2. parsed' = Parse(argv[1]) /\ parsed' \in Version \cup {None}
    BY <1>4, <2>1 DEF Main
  <2>3. CASE parsed' = None
    <3>1. pc' = "exited" /\ Outcome' = PT!Out("Format", <<>>)
      BY <1>4, <2>3 DEF Main, Fail, Outcome, Err, PT!Out
    <3>2. Outcome' \in PT!Outcomes(argv, gitTags)'
      BY <1>2, <1>4, <2>2, <2>3, <3>1 DEF PT!Outcomes
    <3>. QED BY <1>1, <2>3, <3>1, <3>2 DEF OInv, Started, Running, ListingRead, ParsedArg, OutcomeAllowed
  <2>4. CASE parsed' \in Version /\ VersionLt(parsed', <<1, 1, 1>>)
    <3>1. pc' = "exited" /\ Outcome' = PT!Out("Tag", TagV1_0_20)
      BY <1>4, <2>4, NoneAssumption DEF Main, Answer, Outcome, PT!Out
    <3>2. Outcome' \in PT!Outcomes(argv, gitTags)'
      BY <1>2, <1>4, <2>2, <2>4, <3>1, NoneAssumption DEF PT!Outcomes, PT!VersionLt, VersionLt
    <3>. QED BY <1>1, <1>2, <1>4, <2>2, <3>1, <3>2
             DEF OInv, Started, Running, ListingRead, ParsedArg, OutcomeAllowed
  <2>5. CASE parsed' \in Version /\ ~VersionLt(parsed', <<1, 1, 1>>)
                                  /\ VersionLt(parsed', <<1, 1, 5>>)
    <3>1. pc' = "exited" /\ Outcome' = PT!Out("Tag", TagV1_1_1)
      BY <1>4, <2>5, NoneAssumption DEF Main, Answer, Outcome, PT!Out
    <3>2. Outcome' \in PT!Outcomes(argv, gitTags)'
      BY <1>2, <1>4, <2>2, <2>5, <3>1, NoneAssumption DEF PT!Outcomes, PT!VersionLt, VersionLt
    <3>. QED BY <1>1, <1>2, <1>4, <2>2, <3>1, <3>2
             DEF OInv, Started, Running, ListingRead, ParsedArg, OutcomeAllowed
  <2>6. CASE parsed' \in Version /\ ~VersionLt(parsed', <<1, 1, 1>>)
                                  /\ ~VersionLt(parsed', <<1, 1, 5>>)
    <3>1. pc' = "tags" /\ UNCHANGED <<stdout, stderr, exitCode>>
      BY <1>4, <2>6, NoneAssumption DEF Main
    <3>. QED BY <1>1, <1>2, <1>4, <2>2, <3>1
             DEF OInv, Started, Running, ListingRead, ParsedArg, OutcomeAllowed
  <2>. QED BY <2>2, <2>3, <2>4, <2>5, <2>6
<1>. QED BY <1>3, <1>4

LEMMA OInvGetAllVersionTags == OInv /\ GetAllVersionTags => OInv'
<1> SUFFICES ASSUME OInv, GetAllVersionTags PROVE OInv'
  OBVIOUS
<1>1. Inv' /\ TypeOK
  BY InvGetAllVersionTags DEF OInv, Inv, TypeInv
<1>2. /\ pc = "tags" /\ UNCHANGED <<argv, gitTags, parsed>>
      /\ Len(argv) = 1 /\ parsed = Parse(argv[1])
      /\ parsed \in Version /\ VersionLeq(<<1, 1, 5>>, parsed)
      /\ stdout = None /\ stderr = None /\ exitCode = None
  BY DEF GetAllVersionTags, OInv, Running, Inv, TypeInv, PastFixedRules
<1>3. PT!Outcomes(argv, gitTags)
        = PT!SourceFailures \cup PT!Resolved(parsed, PT!RepoOf(gitTags))
  BY <1>2, OutcomesSearched
<1>4. gitTags \in Seq(Strings)
  BY DEF OInv, Inv, TypeInv, TypeOK
\* A failing source: both ways end with the source failure of spec.md 5.
<1>5. ASSUME NEW k \in {"NonZeroExit", "NotRunnable"}, k \in GitFaults,
             NEW e \in {Err("SourceFailed"), Err("Traceback")}, Fail(e)
      PROVE  OInv'
  <2>1. pc' = "exited" /\ Outcome' = PT!Out("SourceFailed", <<>>)
    BY <1>5 DEF Fail, Outcome, Err, PT!Out
  <2>2. Outcome' \in PT!SourceFailures
    BY <2>1, <1>5 DEF PT!SourceFailures
  <2>. QED BY <1>1, <1>2, <1>3, <2>1, <2>2
           DEF OInv, Started, Running, ListingRead, ParsedArg, OutcomeAllowed
<1>6. CASE tags' = TS(gitTags) /\ DOMAIN tags' = {} /\ Fail(Err("NoValidTags"))
  <2>1. pc' = "exited" /\ Outcome' = PT!Out("NoValidTags", <<>>)
    BY <1>6 DEF Fail, Outcome, Err, PT!Out
  <2>2. \A t \in PT!RepoOf(gitTags) : Parse(t) = None
    BY <1>4, <1>6, SomeTag
  <2>3. Outcome' \in PT!Resolved(parsed, PT!RepoOf(gitTags))
    BY <2>1, <2>2 DEF PT!Resolved
  <2>. QED BY <1>1, <1>2, <1>3, <2>1, <2>3
           DEF OInv, Started, Running, ListingRead, ParsedArg, OutcomeAllowed
<1>7. CASE tags' = TS(gitTags) /\ DOMAIN tags' # {} /\ pc' = "search"
           /\ UNCHANGED <<stdout, stderr, exitCode>>
  BY <1>1, <1>2, <1>7 DEF OInv, Started, Running, ListingRead, ParsedArg, OutcomeAllowed, TS
<1>. QED
  BY <1>5, <1>6, <1>7 DEF GetAllVersionTags, TS

\* Sorting by the patch within one v{M}.{m}.x series, or by (minor, patch)
\* within one major, and taking the last entry gives an entry whose version
\* no candidate's exceeds.
LEMMA PatchLastIsNewest ==
  ASSUME NEW ts, NEW major, NEW minor, NEW i,
         \A j \in DOMAIN ts : ts[j].ver \in Version,
         find_largest_in_major_minor(ts, major, minor, i)
  PROVE  /\ i \in InMajorMinor(ts, major, minor)
         /\ \A j \in InMajorMinor(ts, major, minor) : ~VersionLt(ts[i].ver, ts[j].ver)
<1>1. i \in InMajorMinor(ts, major, minor)
      /\ \A j \in InMajorMinor(ts, major, minor) : ~PatchLt(ts[i], ts[j])
  BY DEF find_largest_in_major_minor, SortedLastAt
<1>. QED
  BY <1>1 DEF InMajorMinor, PatchLt, VersionLt, Version

LEMMA MinorPatchLastIsNewest ==
  ASSUME NEW ts, NEW major, NEW i,
         \A j \in DOMAIN ts : ts[j].ver \in Version,
         find_largest_in_major(ts, major, i)
  PROVE  /\ i \in InMajor(ts, major)
         /\ \A j \in InMajor(ts, major) : ~VersionLt(ts[i].ver, ts[j].ver)
<1>1. i \in InMajor(ts, major)
      /\ \A j \in InMajor(ts, major) : ~MinorPatchLt(ts[i], ts[j])
  BY DEF find_largest_in_major, SortedLastAt
<1>. QED
  BY <1>1 DEF InMajor, MinorPatchLt, VersionLt, Version

\* The candidate sets are the entries of the series.
LEMMA CandidatesInSeries ==
  ASSUME NEW ts, \A j \in DOMAIN ts : ts[j].ver \in Version,
         NEW major \in Int, NEW minor \in Int
  PROVE  /\ InMajorMinor(ts, major, minor)
              = {j \in DOMAIN ts : PT!InSeries(ts[j].ver, <<major, minor>>)}
         /\ InMajor(ts, major) = {j \in DOMAIN ts : PT!InSeries(ts[j].ver, <<major>>)}
BY NoneAssumption DEF InMajorMinor, InMajor, PT!InSeries

\* Reporting the entries of the target series of `parsed`, when what is
\* returned is an entry of the series that none of the series exceeds,
\* ends with an outcome the search of the specification allows.
LEMMA ReportAllowed ==
  ASSUME OInv, pc = "search", UNCHANGED <<argv, gitTags, parsed, tags>>,
         NEW S, S = PT!TargetSeries(parsed), NEW R,
         \A i \in R :
           /\ i \in DOMAIN tags /\ PT!InSeries(tags[i].ver, S)
           /\ \A j \in DOMAIN tags :
                PT!InSeries(tags[j].ver, S) => ~VersionLt(tags[i].ver, tags[j].ver),
         Report({j \in DOMAIN tags : PT!InSeries(tags[j].ver, S)}, R, S)
  PROVE  Outcome' \in PT!Resolved(parsed, Repo)
<1> DEFINE C == {j \in DOMAIN tags : PT!InSeries(tags[j].ver, S)}
           InS == {t \in Repo : PT!InSeries(Parse(t), S)}
<1>1. /\ gitTags \in Seq(Strings)
      /\ tags = TS(gitTags)
      /\ DOMAIN tags # {}
  BY DEF OInv, Inv, TypeInv, TypeOK, ListingRead, TS
<1>2. ~\A t \in Repo : Parse(t) = None
  BY <1>1, SomeTag DEF Repo
<1>3. InS = {tags[i].name : i \in C}
  BY <1>1, SeriesNames DEF Repo
<1>4. CASE C = {}
  <2>1. Fail(NotFound(S))
    BY <1>4 DEF Report
  <2>2. Outcome' = PT!Out("NotFound", S)
    BY <2>1 DEF Fail, Outcome, NotFound, Err, PT!Out
  <2>3. InS = {}
    BY <1>3, <1>4
  <2>. QED BY <1>2, <2>2, <2>3 DEF PT!Resolved
<1>5. CASE C # {}
  <2>1. PICK i \in R : Answer(tags[i].name)
    BY <1>5 DEF Report
  <2>2. Outcome' = PT!Out("Tag", tags[i].name)
    BY <2>1 DEF Answer, Outcome, PT!Out
  <2>3. i \in C
    OBVIOUS
  <2>4. tags[i].name \in PT!Newest(InS)
    BY <1>1, <2>3, NewestEntry DEF Repo
  <2>5. InS # {}
    BY <1>3, <2>3
  <2>. QED BY <1>2, <2>2, <2>4, <2>5 DEF PT!Resolved
<1>. QED BY <1>4, <1>5

LEMMA OInvSearch == OInv /\ Search => OInv'
<1> SUFFICES ASSUME OInv, Search PROVE OInv'
  OBVIOUS
<1>1. /\ pc = "search"
      /\ UNCHANGED <<argv, gitTags, parsed, tags>>
      /\ parsed \in Version /\ VersionLeq(<<1, 1, 5>>, parsed)
      /\ Len(argv) = 1 /\ parsed = Parse(argv[1])
      /\ \A j \in DOMAIN tags : tags[j].ver \in Version
  BY DEF OInv, Inv, TypeInv, TypeOK, Tag, PastFixedRules, Running, Search
<1>2. Inv'
  BY InvSearch DEF OInv
<1>3. pc' = "exited"
  BY DEF Search, Report, Fail, Answer
<1>4. PT!Resolved(parsed, Repo) \subseteq PT!Outcomes(argv, gitTags)
  BY <1>1, OutcomesSearched DEF Repo
<1>5. Outcome' \in PT!Resolved(parsed, Repo)
  \* Rule 3: the newest v1.1.x tag.
  <2>1. CASE VersionLt(parsed, <<1, 2, 0>>)
    <3> DEFINE S == <<1, 1>>
               R == {i \in DOMAIN tags : find_largest_in_major_minor(tags, 1, 1, i)}
    <3> USE DEF S, R
    <3>1. S = PT!TargetSeries(parsed)
      BY <2>1 DEF PT!TargetSeries, PT!VersionLt, VersionLt
    <3>2. InMajorMinor(tags, 1, 1) = {j \in DOMAIN tags : PT!InSeries(tags[j].ver, S)}
      BY <1>1, NoneAssumption DEF InMajorMinor, PT!InSeries
    <3>3. \A i \in R :
            /\ i \in DOMAIN tags /\ PT!InSeries(tags[i].ver, S)
            /\ \A j \in DOMAIN tags :
                 PT!InSeries(tags[j].ver, S) => ~VersionLt(tags[i].ver, tags[j].ver)
      BY <1>1, <3>2, PatchLastIsNewest
    <3>4. ~VersionLt(parsed, <<2, 0, 0>>) => ~VersionLt(parsed, <<1, 2, 0>>)
      BY <1>1 DEF VersionLt, Version
    <3>5. Report(InMajorMinor(tags, 1, 1), R, S)
      BY <2>1, <3>4 DEF Search
    <3>. QED BY <1>1, <3>1, <3>2, <3>3, <3>5, ReportAllowed
  \* Rule 4: the newest tag of the previous minor series of v1.x.
  <2>2. CASE ~VersionLt(parsed, <<1, 2, 0>>) /\ VersionLt(parsed, <<2, 0, 0>>)
    <3> DEFINE m == TargetMinor(parsed)
               S == <<1, m>>
               R == {i \in DOMAIN tags : find_largest_in_major_minor(tags, 1, m, i)}
    <3> USE DEF m, S, R
    <3>1. parsed[1] = 1 /\ parsed[2] >= 2 /\ parsed[2] \in Nat
      BY <1>1, <2>2, LadderRanges DEF Version
    <3>2. ~MinorInvalid(m) /\ m \in Int
      BY <3>1 DEF MinorInvalid, TargetMinor
    <3>3. S = PT!TargetSeries(parsed)
      BY <2>2 DEF PT!TargetSeries, PT!VersionLt, VersionLt, TargetMinor
    <3>4. InMajorMinor(tags, 1, m) = {j \in DOMAIN tags : PT!InSeries(tags[j].ver, S)}
      BY <1>1, <3>2, NoneAssumption DEF InMajorMinor, InMajor, PT!InSeries
    <3>5. \A i \in R :
            /\ i \in DOMAIN tags /\ PT!InSeries(tags[i].ver, S)
            /\ \A j \in DOMAIN tags :
                 PT!InSeries(tags[j].ver, S) => ~VersionLt(tags[i].ver, tags[j].ver)
      BY <1>1, <3>4, PatchLastIsNewest
    <3>6. Report(InMajorMinor(tags, 1, m), R, S)
      BY <2>2, <3>2 DEF Search
    <3>. QED BY <1>1, <3>3, <3>4, <3>5, <3>6, ReportAllowed
  \* Rule 5: the newest tag of the previous major.
  <2>3. CASE ~VersionLt(parsed, <<2, 0, 0>>)
    <3> DEFINE M == TargetMajor(parsed)
               S == <<M>>
               R == {i \in DOMAIN tags : find_largest_in_major(tags, M, i)}
    <3> USE DEF M, S, R
    <3>0. ~VersionLt(parsed, <<1, 2, 0>>)
      BY <1>1, <2>3 DEF VersionLt, Version
    <3>1. parsed[1] >= 2 /\ parsed[1] \in Nat
      BY <1>1, <2>3, LadderRanges DEF Version
    <3>2. ~MajorInvalid(M) /\ M \in Int
      BY <3>1 DEF MajorInvalid, TargetMajor
    <3>3. S = PT!TargetSeries(parsed)
      BY <2>3, <3>0 DEF PT!TargetSeries, PT!VersionLt, VersionLt, TargetMajor
    <3>4. InMajor(tags, M) = {j \in DOMAIN tags : PT!InSeries(tags[j].ver, S)}
      BY <1>1, <3>2, NoneAssumption DEF InMajorMinor, InMajor, PT!InSeries
    <3>5. \A i \in R :
            /\ i \in DOMAIN tags /\ PT!InSeries(tags[i].ver, S)
            /\ \A j \in DOMAIN tags :
                 PT!InSeries(tags[j].ver, S) => ~VersionLt(tags[i].ver, tags[j].ver)
      BY <1>1, <3>4, MinorPatchLastIsNewest
    <3>6. Report(InMajor(tags, M), R, S)
      BY <2>3, <3>0, <3>2 DEF Search
    <3>. QED BY <1>1, <3>3, <3>4, <3>5, <3>6, ReportAllowed
  <2>. QED BY <2>1, <2>2, <2>3
<1>. QED
  BY <1>1, <1>2, <1>3, <1>4, <1>5
     DEF OInv, Started, Running, ListingRead, ParsedArg, OutcomeAllowed

LEMMA OInvStutter == OInv /\ UNCHANGED vars => OInv'
BY InvStutter DEF OInv, Started, Running, ListingRead, ParsedArg, OutcomeAllowed,
                  Outcome, vars

\* OInv holds in every state of every run.
LEMMA OInvAlways == Spec => []OInv
<1>1. Init => OInv
  BY OInvInit
<1>2. OInv /\ [Next]_vars => OInv'
  BY OInvMain, OInvGetAllVersionTags, OInvSearch, OInvStutter DEF Next
<1>. QED BY <1>1, <1>2, PTL DEF Spec

(***************************************************************************)
(* A process that has ended has printed a line and exited 0, or reported   *)
(* an error message and exited 1: fail() is always given a message, and    *)
(* print() a string.                                                       *)
(***************************************************************************)
Exited ==
  pc = "exited" =>
    \/ exitCode = 0 /\ stdout \in Strings
    \/ exitCode = 1 /\ stderr \in Errors

EInv == TypeInv /\ Exited

\* The messages fail() is given are error messages.
LEMMA MessagesAreErrors ==
  /\ \A k \in ErrorKinds : Err(k) \in Errors
  /\ \A a, b \in Int : NotFound(<<a, b>>) \in Errors
  /\ \A a \in Int : NotFound(<<a>>) \in Errors
<1>1. \A a \in Int : <<a>> \in [1..1 -> Int]
  OBVIOUS
<1>. QED BY <1>1 DEF Err, NotFound, Errors, Series

LEMMA EInvNext == EInv /\ [Next]_vars => EInv'
<1> SUFFICES ASSUME EInv, [Next]_vars PROVE EInv'
  OBVIOUS
<1>1. TypeInv'
  BY TypeInvMain, TypeInvGetAllVersionTags, TypeInvSearch, TypeInvStutter DEF EInv, Next
<1>2. CASE Main
  BY <1>1, <1>2, MessagesAreErrors DEF Main, Fail, Answer, Exited, EInv, ErrorKinds
<1>3. CASE GetAllVersionTags
  BY <1>1, <1>3, MessagesAreErrors DEF GetAllVersionTags, Fail, Exited, EInv, ErrorKinds
<1>4. CASE Search
  <2>1. parsed \in Version /\ \A i \in DOMAIN tags : tags[i].name \in Strings
    BY <1>4 DEF Search, EInv, TypeInv, TypeOK, PastFixedRules, Tag
  <2>2. TargetMinor(parsed) \in Int /\ TargetMajor(parsed) \in Int
    BY <2>1 DEF TargetMinor, TargetMajor, Version
  <2>. QED
    BY <1>1, <1>4, <2>1, <2>2, MessagesAreErrors
       DEF Search, Report, Fail, Answer, Exited, EInv, ErrorKinds
<1>5. CASE UNCHANGED vars
  BY <1>1, <1>5 DEF Exited, EInv, vars
<1>. QED BY <1>2, <1>3, <1>4, <1>5 DEF Next

LEMMA EInvAlways == Spec => []EInv
<1>1. Init => EInv
  BY TypeInvInit DEF Init, EInv, Exited
<1>. QED BY <1>1, EInvNext, PTL DEF Spec

\* In a state of OInv and EInv, the search's outcome is what 4.3 says.
LEMMA SearchOutcomeHolds == OInv /\ EInv => SearchOutcome
<1> DEFINE S   == PT!TargetSeries(parsed)
           InS == {t \in Repo : PT!InSeries(Parse(t), S)}
<1> SUFFICES ASSUME OInv, EInv, SearchedRepo
             PROVE  IF \A t \in Repo : Parse(t) = None THEN stderr = Err("NoValidTags")
                    ELSE IF InS = {} THEN stderr = NotFound(S)
                    ELSE /\ stdout \in InS
                         /\ \A t \in InS : ~VersionLt(Parse(stdout), Parse(t))
  BY DEF SearchOutcome
<1>1. /\ pc = "exited"
      /\ parsed \in Version /\ VersionLeq(<<1, 1, 5>>, parsed)
      /\ stderr \notin {Err("SourceFailed"), Err("Traceback")}
  BY DEF SearchedRepo
<1>2. Len(argv) = 1 /\ parsed = Parse(argv[1])
  BY <1>1, NoneAssumption DEF OInv, ParsedArg
<1>3. Outcome \in PT!SourceFailures \cup PT!Resolved(parsed, Repo)
  BY <1>1, <1>2, OutcomesSearched DEF OInv, OutcomeAllowed, Repo
\* What the outcome says of the process's outputs.
<1>4. \/ exitCode = 0 /\ stdout \in Strings /\ Outcome = PT!Out("Tag", stdout)
      \/ /\ exitCode = 1 /\ stderr \in Errors /\ stderr # Err("Traceback")
         /\ Outcome = PT!Out(stderr.kind, stderr.series)
  BY <1>1 DEF EInv, Exited, Outcome, PT!Out
<1>5. Outcome \notin PT!SourceFailures
  BY <1>1, <1>4 DEF Errors, Err, PT!SourceFailures, PT!Out
<1>6. Outcome \in PT!Resolved(parsed, Repo)
  BY <1>3, <1>5
<1>7. CASE \A t \in Repo : Parse(t) = None
  <2>1. Outcome = PT!Out("NoValidTags", <<>>)
    BY <1>6, <1>7 DEF PT!Resolved
  <2>. QED BY <1>4, <1>7, <2>1 DEF Errors, Err, PT!Out
<1>8. CASE ~(\A t \in Repo : Parse(t) = None) /\ InS = {}
  <2>1. Outcome = PT!Out("NotFound", S)
    BY <1>6, <1>8 DEF PT!Resolved
  <2>. QED BY <1>4, <1>8, <2>1 DEF Errors, NotFound, PT!Out
<1>9. CASE ~(\A t \in Repo : Parse(t) = None) /\ InS # {}
  <2>1. PICK t \in PT!Newest(InS) : Outcome = PT!Out("Tag", t)
    BY <1>6, <1>9 DEF PT!Resolved
  <2>2. stdout = t
    BY <1>4, <2>1 DEF Errors, ErrorKinds, PT!Out
  <2>. QED BY <1>9, <2>1, <2>2 DEF PT!Newest, PT!VersionLt, VersionLt
<1>. QED BY <1>7, <1>8, <1>9

\* SearchOutcome (spec.md 4.3) holds in every state of every run: whatever
\* order git lists the tags in, an invocation from v1.1.5 on that searched
\* the repository reports no valid tags, reports the spec's series not
\* found, or prints a newest tag of that series.
THEOREM SearchCorrect == Spec => []SearchOutcome
BY OInvAlways, EInvAlways, SearchOutcomeHolds, PTL

(***************************************************************************)
(* Refinement.  Under the mapping outcome <- Outcome, an invocation of the *)
(* script implements PreviousTag: its start is an abstract start with no   *)
(* outcome, the steps before its end leave the outcome None and stutter,   *)
(* the step that ends it resolves the invocation with an outcome the       *)
(* specification allows (OutcomeAllowed), and nothing happens after it.    *)
(***************************************************************************)
LEMMA RefineInit == Init => PT!AbsInit
BY DEF Init, PT!AbsInit, Outcome

LEMMA RefineStep == OInv /\ OInv' /\ [Next]_vars => [PT!Resolve]_PT!absVars
<1> SUFFICES ASSUME OInv, OInv', [Next]_vars PROVE [PT!Resolve]_PT!absVars
  OBVIOUS
<1>1. UNCHANGED <<argv, gitTags>>
  BY DEF Next, Main, GetAllVersionTags, Search, vars
<1>2. CASE pc = "exited"
  <2>1. UNCHANGED vars
    BY <1>2 DEF Next, Main, GetAllVersionTags, Search
  <2>. QED BY <2>1 DEF vars, PT!absVars, Outcome
<1>3. CASE pc # "exited" /\ pc' # "exited"
  BY <1>1, <1>3 DEF PT!absVars, Outcome
<1>4. CASE pc # "exited" /\ pc' = "exited"
  <2>1. Outcome = None
    BY <1>4 DEF Outcome
  <2>2. Outcome' \in PT!Outcomes(argv, gitTags)
    BY <1>1, <1>4 DEF OInv, OutcomeAllowed
  <2>. QED BY <1>1, <2>1, <2>2 DEF PT!Resolve
<1>. QED BY <1>2, <1>3, <1>4

\* The script implements the one-step specification PreviousTag of what
\* previous-git-version promises (spec.md 4.3, 5, 6 and 7), for every
\* parser, every set of arguments and listings and every set of git faults.
THEOREM Refinement == Spec => Refines
<1>1. Init => PT!AbsInit
  BY RefineInit
<1>2. [][Next]_vars /\ []OInv => [][PT!Resolve]_PT!absVars
  BY RefineStep, PTL
<1>. QED BY <1>1, <1>2, OInvAlways, PTL DEF Spec, Refines, PT!AbsSpec
=============================================================================
