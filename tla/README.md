# TLA+ models of the localnet version scripts

This directory models the two release-workflow scripts in
`src/contrib/localnet/scripts/`. It contains TLA+ modules, TLC model-checking
configurations and TLAPS proofs.

- `get_upgrade_version.py` maps a version to the upgrade boundary an upgrade
  test targets.
- `get_previous_git_version.py` maps a version to the existing git tag an
  upgrade starts from.

## The system and its parts

Each script runs as one process per invocation. It reads `sys.argv`, parses
the version with one of two identical regex parsers (`parse_version` and
`parse_major_minor_patch`), then walks a threshold ladder. Nothing is shared
between invocations, and nothing runs concurrently within one. The only
interaction with the outside world is `git tag --list`, which
`get_previous_git_version.py` runs from `get_all_version_tags`.

| Part (spec.md name) | Source | Modules | Status |
|---|---|---|---|
| Version Parser | `get_upgrade_version.py:12-39`, `get_previous_git_version.py:13-40` | `Version`, `VersionParser`, `VersionParserProofs` | modelled |
| Threshold Resolver | `get_upgrade_version.py:41-73` | `UpgradeVersion`, `MCUpgradeVersion`, `UpgradeVersionProofs` | modelled |
| Tag Selector | `get_previous_git_version.py:71-93, 95-170` | `PreviousGitVersion`, `MCPreviousGitVersion`, `PreviousGitVersionProofs`; abstract spec `PreviousTag` | modelled |
| Tag Source | `get_previous_git_version.py:42-58` | `PreviousGitVersion` | modelled as the environment |
| `find_largest_tag` | `get_previous_git_version.py:60-69` | none | not modelled: nothing calls it |
| unit tests | `*_test.py` | none | not modelled: their scenarios are among the enumerated inputs |

### Version, VersionParser

`Version` is `Nat \X Nat \X Nat`. `VersionLt` is Python's lexicographic tuple
comparison. `None` is a model value, assumed not to be a version.

`VersionParser` models a string as a sequence of one-character strings, and
models the regexes by what they accept:

- `Match(s, n)` is `^v(\d+)(\.\d+){n-1}$`. `Body` drops one final `"\n"`,
  because in Python's `re` the anchor `$` also matches before a trailing
  newline.
- `GroupValue` is `int(match.group(k))`. It is computed by the recursive
  function `IntOf`, so leading zeros are accepted.
- `ParseVersion` tries the three patterns in the code's order.
- `StrOf` is the decimal formatting that the f-strings do.

`SpecVersion` is not code. It is an independent left-to-right scan of the
forms that spec.md 4.1 calls valid, and serves as the reference the parser is
checked against.

`CharsAssumption` states that the digits, `"v"`, `"."` and `"\n"` are
one-character strings, i.e. members of `STRING`. This is true of TLA+
strings, but the provers do not know it.

### UpgradeVersion

The state is one record per invocation `r` in `Runs`: `argv`, `parsed`,
`stdout`, `stderr` and `exitCode`.

`Main(r)` is the whole of `main()`:

- it checks the argument count, and fails with Usage if it is wrong;
- it parses the argument, and fails with Format if parsing fails;
- otherwise it prints `UpgradeTarget(parsed)` (the if/elif ladder, including
  its formatting) and exits 0.

`Fail` is `fail()`, which sets exit status 1. `ArgvsAssumption` says that
`sys.argv[1:]` is a list of strings. `NoneExitAssumption` says that None,
which marks an invocation still running, is not an exit status. Two invocations are enough to
state relations between runs, such as monotonicity and the fixed point.

### PreviousGitVersion

The variables are:

- `argv`;
- `gitTags`, what git lists, in git's order;
- a program counter `pc` with the values `main`, `tags` (at the git call),
  `search` and `exited`;
- `parsed` and `tags`;
- the process outputs `stdout`, `stderr` and `exitCode`.

The actions follow the code in order:

- **`Main`**: lines 112-130. It covers the argument check, parsing, and the
  fixed answers of rules 1 and 2.
- **`GetAllVersionTags`**: lines 42-58 and 133-135. It has three alternatives:
  - git exits non-zero, which is caught and fails with "Failed to list git
    tags";
  - git cannot be started or decoded, which escapes as a traceback;
  - the listing is read. `Lines` is `strip().split("\n")`, where an empty
    listing gives `[""]`. `VersionTags` is the parse filter. An empty result
    fails with "No valid version tags".
- **`Search`**: lines 137-167. It covers rules 3, 4 and 5, with the guards
  `MinorInvalid` and `MajorInvalid`, and `Report`, which is the
  None-check-then-print.

`tags` is a function from positions in git's output to `[name, ver]`
records. The positions keep the order that `results.append` builds.

`candidates.sort(key)[-1]` is characterised by `SortedLastAt`. Python's sort
is stable, so the entry returned is the last-listed candidate whose key is
maximal. That is:

- no candidate's key exceeds it;
- every later candidate's key is strictly smaller.

The action picks that entry with `\E`. Exactly one entry satisfies the
condition, so the choice is deterministic, as the code is.

The parser is a constant operator `Parse`, constrained only by
`ParseAssumption` (it returns None or a version). This is what lets the
proofs hold for every parser. The MC module substitutes the real
`parse_major_minor_patch`.

The error messages are records `[kind, series]`. The not-found message carries
its series.

Two more assumptions constrain the constants:

- `NoneDistinctAssumption`: None is neither a string nor an error message.
- `EmptyLineAssumption`: the empty line that an empty listing splits into does
  not parse. The real parser satisfies this, because every pattern starts
  with `v`.

### PreviousTag, the abstract specification

`PreviousTag` states what `get_previous_git_version.py` promises, with no
program counter and no intermediate list. It has the same `argv` and
`gitTags`, plus one variable `outcome`, which is None until one step,
`Resolve`, sets it to a member of `Outcomes(argv, gitTags)`.

An outcome is `[kind, arg]`: the kind of error with its series, or `"Tag"`
with the name printed. `Outcomes` follows spec.md:

- Usage, then Format;
- v1.0.20 below v1.1.1, and v1.1.1 below v1.1.5;
- otherwise, a source failure if git can fail (spec 5), or the outcome
  `Resolved` of searching the repository's tags. That outcome is one of:
  - "no valid tags";
  - "not found" with the series of the 4.3 table;
  - any tag of the series that no tag of the series is newer than.

Ties are left open, so the stable-sort choice of the code is one of the
allowed answers.

The refinement mapping is `Outcome` in `PreviousGitVersion`:

- None before the process exits;
- the printed name on exit 0;
- the source failure when the process ends in a traceback;
- otherwise the kind and series of the error reported.

The traceback is mapped to a source failure because spec 5 makes any source
failure fatal. That the traceback is not the *reported* error of spec 7 is
what the violation run `prev_gitfault` shows.

## Runs

| Run | Config | Result | What it shows |
|---|---|---|---|
| `upgrade_parser` | `UpgradeVersion_parser.cfg` | pass, 22,430 states | `ParsedPerSpec`: the parser returns exactly `SpecVersion` on every argument without a final newline out of two sets. The first is every string of length at most 5 over `{v . 0 1 \n}`. The second is every string of length 6 to 8 that starts with `v` and continues over `{0 1 .}`, with newlines also allowed up to length 7. This covers leading zeros, empty runs, doubled dots, a missing `v`, all three patterns with their third group (`v0.0.0`, `v10.1.1`), a fourth group (`v0.0.0.0`) and a newline inside the string. |
| `upgrade_newline` | `UpgradeVersion_newline.cfg` | violation | `RejectsMalformed` fails on `"v1\n"`, which is accepted and answered (finding 1). |
| `upgrade_ladder` | `UpgradeVersion_ladder.cfg` | pass, 14,400 states | `TypeOK`, `UpgradeMonotone`, `UpgradeFixedPoint` and `UpgradeNotAboveInput` over pairs of invocations. The inputs sit on both sides of every threshold: x.y.z with x,y in 0..2 and z in {0,1,4,5,20}; x.y; x. |
| `prev_git` | `PreviousGitVersion.cfg` | pass, 113,490 states | `TypeOK`, `SearchOutcome`, `DerivedSeriesIsPrior` and `GuardsNeverFire`. The tag listings are every ordering of every subset of a pool of six names, which includes an unparseable one and two spellings of 1.3.4. Inputs hit every rule, both git faults are possible, and the argument count may be wrong. |
| `prev_refines` | `PreviousGitVersion_refines.cfg` | pass, 113,490 states | `MCRefines`: every behaviour of the script, over the same inputs as `prev_git`, is a behaviour of `PreviousTag` under the mapping `Outcome`. `MCRefines` is `PreviousTag` instantiated with the MC module's constants directly: TLC caches those, whereas substituting `Listings <- MCListings` through `PreviousGitVersion` re-evaluates the listing set on every step. |
| `prev_gitfault` | `PreviousGitVersion_gitfault.cfg` | violation | `FailuresReported`: git that cannot be started ends the process with a traceback (finding 2). |

The properties:

- **`SearchOutcome`** states spec.md 4.3 against the repository's tag list
  rather than the script's intermediate list. Whatever order git lists the
  tags in, the result is one of:
  - "no valid tags";
  - "not found" naming the spec's series;
  - a name from that series that no tag of the series is newer than.
- **`DerivedSeriesIsPrior`**: from v1.2.0 on, the printed tag is strictly older
  than the input.
- **`GuardsNeverFire`**: the two guards at lines 151 and 161 are dead code.
- **`UpgradeFixedPoint`**: feeding `get_upgrade_version.py` its own answer
  returns the same answer.

Each passing property has a mutant, listed in `PROJECT.json`, that models a
plausible slip in the code, and TLC finds each mutant's property violated.
The slips are:

- a band edge moved, or `<` written as `<=`;
- the one-level sort keyed on the minor only;
- the major not decremented (the mutant of both `DerivedSeriesIsPrior` and
  `MCRefines`);
- the guard written `<= 1`;
- `\d*` for `\d+`;
- the `is not None` filter dropped;
- the wrong exit status.

Why the bounds are enough:

- The parser's outcome depends on the number of dots (0 to 3), on empty
  runs, on the first character, and on where a newline sits. The shortest
  string with three groups has 6 characters, and the shortest with four has 8.
  The `v`-prefixed strings of up to 8 characters reach all of these cases.
- The ladders are decided by comparisons with five constants. The inputs take
  values just below, at and above each of them.
- The tag pool has, for each rule, tags inside and outside its series.
- The pool also has equal triples with different names (v1.3.4 and v1.03.4),
  and enumerating every order of it exercises the stable-sort tie-break.

Each process terminates after at most three steps, so the runs disable
deadlock checking. A finished process really does stop. No fairness is
assumed, and no liveness property is stated: a script with no loop or wait
has no liveness beyond termination, and termination is evident from the step
count.

## Findings

1. **The `$` anchor accepts a trailing newline.** Both parsers use `$` at the
   end of the pattern, and in Python's `re` it also matches before a final
   newline. So `"v1\n"` and `"v1.2.3\n"` are accepted, although spec 4.1 says
   there are no trailing characters. (`get_upgrade_version.py:19`; the same
   pattern is at `get_previous_git_version.py:20`.)
2. **Only `CalledProcessError` is caught.** When git is missing or prints
   non-UTF-8 output, the script ends with a traceback instead of
   "Error: Failed to list git tags", which spec §5 and §7 require.

## Proofs

### The tag selector: PreviousGitVersionProofs

`PreviousGitVersionProofs` proves five theorems for every value of the
constants. They assume `ParseAssumption`, `StringsAssumption`,
`NoneAssumption`, `NoneDistinctAssumption` and `EmptyLineAssumption`. The
parser enters only through `ParseAssumption` (it returns None or a version),
so the theorems hold for any parser of that type, the real one included.

- **`TypeCorrect`**: `Spec => []TypeOK`. `TypeOK` alone is not inductive,
  because `Search` computes the derived series from `parsed`, which `TypeOK`
  allows to be None. The strengthening `PastFixedRules` says that at `tags`
  and `search`, `parsed` is a version from v1.1.5 on. There is one lemma per
  action.
- **`GuardsDead`** (`Spec => []GuardsNeverFire`) and **`DerivedTagPrior`**
  (`Spec => []DerivedSeriesIsPrior`) both follow from one inductive invariant,
  `Inv`. It is the conjunction of:
  - `TypeInv`;
  - `TagsParsed`: each entry's version is what parsing its name gives, which
    is needed because the property re-parses what was printed;
  - the two properties themselves.

  `LadderRanges` packages the arithmetic facts of the ladder: rule 4 runs only
  for v1.m.p with m >= 2, and rule 5 only for majors of 2 and more. The Search
  step has one case per rule. In each case the entry printed lies in the
  derived series, which is strictly below the input.
- **`SearchCorrect`**: `Spec => []SearchOutcome`. It rests on the inductive
  invariant `OInv`, whose main conjunct is `OutcomeAllowed`: an exited
  process's `Outcome` is in `PreviousTag`'s `Outcomes`. To keep that
  inductive, `OInv` also records what each control point knows:
  - `Started`: nothing is set at `main`;
  - `Running`: at `tags` and `search`, `parsed` is the version of the one
    argument, and nothing has been printed yet;
  - `ListingRead`: at `search`, `tags` is exactly the parse-filtered listing,
    and it is not empty;
  - `ParsedArg`: after exit, a non-None `parsed` is still the argument's
    version.

  Without `ListingRead`, the search step could not be related to the
  repository's tags, which is what the property is stated against.

  The lemmas carry the search's reasoning:
  - `TSFacts` and `SomeTag` relate the list to the listing;
  - `SeriesNames` says the repository's tags in a series are the names of the
    entries in it;
  - `PatchLastIsNewest` and `MinorPatchLastIsNewest` say the entry that the
    sorted-last characterisation picks has a version no candidate exceeds;
  - `NewestEntry` turns that into a newest name of the series;
  - `ReportAllowed` shows that the None-check-then-print ends in an allowed
    outcome.

  A second invariant, `EInv`, says an exited process printed a string with
  status 0 or reported an error message with status 1. With it,
  `SearchOutcomeHolds` reads the outputs back from the outcome.
- **`Refinement`**: `Spec => Refines`, where `Refines` is `PreviousTag`'s
  specification under the mapping `Outcome`. The proof has two parts:
  - `RefineInit`: an initial state maps to an initial state;
  - `RefineStep`: under `OInv` in both states, every step maps to a
    `Resolve` step or a stutter. Steps before exit keep the outcome None,
    the exiting step sets it to an allowed outcome by `OutcomeAllowed`, and
    an exited process takes no more steps.

  The run `prev_refines` checks the same formula, `MCRefines`, on the model's
  constants.

Each invariant was first run with TLC as an invariant of the `prev_git`
instance, and passed there, before it was proved.

### The parser and the ladder: VersionParserProofs, UpgradeVersionProofs

These two modules prove the `upgrade_ladder` run's four invariants for every
set of invocations and every set of argument lists. They assume
`NoneAssumption`, `CharsAssumption`, `ArgvsAssumption` and
`NoneExitAssumption`.

- **`TypeCorrectness`**: `Spec => []TypeOK`.
- **`LadderMonotone`**: `Spec => []UpgradeMonotone`.
- **`LadderFixedPoint`**: `Spec => []UpgradeFixedPoint`.
- **`LadderNotAbove`**: `Spec => []UpgradeNotAboveInput`.

All four follow from one inductive invariant (`IInvInvariant`). `IInv` is
`TypeOK`, plus `RunState(r)` for each invocation:

- a running invocation has set nothing;
- one that exited 0 had one argument, its `parsed` is that argument's
  `ParseVersion`, and that is a version;
- its `stdout` is `UpgradeTarget(parsed)`;
- one that exited 1 had the wrong count or an unparsable argument.

`TypeOK` alone is not inductive. The properties compare what was printed with
what was parsed and with other invocations' arguments, so the invariant has
to tie the outputs to the argument. `NextIInv` has one case for each outcome
of `main`: Usage, Format and success. IInv was first checked with TLC as an
invariant of the `upgrade_ladder` instance.

The lemmas that carry the argument are about the parser and the formatter:

- **Well-founded induction replaces data induction.**
  - `LeastNat` gives a least element of any non-empty set of naturals, via
    `WellFoundedInduction`'s minimum of a well-founded relation.
  - Each fact about the recursive functions `StrOf` and `IntOf` is proved by
    taking a least counterexample and deriving a contradiction.
  - `StrOfDef` and `IntValDef` unfold the recursive functions through
    `WFInductiveDef`.
- `StrOfDigits` and `IntOfStrOf`: `str(n)` is a non-empty run of digits, and
  `int(str(n)) = n`.
- `IntOfNat`: `int()` of a run of digits is a natural number.
- `MatchShape`, `ParseOne`, `ParseTwo` and `ParseThree`: "v" followed by one,
  two or three digit runs joined by single dots parses to the triple of their
  values, zeros filled in.
- `ParseVersionType`: `ParseVersion` returns a version or None on every
  string. Each group a match captures lies between two consecutive dots, so
  it is a run of digits.
- `TargetVersion(v)` is the version that the printed string parses back to.
  - `ParseTarget` shows that the ladder's output parses back to it.
  - `TargetInBand` shows that it lies in its own band of the ladder. This
    gives the fixed point.
  - `TargetMonotone` and `TargetNotAbove` are the ladder's arithmetic.

What stays with TLC:

- `ParsedPerSpec`, the parser against the reference scan `SpecVersion`, is
  not proved. It would need an equivalence between two different recursive
  recognisers of the same language: the regex model counts dots, and the
  reference scans characters left to right. That is an induction over the
  string with a different invariant for each scanner state. It is checked on
  every string of up to the run's length over the run's alphabet.
- `RejectsMalformed` is a violation run: it shows the trailing-newline
  divergence, so there is nothing to prove.
- Liveness would need ENABLED and fairness reasoning, which TLAPS does not
  cover. The model has no liveness property: every invocation takes exactly
  one `main` step, and nothing forces it to take one.
- No action property is stated for `UpgradeVersion`. Each invocation takes
  one step, guarded by `exitCode[r] = None`, so the only candidate ("a
  finished invocation's outputs never change") restates that guard.

## Plan for later work

- Prove that `SortedLastAt` is met by exactly one entry of a non-empty
  candidate set. Safety does not need it, because a step with no such entry
  is simply disabled, but it is what makes the choice deterministic.
- Model-check the stable-sort characterisation `SortedLastAt` against a
  reference insertion sort over bounded sequences.
- Compose the two scripts the way the localnet upgrade test uses them (the
  boundary from one, the start tag from the other), and check that the start
  precedes the boundary.
- Prove `ParsedPerSpec`: that the regex model and the reference scan accept
  the same strings, with the same values.
