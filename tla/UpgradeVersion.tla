--------------------------- MODULE UpgradeVersion ---------------------------
(***************************************************************************)
(* get_upgrade_version.py: one process per invocation, each reading its    *)
(* command line, parsing the version and printing the upgrade boundary of  *)
(* the threshold ladder, or failing with exit status 1.  Invocations share *)
(* nothing; Runs is the set of invocations a model compares.               *)
(***************************************************************************)
EXTENDS VersionParser

CONSTANTS
  Runs,     \* the invocations of the script
  Argvs     \* the sys.argv[1:] the invocations may be given

VARIABLES
  argv,     \* argv[r]: sys.argv[1:] of invocation r
  parsed,   \* parsed[r]: the local `parsed` of main, None before it is set
  stdout,   \* stdout[r]: the line printed, None if nothing was printed
  stderr,   \* stderr[r]: the error fail() reported, None if none
  exitCode  \* exitCode[r]: the exit status, None while r runs

vars == <<argv, parsed, stdout, stderr, exitCode>>

Str == Seq(STRING)

\* sys.argv[1:] is a list of strings.
ASSUME ArgvsAssumption == Argvs \subseteq Seq(Str)

Errors == {"Usage", "Format"}

\* None, Python's None, is not an exit status: exitCode[r] is None exactly
\* while invocation r runs.
ASSUME NoneExitAssumption == None \notin {0, 1}

TypeOK ==
  /\ argv \in [Runs -> Argvs]
  /\ parsed \in [Runs -> Version \cup {None}]
  /\ stdout \in [Runs -> Str \cup {None}]
  /\ stderr \in [Runs -> Errors \cup {None}]
  /\ exitCode \in [Runs -> {None, 0, 1}]

Init ==
  /\ argv \in [Runs -> Argvs]
  /\ parsed = [r \in Runs |-> None]
  /\ stdout = [r \in Runs |-> None]
  /\ stderr = [r \in Runs |-> None]
  /\ exitCode = [r \in Runs |-> None]

V1_0_20 == <<"v", "1", ".", "0", ".", "2", "0">>

V1_1_1 == <<"v", "1", ".", "1", ".", "1">>

V1_1_5 == <<"v", "1", ".", "1", ".", "5">>

\* Mutant: the fourth band prints v{major}.{minor - 1}, as the sibling
\* script derives its series.
UpgradeTargetMinorMinusOne(v) ==
  IF VersionLt(v, <<1, 1, 1>>) THEN V1_0_20
  ELSE IF VersionLt(v, <<1, 1, 5>>) THEN V1_1_1
  ELSE IF VersionLt(v, <<1, 2, 0>>) THEN V1_1_5
  ELSE IF VersionLt(v, <<2, 0, 0>>) THEN <<"v">> \o StrOf[v[1]] \o <<".">> \o StrOf[v[2] - 1]
  ELSE <<"v">> \o StrOf[v[1]]

\* Mutant: the second band closed at v1.1.5 (<= for <).
UpgradeTargetUpTo115(v) ==
  IF VersionLt(v, <<1, 1, 1>>) THEN V1_0_20
  ELSE IF VersionLeq(v, <<1, 1, 5>>) THEN V1_1_1
  ELSE IF VersionLt(v, <<1, 2, 0>>) THEN V1_1_5
  ELSE IF VersionLt(v, <<2, 0, 0>>) THEN <<"v">> \o StrOf[v[1]] \o <<".">> \o StrOf[v[2]]
  ELSE <<"v">> \o StrOf[v[1]]

\* Mutant: the third band starts at v1.1.4.
UpgradeTargetFrom114(v) ==
  IF VersionLt(v, <<1, 1, 1>>) THEN V1_0_20
  ELSE IF VersionLt(v, <<1, 1, 4>>) THEN V1_1_1
  ELSE IF VersionLt(v, <<1, 2, 0>>) THEN V1_1_5
  ELSE IF VersionLt(v, <<2, 0, 0>>) THEN <<"v">> \o StrOf[v[1]] \o <<".">> \o StrOf[v[2]]
  ELSE <<"v">> \o StrOf[v[1]]

\* The if/elif ladder of main: the string printed for version v.
UpgradeTarget(v) ==
  IF VersionLt(v, <<1, 1, 1>>) THEN V1_0_20
  ELSE IF VersionLt(v, <<1, 1, 5>>) THEN V1_1_1
  ELSE IF VersionLt(v, <<1, 2, 0>>) THEN V1_1_5
  ELSE IF VersionLt(v, <<2, 0, 0>>) THEN <<"v">> \o StrOf[v[1]] \o <<".">> \o StrOf[v[2]]
  ELSE <<"v">> \o StrOf[v[1]]

\* Mutant: fail() exits with status 2.
FailStatus2(r, e) ==
  /\ stderr' = [stderr EXCEPT ![r] = e]
  /\ exitCode' = [exitCode EXCEPT ![r] = 2]
  /\ UNCHANGED stdout

\* fail(msg): "Error: msg" to stderr, exit status 1.
Fail(r, e) ==
  /\ stderr' = [stderr EXCEPT ![r] = e]
  /\ exitCode' = [exitCode EXCEPT ![r] = 1]
  /\ UNCHANGED stdout

\* main() of invocation r, from the argument check to the print.
Main(r) ==
  /\ exitCode[r] = None
  /\ UNCHANGED argv
  /\ \/ /\ Len(argv[r]) # 1
        /\ Fail(r, "Usage")
        /\ UNCHANGED parsed
     \/ /\ Len(argv[r]) = 1
        /\ parsed' = [parsed EXCEPT ![r] = ParseVersion(argv[r][1])]
        /\ IF parsed'[r] = None
             THEN Fail(r, "Format")
             ELSE /\ stdout' = [stdout EXCEPT ![r] = UpgradeTarget(parsed'[r])]
                  /\ exitCode' = [exitCode EXCEPT ![r] = 0]
                  /\ UNCHANGED stderr

Next == \E r \in Runs : Main(r)

Spec == Init /\ [][Next]_vars

-----------------------------------------------------------------------------
Done(r) == exitCode[r] # None

Succeeded(r) == exitCode[r] = 0

EndsInNewline(s) == s # <<>> /\ s[Len(s)] = "\n"

\* The parser behind main agrees with the valid forms of spec.md 4.1 (the
\* reference scan SpecVersion) on every argument that does not end in a
\* newline: it accepts exactly those forms and returns their triple.
ParsedPerSpec ==
  \A r \in Runs :
    Done(r) /\ Len(argv[r]) = 1 /\ ~EndsInNewline(argv[r][1])
      => parsed[r] = SpecVersion(argv[r][1])

\* spec.md 4.1 and 6: the script exits 0 only on an argument of one of the
\* three valid forms, "with no trailing or leading characters"; anything
\* else fails with the invalid-format error.
RejectsMalformed ==
  \A r \in Runs :
    Done(r) /\ Len(argv[r]) = 1
      => (Succeeded(r) <=> SpecVersion(argv[r][1]) # None)

\* The ladder of main is monotone: a newer version never gets an older
\* upgrade boundary than an older version does.
UpgradeMonotone ==
  \A r1, r2 \in Runs :
    Succeeded(r1) /\ Succeeded(r2) /\ VersionLeq(parsed[r1], parsed[r2])
      => VersionLeq(ParseVersion(stdout[r1]), ParseVersion(stdout[r2]))

\* Feeding the script its own answer gives the same answer back: every
\* string the ladder prints is a version that lies in its own band.
UpgradeFixedPoint ==
  \A r1, r2 \in Runs :
    Succeeded(r1) /\ Done(r2) /\ argv[r2] = <<stdout[r1]>>
      => stdout[r2] = stdout[r1]

\* From v1.1.1 on, the upgrade boundary printed is never newer than the
\* version given.
UpgradeNotAboveInput ==
  \A r \in Runs :
    Succeeded(r) /\ VersionLeq(<<1, 1, 1>>, parsed[r])
      => VersionLeq(ParseVersion(stdout[r]), parsed[r])

=============================================================================
