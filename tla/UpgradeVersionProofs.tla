------------------------- MODULE UpgradeVersionProofs -------------------------
(***************************************************************************)
(* Proofs about get_upgrade_version.py for every set of invocations and    *)
(* every set of arguments: the types, and the three properties of the      *)
(* threshold ladder the runs check (UpgradeMonotone, UpgradeFixedPoint,    *)
(* UpgradeNotAboveInput).  They rest on what parse_version returns for the *)
(* strings the ladder prints (VersionParserProofs).                        *)
(***************************************************************************)
EXTENDS UpgradeVersion, VersionParserProofs, TLAPS

(***************************************************************************)
(* The inductive invariant.  A finished invocation's outputs are what its  *)
(* argument determines: exit 0 with the ladder's answer for the parsed     *)
(* version, or exit 1 because the argument count or the format was wrong;  *)
(* a running one has set nothing yet.                                      *)
(***************************************************************************)
RunState(r) ==
  /\ exitCode[r] = None =>
       parsed[r] = None /\ stdout[r] = None /\ stderr[r] = None
  /\ exitCode[r] = 0 =>
       /\ Len(argv[r]) = 1
       /\ parsed[r] = ParseVersion(argv[r][1]) /\ parsed[r] \in Version
       /\ stdout[r] = UpgradeTarget(parsed[r])
  /\ exitCode[r] = 1 => Len(argv[r]) # 1 \/ ParseVersion(argv[r][1]) = None

IInv == TypeOK /\ \A r \in Runs : RunState(r)

-----------------------------------------------------------------------------
(***************************************************************************)
(* The ladder.  TargetVersion(v) is the version the string printed for v   *)
(* parses back to.                                                         *)
(***************************************************************************)
TargetVersion(v) ==
  IF VersionLt(v, <<1, 1, 1>>) THEN <<1, 0, 20>>
  ELSE IF VersionLt(v, <<1, 1, 5>>) THEN <<1, 1, 1>>
  ELSE IF VersionLt(v, <<1, 2, 0>>) THEN <<1, 1, 5>>
  ELSE IF VersionLt(v, <<2, 0, 0>>) THEN <<v[1], v[2], 0>>
  ELSE <<v[1], 0, 0>>

\* A printed version lies in its own band: the ladder maps it to itself.
LEMMA TargetInBand ==
  ASSUME NEW v \in Version
  PROVE  /\ TargetVersion(v) \in Version
         /\ UpgradeTarget(TargetVersion(v)) = UpgradeTarget(v)
<1>1. v[1] \in Nat /\ v[2] \in Nat /\ v[3] \in Nat
  BY DEF Version
<1>2. TargetVersion(v) \in Version
  BY <1>1 DEF TargetVersion, Version
<1>3. CASE VersionLt(v, <<1, 1, 1>>)
  <2>1. TargetVersion(v) = <<1, 0, 20>> /\ VersionLt(<<1, 0, 20>>, <<1, 1, 1>>)
    BY <1>3 DEF TargetVersion, VersionLt
  <2>2. UpgradeTarget(<<1, 0, 20>>) = V1_0_20
    BY <2>1 DEF UpgradeTarget
  <2>3. UpgradeTarget(v) = V1_0_20
    BY <1>3 DEF UpgradeTarget
  <2>. QED BY <1>2, <2>1, <2>2, <2>3
<1>4. CASE ~VersionLt(v, <<1, 1, 1>>) /\ VersionLt(v, <<1, 1, 5>>)
  <2>1. /\ TargetVersion(v) = <<1, 1, 1>>
        /\ ~VersionLt(<<1, 1, 1>>, <<1, 1, 1>>) /\ VersionLt(<<1, 1, 1>>, <<1, 1, 5>>)
    BY <1>4 DEF TargetVersion, VersionLt
  <2>2. UpgradeTarget(<<1, 1, 1>>) = V1_1_1
    BY <2>1 DEF UpgradeTarget
  <2>3. UpgradeTarget(v) = V1_1_1
    BY <1>4 DEF UpgradeTarget
  <2>. QED BY <1>2, <2>1, <2>2, <2>3
<1>5. CASE ~VersionLt(v, <<1, 1, 1>>) /\ ~VersionLt(v, <<1, 1, 5>>) /\ VersionLt(v, <<1, 2, 0>>)
  <2>1. /\ TargetVersion(v) = <<1, 1, 5>>
        /\ ~VersionLt(<<1, 1, 5>>, <<1, 1, 1>>) /\ ~VersionLt(<<1, 1, 5>>, <<1, 1, 5>>)
        /\ VersionLt(<<1, 1, 5>>, <<1, 2, 0>>)
    BY <1>5 DEF TargetVersion, VersionLt
  <2>2. UpgradeTarget(<<1, 1, 5>>) = V1_1_5
    BY <2>1 DEF UpgradeTarget
  <2>3. UpgradeTarget(v) = V1_1_5
    BY <1>5 DEF UpgradeTarget
  <2>. QED BY <1>2, <2>1, <2>2, <2>3
<1>6. CASE ~VersionLt(v, <<1, 1, 1>>) /\ ~VersionLt(v, <<1, 1, 5>>) /\ ~VersionLt(v, <<1, 2, 0>>)
           /\ VersionLt(v, <<2, 0, 0>>)
  <2>1. v[1] = 1 /\ v[2] >= 2
    BY <1>1, <1>6 DEF VersionLt
  <2> DEFINE t == <<1, v[2], 0>>
  <2>2. TargetVersion(v) = t
    BY <1>6, <2>1 DEF TargetVersion
  <2>3. /\ ~VersionLt(t, <<1, 1, 1>>) /\ ~VersionLt(t, <<1, 1, 5>>)
        /\ ~VersionLt(t, <<1, 2, 0>>) /\ VersionLt(t, <<2, 0, 0>>)
    BY <1>1, <2>1 DEF VersionLt, t
  <2>4. UpgradeTarget(t) = <<"v">> \o StrOf[t[1]] \o <<".">> \o StrOf[t[2]]
    BY <2>3 DEF UpgradeTarget
  <2>5. t[1] = v[1] /\ t[2] = v[2]
    BY <2>1 DEF t
  <2>6. UpgradeTarget(v) = <<"v">> \o StrOf[v[1]] \o <<".">> \o StrOf[v[2]]
    BY <1>6 DEF UpgradeTarget
  <2>. QED BY <1>2, <2>2, <2>4, <2>5, <2>6
<1>7. CASE ~VersionLt(v, <<1, 1, 1>>) /\ ~VersionLt(v, <<1, 1, 5>>) /\ ~VersionLt(v, <<1, 2, 0>>)
           /\ ~VersionLt(v, <<2, 0, 0>>)
  <2>1. v[1] >= 2
    BY <1>1, <1>7 DEF VersionLt
  <2> DEFINE t == <<v[1], 0, 0>>
  <2>2. TargetVersion(v) = t
    BY <1>7 DEF TargetVersion
  <2>3. /\ ~VersionLt(t, <<1, 1, 1>>) /\ ~VersionLt(t, <<1, 1, 5>>)
        /\ ~VersionLt(t, <<1, 2, 0>>) /\ ~VersionLt(t, <<2, 0, 0>>)
    BY <1>1, <2>1 DEF VersionLt, t
  <2>4. UpgradeTarget(t) = <<"v">> \o StrOf[t[1]]
    BY <2>3 DEF UpgradeTarget
  <2>5. t[1] = v[1]
    BY DEF t
  <2>6. UpgradeTarget(v) = <<"v">> \o StrOf[v[1]]
    BY <1>7 DEF UpgradeTarget
  <2>. QED BY <1>2, <2>2, <2>4, <2>5, <2>6
<1>. QED BY <1>2, <1>3, <1>4, <1>5, <1>6, <1>7

\* Python's <= on version triples, component by component.
LexLeq(a, b) ==
  \/ a[1] < b[1]
  \/ a[1] = b[1] /\ a[2] < b[2]
  \/ a[1] = b[1] /\ a[2] = b[2] /\ a[3] <= b[3]

LEMMA LeqComponents ==
  ASSUME NEW a \in Version, NEW b \in Version
  PROVE  VersionLeq(a, b) <=> LexLeq(a, b)
<1>1. a = <<a[1], a[2], a[3]>> /\ b = <<b[1], b[2], b[3]>>
      /\ a[1] \in Nat /\ a[2] \in Nat /\ a[3] \in Nat
      /\ b[1] \in Nat /\ b[2] \in Nat /\ b[3] \in Nat
  BY DEF Version
<1>2. a = b <=> a[1] = b[1] /\ a[2] = b[2] /\ a[3] = b[3]
  BY <1>1
<1>. QED BY <1>1, <1>2 DEF VersionLeq, VersionLt, LexLeq

\* The bands are ordered, and within the last two the answer follows the
\* version's major (and minor) number.
LEMMA TargetMonotone ==
  ASSUME NEW v \in Version, NEW w \in Version, VersionLeq(v, w)
  PROVE  VersionLeq(TargetVersion(v), TargetVersion(w))
<1>1. v[1] \in Nat /\ v[2] \in Nat /\ v[3] \in Nat /\ w[1] \in Nat /\ w[2] \in Nat /\ w[3] \in Nat
  BY DEF Version
<1>2. LexLeq(v, w)
  BY LeqComponents
<1>3. TargetVersion(v) \in Version /\ TargetVersion(w) \in Version
  BY TargetInBand, Zenon
<1>4. LexLeq(TargetVersion(v), TargetVersion(w))
  <2>1. CASE VersionLt(v, <<1, 1, 1>>)
    <3>1. TargetVersion(v) = <<1, 0, 20>>
      BY <2>1 DEF TargetVersion
    <3>2. LexLeq(<<1, 0, 20>>, TargetVersion(w))
      BY <1>1, <1>2, <2>1 DEF LexLeq, TargetVersion, VersionLt
    <3>. QED BY <3>1, <3>2
  <2>2. CASE ~VersionLt(v, <<1, 1, 1>>) /\ VersionLt(v, <<1, 1, 5>>)
    <3>1. TargetVersion(v) = <<1, 1, 1>>
      BY <2>2 DEF TargetVersion
    <3>2. LexLeq(<<1, 1, 1>>, TargetVersion(w))
      BY <1>1, <1>2, <2>2 DEF LexLeq, TargetVersion, VersionLt
    <3>. QED BY <3>1, <3>2
  <2>3. CASE ~VersionLt(v, <<1, 1, 1>>) /\ ~VersionLt(v, <<1, 1, 5>>) /\ VersionLt(v, <<1, 2, 0>>)
    <3>1. TargetVersion(v) = <<1, 1, 5>>
      BY <2>3 DEF TargetVersion
    <3>2. LexLeq(<<1, 1, 5>>, TargetVersion(w))
      BY <1>1, <1>2, <2>3 DEF LexLeq, TargetVersion, VersionLt
    <3>. QED BY <3>1, <3>2
  <2>4. CASE ~VersionLt(v, <<1, 1, 1>>) /\ ~VersionLt(v, <<1, 1, 5>>) /\ ~VersionLt(v, <<1, 2, 0>>)
             /\ VersionLt(v, <<2, 0, 0>>)
    <3>1. TargetVersion(v) = <<v[1], v[2], 0>>
      BY <2>4 DEF TargetVersion
    <3>2. LexLeq(<<v[1], v[2], 0>>, TargetVersion(w))
      BY <1>1, <1>2, <2>4 DEF LexLeq, TargetVersion, VersionLt
    <3>. QED BY <3>1, <3>2
  <2>5. CASE ~VersionLt(v, <<1, 1, 1>>) /\ ~VersionLt(v, <<1, 1, 5>>) /\ ~VersionLt(v, <<1, 2, 0>>)
             /\ ~VersionLt(v, <<2, 0, 0>>)
    <3>1. TargetVersion(v) = <<v[1], 0, 0>>
      BY <2>5 DEF TargetVersion
    <3>2. LexLeq(<<v[1], 0, 0>>, TargetVersion(w))
      BY <1>1, <1>2, <2>5 DEF LexLeq, TargetVersion, VersionLt
    <3>. QED BY <3>1, <3>2
  <2>. QED BY <2>1, <2>2, <2>3, <2>4, <2>5
<1>. QED BY <1>3, <1>4, LeqComponents

\* From v1.1.1 on, each band's answer is its lower end.
LEMMA TargetNotAbove ==
  ASSUME NEW v \in Version, VersionLeq(<<1, 1, 1>>, v)
  PROVE  VersionLeq(TargetVersion(v), v)
BY DEF TargetVersion, VersionLeq, VersionLt, Version

\* The fixed answers, as the f-strings would print them.
LEMMA FixedStrings ==
  /\ V1_0_20 = <<"v">> \o Join(Join(StrOf[1], StrOf[0]), StrOf[20])
  /\ V1_1_1 = <<"v">> \o Join(Join(StrOf[1], StrOf[1]), StrOf[1])
  /\ V1_1_5 = <<"v">> \o Join(Join(StrOf[1], StrOf[1]), StrOf[5])
<1>1. StrOf[0] = <<"0">> /\ StrOf[1] = <<"1">> /\ StrOf[2] = <<"2">> /\ StrOf[5] = <<"5">>
  <2>1. /\ StrOf[0] = <<DigitChars[0 + 1]>> /\ StrOf[1] = <<DigitChars[1 + 1]>>
        /\ StrOf[2] = <<DigitChars[2 + 1]>> /\ StrOf[5] = <<DigitChars[5 + 1]>>
    <3>1. 0 \in Nat /\ 0 < 10 /\ 1 \in Nat /\ 1 < 10 /\ 2 \in Nat /\ 2 < 10 /\ 5 \in Nat /\ 5 < 10
      OBVIOUS
    <3>. QED BY <3>1, StrOfDef, Zenon
  <2>2. /\ DigitChars[0 + 1] = "0" /\ DigitChars[1 + 1] = "1"
        /\ DigitChars[2 + 1] = "2" /\ DigitChars[5 + 1] = "5"
    BY DEF DigitChars
  <2>. QED BY <2>1, <2>2
<1>2. StrOf[20] = StrOf[2] \o <<"0">>
  <2>1. 20 \div 10 = 2 /\ 20 % 10 = 0 /\ ~(20 < 10)
    OBVIOUS
  <2>2. StrOf[20] = StrOf[20 \div 10] \o <<DigitChars[(20 % 10) + 1]>>
    BY <2>1, StrOfDef
  <2>. QED BY <2>1, <2>2 DEF DigitChars
<1>. QED BY <1>1, <1>2 DEF V1_0_20, V1_1_1, V1_1_5, Join

\* "v" + str(a) + "." + str(b) is "v" followed by str(a) joined to str(b).
LEMMA Band4String ==
  ASSUME NEW a \in Nat, NEW b \in Nat
  PROVE  <<"v">> \o StrOf[a] \o <<".">> \o StrOf[b] = <<"v">> \o Join(StrOf[a], StrOf[b])
<1> DEFINE X == Digit \cup {"v", "."}
           A == StrOf[a]
           B == StrOf[b]
<1> USE DEF A, B
<1>1. A \in Seq(X) /\ B \in Seq(X) /\ <<"v">> \in Seq(X) /\ <<".">> \in Seq(X)
  <2>1. A \in Seq(Digit) /\ B \in Seq(Digit)
    BY StrOfDigits
  <2>. QED BY <2>1
<1>0. \A s, t, u \in Seq(X) : (s \o t) \o u = s \o (t \o u)
  BY ConcatAssociative
<1>2. (<<"v">> \o A) \o <<".">> = <<"v">> \o (A \o <<".">>)
  BY <1>0, <1>1, Zenon
<1>3. (<<"v">> \o (A \o <<".">>)) \o B = <<"v">> \o ((A \o <<".">>) \o B)
  <2>1. A \o <<".">> \in Seq(X)
    BY <1>1, ConcatProperties, Zenon
  <2>2. \A u \in Seq(X) : (<<"v">> \o (A \o <<".">>)) \o u = <<"v">> \o ((A \o <<".">>) \o u)
    BY <1>0, <1>1, <2>1, Zenon
  <2>. QED BY <1>1, <2>2, Zenon
<1>. QED BY <1>2, <1>3, Zenon DEF Join

\* What the ladder prints parses back to TargetVersion, and is a string.
LEMMA ParseTarget ==
  ASSUME NEW v \in Version
  PROVE  /\ ParseVersion(UpgradeTarget(v)) = TargetVersion(v)
         /\ UpgradeTarget(v) \in Str
<1>1. \A n \in Nat : StrOf[n] \in Seq(Digit) /\ StrOf[n] # <<>> /\ IntOf(StrOf[n]) = n
  BY StrOfDigits, IntOfStrOf
<1>2. \A x, y, z \in Seq(Digit) : <<"v">> \o Join(Join(x, y), z) \in Str
  <2>1. Digit \cup {"v", "."} \subseteq STRING
    BY CharsAssumption
  <2>. QED BY <2>1 DEF Join, Str
<1>3. \A x, y \in Seq(Digit) : <<"v">> \o Join(x, y) \in Str /\ <<"v">> \o x \in Str
  <2>1. Digit \cup {"v", "."} \subseteq STRING
    BY CharsAssumption
  <2>. QED BY <2>1 DEF Join, Str
<1>4. v[1] \in Nat /\ v[2] \in Nat
  BY DEF Version
<1>5. CASE VersionLt(v, <<1, 1, 1>>)
  <2>1. UpgradeTarget(v) = <<"v">> \o Join(Join(StrOf[1], StrOf[0]), StrOf[20])
    BY <1>5, FixedStrings DEF UpgradeTarget
  <2>2. ParseVersion(UpgradeTarget(v)) = <<1, 0, 20>>
    BY <1>1, <2>1, ParseThree
  <2>3. TargetVersion(v) = <<1, 0, 20>>
    BY <1>5 DEF TargetVersion
  <2>4. UpgradeTarget(v) \in Str
    <3>1. StrOf[1] \in Seq(Digit) /\ StrOf[0] \in Seq(Digit) /\ StrOf[20] \in Seq(Digit)
      BY <1>1
    <3>. QED BY <1>2, <2>1, <3>1, Zenon
  <2>. QED BY <2>2, <2>3, <2>4
<1>6. CASE ~VersionLt(v, <<1, 1, 1>>) /\ VersionLt(v, <<1, 1, 5>>)
  <2>1. UpgradeTarget(v) = <<"v">> \o Join(Join(StrOf[1], StrOf[1]), StrOf[1])
    BY <1>6, FixedStrings DEF UpgradeTarget
  <2>2. ParseVersion(UpgradeTarget(v)) = <<1, 1, 1>>
    BY <1>1, <2>1, ParseThree
  <2>3. TargetVersion(v) = <<1, 1, 1>>
    BY <1>6 DEF TargetVersion
  <2>4. UpgradeTarget(v) \in Str
    <3>1. StrOf[1] \in Seq(Digit) /\ StrOf[1] \in Seq(Digit) /\ StrOf[1] \in Seq(Digit)
      BY <1>1
    <3>. QED BY <1>2, <2>1, <3>1, Zenon
  <2>. QED BY <2>2, <2>3, <2>4
<1>7. CASE ~VersionLt(v, <<1, 1, 1>>) /\ ~VersionLt(v, <<1, 1, 5>>) /\ VersionLt(v, <<1, 2, 0>>)
  <2>1. UpgradeTarget(v) = <<"v">> \o Join(Join(StrOf[1], StrOf[1]), StrOf[5])
    BY <1>7, FixedStrings DEF UpgradeTarget
  <2>2. ParseVersion(UpgradeTarget(v)) = <<1, 1, 5>>
    BY <1>1, <2>1, ParseThree
  <2>3. TargetVersion(v) = <<1, 1, 5>>
    BY <1>7 DEF TargetVersion
  <2>4. UpgradeTarget(v) \in Str
    <3>1. StrOf[1] \in Seq(Digit) /\ StrOf[1] \in Seq(Digit) /\ StrOf[5] \in Seq(Digit)
      BY <1>1
    <3>. QED BY <1>2, <2>1, <3>1, Zenon
  <2>. QED BY <2>2, <2>3, <2>4
<1>8. CASE ~VersionLt(v, <<1, 1, 1>>) /\ ~VersionLt(v, <<1, 1, 5>>) /\ ~VersionLt(v, <<1, 2, 0>>)
           /\ VersionLt(v, <<2, 0, 0>>)
  <2>1. UpgradeTarget(v) = <<"v">> \o Join(StrOf[v[1]], StrOf[v[2]])
    BY <1>4, <1>8, Band4String DEF UpgradeTarget
  <2>2. ParseVersion(UpgradeTarget(v)) = <<v[1], v[2], 0>>
    BY <1>1, <1>4, <2>1, ParseTwo
  <2>3. TargetVersion(v) = <<v[1], v[2], 0>>
    BY <1>8 DEF TargetVersion
  <2>4. UpgradeTarget(v) \in Str
    BY <1>1, <1>3, <1>4, <2>1
  <2>. QED BY <2>2, <2>3, <2>4
<1>9. CASE ~VersionLt(v, <<1, 1, 1>>) /\ ~VersionLt(v, <<1, 1, 5>>) /\ ~VersionLt(v, <<1, 2, 0>>)
           /\ ~VersionLt(v, <<2, 0, 0>>)
  <2>1. UpgradeTarget(v) = <<"v">> \o StrOf[v[1]]
    BY <1>9 DEF UpgradeTarget
  <2>2. ParseVersion(UpgradeTarget(v)) = <<v[1], 0, 0>>
    BY <1>1, <1>4, <2>1, ParseOne
  <2>3. TargetVersion(v) = <<v[1], 0, 0>>
    BY <1>9 DEF TargetVersion
  <2>4. UpgradeTarget(v) \in Str
    BY <1>1, <1>3, <1>4, <2>1
  <2>. QED BY <2>2, <2>3, <2>4
<1>. QED BY <1>5, <1>6, <1>7, <1>8, <1>9

-----------------------------------------------------------------------------
(***************************************************************************)
(* The invariant.                                                          *)
(***************************************************************************)
\* The argument of a one-argument command line is a string.
LEMMA ArgString ==
  ASSUME TypeOK, NEW r \in Runs, Len(argv[r]) = 1
  PROVE  argv[r][1] \in Seq(STRING)
<1>1. argv[r] \in Seq(Str)
  BY ArgvsAssumption DEF TypeOK
<1>. QED BY <1>1 DEF Str

LEMMA InitIInv == Init => IInv
<1> SUFFICES ASSUME Init PROVE IInv
  OBVIOUS
<1>1. TypeOK
  BY DEF Init, TypeOK
<1>2. \A r \in Runs : exitCode[r] = None /\ parsed[r] = None /\ stdout[r] = None /\ stderr[r] = None
  BY DEF Init
<1>. QED BY <1>1, <1>2, NoneExitAssumption DEF IInv, RunState

\* main() of one invocation keeps every invocation's outputs determined by
\* its argument.
LEMMA NextIInv == IInv /\ [Next]_vars => IInv'
<1> SUFFICES ASSUME IInv, [Next]_vars PROVE IInv'
  OBVIOUS
<1>0. TypeOK
  BY DEF IInv
<1>1. CASE UNCHANGED vars
  BY <1>1 DEF vars, IInv, TypeOK, RunState
<1>2. CASE Next
  <2>1. PICK r \in Runs : Main(r)
    BY <1>2 DEF Next
  <2>2. exitCode[r] = None /\ argv' = argv
    BY <2>1 DEF Main
  <2>3. \A q \in Runs \ {r} : RunState(q)'
    <3>1. \A q \in Runs \ {r} :
            /\ argv'[q] = argv[q] /\ parsed'[q] = parsed[q]
            /\ stdout'[q] = stdout[q] /\ stderr'[q] = stderr[q] /\ exitCode'[q] = exitCode[q]
      BY <1>0, <2>1 DEF Main, Fail, TypeOK
    <3>. QED BY <3>1 DEF IInv, RunState
  <2>4. CASE Len(argv[r]) # 1 /\ Fail(r, "Usage") /\ UNCHANGED parsed
    <3>1. TypeOK'
      BY <1>0, <2>2, <2>4 DEF TypeOK, Fail, Errors
    <3>2. exitCode'[r] = 1 /\ Len(argv'[r]) # 1
      BY <1>0, <2>2, <2>4 DEF Fail, TypeOK
    <3>3. RunState(r)'
      BY <3>2, NoneExitAssumption DEF RunState
    <3>. QED BY <2>3, <3>1, <3>3 DEF IInv
  <2>5. CASE /\ Len(argv[r]) = 1
             /\ parsed' = [parsed EXCEPT ![r] = ParseVersion(argv[r][1])]
             /\ parsed'[r] = None
             /\ Fail(r, "Format")
    <3>1. parsed'[r] = ParseVersion(argv[r][1])
      BY <1>0, <2>5 DEF TypeOK
    <3>2. TypeOK'
      BY <1>0, <2>2, <2>5 DEF TypeOK, Fail, Errors
    <3>3. exitCode'[r] = 1 /\ ParseVersion(argv'[r][1]) = None
      BY <1>0, <2>2, <2>5, <3>1 DEF Fail, TypeOK
    <3>4. RunState(r)'
      BY <3>3, NoneExitAssumption DEF RunState
    <3>. QED BY <2>3, <3>2, <3>4 DEF IInv
  <2>6. CASE /\ Len(argv[r]) = 1
             /\ parsed' = [parsed EXCEPT ![r] = ParseVersion(argv[r][1])]
             /\ parsed'[r] # None
             /\ stdout' = [stdout EXCEPT ![r] = UpgradeTarget(parsed'[r])]
             /\ exitCode' = [exitCode EXCEPT ![r] = 0]
             /\ UNCHANGED stderr
    <3>1. parsed'[r] = ParseVersion(argv[r][1])
      BY <1>0, <2>6 DEF TypeOK
    <3>2. parsed'[r] \in Version
      <4>1. ParseVersion(argv[r][1]) \in Version \cup {None}
        BY <1>0, <2>6, ArgString, ParseVersionType
      <4>. QED BY <2>6, <3>1, <4>1
    <3>3. UpgradeTarget(parsed'[r]) \in Str
      BY <3>2, ParseTarget
    <3>4. TypeOK'
      BY <1>0, <2>2, <2>6, <3>2, <3>3 DEF TypeOK
    <3>5. /\ exitCode'[r] = 0 /\ Len(argv'[r]) = 1
          /\ parsed'[r] = ParseVersion(argv'[r][1])
          /\ stdout'[r] = UpgradeTarget(parsed'[r])
      BY <1>0, <2>2, <2>6, <3>1 DEF TypeOK
    <3>6. RunState(r)'
      BY <3>2, <3>5, NoneExitAssumption DEF RunState
    <3>. QED BY <2>3, <3>4, <3>6 DEF IInv
  <2>. QED BY <2>1, <2>4, <2>5, <2>6 DEF Main
<1>. QED BY <1>1, <1>2

\* IInv holds in every reachable state.
THEOREM IInvInvariant == Spec => []IInv
BY InitIInv, NextIInv, PTL DEF Spec

-----------------------------------------------------------------------------
(***************************************************************************)
(* The properties the upgrade_ladder run checks, from the invariant.       *)
(***************************************************************************)
\* What a successful invocation printed parses back to TargetVersion of
\* the version it parsed.
LEMMA SucceededOutput ==
  ASSUME IInv, NEW r \in Runs, Succeeded(r)
  PROVE  /\ parsed[r] \in Version
         /\ stdout[r] = UpgradeTarget(parsed[r])
         /\ ParseVersion(stdout[r]) = TargetVersion(parsed[r])
<1>1. parsed[r] \in Version /\ stdout[r] = UpgradeTarget(parsed[r])
  BY DEF IInv, RunState, Succeeded
<1>. QED BY <1>1, ParseTarget

LEMMA IInvMonotone == IInv => UpgradeMonotone
<1> SUFFICES ASSUME IInv, NEW r1 \in Runs, NEW r2 \in Runs,
                    Succeeded(r1), Succeeded(r2), VersionLeq(parsed[r1], parsed[r2])
             PROVE  VersionLeq(ParseVersion(stdout[r1]), ParseVersion(stdout[r2]))
  BY DEF UpgradeMonotone
<1>1. parsed[r1] \in Version /\ ParseVersion(stdout[r1]) = TargetVersion(parsed[r1])
  BY SucceededOutput
<1>2. parsed[r2] \in Version /\ ParseVersion(stdout[r2]) = TargetVersion(parsed[r2])
  BY SucceededOutput
<1>. QED BY <1>1, <1>2, TargetMonotone

LEMMA IInvNotAbove == IInv => UpgradeNotAboveInput
<1> SUFFICES ASSUME IInv, NEW r \in Runs,
                    Succeeded(r), VersionLeq(<<1, 1, 1>>, parsed[r])
             PROVE  VersionLeq(ParseVersion(stdout[r]), parsed[r])
  BY DEF UpgradeNotAboveInput
<1>1. parsed[r] \in Version /\ ParseVersion(stdout[r]) = TargetVersion(parsed[r])
  BY SucceededOutput
<1>. QED BY <1>1, TargetNotAbove

LEMMA IInvFixedPoint == IInv => UpgradeFixedPoint
<1> SUFFICES ASSUME IInv, NEW r1 \in Runs, NEW r2 \in Runs,
                    Succeeded(r1), Done(r2), argv[r2] = <<stdout[r1]>>
             PROVE  stdout[r2] = stdout[r1]
  BY DEF UpgradeFixedPoint
<1>1. /\ parsed[r1] \in Version /\ stdout[r1] = UpgradeTarget(parsed[r1])
      /\ ParseVersion(stdout[r1]) = TargetVersion(parsed[r1])
  BY SucceededOutput
<1>2. Len(argv[r2]) = 1 /\ argv[r2][1] = stdout[r1]
  OBVIOUS
<1>3. ParseVersion(argv[r2][1]) = TargetVersion(parsed[r1])
      /\ TargetVersion(parsed[r1]) \in Version
      /\ UpgradeTarget(TargetVersion(parsed[r1])) = UpgradeTarget(parsed[r1])
  BY <1>1, <1>2, TargetInBand
<1>4. ParseVersion(argv[r2][1]) # None
  BY <1>3, NoneAssumption
<1>5. exitCode[r2] = 0
  <2>1. exitCode[r2] \in {0, 1}
    BY DEF IInv, TypeOK, Done
  <2>2. exitCode[r2] = 1 => Len(argv[r2]) # 1 \/ ParseVersion(argv[r2][1]) = None
    BY DEF IInv, RunState
  <2>. QED BY <1>2, <1>4, <2>1, <2>2
<1>6. stdout[r2] = UpgradeTarget(ParseVersion(argv[r2][1]))
  BY <1>5 DEF IInv, RunState
<1>. QED BY <1>1, <1>3, <1>6

\* The types of TypeOK hold in every reachable state: in particular the
\* parser returns a version or None on every argument the script is given,
\* and the ladder prints a string.
THEOREM TypeCorrectness == Spec => []TypeOK
<1>1. IInv => TypeOK
  BY DEF IInv
<1>. QED BY <1>1, IInvInvariant, PTL

\* The ladder of main is monotone: of two successful invocations, the one
\* given the newer version never prints an older upgrade boundary.
THEOREM LadderMonotone == Spec => []UpgradeMonotone
BY IInvInvariant, IInvMonotone, PTL

\* Given a string main printed, the script prints the same string back.
THEOREM LadderFixedPoint == Spec => []UpgradeFixedPoint
BY IInvInvariant, IInvFixedPoint, PTL

\* From v1.1.1 on, main never prints a boundary newer than the version given.
THEOREM LadderNotAbove == Spec => []UpgradeNotAboveInput
BY IInvInvariant, IInvNotAbove, PTL

=============================================================================
