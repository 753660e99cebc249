-------------------------- MODULE MCUpgradeVersion --------------------------
EXTENDS UpgradeVersion

CONSTANTS r1, r2

\* Every string of length at most 5 over the characters the parser tells
\* apart: "v", ".", digits and the newline that "$" lets through.
ParserAlphabet == {"v", ".", "0", "1", "\n"}

ShortStrings == UNION {[1..k -> ParserAlphabet] : k \in 0..5}

\* The longer strings that start with "v" (any other start is rejected as
\* the short ones show): up to 7 characters with digits, dots and newlines
\* after the "v", and 8 with digits and dots.  These reach the three-group
\* pattern ("v0.0.0", "v10.1.1"), a fourth group ("v0.0.0.0") and a
\* newline before the end ("v1.1\n.1").
LongStrings ==
  {<<"v">> \o t : t \in UNION {[1..k -> {"0", "1", ".", "\n"}] : k \in 5..6}}
  \cup {<<"v">> \o t : t \in [1..7 -> {"0", "1", "."}]}

ParserStrings == ShortStrings \cup LongStrings

\* No argument, two arguments, and one argument of every such string.
MCParserArgvs == {<<>>, <<<<"v", "1">>, <<"v", "2">>>>} \cup {<<s>> : s \in ParserStrings}

Dec(n) == StrOf[n]

\* "vA.B.C", "vA.B" and "vA".
Form3(a, b, c) == <<"v">> \o Dec(a) \o <<".">> \o Dec(b) \o <<".">> \o Dec(c)

Form2(a, b) == <<"v">> \o Dec(a) \o <<".">> \o Dec(b)

Form1(a) == <<"v">> \o Dec(a)

\* Versions on both sides of each threshold of the ladder (1.1.1, 1.1.5,
\* 1.2.0, 2.0.0), the three forms, the fixed answers and a malformed string.
MCLadderArgvs ==
  {<<>>, <<<<"x">>>>}
  \cup {<<Form3(a, b, c)>> : a \in {0, 1, 2}, b \in {0, 1, 2}, c \in {0, 1, 4, 5, 20}}
  \cup {<<Form2(a, b)>> : a \in {1, 2, 3}, b \in {1, 2, 9}}
  \cup {<<Form1(a)>> : a \in {0, 1, 2, 3}}

MCRuns1 == {r1}

MCRuns2 == {r1, r2}

=============================================================================
