------------------------ MODULE MCPreviousGitVersion ------------------------
EXTENDS PreviousGitVersion, VersionParser, SequencesExt

Dec(n) == StrOf[n]

Form3(a, b, c) == <<"v">> \o Dec(a) \o <<".">> \o Dec(b) \o <<".">> \o Dec(c)

Form2(a, b) == <<"v">> \o Dec(a) \o <<".">> \o Dec(b)

Form1(a) == <<"v">> \o Dec(a)

\* "v1.03.4": the version of "v1.3.4" under another name.
V1_03_4 == <<"v", "1", ".", "0", "3", ".", "4">>

\* The tags the repository may hold: two v1.1 tags, two names of 1.3.4,
\* a v2.1 tag and a name that is not a version.
TagPool == {Form3(1, 1, 7), Form2(1, 1), Form3(1, 3, 4), V1_03_4, Form3(2, 1, 3), <<"x">>}

\* Every subset of the pool, in every order git may list it (tag.sort).
MCListings == UNION {Injection(1..k, TagPool) : k \in 0..Cardinality(TagPool)}

\* Inputs in every band of the ladder and at its bounds: v1.1 and v1.1.3
\* (fixed answers), v1.1.5 and v1.1.7 (series v1.1.x), v1.2, v1.4 and v1.9
\* (series v1.1.x, v1.3.x, v1.8.x), v2, v3.4.2 and v4 (series v1.x.y,
\* v2.x.y, v3.x.y), a malformed argument, none and two.
MCInputs ==
  {Form2(1, 1), Form3(1, 1, 3), Form3(1, 1, 5), Form3(1, 1, 7), Form2(1, 2),
   Form2(1, 4), Form2(1, 9), Form1(2), Form3(3, 4, 2), Form1(4), <<"x">>}

MCArgvs == {<<>>, <<Form1(1), Form1(2)>>} \cup {<<s>> : s \in MCInputs}

MCStrings ==
  TagPool \cup MCInputs \cup {<<>>, Form1(1), Form3(1, 0, 20), Form3(1, 1, 1)}

MCEmptyLine == <<>>

MCTagV1_0_20 == Form3(1, 0, 20)

MCTagV1_1_1 == Form3(1, 1, 1)

MCAllFaults == {"NonZeroExit", "NotRunnable"}

\* PreviousGitVersion's Refines with this module's constants substituted
\* directly, so that TLC evaluates each of them once.
MCPT == INSTANCE PreviousTag WITH
          outcome <- Outcome, Parse <- parse_major_minor_patch, Strings <- MCStrings,
          TagV1_0_20 <- MCTagV1_0_20, TagV1_1_1 <- MCTagV1_1_1, Argvs <- MCArgvs,
          Listings <- MCListings, GitFaults <- MCAllFaults

MCRefines == MCPT!AbsSpec

=============================================================================
