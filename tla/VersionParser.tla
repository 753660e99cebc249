--------------------------- MODULE VersionParser ---------------------------
(***************************************************************************)
(* The version parser of both scripts (parse_version in                    *)
(* get_upgrade_version.py, parse_major_minor_patch in                      *)
(* get_previous_git_version.py; the two are the same code) and the         *)
(* decimal formatting of integers the f-strings of get_upgrade_version.py  *)
(* use.  A string is a sequence of one-character strings.                  *)
(*                                                                         *)
(* The three regular expressions ^v(\d+)\.(\d+)\.(\d+)$, ^v(\d+)\.(\d+)$    *)
(* and ^v(\d+)$ are modelled by what Python's re.match does with them: "$" *)
(* matches at the end of the string and also just before a newline that    *)
(* ends it, so one trailing "\n" is accepted.  int() reads a run of digits  *)
(* in base 10, leading zeros included.  Only ASCII digits are modelled.    *)
(***************************************************************************)
EXTENDS Version, Sequences, FiniteSets

DigitChars == <<"0", "1", "2", "3", "4", "5", "6", "7", "8", "9">>

Digit == {DigitChars[i] : i \in 1..10}

\* The characters the parser and the formatter name are one-character
\* strings.  (A fact of TLA+'s strings that the provers do not know.)
ASSUME CharsAssumption == Digit \cup {"v", ".", "\n"} \subseteq STRING

DigitValue(d) == CHOOSE n \in 0..9 : DigitChars[n + 1] = d

\* int(ds) for a non-empty run of digits ds.
IntOf(ds) ==
  LET val[i \in 0..Len(ds)] ==
        IF i = 0 THEN 0 ELSE 10 * val[i - 1] + DigitValue(ds[i])
  IN  val[Len(ds)]

\* str(n): the decimal digits of n, without leading zeros.
StrOf[n \in Nat] ==
  IF n < 10 THEN <<DigitChars[n + 1]>>
            ELSE StrOf[n \div 10] \o <<DigitChars[(n % 10) + 1]>>

\* The part of s the pattern must match up to "$": s without one final "\n".
Body(s) == IF s # <<>> /\ s[Len(s)] = "\n" THEN SubSeq(s, 1, Len(s) - 1) ELSE s

\* What follows the literal "v".
Rest(s) == Tail(Body(s))

Dots(r) == {i \in DOMAIN r : r[i] = "."}

\* Mutant: runs of digits may be empty, as with \d* for \d+.
MatchStar(s, n) ==
  LET b == Body(s)
      r == Rest(s)
  IN  /\ Len(b) >= 1
      /\ b[1] = "v"
      /\ \A i \in DOMAIN r : r[i] \in Digit \cup {"."}
      /\ Cardinality(Dots(r)) = n - 1

\* s matches ^v(\d+)(\.(\d+)){n-1}$: a "v", then n non-empty runs of
\* digits separated by single dots, then the end (or a final newline).
Match(s, n) ==
  LET b == Body(s)
      r == Rest(s)
  IN  /\ Len(b) >= 2
      /\ b[1] = "v"
      /\ \A i \in DOMAIN r : r[i] \in Digit \cup {"."}
      /\ Cardinality(Dots(r)) = n - 1
      /\ r[1] # "." /\ r[Len(r)] # "."
      /\ \A i \in 1..(Len(r) - 1) : ~(r[i] = "." /\ r[i + 1] = ".")

\* The k-th dot of r, with the start and the end as dots 0 and n.
DotAt(r, k) ==
  IF k = 0 THEN 0
  ELSE IF k > Cardinality(Dots(r)) THEN Len(r) + 1
  ELSE CHOOSE d \in Dots(r) : Cardinality({e \in Dots(r) : e < d}) = k - 1

\* int(match.group(k)).
GroupValue(s, k) ==
  LET r == Rest(s) IN IntOf(SubSeq(r, DotAt(r, k - 1) + 1, DotAt(r, k) - 1))

\* parse_version / parse_major_minor_patch: the three patterns in order.
ParseVersion(s) ==
  CASE Match(s, 3) -> <<GroupValue(s, 1), GroupValue(s, 2), GroupValue(s, 3)>>
    [] Match(s, 2) -> <<GroupValue(s, 1), GroupValue(s, 2), 0>>
    [] Match(s, 1) -> <<GroupValue(s, 1), 0, 0>>
    [] OTHER       -> None

parse_major_minor_patch(s) == ParseVersion(s)

-----------------------------------------------------------------------------
(***************************************************************************)
(* The forms spec.md section 4.1 calls valid, as an independent reference: *)
(* "v" followed by one, two or three runs of decimal digits separated by   *)
(* single dots, "with no trailing or leading characters", recognised by a  *)
(* left-to-right scan that also accumulates the value of each run.         *)
(***************************************************************************)
ScanStart == [ok |-> TRUE, seenV |-> FALSE, inRun |-> FALSE, runs |-> <<>>]

ScanStep(q, c) ==
  CASE ~q.ok    -> q
    [] ~q.seenV -> [q EXCEPT !.ok = (c = "v"), !.seenV = TRUE]
    [] c \in Digit /\ q.inRun ->
         [q EXCEPT !.runs[Len(q.runs)] = 10 * @ + DigitValue(c)]
    [] c \in Digit ->
         [q EXCEPT !.runs = Append(@, DigitValue(c)), !.inRun = TRUE]
    [] c = "." /\ q.inRun /\ Len(q.runs) < 3 -> [q EXCEPT !.inRun = FALSE]
    [] OTHER    -> [q EXCEPT !.ok = FALSE]

SpecVersion(s) ==
  LET scan[i \in 0..Len(s)] ==
        IF i = 0 THEN ScanStart ELSE ScanStep(scan[i - 1], s[i])
      q == scan[Len(s)]
      run(k) == IF k <= Len(q.runs) THEN q.runs[k] ELSE 0
  IN  IF q.ok /\ q.inRun THEN <<run(1), run(2), run(3)>> ELSE None

=============================================================================
