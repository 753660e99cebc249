-------------------------- MODULE VersionParserProofs --------------------------
(***************************************************************************)
(* Facts about parse_version and str() for every string and every number,  *)
(* used by the proofs about both scripts: str(n) is a non-empty run of     *)
(* digits, int(str(n)) = n, and parse_version returns (int(x), int(y),     *)
(* int(z)) for "v" followed by runs of digits x, y, z joined by dots (and  *)
(* likewise for one or two runs).                                          *)
(*                                                                         *)
(* The facts about str() and int() hold for every number and every run, so *)
(* they are proved by induction: from the least-number principle, which    *)
(* the library gives as the well-foundedness of < on Nat, and from the     *)
(* recursion equations of StrOf and of the function local to IntOf, which *)
(* the library's theorem on well-founded recursive definitions yields.     *)
(***************************************************************************)
EXTENDS VersionParser, Integers, WellFoundedInduction, FiniteSetTheorems,
        SequenceTheorems, TLAPS

-----------------------------------------------------------------------------
(***************************************************************************)
(* Induction and recursion on the natural numbers.                         *)
(***************************************************************************)
NatLess == {p \in Nat \X Nat : p[1] < p[2]}

LEMMA NatLessWellFounded == IsWellFoundedOn(NatLess, Nat)
<1>1. NatLess = OpToRel(<, Nat)
  BY Zenon DEF NatLess, OpToRel
<1>. QED BY <1>1, NatLessThanWellFounded, Zenon

\* The least-number principle: a non-empty set of naturals has a least
\* element.  Every induction below is an argument about the least
\* counterexample.
LEMMA LeastNat ==
  ASSUME NEW T \in SUBSET Nat, T # {}
  PROVE  \E x \in T : \A y \in T : ~(y < x)
<1>1. \E x \in T : \A y \in T : ~(<<y, x>> \in NatLess)
  BY NatLessWellFounded, WFMin
<1>. QED BY <1>1 DEF NatLess

\* The recursion equation of StrOf (str(n)).
LEMMA StrOfDef ==
  \A n \in Nat : StrOf[n] = IF n < 10 THEN <<DigitChars[n + 1]>>
                            ELSE StrOf[n \div 10] \o <<DigitChars[(n % 10) + 1]>>
<1> DEFINE Def(g, n) == IF n < 10 THEN <<DigitChars[n + 1]>>
                        ELSE g[n \div 10] \o <<DigitChars[(n % 10) + 1]>>
<1>1. WFDefOn(NatLess, Nat, Def)
  <2> SUFFICES ASSUME NEW g, NEW h, NEW n \in Nat,
                      \A y \in SetLessThan(n, NatLess, Nat) : g[y] = h[y]
               PROVE  Def(g, n) = Def(h, n)
    BY DEF WFDefOn
  <2>1. n >= 10 => n \div 10 \in SetLessThan(n, NatLess, Nat)
    BY DEF SetLessThan, NatLess
  <2>. QED BY <2>1
<1>2. OpDefinesFcn(StrOf, Nat, Def)
  BY DEF OpDefinesFcn, StrOf
<1>3. WFInductiveDefines(StrOf, Nat, Def)
  BY <1>1, <1>2, NatLessWellFounded, WFInductiveDef
<1>. QED BY <1>3 DEF WFInductiveDefines

\* The function `val` local to IntOf: val[i] is int() of the first i digits.
IntVal(ds) ==
  CHOOSE v : v = [i \in 0..Len(ds) |->
                    IF i = 0 THEN 0 ELSE 10 * v[i - 1] + DigitValue(ds[i])]

LEMMA IntOfIsIntVal == ASSUME NEW ds PROVE IntOf(ds) = IntVal(ds)[Len(ds)]
BY DEF IntOf, IntVal

\* The recursion equation of val.
LEMMA IntValDef ==
  ASSUME NEW ds, Len(ds) \in Nat
  PROVE  IntVal(ds) = [i \in 0..Len(ds) |->
                         IF i = 0 THEN 0 ELSE 10 * IntVal(ds)[i - 1] + DigitValue(ds[i])]
<1> DEFINE Def(g, i) == IF i = 0 THEN 0 ELSE 10 * g[i - 1] + DigitValue(ds[i])
           S == 0..Len(ds)
<1>1. IsWellFoundedOn(NatLess, S)
  BY NatLessWellFounded, IsWellFoundedOnSubset
<1>2. WFDefOn(NatLess, S, Def)
  <2> SUFFICES ASSUME NEW g, NEW h, NEW i \in S,
                      \A y \in SetLessThan(i, NatLess, S) : g[y] = h[y]
               PROVE  Def(g, i) = Def(h, i)
    BY DEF WFDefOn
  <2>1. i # 0 => i - 1 \in SetLessThan(i, NatLess, S)
    BY DEF SetLessThan, NatLess
  <2>. QED BY <2>1
<1>3. OpDefinesFcn(IntVal(ds), S, Def)
  BY DEF OpDefinesFcn, IntVal
<1>4. WFInductiveDefines(IntVal(ds), S, Def)
  BY <1>1, <1>2, <1>3, WFInductiveDef
<1>. QED BY <1>4 DEF WFInductiveDefines

LEMMA IntValZero ==
  ASSUME NEW ds, Len(ds) \in Nat
  PROVE  IntVal(ds)[0] = 0
<1>1. 0 \in 0..Len(ds)
  OBVIOUS
<1>. QED BY <1>1, IntValDef

LEMMA IntValStep ==
  ASSUME NEW ds, Len(ds) \in Nat, NEW i \in 1..Len(ds)
  PROVE  IntVal(ds)[i] = 10 * IntVal(ds)[i - 1] + DigitValue(ds[i])
<1>1. i \in 0..Len(ds) /\ i # 0
  OBVIOUS
<1>. QED BY <1>1, IntValDef
-----------------------------------------------------------------------------
(***************************************************************************)
(* Digits, str() and int().                                                *)
(***************************************************************************)
LEMMA DigitFacts ==
  /\ Digit = {"0", "1", "2", "3", "4", "5", "6", "7", "8", "9"}
  /\ \A k \in 0..9 : DigitChars[k + 1] \in Digit /\ DigitValue(DigitChars[k + 1]) = k
  /\ \A d \in Digit : DigitValue(d) \in 0..9
  /\ "." \notin Digit /\ "\n" \notin Digit /\ "v" \notin Digit
  /\ Digit \subseteq STRING
<1>1. Digit = {"0", "1", "2", "3", "4", "5", "6", "7", "8", "9"}
  BY DEF Digit, DigitChars
<1>2. \A k \in 0..9 : DigitChars[k + 1] \in Digit /\ DigitValue(DigitChars[k + 1]) = k
  BY DEF DigitValue, DigitChars, Digit
<1>3. \A d \in Digit : \E k \in 0..9 : d = DigitChars[k + 1]
  BY DEF Digit
<1>4. \A d \in Digit : DigitValue(d) \in 0..9
  BY <1>2, <1>3
<1>5. "." \notin Digit /\ "\n" \notin Digit /\ "v" \notin Digit
  BY <1>1
<1>6. Digit \subseteq STRING
  BY CharsAssumption
<1>. QED BY <1>1, <1>2, <1>4, <1>5, <1>6, Zenon

\* str(n) is a non-empty run of digits.
LEMMA StrOfDigits == \A n \in Nat : StrOf[n] \in Seq(Digit) /\ Len(StrOf[n]) >= 1
<1> DEFINE T == {n \in Nat : ~(StrOf[n] \in Seq(Digit) /\ Len(StrOf[n]) >= 1)}
<1> SUFFICES ASSUME T # {} PROVE FALSE
  BY DEF T
<1>0. T \in SUBSET Nat
  BY DEF T
<1>1. PICK x \in T : \A y \in T : ~(y < x)
  BY <1>0, LeastNat, Zenon
<1> USE DEF T
<1>2. CASE x < 10
  <2>1. StrOf[x] = <<DigitChars[x + 1]>>
    <3>1. x \in Nat /\ x < 10
      BY <1>1, <1>2
    <3>. QED BY <3>1, StrOfDef, Zenon
  <2>2. DigitChars[x + 1] \in Digit
    <3>1. x \in 0..9
      BY <1>1, <1>2
    <3>. QED BY <3>1, DigitFacts, Zenon
  <2>3. <<DigitChars[x + 1]>> \in Seq(Digit) /\ Len(<<DigitChars[x + 1]>>) = 1
    BY <2>2
  <2>4. ~(StrOf[x] \in Seq(Digit) /\ Len(StrOf[x]) >= 1)
    BY <1>1, Zenon
  <2>. QED BY <2>1, <2>3, <2>4
<1>3. CASE x >= 10
  <2>1. x \div 10 \in Nat /\ x \div 10 < x /\ (x % 10) \in 0..9
    BY <1>1, <1>3
  <2>2. StrOf[x \div 10] \in Seq(Digit) /\ Len(StrOf[x \div 10]) >= 1
    BY <1>1, <2>1
  <2>3. StrOf[x] = StrOf[x \div 10] \o <<DigitChars[(x % 10) + 1]>>
    <3>1. x \in Nat /\ ~(x < 10)
      BY <1>1, <1>3
    <3>. QED BY <3>1, StrOfDef, Zenon
  <2>4. <<DigitChars[(x % 10) + 1]>> \in Seq(Digit)
    <3>1. DigitChars[(x % 10) + 1] \in Digit
      BY <2>1, DigitFacts, Zenon
    <3>. QED BY <3>1
  <2>5. StrOf[x] \in Seq(Digit) /\ Len(StrOf[x]) = Len(StrOf[x \div 10]) + 1
    BY <2>2, <2>3, <2>4, ConcatProperties
  <2>. QED BY <1>1, <2>2, <2>5
<1>. QED BY <1>1, <1>2, <1>3

LEMMA IntOfEmpty == IntOf(<<>>) = 0
<1>1. Len(<<>>) = 0
  OBVIOUS
<1>. QED BY <1>1, IntOfIsIntVal, IntValZero

\* int() of a run extended by one digit: the place value of the run moves up.
LEMMA IntOfAppend ==
  ASSUME NEW X, NEW ds \in Seq(X), NEW c \in X
  PROVE  IntOf(ds \o <<c>>) = 10 * IntOf(ds) + DigitValue(c)
<1> DEFINE e == ds \o <<c>>
           L == Len(ds)
<1> USE DEF e, L
<1>1. /\ L \in Nat /\ Len(e) \in Nat /\ Len(e) = L + 1
      /\ e[L + 1] = c /\ \A i \in 1..L : e[i] = ds[i]
  OBVIOUS
<1>2. \A i \in 0..L : IntVal(e)[i] = IntVal(ds)[i]
  <2> DEFINE T == {i \in 0..L : IntVal(e)[i] # IntVal(ds)[i]}
  <2> SUFFICES ASSUME T # {} PROVE FALSE
    BY DEF T
  <2>0. T \in SUBSET Nat
    BY <1>1 DEF T
  <2>1. PICK x \in T : \A y \in T : ~(y < x)
    BY <2>0, LeastNat, Zenon
  <2> USE DEF T
  <2>2. CASE x = 0
    <3>1. IntVal(e)[0] = 0 /\ IntVal(ds)[0] = 0
      BY <1>1, IntValZero, Zenon
    <3>. QED BY <2>1, <2>2, <3>1
  <2>3. CASE x # 0
    <3>1. x \in 1..L /\ x \in 1..Len(e) /\ x - 1 \in 0..L /\ x - 1 < x
      BY <1>1, <2>1, <2>3
    <3>2. IntVal(e)[x - 1] = IntVal(ds)[x - 1]
      BY <2>1, <3>1
    <3>3. IntVal(e)[x] = 10 * IntVal(e)[x - 1] + DigitValue(e[x])
      BY <1>1, <3>1, IntValStep, Zenon
    <3>4. IntVal(ds)[x] = 10 * IntVal(ds)[x - 1] + DigitValue(ds[x])
      BY <1>1, <3>1, IntValStep, Zenon
    <3>5. e[x] = ds[x]
      BY <1>1, <3>1
    <3>6. IntVal(e)[x] # IntVal(ds)[x]
      BY <2>1, Zenon
    <3>. QED BY <3>2, <3>3, <3>4, <3>5, <3>6, Zenon
  <2>. QED BY <2>2, <2>3
<1>3. IntVal(e)[L + 1] = 10 * IntVal(e)[L] + DigitValue(c)
  <2>1. L + 1 \in 1..Len(e) /\ (L + 1) - 1 = L
    BY <1>1
  <2>2. IntVal(e)[L + 1] = 10 * IntVal(e)[(L + 1) - 1] + DigitValue(e[L + 1])
    BY <1>1, <2>1, IntValStep, Zenon
  <2>. QED BY <1>1, <2>1, <2>2
<1>4. IntOf(e) = IntVal(e)[Len(e)] /\ IntOf(ds) = IntVal(ds)[L]
  BY IntOfIsIntVal, Zenon
<1>5. L \in 0..L
  BY <1>1
<1>. QED BY <1>1, <1>2, <1>3, <1>4, <1>5

\* int() of a run of digits is a natural number.
LEMMA IntOfNat ==
  ASSUME NEW ds \in Seq(Digit) PROVE IntOf(ds) \in Nat
<1>0. Len(ds) \in Nat
  OBVIOUS
<1>1. \A i \in 0..Len(ds) : IntVal(ds)[i] \in Nat
  <2> DEFINE T == {i \in 0..Len(ds) : IntVal(ds)[i] \notin Nat}
  <2> SUFFICES ASSUME T # {} PROVE FALSE
    BY DEF T
  <2>0. T \in SUBSET Nat
    BY DEF T
  <2>1. PICK x \in T : \A y \in T : ~(y < x)
    BY <2>0, LeastNat, Zenon
  <2> USE DEF T
  <2>2. CASE x = 0
    <3>1. IntVal(ds)[0] = 0
      BY <1>0, IntValZero, Zenon
    <3>. QED BY <2>1, <2>2, <3>1
  <2>3. CASE x # 0
    <3>1. x \in 1..Len(ds) /\ x - 1 \in 0..Len(ds) /\ x - 1 < x
      BY <2>1, <2>3
    <3>2. IntVal(ds)[x - 1] \in Nat
      BY <2>1, <3>1
    <3>3. ds[x] \in Digit
      BY <3>1, ElementOfSeq, Zenon
    <3>4. DigitValue(ds[x]) \in 0..9
      BY <3>3, DigitFacts
    <3>5. IntVal(ds)[x] = 10 * IntVal(ds)[x - 1] + DigitValue(ds[x])
      BY <1>0, <3>1, IntValStep, Zenon
    <3>6. IntVal(ds)[x] \notin Nat
      BY <2>1, Zenon
    <3>7. 10 * IntVal(ds)[x - 1] + DigitValue(ds[x]) \in Nat
      <4>1. \A n \in Nat, d \in 0..9 : 10 * n + d \in Nat
        OBVIOUS
      <4>. QED BY <3>2, <3>4, <4>1, Zenon
    <3>. QED BY <3>5, <3>6, <3>7, Zenon
  <2>. QED BY <2>2, <2>3
<1>2. Len(ds) \in 0..Len(ds)
  BY <1>0
<1>. QED BY <1>1, <1>2, IntOfIsIntVal

\* int(str(n)) = n.
LEMMA IntOfStrOf == \A n \in Nat : IntOf(StrOf[n]) = n
<1> DEFINE T == {n \in Nat : IntOf(StrOf[n]) # n}
<1> SUFFICES ASSUME T # {} PROVE FALSE
  BY DEF T
<1>0. T \in SUBSET Nat
  BY DEF T
<1>1. PICK x \in T : \A y \in T : ~(y < x)
  BY <1>0, LeastNat, Zenon
<1> USE DEF T
<1>2. CASE x < 10
  <2>1. x \in Nat /\ x < 10 /\ x \in 0..9
    BY <1>1, <1>2
  <2>2. StrOf[x] = <<DigitChars[x + 1]>>
    BY <2>1, StrOfDef, Zenon
  <2>3. DigitChars[x + 1] \in Digit /\ DigitValue(DigitChars[x + 1]) = x
    BY <2>1, DigitFacts
  <2>4. <<>> \in Seq(Digit) /\ <<DigitChars[x + 1]>> = <<>> \o <<DigitChars[x + 1]>>
    OBVIOUS
  <2>5. IntOf(<<>> \o <<DigitChars[x + 1]>>) = 10 * IntOf(<<>>) + DigitValue(DigitChars[x + 1])
    BY <2>3, <2>4, IntOfAppend, Zenon
  <2>. QED BY <1>1, <2>2, <2>3, <2>4, <2>5, IntOfEmpty
<1>3. CASE x >= 10
  <2>1. x \in Nat /\ ~(x < 10) /\ x \div 10 \in Nat /\ x \div 10 < x /\ (x % 10) \in 0..9
    BY <1>1, <1>3
  <2>2. IntOf(StrOf[x \div 10]) = x \div 10
    BY <1>1, <2>1
  <2>3. StrOf[x] = StrOf[x \div 10] \o <<DigitChars[(x % 10) + 1]>>
    BY <2>1, StrOfDef, Zenon
  <2>4. DigitChars[(x % 10) + 1] \in Digit /\ DigitValue(DigitChars[(x % 10) + 1]) = x % 10
    BY <2>1, DigitFacts
  <2>5. StrOf[x \div 10] \in Seq(Digit)
    BY <2>1, StrOfDigits
  <2>6. IntOf(StrOf[x \div 10] \o <<DigitChars[(x % 10) + 1]>>)
          = 10 * IntOf(StrOf[x \div 10]) + DigitValue(DigitChars[(x % 10) + 1])
    BY <2>4, <2>5, IntOfAppend, Zenon
  <2>7. 10 * (x \div 10) + (x % 10) = x
    BY <2>1
  <2>8. IntOf(StrOf[x]) # x
    BY <1>1, Zenon
  <2>. QED BY <2>1, <2>2, <2>3, <2>4, <2>6, <2>7, <2>8
<1>. QED BY <1>1, <1>2, <1>3

-----------------------------------------------------------------------------
(***************************************************************************)
(* The dots of the part after "v", and the k-th dot DotAt picks when there *)
(* are none, one or two.                                                   *)
(***************************************************************************)
\* Two runs joined by a dot, as the f-strings and the patterns write them.
Join(x, y) == x \o <<".">> \o y

LEMMA JoinFacts ==
  ASSUME NEW X, NEW x \in Seq(X), NEW y \in Seq(X)
  PROVE  /\ Join(x, y) \in Seq(X \cup {"."})
         /\ Len(Join(x, y)) = Len(x) + 1 + Len(y)
         /\ \A i \in 1..Len(x) : Join(x, y)[i] = x[i]
         /\ Join(x, y)[Len(x) + 1] = "."
         /\ \A j \in 1..Len(y) : Join(x, y)[Len(x) + 1 + j] = y[j]
         /\ SubSeq(Join(x, y), 1, Len(x)) = x
         /\ SubSeq(Join(x, y), Len(x) + 2, Len(x) + 1 + Len(y)) = y
<1>1. x \in Seq(X \cup {"."}) /\ y \in Seq(X \cup {"."})
  OBVIOUS
<1>2. Join(x, y) \in Seq(X \cup {"."})
  BY <1>1 DEF Join
<1>3. Len(Join(x, y)) = Len(x) + 1 + Len(y)
  BY DEF Join
<1>4. \A i \in 1..Len(x) : Join(x, y)[i] = x[i]
  BY DEF Join
<1>5. Join(x, y)[Len(x) + 1] = "."
  BY DEF Join
<1>6. \A j \in 1..Len(y) : Join(x, y)[Len(x) + 1 + j] = y[j]
  BY DEF Join
<1>7. SubSeq(Join(x, y), 1, Len(x)) = x
  BY DEF Join
<1>8. SubSeq(Join(x, y), Len(x) + 2, Len(x) + 1 + Len(y)) = y
  BY DEF Join
<1>. QED BY <1>2, <1>3, <1>4, <1>5, <1>6, <1>7, <1>8

LEMMA DotsFinite ==
  ASSUME NEW X, NEW r \in Seq(X)
  PROVE  Dots(r) \subseteq 1..Len(r) /\ IsFiniteSet(Dots(r))
<1>1. Dots(r) \subseteq 1..Len(r)
  BY DEF Dots
<1>2. IsFiniteSet(1..Len(r))
  BY FS_Interval
<1>. QED BY <1>1, <1>2, FS_Subset

LEMMA DotsOfDigits ==
  ASSUME NEW x \in Seq(Digit) PROVE Dots(x) = {}
<1>1. "." \notin Digit
  BY DigitFacts
<1>. QED BY <1>1 DEF Dots

\* The dots of x.y are those of x, the one between and those of y shifted.
LEMMA DotsOfJoin ==
  ASSUME NEW X, NEW x \in Seq(X), NEW y \in Seq(Digit)
  PROVE  Dots(Join(x, y)) = Dots(x) \cup {Len(x) + 1}
<1> DEFINE Y == X \cup Digit
<1>1. y \in Seq(Y) /\ x \in Seq(Y)
  OBVIOUS
<1>2. /\ Join(x, y) \in Seq(Y \cup {"."})
      /\ Len(Join(x, y)) = Len(x) + 1 + Len(y)
      /\ \A i \in 1..Len(x) : Join(x, y)[i] = x[i]
      /\ Join(x, y)[Len(x) + 1] = "."
      /\ \A j \in 1..Len(y) : Join(x, y)[Len(x) + 1 + j] = y[j]
  BY <1>1 DEF Join
<1>3. \A i \in 1..Len(x) : Join(x, y)[i] = x[i]
  BY <1>2
<1>4. Join(x, y)[Len(x) + 1] = "."
  BY <1>2
<1>5. \A j \in 1..Len(y) : Join(x, y)[Len(x) + 1 + j] # "."
  <2>1. "." \notin Digit
    BY DigitFacts
  <2>. QED BY <1>2, <2>1
<1>6. \A i \in 1..Len(Join(x, y)) :
        i \in 1..Len(x) \/ i = Len(x) + 1 \/ i - (Len(x) + 1) \in 1..Len(y)
  BY <1>2
<1>7. \A i \in 1..Len(Join(x, y)) : Join(x, y)[i] = "." <=> (i \in Dots(x) \/ i = Len(x) + 1)
  <2> SUFFICES ASSUME NEW i \in 1..Len(Join(x, y))
               PROVE  Join(x, y)[i] = "." <=> (i \in Dots(x) \/ i = Len(x) + 1)
    OBVIOUS
  <2>1. CASE i \in 1..Len(x)
    BY <2>1, <1>3 DEF Dots
  <2>2. CASE i = Len(x) + 1
    <3>1. Len(x) + 1 \notin DOMAIN x
      OBVIOUS
    <3>. QED BY <2>2, <3>1, <1>4 DEF Dots
  <2>3. CASE i - (Len(x) + 1) \in 1..Len(y)
    <3>1. i \notin DOMAIN x /\ i # Len(x) + 1 /\ i = Len(x) + 1 + (i - (Len(x) + 1))
      BY <2>3
    <3>2. Join(x, y)[Len(x) + 1 + (i - (Len(x) + 1))] # "."
      BY <2>3, <1>5
    <3>3. Join(x, y)[i] # "."
      BY <3>1, <3>2
    <3>. QED BY <3>1, <3>3 DEF Dots
  <2>. QED BY <2>1, <2>2, <2>3, <1>6
<1>. QED BY <1>2, <1>7 DEF Dots

LEMMA DotAtNone ==
  ASSUME NEW r, Dots(r) = {}
  PROVE  DotAt(r, 0) = 0 /\ DotAt(r, 1) = Len(r) + 1
BY FS_EmptySet DEF DotAt

LEMMA DotAtOne ==
  ASSUME NEW r, NEW d \in Int, Dots(r) = {d}
  PROVE  DotAt(r, 1) = d /\ DotAt(r, 2) = Len(r) + 1
<1>0. Cardinality({d}) = 1
  BY FS_Singleton
<1>1. Cardinality(Dots(r)) = 1
  BY <1>0
<1>2. {e \in Dots(r) : e < d} = {}
  OBVIOUS
<1>3. Cardinality({}) = 0
  BY FS_EmptySet
<1>. QED BY <1>1, <1>2, <1>3 DEF DotAt

LEMMA DotAtTwo ==
  ASSUME NEW r, NEW a \in Int, NEW b \in Int, a < b, Dots(r) = {a, b}
  PROVE  DotAt(r, 1) = a /\ DotAt(r, 2) = b /\ DotAt(r, 3) = Len(r) + 1
<1>1. {e \in Dots(r) : e < a} = {} /\ {e \in Dots(r) : e < b} = {a}
  OBVIOUS
<1>2. Cardinality(Dots(r)) = 2
  <2>0. IsFiniteSet({a}) /\ Cardinality({a}) = 1
    BY FS_Singleton, Zenon
  <2>1. IsFiniteSet({a}) /\ Cardinality({a}) = 1 /\ b \notin {a}
    BY <2>0
  <2>2. {a} \cup {b} = {a, b}
    OBVIOUS
  <2>3. Cardinality({a} \cup {b}) = Cardinality({a}) + 1
    BY <2>1, FS_AddElement
  <2>. QED BY <2>1, <2>2, <2>3
<1>3. Cardinality({}) = 0 /\ Cardinality({a}) = 1
  <2>1. Cardinality({}) = 0
    BY FS_EmptySet
  <2>2. Cardinality({a}) = 1
    BY FS_Singleton, Zenon
  <2>. QED BY <2>1, <2>2
<1>. QED BY <1>1, <1>2, <1>3 DEF DotAt

-----------------------------------------------------------------------------
(***************************************************************************)
(* What parse_version returns for the strings the ladder prints.           *)
(***************************************************************************)
\* "v" followed by digits and dots, neither first nor last nor doubled,
\* matches exactly the pattern with one group more than it has dots.
LEMMA MatchShape ==
  ASSUME NEW r \in Seq(Digit \cup {"."}), Len(r) >= 1,
         1 \notin Dots(r), Len(r) \notin Dots(r),
         \A i \in Dots(r) : i + 1 \notin Dots(r),
         NEW n \in 1..3, Cardinality(Dots(r)) = n - 1
  PROVE  /\ Rest(<<"v">> \o r) = r
         /\ \A m \in 1..3 : Match(<<"v">> \o r, m) <=> m = n
<1> DEFINE s == <<"v">> \o r
<1> USE DEF s
<1>1. /\ Len(s) = Len(r) + 1 /\ s[1] = "v" /\ s[Len(s)] = r[Len(r)]
      /\ s # <<>> /\ Tail(s) = r
  OBVIOUS
<1>2. r[1] # "." /\ r[Len(r)] # "." /\ r[Len(r)] \in Digit
  BY DEF Dots
<1>3. Body(s) = s
  <2>1. "\n" \notin Digit
    BY DigitFacts
  <2>. QED BY <1>1, <1>2, <2>1 DEF Body
<1>4. Rest(s) = r
  BY <1>1, <1>3 DEF Rest
<1>5. \A i \in 1..(Len(r) - 1) : ~(r[i] = "." /\ r[i + 1] = ".")
  <2> SUFFICES ASSUME NEW i \in 1..(Len(r) - 1), r[i] = ".", r[i + 1] = "."
               PROVE  FALSE
    OBVIOUS
  <2>1. i \in Dots(r) /\ i + 1 \in Dots(r)
    BY DEF Dots
  <2>. QED BY <2>1
<1>6. \A i \in DOMAIN r : r[i] \in Digit \cup {"."}
  OBVIOUS
<1>7. \A m \in 1..3 : Match(s, m) <=> Cardinality(Dots(r)) = m - 1
  BY <1>1, <1>2, <1>3, <1>4, <1>5, <1>6 DEF Match
<1>. QED BY <1>4, <1>7

\* parse_version("v" + str(a)) = (a, 0, 0), and likewise for any run of digits.
LEMMA ParseOne ==
  ASSUME NEW x \in Seq(Digit), x # <<>>
  PROVE  ParseVersion(<<"v">> \o x) = <<IntOf(x), 0, 0>>
<1>1. x \in Seq(Digit \cup {"."}) /\ Len(x) >= 1 /\ Dots(x) = {}
  BY DotsOfDigits
<1>2. Cardinality(Dots(x)) = 1 - 1
  BY <1>1, FS_EmptySet
<1>3. Rest(<<"v">> \o x) = x /\ \A m \in 1..3 : Match(<<"v">> \o x, m) <=> m = 1
  <2>1. 1 \notin Dots(x) /\ Len(x) \notin Dots(x) /\ \A i \in Dots(x) : i + 1 \notin Dots(x)
    BY <1>1
  <2>2. 1 \in 1..3
    OBVIOUS
  <2>. QED BY <1>1, <1>2, <2>1, <2>2, MatchShape, Zenon
<1>4. DotAt(x, 0) = 0 /\ DotAt(x, 1) = Len(x) + 1
  BY <1>1, DotAtNone
<1>5. SubSeq(x, 0 + 1, (Len(x) + 1) - 1) = x
  OBVIOUS
<1>6. GroupValue(<<"v">> \o x, 1) = IntOf(x)
  <2>1. GroupValue(<<"v">> \o x, 1) = IntOf(SubSeq(x, DotAt(x, 1 - 1) + 1, DotAt(x, 1) - 1))
    BY <1>3, Zenon DEF GroupValue
  <2>2. 1 - 1 = 0
    OBVIOUS
  <2>. QED BY <1>4, <1>5, <2>1, <2>2
<1>. QED BY <1>3, <1>6 DEF ParseVersion

\* parse_version("v" + x + "." + y) = (int(x), int(y), 0).
LEMMA ParseTwo ==
  ASSUME NEW x \in Seq(Digit), NEW y \in Seq(Digit), x # <<>>, y # <<>>
  PROVE  ParseVersion(<<"v">> \o Join(x, y)) = <<IntOf(x), IntOf(y), 0>>
<1> DEFINE r == Join(x, y)
           a == Len(x)
<1> USE DEF r, a
<1>1. /\ r \in Seq(Digit \cup {"."}) /\ Len(r) = a + 1 + Len(y)
      /\ SubSeq(r, 1, a) = x /\ SubSeq(r, a + 2, a + 1 + Len(y)) = y
  <2>1. r \in Seq(Digit \cup {"."})
    BY DEF Join
  <2>2. Len(r) = a + 1 + Len(y)
    BY DEF Join
  <2>3. SubSeq(r, 1, a) = x
    BY DEF Join
  <2>4. SubSeq(r, a + 2, a + 1 + Len(y)) = y
    BY DEF Join
  <2>. QED BY <2>1, <2>2, <2>3, <2>4
<1>2. Dots(r) = {a + 1}
  <2>1. Dots(r) = Dots(x) \cup {a + 1}
    BY DotsOfJoin, Zenon
  <2>. QED BY <2>1, DotsOfDigits
<1>3. Cardinality(Dots(r)) = 2 - 1
  <2>1. Cardinality({a + 1}) = 1
    BY FS_Singleton
  <2>. QED BY <1>2, <2>1
<1>4. Rest(<<"v">> \o r) = r /\ \A m \in 1..3 : Match(<<"v">> \o r, m) <=> m = 2
  <2>1. Len(r) >= 1 /\ 1 \notin Dots(r) /\ Len(r) \notin Dots(r)
        /\ \A i \in Dots(r) : i + 1 \notin Dots(r)
    BY <1>1, <1>2
  <2>2. 2 \in 1..3
    OBVIOUS
  <2>. QED BY <1>1, <1>3, <2>1, <2>2, MatchShape, Zenon
<1>5. DotAt(r, 1 - 1) + 1 = 1 /\ DotAt(r, 1) - 1 = a
      /\ DotAt(r, 2 - 1) + 1 = a + 2 /\ DotAt(r, 2) - 1 = a + 1 + Len(y)
  <2>1. a + 1 \in Int
    OBVIOUS
  <2>2. DotAt(r, 1) = a + 1 /\ DotAt(r, 2) = Len(r) + 1
    BY <1>2, <2>1, DotAtOne, Zenon
  <2>3. DotAt(r, 0) = 0
    BY DEF DotAt
  <2>. QED BY <1>1, <2>2, <2>3
<1>6. GroupValue(<<"v">> \o r, 1) = IntOf(x)
  <2>1. GroupValue(<<"v">> \o r, 1) = IntOf(SubSeq(r, DotAt(r, 1 - 1) + 1, DotAt(r, 1) - 1))
    BY <1>4, Zenon DEF GroupValue
  <2>. QED BY <1>1, <1>5, <2>1, Zenon
<1>7. GroupValue(<<"v">> \o r, 2) = IntOf(y)
  <2>1. GroupValue(<<"v">> \o r, 2) = IntOf(SubSeq(r, DotAt(r, 2 - 1) + 1, DotAt(r, 2) - 1))
    BY <1>4, Zenon DEF GroupValue
  <2>. QED BY <1>1, <1>5, <2>1, Zenon
<1>. QED BY <1>4, <1>6, <1>7 DEF ParseVersion

\* parse_version("v" + x + "." + y + "." + z) = (int(x), int(y), int(z)).
LEMMA ParseThree ==
  ASSUME NEW x \in Seq(Digit), NEW y \in Seq(Digit), NEW z \in Seq(Digit),
         x # <<>>, y # <<>>, z # <<>>
  PROVE  ParseVersion(<<"v">> \o Join(Join(x, y), z)) = <<IntOf(x), IntOf(y), IntOf(z)>>
<1> DEFINE w == Join(x, y)
           r == Join(w, z)
           a == Len(x)
           b == Len(w)
<1> USE DEF w, r, a, b
<1>1. /\ w \in Seq(Digit \cup {"."}) /\ b = a + 1 + Len(y)
      /\ SubSeq(w, 1, a) = x /\ SubSeq(w, a + 2, b) = y
  <2>1. w \in Seq(Digit \cup {"."})
    BY DEF Join
  <2>2. b = a + 1 + Len(y)
    BY DEF Join
  <2>3. SubSeq(w, 1, a) = x
    BY DEF Join
  <2>4. SubSeq(w, a + 2, b) = y
    BY <2>2 DEF Join
  <2>. QED BY <2>1, <2>2, <2>3, <2>4
<1>2. /\ r \in Seq(Digit \cup {"."}) /\ Len(r) = b + 1 + Len(z)
      /\ \A i \in 1..b : r[i] = w[i]
      /\ SubSeq(r, b + 2, b + 1 + Len(z)) = z
  <2>1. r \in Seq(Digit \cup {"."})
    BY <1>1 DEF Join
  <2>2. Len(r) = b + 1 + Len(z)
    BY <1>1 DEF Join
  <2>3. \A i \in 1..b : r[i] = w[i]
    BY <1>1 DEF Join
  <2>4. SubSeq(r, b + 2, b + 1 + Len(z)) = z
    BY <1>1 DEF Join
  <2>. QED BY <2>1, <2>2, <2>3, <2>4
<1>3. SubSeq(r, 1, a) = x /\ SubSeq(r, a + 2, b) = y
  <2>1. SubSeq(r, 1, a) = SubSeq(w, 1, a) /\ SubSeq(r, a + 2, b) = SubSeq(w, a + 2, b)
    <3>1. SubSeq(r, 1, a) = SubSeq(w, 1, a)
      BY <1>1, <1>2
    <3>2. SubSeq(r, a + 2, b) = SubSeq(w, a + 2, b)
      BY <1>1, <1>2
    <3>. QED BY <3>1, <3>2
  <2>. QED BY <1>1, <2>1
<1>4. Dots(r) = {a + 1, b + 1}
  <2>1. Dots(w) = {a + 1}
    <3>1. Dots(w) = Dots(x) \cup {a + 1}
      BY DotsOfJoin, Zenon
    <3>. QED BY <3>1, DotsOfDigits
  <2>2. Dots(r) = Dots(w) \cup {b + 1}
    BY <1>1, DotsOfJoin, Zenon
  <2>. QED BY <2>1, <2>2
<1>5. a + 1 < b + 1 /\ a + 1 \in Int /\ b + 1 \in Int
  BY <1>1
<1>6. Cardinality(Dots(r)) = 3 - 1
  <2>1. IsFiniteSet({a + 1}) /\ Cardinality({a + 1}) = 1
    BY FS_Singleton, Zenon
  <2>2. b + 1 \notin {a + 1}
    BY <1>5
  <2>3. Cardinality({a + 1} \cup {b + 1}) = Cardinality({a + 1}) + 1
    BY <2>1, <2>2, FS_AddElement
  <2>4. {a + 1} \cup {b + 1} = {a + 1, b + 1}
    OBVIOUS
  <2>. QED BY <1>4, <2>1, <2>3, <2>4
<1>7. Rest(<<"v">> \o r) = r /\ \A m \in 1..3 : Match(<<"v">> \o r, m) <=> m = 3
  <2>1. Len(r) >= 1 /\ 1 \notin Dots(r) /\ Len(r) \notin Dots(r)
        /\ \A i \in Dots(r) : i + 1 \notin Dots(r)
    BY <1>1, <1>2, <1>4
  <2>2. 3 \in 1..3
    OBVIOUS
  <2>. QED BY <1>2, <1>6, <2>1, <2>2, MatchShape, Zenon
<1>8. /\ DotAt(r, 1 - 1) + 1 = 1 /\ DotAt(r, 1) - 1 = a
      /\ DotAt(r, 2 - 1) + 1 = a + 2 /\ DotAt(r, 2) - 1 = b
      /\ DotAt(r, 3 - 1) + 1 = b + 2 /\ DotAt(r, 3) - 1 = b + 1 + Len(z)
  <2>1. DotAt(r, 1) = a + 1 /\ DotAt(r, 2) = b + 1 /\ DotAt(r, 3) = Len(r) + 1
    BY <1>4, <1>5, DotAtTwo, Zenon
  <2>2. DotAt(r, 0) = 0
    BY DEF DotAt
  <2>. QED BY <1>2, <2>1, <2>2
<1>9. \A k \in 1..3 :
        GroupValue(<<"v">> \o r, k) = IntOf(SubSeq(r, DotAt(r, k - 1) + 1, DotAt(r, k) - 1))
  BY <1>7, Zenon DEF GroupValue
<1>10. /\ GroupValue(<<"v">> \o r, 1) = IntOf(x)
       /\ GroupValue(<<"v">> \o r, 2) = IntOf(y)
       /\ GroupValue(<<"v">> \o r, 3) = IntOf(z)
  <2>1. 1 \in 1..3 /\ 2 \in 1..3 /\ 3 \in 1..3
    OBVIOUS
  <2>. QED BY <1>2, <1>3, <1>8, <1>9, <2>1, Zenon
<1>. QED BY <1>7, <1>10 DEF ParseVersion

-----------------------------------------------------------------------------
(***************************************************************************)
(* parse_version returns a version or None on every string: each group a   *)
(* match captures is a run of digits between two consecutive dots.         *)
(***************************************************************************)
\* A set of two integers is a pair, one below the other.
LEMMA CardTwo ==
  ASSUME NEW S, S \subseteq Int, IsFiniteSet(S), Cardinality(S) = 2
  PROVE  \E a, b \in Int : a < b /\ S = {a, b}
<1>1. S # {}
  <2>1. Cardinality(S) = 0 <=> S = {}
    BY FS_EmptySet, Zenon
  <2>. QED BY <2>1
<1>2. PICK x \in S : TRUE
  BY <1>1
<1>3. IsFiniteSet(S \ {x}) /\ Cardinality(S \ {x}) = Cardinality(S) - 1
  BY FS_RemoveElement, Zenon
<1>4. Cardinality(S \ {x}) = 1
  BY <1>3
<1>5. PICK y : S \ {x} = {y}
  BY <1>3, <1>4, FS_Singleton, Zenon
<1>6. S = {x, y} /\ x # y /\ x \in Int /\ y \in Int
  BY <1>5
<1>7. CASE x < y
  BY <1>6, <1>7
<1>8. CASE y < x
  <2>. {x, y} = {y, x}
    OBVIOUS
  <2>. QED BY <1>6, <1>8
<1>. QED BY <1>6, <1>7, <1>8

\* A stretch of r with no dot in it is a run of digits, and int() of it is
\* a natural number.
LEMMA DigitRun ==
  ASSUME NEW r \in Seq(Digit \cup {"."}), NEW lo \in Int, NEW hi \in Int,
         1 <= lo, hi <= Len(r), \A i \in lo..hi : i \notin Dots(r)
  PROVE  /\ SubSeq(r, lo, hi) \in Seq(Digit)
         /\ IntOf(SubSeq(r, lo, hi)) \in Nat
<1>1. \A i \in lo..hi : r[i] \in Digit
  BY DEF Dots
<1>2. SubSeq(r, lo, hi) \in Seq(Digit)
  BY <1>1
<1>. QED BY <1>2, IntOfNat

\* What a match of the n-group pattern says of the text after the "v".
LEMMA MatchRest ==
  ASSUME NEW s \in Seq(STRING), NEW n \in 1..3, Match(s, n)
  PROVE  /\ Rest(s) \in Seq(Digit \cup {"."})
         /\ IsFiniteSet(Dots(Rest(s))) /\ Dots(Rest(s)) \subseteq 1..Len(Rest(s))
         /\ Cardinality(Dots(Rest(s))) = n - 1
<1>1. Body(s) \in Seq(STRING) /\ Len(Body(s)) >= 2
  <2>1. Body(s) \in Seq(STRING)
    <3>1. CASE s # <<>> /\ s[Len(s)] = "\n"
      <4>1. Body(s) = SubSeq(s, 1, Len(s) - 1)
        BY <3>1 DEF Body
      <4>. QED BY <4>1
    <3>2. CASE ~(s # <<>> /\ s[Len(s)] = "\n")
      BY <3>2 DEF Body
    <3>. QED BY <3>1, <3>2
  <2>2. Len(Body(s)) >= 2
    BY DEF Match
  <2>. QED BY <2>1, <2>2
<1>2. Rest(s) \in Seq(STRING)
  BY <1>1 DEF Rest
<1>3. \A i \in DOMAIN Rest(s) : Rest(s)[i] \in Digit \cup {"."}
  BY DEF Match
<1>4. Rest(s) \in Seq(Digit \cup {"."})
  BY <1>2, <1>3
<1>5. IsFiniteSet(Dots(Rest(s))) /\ Dots(Rest(s)) \subseteq 1..Len(Rest(s))
  BY <1>4, DotsFinite
<1>. QED BY <1>4, <1>5 DEF Match


\* parse_version returns a triple of naturals or None.
LEMMA ParseVersionType ==
  ASSUME NEW s \in Seq(STRING)
  PROVE  ParseVersion(s) \in Version \cup {None}
<1> DEFINE r == Rest(s)
<1>0. /\ GroupValue(s, 1) = IntOf(SubSeq(r, DotAt(r, 0) + 1, DotAt(r, 1) - 1))
      /\ GroupValue(s, 2) = IntOf(SubSeq(r, DotAt(r, 1) + 1, DotAt(r, 2) - 1))
      /\ GroupValue(s, 3) = IntOf(SubSeq(r, DotAt(r, 2) + 1, DotAt(r, 3) - 1))
      /\ DotAt(r, 0) = 0
  BY DEF GroupValue, DotAt, r
<1>1. CASE Match(s, 3)
  <2>1. /\ r \in Seq(Digit \cup {"."}) /\ IsFiniteSet(Dots(r))
        /\ Dots(r) \subseteq 1..Len(r) /\ Cardinality(Dots(r)) = 2
    BY <1>1, MatchRest DEF r
  <2>2. PICK a, b \in Int : a < b /\ Dots(r) = {a, b}
    BY <2>1, CardTwo
  <2>3. DotAt(r, 1) = a /\ DotAt(r, 2) = b /\ DotAt(r, 3) = Len(r) + 1
    BY <2>2, DotAtTwo
  <2>4. a \in 1..Len(r) /\ b \in 1..Len(r)
    BY <2>1, <2>2
  <2>5. IntOf(SubSeq(r, 0 + 1, a - 1)) \in Nat
    BY <2>1, <2>2, <2>4, DigitRun
  <2>6. IntOf(SubSeq(r, a + 1, b - 1)) \in Nat
    BY <2>1, <2>2, <2>4, DigitRun
  <2>7. IntOf(SubSeq(r, b + 1, (Len(r) + 1) - 1)) \in Nat
    BY <2>1, <2>2, <2>4, DigitRun
  <2>8. ParseVersion(s) = <<GroupValue(s, 1), GroupValue(s, 2), GroupValue(s, 3)>>
    <3>1. ~Match(s, 2) /\ ~Match(s, 1)
      BY <2>1 DEF Match, r
    <3>. QED BY <1>1, <3>1 DEF ParseVersion
  <2>. QED BY <1>0, <2>3, <2>5, <2>6, <2>7, <2>8 DEF Version
<1>2. CASE Match(s, 2)
  <2>1. /\ r \in Seq(Digit \cup {"."}) /\ IsFiniteSet(Dots(r))
        /\ Dots(r) \subseteq 1..Len(r) /\ Cardinality(Dots(r)) = 1
    BY <1>2, MatchRest DEF r
  <2>2. PICK a : Dots(r) = {a}
    BY <2>1, FS_Singleton, Zenon
  <2>3. a \in 1..Len(r)
    BY <2>1, <2>2
  <2>4. DotAt(r, 1) = a /\ DotAt(r, 2) = Len(r) + 1
    BY <2>2, <2>3, DotAtOne
  <2>5. IntOf(SubSeq(r, 0 + 1, a - 1)) \in Nat
    BY <2>1, <2>2, <2>3, DigitRun
  <2>6. IntOf(SubSeq(r, a + 1, (Len(r) + 1) - 1)) \in Nat
    BY <2>1, <2>2, <2>3, DigitRun
  <2>7. ParseVersion(s) = <<GroupValue(s, 1), GroupValue(s, 2), 0>>
    <3>1. ~Match(s, 3) /\ ~Match(s, 1)
      BY <2>1 DEF Match, r
    <3>. QED BY <1>2, <3>1 DEF ParseVersion
  <2>. QED BY <1>0, <2>4, <2>5, <2>6, <2>7 DEF Version
<1>3. CASE Match(s, 1)
  <2>1. /\ r \in Seq(Digit \cup {"."}) /\ IsFiniteSet(Dots(r))
        /\ Cardinality(Dots(r)) = 0
    BY <1>3, MatchRest DEF r
  <2>2. Dots(r) = {}
    BY <2>1, FS_EmptySet, Zenon
  <2>3. DotAt(r, 1) = Len(r) + 1
    BY <2>2, DotAtNone
  <2>4. IntOf(SubSeq(r, 0 + 1, (Len(r) + 1) - 1)) \in Nat
    BY <2>1, <2>2, DigitRun
  <2>5. ParseVersion(s) = <<GroupValue(s, 1), 0, 0>>
    <3>1. ~Match(s, 3) /\ ~Match(s, 2)
      BY <2>1 DEF Match, r
    <3>. QED BY <1>3, <3>1 DEF ParseVersion
  <2>. QED BY <1>0, <2>3, <2>4, <2>5 DEF Version
<1>4. CASE ~Match(s, 3) /\ ~Match(s, 2) /\ ~Match(s, 1)
  BY <1>4 DEF ParseVersion
<1>. QED BY <1>1, <1>2, <1>3, <1>4

============================================================================
