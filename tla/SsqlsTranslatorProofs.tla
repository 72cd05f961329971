------------------------ MODULE SsqlsTranslatorProofs ------------------------
(***************************************************************************)
(* What ssqlsxlat writes it reads: a declaration printed and parsed again  *)
(* is the same, for every name and value; and with it the translator's     *)
(* invariants, for any files and any limits.                               *)
(***************************************************************************)
EXTENDS SsqlsTranslator, SequenceTheorems, WellFoundedInduction, NaturalsInduction, TLAPS

(***************************************************************************)
(* Words.  A piece that is no capitalised one stays in lower case.         *)
(***************************************************************************)
Capitals == {"TABLE", "Field", "TYPE", "IS", "BIG", "INT", "No"}

\* str_to_lwr() leaves a word in lower case alone.
LEMMA LowerAlready ==
    ASSUME NEW w, w = [i \in DOMAIN w |-> w[i]], \A i \in DOMAIN w : w[i] \notin Capitals
    PROVE  str_to_lwr(w) = w
<1>1. ASSUME NEW p, p \notin Capitals PROVE p \notin DOMAIN Upper
    BY <1>1 DEF Upper, Capitals
<1>2. \A i \in DOMAIN w : (IF w[i] \in DOMAIN Upper THEN Upper[w[i]] ELSE w[i]) = w[i]
    BY <1>1
<1>3. str_to_lwr(w) = [i \in DOMAIN w |-> w[i]]
    BY <1>2 DEF str_to_lwr
<1> QED BY <1>3

\* So one of a single piece,
LEMMA LowerOfOne ==
    ASSUME NEW p, p \notin Capitals
    PROVE  str_to_lwr(W(p)) = W(p)
<1>1. DOMAIN W(p) = 1..1 /\ W(p)[1] = p
    BY DEF W
<1>2. W(p) \in Seq({p})
    BY DEF W
<1>3. W(p) = [i \in DOMAIN W(p) |-> W(p)[i]]
    BY <1>2, LenProperties
<1> QED BY <1>1, <1>3, LowerAlready

\* and one of two.
LEMMA LowerOfTwo ==
    ASSUME NEW p, NEW q, p \notin Capitals, q \notin Capitals
    PROVE  str_to_lwr(<<p, q>>) = <<p, q>>
<1> DEFINE w == <<p, q>>
<1>1. DOMAIN w = 1..2 /\ w[1] = p /\ w[2] = q
    OBVIOUS
<1>2. w \in Seq({p, q})
    OBVIOUS
<1>3. w = [i \in DOMAIN w |-> w[i]]
    BY <1>2, LenProperties
<1> QED BY <1>1, <1>3, LowerAlready

\* Two words of one piece each are the same if their pieces are.
LEMMA OneWord ==
    ASSUME NEW p, NEW q, W(p) = W(q)
    PROVE  p = q
BY DEF W

-----------------------------------------------------------------------------
(***************************************************************************)
(* Attributes.  Behind a line of whole pairs a pair more is the last pair. *)
(***************************************************************************)
Paired(tl) == tl \in Seq(Word) /\ \E m \in Nat : Len(tl) = 2 * m + 2
Longer(tl, attr, value) == tl \o <<attr, value>>

\* It stays a line of whole pairs.
LEMMA PairedLonger ==
    ASSUME NEW tl, Paired(tl), NEW attr \in Word, NEW value \in Word
    PROVE  /\ Paired(Longer(tl, attr, value))
           /\ \E m \in Nat :
               /\ DOMAIN Pairs(tl) = 1..m
               /\ DOMAIN Pairs(Longer(tl, attr, value)) = 1..(m + 1)
               /\ \A k \in 1..m : Pairs(Longer(tl, attr, value))[k] = Pairs(tl)[k]
               /\ Pairs(Longer(tl, attr, value))[m + 1][1] = str_to_lwr(attr)
               /\ Pairs(Longer(tl, attr, value))[m + 1][2] = value
<1> DEFINE more == Longer(tl, attr, value)
<1>1. PICK m \in Nat : Len(tl) = 2 * m + 2
    BY DEF Paired
<1>2. /\ more \in Seq(Word) /\ Len(more) = 2 * (m + 1) + 2
      /\ \A i \in 1..Len(tl) : more[i] = tl[i]
      /\ more[2 * (m + 1) + 1] = attr /\ more[2 * (m + 1) + 2] = value
    BY <1>1 DEF Longer, Paired
<1>3. (Len(tl) - 2) \div 2 = m /\ (Len(more) - 2) \div 2 = m + 1
    BY <1>1, <1>2
<1> HIDE DEF more
<1>4. DOMAIN Pairs(tl) = 1..m /\ DOMAIN Pairs(more) = 1..(m + 1)
    BY <1>3 DEF Pairs
<1>5. ASSUME NEW k \in 1..m PROVE Pairs(more)[k] = Pairs(tl)[k]
    <2>1. 2 * k + 1 \in 1..Len(tl) /\ 2 * k + 2 \in 1..Len(tl) /\ k \in 1..(m + 1)
        BY <1>1
    <2>2. more[2 * k + 1] = tl[2 * k + 1] /\ more[2 * k + 2] = tl[2 * k + 2]
        BY <1>2, <2>1
    <2> QED BY <1>3, <2>1, <2>2 DEF Pairs
<1>6. Pairs(more)[m + 1] = <<str_to_lwr(attr), value>>
    BY <1>2, <1>3 DEF Pairs
<1>7. Pairs(more)[m + 1][1] = str_to_lwr(attr) /\ Pairs(more)[m + 1][2] = value
    BY <1>6
<1>8. Paired(more)
    BY <1>2 DEF Paired
<1> QED BY <1>1, <1>4, <1>5, <1>7, <1>8 DEF more

\* A set of numbers up to m has a greatest: the one with the least distance.
LEMMA GreatestIn ==
    ASSUME NEW m \in Nat, NEW S \in SUBSET (1..m), S # {}
    PROVE  Max(S) \in S
<1> DEFINE Distances == {m - k : k \in S}
<1>1. Distances \subseteq Nat /\ Distances # {}
    <2>1. \A k \in S : m - k \in Nat
        OBVIOUS
    <2> QED BY <2>1
<1>2. PICK d \in Distances : \A e \in Distances : ~(<<e, d>> \in OpToRel(<, Nat))
    <2> HIDE DEF Distances
    <2> QED BY <1>1, NatLessThanWellFounded, WFMin
<1>3. ASSUME NEW k \in S PROVE m - d >= k
    <2>1. m - k \in Distances /\ m - k \in Nat /\ d \in Nat
        BY <1>1
    <2>2. ~(m - k < d)
        BY <1>2, <2>1 DEF OpToRel
    <2> QED BY <2>1, <2>2
<1>4. m - d \in S
    <2>1. PICK k \in S : d = m - k
        OBVIOUS
    <2>2. m - d = k
        BY <2>1
    <2> QED BY <2>2
<1>5. \E x \in S : \A y \in S : x >= y
    BY <1>3, <1>4
<1> QED BY <1>5 DEF Max

\* A greatest number is the greatest.
LEMMA GreatestIs ==
    ASSUME NEW S \in SUBSET Nat, NEW n \in S, \A k \in S : n >= k
    PROVE  Max(S) = n
<1>1. Max(S) \in S /\ \A k \in S : Max(S) >= k
    BY DEF Max
<1>2. Max(S) \in Nat /\ n \in Nat /\ Max(S) >= n /\ n >= Max(S)
    BY <1>1
<1> HIDE DEF Max
<1> QED BY ONLY <1>2

\* The attribute of the last pair has its value, the others what they had.
LEMMA ValueLonger ==
    ASSUME NEW tl, Paired(tl), NEW attr \in Word, NEW value \in Word, NEW a, NEW default
    PROVE  ValueOf(Longer(tl, attr, value), a, default) =
               IF str_to_lwr(attr) = W(a) THEN value ELSE ValueOf(tl, a, default)
<1> DEFINE more == Longer(tl, attr, value)
<1>1. PICK m \in Nat :
          /\ DOMAIN Pairs(tl) = 1..m /\ DOMAIN Pairs(more) = 1..(m + 1)
          /\ \A k \in 1..m : Pairs(more)[k] = Pairs(tl)[k]
          /\ Pairs(more)[m + 1][1] = str_to_lwr(attr) /\ Pairs(more)[m + 1][2] = value
    BY PairedLonger
<1> HIDE DEF more
<1>2. CASE str_to_lwr(attr) = W(a)
    <2>1. m + 1 \in Given(more, a) /\ Given(more, a) \subseteq 1..(m + 1)
        BY <1>1, <1>2 DEF Given
    <2>2. Max(Given(more, a)) = m + 1
        BY <2>1, GreatestIs
    <2> QED BY <1>1, <1>2, <2>1, <2>2 DEF ValueOf, more
<1>3. CASE str_to_lwr(attr) # W(a)
    <2>1. Given(more, a) = Given(tl, a) /\ Given(tl, a) \subseteq 1..m
        <3>1. ASSUME NEW k \in 1..(m + 1) PROVE k \in Given(more, a) <=> k \in Given(tl, a)
            <4>1. CASE k \in 1..m
                BY <1>1, <4>1 DEF Given
            <4>2. CASE k = m + 1
                BY <1>1, <1>3, <4>2 DEF Given
            <4> QED BY <4>1, <4>2
        <3>2. Given(more, a) \subseteq 1..(m + 1) /\ Given(tl, a) \subseteq 1..m
            BY <1>1 DEF Given
        <3> QED BY <3>1, <3>2
    <2>2. CASE Given(tl, a) = {}
        BY <1>3, <2>1, <2>2 DEF ValueOf, more
    <2>3. CASE Given(tl, a) # {}
        <3>1. Max(Given(tl, a)) \in 1..m
            BY <2>1, <2>3, GreatestIn
        <3> QED BY <1>1, <1>3, <2>1, <2>3, <3>1 DEF ValueOf, more
    <2> QED BY <2>2, <2>3
<1> QED BY <1>2, <1>3

\* The flags are the ones there were, and the value of the last pair if it is one.
LEMMA FlagsLonger ==
    ASSUME NEW tl, Paired(tl), NEW attr \in Word, NEW value \in Word
    PROVE  FlagsOf(Longer(tl, attr, value)) =
               IF str_to_lwr(attr) = W("is") THEN FlagsOf(tl) \cup {value} ELSE FlagsOf(tl)
<1> DEFINE more == Longer(tl, attr, value)
<1>1. PICK m \in Nat :
          /\ DOMAIN Pairs(tl) = 1..m /\ DOMAIN Pairs(more) = 1..(m + 1)
          /\ \A k \in 1..m : Pairs(more)[k] = Pairs(tl)[k]
          /\ Pairs(more)[m + 1][1] = str_to_lwr(attr) /\ Pairs(more)[m + 1][2] = value
    BY PairedLonger
<1> HIDE DEF more
<1>2. Given(tl, "is") \subseteq 1..m
    BY <1>1 DEF Given
<1>3. \A k \in 1..m : k \in Given(more, "is") <=> k \in Given(tl, "is")
    BY <1>1 DEF Given
<1>4. CASE str_to_lwr(attr) = W("is")
    <2>1. Given(more, "is") = Given(tl, "is") \cup {m + 1}
        BY <1>1, <1>2, <1>3, <1>4 DEF Given
    <2> QED BY <1>1, <1>2, <1>4, <2>1 DEF FlagsOf, more
<1>5. CASE str_to_lwr(attr) # W("is")
    <2>1. Given(more, "is") = Given(tl, "is")
        BY <1>1, <1>2, <1>3, <1>5 DEF Given
    <2> QED BY <1>1, <1>2, <1>5, <2>1 DEF FlagsOf, more
<1> QED BY <1>4, <1>5 DEF more

\* All the attributes are known if they were and the last is.
LEMMA KnownLonger ==
    ASSUME NEW tl, Paired(tl), NEW attr \in Word, NEW value \in Word, NEW attrs
    PROVE  OnlyKnows(Longer(tl, attr, value), attrs) <=>
               OnlyKnows(tl, attrs) /\ str_to_lwr(attr) \in {W(a) : a \in attrs}
<1> DEFINE more == Longer(tl, attr, value)
<1>1. PICK m \in Nat :
          /\ DOMAIN Pairs(tl) = 1..m /\ DOMAIN Pairs(more) = 1..(m + 1)
          /\ \A k \in 1..m : Pairs(more)[k] = Pairs(tl)[k]
          /\ Pairs(more)[m + 1][1] = str_to_lwr(attr) /\ Pairs(more)[m + 1][2] = value
    BY PairedLonger
<1> HIDE DEF more
<1>2. 1..(m + 1) = 1..m \cup {m + 1}
    OBVIOUS
<1>3. OnlyKnows(more, attrs) <=> OnlyKnows(tl, attrs) /\ str_to_lwr(attr) \in {W(a) : a \in attrs}
    BY <1>1, <1>2 DEF OnlyKnows
<1> QED BY <1>3 DEF more

\* A line of two words has no attributes.
LEMMA NoPairs ==
    ASSUME NEW first \in Word, NEW second \in Word, NEW a, NEW attrs, NEW default
    PROVE  LET tl == <<first, second>> IN
           Paired(tl) /\ ValueOf(tl, a, default) = default /\ FlagsOf(tl) = {} /\ OnlyKnows(tl, attrs)
<1> DEFINE tl == <<first, second>>
<1>1. tl \in Seq(Word) /\ Len(tl) = 2 * 0 + 2
    OBVIOUS
<1>2. Paired(tl)
    BY <1>1 DEF Paired
<1> HIDE DEF tl
<1>3. DOMAIN Pairs(tl) = {}
    BY <1>1 DEF Pairs
<1>4. Given(tl, a) = {} /\ Given(tl, "is") = {}
    BY <1>3 DEF Given
<1> QED BY <1>2, <1>3, <1>4 DEF ValueOf, FlagsOf, OnlyKnows, tl

-----------------------------------------------------------------------------
(***************************************************************************)
(* Types.  Every type is read from the word it is printed as.              *)
(***************************************************************************)
\* A type of one syllable.
LEMMA ReadsOneSyllable ==
    ASSUME NEW t \in {"blob", "date", "double", "float", "set", "time", "string"}
    PROVE  Type(TypeWord(t)) = t
<1>1. TypeWord(t) = W(t) /\ t \notin Capitals
    BY DEF TypeWord, W, Capitals
<1>2. str_to_lwr(W(t)) = W(t)
    BY <1>1, LowerOfOne
<1> DEFINE s == W(t)
<1>3. DOMAIN s = {1} /\ s[1] = t /\ s # <<>> /\ s # <<"date", "time">> /\ s # <<"time", "stamp">>
    BY DEF W
<1> HIDE DEF s
<1>4. str_to_lwr(TypeWord(t)) = s
    BY <1>1, <1>2 DEF s
<1> QED BY <1>3, <1>4 DEF Type

\* A type of two.
LEMMA ReadsTwoSyllables ==
    ASSUME NEW t \in {"bigint", "mediumint", "smallint", "tinyint", "datetime"}
    PROVE  Type(TypeWord(t)) = t
<1> DEFINE s == TypeWord(t)
<1>1. PICK p \in {"big", "medium", "small", "tiny", "date"}, q \in {"int", "time"} :
          /\ s = <<p, q>> /\ (q = "time" <=> p = "date")
          /\ t = CASE p = "big" -> "bigint" [] p = "medium" -> "mediumint" [] p = "small" -> "smallint"
                   [] p = "tiny" -> "tinyint" [] OTHER -> "datetime"
    BY DEF TypeWord
<1>2. str_to_lwr(s) = s
    BY <1>1, LowerOfTwo DEF Capitals
<1>3. /\ DOMAIN s = {1, 2} /\ s[1] = p /\ s[2] = q /\ s # <<>>
      /\ s = <<"date", "time">> <=> p = "date"
      /\ s # <<"int", "1">> /\ s # <<"int", "2">> /\ s # <<"int", "8">>
    BY <1>1
<1> HIDE DEF s
<1>4. CASE p = "date"
    BY <1>1, <1>2, <1>3, <1>4 DEF Type, s
<1>5. CASE p # "date"
    BY <1>1, <1>2, <1>3, <1>5 DEF Type, IntType, s
<1> QED BY <1>4, <1>5

\* So every type of a field.
LEMMA TypeReadsBack ==
    ASSUME NEW t \in FieldTypes
    PROVE  Type(TypeWord(t)) = t
BY ReadsOneSyllable, ReadsTwoSyllables DEF FieldTypes

\* Whatever the word, its type is one of them.
LEMMA TypeIsOne ==
    ASSUME NEW word
    PROVE  Type(word) \in FieldTypes
BY DEF Type, IntType, FieldTypes

-----------------------------------------------------------------------------
(***************************************************************************)
(* What is printed is read: first a field.                                 *)
(***************************************************************************)
\* The words the translator writes itself are words.
LEMMA WordsOfOne ==
    ASSUME NEW p \in OwnPieces
    PROVE  W(p) \in Word
<1>1. p \in Piece
    BY PieceAssumption
<1> QED BY <1>1 DEF W, Word

\* A line of whole pairs with a pair more begins with the same two words.
LEMMA BeginsAsBefore ==
    ASSUME NEW tl, Paired(tl), NEW attr \in Word, NEW value \in Word
    PROVE  /\ Longer(tl, attr, value)[1] = tl[1] /\ Longer(tl, attr, value)[2] = tl[2]
           /\ Len(tl) >= 2 /\ Longer(tl, attr, value) \in Seq(Word)
<1>1. PICK m \in Nat : Len(tl) = 2 * m + 2
    BY DEF Paired
<1>2. 1 \in 1..Len(tl) /\ 2 \in 1..Len(tl) /\ Len(tl) >= 2
    BY <1>1
<1>3. tl \in Seq(Word) /\ <<attr, value>> \in Seq(Word)
    BY DEF Paired
<1> QED BY <1>2, <1>3 DEF Longer

FieldAttributes == {"alias", "is", "type"}

\* A line that says no more than another, but for the flags.
SaysOnly(more, tl, flags) ==
    /\ Paired(more) /\ OnlyKnows(more, FieldAttributes)
    /\ more[1] = tl[1] /\ more[2] = tl[2]
    /\ ValueOf(more, "type", <<>>) = ValueOf(tl, "type", <<>>)
    /\ ValueOf(more, "alias", <<>>) = ValueOf(tl, "alias", <<>>)
    /\ FlagsOf(more) = flags
FlagWords(flags) == {W(f) : f \in flags}

\* A printed flag adds itself to the flags, and changes nothing else.
LEMMA FlagPrinted ==
    ASSUME NEW tl, Paired(tl), NEW is, NEW f \in Flags, OnlyKnows(tl, FieldAttributes)
    PROVE  SaysOnly(tl \o PrintFlag(is, f), tl, FlagsOf(tl) \cup FlagWords(is \cap {f}))
<1>1. CASE f \in is
    <2>1. W("is") \in Word /\ W(f) \in Word
        BY WordsOfOne DEF Flags, OwnPieces
    <2>2. str_to_lwr(W("is")) = W("is")
        BY LowerOfOne DEF Capitals
    <2>3. W("is") # W("type") /\ W("is") # W("alias") /\ W("is") \in {W(a) : a \in FieldAttributes}
        BY OneWord DEF FieldAttributes
    <2>4. tl \o PrintFlag(is, f) = Longer(tl, W("is"), W(f))
        BY <1>1 DEF PrintFlag, Longer
    <2>5. FlagsOf(Longer(tl, W("is"), W(f))) = FlagsOf(tl) \cup {W(f)}
        BY <2>1, <2>2, FlagsLonger
    <2>6. FlagWords(is \cap {f}) = {W(f)}
        BY <1>1 DEF FlagWords
    <2>7. /\ ValueOf(Longer(tl, W("is"), W(f)), "type", <<>>) = ValueOf(tl, "type", <<>>)
          /\ ValueOf(Longer(tl, W("is"), W(f)), "alias", <<>>) = ValueOf(tl, "alias", <<>>)
        BY <2>1, <2>2, <2>3, ValueLonger
    <2>8. OnlyKnows(Longer(tl, W("is"), W(f)), FieldAttributes)
        BY <2>1, <2>2, <2>3, KnownLonger
    <2>9. Paired(Longer(tl, W("is"), W(f)))
        BY <2>1, PairedLonger
    <2> DEFINE more == Longer(tl, W("is"), W(f))
    <2>10. more[1] = tl[1] /\ more[2] = tl[2]
        BY <2>1, BeginsAsBefore
    <2> HIDE DEF more
    <2> QED BY <2>4, <2>5, <2>6, <2>7, <2>8, <2>9, <2>10 DEF SaysOnly, more
<1>2. CASE f \notin is
    <2>1. tl \o PrintFlag(is, f) = tl
        <3>1. PrintFlag(is, f) = <<>>
            BY <1>2, Zenon DEF PrintFlag
        <3>2. tl \in Seq(Word)
            BY DEF Paired
        <3> QED BY <3>1, <3>2
    <2>2. FlagWords(is \cap {f}) = {}
        BY <1>2 DEF FlagWords
    <2> QED BY <2>1, <2>2 DEF SaysOnly
<1> QED BY <1>1, <1>2

\* And one after another.
LEMMA FlagPrintedToo ==
    ASSUME NEW more, NEW tl, NEW flags, SaysOnly(more, tl, FlagWords(flags)), NEW is, NEW f \in Flags
    PROVE  SaysOnly(more \o PrintFlag(is, f), tl, FlagWords(flags \cup (is \cap {f})))
<1>1. Paired(more) /\ OnlyKnows(more, FieldAttributes)
    BY DEF SaysOnly
<1>2. SaysOnly(more \o PrintFlag(is, f), more, FlagsOf(more) \cup FlagWords(is \cap {f}))
    BY <1>1, FlagPrinted
<1>3. FlagsOf(more) \cup FlagWords(is \cap {f}) = FlagWords(flags \cup (is \cap {f}))
    BY DEF SaysOnly, FlagWords
<1> QED BY <1>2, <1>3 DEF SaysOnly

\* So do the four of them.
LEMMA FlagsPrinted ==
    ASSUME NEW tl, Paired(tl), NEW is \in SUBSET Flags, OnlyKnows(tl, FieldAttributes), FlagsOf(tl) = {}
    PROVE  SaysOnly(WithFlags(tl, is), tl, FlagWords(is))
<1> DEFINE Printed1 == tl \o PrintFlag(is, "autoinc")
           Printed2 == Printed1 \o PrintFlag(is, "key")
           Printed3 == Printed2 \o PrintFlag(is, "null")
           Printed4 == Printed3 \o PrintFlag(is, "unsigned")
<1>1. SaysOnly(Printed1, tl, FlagWords(is \cap {"autoinc"}))
    <2>1. SaysOnly(Printed1, tl, FlagsOf(tl) \cup FlagWords(is \cap {"autoinc"}))
        BY FlagPrinted DEF Flags
    <2> QED BY <2>1
<1> HIDE DEF Printed1
<1>2. SaysOnly(Printed2, tl, FlagWords((is \cap {"autoinc"}) \cup (is \cap {"key"})))
    BY <1>1, FlagPrintedToo DEF Flags
<1> HIDE DEF Printed2
<1>3. SaysOnly(Printed3, tl, FlagWords((is \cap {"autoinc"}) \cup (is \cap {"key"}) \cup (is \cap {"null"})))
    BY <1>2, FlagPrintedToo DEF Flags
<1> HIDE DEF Printed3
<1>4. SaysOnly(Printed4, tl, FlagWords((is \cap {"autoinc"}) \cup (is \cap {"key"}) \cup (is \cap {"null"})
                                           \cup (is \cap {"unsigned"})))
    BY <1>3, FlagPrintedToo DEF Flags
<1> HIDE DEF Printed4
<1>5. (is \cap {"autoinc"}) \cup (is \cap {"key"}) \cup (is \cap {"null"}) \cup (is \cap {"unsigned"}) = is
    BY DEF Flags
<1>6. WithFlags(tl, is) = Printed4
    BY DEF WithFlags, Printed1, Printed2, Printed3, Printed4
<1> QED BY <1>4, <1>5, <1>6

\* The word of a type is a word.
LEMMA TypeWords ==
    ASSUME NEW t \in FieldTypes
    PROVE  TypeWord(t) \in Word
<1>1. CASE t \in {"blob", "date", "double", "float", "set", "time", "string"}
    <2>1. TypeWord(t) = W(t)
        BY <1>1 DEF TypeWord, W
    <2> QED BY <1>1, <2>1, WordsOfOne DEF OwnPieces
<1>2. CASE t \in {"bigint", "mediumint", "smallint", "tinyint", "datetime"}
    <2>1. PICK p \in OwnPieces, q \in OwnPieces : TypeWord(t) = <<p, q>>
        BY <1>2 DEF TypeWord, OwnPieces
    <2>2. p \in Piece /\ q \in Piece
        BY PieceAssumption
    <2> QED BY <2>1, <2>2 DEF Word
<1> QED BY <1>1, <1>2 DEF FieldTypes

\* A pair behind two words.
LEMMA PairBehind ==
    ASSUME NEW a \in Word, NEW b \in Word, NEW c \in Word, NEW d \in Word
    PROVE  <<a, b, c, d>> = Longer(<<a, b>>, c, d)
BY DEF Longer

\* The name and the type come first.
LEMMA StartPrinted ==
    ASSUME NEW name \in Word, NEW t \in FieldTypes
    PROVE  LET start == <<W("field"), name, W("type"), TypeWord(t)>> IN
           /\ Paired(start) /\ OnlyKnows(start, FieldAttributes)
           /\ start[1] = W("field") /\ start[2] = name
           /\ ValueOf(start, "type", <<>>) = TypeWord(t) /\ ValueOf(start, "alias", <<>>) = <<>>
           /\ FlagsOf(start) = {}
<1> DEFINE two == <<W("field"), name>>
           start == <<W("field"), name, W("type"), TypeWord(t)>>
<1>1. W("field") \in Word /\ W("type") \in Word /\ TypeWord(t) \in Word
    BY WordsOfOne, TypeWords DEF OwnPieces
<1>2. start = Longer(two, W("type"), TypeWord(t))
    BY <1>1, PairBehind
<1>3. /\ Paired(two) /\ FlagsOf(two) = {} /\ OnlyKnows(two, FieldAttributes)
      /\ ValueOf(two, "alias", <<>>) = <<>>
    BY <1>1, NoPairs
<1>4. start[1] = W("field") /\ start[2] = name
    OBVIOUS
<1> HIDE DEF two, start
<1>5. str_to_lwr(W("type")) = W("type")
    BY LowerOfOne DEF Capitals
<1>6. W("type") # W("alias") /\ W("type") # W("is") /\ W("type") \in {W(a) : a \in FieldAttributes}
    BY OneWord DEF FieldAttributes
<1>7. Paired(start)
    BY <1>1, <1>2, <1>3, PairedLonger
<1>8. ValueOf(start, "type", <<>>) = TypeWord(t) /\ ValueOf(start, "alias", <<>>) = <<>>
    BY <1>1, <1>2, <1>3, <1>5, <1>6, ValueLonger
<1>9. FlagsOf(start) = {} /\ OnlyKnows(start, FieldAttributes)
    BY <1>1, <1>2, <1>3, <1>5, <1>6, FlagsLonger, KnownLonger
<1> QED BY <1>4, <1>7, <1>8, <1>9 DEF start

\* What print() writes for a field says what the field is.
LEMMA FieldPrinted ==
    ASSUME NEW d \in FieldDeclaration
    PROVE  LET tl == PrintField(d) IN
           /\ Paired(tl) /\ OnlyKnows(tl, FieldAttributes)
           /\ tl[1] = W("field") /\ tl[2] = d.name
           /\ ValueOf(tl, "type", <<>>) = TypeWord(d.type) /\ ValueOf(tl, "alias", <<>>) = d.alias
           /\ FlagsOf(tl) = FlagWords(d.is)
<1> DEFINE start == <<W("field"), d.name, W("type"), TypeWord(d.type)>>
           flagged == WithFlags(start, d.is)
<1>1. d.name \in Word /\ d.type \in FieldTypes /\ d.is \in SUBSET Flags /\ d.alias \in Word
    BY DEF FieldDeclaration
<1>2. /\ Paired(start) /\ OnlyKnows(start, FieldAttributes)
      /\ start[1] = W("field") /\ start[2] = d.name
      /\ ValueOf(start, "type", <<>>) = TypeWord(d.type) /\ ValueOf(start, "alias", <<>>) = <<>>
      /\ FlagsOf(start) = {}
    BY <1>1, StartPrinted
<1>3. PrintField(d) = flagged \o (IF d.alias = <<>> THEN <<>> ELSE <<W("alias"), d.alias>>)
    BY DEF PrintField
<1> HIDE DEF start
<1>4. SaysOnly(flagged, start, FlagWords(d.is))
    BY <1>1, <1>2, FlagsPrinted
<1> HIDE DEF flagged
<1>5. CASE d.alias = <<>>
    <2>1. flagged \in Seq(Word)
        BY <1>4 DEF SaysOnly, Paired
    <2>2. PrintField(d) = flagged
        BY <1>3, <1>5, <2>1
    <2> QED BY <1>2, <1>4, <1>5, <2>2 DEF SaysOnly
<1>6. CASE d.alias # <<>>
    <2>1. PrintField(d) = Longer(flagged, W("alias"), d.alias)
        BY <1>3, <1>6 DEF Longer
    <2>2. W("alias") \in Word
        BY WordsOfOne DEF OwnPieces
    <2>3. str_to_lwr(W("alias")) = W("alias")
        BY LowerOfOne DEF Capitals
    <2>4. W("alias") # W("type") /\ W("alias") # W("is") /\ W("alias") \in {W(a) : a \in FieldAttributes}
        BY OneWord DEF FieldAttributes
    <2>5. Paired(flagged) /\ OnlyKnows(flagged, FieldAttributes)
        BY <1>4 DEF SaysOnly
    <2> DEFINE tl == Longer(flagged, W("alias"), d.alias)
    <2>6. Paired(tl) /\ tl[1] = flagged[1] /\ tl[2] = flagged[2]
        BY <1>1, <2>2, <2>5, PairedLonger, BeginsAsBefore
    <2>7. ValueOf(tl, "alias", <<>>) = d.alias /\ ValueOf(tl, "type", <<>>) = ValueOf(flagged, "type", <<>>)
        BY <1>1, <2>2, <2>3, <2>4, <2>5, ValueLonger
    <2>8. FlagsOf(tl) = FlagsOf(flagged) /\ OnlyKnows(tl, FieldAttributes)
        BY <1>1, <2>2, <2>3, <2>4, <2>5, FlagsLonger, KnownLonger
    <2> HIDE DEF tl
    <2>9. tl = PrintField(d)
        BY <2>1 DEF tl
    <2> QED BY <1>2, <1>4, <2>6, <2>7, <2>8, <2>9 DEF SaysOnly
<1> QED BY <1>5, <1>6

\* And so is read as it was.
LEMMA FieldReadsBack ==
    ASSUME NEW d \in FieldDeclaration
    PROVE  ParseField(PrintField(d), TRUE) = d
<1> DEFINE tl == PrintField(d)
<1>1. /\ Paired(tl) /\ OnlyKnows(tl, FieldAttributes)
      /\ tl[2] = d.name
      /\ ValueOf(tl, "type", <<>>) = TypeWord(d.type) /\ ValueOf(tl, "alias", <<>>) = d.alias
      /\ FlagsOf(tl) = FlagWords(d.is)
    BY FieldPrinted
<1> HIDE DEF tl
<1>2. d.type \in FieldTypes /\ d.is \in SUBSET Flags
    BY DEF FieldDeclaration
<1>3. ~(Len(tl) < 2)
    BY <1>1 DEF Paired
<1>4. FlagsOf(tl) \subseteq {W(f) : f \in Flags}
    BY <1>1, <1>2 DEF FlagWords
<1>5. {f \in Flags : W(f) \in FlagsOf(tl)} = d.is
    <2>1. ASSUME NEW f \in Flags PROVE W(f) \in FlagsOf(tl) <=> f \in d.is
        BY <1>1, OneWord DEF FlagWords
    <2> QED BY <1>2, <2>1
<1>6. Type(ValueOf(tl, "type", <<>>)) = d.type
    BY <1>1, <1>2, TypeReadsBack
<1>7. ParseField(tl, TRUE) =
          [kind |-> "field", name |-> d.name, type |-> d.type, is |-> d.is, alias |-> d.alias]
    BY <1>1, <1>3, <1>4, <1>5, <1>6 DEF ParseField, FieldAttributes
<1>8. d = [kind |-> "field", name |-> d.name, type |-> d.type, is |-> d.is, alias |-> d.alias]
    BY DEF FieldDeclaration
<1> QED BY <1>7, <1>8 DEF tl

TableAttributes == {"alias", "filebase"}

\* A table: both its attributes are printed, whether they were given or not.
LEMMA TablePrinted ==
    ASSUME NEW d \in TableDeclaration
    PROVE  LET tl == PrintTable(d) IN
           /\ Paired(tl) /\ OnlyKnows(tl, TableAttributes)
           /\ tl[1] = W("table") /\ tl[2] = d.name
           /\ \A default : ValueOf(tl, "alias", default) = d.alias /\ ValueOf(tl, "filebase", default) = d.filebase
<1> DEFINE two == <<W("table"), d.name>>
           four == Longer(two, W("alias"), d.alias)
           tl == PrintTable(d)
<1>1. d.name \in Word /\ d.alias \in Word /\ d.filebase \in Word
    BY DEF TableDeclaration
<1>2. W("table") \in Word /\ W("alias") \in Word /\ W("filebase") \in Word
    BY WordsOfOne DEF OwnPieces
<1>3. tl = Longer(four, W("filebase"), d.filebase)
    BY <1>1, <1>2 DEF PrintTable, Longer
<1>4. tl[1] = W("table") /\ tl[2] = d.name
    BY DEF PrintTable
<1>5. Paired(two) /\ OnlyKnows(two, TableAttributes)
    BY <1>1, <1>2, NoPairs
<1> HIDE DEF two, tl
<1>6. str_to_lwr(W("alias")) = W("alias") /\ str_to_lwr(W("filebase")) = W("filebase")
    BY LowerOfOne DEF Capitals
<1>7. /\ W("alias") # W("filebase") /\ W("alias") \in {W(a) : a \in TableAttributes}
      /\ W("filebase") \in {W(a) : a \in TableAttributes}
    BY OneWord DEF TableAttributes
<1>8. Paired(four) /\ OnlyKnows(four, TableAttributes)
    <2>1. Paired(four)
        BY <1>1, <1>2, <1>5, PairedLonger
    <2>2. OnlyKnows(four, TableAttributes)
        BY <1>1, <1>2, <1>5, <1>6, <1>7, KnownLonger
    <2> QED BY <2>1, <2>2
<1>9. \A default : ValueOf(four, "alias", default) = d.alias
    BY <1>1, <1>2, <1>5, <1>6, ValueLonger
<1> HIDE DEF four
<1>10. Paired(tl) /\ OnlyKnows(tl, TableAttributes)
    <2>1. Paired(tl)
        BY <1>1, <1>2, <1>3, <1>8, PairedLonger
    <2>2. OnlyKnows(tl, TableAttributes)
        BY <1>1, <1>2, <1>3, <1>6, <1>7, <1>8, KnownLonger
    <2> QED BY <2>1, <2>2
<1>11. \A default : ValueOf(tl, "alias", default) = d.alias /\ ValueOf(tl, "filebase", default) = d.filebase
    BY <1>1, <1>2, <1>3, <1>6, <1>7, <1>8, <1>9, ValueLonger
<1> QED BY <1>4, <1>10, <1>11 DEF tl

\* And so is read as it was.
LEMMA TableReadsBack ==
    ASSUME NEW d \in TableDeclaration
    PROVE  ParseTable(PrintTable(d), FALSE) = d
<1> DEFINE tl == PrintTable(d)
<1>1. /\ Paired(tl) /\ OnlyKnows(tl, TableAttributes)
      /\ tl[2] = d.name
      /\ ValueOf(tl, "alias", tl[2]) = d.alias /\ ValueOf(tl, "filebase", tl[2]) = d.filebase
    BY TablePrinted
<1> HIDE DEF tl
<1>2. ~(Len(tl) < 2)
    BY <1>1 DEF Paired
<1>3. ParseTable(tl, FALSE) = [kind |-> "table", name |-> d.name, alias |-> d.alias, filebase |-> d.filebase]
    BY <1>1, <1>2 DEF ParseTable, TableAttributes
<1>4. d = [kind |-> "table", name |-> d.name, alias |-> d.alias, filebase |-> d.filebase]
    BY DEF TableDeclaration
<1> QED BY <1>3, <1>4 DEF tl

\* An option: only a truth value is printed otherwise than it may have been given.
LEMMA OptionReadsBack ==
    ASSUME NEW d \in OptionDeclaration
    PROVE  ParseOption(PrintOption(d), FALSE) = d
<1> DEFINE tl == PrintOption(d)
<1>1. Len(tl) = 3 /\ tl[2] = d.name /\ tl[3] = d.value
    BY DEF PrintOption
<1> HIDE DEF tl
<1>2. d = [kind |-> "option", name |-> d.name, value |-> d.value]
    BY DEF OptionDeclaration
<1>3. /\ W("accessor_style") # W("exception_on_schema_mismatch")
      /\ W("header_extension") # W("accessor_style") /\ W("header_extension") # W("exception_on_schema_mismatch")
      /\ W("implementation_extension") # W("accessor_style")
      /\ W("implementation_extension") # W("exception_on_schema_mismatch")
    BY OneWord
<1>4. CASE d.name = W("accessor_style") /\ d.value \in AccessorStyles
    <2>1. ParseOption(tl, FALSE) = [kind |-> "option", name |-> d.name, value |-> d.value]
        <3>1. /\ d.name # W("exception_on_schema_mismatch")
              /\ d.name \notin {W("header_extension"), W("implementation_extension")}
            BY <1>3, <1>4
        <3> QED BY <1>1, <1>4, <3>1, Zenon DEF ParseOption
    <2> QED BY <1>2, <2>1 DEF tl
<1>5. CASE d.name = W("exception_on_schema_mismatch") /\ d.value \in {W("true"), W("false")}
    <2>1. str_to_lwr(W("true")) = W("true") /\ str_to_lwr(W("false")) = W("false")
        BY LowerOfOne DEF Capitals
    <2>2. W("true") \notin {W("0"), W("false"), W("no"), W("off")}
        BY OneWord
    <2>3. d.value = W(IF parse_bool(d.value) THEN "true" ELSE "false")
        BY <1>5, <2>1, <2>2 DEF parse_bool
    <2>4. d.name # W("accessor_style") /\ d.name \notin {W("header_extension"), W("implementation_extension")}
        BY <1>3, <1>5
    <2>5. ParseOption(tl, FALSE) =
              [kind |-> "option", name |-> tl[2], value |-> W(IF parse_bool(tl[3]) THEN "true" ELSE "false")]
        <3>1. tl[2] # W("accessor_style") /\ tl[2] \notin {W("header_extension"), W("implementation_extension")}
            BY <1>1, <2>4
        <3>2. tl[2] = W("exception_on_schema_mismatch")
            BY <1>1, <1>5
        <3> QED BY <1>1, <3>1, <3>2, Zenon DEF ParseOption
    <2> QED BY <1>1, <1>2, <2>3, <2>5 DEF tl
<1>6. CASE d.name \in {W("header_extension"), W("implementation_extension")}
    <2>1. d.name # W("accessor_style") /\ d.name # W("exception_on_schema_mismatch")
        BY <1>3, <1>6
    <2>2. ParseOption(tl, FALSE) = [kind |-> "option", name |-> d.name, value |-> d.value]
        BY <1>1, <1>6, <2>1 DEF ParseOption
    <2> QED BY <1>2, <2>2 DEF tl
<1> QED BY <1>4, <1>5, <1>6 DEF OptionDeclaration

-----------------------------------------------------------------------------
(***************************************************************************)
(* What parse() makes of a line.                                           *)
(***************************************************************************)
\* The value of an attribute is a word of the line.
LEMMA ValueIsWord ==
    ASSUME NEW tl \in Seq(Word), Len(tl) >= 2, NEW attr, NEW default \in Word
    PROVE  ValueOf(tl, attr, default) \in Word
<1> DEFINE m == (Len(tl) - 2) \div 2
<1>1. m \in Nat /\ 2 * m + 2 =< Len(tl) /\ DOMAIN Pairs(tl) = 1..m
    BY DEF Pairs
<1>2. ASSUME NEW k \in 1..m PROVE Pairs(tl)[k][2] \in Word
    <2>1. Pairs(tl)[k][2] = tl[2 * k + 2]
        BY DEF Pairs
    <2> HIDE DEF m
    <2>2. 2 * k + 2 \in 1..Len(tl)
        BY <1>1
    <2> QED BY <2>1, <2>2
<1> HIDE DEF m
<1>3. CASE Given(tl, attr) = {}
    BY <1>3 DEF ValueOf
<1>4. CASE Given(tl, attr) # {}
    <2>1. Given(tl, attr) \in SUBSET (1..m)
        BY <1>1 DEF Given
    <2>2. Max(Given(tl, attr)) \in 1..m
        BY <1>1, <1>4, <2>1, GreatestIn
    <2> QED BY <1>2, <1>4, <2>2 DEF ValueOf
<1> QED BY <1>3, <1>4

\* A table, or an error.
LEMMA TableParsed ==
    ASSUME NEW tl \in Seq(Word), NEW subdirective \in BOOLEAN, NEW d, d = ParseTable(tl, subdirective)
    PROVE  d.kind = "error" \/ (d \in TableDeclaration /\ ~subdirective)
<1>1. CASE Len(tl) < 2 \/ subdirective \/ ~OnlyKnows(tl, {"alias", "filebase"})
    BY <1>1 DEF ParseTable, Error
<1>2. CASE ~(Len(tl) < 2 \/ subdirective \/ ~OnlyKnows(tl, {"alias", "filebase"}))
    <2>1. Len(tl) >= 2 /\ tl[2] \in Word
        BY <1>2
    <2>2. ValueOf(tl, "alias", tl[2]) \in Word /\ ValueOf(tl, "filebase", tl[2]) \in Word
        BY <2>1, ValueIsWord
    <2>3. d = [kind |-> "table", name |-> tl[2], alias |-> ValueOf(tl, "alias", tl[2]),
               filebase |-> ValueOf(tl, "filebase", tl[2])]
        BY <1>2 DEF ParseTable
    <2> QED BY <1>2, <2>1, <2>2, <2>3 DEF TableDeclaration
<1> QED BY <1>1, <1>2

\* A field, or an error.
LEMMA FieldParsed ==
    ASSUME NEW tl \in Seq(Word), NEW subdirective \in BOOLEAN, NEW d, d = ParseField(tl, subdirective)
    PROVE  d.kind = "error" \/ (d \in FieldDeclaration /\ subdirective)
<1> DEFINE Refused == Len(tl) < 2 \/ ~subdirective \/ ~OnlyKnows(tl, {"alias", "is", "type"})
                      \/ ~(FlagsOf(tl) \subseteq {W(f) : f \in Flags})
<1>1. CASE Refused
    BY <1>1 DEF ParseField, Error
<1>2. CASE ~Refused
    <2>1. Len(tl) >= 2 /\ tl[2] \in Word /\ <<>> \in Word
        BY <1>2 DEF Word
    <2>2. ValueOf(tl, "alias", <<>>) \in Word /\ Type(ValueOf(tl, "type", <<>>)) \in FieldTypes
        BY <2>1, ValueIsWord, TypeIsOne
    <2>3. {f \in Flags : W(f) \in FlagsOf(tl)} \in SUBSET Flags
        OBVIOUS
    <2>4. d = [kind |-> "field", name |-> tl[2], type |-> Type(ValueOf(tl, "type", <<>>)),
               is |-> {f \in Flags : W(f) \in FlagsOf(tl)}, alias |-> ValueOf(tl, "alias", <<>>)]
        BY <1>2 DEF ParseField
    <2> QED BY <1>2, <2>1, <2>2, <2>3, <2>4 DEF FieldDeclaration
<1> QED BY <1>1, <1>2

\* A file to include, or an error.
LEMMA IncludeParsed ==
    ASSUME NEW tl \in Seq(Word), NEW subdirective \in BOOLEAN, NEW d, d = ParseInclude(tl, subdirective)
    PROVE  d.kind = "error" \/ (d.kind = "include" /\ d.path \in Word /\ ~subdirective)
BY DEF ParseInclude, Error

\* An option with one of its values.
LEMMA OptionIsOne ==
    ASSUME NEW name \in Word, NEW value \in Word,
           \/ name = W("accessor_style") /\ value \in AccessorStyles
           \/ name = W("exception_on_schema_mismatch") /\ value \in {W("true"), W("false")}
           \/ name \in {W("header_extension"), W("implementation_extension")}
    PROVE  [kind |-> "option", name |-> name, value |-> value] \in OptionDeclaration
BY DEF OptionDeclaration

\* An option, or an error.
LEMMA OptionParsed ==
    ASSUME NEW tl \in Seq(Word), NEW subdirective \in BOOLEAN, NEW d, d = ParseOption(tl, subdirective)
    PROVE  d.kind = "error" \/ (d \in OptionDeclaration /\ ~subdirective)
<1>1. CASE Len(tl) # 3 \/ subdirective
    BY <1>1 DEF ParseOption, Error
<1>2. CASE Len(tl) = 3 /\ ~subdirective
    <2>1. tl[2] \in Word /\ tl[3] \in Word
        BY <1>2
    <2>2. /\ W("accessor_style") # W("exception_on_schema_mismatch")
          /\ W("header_extension") # W("accessor_style") /\ W("header_extension") # W("exception_on_schema_mismatch")
          /\ W("implementation_extension") # W("accessor_style")
          /\ W("implementation_extension") # W("exception_on_schema_mismatch")
        BY OneWord
    <2>3. CASE tl[2] = W("accessor_style")
        <3>1. tl[2] # W("exception_on_schema_mismatch") /\ tl[2] \notin {W("header_extension"), W("implementation_extension")}
            BY <2>2, <2>3
        <3>2. d = IF tl[3] \in AccessorStyles THEN [kind |-> "option", name |-> tl[2], value |-> tl[3]] ELSE Error(FALSE)
            BY <1>2, <2>3, <3>1, Zenon DEF ParseOption
        <3>3. CASE tl[3] \in AccessorStyles
            BY <1>2, <2>1, <2>3, <3>2, <3>3, OptionIsOne
        <3>4. CASE tl[3] \notin AccessorStyles
            BY <3>2, <3>4 DEF Error
        <3> QED BY <3>3, <3>4
    <2>4. CASE tl[2] = W("exception_on_schema_mismatch")
        <3>1. tl[2] # W("accessor_style") /\ tl[2] \notin {W("header_extension"), W("implementation_extension")}
            BY <2>2, <2>4
        <3>2. d = [kind |-> "option", name |-> tl[2], value |-> W(IF parse_bool(tl[3]) THEN "true" ELSE "false")]
            BY <1>2, <2>4, <3>1, Zenon DEF ParseOption
        <3>3. W(IF parse_bool(tl[3]) THEN "true" ELSE "false") \in {W("true"), W("false")}
            OBVIOUS
        <3>4. W("true") \in Word /\ W("false") \in Word
            BY WordsOfOne DEF OwnPieces
        <3>5. PICK value \in {W("true"), W("false")} : d = [kind |-> "option", name |-> tl[2], value |-> value]
            BY <3>2, <3>3
        <3>6. value \in Word
            BY <3>4
        <3> QED BY <1>2, <2>1, <2>4, <3>5, <3>6, OptionIsOne
    <2>5. CASE tl[2] \in {W("header_extension"), W("implementation_extension")}
        <3>1. tl[2] # W("accessor_style") /\ tl[2] # W("exception_on_schema_mismatch")
            BY <2>2, <2>5
        <3>2. d = [kind |-> "option", name |-> tl[2], value |-> tl[3]]
            BY <1>2, <2>5, <3>1, Zenon DEF ParseOption
        <3> QED BY <1>2, <2>1, <2>5, <3>2, OptionIsOne
    <2>6. CASE /\ tl[2] # W("accessor_style") /\ tl[2] # W("exception_on_schema_mismatch")
               /\ tl[2] \notin {W("header_extension"), W("implementation_extension")}
        <3>1. d = Error(FALSE)
            BY <1>2, <2>6, Zenon DEF ParseOption
        <3> QED BY <3>1 DEF Error
    <2> QED BY <2>3, <2>4, <2>5, <2>6
<1> QED BY <1>1, <1>2

\* The four directives are different words.
LEMMA DirectivesDiffer ==
    /\ W("table") # W("field") /\ W("table") # W("include") /\ W("table") # W("option")
    /\ W("field") # W("include") /\ W("field") # W("option") /\ W("include") # W("option")
BY OneWord

\* parse() as alternatives.
ParsesAs(tl, subdirective, t, d) ==
    \/ str_to_lwr(tl[1]) = W("table") /\ d = ParseTable(tl, subdirective)
    \/ str_to_lwr(tl[1]) = W("field") /\ LastWasTable(tl, subdirective, t) /\ d = ParseField(tl, subdirective)
    \/ str_to_lwr(tl[1]) = W("include") /\ d = ParseInclude(tl, subdirective)
    \/ str_to_lwr(tl[1]) = W("option") /\ d = ParseOption(tl, subdirective)
    \/ d = Error(TRUE) \/ d = Error(FALSE)

\* They are exhaustive.
LEMMA ParseCases ==
    ASSUME NEW tl, NEW subdirective, NEW t
    PROVE  ParsesAs(tl, subdirective, t, Parse(tl, subdirective, t))
<1> DEFINE directive == str_to_lwr(tl[1])
           d == Parse(tl, subdirective, t)
<1> SUFFICES \/ str_to_lwr(tl[1]) = W("table") /\ d = ParseTable(tl, subdirective)
             \/ str_to_lwr(tl[1]) = W("field") /\ LastWasTable(tl, subdirective, t) /\ d = ParseField(tl, subdirective)
             \/ str_to_lwr(tl[1]) = W("include") /\ d = ParseInclude(tl, subdirective)
             \/ str_to_lwr(tl[1]) = W("option") /\ d = ParseOption(tl, subdirective)
             \/ d = Error(TRUE) \/ d = Error(FALSE)
    BY DEF ParsesAs
<1>1. CASE directive = W("table")
    <2>1. directive # W("field") /\ directive # W("include") /\ directive # W("option")
        BY <1>1, DirectivesDiffer
    <2> QED BY <1>1, <2>1, Zenon DEF Parse
<1>2. CASE directive = W("field")
    <2>1. directive # W("table") /\ directive # W("include") /\ directive # W("option")
        BY <1>2, DirectivesDiffer
    <2>2. Parse(tl, subdirective, t) = IF LastWasTable(tl, subdirective, t) THEN ParseField(tl, subdirective) ELSE Error(TRUE)
        BY <1>2, <2>1, Zenon DEF Parse
    <2> QED BY <1>2, <2>2, Zenon
<1>3. CASE directive = W("include")
    <2>1. directive # W("table") /\ directive # W("field") /\ directive # W("option")
        BY <1>3, DirectivesDiffer
    <2> QED BY <1>3, <2>1, Zenon DEF Parse
<1>4. CASE directive = W("option")
    <2>1. directive # W("table") /\ directive # W("field") /\ directive # W("include")
        BY <1>4, DirectivesDiffer
    <2> QED BY <1>4, <2>1, Zenon DEF Parse
<1>5. CASE directive # W("table") /\ directive # W("field") /\ directive # W("include") /\ directive # W("option")
    BY <1>5, Zenon DEF Parse
<1> QED BY <1>1, <1>2, <1>3, <1>4, <1>5

\* A line declares something, includes a file, or is refused; and it leaves a
\* table behind if it is one, or is a field behind one.
ParsedAs(d, t, after) ==
    \/ d.kind = "error"
    \/ d.kind = "include" /\ d.path \in Word /\ after = FALSE
    \/ d \in FieldDeclaration /\ t = TRUE /\ after = TRUE
    \/ d \in TableDeclaration /\ after = TRUE
    \/ d \in OptionDeclaration /\ after = FALSE

\* That is what parse() makes of any line.
LEMMA ParseDeclares ==
    ASSUME NEW tl \in Seq(Word), NEW subdirective \in BOOLEAN, NEW t \in BOOLEAN
    PROVE  ParsedAs(Parse(tl, subdirective, t), t, LastWasTable(tl, subdirective, t))
<1> DEFINE directive == str_to_lwr(tl[1])
           d == Parse(tl, subdirective, t)
           after == LastWasTable(tl, subdirective, t)
<1>0. ParsesAs(tl, subdirective, t, d)
    BY ParseCases
<1> HIDE DEF directive, d
<1> SUFFICES \/ d.kind = "error"
             \/ d.kind = "include" /\ d.path \in Word /\ after = FALSE
             \/ d \in FieldDeclaration /\ t = TRUE /\ after = TRUE
             \/ d \in TableDeclaration /\ after = TRUE
             \/ d \in OptionDeclaration /\ after = FALSE
    BY DEF ParsedAs, d
<1>1. CASE directive = W("table") /\ d = ParseTable(tl, subdirective)
    <2>1. d.kind = "error" \/ (d \in TableDeclaration /\ ~subdirective)
        BY <1>1, TableParsed
    <2>2. ~subdirective => after = TRUE
        BY <1>1 DEF LastWasTable, directive
    <2> QED BY <2>1, <2>2
<1>2. CASE directive = W("field") /\ after /\ d = ParseField(tl, subdirective)
    <2>1. d.kind = "error" \/ (d \in FieldDeclaration /\ subdirective)
        BY <1>2, FieldParsed
    <2>2. subdirective => after = t
        BY DEF LastWasTable
    <2> QED BY <1>2, <2>1, <2>2
<1>3. CASE directive = W("include") /\ d = ParseInclude(tl, subdirective)
    <2>1. d.kind = "error" \/ (d.kind = "include" /\ d.path \in Word /\ ~subdirective)
        BY <1>3, IncludeParsed
    <2>2. ~subdirective => after = FALSE
        BY <1>3, DirectivesDiffer DEF LastWasTable, directive
    <2> QED BY <2>1, <2>2
<1>4. CASE directive = W("option") /\ d = ParseOption(tl, subdirective)
    <2>1. d.kind = "error" \/ (d \in OptionDeclaration /\ ~subdirective)
        BY <1>4, OptionParsed
    <2>2. ~subdirective => after = FALSE
        BY <1>4, DirectivesDiffer DEF LastWasTable, directive
    <2> QED BY <2>1, <2>2
<1>5. CASE d = Error(TRUE) \/ d = Error(FALSE)
    BY <1>5 DEF Error
<1> QED BY <1>1, <1>2, <1>3, <1>4, <1>5, <1>0 DEF directive, ParsesAs

\* The three kinds of declarations.
LEMMA Kinds ==
    ASSUME NEW d
    PROVE  /\ d \in FieldDeclaration => d.kind = "field" /\ d \in Declaration
           /\ d \in TableDeclaration => d.kind = "table" /\ d \in Declaration
           /\ d \in OptionDeclaration => d.kind = "option" /\ d \in Declaration
BY DEF Declaration, FieldDeclaration, TableDeclaration, OptionDeclaration

\* What a declaration is written as declares it, where a field may stand; and
\* leaves behind what it would itself.
LEMMA ReadsBack ==
    ASSUME NEW d \in Declaration, NEW t \in BOOLEAN, d.kind = "field" => t
    PROVE  LET line == WrittenLine(d) IN
           /\ line \in Lines /\ line.words # <<>>
           /\ Parse(line.words, line.subdirective, t) = d
           /\ LastWasTable(line.words, line.subdirective, t) = (d.kind \in {"table", "field"})
<1> DEFINE tl == Printed(d)
           subdirective == d.kind = "field"
<1>1. WrittenLine(d).words = tl /\ WrittenLine(d).subdirective = subdirective
    BY DEF WrittenLine, Line
<1>2. SUFFICES /\ tl \in Seq(Word) /\ tl # <<>> /\ Parse(tl, subdirective, t) = d
               /\ LastWasTable(tl, subdirective, t) = (d.kind \in {"table", "field"})
    <2>1. WrittenLine(d) = [subdirective |-> subdirective, words |-> tl]
        BY DEF WrittenLine, Line
    <2> QED BY <1>1, <2>1 DEF Lines
<1>3. /\ str_to_lwr(W("table")) = W("table") /\ str_to_lwr(W("field")) = W("field")
      /\ str_to_lwr(W("option")) = W("option")
    BY LowerOfOne DEF Capitals
<1>4. CASE d \in FieldDeclaration
    <2>1. d.kind = "field" /\ tl = PrintField(d)
        BY <1>4, Kinds DEF Printed
    <2>2. Paired(tl) /\ tl[1] = W("field")
        BY <1>4, <2>1, FieldPrinted
    <2>3. LastWasTable(tl, TRUE, t) = TRUE
        BY <2>1 DEF LastWasTable
    <2>4. ParseField(tl, TRUE) = d
        BY <1>4, <2>1, FieldReadsBack
    <2>5. Parse(tl, TRUE, t) = ParseField(tl, TRUE)
        <3>1. /\ str_to_lwr(tl[1]) = W("field") /\ W("field") # W("table")
              /\ W("field") # W("include") /\ W("field") # W("option")
            BY <1>3, <2>2, DirectivesDiffer
        <3> QED BY <2>3, <3>1, Zenon DEF Parse
    <2>6. tl \in Seq(Word) /\ tl # <<>>
        BY <2>2 DEF Paired
    <2> QED BY <2>1, <2>3, <2>4, <2>5, <2>6
<1>5. CASE d \in TableDeclaration
    <2>1. d.kind = "table" /\ tl = PrintTable(d)
        BY <1>5, Kinds DEF Printed
    <2>2. Paired(tl) /\ tl[1] = W("table")
        BY <1>5, <2>1, TablePrinted
    <2>3. LastWasTable(tl, FALSE, t) = TRUE
        BY <1>3, <2>2 DEF LastWasTable
    <2>4. ParseTable(tl, FALSE) = d
        BY <1>5, <2>1, TableReadsBack
    <2>5. Parse(tl, FALSE, t) = ParseTable(tl, FALSE)
        <3>1. /\ str_to_lwr(tl[1]) = W("table") /\ W("table") # W("field")
              /\ W("table") # W("include") /\ W("table") # W("option")
            BY <1>3, <2>2, DirectivesDiffer
        <3> QED BY <3>1, Zenon DEF Parse
    <2>6. tl \in Seq(Word) /\ tl # <<>>
        BY <2>2 DEF Paired
    <2> QED BY <2>1, <2>3, <2>4, <2>5, <2>6
<1>6. CASE d \in OptionDeclaration
    <2>1. d.kind = "option" /\ tl = PrintOption(d)
        BY <1>6, Kinds DEF Printed
    <2>2. tl[1] = W("option") /\ tl # <<>>
        BY <2>1 DEF PrintOption
    <2>3. str_to_lwr(tl[1]) = W("option") /\ W("option") # W("table") /\ W("option") # W("field") /\ W("option") # W("include")
        BY <1>3, <2>2, DirectivesDiffer
    <2>4. LastWasTable(tl, FALSE, t) = FALSE
        BY <2>3 DEF LastWasTable
    <2>5. ParseOption(tl, FALSE) = d
        BY <1>6, <2>1, OptionReadsBack
    <2>6. Parse(tl, FALSE, t) = ParseOption(tl, FALSE)
        BY <2>3, Zenon DEF Parse
    <2>7. tl \in Seq(Word)
        <3>1. W("option") \in Word /\ d.name \in Word /\ d.value \in Word
            BY <1>6, WordsOfOne DEF OwnPieces, OptionDeclaration
        <3> QED BY <2>1, <3>1 DEF PrintOption
    <2>8. subdirective = FALSE /\ (d.kind \in {"table", "field"}) = FALSE
        BY <2>1
    <2> HIDE DEF tl, subdirective
    <2> QED BY <2>2, <2>4, <2>5, <2>6, <2>7, <2>8
<1> QED BY <1>4, <1>5, <1>6 DEF Declaration

-----------------------------------------------------------------------------
(***************************************************************************)
(* Fields under tables.                                                    *)
(***************************************************************************)
\* What stands in the first k lines does not depend on the others.
LEMMA UnderAsBefore ==
    ASSUME NEW s, NEW t, NEW k \in Nat, \A i \in 1..k : s[i] = t[i], UnderTable(s, k)
    PROVE  UnderTable(t, k)
BY DEF UnderTable

\* Lines keep their tables behind others.
LEMMA UnderBehind ==
    ASSUME NEW s \in Seq(Declaration), NEW t \in Seq(Declaration), NEW k \in 0..Len(t), UnderTable(t, k)
    PROVE  UnderTable(s \o t, Len(s) + k)
<1>1. PICK j \in 1..k : t[j].kind = "table" /\ \A i \in j + 1..k : t[i].kind = "field"
    BY DEF UnderTable
<1>2. \A i \in 1..Len(t) : (s \o t)[Len(s) + i] = t[i]
    OBVIOUS
<1>3. Len(s) + j \in 1..(Len(s) + k) /\ (s \o t)[Len(s) + j].kind = "table"
    BY <1>1, <1>2
<1>4. ASSUME NEW i \in Len(s) + j + 1..Len(s) + k PROVE (s \o t)[i].kind = "field"
    <2>1. i - Len(s) \in j + 1..k /\ i - Len(s) \in 1..Len(t) /\ i = Len(s) + (i - Len(s))
        BY <1>1
    <2>2. (s \o t)[i] = t[i - Len(s)]
        BY <1>2, <2>1
    <2> QED BY <1>1, <2>1, <2>2
<1> QED BY <1>3, <1>4 DEF UnderTable

\* Two lists of placed lines, one behind the other.
LEMMA PlacedBehind ==
    ASSUME NEW s \in Seq(Declaration), NEW t \in Seq(Declaration), Placed(s), Placed(t)
    PROVE  Placed(s \o t)
<1>1. SUFFICES ASSUME NEW k \in DOMAIN (s \o t), (s \o t)[k].kind = "field"
               PROVE  UnderTable(s \o t, k - 1)
    BY DEF Placed
<1>2. k \in 1..(Len(s) + Len(t))
    OBVIOUS
<1>3. CASE k =< Len(s)
    <2>1. \A i \in 1..k : (s \o t)[i] = s[i]
        BY <1>2, <1>3
    <2>2. k \in DOMAIN s /\ s[k].kind = "field"
        BY <1>1, <1>2, <1>3, <2>1
    <2>3. UnderTable(s, k - 1)
        BY <2>2 DEF Placed
    <2>4. k - 1 \in Nat /\ \A i \in 1..k - 1 : s[i] = (s \o t)[i]
        BY <1>2, <2>1
    <2> QED BY <2>3, <2>4, UnderAsBefore
<1>4. CASE k > Len(s)
    <2> DEFINE m == k - Len(s)
    <2>1. m \in 1..Len(t) /\ m - 1 \in 0..Len(t) /\ (s \o t)[k] = t[m]
        BY <1>2, <1>4
    <2>2. UnderTable(t, m - 1)
        BY <1>1, <2>1 DEF Placed
    <2>3. UnderTable(s \o t, Len(s) + (m - 1))
        BY <2>1, <2>2, UnderBehind
    <2>4. Len(s) + (m - 1) = k - 1
        BY <1>2
    <2> QED BY <2>3, <2>4
<1> QED BY <1>2, <1>3, <1>4

\* One line more: a field behind its table, or another.
LEMMA PlacedAppend ==
    ASSUME NEW s \in Seq(Declaration), Placed(s), NEW d \in Declaration,
           d.kind = "field" => UnderTable(s, Len(s))
    PROVE  /\ Placed(s \o <<d>>)
           /\ d.kind \in {"table", "field"} => UnderTable(s \o <<d>>, Len(s \o <<d>>))
<1> DEFINE more == s \o <<d>>
<1>1. /\ Len(more) = Len(s) + 1 /\ more[Len(s) + 1] = d
      /\ \A i \in 1..Len(s) : more[i] = s[i]
    OBVIOUS
<1>2. DOMAIN more = 1..(Len(s) + 1) /\ DOMAIN s = 1..Len(s) /\ Len(s) \in Nat
    OBVIOUS
<1> HIDE DEF more
<1>3. ASSUME NEW k \in 0..Len(s), UnderTable(s, k) PROVE UnderTable(more, k)
    BY <1>1, <1>3, UnderAsBefore
<1>4. ASSUME NEW k \in 1..(Len(s) + 1), more[k].kind = "field" PROVE UnderTable(more, k - 1)
    <2>1. CASE k = Len(s) + 1
        <3>1. UnderTable(s, Len(s)) /\ k - 1 = Len(s)
            BY <1>1, <1>2, <1>4, <2>1
        <3> QED BY <1>2, <1>3, <3>1
    <2>2. CASE k # Len(s) + 1
        <3>1. k \in 1..Len(s) /\ k - 1 \in 0..Len(s) /\ s[k].kind = "field"
            BY <1>1, <1>2, <1>4, <2>2
        <3>2. UnderTable(s, k - 1)
            BY <1>2, <3>1 DEF Placed
        <3> QED BY <1>3, <3>1, <3>2
    <2> QED BY <2>1, <2>2
<1>5. Placed(more)
    BY <1>2, <1>4 DEF Placed
<1>6. CASE d.kind = "table"
    <2> DEFINE n == Len(s) + 1
    <2>1. n \in 1..n /\ more[n].kind = "table" /\ \A i \in n + 1..n : more[i].kind = "field"
        BY <1>1, <1>2, <1>6
    <2> HIDE DEF n
    <2>2. UnderTable(more, n)
        BY <2>1 DEF UnderTable
    <2> QED BY <1>1, <1>5, <2>2 DEF n, more
<1>7. CASE d.kind = "field"
    <2>1. UnderTable(more, Len(s))
        BY <1>2, <1>3, <1>7
    <2>2. PICK j \in 1..Len(s) : more[j].kind = "table" /\ \A i \in j + 1..Len(s) : more[i].kind = "field"
        BY <2>1 DEF UnderTable
    <2>3. \A i \in j + 1..(Len(s) + 1) : more[i].kind = "field"
        BY <1>1, <1>2, <1>7, <2>2
    <2>4. j \in 1..(Len(s) + 1)
        BY <1>2
    <2>5. UnderTable(more, Len(s) + 1)
        BY <2>2, <2>3, <2>4 DEF UnderTable
    <2> QED BY <1>1, <1>5, <2>5 DEF more
<1> QED BY <1>5, <1>6, <1>7 DEF more

-----------------------------------------------------------------------------
(***************************************************************************)
(* The files being read, and where they are found.                         *)
(***************************************************************************)
Frames == [path : Tree \cup {Out}, line_number : Nat \ {0}, lines : Seq(Declaration)]

\* A set of numbers has a least.
LEMMA LeastIn ==
    ASSUME NEW S \in SUBSET Nat, S # {}
    PROVE  (CHOOSE i \in S : \A j \in S : i =< j) \in S
<1>1. PICK i \in S : \A j \in S : ~(<<j, i>> \in OpToRel(<, Nat))
    BY NatLessThanWellFounded, WFMin
<1>2. ASSUME NEW j \in S PROVE i =< j
    <2>1. i \in Nat /\ j \in Nat
        OBVIOUS
    <2>2. ~(j < i)
        BY <1>1, <2>1 DEF OpToRel
    <2> QED BY <2>1, <2>2
<1> QED BY <1>2

\* What is opened is a file there is.
LEMMA PlaceIsFile ==
    ASSUME NEW path, search_path \in Seq(Word), Found(path) # {}
    PROVE  Place(path) \in Tree
<1>1. Directories \in Seq(Word)
    <2>1. <<>> \in Word
        BY DEF Word
    <2>2. <<<<>>>> \in Seq(Word)
        BY <2>1
    <2> QED BY <2>2 DEF Directories
<1>2. Found(path) \in SUBSET Nat
    BY <1>1 DEF Found
<1> DEFINE i == CHOOSE i \in Found(path) : \A j \in Found(path) : i =< j
<1>3. i \in Found(path)
    BY <1>2, LeastIn
<1> HIDE DEF i
<1>4. Candidate(i, path) \in Tree
    BY <1>3 DEF Found
<1> QED BY <1>4 DEF Place, i

\* The search path stays one.
LEMMA LearnedPath ==
    ASSUME NEW path \in Word, search_path \in Seq(Word)
    PROVE  Learned(path) \in Seq(Word)
<1>1. SubSeq(path, 1, Len(path) - 1) \in Word
    BY DEF Word
<1> QED BY <1>1 DEF Learned

\* The innermost file is one of them, and another frame takes its place.
LEMMA TopReplaced ==
    ASSUME NEW s \in Seq(Frames), s # <<>>, NEW f \in Frames, NEW r, r = [s EXCEPT ![Len(s)] = f]
    PROVE  /\ r \in Seq(Frames) /\ Len(r) = Len(s) /\ r # <<>> /\ Last(r) = f
           /\ \A i \in DOMAIN r : i \in DOMAIN s /\ r[i] = IF i = Len(s) THEN f ELSE s[i]
<1>1. Len(s) \in 1..Len(s) /\ DOMAIN s = 1..Len(s)
    OBVIOUS
<1>2. r \in Seq(Frames) /\ Len(r) = Len(s)
    BY <1>1, ExceptSeq
<1>3. \A j \in 1..Len(s) : r[j] = IF j = Len(s) THEN f ELSE s[j]
    BY <1>1
<1>4. DOMAIN r = 1..Len(r) /\ r # <<>>
    BY <1>1, <1>2
<1> QED BY <1>1, <1>2, <1>3, <1>4 DEF Last

\* A step that replaces it.
LEMMA TopStep ==
    ASSUME stack \in Seq(Frames), stack # <<>>, NEW f \in Frames, stack' = [stack EXCEPT ![Len(stack)] = f]
    PROVE  /\ stack' \in Seq(Frames) /\ Len(stack') = Len(stack) /\ stack' # <<>> /\ Top' = f
           /\ \A i \in DOMAIN stack' : i \in DOMAIN stack /\ stack'[i] = IF i = Len(stack) THEN f ELSE stack[i]
<1> DEFINE s == stack
           r == stack'
<1>1. s \in Seq(Frames) /\ s # <<>> /\ r = [s EXCEPT ![Len(s)] = f]
    OBVIOUS
<1>2. Top' = Last(r)
    BY DEF Top
<1> HIDE DEF s, r
<1>3. /\ r \in Seq(Frames) /\ Len(r) = Len(s) /\ r # <<>> /\ Last(r) = f
      /\ \A i \in DOMAIN r : i \in DOMAIN s /\ r[i] = IF i = Len(s) THEN f ELSE s[i]
    BY <1>1, TopReplaced
<1> QED BY <1>2, <1>3 DEF s, r

\* It has a type.
LEMMA TopIsFrame ==
    ASSUME stack \in Seq(Frames), stack # <<>>
    PROVE  /\ Top \in Frames /\ Top = stack[Len(stack)] /\ Len(stack) \in DOMAIN stack /\ Len(stack) >= 1
           /\ Top.path \in Tree \cup {Out} /\ Top.line_number \in Nat \ {0} /\ Top.lines \in Seq(Declaration)
<1>1. Len(stack) \in 1..Len(stack) /\ DOMAIN stack = 1..Len(stack)
    OBVIOUS
<1>2. Top = stack[Len(stack)]
    BY DEF Top, Last
<1>3. Top \in Frames
    BY <1>1, <1>2
<1> QED BY <1>1, <1>2, <1>3 DEF Frames

\* A line counted, and what it declares.
LEMMA CountedIsFrame ==
    ASSUME NEW f \in Frames, NEW more \in Seq(Declaration)
    PROVE  /\ Counted(f, more) \in Frames /\ Counted(f, more).path = f.path
           /\ Counted(f, more).line_number = f.line_number + 1 /\ Counted(f, more).lines = f.lines \o more
BY DEF Counted, Frames

-----------------------------------------------------------------------------
(***************************************************************************)
(* What every step that reads a line has in common.                        *)
(***************************************************************************)
\* The line is one, and the output, once it is written, stays.
LEMMA LineRead ==
    ASSUME TypeOK, stack # <<>>, phase = "parsing", NEW line \in NextLines, Reads(line)
    PROVE  /\ line \in Lines
           /\ vocabulary' \in Vocabularies /\ text' \in [Tree \cup {Out} -> Seq(Lines)] /\ ended' = ended
           /\ Out \in ended => text'[Out] = text[Out]
<1>1. /\ vocabulary \in Vocabularies /\ text \in [Tree \cup {Out} -> Seq(Lines)]
      /\ Top.path \in Tree \cup {Out} /\ Top.line_number \in Nat \ {0}
    BY TopIsFrame DEF TypeOK, Frames
<1>2. text[Top.path] \in Seq(Lines)
    BY <1>1
<1>3. CASE Known
    <2>1. line = text[Top.path][Top.line_number]
        BY <1>3 DEF NextLines
    <2>2. Top.line_number \in 1..Len(text[Top.path])
        BY <1>1, <1>2, <1>3 DEF Known
    <2>3. line \in Lines
        BY <1>2, <2>1, <2>2
    <2> QED BY <1>1, <1>3, <2>3 DEF Reads
<1>4. CASE ~Known
    <2>1. Top.path \notin ended /\ line \in vocabulary.lines
        BY <1>4 DEF NextLines
    <2>2. line \in Lines
        BY <1>1, <2>1, VocabulariesAssumption
    <2>3. text' = [text EXCEPT ![Top.path] = Append(text[Top.path], line)]
        BY <1>4 DEF Reads
    <2>4. Append(text[Top.path], line) \in Seq(Lines)
        BY <1>2, <2>2
    <2> QED BY <1>1, <2>1, <2>2, <2>3, <2>4 DEF Reads
<1> QED BY <1>3, <1>4

\* OutputKnown stays, where the output and what it was written from stay.
LEMMA OutputKept ==
    ASSUME OutputKnown, pass' = pass, ~(phase' = "exited" /\ code' = 0),
           pass = 2 => parsed'[1] = parsed[1],
           Out \in ended => Out \in ended' /\ text'[Out] = text[Out]
    PROVE  OutputKnown' /\ (pass = 2 => (OutputFits' <=> OutputFits))
<1>1. CASE pass = 2
    <2>1. /\ Out \in ended /\ Len(text[Out]) =< Len(parsed[1])
          /\ \A i \in DOMAIN text[Out] : text[Out][i] = WrittenLine(parsed[1][i])
        BY <1>1 DEF OutputKnown
    <2>2. Out \in ended' /\ text'[Out] = text[Out] /\ parsed'[1] = parsed[1]
        BY <1>1, <2>1
    <2>3. OutputKnown'
        BY <2>1, <2>2 DEF OutputKnown
    <2>4. OutputFits' <=> OutputFits
        BY <2>2 DEF OutputFits, Fits
    <2> QED BY <2>3, <2>4
<1>2. CASE pass # 2
    BY <1>2 DEF OutputKnown
<1> QED BY <1>1, <1>2

\* The second run: the next line is the next one written.
LEMMA SecondLine ==
    ASSUME IInv, pass = 2, OutputFits, phase = "parsing", NEW line \in NextLines
    PROVE  \E k \in 0..(Len(text[Out]) - 1) :
               /\ stack = <<[path |-> Out, line_number |-> k + 1, lines |-> SubSeq(parsed[1], 1, k)]>>
               /\ k + 1 \in 1..Len(parsed[1]) /\ parsed[1][k + 1] \in Declaration
               /\ Fits(line) /\ line.words # <<>> /\ Declares(line) = parsed[1][k + 1]
               /\ LastWasTable(line.words, line.subdirective, table) = (parsed[1][k + 1].kind \in {"table", "field"})
<1>1. PICK k \in 0..Len(text[Out]) :
          /\ stack = <<[path |-> Out, line_number |-> k + 1, lines |-> SubSeq(parsed[1], 1, k)]>>
          /\ UnderTable(parsed[1], k) => table
    BY DEF IInv, SecondReads
<1>2. /\ Out \in ended /\ Len(text[Out]) =< Len(parsed[1])
      /\ \A i \in DOMAIN text[Out] : text[Out][i] = WrittenLine(parsed[1][i])
    BY DEF IInv, OutputKnown
<1>3. text[Out] \in Seq(Lines) /\ parsed[1] \in Seq(Declaration) /\ table \in BOOLEAN
    BY DEF IInv, TypeOK
<1>4. Top.path = Out /\ Top.line_number = k + 1
    BY <1>1 DEF Top, Last
<1>5. Known /\ line = text[Out][k + 1]
    BY <1>2, <1>4 DEF NextLines, Known
<1>6. k + 1 =< Len(text[Out])
    BY <1>4, <1>5 DEF Known
<1>7. k \in 0..(Len(text[Out]) - 1) /\ k + 1 \in DOMAIN text[Out] /\ k + 1 \in 1..Len(parsed[1])
    BY <1>2, <1>3, <1>6
<1> DEFINE d == parsed[1][k + 1]
<1>8. d \in Declaration
    BY <1>3, <1>7
<1>9. d.kind = "field" => table
    <2>1. Placed(parsed[1]) /\ k + 1 \in DOMAIN parsed[1]
        BY <1>3, <1>7 DEF IInv, FieldsPlaced
    <2>2. d.kind = "field" => UnderTable(parsed[1], (k + 1) - 1)
        BY <2>1 DEF Placed
    <2>3. (k + 1) - 1 = k
        OBVIOUS
    <2> QED BY <1>1, <2>2, <2>3
<1>10. line = WrittenLine(d)
    BY <1>2, <1>5, <1>7
<1> HIDE DEF d
<1>11. /\ line.words # <<>> /\ Parse(line.words, line.subdirective, table) = d
       /\ LastWasTable(line.words, line.subdirective, table) = (d.kind \in {"table", "field"})
    BY <1>3, <1>8, <1>9, <1>10, ReadsBack
<1>12. Fits(line)
    BY <1>5, <1>7 DEF OutputFits
<1> QED BY <1>1, <1>7, <1>8, <1>11, <1>12 DEF d, Declares

-----------------------------------------------------------------------------
(***************************************************************************)
(* The steps, one by one.                                                  *)
(***************************************************************************)
\* At first no file is read and none is written.
LEMMA InitInv ==
    ASSUME Init
    PROVE  IInv
<1>1. TypeOK
    <2>1. <<>> \in Seq(Lines) /\ <<>> \in Seq(Word) /\ <<>> \in Seq(Declaration) /\ <<>> \in Seq(Frames)
        OBVIOUS
    <2>2. text \in [Tree \cup {Out} -> Seq(Lines)]
        BY <2>1 DEF Init
    <2>3. parsed \in [1..2 -> Seq(Declaration)]
        <3>1. parsed = <<<<>>, <<>>>>
            BY DEF Init
        <3>2. ASSUME NEW S, NEW a \in S, NEW b \in S PROVE <<a, b>> \in [1..2 -> S]
            OBVIOUS
        <3> QED BY <2>1, <3>1, <3>2
    <2> QED BY <2>1, <2>2, <2>3 DEF Init, TypeOK, Frames
<1>2. FieldsPlaced
    <2>1. stack = <<>> /\ parsed[1] = <<>> /\ phase = "begun" /\ table = FALSE
        BY DEF Init
    <2> QED BY <2>1 DEF FieldsPlaced, Placed
<1>3. OutputKnown /\ SecondReads
    BY DEF Init, OutputKnown, SecondReads
<1> QED BY <1>1, <1>2, <1>3 DEF IInv

\* A program that ends at once.
LEMMA EndsAtOnce ==
    ASSUME IInv, phase \in {"begun", "parsed"}, NEW c \in {1, 2}, Exit(c), UNCHANGED <<files, reading, pass, parsed>>
    PROVE  IInv'
<1>1. UNCHANGED <<vocabulary, text, ended, search_path, stack, table, pass, parsed>> /\ phase' = "exited" /\ code' = c
    BY DEF Exit, files, reading
<1>2. TypeOK'
    BY <1>1 DEF IInv, TypeOK
<1>3. FieldsPlaced'
    BY <1>1 DEF IInv, FieldsPlaced
<1>4. OutputKnown' /\ (pass = 2 => (OutputFits' <=> OutputFits))
    BY <1>1, OutputKept DEF IInv
<1>5. SecondReads'
    BY <1>1, <1>4 DEF IInv, SecondReads
<1> QED BY <1>2, <1>3, <1>4, <1>5 DEF IInv

\* The first file is opened.
LEMMA BeginInv ==
    ASSUME IInv, Begin
    PROVE  IInv'
<1>1. /\ phase = "begun" /\ phase' = "parsing" /\ stack' = <<Frame(Main)>> /\ search_path' = Learned(Main)
      /\ UNCHANGED <<vocabulary, text, ended, table, pass, parsed, code>>
    BY DEF Begin, files
<1>2. Frame(Main) \in Frames /\ Frame(Main).lines = <<>>
    BY TranslatorAssumption DEF Frame, Frames
<1>3. TypeOK'
    <2>1. search_path' \in Seq(Word)
        <3>1. Main \in Word /\ search_path \in Seq(Word)
            BY TranslatorAssumption DEF IInv, TypeOK
        <3> QED BY <1>1, <3>1, LearnedPath
    <2>2. stack' \in Seq(Frames)
        BY <1>1, <1>2
    <2> QED BY <1>1, <2>1, <2>2 DEF IInv, TypeOK, Frames
<1>4. FieldsPlaced'
    <2>1. stack' # <<>> /\ DOMAIN stack' = {1} /\ stack'[1] = Frame(Main)
        BY <1>1
    <2>2. Placed(<<>>)
        BY DEF Placed
    <2>3. table' = FALSE /\ Placed(parsed'[1])
        BY <1>1 DEF IInv, FieldsPlaced, TypeOK
    <2> QED BY <1>1, <1>2, <2>1, <2>2, <2>3 DEF FieldsPlaced
<1>5. OutputKnown' /\ (pass = 2 => (OutputFits' <=> OutputFits))
    BY <1>1, OutputKept DEF IInv
<1>6. SecondReads'
    BY <1>1, <1>5 DEF IInv, SecondReads
<1> QED BY <1>3, <1>4, <1>5, <1>6 DEF IInv

\* An empty line is passed over; the second run meets none.
LEMMA SkipEmptyInv ==
    ASSUME IInv, SkipEmpty
    PROVE  IInv'
<1>1. PICK line \in NextLines :
          /\ line.words = <<>> /\ Reads(line)
          /\ stack' = [stack EXCEPT ![Len(stack)] = Counted(Top, <<>>)]
          /\ UNCHANGED <<search_path, table, phase, pass, parsed, code>>
    BY DEF SkipEmpty
<1>2. phase = "parsing" /\ stack # <<>> /\ stack \in Seq(Frames)
    BY <1>1 DEF NextLines, IInv, FieldsPlaced, TypeOK, Frames
<1>3. /\ vocabulary' \in Vocabularies /\ text' \in [Tree \cup {Out} -> Seq(Lines)] /\ ended' = ended
      /\ Out \in ended => text'[Out] = text[Out]
    BY <1>1, <1>2, LineRead DEF IInv
<1>4. /\ Top \in Frames /\ Top = stack[Len(stack)] /\ Len(stack) \in DOMAIN stack /\ Top.lines \in Seq(Declaration)
    BY <1>2, TopIsFrame
<1>5. Counted(Top, <<>>) \in Frames /\ Counted(Top, <<>>).lines = Top.lines
    <2>1. <<>> \in Seq(Declaration)
        OBVIOUS
    <2>2. Counted(Top, <<>>) \in Frames /\ Counted(Top, <<>>).lines = Top.lines \o <<>>
        BY <1>4, <2>1, CountedIsFrame
    <2>3. Top.lines \o <<>> = Top.lines
        BY <1>4
    <2> QED BY <2>2, <2>3
<1>6. /\ stack' \in Seq(Frames) /\ stack' # <<>> /\ Top' = Counted(Top, <<>>)
      /\ \A i \in DOMAIN stack' : i \in DOMAIN stack /\ stack'[i] = IF i = Len(stack) THEN Counted(Top, <<>>) ELSE stack[i]
    BY <1>1, <1>2, <1>5, TopStep
<1>7. TypeOK'
    BY <1>1, <1>3, <1>6 DEF IInv, TypeOK, Frames
<1>8. FieldsPlaced'
    <2>1. \A i \in DOMAIN stack' : stack'[i].lines = stack[i].lines /\ i \in DOMAIN stack
        BY <1>4, <1>5, <1>6
    <2>2. Top'.lines = Top.lines
        BY <1>5, <1>6
    <2> QED BY <1>1, <1>2, <1>6, <2>1, <2>2 DEF IInv, FieldsPlaced
<1>9. OutputKnown' /\ (pass = 2 => (OutputFits' <=> OutputFits))
    <2>1. pass' = pass /\ phase' # "exited" /\ parsed' = parsed
        BY <1>1, <1>2
    <2>2. Out \in ended => Out \in ended' /\ text'[Out] = text[Out]
        BY <1>3
    <2> QED BY <2>1, <2>2, OutputKept DEF IInv
<1>10. SecondReads'
    <2>1. ~(pass = 2 /\ OutputFits)
        BY <1>1, <1>2, SecondLine
    <2> QED BY <1>1, <1>9, <2>1 DEF SecondReads
<1> QED BY <1>7, <1>8, <1>9, <1>10 DEF IInv

\* A sequence of one frame is told by it.
LEMMA OneFrame ==
    ASSUME NEW s \in Seq(Frames), Len(s) = 1, NEW f \in Frames, s[1] = f
    PROVE  s = <<f>>
<1>1. <<f>> \in Seq(Frames) /\ Len(<<f>>) = 1 /\ <<f>>[1] = f
    OBVIOUS
<1>2. \A i \in 1..Len(s) : s[i] = <<f>>[i]
    BY <1>1
<1> QED BY <1>1, <1>2, SeqEqual

\* The second run takes a line: it is one further.
LEMMA SecondTake ==
    ASSUME IInv, pass = 2, OutputFits, phase = "parsing", NEW line \in NextLines,
           NEW d, d = Declares(line),
           stack' = [stack EXCEPT ![Len(stack)] = Counted(Top, <<d>>)],
           table' = LastWasTable(line.words, line.subdirective, table),
           text'[Out] = text[Out], parsed' = parsed
    PROVE  \E k \in 0..Len(text'[Out]) :
               /\ stack' = <<[path |-> Out, line_number |-> k + 1, lines |-> SubSeq(parsed'[1], 1, k)]>>
               /\ UnderTable(parsed'[1], k) => table'
<1>1. PICK k \in 0..(Len(text[Out]) - 1) :
          /\ stack = <<[path |-> Out, line_number |-> k + 1, lines |-> SubSeq(parsed[1], 1, k)]>>
          /\ k + 1 \in 1..Len(parsed[1]) /\ parsed[1][k + 1] \in Declaration
          /\ Declares(line) = parsed[1][k + 1]
          /\ LastWasTable(line.words, line.subdirective, table) = (parsed[1][k + 1].kind \in {"table", "field"})
    BY SecondLine
<1>2. stack \in Seq(Frames) /\ parsed[1] \in Seq(Declaration) /\ text[Out] \in Seq(Lines)
    BY DEF IInv, TypeOK, Frames
<1>3. Len(stack) = 1 /\ stack # <<>>
    BY <1>1
<1>4. /\ Top \in Frames /\ Top.path = Out /\ Top.line_number = k + 1 /\ Top.lines = SubSeq(parsed[1], 1, k)
    <2>1. Top = [path |-> Out, line_number |-> k + 1, lines |-> SubSeq(parsed[1], 1, k)]
        BY <1>1 DEF Top, Last
    <2>2. Top \in Frames
        BY <1>2, <1>3, TopIsFrame
    <2> QED BY <2>1, <2>2
<1>5. d \in Declaration /\ <<d>> \in Seq(Declaration) /\ d = parsed[1][k + 1]
    BY <1>1
<1>6. SubSeq(parsed[1], 1, k) \o <<d>> = SubSeq(parsed[1], 1, k + 1)
    <2>1. 1 \in 1..Len(parsed[1]) /\ k + 1 \in 1..Len(parsed[1]) /\ (k + 1) - 1 = k
        BY <1>1, <1>2
    <2>2. SubSeq(parsed[1], 1, k + 1) = SubSeq(parsed[1], 1, (k + 1) - 1) \o <<parsed[1][k + 1]>>
        BY <1>2, <2>1, SubSeqRecursiveSecond
    <2> QED BY <1>5, <2>1, <2>2
<1>7. Counted(Top, <<d>>) = [path |-> Out, line_number |-> (k + 1) + 1, lines |-> SubSeq(parsed[1], 1, k + 1)]
    BY <1>4, <1>6 DEF Counted
<1>8. Counted(Top, <<d>>) \in Frames
    BY <1>4, <1>5, CountedIsFrame
<1>9. stack' = <<Counted(Top, <<d>>)>>
    <2>1. stack' \in Seq(Frames) /\ Len(stack') = 1 /\ 1 \in DOMAIN stack'
        BY <1>2, <1>3, <1>8, TopStep
    <2>2. stack'[1] = Counted(Top, <<d>>)
        BY <1>2, <1>3, <1>8, <2>1, TopStep
    <2> QED BY <1>8, <2>1, <2>2, OneFrame
<1>10. k + 1 \in 0..Len(text'[Out])
    BY <1>2
<1>11. UnderTable(parsed[1], k + 1) => table'
    <2>1. ASSUME UnderTable(parsed[1], k + 1) PROVE parsed[1][k + 1].kind \in {"table", "field"}
        <3>1. PICK j \in 1..(k + 1) : /\ parsed[1][j].kind = "table"
                                     /\ \A i \in j + 1..(k + 1) : parsed[1][i].kind = "field"
            BY <2>1 DEF UnderTable
        <3>2. CASE j = k + 1
            BY <3>1, <3>2
        <3>3. CASE j # k + 1
            <4>1. k + 1 \in j + 1..(k + 1)
                BY <3>3
            <4> QED BY <3>1, <4>1
        <3> QED BY <3>2, <3>3
    <2> QED BY <1>1, <2>1
<1> QED BY <1>7, <1>9, <1>10, <1>11

\* A declaration is taken.
LEMMA TakeInv ==
    ASSUME IInv, NEW kind \in {"table", "field", "option"}, Take(kind)
    PROVE  IInv'
<1>1. PICK line \in Directives :
          /\ Declares(line).kind = kind /\ Reads(line)
          /\ stack' = [stack EXCEPT ![Len(stack)] = Counted(Top, <<Declares(line)>>)]
          /\ table' = LastWasTable(line.words, line.subdirective, table)
          /\ UNCHANGED <<search_path, phase, pass, parsed, code>>
    BY DEF Take
<1>2. line \in NextLines /\ phase = "parsing"
    BY DEF Directives, NextLines
<1>3. stack # <<>> /\ stack \in Seq(Frames) /\ table \in BOOLEAN
    BY <1>2 DEF IInv, FieldsPlaced, TypeOK, Frames
<1>4. /\ line \in Lines
      /\ vocabulary' \in Vocabularies /\ text' \in [Tree \cup {Out} -> Seq(Lines)] /\ ended' = ended
      /\ Out \in ended => text'[Out] = text[Out]
    BY <1>1, <1>2, <1>3, LineRead DEF IInv
<1> DEFINE d == Declares(line)
<1>5. line.words \in Seq(Word) /\ line.subdirective \in BOOLEAN
    BY <1>4 DEF Lines
<1>6. \/ d \in FieldDeclaration /\ table = TRUE /\ table' = TRUE
      \/ d \in TableDeclaration /\ table' = TRUE
      \/ d \in OptionDeclaration /\ table' = FALSE
    <2>1. d.kind # "error" /\ d.kind # "include"
        BY <1>1
    <2>2. ParsedAs(d, table, table')
        BY <1>1, <1>3, <1>5, ParseDeclares DEF Declares
    <2> QED BY <2>1, <2>2 DEF ParsedAs
<1>7. /\ d \in Declaration /\ table' \in BOOLEAN
      /\ d.kind = "field" => table = TRUE
      /\ table' => d.kind \in {"table", "field"}
    BY <1>6, Kinds
<1> HIDE DEF d
<1>8. /\ Top \in Frames /\ Top = stack[Len(stack)] /\ Len(stack) \in DOMAIN stack /\ Top.lines \in Seq(Declaration)
    BY <1>3, TopIsFrame
<1>9. Counted(Top, <<d>>) \in Frames /\ Counted(Top, <<d>>).lines = Top.lines \o <<d>>
    <2>1. <<d>> \in Seq(Declaration)
        BY <1>7
    <2> QED BY <1>8, <2>1, CountedIsFrame
<1>10. /\ stack' \in Seq(Frames) /\ stack' # <<>> /\ Top' = Counted(Top, <<d>>)
       /\ \A i \in DOMAIN stack' : i \in DOMAIN stack /\ stack'[i] = IF i = Len(stack) THEN Counted(Top, <<d>>) ELSE stack[i]
    BY <1>1, <1>3, <1>9, TopStep DEF d
<1>11. /\ Placed(Top.lines \o <<d>>)
       /\ d.kind \in {"table", "field"} => UnderTable(Top.lines \o <<d>>, Len(Top.lines \o <<d>>))
    <2>1. Placed(Top.lines) /\ (d.kind = "field" => UnderTable(Top.lines, Len(Top.lines)))
        BY <1>2, <1>7, <1>8 DEF IInv, FieldsPlaced
    <2> QED BY <1>7, <1>8, <2>1, PlacedAppend
<1>12. TypeOK'
    BY <1>1, <1>4, <1>7, <1>10 DEF IInv, TypeOK, Frames
<1>13. FieldsPlaced'
    <2>1. ASSUME NEW i \in DOMAIN stack' PROVE Placed(stack'[i].lines)
        <3>1. CASE i = Len(stack)
            BY <1>9, <1>10, <1>11, <3>1
        <3>2. CASE i # Len(stack)
            BY <1>10, <3>2 DEF IInv, FieldsPlaced
        <3> QED BY <3>1, <3>2
    <2>2. table' => UnderTable(Top'.lines, Len(Top'.lines))
        BY <1>7, <1>9, <1>10, <1>11
    <2>3. phase' = "parsing" /\ parsed' = parsed
        BY <1>1, <1>2
    <2> QED BY <1>10, <2>1, <2>2, <2>3 DEF IInv, FieldsPlaced
<1>14. OutputKnown' /\ (pass = 2 => (OutputFits' <=> OutputFits))
    <2>1. pass' = pass /\ phase' # "exited" /\ parsed' = parsed
        BY <1>1, <1>2
    <2>2. Out \in ended => Out \in ended' /\ text'[Out] = text[Out]
        BY <1>4
    <2> QED BY <2>1, <2>2, OutputKept DEF IInv
<1>15. SecondReads'
    <2>1. SUFFICES ASSUME pass = 2, OutputFits
                   PROVE  \E k \in 0..Len(text'[Out]) :
                              /\ stack' = <<[path |-> Out, line_number |-> k + 1, lines |-> SubSeq(parsed'[1], 1, k)]>>
                              /\ UnderTable(parsed'[1], k) => table'
        BY <1>1, <1>2, <1>14 DEF SecondReads
    <2>2. text'[Out] = text[Out]
        BY <1>4, <2>1 DEF IInv, OutputKnown
    <2> QED BY <1>1, <1>2, <2>1, <2>2, SecondTake
<1> QED BY <1>12, <1>13, <1>14, <1>15 DEF IInv

\* A file is included: it is read next, and behind its directive stands no table.
LEMMA TakeIncludeInv ==
    ASSUME IInv, TakeInclude
    PROVE  IInv'
<1> DEFINE Outer(top) == [stack EXCEPT ![Len(stack)] = top]
<1>1. PICK line \in Directives :
          /\ Declares(line).kind = "include" /\ CanOpen(Declares(line).path) /\ Reads(line)
          /\ stack' = Append(Outer(Counted(Top, <<>>)), Frame(Place(Declares(line).path)))
          /\ search_path' = Learned(Declares(line).path)
          /\ table' = LastWasTable(line.words, line.subdirective, table)
          /\ UNCHANGED <<phase, pass, parsed, code>>
    BY DEF TakeInclude
<1>2. line \in NextLines /\ phase = "parsing"
    BY DEF Directives, NextLines
<1>3. stack # <<>> /\ stack \in Seq(Frames) /\ table \in BOOLEAN /\ search_path \in Seq(Word)
    BY <1>2 DEF IInv, FieldsPlaced, TypeOK, Frames
<1>4. /\ line \in Lines
      /\ vocabulary' \in Vocabularies /\ text' \in [Tree \cup {Out} -> Seq(Lines)] /\ ended' = ended
      /\ Out \in ended => text'[Out] = text[Out]
    BY <1>1, <1>2, <1>3, LineRead DEF IInv
<1> DEFINE d == Declares(line)
           new == Frame(Place(d.path))
           outer == Outer(Counted(Top, <<>>))
<1>5. line.words \in Seq(Word) /\ line.subdirective \in BOOLEAN
    BY <1>4 DEF Lines
<1>6. d.path \in Word /\ table' = FALSE
    <2>1. ParsedAs(d, table, table')
        BY <1>1, <1>3, <1>5, ParseDeclares DEF Declares
    <2>2. d.kind = "include"
        BY <1>1
    <2> HIDE DEF d
    <2> QED BY <2>1, <2>2, Kinds DEF ParsedAs
<1>7. search_path' \in Seq(Word) /\ Place(d.path) \in Tree
    <2>1. Found(d.path) # {}
        BY <1>1 DEF CanOpen
    <2> HIDE DEF d
    <2>2. search_path' = Learned(d.path)
        BY <1>1 DEF d
    <2> QED BY <1>3, <1>6, <2>1, <2>2, LearnedPath, PlaceIsFile
<1>8. new \in Frames /\ new.lines = <<>>
    BY <1>7 DEF Frame, Frames
<1>9. /\ Top \in Frames /\ Top = stack[Len(stack)] /\ Len(stack) \in DOMAIN stack /\ Top.lines \in Seq(Declaration)
    BY <1>3, TopIsFrame
<1>10. Counted(Top, <<>>) \in Frames /\ Counted(Top, <<>>).lines = Top.lines
    <2>1. <<>> \in Seq(Declaration)
        OBVIOUS
    <2>2. Counted(Top, <<>>) \in Frames /\ Counted(Top, <<>>).lines = Top.lines \o <<>>
        BY <1>9, <2>1, CountedIsFrame
    <2>3. Top.lines \o <<>> = Top.lines
        BY <1>9
    <2> QED BY <2>2, <2>3
<1>11. /\ outer \in Seq(Frames)
       /\ \A i \in DOMAIN outer : i \in DOMAIN stack /\ outer[i].lines = stack[i].lines
    <2> DEFINE f == Counted(Top, <<>>)
               s == stack
               r == outer
    <2>1. s \in Seq(Frames) /\ s # <<>> /\ f \in Frames /\ r = [s EXCEPT ![Len(s)] = f] /\ f.lines = s[Len(s)].lines
        BY <1>3, <1>9, <1>10
    <2> HIDE DEF f, s, r
    <2>2. /\ r \in Seq(Frames)
          /\ \A i \in DOMAIN r : i \in DOMAIN s /\ r[i] = IF i = Len(s) THEN f ELSE s[i]
        BY <2>1, TopReplaced
    <2>3. \A i \in DOMAIN r : i \in DOMAIN s /\ r[i].lines = s[i].lines
        BY <2>1, <2>2
    <2> QED BY <2>2, <2>3 DEF s, r
<1> HIDE DEF d, new, outer
<1>12. stack' = Append(outer, new)
    BY <1>1 DEF d, new, outer
<1>13. /\ stack' \in Seq(Frames) /\ stack' # <<>> /\ Top' = new
       /\ \A i \in DOMAIN stack' : stack'[i] = new \/ (i \in DOMAIN outer /\ stack'[i] = outer[i])
    <2>1. /\ Append(outer, new) \in Seq(Frames) /\ Append(outer, new) # <<>>
          /\ Len(Append(outer, new)) = Len(outer) + 1 /\ Append(outer, new)[Len(outer) + 1] = new
          /\ \A i \in 1..Len(outer) : Append(outer, new)[i] = outer[i]
        BY <1>8, <1>11
    <2>2. DOMAIN Append(outer, new) = 1..(Len(outer) + 1) /\ DOMAIN outer = 1..Len(outer) /\ Len(outer) \in Nat
        BY <1>8, <1>11
    <2>3. Top' = Append(outer, new)[Len(Append(outer, new))]
        BY <1>12 DEF Top, Last
    <2>4. \A i \in 1..(Len(outer) + 1) : i \in 1..Len(outer) \/ i = Len(outer) + 1
        BY <2>2
    <2> QED BY <1>12, <2>1, <2>2, <2>3, <2>4
<1>14. TypeOK'
    BY <1>1, <1>4, <1>6, <1>7, <1>13 DEF IInv, TypeOK, Frames
<1>15. FieldsPlaced'
    <2>1. Placed(<<>>)
        BY DEF Placed
    <2>2. ASSUME NEW i \in DOMAIN stack' PROVE Placed(stack'[i].lines)
        <3>1. CASE stack'[i] = new
            BY <1>8, <2>1, <3>1
        <3>2. CASE i \in DOMAIN outer /\ stack'[i] = outer[i]
            BY <1>11, <3>2 DEF IInv, FieldsPlaced
        <3> QED BY <1>13, <3>1, <3>2
    <2>3. phase' = "parsing" /\ parsed' = parsed
        BY <1>1, <1>2
    <2> QED BY <1>6, <1>13, <2>2, <2>3 DEF IInv, FieldsPlaced
<1>16. OutputKnown' /\ (pass = 2 => (OutputFits' <=> OutputFits))
    <2>1. pass' = pass /\ phase' # "exited" /\ parsed' = parsed
        BY <1>1, <1>2
    <2>2. Out \in ended => Out \in ended' /\ text'[Out] = text[Out]
        BY <1>4
    <2> QED BY <2>1, <2>2, OutputKept DEF IInv
<1>17. SecondReads'
    <2>1. ASSUME pass = 2, OutputFits PROVE FALSE
        <3>1. d \in Declaration
            BY <1>2, <2>1, SecondLine DEF d
        <3>2. d.kind = "include"
            BY <1>1 DEF d
        <3> QED BY <3>1, <3>2, Kinds DEF Declaration
    <2> QED BY <1>1, <1>16, <2>1 DEF SecondReads
<1> QED BY <1>14, <1>15, <1>16, <1>17 DEF IInv

\* A line is refused, and the program ends; the second run refuses none.
LEMMA RefuseInv ==
    ASSUME IInv, Refuse
    PROVE  IInv'
<1>1. PICK line \in Directives :
          /\ Reads(line)
          /\ Declares(line).kind \in {"error", "include"}
          /\ phase' = "exited" /\ code' = 2 /\ stack' = <<>>
          /\ UNCHANGED <<search_path, table, pass, parsed>>
    BY DEF Refuse, Exit
<1>2. line \in NextLines /\ phase = "parsing"
    BY DEF Directives, NextLines
<1>3. stack # <<>> /\ stack \in Seq(Frames)
    BY <1>2 DEF IInv, FieldsPlaced, TypeOK, Frames
<1>4. /\ vocabulary' \in Vocabularies /\ text' \in [Tree \cup {Out} -> Seq(Lines)] /\ ended' = ended
      /\ Out \in ended => text'[Out] = text[Out]
    BY <1>1, <1>2, <1>3, LineRead DEF IInv
<1>5. TypeOK'
    <2>1. stack' \in Seq(Frames)
        BY <1>1
    <2> QED BY <1>1, <1>4, <2>1 DEF IInv, TypeOK, Frames
<1>6. FieldsPlaced'
    <2>1. DOMAIN stack' = {}
        BY <1>1
    <2> QED BY <1>1, <2>1 DEF IInv, FieldsPlaced
<1>7. OutputKnown' /\ (pass = 2 => (OutputFits' <=> OutputFits))
    <2>1. pass' = pass /\ code' # 0 /\ parsed' = parsed
        BY <1>1
    <2>2. Out \in ended => Out \in ended' /\ text'[Out] = text[Out]
        BY <1>4
    <2> QED BY <2>1, <2>2, OutputKept DEF IInv
<1>8. SecondReads'
    <2>1. ASSUME pass = 2, OutputFits PROVE FALSE
        <3>1. Declares(line) \in Declaration
            BY <1>2, <2>1, SecondLine
        <3> QED BY <1>1, <3>1, Kinds DEF Declaration
    <2> QED BY <1>1, <1>7, <2>1 DEF SecondReads
<1> QED BY <1>5, <1>6, <1>7, <1>8 DEF IInv

\* The files being read when the innermost has ended.
Hoists(r, s, lines) == r = [Front(s) EXCEPT ![Len(s) - 1] = Hoist(s[Len(s) - 1], lines)]

\* The lines of an included file stand behind the ones before its directive.
LEMMA Hoisted ==
    ASSUME NEW s \in Seq(Frames), Len(s) > 1, NEW lines \in Seq(Declaration), lines = s[Len(s)].lines,
           \A i \in DOMAIN s : Placed(s[i].lines),
           NEW r, Hoists(r, s, lines)
    PROVE  /\ r \in Seq(Frames) /\ r # <<>> /\ \A i \in DOMAIN r : Placed(r[i].lines)
           /\ UnderTable(lines, Len(lines)) => UnderTable(Last(r).lines, Len(Last(r).lines))
<1> DEFINE front == Front(s)
           outer == s[Len(s) - 1]
           f == Hoist(outer, lines)
<1>1. Len(s) - 1 \in 1..Len(s) /\ Len(s) \in 1..Len(s) /\ DOMAIN s = 1..Len(s)
    OBVIOUS
<1>2. outer \in Frames /\ outer.lines \in Seq(Declaration) /\ Placed(outer.lines) /\ Placed(lines)
    <2>1. s[Len(s) - 1] \in Frames /\ Placed(s[Len(s) - 1].lines) /\ Placed(s[Len(s)].lines)
        BY <1>1
    <2> QED BY <2>1 DEF Frames
<1>3. f \in Frames /\ f.lines = outer.lines \o lines
    <2> HIDE DEF outer
    <2>1. outer.lines \o lines \in Seq(Declaration)
        BY <1>2
    <2> QED BY <1>2, <2>1 DEF Hoist, Frames
<1>4. /\ front \in Seq(Frames) /\ Len(front) = Len(s) - 1
      /\ \A i \in 1..Len(s) - 1 : front[i] = s[i]
    BY <1>1 DEF Front
<1>5. front # <<>> /\ r = [front EXCEPT ![Len(front)] = f]
    BY <1>1, <1>4 DEF Hoists
<1> HIDE DEF front, outer, f
<1>6. /\ r \in Seq(Frames) /\ r # <<>> /\ Last(r) = f
      /\ \A i \in DOMAIN r : i \in DOMAIN front /\ r[i] = IF i = Len(front) THEN f ELSE front[i]
    BY <1>3, <1>4, <1>5, TopReplaced
<1>7. Placed(f.lines)
    BY <1>2, <1>3, PlacedBehind
<1>8. ASSUME NEW i \in DOMAIN r PROVE Placed(r[i].lines)
    <2>1. CASE i = Len(front)
        BY <1>6, <1>7, <2>1
    <2>2. CASE i # Len(front)
        <3>1. i \in DOMAIN front /\ r[i] = front[i]
            BY <1>6, <2>2
        <3>2. i \in 1..Len(s) - 1
            BY <1>4, <3>1
        <3> QED BY <1>1, <1>4, <3>1, <3>2
    <2> QED BY <2>1, <2>2
<1>9. ASSUME UnderTable(lines, Len(lines)) PROVE UnderTable(f.lines, Len(f.lines))
    <2>1. UnderTable(outer.lines \o lines, Len(outer.lines) + Len(lines))
        <3>1. Len(lines) \in 0..Len(lines)
            OBVIOUS
        <3> QED BY <1>2, <1>9, <3>1, UnderBehind
    <2>2. Len(outer.lines \o lines) = Len(outer.lines) + Len(lines)
        BY <1>2
    <2> QED BY <1>3, <2>1, <2>2
<1> QED BY <1>6, <1>8, <1>9

\* The end of a file: its lines are handed on, or the parse is over.
LEMMA CloseInv ==
    ASSUME IInv, phase = "parsing", Close, table' = table
    PROVE  /\ stack' \in Seq(Frames) /\ phase' \in {"parsing", "parsed"} /\ parsed' \in [1..2 -> Seq(Declaration)]
           /\ FieldsPlaced' /\ (pass = 2 => parsed'[1] = parsed[1])
<1>1. /\ stack # <<>> /\ stack \in Seq(Frames) /\ parsed \in [1..2 -> Seq(Declaration)] /\ pass \in {1, 2}
      /\ \A i \in DOMAIN stack : Placed(stack[i].lines)
      /\ Placed(parsed[1]) /\ (table => UnderTable(Top.lines, Len(Top.lines)))
    BY DEF IInv, FieldsPlaced, TypeOK, Frames
<1>2. /\ Top = stack[Len(stack)] /\ Len(stack) \in DOMAIN stack /\ Len(stack) >= 1 /\ Top.lines \in Seq(Declaration)
    BY <1>1, TopIsFrame
<1>3. CASE Len(stack) > 1
    <2> DEFINE s == stack
               lines == Top.lines
               r == stack'
    <2>1. /\ s \in Seq(Frames) /\ Len(s) > 1 /\ lines \in Seq(Declaration) /\ lines = s[Len(s)].lines
          /\ \A i \in DOMAIN s : Placed(s[i].lines)
          /\ Hoists(r, s, lines)
        BY <1>1, <1>2, <1>3 DEF Close, Hoists
    <2>2. phase' = phase /\ parsed' = parsed
        BY <1>3 DEF Close
    <2>3. Top' = Last(r)
        BY DEF Top
    <2> HIDE DEF s, lines, r
    <2>4. /\ r \in Seq(Frames) /\ r # <<>> /\ \A i \in DOMAIN r : Placed(r[i].lines)
          /\ UnderTable(lines, Len(lines)) => UnderTable(Last(r).lines, Len(Last(r).lines))
        BY <2>1, Hoisted
    <2>5. table' => UnderTable(Top'.lines, Len(Top'.lines))
        BY <1>1, <2>3, <2>4 DEF lines
    <2>6. stack' \in Seq(Frames) /\ stack' # <<>> /\ \A i \in DOMAIN stack' : Placed(stack'[i].lines)
        BY <2>4 DEF r
    <2> QED BY <1>1, <2>2, <2>5, <2>6 DEF FieldsPlaced
<1>4. CASE ~(Len(stack) > 1)
    <2>1. stack' = <<>> /\ phase' = "parsed" /\ parsed' = [parsed EXCEPT ![pass] = Top.lines]
        BY <1>4 DEF Close
    <2>2. parsed' \in [1..2 -> Seq(Declaration)] /\ (pass = 2 => parsed'[1] = parsed[1])
        BY <1>1, <1>2, <2>1
    <2>3. Placed(parsed'[1])
        <3>1. CASE pass = 1
            <4>1. parsed'[1] = Top.lines
                BY <1>1, <2>1, <3>1
            <4> QED BY <1>1, <1>2, <4>1
        <3>2. CASE pass = 2
            BY <1>1, <2>2, <3>2
        <3> QED BY <1>1, <3>1, <3>2
    <2>4. stack' \in Seq(Frames) /\ DOMAIN stack' = {}
        BY <2>1
    <2> QED BY <2>1, <2>2, <2>3, <2>4 DEF FieldsPlaced
<1> QED BY <1>3, <1>4

\* A file ends; the second run is then through with all that was written.
LEMMA EndOfFileInv ==
    ASSUME IInv, EndOfFile
    PROVE  IInv'
<1>1. /\ phase = "parsing" /\ ~Known /\ Close
      /\ ended' = ended \cup {Top.path}
      /\ UNCHANGED <<vocabulary, text, search_path, table, pass, code>>
    BY DEF EndOfFile
<1>2. /\ stack' \in Seq(Frames) /\ phase' \in {"parsing", "parsed"} /\ parsed' \in [1..2 -> Seq(Declaration)]
      /\ FieldsPlaced' /\ (pass = 2 => parsed'[1] = parsed[1])
    BY <1>1, CloseInv
<1>3. TypeOK'
    BY <1>1, <1>2 DEF IInv, TypeOK, Frames
<1>4. OutputKnown' /\ (pass = 2 => (OutputFits' <=> OutputFits))
    <2>1. pass' = pass /\ phase' # "exited"
        BY <1>1, <1>2
    <2>2. Out \in ended => Out \in ended' /\ text'[Out] = text[Out]
        BY <1>1
    <2> QED BY <1>2, <2>1, <2>2, OutputKept DEF IInv
<1>5. SecondReads'
    <2>1. SUFFICES ASSUME pass = 2, OutputFits
                   PROVE  phase' = "parsed" /\ parsed'[2] = SubSeq(parsed'[1], 1, Len(text'[Out]))
        BY <1>1, <1>4 DEF SecondReads
    <2>2. PICK k \in 0..Len(text[Out]) :
              stack = <<[path |-> Out, line_number |-> k + 1, lines |-> SubSeq(parsed[1], 1, k)]>>
        BY <1>1, <2>1 DEF IInv, SecondReads
    <2>3. text[Out] \in Seq(Lines) /\ parsed \in [1..2 -> Seq(Declaration)]
        BY DEF IInv, TypeOK
    <2>4. Top = [path |-> Out, line_number |-> k + 1, lines |-> SubSeq(parsed[1], 1, k)] /\ Len(stack) = 1
        BY <2>2 DEF Top, Last
    <2>5. k = Len(text[Out])
        BY <1>1, <2>3, <2>4 DEF Known
    <2>6. phase' = "parsed" /\ parsed' = [parsed EXCEPT ![2] = SubSeq(parsed[1], 1, k)]
        BY <1>1, <2>1, <2>4 DEF Close
    <2> QED BY <1>1, <2>3, <2>5, <2>6
<1> QED BY <1>2, <1>3, <1>4, <1>5 DEF IInv

\* A line too long ends its file; in the second run all fit.
LEMMA LineTooLongInv ==
    ASSUME IInv, LineTooLong
    PROVE  IInv'
<1>1. PICK line \in NextLines :
          /\ ~Fits(line) /\ Reads(line) /\ Close
          /\ UNCHANGED <<search_path, table, pass, code>>
    BY DEF LineTooLong
<1>2. phase = "parsing"
    BY DEF NextLines
<1>3. stack # <<>>
    BY <1>2 DEF IInv, FieldsPlaced
<1>4. /\ vocabulary' \in Vocabularies /\ text' \in [Tree \cup {Out} -> Seq(Lines)] /\ ended' = ended
      /\ Out \in ended => text'[Out] = text[Out]
    BY <1>1, <1>2, <1>3, LineRead DEF IInv
<1>5. /\ stack' \in Seq(Frames) /\ phase' \in {"parsing", "parsed"} /\ parsed' \in [1..2 -> Seq(Declaration)]
      /\ FieldsPlaced' /\ (pass = 2 => parsed'[1] = parsed[1])
    BY <1>1, <1>2, CloseInv
<1>6. TypeOK'
    BY <1>1, <1>4, <1>5 DEF IInv, TypeOK, Frames
<1>7. OutputKnown' /\ (pass = 2 => (OutputFits' <=> OutputFits))
    <2>1. pass' = pass /\ phase' # "exited"
        BY <1>1, <1>5
    <2>2. Out \in ended => Out \in ended' /\ text'[Out] = text[Out]
        BY <1>4
    <2> QED BY <1>5, <2>1, <2>2, OutputKept DEF IInv
<1>8. SecondReads'
    <2>1. ~(pass = 2 /\ OutputFits)
        BY <1>1, <1>2, SecondLine
    <2> QED BY <1>1, <1>7, <2>1 DEF SecondReads
<1> QED BY <1>5, <1>6, <1>7, <1>8 DEF IInv

\* The output is a beginning of what was parsed, a line for each.
LEMMA WriteInv ==
    ASSUME IInv, Write
    PROVE  IInv'
<1>1. /\ phase = "parsed" /\ pass = 1 /\ phase' = "exited" /\ code' = 0 /\ ended' = ended \cup {Out}
      /\ UNCHANGED <<vocabulary, search_path, stack, table, pass, parsed>>
    BY DEF Write, Exit, reading
<1>2. PICK n \in 0..Len(parsed[1]) :
          text' = [text EXCEPT ![Out] = [i \in 1..n |-> WrittenLine(parsed[1][i])]]
    BY DEF Write
<1>3. parsed[1] \in Seq(Declaration) /\ text \in [Tree \cup {Out} -> Seq(Lines)]
    BY DEF IInv, TypeOK
<1> DEFINE written == [i \in 1..n |-> WrittenLine(parsed[1][i])]
<1>4. ASSUME NEW i \in 1..n PROVE WrittenLine(parsed[1][i]) \in Lines
    <2>1. parsed[1][i] \in Declaration
        BY <1>3
    <2> QED BY <2>1, ReadsBack
<1>5. n \in Nat /\ written \in [1..n -> Lines]
    BY <1>3, <1>4
<1>6. written \in Seq(Lines) /\ Len(written) = n /\ \A i \in 1..n : written[i] = WrittenLine(parsed[1][i])
    BY <1>5
<1> HIDE DEF written
<1>7. text' \in [Tree \cup {Out} -> Seq(Lines)] /\ text'[Out] = written
    BY <1>2, <1>3, <1>6 DEF written
<1>8. TypeOK'
    BY <1>1, <1>7 DEF IInv, TypeOK
<1>9. FieldsPlaced'
    BY <1>1 DEF IInv, FieldsPlaced
<1>10. OutputKnown'
    <2>1. DOMAIN written = 1..n
        BY <1>6
    <2> QED BY <1>1, <1>3, <1>6, <1>7, <2>1 DEF OutputKnown
<1>11. SecondReads'
    BY <1>1 DEF SecondReads
<1> QED BY <1>8, <1>9, <1>10, <1>11 DEF IInv

\* The second run begins in front of the output.
LEMMA AgainInv ==
    ASSUME IInv, Again
    PROVE  IInv'
<1>1. /\ phase = "exited" /\ code = 0 /\ pass = 1
      /\ pass' = 2 /\ phase' = "parsing" /\ code' = none
      /\ stack' = <<Frame(Out)>> /\ search_path' = <<>> /\ table' = FALSE
      /\ UNCHANGED <<vocabulary, text, ended, parsed>>
    BY DEF Again, files
<1>2. Frame(Out) = [path |-> Out, line_number |-> 1, lines |-> <<>>] /\ Frame(Out) \in Frames
    BY DEF Frame, Frames
<1>3. TypeOK'
    <2>1. stack' \in Seq(Frames) /\ search_path' \in Seq(Word)
        BY <1>1, <1>2
    <2> QED BY <1>1, <2>1 DEF IInv, TypeOK, Frames
<1>4. FieldsPlaced'
    <2>1. stack' # <<>> /\ DOMAIN stack' = {1} /\ stack'[1] = Frame(Out) /\ Frame(Out).lines = <<>>
        BY <1>1, <1>2
    <2>2. Placed(<<>>)
        BY DEF Placed
    <2> QED BY <1>1, <2>1, <2>2 DEF IInv, FieldsPlaced
<1>5. OutputKnown'
    BY <1>1 DEF IInv, OutputKnown
<1>6. SecondReads'
    <2>1. text[Out] \in Seq(Lines) /\ parsed[1] \in Seq(Declaration)
        BY DEF IInv, TypeOK
    <2>2. SubSeq(parsed[1], 1, 0) = <<>>
        BY <2>1
    <2>3. ~UnderTable(parsed[1], 0)
        BY DEF UnderTable
    <2>4. 0 \in 0..Len(text'[Out]) /\ 0 + 1 = 1
        BY <1>1, <2>1
    <2>5. \E k \in 0..Len(text'[Out]) :
              /\ stack' = <<[path |-> Out, line_number |-> k + 1, lines |-> SubSeq(parsed'[1], 1, k)]>>
              /\ UnderTable(parsed'[1], k) => table'
        BY <1>1, <1>2, <2>2, <2>3, <2>4
    <2> QED BY <1>1, <2>5 DEF SecondReads
<1> QED BY <1>3, <1>4, <1>5, <1>6 DEF IInv

\* Every step keeps it.
LEMMA StepInv ==
    ASSUME IInv, [Next]_vars
    PROVE  IInv'
<1>1. CASE BadCommand \/ OtherSource \/ WriteNothing
    BY <1>1, EndsAtOnce DEF BadCommand, OtherSource, WriteNothing
<1>2. CASE TakeTable \/ TakeField \/ TakeOption
    BY <1>2, TakeInv DEF TakeTable, TakeField, TakeOption
<1>3. CASE UNCHANGED vars
    BY <1>3 DEF vars, IInv, TypeOK, FieldsPlaced, OutputKnown, OutputFits, Fits, SecondReads, Top
<1> QED BY <1>1, <1>2, <1>3, BeginInv, SkipEmptyInv, TakeIncludeInv, RefuseInv, EndOfFileInv, LineTooLongInv,
           WriteInv, AgainInv DEF Next

-----------------------------------------------------------------------------
(***************************************************************************)
(* What makes the output readable holds in every step of either run, for   *)
(* any files and any limits (ssx/parsev2.cpp:398, ssx/genv2.cpp:28).       *)
(***************************************************************************)
THEOREM Readable == Spec => []IInv
<1>1. Init => IInv
    BY InitInv
<1>2. IInv /\ [Next]_vars => IInv'
    BY StepInv
<1> QED BY <1>1, <1>2, PTL DEF Spec

(***************************************************************************)
(* So parsed again the output declares the lines it was written from.      *)
(***************************************************************************)
THEOREM TranslationIsRead == Spec => []PrintedIsRead
<1>1. IInv => PrintedIsRead
    BY DEF IInv, SecondReads, PrintedIsRead
<1> QED BY <1>1, Readable, PTL
=============================================================================
