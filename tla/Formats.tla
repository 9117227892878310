------------------------------- MODULE Formats ------------------------------
(***************************************************************************)
(* AvmStringFormat and AvmStringParse of src/src/avm.core/string.c, with   *)
(* the conversions they use. A program formats values into a new string,   *)
(* and reads values back from one by a format of its own. A format is a    *)
(* sequence of characters in which % marks a directive; formats and texts  *)
(* end in a zero byte in memory, a string need not.                        *)
(***************************************************************************)
EXTENDS Numerals, FiniteSets

CONSTANTS FormatSet,   \* the formats the program uses
          Longs,       \* the values it formats by directives for _long,
          Ulongs,      \* for ulong, size_t, pointers and char32_t,
          Letters,     \* for char,
          Words,       \* and, as the text they come to, for str, object and double
          FloatSet,    \* the floats it gives to AvmStringFromFloat2
          WordCapacity \* the size of the arrays it parses a str into

Nul == "NUL"
TrueText == <<"t", "r", "u", "e">>
FalseText == <<"f", "a", "l", "s", "e">>

TextChars ==
    {"0", "1", "2", "3", "4", "5", "6", "7", "8", "9", "A", "B", "C", "D", "E", "F",
     "-", "+", ".", "x", "o", "b", "U", "t", "r", "u", "e", "f", "a", "l", "s", "i", "n",
     " ", "%", Nul} \cup Letters
        \cup UNION {ToSet(w) : w \in Words \cup FormatSet}

(* The program has values of every kind. A zero byte ends a str; objects   *)
(* whose text has one inside are left out.                                 *)
ASSUME FormatsAssumption ==
    /\ Longs # {} /\ Ulongs # {} /\ Letters # {} /\ Words # {}
    /\ \A w \in Words : Nul \notin ToSet(w)
    /\ Longs \subseteq MinLong..MaxLong
    /\ Ulongs \subseteq 0..MaxUlong
    /\ Words \cup FormatSet \subseteq Seq(TextChars)
    /\ FloatSet \subseteq Floats
    /\ WordCapacity \in Nat \ {0}

VARIABLES string,   \* the text of the AvmString, and whether a zero byte follows it
          written,  \* history: the format and the values it was made with
          parsed,   \* what the variables that were passed to Parse hold
          outcome,  \* "none", or what stopped the program
          call      \* history: the last call, with its arguments

formatVars == <<string, written, parsed, outcome, call>>

(* The directives of config.h.in by the type of their argument.            *)
UnsignedDirectives == {"u", "z", "o", "x", "p", "b", "U", "Z"}
WordDirectives == {"s", "v", "T", "f", "e", "g"}
ParsedDirectives == {"c", "t", "i", "b", "o", "u", "z", "p", "x", "s"}

ArgumentsOf(d) ==
    CASE d = "i" -> Longs
      [] d = "c" -> Letters
      [] d = "t" -> BOOLEAN
      [] d \in UnsignedDirectives -> Ulongs
      [] d \in {"s", "v"} -> Words
      [] d \in WordDirectives \ {"s", "v"} -> Words \ {<<>>}
      [] OTHER -> {}

-----------------------------------------------------------------------------
(* What AvmStringPushUint adds to a string.                                *)
PushedUint(value, numericBase) ==
    CASE numericBase = 2  -> <<"0", "b">> \o FromUint(value, 2)
      [] numericBase = 8  -> <<"0", "o">> \o FromUint(value, 8)
      [] numericBase = 16 -> <<"0", "x">> \o FromUint(value, 16)
      [] OTHER            -> FromUint(value, numericBase)

(* What the function Format of string.c adds for a directive.              *)
Formatted(d, value) ==
    CASE d = "U" -> <<"U", "+">> \o PushedUint(value, 10)
      [] d \in {"u", "z", "Z"} -> PushedUint(value, 10)
      [] d = "i" -> FromInt(value)
      [] d = "o" -> PushedUint(value, 8)
      [] d \in {"x", "p"} -> PushedUint(value, 16)
      [] d = "b" -> PushedUint(value, 2)
      [] d = "c" -> <<value>>
      [] d = "t" -> IF value THEN TrueText ELSE FalseText
      [] d \in WordDirectives -> value

(* How it may end: AvmStringPushStr of nothing looks at its last character *)
(* (see AvmString), and AvmStringFromFloat lets snprintf write a zero byte *)
(* behind its buffer, which may go unnoticed.                              *)
FormatEnds(d, value) ==
    IF d = "s" /\ value = <<>> THEN {"pushstr"}
    ELSE IF d = "f" THEN {"none", "overrun"}
    ELSE {"none"}

(* Mutant: the character behind a directive is lost.                       *)
StepOverTwo(format, i) == IF format[i] = "%" THEN i + 3 ELSE i + 1

(* The loops of FormatV and ParseV: where the next pass of the loop looks, *)
(* after a pass at i. A directive takes two characters, even if the second *)
(* one is the zero byte that ends the format.                              *)
StepOver(format, i) == IF format[i] = "%" THEN i + 2 ELSE i + 1

(* The places the loop visits; Len(format) + 1 is that of the zero byte.   *)
Visited(format) ==
    LET from[i \in 1..(Len(format) + 3)] ==
            IF i > Len(format) THEN <<i>> ELSE <<i>> \o from[StepOver(format, i)]
    IN  from[1]

(* The loop ends at the zero byte, or steps over it and reads on.          *)
Overreads(format) == Last(Visited(format)) # Len(format) + 1

CharAt(format, i) == IF i <= Len(format) THEN format[i] ELSE Nul

(***************************************************************************)
(* One pass at each visited place but the last, where the loop ends. From  *)
(* pass to pass: the directives met, the text pushed and the arguments     *)
(* taken, and the lists of arguments that fit.                             *)
(***************************************************************************)
Passes(format) == Len(Visited(format)) - 1

IsMark(format, n) == format[Visited(format)[n]] = "%"

Marked(format, n) == CharAt(format, Visited(format)[n] + 1)

Directives(format) ==
    LET met[n \in 0..Passes(format)] ==
            IF n = 0 THEN <<>>
            ELSE IF IsMark(format, n) THEN Append(met[n - 1], Marked(format, n)) ELSE met[n - 1]
    IN  met[Passes(format)]

Takes(format, n) == IsMark(format, n) /\ ArgumentsOf(Marked(format, n)) # {}

(* The text of pass n, when so many arguments were taken before.           *)
PassText(format, n, taken, args) ==
    IF ~ IsMark(format, n) THEN <<format[Visited(format)[n]]>>
    ELSE IF Takes(format, n) THEN Formatted(Marked(format, n), args[taken + 1])
    ELSE <<Marked(format, n)>>

FormatText(format, args) ==
    LET after[n \in 0..Passes(format)] ==
            IF n = 0 THEN [text |-> <<>>, taken |-> 0]
            ELSE [text  |-> after[n - 1].text \o PassText(format, n, after[n - 1].taken, args),
                  taken |-> after[n - 1].taken + IF Takes(format, n) THEN 1 ELSE 0]
    IN  after[Passes(format)].text

ArgumentLists(format) ==
    LET lists[n \in 0..Passes(format)] ==
            IF n = 0 THEN {<<>>}
            ELSE IF Takes(format, n)
                 THEN {Append(args, v) : args \in lists[n - 1], v \in ArgumentsOf(Marked(format, n))}
            ELSE lists[n - 1]
    IN  lists[Passes(format)]

TakingDirectives(format) == SelectSeq(Directives(format), LAMBDA d : ArgumentsOf(d) # {})

-----------------------------------------------------------------------------
FormatsInit ==
    /\ string = [text |-> <<>>, terminated |-> FALSE]
    /\ written = [format |-> <<>>, args |-> <<>>]
    /\ parsed = <<>>
    /\ outcome = "none"
    /\ call = <<"New">>

(***************************************************************************)
(* A call that makes a new string. What lies behind its text is not        *)
(* decided here: a zero byte if the memory came zeroed and is not full,    *)
(* anything otherwise. Earlier strings have no part in it, so that it is   *)
(* enough to make one string in a behaviour.                               *)
(***************************************************************************)
New(what, text, end) ==
    /\ \E terminated \in BOOLEAN : string' = [text |-> text, terminated |-> terminated]
    /\ outcome' = end
    /\ call' = what
    /\ UNCHANGED parsed

(* AvmStringFormat and AvmStringFormatV.                                   *)
FormatString(format, args) ==
    LET ds == TakingDirectives(format)
        ends == {"none"} \cup UNION {FormatEnds(ds[k], args[k]) : k \in DOMAIN ds}
    IN  /\ \E end \in IF "pushstr" \in ends THEN {"pushstr"}
                      ELSE IF Overreads(format) THEN {"overread_format"}
                      ELSE ends :
                New(<<"Format", format>>, FormatText(format, args), end)
        /\ written' = [format |-> format, args |-> args]

ConvertInt(value) ==
    New(<<"FromInt", value>>, FromInt(value), "none") /\ UNCHANGED written

ConvertUint(value, numericBase) ==
    /\ UNCHANGED written
    /\ IF numericBase \in NumericBase
       THEN New(<<"FromUint", value, numericBase>>, FromUint(value, numericBase), "none")
       ELSE New(<<"FromUint", value, numericBase>>, <<>>, "thrown")

ConvertFloat(f) ==
    New(<<"FromFloat2", f>>, FromFloat2(f), "none") /\ UNCHANGED written

-----------------------------------------------------------------------------
(* The cell at place p of the buffer of the string. Nothing is known of    *)
(* what lies behind a zero byte that ends it, or behind a text without one.*)
Known(p) == p <= Len(string.text) \/ (p = Len(string.text) + 1 /\ string.terminated)
Cell(p) == IF p <= Len(string.text) THEN string.text[p] ELSE Nul

(* Mutant: a word ends at a blank, not at the end of the text.             *)
WordEndsBlank(p) ==
    {q \in p..(Len(string.text) + 1) : Known(q) /\ Cell(q) = " "}

(* Where SkipWord can stop, if it starts at p.                             *)
WordEnds(p) == {q \in p..(Len(string.text) + 1) : Known(q) /\ Cell(q) \in {" ", Nul}}

SkipWord(p) == CHOOSE q \in WordEnds(p) : \A r \in WordEnds(p) : q <= r

(* The text from p on, as the functions of the C library see it.           *)
TextFrom(p) == Span(SubSeq(string.text, p, Len(string.text)), LAMBDA d : d # Nul)

Word(p) == SubSeq(string.text, p, SkipWord(p) - 1)

BaseOf(d) == CASE d = "b" -> 2 [] d = "o" -> 8 [] d \in {"x", "p"} -> 16 [] OTHER -> 10

(* ParseUint and ParseInt do not tell strtoull and strtoll where the word  *)
(* ends: blanks in front of a number make them read the next word.         *)
NumberAt(d, p) ==
    IF d = "i" THEN Strtoll(TextFrom(p), 10) ELSE Strtoull(TextFrom(p), BaseOf(d))

NumberOverreads(d, p) ==
    /\ ~ string.terminated
    /\ AfterNumber(FromFirstDigit(TextFrom(p), BaseOf(d)), BaseOf(d)) = <<>>
    /\ p + Len(TextFrom(p)) = Len(string.text) + 1

(* ParseStr copies the word before it looks at the capacity, which then    *)
(* only decides where the zero byte goes.                                  *)
StrAt(p) == IF Len(Word(p)) < WordCapacity THEN Word(p) ELSE Front(Word(p))

ValueAt(d, p) ==
    CASE d = "c" -> Cell(p)
      [] d = "t" -> IsPrefix(TrueText, TextFrom(p))
      [] d = "s" -> StrAt(p)
      [] OTHER   -> NumberAt(d, p)

(***************************************************************************)
(* One pass of ParseV for the directive d at place acc.at of the buffer.   *)
(* The two arguments of %s are taken in an order that C leaves open, so    *)
(* that the pointer and the capacity may be swapped.                       *)
(***************************************************************************)
ParsePass(acc, d, swapped) ==
    LET p == acc.at
        ends(how) == [acc EXCEPT !.end = how]
        goes(q) == [acc EXCEPT !.at = q + 1, !.values = Append(@, ValueAt(d, p))]
    IN  IF acc.end # "none" THEN acc
        ELSE IF d \notin ParsedDirectives THEN [acc EXCEPT !.at = @ + 1]
        ELSE IF d = "c" THEN IF Known(p) THEN goes(p + 1) ELSE ends("overread")
        ELSE IF d = "s" /\ swapped THEN ends("swapped")
        ELSE IF WordEnds(p) = {} THEN ends("overread")
        ELSE IF d \notin {"t", "s"} /\ NumberOverreads(d, p) THEN ends("overread")
        ELSE IF d = "s" /\ Len(Word(p)) > WordCapacity THEN ends("overrun")
        ELSE goes(SkipWord(p))

(* AvmStringParse and AvmStringParseV, of a text that Format made. The     *)
(* characters of the format that are not directives are not compared with  *)
(* the text.                                                               *)
Parse(format, swapped) ==
    LET ds == Directives(format)
        after[n \in 0..Len(ds)] ==
            IF n = 0 THEN [at |-> 1, values |-> <<>>, end |-> "none"]
            ELSE ParsePass(after[n - 1], ds[n], swapped)
    IN  after[Len(ds)]

ParseString(format) ==
    /\ \E swapped \in BOOLEAN :
        LET last == Parse(format, swapped)
        IN  /\ parsed' = last.values
            /\ outcome' = IF last.end = "none" /\ Overreads(format) THEN "overread_format"
                        ELSE last.end
    /\ call' = <<"Parse", format>>
    /\ UNCHANGED <<string, written>>

(* One string is made, and may be parsed.                                  *)
Makes ==
    \/ \E format \in FormatSet : \E args \in ArgumentLists(format) : FormatString(format, args)
    \/ \E value \in MinLong..MaxLong : ConvertInt(value)
    \/ \E value \in 0..MaxUlong, numericBase \in NumericBase \cup {3} : ConvertUint(value, numericBase)
    \/ \E f \in FloatSet : ConvertFloat(f)

Parses == \E format \in FormatSet : ParseString(format)

FormatsNext ==
    \/ call = <<"New">> /\ Makes
    \/ call[1] = "Format" /\ outcome = "none" /\ Parses

FormatsSpec == FormatsInit /\ [][FormatsNext]_formatVars
-----------------------------------------------------------------------------
(* The types of the variables: texts are made of known characters, and a   *)
(* program stops for one of the reasons named here.                        *)
FormatsTypeOK ==
    /\ string.text \in Seq(TextChars)
    /\ string.terminated \in BOOLEAN
    /\ outcome \in {"none", "thrown", "pushstr", "overrun", "overread", "overread_format", "swapped"}

(***************************************************************************)
(* Every number of every base, the least _long included, becomes digits    *)
(* that are worth the number, with a sign exactly when it is negative and  *)
(* no zeros in front: no two numbers have the same text.                   *)
(***************************************************************************)
NumeralsDenote ==
    /\ call[1] = "FromInt" => Denotes(string.text, call[2], 10)
    /\ call[1] = "FromUint" /\ outcome = "none" => Denotes(string.text, call[2], call[3])

(***************************************************************************)
(* AvmStringFromFloat2 shows a finite float as "inf" exactly if it is at   *)
(* least 2^(TooBig + 1), as 0 exactly if it is below an eighth, and        *)
(* otherwise truncated to eighths. (Infinities and NaNs come out as 0.)    *)
(***************************************************************************)
FloatsAreTruncated ==
    call[1] = "FromFloat2" =>
        LET f == call[2]
            e == f.exponent - Bias
            unsigned == IF f.isNegative /\ string.text[1] = "-" THEN Tail(string.text) ELSE string.text
            eighths == (Mantissa(f) * Power2(e + 3)) \div Power2(FractionBits)
        IN  \/ e > Bias
            \/ e > TooBig /\ string.text = <<"i", "n", "f">>
            \/ e < -3 /\ string.text = <<"0">>
            \/ /\ e \in -3..TooBig
               /\ f.isNegative <=> string.text[1] = "-"
               /\ Len(unsigned) > 4 /\ unsigned[Len(unsigned) - 3] = "."
               /\ Worth(SubSeq(unsigned, 1, Len(unsigned) - 4)
                           \o SubSeq(unsigned, Len(unsigned) - 2, Len(unsigned)), 10) = 125 * eighths

PercentsAtEnd(format) ==
    CHOOSE n \in 0..Len(format) :
        /\ \A i \in (Len(format) - n + 1)..Len(format) : format[i] = "%"
        /\ n = Len(format) \/ format[Len(format) - n] # "%"

(***************************************************************************)
(* Format stops at the end of its format, whatever directives and literal  *)
(* percent signs it has, unless a percent sign without a directive ends    *)
(* it: an odd number of them in a row.                                     *)
(***************************************************************************)
FormatReadsToItsEnd ==
    call[1] = "Format" /\ outcome # "pushstr" =>
        (outcome = "overread_format" <=> PercentsAtEnd(call[2]) % 2 = 1)

(* Directives that one blank separates, each of a kind that Parse reads    *)
(* back; octal and binary prefixes are not understood by strtoull.         *)
Separated(format) ==
    /\ Len(format) % 3 = 2
    /\ \A i \in DOMAIN format :
        CASE i % 3 = 1 -> format[i] = "%"
          [] i % 3 = 2 -> format[i] \in ParsedDirectives \ {"o", "b"}
          [] OTHER     -> format[i] = " "

WordsFit ==
    \A k \in DOMAIN written.args :
        Directives(written.format)[k] = "s" =>
            /\ Len(written.args[k]) < WordCapacity
            /\ " " \notin ToSet(written.args[k])

(***************************************************************************)
(* What Format writes by directives with one blank between them, Parse     *)
(* reads back by the same format: the two agree on digits, prefixes, signs *)
(* and the ends of words, and on which value belongs to which directive.   *)
(***************************************************************************)
RoundTrip ==
    /\ call = <<"Parse", written.format>>
    /\ string.terminated
    /\ Separated(written.format)
    /\ WordsFit
    => \/ outcome = "none" /\ parsed = written.args
       \/ outcome = "swapped" /\ "s" \in ToSet(written.format)

(* The words of the text, those between two blanks in a row included.      *)
WordCount == Cardinality({i \in DOMAIN TextFrom(1) : TextFrom(1)[i] = " "}) + 1

(***************************************************************************)
(* Parsing asks for words by directives other than %c. As long as it asks  *)
(* for no more words than the text has, it does not leave a terminated     *)
(* text, however little the format fits it.                                *)
(***************************************************************************)
ParseStaysInside ==
    call[1] = "Parse" /\ string.terminated /\ "c" \notin ToSet(Directives(call[2])) =>
        (outcome = "overread" => Len(Directives(call[2])) > WordCount)
=============================================================================
