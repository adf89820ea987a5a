------------------------------- MODULE NameRules -------------------------------
(***************************************************************************)
(* The rename rules and the name policy (renamewright-core/src/rules.rs,   *)
(* windows.rs): what one rule makes of one name, which rules compile, which *)
(* names Windows refuses and which it takes for equal.                     *)
(*                                                                         *)
(* A name is a sequence of characters.  What the code takes from Unicode,  *)
(* the case mappings, the classes, the length of an encoding, is given by  *)
(* constants.  Regular expressions and normalization forms, which are the  *)
(* work of two libraries, are left out.                                    *)
(***************************************************************************)
EXTENDS Integers, SequencesExt, FiniteSets

CONSTANTS
  Alphabet,       \* the characters in the order of their encodings
  Lower, Upper,   \* case mappings: character -> sequence of characters
  Class,          \* "whitespace", "letter", "number", "punctuation", "symbol"
                  \* or "unpaired", a unit that is no character
  Width,          \* bytes of a character's encoding
  IllegalCharacters,
  ReservedStems,  \* device names, in upper case
  MaxRules, MaxRuleText, MaxOutput, MaxPadding, MaxNameUnits

Characters == {Alphabet[i] : i \in DOMAIN Alphabet}
Texts      == Seq(Characters)
Digit == [d \in 0..9 |-> <<"0", "1", "2", "3", "4", "5", "6", "7", "8", "9">>[d + 1]]
Rank       == [c \in Characters |-> CHOOSE i \in DOMAIN Alphabet : Alphabet[i] = c]

ASSUME AlphabetAssumption ==
  /\ Alphabet \in Seq(Characters) /\ IsInjective(Alphabet) /\ {".", " "} \subseteq Characters
  /\ Lower \in [Characters -> Seq(Characters)] /\ Upper \in [Characters -> Seq(Characters)]
  /\ Class[" "] = "whitespace" /\ Width \in [Characters -> Nat \ {0}]
ASSUME DigitsAssumption == \A d \in DOMAIN Digit : Digit[d] \in Characters
ASSUME LimitsAssumption ==
  {MaxRules, MaxRuleText, MaxOutput, MaxPadding, MaxNameUnits} \subseteq Nat \ {0}

Mapped(text, mapping) ==
  LET mapped[i \in 0..Len(text)] == IF i = 0 THEN <<>> ELSE mapped[i - 1] \o mapping[text[i]]
  IN mapped[Len(text)]

Bytes(text) ==
  LET sum[i \in 0..Len(text)] == IF i = 0 THEN 0 ELSE sum[i - 1] + Width[text[i]]
  IN sum[Len(text)]

IsText(name) == \A i \in DOMAIN name : Class[name[i]] # "unpaired"

\* OsStr::cmp: the order of the encodings, a prefix first.
NameLess(m, n) ==
  LET common == {i \in DOMAIN m \cap DOMAIN n : m[i] # n[i]}
  IN IF common = {} THEN Len(m) < Len(n)
     ELSE LET i == CHOOSE j \in common : \A k \in common : j <= k IN Rank[m[i]] < Rank[n[i]]

-----------------------------------------------------------------------------
(***************************************************************************)
(* Parts of a name.  The final dot separates the extension unless it is    *)
(* the first character; 0 stands for no such dot.                          *)
(***************************************************************************)
Dots(name) == {i \in DOMAIN name : name[i] = "."}

FinalDot(name) ==
  LET last == IF Dots(name) = {} THEN 0 ELSE CHOOSE i \in Dots(name) : \A j \in Dots(name) : j <= i
  IN IF last > 1 THEN last ELSE 0

\* transform_filename_part
OnPart(name, part, Transform(_)) ==
  LET dot == FinalDot(name)
  IN CASE part = "whole" \/ (part = "stem" /\ dot = 0) -> Transform(name)
       [] part = "stem" /\ dot # 0 -> Transform(SubSeq(name, 1, dot - 1)) \o SubSeq(name, dot, Len(name))
       [] part = "extension" /\ dot # 0 -> SubSeq(name, 1, dot) \o Transform(SubSeq(name, dot + 1, Len(name)))
       [] OTHER -> name

-----------------------------------------------------------------------------
(***************************************************************************)
(* Transformations of a text.                                              *)
(***************************************************************************)
\* replace_literal_bounded without its bound: the leftmost matches that do
\* not overlap.  A character that is not skipped begins a match or stays.
ReadLiteral(state, text, i, search, replacement) ==
  IF state.skip > 0 THEN [state EXCEPT !.skip = @ - 1]
  ELSE IF IsPrefix(search, SubSeq(text, i, Len(text)))
       THEN [out |-> state.out \o replacement, skip |-> Len(search) - 1]
  ELSE [state EXCEPT !.out = Append(@, text[i])]

ReplacedInTurn(text, search, replacement) ==
  LET replaced[i \in 0..Len(text)] ==
        IF i = 0 THEN [out |-> <<>>, skip |-> 0]
        ELSE ReadLiteral(replaced[i - 1], text, i, search, replacement)
  IN replaced

ReplaceLiteral(text, search, replacement) == ReplacedInTurn(text, search, replacement)[Len(text)].out

\* cleanup_whitespace
ReadSpaced(state, c, replacement) ==
  IF Class[c] = "whitespace" THEN [state EXCEPT !.pending = state.out # <<>>]
  ELSE [out |-> (IF state.pending THEN state.out \o replacement ELSE state.out) \o <<c>>,
        pending |-> FALSE]

CleanedInTurn(text, replacement) ==
  LET cleaned[i \in 0..Len(text)] ==
        IF i = 0 THEN [out |-> <<>>, pending |-> FALSE]
        ELSE ReadSpaced(cleaned[i - 1], text[i], replacement)
  IN cleaned

CleanWhitespace(text, replacement) == CleanedInTurn(text, replacement)[Len(text)].out

Rest == -1   \* a range without a length

AtMost(i, limit)  == IF i < limit THEN i ELSE limit
AtLeastZero(i)    == IF i > 0 THEN i ELSE 0

\* Mutant: the length is counted from the end, not from the offset.
RangeBoundsFromTheEnd(count, range) ==
  IF range.origin = "start"
  THEN LET first == AtMost(range.offset, count)
       IN <<first, IF range.length = Rest THEN count ELSE AtMost(first + range.length, count)>>
  ELSE LET last == AtLeastZero(count - range.offset)
       IN <<IF range.length = Rest THEN 0 ELSE AtMost(AtLeastZero(count - range.length), last), last>>

\* apply_range: the characters after the first number up to the second.
RangeBounds(count, range) ==
  IF range.origin = "start"
  THEN LET first == AtMost(range.offset, count)
       IN <<first, IF range.length = Rest THEN count ELSE AtMost(first + range.length, count)>>
  ELSE LET last == AtLeastZero(count - range.offset)
       IN <<IF range.length = Rest THEN 0 ELSE AtLeastZero(last - range.length), last>>

ApplyRange(text, range) ==
  LET bounds == RangeBounds(Len(text), range)
  IN IF range.operation = "keep" THEN SubSeq(text, bounds[1] + 1, bounds[2])
     ELSE SubSeq(text, 1, bounds[1]) \o SubSeq(text, bounds[2] + 1, Len(text))

\* apply_character_class
Stays(c, class, operation) == (Class[c] = class) = (operation = "keep")

FilteredInTurn(text, class, operation) ==
  LET filtered[i \in 0..Len(text)] ==
        IF i = 0 THEN <<>>
        ELSE IF Stays(text[i], class, operation) THEN Append(filtered[i - 1], text[i]) ELSE filtered[i - 1]
  IN filtered

ApplyClass(text, class, operation) == FilteredInTurn(text, class, operation)[Len(text)]

\* apply_extension
ApplyExtension(name, rule) ==
  LET stem == IF FinalDot(name) = 0 THEN name ELSE SubSeq(name, 1, FinalDot(name) - 1)
  IN IF rule.operation = "remove" THEN stem ELSE stem \o <<".">> \o rule.value

\* A number without its last k digits
Shortened(value, k) ==
  LET quotient[j \in 0..k] == IF j = 0 THEN value ELSE quotient[j - 1] \div 10
  IN quotient[k]

\* format!("{value:0width$}")
Padded(value, width) ==
  LET digits == 1 + Cardinality({k \in 1..value : Shortened(value, k) > 0})
      size   == IF digits < width THEN width ELSE digits
  IN [i \in 1..size |-> Digit[Shortened(value, size - i) % 10]]

-----------------------------------------------------------------------------
(***************************************************************************)
(* Rules.                                                                  *)
(***************************************************************************)
NoValue       == -1   \* a source has no sequence value
Done(name)    == [error |-> "none", name |-> name]
Failed(error) == [error |-> error, name |-> <<>>]

Parts == {"whole", "stem", "extension"}

\* RenameRule
Rules ==
       [kind : {"prefix", "suffix"}, value : Texts]
  \cup [kind : {"replace"}, search : Texts, replacement : Texts]
  \cup [kind : {"sequence"}, scope : {"all", "parent"}, order : {"source", "name"}, start : Nat, step : Nat,
        padding : Nat, placement : {"prefix", "suffix"}, separator : Texts]
  \cup [kind : {"extension"}, operation : {"remove"}]
  \cup [kind : {"extension"}, operation : {"replace"}, value : Texts]
  \cup [kind : {"case"}, part : Parts, mode : {"lower", "upper"}]
  \cup [kind : {"whitespace"}, part : Parts, replacement : Texts]
  \cup [kind : {"range"}, part : Parts, operation : {"keep", "remove"}, origin : {"start", "end"},
        offset : Nat, length : Nat \cup {Rest}]
  \cup [kind : {"class"}, part : Parts, operation : {"keep", "remove"}, class : STRING]

TextRules == {"replace", "case", "whitespace", "range", "class"}

\* What a rule with the sequence value of the source makes of a name.
Transformed(rule, name, value) ==
  CASE rule.kind = "prefix"     -> rule.value \o name
    [] rule.kind = "suffix"     -> name \o rule.value
    [] rule.kind = "replace"    -> ReplaceLiteral(name, rule.search, rule.replacement)
    [] rule.kind = "sequence"   -> IF rule.placement = "prefix"
                                   THEN Padded(value, rule.padding) \o rule.separator \o name
                                   ELSE name \o rule.separator \o Padded(value, rule.padding)
    [] rule.kind = "extension"  -> ApplyExtension(name, rule)
    [] rule.kind = "case"       -> OnPart(name, rule.part, LAMBDA t : Mapped(t, IF rule.mode = "lower" THEN Lower ELSE Upper))
    [] rule.kind = "whitespace" -> OnPart(name, rule.part, LAMBDA t : CleanWhitespace(t, rule.replacement))
    [] rule.kind = "range"      -> OnPart(name, rule.part, LAMBDA t : ApplyRange(t, rule))
    [] OTHER                    -> OnPart(name, rule.part, LAMBDA t : ApplyClass(t, rule.class, rule.operation))

\* RulePipeline::apply_rule
ApplyRule(rule, name, value) ==
  IF Bytes(name) > MaxOutput THEN Failed("OutputTooLong")
  ELSE IF rule.kind \in TextRules /\ ~IsText(name) THEN Failed("UnsupportedEncoding")
  ELSE IF rule.kind = "sequence" /\ value = NoValue THEN Failed("SequenceOverflow")
  ELSE LET proposed == Transformed(rule, name, value)
       IN IF Bytes(proposed) > MaxOutput THEN Failed("OutputTooLong") ELSE Done(proposed)

AppliesToDirectories(rule) == rule.kind # "extension"

RuleTexts(rule) ==
  CASE rule.kind \in {"prefix", "suffix"} -> {rule.value}
    [] rule.kind = "replace"              -> {rule.search, rule.replacement}
    [] rule.kind = "sequence"             -> {rule.separator}
    [] rule.kind = "whitespace"           -> {rule.replacement}
    [] rule.kind = "extension" /\ rule.operation = "replace" -> {rule.value}
    [] OTHER                              -> {}

\* compile_rule
RuleCompiles(rule) ==
  /\ \A text \in RuleTexts(rule) : Bytes(text) <= MaxRuleText
  /\ rule.kind = "replace"  => rule.search # <<>>
  /\ rule.kind = "sequence" => rule.step # 0 /\ rule.padding \in 1..MaxPadding
  /\ rule.kind = "extension" /\ rule.operation = "replace" =>
       rule.value # <<>> /\ rule.value[1] # "."
  /\ rule.kind = "range" => rule.length # 0

\* RulePipeline::compile
Compiles(rules) == Len(rules) <= MaxRules /\ \A i \in DOMAIN rules : RuleCompiles(rules[i])

-----------------------------------------------------------------------------
(***************************************************************************)
(* The Windows target policy (windows.rs).                                 *)
(***************************************************************************)
EndsInDotOrSpace(text) == text # <<>> /\ text[Len(text)] \in {" ", "."}

Trimmed(text) ==
  LET kept == {i \in DOMAIN text : text[i] \notin {" ", "."}}
  IN IF ~EndsInDotOrSpace(text) THEN text
     ELSE IF kept = {} THEN <<>>
     ELSE SubSeq(text, 1, CHOOSE i \in kept : \A j \in kept : j <= i)

\* Mutant: names are compared as they are written.
NameAsWritten(name) == name

\* comparison_key
ComparisonKey(name) == Mapped(Trimmed(name), Lower)

\* is_reserved: the stem ends at the first dot.
IsReserved(name) ==
  LET dots == Dots(name)
      stem == IF dots = {} THEN name ELSE SubSeq(name, 1, (CHOOSE i \in dots : \A j \in dots : i <= j) - 1)
  IN Mapped(Trimmed(stem), Upper) \in ReservedStems

\* validate and validate_name: the diagnostics that block a name
NameDiagnostics(name) ==
  IF name = <<>> THEN {"EmptyName"}
  ELSE IF ~IsText(name) THEN {"UnsupportedEncoding"}
  ELSE {d \in {"IllegalCharacter", "TrailingDotOrSpace", "ReservedName", "NameTooLong"} :
          CASE d = "IllegalCharacter"   -> \E i \in DOMAIN name : name[i] \in IllegalCharacters
            [] d = "TrailingDotOrSpace" -> EndsInDotOrSpace(name)
            [] d = "ReservedName"       -> IsReserved(name)
            [] OTHER                    -> Len(name) > MaxNameUnits}
================================================================================
