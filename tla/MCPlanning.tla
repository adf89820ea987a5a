------------------------------- MODULE MCPlanning -------------------------------
(***************************************************************************)
(* An instance of Planning: a dozen characters stand for what Unicode      *)
(* distinguishes, single files have every short name, and three trees      *)
(* have files to swap, a directory with a source in it and names that are  *)
(* in the way.                                                             *)
(***************************************************************************)
EXTENDS Planning

CONSTANTS x, y, d

MCAlphabet == <<" ", ".", "0", "1", "2", "3", "4", "5", "6", "7", "8", "9", "<",
                "A", "B", "S", "a", "b", "s", "ss", "half">>
Capitals   == {<<"A", "a">>, <<"B", "b">>, <<"S", "s">>}

MCLower == [c \in Characters |-> IF \E p \in Capitals : p[1] = c
                                 THEN <<(CHOOSE p \in Capitals : p[1] = c)[2]>> ELSE <<c>>]
\* "ss" is the sharp s, whose capital is two letters.
MCUpper == [c \in Characters |-> IF c = "ss" THEN <<"S", "S">>
                                 ELSE IF \E p \in Capitals : p[2] = c
                                 THEN <<(CHOOSE p \in Capitals : p[2] = c)[1]>> ELSE <<c>>]
MCClass == [c \in Characters |-> CASE c = " " -> "whitespace" [] c = "." -> "punctuation"
                                   [] c = "<" -> "symbol" [] c = "half" -> "unpaired"
                                   [] c \in Range(Digit) -> "number" [] OTHER -> "letter"]
MCWidth == [c \in Characters |-> IF c = "ss" THEN 2 ELSE IF c = "half" THEN 3 ELSE 1]
Illegal == {"<"}
Devices == {<<"A", "S">>}

File(name, object) == [parent |-> <<>>, name |-> name, object |-> object]

ShortNames == {n \in UNION {[1..k -> {"a", ".", " "}] : k \in 1..3} : \E i \in DOMAIN n : n[i] # "."}
OddNames   == {<<"a", " ", " ", "a">>, <<"a", ".", "a", ".", "a">>, <<" ", "a", " ", ".", "a">>,
               <<"a", "b", "a", "b", "a">>, <<"ss", ".", "ss">>, <<"half", "a">>, <<"a", "1", "b">>}

MCTrees == {{File(n, x)} : n \in ShortNames \cup OddNames}
  \cup {{File(<<"a">>, x), File(<<"b">>, y)},
        {File(<<"a">>, d), [parent |-> <<<<"a">>>>, name |-> <<"b">>, object |-> x],
         File(<<"a", ".", "b">>, y)},
        {File(<<"A">>, x), File(<<"b">>, y), File(<<"b", "a">>, Foreign)}}

RangeRules ==
  {[kind |-> "range", part |-> p, operation |-> "keep", origin |-> o, offset |-> i, length |-> l] :
     p \in {"whole", "stem"}, o \in {"start", "end"}, i \in {0, 1}, l \in {1, 2, Rest}}

MCRules ==
  RangeRules
    \cup {[kind |-> "range", part |-> "extension", operation |-> "remove", origin |-> "end",
           offset |-> 1, length |-> 0]}
    \cup {[kind |-> "whitespace", part |-> p, replacement |-> <<"b">>] : p \in {"whole", "stem", "extension"}}
    \cup {[kind |-> "case", part |-> p, mode |-> m] : p \in {"whole", "stem", "extension"}, m \in {"lower", "upper"}}
    \cup {[kind |-> "class", part |-> "stem", operation |-> o, class |-> c] :
            o \in {"keep", "remove"}, c \in {"letter", "whitespace"}}
    \cup {[kind |-> "replace", search |-> s, replacement |-> r] :
            s \in {<<>>, <<"a">>, <<"a", "b">>, <<"a", "b", "a">>}, r \in {<<>>, <<"b">>, <<"s">>}}
    \cup {[kind |-> "extension", operation |-> "remove"],
          [kind |-> "extension", operation |-> "replace", value |-> <<"b">>],
          [kind |-> "extension", operation |-> "replace", value |-> <<".">>],
          [kind |-> "suffix", value |-> <<".">>], [kind |-> "prefix", value |-> <<"b", "s">>]}

Numbering(scope, order, start, step, placement) ==
  [kind |-> "sequence", scope |-> scope, order |-> order, start |-> start, step |-> step,
   padding |-> 2, placement |-> placement, separator |-> <<>>]

MCPipelines ==
  {<<r>> : r \in MCRules}
    \cup {<<Numbering(s, o, 13, 2, p)>> : s \in {"all", "parent"}, o \in {"source", "name"}, p \in {"prefix", "suffix"}}
    \cup {<<Numbering("all", "name", 0, 15, "suffix"), [kind |-> "case", part |-> "whole", mode |-> "upper"]>>,
          <<[kind |-> "prefix", value |-> <<"b">>], [kind |-> "suffix", value |-> <<"A">>],
            [kind |-> "replace", search |-> <<"A">>, replacement |-> <<"ss", "ss">>]>>,
          <<>>}

\* Overrides take the place of what the rules propose: a swap, two names that
\* differ in case, a change of case, a source that may be gone
MCOverrides == {<<<<1, <<"b">>>>, <<2, <<"B">>>>>>, <<<<1, <<"b">>>>, <<2, <<"a">>>>>>, <<<<1, <<"A">>>>>>}

MCRequests == [rules : MCPipelines, overrides : {<<>>}]
                \cup [rules : {<<>>, <<Numbering("all", "name", 0, 15, "suffix")>>}, overrides : MCOverrides]

\* Two temporary names for every source, and the first one of the second is
\* taken by another program.
MCTemporaryNames == [i \in 1..6 |-> LET digit == Digit[i] IN <<<<".", digit>>, <<".", digit, "a">>>>]
MCStrangerNames  == {<<"B">>, <<".", "2">>}
=================================================================================
