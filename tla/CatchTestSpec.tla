---------------------------- MODULE CatchTestSpec ----------------------------
(***************************************************************************)
(* The test cases of a Catch executable and how some of them are selected: *)
(* registration of TEST_CASEs with their tags, tag aliases, the language   *)
(* of test specifications, the order of the tests and the listings.        *)
(*                                                                         *)
(* A text is a sequence of symbols: a character the code looks at is a     *)
(* symbol of its own, a stretch of text that it never looks into is one.   *)
(***************************************************************************)
EXTENDS Integers, FiniteSets, SequencesExt, StepwiseFold

CONSTANTS
    Lower,        \* the symbols in upper case, mapped to their lower case
    Rank          \* the character order: symbol -> Nat

toLower(text) ==
    [i \in 1..Len(text) |-> IF text[i] \in DOMAIN Lower THEN Lower[text[i]] ELSE text[i]]

startsWith(s, prefix) == IsPrefix(prefix, s)
endsWith(s, suffix)   == IsSuffix(suffix, s)
contains(s, infix)    == infix \in SubSeqs(s)

trim(text) ==
    LET Ink == {i \in 1..Len(text) : text[i] # " "}
    IN  IF Ink = {} THEN << >> ELSE SubSeq(text, Min(Ink), Max(Ink))

\* std::string's operator <, on whole symbols.
Before(s, t) ==
    \E k \in 0..Len(s) :
        /\ k < Len(t)
        /\ SubSeq(s, 1, k) = SubSeq(t, 1, k)
        /\ k < Len(s) => Rank[s[k + 1]] < Rank[t[k + 1]]
-----------------------------------------------------------------------------
(***************************************************************************)
(* Test cases and the registry.  A declaration is what TEST_CASE is given: *)
(* a name, the text of its tags, the file and the body.                    *)
(***************************************************************************)
parseSpecialTag(tag) ==
    IF startsWith(tag, <<".">>) \/ tag \in {<<"hide">>, <<"!", "hide">>} THEN "IsHidden"
    ELSE CASE tag = <<"!", "throws">>     -> "Throws"
           [] tag = <<"!", "shouldfail">> -> "ShouldFail"
           [] tag = <<"!", "mayfail">>    -> "MayFail"
           [] OTHER                       -> "None"

Punctuation == {".", "!", "#", "@", "~", "*", " ", ",", "\"", "[", "]"}

isReservedTag(tag) ==
    /\ parseSpecialTag(tag) = "None"
    /\ tag # << >>
    /\ tag[1] \in Punctuation

\* The tags written in brackets; a bracket left open holds no tag.
ParsedTags(text) ==
    LET Step(st, c) ==
          CASE ~st.inTag /\ c = "[" -> [st EXCEPT !.inTag = TRUE]
            [] ~st.inTag            -> st
            [] c = "]"              -> [inTag |-> FALSE, tag |-> << >>, tags |-> st.tags \cup {st.tag}]
            [] OTHER                -> [st EXCEPT !.tag = Append(@, c)]
    IN  Fold(Step, [inTag |-> FALSE, tag |-> << >>, tags |-> {}], text).tags

setTags(info, tags) ==
    LET lower == {toLower(t) : t \in tags}
    IN  [info EXCEPT !.tags = tags, !.lcaseTags = lower,
                     !.properties = @ \cup ({parseSpecialTag(t) : t \in lower} \ {"None"})]

makeTestCase(decl) ==
    LET written == ParsedTags(decl.tags)
        hidden  == \/ startsWith(decl.name, <<".", "/">>)
                   \/ \E t \in written : parseSpecialTag(t) = "IsHidden"
        tags    == written \cup (IF hidden THEN {<<"hide">>, <<".">>} ELSE {})
    IN  setTags([name |-> decl.name, tags |-> {}, lcaseTags |-> {}, properties |-> {},
                 file |-> decl.file, body |-> decl.body], tags)

throws(test)         == "Throws" \in test.properties
okToFail(test)       == test.properties \cap {"ShouldFail", "MayFail"} # {}
expectedToFail(test) == "ShouldFail" \in test.properties

\* The static registrars of a reserved tag or of a bad alias end the process.
RegistrationFails(suite) ==
    \/ \E i \in DOMAIN suite.tests : \E t \in ParsedTags(suite.tests[i].tags) : isReservedTag(t)
    \/ \E i \in DOMAIN suite.aliases :
          LET a == suite.aliases[i].alias
          IN  \/ ~(startsWith(a, <<"[", "@">>) /\ endsWith(a, <<"]">>))
              \/ \E j \in 1..(i - 1) : suite.aliases[j].alias = a

\* Tests without a name are numbered in the order of their registration.
registerTests(decls) ==
    LET Step(st, decl) ==
          LET test == makeTestCase(decl)
          IN  IF test.name = << >>
              THEN [tests |-> Append(st.tests, [test EXCEPT !.name = <<"Anonymous test case", ToString(st.unnamed + 1)>>]),
                    unnamed |-> st.unnamed + 1]
              ELSE [st EXCEPT !.tests = Append(@, test)]
    IN  Fold(Step, [tests |-> << >>, unnamed |-> 0], decls).tests

HasDuplicates(tests) == \E i, j \in DOMAIN tests : i # j /\ tests[i].name = tests[j].name

Orders(tests) == {[i \in DOMAIN tests |-> tests[p[i]]] : p \in Bijection(DOMAIN tests, DOMAIN tests)}

\* Every order the tests may be run in: a shuffle is any permutation, and std::sort
\* leaves tests of the same name in any order.  Otherwise that of the declarations.
sortTests(order, tests) ==
    CASE order = "InLexicographicalOrder" ->
            {s \in Orders(tests) : \A i, j \in DOMAIN s : i < j => ~Before(s[j].name, s[i].name)}
      [] order = "InRandomOrder"          -> Orders(tests)
      [] OTHER                            -> {tests}

applyFilenamesAsTags(tests) ==
    [i \in DOMAIN tests |-> setTags(tests[i], tests[i].tags \cup {<<"#", tests[i].file>>})]
-----------------------------------------------------------------------------
(***************************************************************************)
(* Test specifications: any filter of all its patterns.                    *)
(***************************************************************************)
WildcardPattern(pattern) ==
    LET atStart == startsWith(pattern, <<"*">>)
        rest    == IF atStart THEN Tail(pattern) ELSE pattern
        atEnd   == endsWith(rest, <<"*">>)
    IN  [atStart |-> atStart, atEnd |-> atEnd, text |-> IF atEnd THEN Front(rest) ELSE rest]

WildcardMatches(w, str) ==
    CASE ~w.atStart /\ ~w.atEnd -> w.text = str
      [] w.atStart /\ ~w.atEnd  -> endsWith(str, w.text)
      [] ~w.atStart /\ w.atEnd  -> startsWith(str, w.text)
      [] w.atStart /\ w.atEnd   -> contains(str, w.text)

PatternMatches(p, test) ==
    p.excluded # (CASE p.kind = "Name" -> WildcardMatches(WildcardPattern(toLower(p.text)), toLower(test.name))
                    [] p.kind = "Tag"  -> toLower(p.text) \in test.lcaseTags)

SpecMatches(filters, test) ==
    \E f \in DOMAIN filters : \A p \in DOMAIN filters[f] : PatternMatches(filters[f][p], test)

matchTest(test, filters, allowThrows) ==
    SpecMatches(filters, test) /\ (allowThrows \/ ~throws(test))

\* The aliases are in the order of the registry's map.
expandAliases(aliases, text) ==
    Fold(LAMBDA t, a : ReplaceFirstSubSeq(a.tag, a.alias, t), text, aliases)

(***************************************************************************)
(* The parser reads one argument symbol by symbol.  "skip" is the increment*)
(* of the position inside visitChar: the symbol after an opening bracket   *)
(* or quote is never visited.  The patterns gathered so far live on from   *)
(* one argument to the next; only a comma or the end closes a filter.      *)
(***************************************************************************)
SpecParser == [mode |-> "None", exclusion |-> FALSE, start |-> 0, skip |-> FALSE,
               current |-> << >>, filters |-> << >>]

\* Mutant of addPattern: the exclusion is not reset, and excludes what follows as well.
KeepExclusion(st, kind, token) ==
    LET prefixed  == startsWith(token, <<"exclude:">>)
        text      == IF prefixed THEN Tail(token) ELSE token
        pattern   == [kind |-> kind, text |-> text, excluded |-> prefixed \/ st.exclusion]
    IN  [st EXCEPT !.current = IF text = << >> THEN @ ELSE Append(@, pattern), !.mode = "None"]

addPattern(st, kind, token) ==
    LET prefixed  == startsWith(token, <<"exclude:">>)
        text      == IF prefixed THEN Tail(token) ELSE token
        pattern   == [kind |-> kind, text |-> text, excluded |-> prefixed \/ st.exclusion]
    IN  [st EXCEPT !.current = IF text = << >> THEN @ ELSE Append(@, pattern),
                   !.exclusion = FALSE, !.mode = "None"]

addFilter(st) ==
    IF st.current = << >> THEN st
    ELSE [st EXCEPT !.filters = Append(@, st.current), !.current = << >>]

startNewMode(st, mode, start) == [st EXCEPT !.mode = mode, !.start = start, !.skip = (mode # "Name")]

VisitName(st, c, i, token) ==
    CASE c = "," -> addFilter(addPattern(st, "Name", token))
      [] c = "[" -> startNewMode(IF token = <<"exclude:">> THEN [st EXCEPT !.exclusion = TRUE]
                                 ELSE addPattern(st, "Name", token),
                                 "Tag", i + 1)
      [] OTHER   -> st

visitChar(st, text, i) ==
    LET c     == text[i]
        token == SubSeq(text, st.start, i - 1)
    IN  CASE st.mode = "None" /\ c = " "  -> st
          [] st.mode = "None" /\ c = "~"  -> [st EXCEPT !.exclusion = TRUE]
          [] st.mode = "None" /\ c = "["  -> startNewMode(st, "Tag", i + 1)
          [] st.mode = "None" /\ c = "\"" -> startNewMode(st, "QuotedName", i + 1)
          [] st.mode = "None" /\ c \notin {" ", "~", "[", "\""}
               -> VisitName(startNewMode(st, "Name", i), c, i, << >>)
          [] st.mode = "Name"                   -> VisitName(st, c, i, token)
          [] st.mode = "QuotedName" /\ c = "\"" -> addPattern(st, "Name", token)
          [] st.mode = "Tag" /\ c = "]"         -> addPattern(st, "Tag", token)
          [] OTHER                              -> st

\* TestSpecParser::parse, of one argument.
ParseSpecArg(parser, aliases, arg) ==
    LET text  == expandAliases(aliases, arg)
        begin == [parser EXCEPT !.mode = "None", !.exclusion = FALSE, !.start = 0, !.skip = FALSE]
        Step(st, i) == IF st.skip THEN [st EXCEPT !.skip = FALSE] ELSE visitChar(st, text, i)
        end   == FoldDomain(Step, begin, text)
    IN  IF end.mode = "Name" THEN addPattern(end, "Name", SubSeq(text, end.start, Len(text))) ELSE end

parseTestSpec(aliases, args) ==
    addFilter(Fold(LAMBDA st, arg : ParseSpecArg(st, aliases, arg), SpecParser, args)).filters

filterTests(tests, filters, allowThrows) ==
    SelectSeq(tests, LAMBDA t : matchTest(t, filters, allowThrows))
-----------------------------------------------------------------------------
(***************************************************************************)
(* The listings, by the number each one returns.                           *)
(***************************************************************************)
Listed(tests, filters, aliases, allowThrows) ==
    filterTests(tests, IF filters = << >> THEN parseTestSpec(aliases, <<(<<"*">>)>>) ELSE filters, allowThrows)

listTests(tests, filters, aliases, allowThrows) == Len(Listed(tests, filters, aliases, allowThrows))

listTestsNamesOnly(tests, filters, aliases, allowThrows) == Len(Listed(tests, filters, aliases, allowThrows))

\* Tags that differ only in their case are counted once.
listTags(tests, filters, aliases, allowThrows) ==
    Cardinality(UNION {{toLower(t) : t \in test.tags} :
                           test \in ToSet(Listed(tests, filters, aliases, allowThrows))})
=============================================================================
