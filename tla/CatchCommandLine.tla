-------------------------- MODULE CatchCommandLine --------------------------
(***************************************************************************)
(* The command line of a Catch executable: Clara's tokens, the options     *)
(* they set, and the configuration the session is run with.                *)
(***************************************************************************)
EXTENDS CatchTestSpec

CONSTANTS
    Files,        \* the readable files: name -> the sequence of their lines
    Unopenable,   \* the names no output file can be opened under
    Number,       \* the texts that denote a number -> Nat
    NoLimit       \* abortAfter's -1, as the size_t no count reaches

ASSUME CommandLineAssumption ==
    /\ \A name \in DOMAIN Files : Files[name] \in Seq(Seq(STRING))
    /\ \A text \in DOMAIN Number : Number[text] \in Nat
    /\ NoLimit \in Nat

(***************************************************************************)
(* Clara's Parser.  Its mode, position and quoting live on from one        *)
(* argument to the next.  Positions count from 1; "NUL" ends an argument.  *)
(***************************************************************************)
TokenParser == [mode |-> "None", from |-> 1, inQuotes |-> FALSE, tokens |-> << >>, error |-> FALSE]

\* arg.substr(from, i - from): beyond the end it throws, a negative length takes the rest.
Substr(arg, from, i) == SubSeq(arg, from, IF i >= from THEN i - 1 ELSE Len(arg))

handleNone(st, i, c) ==
    IF c = "-" /\ ~st.inQuotes THEN [st EXCEPT !.mode = "MaybeShortOpt"]
    ELSE [st EXCEPT !.mode = "Positional", !.from = i]

handleMaybeShortOpt(st, i, c) ==
    IF c = "-" THEN [st EXCEPT !.mode = "LongOpt", !.from = i + 1]
    ELSE [st EXCEPT !.mode = "ShortOpt", !.from = i]

\* Every symbol of a short option is an option of its own.
OptTokens(mode, optName) ==
    IF mode = "ShortOpt" THEN [j \in 1..Len(optName) |-> [type |-> "ShortOpt", data |-> <<optName[j]>>]]
    ELSE <<[type |-> "LongOpt", data |-> optName]>>

handleOpt(st, i, c, arg) ==
    CASE c \notin {":", "=", "NUL"} -> st
      [] st.from > Len(arg) + 1     -> [st EXCEPT !.error = TRUE]
      [] OTHER -> [st EXCEPT !.tokens = @ \o OptTokens(st.mode, Substr(arg, st.from, i)), !.mode = "None"]

handlePositional(st, i, c, arg) ==
    CASE st.inQuotes \/ c # "NUL"   -> st
      [] st.from > Len(arg) + 1     -> [st EXCEPT !.error = TRUE]
      [] OTHER -> [st EXCEPT !.tokens = Append(@, [type |-> "Positional", data |-> Substr(arg, st.from, i)]),
                             !.mode = "None"]

handleMode(st, i, c, arg) ==
    LET quoted == IF c = "\"" THEN [st EXCEPT !.inQuotes = ~@] ELSE st
    IN  IF st.error THEN st
        ELSE CASE st.mode = "None"                    -> handleNone(quoted, i, c)
               [] st.mode = "MaybeShortOpt"           -> handleMaybeShortOpt(quoted, i, c)
               [] st.mode \in {"ShortOpt", "LongOpt"} -> handleOpt(quoted, i, c, arg)
               [] st.mode = "Positional"              -> handlePositional(quoted, i, c, arg)

parseArg(st, arg) ==
    FoldDomain(LAMBDA s, i : handleMode(s, i, Append(arg, "NUL")[i], arg), st, Append(arg, "NUL"))

\* Reads the arguments after the program's name, up to a double dash.
parseIntoTokens(args) ==
    LET End == {i \in 2..Len(args) : args[i] = <<"-", "-">>}
    IN  Fold(parseArg, TokenParser, SubSeq(args, 2, IF End = {} THEN Len(args) ELSE Min(End) - 1))
-----------------------------------------------------------------------------
(***************************************************************************)
(* ConfigData and the functions that the options are bound to.  "error"    *)
(* stands for the errors gathered while the options are read.              *)
(***************************************************************************)
ConfigData ==
    [listTests |-> FALSE, listTags |-> FALSE, listReporters |-> FALSE, listTestNamesOnly |-> FALSE,
     showSuccessfulTests |-> FALSE, shouldDebugBreak |-> FALSE, noThrow |-> FALSE, showHelp |-> FALSE,
     showInvisibles |-> FALSE, filenamesAsTags |-> FALSE,
     abortAfter |-> NoLimit, rngSeed |-> <<"0">>, warnings |-> {}, showDurations |-> "DefaultForReporter",
     runOrder |-> "InDeclarationOrder", useColour |-> "Auto",
     outputFilename |-> << >>, name |-> << >>, processName |-> << >>,
     reporterNames |-> << >>, testsOrTags |-> << >>, error |-> FALSE]

Wrong(config) == [config EXCEPT !.error = TRUE]

\* convertInto a bool.
IsTrue(text)  == toLower(text) \in {<<"y">>, <<"1">>, <<"true">>, <<"yes">>, <<"on">>}
IsFalse(text) == toLower(text) \in {<<"n">>, <<"0">>, <<"false">>, <<"no">>, <<"off">>}

abortAfterX(config, value) ==
    IF value \in DOMAIN Number /\ Number[value] >= 1 THEN [config EXCEPT !.abortAfter = Number[value]]
    ELSE Wrong(config)

addTestOrTags(config, spec)   == [config EXCEPT !.testsOrTags = Append(@, spec)]
addReporterName(config, name) == [config EXCEPT !.reporterNames = Append(@, name)]

addWarning(config, warning) ==
    IF warning = <<"NoAssertions">> THEN [config EXCEPT !.warnings = @ \cup {"NoAssertions"}]
    ELSE Wrong(config)

\* Any abbreviation of the three words, the empty one included.
setOrder(config, order) ==
    CASE startsWith(<<"decl", "ared">>, order) -> [config EXCEPT !.runOrder = "InDeclarationOrder"]
      [] startsWith(<<"lex", "ical">>, order) /\ order # << >>
           -> [config EXCEPT !.runOrder = "InLexicographicalOrder"]
      [] startsWith(<<"rand", "om">>, order) /\ order # << >>
           -> [config EXCEPT !.runOrder = "InRandomOrder"]
      [] OTHER -> Wrong(config)

setRngSeed(config, seed) ==
    IF seed = <<"time">> \/ seed \in DOMAIN Number THEN [config EXCEPT !.rngSeed = seed] ELSE Wrong(config)

setShowDurations(config, value) ==
    CASE IsTrue(value)  -> [config EXCEPT !.showDurations = "Always"]
      [] IsFalse(value) -> [config EXCEPT !.showDurations = "Never"]
      [] OTHER          -> Wrong(config)

setUseColour(config, value) ==
    CASE toLower(value) = <<"yes">>  -> [config EXCEPT !.useColour = "Yes"]
      [] toLower(value) = <<"no">>   -> [config EXCEPT !.useColour = "No"]
      [] toLower(value) = <<"auto">> -> [config EXCEPT !.useColour = "Auto"]
      [] OTHER                       -> Wrong(config)

Quoted(line) == IF startsWith(line, <<"\"">>) THEN line ELSE <<"\"">> \o line \o <<"\"">>

addLine(config, raw) ==
    LET line == trim(raw)
    IN  IF line = << >> \/ startsWith(line, <<"#">>) THEN config
        ELSE addTestOrTags(config, Append(Quoted(line), ","))

\* One specification per line, quoted and closed by a comma: any of the lines.
loadTestNamesFromFile(config, filename) ==
    IF filename \in DOMAIN Files THEN Fold(addLine, config, Files[filename]) ELSE Wrong(config)
-----------------------------------------------------------------------------
(***************************************************************************)
(* makeCommandLineParser: the options, what they are called, whether they  *)
(* take an argument and what they set.                                     *)
(***************************************************************************)
Flag(short, long, field) == [short |-> short, long |-> long, takesArg |-> FALSE, sets |-> field]
Valued(short, long, field) == [short |-> short, long |-> long, takesArg |-> TRUE, sets |-> field]

Options ==
    {Flag({"?", "h"}, "help", "showHelp"),
     Flag({"l"}, "list-tests", "listTests"),
     Flag({"t"}, "list-tags", "listTags"),
     Flag({"s"}, "success", "showSuccessfulTests"),
     Flag({"b"}, "break", "shouldDebugBreak"),
     Flag({"e"}, "nothrow", "noThrow"),
     Flag({"i"}, "invisibles", "showInvisibles"),
     Flag({"#"}, "filenames-as-tags", "filenamesAsTags"),
     Flag({}, "list-test-names-only", "listTestNamesOnly"),
     Flag({}, "list-reporters", "listReporters"),
     Flag({"a"}, "abort", "abort"),
     Flag({}, "force-colour", "forceColour"),
     Valued({"o"}, "out", "outputFilename"),
     Valued({"n"}, "name", "name"),
     Valued({"r"}, "reporter", "reporter"),
     Valued({"x"}, "abortx", "abortx"),
     Valued({"w"}, "warn", "warn"),
     Valued({"d"}, "durations", "durations"),
     Valued({"f"}, "input-file", "inputFile"),
     Valued({}, "order", "order"),
     Valued({}, "rng-seed", "rngSeed"),
     Valued({}, "use-colour", "useColour")}

\* boundField.set; a flag is set from the text "true".
SetOption(config, sets, value) ==
    CASE sets = "abort"       -> [config EXCEPT !.abortAfter = 1]
      [] sets = "forceColour" -> [config EXCEPT !.useColour = "Yes"]
      [] sets = "reporter"    -> addReporterName(config, value)
      [] sets = "abortx"      -> abortAfterX(config, value)
      [] sets = "warn"        -> addWarning(config, value)
      [] sets = "durations"   -> setShowDurations(config, value)
      [] sets = "inputFile"   -> loadTestNamesFromFile(config, value)
      [] sets = "order"       -> setOrder(config, value)
      [] sets = "rngSeed"     -> setRngSeed(config, value)
      [] sets = "useColour"   -> setUseColour(config, value)
      [] sets \in {"outputFilename", "name"} -> [config EXCEPT ![sets] = value]
      [] OTHER                -> [config EXCEPT ![sets] = TRUE]

Named(token, option) ==
    \/ token.type = "ShortOpt" /\ token.data[1] \in option.short
    \/ token.type = "LongOpt" /\ token.data = <<option.long>>

\* The value of an option is the token after it; without one, and for an
\* option nobody knows, the command line is wrong.
populateOption(tokens, st, i) ==
    LET token == tokens[i]
        known == {o \in Options : Named(token, o)}
        opt   == CHOOSE o \in known : TRUE
        value == i < Len(tokens) /\ tokens[i + 1].type = "Positional"
    IN  IF st.skip THEN [st EXCEPT !.skip = FALSE]
        ELSE CASE known # {} /\ ~opt.takesArg
                    -> [st EXCEPT !.config = SetOption(@, opt.sets, <<"true">>)]
               [] known # {} /\ opt.takesArg /\ value
                    -> [st EXCEPT !.config = SetOption(@, opt.sets, tokens[i + 1].data), !.skip = TRUE]
               [] known = {} /\ token.type = "Positional" -> [st EXCEPT !.unused = Append(@, token)]
               [] OTHER -> [st EXCEPT !.config = Wrong(@)]

populateOptions(tokens, config) ==
    FoldDomain(LAMBDA st, i : populateOption(tokens, st, i),
               [config |-> config, unused |-> << >>, skip |-> FALSE], tokens)

populateFloatingArg(config, token) ==
    IF token.type = "Positional" THEN addTestOrTags(config, token.data) ELSE config

populateFloatingArgs(tokens, config) == Fold(populateFloatingArg, config, tokens)

\* The program's name, without the path before it.
ProcessName(path) ==
    LET Slashes == {i \in DOMAIN path : path[i] \in {"/", "\\"}}
    IN  IF Slashes = {} THEN path ELSE SubSeq(path, Max(Slashes) + 1, Len(path))

\* CommandLine::parseInto.  A failed substr leaves the options unread.
parseInto(args) ==
    LET named  == [ConfigData EXCEPT !.processName = ProcessName(args[1])]
        parsed == parseIntoTokens(args)
        read   == populateOptions(parsed.tokens, named)
    IN  CASE parsed.error -> Wrong(named)
          [] ~parsed.error /\ read.config.error -> read.config
          [] OTHER -> populateFloatingArgs(read.unused, read.config)

\* Config's openStream.
StreamOpens(config) ==
    CASE config.outputFilename = << >>     -> TRUE
      [] config.outputFilename # << >> /\ config.outputFilename[1] = "%"
                                           -> config.outputFilename = <<"%", "debug">>
      [] OTHER                             -> config.outputFilename \notin Unopenable
=============================================================================
