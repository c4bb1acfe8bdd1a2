------------------------------- MODULE Cpplint -------------------------------
(***************************************************************************)
(* A run of cpplint.py: the command line is read, then one file after the  *)
(* other is configured, opened and gone through line by line.  Filters,    *)
(* suppressions and counts are global: what one file sets the next finds,  *)
(* unless it is taken back.                                                *)
(*                                                                         *)
(* A line of a file has the index that the program uses plus one: the first*)
(* is a marker put before the file, the last one put behind it.            *)
(***************************************************************************)
EXTENDS LintIncludes, LintSettings

CONSTANT Inputs     \* command lines [options, files] and disks [files, configs]

\* A list of options or of lines of a configuration file.
OptionList(s) ==
    /\ s \in Seq(ToSet(s))
    /\ \A o \in ToSet(s) :
          /\ o.name = "filter" => o.val \in Seq([sign : STRING, prefix : Seq(STRING)])
          /\ o.name \in {"verbose", "linelength"} => o.val \in Int
          /\ o.name \in {"extensions", "headers"} => o.val \subseteq STRING

\* The lines of a file: the marks in them and what is wrong with each alone.
FileLines(lines) ==
    /\ lines \in Seq(ToSet(lines))
    /\ \A line \in ToSet(lines) :
          /\ line.toks \in Seq(ToSet(line.toks)) /\ line.nolint \in {"none", "line", "next"}
          /\ IsFiniteSet(line.faults) /\ \A f \in line.faults : f[1] \in Categories
          /\ IsFiniteSet(line.bad) /\ line.bad \subseteq Categories

ASSUME InputsAssumption ==
    /\ Extensions \subseteq STRING
    /\ \A i \in Inputs : LET c == i.command configs == i.disk.configs IN
          /\ OptionList(c.options)
          /\ c.files \in Seq(DOMAIN Path)
          /\ \A f \in ToSet(c.files) : Path[f].dir \in Seq(STRING)
          /\ \A d \in DOMAIN configs : configs[d].readable \in BOOLEAN /\ OptionList(configs[d].options)
          /\ \A f \in DOMAIN i.disk.files : FileLines(i.disk.files[f].lines)

\* The categories of the checks are among those that a NOLINT may name.
ASSUME CategoriesAssumption ==
    {<<"build", "class">>, <<"build", "include">>, <<"build", "include", "_alpha">>,
     <<"build", "include", "_order">>, <<"build", "include", "_what_you_use">>,
     <<"build", "namespaces">>, <<"legal", "copyright">>, <<"readability", "braces">>,
     <<"readability", "constructors">>, <<"readability", "fn_size">>,
     <<"readability", "multiline", "_comment">>, <<"readability", "multiline", "_string">>,
     <<"readability", "namespace">>, <<"runtime", "indentation_namespace">>,
     <<"whitespace", "blank_line">>, <<"whitespace", "ending_newline">>,
     <<"whitespace", "indent">>, <<"whitespace", "line_length">>, <<"whitespace", "newline">>}
        \union EmptyBodies \subseteq Categories

VARIABLES command, disk,  \* the input
          phase,          \* "arguments", "next", "open", "lines", "ended"
          todo,           \* the files that are left
          st,             \* _cpplint_state and the other global settings
          suppress,       \* the NOLINT marks in force
          file,           \* the file at hand
          reports,        \* every error found, with whether it was printed
          count,          \* the errors printed, in total and by category
          status          \* the exit status, -1 while the program runs

vars == <<command, disk, phase, todo, st, suppress, file, reports, count, status>>

NoFile == [name |-> "", path |-> <<>>, clean |-> <<>>, at |-> 0, nest |-> NestingState,
           fn |-> FunctionState, inc |-> IncludeState]

Init == /\ \E i \in Inputs : command = i.command /\ disk = i.disk
        /\ phase = "arguments" /\ todo = <<>> /\ st = CppLintState
        /\ suppress = NoSuppressions /\ file = NoFile
        /\ reports = <<>> /\ count = ResetErrorCounts /\ status = -1

-----------------------------------------------------------------------------
(* Reports                                                                 *)

\* What is judged so far: the suppressions, the reports and the counts.
Judged == [suppress |-> suppress, reports |-> reports, count |-> count]

\* An error as it is judged by the settings and suppressions at this moment; at
\* is the line that is being looked at, 0 when that is the whole file.
Report(j, at, e) ==
    [file |-> file.name, line |-> e.line, category |-> e.category, at |-> at,
     confidence |-> e.confidence, printed |-> ShouldPrintError(st, j.suppress, e)]

\* Errors are reported one after the other, and counted when they are printed.
Errors(j, at, es) ==
    LET new == [i \in DOMAIN es |-> Report(j, at, es[i])]
    IN  [j EXCEPT !.reports = @ \o new,
                  !.count = FoldLeft(LAMBDA c, r : IF r.printed
                                         THEN IncrementErrorCount(c, st.counting, r.category)
                                         ELSE c, @, new)]

\* The NOLINT of a line takes effect, or is malformed.
Nolint(j, at, clean, l) ==
    LET line == clean.raw[l]
    IN  Errors([j EXCEPT !.suppress = ParseNolintSuppressions(@, line, l)], at,
               When(MalformedNolint(line), Found(l, <<"readability", "nolint">>, 5)))

Judge(j) == suppress' = j.suppress /\ reports' = j.reports /\ count' = j.count

-----------------------------------------------------------------------------
(* The command line and the configuration                                  *)

Exit(s) == phase' = "ended" /\ status' = s

ParseArguments ==
    LET p == ParseCommand(command.options, command.files) IN
    /\ phase = "arguments"
    /\ st' = p.st
    /\ IF p.exit = -1 THEN phase' = "next" /\ status' = -1 ELSE Exit(p.exit)
    /\ todo' = command.files
    /\ UNCHANGED <<command, disk, suppress, file, reports, count>>

\* The configuration of the next file: after a backup of the filters, which
\* are back at once when the file is excluded.  A filter without a sign ends
\* the program.
Configure ==
    LET name == Head(todo)
        path == Path[name]
        c    == ProcessConfigOverrides(BackupFilters(st), path.dir, name, disk.configs)
    IN  /\ phase = "next" /\ todo # <<>>
        /\ IF c.excluded
           THEN /\ st' = RestoreFilters(c.st) /\ todo' = Tail(todo)
                /\ UNCHANGED <<phase, file, status>>
           ELSE IF BadFilters(c.st)
           THEN st' = c.st /\ Exit(1) /\ UNCHANGED <<todo, file>>
           ELSE /\ st' = c.st /\ phase' = "open"
                /\ file' = [NoFile EXCEPT !.name = name, !.path = path]
                /\ UNCHANGED <<todo, status>>
        /\ UNCHANGED <<command, disk, suppress, reports, count>>

-----------------------------------------------------------------------------
(* A file                                                                  *)

\* The file is done with, or left alone.
Leave == /\ st' = RestoreFilters(st) /\ phase' = "next" /\ todo' = Tail(todo)
         /\ file' = NoFile

\* The lines put before and behind a file have a width too.
Marker(width) == [Plain(<<"//", "marker", "so">>) EXCEPT !.width = width]
WithMarkers(lines) == <<Marker(53)>> \o lines \o <<Marker(44)>>

\* A copyright has to be in the first ten lines.
CheckForCopyright(lines) ==
    LET n == IF Len(lines) < 11 THEN Len(lines) ELSE 11
    IN  When(\A i \in 2..n : Find(lines[i].toks, "Copyright") = 0,
             Found(1, <<"legal", "copyright">>, 5))

\* What is found before the first line has been looked at.
FoundAtOpening(lines) ==
    LET open == MultiLineComments(Toks(lines)).open
    IN  CheckForCopyright(lines)
        \o When(open # 0, Found(open + 1, <<"readability", "multiline", "_comment">>, 5))

OpenFile ==
    /\ phase = "open"
    /\ IF file.name \notin DOMAIN disk.files \/ file.path.ext \notin st.extensions
       THEN Leave /\ UNCHANGED <<suppress, reports, count>>
       ELSE LET lines == WithMarkers(disk.files[file.name].lines)
                clean == CleansedLines(RemoveMultiLineComments(lines))
                fresh == [NoSuppressions EXCEPT !.global = ProcessGlobalSuppressions(lines)]
            IN  /\ Judge(Errors([Judged EXCEPT !.suppress = fresh], 0, FoundAtOpening(lines)))
                /\ file' = [file EXCEPT !.clean = clean, !.at = 1]
                /\ phase' = "lines"
                /\ UNCHANGED <<todo, st>>
    /\ UNCHANGED <<command, disk, status>>

\* The faults of a line, in inline assembly only those of the language.
Faults(clean, l, cxx11) ==
    LET F == {f \in clean.raw[l].faults : (f[1] = <<"build", "c++11">>) = cxx11}
    IN  FlattenSeq(SetToSeq({Found(l, f[1], f[2]) : f \in F}))

\* Faulty variant: the marks of lines further down are not read before.
FaultyCheckTrailingSemicolon(j, clean, l) ==
    LET end == TrailingSemicolon(clean, l)
    IN  IF end = 0 THEN j ELSE Errors(j, l, Found(end, <<"readability", "braces">>, 4))

\* The NOLINT marks of the brace's line and of the line before it, which may
\* not have been reached, are read first.
CheckTrailingSemicolon(j, clean, l) ==
    LET end == TrailingSemicolon(clean, l)
    IN  IF end = 0 THEN j
        ELSE Errors(Nolint(Nolint(j, l, clean, end - 1), l, clean, end), l,
                    Found(end, <<"readability", "braces">>, 4))

\* One line: inline assembly is spared from most checks.
ProcessLine ==
    LET l     == file.at
        clean == file.clean
        Begun(u) == Errors(Nolint(Judged, l, clean, l), l,
                           u.errors \o CheckForNamespaceIndentation(u.nest, clean, l))
        Style(fn) == fn.errors \o CheckForMultilineCommentsAndStrings(clean, l)
                     \o CheckStyle(clean, l, st.width)
        Rest(nest, lang) == CheckEmptyBlockBody(clean, l) \o CheckClass(nest, clean, l)
                            \o lang.errors \o Faults(clean, l, FALSE) \o Faults(clean, l, TRUE)
    IN  /\ phase = "lines" /\ l \in DOMAIN clean.raw
        /\ \E u \in {Update(file.nest, clean, l)} :
              IF InAsmBlock(u.nest)
              THEN /\ file' = [file EXCEPT !.at = l + 1, !.nest = u.nest]
                   /\ Judge(Errors(Begun(u), l, Faults(clean, l, TRUE)))
              ELSE \E fn \in {CheckForFunctionLengths(file.fn, clean, l, st.verbose)},
                      lang \in {CheckLanguage(file.path, file.inc, clean, l)} :
                     /\ file' = [file EXCEPT !.at = l + 1, !.nest = u.nest, !.fn = fn.fn,
                                             !.inc = lang.inc]
                     /\ \E j \in {Errors(Begun(u), l, Style(fn))} :
                           Judge(Errors(CheckTrailingSemicolon(j, clean, l), l,
                                        Rest(u.nest, lang)))
        /\ UNCHANGED <<command, disk, phase, todo, st, status>>

CheckForBadCharacters(lines) ==
    FlattenSeq([i \in DOMAIN lines |->
        FlattenSeq(SetToSeq({Found(i, c, 5) : c \in lines[i].bad}))])

\* The line before the marker is what follows the last newline.
CheckForNewlineAtEOF(lines) ==
    LET n == Len(lines) - 1
    IN  When(lines[n].toks # <<>> \/ lines[n].indent > 0,
             Found(n, <<"whitespace", "ending_newline">>, 5))

\* Lines that end in CR are wrong when others do not.
MixedEndings(lines) ==
    LET ended == 1..Len(lines) - 1
        cr    == {i \in ended : lines[i].cr}
    IN  IF cr = ended THEN <<>>
        ELSE FlattenSeq([i \in ended |->
                 When(i \in cr, Found(i + 1, <<"whitespace", "newline">>, 1))])

FinishFile ==
    LET clean == file.clean
        found == CheckCompletedBlocks(file.nest)
                 \o CheckForIncludeWhatYouUse(file.path, file.inc, clean, disk.files)
                 \o CheckHeaderFileIncluded(file.path, file.inc, disk.files)
                 \o CheckForBadCharacters(clean.raw)
                 \o CheckForNewlineAtEOF(clean.raw)
                 \o MixedEndings(disk.files[file.name].lines)
    IN  /\ phase = "lines" /\ file.at = Len(clean.raw) + 1
        /\ Judge(Errors(Judged, file.at, found))
        /\ Leave
        /\ UNCHANGED <<command, disk, status>>

\* No more files: the counts are printed, and the status tells whether there
\* were errors.
Finish ==
    /\ phase = "next" /\ todo = <<>>
    /\ Exit(IF count.total > 0 THEN 1 ELSE 0)
    /\ UNCHANGED <<command, disk, todo, st, suppress, file, reports, count>>

Next == ParseArguments \/ Configure \/ OpenFile \/ ProcessLine \/ FinishFile \/ Finish

Spec == Init /\ [][Next]_vars

-----------------------------------------------------------------------------
(* What is promised about a text                                           *)

AtFirstLine == phase = "lines" /\ file.at = 1

\* The text of the file at hand, markers included.
Text == Toks(WithMarkers(disk.files[file.name].lines))

\* A file whose comments or strings do not end where they should is reported.
Warned ==
    \/ MultiLineComments(Text).open # 0
    \/ \E i \in DOMAIN Text : CheckForMultilineCommentsAndStrings(file.clean, i) # <<>>

\* What the checks are given as the code of a line is its code by the rules
\* of the language: after comments, strings and raw strings have been taken
\* out of the whole file step by step (RemoveMultiLineComments,
\* CleansedLines), nothing of them is left and no code is lost, in every
\* text that the checker can read and has no complaint about.
ElidedIsCode ==
    AtFirstLine /\ Readable(Text) /\ ~Warned =>
        \A i \in DOMAIN Text : ~IncludeLine(Text[i]) =>
            WithoutQuotes(file.clean.elided[i]) = CodeOf(Text[i], Reading(Text)[i])

\* Signs that the two searches read in two ways, as the comment of the search
\* backwards says ("almost the reverse"): a >= between spaces, and the names
\* of operators.
ReadInTwoWays == {">=", "operator<", "operator<<", "operator>"}

\* The search for the other end of an expression gives the same answer from
\* both ends: from the end that CloseExpression finds, ReverseCloseExpression
\* is back where it began, whatever signs < and > stand between, if none of
\* the lines from one end to the other has a sign that is read in two ways.
CloseAndReverseAgree ==
    AtFirstLine => LET E == file.clean.elided IN
        \A l \in DOMAIN E : \A p \in Places(E[l], "(") \union Places(E[l], "[")
                                    \union Places(E[l], "{") \union Places(E[l], "<") :
            LET end == CloseExpression(E, l, p)
            IN  end # Nowhere /\ (\A k \in l..end[1] : ToSet(E[k]) \intersect ReadInTwoWays = {}) =>
                    ReverseCloseExpression(E, end[1], end[2]) = <<l, p>>

\* For each line the conditionals that are open behind it: whether each has
\* come to an alternative.
OpenConditionals(E) ==
    LET Open[i \in 0..Len(E)] ==
            IF i = 0 THEN <<>>
            ELSE LET d == Directive(E[i]) open == Open[i - 1] IN
                 CASE d \in Conditional -> Append(open, FALSE)
                   [] d \in Alternative /\ open # <<>> -> OnTop(open, TRUE)
                   [] d = "#endif" /\ open # <<>> -> Front(open)
                   [] OTHER -> open
    IN  Open

\* The stack of blocks that the lines up to l leave without those that belong
\* to an #else or #elif.
StackOf(clean, l) ==
    LET E == clean.elided
        open == OpenConditionals(E)
        InFirstBranch(i) == Directive(E[i]) # "#endif" /\ TRUE \notin ToSet(open[i])
        Stack[i \in 0..l] ==
            IF i = 0 THEN <<>>
            ELSE IF ~InFirstBranch(i) THEN Stack[i - 1]
            ELSE Update([NestingState EXCEPT !.stack = Stack[i - 1]], clean, i).nest.stack
    IN  Stack[l]

\* Once every #if has its #endif, the blocks that UpdatePreprocessor left on
\* the stack are those that the first branches alone open and close: no brace
\* of an #else or #elif is left open or closes anything for good, however the
\* conditionals are nested.  What a line of an #endif has besides is a comment.
ElseLeavesNoTrace ==
    phase = "lines" /\ file.nest.pp = <<>> =>
        LET E == file.clean.elided
            l == file.at - 1
            Seen(stack) == [i \in DOMAIN stack |->
                <<stack[i].kind, stack[i].name, stack[i].start, stack[i].seen, stack[i].parens>>]
        IN  (\A i \in 1..l : Directive(E[i]) = "#endif" => \A t \in ToSet(E[i]) : Word(t)) =>
            \E stack \in {StackOf(file.clean, l)} : Seen(file.nest.stack) = Seen(stack)

\* A header that a file includes twice, at first outside of all conditionals,
\* is reported when it is met again (_IncludeState.include_list, CheckIncludeLine),
\* whatever conditionals stand between and around.  What is an #include or a
\* conditional is told by the code of a line, the name by its text; lines of
\* inline assembly are not looked at, and an #else belongs to an #if.
RepeatedIncludeReported ==
    phase = "lines" =>
        LET E == file.clean.elided
            open == OpenConditionals(E)
            read == 1..file.at - 1
            Name(l) == Include(file.clean.lines[l]).name
        IN  (\A l \in read : /\ Directive(E[l]) \in Alternative => open[l - 1] # <<>>
                             /\ "asm" \notin ToSet(E[l])) =>
            \A i, k \in {l \in read : IncludeLine(E[l])} :
                /\ i < k /\ Name(i) = Name(k) /\ ~Path[Name(i)].foreign
                /\ open[i] = <<>>
                => \E r \in ToSet(reports) : /\ r.file = file.name /\ r.at = k
                                             /\ r.category = <<"build", "include">>

-----------------------------------------------------------------------------
(* What is promised about reports                                          *)

\* The values that an option is given on the command line, and the last one.
Given(name, default) ==
    LET I == {i \in DOMAIN command.options : command.options[i].name = name}
    IN  IF I = {} THEN default ELSE command.options[Max(I)].val

\* The filters for a file: the default, the command line's, and those of the
\* configuration files from the root, or from one that wants no parent, down;
\* the lines of one file count from the last to the first.
FiltersFor(f) ==
    LET dir == Path[f].dir
        Cfg(k) == SubSeq(dir, 1, k)
        Stops(k) == /\ Cfg(k) \in DOMAIN disk.configs
                    /\ \/ ~disk.configs[Cfg(k)].readable
                       \/ \E o \in ToSet(disk.configs[Cfg(k)].options) : o.name = "set noparent"
        Own(k) == IF Cfg(k) \notin DOMAIN disk.configs \/ (\E j \in k + 1..Len(dir) : Stops(j))
                     \/ ~disk.configs[Cfg(k)].readable
                  THEN <<>>
                  ELSE FlattenSeq(Reverse([i \in DOMAIN disk.configs[Cfg(k)].options |->
                         LET o == disk.configs[Cfg(k)].options[i] IN
                         IF o.name = "filter" THEN o.val ELSE <<>>]))
    IN  DefaultFilters \o Given("filter", <<>>)
        \o FlattenSeq([k \in 1..Len(dir) + 1 |-> Own(k - 1)])

\* The last of the filters that fit shows or hides a category.
Hidden(f, category) ==
    LET F == FiltersFor(f)
        I == {i \in DOMAIN F : IsPrefix(F[i].prefix, category)}
    IN  I # {} /\ F[Max(I)].sign = "-"

\* A NOLINT in the first n lines of a file, outside of comments that are
\* blanked, excuses the category on the line; a mark for the whole file, at
\* any place, its categories.  The first line of the file has number 2.
Excused(f, category, l, n) ==
    LET L == disk.files[f].lines
        gone == MultiLineComments(Toks(WithMarkers(L))).removed
    IN  \/ \E i \in DOMAIN L : i + 1 \in (1..n) \ gone /\
            /\ L[i].about \in {<<>>, category}
            /\ \/ L[i].nolint = "line" /\ l = i + 1
               \/ L[i].nolint = "next" /\ l = i + 2
        \/ /\ category = <<"readability", "casting">>
           /\ \E i \in DOMAIN L : "LINT_C_FILE" \in ToSet(L[i].toks)
        \/ /\ category = <<"whitespace", "tab">>
           /\ \E i \in DOMAIN L : "LINT_KERNEL_FILE" \in ToSet(L[i].toks)

\* The lines of a file, the marker before it included.
WholeFile(f) == Len(disk.files[f].lines) + 1

\* An error at a line that had not been reached and whose marks are not read.
LooksAhead(r) == r.category \in EmptyBodies /\ r.line > r.at

\* Of the errors that are found, those are printed that no NOLINT in the
\* file excuses, that no filter for the file hides and that are sure enough,
\* and only those, whatever has been read of the file when an error is found
\* (a semicolon behind a block is, long before its line has been reached) and
\* whatever files came before (Error, ProcessConfigOverrides, ResetNolintSuppressions,
\* CheckTrailingSemicolon).  Empty bodies further down are the exception: of
\* the marks only those are sure to excuse them that have been read by then
\* (CheckEmptyBlockBody).  What is found before the first line cannot be
\* excused, and of marks that are malformed those read early are not.
ReportedUnlessExcused ==
    phase \in {"next", "ended"} => \A i \in DOMAIN reports :
        LET r == reports[i]
            sure == r.confidence >= Given("verbose", 1) /\ ~Hidden(r.file, r.category)
            Stands(n) == r.at # 0 => ~Excused(r.file, r.category, r.line, n)
        IN  r.category # <<"readability", "nolint">> =>
              /\ sure /\ Stands(WholeFile(r.file)) => r.printed
              /\ r.printed => sure /\ Stands(IF LooksAhead(r) THEN r.at ELSE WholeFile(r.file))

\* Between two files the filters are those of the command line again, whether
\* the last file was checked, excluded, unreadable or of no known kind
\* (BackupFilters, RestoreFilters).
FiltersAsGiven ==
    phase = "next" => st.filters = DefaultFilters \o Given("filter", <<>>)

\* A file is checked with the line length of the nearest configuration that
\* gives one: "CPPLINT.cfg has an effect on files in the same directory and all
\* sub-directories, unless overridden by a nested configuration file" (cpplint.py:177).
NestedLineLength ==
    phase = "open" =>
        LET dir == file.path.dir
            Options(k) == IF SubSeq(dir, 1, k) \notin DOMAIN disk.configs THEN <<>>
                          ELSE disk.configs[SubSeq(dir, 1, k)].options
            Lengths(k) == SelectSeq(Options(k), LAMBDA o : o.name = "linelength")
            K == {k \in 0..Len(dir) : Lengths(k) # <<>>}
        IN  /\ K # {}
            /\ \A c \in DOMAIN disk.configs : disk.configs[c].readable
            /\ \A k \in 0..Len(dir) : \A o \in ToSet(Options(k)) : o.name # "set noparent"
            => st.width = Last(Lengths(CHOOSE k \in K : \A j \in K : k >= j)).val
=============================================================================
