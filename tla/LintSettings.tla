----------------------------- MODULE LintSettings -----------------------------
(***************************************************************************)
(* What decides whether cpplint.py prints an error: the verbosity, the     *)
(* filters and the NOLINT marks, and where the settings come from, the     *)
(* command line and the CPPLINT.cfg files above a source file.             *)
(*                                                                         *)
(* A category is the sequence of its parts, so that a filter's prefix is a *)
(* prefix of it; a filter is a sign and a prefix.  The output format,      *)
(* which changes the wording only, and the root, which only the names of   *)
(* header guards need, are left out.  A line length of -1 stands for what  *)
(* is no number.                                                           *)
(***************************************************************************)
EXTENDS Integers, Sequences, FiniteSets, SequencesExt

CONSTANTS Categories,   \* the categories of the errors
          Legacy,       \* those that a NOLINT may still name
          Extensions    \* the extensions that are looked at by default

Filter(sign, prefix) == [sign |-> sign, prefix |-> prefix]

DefaultFilters == <<Filter("-", <<"build", "include", "_alpha">>)>>

CppLintState ==
    [verbose |-> 1, filters |-> DefaultFilters, backup |-> DefaultFilters,
     counting |-> "total", width |-> 80, extensions |-> Extensions]

\* Filters are appended; one without a sign ends the program.
AddFilters(st, filters) == [st EXCEPT !.filters = @ \o filters]
BadFilters(st) == \E i \in DOMAIN st.filters : st.filters[i].sign \notin {"+", "-"}

SetFilters(st, filters) == AddFilters([st EXCEPT !.filters = DefaultFilters], filters)

\* Faulty variant: the filters stay as they are.
FaultyRestoreFilters(st) == st

BackupFilters(st) == [st EXCEPT !.backup = st.filters]
RestoreFilters(st) == [st EXCEPT !.filters = st.backup]

-----------------------------------------------------------------------------
(* The command line                                                        *)

\* What an option does when it is met; exit is the status that the program
\* ends with, -1 while it goes on.  The filters and the counting style are
\* kept for the end, when they replace what there was.
Option(p, o) ==
    IF p.exit # -1 THEN p
    ELSE CASE o.name = "help" -> [p EXCEPT !.exit = 1]
           [] o.name = "output" -> IF o.val \in {"emacs", "vs7", "eclipse"} THEN p
                                   ELSE [p EXCEPT !.exit = 1]
           [] o.name = "verbose" -> [p EXCEPT !.st.verbose = o.val]
           [] o.name = "filter" -> IF o.val = <<>> THEN [p EXCEPT !.exit = 0]
                                   ELSE [p EXCEPT !.filters = o.val]
           [] o.name = "counting" -> IF o.val \in {"total", "toplevel", "detailed"}
                                     THEN [p EXCEPT !.counting = o.val]
                                     ELSE [p EXCEPT !.exit = 1]
           [] o.name = "linelength" -> IF o.val >= 0 THEN [p EXCEPT !.st.width = o.val]
                                       ELSE [p EXCEPT !.exit = 1]
           [] o.name = "extensions" -> [p EXCEPT !.st.extensions = o.val]
           [] o.name = "headers" -> [p EXCEPT !.st.extensions = @ \union o.val]
           [] OTHER -> p

\* An option that is not known is found before any other is looked at.
ParseCommand(options, files) ==
    LET known == {"help", "output", "verbose", "filter", "counting", "linelength",
                  "extensions", "headers"}
        p == FoldLeft(Option, [st |-> CppLintState, filters |-> <<>>, counting |-> "",
                               exit |-> -1], options)
        st == [SetFilters(p.st, p.filters) EXCEPT !.counting = p.counting]
    IN  IF \E i \in DOMAIN options : options[i].name \notin known THEN [st |-> p.st, exit |-> 1]
        ELSE IF p.exit # -1 THEN [st |-> p.st, exit |-> p.exit]
        ELSE IF files = <<>> \/ BadFilters(st) THEN [st |-> p.st, exit |-> 1]
        ELSE [st |-> st, exit |-> -1]

-----------------------------------------------------------------------------
(* The configuration files                                                 *)

\* A line of a configuration file: filters are collected, later lines first,
\* the rest takes effect at once.  The names to exclude are those of files and
\* of directories; base is the one that lies on the way to the file.
ConfigOption(c, o, base) ==
    IF c.excluded THEN c
    ELSE CASE o.name = "set noparent" -> [c EXCEPT !.looking = FALSE]
           [] o.name = "filter" -> [c EXCEPT !.filters = o.val \o @]
           [] o.name = "exclude_files" -> [c EXCEPT !.excluded = base \in o.val]
           [] o.name = "linelength" -> IF o.val >= 0 THEN [c EXCEPT !.st.width = o.val] ELSE c
           [] o.name = "headers" -> [c EXCEPT !.st.extensions = @ \union o.val]
           [] OTHER -> c

\* A configuration file is read unless it does not exist, or one below it
\* said to stop, cannot be read, or excluded the file.
ProcessConfigFile(c, configs, here, base) ==
    IF ~c.looking \/ c.excluded \/ here \notin DOMAIN configs THEN c
    ELSE IF ~configs[here].readable THEN [c EXCEPT !.looking = FALSE]
    ELSE FoldLeft(LAMBDA d, o : ConfigOption(d, o, base), c, configs[here].options)

\* From the directory of a file up to the root.  The filters of the
\* directories further up come first.
ProcessConfigOverrides(st, dir, name, configs) ==
    LET Up[k \in 0..Len(dir) + 1] ==   \* the state after k directories, the last dir[1..n]
            LET n == Len(dir) + 1 - k IN
            IF k = 0 THEN [st |-> st, filters |-> <<>>, looking |-> TRUE, excluded |-> FALSE]
            ELSE ProcessConfigFile(Up[k - 1], configs, SubSeq(dir, 1, n),
                                   IF k = 1 THEN name ELSE dir[n + 1])
        c == Up[Len(dir) + 1]
    IN  [st |-> IF c.excluded THEN c.st ELSE AddFilters(c.st, c.filters),
         excluded |-> c.excluded]

-----------------------------------------------------------------------------
(* Suppression and judgement                                               *)

NoSuppressions == [global |-> {}, lines |-> {}]

\* A NOLINT without a category is about all of them.
ParseNolintSuppressions(suppress, line, l) ==
    LET at == IF line.nolint = "next" THEN l + 1 ELSE l
    IN  IF line.nolint = "none" \/ (line.about # <<>> /\ line.about \notin Categories)
        THEN suppress ELSE [suppress EXCEPT !.lines = @ \union {<<line.about, at>>}]

MalformedNolint(line) ==
    line.nolint # "none" /\ line.about # <<>> /\ line.about \notin Categories \union Legacy

\* A file in C, or of the kernel, says so anywhere.
ProcessGlobalSuppressions(lines) ==
    LET said == UNION {ToSet(lines[i].toks) : i \in DOMAIN lines}
    IN  {c \in {<<"readability", "casting">>} : "LINT_C_FILE" \in said}
        \union {c \in {<<"whitespace", "tab">>} : "LINT_KERNEL_FILE" \in said}

IsErrorSuppressedByNolint(suppress, category, l) ==
    category \in suppress.global \/ {<<category, l>>, << <<>>, l>>} \cap suppress.lines # {}

\* The last filter that fits decides.
Filtered(filters, category) ==
    FoldLeft(LAMBDA out, f : IF IsPrefix(f.prefix, category) THEN f.sign = "-" ELSE out,
             FALSE, filters)

ShouldPrintError(st, suppress, e) ==
    /\ ~IsErrorSuppressedByNolint(suppress, e.category, e.line)
    /\ e.confidence >= st.verbose
    /\ ~Filtered(st.filters, e.category)

-----------------------------------------------------------------------------
(* Counting                                                                *)

ResetErrorCounts == [total |-> 0, byCategory |-> <<>>]

IncrementErrorCount(count, counting, category) ==
    LET c == IF counting = "toplevel" THEN <<Head(category)>> ELSE category
        old == IF c \in DOMAIN count.byCategory THEN count.byCategory[c] ELSE 0
    IN  [total |-> count.total + 1,
         byCategory |-> IF counting \in {"toplevel", "detailed"}
                        THEN [d \in DOMAIN count.byCategory \union {c} |->
                                IF d = c THEN old + 1 ELSE count.byCategory[d]]
                        ELSE count.byCategory]
=============================================================================
