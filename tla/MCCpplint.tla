------------------------------ MODULE MCCpplint ------------------------------
(* Files, configurations and command lines for the runs of Cpplint. *)
EXTENDS Cpplint

MCCategories ==
    {<<"build", c>> : c \in {"class", "c++11", "include", "namespaces"}}
    \union {<<"build", "include", c>> : c \in {"_alpha", "_order", "_what_you_use"}}
    \union {<<"legal", "copyright">>}
    \union {<<"readability", c>> : c \in {"braces", "casting", "constructors", "fn_size",
                                         "namespace", "nolint", "nul"}}
    \union {<<"readability", "multiline", c>> : c \in {"_comment", "_string"}}
    \union {<<"runtime", c>> : c \in {"indentation_namespace", "int"}}
    \union {<<"whitespace", c>> : c \in {"blank_line", "ending_newline", "indent", "line_length",
                                        "newline", "tab", "empty_conditional_body",
                                        "empty_if_body", "empty_loop_body"}}
MCLegacy == {<<"readability", "streams">>}
MCExtensions == {"c", "cc", "h"}

\* dir, base name, extension, rank, C++ header
P(dir, base, ext, rank, cpp) ==
    [dir |-> dir, base |-> base, suffix |-> "", ext |-> ext, first |-> base,
     rank |-> rank, cpp |-> cpp, foreign |-> FALSE]

Names == {"src/lost.cc", "src/in/foo.cc", "src/in/foo.h", "src/bar.cc", "lib/bar.h", "src/notes.txt",
          "vector", "stdio.h"}
MCPath == [n \in Names |->
    CASE n = "src/in/foo.cc" -> P(<<"src", "in">>, "foo", "cc", 5, FALSE)
      [] n = "src/in/foo.h"  -> P(<<"src", "in">>, "foo", "h", 6, FALSE)
      [] n = "src/lost.cc"   -> P(<<"src">>, "lost", "cc", 4, FALSE)
      [] n = "src/bar.cc"    -> P(<<"src">>, "bar", "cc", 2, FALSE)
      [] n = "lib/bar.h"     -> P(<<"lib">>, "bar", "h", 1, FALSE)
      [] n = "src/notes.txt" -> P(<<"src">>, "notes", "txt", 3, FALSE)
      [] n = "vector"        -> P(<<>>, "vector", "", 8, TRUE)
      [] n = "stdio.h"       -> P(<<>>, "stdio", "h", 7, FALSE)]

MCDotted == {n \in Names : MCPath[n].ext # ""}

MCNeeds == [t \in {"vector", "std::vector"} |->
                [header |-> "vector", kind |-> "template", std |-> TRUE]]

Words(n, S) == UNION {[1..k -> S] : k \in 0..n}
Plains(w) == [i \in DOMAIN w |-> Plain(w[i])]
Ended(lines) == Append(lines, Plain(<<>>))
Inc(name) == <<"#include", "q", name, "q">>

NoConfigs == [d \in {} |-> d]
Tree(files) == [files |-> [f \in DOMAIN files |-> [lines |-> files[f]]], configs |-> NoConfigs]
Just(lines) == Tree([f \in {"src/bar.cc"} |-> lines])

-----------------------------------------------------------------------------
(* One file: comments and strings, expressions, conditionals, includes *)

TextLines ==
    {<<"a", "q", "b", "//", "q", "//", "c">>, <<"q", "bq", "//", "q", "a">>, <<"a", "//", "q", "b">>,
     <<"/*", "a">>, <<"b", "*/">>, <<"a", "/*", "b", "*/", "c">>, <<"a", "/*", "b">>,
     <<"a", "R(", "b", "q">>, <<"//", "c", ")q", "d">>, <<"a", "R(", "//", ")q", "b">>,
     <<"a", "q", "b">>}

\* Short lines of any marks and signs.
Marked == {"a"} \union Marks
Signed == {"a", "(", ")", "{", "}", "<", ">", ";", "->"}
Short == {<<w>> : w \in Words(4, Marked) \union Words(4, Signed)}
         \union {<<v, w>> : v, w \in Words(2, Marked)}

SignLines ==
    {<<"a", "(", "<">>, <<"<", ";", ">">>, <<"b", "<", "c">>, <<")", ">", ";">>, <<"[", "<", "]">>,
     <<"{", "<=", "->", "}">>, <<"<", "<<", ">">>, <<"a", ">", ")">>, <<";", "}">>,
     <<"a", ">=", "b", ">">>, <<"operator<", "(", "a", ">">>}

BlockLines ==
    {<<"#if", "x">>, <<"#elif", "y">>, <<"#else">>, <<"#endif">>, <<"namespace", "n", "{">>, <<"class", "C", "{">>,
     <<"class", "D">>, <<"f", "(", ")", "{">>, <<"}", ";">>}

Bodies == {<<"class", "C", "{">>, <<"class", "D">>, <<"f", "(">>, <<"{", "{">>, <<"}">>}
Branches ==
    {<< <<"namespace", "n", "{">>, <<"#if", "x">>, a, <<"#else">>, b, <<"#endif">>, c>> : a, b, c \in Bodies}
    \union {<< <<"#if", "x">>, a, <<"#elif", "y">>, b, <<"#else">>, c, <<"#endif">> >> : a, b, c \in Bodies}
    \union {<< <<"#if", "x">>, a, <<"#if", "y">>, <<"#else">>, b, <<"#endif">>, <<"#else">>, c, <<"#endif">> >> :
                a, b, c \in Bodies}

IncludeLines == {Inc("lib/bar.h"), <<"#include", "<", "vector", ">">>, <<"#ifdef", "x">>,
                 <<"#else">>, <<"#endif">>}

\* Inline assembly, and a comment whose quotes hide an include.
UnseenLines == {<<"asm", "{">>, <<"/*", "q", "*/">> \o Inc("lib/bar.h")}

FileTexts == Short \union Words(3, TextLines) \union Words(3, SignLines) \union Words(3, BlockLines)
             \union Branches \union Words(5, IncludeLines)
             \union Words(4, IncludeLines \union UnseenLines)

Input(options, files, tree) ==
    [command |-> [options |-> options, files |-> files], disk |-> tree]

FileInputs == [command : {[options |-> <<>>, files |-> <<"src/bar.cc">>]},
               disk : {Just(Ended(Plains(w))) : w \in FileTexts}]

-----------------------------------------------------------------------------
(* Several files: marks, faults, settings *)

Ghost == <<"readability", "ghost">>
About == {<<>>, <<"readability", "braces">>, <<"readability", "streams">>, Ghost}
Mark(line, nolint, about) == [line EXCEPT !.nolint = nolint, !.about = about]
Faulty(line, category, confidence) == [line EXCEPT !.faults = {<<category, confidence>>}]

Head1 == Plain(<<"f", "(", ")", "{">>)
Foot == Plain(<<"}", ";">>)
Body == Faulty(Plain(<<"int", "x", ";">>), <<"runtime", "int">>, 4)
New == Faulty(Plain(<<"x", ";">>), <<"build", "c++11">>, 5)

MarkedLines ==
    {Foot, Plain(<<"y", ";">>), Mark(Plain(<<"/*">>), "line", <<>>), Mark(Plain(<<"*/">>), "next", <<>>)}
    \union {Mark(Foot, "line", a) : a \in About}
    \union {Mark(Plain(<<"x", ";">>), "next", a) : a \in About \ {<<"readability", "streams">>}}

OtherLines ==
    {Head1, Foot, New, [Body EXCEPT !.indent = 1, !.width = 90, !.cr = TRUE],
     Plain(<<"asm", "(">>), Plain(<<"class", "C", "{">>),
     Plain(<<"//", "LINT_C_FILE">>), Faulty(Plain(<<"z", ";">>), <<"readability", "casting">>, 4),
     Mark(Plain(<<"a", "/*">>), "line", <<>>), Mark(Plain(<<"x", ";">>), "next", <<>>),
     Plain(Inc("src/in/foo.h")),
     [Plain(<<"vector", "<", "a", ">", ";">>) EXCEPT !.bad = {<<"readability", "nul">>}]}

\* Heads of loops and conditions over several lines, with empty bodies and others.
Tight(line) == [line EXCEPT !.tight = TRUE]
HeadLines == {Plain(<<k, "(", "a">>) : k \in {"if", "for", "while"}}
             \union {Mark(Plain(<<"if", "(", "a">>), "next", <<>>)}
TailLines ==
    {Tight(Plain(<<"b", ")", ";">>)), Mark(Tight(Plain(<<"b", ")", ";">>)), "line", <<>>),
     Plain(<<"b", ")">>), Mark(Plain(<<"{", "}">>), "line", <<>>), Plain(<<>>),
     Mark(Plain(<<"b", ")", "{">>), "line", <<"whitespace", "empty_if_body">>),
     Mark(Plain(<<"b", ")", "{", "//">>), "next", <<>>), Plain(<<"}", "else", ";">>), Plain(<<"}">>)}

Bar == <<Plain(<<"//", "Copyright">>), Mark(Plain(<<"x", ";">>), "line", <<>>), Body,
         Faulty(Plain(<<"z", ";">>), <<"whitespace", "newline">>, 0), Plain(<<"*/">>)>>

Foo(w) == <<Head1>> \o w \o <<Foot, Plain(<<>>)>>

Both(foo, bar, configs) ==
    [files |-> [f \in {"src/in/foo.cc", "src/in/foo.h", "src/bar.cc", "src/notes.txt"} |->
                  [lines |-> CASE f = "src/in/foo.cc" -> foo
                               [] f = "src/bar.cc" -> bar
                               [] OTHER -> <<Plain(<<"a">>)>>]],
     configs |-> configs]

Opt(name, val) == [name |-> name, val |-> val]
Minus(prefix) == Filter("-", prefix)
Plus(prefix) == Filter("+", prefix)

Configs(root, src, in) ==
    LET All == [d \in {<<>>, <<"src">>, <<"src", "in">>} |->
                  CASE d = <<>> -> root [] d = <<"src">> -> src [] OTHER -> in]
    IN  [d \in {e \in DOMAIN All : All[e] # <<>>} |-> [readable |-> Head(All[d]).name # "unreadable",
                                                    options |-> All[d]]]

SomeConfigs ==
    {Configs(root, src, in) :
        root \in {<<>>, <<Opt("filter", <<Minus(<<"runtime">>)>>), Opt("linelength", 100)>>},
        src \in {<<>>, <<Opt("exclude_files", {"src/bar.cc"}), Opt("filter", <<Minus(<<>>), Plus(<<"runtime">>)>>)>>,
                 <<Opt("exclude_files", {"in"}), Opt("headers", {"txt"})>>,
                 <<Opt("filter", <<Filter("", <<"runtime">>)>>)>>},
        in \in {<<>>, <<Opt("set noparent", 0), Opt("linelength", 80)>>, <<Opt("unreadable", 0)>>,
                <<Opt("linelength", 80), Opt("filter", <<Minus(<<"readability">>)>>),
                  Opt("filter", <<Plus(<<"readability", "braces">>)>>)>>}}

SomeOptions ==
    {<<>>, <<Opt("verbose", 5)>>, <<Opt("verbose", 0), Opt("counting", "toplevel")>>,
     <<Opt("filter", <<Minus(<<"legal">>), Minus(<<"build">>), Plus(<<"build", "c++11">>)>>), Opt("counting", "detailed")>>,
     <<Opt("linelength", 100), Opt("extensions", {"txt", "cc"})>>, <<Opt("headers", {"txt"}), Opt("filter", <<Minus(<<>>)>>)>>}

BadOptions ==
    {<<Opt("help", 0)>>, <<Opt("output", "xml")>>, <<Opt("filter", <<>>)>>, <<Opt("counting", "some")>>,
     <<Opt("linelength", -1)>>, <<Opt("quiet", 0)>>, <<Opt("filter", <<Filter("", <<"runtime">>)>>)>>}

AllFiles == <<"src/in/foo.cc", "src/notes.txt", "src/bar.cc", "src/lost.cc">>

FilesInputs ==
    {Input(<<>>, AllFiles, Both(Foo(w), Bar, NoConfigs)) :
        w \in Words(3, MarkedLines) \union Words(2, OtherLines)}
    \union {Input(<<>>, <<"src/in/foo.cc">>, Both(Foo(<<h>> \o w), Bar, NoConfigs)) :
                h \in HeadLines, w \in Words(3, TailLines)}
    \union {Input(o, AllFiles, Both(Foo(w), Bar, c)) :
                o \in SomeOptions, w \in Words(1, {New, Foot, Body}), c \in SomeConfigs}
    \union {Input(o, <<"src/bar.cc">>, Both(Foo(<<>>), Bar, NoConfigs)) : o \in BadOptions}
    \union {Input(<<>>, <<>>, Both(Foo(<<>>), Bar, NoConfigs))}

MCInputs == FileInputs \union FilesInputs
=============================================================================
