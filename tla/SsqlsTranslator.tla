--------------------------- MODULE SsqlsTranslator ---------------------------
(***************************************************************************)
(* ssqlsxlat (ssx/main.cpp): it parses an SSQLS v2 file with all the files *)
(* it includes and writes it out again; then the output is parsed.  Each   *)
(* program starts with an empty search path and without a last table.      *)
(*                                                                         *)
(* What the files hold is not fixed beforehand: a line is chosen when it   *)
(* is read first, and stays.                                               *)
(***************************************************************************)
EXTENDS SsqlsLines

CONSTANTS
    Tree,           \* the paths of the files there are, parts in sequence
    Main,           \* the file to translate
    Vocabularies,   \* sets of lines; a behaviour writes all its source files
                    \* with the ones of one set, and no more than "most"
    MaxOpen,        \* files the system lets a process have open
    MaxLine         \* the longest line read_line() has room for

Out == <<"out">>    \* the file written
ASSUME TranslatorAssumption == Main \in Tree /\ Tree \subseteq Word /\ Out \notin Tree /\ MaxOpen > 0
Lines == [subdirective : BOOLEAN, words : Seq(Word)]
ASSUME VocabulariesAssumption == \A v \in Vocabularies : v.lines \subseteq Lines

VARIABLES
    vocabulary, text, ended,   \* what the files hold, as far as it is known
    search_path, stack,        \* where files are looked for; the files being read
    table,                     \* the last top-level directive was a table
    phase, pass,               \* how far the program has got, and which run it is
    parsed,                    \* the lines of each run
    code                       \* exit code, none before the end

files == <<vocabulary, text, ended>>
reading == <<search_path, stack, table>>
vars == <<vocabulary, text, ended, search_path, stack, table, phase, pass, parsed, code>>
none == -1
Line(subdirective, words) == [subdirective |-> subdirective, words |-> words]

(***************************************************************************)
(* File::File(): the name as it is, then behind each directory of the      *)
(* search path; the directory part of the name, not of the place where the *)
(* file was found, is learned.                                             *)
(***************************************************************************)
Opened(path) == SelectSeq(path, LAMBDA part : part # ".")
Directories == <<<<>>>> \o search_path
Candidate(i, path) == Opened(Directories[i] \o path)
Found(path) == {i \in DOMAIN Directories : Candidate(i, path) \in Tree}
Place(path) == Candidate(CHOOSE i \in Found(path) : \A j \in Found(path) : i =< j, path)
\* A file that includes itself is opened until the system refuses.
CanOpen(path) == Found(path) # {} /\ Len(stack) < MaxOpen
Learned(path) ==
    LET directory == SubSeq(path, 1, Len(path) - 1)
    IN IF directory = <<>> \/ directory = <<".">> \/ Contains(search_path, directory) THEN search_path
       ELSE Append(search_path, directory)
Frame(path) == [path |-> path, line_number |-> 1, lines |-> <<>>]

-----------------------------------------------------------------------------
(***************************************************************************)
(* main(): the command line names a source of one of three kinds, and an   *)
(* output or none; only SSQLS v2 can be read and written yet.              *)
(***************************************************************************)
Init ==
    /\ vocabulary \in Vocabularies /\ text = [p \in Tree \cup {Out} |-> <<>>] /\ ended = {}
    /\ search_path = <<>> /\ stack = <<>> /\ table = FALSE
    /\ phase = "begun" /\ pass = 1 /\ parsed = <<<<>>, <<>>>> /\ code = none

Exit(c) == phase' = "exited" /\ code' = c
BadCommand ==
    /\ phase = "begun" /\ Exit(1)
    /\ UNCHANGED <<files, reading, pass, parsed>>
OtherSource ==
    /\ phase = "begun" /\ Exit(2)
    /\ UNCHANGED <<files, reading, pass, parsed>>
Begin ==
    /\ phase = "begun" /\ phase' = "parsing"
    /\ stack' = <<Frame(Main)>> /\ search_path' = Learned(Main)
    /\ UNCHANGED <<files, table, pass, parsed, code>>

(***************************************************************************)
(* read_line(): the next line of the innermost file.  A line that does not *)
(* fit the buffer fails the stream, like the end of the file.  A line is   *)
(* its words: a comment, which read_line() cuts off when it has the line,  *)
(* counts with the buffer too, so a long comment is LineTooLong with any   *)
(* words; the vocabularies have no comments.                               *)
(***************************************************************************)
Top == Last(stack)
Written == FoldFunction(LAMBDA lines, n : n + Len(lines), 0, [p \in Tree |-> text[p]])
Known == Top.line_number =< Len(text[Top.path])
Fits(line) == Characters(line.words) =< MaxLine
NextLines ==
    IF phase # "parsing" THEN {}
    ELSE IF Known THEN {text[Top.path][Top.line_number]}
    ELSE IF Top.path \notin ended /\ Written < vocabulary.most THEN vocabulary.lines ELSE {}
Reads(line) ==
    /\ text' = IF Known THEN text ELSE [text EXCEPT ![Top.path] = Append(@, line)]
    /\ UNCHANGED <<vocabulary, ended>>
Counted(top, more) == [path |-> top.path, line_number |-> top.line_number + 1, lines |-> top.lines \o more]

SkipEmpty ==
    \E line \in NextLines :
        /\ line.words = <<>> /\ Reads(line)
        /\ stack' = [stack EXCEPT ![Len(stack)] = Counted(Top, <<>>)]
        /\ UNCHANGED <<search_path, table, phase, pass, parsed, code>>

Directives == {line \in NextLines : line.words # <<>> /\ Fits(line)}
Declares(line) == Parse(line.words, line.subdirective, table)
Take(kind) ==
    \E line \in Directives :
        LET declared == Declares(line) IN
        /\ declared.kind = kind /\ Reads(line)
        /\ stack' = [stack EXCEPT ![Len(stack)] = Counted(Top, <<declared>>)]
        /\ table' = LastWasTable(line.words, line.subdirective, table)
        /\ UNCHANGED <<search_path, phase, pass, parsed, code>>
TakeTable == Take("table")
TakeField == Take("field")
TakeOption == Take("option")

\* The lines of an included file are read before the rest of this one.
TakeInclude ==
    \E line \in Directives :
        /\ Declares(line).kind = "include" /\ CanOpen(Declares(line).path) /\ Reads(line)
        /\ stack' = Append([stack EXCEPT ![Len(stack)] = Counted(Top, <<>>)], Frame(Place(Declares(line).path)))
        /\ search_path' = Learned(Declares(line).path)
        /\ table' = LastWasTable(line.words, line.subdirective, table)
        /\ UNCHANGED <<phase, pass, parsed, code>>

\* The exceptions end the parse of all the files, and the program.
Refuse ==
    \E line \in Directives :
        /\ Reads(line)
        /\ \/ Declares(line).kind = "error"
           \/ Declares(line).kind = "include" /\ ~CanOpen(Declares(line).path)
        /\ Exit(2) /\ stack' = <<>>
        /\ UNCHANGED <<search_path, table, pass, parsed>>

(***************************************************************************)
(* The end of a file, or of what is read of it: its lines are hoisted to   *)
(* the place of the include directive.                                     *)
(***************************************************************************)
Hoist(outer, lines) == [outer EXCEPT !.lines = outer.lines \o lines]
Close ==
    IF Len(stack) > 1
    THEN /\ stack' = [Front(stack) EXCEPT ![Len(stack) - 1] = Hoist(stack[Len(stack) - 1], Top.lines)]
         /\ UNCHANGED <<phase, parsed>>
    ELSE stack' = <<>> /\ phase' = "parsed" /\ parsed' = [parsed EXCEPT ![pass] = Top.lines]
EndOfFile ==
    /\ phase = "parsing" /\ ~Known /\ Close
    /\ ended' = ended \cup {Top.path}
    /\ UNCHANGED <<vocabulary, text, search_path, table, pass, code>>
\* Mutant: a line that does not fit is tried again.
LineTooLongAgain ==
    \E line \in NextLines : ~Fits(line) /\ Reads(line) /\ UNCHANGED <<reading, phase, pass, parsed, code>>
LineTooLong ==
    \E line \in NextLines :
        /\ ~Fits(line) /\ Reads(line) /\ Close
        /\ UNCHANGED <<search_path, table, pass, code>>

-----------------------------------------------------------------------------
(***************************************************************************)
(* generate_ssqls2() to a named file: every line, a field behind a tab.    *)
(* That the disk may take only the first of them is not noticed.  `-o -',  *)
(* which prints behind main()'s own lines on the standard output           *)
(* (genv2.cpp:71, main.cpp:49), is not modelled: there is no second run on *)
(* what it prints.                                                         *)
(***************************************************************************)
\* Mutant: fields are written like the other lines.
WrittenFlat(line) == Line(FALSE, Printed(line))
WrittenLine(line) == Line(line.kind = "field", Printed(line))
Write ==
    /\ phase = "parsed" /\ pass = 1 /\ Exit(0)
    /\ \E n \in 0..Len(parsed[1]) :
           text' = [text EXCEPT ![Out] = [i \in 1..n |-> WrittenLine(parsed[1][i])]]
    /\ ended' = ended \cup {Out}
    /\ UNCHANGED <<vocabulary, reading, pass, parsed>>
\* No output is named, so C++ would be, or the file cannot be opened; or the
\* output was parsed.
WriteNothing ==
    /\ phase = "parsed" /\ Exit(2)
    /\ UNCHANGED <<files, reading, pass, parsed>>

\* The program once more, with its output for input.
Again ==
    /\ phase = "exited" /\ code = 0 /\ pass = 1
    /\ pass' = 2 /\ phase' = "parsing" /\ code' = none
    /\ stack' = <<Frame(Out)>> /\ search_path' = <<>> /\ table' = FALSE
    /\ UNCHANGED <<files, parsed>>

Next ==
    \/ BadCommand \/ OtherSource \/ Begin
    \/ SkipEmpty \/ TakeTable \/ TakeField \/ TakeOption \/ TakeInclude \/ Refuse
    \/ EndOfFile \/ LineTooLong
    \/ Write \/ WriteNothing \/ Again

(***************************************************************************)
(* A program runs: its next step happens.                                  *)
(***************************************************************************)
Spec == Init /\ [][Next]_vars /\ WF_vars(Next)

-----------------------------------------------------------------------------
(***************************************************************************)
(* The output is SSQLS v2 again (ssx/genv2.cpp:28): parsed, it declares    *)
(* the lines it was written from, as far as the disk took them; so no      *)
(* field is without its table, whatever file either stood in.  Excepted    *)
(* are lines too long to be read, to which print() makes even short ones.  *)
(***************************************************************************)
OutputFits == \A i \in DOMAIN text[Out] : Fits(text[Out][i])
PrintedIsRead ==
    pass = 2 /\ OutputFits =>
        /\ phase = "exited" => parsed[2] = SubSeq(parsed[1], 1, Len(text[Out]))
        /\ phase = "parsed" => parsed[2] = SubSeq(parsed[1], 1, Len(text[Out]))

(***************************************************************************)
(* Every translation ends (ssx/parsev2.cpp:54, 341, 411): at the end of    *)
(* the lines, at a line that cannot be read, at an error; and a file that  *)
(* includes itself, or two each other, when no more can be open.           *)
(***************************************************************************)
Ends == (phase = "parsing") ~> (phase = "exited")

-----------------------------------------------------------------------------
\* Every variable has its type.
TypeOK ==
    /\ vocabulary \in Vocabularies /\ text \in [Tree \cup {Out} -> Seq(Lines)]
    /\ search_path \in Seq(Word) /\ table \in BOOLEAN
    /\ stack \in Seq([path : Tree \cup {Out}, line_number : Nat \ {0}, lines : Seq(Declaration)])
    /\ phase \in {"begun", "parsing", "parsed", "exited"} /\ pass \in {1, 2} /\ code \in {none, 0, 1, 2}
    /\ parsed \in [1..2 -> Seq(Declaration)]

\* The last of the first k lines that is no field is a table.
UnderTable(lines, k) == \E j \in 1..k : lines[j].kind = "table" /\ \A i \in j + 1..k : lines[i].kind = "field"
Placed(lines) == \A k \in DOMAIN lines : lines[k].kind = "field" => UnderTable(lines, k - 1)

\* In each file by itself, with what it includes, every field stands under its
\* table: an include directive is no table, whatever the parser remembers.
FieldsPlaced ==
    /\ \A f \in DOMAIN stack : Placed(stack[f].lines)
    /\ Placed(parsed[1])
    /\ phase = "begun" => ~table
    /\ phase = "parsing" => stack # <<>> /\ (table => UnderTable(Top.lines, Len(Top.lines)))

\* The output is a beginning of what was parsed, and stays.
OutputKnown ==
    pass = 2 \/ (phase = "exited" /\ code = 0) =>
        /\ Out \in ended /\ Len(text[Out]) =< Len(parsed[1])
        /\ \A i \in DOMAIN text[Out] : text[Out][i] = WrittenLine(parsed[1][i])

\* The second run is as far in what was parsed as it is in its input, and
\* remembers a table where the next line may be a field.
SecondReads ==
    pass = 2 /\ OutputFits =>
        /\ phase # "begun"
        /\ phase = "parsing" => \E k \in 0..Len(text[Out]) :
               /\ stack = <<[path |-> Out, line_number |-> k + 1, lines |-> SubSeq(parsed[1], 1, k)]>>
               /\ UnderTable(parsed[1], k) => table
        /\ phase \in {"parsed", "exited"} => parsed[2] = SubSeq(parsed[1], 1, Len(text[Out]))

\* What makes the output readable, at every step of either run.
IInv == TypeOK /\ FieldsPlaced /\ OutputKnown /\ SecondReads
=============================================================================
