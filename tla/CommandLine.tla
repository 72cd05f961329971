---------------------------- MODULE CommandLine ----------------------------
(***************************************************************************)
(* The command lines of the examples and of ssqlsxlat (lib/cmdline.cpp):   *)
(* the library's own getopt(), the base class around it and the two        *)
(* parsers that run it to the end.                                         *)
(*                                                                         *)
(* An argument is a sequence of characters, NUL behind its last; the name  *)
(* of the program is not among the arguments.                              *)
(***************************************************************************)
EXTENDS Integers, Sequences, SequencesExt

CharAt(arg, i) == IF i < Len(arg) THEN arg[i + 1] ELSE "NUL"    \* arg[i] of C
Opts(with, without) == [with |-> with, without |-> without]
absent == <<"absent">>

(***************************************************************************)
(* getopt().  Between two calls it keeps the argument it is at, the        *)
(* character in it, and the value of the last option; it returns the       *)
(* option's letter, "?" for an error or EOF.                               *)
(***************************************************************************)
State(optind, sp, optarg, ch) == [optind |-> optind, sp |-> sp, optarg |-> optarg, ch |-> ch]
Fresh == State(1, 1, absent, "none")

\* Behind a letter: the next one of the same argument, or the next argument.
Behind(arg, s) == IF CharAt(arg, s.sp + 1) = "NUL" THEN [s EXCEPT !.optind = s.optind + 1, !.sp = 1]
                  ELSE [s EXCEPT !.sp = s.sp + 1]
\* Mutant: a value of the next argument leaves that argument to be parsed.
WithValueReread(argv, arg, s, c) ==
    IF CharAt(arg, s.sp + 1) # "NUL" THEN State(s.optind + 1, 1, SubSeq(arg, s.sp + 2, Len(arg)), c)
    ELSE IF s.optind + 1 > Len(argv) THEN State(s.optind + 1, 1, s.optarg, "?")
    ELSE State(s.optind + 1, 1, argv[s.optind + 1], c)
WithValue(argv, arg, s, c) ==
    IF CharAt(arg, s.sp + 1) # "NUL" THEN State(s.optind + 1, 1, SubSeq(arg, s.sp + 2, Len(arg)), c)
    ELSE IF s.optind + 1 > Len(argv) THEN State(s.optind + 1, 1, s.optarg, "?")
    ELSE State(s.optind + 2, 1, argv[s.optind + 1], c)

getopt(argv, opts, s) ==
    IF s.sp = 1 /\ s.optind > Len(argv) THEN [s EXCEPT !.ch = "EOF"]
    ELSE LET arg == argv[s.optind]
             c == CharAt(arg, s.sp)
         IN IF s.sp = 1 /\ (CharAt(arg, 0) # "-" \/ c = "NUL") THEN [s EXCEPT !.ch = "EOF"]
            ELSE IF s.sp # 1 /\ arg = <<"-", "-">> THEN [s EXCEPT !.optind = s.optind + 1, !.ch = "EOF"]
            ELSE IF c = ":" \/ c \notin opts.with \cup opts.without THEN [Behind(arg, s) EXCEPT !.ch = "?"]
            ELSE IF c \in opts.with THEN WithValue(argv, arg, s, c)
            ELSE [Behind(arg, s) EXCEPT !.ch = c, !.optarg = absent]

(***************************************************************************)
(* CommandLineBase: the state of a parse.                                  *)
(***************************************************************************)
Parser(argv, result) == [getopt |-> Fresh, result |-> result, successful |-> Len(argv) >= 0, extra_args |-> <<>>]
parse_error(p) == [p EXCEPT !.successful = FALSE]
\* The program's name is argv[0], so argc - optind is what is left.
finish_parse(argv, p) ==
    IF p.successful THEN [p EXCEPT !.extra_args = SubSeq(argv, p.getopt.optind, Len(argv))] ELSE p

(***************************************************************************)
(* The examples' command line: five settings, the later one counts; a user *)
(* or password given to the constructor is the default.                    *)
(***************************************************************************)
Given(x) == IF x # <<>> THEN x ELSE absent
ExampleOpts == Opts({"m", "p", "s", "u"}, {"h", "D", "?"})
ExampleDefaults(user, pass) ==
    [m |-> absent, s |-> absent, u |-> Given(user), p |-> IF pass = absent THEN <<>> ELSE pass, D |-> FALSE]
ExampleTake(p, ch) ==
    CASE ch \in {"m", "p", "s", "u"} -> [p EXCEPT !.result = [p.result EXCEPT ![ch] = p.getopt.optarg]]
      [] ch = "D" -> [p EXCEPT !.result = [p.result EXCEPT !.D = TRUE]]
      [] OTHER -> parse_error(p)

(***************************************************************************)
(* ssqlsxlat's: one input of three sources, an output, the login; then     *)
(* what does not make sense together is refused.                           *)
(***************************************************************************)
TranslatorOpts == Opts({"i", "o", "p", "s", "t", "u", "1"}, {"h", "?"})
TranslatorDefaults == [input |-> absent, source |-> "unknown", output |-> absent, p |-> <<>>, s |-> absent, u |-> absent]
Source(ch) == CASE ch = "1" -> "ssqls1" [] ch = "i" -> "ssqls2" [] ch = "t" -> "table"
TranslatorTake(p, ch) ==
    LET value == p.getopt.optarg IN
    CASE ch \in {"i", "t", "1"} -> [p EXCEPT !.result = [p.result EXCEPT !.input = value, !.source = Source(ch)]]
      [] ch = "o" -> [p EXCEPT !.result = [p.result EXCEPT !.output = value]]
      [] ch \in {"p", "s", "u"} -> [p EXCEPT !.result = [p.result EXCEPT ![ch] = value]]
      [] OTHER -> parse_error(p)

(***************************************************************************)
(* The loop of both constructors, until the arguments end or the parse has *)
(* failed; Characters() bounds its turns.                                  *)
(***************************************************************************)
Characters(argv) == Len(FlattenSeq(argv)) + Len(argv)
Loop(argv, program) ==
    LET run[n \in Nat] ==
            IF n = 0 THEN Parser(argv, program.defaults)
            ELSE LET p == run[n - 1] IN
                 IF ~p.successful \/ p.getopt.ch = "EOF" THEN p
                 ELSE LET g == getopt(argv, program.opts, p.getopt)
                          q == [p EXCEPT !.getopt = g]
                      IN IF g.ch = "EOF" THEN q
                         ELSE IF program.name = "examples" THEN ExampleTake(q, g.ch) ELSE TranslatorTake(q, g.ch)
    IN finish_parse(argv, run[Characters(argv) + 1])

Examples(argv, user, pass) ==
    Loop(argv, [name |-> "examples", opts |-> ExampleOpts, defaults |-> ExampleDefaults(user, pass)])

\* Mutant: an output is never asked for.
MakesSenseAlways(p) == p.result.source # "unknown"
MakesSense(p) == /\ p.result.source # "unknown"
                 /\ p.result.source = "ssqls2" \/ p.result.output # absent
Translator(argv) ==
    LET p == Loop(argv, [name |-> "ssqlsxlat", opts |-> TranslatorOpts, defaults |-> TranslatorDefaults])
    IN IF p.successful /\ ~MakesSense(p) THEN parse_error(p) ELSE p

-----------------------------------------------------------------------------
(***************************************************************************)
(* What the lines mean: settings in any of the forms getopt() knows, and   *)
(* the rest behind them.                                                   *)
(***************************************************************************)
Settings(letters) == [letter : letters, value : {<<"v">>, <<"-", "D">>, <<>>},
                      form : {"joined", "separate", "bundled"}]
Spelled(i) == CASE i.form = "joined" /\ i.value # <<>> -> << <<"-", i.letter>> \o i.value >>
                [] i.form = "bundled"                  -> << <<"-", "D", i.letter>>, i.value >>
                [] OTHER                               -> << <<"-", i.letter>>, i.value >>
Tails == {<<>>, << <<"x">>, <<"-", "u">> >>, << <<"-">>, <<"-", "D">> >>, << <<"-", "-">> >>, << <<"-", "x">> >>,
          << <<"-", "u">> >>, << <<"-", "D", "h">> >>}
\* Which of these tails is an error: one that begins with an option which
\* getopt() does not know, lacks its value or asks for help.
Legal(tail) == tail = <<>> \/ tail[1] \in {<<"x">>, <<"-">>}
Lines == {<<s, t>> : s \in UNION {[1..n -> Settings({"u", "p"})] : n \in 0..2}, t \in Tails}
Sources == [letter : {"i", "t", "1", "o", "u"}, value : {<<"v">>, <<"w">>}, form : {"joined", "separate"}]
TranslatorLines == UNION {[1..n -> Sources] : n \in 0..3}

Spelling(settings) == FlattenSeq([k \in DOMAIN settings |-> Spelled(settings[k])])
LastOf(settings, letters, default) ==
    LET hits == {k \in DOMAIN settings : settings[k].letter \in letters}
    IN IF hits = {} THEN default ELSE settings[CHOOSE k \in hits : \A j \in hits : j =< k].value

\* Every setting is read in every form, the last one counts, and what is no
\* option is left over in order; or all of it is refused.
LineUnderstood(settings, tail) ==
    LET p == Examples(Spelling(settings) \o tail, <<"v">>, absent)
    IN IF Legal(tail)
       THEN /\ p.successful /\ p.extra_args = tail
            /\ p.result.u = LastOf(settings, {"u"}, <<"v">>) /\ p.result.p = LastOf(settings, {"p"}, <<>>)
            /\ p.result.D = \E k \in DOMAIN settings : settings[k].form = "bundled"
       ELSE ~p.successful /\ p.extra_args = <<>>

\* A translation starts from one source and, unless that is an SSQLS v2
\* file, says where to.
TranslationMakesSense(settings) ==
    LET p == Translator(Spelling(settings))
        letters == {settings[k].letter : k \in DOMAIN settings}
        last == LastOf(settings, {"i", "t", "1"}, absent)
    IN /\ p.successful => p.result.input = last /\ p.result.output = LastOf(settings, {"o"}, absent)
       /\ letters \cap {"i", "t", "1"} = {} => ~p.successful
       /\ letters \cap {"i", "t", "1"} = {"i"} => p.successful
       /\ "o" \notin letters /\ p.successful => "i" \in letters /\ p.result.source = "ssqls2"
=============================================================================
