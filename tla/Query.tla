------------------------------- MODULE Query -------------------------------
(***************************************************************************)
(* Building and sending statements with Query (lib/query.cpp, query.h):    *)
(* the stream, template queries with their default parameters, automatic   *)
(* and explicit reset(), storein(), and copies of a Query.                 *)
(*                                                                         *)
(* A statement is a sequence of pieces: literal text, a placeholder of a   *)
(* template, or a parameter's value with the quoting it got.  A method     *)
(* call is one step: a Query belongs to one thread.  intent is what the    *)
(* program has asked of each Query.                                        *)
(***************************************************************************)
EXTENDS Integers, SequencesExt

CONSTANTS
    Queries,        \* the program's Query variables
    Temporary,      \* stands for a Query that no longer exists
    Texts,          \* what the program inserts: sequences of pieces
    Parameters,     \* the SQLTypeAdapters it passes
    Careful,        \* the program leaves defaults alone once they were used:
                    \* it neither adds one nor copies their Query
    MaxText,        \* bound: pieces in a stream buffer, or in a template
    MaxParms,       \* bound: parameters of a call, and of a Query
    MaxCalls        \* bound: calls the program makes

ASSUME QueriesAssumption == Queries # {} /\ Temporary \notin Queries
ASSUME BoundsAssumption == MaxText \in Nat /\ MaxParms \in Nat /\ MaxCalls \in Nat
ASSUME CarefulAssumption == Careful \in BOOLEAN

VARIABLES
    sbuffer_,           \* the text in the stream buffer
    parse_elems_,       \* the parsed template; empty: not a template query
    parsed_nums_,       \* numbers of named parameters, as a std::map
    template_defaults,  \* SQLTypeAdapters
    parent_,            \* the Query that template_defaults is bound to
    copacetic_,
    intent,             \* [text, parsed, template, given] of each Query
    strayed,            \* a Query that no longer exists has been used
    calls               \* calls made so far

vars == <<sbuffer_, parse_elems_, parsed_nums_, template_defaults, parent_,
          copacetic_, intent, strayed, calls>>

Lit(t) == [kind |-> "text", text |-> t]
Hole(n, o, name) == [kind |-> "hole", num |-> n, option |-> o, name |-> name]
NoName == ""

Adapter(b, isString) ==
    [body |-> b, string |-> isString, null |-> FALSE, wraps |-> <<>>,
     is_processed_ |-> FALSE]
NullAdapter == [Adapter(<<Lit("NULL")>>, FALSE) EXCEPT !.null = TRUE]
Parms == BoundedSeq(Parameters, MaxParms)

IsSequence(s) == s \in Seq(ToSet(s))
Placeholders == UNION {{t[i] : i \in {j \in DOMAIN t : t[j].kind = "hole"}} : t \in Texts}
IsFresh(S) ==
    /\ S = [Adapter(S.body, S.string) EXCEPT !.null = S.null]
    /\ S.string \in BOOLEAN /\ S.null \in BOOLEAN

ASSUME TextsAssumption ==
    /\ \A t \in Texts : IsSequence(t)
    /\ \A h \in Placeholders :
          /\ h = Hole(h.num, h.option, h.name)
          /\ h.num \in 0..999 /\ h.option \in {" ", "q", "Q"}
ASSUME ParametersAssumption == \A S \in Parameters : IsFresh(S)

NoIntent == [text |-> <<>>, parsed |-> FALSE, template |-> <<>>, given |-> <<>>]

Init ==
    /\ sbuffer_ = [q \in Queries |-> <<>>]
    /\ parse_elems_ = [q \in Queries |-> <<>>]
    /\ parsed_nums_ = [q \in Queries |-> <<>>]
    /\ template_defaults = [q \in Queries |-> <<>>]
    /\ parent_ = [q \in Queries |-> q]
    /\ copacetic_ = [q \in Queries |-> TRUE]
    /\ intent = [q \in Queries |-> NoIntent]
    /\ strayed = FALSE
    /\ calls = 0

(***************************************************************************)
(* parse(): each placeholder becomes an element that holds the text before *)
(* it and its number, kept in a signed char; one more element holds the    *)
(* text after the last.                                                    *)
(***************************************************************************)
Element(before, option, num) == [before |-> before, option |-> option, num |-> num]
SignedChar(n) == IF n % 256 < 128 THEN n % 256 ELSE (n % 256) - 256

\* parsed_nums_[name] = n.
WithName(nums, name, n) ==
    [m \in DOMAIN nums \union {name} |-> IF m = name THEN n ELSE nums[m]]

\* Mutant: str = "" forgotten after a placeholder.
ParsePieceKeepsText(acc, t) ==
    IF t.kind # "hole"
    THEN [acc EXCEPT !.before = Append(@, t)]
    ELSE [acc EXCEPT !.elems =
              Append(@, Element(acc.before, t.option, SignedChar(t.num)))]

ParsePiece(acc, t) ==
    IF t.kind # "hole"
    THEN [acc EXCEPT !.before = Append(@, t)]
    ELSE LET n == SignedChar(t.num)
         IN  [before |-> <<>>,
              elems |-> Append(acc.elems, Element(acc.before, t.option, n)),
              nums |-> IF t.name = NoName THEN acc.nums
                       ELSE WithName(acc.nums, t.name, n)]

ParseAll(text, elems, nums) ==
    LET acc[i \in 0..Len(text)] ==
            IF i = 0 THEN [before |-> <<>>, elems |-> elems, nums |-> nums]
            ELSE ParsePiece(acc[i - 1], text[i])
        last == acc[Len(text)]
    IN  [elems |-> Append(last.elems, Element(last.before, " ", -1)),
         nums |-> last.nums]

(***************************************************************************)
(* pprepare(): the parameter as the option wants it.  What comes back is   *)
(* built from a std::string, so it is of a type that needs quotes.         *)
(***************************************************************************)
Prepared(option, S) ==
    IF S.is_processed_ \/ option = " " \/ (option = "Q" /\ ~S.string)
    THEN S
    ELSE [S EXCEPT !.wraps = IF S.string THEN Append(@, option) ELSE @,
                   !.string = TRUE]

\* Mutant: set_processed() forgotten.
ProcessedUnmarked(S) == S
Processed(S) == [S EXCEPT !.is_processed_ = TRUE]
Lost(S) == [S EXCEPT !.is_processed_ = FALSE]
Written(S) == IF S.null THEN Lit("NULL")
              ELSE [kind |-> "value", body |-> S.body, wraps |-> S.wraps]

(***************************************************************************)
(* proc(): the parameters given in the call come first and are left alone; *)
(* a default is processed in place.                                        *)
(***************************************************************************)
ProcElement(p, acc, e) ==
    LET out == acc.out \o e.before
        own == acc.own[e.num + 1]
    IN  IF acc.thrown THEN acc
        ELSE IF e.num < 0 THEN [acc EXCEPT !.out = out]
        ELSE IF e.num < Len(p)
        THEN [acc EXCEPT !.out = Append(out, Written(Prepared(e.option, p[e.num + 1])))]
        ELSE IF e.num >= Len(acc.own)
        THEN [acc EXCEPT !.out = Append(out, Lit(" ERROR")), !.thrown = TRUE]
        ELSE IF own.null THEN [acc EXCEPT !.out = Append(out, Written(own))]
        ELSE [acc EXCEPT !.out = Append(out, Written(Prepared(e.option, own))),
                         !.own[e.num + 1] = Processed(Prepared(e.option, own))]

Proc(p, elems, own) ==
    LET acc[i \in 0..Len(elems)] ==
            IF i = 0 THEN [out |-> <<>>, own |-> own, thrown |-> FALSE]
            ELSE ProcElement(p, acc[i - 1], elems[i])
    IN  acc[Len(elems)]

(***************************************************************************)
(* str(p): with p = <<>>, str(template_defaults).                          *)
(***************************************************************************)
Unbuilt(q) == [out |-> sbuffer_[q], own |-> template_defaults[q], thrown |-> FALSE]
Built(q, p) ==
    IF parse_elems_[q] = <<>> THEN Unbuilt(q)
    ELSE Proc(p, parse_elems_[q], template_defaults[q])
Statement(b) == [thrown |-> b.thrown, text |-> IF b.thrown THEN <<>> ELSE b.out]

(***************************************************************************)
(* What the program may expect a call to send: its text as it wrote it, or *)
(* its template with each placeholder replaced by the parameter given for  *)
(* it, else by the default, quoted as the option says; BadParamCount if a  *)
(* placeholder has neither.                                                *)
(***************************************************************************)
Quoted(option, S) ==
    Written(IF S.string /\ option # " " THEN [S EXCEPT !.wraps = <<option>>] ELSE S)

Substituted(template, p, given) ==
    LET Value(n) == IF n < Len(p) THEN p[n + 1] ELSE given[n + 1]
        Filled(t) == t.kind = "hole" => t.num < Len(p) \/ t.num < Len(given)
    IN  IF \A i \in DOMAIN template : Filled(template[i])
        THEN [thrown |-> FALSE,
              text |-> [i \in DOMAIN template |->
                  IF template[i].kind = "hole"
                  THEN Quoted(template[i].option, Value(template[i].num))
                  ELSE template[i]]]
        ELSE [thrown |-> TRUE, text |-> <<>>]

Expected(q, p) ==
    IF intent[q].parsed
    THEN Substituted(intent[q].template, p, intent[q].given)
    ELSE [thrown |-> FALSE, text |-> intent[q].text]

ExpectedOfOne(q, S) ==
    IF intent[q].parsed THEN Expected(q, <<S>>)
    ELSE [thrown |-> FALSE, text |-> <<Written(S)>>]

(***************************************************************************)
(* What execute(str, len), store(str, len) and use(str, len) have in       *)
(* common: the driver takes the statement or not, and a Query that is no   *)
(* template is then reset.  A statement that was refused stays.            *)
(***************************************************************************)
\* Mutant: reset() forgets template_defaults.clear().
ClearedButDefaults(q) ==
    /\ sbuffer_' = [sbuffer_ EXCEPT ![q] = <<>>]
    /\ parse_elems_' = [parse_elems_ EXCEPT ![q] = <<>>]
    /\ intent' = [intent EXCEPT ![q] = NoIntent]
    /\ UNCHANGED template_defaults

Cleared(q) ==
    /\ sbuffer_' = [sbuffer_ EXCEPT ![q] = <<>>]
    /\ parse_elems_' = [parse_elems_ EXCEPT ![q] = <<>>]
    /\ template_defaults' = [template_defaults EXCEPT ![q] = <<>>]
    /\ intent' = [intent EXCEPT ![q] = NoIntent]

Kept(q, out, own) ==
    /\ sbuffer_' = [sbuffer_ EXCEPT ![q] = out]
    /\ template_defaults' = [template_defaults EXCEPT ![q] = own]
    /\ UNCHANGED <<parse_elems_, intent>>

Settled(q, b) ==
    IF parse_elems_[q] = <<>> THEN Cleared(q) ELSE Kept(q, b.out, b.own)

Send(q, b) ==
    /\ \/ /\ b.thrown
          /\ Kept(q, b.out, b.own)
          /\ UNCHANGED copacetic_
       \/ /\ ~b.thrown
          /\ Settled(q, b)
          /\ copacetic_' = [copacetic_ EXCEPT ![q] = TRUE]
       \/ /\ ~b.thrown
          /\ Kept(q, b.out, b.own)
          /\ copacetic_' = [copacetic_ EXCEPT ![q] = FALSE]
    /\ UNCHANGED <<parsed_nums_, parent_, strayed>>

BogusResult(q, b) ==
    /\ ~b.thrown
    /\ Settled(q, b)
    /\ copacetic_' = [copacetic_ EXCEPT ![q] = FALSE]
    /\ UNCHANGED <<parsed_nums_, parent_, strayed>>

(***************************************************************************)
(* The operations of a Query.                                              *)
(***************************************************************************)
Room(q, n) == Len(sbuffer_[q]) + n <= MaxText

Insert(q) ==
    \E t \in Texts :
        /\ Room(q, Len(t))
        /\ sbuffer_' = [sbuffer_ EXCEPT ![q] = @ \o t]
        /\ intent' = [intent EXCEPT ![q].text = IF intent[q].parsed THEN @ ELSE @ \o t]
        /\ UNCHANGED <<parse_elems_, parsed_nums_, template_defaults, parent_,
                       copacetic_, strayed>>

Parse(q) ==
    LET parsed == ParseAll(sbuffer_[q], parse_elems_[q], parsed_nums_[q])
    IN  /\ Len(intent[q].template) + Len(sbuffer_[q]) <= MaxText
        /\ Len(parsed.elems) <= MaxText + 1
        /\ parse_elems_' = [parse_elems_ EXCEPT ![q] = parsed.elems]
        /\ parsed_nums_' = [parsed_nums_ EXCEPT ![q] = parsed.nums]
        /\ intent' = [intent EXCEPT ![q].parsed = TRUE, ![q].text = <<>>,
                                    ![q].template = @ \o sbuffer_[q]]
        /\ UNCHANGED <<sbuffer_, template_defaults, parent_, copacetic_, strayed>>

Reset(q) ==
    /\ Cleared(q)
    /\ UNCHANGED <<parsed_nums_, parent_, copacetic_, strayed>>

(***************************************************************************)
(* str(p): builds the statement in the stream buffer, for the program to   *)
(* look at.                                                                *)
(***************************************************************************)
Str(q) ==
    \E p \in Parms :
        /\ Kept(q, Built(q, p).out, Built(q, p).own)
        /\ UNCHANGED <<parsed_nums_, parent_, copacetic_, strayed>>

(***************************************************************************)
(* execute(), execute(p) and the overloads with two parameters and more;   *)
(* store() and use() likewise.                                             *)
(***************************************************************************)
Execute(q) == \E p \in Parms : Send(q, Built(q, p))

(***************************************************************************)
(* execute(s), store(s) and use(s): s is the only parameter of a template  *)
(* with one placeholder, or else the statement itself.                     *)
(***************************************************************************)
BuiltOfOne(q, S) ==
    IF Len(parse_elems_[q]) = 2 THEN Built(q, <<S>>) ELSE Unbuilt(q)
SentOfOne(q, S) ==
    IF Len(parse_elems_[q]) = 2 THEN Statement(Built(q, <<S>>))
    ELSE [thrown |-> FALSE, text |-> <<Written(S)>>]

ExecuteOne(q) == \E S \in Parameters : Send(q, BuiltOfOne(q, S))

(***************************************************************************)
(* storein(con, p): builds the statement and passes it on to use(s) as a   *)
(* string.  An empty result that should not be empty ends in failure too.  *)
(***************************************************************************)
BuiltByStorein(q, p) ==
    LET b == Built(q, p)
    IN  IF b.thrown \/ Len(parse_elems_[q]) # 2 THEN b
        ELSE Proc(<<Adapter(b.out, TRUE)>>, parse_elems_[q], b.own)

Storein(q) ==
    \E p \in Parms :
        \/ Send(q, BuiltByStorein(q, p))
        \/ BogusResult(q, BuiltByStorein(q, p))

(***************************************************************************)
(* SQLQueryParms::operator[] gives the vector the length it needs; where   *)
(* that moves its elements, their is_processed_ is lost: SQLTypeAdapter's  *)
(* copy constructor clears it, as its assignment does.                     *)
(***************************************************************************)
WithRoom(d, n) ==
    d \o [i \in 1..(n + 1 - Len(d)) |-> Adapter(<<>>, TRUE)]
Moved(d) == [i \in DOMAIN d |-> Lost(d[i])]
Used(q) == \E i \in DOMAIN template_defaults[q] :
               template_defaults[q][i].is_processed_
LeftAlone(q) == Careful => ~Used(q)

StoreDefault(q, n, believed, v) ==
    /\ n >= Len(template_defaults[q]) => LeftAlone(q)
    /\ \E d \in {template_defaults[q], Moved(template_defaults[q])} :
        /\ n < Len(d) => d = template_defaults[q]
        /\ template_defaults' =
               [template_defaults EXCEPT ![q] = [WithRoom(d, n) EXCEPT ![n + 1] = v]]
    /\ intent' = [intent EXCEPT ![q].given =
                      [WithRoom(@, believed) EXCEPT ![believed + 1] = v]]

SetDefault(q) ==
    \E n \in 0..MaxParms - 1, v \in Parameters :
        /\ StoreDefault(q, n, n, v)
        /\ UNCHANGED <<sbuffer_, parse_elems_, parsed_nums_, parent_, copacetic_,
                       strayed>>

(***************************************************************************)
(* template_defaults["name"] = v looks the name up in the Query the        *)
(* parameters are bound to, where a name it does not know becomes 0;      *)
(* where that Query is gone, nothing is said of the program any more.      *)
(***************************************************************************)
Names(template) == {template[i].name : i \in {j \in DOMAIN template :
                        template[j].kind = "hole" /\ template[j].name # NoName}}
NumberOf(template, name) ==
    CHOOSE n \in {template[i].num : i \in {j \in DOMAIN template :
                template[j].kind = "hole" /\ template[j].name = name}} : TRUE

SetNamedDefault(q) ==
    \E name \in Names(intent[q].template), v \in Parameters :
        LET p == parent_[q]
            nums == IF name \in DOMAIN parsed_nums_[p] THEN parsed_nums_[p]
                    ELSE WithName(parsed_nums_[p], name, 0)
        IN  /\ p # Temporary
            /\ Careful => p = q
            /\ nums[name] \in 0..MaxParms - 1
            /\ parsed_nums_' = [parsed_nums_ EXCEPT ![p] = nums]
            /\ StoreDefault(q, nums[name], NumberOf(intent[q].template, name), v)
            /\ UNCHANGED <<sbuffer_, parse_elems_, parent_, copacetic_, strayed>>

StrayNamedDefault(q) ==
    /\ Names(intent[q].template) # {}
    /\ parent_[q] = Temporary
    /\ strayed' = TRUE
    /\ UNCHANGED <<sbuffer_, parse_elems_, parsed_nums_, template_defaults,
                   parent_, copacetic_, intent>>

(***************************************************************************)
(* q = r and q = conn.query(text): the text is added to what q holds, the  *)
(* template is copied, and so is what template_defaults is bound to.  The  *)
(* comments at query.h:143 and query.h:222 say that text and template are  *)
(* empty in the copy; the code (query.cpp:251) and test/query_copy.cpp,    *)
(* which wants the copy to build what the original builds, say otherwise.  *)
(***************************************************************************)
Assign(q, r) ==
    /\ q # r
    /\ Room(q, Len(sbuffer_[r]))
    /\ Careful => sbuffer_[q] = <<>>
    /\ LeftAlone(r)
    /\ sbuffer_' = [sbuffer_ EXCEPT ![q] = @ \o sbuffer_[r]]
    /\ parse_elems_' = [parse_elems_ EXCEPT ![q] = parse_elems_[r]]
    /\ parsed_nums_' = [parsed_nums_ EXCEPT ![q] = parsed_nums_[r]]
    /\ template_defaults' = [template_defaults EXCEPT ![q] = Moved(template_defaults[r])]
    /\ parent_' = [parent_ EXCEPT ![q] = parent_[r]]
    /\ copacetic_' = [copacetic_ EXCEPT ![q] = copacetic_[r]]
    /\ intent' = [intent EXCEPT ![q] = intent[r]]
    /\ UNCHANGED strayed

AssignNew(q) ==
    \E t \in Texts :
        /\ Room(q, Len(t))
        /\ Careful => sbuffer_[q] = <<>>
        /\ sbuffer_' = [sbuffer_ EXCEPT ![q] = @ \o t]
        /\ parse_elems_' = [parse_elems_ EXCEPT ![q] = <<>>]
        /\ parsed_nums_' = [parsed_nums_ EXCEPT ![q] = <<>>]
        /\ template_defaults' = [template_defaults EXCEPT ![q] = <<>>]
        /\ parent_' = [parent_ EXCEPT ![q] = Temporary]
        /\ copacetic_' = [copacetic_ EXCEPT ![q] = TRUE]
        /\ intent' = [intent EXCEPT ![q] = [NoIntent EXCEPT !.text = t]]
        /\ UNCHANGED strayed

Step(q) ==
    \/ Insert(q) \/ Parse(q) \/ Reset(q)
    \/ Str(q) \/ Execute(q) \/ ExecuteOne(q) \/ Storein(q)
    \/ SetDefault(q) \/ SetNamedDefault(q) \/ StrayNamedDefault(q)
    \/ \E r \in Queries : Assign(q, r)
    \/ AssignNew(q)

Next ==
    \/ /\ ~strayed /\ calls < MaxCalls
       /\ calls' = calls + 1
       /\ \E q \in Queries : Step(q)
    \/ (strayed \/ calls = MaxCalls) /\ UNCHANGED vars

Spec == Init /\ [][Next]_vars

-----------------------------------------------------------------------------
(* What the program's templates keep to: positions that fit a signed char, *)
(* one quoting for all placeholders of a position, one position for all of *)
(* a name.                                                                 *)
Disciplined ==
    /\ \A h \in Placeholders : h.num \in 0..127
    /\ \A g, h \in Placeholders :
          /\ g.num = h.num => g.option = h.option
          /\ g.name = h.name /\ g.name # NoName => g.num = h.num

(* The type invariant.  Text is what the program wrote or the library      *)
(* made; only what the program wrote has placeholders.                     *)
IsText(s) == IsSequence(s) /\ \A i \in DOMAIN s : s[i].kind = "hole" => s[i] \in Placeholders
Plain(s) == IsSequence(s) /\ \A i \in DOMAIN s : s[i].kind # "hole"
IsElement(e) ==
    /\ e = Element(e.before, e.option, e.num) /\ Plain(e.before)
    /\ \/ e.num = -1
       \/ \E h \in Placeholders : e.num = h.num /\ e.option = h.option
IsIntent(r) ==
    /\ r = [text |-> r.text, parsed |-> r.parsed, template |-> r.template, given |-> r.given]
    /\ r.parsed \in BOOLEAN /\ IsText(r.template) /\ Len(r.template) <= MaxText
    /\ IsSequence(r.given) /\ \A i \in DOMAIN r.given : IsFresh(r.given[i])
TypeOK ==
    /\ parent_ \in [Queries -> Queries \union {Temporary}]
    /\ copacetic_ \in [Queries -> BOOLEAN]
    /\ strayed \in BOOLEAN
    /\ DOMAIN sbuffer_ = Queries /\ DOMAIN parse_elems_ = Queries
    /\ DOMAIN parsed_nums_ = Queries /\ DOMAIN template_defaults = Queries
    /\ DOMAIN intent = Queries
    /\ \A q \in Queries :
        /\ IsText(sbuffer_[q]) /\ Len(sbuffer_[q]) <= MaxText
        /\ IsSequence(parse_elems_[q])
        /\ \A i \in DOMAIN parse_elems_[q] : IsElement(parse_elems_[q][i])
        /\ IsIntent(intent[q])

(* The elements of a template spell it out again: no text and no           *)
(* placeholder of it is lost, doubled or moved by parse(), not even when   *)
(* the Query is parsed twice, copied, or has thrown.  A copy has its       *)
(* original's template, as test/query_copy.cpp has it and query.h:143 has  *)
(* it not.                                                                 *)
Unnamed(t) == IF t.kind = "hole" THEN [t EXCEPT !.name = NoName] ELSE t
Spelled(e) == IF e.num < 0 THEN e.before
              ELSE Append(e.before, Hole(e.num, e.option, NoName))
Spelling(elems) ==
    LET upTo[i \in 0..Len(elems)] ==
            IF i = 0 THEN <<>> ELSE upTo[i - 1] \o Spelled(elems[i])
    IN  upTo[Len(elems)]
ElementsSpellTemplate ==
    \A q \in Queries :
        Spelling(parse_elems_[q]) =
            [i \in DOMAIN intent[q].template |-> Unnamed(intent[q].template[i])]

(* A Query that is no template holds its text and nothing else; a default  *)
(* is the one the program gave, or that one quoted as its placeholders     *)
(* say, and marked; a name leads to its placeholder's position.            *)
IsDefault(d, given, n) ==
    \/ d = given
    \/ /\ ~given.null
       /\ \E h \in Placeholders : h.num = n /\ d = Processed(Prepared(h.option, given))
AreDefaults(own, given) ==
    /\ IsSequence(own) /\ Len(own) = Len(given)
    /\ \A i \in DOMAIN own : IsDefault(own[i], given[i], i - 1)
AreNumbered(template, nums) ==
    \A i \in DOMAIN template :
        template[i].kind = "hole" /\ template[i].name # NoName =>
            /\ template[i].name \in DOMAIN nums
            /\ nums[template[i].name] = template[i].num
WrittenKept ==
    \A q \in Queries :
        /\ IF intent[q].parsed THEN parse_elems_[q] # <<>>
           ELSE /\ intent[q].text = sbuffer_[q]
                /\ parse_elems_[q] = <<>> /\ intent[q].template = <<>>
        /\ AreDefaults(template_defaults[q], intent[q].given)
        /\ AreNumbered(intent[q].template, parsed_nums_[q])

(* What holds of every Query of a disciplined and careful program between  *)
(* two calls, copies (with their original's text and template) included,   *)
(* and makes the next call send what it should.                            *)
IInv == TypeOK /\ ElementsSpellTemplate /\ WrittenKept

(* Every call builds and sends what the program wrote, or throws           *)
(* BadParamCount where a placeholder has no value, whatever calls came     *)
(* before: refused statements, BadParamCount half-way through a template,  *)
(* defaults already quoted in place, copies made of the Query, text left   *)
(* over.  A copy is to send what its original would, as                    *)
(* test/query_copy.cpp has it; that it be empty, as query.h:143 says, the  *)
(* code does not keep.  Two calls are no part of this, for they go wrong:  *)
(* storein() of a template with one placeholder (query.h:795), and a       *)
(* single parameter for a template with several.                           *)
SentAsWritten ==
    \A q \in Queries :
        /\ \A p \in Parms : Statement(Built(q, p)) = Expected(q, p)
        /\ Len(parse_elems_[q]) \in {0, 2} =>
               \A S \in Parameters : SentOfOne(q, S) = ExpectedOfOne(q, S)
        /\ Len(parse_elems_[q]) # 2 =>
               \A p \in Parms : Statement(BuiltByStorein(q, p)) = Expected(q, p)
=============================================================================
