------------------------------- MODULE Dispatch -------------------------------
(***************************************************************************)
(* From a line to a handler: create_arg_list(), the argument checks and    *)
(* dispatch() of coreServer/Dispatch.c, the lookups of CmdArr.c, and the   *)
(* positional argv[] reads of the handlers in rxServer/Commands.c.         *)
(*                                                                         *)
(* A line is a sequence of lexemes: SP (one whitespace character), QT (a   *)
(* double quote) and words, runs of other characters.  Of a word the code  *)
(* sees: its text, its text from the third character on (tail), whether it *)
(* starts with "--" and is longer (dashed), whether it has one character   *)
(* only (short), what strtod() makes of it if it takes all of it (num: a   *)
(* number, NaN or None) and what strtol() makes of its beginning (long).   *)
(***************************************************************************)
EXTENDS Integers, Sequences, SequencesExt, FiniteSets

CONSTANTS
    Commands,  \* command name -> its entry: the arguments, the argv[] that its
               \* handler reads and the function that converts them
    Verbs,     \* words a line may begin with
    Words,     \* words that may follow
    Lexicon,   \* what the code sees of each word
    MaxArgc,   \* DISPATCH_MAX_SIZE/2, 128 in the code
    MaxLine,   \* lexemes of a line (a bound of the model)
    MaxExtra,  \* separators next to another one (a bound of the model)
    SP, QT,
    None,      \* not a number
    NaN        \* the number that compares with none

Number == Int \cup {NaN}
Sight == [tail : STRING, dashed : BOOLEAN, short : BOOLEAN,
          num : Number \cup {None}, long : Int]
\* struct arginfo; lo and hi are the two bounds of a range.  (In Commands.h the
\* numeric arguments are those with a range, and no argument has a list.)
ArgInfo == [name : STRING, req : BOOLEAN, numeric : BOOLEAN, lo : Int, hi : Int]

ASSUME DispatchAssumption ==
    /\ Lexicon \in [Verbs \cup Words -> Sight]
    /\ \A w \in DOMAIN Lexicon : ~(Lexicon[w].dashed /\ Lexicon[w].short)
    /\ SP \notin DOMAIN Lexicon /\ QT \notin DOMAIN Lexicon /\ SP # QT
    /\ MaxArgc \in Nat \ {0} /\ MaxLine \in Nat /\ MaxExtra \in Nat
    /\ None \notin Number /\ NaN \notin Int
    /\ "" \notin DOMAIN Commands
    /\ \A n \in DOMAIN Commands :
         /\ Commands[n].args \in Seq(ArgInfo) /\ Commands[n].reads \subseteq Nat
         /\ Commands[n].conv \in {"strtol", "strtod"}
         /\ \A a, b \in DOMAIN Commands[n].args :
              Commands[n].args[a].name = Commands[n].args[b].name => a = b
         \* No argument is named "" or "--...", or like the tail of its command.
         /\ \A a \in DOMAIN Commands[n].args :
              LET name == Commands[n].args[a].name
              IN  /\ name # ""
                  /\ name \in DOMAIN Lexicon => ~Lexicon[name].dashed
                  /\ n \in DOMAIN Lexicon => Lexicon[n].tail # name
         \* In every entry of Commands.h the optional arguments come last.
         /\ \A a, b \in DOMAIN Commands[n].args :
              Commands[n].args[b].req /\ a < b => Commands[n].args[a].req

VARIABLES
    line,   \* the lexemes typed so far
    reply   \* what dispatch() did with the line: Waiting until it is entered

dispatchVars == <<line, reply>>

Waiting == [code |-> "waiting"]

-------------------------------------------------------------------------------
(* create_arg_list() *)

\* The loop's state: the tokens so far, each with how many characters lie
\* between it and the end of the one before; whether last_ch is NUL; in_quote.
Start == [argv |-> <<>>, gap |-> 0, fresh |-> TRUE, quoted |-> FALSE, err |-> 0]

\* A character or run that belongs to a token, the first of it if fresh.
Visible(s, x) ==
    IF ~s.fresh
    THEN [s EXCEPT !.argv[Len(s.argv)].text = Append(@, x)]
    ELSE IF Len(s.argv) >= MaxArgc
    THEN [s EXCEPT !.err = -1]
    ELSE [s EXCEPT !.argv = Append(@, [text |-> <<x>>, gap |-> s.gap]),
                   !.fresh = FALSE, !.gap = 0]

\* Fault for the mutation checks: last_ch is not reset.
SeparatorJoins(s, quote) == [s EXCEPT !.quoted = quote, !.gap = @ + 1]

\* A separator, replaced by NUL; quote says whether we are in a quote after it.
Separator(s, quote) ==
    [s EXCEPT !.fresh = TRUE, !.quoted = quote, !.gap = @ + 1]

\* The closing quote of "" first counts as a token, an empty one.
Empty(s) ==
    IF ~s.fresh THEN s
    ELSE IF Len(s.argv) >= MaxArgc THEN [s EXCEPT !.err = -1]
    ELSE [s EXCEPT !.argv = Append(@, [text |-> <<>>, gap |-> s.gap]), !.gap = 0]

Step(s, x) ==
    IF s.err # 0 THEN s
    ELSE CASE x = SP /\ ~s.quoted -> Separator(s, FALSE)
           [] x = QT /\ ~s.quoted -> Separator(s, TRUE)
           [] x = QT /\ s.quoted  -> Separator(Empty(s), FALSE)
           [] OTHER               -> Visible(s, x)

\* The loop's state after n characters of l.
Loop(l) ==
    LET scan[n \in 0 .. Len(l)] == IF n = 0 THEN Start ELSE Step(scan[n - 1], l[n])
    IN  scan

CreateArgList(l) ==
    LET s == Loop(l)[Len(l)]
    IN  IF s.err = 0 /\ s.quoted THEN [s EXCEPT !.err = -2] ELSE s

-------------------------------------------------------------------------------
(* What the checks see of a token.  argv[0] is Argv[1] here. *)

IsWord(text) == Len(text) = 1 /\ text[1] # SP
TextOf(text) == IF IsWord(text) THEN text[1] ELSE ""

\* "All argument names start with --".
Dashed(text) == text # <<>> /\ text[1] # SP /\ Lexicon[text[1]].dashed
\* The name behind the dashes; a quoted token with more in it has no known name.
Name(text) == IF IsWord(text) THEN Lexicon[text[1]].tail ELSE ""

\* argv[i]+2, the string argv_arg() compares: the text without two characters.
\* Of a token with fewer it is what follows its NUL: the next token, if just one
\* character is between.  (After the last token come stale bytes of linebuf; a
\* match there has no value and is refused all the same.)
OneChar(x) == x = SP \/ Lexicon[x].short
Following(argv, i, gap) ==
    IF i < Len(argv) /\ argv[i + 1].gap = gap THEN TextOf(argv[i + 1].text) ELSE ""

TailAt(argv, i) ==
    LET t == argv[i].text
    IN  CASE t = <<>>                      -> Following(argv, i, 2)
          [] Len(t) = 1 /\ OneChar(t[1])   -> Following(argv, i, 1)
          [] Len(t) > 1 /\ OneChar(t[1])   -> IF OneChar(t[2]) THEN TextOf(SubSeq(t, 3, Len(t)))
                                              ELSE ""
          [] OTHER                         -> Name(t)

\* strtod(), and nothing left over: leading blanks are skipped, others are not.
Value(text) ==
    LET n == Len(text)
    IN  IF n > 0 /\ text[n] # SP /\ \A i \in 1 .. n - 1 : text[i] = SP
        THEN Lexicon[text[n]].num ELSE None

\* strtol( , NULL, 10): what it can read from the start, 0 if nothing.
Long(text) ==
    LET seen == {i \in DOMAIN text : text[i] # SP}
    IN  IF seen = {} THEN 0 ELSE Lexicon[text[Min(seen)]].long

ArgOf(cmd, name) == {a \in DOMAIN cmd.args : cmd.args[a].name = name}

-------------------------------------------------------------------------------
(* The checks, each TRUE for DISPATCH_OK *)

Options(argv) == {i \in 2 .. Len(argv) : Dashed(argv[i].text)}

AllArgsValid(argv, cmd) ==
    \A i \in Options(argv) : ArgOf(cmd, Name(argv[i].text)) # {}

\* For each option whose argument is numeric: there is a value, and it passes.
EachValue(argv, cmd, Passes(_, _)) ==
    \A i \in Options(argv) : \A a \in ArgOf(cmd, Name(argv[i].text)) :
        cmd.args[a].numeric =>
            i < Len(argv) /\ Passes(Value(argv[i + 1].text), cmd.args[a])

ArgsValueNumber(argv, cmd) ==
    EachValue(argv, cmd, LAMBDA v, arg : v # None)

Below(v, lo) == v \in Int /\ v < lo
Above(v, hi) == v \in Int /\ v > hi

\* Fault: the maximum is not checked.
ArgsValueMinOnly(argv, cmd) ==
    EachValue(argv, cmd, LAMBDA v, arg : ~Below(v, arg.lo))

ArgsValueRange(argv, cmd) ==
    EachValue(argv, cmd, LAMBDA v, arg : ~Below(v, arg.lo) /\ ~Above(v, arg.hi))

\* argv_arg(): the first token whose tail is the name, 0 if none.
ArgvArg(argv, name) ==
    LET at == {i \in DOMAIN argv : TailAt(argv, i) = name}
    IN  IF at = {} THEN 0 ELSE Min(at)

\* Fault: the value must not be the last token.
AllRequiredArgsMore(argv, cmd) ==
    \A aa \in DOMAIN cmd.args : cmd.args[aa].req =>
        /\ ArgvArg(argv, cmd.args[aa].name) = 2 * aa
        /\ 2 * aa < Len(argv) - 1

\* Argument aa, counted from 1, belongs in argv[2*aa-1] with its value behind.
AllRequiredArgs(argv, cmd) ==
    \A aa \in DOMAIN cmd.args : cmd.args[aa].req =>
        /\ ArgvArg(argv, cmd.args[aa].name) = 2 * aa
        /\ 2 * aa < Len(argv)

-------------------------------------------------------------------------------
(* dispatch() and the handler *)

Refused == [code |-> "error"]
Ignored == [code |-> "ok"]

\* A handler takes its arguments by position and converts them unchecked;
\* beyond argc there is NULL.
Param(cmd, argv, r) ==
    IF r >= Len(argv) THEN None
    ELSE IF cmd.conv = "strtod" THEN Value(argv[r + 1].text) ELSE Long(argv[r + 1].text)

Executed(argv, verb) ==
    [code |-> IF verb = "quit" THEN "quit" ELSE "ok",
     verb |-> verb,
     read |-> [r \in Commands[verb].reads |-> Param(Commands[verb], argv, r)]]

DispatchLine(l) ==
    LET s == CreateArgList(l)
        verb == TextOf(s.argv[1].text)
        cmd == Commands[verb]
    IN  IF s.err # 0 THEN Refused
        ELSE IF s.argv = <<>> THEN Ignored
        ELSE IF /\ verb \in DOMAIN Commands
                /\ AllArgsValid(s.argv, cmd)
                /\ ArgsValueNumber(s.argv, cmd)
                /\ ArgsValueRange(s.argv, cmd)
                /\ AllRequiredArgs(s.argv, cmd)
        THEN Executed(s.argv, verb)
        ELSE Refused

-------------------------------------------------------------------------------
(* The client types a line, enters it and goes on with the next *)

Separating(x) == x \in {SP, QT}
Extras(l) ==
    Cardinality({i \in 2 .. Len(l) : Separating(l[i]) /\ Separating(l[i - 1])})

Type(x) ==
    /\ reply = Waiting /\ Len(line) < MaxLine
    /\ line' = Append(line, x)
    /\ Extras(line') <= MaxExtra
    /\ UNCHANGED reply

Word1(x) == x \in Verbs /\ \A i \in DOMAIN line : Separating(line[i])
Word2(x) == x \in Words /\ \E i \in DOMAIN line : ~Separating(line[i])
TypeWord ==
    /\ line # <<>> => Separating(Last(line))
    /\ \E x \in Verbs \cup Words : (Word1(x) \/ Word2(x)) /\ Type(x)

TypeSeparator == \E x \in {SP, QT} : Type(x)

Enter ==
    /\ reply = Waiting
    /\ reply' = DispatchLine(line)
    /\ UNCHANGED line

NextLine ==
    /\ reply # Waiting
    /\ line' = <<>> /\ reply' = Waiting

DispatchInit == line = <<>> /\ reply = Waiting

DispatchNext == TypeWord \/ TypeSeparator \/ Enter \/ NextLine

DispatchSpec == DispatchInit /\ [][DispatchNext]_dispatchVars

-------------------------------------------------------------------------------
(* Properties *)

Ran == "verb" \in DOMAIN reply

DispatchTypeOK ==
    /\ line \in Seq(Verbs \cup Words \cup {SP, QT})
    /\ IF Ran
       THEN /\ reply.code \in {"ok", "quit"} /\ reply.verb \in DOMAIN Commands
            /\ reply.read \in [Commands[reply.verb].reads -> Number \cup {None}]
       ELSE reply \in {Waiting, Refused, Ignored}

\* Dispatch.c:326-341, the comment of create_arg_list(), as a definition: a
\* position is quoted if an odd number of quotes come before it; separators are
\* the quotes and the blanks outside them; a token is a run between separators,
\* or the nothing between two quotes.
Quoted(l, i) == Cardinality({j \in 1 .. i - 1 : l[j] = QT}) % 2 = 1
Between(l, i) == l[i] = QT \/ (l[i] = SP /\ ~Quoted(l, i))
TokenStarts(l) ==
    {i \in DOMAIN l : \/ ~Between(l, i) /\ (i = 1 \/ Between(l, i - 1))
                      \/ l[i] = QT /\ Quoted(l, i) /\ l[i - 1] = QT}
TokenAt(l, i) ==
    SubSeq(l, i, Min({j \in i .. Len(l) : Between(l, j)} \cup {Len(l) + 1}) - 1)
Nth(S, k) == CHOOSE i \in S : Cardinality({j \in S : j <= i}) = k
Tokens(l) ==
    [k \in 1 .. Cardinality(TokenStarts(l)) |-> TokenAt(l, Nth(TokenStarts(l), k))]

\* The one-pass tokenizer, with its last_ch and in_quote, cuts every line into
\* the tokens the definition says, or reports too many or an open quote.
ArgListCorrect ==
    /\ DispatchTypeOK
    /\ reply # Waiting =>
         LET s == CreateArgList(line)
         IN  CASE s.err = 0  -> [k \in DOMAIN s.argv |-> s.argv[k].text] = Tokens(line)
               [] s.err = -1 -> Len(Tokens(line)) > MaxArgc
               [] OTHER      -> Quoted(line, Len(line) + 1)

\* A value that is taken neither for an option nor, without two characters, for
\* the name of an argument.
NoName(text, args) ==
    /\ ~Dashed(text)
    /\ \A a \in DOMAIN args :
         args[a].name \notin {Name(text), TextOf(SubSeq(text, 3, Len(text)))}

\* A line written as the help text shows it: the command, then each argument's
\* "--name" and a value in range, the required ones and any number of optional
\* ones, in the table's order, spaced or quoted, no more than argv[] has room for,
\* and no value that looks like something else.
Canonical(toks, verb, n) ==
    LET args == Commands[verb].args
    IN  /\ Len(toks) = 2 * n + 1 /\ Len(toks) <= MaxArgc
        /\ n <= Len(args) /\ \A a \in DOMAIN args : args[a].req => a <= n
        /\ TextOf(toks[1]) = verb
        /\ \A a \in 1 .. n :
             /\ Dashed(toks[2 * a]) /\ Name(toks[2 * a]) = args[a].name
             /\ NoName(toks[2 * a + 1], args)
             /\ args[a].numeric => Value(toks[2 * a + 1]) \in args[a].lo .. args[a].hi

\* Every such line is executed, by that command, with those values.
CanonicalExecuted ==
    reply # Waiting /\ ~Quoted(line, Len(line) + 1) =>
        LET toks == Tokens(line)
        IN  \A verb \in DOMAIN Commands, n \in 0 .. Len(line) :
              Canonical(toks, verb, n) =>
                /\ Ran /\ reply.verb = verb
                /\ \A a \in 1 .. n : 2 * a \in Commands[verb].reads =>
                     reply.read[2 * a] = IF Commands[verb].conv = "strtod"
                                         THEN Value(toks[2 * a + 1])
                                         ELSE Long(toks[2 * a + 1])

\* When every other token is a "--name", what the handler takes by position for
\* a required numeric argument is what the checks, which go by name, verified:
\* a number that is not outside the range.
OptionsVerified ==
    Ran =>
      LET toks == Tokens(line)
          args == Commands[reply.verb].args
      IN  (\A i \in DOMAIN toks : i % 2 = 0 => Dashed(toks[i])) =>
            \A a \in DOMAIN args : args[a].req /\ args[a].numeric =>
              /\ 2 * a < Len(toks) /\ Name(toks[2 * a]) = args[a].name
              /\ LET v == Value(toks[2 * a + 1])
                 IN  v # None /\ ~Below(v, args[a].lo) /\ ~Above(v, args[a].hi)
===============================================================================
