------------------------------ MODULE Arguments ------------------------------
(***************************************************************************)
(* Arguments::parse: how the parameter text of a test or a fixture becomes *)
(* the argv of its setup().  A text is a sequence over "x" (any character  *)
(* that means nothing here), " " and "quote"; "kept" is the mark ('\1')    *)
(* that protects a blank inside quotes.                                    *)
(***************************************************************************)
EXTENDS Integers, SequencesExt, FiniteSetsExt

CONSTANT MaxArgs   \* C_MAXARGS, 128 in the code

ASSUME ArgumentsConstants == MaxArgs \in Nat \ {0, 1}

Characters == {"x", " ", "quote"}

(* Protect the blanks inside quotes, but lose the quotes.                   *)
Protected(st, c) ==
    [quoted |-> IF c = "quote" THEN ~st.quoted ELSE st.quoted,
     out    |-> Append(st.out, CASE c = "quote" -> " "
                                 [] c = " " /\ st.quoted -> "kept"
                                 [] OTHER -> c)]
Protect(text) == FoldLeft(Protected, [quoted |-> FALSE, out |-> <<>>], text).out

AlwaysSplit(n) == TRUE   \* mutant: the last argument is split as well
MayStillSplit(n) == n < MaxArgs

(* split() until no argument is left or argv is full: the first argument    *)
(* starts the text, a leading blank leaves it empty.                        *)
Split(st, c) ==
    IF c = " " /\ MayStillSplit(Len(st.args))
    THEN [st EXCEPT !.blank = TRUE]
    ELSE IF st.blank
         THEN [args |-> Append(st.args, <<c>>), blank |-> FALSE]
         ELSE [st EXCEPT !.args[Len(st.args)] = Append(@, c)]
SplitAll(text) ==
    FoldLeft(Split, [args |-> << <<>> >>, blank |-> FALSE], text).args

Unprotect(arg) == [i \in DOMAIN arg |-> IF arg[i] = "kept" THEN " " ELSE arg[i]]

parse(text) ==
    LET args == SplitAll(Protect(text))
    IN  [k \in DOMAIN args |-> Unprotect(args[k])]

(* argv[argc] = nullptr after parse: TestCase::run has room for one pointer *)
(* more than parse can use, FixtureManager::setup has not.                  *)
TestCaseRoom == MaxArgs + 1
FixtureRoom == MaxArgs
TerminatorFits(argc, room) == argc < room

-----------------------------------------------------------------------------
(* Quoting as a reader means it: quotes group, blanks outside quotes and    *)
(* the quotes themselves separate.                                          *)
Quoted(text, i) ==
    Cardinality({j \in 1 .. i - 1 : text[j] = "quote"}) % 2 = 1
Separates(text, i) ==
    text[i] = "quote" \/ (text[i] = " " /\ ~Quoted(text, i))
WordStarts(text) ==
    {i \in DOMAIN text : /\ ~Separates(text, i)
                         /\ i = 1 \/ Separates(text, i - 1)}
WordEnd(text, i) ==
    Min({j \in i .. Len(text) + 1 : j > Len(text) \/ Separates(text, j)}) - 1
Words(text) ==
    {<<i, SubSeq(text, i, WordEnd(text, i))>> : i \in WordStarts(text)}

(* The arguments are the words of the text, in order, each with the blanks  *)
(* that were quoted, after an empty one when the text does not start with a *)
(* word; when there are too many, the last one holds the rest of the text   *)
(* (Arguments.cpp:30-92).                                                   *)
ParsesLikeQuoting(text) ==
    LET argv  == parse(text)
        lead  == IF 1 \in WordStarts(text) THEN 0 ELSE 1
        n     == Cardinality(WordStarts(text)) + lead
        Nth(k) == CHOOSE i \in WordStarts(text) :
                     Cardinality({j \in WordStarts(text) : j < i}) = k - 1 - lead
        rest(i) == [j \in 1 .. Len(text) - i + 1 |->
                       IF text[i + j - 1] = "quote" THEN " " ELSE text[i + j - 1]]
    IN  /\ Len(argv) = IF n < MaxArgs THEN n ELSE MaxArgs
        /\ lead = 1 => argv[1] = <<>>
        /\ \A k \in 1 + lead .. Len(argv) :
             argv[k] = IF k = MaxArgs THEN rest(Nth(k))
                       ELSE SubSeq(text, Nth(k), WordEnd(text, Nth(k)))
===============================================================================
