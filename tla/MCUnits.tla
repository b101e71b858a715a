------------------------------ MODULE MCUnits ------------------------------
(***************************************************************************)
(* The units of the firmware that call each other only through the values  *)
(* they are given: the door manager, the start of the board, the keys, the *)
(* console and the log; and the tool that bounds the stack.  A behaviour   *)
(* is one of any of them, on its own: Frame keeps what belongs to the      *)
(* others.                                                                 *)
(***************************************************************************)
EXTENDS DoorLock, Board, Keys, Console, DynTree, DbgPrintf, StackUsage, TLC

VARIABLE unit    \* the one that runs

CONSTANTS ca, cb

\* A console with two command words, a tree of three nodes besides the root,
\* matched two levels deep, and a pool of two tokens.  Its lines are all those
\* of up to two characters, those of three that begin with a command, and some
\* longer ones, with line ends, with a third token, with blanks in quotes.  The
\* hash tells all their words apart.
MCHash(word) ==
    FoldLeft(LAMBDA h, c : 4 * h + (CASE c = ca -> 1 [] c = cb -> 2 [] OTHER -> 3), 0, word)

MCCommands == {<<ca>>, <<cb>>}

MCInput ==
    UNION {[1 .. n -> {ca, cb, Blank, Quote}] : n \in 0 .. 2}
    \cup {<<ca>> \o text : text \in [1 .. 2 -> {ca, cb, Blank, Quote}]}
    \cup {<<cb, Blank, ca>>, <<Quote, ca, Quote>>, <<Quote, Blank, ca>>, <<Newline>>, <<ca, Newline, cb>>, <<Blank, cb, Newline>>,
          <<ca, Quote, Quote, cb>>, <<ca, Blank, cb, Blank, ca>>, <<cb, Quote, cb, Blank, Quote, ca>>,
          <<cb, Quote, ca, Quote>>, <<ca, Quote, Blank, cb>>}

\* The board's table, an empty one, one with a type the manager does not know,
\* one whose second callback fails
MCModels ==
    {BoardModel, << >>, << [type |-> "SPI", pins |-> << >>, ok |-> TRUE] >>,
     [BoardModel EXCEPT ![2] = [@ EXCEPT !.ok = FALSE]]}

\* Formats with every conversion, a %% and one that is not a conversion, in
\* functions with names of one and of two characters
MCFormats ==
    {[fn |-> <<"f">>, fmt |-> <<"v", "=", "%", "d", " ", "%", "x", "LF">>],
     [fn |-> <<"f", "g">>, fmt |-> <<"%", "s", "%", "%", "%", "u", "%", "c", "%", "z", "LF">>],
     [fn |-> <<"f">>, fmt |-> <<"%", "LF", "%", "s", "=", "%", "p", "LF">>]}
MCStrings == {<< >>, <<"a", "%">>, <<"a", "LF", "b">>}

\* Programs with a frame on the stack, calls through a pointer to functions that
\* need little, much, and what the library's table says, calls in tail position,
\* and an interrupt handler that calls
MCCode(main) ==
    "main" :> main
    @@ "tick" :> <<<<"push">>, <<"other">>, <<"pop">>, <<"jump", "leaf">>>>
    @@ "leaf" :> <<<<"other">>, <<"ret">>>>
    @@ "isr" :> <<<<"push">>, <<"push">>, <<"call", "tick">>, <<"pop">>, <<"pop">>, <<"reti">>>>
    @@ "frame" :> <<<<"push bp">>, <<"bp:=sp">>, <<"a:=sp">>, <<"a+", 3>>, <<"sp:=a">>, <<"push">>, <<"call", "leaf">>,
                    <<"dec sp">>, <<"call", "printf">>, <<"a:=bp">>, <<"a+", 2>>, <<"sp:=a">>, <<"call", "printf">>,
                    <<"sp:=bp">>, <<"pop bp">>, <<"ret">>>>
    @@ "pointer" :> <<<<"push">>, <<"indirect">>, <<"pop">>, <<"call", "frame">>, <<"ret">>>>

\* What the assembler was given: another section with a label and data of its own,
\* and then each function, with a label inside
MCAsm(code) ==
    FoldLeft(LAMBDA lines, f :
                 lines \o <<<<"area">>, <<"label", "table">>, <<"code", <<"push">>>>, <<"area">>, <<"function", f>>,
                            <<"label", f>>>>
                 \o [i \in 1 .. Len(code[f]) |-> <<"code", code[f][i]>>]
                 \o <<<<"label", "inside">>, <<"data">>>>,
             << >>, SetToSeq(DOMAIN code))

\* The library: a function that calls another, with a third after its end, and two
\* of which there is no code
MCHex ==
    "mullong" :> <<<<"push">>, <<"call", "gptrget">>, <<"inc sp">>, <<"call", "leaf">>, <<"dec sp">>, <<"pop">>, <<"ret">>, <<"push">>>>
    @@ "gptrget" :> <<<<"push">>, <<"push">>, <<"pop">>, <<"pop">>, <<"ret">>>>

\* What is at the start of the chip: the jump to the entry, one to the handler of
\* the first timer, what no jump is, and a function that is not a vector's
MCVectors == {<<0, "ljmp", "main">>, <<11, "ljmp", "isr">>, <<19, "mov", "frame">>, <<20, "ljmp", "pointer">>}

MCProgram(main, targets, printf) ==
    [code |-> MCCode(main), asm |-> MCAsm(MCCode(main)), hex |-> MCHex, library |-> "printf" :> printf,
     guesses |-> "strlen" :> 2, targets |-> "pointer" :> targets, entry |-> "main",
     vectors |-> IF printf = 0 THEN {} ELSE MCVectors]

MCPrograms ==
    {MCProgram(<<<<"inc sp">>, <<"inc sp">>, <<"call", "pointer">>, <<"a:=sp">>, <<"a+", -2>>, <<"sp:=a">>, <<"call", "leaf">>,
                 <<"ret">>>>, targets, printf) :
        targets \in {{"leaf"}, {"leaf", "frame"}}, printf \in {0, 9}}
    \cup {MCProgram(<<<<"push bp">>, <<"call", "tick">>, <<"pop bp">>, <<"jump", last>>>>, {"frame"}, 9) :
              last \in {"frame", "pointer", "printf", "mullong", "strlen"}}
    \cup {MCProgram(<<<<"push">>, <<"call", "mullong">>, <<"call", "strlen">>, <<"pop">>, <<"ret">>>>, {"frame"}, 9)}
MCIdleProgram == MCProgram(<<<<"ret">>>>, {}, 0)

\* Lines no deeper than the tree and deeper, of its words and another
MCDynLines ==
    {<< >>, <<ca>>, <<cb, ca>>, <<ca, cb>>, <<ca, ca, cb>>, <<cb, Blank>>, <<Blank>>}

Frame ==
    /\ UNCHANGED unit
    /\ unit # "doorLock" => UNCHANGED vars
    /\ unit # "board"    => UNCHANGED boardVars
    /\ unit # "keys"     => UNCHANGED keyVars
    /\ unit # "console"  => UNCHANGED consoleVars
    /\ unit # "tree"     => UNCHANGED dynVars
    /\ unit # "log"      => UNCHANGED dbgVars
    /\ unit # "stack"    => UNCHANGED stkVars

UnitsInit ==
    /\ unit \in {"doorLock", "board", "keys", "console", "tree", "log", "stack"}
    /\ Init /\ BoardInit /\ KeysInit /\ ConsoleInit /\ DynInit
    /\ unit # "doorLock" => contact = [d \in Door |-> 1]
    /\ unit # "board"    => model = BoardModel
    /\ IF unit = "log" THEN DbgInit
       ELSE dbgFmt = << >> /\ dbgArgs = << >> /\ dbgAt = 1 /\ dbgOut = << >> /\ dbgPieces = << >>
    /\ IF unit = "stack" THEN StkInit
       ELSE /\ stkProgram = MCIdleProgram /\ stkBound = 0 /\ stkDepth = 0 /\ stkBp = 0 /\ stkA = 0
            /\ stkFrames = << >> /\ stkCaught = << >>

UnitsNext ==
    /\ Frame
    /\ \/ unit = "doorLock" /\ Next
       \/ unit = "board" /\ BoardNext
       \/ unit = "keys" /\ KeysNext
       \/ unit = "console" /\ ConsoleNext
       \/ unit = "tree" /\ DynNext
       \/ unit = "log" /\ DbgNext
       \/ unit = "stack" /\ StkNext

UnitsSpec == UnitsInit /\ [][UnitsNext]_<<unit, vars, boardVars, keyVars, consoleVars, dynVars, dbgVars, stkVars>>
-----------------------------------------------------------------------------
\* The console's table holds the tokens of its line and is given back; the help
\* tells the tree; and the tree of the dynamic mode finds, prints and frees as
\* the static one does (CommandParseTree.c, cmdUserStringParser.c).
CommandsKept == TableIsTheLines /\ HelpTells /\ ActiveIsKnown /\ DynTreeKept
=============================================================================
