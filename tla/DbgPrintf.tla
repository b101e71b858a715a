----------------------------- MODULE DbgPrintf -----------------------------
(***************************************************************************)
(* compoent/DEBUG_PRINT/dbg_printf.c: the printf of the log macros, which  *)
(* puts one character after the other into the transmit FIFO.  One step is *)
(* one turn of its loop.                                                   *)
(*                                                                         *)
(* A character is a string; a format, and a string argument, is a sequence *)
(* of them.                                                                *)
(***************************************************************************)
EXTENDS Integers, SequencesExt

CONSTANTS
    IntBits,      \* width of an int, 16
    DbgFormats,   \* bound: the formats, with the names of the functions they are in
    DbgNumbers,   \* bound: the numbers that are printed, unsigned
    DbgStrings    \* bound: the strings that are printed

VARIABLES
    dbgFmt, dbgAt,   \* the format, and where in it the loop is
    dbgArgs,         \* the arguments va_arg has not taken
    dbgOut,          \* what was put into the FIFO
    dbgPieces        \* history: for each conversion, its argument and what it put out

dbgVars == <<dbgFmt, dbgAt, dbgArgs, dbgOut, dbgPieces>>

Conversion == {"c", "s", "d", "u", "x", "p"}
NullString == <<"NULL">>    \* the pointer
NullText == <<"(", "n", "u", "l", "l", ")">>
Numeral == <<"0", "1", "2", "3", "4", "5", "6", "7", "8", "9", "a", "b", "c", "d", "e", "f">>

\* dbg_putc
Putc(c) == IF c = "LF" THEN <<"CR", "LF">> ELSE <<c>>
Puts(s) == FlattenSeq([i \in DOMAIN s |-> Putc(s[i])])

\* dbg_u16_dec, dbg_u16_hex: the digits go into a buffer, least first, and come
\* out of it last first
Digits[v \in 0 .. 2 ^ IntBits - 1, base \in {10, 16}] ==
    (IF v < base THEN << >> ELSE Digits[v \div base, base]) \o <<Numeral[(v % base) + 1]>>

DecimalAsIs(v) ==    \* a slip: the number printed is not the negated one
    IF v < 2 ^ (IntBits - 1) THEN Digits[v, 10] ELSE <<"-">> \o Digits[v, 10]

\* -v is taken in 16 bits, so the least int is its own negative, and prints as
\* the unsigned number it then is
Decimal(v) ==
    IF v < 2 ^ (IntBits - 1) THEN Digits[v, 10]
    ELSE <<"-">> \o Digits[(2 ^ IntBits - v) % (2 ^ IntBits), 10]

Converted(conversion, arg) ==
    CASE conversion = "c" -> Putc(arg)
      [] conversion = "s" -> Puts(IF arg = NullString THEN NullText ELSE arg)
      [] conversion = "d" -> Decimal(arg)
      [] conversion = "u" -> Digits[arg, 10]
      [] conversion \in {"x", "p"} -> Digits[arg, 16]

\* The arguments a format is called with: one of the right kind for each of its
\* conversions
ConversionsOf(fmt) ==
    LET From[i \in 1 .. Len(fmt) + 2] ==
            IF i >= Len(fmt) THEN << >>
            ELSE IF fmt[i] # "%" THEN From[i + 1]
            ELSE (IF fmt[i + 1] \in Conversion THEN <<fmt[i + 1]>> ELSE << >>) \o From[i + 2]
    IN  From[1]

ArgsOf(conversion) ==
    CASE conversion = "c" -> {"a", "LF"}
      [] conversion = "s" -> DbgStrings \cup {NullString}
      [] OTHER -> DbgNumbers

RECURSIVE ArgLists(_)
ArgLists(conversions) ==
    IF conversions = << >> THEN {<< >>}
    ELSE {<<arg>> \o rest : arg \in ArgsOf(Head(conversions)), rest \in ArgLists(Tail(conversions))}

Put(out, past) ==
    /\ dbgOut' = dbgOut \o out
    /\ dbgAt' = dbgAt + past
    /\ UNCHANGED dbgFmt

InFmt == dbgAt <= Len(dbgFmt)

PrintCharacter ==
    /\ InFmt /\ dbgFmt[dbgAt] # "%"
    /\ Put(Putc(dbgFmt[dbgAt]), 1)
    /\ UNCHANGED <<dbgArgs, dbgPieces>>

PrintConversion ==
    /\ InFmt /\ dbgFmt[dbgAt] = "%"
    /\ LET conversion == dbgFmt[dbgAt + 1]
           out == Converted(conversion, Head(dbgArgs))
       IN  /\ conversion \in Conversion
           /\ Put(out, 2)
           /\ dbgArgs' = Tail(dbgArgs)
           /\ dbgPieces' = Append(dbgPieces, [conversion |-> conversion, arg |-> Head(dbgArgs), out |-> out])

\* A second % stands for itself, anything else is printed with the first and
\* takes no argument
PrintOther ==
    /\ InFmt /\ dbgFmt[dbgAt] = "%"
    /\ LET other == dbgFmt[dbgAt + 1]
       IN  /\ other \notin Conversion
           /\ Put(<<"%">> \o (IF other = "%" THEN << >> ELSE Putc(other)), 2)
    /\ UNCHANGED <<dbgArgs, dbgPieces>>

\* dbg_prefix, and the call: no format ends in the middle of a conversion (the
\* macros end each with a newline)
DbgInit ==
    \E call \in DbgFormats :
        /\ dbgFmt = call.fmt
        /\ dbgArgs \in ArgLists(ConversionsOf(call.fmt))
        /\ dbgAt = 1
        /\ dbgOut = <<"[">> \o Puts(call.fn) \o <<"]", " ">>
        /\ dbgPieces = << >>

DbgNext == PrintCharacter \/ PrintConversion \/ PrintOther

DbgSpec == DbgInit /\ [][DbgNext]_dbgVars

NumberOf(digits, base) ==
    FoldLeft(LAMBDA v, d : v * base + (CHOOSE k \in 0 .. 15 : Numeral[k + 1] = d), 0, digits)

Reads(digits, base, v) ==
    /\ NumberOf(digits, base) = v
    /\ Len(digits) > 1 => digits[1] # "0"

Negative(v) == v >= 2 ^ (IntBits - 1)

\* A log line says what it was given: the k-th conversion prints the k-th
\* argument, a number reads back as itself without a leading zero, and every
\* line feed, one inside a string too, follows a carriage return of its own
\* (dbg_printf.c 17-22, 61-114)
LogsWhatItIsGiven ==
    /\ \A i \in DOMAIN dbgPieces :
          LET n == dbgPieces[i]
          IN  CASE n.conversion = "d" /\ Negative(n.arg) ->
                     Head(n.out) = "-" /\ Reads(Tail(n.out), 10, 2 ^ IntBits - n.arg)
                [] n.conversion = "u" \/ (n.conversion = "d" /\ ~Negative(n.arg)) -> Reads(n.out, 10, n.arg)
                [] n.conversion \in {"x", "p"} -> Reads(n.out, 16, n.arg)
                [] n.conversion = "c" -> SelectSeq(n.out, LAMBDA c : c # "CR") = <<n.arg>>
                [] n.conversion = "s" ->
                     SelectSeq(n.out, LAMBDA c : c # "CR") = (IF n.arg = NullString THEN NullText ELSE n.arg)
    /\ \A i \in DOMAIN dbgOut : (dbgOut[i] = "LF") <=> (i > 1 /\ dbgOut[i - 1] = "CR")
    /\ [i \in DOMAIN dbgPieces |-> dbgPieces[i].conversion] \o ConversionsOf(SubSeq(dbgFmt, dbgAt, Len(dbgFmt)))
          = ConversionsOf(dbgFmt)
=============================================================================
