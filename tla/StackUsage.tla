---------------------------- MODULE StackUsage ----------------------------
(***************************************************************************)
(* tools/stack_usage.py: the bound on the stack that the build computes    *)
(* from the assembly text, and a machine that runs the program, so that    *)
(* the two can be compared.                                                *)
(*                                                                         *)
(* A function is a sequence of items: <<"push">>, <<"pop">>, <<"push bp">>,*)
(* <<"pop bp">>, <<"bp:=sp">>, <<"sp:=bp">>, <<"a:=sp">>, <<"a:=bp">>,     *)
(* <<"a+", n>>, <<"sp:=a">>, <<"inc sp">>, <<"dec sp">>, <<"call", f>>,    *)
(* <<"indirect">>, a call of what the program keeps in a pointer,          *)
(* <<"jump", f>>, <<"other">> and, at its end, <<"ret">> or <<"reti">>.    *)
(***************************************************************************)
EXTENDS Integers, SequencesExt, FiniteSetsExt, TLC

CONSTANTS
    StkPrograms   \* bound: the programs, [code, asm, hex, vectors, library, guesses, targets, entry]:
                  \* the code of each function and the lines it was assembled from, the
                  \* code of the functions of the library, as the linked program has it, what
                  \* is found at its start, <<address, mnemonic, target>> each, the
                  \* cost of those a table gives and of those it guesses when there is no
                  \* code, and the candidates of the indirect calls of each function, which
                  \* are functions of the program

VARIABLES
    stkProgram, stkBound,   \* and what the tool computed for it
    stkDepth, stkBp, stkA,  \* sp, the cell _bp and the accumulator
    stkFrames,              \* the calls under way, the last one first
    stkCaught               \* the calls the interrupt caught; << >> if there is none

stkVars == <<stkProgram, stkBound, stkDepth, stkBp, stkA, stkFrames, stkCaught>>

\* ---- where the code is from

\* parse_asm_file.  A line is <<"function", f>>, the comment before it, <<"label", l>>,
\* <<"area">>, a change of section, <<"data">>, or <<"code", item>>.
\* A function begins at the label its comment announced and ends at the next section
\* or the next function.
Begins(lines, k) ==
    /\ lines[k][1] = "label"
    /\ \E j \in 1 .. k - 1 :
          /\ lines[j] = <<"function", lines[k][2]>>
          /\ \A i \in j + 1 .. k - 1 : lines[i][1] # "function" /\ lines[i] # lines[k]

ParseAsm(lines) ==
    LET begins  == {k \in DOMAIN lines : Begins(lines, k)}
        ends(k) == Min({j \in k + 1 .. Len(lines) : lines[j][1] = "area" \/ j \in begins} \cup {Len(lines) + 1})
        code(k) == SelectSeq(SubSeq(lines, k + 1, ends(k) - 1), LAMBDA line : line[1] = "code")
        items(k) == [i \in DOMAIN code(k) |-> code(k)[i][2]]
    IN  [f \in {lines[k][2] : k \in begins} |-> items(CHOOSE k \in begins : lines[k][2] = f)]

\* truncate_at_ret
UpToRet(items) ==
    LET rets == {i \in DOMAIN items : items[i][1] \in {"ret", "reti"}}
    IN  IF rets = {} THEN items ELSE SubSeq(items, 1, Min(rets))

Callees(items) == {items[i][2] : i \in {j \in DOMAIN items : items[j][1] \in {"call", "jump"}}}

\* The functions main has disassembled: those that are called and neither defined
\* nor in the table, and what they call.
DirectlyCalled(p, symbols) == symbols    \* a slip: what they call is left out

RECURSIVE Disassembled(_, _)
Disassembled(p, symbols) ==
    LET more == UNION {Callees(UpToRet(p.hex[f])) : f \in symbols} \ (DOMAIN ParseAsm(p.asm) \cup symbols)
    IN  IF more \cap DOMAIN p.hex = {} THEN symbols ELSE Disassembled(p, symbols \cup (more \cap DOMAIN p.hex))

LibraryFuncs(p) ==
    LET defined == ParseAsm(p.asm)
        called  == UNION {Callees(defined[f]) : f \in DOMAIN defined}
        symbols == Disassembled(p, (called \cap DOMAIN p.hex) \ (DOMAIN defined \cup DOMAIN p.library))
    IN  [f \in symbols |-> UpToRet(p.hex[f])]

KnownFuncs(p) == ParseAsm(p.asm) @@ LibraryFuncs(p)

\* ---- the analysis

\* analyze_items: what the text of a function does to the stack, in the order of
\* the text; depths are counted from its start
NoDepth == << >>
Unseen == [depth |-> 0, peak |-> 0, bp |-> NoDepth, pending |-> NoDepth, calls |-> {}, tails |-> {}, isr |-> FALSE]

MovedTo(s, depth) == [s EXCEPT !.depth = depth, !.peak = Max({@, depth}), !.pending = NoDepth]

Analyzed(s, item) ==
    LET n == [s EXCEPT !.pending = NoDepth]
    IN  CASE item[1] = "a+" -> IF s.pending = NoDepth THEN s ELSE [s EXCEPT !.pending = <<@[1] + item[2]>>]
          [] item[1] = "sp:=a" -> IF s.pending = NoDepth THEN s ELSE MovedTo(s, s.pending[1])
          [] item[1] = "a:=sp" -> [s EXCEPT !.pending = <<s.depth>>]
          [] item[1] = "a:=bp" -> [s EXCEPT !.pending = IF s.bp = NoDepth THEN <<0>> ELSE s.bp]
          [] item[1] = "bp:=sp" -> [n EXCEPT !.bp = <<s.depth>>]
          [] item[1] = "sp:=bp" -> IF s.bp = NoDepth THEN n ELSE [n EXCEPT !.depth = s.bp[1]]
          [] item[1] \in {"push", "push bp", "inc sp"} -> MovedTo(s, s.depth + 1)
          [] item[1] \in {"pop", "pop bp", "dec sp"} -> [n EXCEPT !.depth = @ - 1]
          [] item[1] = "call" -> [n EXCEPT !.calls = @ \cup {<<s.depth, item[2]>>}]
          [] item[1] = "indirect" -> [n EXCEPT !.calls = @ \cup {<<s.depth, "indirect">>}]
          [] item[1] = "jump" -> [n EXCEPT !.tails = @ \cup {<<s.depth, item[2]>>}]
          [] item[1] = "reti" -> [n EXCEPT !.isr = TRUE]
          [] OTHER -> n

Targets(p, f) == IF f \in DOMAIN p.targets THEN p.targets[f] ELSE {}

ReturnAddress == 2

SiteCostBare(depth, cost) == depth + cost    \* a slip: the return address is left out
SiteCost(depth, cost) == depth + ReturnAddress + cost

\* resolve and cost_of, of the functions `known`.  A name that is not known costs
\* what is guessed, or nothing, and a function that is being resolved already
\* nothing; a candidate of an indirect call is not looked up in the tables.
RECURSIVE Resolved(_, _, _, _)
Resolved(p, known, f, above) ==
    LET info == FoldLeft(Analyzed, Unseen, known[f])
        resolve(callee) ==
            IF callee \in DOMAIN known /\ callee \notin above \cup {f} THEN Resolved(p, known, callee, above \cup {f}) ELSE 0
        cost(callee) ==
            IF callee \in DOMAIN p.library THEN p.library[callee]
            ELSE IF callee \notin DOMAIN known /\ callee \in DOMAIN p.guesses THEN p.guesses[callee] ELSE resolve(callee)
        called(callee) == IF callee = "indirect" THEN Max({0} \cup {resolve(c) : c \in Targets(p, f)}) ELSE cost(callee)
    IN  Max({info.peak}
            \cup {SiteCost(c[1], called(c[2])) : c \in info.calls}
            \cup {t[1] + cost(t[2]) : t \in info.tails})

\* detect_vector_isrs
VECTOR_ADDRS == {3 + 8 * n : n \in 0 .. 11}
VectorIsrs(p) ==
    {v[3] : v \in {u \in p.vectors : u[1] \in VECTOR_ADDRS /\ u[2] \in {"ljmp", "lcall", "ajmp", "acall"}}}

IsrsOfVectors(p) == VectorIsrs(p) \cap DOMAIN ParseAsm(p.asm)    \* a slip: a chip whose vectors are not read has none

\* main: by the vectors, or, if there is nothing to be read at them, by their reti
Isrs(p) ==
    LET funcs == ParseAsm(p.asm)
    IN  IF VectorIsrs(p) # {} THEN VectorIsrs(p) \cap DOMAIN funcs
        ELSE {f \in DOMAIN funcs : FoldLeft(Analyzed, Unseen, funcs[f]).isr}

\* main: the calls of the entry, and one interrupt upon them
Worst(p) ==
    LET known == KnownFuncs(p)
    IN  ReturnAddress + Resolved(p, known, p.entry, {})
        + Max({0} \cup {ReturnAddress + Resolved(p, known, f, {}) : f \in Isrs(p)})

\* ---- the machine

FrameOf(f) == [f |-> f, at |-> 1, bp |-> 0]
StkTop  == Head(stkFrames)
StkRest == Tail(stkFrames)
Item    == IF StkTop.f \in DOMAIN stkProgram.code THEN stkProgram.code[StkTop.f][StkTop.at]
           ELSE stkProgram.hex[StkTop.f][StkTop.at]
Onward  == <<[StkTop EXCEPT !.at = @ + 1]>> \o StkRest

InCode    == stkFrames # << >> /\ StkTop.f \in DOMAIN stkProgram.code \cup DOMAIN stkProgram.hex
InLibrary == stkFrames # << >> /\ StkTop.f \in DOMAIN (stkProgram.library @@ stkProgram.guesses)

Go(frames, depth, bp, acc) ==
    /\ stkFrames' = frames
    /\ stkDepth' = depth
    /\ stkBp' = bp
    /\ stkA' = acc
    /\ UNCHANGED <<stkProgram, stkBound>>

Moves ==
    /\ InCode
    /\ CASE Item[1] \in {"push", "inc sp"} -> Go(Onward, stkDepth + 1, stkBp, stkA)
         [] Item[1] \in {"pop", "dec sp"} -> Go(Onward, stkDepth - 1, stkBp, stkA)
         [] Item[1] = "push bp" ->
               Go(<<[StkTop EXCEPT !.at = @ + 1, !.bp = stkBp]>> \o StkRest, stkDepth + 1, stkBp, stkA)
         [] Item[1] = "pop bp" -> Go(Onward, stkDepth - 1, StkTop.bp, stkA)
         [] Item[1] = "bp:=sp" -> Go(Onward, stkDepth, stkDepth, stkA)
         [] Item[1] = "sp:=bp" -> Go(Onward, stkBp, stkBp, stkA)
         [] Item[1] = "a:=sp" -> Go(Onward, stkDepth, stkBp, stkDepth)
         [] Item[1] = "a:=bp" -> Go(Onward, stkDepth, stkBp, stkBp)
         [] Item[1] = "a+" -> Go(Onward, stkDepth, stkBp, stkA + Item[2])
         [] Item[1] = "sp:=a" -> Go(Onward, stkA, stkBp, stkA)
         [] Item[1] = "other" -> Go(Onward, stkDepth, stkBp, 0)
         [] OTHER -> FALSE
    /\ UNCHANGED stkCaught

\* A function of the library without code takes what the tables say, at once
Taken(callee) == (stkProgram.library @@ stkProgram.guesses)[callee]

Entered(frames, depth, callee) ==
    IF callee \in DOMAIN (stkProgram.library @@ stkProgram.guesses)
    THEN Go(<<FrameOf(callee)>> \o frames, depth + Taken(callee), stkBp, stkA)
    ELSE Go(<<FrameOf(callee)>> \o frames, depth, stkBp, stkA)

Calls ==
    /\ InCode
    /\ CASE Item[1] = "call" -> Entered(Onward, stkDepth + ReturnAddress, Item[2])
         [] Item[1] = "jump" -> Entered(StkRest, stkDepth, Item[2])
         [] Item[1] = "indirect" -> Go(<<FrameOf("trampoline")>> \o Onward, stkDepth + 2 * ReturnAddress, stkBp, stkA)
         [] OTHER -> FALSE
    /\ UNCHANGED stkCaught

\* An indirect call pushes the address of the function and returns to it
Trampoline ==
    /\ stkFrames # << >> /\ StkTop.f = "trampoline"
    /\ \E callee \in Targets(stkProgram, StkRest[1].f) : Entered(StkRest, stkDepth - ReturnAddress, callee)
    /\ UNCHANGED stkCaught

Returns ==
    /\ \/ /\ InCode /\ Item[1] = "ret"
          /\ Go(StkRest, stkDepth - ReturnAddress, stkBp, stkA)
       \/ /\ InLibrary
          /\ Go(StkRest, stkDepth - Taken(StkTop.f) - ReturnAddress, stkBp, stkA)
    /\ UNCHANGED stkCaught

\* One interrupt at a time, which leaves the accumulator as it was: a function that
\* ends with reti and, if the chip's vectors are known, is at one
Interrupt ==
    /\ stkCaught = << >> /\ stkFrames # << >>
    /\ \E f \in DOMAIN stkProgram.code :
          /\ Last(stkProgram.code[f]) = <<"reti">>
          /\ stkProgram.vectors # {} => \E v \in stkProgram.vectors : v[3] = f
          /\ Go(<<FrameOf(f)>>, stkDepth + ReturnAddress, stkBp, stkA)
          /\ stkCaught' = <<stkFrames, stkA>>

InterruptReturns ==
    /\ stkCaught # << >> /\ InCode /\ Item[1] = "reti"
    /\ Go(stkCaught[1], stkDepth - ReturnAddress, stkBp, stkCaught[2])
    /\ stkCaught' = << >>

StkInit ==
    /\ stkProgram \in StkPrograms
    /\ stkBound = Worst(stkProgram)
    /\ stkDepth = ReturnAddress /\ stkBp = 0 /\ stkA = 0
    /\ stkFrames = <<FrameOf(stkProgram.entry)>>
    /\ stkCaught = << >>

StkNext == Moves \/ Calls \/ Trampoline \/ Returns \/ Interrupt \/ InterruptReturns

StkSpec == StkInit /\ [][StkNext]_stkVars

\* The program never needs more stack than the tool said: not in the deepest call,
\* with a frame on the stack, over a tail call, in a function that is reached
\* through a pointer, and with an interrupt on top of that.  The two bytes with
\* which an indirect call goes to its function are not in the sum
\* (stack_usage.py 47-115, 361-433).
WithinBound ==
    LET under == stkFrames \o (IF stkCaught = << >> THEN << >> ELSE stkCaught[1])
    IN  stkDepth <= stkBound + (IF \E i \in DOMAIN under : under[i].f = "trampoline" THEN ReturnAddress ELSE 0)
=============================================================================
