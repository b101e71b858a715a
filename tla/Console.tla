------------------------------ MODULE Console ------------------------------
(***************************************************************************)
(* The serial console: cmds_poll of userTask_cmds.c hands what has come in *)
(* to the command tree, CommandParseTree.c in its static mode, which cuts  *)
(* it into tokens, finds the command and runs its handler.  The            *)
(* token table lives in a pool that holds one table at a time.  The build  *)
(* has the console switched off (`#if 0` in Main.c and                     *)
(* userTask_doorLock.c); the code is modelled as it would run.             *)
(*                                                                         *)
(* A node is found by the hash of its word alone, the FNV hash of          *)
(* CommandParseTree.c, here the parameter Hash.  The static array never    *)
(* gives a node back but all at once.                                      *)
(***************************************************************************)
EXTENDS Integers, Sequences, SequencesExt, FiniteSetsExt

(***************************************************************************)
(* cmdUserStringParser.c: how a command line is cut into tokens.           *)
(*                                                                         *)
(* A line is a sequence of characters, of which only the blank and the     *)
(* double quote matter; the end of the sequence is the '\0' (PARSE_SIZE is *)
(* one more than the longest line cmds_poll reads).  A token is where it   *)
(* starts and how long it is, without its quotes.                          *)
(***************************************************************************)
CONSTANTS Blank, Quote

\* The first position at or after i with a character of stop, or the end.
Reach(s, i, stop) ==
    IF \E j \in i .. Len(s) : s[j] \in stop
    THEN CHOOSE j \in i .. Len(s) : s[j] \in stop /\ \A k \in i .. j - 1 : s[k] \notin stop
    ELSE Len(s) + 1

\* Past the blanks at and after i.
SkipBlanks(s, i) ==
    IF \E j \in i .. Len(s) : s[j] # Blank
    THEN CHOOSE j \in i .. Len(s) : s[j] # Blank /\ \A k \in i .. j - 1 : s[k] = Blank
    ELSE Len(s) + 1

-----------------------------------------------------------------------------
\* A slip, for mutation runs only: a quote does not end a plain token.
PlainEndAtBlank(s, h) == Reach(s, h, {Blank})

\* scanNextToken outside quotes: a quote ends a token as a blank does.
PlainEnd(s, h) == Reach(s, h, {Blank, Quote})

\* scanNextToken inside quotes: up to the closing quote or the end of the line.
QuotedEnd(s, h) == Reach(s, h, {Quote})

\* scanNextToken, from where it stopped last: the next token goes to the table;
\* the closing quote is skipped, an end of line is not.
TakeToken(s, scan) ==
    LET h == SkipBlanks(s, scan.at)
    IN  IF h > Len(s) THEN scan
        ELSE IF s[h] = Quote
        THEN LET e == QuotedEnd(s, h + 1)
             IN  [at |-> IF e > Len(s) THEN e ELSE e + 1,
                  tokens |-> Append(scan.tokens, [head |-> h + 1, len |-> e - (h + 1)])]
        ELSE LET e == PlainEnd(s, h)
             IN  [at |-> e, tokens |-> Append(scan.tokens, [head |-> h, len |-> e - h])]

\* ParseSpaceCnt: one token after another.  None is without a character of the
\* line, so there are no more of them than of these.
Tokenize(s) ==
    LET scan[n \in 0 .. Len(s)] ==
            IF n = 0 THEN [at |-> 1, tokens |-> <<>>] ELSE TakeToken(s, scan[n - 1])
    IN  scan[Len(s)].tokens

WordOf(s, token) == SubSeq(s, token.head, token.head + token.len - 1)

-----------------------------------------------------------------------------
(***************************************************************************)
(* The rules stated in the comment above scanNextToken, with no scan: the  *)
(* quotes of a line open and close in turn, tokens are what stands between *)
(* an opening quote and the next one, or the end, and the longest runs of  *)
(* other characters outside.                                               *)
(***************************************************************************)
QuotesBefore(s, i) == Cardinality({j \in 1 .. i - 1 : s[j] = Quote})

Outside(s, i) == QuotesBefore(s, i) % 2 = 0

Plain(s, i) == i \in 1 .. Len(s) /\ Outside(s, i) /\ s[i] \notin {Blank, Quote}

IsToken(s, t) ==
    LET last == t.head + t.len - 1
    IN  \/ /\ t.head > 1 /\ s[t.head - 1] = Quote /\ Outside(s, t.head - 1)
           /\ \A i \in t.head .. last : s[i] # Quote
           /\ last = Len(s) \/ s[last + 1] = Quote
        \/ /\ t.len > 0 /\ \A i \in t.head .. last : Plain(s, i)
           /\ ~Plain(s, t.head - 1) /\ ~Plain(s, last + 1)

TokensOf(s) ==
    {t \in [head : 1 .. Len(s) + 1, len : 0 .. Len(s)] :
        t.head + t.len - 1 <= Len(s) /\ IsToken(s, t)}

\* The table has them, each once and in the order of the line.
Tabulates(table, s) ==
    /\ Range(table) = TokensOf(s)
    /\ \A j, k \in DOMAIN table : j < k => table[j].head < table[k].head
-----------------------------------------------------------------------------
(***************************************************************************)
(* A tree as the command parser prints it, in both of its modes: a line to *)
(* a node, the parent before its children, a step further in to each level *)
(* (CommandParseTree.c, show and showHelp).  What a reader makes of it.    *)
(***************************************************************************)
\* The node of a line is below the last one before it that is a step less in.
PathOfLine(lines, k) ==
    [d \in 1 .. lines[k].depth + 1 |-> lines[Max({j \in 1 .. k : lines[j].depth = d - 1})].word]

\* Every node has a line of its own, and from its place the reader can tell the
\* way to it: `known` are the nodes, `path` and `runs` what is to be told.
ReadsAs(lines, known, path(_), runs(_)) ==
    /\ Len(lines) = Cardinality(known)
    /\ \A k \in DOMAIN lines : lines[k].depth = 0 \/ (k > 1 /\ lines[k].depth <= lines[k - 1].depth + 1)
    /\ {<<PathOfLine(lines, k), lines[k].handler>> : k \in DOMAIN lines} = {<<path(b), runs(b)>> : b \in known}

-----------------------------------------------------------------------------

CONSTANTS
    Newline,    \* CR and LF
    ParseSize,  \* PARSE_SIZE, 20
    MaxNodes,   \* CMDTREE_STATIC_MAX_NODES, 6
    MaxDepth,   \* CMDTREE_STATIC_MAX_DEPTH, 1
    PoolTokens, \* userStrings in CMD_TOKEN_POOL_BYTES, 4
    Hash(_),    \* fnv_hash of a word
    Commands,   \* bound: the words commands are registered by
    Input       \* bound: what may be waiting in the receive FIFO at a poll

ASSUME ConsoleAssumption ==
    /\ MaxNodes \in Nat \ {0} /\ MaxDepth \in Nat /\ PoolTokens \in Nat
    /\ Blank # Quote
    /\ \A raw \in Input : raw \in Seq(Range(raw)) /\ Len(raw) < ParseSize

Index == 0 .. MaxNodes - 1
Null  == -1          \* CMDTREE_NULL

VARIABLES
    nodes,      \* cmdTree_nodes
    activeNode, lastError,
    poolBusy,   \* cmdTokenPoolBusy
    userData,   \* the token table, <<>> for NULL and for an empty one
    pc,         \* "idle", "parse", or "handler" while one runs
    line,       \* cmdBuf, while it is in use
    matched     \* bestMatch and bestDepth + 1, once they are found

treeVars  == <<nodes, activeNode>>
tokenVars == <<poolBusy, userData>>
consoleVars == <<treeVars, lastError, tokenVars, pc, line, matched>>

Free == [used |-> FALSE, hash |-> 0, handler |-> FALSE,
         parent |-> 0, first |-> 0, next |-> 0]

Root == [Free EXCEPT !.used = TRUE, !.parent = Null, !.first = Null, !.next = Null]

NoMatch == [node |-> Null, depth |-> 0]

ConsoleTypeOK ==
    /\ \A i \in Index :
          /\ nodes[i].used \in BOOLEAN /\ nodes[i].handler \in BOOLEAN
          /\ {nodes[i].parent, nodes[i].first, nodes[i].next} \subseteq Index \cup {Null}
          /\ nodes[i].hash \in {0} \cup {Hash(w) : w \in Commands}
    /\ activeNode \in Index \cup {Null}
    /\ lastError \in {"OK", "NOT_FOUND", "NULL_PARENT", "MEM", "NOT_INIT"}
    /\ poolBusy \in BOOLEAN
    /\ Len(userData) <= PoolTokens
    /\ pc \in {"idle", "parse", "handler"}
    /\ matched \in [node : Index \cup {Null}, depth : 0 .. MaxDepth]

ConsoleInit ==
    /\ nodes = [i \in Index |-> Free]
    /\ activeNode = Null /\ lastError = "OK"
    /\ poolBusy = FALSE /\ userData = <<>>
    /\ pc = "idle" /\ line = <<>> /\ matched = NoMatch

-----------------------------------------------------------------------------
\* find_child, down the list of siblings from node i, which is not longer than
\* the array
Found(i, hash) ==
    LET at[n \in 0 .. MaxNodes] ==
            IF n = 0 THEN i
            ELSE LET j == at[n - 1]
                 IN  IF j = Null \/ nodes[j].hash = hash THEN j ELSE nodes[j].next
    IN  at[MaxNodes]

-----------------------------------------------------------------------------
(***************************************************************************)
(* Plausible slips, for mutation runs only: a node linked at the place of  *)
(* the head instead of before it, the last node matched instead of the     *)
(* last with a handler, a failed parse that keeps its tokens, a count that *)
(* is not compared with the pool.                                          *)
(***************************************************************************)
LinkedOver(slot, parent) ==
    [nodes EXCEPT ![slot].next = Null, ![parent].first = slot]

BetterLast(best, child, depth) == [node |-> child, depth |-> depth]

GiveUpKept(err) ==
    /\ lastError' = err
    /\ pc' = "idle"
    /\ line' = <<>>
    /\ UNCHANGED tokenVars

PoolRefusesNone(count) == poolBusy

-----------------------------------------------------------------------------
\* The children of a node form a list, the newest first.
Linked(slot, parent) ==
    [nodes EXCEPT ![slot].next = nodes[parent].first, ![parent].first = slot]

\* The deepest node with a handler is the match.
Better(best, child, depth) ==
    IF nodes[child].handler THEN [node |-> child, depth |-> depth] ELSE best

\* A word further down the tree: `cur` is Null once there was no child.
Descend(way, words, depth) ==
    LET child == IF way.cur = Null THEN Null
                 ELSE Found(nodes[way.cur].first, Hash(words[depth]))
    IN  IF child = Null THEN [way EXCEPT !.cur = Null]
        ELSE [cur |-> child, best |-> Better(way.best, child, depth)]

\* cmdTree_CommandParse's walk down the tree, one word a level.  (Its fallback
\* for a node with a handler that is not the match has none to fall back to.)
Walk(words) ==
    LET deep == IF Len(words) < MaxDepth THEN Len(words) ELSE MaxDepth
        way[depth \in 0 .. deep] ==
            IF depth = 0 THEN [cur |-> 0, best |-> NoMatch]
            ELSE Descend(way[depth - 1], words, depth)
    IN  way[deep].best

Words == [k \in DOMAIN userData |-> WordOf(line, userData[k])]

\* cmd_MemoryAlloc
PoolRefuses(count) == poolBusy \/ count > PoolTokens

\* RESET_USERDATA_RECORD and cmd_MemoryFree
GiveUp(err) ==
    /\ lastError' = err
    /\ pc' = "idle"
    /\ userData' = <<>>
    /\ poolBusy' = FALSE
    /\ line' = <<>>

-----------------------------------------------------------------------------
\* A slip, for mutation runs only: the line of a child printed after those
\* below it.
HelpAfter(node) ==
    LET from[n \in 0 .. MaxNodes + 1, i \in Index \cup {Null}, depth \in 0 .. MaxNodes] ==
            IF n = 0 \/ i = Null THEN <<>>
            ELSE from[n - 1, nodes[i].first, depth + 1]
                 \o <<[depth |-> depth, word |-> nodes[i].hash, handler |-> nodes[i].handler]>>
                 \o from[n - 1, nodes[i].next, depth]
    IN  from[MaxNodes + 1, nodes[node].first, 0]

\* showHelp_subtree_static: a node's children, each before those below it.  (It
\* prints the word, here its hash, that the node was registered by.)
Help(node) ==
    LET from[n \in 0 .. MaxNodes + 1, i \in Index \cup {Null}, depth \in 0 .. MaxNodes] ==
            IF n = 0 \/ i = Null THEN <<>>
            ELSE <<[depth |-> depth, word |-> nodes[i].hash, handler |-> nodes[i].handler]>>
                 \o from[n - 1, nodes[i].first, depth + 1]
                 \o from[n - 1, nodes[i].next, depth]
    IN  from[MaxNodes + 1, nodes[node].first, 0]

\* show_subtree_static: the node itself, then its children
Show(node) ==
    LET from[n \in 0 .. MaxNodes, i \in Index, depth \in 0 .. MaxNodes] ==
            LET child[m \in 0 .. MaxNodes, c \in Index \cup {Null}] ==
                    IF m = 0 \/ c = Null THEN <<>> ELSE from[n - 1, c, depth + 1] \o child[m - 1, nodes[c].next]
            IN  IF n = 0 THEN <<>>
                ELSE <<[depth |-> depth, word |-> nodes[i].hash, handler |-> nodes[i].handler]>>
                     \o child[MaxNodes, nodes[i].first]
    IN  from[MaxNodes, node, 0]

\* cmdTree_getRoot; cmdTree_getActiveHandler, or rather whether there is one
GetRoot == IF nodes[0].used THEN 0 ELSE Null
HasActiveHandler == activeNode # Null /\ nodes[activeNode].handler

\* cmdTree_showHelp and cmdTree_show: of a tree that is not there, nothing
ShowHelp == IF GetRoot = Null THEN <<>> ELSE Help(GetRoot)
ShowTree == IF GetRoot = Null THEN <<>> ELSE Show(GetRoot)

-----------------------------------------------------------------------------
\* cmdTree_init, and cmdTree_reset, which frees the root as well.
TreeInit ==
    /\ pc = "idle"
    /\ nodes' = [i \in Index |-> IF i = 0 THEN Root ELSE Free]
    /\ activeNode' = Null /\ lastError' = "OK"
    /\ UNCHANGED <<tokenVars, pc, line, matched>>

TreeReset ==
    /\ pc = "idle"
    /\ nodes' = [i \in Index |-> Free]
    /\ activeNode' = Null /\ lastError' = "OK"
    /\ UNCHANGED <<tokenVars, pc, line, matched>>

Parents == {i \in Index : nodes[i].used}
Slots   == Index \ Parents

\* cmdTree_Register: into the first free slot, or an error.
CmdRegister ==
    /\ pc = "idle" /\ nodes[0].used
    /\ \E parent \in Index \cup {Null}, word \in Commands, handler \in BOOLEAN :
          \/ /\ parent \notin Parents
             /\ lastError' = "NULL_PARENT"
             /\ UNCHANGED nodes
          \/ /\ parent \in Parents /\ Slots = {}
             /\ lastError' = "MEM"
             /\ UNCHANGED nodes
          \/ /\ parent \in Parents /\ Slots # {}
             /\ LET slot == Min(Slots)
                IN  nodes' = [Linked(slot, parent) EXCEPT
                                 ![slot] = [@ EXCEPT !.used = TRUE, !.hash = Hash(word),
                                                     !.handler = handler, !.parent = parent,
                                                     !.first = Null]]
             /\ lastError' = "OK"
    /\ UNCHANGED <<activeNode, tokenVars, pc, line, matched>>

\* Nothing but errors from a tree without a root.
NotInit ==
    /\ pc = "idle" /\ ~nodes[0].used
    /\ lastError' = "NOT_INIT"
    /\ UNCHANGED <<treeVars, tokenVars, pc, line, matched>>

\* The line ends are dropped in place.
Dropped(raw) ==
    LET kept[i \in 0 .. Len(raw)] ==
            IF i = 0 THEN <<>>
            ELSE IF raw[i] = Newline THEN kept[i - 1] ELSE Append(kept[i - 1], raw[i])
    IN  kept[Len(raw)]

\* cmds_poll: what is in the receive FIFO, without its line ends, is the next
\* command; if anything is left, it is parsed.
CmdsPoll ==
    /\ pc = "idle" /\ nodes[0].used
    /\ \E raw \in Input :
          /\ Dropped(raw) # <<>>
          /\ line' = Dropped(raw)
    /\ pc' = "parse"
    /\ UNCHANGED <<treeVars, lastError, tokenVars, matched>>

\* ParseSpace takes the pool for the table of tokens, or finds it too small.
TooLong ==
    /\ pc = "parse" /\ ~poolBusy
    /\ PoolRefuses(Len(Tokenize(line)))
    /\ GiveUp("MEM")
    /\ UNCHANGED <<treeVars, matched>>

ParseSpace ==
    /\ pc = "parse" /\ ~poolBusy
    /\ ~PoolRefuses(Len(Tokenize(line)))
    /\ poolBusy' = TRUE
    /\ userData' = Tokenize(line)
    /\ UNCHANGED <<treeVars, lastError, pc, line, matched>>

\* The command is found and its handler called with the tokens that are left,
\* or there is none.
Dispatch ==
    /\ pc = "parse" /\ poolBusy
    /\ \/ /\ Walk(Words) # NoMatch
          /\ matched' = Walk(Words)
          /\ activeNode' = matched'.node
          /\ pc' = "handler"
          /\ UNCHANGED <<lastError, tokenVars, line>>
       \/ /\ Walk(Words) = NoMatch
          /\ GiveUp("NOT_FOUND")
          /\ UNCHANGED <<activeNode, matched>>
    /\ UNCHANGED nodes

\* The handler returns ...
HandlerReturns ==
    /\ pc = "handler"
    /\ GiveUp("OK")
    /\ matched' = NoMatch
    /\ UNCHANGED treeVars

\* ... or it is cmd_reset, and the chip starts again.
HandlerRestarts ==
    /\ pc = "handler"
    /\ nodes' = [i \in Index |-> Free]
    /\ activeNode' = Null /\ lastError' = "OK"
    /\ poolBusy' = FALSE /\ userData' = <<>>
    /\ pc' = "idle" /\ line' = <<>> /\ matched' = NoMatch

ConsoleNext ==
    \/ TreeInit \/ TreeReset \/ CmdRegister \/ NotInit
    \/ CmdsPoll \/ TooLong \/ ParseSpace \/ Dispatch
    \/ HandlerReturns \/ HandlerRestarts

ConsoleSpec == ConsoleInit /\ [][ConsoleNext]_consoleVars
-----------------------------------------------------------------------------
\* While a line is parsed the table holds its tokens, by the rules of the
\* parser's comment (cmdUserStringParser.c, scanNextToken); on every way out of
\* the parse it is given back ("one live allocation at a time, freed before the
\* next parse", userTask_cmds.c).
TableIsTheLines ==
    IF pc = "idle" THEN ~poolBusy /\ userData = <<>>
    ELSE poolBusy => Tabulates(userData, line)

\* The words on the way from the root to node i.
Path(i) ==
    LET up[n \in 0 .. MaxNodes, j \in Index \cup {Null}] ==
            IF n = 0 \/ j <= 0 THEN <<>> ELSE Append(up[n - 1, nodes[j].parent], nodes[j].hash)
    IN  up[MaxNodes, i]

\* What help and show print tells every command, where it is and whether it
\* runs (cmdTree_showHelp, cmdTree_show).
HelpTells ==
    LET used == {i \in Index : nodes[i].used}
    IN  /\ ReadsAs(ShowHelp, used \ {0}, Path, LAMBDA i : nodes[i].handler)
        /\ ReadsAs(ShowTree, used, LAMBDA i : <<nodes[0].hash>> \o Path(i), LAMBDA i : nodes[i].handler)

\* The handler that runs, or ran last, is the active one
\* (cmdTree_getActiveHandler) whatever is registered meanwhile.
ActiveIsKnown ==
    /\ activeNode # Null \/ pc = "handler" => HasActiveHandler
    /\ pc = "handler" => activeNode = matched.node

\* A node hides the older ones of its name and parent, and what is below them.
Hidden(i) ==
    \E j \in Index : j > i /\ nodes[j].used
                     /\ nodes[j].parent = nodes[i].parent /\ nodes[j].hash = nodes[i].hash

\* The ways down from the root that words can take, by nodes that are not hidden.
Ways(depth) ==
    {way \in [0 .. depth -> Index] :
        /\ way[0] = 0
        /\ \A d \in 1 .. depth : /\ way[d] # 0 /\ nodes[way[d]].used /\ ~Hidden(way[d])
                                 /\ nodes[way[d]].parent = way[d - 1]}

\* The commands a line of words with these hashes could mean, each with the
\* number of words it takes.
Meant(hashes) ==
    {m \in [node : Index, depth : 1 .. MaxDepth] :
        /\ m.depth <= Len(hashes) /\ nodes[m.node].handler
        /\ \E way \in Ways(m.depth) :
              /\ way[m.depth] = m.node
              /\ \A d \in 1 .. m.depth : nodes[way[d]].hash = hashes[d]}

\* The handler that runs is the deepest registered command the line begins
\* with, and gets the tokens after it ("取最深命中 handler 节点，剩余参数透传给
\* handler", CommandParseTree.h); a line is only refused if no command begins it.
RunsDeepestCommand ==
    [][LET meant == Meant([k \in DOMAIN userData |-> Hash(Words[k])])
       IN  /\ pc = "parse" /\ pc' = "handler" =>
                 matched' \in meant /\ \A m \in meant : m.depth <= matched'.depth
           /\ pc = "parse" /\ pc' = "idle" /\ lastError' = "NOT_FOUND" => meant = {}]_consoleVars
=============================================================================
