------------------------------ MODULE DynTree ------------------------------
(***************************************************************************)
(* CommandParseTree.c in its dynamic mode: the nodes of the command tree   *)
(* come from the heap and hang in their parent's list, the newest last.    *)
(* A line is the sequence of its words; how it is cut is Console, and the  *)
(* table of tokens is taken to fit (this mode, unlike the static one, does *)
(* not look whether it did).                                               *)
(***************************************************************************)
EXTENDS Console

CONSTANTS
    DynBlocks,    \* the blocks of the heap, numbers from 1
    DynWords,     \* bound: the words registered, no two with one hash
    DynLines      \* bound: the lines parsed, sequences of words

VARIABLES
    dynHeap,      \* per block the node in it, or DynFree
    dynRoot, dynActive, dynError,
    dynRun,       \* the handler that runs, [node, rest], or DynNothing
    dynFreed      \* history: the blocks the last reset gave back, in order

dynVars == <<dynHeap, dynRoot, dynActive, dynError, dynRun, dynFreed>>

DynNull    == 0
DynRootWord == "root"
DynFree    == [word |-> "free", handler |-> FALSE, parent |-> DynNull, children |-> << >>]
DynNothing == [node |-> DynNull, rest |-> << >>]
DynUsed    == {b \in DynBlocks : dynHeap[b] # DynFree}

DynInit ==
    /\ dynHeap = [b \in DynBlocks |-> DynFree]
    /\ dynRoot = DynNull /\ dynActive = DynNull /\ dynError = "OK"
    /\ dynRun = DynNothing /\ dynFreed = << >>

-----------------------------------------------------------------------------
\* find_child: the first of the list
DynFindChild(parent, word) ==
    LET same == {k \in DOMAIN dynHeap[parent].children : dynHeap[dynHeap[parent].children[k]].word = word}
    IN  IF same = {} THEN DynNull ELSE dynHeap[parent].children[Min(same)]

\* Slips, for mutation runs only: the subtree of a child left in the heap, a
\* new child put before its siblings.
DynFreeChildren(heap, node) == heap[node].children
DynLinkFirst(heap, parent, node) == [heap EXCEPT ![parent].children = <<node>> \o @]

\* free_subtree: the blocks in the order it gives them back, those of a child
\* before the child
DynFreeSubtree(heap, node) ==
    LET freed[n \in 0 .. Cardinality(DynBlocks), b \in DynBlocks] ==
            IF n = 0 THEN << >>
            ELSE FoldLeft(LAMBDA s, child : s \o Append(freed[n - 1, child], child), << >>, heap[b].children)
    IN  freed[Cardinality(DynBlocks), node]

\* list_add_tail
DynLinkLast(heap, parent, node) == [heap EXCEPT ![parent].children = Append(@, node)]

\* cmdTree_CommandParse's walk, as deep as the line is long
DynWalk(words) ==
    LET step(at, i) ==
            LET child == IF at.cur = DynNull THEN DynNull ELSE DynFindChild(at.cur, words[i])
            IN  IF child = DynNull THEN [at EXCEPT !.cur = DynNull]
                ELSE [cur |-> child, best |-> IF dynHeap[child].handler THEN [node |-> child, depth |-> i] ELSE at.best]
    IN  FoldLeft(step, [cur |-> dynRoot, best |-> [node |-> DynNull, depth |-> 0]], [i \in DOMAIN words |-> i]).best

\* showHelp_subtree, a line each with its indentation
DynHelp(node) ==
    LET below[n \in 0 .. Cardinality(DynBlocks), b \in DynBlocks, depth \in 0 .. Cardinality(DynBlocks)] ==
            IF n = 0 THEN << >>
            ELSE FoldLeft(LAMBDA s, c :
                              s \o <<[depth |-> depth, word |-> dynHeap[c].word, handler |-> dynHeap[c].handler]>>
                                \o below[n - 1, c, depth + 1],
                          << >>, dynHeap[b].children)
    IN  below[Cardinality(DynBlocks), node, 0]

\* show_subtree, which prints the node itself first
DynShow(node) ==
    LET tree[n \in 0 .. Cardinality(DynBlocks), b \in DynBlocks, depth \in 0 .. Cardinality(DynBlocks)] ==
            IF n = 0 THEN << >>
            ELSE FoldLeft(LAMBDA s, c : s \o tree[n - 1, c, depth + 1],
                          <<[depth |-> depth, word |-> dynHeap[b].word, handler |-> dynHeap[b].handler]>>,
                          dynHeap[b].children)
    IN  tree[Cardinality(DynBlocks), node, 0]

\* cmdTree_getRoot, and cmdTree_getActiveHandler, or rather whether there is one
DynGetRoot == dynRoot
DynHasActiveHandler == dynActive # DynNull /\ dynHeap[dynActive].handler

\* cmdTree_showHelp and cmdTree_show: of a tree that is not there, nothing
DynShowHelp == IF DynGetRoot = DynNull THEN << >> ELSE DynHelp(DynGetRoot)
DynShowTree == IF DynGetRoot = DynNull THEN << >> ELSE DynShow(DynGetRoot)

-----------------------------------------------------------------------------
DynIdle == dynRun = DynNothing

\* cmdTree_init: once
DynTreeInit ==
    /\ DynIdle /\ dynRoot = DynNull
    /\ \E b \in DynBlocks \ DynUsed :
          /\ \A c \in DynBlocks \ DynUsed : b <= c
          /\ dynHeap' = [dynHeap EXCEPT ![b] = [DynFree EXCEPT !.word = DynRootWord]]
          /\ dynRoot' = b
    /\ dynActive' = DynNull /\ dynError' = "OK" /\ dynFreed' = << >>
    /\ UNCHANGED dynRun

\* cmdTree_Register under a node of the tree, or under none
DynRegister ==
    /\ DynIdle
    /\ \E parent \in DynUsed \cup {DynNull}, word \in DynWords, handler \in BOOLEAN :
          \/ /\ dynRoot = DynNull
             /\ dynError' = "NOT_INIT" /\ UNCHANGED dynHeap
          \/ /\ dynRoot # DynNull /\ parent = DynNull
             /\ dynError' = "NULL_PARENT" /\ UNCHANGED dynHeap
          \/ /\ dynRoot # DynNull /\ parent # DynNull /\ DynUsed = DynBlocks
             /\ dynError' = "MEM" /\ UNCHANGED dynHeap
          \/ /\ dynRoot # DynNull /\ parent # DynNull /\ DynUsed # DynBlocks
             /\ LET b == Min(DynBlocks \ DynUsed)
                IN  dynHeap' = DynLinkLast([dynHeap EXCEPT ![b] = [DynFree EXCEPT !.word = word, !.handler = handler,
                                                                                  !.parent = parent]],
                                           parent, b)
             /\ dynError' = "OK"
    /\ UNCHANGED <<dynRoot, dynActive, dynRun, dynFreed>>

\* cmdTree_CommandParse, up to the call of the handler
DynParse ==
    /\ DynIdle
    /\ \E words \in DynLines :
          \/ /\ dynRoot = DynNull \/ words = << >> \/ DynWalk(words).node = DynNull
             /\ dynError' = IF dynRoot = DynNull THEN "NOT_INIT" ELSE "NOT_FOUND"
             /\ UNCHANGED <<dynActive, dynRun>>
          \/ /\ dynRoot # DynNull /\ DynWalk(words).node # DynNull
             /\ dynActive' = DynWalk(words).node
             /\ dynRun' = [node |-> dynActive', rest |-> SubSeq(words, DynWalk(words).depth + 1, Len(words))]
             /\ UNCHANGED dynError
    /\ UNCHANGED <<dynHeap, dynRoot, dynFreed>>

DynReturns ==
    /\ ~DynIdle
    /\ dynRun' = DynNothing /\ dynError' = "OK"
    /\ UNCHANGED <<dynHeap, dynRoot, dynActive, dynFreed>>

\* cmdTree_reset, from outside or by the handler that runs
DynReset ==
    /\ dynRoot # DynNull
    /\ LET order == Append(DynFreeSubtree(dynHeap, dynRoot), dynRoot)
       IN  /\ dynFreed' = [k \in DOMAIN order |-> [node |-> order[k], parent |-> dynHeap[order[k]].parent]]
           /\ dynHeap' = [b \in DynBlocks |-> IF Contains(order, b) THEN DynFree ELSE dynHeap[b]]
    /\ dynRoot' = DynNull /\ dynActive' = DynNull /\ dynError' = "OK"
    /\ UNCHANGED <<dynRun>>

DynNext == DynTreeInit \/ DynRegister \/ DynParse \/ DynReturns \/ DynReset
-----------------------------------------------------------------------------
\* The words from the root to a node
DynPath(b) ==
    LET up[n \in 0 .. Cardinality(DynBlocks), c \in DynBlocks] ==
            IF n = 0 \/ c = dynRoot THEN << >> ELSE Append(up[n - 1, dynHeap[c].parent], dynHeap[c].word)
    IN  up[Cardinality(DynBlocks), b]

\* Of two children of one name the older one is found, and what is below the
\* other is out of reach.  (Blocks are taken in order.)
DynReachable(b) ==
    LET shown[n \in 0 .. Cardinality(DynBlocks), c \in DynBlocks] ==
            n > 0 /\ (\/ c = dynRoot
                      \/ /\ \A older \in DynUsed : older < c /\ dynHeap[older].parent = dynHeap[c].parent
                                                     => dynHeap[older].word # dynHeap[c].word
                         /\ shown[n - 1, dynHeap[c].parent])
    IN  shown[Cardinality(DynBlocks), b]

\* The handler a line calls is the deepest registered command the line begins
\* with, and it gets the words after it; none is called only if no command
\* begins the line (CommandParseTree.h, cmdTree_CommandParse).
DynRunsDeepest ==
    dynRoot # DynNull =>
        \A words \in DynLines :
            LET best == DynWalk(words)
                meant == {b \in DynUsed \ {dynRoot} :
                             dynHeap[b].handler /\ DynReachable(b) /\ IsPrefix(DynPath(b), words)}
            IN  IF meant = {} THEN best.node = DynNull
                ELSE /\ best.node \in meant /\ best.depth = Len(DynPath(best.node))
                     /\ \A b \in meant : Len(DynPath(b)) <= best.depth

\* A reset gives back every node of the heap, each once and after those below
\* it, whose lists it still reads (free_subtree).
DynNothingLeaks ==
    /\ dynRoot = DynNull => DynUsed = {}
    /\ \A j, k \in DOMAIN dynFreed :
          j < k => dynFreed[j].node # dynFreed[k].node /\ dynFreed[j].node # dynFreed[k].parent

\* What help and show print tells every command, where it is and whether it
\* runs (cmdTree_showHelp, cmdTree_show); the active handler is one of a node that
\* is still there (cmdTree_getActiveHandler).
DynHelpTells ==
    /\ ReadsAs(DynShowHelp, DynUsed \ {dynRoot}, DynPath, LAMBDA b : dynHeap[b].handler)
    /\ ReadsAs(DynShowTree, DynUsed, LAMBDA b : <<DynRootWord>> \o DynPath(b), LAMBDA b : dynHeap[b].handler)
    /\ dynActive # DynNull => DynHasActiveHandler

\* A handler runs with what the line has left, and stays safe from a reset it
\* makes itself: the node it was found by is not looked at again.
DynTreeKept == DynRunsDeepest /\ DynNothingLeaks /\ DynHelpTells
=============================================================================
