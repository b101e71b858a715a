-------------------------------- MODULE Menu --------------------------------
(***************************************************************************)
(* Text and menus on a display (drivers/lcd/lcd-text.c).  The screen is    *)
(* what was written where; a menu writes its options one by one, each over *)
(* what the place showed before, and nothing else ever cleans the place.   *)
(***************************************************************************)
EXTENDS Integers, Sequences, FiniteSets, SequencesExt

CONSTANTS TextWidth, TextHeight,
          LabelMax,       \* MENU_LABEL_MAX_LENGTH
          Menus,          \* [options, mode, width, row, col], as a caller fills them in
          MenuLabels,     \* bound: the labels an option is given later
          MenuCalls       \* bound: calls after the initialisation

ASSUME MenuAssumption == TextWidth \in 1 .. 255 /\ TextHeight \in 1 .. 255

VARIABLES menu,           \* the menu, with the rows and columns the initialisation sets
          menuWidth, selectedOption,
          menuScreen,
          menuCalls

menuVars == <<menu, menuWidth, selectedOption, menuScreen, menuCalls>>

Space == "space"
Blanks(n) == [k \in 1 .. n |-> Space]
ClearScreen == [r \in 0 .. TextHeight - 1 |-> [c \in 0 .. TextWidth - 1 |-> Space]]
Options == 1 .. Len(menu.options)

\* printAt: cut at the right edge, which is told from a byte
printAt(screen, row, column, s) ==
    LET room == (TextWidth - column) % 256
        l == IF Len(s) > room THEN room ELSE Len(s)
    IN  [screen EXCEPT ![row] = [c \in DOMAIN @ |-> IF c \in column .. column + l - 1 THEN s[c - column + 1] ELSE @[c]]]

\* ---- _lcdTxtMenuDisplayOption

Least(S) == CHOOSE n \in S : \A m \in S : n <= m
Most(S)  == CHOOSE n \in S : \A m \in S : n >= m

LabelRoom(m, width, n) ==
    LET col == m.options[n].col
        free == IF m.mode = "positionned"
                THEN (IF TextWidth > col + 2 THEN TextWidth - col - 2 ELSE 0)
                ELSE (width - 2) % 256
    IN  Least({free, LabelMax})

\* a slip: the text is not padded
OptionTextBare(m, width, selected, n) ==
    <<IF n = selected THEN "[" ELSE Space>>
    \o SubSeq(m.options[n].label, 1, Least({LabelRoom(m, width, n), Len(m.options[n].label)}))
    \o <<IF n = selected THEN "]" ELSE Space>>

\* The label between its two marks; in a list or on a single line it is padded,
\* so that every option is as wide as the menu
OptionText(m, width, selected, n) ==
    LET room  == LabelRoom(m, width, n)
        label == SubSeq(m.options[n].label, 1, Least({room, Len(m.options[n].label)}))
        pad   == IF m.mode = "positionned" THEN << >> ELSE Blanks(room - Len(label))
    IN  <<IF n = selected THEN "[" ELSE Space>> \o label \o pad \o <<IF n = selected THEN "]" ELSE Space>>

DisplayOption(m, width, selected, screen, n) ==
    printAt(screen, m.options[n].row, m.options[n].col, OptionText(m, width, selected, n))

\* ---- lcdTxtMenuInitialise

Enabled(m) == {i \in 1 .. Len(m.options) : m.options[i].isEnabled}

\* A width that is not given is that of the widest option that is enabled, and
\* then the options get their places
AutoWidth(m) == 2 + Most({0} \cup {Least({Len(m.options[i].label), LabelMax}) : i \in Enabled(m)})

Placed(m) ==
    IF m.width > 0 \/ m.mode = "positionned" THEN m
    ELSE [m EXCEPT !.options = [i \in DOMAIN @ |->
            IF ~@[i].isEnabled THEN @[i]
            ELSE [@[i] EXCEPT !.col = m.col,
                              !.row = IF m.mode = "list" THEN m.row + Cardinality({j \in Enabled(m) : j < i}) ELSE m.row]]]

WidthOf(m) ==
    LET width == IF m.width <= 0 THEN AutoWidth(m) ELSE m.width
    IN  IF m.mode = "positionned" THEN width ELSE Least({width, TextWidth - m.col})

\* The first enabled option, or the first enabled one after it that is a default
FirstSelected(m) ==
    LET first    == Least(Enabled(m))
        defaults == {i \in Enabled(m) : i >= first /\ m.options[i].isDefault}
    IN  IF defaults = {} THEN first ELSE Least(defaults)

\* All options are displayed, by a count of the enabled ones: the n-th option
\* is drawn for the n-th that is enabled
DisplayAll(m, width, selected, screen) ==
    IF m.mode = "single" THEN DisplayOption(m, width, selected, screen, selected)
    ELSE FoldLeft(LAMBDA s, n : DisplayOption(m, width, selected, s, n), screen,
                  [n \in 1 .. Cardinality(Enabled(m)) |-> n])

\* ---- moving in the menu

MenuSelect(selected) ==
    /\ selectedOption' = selected
    /\ UNCHANGED <<menu, menuWidth>>

Redraw(previous, refresh) ==
    LET without == IF menu.mode = "single" \/ refresh THEN menuScreen
                   ELSE DisplayOption(menu, menuWidth, selectedOption', menuScreen, previous)
    IN  menuScreen' = DisplayOption(menu, menuWidth, selectedOption', without, selectedOption')

Called == menuCalls > 0 /\ menuCalls' = menuCalls - 1

lcdTxtMenuSelectOptionByValue(value) ==
    LET having == {i \in Enabled(menu) : menu.options[i].value = value}
        found  == IF having = {} THEN selectedOption ELSE Least(having)
    IN  /\ Called
        /\ MenuSelect(found)
        /\ IF found = selectedOption THEN UNCHANGED menuScreen ELSE Redraw(selectedOption, FALSE)

\* The next enabled option, from the end back to the start: it is there, or the
\* loop has no end
NextOption(m, i) ==
    LET n == Len(m.options)
        steps == {k \in 1 .. n : m.options[((i - 1 + k) % n) + 1].isEnabled}
    IN  ((i - 1 + Least(steps)) % n) + 1

PreviousOption(m, i) ==
    LET n == Len(m.options)
        steps == {k \in 1 .. n : m.options[((i - 1 - k) % n) + 1].isEnabled}
    IN  ((i - 1 - Least(steps)) % n) + 1

lcdTxtMenuOnChangeSelection(newSelection) ==
    /\ Called
    /\ MenuSelect(CASE newSelection = "LCD_SelectNext" -> NextOption(menu, selectedOption)
                [] newSelection = "LCD_SelectPrevious" -> PreviousOption(menu, selectedOption)
                [] newSelection = "LCD_RefreshOption" -> selectedOption)
    /\ Redraw(selectedOption, newSelection = "LCD_RefreshOption")

\* A text is printed beside the menu
lcdTxtPrintAt(row, column, s) ==
    /\ Called
    /\ \A i \in Enabled(menu) : menu.options[i].row # row
    /\ menuScreen' = printAt(menuScreen, row, column, s)
    /\ UNCHANGED <<menu, menuWidth, selectedOption>>

\* As rootModule_initialise does when the user comes back to a menu: the screen
\* is cleared, and the menu initialised again with the option it had
MenuComesBack ==
    /\ Called
    /\ menu' = Placed(menu)
    /\ menuWidth' = WidthOf(menu)
    /\ menuScreen' = DisplayAll(menu', menuWidth', selectedOption, ClearScreen)
    /\ UNCHANGED selectedOption

\* As rootModule_onAction does with its toggle: the selected option of a list
\* gets another label, and is refreshed
LabelChanges(label) ==
    /\ Called
    /\ menu.mode = "list"
    /\ menu' = [menu EXCEPT !.options[selectedOption].label = label]
    /\ menuScreen' = DisplayOption(menu', menuWidth, selectedOption, menuScreen, selectedOption)
    /\ UNCHANGED <<menuWidth, selectedOption>>

\* A menu has an option that is enabled.  Those of a list or at their own places
\* are enabled from the first on: the others are drawn for each other.
Wellformed(m) ==
    /\ Enabled(m) # {}
    /\ m.mode # "single" => Enabled(m) = 1 .. Cardinality(Enabled(m))

MenuInit ==
    \E m \in {n \in Menus : Wellformed(n)}, kept \in 0 .. 2 :
        /\ kept \in {0} \cup Enabled(m)    \* keepSelectedOption, with the option it keeps
        /\ menu = Placed(m)
        /\ menuWidth = WidthOf(m)
        /\ selectedOption = IF kept = 0 THEN FirstSelected(m) ELSE kept
        /\ menuScreen = DisplayAll(menu, menuWidth, selectedOption, ClearScreen)
        /\ menuCalls = MenuCalls

MenuNext ==
    \/ \E value \in {o.value : o \in {menu.options[i] : i \in Options}} : lcdTxtMenuSelectOptionByValue(value)
    \/ \E newSelection \in {"LCD_SelectNext", "LCD_SelectPrevious", "LCD_RefreshOption"} :
          lcdTxtMenuOnChangeSelection(newSelection)
    \/ \E row \in 0 .. TextHeight - 1, column \in {0, TextWidth - 1} : lcdTxtPrintAt(row, column, <<"x", "y">>)
    \/ MenuComesBack
    \/ \E label \in MenuLabels : LabelChanges(label)

MenuSpec == MenuInit /\ [][MenuNext]_menuVars

\* What a cell of the display ought to show.
Cell(row, column) ==
    LET shown == IF menu.mode = "single" THEN {selectedOption} ELSE Enabled(menu)
        width(i) == IF menu.mode = "positionned"
                    THEN Least({Len(menu.options[i].label), LabelMax, TextWidth - menu.options[i].col - 2}) + 2
                    ELSE Least({menuWidth, LabelMax + 2})
        here == {i \in shown : menu.options[i].row = row
                                 /\ column - menu.options[i].col \in 0 .. width(i) - 1}
    IN  IF here = {} THEN Space
        ELSE LET i == Least(here)
                 k == column - menu.options[i].col
             IN  CASE k = 0 -> (IF i = selectedOption THEN "[" ELSE Space)
                   [] k = width(i) - 1 -> (IF i = selectedOption THEN "]" ELSE Space)
                   [] OTHER -> (IF k <= Len(menu.options[i].label) THEN menu.options[i].label[k] ELSE Space)

\* The rows of the menu show it and nothing else: the option that is selected
\* between its marks, the others without, each label from its first letter and
\* as far as there is room, and no remains of an option that was there before
\* (lcd-text.c 87-131, 133-288).
MenuIsShown ==
    \A row \in {menu.options[i].row : i \in Enabled(menu)} :
        \A column \in 0 .. TextWidth - 1 : menuScreen[row][column] = Cell(row, column)
=============================================================================
