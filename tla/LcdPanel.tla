------------------------------ MODULE LcdPanel ------------------------------
(***************************************************************************)
(* A display: its controller's driver (drivers/lcd/controllers), the link  *)
(* the bytes go over (drivers/lcd/links), and the panel at the other end.  *)
(* The driver keeps a record of which of two sets of instructions the      *)
(* panel reads, and the links with four data lines carry a byte in two     *)
(* halves: the panel must read both as they are meant, from the first      *)
(* command on, whatever state a reset of the microcontroller left it in.   *)
(***************************************************************************)
EXTENDS LcdCommands, FiniteSets

CONSTANTS LcdModels,   \* a controller, a link and a number of rows
          LcdCalls,    \* bound: the calls after the initialisation
          LcdSwitched, \* the controllers whose display control is called
          LcdRows, LcdColumns, LcdXs, LcdYs, LcdAddresses

VARIABLES lcdModel,    \* [controller, link, textHeight]
          lcdStatus,   \* device->_status, and the interface's _controllerLinkConfigured
          lcdPanel,
          lcdAsked,    \* what the calls asked for, in words
          lcdCalls

lcdVars == <<lcdModel, lcdStatus, lcdPanel, lcdAsked, lcdCalls>>

Controller == lcdModel.controller
Link == lcdModel.link

\* What a data byte does: the next cell, and the byte it gets
Data(p, byte) ==
    [p EXCEPT !.did = <<"wrote", p.at, p.count, byte>>, !.count = @ + 1, !.stale = FALSE, !.row = NoRow]

Whole(f, p, rs, byte) ==
    IF rs = "data" THEN Data([p EXCEPT !.standby = f = "PCD8544" /\ @], byte)
    ELSE IF byte = 0 /\ f \in Character THEN p ELSE Obey(f, p, byte)

\* The enable line falls: the panel takes what is on its data lines.  A wide
\* panel on a narrow bus reads zeroes on the lines that are not wired; a narrow
\* one waits for the second half.
Latch(f, p, rs, bus, width) ==
    CASE p.wide -> Whole(f, p, rs, IF width = 4 THEN bus * 16 ELSE bus)
      [] ~p.wide /\ p.half = NoRow -> [p EXCEPT !.half = IF width = 4 THEN bus ELSE bus \div 16]
      [] ~p.wide /\ p.half # NoRow ->
           Whole(f, [p EXCEPT !.half = NoRow], rs, p.half * 16 + (IF width = 4 THEN bus ELSE bus \div 16))

Falls(levels) == {i \in 2 .. Len(levels) : levels[i - 1].en /\ ~levels[i].en}

\* lcdLinkDataOut, and the panel that takes it
Deliver(f, link, configured, p, kind, byte) ==
    LET frame  == IF link = "serial" THEN SerialRead(serialFrame(kind, byte)) ELSE spiByte(kind, byte)
        levels == lcdLinkDataOut(link, configured, kind, byte)
        Fall(q, i) ==
            IF i \in Falls(levels)
            THEN Latch(f, q, IF levels[i].rs = 1 THEN "data" ELSE "instruction", levels[i].bus, Width(link)) ELSE q
    IN  IF Parallel(link) THEN FoldLeft(Fall, p, [i \in DOMAIN levels |-> i])
        ELSE IF frame.kind = "none" THEN p ELSE Whole(f, p, frame.kind, frame.byte)

\* lcdSendCommand, of several bytes
Sent(model, configured, p, bytes) ==
    FoldLeft(LAMBDA q, b : Deliver(model.controller, model.link, configured, q, "instruction", b), p, bytes)

\* ---- the drivers: each call is the bytes it sends, after those that select
\* the set of instructions it belongs to (ST7920), and the record it leaves

Wide == Width(Link) = 8

\* _functionSet, with the record already changed
Select(status, set) ==
    IF Controller = "ST7920" /\ status.extended # (set = "extended")
    THEN <<functionSet(Wide, set = "extended", status.graphics)>> ELSE << >>

Selected(status, set) ==
    IF Controller = "ST7920" THEN [status EXCEPT !.extended = set = "extended"] ELSE status

\* a slip: the scroll mode is changed in whatever set is selected
ScrollModeBare(status, on) ==
    IF status.scroll = on THEN << >> ELSE <<2 + Flag(on, 1)>>

\* _setVerticalScrollMode
ScrollMode(status, on) ==
    IF status.scroll = on THEN << >> ELSE Select(status, "extended") \o <<2 + Flag(on, 1)>>

ScrollModed(status, on) ==
    IF status.scroll = on THEN status ELSE [Selected(status, "extended") EXCEPT !.scroll = on]

\* A call: it sends bytes and leaves a record; asked is what it is for
Call(bytes, status, asked) ==
    /\ lcdCalls > 0
    /\ lcdCalls' = lcdCalls - 1
    /\ lcdPanel' = Sent(lcdModel, lcdStatus.configured, lcdPanel, bytes)
    /\ lcdStatus' = IF bytes = << >> THEN status ELSE [status EXCEPT !.setAddress = asked.fresh]
    /\ lcdAsked' = asked
    /\ UNCHANGED lcdModel

Asked == [lcdAsked EXCEPT !.did = <<"none">>, !.fresh = FALSE, !.standby = Controller = "PCD8544" /\ @]

AskedAt(at) == [Asked EXCEPT !.at = at, !.fresh = TRUE, !.count = 0]

InSet(set, byte, asked) ==
    Call(Select(lcdStatus, set) \o <<byte>>, Selected(lcdStatus, set), asked)

lcdClearTextDisplay ==
    /\ Controller \in Character
    /\ InSet("basic", 1, [AskedAt(<<"text", 0>>) EXCEPT !.did = <<"clear">>, !.right = TRUE, !.fresh = FALSE])

lcdReturnHome ==
    /\ Controller \in Character
    /\ InSet("basic", 2, [AskedAt(<<"text", 0>>) EXCEPT !.did = <<"home">>, !.fresh = FALSE])

lcdSetEntryMode(right, shift) ==
    /\ Controller \in Character
    /\ InSet("basic", entryMode(right, shift), [Asked EXCEPT !.right = right, !.shift = shift])

lcdDisplayControl(on, cursor, blink) ==
    /\ Controller \in LcdSwitched
    /\ Controller \in Character \/ (~cursor /\ ~blink)
    /\ InSet("basic", displayControl(Controller, on, cursor, blink),
             [Asked EXCEPT !.on = on, !.cursor = cursor, !.blink = blink])

lcdCursorDisplayShiftControl(display, right) ==
    /\ Controller \in Character
    /\ InSet("basic", shiftControl(display, right), [Asked EXCEPT !.did = <<"shift", display, right>>])

\* Graphics is switched with the extended instructions
GraphicsMode(on) ==
    LET status == Selected(lcdStatus, "extended")
    IN  IF lcdStatus.graphics = on THEN Call(<< >>, lcdStatus, [lcdAsked EXCEPT !.graphics = on])
        ELSE Call(Select(lcdStatus, "extended") \o <<functionSet(Wide, TRUE, on)>>,
                  [status EXCEPT !.graphics = on], [Asked EXCEPT !.graphics = on])

lcdEnableGraphicsDisplay  == Controller = "ST7920" /\ GraphicsMode(TRUE)
lcdDisableGraphicsDisplay == Controller = "ST7920" /\ GraphicsMode(FALSE)

\* The address of the font can only be set when vertical scrolling is off
lcdSetCharacterGeneratorAddress(address) ==
    LET still == IF Controller = "ST7920" THEN ScrollMode(lcdStatus, FALSE) ELSE << >>
        after == IF Controller = "ST7920" THEN ScrollModed(lcdStatus, FALSE) ELSE lcdStatus
    IN  /\ Controller \in Character
        /\ Call(still \o Select(after, "basic") \o <<64 + (address % 64)>>, Selected(after, "basic"),
                [AskedAt(<<"font", address>>) EXCEPT !.scroll = FALSE])

\* What the text of a row and a column is called in the memory: rows two and
\* three of a tall HD44780 follow rows zero and one, 20 columns later; the
\* ST7920 has two columns to a cell, and its rows go 0, 2, 1, 3
CellOf(row, column) ==
    CASE Controller = "ST7920"    -> <<0, 16, 8, 24>>[row + 1] + (column \div 2)
      [] lcdModel.textHeight > 1  -> <<0, 64, 20, 84>>[row + 1] + column
      [] OTHER                    -> column

lcdSetTextDisplayPosition(row, column) ==
    /\ Controller \in Character /\ row < lcdModel.textHeight
    /\ InSet("basic", textAddress(Controller, textPosition(Controller, lcdModel.textHeight > 1, row, column)),
             AskedAt(<<"text", CellOf(row, column)>>))

\* The graphics memory of the ST7920 is 32 rows of 16 words: the lower half of
\* the screen is to the right of the upper one
GraphicsCell(x, y) ==
    IF Controller = "ST7920" THEN <<"graphics", y - (IF y >= 32 THEN 32 ELSE 0), (x \div 16) + (IF y >= 32 THEN 8 ELSE 0)>>
    ELSE <<"graphics", y \div 8, x>>

lcdSetGraphicsDisplayAddress(x, y) ==
    LET asked == IF Controller = "ST7920" THEN AskedAt(GraphicsCell(x, y))
                 ELSE [AskedAt(GraphicsCell(x, y)) EXCEPT !.fresh = FALSE]
    IN  /\ Controller # "HD44780"
        /\ Call(Select(lcdStatus, "extended") \o graphicsAddress(Controller, x, y),
                Selected(lcdStatus, "extended"), asked)

lcdWriteByte(byte) ==
    /\ lcdCalls > 0
    /\ lcdCalls' = lcdCalls - 1
    /\ lcdPanel' = Deliver(Controller, Link, lcdStatus.configured, lcdPanel, "data", byte)
    /\ lcdStatus' = [lcdStatus EXCEPT !.setAddress = IF Controller = "ST7920" THEN FALSE ELSE @]
    /\ lcdAsked' = [Asked EXCEPT !.did = <<"wrote", lcdAsked.at, lcdAsked.count, byte>>, !.count = @ + 1]
    /\ UNCHANGED lcdModel

\* What the panel does when it is read: the first byte after an address is
\* none.  MEMORY stands for what is in the cell.
MEMORY == 165
Fetch(p) ==
    IF Controller = "ST7920" /\ p.stale THEN [p EXCEPT !.stale = FALSE, !.standby = FALSE, !.did = <<"none">>]
    ELSE [p EXCEPT !.did = <<"read", p.at, p.count, lcdLinkDataIn(Link, MEMORY)>>,
                   !.count = @ + 1, !.stale = FALSE, !.standby = FALSE]

lcdReadByte ==
    /\ Controller \in Character /\ Reads(Link)
    /\ lcdCalls > 0
    /\ lcdCalls' = lcdCalls - 1
    /\ lcdPanel' = IF Controller = "ST7920" /\ lcdStatus.setAddress THEN Fetch(Fetch(lcdPanel)) ELSE Fetch(lcdPanel)
    /\ lcdStatus' = [lcdStatus EXCEPT !.setAddress = IF Controller = "ST7920" THEN FALSE ELSE @]
    /\ lcdAsked' = [Asked EXCEPT !.did = <<"read", lcdAsked.at, lcdAsked.count, MEMORY>>, !.count = @ + 1]
    /\ UNCHANGED lcdModel

lcdEnterStandbyMode ==
    \/ Controller = "ST7920" /\ InSet("extended", 1, [Asked EXCEPT !.standby = TRUE])
    \/ Controller = "PCD8544" /\ InSet("basic", 36, [Asked EXCEPT !.standby = TRUE])

lcdLeaveStandbyMode ==
    Controller = "PCD8544" /\ InSet("basic", 32, [Asked EXCEPT !.standby = FALSE])

lcdReverseRow(row) ==
    Controller = "ST7920" /\ InSet("extended", 4 + (row % 4), [Asked EXCEPT !.did = <<"reverse", row>>])

\* It scrolls when scrolling is on
lcdSetScrollAddress(address) ==
    /\ Controller = "ST7920"
    /\ InSet("extended", 64 + (address % 64),
             [Asked EXCEPT !.did = IF lcdAsked.scroll THEN <<"scroll", address>> ELSE <<"none">>])

VerticalScroll(on) ==
    /\ Controller = "ST7920"
    /\ Call(ScrollMode(lcdStatus, on), ScrollModed(lcdStatus, on),
            IF lcdStatus.scroll = on THEN [lcdAsked EXCEPT !.scroll = on] ELSE [Asked EXCEPT !.scroll = on])

lcdEnableVerticalScroll  == VerticalScroll(TRUE)
lcdDisableVerticalScroll == VerticalScroll(FALSE)

\* The PCD8544 shows all pixels, or the inverse, or the normal picture
lcdInverseDisplay(on) ==
    /\ Controller \in Pages
    /\ InSet("basic", inverse(Controller, on),
             [Asked EXCEPT !.inverse = on, !.all = Controller # "PCD8544" /\ @])

lcdAllPixelsOn(on) ==
    /\ Controller \in Pages
    /\ InSet("basic", allPixels(Controller, on),
             [Asked EXCEPT !.all = on, !.inverse = Controller # "PCD8544" /\ @])

\* A call the controller has no command for sends nothing
lcdLacking ==
    /\ lcdCalls > 0 /\ Lacks(Controller) # {}
    /\ lcdCalls' = lcdCalls - 1
    /\ UNCHANGED <<lcdModel, lcdStatus, lcdPanel, lcdAsked>>

\* ---- the initialisation, from power-up

\* The bytes sent before the link is declared complete, and after
Opening(f, link) ==
    CASE f = "HD44780" /\ Parallel(link) -> <<48, 48, 48>> \o (IF Width(link) = 4 THEN <<32>> ELSE << >>)
      [] f = "ST7920" /\ Parallel(link)  -> <<48, 48>>
      [] OTHER -> << >>

\* ... the contrast and the voltages of a PCD8544, in its extended set, and its
\* first cell; the directions, the contrast and the power of the other two
settingPCD8544 == <<33, 20, 192, 32, 64, 128>>
settingST756x  == <<200, 129, 48, 44, 46, 47>>
settingUC1609  == <<167, 196, 129, 160>>

LcdSetting(f, link, tall) ==
    CASE f = "HD44780" -> <<32 + Flag(Width(link) = 8, 16) + Flag(tall, 8),
                            displayControl(f, TRUE, FALSE, FALSE), 1, entryMode(TRUE, FALSE)>>
      [] f = "ST7920"  -> <<displayControl(f, TRUE, FALSE, FALSE), 1, entryMode(TRUE, FALSE)>>
      [] f = "PCD8544" -> settingPCD8544
      [] f = "ST756x"  -> settingST756x
      [] f = "UC1609"  -> settingUC1609

Switching(f) == IF f \in Character THEN << >> ELSE IF f = "PCD8544" THEN <<12>> ELSE <<175>>

\* The memory of a panel without characters is blanked byte by byte
Cells(f) == CASE f \in Character -> 0 [] f = "PCD8544" -> 6 * 84 [] OTHER -> 8 * 128

Blanked(f, p) == IF f \in Character THEN p ELSE [p EXCEPT !.count = @ + Cells(f), !.did = <<"none">>]

lcdInitialiseController(model, p) ==
    LET open == Sent(model, FALSE, p, Opening(model.controller, model.link))
        set  == Sent(model, TRUE, open, LcdSetting(model.controller, model.link, model.textHeight > 1))
    IN  Sent(model, TRUE, Blanked(model.controller, set), Switching(model.controller))

\* The states an HD44780 may be in when the microcontroller starts: it was
\* powered up with it, or a reset caught it anywhere, half a byte included.
\* The others are taken at power-up, or reset with it.
Before(f) ==
    IF f # "HD44780" THEN {PowerUp(f)}
    ELSE {[PowerUp(f) EXCEPT !.wide = wide, !.half = half, !.on = on, !.right = on, !.at = at] :
             wide \in BOOLEAN, half \in {NoRow, 0, 2, 3, 8}, on \in BOOLEAN, at \in {<<"text", 0>>, <<"font", 5>>}}

LcdInit ==
    /\ lcdModel \in {[controller |-> m[1], link |-> m[2], textHeight |-> m[3]] : m \in LcdModels}
    /\ \E p \in Before(Controller) :
          /\ p.wide => p.half = NoRow
          /\ ~p.wide => Parallel(Link)
          /\ lcdPanel = lcdInitialiseController(lcdModel, p)
    /\ lcdStatus = [configured |-> TRUE, extended |-> FALSE, graphics |-> FALSE, scroll |-> FALSE, setAddress |-> FALSE]
    /\ lcdAsked = [on |-> TRUE, cursor |-> FALSE, blink |-> FALSE, right |-> TRUE, shift |-> FALSE,
                   inverse |-> Controller = "UC1609", all |-> FALSE, graphics |-> FALSE, scroll |-> FALSE,
                   standby |-> FALSE, at |-> IF Controller \in Character THEN <<"text", 0>> ELSE <<"graphics", 0, 0>>,
                   did |-> <<"none">>, fresh |-> FALSE, count |-> Cells(Controller)]
    /\ lcdCalls = LcdCalls

LcdNext ==
    \/ lcdClearTextDisplay \/ lcdReturnHome
    \/ \E right, shift \in BOOLEAN : lcdSetEntryMode(right, shift) \/ lcdCursorDisplayShiftControl(right, shift)
    \/ \E on, cursor, blink \in BOOLEAN : lcdDisplayControl(on, cursor, blink)
    \/ lcdEnableGraphicsDisplay \/ lcdDisableGraphicsDisplay
    \/ \E address \in LcdAddresses : lcdSetCharacterGeneratorAddress(address) \/ lcdSetScrollAddress(address)
    \/ \E row \in LcdRows, column \in LcdColumns : lcdSetTextDisplayPosition(row, column)
    \/ \E x \in LcdXs, y \in LcdYs : lcdSetGraphicsDisplayAddress(x, y)
    \/ \E byte \in {1, 200} : lcdWriteByte(byte)
    \/ lcdReadByte
    \/ lcdEnterStandbyMode \/ lcdLeaveStandbyMode
    \/ \E row \in LcdRows : lcdReverseRow(row)
    \/ lcdEnableVerticalScroll \/ lcdDisableVerticalScroll
    \/ \E on \in BOOLEAN : lcdInverseDisplay(on) \/ lcdAllPixelsOn(on)
    \/ lcdLacking

LcdSpec == LcdInit /\ [][LcdNext]_lcdVars

\* What there is to see of a panel
Shown(p, on) ==
    [on |-> on, cursor |-> p.cursor, blink |-> p.blink, right |-> p.right, shift |-> p.shift,
     inverse |-> p.inverse, all |-> p.all, graphics |-> p.graphics, scroll |-> p.scroll, standby |-> p.standby,
     at |-> p.at, did |-> p.did, count |-> p.count]

(***************************************************************************)
(* VT100-mock.c, which plays an HD44780 on a terminal: the calls, by what  *)
(* their control codes do to it.                                           *)
(***************************************************************************)
Terminal == [at |-> <<0, 0>>, cursor |-> FALSE, blink |-> FALSE, text |-> {}]

\* lcdSetTextDisplayPosition, lcdReturnHome
mockMoved(t, row, column) == [t EXCEPT !.at = <<row, column>>]
mockHome(t) == mockMoved(t, 0, 0)

\* lcdDisplayControl: there is no display to switch off
mockControl(t, on, cursor, blink) == [t EXCEPT !.cursor = cursor, !.blink = blink]

\* lcdWriteByte, on a terminal that moves its cursor on
mockWritten(t, byte) == [t EXCEPT !.text = {c \in @ : c[1] # t.at} \cup {<<t.at, byte>>}, !.at = <<@[1], @[2] + 1>>]

\* lcdClearTextDisplay: the terminal is erased from the first position on, and a
\* frame put around the display, the last of it three rows below
mockCleared(t, height, width) == [mockMoved(t, height + 2, width) EXCEPT !.text = {}]

\* lcdInitialiseController
mockInitialised(height, width) == mockControl(mockCleared(Terminal, height, width), TRUE, FALSE, FALSE)

\* lcdSetTextDisplayAddress: the row and the column it moves the cursor to
mockPosition(height, address) ==
    LET second == height > 1 /\ Has(address, 64)
        column == IF second THEN address % 64 ELSE address
        lower  == height > 2 /\ column >= 20
    IN  <<Flag(second, 1) + Flag(lower, 2), IF lower THEN column - 20 ELSE column>>

\* The calls whose bodies are empty
lacksVT100 == scrollCalls \cup picturesOnly \cup {"EntryMode", "Shift", "FontAddress", "EnterStandby"}

\* A program sees on the terminal what it would see on the panel it plays, in each
\* of the sizes it supports (VT100-mock.c:38-39): a place has the same address, what
\* is written there after clearing is all there is to see, and the cursor looks the
\* same.  It lacks all that the panel lacks, but for a call of another controller
\* that it does not have at all.
MockAgrees ==
    /\ \A height \in {1, 2, 4} : \A row \in 0 .. height - 1, column \in 0 .. (80 \div height) - 1 :
          LET start == mockInitialised(height, 80 \div height)
              told  == mockWritten(mockMoved(start, row, column), 1)
          IN  /\ mockPosition(height, textPosition("HD44780", height > 1, row, column)) = <<row, column>>
              /\ told.text = {<<<<row, column>>, 1>>} /\ ~told.cursor
              /\ mockHome(told).at = mockPosition(height, 0)
              /\ mockCleared(told, height, 80 \div height).text = {}
    /\ \A on, cursor, blink \in BOOLEAN :
          LET shown == mockControl(Terminal, on, cursor, blink)
              panel == Obey("HD44780", PowerUp("HD44780"), textControl(on, cursor, blink))
          IN  shown.cursor = panel.cursor /\ shown.blink = panel.blink
    /\ lacksHD44780 \ lacksVT100 = {"LeaveStandby"}

\* The panel does what the calls ask for: after any call it has the mode, the
\* address and the switches the calls named, it did the last of them, and it
\* waits for no half of a byte.  One instruction read in the wrong set, or one
\* half taken for the other, and every later byte means something else
\* (ST7920.c 81-110, HD44780.c 139-184).  And the terminal that plays a panel agrees
\* with it.
PanelDoesAsAsked ==
    /\ lcdPanel.half = NoRow
    /\ lcdPanel.wide = Wide
    /\ MockAgrees
    /\ Shown(lcdPanel, Controller = "PCD8544" \/ lcdPanel.on) = Shown(lcdAsked, Controller = "PCD8544" \/ lcdAsked.on)
=============================================================================
