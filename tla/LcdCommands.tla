---------------------------- MODULE LcdCommands ----------------------------
(***************************************************************************)
(* The commands of the display controllers of drivers/lcd/controllers: the *)
(* bytes the drivers make of a call, and what a panel does with a byte.    *)
(* The panels are chips on the other side of the link: they are described  *)
(* as their drivers take them to be.                                       *)
(***************************************************************************)
EXTENDS Integers, Sequences, SequencesExt

\* The controllers with a character generator, and the others
Character == {"HD44780", "ST7920"}
Pages     == {"PCD8544", "ST756x", "UC1609"}

Flag(b, value) == IF b THEN value ELSE 0

Has(byte, bit) == (byte \div bit) % 2 = 1

Highest(byte) == CHOOSE bit \in {2 ^ i : i \in 0 .. 7} : bit <= byte /\ byte < 2 * bit

NoRow == -1

\* ---- what the drivers send

\* Function Set: the width of the bus, the set of instructions, graphics
functionSet(wide, extended, graphics) ==
    32 + Flag(wide, 16) + Flag(extended, 4) + Flag(graphics, 2)

\* The switch of the display: with a cursor, of a PCD8544, of the other two
textControl(on, cursor, blink) == 8 + Flag(on, 4) + Flag(cursor, 2) + Flag(blink, 1)
sleepControl(on) == 32 + Flag(on, 4)
pageControl(on)  == 174 + Flag(on, 1)

displayControl(f, on, cursor, blink) ==
    CASE f \in Character -> textControl(on, cursor, blink)
      [] f = "PCD8544"   -> sleepControl(on)
      [] OTHER           -> pageControl(on)

entryMode(right, shift) == 4 + Flag(right, 2) + Flag(shift, 1)

shiftControl(display, right) == 16 + Flag(display, 8) + Flag(right, 4)

\* Where a row and a column of text are in the memory of the panel
textPosition(f, tall, row, column) ==
    CASE f = "ST7920" -> (row % 2) * 16 + Flag(Has(row, 2), 8) + ((column \div 2) % 8)
      [] f = "HD44780" /\ tall  -> (row % 2) * 64 + (column % 64) + Flag(row > 1, 20)
      [] f = "HD44780" /\ ~tall -> column

textAddress(f, address) == 128 + (IF f = "ST7920" THEN address % 64 ELSE address)

\* The commands that point at the word or the byte of a pixel
wordAddress(x, y)   == <<128 + (y % 32), 128 + ((x \div 16) % 8) + Flag(Has(y, 32), 8)>>
byteAddress(x, y)   == <<64 + ((y \div 8) % 8), 128 + (x % 128)>>
nibbleAddress(x, y) == <<176 + ((y \div 8) % 16), 16 + ((x \div 16) % 16), x % 16>>

graphicsAddress(f, x, y) ==
    CASE f = "ST7920"  -> wordAddress(x, y)
      [] f = "PCD8544" -> byteAddress(x, y)
      [] OTHER         -> nibbleAddress(x, y)

inverse(f, on)   == IF f = "PCD8544" THEN 12 + Flag(on, 1) ELSE 166 + Flag(on, 1)
allPixels(f, on) == IF f = "PCD8544" THEN (IF on THEN 9 ELSE 12) ELSE 164 + Flag(on, 1)

\* The calls a controller has no command for: their bodies are empty, and a read
\* is answered with 0
textCalls     == {"ClearText", "Home", "EntryMode", "Shift", "FontAddress", "TextAddress", "TextPosition"}
scrollCalls   == {"EnableGraphics", "DisableGraphics", "ReverseRow", "ScrollAddress", "EnableScroll", "DisableScroll"}
picturesOnly  == {"GraphicsAddress", "Inverse", "AllPixels"}
lacksHD44780  == scrollCalls \cup picturesOnly \cup {"EnterStandby", "LeaveStandby"}
lacksST7920   == {"LeaveStandby", "Inverse", "AllPixels"}
lacksPCD8544  == textCalls \cup scrollCalls \cup {"Read", "ReadAddress"}
lacksST756x   == lacksPCD8544 \cup {"EnterStandby", "LeaveStandby"}
lacksUC1609   == lacksST756x
Lacks(f) ==
    CASE f = "HD44780" -> lacksHD44780
      [] f = "ST7920"  -> lacksST7920
      [] f = "PCD8544" -> lacksPCD8544
      [] f = "ST756x"  -> lacksST756x
      [] f = "UC1609"  -> lacksUC1609

\* ---- what the panels do

\* At power-up: eight bits wide, the basic instructions.  half is the half of a
\* byte a narrow bus has already brought, row the first half of an address.
PowerUp(f) ==
    [wide |-> TRUE, half |-> NoRow, tall |-> FALSE, extended |-> FALSE, graphics |-> FALSE, scroll |-> FALSE,
     on |-> FALSE, cursor |-> FALSE, blink |-> FALSE, right |-> TRUE, shift |-> FALSE,
     inverse |-> FALSE, all |-> FALSE, standby |-> FALSE,
     at |-> IF f \in Character THEN <<"text", 0>> ELSE <<"graphics", 0, 0>>,
     row |-> NoRow, did |-> <<"none">>, stale |-> FALSE, count |-> 0]

PointTo(p, at) == [p EXCEPT !.at = at, !.row = NoRow, !.stale = TRUE, !.count = 0]

\* The basic instructions, told apart by their highest bit
Basic(f, p, b) ==
    CASE Highest(b) = 128 -> PointTo(p, <<"text", b % 128>>)
      [] Highest(b) = 64 -> IF p.scroll THEN p ELSE PointTo(p, <<"font", b % 64>>)
      [] Highest(b) = 32 -> [p EXCEPT !.wide = Has(b, 16),
                                      !.tall = f = "HD44780" /\ Has(b, 8),
                                      !.extended = f = "ST7920" /\ Has(b, 4)]
      [] Highest(b) = 16 -> [p EXCEPT !.did = <<"shift", Has(b, 8), Has(b, 4)>>]
      [] Highest(b) = 8  -> [p EXCEPT !.on = Has(b, 4), !.cursor = Has(b, 2), !.blink = Has(b, 1)]
      [] Highest(b) = 4  -> [p EXCEPT !.right = Has(b, 2), !.shift = Has(b, 1)]
      [] Highest(b) = 2  -> [PointTo(p, <<"text", 0>>) EXCEPT !.did = <<"home">>, !.stale = FALSE]
      [] Highest(b) = 1  -> [PointTo(p, <<"text", 0>>) EXCEPT !.did = <<"clear">>, !.right = TRUE, !.stale = FALSE]

\* The extended instructions of the ST7920.  An address of the graphics memory
\* is two commands, the row first; graphics is switched by a command that
\* leaves the set of instructions alone.
Extended(p, b) ==
    CASE Highest(b) = 128 -> IF p.row = NoRow THEN [p EXCEPT !.row = b % 128]
                             ELSE PointTo(p, <<"graphics", p.row, b % 16>>)
      [] Highest(b) = 64 -> IF p.scroll THEN [p EXCEPT !.did = <<"scroll", b % 64>>] ELSE p
      [] Highest(b) = 32 -> [p EXCEPT !.wide = Has(b, 16), !.extended = Has(b, 4),
                                      !.graphics = IF Has(b, 4) THEN Has(b, 2) ELSE @]
      [] Highest(b) = 4  -> [p EXCEPT !.did = <<"reverse", b % 4>>]
      [] Highest(b) = 2  -> [p EXCEPT !.scroll = Has(b, 1)]
      [] Highest(b) = 1  -> [p EXCEPT !.standby = TRUE]
      [] OTHER           -> p

\* The controllers that only have graphics: a page, then a column, in one
\* command or in two
Paged(f, p, b) ==
    CASE p.extended /\ b \notin 32 .. 39 -> p
      [] f = "PCD8544" /\ b >= 128       -> PointTo(p, <<"graphics", p.at[2], b % 128>>)
      [] f = "PCD8544" /\ b \in 64 .. 71 -> PointTo(p, <<"graphics", b % 8, p.at[3]>>)
      [] f = "PCD8544" /\ b \in 32 .. 39 -> [p EXCEPT !.standby = Has(b, 4), !.extended = Has(b, 1)]
      [] f = "PCD8544" /\ b \in 8 .. 15  -> [p EXCEPT !.all = b = 9, !.inverse = b = 13]
      [] f # "PCD8544" /\ b \in 176 .. 191 -> PointTo(p, <<"graphics", b % 16, p.at[3]>>)
      [] f # "PCD8544" /\ b \in 16 .. 31 -> PointTo(p, <<"graphics", p.at[2], (b % 16) * 16 + (p.at[3] % 16)>>)
      [] f # "PCD8544" /\ b \in 0 .. 15  -> PointTo(p, <<"graphics", p.at[2], (p.at[3] \div 16) * 16 + b>>)
      [] f # "PCD8544" /\ b \in 174 .. 175 -> [p EXCEPT !.on = Has(b, 1)]
      [] f # "PCD8544" /\ b \in 166 .. 167 -> [p EXCEPT !.inverse = Has(b, 1)]
      [] f # "PCD8544" /\ b \in 164 .. 165 -> [p EXCEPT !.all = Has(b, 1)]
      [] OTHER -> p

\* A command: one that is not the second half of an address cancels the first,
\* and an address is no longer fresh after another command.  Any command wakes
\* a sleeping ST7920.
Obey(f, p, b) ==
    LET q == [p EXCEPT !.stale = FALSE, !.did = <<"none">>, !.standby = f = "PCD8544" /\ @,
                       !.row = IF b >= 128 THEN @ ELSE NoRow]
    IN  CASE f \in Pages -> Paged(f, q, b)
          [] f = "ST7920" /\ q.extended -> Extended(q, b)
          [] OTHER -> Basic(f, q, b)

ObeyAll(f, p, bytes) == FoldLeft(LAMBDA q, b : Obey(f, q, b), p, bytes)
-----------------------------------------------------------------------------
(***************************************************************************)
(* The links of drivers/lcd/links: the wires a byte is put on, and how a   *)
(* panel of drivers/lcd/controllers reads them at the other end.           *)
(***************************************************************************)
\* lcdLinkIsParallel, lcdLinkGetDataWidth
Parallel(link) == link \in {"parallel8", "parallel4", "i2c"}
Width(link) == IF link \in {"parallel4", "i2c"} THEN 4 ELSE 8
Reads(link) == link \in {"parallel8", "parallel4"}

\* LCDDataType
RS(kind) == IF kind = "data" THEN 1 ELSE 0

Level(en, rs, bus) == [en |-> en, rs |-> rs, bus |-> bus]

\* The wires of a parallel link, one change after the other: en and what is on
\* the bus.  With four lines the low half follows only once the panel is set to
\* take it; an early low half is lost.
parallelLevels(wide, configured, kind, byte) ==
    LET At(en, bus) == Level(en, RS(kind), bus)
        high == byte \div 16
    IN  IF wide THEN <<At(TRUE, byte), At(FALSE, byte)>>
        ELSE <<At(TRUE, high)>>
             \o (IF configured THEN <<At(FALSE, high), At(TRUE, high), At(TRUE, byte % 16)>> ELSE << >>)
             \o <<At(FALSE, IF configured THEN byte % 16 ELSE high)>>

\* The bytes the I2C link sends to its PCF8574, whose outputs are the four data
\* lines, the backlight, en, rw and rs
i2cBytes(configured, kind, byte) ==
    LET BL == 8
        EN == 4
        high == (byte \div 16) * 16 + BL + RS(kind)
        low  == ((byte * 16) % 256) + BL + RS(kind)
    IN  IF configured THEN <<high + EN, high, low + EN, low>> ELSE <<high + EN, high>>

i2cLevels(bytes) == [i \in DOMAIN bytes |-> Level(Has(bytes[i], 4), bytes[i] % 2, bytes[i] \div 16)]

lcdLinkDataOut(link, configured, kind, byte) ==
    IF link = "i2c" THEN i2cLevels(i2cBytes(configured, kind, byte))
    ELSE parallelLevels(link = "parallel8", configured, kind, byte)

\* A byte on the data wire of a serial link, the highest bit first, a bit for
\* each fall of the clock
serialByte(byte) == [i \in 1 .. 8 |-> Has(byte, 2 ^ (8 - i))]

\* The synchronisation byte: five ones, rw, rs and a zero
beginCommunication(kind, operation) ==
    serialByte(248 + (IF operation = "read" THEN 4 ELSE 0) + 2 * RS(kind))

\* ... then the two halves of the byte, each in the high half of one
serialFrame(kind, byte) ==
    beginCommunication(kind, "write") \o serialByte((byte \div 16) * 16) \o serialByte((byte * 16) % 256)

\* What a panel makes of a frame: nothing of one that does not begin with five
\* ones, or that asks for a byte, or whose halves have anything after them
Half(bits) == FoldLeft(LAMBDA n, b : 2 * n + (IF b THEN 1 ELSE 0), 0, bits)

SerialRead(frame) ==
    LET Bits(from, to) == SubSeq(frame, from, to)
    IN  IF \/ Len(frame) # 24
           \/ \E i \in 1 .. 5 : ~frame[i]
           \/ frame[6] \/ frame[8]
           \/ \E i \in (13 .. 16) \cup (21 .. 24) : frame[i]
        THEN [kind |-> "none", byte |-> 0]
        ELSE [kind |-> IF frame[7] THEN "data" ELSE "instruction", byte |-> 16 * Half(Bits(9, 12)) + Half(Bits(17, 20))]

\* A level of the command wire of an SPI link, set before the chip is selected
spiByte(kind, byte) == [kind |-> IF RS(kind) = 1 THEN "data" ELSE "instruction", byte |-> byte]

\* What is read of a panel: the bus once for each pulse of en, the high half
\* first; the other links do not read
lcdLinkDataIn(link, byte) ==
    LET pulses == IF Width(link) = 8 THEN <<byte>> ELSE <<byte \div 16, byte % 16>>
    IN  IF Reads(link) THEN FoldLeft(LAMBDA r, half : r * 16 + half, 0, pulses) ELSE 0
=============================================================================
