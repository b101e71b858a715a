---------------------------- MODULE LcdGraphics ----------------------------
(***************************************************************************)
(* Graphics on a display (drivers/lcd/lcd-graphics.c): figures are drawn   *)
(* in a buffer, together with the smallest rectangle that holds all that   *)
(* changed, and an update copies that rectangle, rounded to whole bytes or *)
(* words, to the memory of the panel.                                      *)
(* The buffer and the memory are sets of lit dots.  No figure is clipped   *)
(* by the code but a text at the right edge: the callers keep figures on   *)
(* the screen (OnScreen).                                                  *)
(***************************************************************************)
EXTENDS LcdCommands, FiniteSets

CONSTANTS GfxDevices,   \* [controller, width, height, before]: before is what its memory holds
          GfxCalls,     \* bound: the calls after the initialisation
          GfxPoints, GfxLines, GfxRectangles, GfxImages, GfxFont, GfxTexts

VARIABLES gfxDevice,
          displayBuffer,    \* the lit pixels <<x, y>>
          extent,           \* [minX, minY, maxX, maxY]
          batchStarted, autoUpdate,
          gfxMemory,        \* the lit dots of the panel
          gfxFigure,        \* what was last drawn, with its points
          gfxCalls

gfxVars == <<gfxDevice, displayBuffer, extent, batchStarted, autoUpdate, gfxMemory, gfxFigure, gfxCalls>>

Screen == (0 .. gfxDevice.width - 1) \X (0 .. gfxDevice.height - 1)
WithText == gfxDevice.controller = "ST7920"
NoExtent == [minX |-> gfxDevice.width, minY |-> gfxDevice.height, maxX |-> 0, maxY |-> 0]
WholeScreen == [minX |-> 0, minY |-> 0, maxX |-> gfxDevice.width - 1, maxY |-> gfxDevice.height - 1]
NoFigure == [kind |-> <<"none">>, points |-> {}]

\* ---- lcdGfxUpdateDisplay

\* The cell of the panel a dot belongs to: a page, a column and a bit, or a row
\* and a dot of the row, which holds two rows of the screen.  The address is the
\* one the panel makes of the two or three commands.
AddressOf(x, y) ==
    ObeyAll(gfxDevice.controller, [PowerUp(gfxDevice.controller) EXCEPT !.extended = WithText],
            graphicsAddress(gfxDevice.controller, x, y)).at

\* What an update leaves of the memory, and writes to it: rows of words, from
\* the word of the left edge
Words(e, buffer) ==
    LET xMin == (e.minX \div 16) * 16
        xMax == (e.maxX \div 16) * 16 + 15
        at == [y \in e.minY .. e.maxY |-> AddressOf(xMin, y)]
    IN  {c \in gfxMemory : \A y \in DOMAIN at : c[1] # at[y][2] \/ c[2] - at[y][3] * 16 \notin 0 .. xMax - xMin}
        \cup {<<at[p[2]][2], at[p[2]][3] * 16 + (p[1] - xMin)>> :
                p \in {q \in buffer : q[1] \in xMin .. xMax /\ q[2] \in DOMAIN at}}

\* or columns of bytes, from the page of the top edge
Bytes(e, buffer) ==
    LET at == [page \in e.minY \div 8 .. e.maxY \div 8 |-> AddressOf(e.minX, page * 8)]
    IN  {c \in gfxMemory : \A page \in DOMAIN at : c[1] # at[page][2] \/ c[2] - at[page][3] \notin 0 .. e.maxX - e.minX}
        \cup {<<at[p[2] \div 8][2], at[p[2] \div 8][3] + (p[1] - e.minX), p[2] % 8>> :
                p \in {q \in buffer : q[1] \in e.minX .. e.maxX /\ q[2] \div 8 \in DOMAIN at}}

Updated(e, buffer) == IF WithText THEN Words(e, buffer) ELSE Bytes(e, buffer)

\* _endOperation, and the update it may make
End(e, buffer) ==
    /\ displayBuffer' = buffer
    /\ extent' = e
    /\ batchStarted' = ~autoUpdate
    /\ gfxMemory' = IF autoUpdate THEN Updated(e, buffer) ELSE gfxMemory

\* a slip: every operation starts from nothing
BegunAfresh == NoExtent

\* _beginOperation: a batch that has begun goes on
Begun == IF batchStarted THEN extent ELSE NoExtent

\* _drawPoint, of every point of a figure
Stretched(e, points) ==
    LET xs == {p[1] : p \in points} \cup {e.minX}
        ys == {p[2] : p \in points} \cup {e.minY}
        us == {p[1] : p \in points} \cup {e.maxX}
        vs == {p[2] : p \in points} \cup {e.maxY}
    IN  [minX |-> Min(xs), minY |-> Min(ys), maxX |-> Max(us), maxY |-> Max(vs)]

Drawn(points, colour) ==
    CASE colour = "LCD_OFF"     -> displayBuffer \ points
      [] colour = "LCD_ON"      -> displayBuffer \cup points
      [] colour = "LCD_INVERSE" -> (displayBuffer \ points) \cup (points \ displayBuffer)

OnScreen(points) == points \subseteq Screen

Draw(kind, points, colour) ==
    /\ gfxCalls > 0
    /\ OnScreen(points)
    /\ gfxCalls' = gfxCalls - 1
    /\ gfxFigure' = [kind |-> kind, points |-> points]
    /\ End(Stretched(Begun, points), Drawn(points, colour))
    /\ UNCHANGED <<gfxDevice, autoUpdate>>

\* ---- the figures

lcdGfxPoint(p, colour) == Draw(<<"point", p>>, {p}, colour)

\* The slope of a line is followed by adding up the error of each step; a pen that
\* is where it should be stays there
Trace(from, start, to, d) ==
    LET sx == IF from[1] < to[1] THEN 1 ELSE -1
        sy == IF from[2] < to[2] THEN 1 ELSE -1
        After(pen) ==
            LET across == 2 * pen.err >= d.y
                down   == 2 * pen.err <= d.x
            IN  IF (across /\ pen.at[1] = to[1]) \/ (down /\ pen.at[2] = to[2]) THEN pen
                ELSE [at  |-> <<pen.at[1] + (IF across THEN sx ELSE 0), pen.at[2] + (IF down THEN sy ELSE 0)>>,
                      err |-> pen.err + (IF across THEN d.y ELSE 0) + (IF down THEN d.x ELSE 0)]
        pen[n \in 0 .. d.x - d.y] == IF n = 0 THEN [at |-> from, err |-> start] ELSE After(pen[n - 1])
    IN  {pen[n].at : n \in DOMAIN pen}

Abs(n) == IF n < 0 THEN -n ELSE n

\* a slip: the error starts at nothing
LinePointsLevel(from, to) ==
    Trace(from, 0, to, [x |-> Abs(to[1] - from[1]), y |-> -Abs(to[2] - from[2])])

LinePoints(from, to) ==
    LET d == [x |-> Abs(to[1] - from[1]), y |-> -Abs(to[2] - from[2])]
    IN  CASE from[1] = to[1] -> {from[1]} \X (Min({from[2], to[2]}) .. Max({from[2], to[2]}))
          [] from[2] = to[2] /\ from[1] # to[1] -> (Min({from[1], to[1]}) .. Max({from[1], to[1]})) \X {from[2]}
          [] OTHER -> Trace(from, d.x + d.y, to, d)

lcdGfxLine(from, to, colour) == Draw(<<"line", from, to>>, LinePoints(from, to), colour)

lcdGfxRectangle(width, height, at, colour) ==
    Draw(<<"rectangle", at, width, height>>,
         {<<at[1] + dx, at[2] + dy>> : dx \in 0 .. width - 1, dy \in 0 .. height - 1}, colour)

\* Where an image goes: its bits are those of whole bytes, all of them drawn
Spare(size, used) == IF size > used THEN size - used ELSE 0

OffsetOf(image, alignment, at) ==
    IF alignment[1] = "CUSTOM" THEN at
    ELSE <<CASE alignment[2] = "LEFT" -> 0
             [] alignment[2] = "RIGHT" -> Spare(gfxDevice.width, image.width)
             [] alignment[2] = "CENTER" -> Spare(gfxDevice.width, image.width) \div 2,
           CASE alignment[1] = "TOP" -> 0
             [] alignment[1] = "BOTTOM" -> Spare(gfxDevice.height, image.height)
             [] alignment[1] = "MIDDLE" -> Spare(gfxDevice.height, image.height) \div 2>>

Alignments == ({"TOP", "BOTTOM", "MIDDLE"} \X {"LEFT", "RIGHT", "CENTER"}) \cup {<<"CUSTOM", "CUSTOM">>}

lcdGfxXbmImage(image, alignment, at, colour) ==
    LET offset == OffsetOf(image, alignment, at)
    IN  Draw(<<"image", image, alignment>>, {<<offset[1] + b[1], offset[2] + b[2]>> : b \in image.bits}, colour)

\* A text is cut where the next character would not fit; a character the font
\* has not is a gap
lcdGfxPrint(msg, at, colour) ==
    LET room == (gfxDevice.width - at[1]) \div GfxFont.width
        n    == Min({Len(msg), room})
        has  == {i \in 1 .. n : msg[i] + GfxFont.offset \in DOMAIN GfxFont.glyphs}
    IN  /\ at[1] <= gfxDevice.width
        /\ Draw(<<"text", msg, at>>,
                UNION {{<<at[1] + (i - 1) * GfxFont.width + b[1], at[2] + b[2]>> :
                          b \in GfxFont.glyphs[msg[i] + GfxFont.offset]} : i \in has}, colour)

\* ---- the rest

lcdGfxClear ==
    /\ gfxCalls > 0
    /\ gfxCalls' = gfxCalls - 1
    /\ gfxFigure' = NoFigure
    /\ End(WholeScreen, {})
    /\ UNCHANGED <<gfxDevice, autoUpdate>>

lcdGfxUpdateDisplay ==
    /\ batchStarted
    /\ batchStarted' = FALSE
    /\ gfxMemory' = Updated(extent, displayBuffer)
    /\ UNCHANGED <<gfxDevice, displayBuffer, extent, autoUpdate, gfxFigure, gfxCalls>>

lcdGfxEnableAutoUpdate ==
    /\ ~autoUpdate /\ autoUpdate' = TRUE
    /\ UNCHANGED <<gfxDevice, displayBuffer, extent, batchStarted, gfxMemory, gfxFigure, gfxCalls>>

lcdGfxDisableAutoUpdate ==
    /\ autoUpdate /\ autoUpdate' = FALSE
    /\ batchStarted' = FALSE
    /\ gfxMemory' = IF batchStarted THEN Updated(extent, displayBuffer) ELSE gfxMemory
    /\ UNCHANGED <<gfxDevice, displayBuffer, extent, gfxFigure, gfxCalls>>

\* lcdGfxInitialiseDisplayMode: a panel that has text too is blanked with one
\* command, which is taken to clear its graphics; the others are left to the
\* update that comes first
GfxInit ==
    /\ gfxDevice \in GfxDevices
    /\ displayBuffer = {}
    /\ autoUpdate = FALSE
    /\ batchStarted = ~WithText
    /\ extent = WholeScreen
    /\ gfxMemory = IF WithText THEN {} ELSE gfxDevice.before
    /\ gfxFigure = NoFigure
    /\ gfxCalls = GfxCalls

Colour == {"LCD_OFF", "LCD_ON", "LCD_INVERSE"}

GfxNext ==
    \/ \E colour \in Colour :
          \/ \E p \in GfxPoints : lcdGfxPoint(p, colour)
          \/ \E l \in GfxLines : lcdGfxLine(l[1], l[2], colour)
          \/ \E r \in GfxRectangles : lcdGfxRectangle(r[1], r[2], r[3], colour)
          \/ \E image \in GfxImages, alignment \in Alignments, at \in GfxPoints :
                /\ alignment[1] = "CUSTOM" \/ at = <<0, 0>>
                /\ lcdGfxXbmImage(image, alignment, at, colour)
          \/ \E msg \in GfxTexts, at \in GfxPoints : lcdGfxPrint(msg, at, colour)
    \/ lcdGfxClear
    \/ lcdGfxUpdateDisplay
    \/ lcdGfxEnableAutoUpdate \/ lcdGfxDisableAutoUpdate

GfxSpec == GfxInit /\ [][GfxNext]_gfxVars

\* What the screen shows of the memory
Visible ==
    IF WithText
    THEN {IF c[2] < 128 THEN <<c[2], c[1]>> ELSE <<c[2] - 128, c[1] + 32>> : c \in gfxMemory}
    ELSE {<<c[2], 8 * c[1] + c[3]>> : c \in gfxMemory}

\* The screen shows the buffer: always when no batch is open, and everywhere but
\* in the rectangle of the batch when one is (lcd-graphics.c 86-134).  A figure
\* that escapes the rectangle would stay invisible until something else is drawn
\* over it.
ScreenFollowsBuffer ==
    \A p \in (Visible \ displayBuffer) \cup (displayBuffer \ Visible) :
        /\ batchStarted
        /\ p[1] \in extent.minX .. extent.maxX
        /\ p[2] \in extent.minY .. extent.maxY

\* A line goes from its first point to its last, one point for each step of its
\* longer side, none farther than half a point from the straight line; an image
\* that is aligned has the same margins, within a dot (lcd-graphics.c 195-251,
\* 253-328).
Straight(from, to, points) ==
    LET dx == to[1] - from[1]
        dy == to[2] - from[2]
        longer == Max({Abs(dx), Abs(dy)})
    IN  /\ {from, to} \subseteq points
        /\ Cardinality(points) = longer + 1
        /\ \A p \in points : 2 * Abs(dy * (p[1] - from[1]) - dx * (p[2] - from[2])) <= longer

FiguresAsAsked ==
    LET what == gfxFigure.kind
    IN  /\ what[1] = "line" => Straight(what[2], what[3], gfxFigure.points)
        /\ what[1] = "image" /\ what[3][1] # "CUSTOM" =>
             LET left == Min({p[1] : p \in gfxFigure.points}) - Min({b[1] : b \in what[2].bits})
                 top  == Min({p[2] : p \in gfxFigure.points}) - Min({b[2] : b \in what[2].bits})
                 right  == gfxDevice.width - what[2].width - left
                 bottom == gfxDevice.height - what[2].height - top
             IN  /\ what[3][2] = "LEFT" => left = 0
                 /\ what[3][2] = "RIGHT" => right = 0
                 /\ what[3][2] = "CENTER" => right - left \in {0, 1}
                 /\ what[3][1] = "TOP" => top = 0
                 /\ what[3][1] = "BOTTOM" => bottom = 0
                 /\ what[3][1] = "MIDDLE" => bottom - top \in {0, 1}
=============================================================================
