------------------------------- MODULE QrSheet -------------------------------
(* The geometry of the QR sheet (qr.rs), in pixels: one card per code, all   *)
(* of one size, one module size for all codes.  A code is the number of its  *)
(* modules, 21 to 177 in steps of 4.                                         *)
EXTENDS Naturals, Sequences, FiniteSetsExt

SheetWidth == 1920
SheetHeight == 1080
Border == 8      \* CARD_BORDER
Pad == 44        \* CARD_PAD_X, _TOP and _BOTTOM
CardGap == 72
QuietModules == 4
MinModulePx == 6
CaptionGap == 14

\* glyph_block_height: 7 rows of pixels; TITLE, SUBTITLE, CAPTION and DETAIL_SCALE.
TextHeight(scale) == 7 * scale
CaptionHeight == TextHeight(6) + CaptionGap + TextHeight(4)

\* text_width: six columns per character but for the last, bold one more.
TextWidth(chars, scale, bold) == (6 * chars - 1) * scale + (IF bold THEN 1 ELSE 0)

\* TITLE_Y, the title, TITLE_SUB_GAP, the subtitle, HEADER_CARD_GAP.
CardY == 64 + TextHeight(8) + 20 + TextHeight(4) + 36
CardH == SheetHeight - CardY - 72
\* A lone card is as wide as one of two.
Larger(m, n) == IF m > n THEN m ELSE n
CardW(cards) ==
    LET slots == Larger(cards, 2) IN (SheetWidth - 2 * 80 - CardGap * (slots - 1)) \div slots
ZoneW(cards) == CardW(cards) - 2 * Border - 2 * Pad
ZoneH == CardH - 2 * Border - Pad - CaptionHeight - Pad

\* Mutant: the module size is chosen for the codes without their quiet zones.
ModulePxBare(codes) ==
    LET zone == ZoneW(Len(codes)) IN (IF zone < ZoneH THEN zone ELSE ZoneH) \div Max({codes[i] : i \in DOMAIN codes})

ModulePx(codes) ==
    LET zone == ZoneW(Len(codes))
        span == Max({codes[i] : i \in DOMAIN codes}) + 2 * QuietModules
    IN (IF zone < ZoneH THEN zone ELSE ZoneH) \div span

\* layout_sheet gives up on codes whose modules get too small to scan.
Fits(codes) == codes # <<>> /\ ModulePx(codes) >= MinModulePx

CardX(codes, i) ==
    LET n == Len(codes)
        row == CardW(n) * n + CardGap * (n - 1)
    IN (SheetWidth - row) \div 2 + (i - 1) * (CardW(n) + CardGap)

\* draw_card: the code with its quiet zone, centred in its zone.
CodeSide(codes, i) == (codes[i] + 2 * QuietModules) * ModulePx(codes)
Centred(space, size) == (IF size < space THEN space - size ELSE 0) \div 2
CodeX(codes, i) == CardX(codes, i) + Border + Pad + Centred(ZoneW(Len(codes)), CodeSide(codes, i))
CodeY(codes, i) == CardY + Border + Pad + Centred(ZoneH, CodeSide(codes, i))
CaptionY == CardY + CardH - Border - Pad - CaptionHeight
CaptionX(codes, i, width) == CardX(codes, i) + Centred(CardW(Len(codes)), width)
=============================================================================
