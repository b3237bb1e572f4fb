--------------------------------- MODULE Vga ---------------------------------
(***************************************************************************)
(* The clipping of hal_vga_rect(): which bytes of the frame buffer a       *)
(* rectangle paints, wherever it lies.  x and w are the state, the         *)
(* registers of SoftMath read as signed; sums that overflow an int are     *)
(* undefined in C and not tried.                                           *)
(***************************************************************************)
EXTENDS SoftMath

CONSTANTS
  VGA_WIDTH, VGA_HEIGHT,  \* the screen
  Reach                   \* how far the rectangles tried go beyond it

ASSUME ScreenAssumption ==
  VGA_WIDTH \in Nat \ {0} /\ VGA_HEIGHT \in Nat \ {0} /\ Reach \in Nat

\* A span that starts before the edge only moved (mutant of Begun).
BegunUncut(at, len) == IF at < 0 THEN [at |-> 0, len |-> len] ELSE [at |-> at, len |-> len]

\* A span that starts before the edge loses what lies before it ...
Begun(at, len) == IF at < 0 THEN [at |-> 0, len |-> len + at] ELSE [at |-> at, len |-> len]

\* ... and ends with the screen.
Ended(span, size) ==
  IF span.at + span.len > size THEN [span EXCEPT !.len = size - span.at] ELSE span

\* hal_vga_rect(): the offsets written; the loops of an empty or negative
\* length write none.
Rect(x, y, w, h) ==
  IF x >= VGA_WIDTH \/ y >= VGA_HEIGHT THEN {}
  ELSE LET across == Ended(Begun(x, w), VGA_WIDTH)
           down   == Ended(Begun(y, h), VGA_HEIGHT)
       IN  {(down.at + row) * VGA_WIDTH + across.at + col :
              row \in 0 .. down.len - 1, col \in 0 .. across.len - 1}

-----------------------------------------------------------------------------
(* Properties                                                              *)

Positions == - Reach .. VGA_WIDTH + VGA_HEIGHT + Reach

\* "Clipping: Garante que não vamos desenhar fora da memória": exactly the pixels
\* of the rectangle that are on the screen are painted, none of another line.
RectClipped ==
  \A y, h \in Positions, x \in Positions \cap {Signed(n)}, w \in Positions \cap {Signed(d)} :
    Rect(x, y, w, h) =
      {b * VGA_WIDTH + a : a \in {p \in 0 .. VGA_WIDTH - 1 : x <= p /\ p < x + w},
                           b \in {p \in 0 .. VGA_HEIGHT - 1 : y <= p /\ p < y + h}}
=============================================================================
