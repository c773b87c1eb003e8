------------------------------ MODULE Desktop ------------------------------
(***************************************************************************)
(* The window manager: kernel_rs/window_manager.rs with the surface system *)
(* calls of compositor.rs, frame_scheduler.rs and the CPU renderer.  The   *)
(* state is the stack of windows, the buffers their processes draw into,   *)
(* the pointer, the damage waiting to be redrawn, and what the screen      *)
(* shows.  Every action is one call, made with interrupts masked.          *)
(*                                                                         *)
(* Abstraction: a pixel holds the name of what was painted there; a window *)
(* buffer has one colour per row; the windows have one size.  The back     *)
(* buffer is not kept between calls: each call repaints the part of it     *)
(* that it then copies to the front buffer.  The screen is the front       *)
(* buffer with the pixels of `sprite' overdrawn by the pointer.  Time is   *)
(* abstracted: whether the frame deadline has passed is a free choice.     *)
(***************************************************************************)
EXTENDS Geometry

CONSTANTS
  Surfaces,           \* surface objects
  NoSurface,
  ScreenW, ScreenH, TitleH, MenuH, WinW, WinH, CursorW, CursorH,
  Home,               \* Surfaces -> position a window is registered at
  Colors,
  Motions,            \* motions of one mouse report, a bound of the model
  RowSpans,           \* first row and height of commits and partial presents
  Targets,            \* positions asked for by SYS_WINDOW_MOVE
  MaxCalls            \* calls made, a bound of the model

VARIABLES
  desk,       \* WINDOWS: order (bottom first), place, buffers, title styles
  pointer,    \* CURSOR_X, CURSOR_Y
  button,     \* LEFT_BUTTON_DOWN
  dragging,   \* DRAGGING: the surface and the offset of the grip, or none
  damage,     \* GLOBAL_DAMAGE
  dirty,      \* WINDOW_DIRTY
  pending,    \* FRAME_PENDING
  focus,      \* FOCUSED_SURFACE of input_routing.rs
  glass,      \* FRONTBUFFER, and the pixels where the pointer is drawn
  owed,       \* history: pixels changed by a call that damages nothing
  deskCalls   \* calls made so far

deskVars == <<desk, pointer, button, dragging, damage, dirty, pending, focus,
              glass, owed, deskCalls>>

ScreenRect == Rect(0, 0, ScreenW, ScreenH)
Screen == Pixels(ScreenRect)
Rows == 0 .. WinH - 1
Title(d, s) == Rect(d.at[s][1], d.at[s][2] - TitleH, WinW, TitleH)
Content(d, s) == Rect(d.at[s][1], d.at[s][2], WinW, WinH)
Bounds(d, s) == Rect(d.at[s][1], d.at[s][2] - TitleH, WinW, WinH + TitleH)

\* A mutant: the window right above the painted one is no occluder.
Above_OffByOne(d, i) ==
  IF i = Len(d.order) THEN <<>>
  ELSE [j \in 1 .. Len(d.order) - i - 1 |-> Bounds(d, d.order[i + 1 + j])]

\* The windows above the i-th, which it must not paint over.
Above(d, i) == [j \in 1 .. Len(d.order) - i |-> Bounds(d, d.order[i + j])]
TopOf(d) == IF d.order = <<>> THEN NoSurface ELSE d.order[Len(d.order)]
Shown(d) == {d.order[i] : i \in DOMAIN d.order}

\* The colour of a pixel of the bare desktop and of a window.
Backdrop(p) == IF p[2] < MenuH THEN <<"menu">> ELSE <<"background">>
Surface(d, s, p) ==
  IF Holds(Title(d, s), p) THEN <<"title", s, d.lit[s]>>
  ELSE <<"content", s, d.ink[s][p[2] - d.at[s][2]]>>

\* What the stack of windows says a pixel should show: the reference.
Ideal(d, p) ==
  LET over == {i \in DOMAIN d.order : Holds(Bounds(d, d.order[i]), p)}
  IN IF over = {} THEN Backdrop(p)
     ELSE Surface(d, d.order[CHOOSE i \in over : \A j \in over : j <= i], p)

\* blit_surface_clipped: the pixels of one part of the i-th window it paints.
Blit(d, i, part, clip) ==
  LET vis == ComputeVisibleRects(Intersect(part, clip), Above(d, i))
  IN {p \in Screen : \E k \in DOMAIN vis : Holds(vis[k], p)}

\* blit_window_clipped: the title bar, then the content.
BlitWindow(d, i, clip) ==
  Blit(d, i, Title(d, d.order[i]), clip) \cup Blit(d, i, Content(d, d.order[i]), clip)

\* The front buffer after the windows are blitted bottom to top over `under'.
Blitted(d, under, clip) ==
  FoldLeft(LAMBDA f, i : LET on == BlitWindow(d, i, clip)
                         IN [p \in DOMAIN f |-> IF p \in on THEN Surface(d, d.order[i], p) ELSE f[p]],
           under, [i \in DOMAIN d.order |-> i])

SpriteAt(c) == Pixels(Rect(c[1], c[2], CursorW, CursorH)) \cap Screen

\* present_rect over the pixels `on', then the pointer drawn at c (if drawn).
Presented(g, f, on, c, drawn) ==
  [front |-> f,
   sprite |-> (g.sprite \ on) \cup (IF drawn THEN SpriteAt(c) ELSE {})]

\* present: every window is recomposed, and only windows; the background is
\* not repainted.
PresentAll(d, c, g) ==
  LET on == UNION {BlitWindow(d, i, ScreenRect) : i \in DOMAIN d.order}
  IN Presented(g, Blitted(d, g.front, ScreenRect), on, c, TRUE)

\* redraw_rect: the background, then the windows over it.
RedrawRect(d, g, r) ==
  LET clip == Intersect(r, ScreenRect)
      on == Pixels(clip)
      base == [p \in DOMAIN g.front |-> IF p \in on THEN Backdrop(p) ELSE g.front[p]]
  IN Presented(g, Blitted(d, base, clip), on, <<0, 0>>, FALSE)

\* flush_dirty_surfaces: the damaged rectangles, or every window if the dirty
\* flag was set without damage.
FlushDirtySurfaces(d, dmg, c, g) ==
  IF dmg = {} THEN PresentAll(d, c, g)
  ELSE LET h == FoldLeft(LAMBDA acc, r : RedrawRect(d, acc, r), g, SetToSeq(dmg))
       IN Presented(h, h.front, {}, c, TRUE)

----------------------------------------------------------------------------
\* update_window_focus_visuals: only the top window has the active title.
Restyled(d) == [d EXCEPT !.lit = [s \in Surfaces |-> s = TopOf(d)]]

Raised(d, s) ==
  Restyled([d EXCEPT !.order = Append(SelectSeq(@, LAMBDA t : t # s), s)])

\* move_window
MoveWindow(d, s, x, y) ==
  [d EXCEPT !.at[s] = <<Clamp(x, 0, ScreenW - WinW), Clamp(y, TitleH, ScreenH - WinH)>>]

\* topmost_titlebar_at and topmost_content_at: the highest window whose part
\* holds the point.
TopmostAt(d, part(_, _), p) ==
  LET hits == {i \in DOMAIN d.order : Holds(part(d, d.order[i]), p)}
  IN IF hits = {} THEN NoSurface
     ELSE d.order[CHOOSE i \in hits : \A j \in hits : j <= i]
TopmostTitlebarAt(d, p) == TopmostAt(d, Title, p)
TopmostContentAt(d, p) == TopmostAt(d, Content, p)

NoDrag == [on |-> FALSE, s |-> NoSurface, dx |-> 0, dy |-> 0]

\* Pixels that a call changed without damaging them stay owed until shown.
Owing(more) == owed' = {p \in owed \cup more : glass'.front[p] # Ideal(desk', p)}

Call == deskCalls < MaxCalls /\ deskCalls' = deskCalls + 1

\* init_desktop_chrome, and then the windows of `order' registered and shown.
DeskInit(order) ==
  /\ desk = [order |-> order, at |-> Home,
             ink |-> [s \in Surfaces |-> [y \in Rows |-> "blank"]],
             lit |-> [s \in Surfaces |-> order # <<>> /\ s = order[Len(order)]]]
  /\ pointer = <<0, 0>> /\ button = FALSE /\ dragging = NoDrag
  /\ damage = {} /\ dirty = FALSE /\ pending = FALSE /\ focus = NoSurface
  /\ glass = [front |-> [p \in Screen |-> Ideal(desk, p)],
              sprite |-> SpriteAt(<<0, 0>>)]
  /\ owed = {} /\ deskCalls = 0

\* register, by the set-up thread of a process with a window; most of them
\* also give it the focus.  Nothing is drawn.
Register(s, takesFocus) ==
  /\ Call
  /\ s \notin Shown(desk)
  /\ desk' = Restyled([desk EXCEPT !.order = Append(@, s)])
  /\ focus' = IF takesFocus THEN s ELSE focus
  /\ UNCHANGED <<pointer, button, dragging, damage, dirty, pending, glass>>
  /\ Owing(Pixels(Bounds(desk, s)) \cup
           UNION {Pixels(Title(desk, t)) : t \in Shown(desk)})

\* SYS_SURFACE_FILL, SYS_SURFACE_DRAW_TEXT, SYS_SURFACE_DRAW_BITMAP, and the
\* stores of a process into the buffer SYS_MAP_SURFACE gave it: rows change,
\* nothing is shown.
Draw(s, rows, c) ==
  /\ Call
  /\ s \in Shown(desk)
  /\ desk' = [desk EXCEPT !.ink[s] = [y \in Rows |-> IF y \in rows THEN c ELSE @[y]]]
  /\ UNCHANGED <<pointer, button, dragging, damage, dirty, pending, focus, glass>>
  /\ Owing(Pixels(Content(desk, s)))

\* SYS_SURFACE_PRESENT without a dirty range: every window is recomposed.
SyscallPresent ==
  /\ Call
  /\ glass' = PresentAll(desk, pointer, glass)
  /\ UNCHANGED <<desk, pointer, button, dragging, damage, dirty, pending, focus>>
  /\ Owing({})

\* present_partial: the visible pixels of some rows of one window.
PartialPixels(d, s, y, h) ==
  LET i == CHOOSE i \in DOMAIN d.order : d.order[i] = s
      end == Lower(y + h, WinH)
  IN IF y >= end THEN {}
     ELSE Blit(d, i, Rect(d.at[s][1], d.at[s][2] + y, WinW, end - y), ScreenRect)

CursorAffected(on, c) == on \cap SpriteAt(c) # {}

SyscallPresentPartial(s, y, h) ==
  LET on == PartialPixels(desk, s, y, h)
  IN /\ Call
     /\ s \in Shown(desk)
     /\ on # {}
     /\ glass' = Presented(glass,
                   [p \in DOMAIN glass.front |->
                      IF p \in on THEN Surface(desk, s, p) ELSE glass.front[p]],
                   on, pointer, CursorAffected(on, pointer))
     /\ UNCHANGED <<desk, pointer, button, dragging, damage, dirty, pending, focus>>
     /\ Owing({})

\* SYS_WINDOW_MOVE: the window moves and all windows are recomposed; the area
\* it leaves is not damaged.
SyscallMoveWindow(s, x, y) ==
  /\ Call
  /\ s \in Shown(desk)
  /\ desk' = MoveWindow(desk, s, x, y)
  /\ desk' # desk
  /\ glass' = PresentAll(desk', pointer, glass)
  /\ UNCHANGED <<pointer, button, dragging, damage, dirty, pending, focus>>
  /\ Owing(Pixels(Bounds(desk, s)))

\* request_presentation: the frame is shown now, or left pending because the
\* frame deadline has not passed.
RequestPresentation(d, dmg, c) ==
  \/ /\ glass' = FlushDirtySurfaces(d, dmg, c, glass)
     /\ damage' = {} /\ dirty' = FALSE /\ pending' = FALSE
  \/ /\ damage' = dmg /\ dirty' = TRUE /\ pending' = TRUE /\ UNCHANGED glass

\* SYS_SURFACE_COMMIT: a rectangle of the window is damaged and a frame asked
\* for.
SyscallCommitSurface(s, y, h) ==
  LET rows == Lower(h, Higher(0, WinH - y))
      r == Rect(desk.at[s][1], desk.at[s][2] + y, WinW, rows)
  IN /\ Call
     /\ s \in Shown(desk)
     /\ rows > 0
     /\ RequestPresentation(desk, AddRect(damage, r), pointer)
     /\ UNCHANGED <<desk, pointer, button, dragging, focus>>
     /\ Owing({})

----------------------------------------------------------------------------
\* A mutant: the area the window leaves is not damaged.
MouseDamage_NewOnly(before, after, drag) ==
  IF drag.on THEN <<Bounds(after, drag.s)>>
  ELSE [i \in DOMAIN after.order |-> Bounds(after, after.order[i])]

\* The rectangles report_mouse damages: where the dragged window was and where
\* it is, or every window when one was raised by a press on its content.
MouseDamage(before, after, drag) ==
  IF drag.on THEN <<Bounds(before, drag.s), Bounds(after, drag.s)>>
  ELSE [i \in DOMAIN after.order |-> Bounds(after, after.order[i])]

\* report_mouse, from SYS_MOUSE_REPORT.  A press focuses and raises the window
\* under the pointer (a title bar wins over any content) and may grip it; a
\* gripped window follows.  The pointer overlay is moved only if no window
\* changed.
ReportMouse(dx, dy, left) ==
  LET c == <<Clamp(pointer[1] + dx, 0, ScreenW - 1), Clamp(pointer[2] + dy, 0, ScreenH - 1)>>
      press == left /\ ~button
      bar == TopmostTitlebarAt(desk, c)
      hit == IF ~press THEN NoSurface
             ELSE IF bar # NoSurface THEN bar ELSE TopmostContentAt(desk, c)
      raised == hit # NoSurface /\ hit # TopOf(desk)
      d == IF raised THEN Raised(desk, hit) ELSE desk
      drag == IF ~left THEN NoDrag
              ELSE IF press /\ bar # NoSurface
                   THEN [on |-> TRUE, s |-> bar,
                         dx |-> c[1] - d.at[bar][1], dy |-> c[2] - d.at[bar][2]]
              ELSE dragging
      after == IF drag.on THEN MoveWindow(d, drag.s, c[1] - drag.dx, c[2] - drag.dy) ELSE d
      changed == raised \/ after # d
      overlay(g) == Presented(g, g.front, SpriteAt(pointer) \ SpriteAt(c), c, TRUE)
  IN /\ Call
     /\ pointer' = c /\ button' = left /\ dragging' = drag
     /\ focus' = IF hit # NoSurface THEN hit ELSE focus
     /\ desk' = after
     /\ \/ /\ changed
           /\ RequestPresentation(after, FoldLeft(AddRect, damage, MouseDamage(d, after, drag)), c)
        \/ /\ ~changed /\ pending
           /\ glass' = (IF c = pointer THEN FlushDirtySurfaces(desk, damage, c, glass)
                        ELSE overlay(FlushDirtySurfaces(desk, damage, c, glass)))
           /\ damage' = {} /\ dirty' = FALSE /\ pending' = FALSE
        \/ /\ ~changed
           /\ glass' = (IF c = pointer THEN glass ELSE overlay(glass))
           /\ UNCHANGED <<damage, dirty, pending>>
     /\ Owing(IF raised /\ drag.on THEN Pixels(Title(desk, TopOf(desk))) ELSE {})

\* SYS_AGENT_UI_ACTION: 0 names the bottom window, but the focus is set to the
\* surface that was named.  Keys and clicks only move the focus; a focus action
\* also raises, without restyling the titles or asking for a frame.
AgentUiAction(named, raise) ==
  LET target == IF named = NoSurface THEN desk.order[1] ELSE named
  IN /\ Call
     /\ desk.order # <<>>
     /\ target \in Shown(desk)
     /\ focus' = named
     /\ desk' = IF raise
                THEN [desk EXCEPT !.order = Append(SelectSeq(@, LAMBDA t : t # target), target)]
                ELSE desk
     /\ dirty' = (dirty \/ raise)
     /\ UNCHANGED <<pointer, button, dragging, damage, pending, glass>>
     /\ Owing(IF raise THEN Pixels(Bounds(desk, target)) ELSE {})

DeskNext ==
  \/ \E s \in Surfaces, f \in BOOLEAN : Register(s, f)
  \/ \E s \in Surfaces, rows \in {Rows, {0}}, c \in Colors : Draw(s, rows, c)
  \/ SyscallPresent
  \/ \E s \in Surfaces, e \in RowSpans : SyscallPresentPartial(s, e[1], e[2])
  \/ \E s \in Surfaces, p \in Targets : SyscallMoveWindow(s, p[1], p[2])
  \/ \E s \in Surfaces, e \in RowSpans : SyscallCommitSurface(s, e[1], e[2])
  \/ \E m \in Motions, left \in BOOLEAN : ReportMouse(m[1], m[2], left)
  \/ \E s \in Surfaces \cup {NoSurface}, raise \in BOOLEAN : AgentUiAction(s, raise)

----------------------------------------------------------------------------
\* A frame in which some window or the background is not where the screen shows
\* it is accounted for: the pixel lies in the damage of a deferred frame, or it
\* was changed by a call that leaves showing it to someone else (a window just
\* registered, a drawing not yet presented, the area left by SYS_WINDOW_MOVE, a
\* restyled title bar, a raise by an agent).  Nothing else, in particular no
\* mouse drag or raise and no commit, leaves a stale pixel, and damage is never
\* held without a pending frame (window_manager.rs:1002-1149,
\* frame_scheduler.rs:70-97).  And whenever no frame is deferred the pointer is
\* on the screen: every call that paints over it draws it again
\* (window_manager.rs:601, 702-715, 1128), and motion without a frame moves the
\* overlay (window_manager.rs:885-925).
PixelsAccounted ==
  /\ \A p \in Screen :
       glass.front[p] # Ideal(desk, p) => p \in owed \cup PixelsOf(damage)
  /\ damage # {} => pending /\ dirty
  /\ ~pending => SpriteAt(pointer) \subseteq glass.sprite

\* Whatever is painted is what the stack of windows says should be seen there:
\* no call ever paints a part of a window that another covers, or the
\* background over a window (window_manager.rs:518-733, 935-999).
PaintsOnlyVisible ==
  [][\A p \in Screen :
       glass'.front[p] # glass.front[p] => glass'.front[p] = Ideal(desk', p)]_deskVars
=============================================================================
