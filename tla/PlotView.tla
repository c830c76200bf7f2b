------------------------------ MODULE PlotView ------------------------------
(***************************************************************************)
(* The view a plot of the GUI keeps of its data from frame to frame        *)
(* (user_gui.cpp, PlotView): reset when the data change, zoomed by the     *)
(* wheel, dragged, clamped back to the data, and used to choose the points *)
(* that are drawn. One plot is modelled; it is one of the waveforms        *)
(* (draw_multichannel_plot), the phases (draw_phase_plot) or the spectrum  *)
(* (draw_spectrum_plot). Between two frames the data may change in any     *)
(* way: each frame draws a copy of its own.                                *)
(*                                                                         *)
(* An axis is counted in units, Unit of them to the 1.0 of the code (one   *)
(* sample, one degree, one dB); fractions of a unit are dropped.           *)
(***************************************************************************)
EXTENDS Integers, FiniteSets

CONSTANTS
    Plots,    \* the plots, of {"waveform", "phase", "spectrum"}
    Unit,
    Bin,      \* the distance of two spectrum bins, in units
    Tiny,     \* the least width of the spectrum's frequencies, 1e-9 MHz
    Hard,     \* the phases' hard limits are -Hard and Hard, 180 degrees
    MaxLines, \* lines drawn of a channel, 2400
    Data,     \* the data of a frame: [n, base, y]
    Spots,    \* where the mouse may be: [x, y], in halves of the canvas
    Drags     \* how far it may be dragged in a frame: the same

Axis == [lo : Int, hi : Int]

ASSUME PlotAssumption ==
    /\ Plots \subseteq {"waveform", "phase", "spectrum"}
    /\ Unit \in Nat \ {0} /\ Bin \in Nat \ {0} /\ Tiny \in Nat \ {0}
    /\ Hard \in Nat \ {0} /\ MaxLines \in Nat \ {0}
    /\ Data \subseteq [n : Nat, base : Int, y : Axis]
    /\ \A d \in Data : d.y.lo <= d.y.hi
    /\ Spots \subseteq [x : 0..2, y : 0..2]
    /\ Drags \subseteq [x : Int, y : Int]

VARIABLES
    plot,   \* which plot it is
    view,   \* its PlotView
    frame,  \* the data of the last frame that drew it
    drawn   \* the points of its lines, of each channel alike

plotVars == <<plot, view, frame, drawn>>

Larger(a, b) == IF a > b THEN a ELSE b
Smaller(a, b) == IF a < b THEN a ELSE b

Width(v) == v.hi - v.lo
Shifted(v, by) == [lo |-> v.lo + by, hi |-> v.hi + by]
Inside(v, d) == d.lo <= v.lo /\ v.lo <= v.hi /\ v.hi <= d.hi

-----------------------------------------------------------------------------
(* Clamping *)

\* The width w about the centre of v.
Centred(v, w) ==
    LET lo == (v.lo + v.hi - w) \div 2 IN [lo |-> lo, hi |-> lo + w]

\* v moved into d: from below, then from above.
MovedInto(v, d) ==
    LET up == IF v.lo < d.lo THEN Shifted(v, d.lo - v.lo) ELSE v
    IN IF up.hi > d.hi THEN Shifted(up, d.hi - up.hi) ELSE up

\* Faulty variant of Clamped: a view as wide as its data is moved too.
Clamped_Moves(v, d, least, wide) ==
    MovedInto(IF Width(v) < least THEN Centred(v, wide) ELSE v, d)

\* A view narrower than least is given the width wide; one as wide as the data
\* becomes the data; any other is moved.
Clamped(v, d, least, wide) ==
    LET w == IF Width(v) < least THEN Centred(v, wide) ELSE v
    IN IF Width(w) >= Width(d) THEN d ELSE MovedInto(w, d)

\* What the x axis of the data d covers.
DataX(d) ==
    IF plot = "spectrum"
    THEN [lo |-> d.base, hi |-> d.base + (d.n - 1) * Bin]
    ELSE [lo |-> 0, hi |-> IF d.n > 1 THEN (d.n - 1) * Unit ELSE Unit]

LeastX == IF plot = "spectrum" THEN Tiny ELSE Unit

\* clamp_x_view and, for the spectrum, clamp_x_view_range.
ClampX(v, d) ==
    IF plot = "spectrum"
    THEN Clamped(v, DataX(d), Tiny, Larger(Tiny, Width(DataX(d)) \div 100))
    ELSE IF d.n < 2 THEN DataX(d) ELSE Clamped(v, DataX(d), Unit, Unit)

\* What the y axis is clamped to.
Limits(d) == IF plot = "phase" THEN [lo |-> -Hard, hi |-> Hard] ELSE d.y

ClampY(v, d) == Clamped(v, Limits(d), Unit, Unit)

-----------------------------------------------------------------------------
(* The view *)

\* reset_plot_view_auto_y: the phases get a margin of a fifth.
AutoY(d) ==
    LET lo == Larger(d.y.lo, -Hard)
        hi == Smaller(d.y.hi, Hard)
        half == (Larger((hi - lo) \div 2, Unit) * 6) \div 5
        centre == (lo + hi) \div 2
    IN ClampY([lo |-> centre - half, hi |-> centre + half], d)

Fresh(d) ==
    [of |-> d, x |-> DataX(d), y |-> IF plot = "phase" THEN AutoY(d) ELSE d.y]

\* The view was made for other data. (A view never made is of no samples.)
Stale(v, d) ==
    \/ v.of.n # d.n \/ v.of.y # d.y
    \/ plot = "spectrum" /\ v.of.base # d.base

\* The wheel: about the mouse, by 0.82 or 1.22, both axes at once. Zoomed is
\* an axis before it is clamped; at is the mouse in halves from its low end.
Zoomed(v, least, at, percent) ==
    LET old == Larger(Width(v), least)
        new == Larger(least, (old * percent) \div 100)
        lo == v.lo + (at * old) \div 2 - (at * new) \div 2
    IN [lo |-> lo, hi |-> lo + new]

Wheeled(v, d, spot, percent) ==
    [v EXCEPT !.x = ClampX(Zoomed(@, LeastX, spot.x, percent), d),
              !.y = ClampY(Zoomed(@, Unit, spot.y, percent), d)]

Dragged(v, d, by) ==
    [v EXCEPT
        !.x = ClampX(Shifted(@, (-by.x * Larger(Width(@), LeastX)) \div 2), d),
        !.y = ClampY(Shifted(@, (by.y * Larger(Width(@), Unit)) \div 2), d)]

\* What the mouse does in a frame: Reset View or a double click, then the
\* wheel, then a drag; each or none.
Resets(v, d) == {v, Fresh(d)}
Wheels(v, d) ==
    {v} \cup {Wheeled(v, d, s, p) : s \in Spots, p \in {82, 122}}
Draggings(v, d) == {v} \cup {Dragged(v, d, by) : by \in Drags}

-----------------------------------------------------------------------------
(* The points *)

Position(d, i) == IF plot = "spectrum" THEN d.base + i * Bin ELSE i * Unit

\* The spectrum's ends are searched; the others are computed.
FirstIndex(v, d) ==
    IF plot = "spectrum"
    THEN LET inner == {i \in 0..(d.n - 1) :
                          i = d.n - 1 \/ Position(d, i) >= v.x.lo}
         IN Larger(0, (CHOOSE i \in inner : \A j \in inner : i <= j) - 1)
    ELSE Larger(0, v.x.lo \div Unit)

\* Faulty variant of LastIndex: the end is not rounded up.
LastIndex_Floor(v, d) ==
    Smaller(d.n - 1, v.x.hi \div (IF plot = "spectrum" THEN Bin ELSE Unit))

LastIndex(v, d) ==
    IF plot = "spectrum"
    THEN LET inner == {i \in 0..(d.n - 1) :
                          i = 0 \/ Position(d, i) <= v.x.hi}
             top == CHOOSE i \in inner : \A j \in inner : i >= j
         IN Smaller(d.n - 1, top + 1)
    ELSE Smaller(d.n - 1, (v.x.hi + Unit - 1) \div Unit)

\* What the canvas is wide (map_plot_point_view): 1.0 at least.
Across(axis) == Larger(Width(axis), Unit)

\* Every step-th point from the first, and the last.
Points(first, last) ==
    LET step == Larger(1, (last - first + 1) \div MaxLines)
    IN IF last <= first THEN {}
       ELSE {i \in first..last : (i - first) % step = 0} \cup {last}

\* A single phase is a dot.
PointsOf(v, d) ==
    IF d.n < 2 THEN {0}
    ELSE Points(FirstIndex(v, d), LastIndex(v, d))

-----------------------------------------------------------------------------
(* Frames *)

\* The least number of values each plot draws.
Enough(d) == d.n >= IF plot = "phase" THEN 1 ELSE 2

DrawFrame(d) ==
    /\ Enough(d)
    /\ LET made == IF Stale(view, d) THEN Fresh(d) ELSE view
       IN \E r \in Resets(made, d) :
              \E w \in Wheels(r, d) : view' \in Draggings(w, d)
    /\ frame' = d
    /\ drawn' = PointsOf(view', d)
    /\ UNCHANGED plot

\* Too little data: a text, and the view is kept for later.
DrawText(d) == ~Enough(d) /\ drawn' = {} /\ UNCHANGED <<plot, view, frame>>

NoData == [n |-> 0, base |-> 0, y |-> [lo |-> 0, hi |-> 0]]

PlotInit ==
    /\ plot \in Plots
    /\ view = [of |-> NoData, x |-> [lo |-> 0, hi |-> Unit],
               y |-> [lo |-> -Unit, hi |-> Unit]]
    /\ frame = NoData
    /\ drawn = {}

PlotNext == \E d \in Data : DrawFrame(d) \/ DrawText(d)

PlotSpec == PlotInit /\ [][PlotNext]_plotVars

-----------------------------------------------------------------------------
(* Properties *)

\* However it is zoomed and dragged, and whatever came between two frames, the
\* view that draws is of the data drawn, inside them, not turned over and not
\* narrower than a sample (or all the data, when they are).
ViewInside ==
    drawn # {} =>
        /\ view.of.n = frame.n /\ view.of.y = frame.y
        /\ Inside(view.x, DataX(frame))
        /\ Inside(view.y, Limits(frame))
        /\ Width(view.x) >= Smaller(LeastX, Width(DataX(frame)))
        /\ Width(view.y) >= Smaller(Unit, Width(Limits(frame)))

\* The points drawn exist and reach both ends of the view, and of the canvas,
\* so that the lines fill it, and no more are drawn than twice MaxLines. The
\* exception is a spectrum narrower than 1 MHz: its axis may be narrower than
\* the canvas is taken to be, and the lines end before the right edge.
PointsFillView ==
    drawn # {} =>
        /\ drawn \subseteq 0..(frame.n - 1)
        /\ Cardinality(drawn) <= 2 * MaxLines + 1
        /\ frame.n > 1 =>
             /\ \E i \in drawn : Position(frame, i) <= view.x.lo
             /\ \E i \in drawn :
                    /\ Position(frame, i) >= view.x.hi
                    /\ \/ Position(frame, i) >= view.x.lo + Across(view.x)
                       \/ plot = "spectrum" /\ Width(view.x) < Unit

\* What is drawn is the data, and all of it that the view shows.
ViewShowsData == ViewInside /\ PointsFillView
=============================================================================
