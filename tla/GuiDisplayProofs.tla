-------------------------- MODULE GuiDisplayProofs --------------------------
(***************************************************************************)
(* Proofs about what the GUI shows, for any captures, sizes, data and      *)
(* inputs.                                                                 *)
(*                                                                         *)
(* Captures: what a frame copies is whole (CurvesAreWhole says why), and   *)
(* the panel's unprotected edits and the job's update end in agreement     *)
(* (Agreement: unless a new spectrum is due, the job's copies of the       *)
(* choices are the panel's).                                               *)
(*                                                                         *)
(* Plots: however one is zoomed, dragged and reset, and however its data   *)
(* change between two frames, its view stays inside the data it draws      *)
(* (ViewInside), and the points it draws fill the view (PointsFillView).   *)
(* The argument: clamping puts any axis, even one turned over, inside its  *)
(* limits; whatever the mouse does ends in a clamp to the data of the      *)
(* frame; a view that is kept is of data of the same shape; and of a view  *)
(* inside its data the first and the last index drawn are at or beyond its *)
(* ends, with a stride that leaves fewer than two points for each line.    *)
(***************************************************************************)
EXTENDS CaptureDisplay, PlotView,
        FiniteSetTheorems, WellFoundedInduction, TLAPS

\* A nonempty set of naturals has a least element.
LEMMA LeastExists ==
    ASSUME NEW S, S \subseteq Nat, S # {}
    PROVE  \E i \in S : \A j \in S : i <= j
  <1>1. PICK i \in S : \A j \in S : ~ <<j, i>> \in OpToRel(<, Nat)
    BY WFMin, NatLessThanWellFounded
  <1>2. ASSUME NEW j \in S PROVE i <= j
    <2>1. <<j, i>> \in Nat \X Nat
      OBVIOUS
    <2>2. ~ (j < i)
      BY <1>1, <2>1 DEF OpToRel
    <2> QED BY <2>2
  <1> QED BY <1>2

-----------------------------------------------------------------------------
(* Captures *)

JobPcs ==
    {"capture", "stored", "read size", "write size", "read channel",
     "write channel", "transform", "phases", "undefined"}
PanelPcs ==
    {"frame", "channel", "size", "clamp", "clamped", "round", "rounded",
     "refresh"}

TypeDisplay ==
    /\ mutex \in {"free", "job"}
    /\ capture \in [id : Nat, frames : Nat]
    /\ former \in [id : Nat, frames : Nat]
    /\ channel \in Channels /\ fftSize \in Int
    /\ jobPc \in JobPcs /\ mySize \in FftSizes /\ myChannel \in Channels
    /\ panelPc \in PanelPcs
    /\ panelPc = "clamped" => edited \in Channels
    /\ panelPc = "rounded" => edited \in FftSizes
    /\ changed \in BOOLEAN /\ typing \in BOOLEAN
    /\ panelPc = "channel" => ~changed

\* The capture the curves are of.
Of == IF jobPc = "stored" THEN former ELSE capture

\* The curves are of one capture, and outside the job's update they are whole.
CurvesAreWhole ==
    /\ mutex = "free" => jobPc \in {"capture", "stored"}
    /\ jobPc \in {"capture", "stored"} => phase = PhaseOf(Of)
    /\ preview = PreviewOf(Of)
    /\ spectrum.id \in {0, Of.id, capture.id}

\* A new spectrum will be asked for.
Due == typing \/ (changed /\ panelPc # "frame")

\* The size is one of the FFT's, but for what is being typed.
SizeIsRounded ==
    \/ fftSize \in FftSizes
    \/ typing /\ panelPc \in {"clamp", "clamped", "round", "rounded"}

Agreement ==
    /\ panelPc = "clamped" => edited = channel
    /\ panelPc = "rounded" => edited = fftSize
    /\ jobPc \in {"write size", "read channel", "write channel", "transform"}
         => mySize = fftSize
    /\ jobPc \in {"write channel", "transform"} => myChannel = channel
    /\ jobPc \in {"read size", "write size"} => spectrum = NoSpectrum
    /\ jobPc \in {"phases", "capture"} =>
         spectrum = SpectrumOf(capture, channel, fftSize)

\* The inductive invariant.
DisplayInv ==
    /\ TypeDisplay
    /\ CurvesAreWhole
    /\ SnapshotsAreWhole
    /\ SizeIsRounded
    /\ ~Due => Agreement

-----------------------------------------------------------------------------
(* The operators *)

LEMMA NormalizedIsSize ==
    ASSUME NEW v \in Int
    PROVE  /\ Normalized(v) \in FftSizes
           /\ v \in FftSizes => Normalized(v) = v
  <1> DEFINE up == {s \in FftSizes : s >= v}
  <1>0. FftSizes \subseteq Nat /\ up \subseteq Nat
    BY DisplayAssumption
  <1>1. CASE up = {}
    <2>1. PICK s \in FftSizes : \A t \in FftSizes : s >= t
      BY <1>0, DisplayAssumption
    <2>2. (CHOOSE x \in FftSizes : \A t \in FftSizes : x >= t) \in FftSizes
      BY <2>1
    <2>3. v \notin FftSizes
      BY <1>0, <1>1
    <2> QED BY <1>1, <2>2, <2>3 DEF Normalized
  <1>2. CASE up # {}
    <2>2. \E s \in up : \A t \in up : s <= t
      BY <1>0, <1>2, LeastExists
    <2> DEFINE r == CHOOSE x \in up : \A t \in up : x <= t
    <2>3. r \in up /\ \A t \in up : r <= t
      BY <2>2
    <2>4. v \in FftSizes => r = v
      BY <1>0, <2>3
    <2> QED BY <1>2, <2>3, <2>4 DEF Normalized
  <1> QED BY <1>1, <1>2

LEMMA SizesAreNumbers == FftSizes \subseteq Int
  BY DisplayAssumption

LEMMA ClampedChannel ==
    ASSUME NEW c \in Channels
    PROVE  AtMost(c, ChannelCount - 1) = c
  BY DisplayAssumption DEF AtMost, Channels

LEMMA SpectrumIsOf ==
    ASSUME NEW c, NEW ch, NEW size
    PROVE  SpectrumOf(c, ch, size).id \in {0, c.id}
  BY DEF SpectrumOf, NoSpectrum

LEMMA ShortCaptures ==
    ASSUME NEW c \in [id : Nat, frames : Nat], c.frames < 2
    PROVE  /\ PhaseOf(c) = [id |-> c.id, count |-> 0]
           /\ \A ch, size : SpectrumOf(c, ch, size) = NoSpectrum
  BY DEF PhaseOf, SpectrumOf

LEMMA DisplayInitial == DisplayInit => DisplayInv
  <1> SUFFICES ASSUME DisplayInit PROVE DisplayInv
    OBVIOUS
  <1> USE DisplayAssumption DEF DisplayInit
  <1>0. NoCapture \in [id : Nat, frames : Nat] /\ NoCapture.frames = 0
    BY DEF NoCapture
  <1>1. TypeDisplay
    <2>1. FirstFftSize \in FftSizes /\ FirstFftSize \in Int /\ 0 \in Channels
      BY DEF Channels
    <2>2. NoCapture \in [id : Nat, frames : Nat]
      BY <1>0
    <2> QED BY <2>1, <2>2 DEF TypeDisplay, JobPcs, PanelPcs
  <1>2. CurvesAreWhole
    BY DEF CurvesAreWhole, Of, NoSpectrum
  <1>3. SnapshotsAreWhole
    BY DEF SnapshotsAreWhole, NoSpectrum
  <1>4. Agreement
    BY <1>0, ShortCaptures DEF Agreement
  <1> QED BY <1>1, <1>2, <1>3, <1>4 DEF DisplayInv, SizeIsRounded

-----------------------------------------------------------------------------
(* The job *)

LEMMA StoreCaptureKeeps ==
    ASSUME DisplayInv, StoreCapture
    PROVE  DisplayInv'
  <1> USE DEF DisplayInv, StoreCapture, panelVars
  <1>1. TypeDisplay'
    <2>1. capture' \in [id : Nat, frames : Nat]
      BY DisplayAssumption DEF TypeDisplay
    <2> QED BY <2>1 DEF TypeDisplay, JobPcs
  <1>2. CurvesAreWhole'
    BY DEF CurvesAreWhole, Of, TypeDisplay
  <1>3. SnapshotsAreWhole'
    BY DEF SnapshotsAreWhole
  <1>4. SizeIsRounded' /\ (~Due' => Agreement')
    BY DEF SizeIsRounded, Due, Agreement
  <1> QED BY <1>1, <1>2, <1>3, <1>4

LEMMA UpdatePreviewKeeps ==
    ASSUME DisplayInv, UpdatePreview
    PROVE  DisplayInv'
  <1> USE DEF DisplayInv, UpdatePreview, panelVars
  <1>1. TypeDisplay'
    BY DEF TypeDisplay, JobPcs
  <1>0. /\ capture \in [id : Nat, frames : Nat]
        /\ capture.frames = 0 =>
             /\ PhaseOf(capture) = [id |-> capture.id, count |-> 0]
             /\ SpectrumOf(capture, channel, fftSize) = NoSpectrum
    <2>1. capture \in [id : Nat, frames : Nat]
      BY DEF TypeDisplay
    <2>2. SUFFICES ASSUME capture.frames = 0
                   PROVE  /\ PhaseOf(capture) =
                                 [id |-> capture.id, count |-> 0]
                          /\ SpectrumOf(capture, channel, fftSize) = NoSpectrum
      BY <2>1
    <2>3. capture.frames < 2
      BY <2>2
    <2> QED BY ONLY <2>1, <2>3, ShortCaptures
  <1>2. CurvesAreWhole'
    <2>1. Of' = capture /\ spectrum'.id = 0
      BY DEF Of, NoSpectrum
    <2> QED BY <1>0, <2>1 DEF CurvesAreWhole
  <1>3. SnapshotsAreWhole'
    BY DEF SnapshotsAreWhole
  <1>4. SizeIsRounded' /\ (~Due' => Agreement')
    BY <1>0 DEF SizeIsRounded, Due, Agreement
  <1> QED BY <1>1, <1>2, <1>3, <1>4

LEMMA ReadSizeKeeps ==
    ASSUME DisplayInv, ReadSize
    PROVE  DisplayInv'
  <1> USE DEF DisplayInv, ReadSize, appVars, panelVars
  <1>1. TypeDisplay'
    BY NormalizedIsSize DEF TypeDisplay, JobPcs
  <1>2. CurvesAreWhole'
    BY DEF CurvesAreWhole, Of
  <1>3. SnapshotsAreWhole' /\ SizeIsRounded'
    BY DEF SnapshotsAreWhole, SizeIsRounded
  <1>4. ~Due' => Agreement'
    BY NormalizedIsSize DEF SizeIsRounded, Due, Agreement, TypeDisplay
  <1> QED BY <1>1, <1>2, <1>3, <1>4

LEMMA WriteSizeKeeps ==
    ASSUME DisplayInv, WriteSize
    PROVE  DisplayInv'
  <1> USE DEF DisplayInv, WriteSize, appVars, panelVars
  <1>1. TypeDisplay'
    BY SizesAreNumbers DEF TypeDisplay, JobPcs
  <1>2. CurvesAreWhole'
    BY DEF CurvesAreWhole, Of
  <1>3. SnapshotsAreWhole' /\ SizeIsRounded'
    BY DEF SnapshotsAreWhole, SizeIsRounded, TypeDisplay
  <1>4. ~Due' => Agreement'
    BY ShortCaptures DEF Due, Agreement, TypeDisplay
  <1> QED BY <1>1, <1>2, <1>3, <1>4

LEMMA ReadChannelKeeps ==
    ASSUME DisplayInv, ReadChannel
    PROVE  DisplayInv'
  <1> USE ClampedChannel DEF DisplayInv, ReadChannel, appVars, panelVars
  <1>1. TypeDisplay'
    BY DEF TypeDisplay, JobPcs
  <1>2. CurvesAreWhole'
    BY DEF CurvesAreWhole, Of
  <1>3. SnapshotsAreWhole' /\ SizeIsRounded'
    BY DEF SnapshotsAreWhole, SizeIsRounded
  <1>4. ~Due' => Agreement'
    BY DEF Due, Agreement, TypeDisplay
  <1> QED BY <1>1, <1>2, <1>3, <1>4

LEMMA WriteChannelKeeps ==
    ASSUME DisplayInv, WriteChannel
    PROVE  DisplayInv'
  <1> USE DEF DisplayInv, WriteChannel, appVars, panelVars
  <1>1. TypeDisplay'
    BY DEF TypeDisplay, JobPcs
  <1>2. CurvesAreWhole'
    BY DEF CurvesAreWhole, Of
  <1>3. SnapshotsAreWhole' /\ SizeIsRounded'
    BY DEF SnapshotsAreWhole, SizeIsRounded
  <1>4. ~Due' => Agreement'
    BY DEF Due, Agreement
  <1> QED BY <1>1, <1>2, <1>3, <1>4

LEMMA TransformKeeps ==
    ASSUME DisplayInv, Transform
    PROVE  DisplayInv'
  <1> USE DEF DisplayInv, Transform, panelVars
  <1>1. TypeDisplay'
    BY DEF TypeDisplay, JobPcs
  <1>2. CurvesAreWhole'
    BY SpectrumIsOf DEF CurvesAreWhole, Of
  <1>3. SnapshotsAreWhole' /\ SizeIsRounded'
    BY DEF SnapshotsAreWhole, SizeIsRounded
  <1>4. ~Due' => Agreement'
    BY DEF Due, Agreement, TypeDisplay
  <1> QED BY <1>1, <1>2, <1>3, <1>4

LEMMA ComputePhasesKeeps ==
    ASSUME DisplayInv, ComputePhases
    PROVE  DisplayInv'
  <1> USE DEF DisplayInv, ComputePhases, panelVars
  <1>1. TypeDisplay'
    BY DEF TypeDisplay, JobPcs
  <1>2. CurvesAreWhole'
    BY DEF CurvesAreWhole, Of
  <1>3. SnapshotsAreWhole' /\ SizeIsRounded'
    BY DEF SnapshotsAreWhole, SizeIsRounded
  <1>4. ~Due' => Agreement'
    BY DEF Due, Agreement
  <1> QED BY <1>1, <1>2, <1>3, <1>4

-----------------------------------------------------------------------------
(* The UI thread *)

LEMMA TakeSnapshotKeeps ==
    ASSUME DisplayInv, TakeSnapshot
    PROVE  DisplayInv'
  <1> USE DEF DisplayInv, TakeSnapshot, appVars, jobVars
  <1>1. TypeDisplay'
    BY DEF TypeDisplay, PanelPcs
  <1>2. CurvesAreWhole'
    BY DEF CurvesAreWhole, Of
  <1>3. SnapshotsAreWhole'
    BY DEF SnapshotsAreWhole, CurvesAreWhole, Of
  <1>4. SizeIsRounded' /\ (~Due' => Agreement')
    BY DEF SizeIsRounded, Due, Agreement
  <1> QED BY <1>1, <1>2, <1>3, <1>4

LEMMA SkipPanelKeeps ==
    ASSUME DisplayInv, SkipPanel
    PROVE  DisplayInv'
  <1> USE DEF DisplayInv, SkipPanel, appVars, jobVars
  <1>1. TypeDisplay'
    BY DEF TypeDisplay, PanelPcs
  <1>2. CurvesAreWhole'
    BY DEF CurvesAreWhole, Of
  <1>3. SnapshotsAreWhole'
    BY DEF SnapshotsAreWhole
  <1>4. SizeIsRounded' /\ (~Due' => Agreement')
    BY DEF SizeIsRounded, Due, Agreement, TypeDisplay
  <1> QED BY <1>1, <1>2, <1>3, <1>4

LEMMA ChooseChannelKeeps ==
    ASSUME DisplayInv, ChooseChannel
    PROVE  DisplayInv'
  <1> USE DEF DisplayInv, ChooseChannel, appVars, jobVars
  <1>1. TypeDisplay'
    BY DEF TypeDisplay, PanelPcs
  <1>2. CurvesAreWhole'
    BY DEF CurvesAreWhole, Of
  <1>3. SnapshotsAreWhole'
    BY DEF SnapshotsAreWhole
  <1>4. SizeIsRounded' /\ (~Due' => Agreement')
    BY DEF SizeIsRounded, Due, Agreement
  <1> QED BY <1>1, <1>2, <1>3, <1>4

LEMMA EditSizeKeeps ==
    ASSUME DisplayInv, EditSize
    PROVE  DisplayInv'
  <1> USE DEF DisplayInv, EditSize, appVars, jobVars
  <1>1. TypeDisplay'
    BY DisplayAssumption DEF TypeDisplay, PanelPcs
  <1>2. CurvesAreWhole'
    BY DEF CurvesAreWhole, Of
  <1>3. SnapshotsAreWhole'
    BY DEF SnapshotsAreWhole
  <1>4. SizeIsRounded' /\ (~Due' => Agreement')
    <2>1. panelPc = "size" /\ panelPc' = "clamp" /\ fftSize \in FftSizes
      BY DEF SizeIsRounded
    <2>2. CASE typing' = TRUE /\ typing
      BY <2>1, <2>2 DEF SizeIsRounded, Due
    <2>3. CASE typing' = TRUE /\ ~typing
      BY <2>1, <2>3 DEF SizeIsRounded, Due
    <2>4. CASE changed' = TRUE /\ fftSize' = fftSize
      BY <2>1, <2>4 DEF SizeIsRounded, Due
    <2>5. CASE UNCHANGED <<fftSize, changed, typing>>
      BY <2>1, <2>5 DEF SizeIsRounded, Due, Agreement
    <2> QED BY <2>2, <2>3, <2>4, <2>5
  <1> QED BY <1>1, <1>2, <1>3, <1>4

LEMMA ReadBackKeeps ==
    ASSUME DisplayInv, ReadBack
    PROVE  DisplayInv'
  <1> USE NormalizedIsSize, ClampedChannel
      DEF DisplayInv, ReadBack, appVars, jobVars
  <1>1. TypeDisplay'
    BY DEF TypeDisplay, PanelPcs
  <1>2. CurvesAreWhole'
    BY DEF CurvesAreWhole, Of
  <1>3. SnapshotsAreWhole'
    BY DEF SnapshotsAreWhole
  <1>4. SizeIsRounded' /\ (~Due' => Agreement')
    BY DEF SizeIsRounded, Due, Agreement, TypeDisplay
  <1> QED BY <1>1, <1>2, <1>3, <1>4

LEMMA WriteBackKeeps ==
    ASSUME DisplayInv, WriteBack
    PROVE  DisplayInv'
  <1> USE DEF DisplayInv, WriteBack, appVars, jobVars
  <1>1. TypeDisplay'
    BY SizesAreNumbers DEF TypeDisplay, PanelPcs
  <1>2. CurvesAreWhole'
    BY DEF CurvesAreWhole, Of
  <1>3. SnapshotsAreWhole'
    BY DEF SnapshotsAreWhole
  <1>4. SizeIsRounded' /\ (~Due' => Agreement')
    BY DEF SizeIsRounded, Due, Agreement, TypeDisplay
  <1> QED BY <1>1, <1>2, <1>3, <1>4

\* This is where a due spectrum is made: with the mutex, so that the job is
\* not in its update and holds no copy of an older choice.
LEMMA RefreshSpectrumKeeps ==
    ASSUME DisplayInv, RefreshSpectrum
    PROVE  DisplayInv'
  <1> USE DEF DisplayInv, RefreshSpectrum, jobVars
  <1>1. TypeDisplay'
    BY DEF TypeDisplay, PanelPcs
  <1>2. CurvesAreWhole'
    BY SpectrumIsOf DEF CurvesAreWhole, Of
  <1>3. SnapshotsAreWhole'
    BY DEF SnapshotsAreWhole
  <1>4. SizeIsRounded' /\ (~Due' => Agreement')
    BY DEF SizeIsRounded, Due, Agreement, CurvesAreWhole
  <1> QED BY <1>1, <1>2, <1>3, <1>4

-----------------------------------------------------------------------------

LEMMA DisplayPreserved ==
    ASSUME DisplayInv, [DisplayNext]_displayVars
    PROVE  DisplayInv'
  <1>1. CASE JobStep
    BY <1>1, StoreCaptureKeeps, UpdatePreviewKeeps, ReadSizeKeeps,
       WriteSizeKeeps, ReadChannelKeeps, WriteChannelKeeps, TransformKeeps,
       ComputePhasesKeeps DEF JobStep
  <1>2. CASE PanelStep
    BY <1>2, TakeSnapshotKeeps, SkipPanelKeeps, ChooseChannelKeeps,
       EditSizeKeeps, ReadBackKeeps, WriteBackKeeps, RefreshSpectrumKeeps
       DEF PanelStep
  <1>3. CASE UNCHANGED displayVars
    BY <1>3 DEF displayVars, appVars, jobVars, panelVars, DisplayInv,
       TypeDisplay, CurvesAreWhole, Of, SnapshotsAreWhole, SizeIsRounded,
       Due, Agreement
  <1> QED BY <1>1, <1>2, <1>3 DEF DisplayNext

LEMMA DisplayAlways == DisplaySpec => []DisplayInv
  <1>1. DisplayInv /\ [DisplayNext]_displayVars => DisplayInv'
    BY DisplayPreserved
  <1> QED BY DisplayInitial, <1>1, PTL DEF DisplaySpec

\* A frame never draws half an update: waveforms, phases and spectrum are of
\* one capture, of any number and length.
THEOREM FramesAreWhole == DisplaySpec => []SnapshotsAreWhole
  <1>1. DisplayInv => SnapshotsAreWhole
    BY DEF DisplayInv
  <1> QED BY <1>1, DisplayAlways, PTL

\* The panel's edits without the mutex and the job's rounding of the same two
\* values end with a spectrum of what the panel shows, for any interleaving.
THEOREM SpectrumFollowsPanel == DisplaySpec => []SpectrumAsSelected
  <1>1. DisplayInv => SpectrumAsSelected
    BY DEF DisplayInv, SpectrumAsSelected, Due, Agreement
  <1> QED BY <1>1, DisplayAlways, PTL

-----------------------------------------------------------------------------
(* Views *)

Datum == [n : Nat, base : Int, y : Axis]
PlotViews == [of : Datum, x : Axis, y : Axis]

\* The axis a is inside d, and not too narrow.
FitsAxis(a, d, least) ==
    a \in Axis /\ Inside(a, d) /\ Width(a) >= Smaller(least, Width(d))

\* The view v is one of the data d.
Fits(v, d) ==
    /\ v \in PlotViews
    /\ ~Stale(v, d)
    /\ FitsAxis(v.x, DataX(d), LeastX)
    /\ FitsAxis(v.y, Limits(d), Unit)

\* Data a plot may be given.
Drawable(d) == d \in Datum /\ d.n >= 1 /\ d.y.lo <= d.y.hi

\* The inductive invariant: a view that was ever made fits its own data, and
\* one that draws is of the data it draws.
PlotInv ==
    /\ view \in PlotViews /\ frame \in Datum
    /\ view.of.n # 0 =>
         /\ FitsAxis(view.x, DataX(view.of), LeastX)
         /\ FitsAxis(view.y, Limits(view.of), Unit)
    /\ drawn # {} => view.of.n # 0 /\ ~Stale(view, frame)

-----------------------------------------------------------------------------
(* Axes *)

LEMMA WidthInt == ASSUME NEW a \in Axis PROVE Width(a) \in Int
  BY DEF Axis, Width

LEMMA AxisOf ==
    ASSUME NEW lo \in Int, NEW hi \in Int
    PROVE  /\ [lo |-> lo, hi |-> hi] \in Axis
           /\ [lo |-> lo, hi |-> hi].lo = lo
           /\ [lo |-> lo, hi |-> hi].hi = hi
  BY DEF Axis

LEMMA ShiftedAxis ==
    ASSUME NEW a \in Axis, NEW by \in Int
    PROVE  /\ Shifted(a, by) \in Axis
           /\ Shifted(a, by).lo = a.lo + by
           /\ Shifted(a, by).hi = a.hi + by
  BY DEF Axis, Shifted

\* The view centred anew has the width asked for.
LEMMA CentredAxis ==
    ASSUME NEW a \in Axis, NEW w \in Int
    PROVE  Centred(a, w) \in Axis /\ Width(Centred(a, w)) = w
  <1> DEFINE lo == (a.lo + a.hi - w) \div 2
  <1>1. lo \in Int
    BY DEF Axis
  <1> HIDE DEF lo
  <1>2. Centred(a, w) = [lo |-> lo, hi |-> lo + w]
    BY DEF Centred, lo
  <1> QED BY <1>1, <1>2 DEF Axis, Width

\* An axis narrower than d, moved into it, is inside it and keeps its width.
LEMMA MovedInside ==
    ASSUME NEW a \in Axis, NEW d \in Axis,
           0 <= Width(a), Width(a) < Width(d)
    PROVE  /\ MovedInto(a, d) \in Axis
           /\ Inside(MovedInto(a, d), d)
           /\ Width(MovedInto(a, d)) = Width(a)
  <1> DEFINE up == IF a.lo < d.lo THEN Shifted(a, d.lo - a.lo) ELSE a
  <1>0. a.lo \in Int /\ a.hi \in Int /\ d.lo \in Int /\ d.hi \in Int
    BY DEF Axis
  <1>1. up \in Axis /\ Width(up) = Width(a) /\ d.lo <= up.lo
    <2>1. CASE a.lo < d.lo
      <3> DEFINE s == Shifted(a, d.lo - a.lo)
      <3>1. d.lo - a.lo \in Int
        BY <1>0
      <3>2. /\ s \in Axis
            /\ s.lo = a.lo + (d.lo - a.lo) /\ s.hi = a.hi + (d.lo - a.lo)
        BY <3>1, ShiftedAxis
      <3>3. up = s
        BY <2>1
      <3> HIDE DEF s, up
      <3> QED BY <3>2, <3>3, <1>0 DEF Width
    <2>2. CASE ~(a.lo < d.lo)
      BY <2>2, <1>0
    <2> QED BY <2>1, <2>2
  <1> HIDE DEF up
  <1>2. up.lo \in Int /\ up.hi \in Int
    BY <1>1 DEF Axis
  <1>3. MovedInto(a, d) =
            IF up.hi > d.hi THEN Shifted(up, d.hi - up.hi) ELSE up
    BY DEF MovedInto, up
  <1>4. CASE up.hi > d.hi
    <2> DEFINE s == Shifted(up, d.hi - up.hi)
    <2>1. d.hi - up.hi \in Int
      BY <1>0, <1>2
    <2>2. /\ s \in Axis
          /\ s.lo = up.lo + (d.hi - up.hi) /\ s.hi = up.hi + (d.hi - up.hi)
      BY <2>1, <1>1, ShiftedAxis
    <2>3. MovedInto(a, d) = s
      BY <1>3, <1>4
    <2> HIDE DEF s
    <2> QED BY <2>2, <2>3, <1>0, <1>1, <1>2 DEF Width, Inside
  <1>5. CASE ~(up.hi > d.hi)
    BY <1>5, <1>0, <1>1, <1>2, <1>3 DEF Width, Inside
  <1> QED BY <1>4, <1>5

\* Clamping puts any axis inside its limits, turned over or not.
LEMMA ClampedFits ==
    ASSUME NEW a \in Axis, NEW d \in Axis, d.lo <= d.hi,
           NEW least \in Nat, NEW wide \in Int, least <= wide
    PROVE  FitsAxis(Clamped(a, d, least, wide), d, least)
  <1> DEFINE w == IF Width(a) < least THEN Centred(a, wide) ELSE a
  <1>0. /\ Width(a) \in Int /\ Width(d) \in Int /\ 0 <= Width(d)
        /\ d.lo \in Int /\ d.hi \in Int
    BY DEF Axis, Width
  <1>1. w \in Axis /\ least <= Width(w)
    BY <1>0, CentredAxis
  <1> HIDE DEF w
  <1>2. Width(w) \in Int
    BY <1>1, WidthInt
  <1>3. Clamped(a, d, least, wide) =
            IF Width(w) >= Width(d) THEN d ELSE MovedInto(w, d)
    BY DEF Clamped, w
  <1>4. CASE Width(w) >= Width(d)
    BY <1>4, <1>3, <1>0 DEF FitsAxis, Inside, Smaller
  <1>5. CASE ~(Width(w) >= Width(d))
    BY <1>5, <1>0, <1>1, <1>2, <1>3, MovedInside DEF FitsAxis, Smaller
  <1> QED BY <1>4, <1>5

\* An axis inside itself.
LEMMA WholeFits ==
    ASSUME NEW d \in Axis, d.lo <= d.hi, NEW least \in Nat
    PROVE  FitsAxis(d, d, least)
  BY DEF FitsAxis, Inside, Smaller, Axis, Width

-----------------------------------------------------------------------------
(* The data's axes *)

LEMMA LeastXPositive == LeastX \in Nat /\ Unit \in Nat
  BY PlotAssumption DEF LeastX

\* (n - 1) * Bin and (n - 1) * Unit are not negative.
LEMMA SpanNatural ==
    ASSUME NEW n \in Nat, n >= 1, NEW k \in Nat
    PROVE  (n - 1) * k \in Nat
  <1>1. n - 1 \in Nat
    OBVIOUS
  <1>2. \A i \in Nat : i * k \in Nat
    OBVIOUS
  <1> QED BY <1>1, <1>2

LEMMA DataXAxis ==
    ASSUME NEW d, Drawable(d)
    PROVE  DataX(d) \in Axis /\ DataX(d).lo <= DataX(d).hi
  <1>0. d.n \in Nat /\ d.n >= 1 /\ d.base \in Int
    BY DEF Drawable, Datum
  <1>1. (d.n - 1) * Bin \in Nat /\ (d.n - 1) * Unit \in Nat
    BY <1>0, SpanNatural, PlotAssumption
  <1>2. CASE plot = "spectrum"
    <2> DEFINE w == (d.n - 1) * Bin
    <2>1. DataX(d) = [lo |-> d.base, hi |-> d.base + w]
      BY <1>2 DEF DataX
    <2>2. w \in Nat
      BY <1>1
    <2> HIDE DEF w
    <2> QED BY <2>1, <2>2, <1>0 DEF Axis
  <1>3. CASE plot # "spectrum"
    <2> DEFINE w == IF d.n > 1 THEN (d.n - 1) * Unit ELSE Unit
    <2>1. DataX(d) = [lo |-> 0, hi |-> w]
      BY <1>3 DEF DataX
    <2>2. w \in Nat
      BY <1>1, PlotAssumption
    <2> HIDE DEF w
    <2> QED BY <2>1, <2>2 DEF Axis
  <1> QED BY <1>2, <1>3

LEMMA LimitsAxis ==
    ASSUME NEW d, Drawable(d)
    PROVE  Limits(d) \in Axis /\ Limits(d).lo <= Limits(d).hi
  <1>1. CASE plot = "phase"
    BY <1>1, PlotAssumption DEF Limits, Axis
  <1>2. CASE plot # "phase"
    BY <1>2 DEF Limits, Drawable, Datum
  <1> QED BY <1>1, <1>2

\* The spectrum's least width about the centre is a hundredth of the data.
LEMMA HundredthInt == \A w \in Int : w \div 100 \in Int
  OBVIOUS

\* clamp_x_view and clamp_x_view_range leave a view inside the data.
LEMMA ClampXFits ==
    ASSUME NEW a \in Axis, NEW d, Drawable(d)
    PROVE  FitsAxis(ClampX(a, d), DataX(d), LeastX)
  <1>1. DataX(d) \in Axis /\ DataX(d).lo <= DataX(d).hi
    BY DataXAxis
  <1>2. CASE plot = "spectrum"
    <2> DEFINE wide == Larger(Tiny, Width(DataX(d)) \div 100)
    <2>1. Width(DataX(d)) \div 100 \in Int
      BY <1>1, WidthInt, HundredthInt
    <2>2. wide \in Int /\ Tiny <= wide /\ Tiny \in Nat
      BY <2>1, PlotAssumption DEF Larger
    <2>3. ClampX(a, d) = Clamped(a, DataX(d), Tiny, wide) /\ LeastX = Tiny
      BY <1>2 DEF ClampX, LeastX
    <2> HIDE DEF wide
    <2> QED BY <2>2, <2>3, <1>1, ClampedFits
  <1>3. CASE plot # "spectrum" /\ d.n < 2
    <2>1. ClampX(a, d) = DataX(d)
      BY <1>3 DEF ClampX
    <2> QED BY <2>1, <1>1, WholeFits, LeastXPositive
  <1>4. CASE plot # "spectrum" /\ ~(d.n < 2)
    <2>1. ClampX(a, d) = Clamped(a, DataX(d), Unit, Unit) /\ LeastX = Unit
      BY <1>4 DEF ClampX, LeastX
    <2>2. Unit \in Nat /\ Unit \in Int /\ Unit <= Unit
      BY PlotAssumption
    <2> QED BY <2>1, <2>2, <1>1, ClampedFits
  <1> QED BY <1>2, <1>3, <1>4

\* clamp_y_view leaves a view inside its limits.
LEMMA ClampYFits ==
    ASSUME NEW a \in Axis, NEW d, Drawable(d)
    PROVE  FitsAxis(ClampY(a, d), Limits(d), Unit)
  <1>1. Limits(d) \in Axis /\ Limits(d).lo <= Limits(d).hi
    BY LimitsAxis
  <1>2. Unit \in Nat /\ Unit \in Int /\ Unit <= Unit
    BY PlotAssumption
  <1> QED BY <1>1, <1>2, ClampedFits DEF ClampY
-----------------------------------------------------------------------------
(* The view *)

\* A view whose axes fit d, made of data of d's shape, fits d.
LEMMA ViewFits ==
    ASSUME NEW v \in PlotViews, NEW d, ~Stale(v, d),
           NEW x, NEW y, NEW u, u = [v EXCEPT !.x = x, !.y = y],
           FitsAxis(x, DataX(d), LeastX), FitsAxis(y, Limits(d), Unit)
    PROVE  Fits(u, d)
  <1>1. x \in Axis /\ y \in Axis
    BY DEF FitsAxis
  <1>2. u \in PlotViews /\ u.of = v.of /\ u.x = x /\ u.y = y
    BY <1>1 DEF PlotViews
  <1>3. ~Stale(u, d)
    BY <1>2 DEF Stale
  <1> QED BY <1>2, <1>3 DEF Fits

LEMMA LimitedInt ==
    ASSUME NEW d, Drawable(d)
    PROVE  /\ Larger(d.y.lo, -Hard) \in Int
           /\ Smaller(d.y.hi, Hard) \in Int
  BY PlotAssumption DEF Drawable, Datum, Axis, Larger, Smaller

\* The margins of the phases are clamped like any other view.
LEMMA AutoYFits ==
    ASSUME NEW d, Drawable(d)
    PROVE  FitsAxis(AutoY(d), Limits(d), Unit)
  <1> DEFINE lo == Larger(d.y.lo, -Hard)
             hi == Smaller(d.y.hi, Hard)
             half == (Larger((hi - lo) \div 2, Unit) * 6) \div 5
             centre == (lo + hi) \div 2
             a == [lo |-> centre - half, hi |-> centre + half]
  <1>1. lo \in Int /\ hi \in Int
    BY LimitedInt
  <1>2. AutoY(d) = ClampY(a, d)
    BY DEF AutoY
  <1> HIDE DEF lo, hi
  <1>3. (hi - lo) \div 2 \in Int /\ centre \in Int
    BY <1>1
  <1>4. Larger((hi - lo) \div 2, Unit) \in Int
    BY <1>3, PlotAssumption DEF Larger
  <1>5. half \in Int
    BY <1>4
  <1> HIDE DEF half, centre
  <1>6. a \in Axis
    BY <1>3, <1>5 DEF Axis
  <1> HIDE DEF a
  <1> QED BY <1>2, <1>6, ClampYFits

\* A reset view fits its data.
LEMMA FreshFits ==
    ASSUME NEW d, Drawable(d)
    PROVE  Fits(Fresh(d), d)
  <1> DEFINE y == IF plot = "phase" THEN AutoY(d) ELSE d.y
  <1>1. FitsAxis(DataX(d), DataX(d), LeastX)
    BY DataXAxis, WholeFits, LeastXPositive
  <1>2. FitsAxis(y, Limits(d), Unit)
    <2>1. CASE plot = "phase"
      BY <2>1, AutoYFits
    <2>2. CASE plot # "phase"
      <3>1. FitsAxis(Limits(d), Limits(d), Unit)
        BY LimitsAxis, WholeFits, LeastXPositive
      <3> QED BY <3>1, <2>2 DEF Limits
    <2> QED BY <2>1, <2>2
  <1>3. Fresh(d) = [of |-> d, x |-> DataX(d), y |-> y]
    BY DEF Fresh
  <1> HIDE DEF y
  <1>4. y \in Axis /\ DataX(d) \in Axis /\ d \in Datum
    BY <1>1, <1>2 DEF FitsAxis, Drawable
  <1>5. Fresh(d) \in PlotViews /\ ~Stale(Fresh(d), d)
    BY <1>3, <1>4 DEF PlotViews, Stale
  <1> QED BY <1>1, <1>2, <1>3, <1>5 DEF Fits

\* A width, or what replaces it, is an integer.
LEMMA WidthOf ==
    ASSUME NEW a \in Axis, NEW least \in Nat
    PROVE  Larger(Width(a), least) \in Int
  BY WidthInt DEF Larger

LEMMA ZoomedAxis ==
    ASSUME NEW a \in Axis, NEW least \in Nat, NEW at \in Int,
           NEW percent \in Int
    PROVE  Zoomed(a, least, at, percent) \in Axis
  <1> DEFINE old == Larger(Width(a), least)
             new == Larger(least, (old * percent) \div 100)
             lo == a.lo + (at * old) \div 2 - (at * new) \div 2
  <1>1. old \in Int
    BY WidthOf
  <1>2. Zoomed(a, least, at, percent) = [lo |-> lo, hi |-> lo + new]
    BY DEF Zoomed
  <1> HIDE DEF old
  <1>3. old * percent \in Int
    BY <1>1
  <1>4. (old * percent) \div 100 \in Int
    BY <1>3, HundredthInt
  <1>5. new \in Int
    BY <1>4 DEF Larger
  <1> HIDE DEF new
  <1>6. at * old \in Int /\ at * new \in Int
    BY <1>1, <1>5
  <1>7. lo \in Int
    <2>1. (at * old) \div 2 \in Int /\ (at * new) \div 2 \in Int
      <3>1. \A i \in Int : i \div 2 \in Int
        OBVIOUS
      <3> QED BY <3>1, <1>6
    <2>2. a.lo \in Int
      BY DEF Axis
    <2> QED BY <2>1, <2>2
  <1> HIDE DEF lo
  <1> QED BY <1>2, <1>5, <1>7 DEF Axis

LEMMA DraggedAxis ==
    ASSUME NEW a \in Axis, NEW least \in Nat, NEW by \in Int
    PROVE  /\ Shifted(a, (by * Larger(Width(a), least)) \div 2) \in Axis
           /\ Shifted(a, (-by * Larger(Width(a), least)) \div 2) \in Axis
  <1> DEFINE w == Larger(Width(a), least)
  <1>1. w \in Int
    BY WidthOf
  <1> HIDE DEF w
  <1>2. by * w \in Int /\ -by * w \in Int
    BY <1>1
  <1>3. (by * w) \div 2 \in Int /\ (-by * w) \div 2 \in Int
    <2>1. \A i \in Int : i \div 2 \in Int
      OBVIOUS
    <2> QED BY <2>1, <1>2
  <1>4. /\ Shifted(a, (by * w) \div 2) \in Axis
        /\ Shifted(a, (-by * w) \div 2) \in Axis
    BY <1>3, ShiftedAxis
  <1> QED BY <1>4 DEF w

\* The wheel leaves a view that fits.
LEMMA WheeledFits ==
    ASSUME NEW v, NEW d, Drawable(d), Fits(v, d), NEW spot \in Spots,
           NEW percent \in {82, 122}
    PROVE  Fits(Wheeled(v, d, spot, percent), d)
  <1> DEFINE x == ClampX(Zoomed(v.x, LeastX, spot.x, percent), d)
             y == ClampY(Zoomed(v.y, Unit, spot.y, percent), d)
  <1>1. /\ v \in PlotViews /\ ~Stale(v, d)
        /\ v.x \in Axis /\ v.y \in Axis
    BY DEF Fits, FitsAxis
  <1>2. spot.x \in Int /\ spot.y \in Int
    BY PlotAssumption
  <1>3. percent \in Int
    OBVIOUS
  <1>4. /\ Zoomed(v.x, LeastX, spot.x, percent) \in Axis
        /\ Zoomed(v.y, Unit, spot.y, percent) \in Axis
    BY <1>1, <1>2, <1>3, ZoomedAxis, LeastXPositive
  <1>5. FitsAxis(x, DataX(d), LeastX) /\ FitsAxis(y, Limits(d), Unit)
    BY <1>4, ClampXFits, ClampYFits
  <1>6. Wheeled(v, d, spot, percent) = [v EXCEPT !.x = x, !.y = y]
    BY <1>1 DEF Wheeled, PlotViews
  <1> HIDE DEF x, y
  <1> QED BY <1>1, <1>5, <1>6, ViewFits

\* A drag leaves a view that fits.
LEMMA DraggedFits ==
    ASSUME NEW v, NEW d, Drawable(d), Fits(v, d), NEW by \in Drags
    PROVE  Fits(Dragged(v, d, by), d)
  <1> DEFINE sx == Shifted(v.x, (-by.x * Larger(Width(v.x), LeastX)) \div 2)
             sy == Shifted(v.y, (by.y * Larger(Width(v.y), Unit)) \div 2)
             x == ClampX(sx, d)
             y == ClampY(sy, d)
  <1>1. /\ v \in PlotViews /\ ~Stale(v, d)
        /\ v.x \in Axis /\ v.y \in Axis
    BY DEF Fits, FitsAxis
  <1>2. by.x \in Int /\ by.y \in Int
    BY PlotAssumption
  <1>3. sx \in Axis /\ sy \in Axis
    BY <1>1, <1>2, DraggedAxis, LeastXPositive
  <1>4. Dragged(v, d, by) = [v EXCEPT !.x = x, !.y = y]
    BY <1>1 DEF Dragged, PlotViews
  <1> HIDE DEF sx, sy
  <1>5. FitsAxis(x, DataX(d), LeastX) /\ FitsAxis(y, Limits(d), Unit)
    BY <1>3, ClampXFits, ClampYFits
  <1> HIDE DEF x, y
  <1> QED BY <1>1, <1>4, <1>5, ViewFits

-----------------------------------------------------------------------------
(* The frames *)

\* What fits d is of data whose axes are those of d.
LEMMA FittedShape ==
    ASSUME NEW v, NEW d, Fits(v, d)
    PROVE  DataX(v.of) = DataX(d) /\ Limits(v.of) = Limits(d) /\ v.of.n = d.n
  BY DEF Fits, Stale, DataX, Limits

LEMMA DrawableData ==
    ASSUME NEW d \in Data, Enough(d)
    PROVE  Drawable(d)
  <1>1. d \in Datum /\ d.y.lo <= d.y.hi
    BY PlotAssumption DEF Datum
  <1>2. d.n \in Nat
    BY <1>1 DEF Datum
  <1> QED BY <1>1, <1>2 DEF Drawable, Enough

LEMMA InitInv == PlotInit => PlotInv
  <1> SUFFICES ASSUME PlotInit PROVE PlotInv
    OBVIOUS
  <1>1. Unit \in Int /\ -Unit \in Int
    BY PlotAssumption
  <1>2. NoData \in Datum /\ NoData.n = 0
    BY DEF NoData, Datum, Axis
  <1>3. /\ [lo |-> 0, hi |-> Unit] \in Axis
        /\ [lo |-> -Unit, hi |-> Unit] \in Axis
    BY <1>1 DEF Axis
  <1>4. view \in PlotViews /\ view.of = NoData
    BY <1>2, <1>3 DEF PlotInit, PlotViews
  <1> QED BY <1>2, <1>4 DEF PlotInit, PlotInv

\* A frame that draws keeps the inductive invariant.
LEMMA DrawFrameInv ==
    ASSUME PlotInv, NEW d \in Data, DrawFrame(d)
    PROVE  PlotInv'
  <1> DEFINE made == IF Stale(view, d) THEN Fresh(d) ELSE view
  <1>1. Drawable(d)
    BY DrawableData DEF DrawFrame
  <1>2. Fits(made, d)
    <2>1. CASE Stale(view, d)
      BY <2>1, <1>1, FreshFits
    <2>2. CASE ~Stale(view, d)
      <3>1. view.of.n = d.n /\ d.n \in Nat /\ d.n >= 1
        BY <2>2, <1>1 DEF Stale, Drawable, Datum
      <3>2. DataX(view.of) = DataX(d) /\ Limits(view.of) = Limits(d)
        BY <2>2 DEF Stale, DataX, Limits
      <3>3. view.of.n # 0
        BY <3>1
      <3>4. Fits(view, d)
        BY <2>2, <3>2, <3>3 DEF PlotInv, Fits
      <3> QED BY <2>2, <3>4
    <2> QED BY <2>1, <2>2
  <1>3. PICK r \in Resets(made, d) :
            \E w \in Wheels(r, d) : view' \in Draggings(w, d)
    BY DEF DrawFrame
  <1> HIDE DEF made
  <1>4. PICK w \in Wheels(r, d) : view' \in Draggings(w, d)
    BY <1>3
  <1>5. Fits(r, d)
    BY <1>1, <1>2, FreshFits DEF Resets
  <1>6. Fits(w, d)
    BY <1>1, <1>5, WheeledFits DEF Wheels
  <1>7. Fits(view', d)
    BY <1>1, <1>4, <1>6, DraggedFits DEF Draggings
  <1>8. /\ DataX(view'.of) = DataX(d) /\ Limits(view'.of) = Limits(d)
        /\ view'.of.n = d.n
    BY <1>7, FittedShape
  <1>9. plot' = plot /\ frame' = d
    BY DEF DrawFrame
  <1>10. /\ DataX(view.of)' = DataX(view'.of)
         /\ Limits(view.of)' = Limits(view'.of)
         /\ Stale(view, frame)' <=> Stale(view', d)
         /\ LeastX' = LeastX
    BY <1>9 DEF DataX, Limits, Stale, LeastX
  <1>11. d \in Datum /\ d.n # 0
    BY <1>1 DEF Drawable, Datum
  <1>12. /\ view' \in PlotViews /\ ~Stale(view', d)
         /\ FitsAxis(view'.x, DataX(d), LeastX)
         /\ FitsAxis(view'.y, Limits(d), Unit)
    BY <1>7 DEF Fits
  <1>13. /\ FitsAxis(view.x, DataX(view.of), LeastX)'
         /\ FitsAxis(view.y, Limits(view.of), Unit)'
    BY <1>8, <1>10, <1>12 DEF FitsAxis, Inside, Width, Smaller
  <1> QED BY <1>8, <1>9, <1>10, <1>11, <1>12, <1>13 DEF PlotInv

\* A step that changes no view and draws nothing new keeps it too.
LEMMA KeptInv ==
    ASSUME PlotInv, UNCHANGED <<plot, view, frame>>,
           drawn' = {} \/ drawn' = drawn
    PROVE  PlotInv'
  BY DEF PlotInv, Stale, DataX, Limits, LeastX, FitsAxis, Inside, Width

LEMMA StepInv == PlotInv /\ [PlotNext]_plotVars => PlotInv'
  <1> SUFFICES ASSUME PlotInv, [PlotNext]_plotVars PROVE PlotInv'
    OBVIOUS
  <1>1. ASSUME NEW d \in Data, DrawFrame(d) PROVE PlotInv'
    BY <1>1, DrawFrameInv
  <1>2. ASSUME NEW d \in Data, DrawText(d) PROVE PlotInv'
    BY <1>2, KeptInv DEF DrawText
  <1>3. CASE UNCHANGED plotVars
    BY <1>3, KeptInv DEF plotVars
  <1> QED BY <1>1, <1>2, <1>3 DEF PlotNext

LEMMA InvInside == PlotInv => ViewInside
  <1> SUFFICES ASSUME PlotInv, drawn # {} PROVE ViewInside
    BY DEF ViewInside
  <1>1. view.of.n = frame.n /\ view.of.y = frame.y
    BY DEF PlotInv, Stale
  <1>2. DataX(view.of) = DataX(frame) /\ Limits(view.of) = Limits(frame)
    BY DEF PlotInv, Stale, DataX, Limits
  <1>3. /\ FitsAxis(view.x, DataX(view.of), LeastX)
        /\ FitsAxis(view.y, Limits(view.of), Unit)
    BY DEF PlotInv
  <1> QED BY <1>1, <1>2, <1>3 DEF ViewInside, FitsAxis

\* However a plot is zoomed and dragged, for any data, any positions of the
\* mouse and any drags, what it draws is a part of the data of that frame, not
\* turned over and not narrower than it may be (draw_multichannel_plot,
\* draw_phase_plot, draw_spectrum_plot).
THEOREM ViewsStayInside == PlotSpec => []ViewInside
  <1>1. PlotInv /\ [PlotNext]_plotVars => PlotInv'
    BY StepInv
  <1> QED BY <1>1, InitInv, InvInside, PTL DEF PlotSpec

-----------------------------------------------------------------------------
(* The points *)

\* What \div and % are.
LEMMA Divided ==
    ASSUME NEW a \in Int, NEW u \in Nat \ {0}
    PROVE  /\ a \div u \in Int
           /\ (a \div u) * u <= a
           /\ a < (a \div u) * u + u
           /\ a % u \in Int
           /\ a = (a \div u) * u + (a % u)
  OBVIOUS

LEMMA FactorsOrdered ==
    ASSUME NEW a \in Int, NEW b \in Int, NEW u \in Nat \ {0}
    PROVE  /\ a <= b => a * u <= b * u
           /\ a * u < b * u => a < b
           /\ a * u <= b * u => a <= b
  OBVIOUS

\* Strides of at least the length divided by MaxLines: fewer than twice as
\* many fit.
LEMMA FewStrides ==
    ASSUME NEW len \in Nat, len >= 1,
           NEW stride \in Nat \ {0},
           stride = Larger(1, len \div MaxLines),
           NEW k \in Int, k * stride < len
    PROVE  k < 2 * MaxLines
  <1>0. MaxLines \in Nat \ {0}
    BY PlotAssumption
  <1> DEFINE most == len \div MaxLines
  <1>1. most \in Int /\ len < most * MaxLines + MaxLines
    BY <1>0, Divided
  <1>2. most <= stride /\ 1 <= stride
    BY <1>1 DEF Larger
  <1> HIDE DEF most
  <1>3. /\ most * MaxLines <= stride * MaxLines
        /\ 1 * MaxLines <= stride * MaxLines
    BY <1>0, <1>1, <1>2, FactorsOrdered
  <1>4. k * stride < (2 * MaxLines) * stride
    BY <1>0, <1>1, <1>3
  <1> QED BY <1>0, <1>4, FactorsOrdered

\* No more points than two for each line.
LEMMA PointsBounded ==
    ASSUME NEW first \in Nat, NEW last \in Nat, first < last
    PROVE  Cardinality(Points(first, last)) <= 2 * MaxLines + 1
  <1> DEFINE len == last - first + 1
             stride == Larger(1, len \div MaxLines)
             line == [i \in Points(first, last) |->
                        IF i = last THEN 2 * MaxLines
                        ELSE (i - first) \div stride]
  <1>0. MaxLines \in Nat \ {0} /\ len \in Nat /\ len >= 1
    BY PlotAssumption
  <1>1. len \div MaxLines \in Int
    BY <1>0, Divided
  <1>2. stride \in Nat \ {0}
    BY <1>1 DEF Larger
  <1>3. Points(first, last) =
            {i \in first..last : (i - first) % stride = 0} \cup {last}
    BY DEF Points
  <1>4. stride = Larger(1, len \div MaxLines)
    OBVIOUS
  <1> HIDE DEF stride
  <1>5. ASSUME NEW i \in Points(first, last), i # last
        PROVE  /\ i \in Int
               /\ line[i] \in 0..(2 * MaxLines - 1)
               /\ i = first + line[i] * stride
    <2> DEFINE k == (i - first) \div stride
    <2>1. i \in first..last /\ (i - first) % stride = 0
      BY <1>3, <1>5
    <2>2. line[i] = k /\ i - first \in Int
      BY <1>5, <2>1
    <2>3. /\ k \in Int /\ i - first = k * stride + ((i - first) % stride)
          /\ i - first < k * stride + stride
      BY <2>2, <1>2, Divided
    <2> HIDE DEF k
    <2>4. i - first = k * stride
      BY <2>1, <2>3, <1>2
    <2>5. k * stride < len
      BY <2>1, <2>4
    <2>6. k < 2 * MaxLines
      BY <2>3, <2>5, <1>0, <1>2, <1>4, FewStrides
    <2>7. (-1) * stride < k * stride
      BY <2>1, <2>3, <2>4, <1>2
    <2>8. -1 < k
      BY <2>3, <2>7, <1>2, FactorsOrdered
    <2> QED BY <2>1, <2>2, <2>3, <2>4, <2>6, <2>8, <1>0
  <1>6. last \in Points(first, last) /\ line[last] = 2 * MaxLines
    BY <1>3
  <1>7. line \in [Points(first, last) -> 0..(2 * MaxLines)]
    <2>1. ASSUME NEW i \in Points(first, last)
          PROVE  line[i] \in 0..(2 * MaxLines)
      <3>1. CASE i = last
        BY <3>1, <1>0, <1>6
      <3>2. CASE i # last
        BY <3>2, <1>0, <1>5
      <3> QED BY <3>1, <3>2
    <2> QED BY <2>1
  <1>8. ASSUME NEW i \in Points(first, last), NEW j \in Points(first, last),
               line[i] = line[j]
        PROVE  i = j
    <2>1. CASE i = last /\ j # last
      BY <2>1, <1>0, <1>5, <1>6, <1>8
    <2>2. CASE i # last /\ j = last
      BY <2>2, <1>0, <1>5, <1>6, <1>8
    <2>3. CASE i # last /\ j # last
      <3>1. i = first + line[i] * stride /\ j = first + line[j] * stride
        BY <2>3, <1>5
      <3> QED BY <3>1, <1>8
    <2> QED BY <2>1, <2>2, <2>3
  <1> HIDE DEF line
  <1>9. line \in Injection(Points(first, last), 0..(2 * MaxLines))
    BY <1>7, <1>8 DEF Injection, IsInjective
  <1>10. /\ IsFiniteSet(0..(2 * MaxLines))
         /\ Cardinality(0..(2 * MaxLines)) = 2 * MaxLines + 1
    <2>1. 2 * MaxLines \in Nat
      BY <1>0
    <2> QED BY <2>1, FS_Interval
  <1> QED BY <1>9, <1>10, FS_Injection

LEMMA OnePoint == Cardinality({0}) = 1
  BY FS_Singleton

\* The least and the greatest element of a set of indices, searched from
\* either end: its neighbour is not in the set.
LEMMA LeastFound ==
    ASSUME NEW m \in Nat, NEW S \in SUBSET (0..m), m \in S,
           NEW least, least = CHOOSE i \in S : \A j \in S : i <= j
    PROVE  /\ least \in 0..m
           /\ least # 0 => least - 1 \in 0..m /\ least - 1 \notin S
  <1>1. S \subseteq Nat /\ S # {} /\ S \subseteq 0..m
    OBVIOUS
  <1>2. \E i \in S : \A j \in S : i <= j
    BY <1>1, LeastExists
  <1>3. least \in S /\ \A j \in S : least <= j
    BY <1>2
  <1>4. least \in 0..m
    BY <1>1, <1>3
  <1>5. ASSUME least - 1 \in S PROVE FALSE
    <2>1. least <= least - 1
      BY <1>3, <1>5
    <2>2. least \in Int
      BY <1>4
    <2> QED BY <2>1, <2>2
  <1> QED BY <1>4, <1>5

LEMMA GreatestFound ==
    ASSUME NEW m \in Nat, NEW S \in SUBSET (0..m), 0 \in S,
           NEW top, top = CHOOSE i \in S : \A j \in S : i >= j
    PROVE  /\ top \in 0..m
           /\ top # m => top + 1 \in 0..m /\ top + 1 \notin S
  <1> DEFINE T == {t \in 0..m : m - t \in S}
  <1>1. T \subseteq Nat /\ m \in T /\ S \subseteq 0..m
    OBVIOUS
  <1>2. PICK t \in T : \A u \in T : t <= u
    <2>1. T # {}
      BY <1>1
    <2> QED BY <1>1, <2>1, LeastExists
  <1>3. m - t \in S /\ \A j \in S : m - t >= j
    <2>1. ASSUME NEW j \in S PROVE m - t >= j
      <3>1. j \in 0..m /\ m - (m - j) = j
        BY <1>1
      <3>2. m - j \in T
        BY <3>1
      <3>3. t <= m - j
        BY <3>2, <1>2
      <3> QED BY <3>1, <3>3, <1>1
    <2> QED BY <2>1
  <1>4. top \in S /\ \A j \in S : top >= j
    BY <1>3
  <1>5. top \in 0..m
    BY <1>1, <1>4
  <1>6. ASSUME top + 1 \in S PROVE FALSE
    BY <1>4, <1>5, <1>6
  <1> QED BY <1>5, <1>6

\* The first and the last points of a view that fits reach its ends.
LEMMA EndsReached ==
    ASSUME NEW v, NEW d, Drawable(d), Fits(v, d), d.n >= 2
    PROVE  /\ /\ FirstIndex(v, d) \in 0..(d.n - 1)
           /\ LastIndex(v, d) \in 0..(d.n - 1)
           /\ Position(d, FirstIndex(v, d)) <= v.x.lo
           /\ Position(d, LastIndex(v, d)) >= v.x.hi
  <1>0. /\ d.n \in Nat /\ d.base \in Int
        /\ v.x \in Axis /\ v.x.lo \in Int /\ v.x.hi \in Int
        /\ Inside(v.x, DataX(d))
    BY DEF Drawable, Datum, Fits, FitsAxis, Axis
  <1>1. CASE plot = "spectrum"
    <2>1. /\ d.base <= v.x.lo /\ v.x.lo <= v.x.hi
          /\ v.x.hi <= d.base + (d.n - 1) * Bin
      BY <1>0, <1>1 DEF Inside, DataX
    <2>2. Bin \in Nat \ {0}
      BY PlotAssumption
    <2>3. \A i \in Int : Position(d, i) \in Int
      BY <1>0, <1>1, <2>2 DEF Position
    <2>4. /\ FirstIndex(v, d) \in 0..(d.n - 1)
          /\ Position(d, FirstIndex(v, d)) <= v.x.lo
      <3> DEFINE inner == {i \in 0..(d.n - 1) :
                              i = d.n - 1 \/ Position(d, i) >= v.x.lo}
                 least == CHOOSE i \in inner : \A j \in inner : i <= j
      <3>1. FirstIndex(v, d) = Larger(0, least - 1)
        BY <1>1 DEF FirstIndex
      <3>2. inner \in SUBSET (0..(d.n - 1)) /\ d.n - 1 \in inner
        BY <1>0
      <3>3. \A i \in 0..(d.n - 1) : i \notin inner =>
                ~(Position(d, i) >= v.x.lo)
        OBVIOUS
      <3> HIDE DEF inner
      <3>4. /\ d.n - 1 \in Nat
            /\ least = CHOOSE i \in inner : \A j \in inner : i <= j
        BY <1>0
      <3> HIDE DEF least
      <3>5. /\ least \in 0..(d.n - 1)
            /\ least # 0 =>
                 least - 1 \in 0..(d.n - 1) /\ least - 1 \notin inner
        BY <3>2, <3>4, LeastFound
      <3>6. CASE least = 0
        <4>1. FirstIndex(v, d) = 0
          BY <3>1, <3>6 DEF Larger
        <4>2. Position(d, 0) = d.base
          BY <1>0, <1>1, <2>2 DEF Position
        <4> QED BY <4>1, <4>2, <2>1, <1>0
      <3>7. CASE least # 0
        <4>1. FirstIndex(v, d) = least - 1
          BY <3>1, <3>5, <3>7, <1>0 DEF Larger
        <4>2. ~(Position(d, least - 1) >= v.x.lo)
          BY <3>3, <3>5, <3>7
        <4>3. Position(d, least - 1) \in Int
          BY <3>5, <3>7, <2>3
        <4> QED BY <4>1, <4>2, <4>3, <3>5, <3>7, <1>0
      <3> QED BY <3>6, <3>7
    <2>5. /\ LastIndex(v, d) \in 0..(d.n - 1)
          /\ Position(d, LastIndex(v, d)) >= v.x.hi
      <3> DEFINE inner == {i \in 0..(d.n - 1) :
                              i = 0 \/ Position(d, i) <= v.x.hi}
                 top == CHOOSE i \in inner : \A j \in inner : i >= j
      <3>1. LastIndex(v, d) = Smaller(d.n - 1, top + 1)
        BY <1>1 DEF LastIndex
      <3>2. inner \in SUBSET (0..(d.n - 1)) /\ 0 \in inner
        BY <1>0
      <3>3. \A i \in 0..(d.n - 1) : i \notin inner =>
                ~(Position(d, i) <= v.x.hi)
        OBVIOUS
      <3> HIDE DEF inner
      <3>4. /\ d.n - 1 \in Nat
            /\ top = CHOOSE i \in inner : \A j \in inner : i >= j
        BY <1>0
      <3> HIDE DEF top
      <3>5. /\ top \in 0..(d.n - 1)
            /\ top # d.n - 1 =>
                 top + 1 \in 0..(d.n - 1) /\ top + 1 \notin inner
        BY <3>2, <3>4, GreatestFound
      <3>6. CASE top = d.n - 1
        <4>1. LastIndex(v, d) = d.n - 1
          BY <3>1, <3>6, <1>0 DEF Smaller
        <4>2. Position(d, d.n - 1) = d.base + (d.n - 1) * Bin
          BY <1>0, <1>1, <2>2 DEF Position
        <4> QED BY <4>1, <4>2, <2>1, <1>0, <3>4
      <3>7. CASE top # d.n - 1
        <4>1. LastIndex(v, d) = top + 1
          BY <3>1, <3>5, <3>7, <1>0 DEF Smaller
        <4>2. ~(Position(d, top + 1) <= v.x.hi)
          BY <3>3, <3>5, <3>7
        <4>3. Position(d, top + 1) \in Int
          BY <3>5, <3>7, <2>3
        <4> QED BY <4>1, <4>2, <4>3, <3>5, <3>7, <1>0
      <3> QED BY <3>6, <3>7
    <2> QED BY <2>4, <2>5
  <1>2. CASE plot # "spectrum"
    <2>1. /\ 0 <= v.x.lo /\ v.x.lo <= v.x.hi
          /\ v.x.hi <= (d.n - 1) * Unit
      BY <1>0, <1>2 DEF Inside, DataX
    <2>2. Unit \in Nat \ {0}
      BY PlotAssumption
    <2>3. \A i \in Int : Position(d, i) = i * Unit
      BY <1>2 DEF Position
    <2>4. /\ FirstIndex(v, d) \in 0..(d.n - 1)
          /\ Position(d, FirstIndex(v, d)) <= v.x.lo
      <3> DEFINE q == v.x.lo \div Unit
      <3>1. FirstIndex(v, d) = Larger(0, q)
        BY <1>2 DEF FirstIndex
      <3>2. q \in Int /\ q * Unit <= v.x.lo /\ v.x.lo < q * Unit + Unit
        BY <1>0, <2>2, Divided
      <3> HIDE DEF q
      <3>3. (-1) * Unit < q * Unit
        BY <2>1, <2>2, <3>2, <1>0
      <3>4. q * Unit <= (d.n - 1) * Unit
        BY <2>1, <2>2, <3>2, <1>0
      <3>5. -1 < q /\ q <= d.n - 1
        BY <3>2, <3>3, <3>4, <2>2, <1>0, FactorsOrdered
      <3>6. FirstIndex(v, d) = q /\ q \in 0..(d.n - 1)
        BY <3>1, <3>2, <3>5, <1>0 DEF Larger
      <3> QED BY <3>2, <3>6, <2>3
    <2>5. /\ LastIndex(v, d) \in 0..(d.n - 1)
          /\ Position(d, LastIndex(v, d)) >= v.x.hi
      <3> DEFINE q == (v.x.hi + Unit - 1) \div Unit
      <3>1. LastIndex(v, d) = Smaller(d.n - 1, q)
        BY <1>2 DEF LastIndex
      <3>2. v.x.hi + Unit - 1 \in Int
        BY <1>0, <2>2
      <3>3. q \in Int /\ v.x.hi + Unit - 1 < q * Unit + Unit
        BY <3>2, <2>2, Divided
      <3> HIDE DEF q
      <3>4. v.x.hi <= q * Unit
        BY <3>3, <2>2, <1>0
      <3>5. (-1) * Unit < q * Unit
        BY <3>3, <3>4, <2>1, <2>2, <1>0
      <3>6. -1 < q
        BY <3>3, <3>5, <2>2, FactorsOrdered
      <3>7. CASE q <= d.n - 1
        BY <3>1, <3>3, <3>4, <3>6, <3>7, <2>3, <1>0 DEF Smaller
      <3>8. CASE ~(q <= d.n - 1)
        BY <3>1, <3>3, <3>8, <2>1, <2>3, <1>0 DEF Smaller
      <3> QED BY <3>7, <3>8
    <2> QED BY <2>4, <2>5
  <1> QED BY <1>1, <1>2

-----------------------------------------------------------------------------
(* What is drawn *)

\* The points drawn are those of the view for the data of the frame.
DrawnInv ==
    /\ PlotInv
    /\ drawn # {} => Drawable(frame) /\ drawn = PointsOf(view, frame)

LEMMA DrawnStep == DrawnInv /\ [PlotNext]_plotVars => DrawnInv'
  <1> SUFFICES ASSUME DrawnInv, [PlotNext]_plotVars
               PROVE  drawn' # {} =>
                          /\ Drawable(frame)'
                          /\ drawn' = PointsOf(view, frame)'
    BY StepInv DEF DrawnInv
  <1>1. ASSUME NEW d \in Data, DrawFrame(d)
        PROVE  Drawable(frame)' /\ drawn' = PointsOf(view, frame)'
    <2>1. frame' = d /\ Drawable(d)
      BY <1>1, DrawableData DEF DrawFrame
    <2>2. plot' = plot /\ drawn' = PointsOf(view', d)
      BY <1>1 DEF DrawFrame
    <2>3. Drawable(frame)'
      BY <2>1 DEF Drawable
    <2>4. drawn' = PointsOf(view, frame)'
      BY <2>1, <2>2 DEF PointsOf, Points, FirstIndex, LastIndex, Position
    <2> QED BY <2>3, <2>4
  <1>2. ASSUME NEW d \in Data, DrawText(d) PROVE drawn' = {}
    BY <1>2 DEF DrawText
  <1>3. ASSUME UNCHANGED plotVars, drawn' # {}
        PROVE  Drawable(frame)' /\ drawn' = PointsOf(view, frame)'
    <2>1. /\ plot' = plot /\ view' = view /\ frame' = frame /\ drawn' = drawn
      BY <1>3 DEF plotVars
    <2>2. Drawable(frame) /\ drawn = PointsOf(view, frame)
      BY <1>3, <2>1 DEF DrawnInv
    <2>3. Drawable(frame)'
      BY <2>1, <2>2 DEF Drawable
    <2>4. drawn' = PointsOf(view, frame)'
      BY <2>1, <2>2 DEF PointsOf, Points, FirstIndex, LastIndex, Position
    <2> QED BY <2>3, <2>4
  <1> QED BY <1>1, <1>2, <1>3 DEF PlotNext

LEMMA InvFills == DrawnInv => PointsFillView
  <1> SUFFICES ASSUME DrawnInv, drawn # {} PROVE PointsFillView
    BY DEF PointsFillView
  <1>0. /\ PlotInv /\ Drawable(frame) /\ drawn = PointsOf(view, frame)
        /\ MaxLines \in Nat \ {0}
    BY PlotAssumption DEF DrawnInv
  <1>1. /\ frame \in Datum /\ view.of.n = frame.n /\ view.of.y = frame.y
        /\ view \in PlotViews /\ view.of.n # 0
        /\ FitsAxis(view.x, DataX(view.of), LeastX)
        /\ FitsAxis(view.y, Limits(view.of), Unit)
    BY <1>0 DEF PlotInv, Stale
  <1>2. ~Stale(view, frame)
    BY <1>0 DEF PlotInv
  <1>3. CASE frame.n < 2
    <2>1. drawn = {0} /\ frame.n \in Nat /\ frame.n # 0
      BY <1>0, <1>1, <1>3 DEF PointsOf, Datum
    <2>2. Cardinality(drawn) = 1
      BY <2>1, OnePoint
    <2>3. frame.n - 1 \in Nat
      BY <2>1
    <2> QED BY <1>0, <1>3, <2>1, <2>2, <2>3 DEF PointsFillView
  <1>4. CASE ~(frame.n < 2)
    <2> DEFINE first == FirstIndex(view, frame)
               last == LastIndex(view, frame)
    <2>1. frame.n \in Nat /\ frame.n >= 2
      BY <1>1, <1>4 DEF Datum
    <2>2. DataX(view.of) = DataX(frame) /\ Limits(view.of) = Limits(frame)
      BY <1>2 DEF Stale, DataX, Limits
    <2>4. Drawable(frame) /\ Fits(view, frame)
      BY <1>0, <1>1, <1>2, <2>1, <2>2 DEF Fits
    <2>5. /\ first \in 0..(frame.n - 1) /\ last \in 0..(frame.n - 1)
          /\ Position(frame, first) <= view.x.lo
          /\ Position(frame, last) >= view.x.hi
      BY <2>1, <2>4, EndsReached
    <2>6. drawn = Points(first, last)
      BY <1>0, <1>4 DEF PointsOf
    <2>7. view.x.lo \in Int /\ view.x.hi \in Int
      BY <1>1 DEF FitsAxis, Axis
    <2> HIDE DEF first, last
    <2>8. first < last
      BY <2>5, <2>6, <2>1 DEF Points
    <2>9. Cardinality(drawn) <= 2 * MaxLines + 1
      BY <2>5, <2>6, <2>8, <2>1, PointsBounded
    <2>10. /\ last \in drawn
           /\ first \in drawn
           /\ drawn \subseteq 0..(frame.n - 1)
      <3> DEFINE stride == Larger(1, (last - first + 1) \div MaxLines)
      <3>1. last - first + 1 \in Int
        BY <2>5, <2>1
      <3>2. (last - first + 1) \div MaxLines \in Int
        BY <3>1, <1>0, Divided
      <3>3. stride \in Nat \ {0}
        BY <3>2 DEF Larger
      <3>4. Points(first, last) =
                {i \in first..last : (i - first) % stride = 0} \cup {last}
        BY <2>5, <2>8, <2>1 DEF Points
      <3> HIDE DEF stride
      <3>5. (first - first) % stride = 0
        BY <3>3, <2>5, <2>1
      <3> QED BY <3>4, <3>5, <2>1, <2>5, <2>6, <2>8
    <2>11. \/ Position(frame, last) >= view.x.lo + Across(view.x)
           \/ plot = "spectrum" /\ Width(view.x) < Unit
      <3>1. Position(frame, last) \in Int
        BY <2>5, <2>4, <2>1, PlotAssumption DEF Position, Drawable, Datum
      <3>2. CASE Width(view.x) < Unit
        <4>1. ASSUME plot # "spectrum" PROVE FALSE
          <5>1. DataX(frame) = [lo |-> 0, hi |-> (frame.n - 1) * Unit]
            BY <4>1, <2>1 DEF DataX
          <5>2. Unit \in Nat \ {0} /\ LeastX = Unit
            BY <4>1, PlotAssumption DEF LeastX
          <5>3. 1 * Unit <= (frame.n - 1) * Unit
            BY <5>2, <2>1, FactorsOrdered
          <5>4. Width(DataX(frame)) >= Unit
            BY <5>1, <5>2, <5>3, <2>1 DEF Width
          <5>5. Width(DataX(frame)) \in Int
            BY <5>1, <5>2, <2>1 DEF Width
          <5>6. Width(view.x) >= Unit
            <6>1. Width(view.x) >= Smaller(LeastX, Width(DataX(frame)))
              BY <1>1, <2>2 DEF FitsAxis
            <6>2. Smaller(LeastX, Width(DataX(frame))) \in Int
              BY <5>2, <5>5 DEF Smaller
            <6>3. Smaller(LeastX, Width(DataX(frame))) >= Unit
              BY <5>2, <5>4, <5>5 DEF Smaller
            <6> QED BY <5>2, <6>1, <6>2, <6>3, <2>7 DEF Width
          <5> QED BY <5>2, <5>6, <3>2, <2>7 DEF Width
        <4> QED BY <3>2, <4>1
      <3>3. CASE ~(Width(view.x) < Unit)
        <4>1. Across(view.x) = view.x.hi - view.x.lo
          BY <3>3, <2>7, PlotAssumption DEF Across, Larger, Width
        <4> QED BY <4>1, <3>1, <2>5, <2>7
      <3> QED BY <3>2, <3>3
    <2> QED BY <2>5, <2>9, <2>10, <2>11 DEF PointsFillView
  <1> QED BY <1>3, <1>4

\* What a plot draws is its data, all of what its view shows: the lines reach
\* from one end of the view to the other, however it was zoomed and dragged and
\* whatever the data, with no more points than two for each line (the plots'
\* search for the first and last index, and their stride).
THEOREM ViewsShowTheirData == PlotSpec => []ViewShowsData
  <1>1. DrawnInv /\ [PlotNext]_plotVars => DrawnInv'
    BY DrawnStep
  <1>2. PlotInit => DrawnInv
    BY InitInv DEF PlotInit, DrawnInv
  <1>3. DrawnInv => ViewShowsData
    BY InvInside, InvFills DEF ViewShowsData, DrawnInv
  <1> QED BY <1>1, <1>2, <1>3, PTL DEF PlotSpec
=============================================================================
