---------------------------- MODULE DoaEstimate ----------------------------
(***************************************************************************)
(* One estimate of a direction by the GUI after another                    *)
(* (capture_and_estimate_doa): a capture, the search for a ZC1 symbol in   *)
(* it when the gate is on, the slice that begins there, the samples the    *)
(* estimator takes of the slice (prepare_doa_input), the peaks of the      *)
(* power it finds over the angles (find_peaks), and what of this is stored *)
(* for the panel. The correlation and the power are the environment's:     *)
(* they are numbers of the signal. Sample positions are counted in frames  *)
(* of the capture. The panel offers three methods: conventional beams, the *)
(* signal's subspace (MUSIC) and Capon's.                                  *)
(***************************************************************************)
EXTENDS Integers, Sequences, FiniteSetsExt, SequencesExt

CONSTANTS
    Settings,       \* the settings of an estimate, see Setting
    FrameCounts,    \* the frames of a capture
    Powers,         \* the powers over the angles: sequences
    Apart,          \* peaks are at least this many angles apart
    WindowSamples,  \* samples of the estimate's window shown, 2048
    MaxEstimates    \* bound: estimates made

\* What make_doa_config and make_zc1_detector_config make of the panel's
\* values. The panel corrects a value after it has stored it, and a job may
\* read it in between: what these two do not correct themselves can be wrong
\* (the angles of the sweep, none when its ends are not in order; fits, the
\* carriers within the FFT).
Setting ==
    [method : {"conventional", "subspace", "capon"},
     start : Nat, count : Nat, enabled : 0..8, peaks : 1..8, angles : Nat,
     gate : BOOLEAN, fits : BOOLEAN, symbol : Nat \ {0},
     decimation : Nat \ {0}, stride : Nat \ {0}, search : Nat, keep : Nat]

ASSUME DoaAssumption ==
    /\ Settings \subseteq Setting
    /\ FrameCounts \subseteq Nat
    /\ \A p \in Powers : p \in Seq(Int) /\ p # << >>
    /\ Apart \in Nat \ {0}
    /\ WindowSamples \in Nat \ {0}
    /\ MaxEstimates \in Nat

VARIABLES
    window, \* doa_capture: [run, from, count], of which capture and where
    seen,   \* doa_preview_count
    hit,    \* doa_zc1_last_detected
    hitAt,  \* doa_zc1_last_start
    result, \* doa_result
    missed, \* doa_error is of a gate that did not open
    \* history, for the properties only
    run,    \* estimates begun
    stored  \* the settings and the frames of the estimate stored last

doaVars == <<window, seen, hit, hitAt, result, missed, run, stored>>

-----------------------------------------------------------------------------
(* The gate: detect_zc1_in_capture *)

\* The frames a symbol takes, and the last start that is tried.
Extent(s) == s.symbol * s.decimation
Searched(s, frames) ==
    IF s.search = 0 THEN frames ELSE Min({frames, s.search})
LastStart(s, frames) == Searched(s, frames) - Extent(s)

\* The starts tried, in steps from each phase; none when the capture or the
\* search is shorter than the symbol.
Starts(s, frames) ==
    {p \in 0..LastStart(s, frames) :
        p % (s.stride * s.decimation) < s.decimation}

-----------------------------------------------------------------------------
(* The samples *)

\* slice_capture_for_doa: n samples from start, as far as there are any; all
\* of them for n = 0.
Slice(frames, start, n) ==
    [from |-> start,
     count |-> IF start >= frames THEN 0
               ELSE Min({IF n = 0 THEN frames - start ELSE n,
                     frames - start})]

\* What the estimator is given: the slice at the symbol, and a sample count
\* within it; without the gate the capture and the settings.
Gated(s, frames, start) ==
    Slice(frames, start, IF s.keep = 0 THEN Extent(s) ELSE s.keep)
Whole(frames) == [from |-> 0, count |-> frames]

\* prepare_doa_input for the slice w, from its sample start on.
Prepared(w, start, count) ==
    [from |-> w.from + start,
     count |-> IF start >= w.count THEN 0
               ELSE IF count = 0 THEN w.count - start
               ELSE Min({count, w.count - start})]

-----------------------------------------------------------------------------
(* The peaks *)

\* find_peaks: an angle not below its neighbours. A single one is a peak.
IsPeak(p, i) ==
    /\ i > 1 => p[i] >= p[i - 1]
    /\ i < Len(p) => p[i] >= p[i + 1]

Candidates(p) == {i \in DOMAIN p : IsPeak(p, i)}

Near(i, j) == i - j < Apart /\ j - i < Apart

\* The orders std::sort may give them: by falling power, equal ones anyhow.
ByPower(p) ==
    {o \in SetToSeqs(Candidates(p)) :
        \A i, j \in DOMAIN o : i < j => p[o[i]] >= p[o[j]]}

\* Faulty variant of PickPeaks: the distance is not looked at.
PickPeaks_Close(p, limit) ==
    {SubSeq(o, 1, Min({limit, Len(o)})) : o \in ByPower(p)}

\* Each in turn, unless it is near one already taken, until there are enough.
PickPeaks(p, limit) ==
    LET Take(q, c) ==
            IF Len(q) = limit \/ \E k \in DOMAIN q : Near(q[k], c)
            THEN q
            ELSE Append(q, c)
    IN {FoldLeft(Take, << >>, o) : o \in ByPower(p)}

-----------------------------------------------------------------------------
(* Estimates *)

Invalid == [valid |-> FALSE, run |-> 0, from |-> 0, count |-> 0,
            power |-> << >>, peaks |-> << >>]

Failed == [Invalid EXCEPT !.run = run']

\* What every method asks for: an angle to look at, two channels and two of
\* the samples u.
Accepted(s, u) == s.angles > 0 /\ s.enabled >= 2 /\ u.count >= 2

\* A power over the angles, and its peaks.
Found(s, u) ==
    UNION {{[valid |-> TRUE, run |-> run', from |-> u.from,
             count |-> u.count, power |-> p, peaks |-> q] :
                q \in PickPeaks(p, s.peaks)} :
           p \in {r \in Powers : Len(r) = s.angles}}

\* Beams are formed of any signal. The subspace of one may not be found, nor
\* its covariance be solved for an angle.
Conventional(s, u) == IF Accepted(s, u) THEN Found(s, u) ELSE {Failed}
Subspace(s, u) ==
    {Failed} \cup (IF Accepted(s, u) THEN Found(s, u) ELSE {})
Capon(s, u) == {Failed} \cup (IF Accepted(s, u) THEN Found(s, u) ELSE {})

\* estimate_doa.
Estimates(s, u) ==
    CASE s.method = "conventional" -> Conventional(s, u)
      [] s.method = "subspace" -> Subspace(s, u)
      [] s.method = "capon" -> Capon(s, u)

Begin == run < MaxEstimates /\ run' = run + 1

\* The last block: the slice w, its preview, the gate and the result at once.
Store(s, frames, w, u, start) ==
    /\ window' = [run |-> run', from |-> w.from, count |-> w.count]
    /\ seen' = Min({w.count, WindowSamples})
    /\ hit' = s.gate
    /\ hitAt' = start
    /\ result' \in Estimates(s, u)
    /\ missed' = FALSE
    /\ stored' = [setting |-> s, frames |-> frames]

EstimateUngated(s, frames) ==
    /\ ~s.gate
    /\ Begin
    /\ Store(s, frames, Whole(frames),
             Prepared(Whole(frames), s.start, s.count), 0)

\* Faulty variant of EstimateGated: the start counts from the slice too.
EstimateGated_StartTwice(s, frames) ==
    /\ s.gate /\ s.fits
    /\ Begin
    /\ \E start \in Starts(s, frames) :
           LET w == Gated(s, frames, start)
           IN Store(s, frames, w, Prepared(w, s.start, s.count), start)

\* A symbol is found. The slice begins with it: the start of the settings is
\* for nothing, and a count beyond the slice too.
EstimateGated(s, frames) ==
    /\ s.gate /\ s.fits
    /\ Begin
    /\ \E start \in Starts(s, frames) :
           LET w == Gated(s, frames, start)
               n == IF s.count = 0 \/ s.count > w.count THEN w.count
                    ELSE s.count
           IN Store(s, frames, w, Prepared(w, 0, n), start)

\* No symbol, or no search. A single estimate stores that; the loop goes on,
\* and the panel keeps what it shows.
Miss(s, frames) ==
    /\ s.gate
    /\ Begin
    /\ \/ /\ hit' = FALSE
          /\ hitAt' \in {0} \cup (IF s.fits THEN Starts(s, frames) ELSE {})
          /\ missed' = TRUE
       \/ UNCHANGED <<hit, hitAt, missed>>
    /\ UNCHANGED <<window, seen, result, stored>>

NoSetting ==
    [method |-> "conventional", start |-> 0, count |-> 0, enabled |-> 8,
     peaks |-> 1, angles |-> 1, gate |-> FALSE, fits |-> TRUE,
     symbol |-> 1, decimation |-> 1, stride |-> 1, search |-> 0, keep |-> 0]

DoaInit ==
    /\ window = [run |-> 0, from |-> 0, count |-> 0]
    /\ seen = 0 /\ hit = FALSE /\ hitAt = 0
    /\ result = Invalid /\ missed = FALSE
    /\ run = 0 /\ stored = [setting |-> NoSetting, frames |-> 0]

DoaNext ==
    \E s \in Settings, frames \in FrameCounts :
        EstimateUngated(s, frames) \/ EstimateGated(s, frames)
            \/ Miss(s, frames)

DoaSpec == DoaInit /\ [][DoaNext]_doaVars

-----------------------------------------------------------------------------
(* Properties *)

\* What the panel shows belongs together, however gated, missed and invalid
\* estimates follow one another: the window and the result are of one capture
\* and lie in it; the result is of the samples the settings ask for, from the
\* found symbol on when the gate is on (all of the symbol, when nothing else
\* is asked); and a hit that is shown is the window's.
EstimateIsOfTheWindow ==
    LET s == stored.setting
        end == window.from + window.count
        asked == IF s.gate THEN window.from ELSE s.start
    IN /\ window.run = result.run
       /\ end <= stored.frames
       /\ seen <= window.count
       /\ hit => s.gate /\ hitAt = window.from
       /\ missed => ~hit
       /\ s.gate => window.from + Extent(s) <= Searched(s, stored.frames)
       /\ result.valid =>
            /\ result.from = asked
            /\ result.count >= 2
            /\ result.from + result.count <= end
            /\ \/ result.count = s.count
               \/ result.from + result.count = end
            /\ s.gate /\ s.keep = 0 /\ s.count = 0 =>
                 result.count = Extent(s)

\* The list is not empty or too long, and its first is the highest power of
\* all; peaks fall, are apart, and are no lower than their neighbours. A high
\* angle that is not listed is near a peak as high, or there was no more room.
RealPeaks(p, limit, q) ==
    /\ Len(q) \in 1..limit
    /\ \A i \in DOMAIN p : p[i] <= p[q[1]]
    /\ \A i, j \in DOMAIN q :
           i < j => p[q[i]] >= p[q[j]] /\ ~Near(q[i], q[j])
    /\ \A i \in DOMAIN q : IsPeak(p, q[i])
    /\ \A c \in Candidates(p) :
           \/ Len(q) = limit /\ p[q[limit]] >= p[c]
           \/ \E i \in DOMAIN q : Near(q[i], c) /\ p[q[i]] >= p[c]

\* The peaks of every result are real peaks of its powers.
PeaksAreReal ==
    result.valid =>
        RealPeaks(result.power, stored.setting.peaks, result.peaks)

=============================================================================
