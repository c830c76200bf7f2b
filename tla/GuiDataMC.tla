----------------------------- MODULE GuiDataMC -----------------------------
(***************************************************************************)
(* What the GUI makes of its data, for TLC: the display of captures, a     *)
(* plot's view, the estimates of a direction and the output files. They    *)
(* share nothing they write, so a behaviour is of one of them and the      *)
(* others stay as they begin.                                              *)
(***************************************************************************)
EXTENDS CaptureDisplay, PlotView, DoaEstimate, OutputFiles

VARIABLE part

-----------------------------------------------------------------------------
(* Inputs *)

\* Sizes below, within and above the FFT's.
SomeTyped == {-1, 3, 9}

\* Below, at and above two samples and two lines; a y range that is wide and
\* one that is narrow; a spectrum at another frequency.
SomeData ==
    [n : {0, 1, 2, 6}, base : {0},
     y : {[lo |-> -8, hi |-> 8], [lo |-> -3, hi |-> -1]}]
    \cup {[n |-> 6, base |-> 50, y |-> [lo |-> -8, hi |-> 8]]}
SomeSpots == {[x |-> 0, y |-> 1], [x |-> 2, y |-> 0]}
SomeDrags == {[x |-> -3, y |-> 1], [x |-> 1, y |-> -3]}

\* A symbol is four frames: it fits the longest capture only at some starts,
\* and at none of a search of three.
OneSetting ==
    [method |-> "subspace", start |-> 1, count |-> 0, enabled |-> 8,
     peaks |-> 2, angles |-> 1, gate |-> TRUE, fits |-> TRUE,
     symbol |-> 2, decimation |-> 2, stride |-> 2, search |-> 0, keep |-> 0]
SomeSettings ==
    {[OneSetting EXCEPT !.method = "conventional", !.gate = FALSE,
                        !.angles = 4, !.peaks = n] : n \in 1..3}
    \cup {[OneSetting EXCEPT !.gate = FALSE, !.start = a, !.count = n] :
             a \in {0, 2}, n \in {0, 2, 9}}
    \cup {[OneSetting EXCEPT !.count = n, !.search = a, !.keep = k] :
             n \in {0, 2, 9}, a \in {0, 3, 5}, k \in {0, 1, 6}}
    \cup {[OneSetting EXCEPT !.enabled = 1], [OneSetting EXCEPT !.angles = 0],
          [OneSetting EXCEPT !.fits = FALSE],
          [OneSetting EXCEPT !.method = "capon", !.keep = 6],
          [OneSetting EXCEPT !.decimation = 1, !.stride = 3]}
SomePowers == [1..4 -> 0..2] \cup {<<0>>}

\* The label takes two of the nine units of a box: the fifth text loses its
\* extension, the last one the time.
SomeTexts ==
    {<< >>, <<0>>, <<-2, 0, -1, 0>>, <<0, -2>>,
     <<0, 0, 0, 0, 0, 0, -1, 0>>, <<0, 0, 0, 0, 0, 0, 0, 0>>}
SomeDefault == <<0, 0, -1, 0>>

-----------------------------------------------------------------------------

DataInit ==
    /\ DisplayInit /\ PlotInit /\ DoaInit /\ FilesInit
    /\ \/ part = "plot"
       \/ part \in {"display", "doa", "files"} /\ plot = "waveform"

DataNext ==
    \/ /\ part = "display" /\ DisplayNext
       /\ UNCHANGED <<plotVars, doaVars, filesVars, part>>
    \/ /\ part = "plot" /\ PlotNext
       /\ UNCHANGED <<displayVars, doaVars, filesVars, part>>
    \/ /\ part = "doa" /\ DoaNext
       /\ UNCHANGED <<displayVars, plotVars, filesVars, part>>
    \/ /\ part = "files" /\ FilesNext
       /\ UNCHANGED <<displayVars, plotVars, doaVars, part>>

DataSpec ==
    /\ DataInit
    /\ [][DataNext]_<<displayVars, plotVars, doaVars, filesVars, part>>
=============================================================================
