--------------------------- MODULE CaptureDisplay ---------------------------
(***************************************************************************)
(* What the GUI shows of the last capture (user_gui.cpp): the job's thread *)
(* stores a capture and derives the waveforms, the phases and the spectrum *)
(* from it (store_capture, update_preview, update_spectrum_locked); the UI *)
(* thread copies them at the start of a frame (snapshot_ui) and draws the  *)
(* copy. The spectrum's channel and FFT size are edited on the spectrum    *)
(* panel without the mutex under which the job reads and writes them: the  *)
(* job's update is cut at each of these accesses, the panel's edits too.   *)
(*                                                                         *)
(* A capture is a number and its frames; what is derived from it is that   *)
(* number and its length. A capture of less than one frame has 0.          *)
(***************************************************************************)
EXTENDS Integers

CONSTANTS
    Lengths,        \* the frames a capture may have
    MaxCaptures,    \* bound: captures stored
    PreviewSamples, \* frames shown as waveforms, 2048
    BlockFrames,    \* frames of a phase, 2048
    PhaseBlocks,    \* phases shown, 256
    ChannelCount,   \* 8
    FftSizes,       \* 128 and its doubles up to 8192
    Typed,          \* what may be typed for the FFT size
    FirstFftSize    \* the size at the start, 2048

Channels == 0..(ChannelCount - 1)

ASSUME DisplayAssumption ==
    /\ Lengths \subseteq Nat
    /\ MaxCaptures \in Nat
    /\ PreviewSamples \in Nat \ {0} /\ PhaseBlocks \in Nat \ {0}
    /\ BlockFrames \in Nat \ {0}
    /\ ChannelCount \in Nat \ {0}
    /\ FftSizes \subseteq Nat \ {0}
    /\ \E s \in FftSizes : \A t \in FftSizes : t <= s
    /\ Typed \subseteq Int
    /\ FirstFftSize \in FftSizes

VARIABLES
    \* AppState, under the mutex
    mutex,     \* "free", or the job has it
    capture,   \* last_capture
    preview, phase, spectrum,
    \* AppState, used by both threads: the panel takes no mutex
    channel, fftSize,
    \* the job
    jobPc,
    mySize,    \* the size it has read and rounded
    myChannel, \* the channel it has read
    \* the UI thread
    panelPc,   \* where it is in draw_spectrum_panel
    edited,    \* its value about to be written back
    changed,   \* a choice of this frame asks for a new spectrum
    typing,    \* the text box has been edited and still has the focus
    shown,     \* the frame's snapshot
    \* history, for the properties only
    former     \* the capture before the last

appVars == <<mutex, capture, preview, phase, spectrum>>
jobVars == <<jobPc, mySize, myChannel>>
panelVars == <<panelPc, edited, changed, typing>>
displayVars ==
    <<appVars, channel, fftSize, jobVars, panelVars, shown, former>>

AtMost(n, limit) == IF n < limit THEN n ELSE limit

\* normalize_spectrum_fft_size: the next size up, within the limits.
Normalized(v) ==
    LET up == {s \in FftSizes : s >= v}
    IN IF up = {} THEN CHOOSE s \in FftSizes : \A t \in FftSizes : s >= t
       ELSE CHOOSE s \in up : \A t \in up : s <= t

\* What is derived from a capture c.
NoSpectrum == [id |-> 0, channel |-> 0, size |-> 0]
PreviewOf(c) == [id |-> c.id, count |-> AtMost(c.frames, PreviewSamples)]
PhaseOf(c) ==
    [id |-> c.id,
     count |-> IF c.frames < 2 THEN 0
               ELSE AtMost((c.frames + BlockFrames - 1) \div BlockFrames,
                           PhaseBlocks)]
SpectrumOf(c, ch, size) ==
    IF c.frames < 2 THEN NoSpectrum
    ELSE [id |-> c.id, channel |-> ch, size |-> size]

-----------------------------------------------------------------------------
(* The job *)

\* store_capture, first block.
StoreCapture ==
    /\ jobPc = "capture"
    /\ mutex = "free"
    /\ capture.id < MaxCaptures
    /\ \E n \in Lengths : capture' = [id |-> capture.id + 1, frames |-> n]
    /\ former' = capture
    /\ jobPc' = "stored"
    /\ UNCHANGED <<mutex, preview, phase, spectrum, channel, fftSize>>
    /\ UNCHANGED <<mySize, myChannel, panelVars, shown>>

\* Faulty variant of UpdatePreview: without the mutex.
UpdatePreview_Unlocked ==
    /\ jobPc = "stored"
    /\ preview' = PreviewOf(capture)
    /\ phase' = [id |-> capture.id, count |-> 0]
    /\ spectrum' = NoSpectrum
    /\ jobPc' = IF capture.frames = 0 THEN "capture" ELSE "read size"
    /\ UNCHANGED <<mutex, capture, channel, fftSize, mySize, myChannel>>
    /\ UNCHANGED <<panelVars, shown, former>>

\* update_preview: everything is cleared, and the waveforms are copied.
UpdatePreview ==
    /\ jobPc = "stored"
    /\ mutex = "free"
    /\ preview' = PreviewOf(capture)
    /\ phase' = [id |-> capture.id, count |-> 0]
    /\ spectrum' = NoSpectrum
    /\ IF capture.frames = 0 THEN jobPc' = "capture" /\ UNCHANGED mutex
                             ELSE jobPc' = "read size" /\ mutex' = "job"
    /\ UNCHANGED <<capture, channel, fftSize, mySize, myChannel>>
    /\ UNCHANGED <<panelVars, shown, former>>

\* update_spectrum_locked: the size is rounded in place, ...
ReadSize ==
    /\ jobPc = "read size"
    /\ mySize' = Normalized(fftSize)
    /\ jobPc' = "write size"
    /\ UNCHANGED <<appVars, channel, fftSize, myChannel, panelVars, shown>>
    /\ UNCHANGED former

WriteSize ==
    /\ jobPc = "write size"
    /\ fftSize' = mySize
    /\ jobPc' = IF capture.frames < 2 THEN "phases" ELSE "read channel"
    /\ UNCHANGED <<appVars, channel, mySize, myChannel, panelVars, shown>>
    /\ UNCHANGED former

\* ... and so is the channel clamped, ...
ReadChannel ==
    /\ jobPc = "read channel"
    /\ myChannel' = AtMost(channel, ChannelCount - 1)
    /\ jobPc' = "write channel"
    /\ UNCHANGED <<appVars, channel, fftSize, mySize, panelVars, shown>>
    /\ UNCHANGED former

WriteChannel ==
    /\ jobPc = "write channel"
    /\ channel' = myChannel
    /\ jobPc' = "transform"
    /\ UNCHANGED <<appVars, fftSize, mySize, myChannel, panelVars, shown>>
    /\ UNCHANGED former

\* ... and then the size is read again, or taken from the register it was
\* written from. The transform needs a power of two; with what the user is
\* just typing instead, it goes out of its vector, and nothing is claimed of
\* the program from there on.
Transform ==
    /\ jobPc = "transform"
    /\ \E size \in {mySize, fftSize} :
           IF size \in FftSizes
           THEN /\ spectrum' = SpectrumOf(capture, myChannel, size)
                /\ jobPc' = "phases"
           ELSE jobPc' = "undefined" /\ UNCHANGED spectrum
    /\ UNCHANGED <<mutex, capture, preview, phase, channel, fftSize>>
    /\ UNCHANGED <<mySize, myChannel, panelVars, shown, former>>

ComputePhases ==
    /\ jobPc = "phases"
    /\ phase' = PhaseOf(capture)
    /\ mutex' = "free"
    /\ jobPc' = "capture"
    /\ UNCHANGED <<capture, preview, spectrum, channel, fftSize>>
    /\ UNCHANGED <<mySize, myChannel, panelVars, shown, former>>

-----------------------------------------------------------------------------
(* The UI thread *)

\* snapshot_ui. What else the frame draws of it changes nothing here.
TakeSnapshot ==
    /\ panelPc = "frame"
    /\ mutex = "free"
    /\ shown' = [capture |-> capture, preview |-> preview, phase |-> phase,
                 spectrum |-> spectrum, former |-> former,
                 between |-> jobPc = "stored"]
    /\ panelPc' = "channel"
    /\ changed' = FALSE
    /\ UNCHANGED <<appVars, channel, fftSize, jobVars, edited, typing, former>>

\* Another tab is open. The focus does not leave the text box unseen.
SkipPanel ==
    /\ panelPc = "channel"
    /\ ~typing
    /\ panelPc' = "frame"
    /\ UNCHANGED <<appVars, channel, fftSize, jobVars, edited, changed>>
    /\ UNCHANGED <<typing, shown, former>>

\* Faulty variant of ChooseChannel: the spectrum is left as it is.
ChooseChannel_Only ==
    /\ panelPc = "channel"
    /\ channel' \in Channels
    /\ panelPc' = "size"
    /\ UNCHANGED <<appVars, fftSize, jobVars, edited, changed, typing, shown>>
    /\ UNCHANGED former

\* The radio buttons; or none is clicked.
ChooseChannel ==
    /\ panelPc = "channel"
    /\ \/ channel' \in Channels /\ changed' = TRUE
       \/ UNCHANGED <<channel, changed>>
    /\ panelPc' = "size"
    /\ UNCHANGED <<appVars, fftSize, jobVars, edited, typing, shown, former>>

\* The text box: typing stores what is read from it, as it is; leaving it
\* after an edit asks for a new spectrum (and rounds, like "round" below).
EditSize ==
    /\ panelPc = "size"
    /\ \/ /\ fftSize' \in Typed
          /\ typing' = TRUE
          /\ UNCHANGED changed
       \/ /\ typing
          /\ typing' = FALSE /\ changed' = TRUE
          /\ UNCHANGED fftSize
       \/ UNCHANGED <<fftSize, changed, typing>>
    /\ panelPc' = "clamp"
    /\ UNCHANGED <<appVars, channel, jobVars, edited, shown, former>>

\* The panel clamps the channel and rounds the size: each is read and written.
ReadBack ==
    /\ \/ /\ panelPc = "clamp"
          /\ edited' = AtMost(channel, ChannelCount - 1)
          /\ panelPc' = "clamped"
       \/ /\ panelPc = "round"
          /\ edited' = Normalized(fftSize)
          /\ panelPc' = "rounded"
    /\ UNCHANGED <<appVars, channel, fftSize, jobVars, changed, typing>>
    /\ UNCHANGED <<shown, former>>

WriteBack ==
    /\ \/ /\ panelPc = "clamped"
          /\ channel' = edited
          /\ panelPc' = "round"
          /\ UNCHANGED fftSize
       \/ /\ panelPc = "rounded"
          /\ fftSize' = edited
          /\ panelPc' = IF changed THEN "refresh" ELSE "frame"
          /\ UNCHANGED channel
    /\ UNCHANGED <<appVars, jobVars, edited, changed, typing, shown, former>>

\* refresh_spectrum: with the mutex, in which nobody else writes the two.
RefreshSpectrum ==
    /\ panelPc = "refresh"
    /\ mutex = "free"
    /\ spectrum' = SpectrumOf(capture, channel, fftSize)
    /\ panelPc' = "frame"
    /\ UNCHANGED <<mutex, capture, preview, phase, channel, fftSize, jobVars>>
    /\ UNCHANGED <<edited, changed, typing, shown, former>>

NoCapture == [id |-> 0, frames |-> 0]

DisplayInit ==
    /\ mutex = "free"
    /\ capture = NoCapture /\ former = NoCapture
    /\ preview = PreviewOf(NoCapture) /\ phase = PhaseOf(NoCapture)
    /\ spectrum = NoSpectrum
    /\ channel = 0 /\ fftSize = FirstFftSize
    /\ jobPc = "capture" /\ mySize = FirstFftSize /\ myChannel = 0
    /\ panelPc = "frame" /\ edited = 0 /\ changed = FALSE /\ typing = FALSE
    /\ shown = [capture |-> capture, preview |-> preview, phase |-> phase,
                spectrum |-> spectrum, former |-> former, between |-> FALSE]

JobStep ==
    \/ StoreCapture \/ UpdatePreview
    \/ ReadSize \/ WriteSize \/ ReadChannel \/ WriteChannel \/ Transform
    \/ ComputePhases

PanelStep ==
    \/ TakeSnapshot \/ SkipPanel
    \/ ChooseChannel \/ EditSize \/ ReadBack \/ WriteBack \/ RefreshSpectrum

DisplayNext == jobPc # "undefined" /\ (JobStep \/ PanelStep)

DisplaySpec == DisplayInit /\ [][DisplayNext]_displayVars

-----------------------------------------------------------------------------
(* Properties *)

\* A frame draws waveforms, phases and spectrum of one capture, each whole. It
\* is the capture named above them, except in a frame that begins between the
\* two blocks of store_capture: that one shows the name of a capture with the
\* curves of the capture before (and maybe the spectrum of the new one).
SnapshotsAreWhole ==
    LET s == shown
        of == IF s.between THEN s.former ELSE s.capture
    IN /\ s.preview = PreviewOf(of)
       /\ s.phase = PhaseOf(of)
       /\ s.spectrum.id \in {0, of.id, s.capture.id}

\* The panel's choices and the job's spectrum race, and still agree: whenever
\* the job is between captures, the panel between frames and nobody is typing,
\* the spectrum is there, of the last capture, for the channel and with the
\* length the panel shows. (Which choice has won is another matter.)
SpectrumAsSelected ==
    jobPc = "capture" /\ panelPc = "frame" /\ ~typing =>
        spectrum = SpectrumOf(capture, channel, fftSize)
=============================================================================
