---------------------------- MODULE OutputFiles ----------------------------
(***************************************************************************)
(* The files the GUI writes under names it makes: the automatic name of    *)
(* the next file (prepare_next_auto_output_path, the same for records and  *)
(* for baseband saves), which goes back into the text box it was made      *)
(* from, and the bytes a baseband save puts into the file it has named     *)
(* (save_baseband_iq). What the panel allows meanwhile, and the session,   *)
(* are GuiWorker's and DfOneSession's.                                     *)
(*                                                                         *)
(* A text is a sequence of units: a dot, a slash, the label of the         *)
(* frequency, the label of a time (a number above 0), and any other.       *)
(***************************************************************************)
EXTENDS Integers, Sequences, FiniteSetsExt

Letter == 0
Dot == -1
Slash == -2
Frequency == -3

CONSTANTS
    Texts,        \* what the user may type
    DefaultName,  \* the name of the code, for an empty text
    TextRoom,     \* the units a text box holds, kTextBufLen without its end
    Totals,       \* the bytes of a save
    FrameBytes,   \* bytes of a frame, 32
    MaxChunk,     \* frames of a capture, kBasebandSaveMaxChunkFrames
    MaxPresses    \* bound: files asked for

ASSUME FilesAssumption ==
    /\ Texts \subseteq Seq(Slash..Letter)
    /\ DefaultName \in Seq(Slash..Letter)
    /\ TextRoom \in Nat \ {0}
    /\ Totals \subseteq Nat \ {0}
    /\ FrameBytes \in Nat \ {0} /\ MaxChunk \in Nat \ {0}
    /\ MaxPresses \in Nat

VARIABLES
    text,      \* the text box
    template,  \* auto_template
    lastAuto,  \* last_auto_path
    savePc,    \* "idle", "opening", "saving" or "closing"
    path,      \* the output path of the save
    total, written, showing,
    stopping,  \* the save has been stopped
    disk,      \* bytes that have reached the file
    stage,     \* "none", "saving", "complete", "stopped" or "failed"
    \* history, for the properties only
    typed,     \* what the user has typed last, or the default
    meant,     \* the same, when the last name was made
    fresh,     \* nothing typed since the last name was made
    presses,   \* names made
    files,     \* the files opened
    lost       \* the last file opened was there before

nameVars == <<text, template, lastAuto, typed, meant, fresh, presses>>
saveVars == <<savePc, path, total, written, showing, stopping, disk, stage>>
filesVars == <<nameVars, saveVars, files, lost>>

-----------------------------------------------------------------------------
(* Names *)

\* The last position of the unit u in t, or 0.
LastAt(u, t) == Max({0} \cup {i \in DOMAIN t : t[i] = u})

Directory(t) == SubSeq(t, 1, LastAt(Slash, t))
FileOf(t) == SubSeq(t, LastAt(Slash, t) + 1, Len(t))

\* A dot at the front is part of the stem.
HasExtension(f) == LastAt(Dot, f) > 1
StemOf(f) == IF HasExtension(f) THEN SubSeq(f, 1, LastAt(Dot, f) - 1) ELSE f
ExtensionOf(f) ==
    IF HasExtension(f) THEN SubSeq(f, LastAt(Dot, f), Len(f)) ELSE << >>

OrElse(a, b) == IF a = << >> THEN b ELSE a

\* make_timestamped_output_path at the time now.
Timestamped(t, now) ==
    LET f == FileOf(t)
        d == FileOf(DefaultName)
    IN Directory(t) \o OrElse(StemOf(f), StemOf(d))
         \o <<Frequency, now>>
         \o OrElse(ExtensionOf(f), ExtensionOf(d))

\* copy_path_to_buffer: what does not fit is cut off.
InBox(t) == SubSeq(t, 1, Min({Len(t), TextRoom}))

\* Faulty variant of PrepareNext: the new name is not remembered.
PrepareNext_Forgets(now) ==
    /\ template' =
           IF text = << >> THEN DefaultName
           ELSE IF text # lastAuto THEN text
           ELSE OrElse(template, DefaultName)
    /\ text' = InBox(Timestamped(template', now))
    /\ UNCHANGED lastAuto

\* prepare_next_auto_output_path: a text other than the last name is a new
\* template. A name that has been cut off is other than itself.
PrepareNext(now) ==
    /\ template' =
           IF text = << >> THEN DefaultName
           ELSE IF text # lastAuto THEN text
           ELSE OrElse(template, DefaultName)
    /\ lastAuto' = Timestamped(template', now)
    /\ text' = InBox(lastAuto')

\* The text box. To come back to the automatic name is to go on with it.
Type ==
    /\ savePc = "idle"
    /\ text' \in Texts \cup {InBox(lastAuto)}
    /\ typed' = IF text' = lastAuto THEN meant ELSE OrElse(text', DefaultName)
    /\ fresh' = FALSE
    /\ UNCHANGED <<template, lastAuto, meant, presses, saveVars, files, lost>>

-----------------------------------------------------------------------------
(* A save *)

Press ==
    /\ savePc = "idle"
    /\ presses < MaxPresses
    /\ presses' = presses + 1
    /\ PrepareNext(presses')
    /\ fresh' = TRUE /\ meant' = typed
    /\ path' = text'
    /\ savePc' = "opening"
    /\ lost' = FALSE
    /\ UNCHANGED <<typed, total, written, showing, stopping, disk, stage>>
    /\ UNCHANGED files

\* The job begins, unless nothing is connected.
Refused ==
    /\ savePc = "opening"
    /\ savePc' = "idle"
    /\ UNCHANGED <<nameVars, path, total, written, showing, stopping, disk>>
    /\ UNCHANGED <<stage, files, lost>>

\* The output is opened, and emptied if it is there; or it cannot be opened,
\* or the session refuses the settings after that.
Open ==
    /\ savePc = "opening"
    /\ total' \in Totals
    /\ written' = 0 /\ showing' = 0 /\ stopping' = FALSE
    /\ \/ /\ files' = files \cup {path}
          /\ lost' = (path \in files)
          /\ disk' = 0
          /\ \/ savePc' = "saving" /\ stage' = "saving"
             \/ savePc' = "idle" /\ stage' = "failed"
       \/ /\ savePc' = "idle" /\ stage' = "failed"
          /\ UNCHANGED <<files, lost, disk>>
    /\ UNCHANGED <<nameVars, path>>

\* The frames of the next capture.
Remaining == (total - written + FrameBytes - 1) \div FrameBytes
Chunk == Max({1, Min({Remaining, MaxChunk})})

\* A capture and a write of it, of which some reaches the disk and the rest
\* stays in the stream; or one of them fails, and the stream is closed.
WriteChunk ==
    /\ savePc = "saving"
    /\ ~stopping /\ written < total
    /\ LET n == Min({total - written, Chunk * FrameBytes})
       IN \/ /\ written' = written + n
             /\ disk' \in {disk, written, written + n}
             /\ showing' = written'
             /\ UNCHANGED <<savePc, stage>>
          \/ /\ disk' \in {disk, written, written + n}
             /\ savePc' = "idle" /\ stage' = "failed"
             /\ UNCHANGED <<written, showing>>
    /\ UNCHANGED <<nameVars, path, total, stopping, files, lost>>

Stop ==
    /\ savePc = "saving"
    /\ stopping' = TRUE
    /\ UNCHANGED <<nameVars, savePc, path, total, written, showing, disk>>
    /\ UNCHANGED <<stage, files, lost>>

\* All is written, or the save has been stopped before. A stop that comes with
\* the last byte is too late: the loop does not look again.
LeaveLoop ==
    /\ savePc = "saving"
    /\ written >= total \/ stopping
    /\ savePc' = "closing"
    /\ stopping' = (written < total)
    /\ UNCHANGED <<nameVars, path, total, written, showing, disk, stage>>
    /\ UNCHANGED <<files, lost>>

\* Faulty variant of Close: whether it succeeds is not looked at.
Close_Unchecked ==
    /\ savePc = "closing"
    /\ disk' \in {disk, written}
    /\ showing' = written
    /\ stage' = IF stopping THEN "stopped" ELSE "complete"
    /\ savePc' = "idle"
    /\ UNCHANGED <<nameVars, path, total, written, stopping, files, lost>>

\* The rest goes to the disk, or does not: only a save that has not been
\* stopped looks.
Close ==
    /\ savePc = "closing"
    /\ \E closed \in BOOLEAN :
           /\ disk' = IF closed THEN written ELSE disk
           /\ stage' = IF stopping THEN "stopped"
                       ELSE IF closed THEN "complete" ELSE "failed"
           /\ showing' = IF ~stopping /\ closed THEN total ELSE written
    /\ savePc' = "idle"
    /\ UNCHANGED <<nameVars, path, total, written, stopping, files, lost>>

FilesInit ==
    /\ text = DefaultName /\ template = << >> /\ lastAuto = << >>
    /\ typed = DefaultName /\ meant = DefaultName
    /\ fresh = FALSE /\ presses = 0
    /\ savePc = "idle" /\ path = << >> /\ stopping = FALSE
    /\ total = 0 /\ written = 0 /\ showing = 0 /\ disk = 0
    /\ stage = "none"
    /\ files = {} /\ lost = FALSE

FilesNext ==
    \/ Type \/ Press
    \/ Refused \/ Open \/ WriteChunk \/ Stop \/ LeaveLoop \/ Close

FilesSpec == FilesInit /\ [][FilesNext]_filesVars

-----------------------------------------------------------------------------
(* Properties *)

\* There is room for the labelled name of what the user typed.
Fits(t) == Len(Timestamped(t, 1)) <= TextRoom

\* Press after press, the name is what the user typed last with one label, of
\* this press; the box shows it, it is the file's, and no earlier file is
\* lost. (Without the room for the label, none of this is so: a name that is
\* cut off becomes a template, and where the time is cut off the next file
\* replaces this one.)
NamesFollowTheUser ==
    fresh /\ Fits(typed) =>
        /\ text = Timestamped(typed, presses)
        /\ path = text
        /\ ~lost

\* A save that calls itself complete has every byte asked for in its file, and
\* no save shows more than it asked for, or (unless it is failing) less than
\* is on the disk.
SavedFileIsWhole ==
    /\ stage = "complete" => disk = total
    /\ showing <= total
    /\ stage \in {"saving", "stopped"} => disk <= showing

\* A file is where the user wants it and has what the panel says.
FilesAsAsked == NamesFollowTheUser /\ SavedFileIsWhole
=============================================================================
