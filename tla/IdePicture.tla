----------------------------- MODULE IdePicture -----------------------------
(***************************************************************************)
(* Pictures on their way to the IDE (omv/ide_dbg.c).  A script shows one   *)
(* with ide_set_fb, or the display writes back what it shows; the IDE asks *)
(* for the size (FRAME_SIZE) and then for the bytes (FRAME_DUMP).  The     *)
(* mutex fb_mutex covers fb_data only; fb_from, fb_from_current and the    *)
(* write-back's variables are shared without it.                           *)
(*                                                                         *)
(* A picture stands for its width, height, size and bytes.  As in          *)
(* IdeSession the IDE task has the more urgent priority on one core, so a  *)
(* command is one step up to a call that blocks.                           *)
(***************************************************************************)
EXTENDS Naturals, Sequences

CONSTANTS
  Pic,      \* pictures
  None      \* no picture, no command, no file

ASSUME PictureAssumption == None \notin Pic

VARIABLES
  fb_from, fb_from_current,   \* where the next and the announced picture are from
  fb_data,        \* the picture a script has shown, until it is sent
  enable_pic,     \* the IDE wants pictures
  wbc_enabled,    \* flag_vo_wbc_enabled
  wbc_jpeg,       \* the encoded picture of the display, until it is sent
  script,         \* the main thread: no script, in one, or in its end
  running,        \* ide_script_running
  ipc,            \* where the IDE task is
  reply           \* what usb_tx has sent and the IDE has not read

picture == <<fb_from, fb_from_current, fb_data, enable_pic, wbc_enabled, wbc_jpeg>>
session == <<script, running>>

PictureInit ==
  /\ fb_from = "none" /\ fb_from_current = "none"
  /\ fb_data = None
  /\ enable_pic = TRUE
  /\ wbc_enabled = FALSE /\ wbc_jpeg = None
  /\ script = "no" /\ running = FALSE

-----------------------------------------------------------------------------
(* The main thread.                                                        *)

\* The script that SCRIPT_EXEC has handed over starts (IdeSession has how).
ScriptStart ==
  /\ script = "no" /\ running
  /\ script' = "yes"
  /\ UNCHANGED <<picture, running, ipc, reply>>

\* mutated: a picture that is not sent yet is replaced
SetFbReplace(p) ==
  /\ script = "yes"
  /\ fb_from' = "user"
  /\ fb_data' = p
  /\ UNCHANGED <<fb_from_current, enable_pic, wbc_enabled, wbc_jpeg, session, ipc, reply>>

\* ide_set_fb.
SetFb(p) ==
  /\ script = "yes"
  /\ fb_from' = "user"
  /\ fb_data' = IF fb_data = None THEN p ELSE fb_data
  /\ UNCHANGED <<fb_from_current, enable_pic, wbc_enabled, wbc_jpeg, session, ipc, reply>>

\* ide_dbg_set_vo_wbc, with a quality and without one.
SetVoWbc ==
  /\ script = "yes"
  /\ fb_from' \in {"wbc", "none"}
  /\ UNCHANGED <<fb_from_current, fb_data, enable_pic, wbc_enabled, wbc_jpeg, session, ipc, reply>>

\* ide_dbg_vo_wbc_init; where the display refuses nothing changes.
VoWbcInit ==
  /\ script = "yes" /\ fb_from = "wbc" /\ ~wbc_enabled
  /\ wbc_enabled' = TRUE
  /\ UNCHANGED <<fb_from, fb_from_current, fb_data, enable_pic, wbc_jpeg, session, ipc, reply>>

\* ide_dbg_vo_wbc_deinit, by a script and by the end of every session.
VoWbcDeinit ==
  /\ script \in {"yes", "no"} /\ wbc_enabled
  /\ wbc_enabled' = FALSE
  /\ UNCHANGED <<fb_from, fb_from_current, fb_data, enable_pic, wbc_jpeg, session, ipc, reply>>

\* ide_dbg_on_script_end lets SCRIPT_EXEC in first and forgets the source of
\* the pictures after that.
ScriptEnding ==
  /\ script = "yes"
  /\ script' = "ending" /\ running' = FALSE
  /\ UNCHANGED <<picture, ipc, reply>>

ScriptEnd ==
  /\ script = "ending"
  /\ script' = "no"
  /\ fb_from' = "none"
  /\ UNCHANGED <<fb_from_current, fb_data, enable_pic, wbc_enabled, wbc_jpeg, running, ipc, reply>>

MainThread ==
  \/ ScriptStart \/ SetVoWbc \/ VoWbcInit \/ VoWbcDeinit \/ ScriptEnding \/ ScriptEnd
  \/ \E p \in Pic : SetFb(p)

-----------------------------------------------------------------------------
(* The cases of ide_dbg_update: what a command does to the pictures and    *)
(* what it answers.                                                        *)

Skip == ~enable_pic \/ fb_from = "none"
NeedsFrame == ~Skip /\ fb_from = "wbc" /\ wbc_enabled /\ wbc_jpeg = None

\* The size that FRAME_SIZE answers without a new frame of the display.
Size == CASE Skip -> None
          [] ~Skip /\ fb_from = "user" -> fb_data
          [] OTHER -> IF wbc_enabled THEN wbc_jpeg ELSE None

Announce ==
  /\ fb_from_current' = IF Skip THEN fb_from_current ELSE fb_from
  /\ UNCHANGED <<fb_from, fb_data, enable_pic, wbc_enabled, wbc_jpeg>>

\* A frame of the display has come and is encoded; or one of the two failed.
Encode(p) ==
  /\ wbc_jpeg' = p
  /\ UNCHANGED <<fb_from, fb_from_current, fb_data, enable_pic, wbc_enabled>>

\* What FRAME_DUMP sends: the picture the last FRAME_SIZE spoke of.
Dump == CASE fb_from_current = "user" -> fb_data
          [] fb_from_current = "wbc" -> wbc_jpeg
          [] OTHER -> None

Sent ==
  /\ fb_data' = IF fb_from_current = "user" THEN None ELSE fb_data
  /\ wbc_jpeg' = IF fb_from_current = "wbc" THEN None ELSE wbc_jpeg
  /\ UNCHANGED <<fb_from, fb_from_current, enable_pic, wbc_enabled>>

PictureTypeOK ==
  /\ {fb_from, fb_from_current} \subseteq {"none", "user", "wbc"}
  /\ {fb_data, wbc_jpeg} \subseteq Pic \cup {None}
  /\ enable_pic \in BOOLEAN /\ wbc_enabled \in BOOLEAN
  /\ script \in {"no", "yes", "ending"}
  /\ running \in BOOLEAN
=============================================================================
