------------------------------ MODULE Playing ------------------------------
(***************************************************************************)
(* Playing a sample in the background (OnPlayAudio, PlayWaveData) and      *)
(* playing the loop in the loop editor (OnBnClickedDlgPlayLoop, PlayLoop). *)
(*                                                                         *)
(* Each click begins a thread.  A play thread and the click both look at   *)
(* one manual-reset event to find out whether something is played; a loop  *)
(* thread goes on while the event of the dialog is set.  The audio driver  *)
(* plays a buffer on the stack of the thread that wrote it, at its own     *)
(* pace.  Players and Loopers bound how many threads exist at once; a      *)
(* thread that ended may be begun again.                                   *)
(***************************************************************************)
EXTENDS Naturals, FiniteSets

CONSTANTS Players, \* threads that run PlayWaveData
          Loopers  \* threads that run PlayLoop

ASSUME PlayingAssumption ==
    /\ Players # {} /\ Loopers # {}
    /\ Players \cap Loopers = {}
    /\ IsFiniteSet(Players)

VARIABLES
    AudioPlayingEvent, \* the event of PlayWaveData
    player,            \* where each play thread is
    stale,             \* play threads whose wave was freed before they copied it
    open,              \* a document's window is open
    dialog,            \* the loop editor (modal) is open
    m_bPlayLoop,       \* its play button is down
    LoopDialogPlayLoop,\* the dialog's event; "closed" when its handle is
    looper,            \* where each loop thread is
    driver,            \* threads whose buffer the driver holds
    crashed,           \* the program has read memory that is gone
    raced              \* history: two threads passed the check side by side,
                       \* and play threads have existed ever since

playVars == <<AudioPlayingEvent, player, stale, raced>>
loopVars == <<dialog, m_bPlayLoop, LoopDialogPlayLoop, looper>>
vars == <<playVars, loopVars, open, driver, crashed>>

PlayerAt(t, here, there) ==
    /\ player[t] = here
    /\ player' = [player EXCEPT ![t] = there]

LooperAt(l, here, there) ==
    /\ looper[l] = here
    /\ looper' = [looper EXCEPT ![l] = there]

-----------------------------------------------------------------------------
(* The main thread, which does nothing else while the dialog is open.      *)

OnPlayAudio(t) ==
    /\ open /\ ~dialog
    /\ ~AudioPlayingEvent
    /\ PlayerAt(t, "idle", "begun")
    /\ UNCHANGED <<AudioPlayingEvent, stale, raced, loopVars, open, driver, crashed>>

(* The wave is freed, whoever still has its handle.  (The document's       *)
(* destructor frees the handle a second time, which is left out.)          *)
OnCloseWindow ==
    /\ open /\ ~dialog
    /\ open' = FALSE
    /\ stale' = {t \in Players : player[t] \in {"begun", "passed", "marked"}}
    /\ UNCHANGED <<AudioPlayingEvent, player, raced, loopVars, driver, crashed>>

OnOpenDocument ==
    /\ ~open
    /\ open' = TRUE
    /\ UNCHANGED <<playVars, loopVars, driver, crashed>>

OnInitDialog ==
    /\ open /\ ~dialog
    /\ dialog' = TRUE
    /\ m_bPlayLoop' = FALSE
    /\ LoopDialogPlayLoop' = "unset"
    /\ UNCHANGED <<playVars, looper, open, driver, crashed>>

(* The dialog ends without a word to the loop threads.                     *)
EndDialogOnly ==
    /\ dialog
    /\ dialog' = FALSE
    /\ m_bPlayLoop' = FALSE
    /\ UNCHANGED <<playVars, looper, LoopDialogPlayLoop, open, driver, crashed>>

(* OK and Cancel: ResetEvent and CloseHandle; a wait on the handle fails,  *)
(* as long as the system gives its value to no other object.               *)
EndDialog ==
    /\ dialog
    /\ dialog' = FALSE
    /\ m_bPlayLoop' = FALSE
    /\ LoopDialogPlayLoop' = "closed"
    /\ UNCHANGED <<playVars, looper, open, driver, crashed>>

PlayLoopOn(l) ==
    /\ dialog /\ ~m_bPlayLoop
    /\ m_bPlayLoop' = TRUE
    /\ LoopDialogPlayLoop' = "set"
    /\ LooperAt(l, "idle", "begun")
    /\ UNCHANGED <<playVars, dialog, open, driver, crashed>>

PlayLoopOff ==
    /\ dialog /\ m_bPlayLoop
    /\ m_bPlayLoop' = FALSE
    /\ LoopDialogPlayLoop' = "unset"
    /\ UNCHANGED <<playVars, dialog, looper, open, driver, crashed>>

-----------------------------------------------------------------------------
(* PlayWaveData.                                                           *)

PlayUnchanged == UNCHANGED <<loopVars, open>>

(* The thread ends; with the last one a race is over.                      *)
PlayReturns(t, here) ==
    /\ PlayerAt(t, here, "idle")
    /\ raced' = (raced /\ \E other \in Players \ {t} : player[other] # "idle")
    /\ stale' = stale \ {t}

CheckPasses(t) ==
    /\ ~AudioPlayingEvent
    /\ PlayerAt(t, "begun", "passed")
    /\ raced' = (raced \/ \E other \in Players : player[other] = "passed")
    /\ UNCHANGED <<AudioPlayingEvent, stale, driver, crashed>>
    /\ PlayUnchanged

(* One exit for all, which resets the event.                               *)
CheckFailsResets(t) ==
    /\ AudioPlayingEvent
    /\ PlayReturns(t, "begun")
    /\ AudioPlayingEvent' = FALSE
    /\ UNCHANGED <<driver, crashed>>
    /\ PlayUnchanged

CheckFails(t) ==
    /\ AudioPlayingEvent
    /\ PlayReturns(t, "begun")
    /\ UNCHANGED <<AudioPlayingEvent, driver, crashed>>
    /\ PlayUnchanged

Mark(t) ==
    /\ PlayerAt(t, "passed", "marked")
    /\ AudioPlayingEvent' = TRUE
    /\ UNCHANGED <<stale, raced, driver, crashed>>
    /\ PlayUnchanged

(* GlobalLock and the two memcpy.  On a freed wave they read what is there *)
(* now, or end the program.                                                *)
CopyWave(t) ==
    /\ PlayerAt(t, "marked", "copied")
    /\ crashed' \in IF t \in stale THEN BOOLEAN ELSE {FALSE}
    /\ stale' = stale \ {t}
    /\ UNCHANGED <<AudioPlayingEvent, raced, driver>>
    /\ PlayUnchanged

WriteWave(t) ==
    /\ PlayerAt(t, "copied", "playing")
    /\ driver' = driver \cup {t}
    /\ UNCHANGED <<AudioPlayingEvent, stale, raced, crashed>>
    /\ PlayUnchanged

(* No device, no memory or a refused buffer: a message box.                *)
CannotPlay(t) ==
    /\ PlayerAt(t, "copied", "box")
    /\ UNCHANGED <<AudioPlayingEvent, stale, raced, driver, crashed>>
    /\ PlayUnchanged

(* The user closes the box; the event forgotten.                           *)
BoxClosedOnly(t) ==
    /\ PlayReturns(t, "box")
    /\ UNCHANGED <<AudioPlayingEvent, driver, crashed>>
    /\ PlayUnchanged

BoxClosed(t) ==
    /\ PlayReturns(t, "box")
    /\ AudioPlayingEvent' = FALSE
    /\ UNCHANGED <<driver, crashed>>
    /\ PlayUnchanged

(* The wait loop sees WHDR_DONE.                                           *)
PlayDone(t) ==
    /\ t \notin driver
    /\ PlayReturns(t, "playing")
    /\ AudioPlayingEvent' = FALSE
    /\ UNCHANGED <<driver, crashed>>
    /\ PlayUnchanged

PlayerStep(t) ==
    \/ CheckPasses(t) \/ CheckFails(t) \/ Mark(t) \/ CopyWave(t)
    \/ WriteWave(t) \/ CannotPlay(t) \/ PlayDone(t)

-----------------------------------------------------------------------------
(* PlayLoop.  It reads the global handle anew in every round: a thread     *)
(* that outlives its dialog sees the event of the next one.                *)

LoopUnchanged == UNCHANGED <<playVars, open, dialog, m_bPlayLoop, LoopDialogPlayLoop, crashed>>

LoopOpens(l) ==
    /\ LooperAt(l, "begun", "wait")
    /\ UNCHANGED driver /\ LoopUnchanged

LoopCannotOpen(l) ==
    /\ LooperAt(l, "begun", "idle")
    /\ UNCHANGED driver /\ LoopUnchanged

(* A round for as long as the dialog is there.                             *)
RoundWhileDialog(l) ==
    /\ dialog
    /\ LooperAt(l, "wait", "write")
    /\ UNCHANGED driver /\ LoopUnchanged

Round(l) ==
    /\ LoopDialogPlayLoop = "set"
    /\ LooperAt(l, "wait", "write")
    /\ UNCHANGED driver /\ LoopUnchanged

(* The buffer and its header are written again while the driver may still  *)
(* hold them from the last round; the driver may refuse.                   *)
WriteLoop(l) ==
    /\ LooperAt(l, "write", "wait")
    /\ driver' \in {driver, driver \cup {l}}
    /\ LoopUnchanged

LastRound(l) ==
    /\ LoopDialogPlayLoop # "set"
    /\ LooperAt(l, "wait", "leave")
    /\ UNCHANGED driver /\ LoopUnchanged

(* Closed without a reset: the driver refuses to close and plays on.       *)
LeaveWithoutReset(l) ==
    /\ LooperAt(l, "leave", "idle")
    /\ UNCHANGED driver /\ LoopUnchanged

(* waveOutReset returns the buffers, waveOutClose.                         *)
Leave(l) ==
    /\ LooperAt(l, "leave", "idle")
    /\ driver' = driver \ {l}
    /\ LoopUnchanged

LooperStep(l) ==
    \/ LoopOpens(l) \/ LoopCannotOpen(l) \/ Round(l)
    \/ WriteLoop(l) \/ LastRound(l) \/ Leave(l)

-----------------------------------------------------------------------------
(* The audio driver has played a buffer to its end.                        *)
BufferPlayed(t) ==
    /\ t \in driver
    /\ driver' = driver \ {t}
    /\ UNCHANGED <<playVars, loopVars, open, crashed>>

Init ==
    /\ AudioPlayingEvent = FALSE
    /\ player = [t \in Players |-> "idle"]
    /\ stale = {}
    /\ open = FALSE /\ dialog = FALSE
    /\ m_bPlayLoop = FALSE /\ LoopDialogPlayLoop = "closed"
    /\ looper = [l \in Loopers |-> "idle"]
    /\ driver = {}
    /\ crashed = FALSE /\ raced = FALSE

Click ==
    \/ \E t \in Players : OnPlayAudio(t)
    \/ OnCloseWindow \/ OnOpenDocument
    \/ OnInitDialog \/ EndDialog
    \/ \E l \in Loopers : PlayLoopOn(l)
    \/ PlayLoopOff
    \/ \E t \in Players : BoxClosed(t)

Next ==
    /\ ~crashed
    /\ \/ Click
       \/ \E t \in Players : PlayerStep(t)
       \/ \E l \in Loopers : LooperStep(l)
       \/ \E t \in Players \cup Loopers : BufferPlayed(t)

(* Windows runs every thread that can run, and an audio device plays a     *)
(* finite buffer to its end.  Nothing is assumed of the user.              *)
Fairness ==
    /\ \A t \in Players : WF_vars(~crashed /\ PlayerStep(t))
    /\ \A l \in Loopers : WF_vars(~crashed /\ LooperStep(l))
    /\ \A t \in Players : WF_vars(~crashed /\ BufferPlayed(t))

Spec == Init /\ [][Next]_vars /\ Fairness

-----------------------------------------------------------------------------
PlayerPlaces == {"idle", "begun", "passed", "marked", "copied", "playing", "box"}
LooperPlaces == {"idle", "begun", "wait", "write", "leave"}

(* Every thread is in a place the two functions have, the event of the     *)
(* dialog is set, reset or closed, and the driver holds buffers of known   *)
(* threads only.                                                           *)
TypeOK ==
    /\ AudioPlayingEvent \in BOOLEAN
    /\ player \in [Players -> PlayerPlaces]
    /\ stale \in SUBSET Players
    /\ open \in BOOLEAN /\ dialog \in BOOLEAN
    /\ m_bPlayLoop \in BOOLEAN
    /\ LoopDialogPlayLoop \in {"closed", "set", "unset"}
    /\ looper \in [Loopers -> LooperPlaces]
    /\ driver \in SUBSET (Players \cup Loopers)
    /\ crashed \in BOOLEAN /\ raced \in BOOLEAN

(* The threads between SetEvent and ResetEvent.                            *)
Busy == {t \in Players : player[t] \in {"marked", "copied", "playing", "box"}}

(* Unless two threads passed the check of PlayWaveData side by side, at    *)
(* most one plays, and the event is set exactly while one does: a refused  *)
(* thread disturbs nobody, and every way out of the function resets the    *)
(* event (wavesamples.cpp:133-138, 161-231, 259).  A race heals once all   *)
(* threads have ended.                                                     *)
OnePlayer ==
    ~raced =>
        /\ AudioPlayingEvent = (Busy # {})
        /\ \A s, t \in Busy : s = t

(* Even after a race the event does not stay set when nothing plays: the   *)
(* play button is never dead (OnPlayAudio looks at the event alone).       *)
ButtonAlive == Busy = {} => ~AudioPlayingEvent

(* Both functions give the driver a buffer on their stack; it is back      *)
(* before the thread ends (the wait for WHDR_DONE in PlayWaveData,         *)
(* waveOutReset in PlayLoop).                                              *)
BufferOutlivesDriver ==
    /\ \A t \in driver \cap Players : player[t] = "playing"
    /\ \A l \in driver \cap Loopers : looper[l] \in {"wait", "write", "leave"}

(* No loop thread begins another round once the button is up or the        *)
(* dialog is gone, not even one that outlived its dialog.                  *)
RoundOnlyWhenOn ==
    [][\A l \in Loopers : looper[l] = "wait" /\ looper'[l] = "write" => m_bPlayLoop]_vars

(* What was begun ends: the event is reset, unless the thread waits in a   *)
(* message box for the user.                                               *)
PlayEnds ==
    AudioPlayingEvent
        ~> (~AudioPlayingEvent \/ crashed \/ \E t \in Players : player[t] = "box")

(* When the button stays up, or the dialog closed, all loop threads end.   *)
LoopStops == ~m_bPlayLoop ~> (m_bPlayLoop \/ crashed \/ \A l \in Loopers : looper[l] = "idle")
=============================================================================
