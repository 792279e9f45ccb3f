--------------------------- MODULE PlayingProofs ---------------------------
(***************************************************************************)
(* Proofs about Playing, for any number of threads of either kind.         *)
(*                                                                         *)
(* The mutual exclusion of PlayWaveData rests on an event that is tested   *)
(* in one step and set in the next.  OneInside says what that is worth:    *)
(* without a race only one thread is past the test, and the event tells    *)
(* whether it has been set.  A race ends when its last thread returns;     *)
(* that everything is in order then needs ButtonAlive, which holds with    *)
(* and without a race.                                                     *)
(***************************************************************************)
EXTENDS Playing, TLAPS

Inside == {t \in Players : player[t] = "passed"} \cup Busy

(* Who is past the test is alone, and sets the event before it goes on.    *)
OneInside ==
    ~raced => /\ \A s, t \in Inside : s = t
              /\ Busy # {} => AudioPlayingEvent

(* The event of the dialog follows its button.                             *)
EventFollowsButton == LoopDialogPlayLoop = "set" => m_bPlayLoop

IInv == TypeOK /\ ButtonAlive /\ OneInside

-----------------------------------------------------------------------------
LEMMA TypeInit == Init => TypeOK
BY DEF Init, TypeOK, PlayerPlaces, LooperPlaces

LEMMA TypeStep == TypeOK /\ [Next]_vars => TypeOK'
<1> SUFFICES ASSUME TypeOK, [Next]_vars PROVE TypeOK'
  OBVIOUS
<1> USE DEF TypeOK, PlayerPlaces, LooperPlaces, PlayerAt, LooperAt, playVars, loopVars
<1>1. CASE Click
  BY <1>1 DEF Click, OnPlayAudio, OnCloseWindow, OnOpenDocument, OnInitDialog, EndDialog,
              PlayLoopOn, PlayLoopOff, BoxClosed, PlayReturns, PlayUnchanged
<1>2. ASSUME NEW t \in Players, PlayerStep(t) PROVE TypeOK'
  <2>1. CASE CheckPasses(t)
    BY <2>1 DEF CheckPasses, PlayUnchanged
  <2>2. CASE CheckFails(t)
    BY <2>2 DEF CheckFails, PlayReturns, PlayUnchanged
  <2>3. CASE Mark(t)
    BY <2>3 DEF Mark, PlayUnchanged
  <2>4. CASE CopyWave(t)
    BY <2>4 DEF CopyWave, PlayUnchanged
  <2>5. CASE WriteWave(t) \/ CannotPlay(t)
    BY <2>5 DEF WriteWave, CannotPlay, PlayUnchanged
  <2>6. CASE PlayDone(t)
    BY <2>6 DEF PlayDone, PlayReturns, PlayUnchanged
  <2> QED
    BY <1>2, <2>1, <2>2, <2>3, <2>4, <2>5, <2>6 DEF PlayerStep
<1>3. CASE \E l \in Loopers : LooperStep(l)
  BY <1>3 DEF LooperStep, LoopOpens, LoopCannotOpen, Round, WriteLoop, LastRound, Leave,
              LoopUnchanged
<1>4. CASE \E t \in Players \cup Loopers : BufferPlayed(t)
  BY <1>4 DEF BufferPlayed
<1>5. CASE UNCHANGED vars
  BY <1>5 DEF vars
<1> QED
  BY <1>1, <1>2, <1>3, <1>4, <1>5 DEF Next

(* The program stays within its states (Playing.TypeOK).                   *)
THEOREM TypeCorrect == Spec => []TypeOK
<1> QED
  BY TypeInit, TypeStep, PTL DEF Spec

-----------------------------------------------------------------------------
LEMMA InsideInit == Init => ButtonAlive /\ OneInside
BY DEF Init, ButtonAlive, OneInside, Inside, Busy

(* Only the threads of PlayWaveData and their message boxes touch what the *)
(* two invariants speak of.                                                *)
LEMMA InsideFrame ==
  ASSUME ButtonAlive, OneInside, UNCHANGED <<AudioPlayingEvent, raced>>,
         \A s \in Players : player'[s] = player[s] \/ {player[s], player'[s]} = {"idle", "begun"}
  PROVE  ButtonAlive' /\ OneInside'
<1>1. Busy' = Busy /\ Inside' = Inside
  BY DEF Busy, Inside
<1> QED
  BY <1>1 DEF ButtonAlive, OneInside

(* A thread that returns leaves the others as they are.                    *)
LEMMA ReturnKeeps ==
  ASSUME NEW t \in Players, NEW here \in PlayerPlaces \ {"idle"}, TypeOK, PlayReturns(t, here)
  PROVE  /\ Busy' = Busy \ {t} /\ Inside' = Inside \ {t}
         /\ raced /\ ~raced' => Inside \ {t} = {}
         /\ raced' => raced
<1>1. /\ player[t] = here /\ player' = [player EXCEPT ![t] = "idle"]
      /\ raced' = (raced /\ \E other \in Players \ {t} : player[other] # "idle")
  BY DEF PlayReturns, PlayerAt
<1>2. Busy' = Busy \ {t} /\ Inside' = Inside \ {t}
  BY <1>1 DEF TypeOK, Busy, Inside
<1>3. raced' => raced
  BY <1>1 DEF TypeOK
<1>4. ASSUME raced, ~raced' PROVE Inside \ {t} = {}
  <2>1. \A other \in Players \ {t} : player[other] = "idle"
    BY <1>1, <1>4 DEF TypeOK
  <2> QED
    BY <2>1 DEF Inside, Busy
<1> QED
  BY <1>2, <1>3, <1>4

(* A thread that resets the event on its way out was the only one inside,  *)
(* unless there was a race.                                                *)
LEMMA ResetKeeps ==
  ASSUME NEW t \in Players, NEW here \in {"box", "playing"}, IInv, PlayReturns(t, here),
         AudioPlayingEvent' = FALSE
  PROVE  ButtonAlive' /\ OneInside'
<1>1. /\ Busy' = Busy \ {t} /\ Inside' = Inside \ {t}
      /\ raced /\ ~raced' => Inside \ {t} = {}
      /\ raced' => raced
  BY ReturnKeeps DEF IInv, PlayerPlaces
<1>2. t \in Inside /\ Busy \subseteq Inside
  BY DEF PlayReturns, PlayerAt, Inside, Busy
<1>3. ~raced' => Inside' = {}
  BY <1>1, <1>2 DEF IInv, OneInside
<1> QED
  BY <1>1, <1>2, <1>3 DEF ButtonAlive, OneInside

LEMMA InsideStep == IInv /\ [Next]_vars => ButtonAlive' /\ OneInside'
<1> SUFFICES ASSUME IInv, [Next]_vars PROVE ButtonAlive' /\ OneInside'
  OBVIOUS
<1> USE DEF PlayerAt, playVars
<1>1. CASE Click
  <2>1. CASE \E t \in Players : BoxClosed(t)
    BY <2>1, ResetKeeps DEF BoxClosed
  <2>2. CASE \E t \in Players : OnPlayAudio(t)
    BY <2>2, InsideFrame DEF OnPlayAudio, IInv, TypeOK
  <2>3. CASE OnCloseWindow \/ OnOpenDocument \/ OnInitDialog \/ EndDialog
               \/ (\E l \in Loopers : PlayLoopOn(l)) \/ PlayLoopOff
    <3>1. UNCHANGED <<AudioPlayingEvent, raced, player>>
      BY <2>3 DEF OnCloseWindow, OnOpenDocument, OnInitDialog, EndDialog, PlayLoopOn, PlayLoopOff
    <3> QED
      BY <3>1, InsideFrame DEF IInv
  <2> QED
    BY <1>1, <2>1, <2>2, <2>3 DEF Click
<1>2. ASSUME NEW t \in Players, PlayerStep(t) PROVE ButtonAlive' /\ OneInside'
  <2>1. CASE CheckPasses(t)
    <3>1. Busy' = Busy /\ Inside' = Inside \cup {t}
      BY <2>1 DEF CheckPasses, IInv, TypeOK, Busy, Inside
    <3>2. ASSUME ~raced' PROVE ~raced /\ Inside = {}
      <4>1. ~raced /\ \A other \in Players : player[other] # "passed"
        BY <2>1, <3>2 DEF CheckPasses, IInv, TypeOK
      <4>2. Busy = {}
        BY <2>1, <4>1 DEF CheckPasses, IInv, OneInside
      <4> QED
        BY <4>1, <4>2 DEF Inside
    <3> QED
      BY <2>1, <3>1, <3>2 DEF CheckPasses, IInv, ButtonAlive, OneInside, Inside
  <2>2. CASE CheckFails(t)
    <3>1. /\ Busy' = Busy \ {t} /\ Inside' = Inside \ {t}
          /\ raced /\ ~raced' => Inside \ {t} = {}
      BY <2>2, ReturnKeeps DEF CheckFails, IInv, PlayerPlaces
    <3>2. Busy # {} /\ t \notin Inside /\ Busy \subseteq Inside
      BY <2>2 DEF CheckFails, PlayReturns, IInv, ButtonAlive, Inside, Busy
    <3>3. raced => raced'
      BY <3>1, <3>2
    <3> QED
      BY <2>2, <3>1, <3>2, <3>3 DEF CheckFails, IInv, ButtonAlive, OneInside
  <2>3. CASE Mark(t)
    <3>1. Busy' = Busy \cup {t} /\ Inside' = Inside
      BY <2>3 DEF Mark, IInv, TypeOK, Busy, Inside
    <3> QED
      BY <2>3, <3>1 DEF Mark, IInv, ButtonAlive, OneInside
  <2>4. CASE CopyWave(t) \/ WriteWave(t) \/ CannotPlay(t)
    <3>1. Busy' = Busy /\ Inside' = Inside
      BY <2>4 DEF CopyWave, WriteWave, CannotPlay, IInv, TypeOK, Busy, Inside
    <3>2. UNCHANGED <<AudioPlayingEvent, raced>>
      BY <2>4 DEF CopyWave, WriteWave, CannotPlay
    <3> QED
      BY <3>1, <3>2 DEF IInv, ButtonAlive, OneInside
  <2>5. CASE PlayDone(t)
    BY <2>5, ResetKeeps DEF PlayDone
  <2> QED
    BY <1>2, <2>1, <2>2, <2>3, <2>4, <2>5 DEF PlayerStep
<1>3. CASE \/ \E l \in Loopers : LooperStep(l)
           \/ \E t \in Players \cup Loopers : BufferPlayed(t)
           \/ UNCHANGED vars
  <2>1. UNCHANGED <<AudioPlayingEvent, raced, player>>
    BY <1>3 DEF LooperStep, LoopOpens, LoopCannotOpen, Round, WriteLoop, LastRound, Leave,
                LoopUnchanged, BufferPlayed, vars
  <2> QED
    BY <2>1, InsideFrame DEF IInv
<1> QED
  BY <1>1, <1>2, <1>3 DEF Next

LEMMA Invariance == Spec => []IInv
<1>1. Init => IInv
  BY TypeInit, InsideInit DEF IInv
<1>2. IInv /\ [Next]_vars => IInv'
  BY TypeStep, InsideStep DEF IInv
<1> QED
  BY <1>1, <1>2, PTL DEF Spec

(* For any number of play threads: without a race at most one plays, and   *)
(* the event tells whether one does (Playing.OnePlayer).                   *)
THEOREM Exclusive == Spec => []OnePlayer
<1>1. IInv => OnePlayer
  BY DEF IInv, TypeOK, ButtonAlive, OneInside, Inside, OnePlayer
<1> QED
  BY <1>1, Invariance, PTL

(* Race or not, the event is not left set behind the last thread.          *)
THEOREM NeverStuck == Spec => []ButtonAlive
BY Invariance, PTL DEF IInv

-----------------------------------------------------------------------------
(* The buffers on the threads' stacks: the driver has them back before a   *)
(* thread of either kind ends (Playing.BufferOutlivesDriver).              *)
THEOREM StackOutlivesDriver == Spec => []BufferOutlivesDriver
<1>1. Init => BufferOutlivesDriver
  BY DEF Init, BufferOutlivesDriver
<1>2. TypeOK /\ BufferOutlivesDriver /\ [Next]_vars => BufferOutlivesDriver'
  <2> SUFFICES ASSUME TypeOK, BufferOutlivesDriver, [Next]_vars PROVE BufferOutlivesDriver'
    OBVIOUS
  <2> USE PlayingAssumption DEF TypeOK, BufferOutlivesDriver, PlayerAt, LooperAt, playVars, loopVars
  <2>1. CASE Click
    BY <2>1 DEF Click, OnPlayAudio, OnCloseWindow, OnOpenDocument, OnInitDialog, EndDialog,
                PlayLoopOn, PlayLoopOff, BoxClosed, PlayReturns, PlayUnchanged
  <2>2. ASSUME NEW t \in Players, PlayerStep(t) PROVE BufferOutlivesDriver'
    <3>1. CASE CheckPasses(t) \/ Mark(t) \/ CannotPlay(t)
      BY <3>1 DEF CheckPasses, Mark, CannotPlay, PlayUnchanged
    <3>2. CASE CopyWave(t)
      BY <3>2 DEF CopyWave, PlayUnchanged
    <3>3. CASE WriteWave(t)
      BY <3>3 DEF WriteWave, PlayUnchanged
    <3>4. CASE CheckFails(t) \/ PlayDone(t)
      BY <3>4 DEF CheckFails, PlayDone, PlayReturns, PlayUnchanged
    <3> QED
      BY <2>2, <3>1, <3>2, <3>3, <3>4 DEF PlayerStep
  <2>3. ASSUME NEW l \in Loopers, LooperStep(l) PROVE BufferOutlivesDriver'
    BY <2>3 DEF LooperStep, LoopOpens, LoopCannotOpen, Round, WriteLoop, LastRound, Leave,
                LoopUnchanged
  <2>4. CASE (\E t \in Players \cup Loopers : BufferPlayed(t)) \/ UNCHANGED vars
    BY <2>4 DEF BufferPlayed, vars
  <2> QED
    BY <2>1, <2>2, <2>3, <2>4 DEF Next
<1> QED
  BY <1>1, <1>2, TypeCorrect, PTL DEF Spec

(* A loop thread starts a round only while the button of an open dialog is *)
(* down, whichever dialog began it (Playing.RoundOnlyWhenOn).              *)
THEOREM SilentWhenOff == Spec => RoundOnlyWhenOn
<1>1. Init => EventFollowsButton
  BY DEF Init, EventFollowsButton
<1>2. EventFollowsButton /\ [Next]_vars => EventFollowsButton'
  <2> SUFFICES ASSUME EventFollowsButton, [Next]_vars PROVE EventFollowsButton'
    OBVIOUS
  <2> USE DEF EventFollowsButton, loopVars
  <2>1. CASE Click
    BY <2>1 DEF Click, OnPlayAudio, OnCloseWindow, OnOpenDocument, OnInitDialog, EndDialog,
                PlayLoopOn, PlayLoopOff, BoxClosed, PlayUnchanged
  <2>2. CASE ~Click
    <3>1. UNCHANGED <<m_bPlayLoop, LoopDialogPlayLoop>>
      BY <2>2 DEF Next, PlayerStep, CheckPasses, CheckFails, Mark, CopyWave, WriteWave, CannotPlay,
                  PlayDone, PlayUnchanged, LooperStep, LoopOpens, LoopCannotOpen, Round, WriteLoop,
                  LastRound, Leave, LoopUnchanged, BufferPlayed, vars
    <3> QED
      BY <3>1
  <2> QED
    BY <2>1, <2>2
<1>3. TypeOK /\ EventFollowsButton /\ [Next]_vars
        => [\A l \in Loopers : looper[l] = "wait" /\ looper'[l] = "write" => m_bPlayLoop]_vars
  <2> SUFFICES ASSUME TypeOK, EventFollowsButton, Next, NEW l \in Loopers,
                      looper[l] = "wait", looper'[l] = "write"
               PROVE  m_bPlayLoop
    BY DEF vars
  <2>1. looper' # looper
    OBVIOUS
  <2>2. ~Click
    BY DEF Click, OnPlayAudio, OnCloseWindow, OnOpenDocument, OnInitDialog, EndDialog, PlayLoopOn,
           PlayLoopOff, BoxClosed, PlayUnchanged, LooperAt, TypeOK, loopVars
  <2>3. PICK k \in Loopers : LooperStep(k)
    BY <2>1, <2>2 DEF Next, PlayerStep, CheckPasses, CheckFails, Mark, CopyWave, WriteWave,
                      CannotPlay, PlayDone, PlayUnchanged, BufferPlayed, loopVars
  <2>4. LoopDialogPlayLoop = "set"
    BY <2>3 DEF LooperStep, LoopOpens, LoopCannotOpen, Round, WriteLoop, LastRound, Leave,
                LooperAt, TypeOK
  <2> QED
    BY <2>4 DEF EventFollowsButton
<1> QED
  BY <1>1, <1>2, <1>3, TypeCorrect, PTL DEF Spec, RoundOnlyWhenOn

=============================================================================
