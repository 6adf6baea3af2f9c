----------------------------- MODULE BackGesture -----------------------------
(***************************************************************************)
(* contentSwipeBack (apps/desktop-mobile/src/lib/ui/content-back.ts): the  *)
(* swipe that takes the user back, driven by pointers, touches, a trackpad *)
(* and the progress events of the native host (native-back.ts), with its   *)
(* release animation that any of them may interrupt.                       *)
(*                                                                         *)
(* Distances are 0, 1 (a flick may commit it) and 2 (past                  *)
(* COMMIT_FRACTION).                                                       *)
(***************************************************************************)
EXTENDS Integers

CONSTANTS
  MaxGestures,  \* downs, wheel events and native gestures
  MaxToggles    \* updates of options.enabled

VARIABLE g

gestureVars == g

GestureInit ==
  g = [phase |-> "idle", by |-> "none", d |-> 0, origin |-> 0, vis |-> FALSE, timer |-> "none",
       target |-> -1, wheel |-> "none", pending |-> FALSE, on |-> TRUE, gone |-> FALSE,
       host |-> "none", barrier |-> "none", backs |-> 0, stranded |-> FALSE, used |-> 0,
       toggles |-> 0]

Clamp(x) == IF x < 0 THEN 0 ELSE IF x > 2 THEN 2 ELSE x

\* clearPointer, clearVisuals
NoPointer(s) == [s EXCEPT !.by = "none"]
NoVisuals(s) == [s EXCEPT !.vis = FALSE, !.d = 0, !.origin = 0, !.target = -1, !.stranded = FALSE]

\* finishCancel, with animateRelease(0)
FinishCancel(s) ==
  IF s.phase # "dragging" \/ ~s.vis THEN NoPointer([s EXCEPT !.phase = "idle"])
  ELSE NoPointer([s EXCEPT !.phase = "cancelling", !.timer = "cancel", !.d = 0])

\* finishCommit, with animateRelease(1)
FinishCommit(s) ==
  IF s.phase # "dragging" \/ ~s.vis THEN s
  ELSE NoPointer([s EXCEPT !.phase = "committing", !.timer = "commit", !.d = 2])

\* abandonPossibleGesture: a release that was interrupted goes on.
Abandon(s) ==
  IF s.target = -1 \/ ~s.vis THEN NoPointer([s EXCEPT !.phase = "idle"])
  ELSE LET again == NoPointer([s EXCEPT !.phase = "dragging"]) IN
       [(IF s.target = 0 THEN FinishCancel(again) ELSE FinishCommit(again)) EXCEPT !.target = -1]

\* Mutant: the timer of the release is left running.
InterruptKeepsTimer(s, at) ==
  IF s.phase \notin {"cancelling", "committing"} THEN s
  ELSE [s EXCEPT !.target = IF s.phase = "committing" THEN 1 ELSE 0,
                 !.phase = "idle", !.d = IF s.vis THEN at ELSE @]

\* interruptRelease; at is how far the animation had come.
Interrupt(s, at) ==
  IF s.phase \notin {"cancelling", "committing"} THEN s
  ELSE [s EXCEPT !.target = IF s.phase = "committing" THEN 1 ELSE 0, !.timer = "none",
                 !.barrier = IF @ = "animating" THEN "done" ELSE @,
                 !.phase = "idle", !.d = IF s.vis THEN at ELSE @]

\* shouldCommitContentBack
Commits(s, fast) == s.d = 2 \/ (s.d = 1 /\ fast)
Released(s, fast) == IF Commits(s, fast) THEN FinishCommit(s) ELSE FinishCancel(s)
-----------------------------------------------------------------------------
Used(s) == [s EXCEPT !.used = @ + 1]
CanUse == g.used < MaxGestures /\ ~g.gone

\* handleDown, handleTouchStart
Down(kind, at) ==
  /\ CanUse /\ g.on /\ g.phase \in {"idle", "cancelling", "committing"} /\ g.by = "none"
  /\ LET s == Interrupt(g, at) IN
     g' = Used([s EXCEPT !.by = kind, !.origin = s.d, !.phase = "possible"])

\* handleMove, handleTouchMove past the slop, sideways or not.
Move(dx, sideways) ==
  /\ g.by # "none"
  /\ \/ /\ g.phase = "possible" /\ (~sideways \/ dx <= 0) /\ g' = Abandon(g)
     \/ /\ \/ g.phase = "possible" /\ sideways /\ dx > 0
           \/ g.phase = "dragging"
        /\ g' = [g EXCEPT !.phase = "dragging", !.vis = TRUE, !.d = Clamp(g.origin + dx)]

\* handleUp, handleTouchEnd
Up(fast) ==
  /\ g.by # "none" /\ g.phase \in {"possible", "dragging"}
  /\ g' = IF g.phase = "possible" THEN Abandon(g) ELSE Released(g, fast)

\* handleCancel, handleLostPointerCapture, handleTouchCancel, a second finger.
PointerCancel ==
  /\ g.by # "none" /\ g' = IF g.phase = "dragging" THEN FinishCancel(g) ELSE Abandon(g)

\* The release timer.
ReleaseEnds ==
  \/ g.timer = "cancel" /\ g' = NoVisuals([g EXCEPT !.timer = "none", !.phase = "idle"])
  \/ g.timer = "commit" /\ g' = [g EXCEPT !.timer = "none", !.backs = @ + 1]
  \/ g.timer = "native" /\ g' = [g EXCEPT !.timer = "none", !.barrier = "done"]

\* handleWheel: a horizontal event, backwards or not, past AXIS_SLOP or not.
Wheel(back, enough, at) ==
  /\ CanUse /\ g.on
  /\ LET s == Interrupt(g, at) IN
     \/ s.phase = "possible" /\ g' = Used(s)
     \/ s.phase = "idle" /\ ~back /\ g' = Used([s EXCEPT !.pending = FALSE, !.stranded = s.vis])
     \/ /\ s.phase = "idle" /\ back /\ ~enough
        /\ g' = Used([s EXCEPT !.pending = TRUE, !.wheel = "pending", !.stranded = s.vis])
     \/ /\ s.phase = "idle" /\ back /\ enough
        /\ g' = Used([s EXCEPT !.phase = "dragging", !.vis = TRUE, !.d = 1, !.origin = 0,
                               !.pending = FALSE, !.wheel = "finish"])
     \/ /\ s.phase = "dragging"
        /\ g' = Used([s EXCEPT !.d = Clamp(s.d + (IF back THEN 1 ELSE -1)),
                               !.pending = FALSE, !.wheel = "finish"])

\* The wheel timer: finishWheelGesture, or the pending distance is forgotten.
WheelTimer(fast) ==
  /\ g.wheel # "none"
  /\ LET s == [g EXCEPT !.wheel = "none", !.pending = FALSE] IN
     g' = IF g.wheel = "finish" /\ g.phase = "dragging" THEN Released(s, fast) ELSE s

\* handleNativeProgress; the host sends start, progress, then cancel or commit.
\* (A gesture that starts over an open dialog is ignored throughout.)
NativeProgress(kind, at) ==
  /\ ~g.gone /\ g.backs = 0 /\ g.barrier = "none"
  /\ \/ kind = "start" /\ g.host = "none" /\ g.used < MaxGestures
     \/ kind # "start" /\ g.host = "tracking"
  /\ LET s == [NoPointer(Interrupt(g, at)) EXCEPT
                 !.target = IF g.phase \in {"cancelling", "committing"} THEN -1 ELSE @,
                 !.vis = TRUE, !.phase = "dragging"] IN
     \/ kind = "start" /\ g' = Used([s EXCEPT !.host = "tracking", !.d = at])
     \/ kind = "progress" /\ g' = [s EXCEPT !.d = at]
     \/ kind = "cancel" /\ g' = FinishCancel([s EXCEPT !.host = "none"])
     \/ kind = "commit" /\ g' = [s EXCEPT !.host = "none", !.phase = "committing", !.d = 2,
                                          !.timer = "native", !.barrier = "animating"]

\* connectNativeBackCommit: the commit event waits for the visuals, then goes back.
NativeCommit ==
  /\ g.barrier = "done" /\ g' = [g EXCEPT !.barrier = "none", !.backs = @ + 1]

\* resetFallbackGesture
Reset(s) ==
  NoPointer(NoVisuals([s EXCEPT !.timer = "none", !.wheel = "none", !.pending = FALSE,
                                !.barrier = IF @ = "animating" THEN "done" ELSE @,
                                !.phase = "idle"]))

\* update and destroy: syncFallbackState
Update ==
  /\ g.toggles < MaxToggles /\ ~g.gone
  /\ LET s == [g EXCEPT !.on = ~@, !.toggles = @ + 1] IN g' = IF s.on THEN s ELSE Reset(s)

Unmount == g.backs > 0 /\ ~g.gone /\ g' = Reset([g EXCEPT !.gone = TRUE])

GestureNext ==
  \/ \E kind \in {"pointer", "touch"}, at \in 0 .. 2 : Down(kind, at)
  \/ \E dx \in -1 .. 2, sideways \in BOOLEAN : Move(dx, sideways)
  \/ \E fast \in BOOLEAN : Up(fast) \/ WheelTimer(fast)
  \/ PointerCancel \/ ReleaseEnds \/ NativeCommit \/ Update \/ Unmount
  \/ \E back, enough \in BOOLEAN, at \in 0 .. 2 : Wheel(back, enough, at)
  \/ \E kind \in {"start", "progress", "cancel", "commit"}, at \in 0 .. 2 : NativeProgress(kind, at)

GestureSpec == GestureInit /\ [][GestureNext]_gestureVars
-----------------------------------------------------------------------------
(* Properties.                                                             *)

\* With no gesture and no animation the page is in its place.  The one exception
\* is a wheel event that interrupts a release and is then not taken up: handleWheel
\* returns with phase "idle" and nothing to move the page back.
IdleIsClean == g.phase = "idle" /\ g.vis => g.stranded

\* A release animation always has the timer that ends it, until it has gone back.
ReleaseHasTimer ==
  /\ g.phase = "cancelling" => g.timer = "cancel"
  /\ g.phase = "committing" =>
       g.timer \in {"commit", "native"} \/ g.backs > 0 \/ g.barrier = "done"
  /\ g.timer # "none" => g.phase \in {"cancelling", "committing"}

\* Whoever interrupts a swipe, the page is not left half moved without a timer to end it.
GestureClean ==
  IdleIsClean /\ ReleaseHasTimer

\* A page that was moved comes to rest: in its place, or gone back from; whoever
\* interrupts the release (but for a stranding wheel event).
SwipeSettles == g.vis ~> (~g.vis \/ g.backs > 0 \/ g.stranded)
=============================================================================
