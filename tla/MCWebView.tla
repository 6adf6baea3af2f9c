----------------------------- MODULE MCWebView -----------------------------
(***************************************************************************)
(* The controllers of the WebView, one at a time: the preferences, the     *)
(* client of a stream, the chat page and the back gesture share no state,  *)
(* so a behaviour is that of the one that "which" names.                   *)
(***************************************************************************)
EXTENDS Preferences, StreamClient, ChatPage, BackGesture

CONSTANT Views   \* the controllers to check

VARIABLE which

MCVisits == <<"a", "b">>

MCInit ==
  /\ which \in Views /\ ClientInit /\ PageInit /\ GestureInit
  /\ PrefInit /\ (which # "preferences" => settings.value.provider = "openai")

MCNext ==
  \/ /\ which = "preferences" /\ PrefNext
     /\ UNCHANGED <<which, clientVars, pageVars, gestureVars>>
  \/ /\ which = "client" /\ ClientNext
     /\ UNCHANGED <<which, prefVars, pageVars, gestureVars>>
  \/ /\ which = "page" /\ PageNext
     /\ UNCHANGED <<which, prefVars, clientVars, gestureVars>>
  \/ /\ which = "gesture" /\ GestureNext
     /\ UNCHANGED <<which, prefVars, clientVars, pageVars>>
-----------------------------------------------------------------------------
(* Fairness: what the JavaScript event loop and the native side get round  *)
(* to.  The user owes nothing, except to let go of a pointer.              *)

\* Timers fire, commands are answered and the write queue runs.
PreferencesFair ==
  WF_prefVars(/\ which = "preferences"
              /\ \/ LoadPreferences \/ HydrationEnds \/ RetryContinues \/ TimerFires \/ TaskStarts
                 \/ TaskHydrated \/ SavePreferences \/ WriteSettles)

\* Promises settle, timers fire, commands are answered and the bridge ends every
\* stream (RowSettles of StreamBridge).
IsClient == which = "client"
ClientFair ==
  /\ WF_clientVars(IsClient /\ NatStart) /\ WF_clientVars(IsClient /\ NatCancel)
  /\ WF_clientVars(IsClient /\ \E kind \in {"completed", "cancelled", "failed"} : NatTerminal(kind))
  /\ WF_clientVars(/\ IsClient
                   /\ \/ TaskBegins \/ SnapshotRead \/ PollApplies \/ TerminalChecked
                      \/ AckReturns \/ AckCancelled)
  /\ WF_clientVars(IsClient /\ StartResolves) /\ WF_clientVars(IsClient /\ Receive)
  /\ WF_clientVars(IsClient /\ RecoveryPoll)
  /\ WF_clientVars(IsClient /\ CancelSends) /\ WF_clientVars(IsClient /\ CancelReturns)

\* Storage commands are answered; native turns start, end and are reported.
IsPage == which = "page"
PageFair ==
  /\ WF_pageVars(IsPage /\ \E l \in loads : LoadReads(l))
  /\ WF_pageVars(IsPage /\ \E l \in loads : InitReturns(l) \/ ReloadReturns(l) \/ OlderReturns(l))
  /\ \A k \in 1 .. MaxSends :
       /\ WF_pageVars(IsPage /\ TurnStarts(k)) /\ WF_pageVars(IsPage /\ TurnEnds(k))
       /\ WF_pageVars(IsPage /\ OnStarted(k)) /\ WF_pageVars(IsPage /\ OnTerminal(k))

\* Timers fire, the host ends its gestures, and the user lets go of a pointer.
IsGesture == which = "gesture"
GestureFair ==
  /\ SF_gestureVars(IsGesture /\ \E fast \in BOOLEAN : Up(fast))
  /\ WF_gestureVars(IsGesture /\ ReleaseEnds)
  /\ WF_gestureVars(IsGesture /\ \E fast \in BOOLEAN : WheelTimer(fast))
  /\ WF_gestureVars(IsGesture /\ NativeCommit)
  /\ WF_gestureVars(IsGesture /\ \E kind \in {"cancel", "commit"} : NativeProgress(kind, 0))

MCSpec ==
  /\ MCInit /\ [][MCNext]_<<which, prefVars, clientVars, pageVars, gestureVars>>
  /\ PreferencesFair /\ ClientFair /\ PageFair /\ GestureFair
-----------------------------------------------------------------------------
\* Nothing stays half done on the screen: the saving mark goes out, a started
\* stream gets its outcome, a character opened while no stream is left behind its
\* chat, a page of older messages arrives or fails, and a swipe comes to rest.
WebViewSettles ==
  SavingEnds /\ ClientSettles /\ QuietChatBecomesReady /\ OlderLoadEnds /\ SwipeSettles
=============================================================================
