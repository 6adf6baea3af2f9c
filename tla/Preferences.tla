----------------------------- MODULE Preferences -----------------------------
(***************************************************************************)
(* The preferences controller of the WebView                               *)
(* (apps/desktop-mobile/src/lib/storage/app-preferences.svelte.ts), the    *)
(* commands it calls and Store::load_preferences and save_preferences.     *)
(*                                                                         *)
(* Edits are shown at once and written behind: a timer queues a write on   *)
(* writeTail, each write waits for hydration, and a save carries the       *)
(* revision the client knows.  Loads and saves are round trips.            *)
(***************************************************************************)
EXTENDS Naturals

CONSTANTS
  MaxEdits,    \* edits by the user
  MaxForeign,  \* saves by somebody else
  PrefFaults,  \* failing storage calls
  MaxQueued    \* writes waiting when flush or retry queues another

ASSUME PrefAssumption ==
  MaxEdits \in Nat /\ MaxForeign \in Nat /\ PrefFaults \in Nat /\ MaxQueued \in Nat

Fields == {"provider", "theme"}
\* "legacy" is a provider that is not first-chat-ready.
FieldValues(f) == IF f = "provider" THEN {"openai", "gemini"} ELSE {"system", "dark"}

VARIABLES
  settings,   \* the singleton row: [value, revision]
  ctl,        \* the controller's variables
  load,       \* the round trip of getAppPreferences
  write,      \* the task at the head of writeTail
  queued,     \* tasks behind it
  retrying,   \* retry is waiting for its hydration
  lastEdit,   \* the user's latest choice of each field
  prefLeft,   \* [edits, foreign, faults] still to come
  conflict    \* a save met another revision

prefVars == <<settings, ctl, load, write, queued, retrying, lastEdit, prefLeft, conflict>>

DefaultPreferences == [f \in Fields |-> IF f = "provider" THEN "openai" ELSE "system"]
NoLoad == [st |-> "none", value |-> DefaultPreferences, revision |-> 0]
NoWrite == [st |-> "none", value |-> DefaultPreferences, revision |-> 0, gen |-> 0]

PrefInit ==
  /\ \E provider \in {"openai", "legacy"} :
       settings = [value |-> [DefaultPreferences EXCEPT !["provider"] = provider], revision |-> 0]
  /\ ctl = [cur |-> DefaultPreferences, hydrated |-> FALSE, unavailable |-> FALSE,
            saving |-> FALSE, revision |-> 0, gen |-> 0, persisted |-> 0, timer |-> FALSE,
            touched |-> {}]
  /\ load = NoLoad /\ write = NoWrite /\ queued = 0 /\ retrying = FALSE
  /\ lastEdit = DefaultPreferences /\ conflict = FALSE
  /\ prefLeft = [edits |-> MaxEdits, foreign |-> MaxForeign, faults |-> PrefFaults]
-----------------------------------------------------------------------------
(* Hydration.                                                              *)

\* hydrate: nothing to do, joined to the load in flight, or started.
Hydrated(c) == IF (c.hydrated /\ ~c.unavailable) \/ load.st # "none"
               THEN load ELSE [load EXCEPT !.st = "sent"]

LoadPreferences ==
  /\ load.st = "sent"
  /\ \/ /\ load' = [st |-> "read", value |-> settings.value, revision |-> settings.revision]
        /\ UNCHANGED prefLeft
     \/ /\ prefLeft.faults > 0 /\ prefLeft' = [prefLeft EXCEPT !.faults = @ - 1]
        /\ load' = [load EXCEPT !.st = "failed"]
  /\ UNCHANGED <<settings, ctl, write, queued, retrying, lastEdit, conflict>>

\* Mutant: what was loaded replaces the edits made meanwhile.
TakeLoaded(loaded) == loaded

\* mergeHydratedPreferences: a field the user touched keeps the local value.
Merged(loaded) == [f \in Fields |-> IF f \in ctl.touched THEN ctl.cur[f] ELSE loaded[f]]
Migrated(value) == [value EXCEPT !["provider"] = IF @ = "legacy" THEN "openai" ELSE @]

\* The continuation of the load: a migrated provider is an edit of its own, and
\* pending edits are scheduled.
HydrationEnds ==
  /\ load.st \in {"read", "failed"}
  /\ IF load.st = "failed"
     THEN ctl' = [ctl EXCEPT !.hydrated = TRUE, !.unavailable = TRUE, !.saving = FALSE]
     ELSE LET merged == Merged(load.value)
              moved == Migrated(merged) # merged
              gen == IF moved THEN ctl.gen + 1 ELSE ctl.gen
          IN ctl' = [ctl EXCEPT !.revision = load.revision, !.hydrated = TRUE,
                                !.unavailable = FALSE, !.cur = Migrated(merged), !.gen = gen,
                                !.saving = @ \/ moved, !.timer = @ \/ gen # 0,
                                !.persisted = IF gen = 0 THEN 0 ELSE @]
  /\ load' = NoLoad
  /\ UNCHANGED <<settings, write, queued, retrying, lastEdit, prefLeft, conflict>>
-----------------------------------------------------------------------------
(* The user.                                                               *)

\* update, through setProvider, setTheme, setDefaultMode and setModelId.
Edit(f, choice) ==
  /\ prefLeft.edits > 0 /\ prefLeft' = [prefLeft EXCEPT !.edits = @ - 1]
  /\ ctl' = [ctl EXCEPT !.touched = @ \cup {f}, !.gen = @ + 1, !.saving = TRUE,
                        !.cur = [@ EXCEPT ![f] = choice], !.timer = TRUE]
  /\ lastEdit' = [lastEdit EXCEPT ![f] = choice]
  /\ load' = Hydrated(ctl)
  /\ UNCHANGED <<settings, write, queued, retrying, conflict>>

\* The page calls hydrate when it is mounted.
Mount ==
  /\ ~ctl.hydrated /\ load.st = "none" /\ load' = Hydrated(ctl)
  /\ UNCHANGED <<settings, ctl, write, queued, retrying, lastEdit, prefLeft, conflict>>

\* retry: write again, or load again and then write.
Retry ==
  /\ ~retrying
  /\ LET pending == ctl.persisted < ctl.gen IN
     IF ~ctl.unavailable /\ ctl.hydrated
     THEN /\ ctl' = [ctl EXCEPT !.timer = FALSE, !.saving = @ \/ pending]
          /\ queued' = IF pending THEN queued + 1 ELSE queued
          /\ UNCHANGED <<load, retrying>>
     ELSE /\ ctl' = [ctl EXCEPT !.timer = FALSE, !.unavailable = FALSE, !.hydrated = FALSE,
                                !.saving = pending]
          /\ load' = Hydrated(ctl') /\ retrying' = TRUE /\ UNCHANGED queued
  /\ queued < MaxQueued
  /\ UNCHANGED <<settings, write, lastEdit, prefLeft, conflict>>

RetryContinues ==
  /\ retrying /\ load.st = "none" /\ retrying' = FALSE
  /\ IF ~ctl.unavailable /\ ctl.persisted < ctl.gen
     THEN ctl' = [ctl EXCEPT !.saving = TRUE, !.timer = FALSE] /\ queued' = queued + 1
     ELSE UNCHANGED <<ctl, queued>>
  /\ UNCHANGED <<settings, load, write, lastEdit, prefLeft, conflict>>

\* flush queues a write at once, pending edits or not.
Flush ==
  /\ queued < MaxQueued
  /\ ctl' = [ctl EXCEPT !.timer = FALSE] /\ queued' = queued + 1
  /\ UNCHANGED <<settings, load, write, retrying, lastEdit, prefLeft, conflict>>
-----------------------------------------------------------------------------
(* Writing behind.                                                         *)

TimerFires ==
  /\ ctl.timer /\ ctl' = [ctl EXCEPT !.timer = FALSE] /\ queued' = queued + 1
  /\ UNCHANGED <<settings, load, write, retrying, lastEdit, prefLeft, conflict>>

\* The body of a task once the client is hydrated.
Send ==
  IF ctl.unavailable \/ ctl.persisted >= ctl.gen
  THEN ctl' = [ctl EXCEPT !.saving = FALSE] /\ write' = NoWrite
  ELSE /\ ctl' = [ctl EXCEPT !.saving = TRUE]
       /\ write' = [st |-> "sent", value |-> ctl.cur, revision |-> ctl.revision, gen |-> ctl.gen]

TaskStarts ==
  /\ queued > 0 /\ write.st = "none" /\ queued' = queued - 1
  /\ IF ctl.hydrated THEN Send /\ UNCHANGED load
     ELSE write' = [NoWrite EXCEPT !.st = "hydrating"] /\ load' = Hydrated(ctl) /\ UNCHANGED ctl
  /\ UNCHANGED <<settings, retrying, lastEdit, prefLeft, conflict>>

TaskHydrated ==
  /\ write.st = "hydrating" /\ load.st = "none" /\ Send
  /\ UNCHANGED <<settings, load, queued, retrying, lastEdit, prefLeft, conflict>>

\* save_preferences: UPDATE ... WHERE revision = expected, or SETTINGS_CONFLICT.
SavePreferences ==
  /\ write.st = "sent"
  /\ \/ /\ write.revision = settings.revision
        /\ settings' = [value |-> write.value, revision |-> settings.revision + 1]
        /\ write' = [write EXCEPT !.st = "ok", !.revision = @ + 1]
        /\ UNCHANGED <<prefLeft, conflict>>
     \/ /\ write.revision # settings.revision /\ conflict' = TRUE
        /\ write' = [write EXCEPT !.st = "failed"] /\ UNCHANGED <<settings, prefLeft>>
     \/ /\ prefLeft.faults > 0 /\ prefLeft' = [prefLeft EXCEPT !.faults = @ - 1]
        /\ write' = [write EXCEPT !.st = "failed"] /\ UNCHANGED <<settings, conflict>>
  /\ UNCHANGED <<ctl, load, queued, retrying, lastEdit>>

\* The continuation: only the generation that was written is persisted, and only
\* if it is still the latest is the answer shown.
WriteSettles ==
  /\ write.st \in {"ok", "failed"}
  /\ ctl' = IF write.st = "failed" THEN [ctl EXCEPT !.unavailable = TRUE, !.saving = FALSE]
            ELSE IF ctl.gen # write.gen
            THEN [ctl EXCEPT !.revision = write.revision, !.persisted = write.gen]
            ELSE [ctl EXCEPT !.revision = write.revision, !.persisted = write.gen,
                             !.cur = write.value, !.saving = FALSE]
  /\ write' = NoWrite
  /\ UNCHANGED <<settings, load, queued, retrying, lastEdit, prefLeft, conflict>>

\* Another window saves with the revision it read.
ForeignSave(f, choice) ==
  /\ prefLeft.foreign > 0 /\ prefLeft' = [prefLeft EXCEPT !.foreign = @ - 1]
  /\ settings' = [value |-> [settings.value EXCEPT ![f] = choice],
                  revision |-> settings.revision + 1]
  /\ UNCHANGED <<ctl, load, write, queued, retrying, lastEdit, conflict>>

PrefNext ==
  \/ LoadPreferences \/ HydrationEnds \/ Mount \/ Retry \/ RetryContinues \/ Flush
  \/ TimerFires \/ TaskStarts \/ TaskHydrated \/ SavePreferences \/ WriteSettles
  \/ \E f \in Fields : \E choice \in FieldValues(f) : Edit(f, choice)
  \/ \E f \in Fields : \E choice \in FieldValues(f) \ {DefaultPreferences[f]} : ForeignSave(f, choice)

PrefSpec == PrefInit /\ [][PrefNext]_prefVars
-----------------------------------------------------------------------------
(* Properties.                                                             *)

\* What the user chose last is what the page shows, whichever load or answer
\* arrives after it.
EditsSurvive == \A f \in ctl.touched : ctl.cur[f] = lastEdit[f]

\* When nothing is scheduled, queued or in flight and storage answered, every
\* edit is in the row: no generation was taken for written too early.
QuietMeansStored ==
  (/\ ctl.hydrated /\ ~ctl.unavailable /\ ~ctl.timer /\ ~retrying
   /\ load.st = "none" /\ write.st = "none" /\ queued = 0)
    => /\ ctl.persisted >= ctl.gen
       /\ prefLeft.foreign = MaxForeign => settings.value = ctl.cur

\* The client never conflicts with itself: only somebody else's save can.
NoSelfConflict == conflict => prefLeft.foreign < MaxForeign

\* No load, answer or conflict takes back what the user chose, and a quiet controller has
\* stored it.
PreferencesKept ==
  EditsSurvive /\ QuietMeansStored /\ NoSelfConflict

\* The indicator goes out again, with or without success.
SavingEnds == ctl.saving ~> ~ctl.saving
=============================================================================
