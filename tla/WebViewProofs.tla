--------------------------- MODULE WebViewProofs ----------------------------
(***************************************************************************)
(* Two controllers of the webview: the preferences and the back gesture,   *)
(* for any number of edits, faults and gestures.                           *)
(***************************************************************************)
EXTENDS Preferences, BackGesture, TLAPS
-----------------------------------------------------------------------------
(* Preferences                                                             *)

\* The values a preference may have.
Choices == {"openai", "gemini", "legacy", "system", "dark"}

\* Preferences as a whole.
Values == [Fields -> Choices]

\* The controller of the settings screen.
ControllerType ==
  [cur : Values, hydrated : BOOLEAN, unavailable : BOOLEAN, saving : BOOLEAN, revision : Nat,
   gen : Nat, persisted : Nat, timer : BOOLEAN, touched : SUBSET Fields]

\* A load of the preferences row.
LoadType == [st : {"none", "sent", "read", "failed"}, value : Values, revision : Nat]

\* A save of the preferences row.
WriteType ==
  [st : {"none", "hydrating", "sent", "ok", "failed"}, value : Values, revision : Nat, gen : Nat]

\* The type of the state.
PrefTypeOK ==
  /\ settings \in [value : Values, revision : Nat] /\ ctl \in ControllerType
  /\ load \in LoadType /\ write \in WriteType /\ queued \in Nat /\ retrying \in BOOLEAN
  /\ lastEdit \in Values /\ prefLeft \in [edits : Nat, foreign : Nat, faults : Nat]
  /\ conflict \in BOOLEAN

\* The controller has loaded, and the storage answers.
Ready(c) == c.hydrated /\ ~c.unavailable

\* A save is under way.
InFlight == write.st \in {"sent", "ok", "failed"}
\* What is shown: the user's choices, and never a provider that has to be migrated.
ShownOK ==
  /\ EditsSurvive /\ ctl.cur["provider"] # "legacy"
  /\ ctl.persisted <= ctl.gen /\ (ctl.gen = 0 => ctl.touched = {})
\* A save is in flight only while the client is ready, and carries what is shown or is followed.
FlightOK ==
  InFlight =>
    /\ Ready(ctl) /\ ctl.persisted < write.gen /\ write.gen <= ctl.gen
    /\ write.gen = ctl.gen => write.value = ctl.cur
    /\ write.gen < ctl.gen => ctl.timer \/ queued > 0
\* A load is in flight exactly when somebody waits for one; an unready client has all to write.
LoadOK ==
  /\ load.st # "none" => ~Ready(ctl)
  /\ ~Ready(ctl) => ctl.persisted < ctl.gen \/ ctl.gen = 0
  /\ ~ctl.hydrated /\ (write.st = "hydrating" \/ retrying) => load.st # "none"
\* An edit that is not stored is on its way.
PendingOK ==
  Ready(ctl) /\ ctl.persisted < ctl.gen => ctl.timer \/ queued > 0 \/ write.st # "none" \/ retrying
\* Nobody else saved: the row is what the client takes it for.
Alone ==
  /\ ~conflict
  /\ load.st = "read" => load.value = settings.value /\ load.revision = settings.revision
  /\ Ready(ctl) /\ write.st # "ok" => ctl.revision = settings.revision
  /\ write.st = "sent" => write.revision = settings.revision
  /\ write.st = "ok" => write.revision = settings.revision /\ write.value = settings.value
  /\ Ready(ctl) /\ ctl.persisted = ctl.gen => settings.value = ctl.cur

\* Alone holds until somebody else saves.
RowOK == prefLeft.foreign <= MaxForeign /\ (prefLeft.foreign = MaxForeign => Alone)

\* The inductive invariant.
PrefInv == PrefTypeOK /\ ShownOK /\ FlightOK /\ LoadOK /\ PendingOK /\ RowOK

\* The bounds are natural numbers and the defaults are preferences.
LEMMA PrefFacts ==
  ASSUME PrefInv
  PROVE  /\ ctl \in ControllerType /\ load \in LoadType /\ write \in WriteType /\ queued \in Nat
         /\ retrying \in BOOLEAN /\ lastEdit \in Values /\ conflict \in BOOLEAN
         /\ settings \in [value : Values, revision : Nat]
         /\ prefLeft \in [edits : Nat, foreign : Nat, faults : Nat]
         /\ ctl.hydrated \in BOOLEAN /\ ctl.unavailable \in BOOLEAN /\ ctl.timer \in BOOLEAN
         /\ ctl.gen \in Nat /\ ctl.persisted \in Nat /\ ctl.revision \in Nat
         /\ ctl.cur \in Values /\ ctl.touched \subseteq Fields
         /\ load.st \in {"none", "sent", "read", "failed"} /\ load.value \in Values /\ load.revision \in Nat
         /\ write.st \in {"none", "hydrating", "sent", "ok", "failed"} /\ write.value \in Values
         /\ write.revision \in Nat /\ write.gen \in Nat
         /\ settings.value \in Values /\ settings.revision \in Nat
         /\ prefLeft.foreign \in Nat /\ MaxForeign \in Nat
         /\ ShownOK /\ FlightOK /\ LoadOK /\ PendingOK /\ RowOK
  BY PrefAssumption DEF PrefInv, PrefTypeOK, ControllerType, LoadType, WriteType

\* The controller and the requests before anything happens.
LEMMA BlankTyped ==
  /\ DefaultPreferences \in Values /\ DefaultPreferences["provider"] = "openai"
  /\ NoLoad \in LoadType /\ NoLoad.st = "none" /\ NoWrite \in WriteType /\ NoWrite.st = "none"
  /\ [NoWrite EXCEPT !.st = "hydrating"] \in WriteType /\ [NoWrite EXCEPT !.st = "hydrating"].st = "hydrating"
<1>1. DefaultPreferences \in Values /\ DefaultPreferences["provider"] = "openai"
  BY DEF DefaultPreferences, Values, Fields, Choices
<1>2. NoLoad \in LoadType /\ NoLoad.st = "none"
  BY <1>1 DEF NoLoad, LoadType
<1>3. NoWrite \in WriteType /\ NoWrite.st = "none"
  BY <1>1 DEF NoWrite, WriteType
<1>4. [NoWrite EXCEPT !.st = "hydrating"] \in WriteType /\ [NoWrite EXCEPT !.st = "hydrating"].st = "hydrating"
  BY <1>3 DEF WriteType
<1> QED
  BY <1>1, <1>2, <1>3, <1>4

\* hydrate leaves a load alone or sends one; a client that is not ready has one after it.
LEMMA HydratedFacts ==
  ASSUME load \in LoadType, NEW c \in ControllerType
  PROVE  /\ Hydrated(c) \in LoadType
         /\ Ready(c) \/ load.st # "none" => Hydrated(c) = load
         /\ ~Ready(c) /\ load.st = "none" => Hydrated(c).st = "sent"
         /\ ~Ready(c) => Hydrated(c).st # "none"
  BY DEF Hydrated, Ready, LoadType

\* The first states satisfy the invariant.
LEMMA PrefStarts ==
  ASSUME PrefInit
  PROVE  PrefInv
<1>1. PICK provider \in {"openai", "legacy"} :
        settings = [value |-> [DefaultPreferences EXCEPT !["provider"] = provider], revision |-> 0]
  BY DEF PrefInit
<1>2. settings \in [value : Values, revision : Nat]
  <2>1. [DefaultPreferences EXCEPT !["provider"] = provider] \in Values
    BY BlankTyped DEF Values, Fields, Choices
  <2> QED
    BY <1>1, <2>1
<1>3. /\ ctl = [cur |-> DefaultPreferences, hydrated |-> FALSE, unavailable |-> FALSE,
                saving |-> FALSE, revision |-> 0, gen |-> 0, persisted |-> 0, timer |-> FALSE,
                touched |-> {}]
      /\ load = NoLoad /\ write = NoWrite /\ queued = 0 /\ retrying = FALSE
      /\ lastEdit = DefaultPreferences /\ conflict = FALSE
      /\ prefLeft = [edits |-> MaxEdits, foreign |-> MaxForeign, faults |-> PrefFaults]
  BY DEF PrefInit
<1>4. /\ ctl \in ControllerType /\ ctl.cur = DefaultPreferences /\ ~ctl.hydrated
      /\ ctl.gen = 0 /\ ctl.persisted = 0 /\ ctl.touched = {}
  BY <1>3, BlankTyped DEF ControllerType
<1>5. prefLeft \in [edits : Nat, foreign : Nat, faults : Nat] /\ prefLeft.foreign = MaxForeign
  BY <1>3, PrefAssumption
<1>6. PrefTypeOK
  BY Zenon, <1>2, <1>3, <1>4, <1>5, BlankTyped DEF PrefTypeOK
<1>7. ShownOK
  BY <1>4, BlankTyped DEF ShownOK, EditsSurvive
<1>8. FlightOK /\ LoadOK /\ PendingOK
  BY <1>3, <1>4, BlankTyped DEF FlightOK, InFlight, LoadOK, PendingOK, Ready
<1>9. RowOK
  BY <1>3, <1>4, <1>5, BlankTyped, PrefAssumption DEF RowOK, Alone, Ready
<1> QED
  BY <1>6, <1>7, <1>8, <1>9 DEF PrefInv

\* A load is answered.
LEMMA LoadKeeps ==
  ASSUME PrefInv, LoadPreferences
  PROVE  PrefInv'
<1>0. /\ load.st = "sent"
      /\ UNCHANGED <<settings, ctl, write, queued, retrying, lastEdit, conflict>>
  BY DEF LoadPreferences
<1>1. /\ load' \in LoadType /\ load'.st # "none"
      /\ load'.st = "read" => load'.value = settings.value /\ load'.revision = settings.revision
      /\ prefLeft' \in [edits : Nat, foreign : Nat, faults : Nat] /\ prefLeft'.foreign = prefLeft.foreign
  <2>1. CASE /\ load' = [st |-> "read", value |-> settings.value, revision |-> settings.revision]
             /\ UNCHANGED prefLeft
    BY <2>1, PrefFacts DEF LoadType
  <2>2. CASE /\ prefLeft.faults > 0 /\ prefLeft' = [prefLeft EXCEPT !.faults = @ - 1]
             /\ load' = [load EXCEPT !.st = "failed"]
    <3>1. load' \in LoadType /\ load'.st = "failed"
      BY <2>2, PrefFacts DEF LoadType
    <3>2. prefLeft' \in [edits : Nat, foreign : Nat, faults : Nat] /\ prefLeft'.foreign = prefLeft.foreign
      BY <2>2, PrefFacts
    <3> QED
      BY <3>1, <3>2
  <2> QED
    BY <2>1, <2>2 DEF LoadPreferences
<1>2. PrefTypeOK'
  BY <1>0, <1>1, PrefFacts DEF PrefTypeOK
<1>3. ShownOK' /\ FlightOK' /\ PendingOK'
  BY <1>0, PrefFacts DEF ShownOK, EditsSurvive, FlightOK, InFlight, PendingOK, Ready
<1>4. LoadOK'
  BY <1>0, <1>1, PrefFacts DEF LoadOK, Ready
<1>5. RowOK'
  BY <1>0, <1>1, PrefFacts DEF RowOK, Alone, Ready
<1> QED
  BY <1>2, <1>3, <1>4, <1>5 DEF PrefInv

\* The controller a load and an edit leave, as operators of what they set.
LoadedWith(c, rev, cur, n, saving, timer, p) ==
  [c EXCEPT !.revision = rev, !.hydrated = TRUE, !.unavailable = FALSE, !.cur = cur, !.gen = n,
            !.saving = saving, !.timer = timer, !.persisted = p]

\* The controller after an edit.
EditedWith(c, fields, n, cur) ==
  [c EXCEPT !.touched = fields, !.gen = n, !.saving = TRUE, !.cur = cur, !.timer = TRUE]

\* The same, field by field.
LEMMA EditedSet ==
  ASSUME NEW c \in ControllerType, NEW cur \in Values, NEW n \in Nat, NEW fields \in SUBSET Fields, NEW d,
         d = EditedWith(c, fields, n, cur)
  PROVE  /\ d \in ControllerType /\ d.cur = cur /\ d.touched = fields /\ d.gen = n
         /\ d.persisted = c.persisted /\ d.timer /\ d.hydrated = c.hydrated
         /\ d.unavailable = c.unavailable /\ d.revision = c.revision
  BY Zenon DEF ControllerType, EditedWith

\* A touched field keeps what is shown, and what is shown needs no migration.
LEMMA MergedFacts ==
  ASSUME PrefInv, NEW loaded \in Values
  PROVE  /\ Merged(loaded) \in Values /\ Migrated(Merged(loaded)) \in Values
         /\ Migrated(Merged(loaded))["provider"] # "legacy"
         /\ \A f \in ctl.touched : Migrated(Merged(loaded))[f] = ctl.cur[f]
         /\ ctl.touched = {} => Merged(loaded) = loaded
<1>1. /\ Merged(loaded) \in [Fields -> Choices]
      /\ \A f \in Fields : Merged(loaded)[f] = IF f \in ctl.touched THEN ctl.cur[f] ELSE loaded[f]
  BY PrefFacts DEF Merged, Values
<1>2. /\ Migrated(Merged(loaded)) \in [Fields -> Choices]
      /\ Migrated(Merged(loaded))["theme"] = Merged(loaded)["theme"]
      /\ Migrated(Merged(loaded))["provider"] =
           IF Merged(loaded)["provider"] = "legacy" THEN "openai" ELSE Merged(loaded)["provider"]
  BY <1>1 DEF Migrated, Fields, Choices
<1>3. \A f \in ctl.touched : Migrated(Merged(loaded))[f] = ctl.cur[f]
  BY <1>1, <1>2, PrefFacts DEF ShownOK, Fields
<1>4. ctl.touched = {} => Merged(loaded) = loaded
  BY DEF Merged, Values
<1> QED
  BY <1>1, <1>2, <1>3, <1>4 DEF Values

\* The controller hears that its load failed.
LEMMA HydrationFails ==
  ASSUME PrefInv, HydrationEnds, load.st = "failed"
  PROVE  PrefInv'
<1>0. /\ ctl' = [ctl EXCEPT !.hydrated = TRUE, !.unavailable = TRUE, !.saving = FALSE]
      /\ load' = NoLoad
      /\ UNCHANGED <<settings, write, queued, retrying, lastEdit, prefLeft, conflict>>
  BY DEF HydrationEnds
<1>a. ctl \in ControllerType
  BY PrefFacts
<1>1. /\ ctl' \in ControllerType /\ ctl'.hydrated /\ ctl'.unavailable /\ ctl'.cur = ctl.cur
      /\ ctl'.gen = ctl.gen /\ ctl'.persisted = ctl.persisted /\ ctl'.touched = ctl.touched
  BY Zenon, <1>0, <1>a DEF ControllerType
<1>2. ~Ready(ctl) /\ ~InFlight /\ ~Ready(ctl')
  BY <1>1, PrefFacts DEF LoadOK, FlightOK, Ready
<1>3. PrefTypeOK'
  BY <1>0, <1>1, PrefFacts, BlankTyped DEF PrefTypeOK
<1>4. ShownOK'
  BY <1>0, <1>1, PrefFacts DEF ShownOK, EditsSurvive
<1>5. FlightOK' /\ PendingOK'
  BY <1>0, <1>2 DEF FlightOK, InFlight, PendingOK, Ready
<1>6. LoadOK'
  BY <1>0, <1>1, <1>2, PrefFacts, BlankTyped DEF LoadOK, Ready
<1>7. RowOK'
  BY <1>0, <1>2, PrefFacts, BlankTyped DEF RowOK, Alone, Ready, InFlight
<1> QED
  BY <1>3, <1>4, <1>5, <1>6, <1>7 DEF PrefInv

\* The controller takes what it loaded, under what was edited meanwhile.
LEMMA HydrationSucceeds ==
  ASSUME PrefInv, HydrationEnds, load.st = "read"
  PROVE  PrefInv'
<1> DEFINE merged == Merged(load.value)
           moved == Migrated(merged) # merged
           gen == IF moved THEN ctl.gen + 1 ELSE ctl.gen
           saving == ctl.saving \/ moved
           timer == ctl.timer \/ gen # 0
           stored == IF gen = 0 THEN 0 ELSE ctl.persisted
<1>0. /\ ctl' = LoadedWith(ctl, load.revision, Migrated(merged), gen, saving, timer, stored)
      /\ load' = NoLoad
      /\ UNCHANGED <<settings, write, queued, retrying, lastEdit, prefLeft, conflict>>
  BY DEF HydrationEnds, LoadedWith
<1>a. /\ merged \in Values /\ Migrated(merged) \in Values /\ Migrated(merged)["provider"] # "legacy"
      /\ \A f \in ctl.touched : Migrated(merged)[f] = ctl.cur[f]
      /\ ctl.touched = {} => merged = load.value
  BY PrefFacts, MergedFacts
<1>b. gen \in Nat /\ ctl.gen <= gen /\ (gen = 0 => ~moved /\ ctl.gen = 0) /\ (moved => gen = ctl.gen + 1)
      /\ stored \in Nat /\ stored = IF gen = 0 THEN 0 ELSE ctl.persisted
  BY PrefFacts
<1>d. saving \in BOOLEAN /\ timer \in BOOLEAN /\ (gen # 0 => timer)
  OBVIOUS
<1> HIDE DEF merged, moved, gen, saving, timer, stored
<1>1. /\ ctl' \in ControllerType /\ ctl'.hydrated /\ ~ctl'.unavailable /\ ctl'.cur = Migrated(merged)
      /\ ctl'.gen = gen /\ ctl'.persisted = (IF gen = 0 THEN 0 ELSE ctl.persisted)
      /\ ctl'.touched = ctl.touched /\ (gen # 0 => ctl'.timer) /\ ctl'.revision = load.revision
  <2>1. ctl \in ControllerType /\ load.revision \in Nat
    BY PrefFacts
  <2>2. /\ ctl' \in ControllerType /\ ctl'.hydrated /\ ~ctl'.unavailable /\ ctl'.cur = Migrated(merged)
        /\ ctl'.gen = gen /\ ctl'.persisted = stored /\ ctl'.touched = ctl.touched
        /\ ctl'.timer = timer /\ ctl'.revision = load.revision
    <3>1. Migrated(merged) \in Values /\ gen \in Nat /\ stored \in Nat
      BY <1>a, <1>b
    <3>2. saving \in BOOLEAN /\ timer \in BOOLEAN
      BY <1>d
    <3> QED
      BY Zenon, <1>0, <2>1, <3>1, <3>2 DEF LoadedWith, ControllerType
  <2> QED
    BY <1>b, <1>d, <2>2
<1>2. ~Ready(ctl) /\ ~InFlight /\ (ctl.persisted < ctl.gen \/ ctl.gen = 0)
  BY PrefFacts DEF LoadOK, FlightOK
<1>c. gen # 0 => ctl'.persisted < gen
  BY <1>1, <1>2, <1>b, PrefFacts DEF ShownOK, moved, gen
<1>3. PrefTypeOK'
  BY <1>0, <1>1, PrefFacts, BlankTyped DEF PrefTypeOK
<1>4. ShownOK'
  <2>1. EditsSurvive'
    BY <1>0, <1>1, <1>a, PrefFacts DEF ShownOK, EditsSurvive
  <2>2. ctl'.persisted <= ctl'.gen /\ (ctl'.gen = 0 => ctl'.touched = {})
    BY <1>1, <1>b, <1>c, PrefFacts DEF ShownOK
  <2> QED
    BY <1>1, <1>a, <2>1, <2>2 DEF ShownOK
<1>5. FlightOK'
  BY <1>0, <1>2 DEF FlightOK, InFlight
<1>6. PendingOK'
  BY <1>1, <1>b DEF PendingOK
<1>7. LoadOK'
  BY <1>0, <1>1, BlankTyped DEF LoadOK, Ready
<1>8. RowOK'
  <2> SUFFICES ASSUME prefLeft.foreign = MaxForeign PROVE Alone'
    BY <1>0, PrefFacts DEF RowOK
  <2>1. Alone
    BY PrefFacts DEF RowOK
  <2>2. load.value = settings.value /\ load.revision = settings.revision /\ write.st \notin {"sent", "ok"}
    BY <2>1, <1>2 DEF Alone, InFlight
  <2>3. ctl'.persisted = ctl'.gen => settings.value = ctl'.cur
    <3> SUFFICES ASSUME ctl'.persisted = ctl'.gen PROVE settings.value = ctl'.cur
      OBVIOUS
    <3>1. gen = 0
      BY <1>1, <1>b, <1>c
    <3>2. ctl.touched = {} /\ Migrated(merged) = merged
      BY <1>b, <3>1, PrefFacts DEF ShownOK, moved
    <3> QED
      BY <1>1, <1>a, <2>2, <3>2
  <2> QED
    BY <1>0, <1>1, <2>1, <2>2, <2>3, BlankTyped DEF Alone
<1> QED
  BY <1>3, <1>4, <1>5, <1>6, <1>7, <1>8 DEF PrefInv

\* The user edits a preference.
LEMMA EditKeeps ==
  ASSUME PrefInv, NEW f \in Fields, NEW choice \in FieldValues(f), Edit(f, choice)
  PROVE  PrefInv'
<1>0. /\ prefLeft.edits > 0 /\ prefLeft' = [prefLeft EXCEPT !.edits = @ - 1]
      /\ ctl' = [ctl EXCEPT !.touched = @ \cup {f}, !.gen = @ + 1, !.saving = TRUE,
                            !.cur = [@ EXCEPT ![f] = choice], !.timer = TRUE]
      /\ lastEdit' = [lastEdit EXCEPT ![f] = choice]
      /\ load' = Hydrated(ctl)
      /\ UNCHANGED <<settings, write, queued, retrying, conflict>>
  BY DEF Edit
<1> DEFINE cur == [ctl.cur EXCEPT ![f] = choice]
<1>a. choice \in Choices /\ choice # "legacy"
  BY DEF FieldValues, Choices
<1>b. /\ cur \in Values /\ cur["provider"] # "legacy" /\ lastEdit' \in Values
      /\ \A h \in ctl.touched \cup {f} : cur[h] = lastEdit'[h]
  BY <1>0, <1>a, PrefFacts DEF Values, ShownOK, EditsSurvive, Fields
<1> DEFINE n == ctl.gen + 1  fields == ctl.touched \cup {f}
<1>c. ctl' = EditedWith(ctl, fields, n, cur)
  BY <1>0 DEF EditedWith
<1>d. n \in Nat /\ fields \in SUBSET Fields /\ ctl \in ControllerType
  BY PrefFacts
<1> HIDE DEF cur, n, fields
<1>e. /\ ctl' \in ControllerType /\ ctl'.cur = cur /\ ctl'.touched = fields /\ ctl'.gen = n
      /\ ctl'.persisted = ctl.persisted /\ ctl'.timer /\ ctl'.hydrated = ctl.hydrated
      /\ ctl'.unavailable = ctl.unavailable /\ ctl'.revision = ctl.revision
  BY <1>b, <1>c, <1>d, EditedSet
<1>1. /\ ctl' \in ControllerType /\ ctl'.cur = cur /\ ctl'.touched = ctl.touched \cup {f}
      /\ ctl'.gen = ctl.gen + 1 /\ ctl'.persisted = ctl.persisted /\ ctl'.timer
      /\ ctl'.hydrated = ctl.hydrated /\ ctl'.unavailable = ctl.unavailable
      /\ ctl'.revision = ctl.revision
  BY <1>e DEF n, fields
<1>2. prefLeft' \in [edits : Nat, foreign : Nat, faults : Nat] /\ prefLeft'.foreign = prefLeft.foreign
  BY <1>0, PrefFacts
<1>3. /\ load' \in LoadType /\ (Ready(ctl) => load' = load) /\ (load.st # "none" => load' = load)
      /\ (load' = load \/ load'.st = "sent") /\ (~Ready(ctl) => load'.st # "none")
  BY <1>0, PrefFacts, HydratedFacts
<1>4. PrefTypeOK'
  BY <1>0, <1>1, <1>2, <1>3, <1>b, PrefFacts DEF PrefTypeOK
<1>5. ShownOK'
  BY <1>1, <1>b, PrefFacts DEF ShownOK, EditsSurvive
<1>6. FlightOK'
  BY <1>0, <1>1, PrefFacts DEF FlightOK, InFlight, Ready
<1>7. LoadOK'
  BY <1>0, <1>1, <1>3, PrefFacts DEF LoadOK, ShownOK, Ready
<1>8. PendingOK'
  BY <1>1 DEF PendingOK
<1>9. RowOK'
  <2> SUFFICES ASSUME prefLeft.foreign = MaxForeign PROVE Alone'
    BY <1>2, PrefFacts DEF RowOK
  <2>1. Alone /\ ctl'.persisted # ctl'.gen
    BY <1>1, PrefFacts DEF RowOK, ShownOK
  <2>2. load'.st = "read" => load' = load
    BY <1>3
  <2> QED
    BY <1>0, <1>1, <2>1, <2>2 DEF Alone, Ready
<1> QED
  BY <1>4, <1>5, <1>6, <1>7, <1>8, <1>9 DEF PrefInv

\* The screen mounts.
LEMMA MountKeeps ==
  ASSUME PrefInv, Mount
  PROVE  PrefInv'
<1>0. /\ ~ctl.hydrated /\ load.st = "none" /\ load' = Hydrated(ctl)
      /\ UNCHANGED <<settings, ctl, write, queued, retrying, lastEdit, prefLeft, conflict>>
  BY DEF Mount
<1>1. load' \in LoadType /\ load'.st = "sent"
  BY <1>0, PrefFacts, HydratedFacts DEF Ready
<1>2. PrefTypeOK'
  BY <1>0, <1>1, PrefFacts DEF PrefTypeOK
<1>3. ShownOK' /\ FlightOK' /\ PendingOK'
  BY <1>0, PrefFacts DEF ShownOK, EditsSurvive, FlightOK, InFlight, PendingOK, Ready
<1>4. LoadOK'
  BY <1>0, <1>1, PrefFacts DEF LoadOK, Ready
<1>5. RowOK'
  BY <1>0, <1>1, PrefFacts DEF RowOK, Alone, Ready
<1> QED
  BY <1>2, <1>3, <1>4, <1>5 DEF PrefInv

\* A step that queues a write in place of the timer; nothing else moves but the saving mark.
LEMMA QueueKeeps ==
  ASSUME PrefInv, ctl' \in ControllerType, ~ctl'.timer, ctl'.cur = ctl.cur, ctl'.touched = ctl.touched,
         ctl'.gen = ctl.gen, ctl'.persisted = ctl.persisted, ctl'.hydrated = ctl.hydrated,
         ctl'.unavailable = ctl.unavailable, ctl'.revision = ctl.revision,
         queued' = queued + 1, retrying' \in BOOLEAN, retrying' => retrying,
         UNCHANGED <<settings, load, write, lastEdit, prefLeft, conflict>>
  PROVE  PrefInv'
<1>1. PrefTypeOK'
  BY PrefFacts DEF PrefTypeOK
<1>2. ShownOK' /\ LoadOK'
  BY PrefFacts DEF ShownOK, EditsSurvive, LoadOK, Ready
<1>3. FlightOK' /\ PendingOK'
  BY PrefFacts DEF FlightOK, InFlight, PendingOK, Ready
<1>4. RowOK'
  BY PrefFacts DEF RowOK, Alone, Ready
<1> QED
  BY <1>1, <1>2, <1>3, <1>4 DEF PrefInv

\* The timer of an edit fires, or is flushed.
LEMMA FlushKeeps ==
  ASSUME PrefInv, Flush \/ TimerFires
  PROVE  PrefInv'
<1>0. /\ ctl' = [ctl EXCEPT !.timer = FALSE] /\ queued' = queued + 1 /\ ctl \in ControllerType
      /\ UNCHANGED <<settings, load, write, retrying, lastEdit, prefLeft, conflict>> /\ retrying \in BOOLEAN
  BY PrefFacts DEF Flush, TimerFires
<1>1. /\ ctl' \in ControllerType /\ ~ctl'.timer /\ ctl'.cur = ctl.cur /\ ctl'.touched = ctl.touched
      /\ ctl'.gen = ctl.gen /\ ctl'.persisted = ctl.persisted /\ ctl'.hydrated = ctl.hydrated
      /\ ctl'.unavailable = ctl.unavailable /\ ctl'.revision = ctl.revision
  BY Zenon, <1>0 DEF ControllerType
<1> QED
  BY <1>0, <1>1, QueueKeeps

\* A retry begins.
LEMMA RetryKeeps ==
  ASSUME PrefInv, Retry
  PROVE  PrefInv'
<1> DEFINE pending == ctl.persisted < ctl.gen
<1>0. /\ ctl \in ControllerType /\ ~retrying /\ pending \in BOOLEAN
      /\ UNCHANGED <<settings, write, lastEdit, prefLeft, conflict>>
  BY PrefFacts DEF Retry
<1>1. CASE /\ Ready(ctl) /\ ctl' = [ctl EXCEPT !.timer = FALSE, !.saving = @ \/ pending]
           /\ queued' = (IF pending THEN queued + 1 ELSE queued) /\ UNCHANGED <<load, retrying>>
  <2>1. /\ ctl' \in ControllerType /\ ~ctl'.timer /\ ctl'.cur = ctl.cur /\ ctl'.touched = ctl.touched
        /\ ctl'.gen = ctl.gen /\ ctl'.persisted = ctl.persisted /\ ctl'.hydrated = ctl.hydrated
        /\ ctl'.unavailable = ctl.unavailable /\ ctl'.revision = ctl.revision
    BY Zenon, <1>0, <1>1 DEF ControllerType
  <2>2. CASE pending
    BY <1>0, <1>1, <2>1, <2>2, QueueKeeps, PrefFacts
  <2>3. CASE ~pending
    <3>0. queued' = queued /\ ~InFlight
      BY <1>1, <2>3, PrefFacts DEF FlightOK
    <3>1. PrefTypeOK'
      BY <1>0, <1>1, <2>1, <3>0, PrefFacts DEF PrefTypeOK
    <3>2. ShownOK' /\ LoadOK'
      BY <1>0, <1>1, <2>1, PrefFacts DEF ShownOK, EditsSurvive, LoadOK, Ready
    <3>3. FlightOK' /\ PendingOK'
      BY <1>0, <2>1, <2>3, <3>0 DEF FlightOK, InFlight, PendingOK, Ready
    <3>4. RowOK'
      BY <1>0, <1>1, <2>1, PrefFacts DEF RowOK, Alone, Ready
    <3> QED
      BY <3>1, <3>2, <3>3, <3>4 DEF PrefInv
  <2> QED
    BY <2>2, <2>3
<1>2. CASE /\ ~Ready(ctl)
           /\ ctl' = [ctl EXCEPT !.timer = FALSE, !.unavailable = FALSE, !.hydrated = FALSE, !.saving = pending]
           /\ load' = Hydrated(ctl') /\ retrying' = TRUE /\ UNCHANGED queued
  <2>1. /\ ctl' \in ControllerType /\ ctl'.cur = ctl.cur /\ ctl'.touched = ctl.touched
        /\ ctl'.gen = ctl.gen /\ ctl'.persisted = ctl.persisted /\ ~ctl'.hydrated
    BY Zenon, <1>0, <1>2 DEF ControllerType
  <2>2. ~Ready(ctl') /\ ~InFlight
    BY <1>2, <2>1, PrefFacts DEF FlightOK, Ready
  <2>3. load' \in LoadType /\ load'.st # "none" /\ (load'.st = "read" => load' = load)
    BY <1>2, <2>1, <2>2, PrefFacts, HydratedFacts
  <2>4. PrefTypeOK'
    BY <1>0, <1>2, <2>1, <2>3, PrefFacts DEF PrefTypeOK
  <2>5. ShownOK'
    BY <1>0, <2>1, PrefFacts DEF ShownOK, EditsSurvive
  <2>6. FlightOK' /\ PendingOK'
    BY <1>0, <2>2 DEF FlightOK, InFlight, PendingOK, Ready
  <2>7. LoadOK'
    BY <1>2, <2>1, <2>2, <2>3, PrefFacts DEF LoadOK
  <2>8. RowOK'
    BY <1>0, <2>2, <2>3, PrefFacts DEF RowOK, Alone, Ready, InFlight
  <2> QED
    BY <2>4, <2>5, <2>6, <2>7, <2>8 DEF PrefInv
<1> QED
  BY Zenon, <1>1, <1>2 DEF Retry, Ready

\* A retry goes on once its load is back.
LEMMA RetryContinuesKeeps ==
  ASSUME PrefInv, RetryContinues
  PROVE  PrefInv'
<1>0. /\ ctl \in ControllerType /\ retrying /\ load.st = "none" /\ retrying' = FALSE
      /\ UNCHANGED <<settings, load, write, lastEdit, prefLeft, conflict>>
  BY PrefFacts DEF RetryContinues
<1>1. CASE ctl' = [ctl EXCEPT !.saving = TRUE, !.timer = FALSE] /\ queued' = queued + 1
  <2>1. /\ ctl' \in ControllerType /\ ~ctl'.timer /\ ctl'.cur = ctl.cur /\ ctl'.touched = ctl.touched
        /\ ctl'.gen = ctl.gen /\ ctl'.persisted = ctl.persisted /\ ctl'.hydrated = ctl.hydrated
        /\ ctl'.unavailable = ctl.unavailable /\ ctl'.revision = ctl.revision
    BY Zenon, <1>0, <1>1 DEF ControllerType
  <2> QED
    BY Zenon, <1>0, <1>1, <2>1, QueueKeeps
<1>2. CASE ~(~ctl.unavailable /\ ctl.persisted < ctl.gen) /\ UNCHANGED <<ctl, queued>>
  <2>1. PrefTypeOK'
    BY Zenon, <1>0, <1>2, PrefFacts DEF PrefTypeOK
  <2>2. ShownOK' /\ LoadOK' /\ FlightOK'
    BY <1>0, <1>2, PrefFacts DEF ShownOK, EditsSurvive, LoadOK, Ready, FlightOK, InFlight
  <2>3. PendingOK'
    BY <1>2 DEF PendingOK, Ready
  <2>4. RowOK'
    BY <1>0, <1>2, PrefFacts DEF RowOK, Alone, Ready
  <2> QED
    BY <2>1, <2>2, <2>3, <2>4 DEF PrefInv
<1> QED
  BY <1>1, <1>2 DEF RetryContinues

\* A task begins to write: there was an edit to store, or there is nothing to do.
LEMMA SendKeeps ==
  ASSUME PrefInv, Send, write.st \in {"none", "hydrating"}, ctl.hydrated, load.st = "none",
         UNCHANGED <<settings, load, retrying, lastEdit, prefLeft, conflict>>,
         queued' \in Nat
  PROVE  PrefInv'
<1>0. ctl \in ControllerType /\ ~InFlight
  BY PrefFacts DEF InFlight
<1>1. CASE /\ ctl.unavailable \/ ctl.persisted >= ctl.gen
           /\ ctl' = [ctl EXCEPT !.saving = FALSE] /\ write' = NoWrite
  <2>1. /\ ctl' \in ControllerType /\ ctl'.cur = ctl.cur /\ ctl'.touched = ctl.touched
        /\ ctl'.gen = ctl.gen /\ ctl'.persisted = ctl.persisted /\ ctl'.hydrated = ctl.hydrated
        /\ ctl'.unavailable = ctl.unavailable /\ ctl'.revision = ctl.revision
    BY Zenon, <1>0, <1>1 DEF ControllerType
  <2>2. write' \in WriteType /\ write'.st = "none"
    BY <1>1, BlankTyped
  <2>3. PrefTypeOK'
    BY <2>1, <2>2, PrefFacts DEF PrefTypeOK
  <2>4. ShownOK' /\ LoadOK'
    BY <2>1, <2>2, PrefFacts DEF ShownOK, EditsSurvive, LoadOK, Ready
  <2>5. FlightOK'
    BY <2>2 DEF FlightOK, InFlight
  <2>6. PendingOK'
    BY <1>1, <2>1, PrefFacts DEF PendingOK, Ready
  <2>7. RowOK'
    BY <2>1, <2>2, PrefFacts DEF RowOK, Alone, Ready
  <2> QED
    BY <2>3, <2>4, <2>5, <2>6, <2>7 DEF PrefInv
<1>2. CASE /\ ~(ctl.unavailable \/ ctl.persisted >= ctl.gen)
           /\ ctl' = [ctl EXCEPT !.saving = TRUE]
           /\ write' = [st |-> "sent", value |-> ctl.cur, revision |-> ctl.revision, gen |-> ctl.gen]
  <2>0. Ready(ctl) /\ ctl.persisted < ctl.gen
    BY <1>2, PrefFacts DEF Ready
  <2>1. /\ ctl' \in ControllerType /\ ctl'.cur = ctl.cur /\ ctl'.touched = ctl.touched
        /\ ctl'.gen = ctl.gen /\ ctl'.persisted = ctl.persisted /\ ctl'.hydrated = ctl.hydrated
        /\ ctl'.unavailable = ctl.unavailable /\ ctl'.revision = ctl.revision
    BY Zenon, <1>0, <1>2 DEF ControllerType
  <2>2. /\ write' \in WriteType /\ write'.st = "sent" /\ write'.value = ctl.cur
        /\ write'.revision = ctl.revision /\ write'.gen = ctl.gen
    BY <1>2, PrefFacts DEF WriteType
  <2>3. PrefTypeOK'
    BY <2>1, <2>2, PrefFacts DEF PrefTypeOK
  <2>4. ShownOK' /\ LoadOK'
    BY <2>1, <2>2, PrefFacts DEF ShownOK, EditsSurvive, LoadOK, Ready
  <2>5. FlightOK'
    BY <2>0, <2>1, <2>2, PrefFacts DEF FlightOK, Ready
  <2>6. PendingOK'
    BY <2>2 DEF PendingOK
  <2>7. RowOK'
    BY <2>0, <2>1, <2>2, PrefFacts DEF RowOK, Alone, Ready
  <2> QED
    BY <2>3, <2>4, <2>5, <2>6, <2>7 DEF PrefInv
<1> QED
  BY <1>1, <1>2 DEF Send

\* The next task of the write chain runs.
LEMMA TaskKeeps ==
  ASSUME PrefInv, TaskStarts \/ TaskHydrated
  PROVE  PrefInv'
<1>1. CASE TaskHydrated
  <2>1. /\ write.st = "hydrating" /\ load.st = "none" /\ Send /\ queued' \in Nat
        /\ UNCHANGED <<settings, load, retrying, lastEdit, prefLeft, conflict>>
    BY <1>1, PrefFacts DEF TaskHydrated
  <2>2. ctl.hydrated
    BY <2>1, PrefFacts DEF LoadOK
  <2> QED
    BY <2>1, <2>2, SendKeeps
<1>2. CASE TaskStarts /\ ctl.hydrated /\ load.st = "none"
  <2>1. /\ write.st = "none" /\ Send /\ queued' \in Nat
        /\ UNCHANGED <<settings, load, retrying, lastEdit, prefLeft, conflict>>
    BY <1>2, PrefFacts DEF TaskStarts
  <2> QED
    BY <1>2, <2>1, SendKeeps
<1>3. CASE TaskStarts /\ ctl.hydrated /\ load.st # "none"
  <2>1. /\ write.st = "none" /\ Send /\ queued' \in Nat /\ ctl.unavailable
        /\ UNCHANGED <<settings, load, retrying, lastEdit, prefLeft, conflict>>
    BY <1>3, PrefFacts DEF TaskStarts, LoadOK, Ready
  <2>2. ctl' = [ctl EXCEPT !.saving = FALSE] /\ write' = NoWrite /\ ctl \in ControllerType
    BY <2>1, PrefFacts DEF Send
  <2>3. /\ ctl' \in ControllerType /\ ctl'.cur = ctl.cur /\ ctl'.touched = ctl.touched
        /\ ctl'.gen = ctl.gen /\ ctl'.persisted = ctl.persisted /\ ctl'.hydrated = ctl.hydrated
        /\ ctl'.unavailable = ctl.unavailable /\ ctl'.revision = ctl.revision
    BY Zenon, <2>2 DEF ControllerType
  <2>4. write' \in WriteType /\ write'.st = "none"
    BY <2>2, BlankTyped
  <2>5. PrefTypeOK'
    BY <2>1, <2>3, <2>4, PrefFacts DEF PrefTypeOK
  <2>6. ShownOK' /\ LoadOK'
    BY <2>1, <2>3, <2>4, PrefFacts DEF ShownOK, EditsSurvive, LoadOK, Ready
  <2>7. FlightOK' /\ PendingOK'
    BY <2>1, <2>3, <2>4 DEF FlightOK, InFlight, PendingOK, Ready
  <2>8. RowOK'
    BY <2>1, <2>3, <2>4, PrefFacts DEF RowOK, Alone, Ready
  <2> QED
    BY <2>5, <2>6, <2>7, <2>8 DEF PrefInv
<1>4. CASE TaskStarts /\ ~ctl.hydrated
  <2>1. /\ write.st = "none" /\ queued' \in Nat /\ load' = Hydrated(ctl)
        /\ write' = [NoWrite EXCEPT !.st = "hydrating"]
        /\ UNCHANGED <<settings, ctl, retrying, lastEdit, prefLeft, conflict>>
    BY <1>4, PrefFacts DEF TaskStarts
  <2>2. write' \in WriteType /\ write'.st = "hydrating" /\ ~Ready(ctl)
    BY <1>4, <2>1, BlankTyped DEF Ready
  <2>3. load' \in LoadType /\ load'.st # "none" /\ (load'.st = "read" => load' = load)
    BY <2>1, <2>2, PrefFacts, HydratedFacts
  <2>4. PrefTypeOK'
    BY <2>1, <2>2, <2>3, PrefFacts DEF PrefTypeOK
  <2>5. ShownOK'
    BY <2>1, PrefFacts DEF ShownOK, EditsSurvive
  <2>6. FlightOK' /\ PendingOK'
    BY <2>1, <2>2 DEF FlightOK, InFlight, PendingOK, Ready
  <2>7. LoadOK'
    BY <2>1, <2>2, <2>3, PrefFacts DEF LoadOK, Ready
  <2>8. RowOK'
    BY <2>1, <2>2, <2>3, PrefFacts DEF RowOK, Alone, Ready
  <2> QED
    BY <2>4, <2>5, <2>6, <2>7, <2>8 DEF PrefInv
<1> QED
  BY <1>1, <1>2, <1>3, <1>4

\* The save reaches the storage.
LEMMA SaveKeeps ==
  ASSUME PrefInv, SavePreferences
  PROVE  PrefInv'
<1>0. write.st = "sent" /\ InFlight /\ UNCHANGED <<ctl, load, queued, retrying, lastEdit>>
  BY DEF SavePreferences, InFlight
<1>a. Ready(ctl) /\ load.st = "none" /\ ctl.persisted < write.gen /\ write.gen <= ctl.gen
  BY <1>0, PrefFacts DEF FlightOK, LoadOK
<1>1. CASE /\ write.revision = settings.revision
           /\ settings' = [value |-> write.value, revision |-> settings.revision + 1]
           /\ write' = [write EXCEPT !.st = "ok", !.revision = @ + 1]
           /\ UNCHANGED <<prefLeft, conflict>>
  <2>1. /\ settings' \in [value : Values, revision : Nat] /\ settings'.value = write.value
        /\ settings'.revision = settings.revision + 1
    BY <1>1, PrefFacts
  <2>2. /\ write' \in WriteType /\ write'.st = "ok" /\ write'.value = write.value
        /\ write'.revision = write.revision + 1 /\ write'.gen = write.gen
    <3> DEFINE n == write.revision + 1
    <3>1. write \in WriteType /\ n \in Nat /\ write' = [write EXCEPT !.st = "ok", !.revision = n]
      BY <1>1, PrefFacts
    <3> HIDE DEF n
    <3>2. /\ write' \in WriteType /\ write'.st = "ok" /\ write'.value = write.value
          /\ write'.revision = n /\ write'.gen = write.gen
      BY Zenon, <3>1 DEF WriteType
    <3> QED
      BY <3>2 DEF n
  <2>3. PrefTypeOK'
    BY <1>0, <1>1, <2>1, <2>2, PrefFacts DEF PrefTypeOK
  <2>4. ShownOK' /\ LoadOK'
    BY <1>0, <2>2, PrefFacts DEF ShownOK, EditsSurvive, LoadOK, Ready
  <2>5. FlightOK' /\ PendingOK'
    BY <1>0, <2>2, PrefFacts DEF FlightOK, InFlight, PendingOK, Ready
  <2>6. RowOK'
    BY <1>0, <1>1, <1>a, <2>1, <2>2, PrefFacts DEF RowOK, Alone, Ready
  <2> QED
    BY <2>3, <2>4, <2>5, <2>6 DEF PrefInv
<1>2. CASE /\ write' = [write EXCEPT !.st = "failed"] /\ UNCHANGED settings
           /\ \/ write.revision # settings.revision /\ conflict' = TRUE /\ UNCHANGED prefLeft
              \/ /\ prefLeft.faults > 0 /\ prefLeft' = [prefLeft EXCEPT !.faults = @ - 1]
                 /\ UNCHANGED conflict
  <2>1. /\ write' \in WriteType /\ write'.st = "failed" /\ write'.value = write.value
        /\ write'.revision = write.revision /\ write'.gen = write.gen
    BY <1>2, PrefFacts DEF WriteType
  <2>2. /\ prefLeft' \in [edits : Nat, foreign : Nat, faults : Nat]
        /\ prefLeft'.foreign = prefLeft.foreign /\ conflict' \in BOOLEAN
    <3>0. prefLeft \in [edits : Nat, foreign : Nat, faults : Nat] /\ conflict \in BOOLEAN
      BY PrefFacts
    <3>1. CASE conflict' = TRUE /\ UNCHANGED prefLeft
      BY <3>0, <3>1
    <3>2. CASE /\ prefLeft.faults > 0 /\ prefLeft' = [prefLeft EXCEPT !.faults = @ - 1]
               /\ UNCHANGED conflict
      BY <3>0, <3>2
    <3> QED
      BY Zenon, <1>2, <3>1, <3>2
  <2>3. PrefTypeOK'
    BY <1>0, <1>2, <2>1, <2>2, PrefFacts DEF PrefTypeOK
  <2>4. ShownOK' /\ LoadOK'
    BY <1>0, <2>1, PrefFacts DEF ShownOK, EditsSurvive, LoadOK, Ready
  <2>5. FlightOK' /\ PendingOK'
    BY <1>0, <2>1, PrefFacts DEF FlightOK, InFlight, PendingOK, Ready
  <2>6. RowOK'
    BY <1>0, <1>2, <1>a, <2>1, <2>2, PrefFacts DEF RowOK, Alone, Ready
  <2> QED
    BY <2>3, <2>4, <2>5, <2>6 DEF PrefInv
<1> QED
  BY Zenon, <1>1, <1>2 DEF SavePreferences

\* The answer of a save is taken in.
LEMMA SettleKeeps ==
  ASSUME PrefInv, WriteSettles
  PROVE  PrefInv'
<1>0. /\ write.st \in {"ok", "failed"} /\ InFlight /\ ctl \in ControllerType
      /\ write' = NoWrite /\ write' \in WriteType /\ write'.st = "none"
      /\ UNCHANGED <<settings, load, queued, retrying, lastEdit, prefLeft, conflict>>
  BY PrefFacts, BlankTyped DEF WriteSettles, InFlight
<1>a. /\ Ready(ctl) /\ load.st = "none" /\ ctl.persisted < write.gen /\ write.gen <= ctl.gen
      /\ write.gen = ctl.gen => write.value = ctl.cur
      /\ write.gen < ctl.gen => ctl.timer \/ queued > 0
  BY <1>0, PrefFacts DEF FlightOK, LoadOK
<1>b. FlightOK'
  BY <1>0 DEF FlightOK, InFlight
<1>1. CASE write.st = "failed" /\ ctl' = [ctl EXCEPT !.unavailable = TRUE, !.saving = FALSE]
  <2>1. /\ ctl' \in ControllerType /\ ctl'.cur = ctl.cur /\ ctl'.touched = ctl.touched
        /\ ctl'.gen = ctl.gen /\ ctl'.persisted = ctl.persisted /\ ctl'.hydrated = ctl.hydrated
        /\ ctl'.unavailable
    BY Zenon, <1>0, <1>1 DEF ControllerType
  <2>2. PrefTypeOK'
    BY <1>0, <2>1, PrefFacts DEF PrefTypeOK
  <2>3. ShownOK'
    BY <1>0, <2>1, PrefFacts DEF ShownOK, EditsSurvive
  <2>4. LoadOK' /\ PendingOK'
    BY <1>0, <1>a, <2>1, PrefFacts DEF LoadOK, PendingOK, Ready
  <2>5. RowOK'
    BY <1>0, <1>a, <2>1, PrefFacts DEF RowOK, Alone, Ready
  <2> QED
    BY <1>b, <2>2, <2>3, <2>4, <2>5 DEF PrefInv
<1>2. CASE /\ write.st = "ok" /\ ctl.gen # write.gen
           /\ ctl' = [ctl EXCEPT !.revision = write.revision, !.persisted = write.gen]
  <2>1. /\ ctl' \in ControllerType /\ ctl'.cur = ctl.cur /\ ctl'.touched = ctl.touched
        /\ ctl'.gen = ctl.gen /\ ctl'.persisted = write.gen /\ ctl'.hydrated = ctl.hydrated
        /\ ctl'.unavailable = ctl.unavailable /\ ctl'.revision = write.revision /\ ctl'.timer = ctl.timer
    BY Zenon, <1>0, <1>2, PrefFacts DEF ControllerType
  <2>2. PrefTypeOK'
    BY <1>0, <2>1, PrefFacts DEF PrefTypeOK
  <2>3. ShownOK'
    BY <1>0, <1>a, <2>1, PrefFacts DEF ShownOK, EditsSurvive
  <2>4. LoadOK' /\ PendingOK'
    BY <1>0, <1>2, <1>a, <2>1, PrefFacts DEF LoadOK, PendingOK, Ready
  <2>5. RowOK'
    BY <1>0, <1>2, <1>a, <2>1, PrefFacts DEF RowOK, Alone, Ready
  <2> QED
    BY <1>b, <2>2, <2>3, <2>4, <2>5 DEF PrefInv
<1>3. CASE /\ write.st = "ok" /\ ctl.gen = write.gen
           /\ ctl' = [ctl EXCEPT !.revision = write.revision, !.persisted = write.gen,
                                 !.cur = write.value, !.saving = FALSE]
  <2>1. /\ ctl' \in ControllerType /\ ctl'.cur = write.value /\ ctl'.touched = ctl.touched
        /\ ctl'.gen = ctl.gen /\ ctl'.persisted = write.gen /\ ctl'.hydrated = ctl.hydrated
        /\ ctl'.unavailable = ctl.unavailable /\ ctl'.revision = write.revision /\ ctl'.timer = ctl.timer
    BY Zenon, <1>0, <1>3, PrefFacts DEF ControllerType
  <2>2. PrefTypeOK'
    BY <1>0, <2>1, PrefFacts DEF PrefTypeOK
  <2>3. ShownOK'
    BY <1>0, <1>3, <1>a, <2>1, PrefFacts DEF ShownOK, EditsSurvive
  <2>4. LoadOK' /\ PendingOK'
    BY <1>0, <1>3, <1>a, <2>1, PrefFacts DEF LoadOK, PendingOK, Ready
  <2>5. RowOK'
    BY <1>0, <1>3, <1>a, <2>1, PrefFacts DEF RowOK, Alone, Ready
  <2> QED
    BY <1>b, <2>2, <2>3, <2>4, <2>5 DEF PrefInv
<1> QED
  BY <1>0, <1>1, <1>2, <1>3 DEF WriteSettles

\* Somebody else saves the row.
LEMMA ForeignKeeps ==
  ASSUME PrefInv, NEW f \in Fields, NEW choice \in FieldValues(f), ForeignSave(f, choice)
  PROVE  PrefInv'
<1>0. /\ prefLeft.foreign > 0 /\ prefLeft' = [prefLeft EXCEPT !.foreign = @ - 1]
      /\ settings' = [value |-> [settings.value EXCEPT ![f] = choice], revision |-> settings.revision + 1]
      /\ UNCHANGED <<ctl, load, write, queued, retrying, lastEdit, conflict>>
  BY DEF ForeignSave
<1>1. settings' \in [value : Values, revision : Nat]
  <2>1. [settings.value EXCEPT ![f] = choice] \in Values
    BY PrefFacts DEF Values, FieldValues, Choices
  <2> QED
    BY <1>0, <2>1, PrefFacts
<1>2. /\ prefLeft' \in [edits : Nat, foreign : Nat, faults : Nat]
      /\ prefLeft'.foreign = prefLeft.foreign - 1
  BY <1>0, PrefFacts
<1>3. PrefTypeOK'
  BY <1>0, <1>1, <1>2, PrefFacts DEF PrefTypeOK
<1>4. ShownOK' /\ LoadOK' /\ FlightOK' /\ PendingOK'
  BY <1>0, PrefFacts DEF ShownOK, EditsSurvive, LoadOK, Ready, FlightOK, InFlight, PendingOK
<1>5. RowOK'
  BY <1>0, <1>2, PrefFacts DEF RowOK
<1> QED
  BY <1>3, <1>4, <1>5 DEF PrefInv

\* Every step keeps the invariant.
LEMMA PrefKept ==
  ASSUME PrefInv, [PrefNext]_prefVars
  PROVE  PrefInv'
<1>1. CASE UNCHANGED prefVars
  <2>1. PrefTypeOK' /\ ShownOK' /\ LoadOK' /\ FlightOK' /\ PendingOK'
    BY <1>1, PrefFacts DEF prefVars, PrefInv, PrefTypeOK, ShownOK, EditsSurvive, LoadOK, Ready, FlightOK, InFlight, PendingOK
  <2>2. RowOK'
    BY <1>1, PrefFacts DEF prefVars, RowOK, Alone, Ready
  <2> QED
    BY <2>1, <2>2 DEF PrefInv
<1>2. ASSUME NEW f \in Fields, NEW choice \in FieldValues(f), Edit(f, choice) \/ ForeignSave(f, choice)
      PROVE  PrefInv'
  BY <1>2, EditKeeps, ForeignKeeps
<1>3. CASE HydrationEnds
  BY <1>3, HydrationFails, HydrationSucceeds DEF HydrationEnds
<1> QED
  BY <1>1, <1>2, <1>3, LoadKeeps, MountKeeps, RetryKeeps, RetryContinuesKeeps, FlushKeeps, TaskKeeps,
     SaveKeeps, SettleKeeps DEF PrefNext

\* For any number of edits, saves by others, faults and queued writes: what the user
\* chose is shown, and is stored or on its way to be stored.
THEOREM PreferencesAreKept == PrefSpec => []PreferencesKept
<1>1. PrefInv => PreferencesKept
  <2> SUFFICES ASSUME PrefInv PROVE PreferencesKept
    OBVIOUS
  <2>1. EditsSurvive
    BY PrefFacts DEF ShownOK
  <2>2. NoSelfConflict
    BY PrefFacts DEF RowOK, Alone, NoSelfConflict
  <2>3. QuietMeansStored
    BY PrefFacts DEF QuietMeansStored, PendingOK, RowOK, Alone, Ready, ShownOK
  <2> QED
    BY <2>1, <2>2, <2>3 DEF PreferencesKept
<1> QED
  BY <1>1, PrefStarts, PrefKept, PTL DEF PrefSpec
-----------------------------------------------------------------------------
(* BackGesture                                                             *)

\* A record of the gesture, as far as the release of the page depends on it.
Gesture(s) ==
  /\ {"phase", "vis", "timer", "target", "stranded", "backs", "barrier", "by"} \subseteq DOMAIN s
  /\ s.phase \in {"idle", "possible", "dragging", "cancelling", "committing"}
  /\ s.timer \in {"none", "cancel", "commit", "native"} /\ s.backs \in Nat

\* What holds between two steps.
Settled(s) ==
  /\ s.phase = "dragging" => s.vis
  /\ s.phase = "idle" /\ s.vis => s.stranded
  /\ s.phase = "possible" /\ s.vis => s.target # -1 \/ s.stranded
  /\ s.phase = "cancelling" => s.timer = "cancel"
  /\ s.phase = "committing" => s.timer \in {"commit", "native"} \/ s.backs > 0 \/ s.barrier = "done"
  /\ s.timer = "cancel" => s.phase = "cancelling"
  /\ s.timer \in {"commit", "native"} => s.phase = "committing"
  /\ s.by # "none" => s.phase \in {"possible", "dragging"}

\* The inductive invariant.
GestureInv == Gesture(g) /\ Settled(g)

\* t is s but for the fields that do not matter here.
Alike(t, s) ==
  /\ Gesture(t) /\ t.phase = s.phase /\ t.vis = s.vis /\ t.timer = s.timer /\ t.target = s.target
  /\ t.stranded = s.stranded /\ t.backs = s.backs /\ t.barrier = s.barrier
  /\ t.by \in {s.by, "none"}

\* What holds of a state holds of one like it.
LEMMA AlikeSettled ==
  ASSUME NEW s, NEW t, Alike(t, s), Settled(s)
  PROVE  Gesture(t) /\ Settled(t)
  BY DEF Alike, Settled

\* Letting go of the pointer.
LEMMA NoPointerAlike ==
  ASSUME NEW s, Gesture(s)
  PROVE  Alike(NoPointer(s), s)
  BY DEF NoPointer, Gesture, Alike

\* Counting a gesture.
LEMMA UsedAlike ==
  ASSUME NEW s, Gesture(s)
  PROVE  Alike(Used(s), s)
  BY DEF Used, Gesture, Alike

\* The page put back in its place.
LEMMA NoVisualsSet ==
  ASSUME NEW s, Gesture(s)
  PROVE  /\ Gesture(NoVisuals(s)) /\ NoVisuals(s).phase = s.phase /\ ~NoVisuals(s).vis
         /\ NoVisuals(s).timer = s.timer /\ NoVisuals(s).target = -1
         /\ ~NoVisuals(s).stranded /\ NoVisuals(s).backs = s.backs
         /\ NoVisuals(s).barrier = s.barrier /\ NoVisuals(s).by = s.by
  BY DEF NoVisuals, Gesture

\* A release that cancels starts the timer that ends it.
LEMMA FinishCancelSettles ==
  ASSUME NEW s, Gesture(s), Settled(s), s.phase = "dragging"
  PROVE  Gesture(FinishCancel(s)) /\ Settled(FinishCancel(s))
<1> DEFINE t == [s EXCEPT !.phase = "cancelling", !.timer = "cancel", !.d = 0]
<1>1. s.vis /\ FinishCancel(s) = NoPointer(t)
  BY DEF Settled, FinishCancel
<1>2. Gesture(t) /\ t.phase = "cancelling" /\ t.timer = "cancel"
  BY DEF Gesture
<1>3. Alike(NoPointer(t), t) /\ NoPointer(t).by = "none"
  BY <1>2, NoPointerAlike DEF NoPointer, Gesture
<1> HIDE DEF t
<1> QED
  BY <1>1, <1>2, <1>3 DEF Alike, Settled

\* A release that goes back starts the timer that ends it.
LEMMA FinishCommitSettles ==
  ASSUME NEW s, Gesture(s), Settled(s), s.phase = "dragging"
  PROVE  Gesture(FinishCommit(s)) /\ Settled(FinishCommit(s))
<1> DEFINE t == [s EXCEPT !.phase = "committing", !.timer = "commit", !.d = 2]
<1>1. s.vis /\ FinishCommit(s) = NoPointer(t)
  BY DEF Settled, FinishCommit
<1>2. Gesture(t) /\ t.phase = "committing" /\ t.timer = "commit"
  BY DEF Gesture
<1>3. Alike(NoPointer(t), t) /\ NoPointer(t).by = "none"
  BY <1>2, NoPointerAlike DEF NoPointer, Gesture
<1> HIDE DEF t
<1> QED
  BY <1>1, <1>2, <1>3 DEF Alike, Settled

\* Either release.
LEMMA ReleasedSettles ==
  ASSUME NEW s, NEW fast, Gesture(s), Settled(s), s.phase = "dragging"
  PROVE  Gesture(Released(s, fast)) /\ Settled(Released(s, fast))
  BY FinishCancelSettles, FinishCommitSettles DEF Released

\* A press that comes to nothing: the page was in its place, or its release goes on.
LEMMA AbandonSettles ==
  ASSUME NEW s, Gesture(s), Settled(s), s.phase = "possible"
  PROVE  Gesture(Abandon(s)) /\ Settled(Abandon(s))
<1>1. CASE s.target = -1 \/ ~s.vis
  <2> DEFINE t == [s EXCEPT !.phase = "idle"]
  <2>1. /\ Gesture(t) /\ t.phase = "idle" /\ t.timer = s.timer /\ t.vis = s.vis /\ t.stranded = s.stranded
    BY DEF Gesture
  <2>2. Alike(NoPointer(t), t) /\ NoPointer(t).by = "none" /\ Abandon(s) = NoPointer(t)
    BY <1>1, <2>1, NoPointerAlike DEF NoPointer, Gesture, Abandon
  <2> HIDE DEF t
  <2> QED
    BY <1>1, <2>1, <2>2 DEF Alike, Settled
<1>2. CASE ~(s.target = -1 \/ ~s.vis)
  <2> DEFINE t == [s EXCEPT !.phase = "dragging"]
             again == NoPointer(t)
             end == IF s.target = 0 THEN FinishCancel(again) ELSE FinishCommit(again)
  <2>1. /\ Gesture(t) /\ t.phase = "dragging" /\ t.timer = s.timer /\ t.vis = s.vis
    BY DEF Gesture
  <2>2. Alike(again, t) /\ again.by = "none"
    BY <2>1, NoPointerAlike DEF NoPointer, Gesture
  <2>3. Abandon(s) = [end EXCEPT !.target = -1]
    BY <1>2 DEF Abandon
  <2> HIDE DEF t, again
  <2>4. Gesture(again) /\ again.phase = "dragging" /\ Settled(again)
    BY <1>2, <2>1, <2>2 DEF Alike, Settled
  <2>5. Gesture(end) /\ Settled(end) /\ end.phase \in {"cancelling", "committing"}
    <3>1. Gesture(end) /\ Settled(end)
      BY <2>4, FinishCancelSettles, FinishCommitSettles
    <3>2. FinishCancel(again).phase = "cancelling" /\ FinishCommit(again).phase = "committing"
      BY <2>4 DEF FinishCancel, FinishCommit, NoPointer, Gesture, Settled
    <3> QED
      BY <3>1, <3>2
  <2> HIDE DEF end
  <2>6. LET e == [end EXCEPT !.target = -1] IN
        /\ Gesture(e) /\ e.phase = end.phase /\ e.vis = end.vis /\ e.timer = end.timer /\ e.by = end.by
        /\ e.stranded = end.stranded /\ e.backs = end.backs /\ e.barrier = end.barrier
    BY <2>5 DEF Gesture
  <2> QED
    BY <2>3, <2>5, <2>6 DEF Settled
<1> QED
  BY <1>1, <1>2

\* An interrupted release leaves no timer behind, and the page where it is.
LEMMA InterruptFacts ==
  ASSUME NEW s, NEW at, Gesture(s), Settled(s)
  PROVE  LET t == Interrupt(s, at) IN
         /\ Gesture(t) /\ t.timer = "none" /\ t.vis = s.vis /\ t.stranded = s.stranded /\ t.backs = s.backs
         /\ t.by = s.by
         /\ s.phase \notin {"cancelling", "committing"} => t = s
         /\ s.phase \in {"cancelling", "committing"} => t.phase = "idle" /\ t.target \in {0, 1} /\ s.by = "none"
<1>1. CASE s.phase \notin {"cancelling", "committing"}
  BY <1>1 DEF Interrupt, Settled, Gesture
<1>2. CASE s.phase \in {"cancelling", "committing"}
  <2> DEFINE t == Interrupt(s, at)
  <2>0. t = [s EXCEPT !.target = IF s.phase = "committing" THEN 1 ELSE 0, !.timer = "none",
                 !.barrier = IF @ = "animating" THEN "done" ELSE @,
                 !.phase = "idle", !.d = IF s.vis THEN at ELSE @]
    BY <1>2 DEF Interrupt
  <2>1. /\ DOMAIN t = DOMAIN s /\ t.timer = "none" /\ t.phase = "idle" /\ t.by = s.by
        /\ t.vis = s.vis /\ t.stranded = s.stranded /\ t.backs = s.backs
    BY <2>0 DEF Gesture
  <2>2. t.target = IF s.phase = "committing" THEN 1 ELSE 0
    BY <2>0 DEF Gesture
  <2>3. s.by = "none"
    BY <1>2 DEF Settled
  <2> HIDE DEF t
  <2>4. Gesture(t)
    BY <2>1 DEF Gesture
  <2> QED
    BY <1>2, <2>1, <2>2, <2>3, <2>4 DEF t
<1> QED
  BY <1>1, <1>2
-----------------------------------------------------------------------------
\* A press, which may interrupt a release.
LEMMA DownSettles ==
  ASSUME GestureInv, NEW kind \in {"pointer", "touch"}, NEW at, Down(kind, at)
  PROVE  GestureInv'
<1> DEFINE s == Interrupt(g, at)
           t == [s EXCEPT !.by = kind, !.origin = s.d, !.phase = "possible"]
<1>1. /\ Gesture(s) /\ s.timer = "none" /\ s.vis = g.vis /\ s.stranded = g.stranded
      /\ g.phase \notin {"cancelling", "committing"} => s = g
      /\ g.phase \in {"cancelling", "committing"} => s.target \in {0, 1}
  BY InterruptFacts DEF GestureInv
<1>2. g' = Used(t) /\ g.phase \in {"idle", "cancelling", "committing"}
  BY DEF Down
<1> HIDE DEF s
<1>3. /\ Gesture(t) /\ t.phase = "possible" /\ t.timer = "none" /\ t.vis = s.vis
      /\ t.stranded = s.stranded /\ t.target = s.target
  BY <1>1 DEF Gesture
<1> HIDE DEF t
<1>4. Settled(t)
  <2>1. t.vis => t.target # -1 \/ t.stranded
    BY <1>1, <1>2, <1>3 DEF GestureInv, Settled
  <2> QED
    BY <1>3, <2>1 DEF Settled
<1> QED
  BY <1>2, <1>3, <1>4, UsedAlike, AlikeSettled DEF GestureInv

\* A move.
LEMMA MoveSettles ==
  ASSUME GestureInv, NEW dx, NEW sideways, Move(dx, sideways)
  PROVE  GestureInv'
<1>1. CASE g.phase = "possible" /\ g' = Abandon(g)
  BY <1>1, AbandonSettles DEF GestureInv
<1>2. CASE /\ g.phase \in {"possible", "dragging"}
           /\ g' = [g EXCEPT !.phase = "dragging", !.vis = TRUE, !.d = Clamp(g.origin + dx)]
  <2>1. /\ Gesture(g') /\ g'.phase = "dragging" /\ g'.vis /\ g'.timer = g.timer /\ g'.by = g.by
    BY <1>2 DEF GestureInv, Gesture
  <2> QED
    BY <1>2, <2>1 DEF GestureInv, Settled
<1> QED
  BY <1>1, <1>2 DEF Move

\* The pointer is lifted or lost.
LEMMA UpSettles ==
  ASSUME GestureInv, NEW fast, Up(fast) \/ PointerCancel
  PROVE  GestureInv'
<1>0. Gesture(g) /\ Settled(g) /\ g.by # "none" /\ g.phase \in {"possible", "dragging"}
  BY DEF GestureInv, Up, PointerCancel, Settled
<1>1. CASE g.phase = "possible"
  <2>1. g' = Abandon(g)
    BY <1>1 DEF Up, PointerCancel
  <2> QED
    BY <1>0, <1>1, <2>1, AbandonSettles DEF GestureInv
<1>2. CASE g.phase = "dragging"
  <2>1. g' \in {FinishCancel(g), Released(g, fast)}
    BY <1>2 DEF Up, PointerCancel
  <2> QED
    BY <1>0, <1>2, <2>1, FinishCancelSettles, ReleasedSettles DEF GestureInv
<1> QED
  BY <1>0, <1>1, <1>2

\* The timer of a release fires.
LEMMA ReleaseSettles ==
  ASSUME GestureInv, ReleaseEnds
  PROVE  GestureInv'
<1>0. Gesture(g) /\ Settled(g)
  BY DEF GestureInv
<1>1. CASE g.timer = "cancel" /\ g' = NoVisuals([g EXCEPT !.timer = "none", !.phase = "idle"])
  <2> DEFINE t == [g EXCEPT !.timer = "none", !.phase = "idle"]
  <2>1. Gesture(t) /\ t.timer = "none" /\ t.phase = "idle" /\ t.by = g.by
    BY <1>0 DEF Gesture
  <2>2. g.by = "none"
    BY <1>0, <1>1 DEF Settled
  <2> HIDE DEF t
  <2>3. g' = NoVisuals(t)
    BY <1>1 DEF t
  <2> QED
    BY <2>1, <2>2, <2>3, NoVisualsSet DEF GestureInv, Settled
<1>2. CASE g.timer = "commit" /\ g' = [g EXCEPT !.timer = "none", !.backs = @ + 1]
  <2>1. Gesture(g') /\ g'.timer = "none" /\ g'.phase = g.phase /\ g'.backs = g.backs + 1 /\ g'.by = g.by
    BY <1>0, <1>2 DEF Gesture
  <2> QED
    BY <1>0, <1>2, <2>1 DEF GestureInv, Settled, Gesture
<1>3. CASE g.timer = "native" /\ g' = [g EXCEPT !.timer = "none", !.barrier = "done"]
  <2>1. Gesture(g') /\ g'.timer = "none" /\ g'.phase = g.phase /\ g'.barrier = "done" /\ g'.by = g.by
    BY <1>0, <1>3 DEF Gesture
  <2> QED
    BY <1>0, <1>3, <2>1 DEF GestureInv, Settled
<1> QED
  BY <1>1, <1>2, <1>3 DEF ReleaseEnds

\* A wheel event that is not taken up strands a page it found moved.
LEMMA WheelSettles ==
  ASSUME GestureInv, NEW back, NEW enough, NEW at, Wheel(back, enough, at)
  PROVE  GestureInv'
<1> DEFINE s == Interrupt(g, at)
<1>0. Gesture(g) /\ Settled(g)
  BY DEF GestureInv
<1>1. /\ Gesture(s) /\ s.timer = "none" /\ s.vis = g.vis /\ s.stranded = g.stranded /\ s.by = g.by
      /\ g.phase \notin {"cancelling", "committing"} => s = g
      /\ g.phase \in {"cancelling", "committing"} => s.phase = "idle" /\ g.by = "none"
  BY <1>0, InterruptFacts
<1>2. \/ s.phase = "possible" /\ g' = Used(s)
      \/ s.phase = "idle" /\ g' = Used([s EXCEPT !.pending = FALSE, !.stranded = s.vis])
      \/ s.phase = "idle" /\ g' = Used([s EXCEPT !.pending = TRUE, !.wheel = "pending", !.stranded = s.vis])
      \/ s.phase = "idle" /\ g' = Used([s EXCEPT !.phase = "dragging", !.vis = TRUE, !.d = 1, !.origin = 0,
                                              !.pending = FALSE, !.wheel = "finish"])
      \/ s.phase = "dragging" /\ g' = Used([s EXCEPT !.d = Clamp(s.d + (IF back THEN 1 ELSE -1)),
                                              !.pending = FALSE, !.wheel = "finish"])
  BY DEF Wheel
<1>3. s.phase = "idle" => s.by = "none"
  BY <1>0, <1>1 DEF Settled
<1>4. s.phase # "idle" => s = g
  BY <1>0, <1>1 DEF Gesture
<1> HIDE DEF s
<1>5. CASE s.phase = "possible" /\ g' = Used(s)
  BY <1>0, <1>4, <1>5, UsedAlike, AlikeSettled DEF GestureInv
<1>6. CASE s.phase = "idle" /\ g' = Used([s EXCEPT !.pending = FALSE, !.stranded = s.vis])
  <2> DEFINE t == [s EXCEPT !.pending = FALSE, !.stranded = s.vis]
  <2>1. /\ Gesture(t) /\ t.phase = "idle" /\ t.timer = "none" /\ t.vis = s.vis /\ t.stranded = s.vis
        /\ t.by = "none"
    BY <1>1, <1>3, <1>6 DEF Gesture
  <2> HIDE DEF t
  <2>2. Settled(t) /\ g' = Used(t)
    BY <1>6, <2>1 DEF Settled, t
  <2> QED
    BY <2>1, <2>2, UsedAlike, AlikeSettled DEF GestureInv
<1>7. CASE s.phase = "idle" /\ g' = Used([s EXCEPT !.pending = TRUE, !.wheel = "pending", !.stranded = s.vis])
  <2> DEFINE t == [s EXCEPT !.pending = TRUE, !.wheel = "pending", !.stranded = s.vis]
  <2>1. /\ Gesture(t) /\ t.phase = "idle" /\ t.timer = "none" /\ t.vis = s.vis /\ t.stranded = s.vis
        /\ t.by = "none"
    BY <1>1, <1>3, <1>7 DEF Gesture
  <2> HIDE DEF t
  <2>2. Settled(t) /\ g' = Used(t)
    BY <1>7, <2>1 DEF Settled, t
  <2> QED
    BY <2>1, <2>2, UsedAlike, AlikeSettled DEF GestureInv
<1>8. CASE s.phase = "idle" /\ g' = Used([s EXCEPT !.phase = "dragging", !.vis = TRUE, !.d = 1, !.origin = 0,
                                              !.pending = FALSE, !.wheel = "finish"])
  <2> DEFINE t == [s EXCEPT !.phase = "dragging", !.vis = TRUE, !.d = 1, !.origin = 0,
                            !.pending = FALSE, !.wheel = "finish"]
  <2>1. Gesture(t) /\ t.phase = "dragging" /\ t.timer = "none" /\ t.vis
    BY <1>1 DEF Gesture
  <2> HIDE DEF t
  <2>2. Settled(t) /\ g' = Used(t)
    BY <1>8, <2>1 DEF Settled, t
  <2> QED
    BY <2>1, <2>2, UsedAlike, AlikeSettled DEF GestureInv
<1>9. CASE s.phase = "dragging" /\ g' = Used([s EXCEPT !.d = Clamp(s.d + (IF back THEN 1 ELSE -1)),
                                              !.pending = FALSE, !.wheel = "finish"])
  <2> DEFINE t == [s EXCEPT !.d = Clamp(s.d + (IF back THEN 1 ELSE -1)), !.pending = FALSE, !.wheel = "finish"]
  <2>1. Gesture(t) /\ t.phase = "dragging" /\ t.timer = "none" /\ t.vis = s.vis
    BY <1>1, <1>9 DEF Gesture
  <2>3. s.vis
    BY <1>0, <1>4, <1>9 DEF Settled
  <2> HIDE DEF t
  <2>2. Settled(t) /\ g' = Used(t)
    BY <1>9, <2>1, <2>3 DEF Settled, t
  <2> QED
    BY <2>1, <2>2, UsedAlike, AlikeSettled DEF GestureInv
<1> QED
  BY <1>2, <1>5, <1>6, <1>7, <1>8, <1>9

\* The pause after the wheel.
LEMMA WheelTimerSettles ==
  ASSUME GestureInv, NEW fast, WheelTimer(fast)
  PROVE  GestureInv'
<1> DEFINE s == [g EXCEPT !.wheel = "none", !.pending = FALSE]
<1>1. Alike(s, g)
  BY DEF GestureInv, Gesture, Alike
<1>2. \/ g.phase = "dragging" /\ g' = Released(s, fast)
      \/ g' = s
  BY DEF WheelTimer
<1> HIDE DEF s
<1>3. Gesture(s) /\ Settled(s) /\ s.phase = g.phase
  BY <1>1, AlikeSettled DEF GestureInv, Alike
<1> QED
  BY <1>2, <1>3, ReleasedSettles DEF GestureInv

\* The gesture of the host.
LEMMA NativeSettles ==
  ASSUME GestureInv, NEW kind, NEW at, NativeProgress(kind, at)
  PROVE  GestureInv'
<1> DEFINE i == Interrupt(g, at)
           p == NoPointer(i)
           s == [p EXCEPT !.target = IF g.phase \in {"cancelling", "committing"} THEN -1 ELSE @,
                          !.vis = TRUE, !.phase = "dragging"]
<1>0. Gesture(i) /\ i.timer = "none"
  BY InterruptFacts DEF GestureInv
<1>1. \/ g' = Used([s EXCEPT !.host = "tracking", !.d = at])
      \/ g' = [s EXCEPT !.d = at]
      \/ g' = FinishCancel([s EXCEPT !.host = "none"])
      \/ g' = [s EXCEPT !.host = "none", !.phase = "committing", !.d = 2,
                        !.timer = "native", !.barrier = "animating"]
  BY DEF NativeProgress
<1> HIDE DEF i
<1>2. Gesture(p) /\ p.timer = "none" /\ p.by = "none"
  BY <1>0, NoPointerAlike DEF Alike, NoPointer, Gesture
<1> HIDE DEF p
<1>3. Gesture(s) /\ s.timer = "none" /\ s.by = "none" /\ s.vis /\ s.phase = "dragging"
  BY <1>2 DEF Gesture
<1> HIDE DEF s
<1>4. CASE g' = Used([s EXCEPT !.host = "tracking", !.d = at])
  <2>1. LET t == [s EXCEPT !.host = "tracking", !.d = at] IN Gesture(t) /\ Settled(t)
    BY <1>3 DEF Gesture, Settled
  <2> QED
    BY <1>4, <2>1, UsedAlike, AlikeSettled DEF GestureInv
<1>5. CASE g' = [s EXCEPT !.d = at]
  BY <1>3, <1>5 DEF GestureInv, Gesture, Settled
<1>6. CASE g' = FinishCancel([s EXCEPT !.host = "none"])
  <2>1. LET t == [s EXCEPT !.host = "none"] IN Gesture(t) /\ Settled(t) /\ t.phase = "dragging"
    BY <1>3 DEF Gesture, Settled
  <2> QED
    BY <1>6, <2>1, FinishCancelSettles DEF GestureInv
<1>7. CASE g' = [s EXCEPT !.host = "none", !.phase = "committing", !.d = 2,
                          !.timer = "native", !.barrier = "animating"]
  BY <1>3, <1>7 DEF GestureInv, Gesture, Settled
<1> QED
  BY <1>1, <1>4, <1>5, <1>6, <1>7

\* A reset puts the page back whatever was going on.
LEMMA ResetSettles ==
  ASSUME NEW s, Gesture(s)
  PROVE  Gesture(Reset(s)) /\ Settled(Reset(s))
<1> DEFINE t == [s EXCEPT !.timer = "none", !.wheel = "none", !.pending = FALSE,
                          !.barrier = IF @ = "animating" THEN "done" ELSE @, !.phase = "idle"]
<1>1. Gesture(t) /\ t.timer = "none" /\ t.phase = "idle"
  BY DEF Gesture
<1>2. Reset(s) = NoPointer(NoVisuals(t))
  BY DEF Reset
<1> HIDE DEF t
<1> DEFINE v == NoVisuals(t)
<1>3. Gesture(v) /\ ~v.vis /\ v.timer = "none" /\ v.phase = "idle"
  BY <1>1, NoVisualsSet
<1> HIDE DEF v
<1>4. Alike(NoPointer(v), v) /\ NoPointer(v).by = "none"
  BY <1>3, NoPointerAlike DEF NoPointer, Gesture
<1>5. Reset(s) = NoPointer(v)
  BY <1>2 DEF v
<1> QED
  BY <1>3, <1>4, <1>5 DEF Alike, Settled

\* The host goes back; the action is updated or unmounted.
LEMMA OtherSettles ==
  ASSUME GestureInv, NativeCommit \/ Update \/ Unmount
  PROVE  GestureInv'
<1>0. Gesture(g) /\ Settled(g)
  BY DEF GestureInv
<1>1. CASE NativeCommit
  <2>1. g' = [g EXCEPT !.barrier = "none", !.backs = @ + 1]
    BY <1>1 DEF NativeCommit
  <2>2. /\ Gesture(g') /\ g'.backs = g.backs + 1 /\ g'.phase = g.phase /\ g'.timer = g.timer
        /\ g'.vis = g.vis /\ g'.stranded = g.stranded /\ g'.target = g.target /\ g'.by = g.by
    BY <1>0, <2>1 DEF Gesture
  <2> QED
    BY <1>0, <2>2 DEF GestureInv, Settled, Gesture
<1>2. CASE Update
  <2> DEFINE s == [g EXCEPT !.on = ~@, !.toggles = @ + 1]
  <2>1. Alike(s, g) /\ g' \in {s, Reset(s)}
    BY <1>0, <1>2 DEF Update, Gesture, Alike
  <2> HIDE DEF s
  <2>2. Gesture(s) /\ Settled(s)
    BY <1>0, <2>1, AlikeSettled
  <2> QED
    BY <2>1, <2>2, ResetSettles DEF GestureInv
<1>3. CASE Unmount
  <2> DEFINE s == [g EXCEPT !.gone = TRUE]
  <2>1. Gesture(s) /\ g' = Reset(s)
    BY <1>0, <1>3 DEF Unmount, Gesture
  <2> HIDE DEF s
  <2> QED
    BY <2>1, ResetSettles DEF GestureInv
<1> QED
  BY <1>1, <1>2, <1>3

\* For any number of gestures: a page at rest is in its place, but for the stranding
\* the wheel can cause, and a release always has the timer that ends it.
THEOREM GestureIsClean == GestureSpec => []GestureClean
<1>1. GestureInit => GestureInv
  BY DEF GestureInit, GestureInv, Gesture, Settled
<1>2. ASSUME GestureInv, [GestureNext]_gestureVars
      PROVE  GestureInv'
  <2>1. CASE UNCHANGED gestureVars
    BY <1>2, <2>1 DEF gestureVars, GestureInv
  <2>2. CASE GestureNext
    BY <1>2, <2>2, DownSettles, MoveSettles, UpSettles, ReleaseSettles, WheelSettles, WheelTimerSettles,
       NativeSettles, OtherSettles DEF GestureNext
  <2> QED
    BY <1>2, <2>1, <2>2
<1>3. GestureInv => GestureClean
  BY DEF GestureInv, Gesture, Settled, GestureClean, IdleIsClean, ReleaseHasTimer
<1> QED
  BY <1>1, <1>2, <1>3, PTL DEF GestureSpec
=============================================================================
