# LorePia: TLA+ models, checks and proofs

LorePia is a local-first chat client: a Svelte WebView, a Tauri host written in
Rust, and a set of Rust crates for storage, providers, prompts, memory, imports,
assets and backups. This directory models those parts, checks the models with
TLC on small instances, and proves the safety of the parts in which several
tasks, a database that can fail and a process that can die have to agree, with
TLAPS, for every instance. `PROJECT.json` maps every definition to the lines it
models, and lists the hazards with the line where each one bites.

## 1. The system

    WebView                          Rust host (src-tauri)              SQLite, files
    -------                          ---------------------              -------------
    chat page, stream.ts
      start ---------------------> start_provider_stream --begin_turn--> messages,
        <-- channel: Started, delta*, terminal -- run_stream_bridge      active_path,
      ack / cancel / reset ------> commands         --checkpoint,        request_state
                                   ack watchdog       finish, ack----->
    preferences, listings -------> storage gate, WAL maintenance ------> store
    import, backup --------------> import service, asset store, export, restore

A turn is opened in the store before the provider is called, its text is
checkpointed while it streams, and its terminal event is shown only when the row
has its outcome. Behind a turn, the prompt compiler, lorebook, memory and persona
crates decide what is sent; the provider crates compile it for six providers and
decode five dialects of answers.

## 2. Modules

| Module | Models | Checked by | Proved in |
|---|---|---|---|
| `JournalRow`, `ChatStore` | chats, message tree, active path, request journal, recovery at open | `store` | `ChatStoreProofs` |
| `StorePages` | the six listings read page by page while the rows change; the render cache | `engines` | |
| `StreamStart` | `start_provider_stream`, registry, byte reservation, rejected starts | `native` | `AdmissionProofs` |
| `TurnContract` | what a start promises its caller (abstract) | `native` | `AdmissionProofs` |
| `StreamBridge` | one stream from `Started` to the eviction of its receipt | `bridge_*` | `StreamBridgeProofs` |
| `StorageGate` | the gate of the storage commands, WAL maintenance down to the checkpoints | `native` | `AdmissionProofs` |
| `ImportSession` | staging directory, lease, heartbeat, rollback and recovery of an import | `native` | `RecoveryProofs` |
| `Restore` | `restore_backup`, its journal, resumption and rollback | `native`, `restore_rollback_crash` | `RecoveryProofs` |
| `AssetStore`, `BackupExport` | content-addressed files with their catalogue; the resumable export over it | `assets`, `assets_stale_intent` | |
| `ProviderRun` | one run of the provider runtime: framing, channel, timers, cancellation | `native` | |
| `ProviderCompile`, `ProviderCall`, `Decoders`, `ChatRequest`, `PromptCompile`, `ImportArchive`, `MemoryPresets` | pure functions, one question at a time (`Cases`) | `engines` | |
| `Lorebook`, `Memory`, `Persona`, `HostBroker` | engines with state | `engines` | |
| `Preferences` | the preferences controller and its commands | `webview` | `WebViewProofs` |
| `BackGesture` | the swipe back | `webview` | `WebViewProofs` |
| `StreamClient` | `startFirstChatStream` of stream.ts | `webview` | |
| `ChatPage` | history loads, optimistic messages, the stream shown | `webview`, `chat_switch` | |

`MC*` modules instantiate them. Parts that share no state are checked in one run,
one at a time: `which` (or `story`, or `engine`) names the part whose behaviour it
is, and is part of the state. `StreamBridgeInv` states the inductive invariant of
the bridge; `StreamBridgeFacts`, `StreamBridgeSteps` and `StreamBridgeRulings`
carry its proof.

### How state and steps correspond to the code

* **ChatStore.** One action per public call: every call is one IMMEDIATE
  transaction. A call that is refused changes nothing, so it is not enabled.
  Arguments range over all values, which stands for stale, repeated and reordered
  calls. `Restart` is a crash followed by `initialize_database`. Visible text is
  the set of sequence numbers of the events that carried it, in order.
* **StreamBridge.** A step is what the code does between two suspension points
  others can observe: a section under the `machine` lock, a storage call, a
  channel send, an atomic operation. `bridge.pc`, `ackers[a].pc`, `watchdog`,
  `owner`, `reset` and `snapshot` are the positions of the tasks. A storage call
  succeeds, fails without effect (`error`), or commits and is reported as failed
  (`lost`). Timers may fire at any time. The provider is an environment.
* **StreamStart.** Each await and each lock is a step, so calls interleave at all
  of them. The bridge that follows is one step that closes the turn. `Retire` is
  the recovery task of a rejected start. A clock that fails after `insert_new`
  (provider_stream.rs:741) ends the call without giving its slot back: the model
  has the leak.
* **StorageGate.** The semaphore with its queue, the admission timeout, the
  blocking closure that runs on when its caller is gone, the reader registration,
  and PASSIVE, RESTART and TRUNCATE as three steps in which a backup's reader may
  come and go. The scheduler looks at the shutdown at the head of its loop, at the
  entry of a run and after it has claimed the run: each look, the claim and the
  request for the gate are steps, and a shutdown may come between any two.
* **ImportSession.** Several services share a staging root and a catalogue; each
  file operation and each transaction is a step; a lease gets old at any time.
* **Restore.** Each rename, removal or journal write is a step, and `Stop` (crash,
  I/O error, cancel, missing space) may come between any two. The next call
  starts from the disk alone, with either policy.
* **AssetStore, BackupExport.** One file operation or one committed statement per
  step; a crash keeps file changes and undoes the open transaction. Handles on one
  directory meet only in SQLite.
* **Preferences, StreamClient, ChatPage, BackGesture.** A step is what runs
  between two awaits of the event loop; loads, saves, acknowledgements and timers
  are round trips during which anything else may run. A snapshot, an
  acknowledgement or a cancel may be refused; the client then aborts, tells its
  caller once and cancels what it had been authorised for. In `Persona` two
  editors hold what they read while the catalogue changes, and in `Memory` several
  jobs wait for their helper model at once.
* **Pure functions.** `Cases` asks one function one question of a small set and
  holds the answer; the property compares it with a reference definition that is
  written from the promise, not from the algorithm.

Data are abstracted to what the properties tell apart: a message is its number, a
text a short sequence of tokens, a persona its size. Limits keep their role
(window, pressure threshold, byte budget, capacity) at small values.

## 3. Runs

| Run | What it checks | What it shows |
|---|---|---|
| `store` | `JournalIsSound`, `TreeIsSound`, `OutcomeIsFinal` | watermarks ordered, stored text exact, message and request agree; selected paths are ancestries, ordinals never collide; outcomes are final, across restarts and repeated calls |
| `bridge_commands` | `RecordsAgree`, `StoredTextExact`, `TerminalBackedByRow` | with a failing or lost storage call, token counts or a cancel at any step: nothing acknowledged is lost, the text is that of the durable events, no terminal precedes its row |
| `bridge_owner` | `ClientSeesTruth`, `StallIsWatched`, `ReceivedEventIsAckable` | while the window resets, is destroyed, takes a snapshot or acknowledges twice at once: the channel is gapless, a stalled client is watched, a received event is never out of range |
| `bridge_settles` | `RowSettles`, `AckAnswered` | after a fault that storage recovers from the request leaves `running` and every acknowledgement is answered |
| `native` | `DataSafe`, `OldGivenUpLast`, `RestoreResumes` (restore); `SlotsAccounted`, `ContractKept` (start); `GateSafe`, `GateSettles` (gate); `RunKeepsPromise` (provider run); `ImportSafe`, `ResidueReclaimed` (import) | each service keeps its promise under its own interleavings, crashes and faults |
| `assets` | `AssetsAccounted`, `SharingSafe`, `ExportSafe` | eight workloads of two handles: bytes and rows agree, no object in use is swept or quarantined by another, an export is complete or says it is not |
| `webview` | `PreferencesKept`, `ClientHonest`, `PageWhole`, `GestureClean`, `WebViewSettles` | late answers, lost events, failing commands and overlapping loads do not undo a newer choice, invent an outcome, or leave the screen half done |
| `engines` | one property per algorithm or engine | prompts, requests, replies, history, archives and presets equal their reference definitions; lorebook, memory, persona, listings and broker keep theirs over sequences of calls |

Four runs are expected to be violated. Each states what the repository says of
itself, and the finding in `PROJECT.json` quotes it:

| Run | Statement | What happens |
|---|---|---|
| `bridge_lost_delivery` | a transient storage failure does not leave a `running` row | one failed `record_delivery` leaves the buffer a sequence behind; the terminal's own delivery is then refused locally on every retry |
| `restore_rollback_crash` | the journal makes an interrupted restore resumable | a crash inside `rollback_publish` leaves the journal at `new_published`; every later call is refused |
| `assets_stale_intent` | what is quarantined did not match its hash | an intent left by an I/O error is completed at the next open on good content published since |
| `chat_switch` | the page waits for the terminal state, then reads the history | the terminal callback of the stream left behind starts a reload that invalidates the load of the new chat |

### Where the code does less than one might expect

The properties say what holds; these behaviours are in the models and limit what
the properties may say.

* **Start.** The slot of a call whose clock failed is kept until the process ends.
  `SlotsAccounted` says that it is the only one, and that such a call has opened no
  turn.
* **Shutdown of the WAL scheduler.** A run that passed its last look before the
  shutdown still runs. `NoRunOnceQuiet` says that once a shut-down scheduler is
  seen without a run in progress, it never asks for the gate again.
* **Stream client.** An acknowledgement that waits for durability is refused with
  `STREAM_CANCELLED` when the stream is cancelled, and the client takes the refusal
  for a broken protocol. A cancel that was accepted may so be reported as `failed`;
  `ClientHonest` says when the client may call a stream failed on its own.
* **Chat page.** The end of a stream left running in another chat reloads the
  history and cancels the frame buffer of whichever stream is active then, so
  deltas of the new stream are not shown until it is reloaded: `PageWhole` excepts
  a stream sent while another was left behind. A new chat surely becomes ready only
  when no stream is left behind (`WebViewSettles`); the other case is
  `chat_switch`.
* **Persona.** A revision counts from 1 for every new persona. When one is removed
  and another is added under its id, an editor that still holds the first may write
  over the second. `PersonasHold` says that this is the only way to overwrite what
  one has not read.
* **Memory.** Two jobs planned over overlapping stretches are both accepted, and a
  selection may then tell a message twice, by two leaves. `MemoryIsSound` says that
  no leaf is told twice, also not inside the summary that consolidates it, and that
  summaries of separate stretches are told in chat order.
* **Prompt export.** An exported preset may be larger than an import admits.
  `ImportIsInert` says that one that is admitted comes back the same, with its
  tools off.
* **Archives.** A file that stands where a directory listed after it should be is
  admitted: only a file looks at its parents.

Two behaviours of the bridge limit its properties too. A usage counter
that decreases makes the store refuse checkpoint, finish and fallback, so
`RowSettles` is checked without token counts. An event is sent outside the lock,
after its reservation, so a delta may follow an accepted cancel; and when the
commit of `cancelled` fails on every try, the fallback publishes `failed`.
`ClientSeesTruth` therefore says of an accepted cancel that the terminal is
`cancelled`, or `failed` where storage has failed, and never `completed`.

### Bounds, and why they are enough

* **Bridge.** `MaxInFlight` stands for the window of 4. At 2 the window, the
  pressure threshold one below it and the terminal's extra slot are still
  distinct; `bridge_settles` has 3, so an event can wait unflushed for the timer.
  `MaxWire` 3 lets two events and a terminal through, which fills the window; 2 is
  enough where the question is about one event in flight. `ack_gate` admits one
  acknowledgement at a time, so two are all the overlap there is. The disturbances
  are taken one kind at a time (`story`): all together are beyond TLC. The proofs
  below take them together.
* **Store.** Four messages give two branches of depth two, or a branch and a turn.
* **Restore.** Four stops interrupt a call, its undo, and two calls after that; at
  six stops no new arrangement of trees and journal appears.
* **Start.** Three calls for two places: one call is refused for the limit while
  the others race. **Gate.** A read, a write and the maintenance job; thresholds 1
  and 2 so that all three checkpoints happen. **Import.** Two services, two ids,
  two files: a batch fails after its first file. **Run.** Ten responses, each with
  a different end, frames at the limit, a channel of one.
* **Assets.** Two contents of sizes 1 and 2 under a total of 2, so either fits and
  both do not. **WebView.** Two edits, one fault, one save by another window; two
  sends; three gestures, so an interrupted one can be interrupted again.
* **Engines.** Each limit is small enough to be met and exceeded. Memory has three
  messages, two jobs or retrievals at once (`MaxJobs`), and one budget of changes
  (`MaxMemEdits`) for edits, deletions, compactions, a rebound session and an
  edited prompt; its preset is chosen at the start. A preset's revision stops at
  `MaxPresetRevision`, a persona text in a prompt at `MaxPersonaInput`, and an
  imported preset at `MaxJsonNodes`, which an export just exceeds. Extra parameters
  come in the spellings that fold to a reserved or sensitive name, at the top and
  nested. A prompt is compiled for all six providers, so what it says is followed
  from the preset into the body that is sent, word by word with its role.

CHECK_DEADLOCK is off where the modelled part really ends: a stream after its
receipt is evicted, a completed restore, a user who does nothing more, an
algorithm that has answered.

### Fairness

Fairness is asked of what the runtime schedules, never of the user, the client or
a crash. Spawned tasks are polled, blocking closures end, promises settle, timers
fire: weak fairness. Strong fairness is asked of five things: the end of a
provider's run (the runtime bounds it by its overall timeout, and the biased
select cannot pass it over for ever, a clean flush request not suspending); entry
to the terminal path, for the same reason; `ack_gate` (tokio's mutex is first
come, first served); a later restore with the policy `Replace`, since calls with
the other policy may come in between; and the release of a pointer, since a held
finger is a swipe that has not ended.

## 4. What is proved

TLAPS checks these for every value of the constants. Each bound that TLC needs
(number of calls, faults, stops, edits, frames) is a parameter here, constrained
by the named assumption of its module only. Every inductive invariant was checked
by TLC before it was proved.

**ChatStore** (`ChatStoreProofs`; `NoMessage` is no message, the bounds are
naturals). `TypeCorrect`, `JournalSafe`, `TreeSafe`, `OutcomesFinal`. The
invariant is `JInv /\ TInv`. `JInv` adds `OneWriter` (two requests never share an
assistant message, or a checkpoint of one would change the text of the other) and
`Bounded` (ordinals and sibling numbers have an upper bound, so the maxima in the
code exist). The path argument is about `Respliced`: below the divergence the old
path and the new ancestry agree, from it on the new ancestry is inserted, so the
result is the new ancestry.

**StreamBridge** (`StreamBridgeProofs`, over `StreamBridgeFacts`,
`StreamBridgeSteps` and `StreamBridgeRulings`; window and wire are positive, the
other bounds naturals). `BridgeRecordsAgree`, `BridgeStoresText`,
`BridgeBacksTerminal`, `BridgeTellsTruth`, `BridgeWatchesStall`,
`BridgeTakesAcks`: all six safety invariants of the bridge runs, with faults,
cancel, reset, destruction, snapshots, any number of acknowledgements and crashes
all at once. None is inductive; `BInv` of `StreamBridgeInv` is:

* `Phase`: what each position of the bridge task implies of the machine, the
  buffer and the row;
* `Channel`: what is on the wire is what was reserved, or one more while the send
  is not committed;
* `Watermarks`: acknowledged, durable and sent are ordered, between machine,
  buffer and row, with the gap a lost answer may open;
* `Verdict`: a terminal or a receipt is the row's outcome, and which outcome each
  step of the terminal path may still rule (`Ruling`);
* `Texts`: stored text followed by the buffer is what was delivered;
* `AckerHolds`: what an acknowledgement read before an await still holds after it;
* `Watchers`: whatever is in flight has an armed deadline or a published stop.

Acknowledgements run beside the bridge and only raise the watermarks the bridge
compares with, which is why the facts of `AckerHolds` survive the bridge's steps.

**Restore** (`RecoveryProofs`; both bounds are naturals). `RestoreSafe` (with
`RestoreTyped`, `NeverPartial` and `DataKept` behind it): a whole copy of the old
or the new data is on the disk and nothing copied in part is published.
`OldKeptUntilPublished`: the old data is given up last. Whether a rename is safe depends on what the journal lets the call believe of the trees, so
`IInv` says that there are four arrangements (`Untouched`, `Waiting`, `Aside`,
`InPlace`), which of them each journalled phase allows (`JournalTruthful`), that
the running call agrees with the journal (`CallAgrees`) and what holds before
each step (`StepReady`). This covers the states `restore_rollback_crash` ends in:
the restore is stuck there, but the data is on the disk.

**ImportSession** (`RecoveryProofs`; 0 is no id). `ImportIsSafe`: for any services,
imports and files, an import is in the catalogue as a whole or not at all, as its
caller was told, and the staging directory of a live one is not removed.
`ImportInv` adds `OwnImport` (an id that is being imported belongs to one service
and has not been answered) and `OwnerGets` (until the answer the owner has nothing,
or the whole batch once committed). A recovery that takes an expired lease ends it
before it removes the directory, so what the importer still does under that id is
refused.

**StorageGate** (`AdmissionProofs`; `GateAssumption`: reads are calls, the
maintenance job is none of them, and the thresholds are ordered). `GateIsSafe`: a
call that was refused never runs, the active readers are exactly the reads that
run, the starvation count is the current streak, and TRUNCATE only follows a
RESTART that came out clean. `ShutdownHolds`: once a scheduler that was told to
stop is seen without a run in progress, it never asks for the gate again
(`NoRunOnceQuiet`, part of `GateSettles`). `GateInv` adds `QueueExact` (the semaphore's queue is the
waiting calls, each once), `ReadersExact`, `WalOut`, `NotRan`, `LogOrdered`,
`StageOrder` and `Counts` (the starved streak is the length of the last run of
starved reports).

**StreamStart** (`AdmissionProofs`; finitely many calls, at least one attempt).
`StartAccountsForSlots`: the byte reservation is the sum over the registered
streams, every slot and every running row has somebody who gives it back, but for
the slot of a call whose clock failed, however many starts race, fail or restart. `StartKeepsContract`: the refinement
`StartSpec => KeepsContract`, each step being a step of `TurnContract` or a
stutter. `StartInv` is `StartTypeOK`, `ReservationExact` (the reservation counted
over the calls that hold a place) and `CallConsistent` (what each position of a
call implies of its slot, its turn and its answer).

**Preferences** (`WebViewProofs`; the bounds are naturals). `PreferencesAreKept`:
what the user chose last is what is shown, and a quiet controller has stored every
edit, for any number of edits, faults and saves by others. `PrefInv` adds where an
edit is until it is stored. `PendingOK`: a timer, the queue or a write has it.
`FlightOK`: a save in flight carries what is shown or is followed by another.
`LoadOK`: a client that has not loaded yet has every edit still to write, so a late
load is merged under them. `RowOK`: until somebody else saves, the row is what the
client takes it for.

**BackGesture** (`WebViewProofs`; no assumption). `GestureIsClean`: a page at rest
is in its place, and a release animation always has the timer that ends it. The
exception the property names is the stranding by the wheel, which the code allows. `GestureInv` is the shape of the gesture record for each kind and phase,
with the timers that may be pending in it, and `Settled`.

## 5. What only TLC checks

* **Liveness and ENABLED**: `RowSettles`, `AckAnswered`, `RestoreResumes`,
  `GateSettles`, `RunKeepsPromise`, `ResidueReclaimed`, `WebViewSettles`, and the
  part of `BrokerSafe` that says the broker is never stuck. They are outside the
  prover.
* **Recursive definitions**: what the algorithms of run `engines` compute
  (`ArchiveIsSound`, `PromptIsFaithful`, `RequestIsFaithful`, `ReplyIsFaithful`,
  `HistoryIsFaithful`, `PresetsAreSound`) and the engines built on them
  (`LoreIsCurrent`, `MemoryIsSound`, `PersonasHold`, `ListingsHold`). A proof needs
  induction over data, which is not available.
* **Safety without a proof so far**: `AssetsAccounted`, `SharingSafe` and
  `ExportSafe` (sums of sizes over sets that change in two handles),
  `ClientHonest`, `PageWhole`, and the safety part of `BrokerSafe`.

`PreferencesAreKept`, `GestureIsClean` and the other theorems speak of a
component's own specification; the `MC*` modules that put several side by side
leave the others unchanged, so their steps are those of the component or stutters.

## 6. Not modelled

* Schema migrations, the rows of a character, and the text of command responses.
* The credential vault: one call on the keychain of the operating system.
* Compatibility normalisation and the regex library of the lorebook, embedding
  vectors and their hash order: external, any answer is allowed.
* The manifest format of a backup, a journal left by another package, two
  restores at once, files changed by someone else.
* The tool runtime, which nothing in the product calls; safety reports; core
  types; the app shell and native plugins, whose events are actions of the models
  that receive them.
* Views, layout, themes, routing tables and form validation of the WebView.
* Spikes and tools, but for the host broker of the channel-stream spike.
