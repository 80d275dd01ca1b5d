# TLA+ verification of the SDA file store

This directory holds the TLA+ models, TLC configurations and TLAPS proofs
kept beside the Sensitive Data Archive (SDA) pipeline. The code is in `src/`
and the design document is `spec.md`.

## The system and its parts

The design (spec.md §2) names six components:

| # | Component | Code in `src/` | Status here |
|---|-----------|----------------|-------------|
| C1 | Event-logged file store (`SDAdb`) | `src/sda/cmd/finalize/finalize.md`, lines 148-956 (package `database`) | partly modelled: `SDAdb.tla`, `SDAdbEvents.tla`, `SDAdbKeys.tla`, with `SDAdbEvents.tla` refining `FileEventLog.tla` |
| C2 | Broker adapter | none (described in spec §4.2) | planned |
| C3 | Worker skeleton (finalize, mapper, ...) | finalize's steps described in `finalize.md` lines 111-147 | planned |
| C4 | Admin API | only its README (`src/unnamed/part_001`); handlers not in `src/` | planned, from the spec |
| C5 | Readiness and shutdown | none | not modelled |
| C6 | Schema validator | none | not modelled beyond one guard |

Outside the six components, `sda-auth/info.go` is the `/info` endpoint of the login service. It is modelled in `AuthInfo.tla`.

The rest of `src/` is not part of the coordination layer:
- `admin-ui/.../script.js` fills an HTML table.
- `unnamed/part_000` is the integration-test launcher.
- `api_test.go`, `syncapi_test.go` and `part_002` are tests.

**How the parts interact.**
- The Admin API (C4) checks the store (C1), then publishes a command message through the broker (C2).
- A worker (C3) consumes the message and calls the store's retrying operations.
- The worker then publishes the next message and acks only after that publish.
- Every store operation is a retry loop of at most `RetryTimes` attempts around a single-attempt inner function.
- Many goroutines call the store at once over one shared connection pool (spec §5).
- Hence the statements of two calls interleave. A transaction isolates only what runs inside it.

## What is modelled: `SDAdb.tla`

**State** (the tables of schema `sda`):

| Variable | Table or column |
|----------|-----------------|
| `fileRow` | `files.(submission_user, submission_file_path)`, or `NoRow` |
| `stableID` | `files.stable_id`, or `NoAcc` |
| `eventLog` | `file_event_log`, as a sequence in id order |
| `datasets` | `datasets.stable_id` |
| `fileDataset` | `file_dataset` rows |

Each session (a goroutine using the pool) also has:
- `pc`: the statement it executes next;
- `count`: the attempt counter of its retry loop;
- its call's arguments;
- `todo`: the accessions its mapping attempt has still to map;
- `txRows`: the rows its open transaction has inserted, which no other session sees.

The history variables `call`, `result` and `committed` record what the last multi-statement call returned and what it committed.

**Actions.** Each action is one SQL round trip. The table gives the code each one models:

| Action | Code |
|--------|------|
| `RegisterFile` | `SELECT sda.register_file`, one atomic statement (166-181) |
| `UpdateFileEventLog` | the `INSERT` into `file_event_log` (213-241) |
| `CheckAccessionIDExistsSame`, `CheckAccessionIDExistsCount` | the two `SELECT COUNT` queries of `checkAccessionIDExists` (444-469) |
| `CheckAccessionIDExistsFail` | a failed attempt of that call, which goes round the loop of 430-442 |
| `SetAccessionIDUpdate`, `SetAccessionIDFail` | the `UPDATE` of `setAccessionID` (486-500) and its loop (473-485) |
| `MapDatasetInsert` | the dataset insert on the pool (525) |
| `MapBegin`, `MapBeginFail` | `db.Begin()`, whose error is discarded (530) |
| `MapLookupInsert` | one accession's lookup plus its insert in the transaction (531-550) |
| `MapCommit` | `Commit` (552) |
| `SetAccessionIDUpdateLost`, `MapCommitLost` | the write takes effect but its reply is lost; the loop retries, or returns the error after the last attempt |
| `MapAttemptFail` | any failing statement with its rollback, then the loop of 503-514 |

Details:
- The `Start*` actions begin a call. `StartAssignAccession` models what the callers do: check the accession, then set it if the check found it unused (spec §4.1, §4.4).
- `Retry` is the shared retry loop: `for count := 1; count <= RetryTimes`, with the sleep left out.
- `Return` ends a call. A failed `Begin` makes the caller panic. The model records that as the result `"crash"`, with nothing written in the transaction.
- `LostReplies` (a constant) switches on lost replies. A connection can drop after the server committed, and the driver then returns an error for a write that took effect.
- `MapLookupInsert` joins the lookup and the insert into one step. The insert writes only the session's own transaction, so no other session can tell the two apart.

## What is modelled: `SDAdbKeys.tla`

This module covers the encryption-key registry: `AddKeyHash` (902-932) and `SetKeyHash` (934-956). It shares no state with the accession and mapping calls, so it is a module of its own and its runs stay small.

**State:**
- `keys`: `encryption_keys`;
- `fileKey`: `files.key_hash`;
- each session's statement, attempt counter, arguments and result;
- `inserted`: a history variable recording whether the session's own INSERT took effect.

**Actions:**
- `AddKeyHashInsert`: the INSERT adds the row.
- `AddKeyHashInsertLost`: the INSERT adds the row, but its reply is lost.
- `AddKeyHashExists`: zero rows are affected. The error "key hash already exists" breaks the loop.
- `AddKeyHashFail`: a transient error, which goes round the loop.
- `SetKeyHashCheck` and `SetKeyHashUpdate`: the lookup and the UPDATE of `SetKeyHash`, two round trips with no retry loop.

## What is modelled: `SDAdbEvents.tla`, the file event log

This module models `sda.file_event_log` as a sequence of rows. Row `i` has id `i`. Each row carries a file, an event, a correlation id and `started_at`. Several sessions write the log with `UpdateFileEventLog` and read it with `GetFileStatus`.

| Action | Code (`finalize.md`) |
|--------|------|
| `StartUpdateFileEventLog`, `StartGetFileStatus` | the call starts its loop (213-219, 304-310) |
| `AppendStart` | `db.Exec` of the INSERT starts, and `now()`, the column default of `started_at`, is fixed for the statement (226-232) |
| `AppendInsert` | the row is written with the next id and the call returns nil (232-240) |
| `AppendInsertLost` | the row commits but the reply is lost, so the loop inserts again (232-235) |
| `AppendFail` | the INSERT fails or affects no row, so the loop retries (232-238) |
| `StatusRead` | `SELECT event ... ORDER BY id DESC LIMIT 1` (318-330). No row means `sql.ErrNoRows`, which the loop retries. |
| `StatusFail` | the query fails and the loop retries (311-327) |

`Retry` and `ReturnOK` are the loop `for count == 0 || (err != nil && count < RetryTimes)`.

**Why two orders:** `started_at` is taken when a statement starts and the id when its row is written. Between the two, another session's INSERT can run entirely. `LatestByStarted` is the subquery of `getUserFiles` (786-788), which takes a file's latest row by `started_at`. `LatestByID` is the status query.

## What is modelled: `FileEventLog.tla`, the abstract event log

`FileEventLog` is the event log as spec §§3 and 4.1 describe it: an append-only sequence of entries (file, event, correlation id). It is modelled from the spec. Each caller of `UpdateFileEventLog` goes through three steps:
- `Begin(c, e)`: the call starts with entry `e`.
- `Record(c)`: the entry is appended. The call may end with this step, or stay running, because a retried INSERT can land twice.
- `Finish(c)`: the call ends.

No entry is ever changed or removed, and nothing is appended that no running call carries.

`SDAdbEvents` instantiates it as `EventLog`. The mapping:
- `events` is the log's rows with `started_at` and the id dropped (`EntryOf`).
- `pending` is a session's argument while it is inside `UpdateFileEventLog`.

`FileEventLogSpec == EventLog!Spec` is a `PROPERTY` of `events_safety`. Each step maps as follows:
- `AppendInsert` and `AppendInsertLost` are `Record`.
- A failure on the last attempt is `Finish`.
- Every other step is a stutter.

## What is modelled: `AuthInfo.tla`, the `/info` endpoint of sda-auth

Iris runs `getInfo` in a goroutine of its own for every request. Each request's handler goes through these steps:

| Action | Code (`src/sda-auth/info.go`) |
|--------|------|
| `Arrive` | the request reaches `getInfo` (36-37) |
| `OpenKeyFile` | `os.Open` in `readPublicKeyFile` (21-26). It fails when the file is absent or no descriptor is free. |
| `ReadKey` | `keys.ReadPublicKey`, then the deferred `file.Close()` on both returns (27-34) |
| `WriteInfo` | `hex.EncodeToString`, the `Info` record and `ctx.JSON` (43-52). The write fails if the client has gone. |
| `ReturnSilently` | the error path of 38-41: `getInfo` logs and returns, and iris answers its default 200 with no body |

**State:**
- `keyFile`: the key file on disk. It holds a key (a byte tuple), malformed content, or nothing that can be opened.
- For each request: its step, whether it holds the file open (`holds`), the key it read, and what its client received.

**What the model does and leaves out:**
- The handlers share only the process's descriptors, `MaxOpen` of them. That bound is what makes their interleaving matter.
- `HexEncode` is the real encoding: two lower-case digits per byte, high nibble first. It is what `getInfo` sends; no property of the key's bytes is checked, because the key file is fixed for the process and the handler only copies it.
- Logging is left out.

## Runs

The `sdadb_*` runs use `MC_SDAdb.tla` with:
- 2 sessions, 2 file ids, 1 user, 2 paths, 2 accessions and 1 dataset;
- `RetryTimes = 2` and an event log of at most 2 rows.

These bounds are enough for the interesting cases:
- Two sessions can race for the same accession, or map while another assigns.
- Two accessions make a mapping call span several statements, so a failure can strike in the middle.
- Two attempts exercise both the retry branch and the give-up branch of every loop.
- Symmetry over the sessions is used in the safety runs only.

| Run | cfg | Expect | Checks |
|-----|-----|--------|--------|
| `sdadb_safety` | `MC_SDAdb.cfg` | pass | `TypeOK`, `StableIDUnique`, `MapAllOrNothing`, `MappedFilesAccessioned` |
| `sdadb_live` | `MC_SDAdb_live.cfg` | pass | `CallsReturn` under `FairSpec` |
| `sdadb_dataset` | `MC_SDAdb_dataset.cfg` | violation | `DatasetRowHasFiles` |
| `sdadb_check` | `MC_SDAdb_check.cfg` | violation | `CheckDuplicateSound` |
| `sdadb_lost` | `MC_SDAdb_lost.cfg` | violation | `MapAllOrNothing` with lost replies |
| `sdadb_reassign` | `MC_SDAdb_reassign.cfg` | violation | `DatasetAccessionsImmutable` |
| `keys_safety` | `MC_SDAdbKeys.cfg` | pass | `TypeOK`, `KeyRefIntegrity` |
| `keys_exists` | `MC_SDAdbKeys_exists.cfg` | violation | `AddKeyHashExistsSound` |
| `events_safety` | `MC_SDAdbEvents.cfg` | pass | `TypeOK`, `ReadYourWrites`, `FileEventLogSpec` |
| `events_order` | `MC_SDAdbEvents_order.cfg` | violation | `StatusViewsAgree` |
| `auth_safety` | `MC_AuthInfo.cfg` | pass | `TypeOK`, `KeyFileReleased` |
| `auth_silent` | `MC_AuthInfo_silent.cfg` | violation | `FailureAnswered` |

The auth runs use 3 requests, one free descriptor and two 2-byte keys, `<<0, 171>>` and `<<255, 16>>`. Every state of the key file is an initial state. With one descriptor, a request can find the file held by another, so the descriptor-exhaustion path is taken. Symmetry over the requests is used.

Lost replies are switched off in `sdadb_safety` and on in `sdadb_live`. With them on, `MapAllOrNothing` fails, as `sdadb_lost` shows. `sdadb_safety` therefore checks the property for the case where the network delivers every reply. `StableIDUnique` holds either way, and the theorem proves it for both values of `LostReplies`.

The event-log runs use 2 sessions, one file, two events, one correlation id, `RetryTimes = 2`, at most 3 statement starts, and lost replies. That is enough for two INSERTs to overlap, for a lost reply to append an event twice, and for a status read to fall between them. With a single correlation id, every read races every write.

The key runs use 2 sessions, 2 key hashes, one file id with a row and one without, `RetryTimes = 2` and lost replies.

**What the passing runs check:**
- `StableIDUnique` (spec §8): no two files hold one stable id. The workers check and then set in two round trips, so two sessions can both see an accession unused. The unique constraint on `stable_id` is what saves the property. The mutant that drops it breaks the property.
- `MapAllOrNothing` (spec §8): a mapping call that returned nil committed a row for every accession it was given. A call that returned an error, or died, committed none.
- `MappedFilesAccessioned`: every `file_dataset` row names a registered file that holds a stable id. `mapFilesToDataset` looks each file up on the pool, outside its transaction, and commits the rows later. The property rests on two things: the lookup's error being checked, and nothing ever clearing a stable id or deleting a file. The mutant that ignores the lookup's error breaks it.
- `FileEventLogSpec`: the refinement of `FileEventLog` above. The mutant that turns the INSERT into an upsert on `file_id` breaks it.
- `KeyRefIntegrity`: every `files.key_hash` names a registered key. `SetKeyHash` looks the key up and updates in two round trips. The property rests on that lookup and on no code ever deleting a key.
- `KeyFileReleased`: a handler holds the key file open only inside `ReadKey`. This rests on the `defer file.Close()`. The mutant that closes only on the success path breaks it.
- `ReadYourWrites`: a session that appended an event and then read its correlation id's status gets its own row or a later one. This holds with concurrent appends and lost replies. The mutant that orders the status query ascending breaks it.
- `CallsReturn`: every call returns. The fairness assumed is weak fairness of each session's round trips: a database round trip is answered or fails. Sessions never wait on each other, so nothing stronger is needed.

**What the violation runs show** (each is recorded in PROJECT.json "findings"):
- `DatasetRowHasFiles`: the dataset row is inserted on the pool before the transaction begins. A failed or crashed mapping call leaves a dataset with no files. The spec says the row is created inside the transaction and the first time an accession is mapped.
- `MapAllOrNothing` under lost replies (`sdadb_lost`): suppose the reply to `Commit` is lost on the last attempt. The call then returns an error although every mapping row is committed. The spec promises that a failed call leaves no rows. No client can keep that promise when a commit's reply is lost, so this is a gap in the spec.
- `AddKeyHashExistsSound` (`keys_exists`): suppose the first INSERT commits but its reply is lost. The retry then affects zero rows, and the call returns "key hash already exists" for a key it registered itself. The loop treats that error as definitive.
- `DatasetAccessionsImmutable` (`sdadb_reassign`): `setAccessionID` overwrites `stable_id` with no "IS NULL" filter. The pre-check asks only whether the new accession is taken. TLC finds a 14-step trace:
  1. Session 2 checks a second accession for file f1.
  2. Session 1 maps f1's first accession into a dataset.
  3. Session 2's `UPDATE` then replaces f1's accession, so the dataset's accessions change.
- `FailureAnswered` (`auth_silent`): when the key file cannot be opened or parsed, `getInfo` returns without a response. The client gets 200 with an empty body, not the error status of spec §7.
- `StatusViewsAgree` (`events_order`): take a file whose events all carry one correlation id. Two sessions start INSERTs at `now()` 1 and 2, and the later one writes its row first.
  - `GetFileStatus` (by id) then reports the earlier-started event.
  - `getUserFiles` (by `started_at`) reports the other one.
  - The spec (§5) says the log is strictly increasing by `started_at` per correlation id. That would make the two views agree, but nothing orders concurrent INSERTs.
- `CheckDuplicateSound`: the two queries of `checkAccessionIDExists` are not in one transaction. If another session sets the accession on this very file between them, the call answers `duplicate` for the file that holds the accession.

## Proofs: `SDAdb_proofs.tla`

The proofs assume `RetryTimesAssumption`, `NonEmptyAssumption` and `SentinelAssumption`. Each holds for any number of sessions, files, users, paths, accessions and datasets:

- `TypeCorrect`: `Spec => []TypeOK`. The proof has one step per action, each split into the store and the session part. It rests on the lemmas `ReturnTyped` and `RetryTyped` about the helpers of the retry loop.
- `StableIDUniqueHolds`: `Spec => []StableIDUnique`. `TypeOK /\ StableIDUnique` is inductive.
  - The lemma `OnlySetAccessionWritesStableID` shows that every step other than the `UPDATE` leaves `stable_id` unchanged.
  - For the `UPDATE`, the guard of the unique constraint (`HoldersOf(a) \subseteq {file}`) keeps the property.
- `MapAllOrNothingHolds`: `~LostReplies => (Spec => []MapAllOrNothing)`. The hypothesis is needed: with lost replies the property is false (`sdadb_lost`). The inductive invariant `MapInv`, checked with TLC first, describes each session's mapping call:
  - inside the call nothing is committed yet;
  - outside the lookup loop and the commit, the session has no transaction rows;
  - during the loop, every accession of the list is either still to do or has a row in the transaction;
  - at the commit, every accession has a row.

  `MapAllOrNothing` alone speaks only of idle sessions, so it cannot be inductive. The lemma `TxAccsAdd` shows that each insert adds its accession to the transaction's rows. The frame lemmas show that a step changes only its own session's entries.
- `MappedFilesAccessionedHolds`: `Spec => []MappedFilesAccessioned`, lost replies included. Its inductive invariant `AccInv` adds three facts:
  - every file with a stable id is registered;
  - a session in an accession call works on a registered file;
  - every row of an open transaction names a file with a stable id.

  Two monotonicity lemmas do most of the work. `RegisteredGrows` shows that no files row goes away. `AccessionStays` shows that a stable id is never cleared. `OnlyCommitWritesFileDataset` shows that only the commit adds rows, and only its transaction's.

`SDAdbKeys_proofs.tla` assumes `KeysAssumption` and proves:
- `KeyRefIntegrityHolds`: `Spec => []KeyRefIntegrity`. Also `KeysTypeCorrect`: `Spec => []TypeOK`.
- Both rest on the inductive invariant `KeyRefInv`, which is checked with TLC first. It is `TypeOK /\ KeyRefIntegrity` plus one more fact: a session waiting to run the UPDATE of `SetKeyHash` holds a registered key.
- `KeyRefIntegrity` alone is not inductive. A state where a session is about to write an unregistered key satisfies it but has a successor that violates it.

`AuthInfo_proofs.tla` assumes `AuthInfoAssumption` and proves `AuthTypeCorrect` and `KeyFileReleasedHolds`. They rest on the inductive invariant `AuthInv`. Beyond the two properties, it says that a handler about to write holds a key, so the reply it writes is well typed.

`SDAdbEvents_proofs.tla` assumes `EventsAssumption` and proves `EventsTypeCorrect` and `ReadYourWritesHolds` for any number of sessions, attempts and statement starts. The inductive invariant `EvInv` strengthens `ReadYourWrites` in four ways:
- The comparison holds whatever the session is doing, not only once it is idle.
- A session inside `UpdateFileEventLog` has no status result pending.
- A session inside a loop has an attempt left (`count < RetryTimes`).
- `HasLatest`: every correlation id with rows has a row of highest id. This makes the `CHOOSE` in `LatestByID` meaningful. It is carried in the invariant because TLAPS cannot use the library's least-number principle, which takes an operator parameter. Each append keeps it, because the new row is the highest (lemma `AppendKeepsHasLatest`).

`SDAdbEvents_proofs.tla` also proves `EventLogRefined`: `Spec => FileEventLogSpec`. It uses `EvInv` and the lemma `AbsEventsAppend`: appending a row to the store's log appends its entry to the abstract log.

Every invariant and every refinement checked by a passing run is now proved for all values of the constants. Only TLC checks the rest:
- the liveness property `CallsReturn`: TLAPS does not handle fairness or ENABLED;
- the properties of the violation runs, which are false.

## Not modelled, and the plan

Done in the first sitting:
1. `SDAdb` core with its runs, including lost replies to committed writes.
2. `SDAdbKeys`, the key registry.
3. The type, uniqueness and key-integrity proofs.

Done in the second sitting:
4. `DatasetAccessionsImmutable`, which shows that `setAccessionID` overwrites `stable_id`.
5. An abstract key registry with a refinement. It was later removed: it said no more than `KeyRefIntegrity` and SQL's row semantics.
6. `AuthInfo` for `src/sda-auth/info.go`, with its proofs.

7. `SDAdbEvents`: the event log with `UpdateFileEventLog` and `GetFileStatus`, the read-your-writes proof, and the finding that the two status orders disagree.

Done in the third sitting (proofs):
- `MapAllOrNothingHolds` and `MappedFilesAccessionedHolds`, with the new checked invariant `MappedFilesAccessioned`.
- The abstract `FileEventLog`, with `EventLogRefined`.
- Removed after review, as saying nothing about the code:
  - `ServedKeyIsFileKey`: the key file is a constant, so the property only checks the model's own hex encoding against its own decoding.
  - The `KeyInfoService` refinement: the abstract service copied the handler, including the empty 200.

Planned for later sittings:
- **More queries.** `GetCorrID` (a `DISTINCT correlation_id` of a file's events taken with `QueryRow`) and `ListActiveUsers` (no retry loop) exclude mapped files, so they need `SDAdbEvents` composed with `SDAdb`'s dataset tables.
8. **Abstract store.** `SDAdbAtomic`, where every call is one atomic step. `SDAdb` would be shown to refine it with `INSTANCE ... WITH`. The refinement can hold only for the calls whose statements the code isolates, so the mapping call's dataset insert is expected to break it.
9. **Worker and broker.** A spec-modelled broker with manual ack, redelivery and lost messages. The finalize and mapper workers from `finalize.md` 111-147 publish before they ack. Composed with `SDAdb`, the property is that every accepted message eventually has its effect.
10. **Admin API** `/file/accession` and `/dataset/create`: pre-check, then publish.

Not modelled at all:
- Readiness and shutdown (C5): probes only.
- The schema validator (C6): pure validation. Its one consequence that matters here is that a mapping message lists at least one accession. That is the guard of `StartMapFilesToDataset`.
- Headers, checksums, archive paths and sizes: data fields that no property tells apart. `StoreHeader`, `SetArchived` and `SetVerified` are single atomic statements. They are planned with the event log, as event appends.
