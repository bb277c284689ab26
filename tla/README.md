# A TLA+ development beside the node's sources

This directory models four parts of the repository in TLA+:

- the reputation-based proposer election of the consensus layer
  (`src/consensus/src/chained_bft/liveness/leader_reputation.rs`);
- the status tracking of the indexer's transaction processors
  (`src/ecosystem/indexer/src/indexer/transaction_processor.rs`);
- the `GET /transactions` handler of the API (`src/api/src/transactions.rs`);
- the node configuration's load, save and random constructors
  (`src/config/src/config/mod.rs`).

TLC checks the models on small instances. TLAPS proves the main safety
invariants of each part for every value of the constants.

## 1. Inventory

### The system's parts

| Part | Source | State | Operations |
|---|---|---|---|
| `LibraDBBackend` (a `MetadataBackend`) | leader_reputation.rs:21-51 | a handle on the validator's local ledger: the stream of `NewBlockEvent`s, one per committed block, in commit order | `get_block_metadata(window_size, target_round)` is a read. It fetches the newest `window_size + 10` events, keeps those with `round <= target_round`, takes `window_size` of them and sorts them by round. |
| `ActiveInactiveHeuristic` | :60-93 | the constants `active_weight` and `inactive_weight` | `get_weights(candidates, history)` is pure. A candidate that proposed or voted in the window gets `active_weight`; every other candidate gets `inactive_weight`. |
| `LeaderReputation` (a `ProposerElection`) | :97-171 | proposers, backend, window size, heuristic (all immutable) | `get_valid_proposers(round)` computes the target round `round - 4` (floored at 0), reads the window, computes the weights, sums them cumulatively in place, draws `next(round bytes) % total` and binary-searches the draw. `is_valid_proposer` and `process_proposal` compare an author with that leader; `process_proposal` returns early when a block has no author. `take_backup_proposal` always returns `None`. |
| `TransactionProcessor` status tracking | transaction_processor.rs:37-147 | the `processor_statuses` table (one row per processor and version), a bounded `PgDbPool` | `process_transaction_with_status` upserts a started row, processes, and upserts an ok or err row. Each upsert takes a connection by `get_conn`, which retries for ever. A failed upsert panics. `get_error_versions` and `get_max_version` read the table. |
| `GET /transactions` | transactions.rs:29-93 | none of its own; it reads the ledger | `Transactions::new` reads the latest ledger info. `list` returns 404 past that version, otherwise reads the page at that version. It fails when the storage lengths disagree or an event cannot be annotated. |
| `NodeConfig` | mod.rs:56-343 | the configuration in memory and its YAML file | `load` (role check, repeated network-id check, `set_data_dir`), `save`, `random`, `random_with_template`, `random_internal`, `clone_for_template`, `set_data_dir`. |

How the parts interact:

- **The election.** Each validator's round manager calls it on its single
  consensus thread. The ledger it reads is filled by the commit path and by
  state sync, which are outside this repository and form the model's
  environment. The gap of 4 rounds between the current and the target round
  is there so that, normally, every validator has the same history for the
  target.
- **The indexer.** Its tasks run concurrently and share one connection
  pool. Which version a task takes is decided by the tailer, which is not in
  this repository. The model lets a task take an error version, or the
  version after the largest recorded one.
- **The API handler.** It runs while the ledger keeps committing; a client
  pages through the ledger.
- **The configuration.** It is read once when a node starts and written by
  tools and tests; nothing runs concurrently with it.

The parts do not call each other in this repository, so every module stands
alone: there is no composition to model. The rest of `src/` is listed in
`PROJECT.json` as not modelled, each part with its reason.

### Where the code is hard to test

The hazards, at the lines where they bite, are listed in `PROJECT.json`
with the properties that cover them. In short:

- **The election:**
  - the leader moves within a round when a late block syncs (:137);
  - the buffer of 10 (:39);
  - the zero total weight (:146);
  - the tie-break (:149) and the index bound (:156);
  - the u64 sum (:142);
  - two validators synced to different depths reading different windows
    (:39, :161).
- **The indexer:**
  - `get_conn`'s endless retry, with tasks competing for the pool (:39);
  - an upsert that panics after the processing ran (:118);
  - rows left started by a crash (:66).
- **The API:**
  - the ledger info read in `new` and used after more commits (:40);
  - the 404 boundary (:50);
  - the version labels (:76);
  - a failed page, which fails again on a retry (:63).
- **The configuration:**
  - a random validator without a validator network (:322);
  - the data directories that must move together for save/load to
    round-trip (:341);
  - the waypoint, which load never checks (:142).

## 2. Modules

| Module | Part | Role |
|---|---|---|
| `MetadataBackend` | election | the pure operators `Fetched`, `Filtered`, `Taken`, `GetBlockMetadata`, `ActiveSet`, `GetWeights` |
| `BackendWindow` | election | a growing ledger, with `GetBlockMetadata` compared to the documented window and across ledgers synced to different depths |
| `LeaderReputation` | election | the election, step by step, on a set of validators with their environment |
| `ElectionSpec` | election | the abstract election: one atomic step per election, or a halt |
| `LeaderReputationRefinement` | election | the refinement mapping from `LeaderReputation` to `ElectionSpec` |
| `MCLeaderReputation` | election | the TLC instance |
| `LeaderReputationProofs` | election | TLAPS proofs of type correctness and `SelectionInBounds` |
| `LeaderWeightProofs` | election | the TLAPS proof of `LeaderWeightPositive` |
| `ElectionRefinementProofs` | election | the TLAPS proof of the refinement `ImplementsElection` |
| `BackendWindowProofs` | election | the TLAPS proof of `WindowExactWithinBuffer` |
| `IntervalLemmas` | (proofs) | sizes of integer intervals, down-closed index sets, least elements |
| `IndexerStatus`, `IndexerStatusProofs` | indexer | the model and the proof of `ProcessedRecoverable` |
| `TransactionsApi`, `TransactionsApiProofs` | API | the model and the proof of `PageExact` |
| `NodeConfig`, `NodeConfigProofs` | configuration | the model and the proofs of `Loadable` and `SaveLoadRoundTrip` |

## 3. Correspondence with the code

### `MetadataBackend`

- A ledger view `db` is a sequence of events `[round, proposer, votes]`.
  Index `i` has sequence number `i - 1` in the event stream.
- `Fetched` is the `get_events(key, u64::MAX, window_size + buffer)` call:
  it returns the indices of the newest `ws + Buffer` events.
- `Filtered` is the `.filter` over them.
- `Taken` is `.take(ws)` over the newest-first stream: an index is kept when
  fewer than `ws` kept indices are newer.
- `GetBlockMetadata` is the result as a set. The trailing sort only orders
  the events, and the one consumer, `get_weights`, asks only which authors
  occur in the window, so the model keeps no order.
- `GetWeights` is `get_weights`, with `ActiveSet` the `HashSet` it folds
  from the window.

### `LeaderReputation`

Constants:

- `Validators` are the nodes and `Authors` the authors.
- `Proposers` is the `proposers` vector.
- `WindowSize`, `ActiveWeight` and `InactiveWeight` are the configuration.
- `Prng` is the function `round |-> next(round bytes)`. `next` is outside
  this repository, so any fixed function of the round stands for it.
- `MaxRound` bounds the rounds and `VoteSets` the vote sets of committed
  blocks.

Variables:

- `chain` is the committed event stream.
- `synced[v]` is how much of it validator `v`'s ledger holds. `View(v)`,
  the prefix of `chain` that `v` has synced, is what `v`'s `libra_db`
  returns.
- `round[v]` is the validator's current round.
- `call[v]` holds the local state of a `get_valid_proposers` call in
  progress: the phase `pc`, the round, the window, the cumulative `acc`
  vector, `total` and the loop counter `k`.
- `elected[v]` is the result of the validator's latest election. It keeps
  the window, and the history at or before the target (`basis`), as ghost
  state that the refinement proof uses.
- `accepted[v]` holds the authors whose proposals `process_proposal`
  passed in the current round.

Actions of the code:

- `Start(v)` covers lines 132-139: the target round, the read and the
  weights. `assert_eq!` on the lengths always holds, because `get_weights`
  maps the candidate list.
- `Accumulate(v)` is one iteration of the loop at lines 141-144.
- `Panic(v)` is either `% 0` at line 146 or an out-of-range index at line
  156.
- `Choose(v, a)` covers:
  - the draw, the binary search and the indexing at lines 145-156;
  - the author check of `is_valid_proposer`, or of `process_proposal` for a
    block by `a`. `a = NoAuthor` stands for `get_valid_proposers` and
    `is_valid_proposer`, which change no state, and for a block without an
    author (the early return at line 160).

Each step of the loop is an action of its own. This is why the loop
invariant can be stated and proved without recursion.

Actions of the environment, modelled from the spec:

- `Commit` appends a block of a round at least `CommitDepth = 3` below some
  validator's current round (the 3-chain rule), with strictly increasing
  rounds.
- `Sync` extends one validator's ledger.
- `AdvanceRound` moves a validator to its next round and clears `accepted`.

Both `Sync` and `AdvanceRound` require the validator to be idle, because the
round manager and the election share one thread.

### `BackendWindow`

- The ledger grows by `Commit(c)` with increasing rounds. Only which events
  the window holds matters here, so every event has one proposer and no
  votes.
- `ContractWindow(target)` is the trait's documented contract: the newest
  `window_size` events at or before the target.
- `SyncedTo(k)`, the first `k` events, is the ledger of a validator that
  has synced less than the one whose ledger is `db`. Both are prefixes of
  the one committed stream.

### `ElectionSpec` and the refinement

`ElectionSpec` is what a call of `get_valid_proposers` promises, without
the loop. `Elect(v, a)` is one atomic step. It reads `v`'s ledger, computes
the weights, and names the candidate whose interval
`[UpTo(w, i - 1), UpTo(w, i))` of cumulative weights holds
`Prng[round] % total`. `UpTo(w, i)` is the sum `w[1] + ... + w[i]`,
written without recursion as the number of unit slots `{j} \X (1..w[j])`
of candidates `1..i` (`Slots`), so that the prover can reason about it. It records the proposal by `a` when `a` is that
leader. `Halt(v)` is the election over weights that sum to 0; a halted
validator takes no further step. The environment is that of
`LeaderReputation`.

`LeaderReputationRefinement` maps the detailed model onto it. Every
variable maps to itself except `halted`, which is the set of validators
whose call has panicked (`Halted`). `Start` and `Accumulate` change only
the call's local state and map to stutters. `Choose` maps to `Elect` and
`Panic` to `Halt`. TLC checks `ImplementsElection == Abstract!Spec` as a
property of `Spec`, and `ElectionRefinementProofs` proves it (section 6). It shows that the in-place prefix sum and the binary
search with its `<=` tie-break compute the interval choice. It also shows
that the window read at `Start` is still the window at `Choose`: `Sync`
waits for an idle call, because both run on the round manager's thread.

### `IndexerStatus`

State:

- `status[v]` is the `processor_statuses` row of version `v` for one
  processor: none, started, ok or err.
- `task[t]` is where task `t` is in `process_transaction_with_status`, its
  version and its processing result.
- `free` counts the idle connections of the pool, out of `PoolSize`.
- `crashes` counts the crashes of the indexer, up to `MaxCrashes`.
- `processed` is a history variable: the versions `process_transaction`
  has returned on. No action reads it; only `ProcessedRecoverable` does.

Actions:

- `Dispatch(t, v)` starts `process_transaction_with_status` (:58-66). The
  version is one of `get_error_versions` or `get_max_version + 1`, not
  already in flight (the tailer's choice, an assumption).
- `GetConn(t)` is `pool.get()` succeeding (:37-55). A failed `get()`
  changes nothing and the loop retries, so a waiting task simply stays
  where it is.
- `Upsert(t)` is `apply_processor_status` for the started row or the final
  row (:76-119). The connection goes back to the pool.
- `UpsertFails(t)` is the `.expect` panic (:118). The task is gone, and the
  unwinding drops its connection.
- `Process(t, r)` is `process_transaction` returning `Ok` or `Err`
  (:67-73).
- `Crash` is the whole indexer dying: tasks and connections are lost, the
  table stays.

Modelling choices:

- `ProcessorStatusModel` is not in this repository. The model takes the
  success column to be true only on an ok row, so the started and err rows
  are the error versions.
- `get_error_versions` and `get_max_version` (`ErrorVersions`,
  `MaxRecorded`) take their connection with the same `get_conn`. They are
  modelled as reads of the table at dispatch, without a connection.

### `TransactionsApi`

State:

- `ledger` is the latest committed version.
- `req` is the request in service: the ledger info that `new` read, and
  `start` and `limit`.
- `resp` is the last response.
- `next` is where the client's next page starts: the version after the
  last one it got. It only supplies the requests' `start`; the client is
  not in this repository and no property is about it.

Actions:

- `New(l)` is `handle_get_transactions` and `Transactions::new` (:29-45).
- `List` is `list` (:47-82): a 404 when `start > ledger_version`, else the
  page read at that version, with each transaction labelled
  `txn_start_version + i` (`Labels`).
- `ListFails` is the error path of the length check (:63-71), or of an
  event that cannot be annotated (:84-93).
- `Commit` is a commit of the ledger.

`Context::get_transactions` is not in this repository. `GetTransactions`
is its contract: the transactions from `start`, at most `limit` of them,
none past the ledger version. `Page::start` and `Page::limit` are taken as
the values the client sends.

### `NodeConfig`

A configuration keeps what the modelled operations read or change:

- the role;
- the validator network's id, or none;
- the full-node networks' ids, in order;
- the base data directory;
- the data directories of the consensus, metrics and storage sub-configs;
- whether a test config is attached.

`disk` is the YAML file and `mem` the node's `NodeConfig`. Serialisation is
modelled as keeping the configuration unchanged. Actions:

- `Load` is `load` (:231-265). Its guards are the role invariant and the
  repeated network-id check (`RoleOk`, `Repeated`, with `IdsBefore` the
  `network_ids` set when the loop reaches a network); it ends with
  `set_data_dir(data_dir)`.
- `Save` is `save` (:267-273).
- `Random(d)` is `random` and `random_with_rng` (:295-304).
- `RandomWithTemplate(d)` is `random_with_template` with
  `clone_for_template` (:200-226, :306-310).
- `SetDataDir(d)` is `set_data_dir` (:193-198).
- `RandomInternal` is `random_internal` (:312-343). `d` is its fresh
  temporary directory.

A failed load changes nothing, so it is a stutter.

## 4. Runs

| Run | Instance | Checks | Result |
|---|---|---|---|
| `core_safety` | 2 validators, proposers `<<a1, a2>>`, window 1, weights 3/1, rounds 1..5, vote sets `{}` and `{a2}` | `SelectionInBounds` | pass (about 583k states) |
| `zero_floor` | the same, with `inactive_weight = 0` | `SelectionInBounds`, `LeaderWeightPositive` | pass (about 42k states) |
| `leader_stable` | the same as `core_safety` | `SingleAcceptedAuthor` | violation |
| `window_contract` | one ledger, rounds 1..14, window 2 | `WindowMatchesContract` | violation |
| `window_buffered` | the same | `WindowExactWithinBuffer` | pass (16,384 states) |
| `prefix_agreement` | the same | `PrefixAgreement` | violation |
| `election_refinement` | as `core_safety`, with votes `{}` only | `ImplementsElection` | pass (about 177k states) |
| `indexer_recovery` | 2 tasks, pool of 1, versions 1..3, 2 crashes | `ProcessedRecoverable` | pass (55,332 states) |
| `api_pages` | ledger up to version 6, limits 1..3 | `PageExact` | pass (5,215 states) |
| `config_roundtrip` | network ids Validator and Public, 2 directories, up to 2 full-node networks, every well-typed file | `Loadable`, `SaveLoadRoundTrip` | pass (4,864 states) |

What the passing runs show:

- **`SelectionInBounds`.** A call panics only with a total weight of 0. With
  positive weights the draw always falls inside the proposers; with
  `inactive_weight = 0` the zero total is reached and is the only panic.
- **`LeaderWeightPositive`.** A candidate of weight 0 is never elected. This
  is what the strict tie-break buys.
- **`WindowExactWithinBuffer`.** The window is exact while at most 10 events
  are newer than the target round.
- **`ImplementsElection`.** The loop, the draw and the search compute what
  the one-step election promises (see section 3).
- **`ProcessedRecoverable`.** Tasks share one connection, upserts fail and
  panic, and the indexer crashes twice. Still, every version
  `process_transaction` has run on is either recorded ok or returned by
  `get_error_versions`: no processing is lost to a panic or a crash. It
  rests on the started row being written before processing begins, and on
  `get_error_versions` filtering on `success = false`, which covers the
  started rows.
- **`PageExact`.** While commits land between `new` and `list`, every
  response is 404 exactly when `start` lies past the ledger version it
  reports, and otherwise it is the exact page up to that version.
- **`Loadable`.** Every configuration the node can hold passes `load`'s
  checks. This covers loaded, random, templated and moved configurations.
  In particular, `random_internal` gives a validator a validator network.
- **`SaveLoadRoundTrip`.** Saving the node's configuration and loading it
  back changes nothing, because the sub-configs' directories always agree
  with the base one.

What the violation runs show (each is a finding in `PROJECT.json`):

- **`WindowMatchesContract`** fails after 11 or more newer events. The code
  fetches a fixed `window_size + 10` events, whereas the contract in the
  spec asks for the newest `window_size` at or before the target. The spec's
  example, rounds 1..50 with window 20 and target 30, gives rounds 21..30
  instead of 11..30.
- **`PrefixAgreement`** fails on a ledger of rounds 1..13 with window 2.
  For target round 2, a validator that has synced rounds 1..2 reads
  rounds {1, 2}. A validator that has synced all 13 reads {2}, because its
  fetch of the newest 12 events stops at round 2. Both have observed the
  same committed prefix, and the spec requires identical windows for them.
  That spec guarantee holds only within the buffer (`WindowExactWithinBuffer`).
- **`SingleAcceptedAuthor`** fails when a validator is in round 5 with an
  empty ledger and then syncs a committed round-1 block. Its next election
  for round 5 names another leader, and `process_proposal` accepts both
  authors.

Why these bounds are enough:

- **The election:**
  - Five rounds give target rounds 0 and 1, and commits of rounds 1 and 2.
    That is enough for a late sync to change a validator's window.
  - Two proposers and weights 3/1 make both leaders reachable under the
    chosen draws. `MCPrng` spreads the draws over 0..10, so ties with the
    cumulative weights occur.
  - 14 rounds with a window of 2 reach 12 events above a target, past the
    buffer of 10.
  - The validators are symmetric and every property quantifies over all of
    them, so the runs use symmetry.
- **The indexer:**
  - A pool smaller than the number of tasks makes get_conn wait.
  - Three versions let error versions and new versions compete.
  - Two crashes hit a version more than once: a crash after processing,
    a retry, and a crash in the retry.
- **The API:**
  - Ledger versions up to 6 with limits up to 3 give full pages, short
    pages, a start exactly at the ledger version and a start one past it.
- **The configuration:**
  - Initial states are every well-typed file: 1,344 of them, including
    repeated ids and wrong roles.
  - Two directories let set_data_dir move the configuration.

## 5. Fairness and deadlock

Every property is a safety property, checked without fairness. No liveness
property is checked, because none holds under a fairness the code
guarantees:

- **The indexer's progress.** `get_conn` (:39) loops on `pool.get()`. The
  r2d2 pool wakes a waiter when a connection comes back, but does not hand
  the connection to it, so the task that returned it can take it again.
  Under weak fairness TLC finds a task starved this way. Strong fairness of
  `GetConn` would assume away exactly this starvation.
- **A client paging through `GET /transactions`.** `list` fails when the
  stored lengths disagree (:63) or an event cannot be annotated (:89).
  Both depend on the data at those versions, so a retry from the same start
  fails again; assuming the failure is transient is not justified.
- **The election's loop** always ends: it is a `for` loop over a `Vec`.
  Stated as a temporal property, this would hold by the shape of the guards
  alone.

`CHECK_DEADLOCK FALSE` is set where the system really stops:

- a panicked validator (`zero_floor`);
- a ledger that no longer grows under a read-only backend (`BackendWindow`
  runs);
- an indexer whose versions are all ok, or whose tasks all panicked
  (`indexer_recovery`).

Mutants: each property of a passing run is broken by one plausible bug in
the code it covers. Each mutant is defined next to the definition it
replaces:

- an exclusive prefix sum (`AccumulateExclusive`);
- an inclusive draw (`ChosenWeightInclusive`);
- a `<` comparator (`ChosenIndexStrict`), for both `LeaderWeightPositive`
  and the refinement;
- a fetch one event short (`FetchedShort`);
- `get_error_versions` returning only the err rows
  (`ErrorVersionsErrOnly`). This is also what a started row with
  `success = true` would do;
- version labels from 1 (`LabelsShifted`);
- a validator left without a validator network
  (`RandomInternalNoNet`);
- only the base directory moved (`RandomInternalBaseDir`).

## 6. Proofs

`LeaderReputationProofs` proves, for every value of the constants that
satisfies the module's assumptions:

- `TypeCorrect`: `Spec => []TypeOK`;
- `SelectionSafe`: `Spec => []SelectionInBounds`;
- `IInvariant`: `Spec => []IInv`.

The assumptions are:

- `Proposers` is a sequence of authors;
- the weights and `WindowSize` are naturals;
- `MaxRound >= 1`;
- `Prng` maps rounds to naturals;
- `NoAuthor` is not an author.

`SelectionInBounds` is not inductive by itself: whether `Choose` or `Panic`
is enabled depends on the values the loop left in `acc`. The inductive
invariant `IInv` is `TypeOK`, plus `SelectionInBounds`, plus `LoopInv(v)`
for every `v` in the summing phase. `LoopInv(v)` says:

- `k` is in `0..N` and `acc` has length `N`;
- `total = 0` when `k = 0`;
- `acc[k] = total` when `k > 0`.

At the end of the loop, `acc[N] = total`. The lemma `ChosenIndexInRange`
then applies: the number of cumulative weights `<= total - 1` misses at
least index `N`, so the partition point is in `1..N`, and `Panic` is
enabled only when `total = 0`.

The proof has one lemma per action (`StartIInv`, `AccumulateIInv`,
`PanicIInv`, `ChooseIInv`, `CommitIInv`, `SyncIInv`, `AdvanceRoundIInv`)
and one for the stutter step. `NextIInv` combines them, and the theorems
follow by PTL.

Three more modules prove the other election properties the runs check:

- **`LeaderWeightProofs`** proves `LeaderWeightPositiveInvariant`
  (`Spec => []LeaderWeightPositive`).
  - The invariant `WInv` adds two conjuncts to `IInv`. `SumInv(v)`: after
    `k` iterations, entries `1..k` of `acc` are the running sums of the
    weights (`RunningSums`) and do not decrease (`NonDecreasing`); the
    other entries still hold the weights. `ElectedInv(v)`: the leader of
    `v`'s last election is a candidate of positive weight in the window
    that election read.
  - Monotonicity is part of the invariant because deriving it from the
    running-sum equations needs induction over the entries.
  - `FirstAbove` is the binary search: in a non-decreasing vector, the
    entry after the `m` entries `<= d` exceeds `d`, and entry `m` does
    not. So the chosen candidate's own weight, the difference of the two,
    is positive (`ChosenWeightPositive`).
- **`BackendWindowProofs`** proves `WindowExactInvariant`
  (`Spec => []WindowExactWithinBuffer`).
  - The invariant: the ledger is a sequence of events with strictly
    increasing rounds (`Sorted`).
  - `WindowExact` does the counting. The events at or before the target
    form a prefix `1..p` (`DownClosedPrefix`). With at most `buffer` newer
    events, that prefix's newest `window_size` events are all fetched, and
    `Taken` keeps exactly them.
- **`ElectionRefinementProofs`** proves `Refinement`
  (`Spec => ImplementsElection`), step by step:
  - `Init` maps to the abstract `Init`.
  - `Start` and `Accumulate` map to stutters.
  - `Panic` maps to `Halt`: the total is 0.
  - `Choose` maps to `Elect`, the same candidate named in the same state.
  - `Commit`, `Sync` and `AdvanceRound` map to themselves.
  - The invariant `RInv` is `WInv` plus `ReadInv(v)`: a running call's
    round, window and basis are those `v`'s round and ledger give now.
    This holds because `Sync` and `AdvanceRound` wait for an idle call,
    and a commit appends past every synced prefix (`AppendKeepsLedgers`).
  - `SumsAreUpTo` shows that the loop's running sums equal the abstract
    `UpTo` sums. Where they differed, the least index would be a
    contradiction (`LeastElement` of `IntervalLemmas`, itself proved from
    `DownClosedPrefix`); so no induction principle is needed.
  - `UpToStep` (`UpTo(w, i) = UpTo(w, i - 1) + w[i]`) comes from the
    disjoint union of slot sets and `FS_Product`.
  - `PickIsChosenIndex` shows that the abstract `CHOOSE` has exactly one
    candidate, the binary search's index. Its interval holds the draw,
    and monotonicity excludes every other index.

Only model-checked:

- The violation runs (`WindowMatchesContract`, `PrefixAgreement`,
  `SingleAcceptedAuthor`): their counterexamples are the result.
- No module declares a `RECURSIVE` operator: sums and windows are written
  as cardinalities of sets, so that every model is within the prover's
  reach. Induction over data is avoided the same way, through least
  elements of finite index sets.
- Liveness and ENABLED are out of TLAPS's reach here. No liveness property
  is checked (section 5).

Three more proof modules, one per component:

- **`NodeConfigProofs`** proves `LoadableInvariant` (`Spec => []Loadable`)
  and `RoundTrip` (`Spec => SaveLoadRoundTrip`).
  - The invariant is `TypeOK`, plus `Loadable`, plus `DirsAgree(mem)`: the
    sub-configs' directories equal the base one. `DirsAgree` is what the
    round trip needs. `SetDataDirFixpoint` shows that `set_data_dir` with a
    configuration's own directory is then the identity.
  - `RandomInternalLoadable` shows that `random_internal` makes a default or
    loadable configuration loadable. Two assumptions back it:
    `NoConfigAssumption`, and `MaxNets >= 1`, room for the public network
    that random_internal adds.
- **`TransactionsApiProofs`** proves `PageExactInvariant`
  (`Spec => []PageExact`).
  - `PageExact` needs the pending request to be typed (`ReqOK`).
  - The lemma `PageLabels` proves the arithmetic: the labelled versions
    `{start + i : i < count}` are exactly the versions from `start` up to
    the ledger version and below `start + limit`.
- **`IndexerStatusProofs`** proves `ProcessedRecoverableInvariant`
  (`Spec => []ProcessedRecoverable`), for any finite set of tasks, pool
  size, number of versions and bound on crashes.
  - `ProcessedRecoverable` is not inductive by itself. A task that has
    processed its version and waits for its final upsert must already find
    a row for that version. Otherwise a crash at that point would leave a
    processed version with no row. `RowWritten` says this for every task
    past `mark_version_started`.
  - `ResultKnown` says the final upsert writes the processing result, ok
    or err, and never "none". With it, a row, once written, is never
    deleted.
  - The type invariant bounds the idle connections by `PoolSize`, which
    needs the pool's bookkeeping `PoolCount`: idle plus held connections
    are `PoolSize`. Its cardinality facts come from `FiniteSetTheorems`
    (`FS_AddElement`, `FS_RemoveElement`).
  - There is one lemma per action; `NextIInv` combines them.

## 7. Not modelled

- **The election:**
  - the u64 overflow of `total_weight` (the weights in the model are
    small);
  - the pseudo-random `next`, replaced by a fixed function;
  - the LCS decoding of events.
- **The indexer:**
  - the body of `process_transaction`, a trait method with no body here;
  - `ProcessorStatusModel`, whose success column is assumed false on
    started rows;
  - the tailer that dispatches versions. So whether every version is
    eventually ok is not checked: it depends on the tailer's fairness, and
    on the pool's (section 5).
- **The API:**
  - the JSON rendering;
  - `Page` parsing;
  - `Context`, whose `get_transactions` is modelled by its contract.
- **The configuration:**
  - `randomize_ports` (fresh ports, which no property distinguishes);
  - the per-network and execution `load`/`save` steps (path joins and key
    files);
  - `WaypointConfig::waypoint`, a secure-storage read. That load does not
    check the waypoint is recorded as a hazard with no property.
- **The other parts of `src/`:** the pruner constructors, the test
  harnesses, the generated script builders, the static script table and
  the crate roots. They are listed as `not_modelled` in `PROJECT.json`,
  each with its reason.
