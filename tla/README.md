# A verification project for llm-evaluation-lab

The repository evaluates language models under strict evidence rules: what is
paid for is authorized once, claimed durably before it happens, recorded as it
happened, and never repeated. The hard parts are not the scoring functions but
the protocols around them: processes that may be started twice, killed or lose
power between two file operations, files that are the only memory of a protocol,
GitHub jobs that are rerun, documents that are edited one by one and read twice.
This project models those protocols in TLA+, checks them with TLC and proves the
central ones with TLAPS.

Run a check with `tlc -config MC_BM1Safety.cfg MCBM1Runner.tla` (every `.cfg` is
listed under *Runs*), a proof with `tlapm BM1_proofs.tla`. `PROJECT.json`
maps every definition to the source lines it models, and lists the hazards, the
runs, the theorems and for every checked property a mutation of the model (an
operator commented `Defect:`) under which TLC finds it violated.

## 1. Inventory

### Live evaluation (`b2/`, `.github/workflows/`)

| Component | State it keeps | Operations | Hard behaviour |
|---|---|---|---|
| BM1 runner, `b2/bm1.py` | memory: receipts, request and error counters, stop reason; disk: one claim file and one raw evidence file per attempt | `run_all`, `run_next`, `claim`, `verify_claim`, `_durable_exclusive_write`, gates, receipts | two processes under one authorization, crash and power loss between fsyncs, authority lost after it was checked, failed evidence, unknown cost |
| BM1 live orchestration, `b2/bm1_live.py` and its two workflows | run-ready archive, event file, gate outputs, authorization, summary | `prepare_run_ready`, `github_event_snapshot`, `execute_live`, provider review | prepared in one job and used hours later in another while main, credentials and protected variables change; reruns; exceptions after a claim |
| One-shot ledger, private job of `b2_blind_handoff_v5_live.yml` | ledger directory: claim records and their two hard-link indexes; `flock` | gate, locked scan, record, link, fsync, rebind, attempt | overlapping jobs, reruns, half-written records, power loss between index fsyncs |
| Blind handoff, `b2/blind_handoff.py` | two private state directories, exchanged files, claim markers | prepare/accept input, encrypt/verify challenge, verify-ack, make/verify result | commands repeated, overlapped and killed; files read before the fsync that may take them back; removals by path; expiry |
| Blind evaluation, `b2/blind_eval.py` | one pair of output files | `run_blind_eval`, `commit_cli_outputs` | two files replaced one after the other, failures and kills between them |
| BM0 study, `b2/bm0.py` | none between calls: a manifest, rows, adjudication records | `validate_benchmark_manifest`, grid validation, the SAP methods, `resolve_adjudication` | rows late, twice or misattributed; records in any order; denominators that exclude the wrong rows |
| BM0 contract, `b2/bm0.py` | documents in the repository that name one another by fingerprint | validators, `build_bm0_receipt`, claims | documents edited one at a time and read twice |
| QA0–QA3, `b2/qa*.py` | none | validation and scoring; QA3 projects the experiment store | a commit between the two hashes of the projection |

### Search Cup (`search_cup/`)

| Component | State it keeps | Operations | Hard behaviour |
|---|---|---|---|
| Tools, runner, judge | call counter and trace per entrant; frozen submissions; hidden registry gate | `search`, `run_match`, `judge_match` | budget at its limit, failed calls that spend, one entrant failing, registry opened only after freezing |
| Accounting, `v23_accounting.py`, and outputs, `protocol_v23.py` | append-only event ledger | `append`, `receipt`, `validate_output` | turn sequence, retry chains of mixed kinds, unknown measures |
| JE1, `v23_t4_je1.py`, `v23_judgment.py` | journal, record stream, audits, receipts on disk | `_execute`, `JudgmentJournal.append`, replay | three files per judgment, failure between them, receipt from durable truth |
| EX1, `v23_t5_e1f_ex1.py` | one-shot sidecar ledger, provenance streams, sealed package | `replay`, `_execute`, `_partial`, `_finish_complete` | crash around STARTED, commit barrier before the hidden reference, a fault after the last file |
| Retrievers, qualification, protocol documents | immutable corpora and documents | pure functions | none that needs a state machine |

### Experiment lab and tools

| Component | State it keeps | Operations | Hard behaviour |
|---|---|---|---|
| `evaluation_lab.py` | SQLite experiment store | evaluate, persist, gate, report, query | persist before report, rejected run ids, concurrent writers and readers |
| `tools/a2_e1.py` | schedule and expectations against an external CLI | evaluation, preflight | faults injected into an external program |

Interaction: the live workflow consumes a ledger claim, exchanges the sealed
input, challenge and acknowledgement of the blind handoff, and only then runs
`b2.blind_eval` once; its outputs travel back as a handoff result. BM1 is a
separate lane: a workflow calls `execute_live`, which starts one runner over two
durable directories. The frozen replay and the match both search through
`BudgetedSearchProxy`; the QA3 projection reads the SQLite file that
`evaluation_lab.py` writes. The other components share no state.

## 2. Modules

| Module | Models | Extends |
|---|---|---|
| `OneShot` | what a one-shot store promises, whatever it is made of | |
| `DurableFile` | one file under exclusive create, write, fsync, directory fsync and power loss, on Linux and Windows | |
| `BM1Runner` | `run_all`/`run_next` of `b2/bm1.py`, the archive of `execute_live`, and the environment | `DurableFile`, `PrefixSums` |
| `BM1Live` | `b2/bm1_live.py` and its two workflows up to the start of the runner | `BM1Runner` |
| `OneShotLedger` | approval gate and private job of the R1b workflow | `DurableFile` |
| `BlindHandoff` | the commands of one handoff | |
| `BlindEval` | repeated runs of the blind evaluation command | |
| `JudgmentReplay` | `replay` and `_execute` of the judgment replay JE1 and its disk store | |
| `SearchProxy` | `BudgetedSearchProxy` | |
| `FrozenReplay` | `replay`, `_execute`, `_finish_complete` and `_partial` of EX1 and its disk store | `SearchProxy` |
| `SearchCup` | `run_match` and `judge_match` | `SearchProxy` |
| `ResourceLedger` | `v23_accounting.py`, `validate_entrant`, `validate_output` | `PrefixSums` |
| `BM0Manifest` | the manifest rules and the pilot design | |
| `BM0Study` | observations, grid and estimates | `BM0Manifest` |
| `BM0Adjudication` | adjudication records and the label of an item | `BM0Study` |
| `BM0Contract` | the contract documents, the developer receipt and its claims | `BM0Manifest` |
| `Evaluation` | the suites and policies of `evaluation_lab.py` | |
| `ExperimentStore` | `main`, `persist_experiment_run`, the query API and the QA3 projection | `Evaluation` |
| `PrefixSums` | running totals, of an attempt plan and of accounting events | |
| `…_proofs` | theorems, one module per package of the code (section 5) | the modules of that package, `TLAPS` |
| `MC…` | constants and symmetry sets for TLC; `MCBM0` and `MCFrozenReplay` also put modules that share no state side by side | the modules they name |

### `OneShot`, the abstract specification

`OneShot` says of a set of names that each is committed to at most one claimant,
for good, and spent at most once, by the claimant that owns it. Three mechanisms
are refined to it by a mapping of their own state: the claim directory of
the BM1 runner (`PlanIsOneShot`, a name is a planned attempt), the ledger of the
R1b lane (`LaneIsOneShot`, a name is an authorization or a run identity) and the
sidecar of the frozen replay (`RunIsOneShot`, the name is the run identity). In
each of them the owner is read from what a power loss cannot take away, so the
mapping holds only if the durable commit precedes the use.

### `DurableFile`, `BM1Runner`

`file[kind][dir][attempt]` is the state of a claim or raw file: `absent`,
`created`, `written`, `synced` (bytes on disk, name not), `durable`, `torn`.
Every system call of `_durable_exclusive_write` is a step (`CreateFile`,
`WriteFile`, `FlushFile`, `SyncDirectory`, and the read-back), so a crash, a
power loss or the other process can come between any two. A process that holds
an open file writes to the directory it was opened in (`handle`), while the
directory fsync and the read-back resolve the path again (`dir`), as the code
does. `SyncDirectory` commits only the writer's own entry although a real
directory fsync commits all of them; less becomes durable, so this is the
conservative choice.

`pc` follows `run_next` line by line: revalidation, storage gate and claim; the
second verification, two revalidations, storage gate and verification between
the claim and the opener; the call; the evidence; the receipt. What `run_next`
re-raises ends the process in `raised`; what it turns into a stop goes back to
the loop, where `FillBlocked` writes the BLOCKED receipts. `wire`, `stale` and
`run` are history. An answer is one of: scored, a provider-local failure (every
member of `_PROVIDER_LOCAL_FAILURES`; answers the scorer cannot evaluate are
counted there by the code too), or a body with a secret marker. Usage is
unreported, within or above the token limits.

The environment withdraws the authority or replaces a directory at any moment.
Both are one-way: a directory swapped away and back between two steps is not
modelled, because claims of one authorization do not tell two processes apart
and the code does not claim to detect it. Any gate may also fail by itself
(GitHub unreachable, storage probe).

### `BM1Live`

A fingerprint is the document it was computed from. `prepared` is the archive of
RUN-READY receipts, `job` the one live workflow run with what it carries from job
to job (the sha of its event, the receipt the approval names, the outputs of the
gate, `GITHUB_RUN_ATTEMPT`), `launched` what `execute_live` started the runner
with. Main, the credentials, the review and the protected variables are not
state: each step that reads one sees any value, which is every way they can
change between two steps. `Rerun` is GitHub's behaviour, modelled as external:
all jobs again, or the private job alone with the gate outputs of the earlier
attempt. `Execute` is `execute_live` up to `run_all`, with every comparison it
makes, and its effect is `BM1Runner!Start`; from there `RunnerStep` lets the
runner go on.

### `OneShotLedger`

A job goes through the hosted gate, the lock, the scan and seven ledger steps.
A claim is a record and two hard links to its inode; `durable` holds the links
whose directory entry was fsynced. `LockLedger` includes the two fsyncs the step
performs before it scans, which commit what an earlier job left. `Fail` is any
exception, cancellation or death of the runner process: the lock goes, the files
stay. `Rerun` is all jobs again, through the gate, or the failed job or the private
job only, with the outputs the gate had; the latter not from `rejected`, since the
private job has `needs: window-approval-gate` and runs only if its result is
`success`. The concurrency group is not relied upon, jobs overlap.

### `BlindHandoff`

No command keeps anything in memory, so the state is the files. `Then` is the
order in which a command creates its files, `Before` what its `except` clause
removes when the creation of a file fails, file by file. A file is created as in
`_atomic_create`: `OpenFile` takes the path (`torn`: in the way, without content),
`FillFile` makes it readable for every other command, `SyncFile` is the fsync, after
which the command goes on. If writing or fsync fail (`IoError`), the process is at
`withdraw` and then at `rollback` of the files before; each `Remove` is a step of its
own that goes by path, whoever created what is there, and may fail (`UnlinkFails`: the
file stays and the exception reaches the command) or be cut short (`Crash`). A
directory is committed by one rename (`CommitDirectory`). `verify-ack` reads the claim
(`RequirePublished`), then envelope and secret (`ReadChallenge`), then the
acknowledgement (`VerifyAck`), in separate steps; `make-*-result` reads its claim and
then the rest. Envelope encryption, HMAC and the binding check are abstracted to the
tag of a file: a command opens an envelope only if the tag is of its own state
directory and challenge. Commands are started at any time by any process. `receipts`
and `withdrawn` record which last claims were reported, and of which the fsync failed.

### `BlindEval`

`run_blind_eval` is a choice of the gates that hold and, if all do, of what the
single transport call returns. `commit_cli_outputs` is an automaton over its
file operations: `Thereafter` when one succeeds, `Otherwise` when it raises (the inner
and outer `except` and `finally`). A file is the number of the run that wrote
it. Runs do not overlap, since the command takes no lock and no document
describes concurrent use of one pair of paths. A kill is modelled, a power loss
is not: this code does not fsync and promises nothing about one.

### `JudgmentReplay`

Invocations of `replay` for one output directory go through the gate, the writes
that prepare the run, the decision loop, the receipt and the manifest; `Target`
names the file of each write. A write of `_DiskStore` is three steps: the look at
the target (with the temporary file), `os.replace`, and the fsync of the
directory; `disk` is what is visible, `safe` what a power loss leaves. `Raise`
is both `except` clauses: inside the `try` of `_execute` an exception leads to
the receipt, anywhere else `replay` returns what `run-start.json` tells it. A
file is the number of records in it, since what the properties compare is how far
journal, projection and audit have come. `Drift` is a change of the source or the
frozen package at any moment, and may be undone.

### `SearchProxy`, `FrozenReplay`, `SearchCup`

`SearchProxy` holds the three facts both callers rely on: the budget is compared
before the call, a call that raised is traced like one that answered, and the
number of calls is the length of the trace.

`FrozenReplay` is built like `JudgmentReplay`, with a directory per invocation
and one sidecar ledger in their parent. `at` is the operation under way, `part`
how far its write or append has come. Appends to the two streams and to the
ledger are a write and an fsync each. `Raise` is every `except`: before the store
exists the run is PRESTART; in `_execute` and `_finish_complete` it enters
`_partial`, whose four writes are skipped where their file exists; in `_partial`
it returns. A stored file carries its content, so that the barrier, the
conditions I1–I9 and the final validation compare what they compare in the code.
`BadBytes` is corruption at rest, which the seals reveal.

`SearchCup` runs the entrants one after the other. The provider adapter is
external: it searches, swallows failures or not, raises, or submits any count.
`Submit` is the four checks on what it returns and the freeze.

### `ResourceLedger`

The caller appends facts; `Valid` is the conjunction of the rules of
`_validate_event`, `RootOf` the loop along `retry_of`. A measure is `KNOWN` with a
value, or `UNKNOWN`/`NOT_APPLICABLE` without one, and `Total` keeps that apart.
`Issue` computes a receipt over what is recorded, `Publish` is `validate_output`
with a receipt that was issued. Facts are counted by the set of the positions they
stand at and totalled by `PrefixSums`. Elapsed time is supplied by the caller and is
modelled as truthful.

### `BM0Manifest`, `BM0Study`, `BM0Adjudication`

Nothing is stored between two calls in `bm0.py`: every method validates the
manifest and the whole grid again. The state is therefore the manifest and the
rows delivered so far, the estimates are operators of those two, and the steps are
deliveries: `DeliverAnswer` of rows a harness can produce, `DeliverOdd` of rows
that contradict themselves. `Evaluable` is FALSE where every method raises. A rate
is its numerator and its denominator. `BM0Adjudication` adds the records of one
item in any order; `Resolution` is `resolve_adjudication`.

### `BM0Contract`

`repo` is the documents in the repository, each with its own fingerprint field
(`stamp`, the body it was computed from) and naming others by content. Maintainers
change one document at a time: edits that leave a document valid, edits that do
not, repeating the QA run, pointing the template at today's documents, rebinding
the contract to some of today's artifacts. `LoadBound` and `BuildReceipt` are the
two reads a receipt is built from.

### `Evaluation`, `ExperimentStore`

`Evaluation` is the two suites as operators: what the loaders refuse, the two
policies of each suite, accuracies and gate status. `ExperimentStore` runs
commands with `--store` over one SQLite file: `CREATE TABLE` and
`PRAGMA user_version` commit by themselves, the `INSERT` holds the lock until the
`with` block ends, and each commit gives the file new bytes (`history`), which is
what the QA3 projection hashes before and after its `SELECT`. SQLite's own
atomicity and locking are external.

## 3. Runs

| Run | Bounds | Result |
|---|---|---|
| `bm1_safety` | 2 processes, 3 starts, 2 attempts, a plan within and one above the ceiling, Linux | holds, 777,874 states |
| `bm1_live` | 2 heads, 4 credentials, 2 receipts, 2 workflow attempts, time 0–2, then 1 process with 3 attempts and 2 price lists on Windows | holds, 460,976 states |
| `bm1_account` | 1 process, 2 attempts | **violated**, see section 6 |
| `ledger` | 3 jobs, 2 values per identity, 2 workflow attempts each, fairness; approvals up to exchange of two jobs | holds, 478,024 states |
| `ledger_rerun` | 2 jobs | **violated**, see section 6 |
| `handoff_safety` | 2 processes, 2 private states, 2 challenges, 2 output directories, 2 faults | holds, 692,514 states |
| `eval_pair` | 3 runs, 3 faults | holds, 70,208 states |
| `eval_stale` | 2 runs, 1 fault | **violated**, see section 6 |
| `judgment_replay` | 2 invocations, 3 records, 3 faults | holds, 43,290 states |
| `frozen_replay` | 2 invocations, 2 queries per entrant, 2 faults, any drift; a match of 2 entrants with 2 calls each; 3 events, time 0–2, 2 receipts over 2 specifications | holds, 992,686 states |
| `bm0` | 17 manifests, grids of up to 5 attempts (3 with incoherent rows); one of two items with all records; 2 edits and 4 changes of the contract documents | holds, 153,122 states |
| `experiment_store` | any 2 of 10 commands, one reader, 2 faults | holds, 624,213 states |

What they show:

- `bm1_safety`. `WireFollowsPlan`: over all processes, restarts and power losses
  under one authorization the requests that leave are the attempt plan, sent by
  one single process. `PlanIsOneShot`: the claim directory implements `OneShot`.
  `StaleClaimNotSent`: a claim that was committed too late is never used.
  `EvidenceBacked`, `CommittedFilesStay`: what a receipt refers to is there, and
  stays.
- `bm1_live`. `SentAsApproved`: behind every request stands one unbroken chain
  from the receipt to the first attempt of the approved run. `SpendWithinCeiling`:
  the worst-case cost of everything ever sent stays within the ceiling even when
  the provider reports no usage. `StopIsFinal`, `SummaryMatchesWire`: BLOCKED
  follows a stop and only a stop, and an archived summary counts the requests that
  were made. `Termination`: the run ends.
- `ledger`. `LaneIsOneShot`: the ledger with the attempts behind it implements
  `OneShot` over both identities, whatever fails. `QuarantineHolds`: nothing is
  written next to an entry that cannot be attributed. `EveryJobEnds`: a waiting
  job gets the lock.
- `handoff_safety`. `GateMeansProof`: the provider gate opens once, only for a
  challenge that was answered, of the joined session; a challenge that was reported
  is never rolled back by another invocation; the challenge behind the gate stands,
  except that a failed fsync of its claim takes it back (section 6).
  `AcceptanceIsFinal`: a private state reports one result, behind its gate, and claim
  and directory stand; an unreported claim has its directory, too, unless its own
  fsync failed.
- `eval_pair`. `PairIsOneRun`, `AllOrNothing`, `AttemptsAreTold`: raw answer and
  receipt are of one run, appear in the documented order, vanish together on
  failure, leave no private residue, and tell the attempt.
- `judgment_replay`. `JournalIsTruth`: whatever raises, dies or loses power,
  projection and audit are at most one commit behind the journal and never ahead,
  and a receipt counts the journal that survives. `PassIsComplete`: PASS means the
  whole plan, decided once by one invocation, in all three files, and a returned
  PASS is durable with its manifest. `OneRun`: of overlapping or
  later invocations, one at most decides anything, also when a power loss took the
  output directory away.
- `frozen_replay`. `RunIsOneShot`: of all invocations under the run identity one
  spends tickets, behind a durable ledger it owns. `LabelsFollowCommits`: whoever
  read the reference labels had both submissions and their commits on disk first.
  `CompleteMeansWholePlan`: a directory that validates stands for the whole plan
  and for a run that was not given up. `QueriesAreTold`: the streams and the
  journal tell every ticket but the one under way. `OutcomesTellSearches`: in a
  match every search is in the outcome of the entrant that made it, and efficiency
  is scored on that number, for all entrants or none. `RetriesPerRequest`: a
  request is retried automatically no more often than declared, through chains of
  mixed retries. `NoVerdictAfterFault`: once the facts of a run contain an
  overrun, a failure or a rejection, no later receipt passes and no output judges
  quality.
- `bm0`. `OnlyAnswersAreScored`, `EstimatesAreFinal`, `PairsAgreeWithRates`: what
  counts is an attributable answer, an estimate once given is not changed by a row
  that comes later (it is withdrawn by an exception instead), and the paired
  comparison and the rates are two readings of one grid. `TwoHumansPerLabel`,
  `LabelIsFinal`: the same for an adjudicated label. `ClaimsRestOnOneRevision`: a
  claim rests on a receipt whose documents agree with one another, although they
  were edited one by one and read twice.
- `experiment_store`. `RunsAreImmutable`, `ToldIsStored`: rows stay, and what a
  report, an exit status or a query told is stored. `ProjectionIsOneInstant`: a
  projection is the store as it was at one moment. `DeltaAgreesWithExit`: two
  programs' verdicts on one stored run agree.

Why the bounds are enough. Two processes are what it takes to collide and a third
start is the restart after both ended. Two attempts distinguish the first, which
claims the plan, from a later one; `bm1_live` needs three so that the stop on the
second local failure leaves something to block. The price lists put the plan
below the ceiling, above it, and exactly on it. Times 0 to 2 with validity 0 and
1 are enough for every order of issue, approval, start and expiry; two heads, two
attested keys and two receipts are enough for each link of the chain to be of the
wrong one. Three ledger jobs let one job scan what two others left, which is
where a collision of the authorization with one and of the run identity with
another appears; approvals that differ by an exchange of the second and the third
job give the same behaviours, so one of each pair is an initial state. Two faults in
a handoff are a failed fsync and a crash or a failed unlink in the removal it leads to
(three faults, 3,735,146 states, and a smoke handoff, 853,504, were explored once and
hold as well), three in the evaluation a failure in the commit, in its rollback and in
the next run, and three in a judgment replay a write that raises, a failure on the way
to the receipt and a power loss; in a frozen replay two are a failed write and a failure
or power loss in the partial path that follows. Three records (the plan has six)
are a first, a middle and a last, two queries (of four) a first and a last. Three
accounting events are a failed request, a retry of one kind and a retry of that
retry of the other. Four changes of the contract documents are an edit and the
three updates that bring the others in line. The bounds are constants with a
comment that says so, or a sentence beginning "Bound:" at the guard; nothing else
is capped.

`MCBM0` and `MCFrozenReplay` explore modules that share no state in one run: a
step of one part is taken only while the others are in an initial state, so the
state space is the sum of the parts, and every invariant is checked on each.
The deadlock check is off where the system really stops: in `handoff_safety`,
`bm0`, `frozen_replay` and `experiment_store` the commands, rows, edits, matches
or events are used up. The other modules state their end with a `Terminated` or
`Done` step, or have an environment that can always move.

## 4. Fairness

`BM1Runner!FairSpec` and `BM1Live!FairLiveSpec` assume that a started process
takes its steps; the opener returns because the code passes `TIMEOUT_SECONDS` to
it, and every gate has its own timeout. Nothing is assumed of the owner, of
GitHub or of the clock: a run need not be approved, and `Termination` speaks of
the runs that were started. `OneShotLedger!FairSpec` assumes that the holder of
the lock goes on or ends (the job's `timeout-minutes`), and that a free lock is
given to a waiter (`flock`). A waiting job is deliberately not rescued by its own
timeout, so `EveryJobEnds` depends on the release of the lock on every path.

## 5. Proofs

The theorems hold for every value of the constants that the named `ASSUME`s
allow: any number of processes, jobs, starts, attempts, documents, rows and
faults. Every invariant and every action property that a passing run checks is
stated by one of them; only liveness is left to TLC. There is one proof module
per package of the code, because a package shares its lemmas, and
`PrefixSums_proofs` holds the ones that all of them need.

| Module | Theorem | Statement |
|---|---|---|
| `BM1_proofs` | `Inductive` | `Spec => []IndInv` |
| | `TypeCorrect` | `Spec => []TypeOK` |
| | `PlanIsFollowed` | `Spec => []WireFollowsPlan` |
| | `ClaimBeforeSend` | `Spec => []SentIsClaimed` |
| | `StaleNeverSent` | `Spec => []StaleClaimNotSent` |
| | `EvidenceIsBacked` | `Spec => []EvidenceBacked` |
| | `CommittedStay` | `Spec => CommittedFilesStay` |
| | `ClaimsAreOneShot` | `Spec => PlanIsOneShot` (refinement of `OneShot`) |
| | `Accounted` | `Spec => []AccountInv` |
| | `SpendIsBounded` | `Spec => []SpendWithinCeiling` |
| | `StopsForGood` | `Spec => []StopIsFinal` |
| | `SummariesAreTrue` | `Spec => []SummaryMatchesWire` |
| | `LiveIsRunner` | `LiveSpec => Spec` (refinement of `BM1Runner`) |
| | `LiveInductive` | `LiveSpec => []LiveInv` |
| | `ChainIsUnbroken` | `LiveSpec => []SentAsApproved` |
| | `LivePlanIsFollowed` | `LiveSpec => []WireFollowsPlan` |
| | `LiveIsAccounted` | `LiveSpec => [](SpendWithinCeiling /\ StopIsFinal /\ SummaryMatchesWire)` |
| `OneShotLedger_proofs` | `LaneInvariant` | `Spec => []LaneInv` |
| | `LaneTypes` | `Spec => []TypeOK` |
| | `QuarantineAlways` | `Spec => []QuarantineHolds` |
| | `LaneImplements` | `Spec => LaneIsOneShot` (refinement of `OneShot`) |
| `Blind_proofs` | `HandoffInductive` | `Spec => []HandoffInv` |
| | `OpenGateIsProved` | `Spec => []GateMeansProof` |
| | `AcceptedOnce` | `Spec => []AcceptanceIsFinal` |
| | `EvalInductive` | `EvalSpec => []EvalInv` |
| | `PairsAreOneRun` | `EvalSpec => []PairIsOneRun` |
| | `CommitsWhole` | `EvalSpec => []AllOrNothing` |
| | `CallsAreTold` | `EvalSpec => []AttemptsAreTold` |
| `JudgmentReplay_proofs` | `JournalInductive` | `Spec => []JournalInv` |
| | `JournalIsAuthority` | `Spec => []JournalIsTruth` |
| | `PassIsWhole` | `Spec => []PassIsComplete` |
| | `DecidedOnce` | `Spec => []OneRun` |
| `SearchCup_proofs` | `CupInductive` | `CupSpec => []CupInv` |
| | `SearchesAreTold` | `CupSpec => []OutcomesTellSearches` |
| | `ReplayInductive` | `Spec => []ReplayInv` |
| | `ReplayImplements` | `Spec => RunIsOneShot` (refinement of `OneShot`) |
| | `RunAccounted` | `Spec => []RunAccount` |
| | `LabelsAfterCommits` | `Spec => []LabelsFollowCommits` |
| | `CompleteIsWhole` | `Spec => []CompleteMeansWholePlan` |
| | `QueriesTold` | `Spec => []QueriesAreTold` |
| | `LedgerInductive` | `LedgerSpec => []LedgerInv` |
| | `FaultsStay` | `LedgerSpec => []NoVerdictAfterFault` |
| | `RetriesAreBounded` | `LedgerSpec => []RetriesPerRequest` |
| `BM0_proofs` | `OneRevision` | `ContractSpec => []ClaimsRestOnOneRevision` |
| | `ScoresAreAnswers` | `Spec => []OnlyAnswersAreScored` |
| | `EstimatesStandForGood` | `Spec => EstimatesAreFinal` |
| | `ComparisonsAgree` | `Spec => []PairsAgreeWithRates` |
| | `LabelsHaveTwoHumans` | `Spec => []TwoHumansPerLabel` |
| | `LabelsStand` | `Spec => LabelIsFinal` |
| `ExperimentStore_proofs` | `StoreInductive` | `Spec => []ProjectInv` |
| | `RowsStay` | `Spec => RunsAreImmutable` |
| | `TellingIsStoring` | `Spec => []ToldIsStored` |
| | `ProjectionsAreInstants` | `Spec => []ProjectionIsOneInstant` |
| | `DeltasAgree` | `Spec => []DeltaAgreesWithExit` |

**The runner.** `WireFollowsPlan` is not inductive: nothing in it says why a second
process cannot send. The argument goes through the claim files. `IndInv` is the
conjunction of

- `TypeInv`, `CountInv`, `RunInv`: types; a process has made as many requests as
  it has receipts, up to the attempt under way; process numbers are distinct;
- `OwnerInv`: a process in the middle of a claim owns a file it alone created
  (`ExclusiveInv`), in the directory its handle names (`HandleInv`), a process
  past its first attempt holds the durable claims of all earlier ones
  (`HeldInv`), and how far a file has come is what the step of its writer says
  (`Progress`);
- `WireInv`: the wire is the plan so far, sent by the process that holds the
  claim of its last attempt, with a durable claim for each;
- `EvidenceBacked` and `StaleInv`, the latter naming what a gate that was passed
  after the claim still implies about authority and directories.

A second process that reaches an attempt finds its claim file present, since it
became durable before the request and durable files stay, and `O_EXCL` refuses
it. `ClaimsAreOneShot` maps every step of the runner to a step of `OneShot` or to
a stutter, from the same invariant and its value in the next state.

**The account of the runner.** `SpendWithinCeiling` does not follow from the guard
of one attempt, because the guard counts reported costs, which the provider may
leave out. `AccountInv` goes around them: whoever passed the guard of the first
attempt saw the worst case of the whole plan fit (`SpendInv`), whoever is at a
later attempt did so earlier, and what is on the wire is a prefix of the plan, so
its worst case is no more than that of the whole (`SumMonotone`). `StopInv` ties the
error counter and the stop reason to the receipts, from which `StopIsFinal` reads
that BLOCKED receipts are those after the first stopping one; `SummaryInv` ties
counter and summary to the wire.

**The orchestration.** `LiveIsRunner` shows that what two workflows and an owner do
to the runner is what `BM1Runner` allows, so its theorems carry over
(`LivePlanIsFollowed`, `LiveIsAccounted`). `ChainIsUnbroken` needs `LiveInv`: a
launched run keeps the documents it was started with, they agree with the receipt
that was approved, and a receipt that is approved was archived with the documents
it names.

**The ledger.** `LaneIsOneShot` needs to know how far a claim has come. `LaneInv`
says that one job at a time is in the ledger (`LockInv`), that what it did there is
where it left it (`ProgressInv`), that an index leads to a durable record and is the
only one of its identity (`IndexInv`), and that who has made an attempt holds both
indexes for good and is never past a scan again (`CallInv`): its own record is in
the way. A provider attempt is then the first use of both identities, and a
directory sync commits names nobody owned.

**The handoff.** Removals go by path, and a file can be read before the fsync that may
take it back, so a process could remove what another created or acted on. `HandoffInv`
says how far it can: a file that exists once has one creator until its fsync returns,
and how much of it is there is what the step of that creator says (`OnceInv`); one
process at a time is behind a secret it may still remove, and none once a challenge is
reported (`ChallengeInv`). While no claim was withdrawn, what `verify-ack` has read is
what is published and stays so (`PublishedInv`); this conjunct is conditional, because
a failed fsync after the read makes it false. What the gate rests on in any case is the
acknowledgement and the joined session (`GateInv`); it opens once, because an opened
gate is never removed (`AttemptInv`), and what is recorded of a result is answered and
paid (`ResultInv`). A verified output directory is of one process, which alone is about
to claim it (`AcceptInv`); its claim stands with it, or its fsync failed
(`VerifiedInv`).

**The evaluation.** What a failed file operation leaves depends on how far
`commit_cli_outputs` had come. `PairInv` says what the two paths hold before each of
its operations, `StagedInv` which temporary files there may be, `PathInv` which
operations must have failed to be on a rollback path.

**The journal.** A power loss may undo any name that no fsync has committed, so
`JournalInv` speaks of what a file may hold after it. One invocation at a time is
behind the directory it made (`OwnerInv`). Until something raises, what is committed
is what its memory says, and only the file it is writing is ahead, by one record
(`CleanInv`); after an exception it adds nothing but a receipt that counts what it
found (`ClosingInv`), and what then stands on disk is not touched again (`RestInv`).

**The match.** `OutcomesTellSearches` says nothing of the entrant that is running.
`CupInv` adds that the outcomes are those of the entrants before it, told from their
own traces, and that a trace is within its budget and never behind the backend.
Entrants are distinct, so a search changes no trace that was told.

**The sidecar.** Runs are started any number of times and lose power anywhere. What
makes the invocation one-shot is `OwnerInv`: a visible sidecar has one owner, the
durable one has the same, and nobody is past it, or has spent its ticket, without
owning what a power loss leaves. `ReplayImplements` maps the directory sync to the
commit of `OneShot`, the first search to its use, and a power loss to a stutter.

**The account of a replay.** What a frozen replay tells is spread over five places:
tickets in memory, two streams, the outputs, the records of the sidecar. `RunAccount`
says for each operation what each of them holds, visibly and after a power loss
(`TicketInv`, `StreamInv`, `FileInv`, `JournalInv`), and what a verdict stands on
(`VerdictInv`). Its proof first describes a step by where it leads (`Arrivals`) and by
what it leaves alone (`Others`, `Frames`), so that each of the five parts is kept by
an argument about one place.

**The accounting.** Two receipts are compared by `NoVerdictAfterFault`, and what
carries a fault from one to the next are the facts: each count, maximum and total is
monotone under `append` (`CountsGrow`, `TurnsGrow`, `TotalGrows`), a total that is
missing stays missing, so nothing over a limit comes back (`OverrunsStay`). `FaultInv`
keeps the facts as bad as the worst receipt says. `RetriesPerRequest` speaks of chains
where the code counts by root. A retry has the root of what it retries (`RootAt`), a
later event changes no root (`RootsKept`), and `ChainInv` bounds the automatic
retries of each root; the retries of a request are among them (`RetriesShareRoot`).

**The study and the labels.** The estimates are pure functions of a manifest and a set
of rows, so most of what is said of them is a lemma about two such sets: more rows
change no rate that passes (`EstimatesStand`), because a passing rate read a complete
set and the grid refuses a second row for one attempt. `ComparisonsAgree` needs that a
pair is ambiguous only below twin roots (`TwinsHaveTwinRoots`, by induction over the
retry ordinal), and that a pilot design has none. A label stands because everyone
planned for the roles it reads has filed (`RoleIsFull`).

**The contract.** `ContractInv` says that a receipt was coherent when it was built
and that an asserted claim carries such a receipt; `OneRevision` follows although the
two reads are apart.

**The store.** `ProjectInv` ties the three parties that tell a row to the open
transaction: who is about to commit holds the only lock, and no row bears its run id
(`StoreInv`), a reader's rows are those of one commit no earlier than the bytes it
hashed (`ReadingInv`). `DeltasAgree` is arithmetic over every finite suite: who passes
has fewer wrong cases than the baseline exactly where the exit status says so.

**Induction over data.** The induction theorems of the library take an operator as
a parameter, which no installed prover can instantiate. The proofs use sets
instead: `LeastElement` follows from the well-foundedness of `<`, and `Induction`
says that a set with 0 and with n + 1 for each n in it holds every natural number. A
recursive function is what its equation says only if such a function exists;
`TableExists`, `RootsExist` and `OrdinalsExist` build it by tabulation up to n. In
this way sums, chains of retries and retry ordinals are proved about. The
definitions avoid `RECURSIVE` for the same reason.

**Assumptions.** Bounds and counters are natural numbers (`EvalAssumption`,
`StoreAssumption`, `FaultAssumption`, `ReplayAssumption`, `BoundsAssumption`,
`ProxyAssumption`, `LiveAssumption`). Beyond that: `RunnerAssumption` (a plan has at
least one attempt, a price list gives each attempt a cost), `PlatformAssumption` and
`HandoffAssumption` (two platforms, two modes), `LedgerAssumption` (the private job
runs on Linux, as its `runs-on` says, and an approval names both identities of its
job), `RosterAssumption` (a roster is a list of distinct entrants, `run_match` refuses
others), `NoneAssumption` (an absent value is neither score), `DraftAssumption` (the
attempts of a manifest are a list of closed objects, as its schema demands),
`SuiteAssumption` (a suite is a list of a document, hence finite), `FactsAssumption`
and `SpecsAssumption` (`EVENT_SCHEMA` and the resource contract are closed objects;
their counts and measures are not negative). TLC evaluates each of them in a run.

Model-checked only: `Termination` and `EveryJobEnds`, since liveness under fairness and
`ENABLED` are out of the prover's reach, and the three runs that are expected to be
violated. Type invariants are checked in `bm1_safety` and `ledger`, where a proof rests
on them alone; the other inductive invariants contain their types, and elsewhere a
value outside its type makes the properties themselves fail.

## 6. Where code and documents disagree

- `bm1_account`: `docs/b2/bm1-live-multi-model.md` section 4 says every committed
  claim receives a terminal account. When a gate fails after the claim, the
  receipt exists in memory and the exception leaves `run_all`; the summary is
  not archived.
- `ledger_rerun`: `docs/b2/r1b-live-orchestration.md` says a rerun fails and
  every claim has attempt 1. Only the hosted gate compares the attempt; a rerun
  of the private job alone commits a claim of attempt 2. It consumes its
  identities and then quarantines the ledger, so no second provider attempt for
  one identity follows (`LaneIsOneShot` holds with reruns).
- `eval_stale`: `docs/b2/blind-eval-bridge.md` calls a visible PASS receipt the
  commit marker of its pair. Clearing an earlier pair removes the raw answer
  first, so a kill between the two leaves the earlier receipt alone.

Noted without a run, since no document says otherwise:

- When the fsync of `challenge-published` fails after an overlapping `verify-ack` has
  read it, `encrypt-challenge` removes claim, envelope and secret
  (`blind_handoff.py:173-188`, `:1181-1184`) while the gate opens for that challenge,
  and another challenge can be published behind it. The challenge was answered, the
  gate opens once, so what is lost is the evidence of what was answered;
  `GateMeansProof` names the case.
- When the unlink after a failed fsync fails as well, the claim stays without what it
  claims: `result-accepted` without its output directory, or `challenge-published`
  without a challenge, which a later `verify-ack` takes for its own challenge although
  that is not claimed. Nothing is reported by the failing command; both properties
  except it.

Also without a run: when the manifest of a judgment replay cannot be written after
the PASS receipt is durable, `replay` returns NOT_EVALUABLE and PARTIAL while the
receipt on disk says PASS (`v23_t4_je1.py:410`). The document's rule that missing
completion evidence never means PASS leaves it to the reader to look for the
manifest.

## 7. What is not modelled, and what is left

Inside the modelled components:

- BM0: the arithmetic of Wilson intervals and the bootstrap, the stop rule, the
  typed partition of model identities, within-case instability
  (`bm0.py:4552-4598`). One fixture and one result stand for the five of each. A
  document torn while it is hashed is not a state. `validate_bm0_receipt` checks a
  receipt against itself and not against the repository, and so does the model.
- BM1: the clock and the world are frozen after the start of the runner, which is
  sound because the gates of `run_next` see the withdrawal of authority instead;
  one start of the live workflow; the concurrency group is left out (jobs are
  less restricted without it); the RUN-READY freshness is checked at the start
  only, in code and model. A torn RUN-READY archive and the residue of the Windows
  storage probe are not modelled.
- Blind handoff: a failed write after result-started burns the paid result
  (`blind_handoff.py:1259`) and a crash between the challenge secret and its claim
  leaves a private state in which no challenge can be made (`:1167`). Both are
  reachable in the model; they lose work and break no promise, so no property is
  about them. The same holds for a kill after the paid call of the evaluation
  (`blind_eval.py:719`) and for the run identity of a frozen replay that is burned
  although PRESTART is reported (`v23_t5_e1f_ex1.py:892`). Left out:
  `encrypt-challenge` checks the expiry after it has created the secret
  (`blind_handoff.py:1167-1174`), which it then removes; the model checks it before,
  so that the secret that comes and goes in a stale handoff is no state of it.
- Search Cup: the arithmetic of scores; a provider that keeps its tools after its
  turn. Resource ledger: a truncated tail of the events is itself a valid ledger;
  elapsed time is what the caller says; a receipt that was tampered with is
  recomputed by the code and not modelled; `PRICE_EVIDENCE_MISSING` may vanish when
  the money becomes unknown under an open ceiling.
- Experiment store: rendering of reports, the temporary file `write_report` may
  leave (`evaluation_lab.py:1252-1264`), the historical gate count (`:758`), the
  order of `--list-runs`. The QA3 projection refuses as a whole when one row has a
  padded run id or an unknown commit (`qa3.py:1239`).

Components left out: provider adapters and the Search Pro adapter (functions around
one HTTP call), the frozen and controlled retrievers (ranking over an immutable
corpus), the QA0–QA2 contracts and schema validators (functions without state whose
detail no protocol property depends on), `tools/a2_e1.py` (a driver of an external
program), offline workflows (they run the tests), documents, cases, fixtures and
reports (data). Encryption and hashing are abstracted to what a holder of a key can
open and to equality of documents. `PROJECT.json` lists every part with its status
and reason.

Next, if the project is continued: a composition of ledger, handoff and evaluation
into one lane, with the promise that one authorization buys one paid call whatever
the three parts go through; an abstract store of which the experiment store is a
refinement; the schedule of `tools/a2_e1.py` against a reference definition.
