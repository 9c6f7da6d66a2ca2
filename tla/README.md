# zz-stack: a verification project

zz-stack keeps a team's work as initiatives: documents written by agents, presented to people,
approved, and closed; and it improves its own plugins by releases that people sign. Two services hold
the state. `services/zz-core` is the MCP server whose tools create, edit, present, approve and close
documents, keep the control loop and the releases' attempts; `services/gateway` is the door in front of
it (identity, OAuth, passkeys, uploads, events, the console). Both keep everything in one PostgreSQL
schema, `zz`; what a process keeps in memory beyond a call are counters, caches and buffers. A third
program, the `release-apply` command of `packages/tools`, stands between that database and a clone.

The system's promises are about *evidence*: an approval stands on bytes that were put in front of a
person, a version cites why it exists, a closed initiative says one thing, a release is what its owners
signed. They must survive calls that interleave arbitrarily, since several agents and people work at
once and every call reads first and commits later, and survive processes that end between two commits.
That is what the modules here model, check and prove.

## 1. Inventory

| Component (code) | State | Operations | Hard behaviour | Status |
|---|---|---|---|---|
| Document write path (`document-save.ts`, `document-snapshot.ts`, `document-links.ts`, `versions.ts`) | `zz.doc`, `zz.doc_revision`, `zz.doc_link`, `zz.doc_request` | `saveDocument`: one transaction under the document's advisory lock | compare-and-swap, which row a write lands on, legacy rows without a generation | partly: `DocumentStore` |
| Changes (`document-change.ts`, `tools/document-edit.ts`, `tools/artifacts.ts`) | the above | `document_edit`, `document_write`, `source_add` | reads outside the transaction, three attempts, keyed retries | partly: `DocumentStore`, `UploadConsumption` |
| Review contexts (`review-context.ts`, `document-present.ts`, `document-panel.ts`, `document-delta.ts`) | `zz.event` rows `document.shown`, `document.shown_part` | `document_present`, `document_shown` | edits between read and record; deltas and continuations of superseded snapshots | partly: `DocumentStore` |
| Approval (`tools/initiative-acts.ts`, `attest.ts`) | seal, `approved_revision`, act row | `document_approve` | what is signed must be what was shown | partly: `DocumentStore` |
| Close (`tools/initiative-close.ts`, `guards.ts`) | `zz.initiative` anchor row, the outcome on the document | `initiative_close` | two closes; gates read outside the transaction | partly: `DocumentStore`, `ControlLoop` |
| Uploads (gateway `upload.ts`, core `upload-consume.ts`) | `zz.upload`, in-flight counters | stage by token or link, consume in a write, sweep | concurrent staging, consumption racing expiry, slot accounting | partly: `Uploads` |
| Release apply and rollback (`eval/release*.ts`, `packages/tools/src/release`) | `zz.release_attempt`, branches and tags of a clone | prepare, apply, record, verify, reconcile, roll back | a command dying between two systems, reruns, versions claimed without a lock | partly: `Release` |
| Evaluation and candidates (`eval/*.ts`) | candidates, findings, the idempotency ledger | propose, decide, idempotent operations | a base that moved under a candidate | partly: `ReleaseTable` |
| Stage control and control loop (`host/observe.ts`, `host/store.ts`, `contracts/host.ts`) | `zz.control_run`, `zz.control_evidence` | record a fact, withdraw an approval, judge a close | facts told after the commit, out of order, twice or never | partly: `ControlLoop` |
| Host jobs and registry (`host/jobs.ts`, `host/registry.ts`) | none of their own | a read, a check at start | little | not modelled |
| Initiatives: open, status, chain | `zz.initiative` | one conditional insert, reads | little | not modelled |
| Audit and review rounds, spec gate (`audit-rounds.ts`, `review-rounds.ts`, `spec-gate.ts`) | none of their own (sources) | rules that refuse | long histories | not modelled |
| Typed assessments (`semantic.ts`, `typed-service.ts`) | assessments | calls of a model, retries | batch bookkeeping | not modelled |
| Identity and tokens (`identity.ts`, `contracts/pat.ts`, `platform-db.ts`) | PATs, memberships, a 3 s team cache | resolve, revoke | stale answers when the database fails | not modelled |
| OAuth, passkeys (`mcp-oauth.ts`, `passkey.ts`) | codes, enrolments, challenges, sessions | authorize, token, enrol, register, logout | spending once across separate transactions | not modelled |
| Events and runs (`events.ts`, `runs.ts`, `tool-telemetry.ts`) | the event buffer, runs | write, strand, recover | an outage while events arrive, recovery at boot | not modelled |
| Console live reads (`console/live*.ts`, `answer-cache.ts`, `read-envelope.ts`) | counts of heard changes, kept answers, one queue per stream | commit and notify, read, keep, stream, resync | hints lost with the listener, reads racing changes, callers who change | partly: `Console` |
| Knowledge, journal, skills, bugs, search; console pages, admin, packages, relay | single rows | CRUD, rendering, ranking | little | not modelled |

How they meet: every tool that writes goes through the write path; a staged upload is the body of a
change; a close asks the documents (`DocumentStore`) and the run (`ControlLoop`); each write, approval
and audit is told to the run after it committed; a release rests on an `improvement.md`, which is a
document like any other. Several components in the table are "partly" because some refusals or features
of theirs are left out (section 3), not because an operation that changes the modelled state is.

What makes each *correct* is stated as the properties of section 4; `PROJECT.json` lists the hazards,
at their lines, and which property would catch each going wrong.

## 2. Modules

| Module | What it is |
|---|---|
| `DocumentStore` | the documents of one initiative and the five tools that change them |
| `ReviewRegister` | what the store promises a reviewer, without calls, rows, versions or pages |
| `DocumentStoreRegister` | the refinement mapping: `ImplementsRegister == Register!Spec` |
| `DocumentStoreMC` | the instances TLC checks |
| `DocumentStoreProofs` | type correctness and the invariant of the rows |
| `DocumentReviewProofs` | what was shown is retained; what was approved had been shown |
| `DocumentChangeProofs` | the compare-and-swap: edits, versions and their causes, the close, keyed requests |
| `DocumentRegisterProofs` | that the store implements the register |
| `UploadTable` | the rows of `zz.upload`: minting, time, the sweep |
| `UploadStaging` | the gateway's requests that stage a file: slots, deadline, the bind (extends `UploadTable`) |
| `UploadConsumption` | writes that take their body from an upload (extends `UploadTable`) |
| `Uploads`, `UploadsMC` | the three composed over the table they share, the properties, the fairness; instances |
| `UploadProofs` | the invariants of uploads, of the slots and of the limit, and eight properties |
| `AttemptRegister` | what `zz.release_attempt` promises its readers |
| `ReleaseTable`, `ReleaseTableMC` | one plugin's candidates, attempts, versions and findings, and the tools that move them; `ImplementsLifecycle` is the register under its mapping |
| `ReleaseRepository` | the clone: branches of candidates, release tags and what they contain |
| `Release`, `ReleaseMC` | `improvement.md`, the `release-apply` command and `--reconcile`, over the table and the repository |
| `ReleaseProofs` | the invariant of the table and that it implements the register; that the release refines the table, and the invariant of the whole |
| `ControlLoop`, `ControlLoopMC` | the run that governs an initiative: acts, facts told after them, the log, the judged close |
| `ControlLoopProofs` | the invariant of the loop, and four properties |
| `ConsoleChanges` | committed changes, their notifications, the listener and its counts, who is calling |
| `ConsoleAnswers` | reads of pages and the answers kept of them (extends `ConsoleChanges`) |
| `ConsoleStreams` | the streams of hints, and what a tab does with them (extends `ConsoleAnswers`) |
| `Console`, `ConsoleMC` | the three composed, the properties, the fairness; instances |
| `ConsoleProofs` | the invariant of the console, and three properties |

### How DocumentStore corresponds to the code

Every tool call has the same shape: it reads the store with plain queries, plans a write, and commits
**one** transaction that takes the document's advisory lock (`lockPath`). The transaction is one atomic
step (`SaveEdit`, `SaveCreate`, `SavePresent`, `SaveApprove`, `SaveClose`); the reads before it are
steps of their own, so any other call may commit in between.

* An edit, an approval and a close read the document's *state* (`documentState`: generation, revision,
  write time) first and the document after it. These are two steps (`BeginEdit`, `PlanEdit`): what is
  loaded may be newer than the state, and the compare-and-swap must notice. Everything read between the
  state and the commit about the *same* document is covered by that comparison; what is read about
  *other* documents (gates, the anchor row) is not, and the step that plans reads it at its own moment.
* A presentation reads and resolves its context in one step and commits the page in another. A create
  has no state to compare; its reads are one step.
* `RetryEdit` and `RetryClose` are the failed comparison together with the next attempt's state read.
* `GiveUp` is every way a call ends without writing: a refusal, the receipt of an earlier request, a
  rolled-back transaction, a crashed process. Any call may end so at any moment.

State: `doc[d]` is the row of `zz.doc` (content generation, a counter standing for `written_at`,
status, `approved_revision`) with its `zz.doc_revision` rows; `anchor` is `zz.initiative.outcome`;
`pages` are the presentation events, `covered` and `open` what `coverageOf` and `contextState` derive
from them; `approvals` the act rows an approval commits; `requests` is `zz.doc_request`; `supports` the
sources filed and the documents they declare; `call[c]` is one call in flight.

A text is a body, the sequence of the changes that made it (`<<caller, request key>>` tokens), and a
title. That is all the properties tell apart: whether content changed, which change is in it, and
whether it is the body or only metadata that changed.

`Pinned` and `Landing` are the heart of the code: a write lands as a new version (`append`), as a new
snapshot of the same version when the current row was shown, signed or closed on (`pinned`), or in
place (`rewrite`). `Stamped` is the rule for legacy rows, which have no generation of their own.

Behaviours the model lets happen, because the code does, and the code's comments say otherwise:

* a close judged while every gate was approved lands after an edit took one approval off. The gates are
  read outside the close's transaction (`guards.ts:270`), which locks and compares only the document the
  close lands on, where the comment has a gated document that was written approved "before the initiative closes"
  (`guards.ts:258`);
* a create lands behind a prerequisite whose approval was taken off after it was read (`guards.ts:465`);
* a create lands in an initiative that was closed after that was asked (`guards.ts:383`, where the comment at
  373 has a closed initiative take no new document).

`OutcomeAgrees` and the register are stated, checked and proved with these in.

### How Uploads corresponds to the code

A *stager* is one PUT and its handler: `looking` (the row is being read), `reading` (it has a slot and
the body arrives), `arrived`, `binding` and `unbound` (around the conditional update), `answered`,
`flushed` (the answer is sent). A handler runs without yielding between two awaits, so each action is
the code from one await to the next; `Admit` is the continuation of the row's lookup up to `readBody`.
`Close` may come at any moment and ends the handler only while a body is being read.

* The bind is one statement under READ COMMITTED: its condition, with the sum of what the owner holds, is
  evaluated on a snapshot (`Snapshot`); when another bind of the row commits first, the condition on the
  row itself is evaluated again on the new row (`Bind`, `LoseBind`). `now()` does not move meanwhile.
* `slot` says that the handler's `release` is still to run. A response whose connection went before
  `arrive` hung `release` on it emits neither event again, so `Admit` gives such a request no slot to
  return, and `stray` counts what it took. That a destroyed response emits no "finish" is node's.
* `life` is what the code compares `expires_at` with: `open`, `over`, `old` (by more than a day). A
  swept row is `deleted`; ids are never reused.

A *writer* is one call of `document_write`, `document_edit` or `source_add` with an `upload`: the request
key (`LookUp`), the upload and the plan (`Plan`), then the transaction. `Enter` is its BEGIN, whose time
the window is compared with, and everything after it up to the commit one step, since the document's or
the key's lock and the row's are held from where they are first read. A rolled-back transaction leaves the
row as it was (`RolledBack`). Documents here are no more than a generation and the file they say; how a
write lands on a row is `DocumentStore`'s subject, which knows nothing of uploads.

`commits` is the history of committed writes: `zz.doc_revision` with the keys of `zz.doc_request`.
`stray` and `raced` are history too; no guard reads them.

### How Release corresponds to the code

`ReleaseTable` is the database. Each MCP tool is one action where it is one transaction, and two where
it reads first and writes later: `Ask` reads `improvement.md`, and `ApplyMoves`, `ApplyStale`,
`ApplyRefused` are the transaction of `planApply`, in which a plugin lock and the idempotency ledger
leave one call deciding; `StartRecord` and `CommitRecord` are `recordRelease`'s checks and its later
statement, between which nothing is locked; `StartVerify` and `CommitVerify` likewise. `Drop…` is the
call that is cut off between the two. `Closes` and `Reopens` are what a release and its rollback do to
findings. In `ReleaseTable` alone `Ask` may read any document at all, which is more than the code can do;
`Release` says which document it is.

`Release` adds the operator's `release-apply` command. One key `k` is one command line; `cli[k].at` is
where it stands between the database and the repository, `Exit` is its death anywhere, `RunAgain` the
same command line again, which is answered as its key was. A tag is what it contains: the attempts whose
commit it has and the versions it descends from; a branch is its tip; a worktree is there or not, and git
deletes no branch that is checked out in one (`Removes`). `Succeed` is the release command ending well, whether
or not its tag is out: `Push` publishes the tag before that or at any time later, on the candidate's commit
or on one it was squashed into, which is why `Confirm` asks.

`--reconcile` may be run of any attempt a command was given, whatever became of the attempt, its command or
its candidate's branch, and its outcomes are actions: released by the tag, accepted without the commit, nothing
recorded, taken for failed. The lookups of the last are no knowledge of what is published: `shown` is any set of
the published tags, because `ls-remote` may fail, a tag's commit may not be fetched and `fetchTags` ignores
its own failure (`git.ts:62-66`, 74, 79). The branch goes, and the record of the failure is made or lost.

What is simplified, and in which direction:

* one plugin and one clone. Owner checks and the validity of a candidate are constant, and whoever
  approves speaks for all owner teams: these only refuse.
* the ledger holds the attempt and nothing else of the answer. A key's twin in flight loses by the
  ledger's primary key, so one call per key is at work at a time. The answer of `release_apply` and its
  receipt by the command are one step; a lost answer is `Exit`.
* `cli[k].version` is chosen when the attempt moves. The real command is told its version by the release
  command it runs; nothing reads it earlier.
* the release tag's commit is the base commit of the next candidate, and a tag descends from one parent
  release. A commit that applies a candidate is taken to be one per attempt: a rerun that makes it again after its
  branch was removed makes, here, the same one.
* `--reconcile` is given the version the command was to release; `--commit` is left out. It is one step, but for
  the recording of a release; between its lookups and its deletion nothing is excluded that an earlier lookup,
  `shown`, does not allow already.
* a tag is published or not there: one the release command made in the clone and did not push is not modelled. It
  would only keep `--reconcile` from failing what landed.
* `Deploy`, a deployment naming an old or a new version, happens in `ReleaseTable` only. `ReleaseLanding`
  runs a plugin outside the catalog (`OutsideSpec`).

Four ways in which this code loses a release that landed, against what its comments say, are modelled, and
`LandedIsRecoverable` exempts them by name: each puts the candidate in `unseen`, which is history and read by no
guard. The comments are `apply.ts:47`, "Once the release command has succeeded, `failed` is never recorded again:
the release happened", `apply.ts:53-56`, that only a version never registered, a commit no tag carries and no
published release tag together are `failed`, and `apply.ts:382-383`.

* `--reconcile` while origin does not answer. A lookup that failed is `published: null` (`git.ts:96`), as if the
  tag were not there; a release that was squashed and published, and is not registered yet, has its branch removed
  (`apply.ts:391`) and its attempt recorded `failed`, or that call is lost and only the branch is gone. The same
  if the release command ended before its tag was out (`git.ts:77`, `apply.ts:279-283`). A rerun then makes the
  branch anew, at the base, which is how `ReleasedIsCarried` can be reached too.
* the same command line again after its release landed unrecorded. `release_apply` answers with the patch, the
  command finds the branch there (`apply.ts:216`) and records the attempt `failed` (`apply.ts:217`): `released`
  is a variable of one process.
* `--reconcile` of an older attempt of a candidate. The branch is named for the candidate, not the attempt
  (`apply.ts:340`), and neither the attempt's status nor whose commit the branch holds is looked at before the branch of
  the newer attempt is removed.
* `--reconcile` while the command is at work removes its worktree at once (`apply.ts:345`), and then its branch and
  its attempt, which may land all the same.

They are told here and not run as violations of their own: the run is about what holds without them.
`ReleasedIsVouched` needs none of these exemptions. It has two of its own: what an operator accepted without
the commit (`accepted`), and what `--reconcile` released by the base its branch was at (`mistaken`), which is the
subject of `ReleasedIsCarried`.

Behaviour of this code that was read and is not modelled: `STALE_APPLYING_MS` (40 minutes, less than the
time limits of a command's steps added up, so an operator may be told an attempt is stale that is not);
an attempt left applying by a command that died before its branch, whose random key nobody printed; the
head moving between its read and the compare of a record.

### How ControlLoop corresponds to the code

An *act* (`Write`, `Edit`, `Approve`, `AddAudit`) is the tool's transaction, here no more than the
snapshot it makes (`version`, `revision`) and what is approved; how a write lands and what a signature
rests on is `DocumentStore`'s subject. The same call then *tells* the run, in statements that share no
transaction with the act or with each other:

* `Look` is `note` up to `recordedIds`: the run is opened if it is not there, the audited document's
  snapshot is read, and the ids the run holds. A document's
  fact and an approval's carry their snapshot, so their `Look` is atomic at the read of the ids. An audit's
  is atomic at the read of the document it is about, since no other call tells that audit and its id is not held.
* `Insert` is the one insert of `recordEvidence`. A twin that recorded the fact meanwhile makes the unique
  key refuse it, which fails a tool call whose act has committed.
* `Lose` is the process ending, or a statement failing, before the insert.

`Claim` and `Close` are `initiative_close(finished)`: the claim, atomic at the read of the evidence (the
log only grows, and a withdrawal is an entry), and the guards with the commit. That a claim holds no
longer when the close commits is possible and is not excluded by the properties: `JudgedCloseWasEarned`
states what remains true.

`lost` and `missed` are history, read by no guard. They mark what `LogAgrees` must exempt, and each
exemption is a way the log of the real system comes to disagree with the documents for good:

* a change's telling reads the run before the displaced approval was told: it withdraws nothing
  (`observe.ts:234`), the approval is then recorded and stands;
* a change displaces an approval and a later change rewrites the same new row in place; the later one is
  told first, the earlier finds its id held and returns (`observe.ts:219`): its withdrawal is never recorded;
* a telling that carries a withdrawal is refused by the unique key;
* a call ends between the commit and its telling; a keyed retry is answered from the request and tells
  nothing.

In each a close still asks the documents themselves, which is why `Close` has the guards. An audit filed
before its document exists is told as being about the first snapshot, and counts once that is written,
where the comment at `observe.ts:86` says it satisfies nothing. These are described here rather than
run as violations, because the log is the weaker of the two guards and nothing rests on it alone.

Left out: waivers (nothing in `src/` writes `zz.control_waiver`), steps a branch rules out, a module whose
digest changed under the run, procedures that fan out, runs an adoption script opened.

### How Console corresponds to the code

`written` is the database: how many changes of whom touched which collection. A change raises a
notification only when it commits and only for a team or for nobody (`Raised`); the trigger of `zz.event`
raises none for an event in no team. `wire` is what the connection has not yet handed over. `Connect` is
the moment `listen` takes effect in the database and `Listens` the continuation that starts a boot; a
notification between the two is on the wire before anything counts. `Hear` is the handler: counted, then
delivered, in one turn.

A read (`Arrive`) samples its header and its key together and then either begins a computation, which is
kept before it has rows, or is given the kept one, finished or not. In the code the header is sampled
first and the key some awaits later, so the header is only older than here. `Query` reads all rows at one moment.
`Forget` is a kept answer's minute, its own boundary, or the room it makes, at any time. `Restart` loses
what the process held.

A stream is one record for both of its ends: what the tab was told and has not read (`unseen`), the
subscriber's queue, its overflow, and the frame whose check is awaited (`ask`). `Drain` is as much of the
loop as runs in one turn. What a tab does is not in `src/`: it is modelled from what `live.ts` says of it
(it reads again what a hint names, one more time for a hint during a read, everything when it comes
back), and marked external. Frames on an open stream arrive as written.

`floor` is history: what a read owes, compared with what the page shows. Left out: leaving a team, payloads
nobody can read (no writer raises one), the safety poll, which would hide what is missed, and the refusals
of the route.

Three behaviours of the code lie outside what the properties promise, each by a named condition:

* a revision is a count and names no team. A page of one team and a stream of another compare counts of
  different things, and equal ones greet the tab with `synced` over a page that moved (`live-revision.ts:122`,
  against `live.ts:294`); it takes a switch in another tab between the page and its stream. `Comparable` says
  which pages are promised to;
* Home's and Record's answers are kept per person under a marker that counts every team's changes for a superadmin
  (`home.ts:337`, `answer-cache.ts:107`); after a demotion the narrower count can reach the same number, against
  `checks/console-cache-scope.ts:3`. A kept answer so given is older than what was heard, and the header it goes out
  with is the new count, so its stream greets the tab with `synced`. `NamesScope` says which answers and which tabs are
  promised; the case `Demoted` is of a route without one, and of a key with the role in it;
* an event in no team raises no notification and moves no marker, while Usage counts it (`005_page_view_no_hint.sql:30`,
  `event-work-week.ts:76`), so a kept answer of Usage is served without it for up to its minute, where
  `ARCHITECTURE.md:618` has it never behind `zz.event`. The properties speak of `Told`, the changes that are told.

### Initial states

Documents may be absent, drafts, or already approved. Those that exist are *legacy* rows, written before
generations were kept per row and before seals named a signer: the migration leaves such rows, and they
are the interesting case for `Stamped`. Rows the current code writes arise from there. A plugin starts
with version 1 registered and published, in the catalog or not; no candidate, no attempt. A run starts
with nothing written.

## 3. Bounds and abstractions

* `Budget[o]` calls of operation `o` are begun; it is the only bound on the store's behaviours and it makes systems
  stop, hence `CHECK_DEADLOCK FALSE` in every configuration. `MaxContexts` bounds review contexts. The
  control loop's `Budgets` is a set of such functions, one of them chosen initially.
* `MaxAttempts` of documents is 3, as in the code. `Parts` is the number of pages of a presentation: 1,
  or 2 where partial presentations are the subject.
* Uploads need no budget: rows are minted once and age, and requests and calls come back to rest. Each
  upload is used once, which bounds `commits`.
* Releases are bounded by `MaxAttempts` attempts and `MaxVersion` versions; when both are used up a
  behaviour stops.
* Two calls in flight suffice for a race between one read and one commit. Three edits let one edit be
  retried after two others landed.
* Symmetry (`Alike`) permutes call slots, viewers, keys, candidates with the same targets, which no
  property names. Runs with properties over steps use it too: those are all boxes over actions, for which
  a symmetric quotient is sound. Runs with liveness use none.
* The console's `left` bounds the changes of each owner to each collection, the moves of people, the
  connections and the streams that break; a behaviour starts in one of `Cases`, which say how many. `MaxQueued` is 1
  where the code has 100, so that two hints overflow it.
* `written_at` is a counter: two writes of one row never carry the same time (they are serialised by the
  lock and stamped in microseconds).
* Pages are ordered by commit. The code orders them by the transaction's start time; see the hazards.
* Left out, because they only refuse: `expected_revision`, `decision_basis`, section, field and tag
  rules, the acceptance and spec gates. Left out as features: `handover.md`, conditional documents
  (`when`), freeform initiatives, `on_behalf_of` (the signer is the caller), legacy `shown` events
  without a target, suffixes chosen by `reservePath` (any free name is taken).

## 4. Runs

| Run | Question | Instance | States |
|---|---|---|---|
| `DocumentReview` | what was shown is kept, what was signed was shown, the register is implemented | 1 document in 2 pages, 1 viewer, 2 calls in flight, 2 edits, 3 presents, 2 approvals | 490k |
| `DocumentVersions` | no lost update; versions have new causes; generations name one text; status is the seal; a key commits once | absent, legacy draft or approved, 2 sources, 1 key, 3 edits, 1 create, 1 present, 1 approval | 928k |
| `DocumentClose` | document and anchor agree; kept rows stand; the register is implemented | 2 gated documents from any standing, 2 closes or abandons, edits, a create, an approval | 220k |
| `UploadStage` | slots are counted, what is held is bounded, answers stay right, nothing ready is lost | 2 requests, 2 uploads of 1 owner, 2 files, room for 1 body and 1 file | 1.2M |
| `UploadUse` | an upload is used by the one write that committed; a key commits once; receipts are true | 2 calls, 2 staged uploads, 2 files, 1 document, 1 key, 2 attempts | 2.2M |
| `UploadSlots` | every slot is given back, every expired body goes | 2 requests, 1 upload, 1 file | 12k |
| `ReleaseAttempts` | versions are claimed once, one release stands on a base, findings follow releases, rollbacks rest on verdicts, the register is implemented | 2 candidates, 2 attempts, 2 keys, 3 versions, 1 finding | 474k |
| `ReleaseLanding` | only what was signed is applied, by one command; what landed is not failed and keeps its branch; what is released is vouched for | 1 candidate, 2 commands, 2 attempts, 2 versions, an amended document, other releases | 1.7M |
| `ControlLoop` | the log says what the documents say; late tellings withdraw nothing that stands; judged closes were earned; steps stay met | 2 documents, a procedure of 3 steps, 1 round, 2 calls in flight, one of each change or two of one document | 315k |
| `Console` | no change is missed by an open stream; answers, kept or not, have what was heard; a tab whose stream stays comes to show what it is told of | five cases, below | 262k |

`ShownIsRetained`, `SignedWasShown`, `StatusIsSeal`, `GenerationNamesOneSnapshot`,
`VersionsHaveNewCause`, `RequestLandsOnce` and `OutcomeAgrees` are invariants over several tables;
`KeptRowsStand`, `EditsApplyToCurrent`, `ApprovedChangeOpensVersion` and `MetStays` are action properties; `ImplementsRegister` and `ImplementsLifecycle` are refinements.

The limits of `UploadStage` are 1 so that two requests contend for the last slot and the last byte;
`HeldBounded` exempts exactly the uploads bound while another bind of their owner was in flight, which is
the excess the code allows itself. `UploadUse` starts from staged files (`StagedSpec`), the only uploads a
write gets past its plan with; how they came to be staged is `UploadStage`'s. It uses 2 attempts instead
of 3: one retry and one refusal. `DocumentReview` has one viewer, since contexts of two are never shared
(`ContextsApart`, proved for all viewers as part of `ShownInvariant`); two page counts and three
presentations give whole, delta and continued pages of superseded snapshots. `ReleaseLanding` has two keys
so that one command reruns while the other races it, and two attempts so that the second is prepared
while the first is being applied. Its versions are two, the base and the one the attempts, or a release of something
else, publish: all that `LandedIsRecoverable` speaks of, and the race for a tag, happens with one version to
publish. A third multiplies the states by more than ten; what it adds, another version's tag that carries
the commit and a second release after a rollback, is covered by the theorems, which hold for any number, and
`ReleasedIsCarried` is run with three. In `ControlLoop` one budget writes both documents and closes, the other
changes and approves one document twice, which is what it takes for a withdrawal to find the wrong approval.

The five cases of `Console` are what the freshness of a page may be lost by: the listener and a stream
broken around a change of a kept page with revisions (`Gap`), a queue that overflows under two changes
(`Full`), a browser that goes to another team or signs out (`Moving`), a superadmin demoted around changes of
two teams (`Demoted`), two people sharing an answer about every team (`Platform`).

Two runs show where the code does less than its comments say:

* `SlotsAllReleased`: a connection that goes while its upload's row is looked up leaves the slot that
  `arrive` then takes for it taken until the gateway restarts (`upload.ts:299`, against the comment at
  279); four such refuse the owner every upload.
* `ReleasedIsCarried`: a command dies with its branch made and not yet committed to; another release
  publishes the version; `--reconcile` takes the branch's tip, which is the base, for the candidate's
  commit, and records the attempt as released (`apply.ts:344`, against the comment at 50).
Definitions commented *(A fault: ...)* are variants of a definition, each a plausible bug; `PROJECT.json`
names, for every property of every passing run, the variant under which TLC refutes it. Nothing else
uses them.

## 5. Fairness

For uploads, `FairSpec` assumes that a handler takes its own next step (node runs every continuation, the
database answers or fails, and the deadline is a timer) and that the hourly sweep runs. Nothing is assumed
of callers: a body need not arrive, a connection need not go. With that, `SlotsReturn` says every slot
whose release is hung is given back, and `ExpiredBodiesGo` that no expired body stays. A failing sweep
statement is retried an hour later, which the fairness covers.

For the console, the listener reconnects and handles what it is sent (`schedule` retries for ever, node
runs every handler), the check of a frame answers, and a tab reads what it was told to; strong fairness of
a read's steps says that a read made again and again succeeds at last. Nothing makes a listener or a
stream last, so `TabsCatchUp` asks only for the tabs whose stream, and the listener, at last stay.

Nothing else promises progress. A caller of the document store may never retry, a process may stop, an
edit may lose its race three times; an operator may never rerun a command or reconcile; a fact the loop
was not told is told by nobody later. Those specifications state no fairness and no liveness is claimed.

## 6. Proofs

All theorems are proved by TLAPS for every value of the constants: every flow, number of documents,
calls, viewers, sources, pages, uploads, candidates, keys, versions, rounds, procedures, teams, persons, tabs, routes
and every budget.
They rest on the named assumptions of the modules and on nothing else: `NoneAssumption` (the absent value
is nobody's value), `FlowAssumption` (the flow is over its documents; ungated documents do not start
approved), `PageAssumption`, `BoundAssumption` and `SnapshotAssumption`; `TableAssumption`, `StagingAssumption`, `ConsumptionAssumption`; `ReleaseAssumption`,
`InitiativeAssumption`; `ProcedureAssumption`; `ConsoleAssumption`, `RouteAssumption`, `AbsentAssumption`,
`QueueAssumption`, `CasesAssumption`.

1. `TypeInvariant` (`DocumentStoreProofs`). `TypeOK` is not inductive: it does not say that a call in
   flight names a document that exists, without which the last row of a document is no row. `TypeInv`
   adds `CallsHeld`. From it `TypeCorrect == Spec => []TypeOK`.
2. `DocsInvariant` (`DocumentStoreProofs`). Every step leaves each document as it was, *writes* it (a
   planned write lands), *drafts* it (it is created) or *recalls* it (a presentation stamps the current
   row): lemma `DocSteps`. With the plans of calls in flight (`CallPlans`: what a plan says of its status and seal)
   the invariant is that the seal agrees with the status and that generations ascend strictly along the
   rows. From it `ApprovedIsSealed`, `GenerationsNameOnce`, and, since a write that changes text never
   lands on a pinned row, `KeptStands`.
3. `ShownInvariant` (`DocumentReviewProofs`). `ShownIsRetained` is not inductive: whether a page's
   snapshot survives the next edit depends on whether it is *held fast*. A snapshot is fast when it is a
   superseded row (never written again) or the current row while a page of it pins it. The invariant says this
   of the targets and baselines of all pages (`PagesFast`), of what a page in flight relies on
   (`FlightsFast`), and that contexts remember generations that were shown (`Remembered`) and are not
   shared (`ContextsApart`). From it `ShownStays == Spec => []ShownIsRetained`.
4. `SignedInvariant` (`DocumentReviewProofs`). An approval is right because of four things far apart in time:
   each review context belongs to one viewer, its deltas go forward (their baseline is older than their
   target), its pages were given to that viewer, and the plan of an approval rests on such a context. What
   ties the plan to the document at the commit is the stamp: rows of one document with the same stamp have
   the same content (`StampTells`), so an approval whose stamp still matches signs the text it was planned on.
   From the invariant: `SignedStays == Spec => []SignedWasShown`.
5. `ChangeInvariant` (`DocumentChangeProofs`) is the compare-and-swap. A change is planned on a document read
   outside any transaction. `PlansHold` says of every call in flight that, *while its document is in the state
   the call noted*, what it planned is true of that document (`Fits`), and that the state it noted is no newer than the
   document's. Each write raises the stamp, so a document in the state noted was not written since; and a plan
   made on a later document than the one noted has a stamp that will never come again, so it says nothing and lands nowhere.
   From it, with what each property needs on top:
   * `EditsApply`: content changes only as one edit asked, applied to what was there at that moment;
   * `CauseInvariant`, that an approved document is a gated one, that what rows cite is filed and that the
     current version is the latest; from it `ApprovedOpens`, and with `Explained` (of each row, that its version
     cites something the version before does not) `VersionsExplained`. That a captured source is always a new
     cause rests on its being filed in the commit itself;
   * `OutcomesStayAgreed`: `OutcomesStand` says the outcome of a document never goes away once it is there
     (`Carries`), and that only one document is closed on. The anchor row decides between two closes, not
     the document, so an abandon that finds the anchor taken lands nowhere;
   * `RequestsLandOnce`: the keyed words of each body stand in it once, each with a request that has the key.
     A keyed call commits only if no request of its key was committed, so the word it appends is not there yet.
6. `StoreImplementsRegister` (`DocumentRegisterProofs`). The store is seen as the register's snapshots:
   those its rows hold, those its pages show, those a viewer's contexts cover. The register's steps speak of
   one snapshot each, and a transaction moves several: it is described first by what it does to the snapshots of one document
   (a write adds one or replaces the current one, an approval keeps it and makes it stand, a page adds one to what is
   shown), with everything else as it was. That a page recorded late shows a snapshot that is current or
   was shown before is not in the invariants above: a page in flight planned on what is no longer current is a
   continuation of a context, so some page of the same snapshot is there (`FlightsShown`). `RegisterInv` joins it
   to 4 and 5. `SnapshotAssumption` says that `None` is no snapshot.
7. `UploadInvariant` (`UploadProofs`). A row's bytes never change once bound, and go only with the row of
   an upload never used (`Keeps`); so what a request saw or answered stays right (`Sound`). `CommitsApart`
   ties the used rows to the commits, one each, and carries through a commit because the row is tested
   unused in the same step; the key, because it is looked up in it. From the invariant: `AnswersStand`,
   `BodiesStay`, `UsedOnce`, `KeysCommitOnce`, `ReceiptsAreTrue`.
8. `SlotInvariant` (`UploadProofs`). A slot is held only by a request that was admitted and whose connection is still
   there (`SlotsOpen`), so the first of "finish" and "close" gives it back and the second finds it gone. The counters
   are typed and the sets they count are finite, though there may be infinitely many requests: each step puts
   one request or one stray into a set, or takes one out, and the counters move with it. From it `UploadsTyped`, that no counter falls
   below zero or passes its limit, and `SlotsAreCounted`. The limit on bytes held has an invariant of its own,
   `HeldInvariant`: while a bind is under way there is room for it on top of what counts (`HasRoom`). Whatever was bound since its
   condition was evaluated was bound with a rival in flight, so it is in `raced` and does not count; and a bind
   without a rival leaves no other of its owner to promise room to. `Bytes` is a fold over a set; that there is such a
   function (`SumsExist`), that the order of choice does not matter (`BytesWithout`) and that more uploads
   hold no less (`BytesGrow`) are proved by induction on sets (`NatSetInduction`, `SubsetInduction`), which needs the
   set finite: the bodies are, though the uploads need not be. From it `LimitHolds`.
9. `TableInvariant` (`ReleaseProofs`). That two attempts never claim one version rests on no lock at
   all: the invariant says at most one attempt is applying, and that of a record call in flight whose
   attempt still is, nobody else released the version since it looked. That two candidates on one base are
   never both live rests on the version order: a release's version is above its base, so the base is
   current again only when the release was rolled back. From it `TableTypeCorrect`, `ClaimedOnce`,
   `OneStandsPerBase`, `FindingsFollow`, `RollbacksRest`, and `TableImplementsRegister`: each step of the
   table is a step of `AttemptRegister` or a stutter.
10. `ReleaseRefinesTable` (`ReleaseProofs`). Every step of the release is a step of the table or leaves it
   alone, so 9 holds of it. `LandInv` adds what ties the command to the clone: what a command has made of
   the branch is what it came to (`MadeAgrees`); a worktree has its branch and no two have one
   (`WorktreesAgree`), which is why no other command's failure takes a branch that is worked on; a branch's or a tag's
   commit is of an attempt that was moved, and a branch's of its candidate (`CommitsAgree`); and a command that applies a
   patch whose candidate is not in `unseen` has worktree and branch as it made them, of an attempt that neither landed
   nor failed (`HoldersAgree`). That last is what makes `LandedIsRecoverable` inductive: a branch that holds what
   landed is nobody's work any more, and only a `--reconcile` that was not shown the tag removes it. What is being
   recorded is vouched for before it is written (`RecordedIsVouched`). From it `ReleaseTypeCorrect`, `PatchOnce`, `LandedRecoverable`, `ReleasedVouched`;
   and `AppliedSigned`, from an invariant on what was approved when a call read it (`DocsSigned`).
11. `LoopInvariant` (`ControlLoopProofs`). Every act leaves its fact in a call; from there the fact is in
   the log, still in a call, or its document is in `lost` (`AllTold`), and this is stable whatever else
   happens. Every approval in the log stands for the current snapshot, or it is withdrawn, or a call has its
   withdrawal to tell, or the document is in `lost` or `missed` (`AllCleared`). The log's ids are unique and a
   withdrawal names an earlier approval (`LogOrdered`); no fact is ahead of its document (`NotAhead`). From
   it `LoopTypeCorrect`, `LogSaysWhatIs`, `ApprovalsStand`, `ClosesWereEarned`, `MetForGood`.
12. `ConsoleInvariant` (`ConsoleProofs`). A revision is a number, and a tab rests on it as if it named rows. What it means
   is `Stands`: while the gateway's count is what the revision says, the rows lack nothing that was heard.
   That is so when rows are read after their revision was taken, and it lasts: counts only grow
   while a connection lasts, each connection has a boot of its own, and a count that has not grown
   counted no change its scope hears (`Later`, `StandsOn`). Kept answers stand under the marker in
   their key (`AnswersStand`), reads and pages under the revisions they were served (`ReadsStand`, `PagesStand`), which
   is what lets a stream compare counts alone. A read that waits for another's computation needs that one under way
   (`ReadsHeld`, `AnswersHeld`), and the rows it will be given meet its floor (`FloorsMet`). A check under way is of the hint
   first in its queue unless the queue overflowed since (`StreamsHeld`). The proof of `NothingIsMissed` goes
   by what each step leaves of what a tab has coming (`ComingOn`), of what its stream owes it (`OwesStill`) and of the
   wire (`WireOn`), and by what the greeting of a new stream compares. `NamesScope` came of this proof: without it
   `AnswersStand` is not inductive, since a key that names a person says nothing of whose changes its marker
   counts. From the invariant `ConsoleTyped`, `AnswersFresh`, `NothingMissed`.

Only model-checked: the liveness of uploads and of the console (`SlotsReturn`, `ExpiredBodiesGo`, `TabsCatchUp`). Liveness under fairness is outside the prover's reach.

## 7. Plan

1. *Done:* the document store and its register; every property of it proved, the refinement too.
2. *Done:* uploads, staged, used, expired and swept; liveness of slots and bodies; eight properties proved.
3. *Done:* releases, between the database, the command and the clone; the attempts' register; the
   properties of both proved.
4. *Done:* the control loop, and its properties proved.
5. Review contexts over timestamps (`e.ts` of the transaction's start), `coverageOf` and `gapsOf` as
   functions against a reference definition.
6. *Done:* the console's streams and kept answers. Its safety proved. Left: the event buffer, strandings and
   recovery.
7. Tokens: codes, enrolments, challenges; the team cache.
8. Proofs: of the modules of 5 and 7, with theirs; every safety property of the present runs is proved.

## 8. Not modelled

* The components of section 1 marked so. Events, identity and tokens are small state machines whose hazards are
  worth a module each (plan, 6 and 7); rounds, gates and the next-move search are pure
  rules over immutable rows that only refuse or advise; typed assessments call an external model; host
  jobs, knowledge, journal, search and the console's pages read or write single rows.
* Of the modelled components, what sections 2 and 3 list as left out.
* Hazards listed without a property: what a call reads of other documents outside its transaction, the order of pages by transaction
  start, a deadlock the database resolves by refusing one of two, and events in no team, which no notification tells.
