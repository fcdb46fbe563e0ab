# One Person Lab App: formal models

TLA+ models of the parts of this repository whose correctness depends on the
order of events: the Weixin channel provider, which runs inside the desktop
shell; the release machinery, which changes a public GitHub Release through many
small, fallible calls; and the tools that operators and schedules run around a
release. TLC checks them on small instances; TLAPS proves the safety properties
that the passing runs check, for every value of the constants.

Contents: 1 inventory, 2 plan, 3 the Weixin models, 4 the publication model,
5 the models of the tools around a release, 6 runs, 7 proofs, 8 findings,
9 what is not modelled, 10 how to run.

## 1. Inventory

The repository holds a small amount of run-time code and a large amount of
release code. The desktop shell itself is a submodule and not part of the tree;
contracts, documentation, packaging and validators are texts without state.

| Part | State it keeps | Operations | Interacts with | What is hard | What makes it correct | Modelled |
|---|---|---|---|---|---|---|
| Weixin transport (`packages/opl-channel-weixin/src/provider.ts`, class `WeixinChannelProvider`; `ilink.ts`, `backoff.ts`) | status, abort controller, cursor, consecutive failures, turn subscriptions, terminal tasks | `start`, poll loop, `handleIncoming`, `handleTerminal`, `stop` | iLink server (long poll, `sendmessage`), host (`startThread`, `resumeThread`, `startTurn`, turn events, disposals) | every await interleaves with `stop` and with turn events; callbacks fail; polls fail and back off | one turn and at most one reply per message; `stop` leaves nothing behind and returns; nothing fetched is lost | yes |
| Weixin session (`provider.ts`, class `WeixinInstalledChannelProvider`; QR login of `ilink.ts`) | host lifecycle, login task and its controller, session, revision, projected contribution | `start`, `loginWithQr`, `logout`, `stop`, `readContribution` | host, iLink login API, one transport per login | overlapping logins, logouts and stops, re-attachment, expiry | no transport leaks, one connection, projection backed by something real | yes |
| Release adapter, publication (`scripts/framework-release-adapter-publication*.ts`) | none of its own: the draft/public Release, its files, its notes, `refs/tags/<tag>`, all at GitHub; one attempt id per mutation | inspect, create draft, upload, publish, append Full, patch notes | GitHub through `gh`, the other release jobs | lost replies, killed `gh` whose request still lands, crashes between calls, concurrent jobs, human edits | exactly one build public; publication is never undone; no mutation twice; resumable | yes, see section 4 for what is abstracted |
| Release adapter, Latest pointer (`...-publication-latest.ts`) | GitHub's "latest release" | read Latest, compare, PATCH, read back | Nightly, other activations | compare and set in two calls | Latest moves only from the release the activation was admitted against | yes; the checks of its documents are a precondition |
| Release adapter, plans and bundles (`...-plan.ts`, `...-bundle.ts`, `release-bundle.ts`) | JSON documents | build, validate | publication | none: sequential text | digests bind documents | no |
| Nightly publisher (`nightly-release-publisher.ts`) | tag, draft, release | reserve tag, draft, upload, publish, compensate | GitHub, Latest pointer | compensation racing a late mutation; two reads of Latest around a publication in another concurrency group | a failed run leaves no tag and no draft, a public release keeps its tag | yes |
| Platform followers (`append-stable-desktop-assets.ts`) | files of a public release, its Desktop manifest, staged manifests | admit, upload, stage and promote the manifest; repair of `opl-install.sh` | replacers, Full append | delete and rename are two calls; recovery of another platform's staged manifest | a listed platform stays listed and its files are there | yes |
| Same-tag replacement (`replace-same-tag-release-assets.ts`) | files of a public release, staged files | `--stage`, `--promote` | followers, other replacers | other concurrency group; a command that dies between delete and rename | a name is only absent between two calls, staged bytes are never lost | files yes, the patch of the notes no |
| Dispatch guard and Stable operation control (`release-dispatch-guard*.ts`, `stable-release-dispatch.ts`, `stable-operation-control*.ts`, ...) | GitHub's list of runs, consumed authorities | pre-nonce guard, dispatch once, run-bound guard, consume | workflows, operators | guards read the list and act later; a run that appears late; re-runs | one Stable operation at a time, each consumed once | guards, dispatch and consumption; not the records and the routing |
| WebUI promotion (`webui-stable-promotion*.ts`, `_release-webui-carrier.yml`, `release-webui-stable.yml`) | container tags, records | publish the version, admit, decide, tag, read back | GHCR, the clean-up | two concurrency groups; one command that moves two tags | tags move only from what was admitted to what was admitted | tags and records; not their documents |
| WebUI clean-up (`cleanup-webui-ghcr-versions.ts`) | versions of the container package | list, decide, delete one by one | carriers, promotions | what is kept is known by tag names other code writes | a kept image keeps its record and its platforms | yes |
| Manual installer (`manual-latest-build/install-app.ts`) | install path, staging and backup directories, running app | stage, verify, stop, swap, verify, roll back | macOS | failures at each step and again in the rollback | one working application at the end, or its backup named | `installLocalApp` yes; building the candidate no |
| Homebrew tap (`update-homebrew-tap.ts` and its three followers) | casks on one branch | clone, plan, push, read back | git host, replacers | three followers and no common lock; a push that lands after its job | a commit reverts no other cask and puts no older bytes back | yes |
| Notarisation (`notarize-macos-dmg.ts`, the seal step of `full-first-install-release.yml`) | DMG, candidate, receipt, checkpoint | sign, submit, observe, staple, publish, seal | Apple | an answer lost; a kill between any two steps | nothing is submitted twice on the word of a receipt; what can be finished is finished | yes; the command runner's timers are outcomes |
| Official profile packages (`official-profile-package-apply.ts`) | none: the Framework CLI keeps it | apply one projected action, re-read | Framework CLI | state re-read between actions | the state read back confirms every action that is reported applied | no, see section 9 |
| Installers, notes writers, Full package, validators, docs | files | sequential | - | little | - | no |

## 2. Plan

Order of work, most important behaviour first.

1. `WeixinTransport`, with `MessageRelay` as its abstract specification and
   `WeixinTransportProofs`. Done.
2. `WeixinSession`, with `WeixinSessionProofs`. Done.
3. `ReleasePublication`, with `ReleaseLifecycle` as its abstract specification
   and `ReleasePublicationProofs`. Done for the Standard, resumed and Full jobs.
4. `ReleaseAssets`, the files of one public release; `DesktopAppend` and
   `AssetReplacement`, the two tools that edit it in place; `StableAssets`, their
   composition, with `StableAssetsProofs`. Done.
5. `LatestPointer` and, extending it, `NightlyRelease`, with
   `NightlyReleaseProofs`. Done.
6. `StableDispatch` with `StableDispatchProofs`: one Stable operation. Done.
7. `ManualInstall`, with its part of `MacAppProofs`. Done.
8. `WebUIPromotion` with `WebUIPromotionProofs`, `WebUICleanup`, which composes
   it with the clean-up. Done.
9. `HomebrewTap` and `NotarizeDmg`, with the other parts of `MacAppProofs`. Done.

What could still be added: an abstract specification of the edits of a public release
("a name shows the old or the new bytes, or the new ones wait"), which both tools of
`StableAssets` would implement; and the parts of section 9.

## 3. The Weixin models

The code is single-threaded JavaScript. A step of either model is the
synchronous code between two awaits, which cannot be interrupted; everything
that awaits interleaves. `map` in PROJECT.json names the lines of each action.

### WeixinTransport

State: the provider's `status`, the abort signal, the callback, the cursor, where
the poll loop waits, the consecutive failures and the delay they gave, and for
every message its turn subscription, the one-shot flag of `onTerminal`, its
terminal task and whether that task is tracked. Every `stop()` call has its own
control state, because `stop()` awaits three times and does not exclude a second
call. Four history variables record what was forwarded, taken, sent and
completed.

Messages are numbers. Their payload is one of three kinds, the only distinction
the code makes: answerable text; invalid (`handleIncoming` returns early); and
poison (`messageText` throws, `provider.ts:650`). The environment is the iLink
server, which receives messages in order, and the host, which may answer, fail,
report any terminal event of a turn in any order and repeat them, and finish
disposals when it likes. The server is taken always to send a cursor with its
messages.

`MessageRelay` is what the senders may rely on: messages are taken up in order,
each becomes at most one turn and gets at most one answer, and nothing is taken
up or answered once teardown has begun. `ImplementsRelay` checks that every step
of the provider is a step of it or none.

### WeixinSession

State: the two lifecycles, the three slots `loginTask`, `loginAbortController`
and `sessionDisposable` (which hold a login), `contributionRevision`, the
projection (state, challenge, reason) and a record for every login and every
`logout()` or `stop()` call. A login's transport is reduced to none, running,
stopping and stopped: the interface of `WeixinTransport`.

The event loop matters here. A released promise continuation runs before the next
network answer or timer, so those steps are guarded by `Settled`. `HostCalls`
says when the host may call the provider: `"events"`, when no continuation is
due, or `"jobs"`, even between two of them (the host's own continuations). The
safety run uses the wider one.

## 4. The publication model

`ReleasePublication` has one action for each call of `gh` that a job makes. A
Standard job (`publication-standard.ts`) inspects the release, creates the draft
or tracks the one it finds, uploads the missing files of its Bundle one at a time
and reads each back, asserts the exact set, publishes and reads back. A Full job
(`publication-full-addon.ts`) captures the notes, uploads the Full files, inspects
again and patches the notes. Between any two calls another job, a follower or a
person may act, the job may die, and a mutation whose `gh` was killed by its
timeout may still land (`late`, `Land`, `Drop`).

GitHub is modelled by the behaviour the code relies on, and its definitions are
marked external: an upload without `--clobber` (`Clobbers`) is refused when the
name is taken,
a PATCH acts on a release id, the by-tag endpoint does not show drafts, two drafts
may share a tag. A release is its state, its set of files (name and digest), the
text of its notes (prepared or edited by a person), whether they show the Full
section, and GitHub's immutable flag. `Authorised` stands for a valid publication
record; the validation of that record, of bundles and of plans is text and is
left out, and so is the wording of evidence and receipts.

`Serialized` is the workflows' concurrency group. It does not cover late
mutations, so the safety runs and the proofs do without it.

`ReleaseLifecycle` is the promise about one tag: it becomes public once, with
exactly one build; those files never change; others are only appended; and the
notes announce Full only when its files are there. The model covers the jobs of
the adapter. The same-tag replacement, which exists to change the files of a
public release, is a separate tool with its own admission: `AssetReplacement`
(section 5), not a counterexample to this promise.

## 5. The tools around a release

Each of these programs reads a shared, remote state, decides, and changes it by
one call at a time. The models share one style: a read with every check made on
it is a step, and a mutation is a step with these outcomes: carried out; refused;
carried out or not, with its answer lost; still to be carried out when its caller
is gone (`late`, `stray`, `astray`, `adrift`, `flight`). Two reads with no
mutation between them are one step where the code stops if they differ. A process
may be cancelled or killed between any two steps. Sets such as `FaultyJobs`,
`FaultyRuns` or `LooseFollowers` say who may meet faults. GitHub, GHCR, Apple and
the git host are modelled by what the code relies on; those definitions are marked
external in the map.

`ReleaseAssets` is the set of files of one public release. A name is a pair
<<base, stage>>, because the code makes staged names from a base and a digest; a
digest is the set of what its bytes stand for, so that "the manifest lists the
platform" is membership. `DesktopAppend` has the steps of `append-platform`
(admission, upload of missing files, staged manifest, delete and rename of the
public one, recovery of a staged manifest that someone left) and of the repair of
`opl-install.sh`. These jobs hold one concurrency group. `AssetReplacement` has
`--stage` and `--promote`; its workflow holds another group and an operator holds
none. `StableAssets` lets them act on one release.

`LatestPointer` is `activateLatestCas`: read, compare with the tag the admission
expected, PATCH, read back. `NightlyRelease` extends it with
`publishNightlyRelease`: tag, draft, uploads, publication, the comparison of
Latest before and after, and the compensation with every read it makes.

`StableDispatch` follows one dispatch from an operator's desk to a run: the
pre-nonce guard, the one `gh workflow run`, the moment GitHub lists the run, the
guard inside the run, and the consumption of the operation. A run listed as
requested is not active for the guards, as in the code; an operator may press
re-run.

`ManualInstall` is `installLocalApp`: copy, check, stop the running App, move it to
a backup, move the new one in, verify, launch, and the rollback, every step with
its failure. The App's processes and its user act at any time. There is no lock in the
code, so installers run one after the other or at once; `overlapped` is a history, which
no action reads, of those that swapped Apps while another did.

`WebUIPromotion` names an image by the run that built it, and has the version tag
of a carrier and, pushed after its readback, the record, and the admission, decision, tagging and readback of
a promotion. The moving tags are two writes of one command. `WebUICleanup` adds
the clean-up of the container package and what a run finds when a version it needs
is gone.

`HomebrewTap` has a head, three casks with (version, bytes), and followers that
clone, plan, push once and read back. The bytes a Standard follower puts in a cask
are those it reads from the public release after it cloned; Full reads first, and
what it uses of the release is the updater version of the public manifest.

`NotarizeDmg` is one notarisation from signing to the DMG put in place, its failure
receipt and retained candidate, and the step that seals a checkpoint from them. The
DMG is in place before the receipt says so.

The states of these models are disjoint. `MCReleaseOperators` instantiates all of
them and lets one scene act at a time: `append` (two platforms, one of them with a
job that dies and a job that follows it), `rival` (two builds of one platform),
`repair`, `replace` (a workflow and an operator with different versions),
`shared` (a platform append beside a replacement), `install` (two installers of one
App, both built from the same sources, so that each takes the other's App for its own),
`latest` (two activations), `night` (two invocations for one tag beside an
activation), `dispatch` (two desks and a dispatch by hand), `beside` (a desk, a dispatch
by hand and an append), `rebuild`
and `preview` (carriers and promotions of one version, and of a preview), `tap` (two
Standard followers and Full), `casks` (Standard and two Nightly followers) and
`notary`.

## 6. What the runs show

Numbers are distinct states. All runs use model values or short strings for
identities; deadlock checking is off because jobs, logins and calls are finite
in number, so every instance comes to rest.

### Transport

* `transport_safety` (23 510, symmetric stops): one message of any kind, two
  overlapping `stop()` calls, three consecutive failures, an injected sleep that
  may reject. `StoppedIsQuiet`: whichever stop finishes first, the loop is over,
  no subscription that was tracked survives and no reply is on the wire, even
  when `startTurn` was in flight when the signal was aborted (the second
  `disposeSubscriptions`, `provider.ts:109`, is what makes it true: its mutant
  drops that call). `FinishedTaskReleases`: task and `stop()` race to dispose the
  same subscription, and one of them does. With a base of 2 and a maximum of 5,
  three failures see the base, a doubling and the cap of the backoff.
* `transport_live` (223 659, fair): two messages, one `stop()`, one failure in a
  row. `FetchedTextIsForwarded` and `TextReachesHost`: the cursor moves before
  the batch is handled (`provider.ts:128`), yet no callback failure loses a later
  message; two messages are the least for a batch to have a later one.
  `ReplyDiscipline`: a reply needs the turn's own completed event, taken first.
  An event of another turn that comes first suppresses the reply, which the package's
  README (:38-40) documents and no property denies (a hazard).
  `ImplementsRelay`: see section 3. `StopCompletes`: liveness of teardown.
* `transport_poison`: a finding, section 8.

A rejecting injected sleep ends the loop while the provider still says running
(`provider.ts:145-150`), so `transport_live` excludes it: `SleepMayFail` is
FALSE there. The default sleep only rejects on abort.

### Session

* `session_overlap` (464 441, symmetric): two logins, three `logout()`/`stop()` calls and
  a re-attachment, host calls anywhere. `NoOrphanTransport`: a running transport
  is the session, or its login is about to adopt or discard it. `OneConnection`,
  `RevokedSessionIsClosing`: a superseded login that wins its race is disposed by
  a logout that is already waiting. `ProjectionIsBacked`: what the reader sees is
  backed by something alive, unless a `logout()` that will correct it is still
  under way. Three calls are the least for two of them to wait for one login
  while a third disposes a session.
* `session_live` (203 443, fair): `CallsReturn` and `LoginsEnd` with two overlapping calls.
* `session_teardown`, `session_shown`: findings, section 8.

### Publication

* `publication_overlap` (400 658): two casts of jobs in any interleaving, with
  followers and edits of the notes between any two calls, and requests that are
  lost, late or unread. First cast: three Standard jobs, `s2` with another build
  than `s1` and `s3`, `s3` without a publication record; every mode, any
  pre-existing tag reference, either value of the immutable flag. Two builds and
  three jobs give two drafts of one tag, the case in which uploads by tag and
  checks by id disagree. Second cast: one Standard and two Full jobs with two
  files each. `PublishedIsExact`, `PublishIsChecked` (what `publishDraftRelease`
  asserted is still true when its PATCH lands, however late),
  `PublishedIsSealed`, `CompleteIsTrue` (a verdict of complete was true and stays
  true), `MutationIsAdmitted` (the record is not checked when the inspection shows a
  public release, `publication-standard.ts:298`; the same observation then ends the
  job, :339-352, before any mutation), `SentOnce`, and `ImplementsLifecycle`: the notes
  never announce Full before its files are there.
* `publication_resume` (47 874, fair): two jobs fail at any call, in any of five
  ways, and a third one with the same Bundle, undisturbed and serialised, ends
  complete (`ResumeConverges`). A late mutation is left out here: one that lands
  during the third job rightly makes it stop.

Publication is defended in depth: dropping one guard often breaks nothing,
because the next read notices. The mutants are therefore those single changes
that do break the property, for instance uploading with `--clobber`.

### Tools around a release

`release_operators` (412 187) checks the scenes of section 5. The least that can violate
most of these properties are two actors and one fault; every scene with several actors
has both.

* `ReplacedFileIsBacked`: a replaced name shows its old or a new version, or is
  free while a new version waits under its staged name, whoever dies, is late or
  promotes a rival plan at the same time.
* `PlatformsStay`, `ManifestIsTrue`: a platform the public manifest lists stays
  listed in it or in the staged one that is about to become it, and every listed
  platform's files are up. `ReceiptIsTrue`: the repair's receipt appears over the
  installer it names. Every repair publishes bytes of its own, since one with unchanged
  bytes is refused (`append-stable-desktop-assets.ts:438`); exempt is the receipt of a
  dead repair that is carried out after another repair was admitted to replace its
  installer, which the code cannot prevent. That a repair which dies leaves no installer
  at all is what the code does, and a hazard no property denies.
* `AppendConverges` (fair): the next undisturbed append completes whatever crashed
  before it. It assumes that no request is in flight and that no replacer
  interferes: a staged manifest that appears late blocks later appends.
* `LatestMovesAsAdmitted`: Latest moves only from the tag the moving activation was
  admitted against. It needs the concurrency group, and holds until a PATCH
  outlives its job.
* `PublicKeepsItsTag`: no clean-up takes the tag from a public Nightly, if at most
  one request was carried out late; with two it can (a hazard). `PlainFailureIsClean`:
  an invocation that fails without a clean-up error left neither tag nor release.
  It excludes invocations whose clean-up could not read GitHub, and late requests.
* `OneStableAtATime`: two Stable runs are never past their guard and under way
  together, although each guard reads the list and acts later. `OperationConsumedOnce`:
  an operation is consumed once, unless its run was re-run, which hides it from the
  guard (a hazard).
* `FirstAppSurvives`, `FailureReceiptIsTrue`: the App found at first is at its path or
  in a backup until a successor was verified; the failure receipt says which. Installers
  run at any time. Exempt are only the rollback and the receipt of one whose swap
  overlapped another's: it removes the App at the path, whoever put it there
  (`install-app.ts:367-374`), and may lose the first App.
* `TagsMoveAsAdmitted`: `:stable` and `:latest` move only from the images the acting
  run was admitted against and only to its target, unless a write outlived its step.
  `PromotionConverges` (fair): a run that no other run disturbs succeeds, even after
  one that moved one tag and died. That the version tag may be replaced between
  admission and tagging is what the code does.
* `CasksMoveForward`: a commit changes one cask and reverts no other; under one
  version Standard never takes older bytes and Nightly takes no others. It says
  nothing of a change of version: no plan compares versions, so a follower of an
  older release puts the older version back (a hazard).
* `AdviceIsSafe`: a receipt that advises a new operation was written when Apple had no
  submission, or had refused it.

`webui_cleanup` and `notarize_recovery` are findings, section 8.

Bounds of this run: two public files and one installer, two platforms, two versions,
one re-run of a run, two late Nightly requests (`MaxAstray`), two makings of the files
of a release (`MaxBytes`), two signing attempts (`MaxSigning`; the code makes up to
four, and an attempt differs from another only in being the last).

### Fairness

Weixin: promise continuations run; every long poll and QR request ends within its
own timeout (`ilink.ts`), so the loop and the login always continue; the server
does hand over what it holds (strong fairness, since failures may come between);
host callbacks and disposals settle. The last is an assumption on the host: the
code awaits it without a timeout, and a host that never answers hangs `stop()`.
Nothing is assumed about the host's calls, turn events or the sender.
Release jobs: `gh` and `oras` run under timeouts, so the next step of a job that a
runner has always comes; `AppendConverges` and `PromotionConverges` also take it that
the approval of a deployment environment is given. Starts, crashes, edits, people's
commands and the landing of late requests are not fair.

## 7. What is proved

Constants are constrained only by the named assumptions of the modules: finite
or disjoint sets, positive bounds, the names of a plan. The number of messages,
logins, calls, jobs, runs, files and faults is arbitrary.

`WeixinTransportProofs`: `TypeCorrect`, `RepliesAreEarned`, `TasksRelease`, `StoppedStaysQuiet`,
`FetchedIsForwarded` and the refinement `ProviderRelays`. The invariant says that
the loop only looks past the messages it has handled (`Before`), that a turn belongs
to a message that was forwarded and a reply to a taken terminal event (`Staged`), and
that a `stop()` captures the leftovers only after the loop has ended (`Quiet`). The
refinement follows from the phase of each message. `FetchedIsForwarded` assumes that
no message is poison; with one, the property is false (section 8). `TypeCorrect` needs
the delay of the backoff, which is computed with powers of two; the provers know
nothing of powers, so the theorem names what it uses of them as a hypothesis,
`PowersOfTwo`: those up to 2^52, the exponent at which the code stops, are natural
numbers. That is arithmetic and not an assumption on the code.

`WeixinSessionProofs`: `TypeCorrect`, `NoOrphan`, `SingleConnection`,
`RevokedIsClosing` and `ShownIsBacked`. `NoOrphanTransport` is not inductive: to see that adopting a
transport does not overwrite another session, one needs that a login under way
owns both login slots (`SlotsHeld`), that the session slot is empty while it has
not adopted (`SessionIsOwn`), and that a superseded login has been aborted
(`SupersededIsAborted`). `IInv` is their conjunction with the two properties, and
each action is one step of `NextIInv`. `ShownIsBacked` needs more (`ShownInv`): an
adopted transport is the session while its login returns (`AdoptedIsHeld`), a login
that settled and was not superseded is no longer shown as in progress (`SettledIsShown`), and a `logout()` whose login has settled goes on before a newer login passes its first
request (`LogoutGoesFirst`), which is where the order of promise continuations enters.

`ReleasePublicationProofs`: `TypeCorrect`, `OnlyExactBuildsArePublic`,
`ChecksStayTrue`, `PublicIsForever`, `CompleteStaysTrue`, `JobsFollowLifecycle`,
`NothingTwice` and `OnlyAdmittedMutate`. A release whose Standard part is one build
has no free Standard name, and GitHub refuses a taken name, so nothing that is still
accepted changes that part (`NoFreeName`). Hence "holds one build" is stable, a
publication that was checked stays checked whenever it lands (`PublishIsChecked`), and
a public release stays exact. `Sound` adds what the refinement needs: drafts hold only
Standard files, because Full jobs upload by tag to the public release they saw, and a
pending patch of the notes concerns a release whose Full files were seen. Since a
public release only grows (`Grows`), verdicts stay true. `Frugal` says that a subject is unsent
while its file is on the job's list, and that a job past its inspection was admitted:
the path on which the record is not checked ends there. Neither serialisation nor the
absence of late requests is used, so these guarantees do not depend on the workflows'
concurrency group.

`StableDispatchProofs`: `OneAtATime` and `ConsumedOnce`. A guard looks at the list after
its own run became active (`GuardFollowsStart`), so of two runs the second to pass sees
the first as active, or as an earlier run of its operation (`OnePassesPerOperation`).

`StableAssetsProofs`: `ReplacedFileAlwaysBacked`, `ManifestAlwaysTrue`,
`PlatformsAlwaysStay` and `ReceiptAlwaysTrue`, all from `EditsAlways`. A step of any job
or replacer leaves the release alone, adds a request, or carries one out, at once or
late, and so the invariant `EditsInv` is about the requests that may still be carried
out: each is `Fine`, which relates it to what the release holds. A request to delete a
replaced file is pending only while the new bytes are up (`ItemsBacked`); a public
manifest is about to go only when a staged one lists more, a staged one only when the
public one lists as much, and never both (`PromisesKept`); manifests list builds whose
files are up and which nobody deletes (`ManifestsTrue`). The group keeps its jobs apart but not the requests
they gave up, nor the replacers. The named assumptions say that the files of the platforms, the
replaced files, the manifest, the installer and the receipts have names of their own
(`NamesApart`) and that the release was published with what its manifest lists
(`SeedPublished`). The first is what the code's names are for, but the replacement
accepts any asset name: a plan that replaces a file of a platform is outside the
theorems. `ReceiptAlwaysTrue` needs a second invariant, `RepairsInv`: from the time a
repair has sent its installer until it ends, nothing that is still under way deletes it
(`InstallerSafe`), so a receipt on its way belongs to the installer read back, or to a
repair that is dead and whose bytes another was admitted to replace (`LateReceipts`).

`NightlyReleaseProofs`: `MovesAsAdmitted`, `NightAlways`, `TagStaysWithPublic` and
`PlainFailuresAreClean`. The first is about `LatestPointer` with any number of Nightly
invocations beside it: one activation holds the group, and its comparison still holds
while it patches (`ComparisonHolds`). The others follow from `NightInv`: one invocation is
under way; what it has reserved and created follows from where it is (`Ladder`); while
at most one request was given up, a public release has its tag, and a tag is about to go
only when nothing public and no draft but a late one is there (`TagSafe`); and with none
given up, every draft is known to the invocation that made it (`Traces`). The hypotheses
on late requests are part of the properties (section 6) and needed: with two of them the
tag can be lost.

`MacAppProofs` has the tools for the Mac App. `FirstSurvives` and `ReceiptIsHonest` of
`ManualInstall`, for any number of installers at any time, come from the place of the App
that an installer found in each phase of a swap that has met no other (`Kept`); the first
takes it that there was an App at first.
`CasksOnlyMoveForward` of `HomebrewTap`: the head that a follower cloned names the tree
it cloned, a commit that has not landed is nobody's head, and Standard read the release
after it cloned, so what it writes is at least what it saw (`CaskWasPublic`).
`AdviceAlwaysSafe` of `NotarizeDmg`: a submission exists only after the submit step, from
the wait on its id is known, and only a failure advises (`NotaryInv`).

`WebUIPromotionProofs`: `TagsMoveOnlyAsAdmitted`. One run promotes at a time, and, if
no write is adrift, the tags it still has to move show what it was admitted against
(`AdmissionHolds`).

Only model-checked: every property under fairness, since the prover reaches neither
fairness nor ENABLED (`TextReachesHost`, `StopCompletes`, `CallsReturn`, `LoginsEnd`,
`ResumeConverges`, `AppendConverges`, `PromotionConverges`), and the findings of section 8,
which are counterexamples.

## 8. Findings

Each is a run with one property that TLC violates.

* `transport_poison` (`FetchedTextIsForwarded`): a null entry in `item_list`
  makes `messageText` throw out of the batch loop after the cursor moved; the
  rest of that batch is never forwarded.
* `session_teardown` (`StoppedHasNoAccount`): with two overlapping `stop()` calls
  the second can finish first; after a new `start()` and login the first resumes
  and marks the new attachment stopped, while its login or session lives on.
* `session_shown` (`ActiveSessionIsShown`): `logout()` resets the projection after
  its awaits without testing the revision, so a login accepted meanwhile becomes
  an active session that is shown as disconnected and cannot be disconnected from
  there.
* `webui_cleanup` (`PublicationUnitIsKept`): the clean-up pairs a record with its image
  by the tag `receipt-<version>`, but carriers write `receipt-<version>-<run>-<attempt>`,
  and the manifests of the platforms have candidate tags it does not know. With
  `--execute` it deletes both for images it keeps.
* `notarize_recovery` (`CheckpointIsRecoverable`): the receipt has the plain digest of
  the submitted bytes and the seal compares it with `sha256:` and the digest, so a
  checkpoint that could be finished is always sealed as diagnostic only.

In both session traces the host calls again before an earlier `logout()` or
`stop()` has returned.

## 9. Not modelled

* Documents: bundles, plans, records, requests and receipts are validated and compared
  field by field in many thousands of lines. They are sequential functions of text; in
  the models "valid" is a constant set of authorised jobs, a precondition, or the
  identity of what the document names.
* Parts of modelled components: the reads after a dispatch that only report; the guard
  that compares failure fingerprints; the follow-up router and the release session; the
  dry run of an append; the patch of the notes that may end a replacement; the
  validation of a Nightly request and of WebUI records; building, qualifying and
  pushing of images, candidate tags included; building a candidate of the manual installer.
* `official-profile-package-apply.ts` is one sequential loop that asks the Framework
  CLI for one action at a time and re-reads the state. The state, what an action does
  to it and the exclusion of a second application belong to that CLI, which is outside
  the repository; a model would be about assumptions only.
* Installers are shell scripts around system tools; notes writers and the Full package
  are sequential; validators, contracts and documentation have no state.

Most of the repository's lines are of these kinds, so the models cover a small share
of them; what they cover is where order and failure matter.

## 10. Running

`tlc -config <run>.cfg <module>.tla` with the module and configuration that
PROJECT.json lists for a run: `release_operators` needs about three minutes,
`publication_overlap` two to three, `transport_live` and `session_live` about two,
`session_overlap` one, the others seconds. `tlapm <module>.tla` for the modules named
`...Proofs`: `StableAssetsProofs` needs two to three minutes, `ReleasePublicationProofs` and
`NightlyReleaseProofs` a little more than one, the others less. Operators marked "Bug for
mutation" are not used by the models: each replaces the definition that follows it to
show that a property notices the change.
