# A TLA+ model of Charliecloud

Charliecloud builds and runs containers without privilege.  This directory
holds TLA+ modules that model those parts of it that keep state or meet other
processes, TLC configurations that check them on small instances, and proofs
for TLAPS.  Paths below are relative to the repository.

    tlc -workers 2 -config MCJoin_nofault.cfg MCJoin     # a run
    tlapm JoinProofs.tla                                 # proofs

`PROJECT.json` lists components, runs, mutants (a plausible bug per property
that makes TLC report it), the lines behind every definition, findings, hazards
and theorems.

## 1. Inventory

| Component | State | Operations | What makes it correct | Module |
|---|---|---|---|---|
| `ch-run --join` (`bin/ch_core.c`) | a semaphore and a shared memory segment named after the tag; namespaces | `join_begin`, `join_namespaces`, `join_end` | one container per peer group, nobody stuck, nothing left in `/dev/shm` | Join |
| SquashFS mounting (`bin/ch_fuse.c`) | FUSE mount, two processes, signal flags | `sq_mount`, `sq_fork`, `sq_loop`, `sq_done_request` | image served while the command lives, same exit code, no orphan | Squash |
| Build cache, Git side (`lib/build_cache.py`) | bare repository: ready and unready branches, undelete tags, reflogs; worktrees | `checkout`, `commit`, `ready`, `rollback`, `adopt`, `pull_*`, `branch_delete`, `unpack_delete`, `garbageinate`, `reset`, `find_sid` | a hit gives what executing would have given; a commit sits on its parent; nothing cached is lost | BuildCache |
| Build cache, file metadata (`File_Metadata`, same file) | the image, `ch/git.pickle`, large file storage | `git_prepare`, `git_restore`, `large_*` | what Git cannot store comes back as it was | GitPrepare |
| Image building (`lib/build.py`) | parent instruction, state ID, hash, miss count | `Main_Loop`, `From__G`, `Instruction.prepare/execute/commit/rollback` | executes on its parent; failures leave no trace | ChImage |
| Instructions (`lib/build.py`, metadata of `lib/image.py`) | metadata: variables, directory, shell, labels; `--build-arg` | ARG, ENV, LABEL, SHELL, WORKDIR, RUN, FROM | an image does not depend on what was cached | Dockerfile |
| COPY (`lib/build.py`, `Path.copy`) | the image's files | sources, destination, walk | the documented merge | Copy |
| `import`, `delete`, `undelete`, `build-cache` (`lib/misc.py`) | – | | any order of them keeps the above | ChImage |
| `pull` (`lib/pull.py`, downloads of `lib/registry.py`) | download cache, images | manifest list, manifest, blobs, unpack | what is pulled is what the registry offered | Pull |
| Storage directory (`lib/filesystem.py`) | version, lock, directories, partial downloads | init, upgrade, lock, cleanup, validate, reset | one command at a time; a killed command leaves no debris | Storage |
| Image unpacking (`lib/image.py`, `TarFile` of `lib/filesystem.py`) | layers, unpack directory | validation, whiteouts, links, extraction | result equals applying the layers in order | Layers |
| Registry client (`lib/registry.py`, `lib/push.py`) | authentication object, credentials, session | request with escalation, uploads, history of a pushed image | ends; works for who is entitled; manifest last | Registry |
| `ch-run` setup, `modify`, `--force`, `ch-run-oci`, shell programs, `ch-checkns`, option parsing | see section 7 | | | – |

Interactions.  `containerize` calls `join_begin`, then either sets up
namespaces or joins the winner's, then `join_end`; peers interact only through
the semaphore and the segment.  With a SquashFS image `sq_fork` runs before
`containerize`'s second `setup_namespaces`; parent and child interact through
SIGCHLD, the FUSE mount and `wait`.  `build.py` drives the build cache one
instruction at a time; the cache drives Git by subprocesses and `File_Metadata`
around each of them.  `ch-image` processes meet in the storage directory; the
lock serialises them, so that what one leaves behind (also when it fails or is
killed) is what the next one finds.  Pulls put files into the download cache,
unpack them and hand the image to the build cache.

Hard behaviours: peers in every interleaving, crashing or slow; tags re-used;
signals before their handler is installed; commands stopped between any two
steps; repositories that many earlier commands have shaped; files Git does not
track; storage that is looked at before it is locked; downloads that break off
or are damaged; a registry that changes or demands more authentication between
two requests; instructions whose meaning depends on earlier ones that were
taken from the cache.  Each is a hazard in `PROJECT.json`, at its line.

## 2. Modules and the code

**PeerGroup** is the abstract specification of `--join`: each group has at most
one container, created once, entered only by its own peers.

**Join** is the rendezvous.  `pc` is the place in `join_begin` … `join_end` of
each process, one action per system call that others can see.  Semaphore and
segment *objects* (named by their creator) are kept apart from the *names*
under which they can be opened, since `sem_unlink` and `shm_unlink` remove only
the latter.  `Faults` adds crashes (also while holding the lock), timeouts of
`sem_timedwait_relative`, and user commands that end while peers still join.

**Squash** is a SquashFS container: parent, child, signals, an unmount from
outside.  The three `sigaction` calls are separate steps, so signals arrive
between them.

**BuildCache** has no state of its own: one operator per method of
`Enabled_Cache`, from the storage before to the storage after.  A commit is the
sequence of layers from the root to it, a state ID the sequence of inputs
hashed into it; hashes are thus free of collisions.  `ready`, `unready`, `tag`,
the reflogs and the worktrees are kept apart, because `find_sid` searches
exactly what Git reaches from them.

**ChImage** has the commands as actions: `build` in steps (FROM, prepare,
execute, commit, finish, per instruction), `delete` image by image, the others
in one step each.  Failing, signals and SIGKILL between (and inside) steps are
actions guarded by `Faults`.  What an import brings in is one of `Outcome`, for
its state ID does not depend on it.  The variables of an image stand for
`ch/metadata.json` and `ch/environment` together, and change when an ENV is
committed; the code writes the second of the two files a little earlier.

**GitPrepare** is `File_Metadata`: the recursive walks are recursive functions
over the paths in walk order, on a record per file with type, mode, time, links and escaped
name; `git add`, `git checkout`, `git reset` and `git clean` are modelled by
what they keep of it.  A kill may come between the steps of a commit or a
checkout (`Kill`) and after any path of either walk (`KillPrepare`,
`KillRestore`); `KillAt` says which of these a configuration allows.

**Dockerfile** takes the other view of a build: Git is reduced to a function
from state IDs to what was committed, and the instructions are modelled with
their operands, substitution, and the metadata they change in `prepare` (so on
a hit as on a miss).  The files of an image are the list of RUNs and WORKDIRs
executed on it, each with what it could see: the directory, the shell and those
variables that the command uses (`Uses`).  `Cold` is the reference: the same
instructions without a cache.

**Copy** is `Copy_G`: checks of the sources, `dest_realpath` link by link, then
the walk entry by entry in any order that has directories before their
contents, on both the fast and the slow path of `Path.copy`.  `Copied` is the
merge that `doc/ch-image.rst` describes: all entries of a source at once, one
source after the other.  Links are resolved as the host sees them, since the code
runs there.  At the destination they are followed one after the other, as
`dest_realpath` does; what the operating system follows elsewhere is a single
link in the model, and `DirectAssumption` and `NothingDangles` say that there
are no chains (nor sources named through a link).

**Storage** is class `Storage` with concurrent processes: one action per system
call that another process can notice, before and after the lock is taken.  The
lock file is an inode apart from its name, for reset removes the name.
`--no-lock`, with which there is no exclusion (`doc/ch-image.rst:107` warns of
it), is not modelled.
**Pull** extends it with the work of a command inside: `Image_Puller`, each file
by way of `part_…`, `unlink` and `rename`, with damaged responses and a
registry that changes (`Update`); `LastLayer` has the values of `--last-layer`.  **Mirror** is what it implements: an image
changes only to one that the registry offered for the architecture asked for
at some time during the pull, or is removed on the way.  `M` in Pull is the
refinement mapping; the offers of a pull are a history component of `pull`.

**Registry** is one command at a time against one registry: the requests of a
push, a pull or a build in order, each with the loop of `HTTP.request` and
`Auth.escalate`.  Credentials come from the environment, from the user once for
each HTTP object, or (`--password-many`) from the user every time.  The registry
(external) is a policy: scheme, whether reading is public, whether the user is
known and permitted, and how it words a challenge: the same every time, with an
addition if there was a token, or (`fickle`) never as the time before.
`Broken` (also a 401 without a challenge), `Expire` and `Lose` are faults of it
and of the network.

**Layers** is `Image.unpack`: each pass over all layers is an action
(`layers_open`, `validate_members`, `whiteouts_resolve`), extraction goes
member by member.  Names with `..` are rejected before anything else is looked
at, links after they have been fixed, and what begins with `.git` is ignored
(`GitNames`).  File contents are apart from names, so that hard links share
them.  `Applied` is the reference, one layer after the other with its own
whiteouts.

**MC…** modules give constants values for TLC; **JoinProofs**,
**SquashProofs**, **PullProofs**, **RegistryProofs**, **ChImageProofs**,
**DockerfileProofs**, **GitPrepareProofs** and **CopyProofs** hold the proofs.  Operators called “Mutant” in a comment are not part of the model:
each is a plausible bug that `PROJECT.json` pairs with the property that detects it.

## 3. Runs

| Run | Shows |
|---|---|
| `join_nofault` | two groups (3 and 2 peers) use one tag in turn: mutual exclusion, a set `winner_pid`, an exact count, clean IPC, no error exit, implementation of PeerGroup, everybody reaches its command |
| `join_faults` | 3 peers with all faults: still one container, everybody gets out |
| `squash` | service, exit code, no blocked `wait`, requests honoured, over all signal orders |
| `bc_fail` | three commands of any kind, both cache modes, failing instructions and downloads: commits sit where their state IDs say, hold what their state IDs say, and stay |
| `bc_faults` | five commands on one image with interrupts and kills |
| `git_prepare` | some sixty images, one change, two commits, checkouts, rollbacks, gc, kills between steps and within the walks: all come back as they were |
| `dockerfile` | two builds with any of 26 Dockerfiles, build arguments and environments: images as without a cache |
| `copy` | sources, images and destinations in which every kind of entry meets every other: the documented merge |
| `pull` | two processes, three commands, a kill, a change in the registry, absent, old and dirty storage: exclusion, verified blobs, a complete upgrade, no debris of others, and Pull implements Mirror |
| `pull_cleanup` | **violation**: partial downloads are not deleted but fatal |
| `registry` | three commands against 33 kinds of registries with two faults: no incomplete image, one layer in the history, no failure without a reason, and an end |
| `layers` | up to three layers from about 30 tarballs, with and without `--last-layer` |

*Bounds.*  Three peers give a winner, a loser that waits with it and one that
comes last; two groups give re-use of the tag.  Three `ch-image` commands are
what each interesting history takes (make, disturb, re-use), five let two
disturbances meet; the Dockerfiles of ChImage share a prefix, differ in an ENV,
build on one another and have two stages.  Two outcomes per RUN tell a
re-execution from a hit.  `MountTries` is 2 instead of 5: the loop has no other
state.  GitPrepare's paths have a name in `.git` inside another, a directory
that becomes empty, hard links across directories, and an RPM database.
Dockerfile needs two builds: one to fill the cache, one to be misled by it.
Pull has two processes, as every conflict is between two, and three commands, so
that one can find what the second found of a first that was killed; its two
images share a layer, so that a blob is found in the cache.  Registry has three
commands for a push, a second push of another image over it, and a pull, and
two faults, so that a retry can fail, too.  Layers has three layers, so that a
path can be made, removed and made again, of a different kind each time.

*Deadlock* checking is off where the system really may stop: all processes
ended, or (with bounded commands) nothing left to do.  Copy and Layers stutter
in their final states.

*Assumptions.*  A tag is re-used only when every ch-run of the earlier group
has become its user command or died; what a crashed group leaves in `/dev/shm`
makes the next group with that tag fail, and nothing is claimed of it.  In
ChImage a commit, a pull and an import are one step (their inside is in
GitPrepare and Pull).  Changes to files have a new time stamp (the exception is
documented in `doc/ch-image.rst`).  A FUSE session does not fail by itself.
`ResetAlone`: nobody runs `ch-image reset` beside another command.
`LastLayer = {}` in `pull`: no `--last-layer`.  In
Registry a server answers or the connection fails.  `git_prepare` allows no kill
from the start of a commit's own git_prepare to its `git commit`.  Dockerfiles of the
`dockerfile` run use no variable of an ARG before FROM after it and set no
default variable (`NoLeaks`, which `MCDockerfile` asserts); images of the
`layers` run are `Supported`; those of `copy` satisfy `NothingDangles` where it
says so: each link below the destination leads somewhere, before a source is
copied and after it, and a file named as a source meets a link only on its own
file system.  What happens without these is in section 4.

*Fairness.*  Join: weak fairness of each started process' own next step
(`Step`), which the scheduler guarantees; nothing makes a process start, crash,
time out rather than get the lock, or its command end.  Squash: weak fairness
of the parent and of the child up to its user command; neither signals nor the
end of the command are fair.  Registry: weak fairness of the client, a
sequential program, and of `Send`, which is an assumption on the registry: the
code sets no timeout (`lib/registry.py:583`), so that it waits for ever for one
that accepts a connection and never answers.  `CommandsEnd` also assumes that a
registry which varies its challenges (`fickle`) accepts the tokens that it
issues; without this, finding 2 of section 4 applies.  The other modules have
no liveness property.

## 4. Where code and documentation disagree

The run `pull_cleanup` is the one that is kept as an expected violation.  For
the others the configuration named reproduces the counterexample (`tlc -config
X.cfg M`, M being the name up to the underscore; `Squash` for MCSquash).

1. `lib/filesystem.py:1147` (`pull_cleanup`): `cleanup` unlinks names relative
   to the download cache in another directory, a fatal error; after a download
   that broke off every command but `reset` fails.
2. `lib/registry.py:127` (`MCRegistry_fickle.cfg`, EscalationEnds): two Auth objects
   are equal only if their challenges are, so a registry that varies a field of
   the challenge and refuses every token is asked for ever;
   `lib/registry.py:220-222`: “I’m pretty sure this doesn’t create an infinite
   loop because eventually the token request will fail.”
3. `lib/pull.py:62` (`MCRegistry_asked.cfg`, CredentialsRemembered): credentials are
   kept per HTTP object, so a build that pulls twice asks twice;
   `doc/ch-image.rst:218`: they “are remembered for the life of the process”.
4. `lib/build_cache.py:1082` (`MCPull_partial.cfg`, CachedIsDownloaded): the image
   that `pull --last-layer` left incomplete is committed with the state ID of
   the whole one, and a later pull takes it for “Downloaded image is in cache”
   (`lib/build_cache.py:1058`).
5. `lib/filesystem.py:1238` (`MCPull_reset.cfg`, Exclusive): `reset` takes no
   lock and removes the lock file, so two commands can be in storage together.
6. `lib/pull.py:188` (`MCPull_stale.cfg`, PullsUpToDate): a manifest downloaded
   with `--arch=yolo` stays under the name that a later pull of an
   architecture-unaware image would link, and is used instead of it, although
   `doc/ch-image.rst:60-61` says pull always checks for a newer version.
7. `lib/build.py:1201` (`MCDockerfile_from.cfg`, CacheTransparent): a variable
   of an ARG before FROM can be used after it and is part of no state ID, so
   another `--build-arg` hits the old image; `doc/ch-image.rst:903` says ARG
   causes misses upon definition.
8. `lib/image.py:351` (`MCDockerfile_defaults.cfg`, CacheTransparent):
   `metadata_load` resets the default variables (`PATH`, `TAR_OPTIONS`,
   `FAKEROOTDONTTRYCHOWN`) at each FROM, and no state ID records it: in “FROM b,
   ARG PATH=x, FROM the stage so far, RUN” the RUN has the state ID that it has
   without the second FROM, but sees another `PATH`.  This was met when the
   proof of CacheIsTransparent did not go through without excluding it.
9. `lib/image.py:663` (`MCLayers_root.cfg`, WhiteoutsRemove): a whiteout at the
   top of the image gets the absolute prefix `/name` and removes nothing.
10. `bin/ch_fuse.c:144` (`MCSquash_race.cfg`, ParentFollowsChild): a child that
    ends before the parent has installed its SIGCHLD handler leaves a FUSE
    server that runs for ever.
11. `lib/build_cache.py:1256` (`MCChImage_ready.cfg`, OldBranchRemains): if the
    wanted commit is already checked out, HEAD stays on the *ready* branch, and
    the build's commits move it; `test/build/55_cache.bats:490`: “The old branch
    remains.”
12. `lib/build.py:1200` (`MCChImage_stale.cfg`, EnvFromSid): FROM takes metadata
    from a directory that may be at a different commit than the branch it takes
    the state ID from.
13. `lib/build.py:121` (`MCChImage_commit.cfg`, TreeFromSid): only `execute` is
    rolled back on a signal, so the next build commits leftovers.
    `lib/build_cache.py:810` (`MCGitPrepare_commit.cfg`, RestoresCommit) is the
    same one level down: a kill before `git commit` is done leaves a changed
    image, and the next checkout takes the change along.
14. `lib/build_cache.py:1243` (`MCChImage_delete.cfg`, DeleteWorks): deleting a
    plain directory whose reference is in the cache fails.
15. `lib/build_cache.py:450` (`MCGitPrepare_lossy.cfg`, NeverFatal): a directory
    left empty by deleting RPM databases cannot be restored.

Also met while modelling, without a configuration of their own:

* COPY of a directory or link onto a symbolic link that leads nowhere, as seen
  from the host, is a fatal error (`lib/build.py:889`, `os.path.exists`).  So it
  is onto a link to something in the image that the same COPY has replaced
  before, which depends on the order in which the walk finds the two;
  between file systems a file is written through a link at the destination.
  `doc/ch-image.rst` says the source overwrites the destination.
* A large file that is also hard-linked, or named `.git…`, and a hard-linked
  FIFO do not survive a commit (allow them in `Lossy` of `MCGitPrepare.cfg`).
* A file that a lower layer hard-linked and a higher one overwrites changes
  under both names (`lib/filesystem.py:1425`); hard links inside an enclosing
  directory that is stripped cannot be extracted (`lib/image.py:579-582`); a
  single unusual top directory beside top-level files is fatal;
  `top_dirs.discard(None)` has no effect.
* History lacks the instructions that were hits before the first miss
  (`metadata_update` runs on a miss only).  A `--build-arg` is consumed by the
  first ARG of that name, so a later stage gets its default.  An argument that
  is not consumed makes the build fail after the image was made ready.
* A kill during the very first init leaves a directory that every command
  rejects; the version is read without the lock, also while it is being
  written.
* `registry.py`: an expired token is not replaced if the challenge has not
  changed; a PUT that is repeated after a 401 re-sends a stream that was read.
* Two first commands at once: one of them may fail with “exists and not a
  directory”, as `Path.mkdir` looks before it makes the storage directory
  (`MkRootFatal`).
* Imports: what was built on an earlier import of the same name still hits, as
  `doc/ch-image.rst:1894-1897` warns.
* `push.py:154`: an image without any non-empty history entry cannot be pushed.
* `modify -i` saves metadata that it never loaded, so the image loses its
  environment and labels (`lib/modify.py:108-111`).

## 5. Proofs

`JoinProofs.tla`, for any finite set of processes, any groups and join counts:

* `TypeCorrect` and `Mutex`: `Spec => []TypeOK` and `Spec =>
  []MutualExclusion`, with any faults.  Mutual exclusion is not inductive; the
  invariant `MInv` adds that a process past `sem_open` has an object
  (`SemOpened`), that an object whose creator has not started is fresh
  (`SemFresh`), that an object has value at most one, and zero while somebody
  holds it (`SemBinary`), and that segments are mapped where they are used
  (`ShmMapped`).
* `Rendezvous` (`LosersSeeWinner`), `CountExact` (`CountIsExact`),
  `NobodyFails` (`NoErrorExit`), `CleanAfterwards` (`IPCClean`) and
  `Implements` (the step simulation of PeerGroup), assuming `Faults = {}` and
  that every process is told the true size of its group (`ExactCt`).  Here the
  difficulty is the re-use of names: `FInv` says that groups take turns
  (`InTurn`), that all peers in the protocol use the objects under the current
  names unless they are the last one cleaning up (`OneSem`, `OneShm`,
  `LastPeer`), that a named segment belongs to the active group and to its
  winner (`Winner`, `GroupOfShm`), and that the count is the cardinality of the
  peers still to come, from which follows that only the last one sees zero
  (`DecrementCount`, `MoreToCome`).

The proof of each action of Join is a lemma; those of the counting use
`FiniteSetTheorems`.  Constants are assumed to be what the named ASSUMEs of
`Join.tla` say, and nothing else.

`SquashProofs.tla`, for any number of mount retries, all exit codes that a
process can have (0 to 255, `EXIT_SQUASH` among them) and all signals (1 to 64):
`TypeCorrect`, `Served` (`ServedWhileAlive`), `SameEnd` (`SameExitCode`) and
`NeverBlocks` (`WaitNeverBlocks`).  The invariant `SInv` adds that the recorded
signal has a cause (`RequestHasCause`: SIGCHLD only for a child that has ended,
the end of the loop only for SIGCHLD or a request from outside), which is what
makes the wait after the loop safe, and how the parent got past the loop
(`PastLoop`).  A status is told from an exit code by how the process ended, not
by its number: `CodeOfStatus` and `StatusOfChild` keep the two apart, so that a
command which exits with 128 and more is not taken for one that a signal ended.

`PullProofs.tla`, for any number of processes, destinations, manifests, blobs
and commands, with kills and damaged downloads anywhere:

* `TypeCorrect` (`TypeOK`) and `UpgradeIsComplete` (`UpgradeComplete`) need no
  assumption beyond those of the modules.  `UInv` adds to the types that a
  process that is past the removal of the v6 links in its upgrade has no such
  links before it (`LinksGone`), and that nobody makes new ones.
* `LockExcludes` (`Exclusive`), `DebrisIsOwn` (`OnlyOwnDebris`) and
  `BlobsAreVerified` (`BlobsVerified`) assume `ResetAlone`; run
  `MCPull_reset.cfg` shows what happens without it.  `EInv` says that the lock
  file has one inode that everybody has opened (`SameFile`) and that who is past
  the lock holds it (`Alone`); `DInv` adds what is true of a partial file:
  it belongs to the one process in storage, which has verified it by the time
  it renames it (`PartVerified`), and every name is final or `part_` of one
  (`Names`).
* `PullIsMirror` (`PullsUpToDate`) is the step simulation of Mirror.  `RInv`
  says that a skinny manifest in the cache is a link (`SkinnyIsLink`), that the
  build cache has for a manifest what it says (`CachedGood`), and of each pull
  in progress that what it has read so far was offered during it (`Current`).
  It assumes `ResetAlone`, that `--arch=yolo` is not mixed with other
  architectures for one destination (`ArchApart`; `MCPull_stale.cfg` is the
  counterexample), that `--last-layer` is not used (`LastLayer = {}`;
  `MCPull_partial.cfg`), and one pull per command: a second pull of the same process
  may find the architecture changed by the first one (`ch.arch` is global),
  for which Mirror has no state.

`RegistryProofs.tla`, for any registries (`Policies`), number of layers,
histories, commands and faults:

* `ManifestIsComplete` (`ManifestComplete`).  `MInv` says that what is left of
  the requests is a sequence of whole uploads or begins inside one, with the
  manifest last (`Shape`), and that every blob of the image is in the registry
  or still has its final check ahead (`Covered`).  The lemmas `PushScript` and
  `ReadScript` establish this of the request sequences, for any number of
  layers; `Lose`, a blob that vanishes after its PUT, is harmless because its
  check follows.
* `HistoryHasOneLayer` (`HistoryMatches`), with `LayerCount = 1`, which is what
  push makes of every image: from “prepare” on the history has exactly one
  non-empty entry (`OneLayerFacts`; that there is a last one is `LastExists`, by
  well-foundedness of the subsets of a finite set).
* `FailureHasReason` (`FailsForAReason`).  `GInv` says that the authorization in
  use is one that escalation chose for this registry (`Usable`) and that each
  answer so far is one the command hoped for (`Smooth`): the PUT comes with the
  authorization that its POST was granted with, so that the stream is not read
  twice.  `EscalationGoesOn` is its core: who is entitled and refused gets a
  different authorization, by cases on scheme, mode and scope.

`ChImageProofs.tla`, for any images, Dockerfiles, outcomes and number of
commands:

* `CommitsFollowSids` (`SidIsPath`), `BuildsOnParent` (`WorktreeOnParent`),
  `ReadyIsKept` (`ReadyStaysCached`) and `TypeCorrect`, with any faults.  None
  of them is inductive.  `IInv` says that every branch, tag, reflog and HEAD of
  a worktree leads to `Good` commits, whose state IDs grow by one input from
  layer to layer (`Sound`); that the place in the Dockerfile agrees with what is
  left of it, and the commit reached with the state ID reached (`Place`); that
  from the first miss on the image's HEAD is the commit reached (`OnParent`);
  and that without `--rebuild` there is no hit after a miss (`Fresh`): if a
  state ID was not found, no commit with it is reachable (`Unseen`), and since
  every commit has its ancestors with the shorter state IDs, one that extends it
  is not there either.  That is why the one checkout made for the
  first miss is right for all the instructions after it.  A lemma per operator
  of BuildCache shows what it does to a sound storage, `Keeps` among it: what a
  ready branch reached before is reached after.
* `TreesFollowSids` (`TreeFromSid`) assumes that commands may fail but are
  neither interrupted nor killed; `MCChImage_commit.cfg` is the counterexample
  for an interruption.  A `Good` commit then also is `Faithful` (each layer's
  files are its parent's and one input's), and `InOrder` says what is in a
  directory and not yet committed: nothing in a linked worktree (`Neat`), one
  execution of the current instruction before its commit (`Pending`), and the
  import itself in a directory that `import --no-cache` made.  Rollback after a
  failure is what restores it.
* `RebuildStays` (`RebuiltStays`), if every stage has an instruction.  `OwnInv`
  says that at the end of a build that only hit, the commit reached is the one
  the image's ready branch is at if that has the state ID reached: `find_sid`
  looks there first, and a branch has at most one commit with a state ID
  (`FindsOwn`).

The ASSUMEs of `ChImage.tla` say that Dockerfiles are sequences of stages of
known images, that a Dockerfile instruction is not a pull or an import (which
`state_id` hashes under names of their own), and that `None` is not a value.

`DockerfileProofs.tla`, for any Dockerfiles, build arguments, environments, base
images and number of builds: `CacheIsTransparent` (`CacheTransparent`), if no
instruction of a stage refers to a variable that an ARG before FROM sets, no ARG
sets a default variable (`NoLeaks`), and no command uses one of the former
(`Blind`).  Without them the property is false: findings 7 and 8 of section 4.
The property is about the image that a build ends with; the invariant `IInv` is
about all that is in the cache.

* `Store`: what is at a state ID is a base image, or it `Follows` from what is
  at the state ID without the last input: the metadata are those that this
  input makes of the parent's (`After`), up to the variables a state ID does not
  know (`Hidden`: the magic ones and those of FROM), and the files are what
  executing it made of the parent's.  That an entry depends on the input alone,
  and not on the arguments or the environment of the build that made it, is
  where substitution comes in: operands are substituted before they are hashed.
  `--rebuild` replaces entries under others that follow from them; what it makes
  is alike (`Grows`), so they still do.
* `Linked`: the build under way and the reference `Cold` go side by side.  The
  metadata of the stage agree with the reference except in the variables of
  FROM (`Stage`), the files at the state ID reached are those of the reference,
  and so for each stage that is closed (`Images`).
* `Worktree`: after a miss the worktree has the files at the state ID, and
  nothing in the cache extends the state ID unless everything is being rebuilt.
  The one checkout at the first miss therefore is right for the instructions
  after it.

`GitPrepareProofs.tla`, for any paths, walk order, images, special cases and
number of edits and commits: `LargeFilesAreKept` (`LargeKept`).  The walk of
git_prepare keeps that the large file which the record of a path names, if any,
is in storage (`Good`, by induction over the walk, with a lemma per thing that is
done to a path); nothing it started with is removed.  `LInv` carries this from
the walk to the commit that is made of its pickle, and from there through the
kills, also within the walks, and the garbage collections that follow.

`CopyProofs.tla`, for any names, contexts, images, instructions and files on the
host: `CopyMerges` (`CopyIsMerge`) and `TypeCorrect` (the image is a tree at each
step), from `TreesAssumption` and `InstrsAssumption` of `Copy.tla`, which say
that inputs are file trees with sources in them.  That the model's links are
those of the host needs `DirectAssumption`, which the proofs do not use.

* A part of a source is a set of its entries that has with each entry the
  directory it is in (`IsPart`).  `Merged` says what merging a part gives.
  `WalkMerges` is the core: one more entry, removed first if it clashes and then
  copied as the code does, gives the merge of the part with this entry
  (`MergeStep`), whichever entry comes next.  It needs that `os.path.exists`
  sees what is in the way: a link that leads somewhere both before and after the
  source is merged does so all the time in between (`StillThere`), which is what
  `NothingDangles` is for.
* `Walking` therefore says that there is a part that has been done, that `todo`
  is its `Frontier`, and that the image is the merge of it; when the frontier is
  empty the part is the whole source (`FrontierEnd`).  `Copying` adds what has
  been found of the sources so far.
* The directories of the image agree with the reference even if links dangle
  (`Agrees`), since neither links nor files decide what becomes a directory.
  Whether a file named as a source would have to replace a directory does not
  depend on links then, and every failure has one of the documented reasons.

Both references (`Cold`, `CopyAll`) and the walks are recursive functions.  What
they are is unfolded from their CHOOSE, with the existence of their first j
values shown by induction; the induction is `NatInduct`, whose parameter is the
*set* of the numbers that have the property, from `WFMin` and
`NatLessThanWellFounded`.

Only model-checked: liveness (out of the prover's reach); all properties of Join
with faults other than the two above; `RestoresCommit` and `NeverFatal` of
GitPrepare, which say that one walk over an arbitrary tree inverts another one
with a `git checkout` or `git reset` between two arbitrary trees in between (the
two imply each other, as a walk fails when it finds an image that was not
restored), which would take a characterisation of both walks in full and has not
been done; and `FlattenIsApply` and `LastLayerIsPartial` of Layers.  These would
take an argument like that for COPY, member by member, with inodes that names
share, whiteouts of higher layers that were resolved beforehand, and
`os.path.normpath`, which is a fold, over whose values for every input the
provers cannot reason.

## 6. Abstractions

Names, contents, digests and state IDs are values that are equal only if they
are the same; messages, logging, progress and formatting are left out.  A path
is a sequence of names without `..`.  A value in a Dockerfile is a word or one
reference to a variable.  A layer tarball has at most a handful of members of
each kind.  Bounds are constants whose names begin with Max, or sets given in
the MC modules.

## 7. Not modelled

* `ch-run` setup (`containerize` outside of join, `ch_misc.c`): one process'
  straight-line system calls; the seccomp filter is a table.
* `--force` (`lib/force.py`): tables of distributions, and whether a command
  matches; the only state is that initialisation was done.
* `modify`: non-interactive modes are builds.  The interactive one puts the
  content of a directory onto another commit; BuildCache represents a worktree
  by HEAD and what was added to it, which cannot express files that are missing.
* RSYNC: the work is done by rsync(1).  Dockerfile and reference parsing, option
  parsing and logging have no state.
* `ch-run-oci`, the shell programs and `ch-checkns` are sequential programs
  around external ones.
* Disabled_Cache, other than import; the repair of moved or orphaned worktrees
  in `worktrees_fix`; `configure`, extended attributes and
  reading of old pickles in the build cache.

## 8. Plan

Done: all modules of section 2.  Left, in this order:

1. proofs: `RestoresCommit` and `NeverFatal` of GitPrepare, with the walk
   induction of `GitPrepareProofs`, first for a checkout into a new worktree;
   `FlattenIsApply`, with the fold in Layers written as a recursive function;
2. `branch_delete`'s two `update-ref`s as steps of their own; Disabled_Cache as
   a mode of ChImage; `modify -i`, with worktrees that hold their whole content;
3. Join and Squash composed as `containerize` composes them.
