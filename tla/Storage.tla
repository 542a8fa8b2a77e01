------------------------------- MODULE Storage -------------------------------
(***************************************************************************)
(* The storage directory of ch-image (class Storage of lib/filesystem.py): *)
(* how concurrent ch-image processes find, create, upgrade, lock, validate *)
(* and reset it, and what a killed one leaves behind.  One action per      *)
(* system call (or run of system calls under the lock) that another        *)
(* process can notice.                                                     *)
(***************************************************************************)
EXTENDS Naturals, Sequences

CONSTANTS Proc,         \* places in which a ch-image process can run
          ResetAlone,   \* TRUE: nobody runs "reset" beside another command
          MaxCommands,  \* bound on commands started
          MaxKills      \* bound on processes killed

ASSUME StorageAssumption ==
    /\ ResetAlone \in BOOLEAN
    /\ MaxCommands \in Nat
    /\ MaxKills \in Nat

STORAGE_VERSION == 7
NoVersion == 0     \* v_found is None: there is no storage directory
Torn == 9          \* a version file that is empty: opened but not yet written
\* In the order init makes them; "bucache" stands for bucache and bularge.
Dirs == <<"dlcache", "bucache", "img", "ulcache">>
DirSet == {Dirs[i] : i \in 1 .. 4}
Entry == DirSet \cup {"version", "lock", "imgtmp"}

VARIABLES root,      \* does the directory exist?
          dir,       \* its entries
          version,   \* content of the version file
          dl,        \* files of dlcache: name -> content
          ino,       \* inode of the file called "lock"
          inodes,    \* number of lock files ever made
          pc,        \* where each process is
          cmd,       \* what each process was told to do
          found,     \* its v_found
          fp,        \* the inode its lockfile_fp is open on, 0 if none
          holds,     \* the processes whose lock was granted
          mk,        \* directories its init has made
          rm,        \* entries its rmtree has still to remove
          commands, kills

procVars == <<pc, cmd, found, fp, holds, mk, rm>>
storageVars == <<root, dir, version, dl, ino, inodes, procVars, commands, kills>>

\* The processes that have the lock and are using the storage directory.
Inside == {"mkdir", "links", "vopen", "vwrite", "strict", "cleanup", "work"}

\* A file of dlcache has a name n with n.part if it is called "part_...", and
\* a content c with c.k = "link" if it is a symbolic link and c.k = "badlink"
\* if it is one of the absolute links of storage v6.
Without(files, gone) == [n \in DOMAIN files \ gone |-> files[n]]
LinksOf(files) == {n \in DOMAIN files : files[n].k \in {"link", "badlink"}}

\* Storage directories ch-image may find: none, or one of version v in which
\* an earlier command was killed while it downloaded or renamed an image.
Found(v, files, tmp) ==
    /\ root = TRUE
    /\ dir = DirSet \cup {"version", "lock"} \cup tmp
    /\ version = v /\ dl = files /\ ino = 1 /\ inodes = 1

Absent == /\ root = FALSE /\ dir = {} /\ version = NoVersion /\ dl = << >>
          /\ ino = 0 /\ inodes = 0

ProcInit == /\ pc = [p \in Proc |-> "idle"] /\ cmd = [p \in Proc |-> "use"]
            /\ found = [p \in Proc |-> NoVersion]
            /\ fp = [p \in Proc |-> 0] /\ holds = {}
            /\ mk = [p \in Proc |-> 0] /\ rm = [p \in Proc |-> {}]
            /\ commands = 0 /\ kills = 0

Fs == <<root, dir, version, dl, ino, inodes>>

Go(p, l) == pc' = [pc EXCEPT ![p] = l]

\* The process ends, also by ch.FATAL: its files are closed and its lock is
\* gone.
Gone(p) == /\ Go(p, "idle")
           /\ cmd' = [cmd EXCEPT ![p] = "use"]
           /\ found' = [found EXCEPT ![p] = NoVersion]
           /\ fp' = [fp EXCEPT ![p] = 0]
           /\ holds' = holds \ {p}
           /\ mk' = [mk EXCEPT ![p] = 0]
           /\ rm' = [rm EXCEPT ![p] = {}]
           /\ UNCHANGED <<Fs, commands>>

Ends(p) == Gone(p) /\ UNCHANGED kills

\* main() of ch-image: every command but reset initializes storage first.
Start(p, c) ==
    /\ pc[p] = "idle" /\ commands < MaxCommands
    /\ ResetAlone => \A q \in Proc : /\ c = "reset" => pc[q] = "idle"
                                     /\ cmd[q] = "reset" => pc[q] = "idle"
    /\ commands' = commands + 1
    /\ cmd' = [cmd EXCEPT ![p] = c]
    /\ Go(p, IF c = "reset" THEN "reset" ELSE "init")
    /\ UNCHANGED <<Fs, found, fp, holds, mk, rm, kills>>

valid_p == root /\ {"img", "dlcache"} \subseteq dir

\* init: is there a directory, and does it look like storage?
Look(p) ==
    /\ pc[p] = "init" /\ (root => valid_p)
    /\ Go(p, IF root THEN "version" ELSE "mkroot")
    /\ found' = [found EXCEPT ![p] = NoVersion]
    /\ UNCHANGED <<Fs, cmd, fp, holds, mk, rm, commands, kills>>

LookFatal(p) == pc[p] = "init" /\ root /\ ~valid_p /\ Ends(p)

version_read == IF "version" \in dir THEN version ELSE 1

\* Mutant: a version that nothing can be done about is taken for an old one.
VersionAny(p) ==
    /\ pc[p] = "version"
    /\ found' = [found EXCEPT ![p] = version_read]
    /\ Go(p, IF version_read = STORAGE_VERSION THEN "open" ELSE "mkroot")
    /\ UNCHANGED <<Fs, cmd, fp, holds, mk, rm, commands, kills>>

\* init: read the version, without the lock.
Version(p) ==
    /\ pc[p] = "version" /\ version_read \in {6, STORAGE_VERSION}
    /\ found' = [found EXCEPT ![p] = version_read]
    /\ Go(p, IF version_read = STORAGE_VERSION THEN "open" ELSE "mkroot")
    /\ UNCHANGED <<Fs, cmd, fp, holds, mk, rm, commands, kills>>

VersionFatal(p) ==
    pc[p] = "version" /\ version_read \notin {6, STORAGE_VERSION} /\ Ends(p)

\* Path.mkdir: makes the directory unless it is there ...
MkRoot(p) ==
    /\ pc[p] = "mkroot" /\ Go(p, "open")
    /\ root' = TRUE
    /\ mk' = [mk EXCEPT ![p] = 0]
    /\ UNCHANGED <<dir, version, dl, ino, inodes, cmd, found, fp, holds, rm,
                   commands, kills>>

\* ... or another process makes it between the look and os.mkdir.
MkRootFatal(p) == pc[p] = "mkroot" /\ found[p] = NoVersion /\ root /\ Ends(p)

\* Mutant: the lock file is replaced, not opened.
LockOpenFresh(p) ==
    /\ pc[p] = "open" /\ root /\ Go(p, "lockf")
    /\ dir' = dir \cup {"lock"}
    /\ ino' = inodes + 1 /\ inodes' = inodes + 1
    /\ fp' = [fp EXCEPT ![p] = ino']
    /\ UNCHANGED <<root, version, dl, cmd, found, holds, mk, rm, commands, kills>>

\* lock: open the lock file, creating it if there is none.  (With --no-lock
\* there is no lock at all; that option is not modelled.)
LockOpen(p) ==
    /\ pc[p] = "open" /\ root /\ Go(p, "lockf")
    /\ dir' = dir \cup {"lock"}
    /\ IF "lock" \in dir THEN UNCHANGED <<ino, inodes>>
                         ELSE ino' = inodes + 1 /\ inodes' = inodes + 1
    /\ fp' = [fp EXCEPT ![p] = ino']
    /\ UNCHANGED <<root, version, dl, cmd, found, holds, mk, rm, commands, kills>>

\* lock: POSIX lock the open file, without waiting.
LockF(p) ==
    /\ pc[p] = "lockf" /\ \A q \in holds : fp[q] # fp[p]
    /\ holds' = holds \cup {p}
    /\ Go(p, IF found[p] = STORAGE_VERSION THEN "strict" ELSE "mkdir")
    /\ UNCHANGED <<Fs, cmd, found, fp, mk, rm, commands, kills>>

LockFatal(p) ==
    /\ \/ pc[p] = "open" /\ ~root
       \/ pc[p] = "lockf" /\ \E q \in holds : fp[q] = fp[p]
    /\ Ends(p)

\* Mutant: the links of v6 are not removed.
MkDirNoLinks(p) ==
    /\ pc[p] = "mkdir" /\ root
    /\ dir' = dir \cup {Dirs[mk[p] + 1]}
    /\ mk' = [mk EXCEPT ![p] = @ + 1]
    /\ Go(p, IF mk[p] = 3 THEN "vopen" ELSE "mkdir")
    /\ UNCHANGED <<root, version, dl, ino, inodes, cmd, found, fp, holds, rm,
                   commands, kills>>

\* init: the directories, one after the other.
MkDir(p) ==
    /\ pc[p] = "mkdir" /\ root
    /\ dir' = dir \cup {Dirs[mk[p] + 1]}
    /\ mk' = [mk EXCEPT ![p] = @ + 1]
    /\ Go(p, IF mk[p] = 3 THEN "links" ELSE "mkdir")
    /\ UNCHANGED <<root, version, dl, ino, inodes, cmd, found, fp, holds, rm,
                   commands, kills>>

\* init: upgrading v6 removes all symbolic links of dlcache.
UpgradeLinks(p) ==
    /\ pc[p] = "links" /\ Go(p, "vopen")
    /\ dl' = IF found[p] = 6 THEN Without(dl, LinksOf(dl)) ELSE dl
    /\ UNCHANGED <<root, dir, version, ino, inodes, cmd, found, fp, holds, mk,
                   rm, commands, kills>>

\* file_write: open truncates, and the text arrives later.
VersionWrite(p) ==
    /\ pc[p] \in {"vopen", "vwrite"} /\ root
    /\ dir' = dir \cup {"version"}
    /\ version' = IF pc[p] = "vopen" THEN Torn ELSE STORAGE_VERSION
    /\ Go(p, IF pc[p] = "vopen" THEN "vwrite" ELSE "strict")
    /\ UNCHANGED <<root, dl, ino, inodes, cmd, found, fp, holds, mk, rm,
                   commands, kills>>

StrictOK == /\ root /\ DirSet \cup {"version"} \subseteq dir
            /\ version = STORAGE_VERSION

\* validate_strict: also deletes what an interrupted worktree_adopt left.
Strict(p) ==
    /\ pc[p] = "strict" /\ StrictOK /\ Go(p, "cleanup")
    /\ dir' = dir \ {"imgtmp"}
    /\ UNCHANGED <<root, version, dl, ino, inodes, cmd, found, fp, holds, mk,
                   rm, commands, kills>>

\* The directory has gone (a reset beside us), or something is missing.
InsideFatal(p) ==
    /\ \/ pc[p] \in {"mkdir", "vopen", "vwrite"} /\ ~root
       \/ pc[p] = "strict" /\ ~StrictOK
    /\ Ends(p)

\* cleanup: partial downloads are to be deleted, but Path.glob returns names
\* relative to dlcache, which are not there in the directory ch-image runs in.
Partials == {n \in DOMAIN dl : n.part}

\* Mutant: what the last command left is ignored.
cleanupNothing(p) ==
    /\ pc[p] = "cleanup" /\ Go(p, "work")
    /\ UNCHANGED <<Fs, cmd, found, fp, holds, mk, rm, commands, kills>>

cleanup(p) ==
    /\ pc[p] = "cleanup" /\ Partials = {} /\ Go(p, "work")
    /\ UNCHANGED <<Fs, cmd, found, fp, holds, mk, rm, commands, kills>>

CleanupFatal(p) == pc[p] = "cleanup" /\ Partials # {} /\ Ends(p)

\* reset: rmtree lists the directory, removes what it listed, then the
\* directory itself, and calls init.  It does not take the lock.
Reset(p) ==
    /\ pc[p] = "reset" /\ valid_p /\ Go(p, "rm")
    /\ rm' = [rm EXCEPT ![p] = dir]
    /\ UNCHANGED <<Fs, cmd, found, fp, holds, mk, commands, kills>>

ResetRemove(p) ==
    /\ pc[p] = "rm"
    /\ \E x \in rm[p] \cap dir :
         /\ dir' = dir \ {x}
         /\ rm' = [rm EXCEPT ![p] = @ \ {x}]
         /\ dl' = IF x = "dlcache" THEN << >> ELSE dl
    /\ UNCHANGED <<root, version, ino, inodes, pc, cmd, found, fp, holds, mk,
                   commands, kills>>

ResetRmdir(p) ==
    /\ pc[p] = "rm" /\ rm[p] = {} /\ root /\ dir = {} /\ Go(p, "init")
    /\ root' = FALSE
    /\ UNCHANGED <<dir, version, dl, ino, inodes, cmd, found, fp, holds, mk,
                   rm, commands, kills>>

ResetFatal(p) ==
    /\ \/ pc[p] = "reset" /\ ~valid_p
       \/ pc[p] = "rm" /\ rm[p] \ dir # {}
       \/ pc[p] = "rm" /\ rm[p] = {} /\ (~root \/ dir # {})
    /\ Ends(p)

\* SIGKILL, an out-of-memory kill or a node crash.
Kill(p) == /\ pc[p] # "idle" /\ kills < MaxKills
           /\ kills' = kills + 1 /\ Gone(p)

StorageStep(p) ==
    \/ \E c \in {"use", "reset"} : Start(p, c)
    \/ Look(p) \/ LookFatal(p) \/ Version(p) \/ VersionFatal(p)
    \/ MkRoot(p) \/ MkRootFatal(p) \/ LockOpen(p) \/ LockF(p) \/ LockFatal(p)
    \/ MkDir(p) \/ UpgradeLinks(p) \/ VersionWrite(p)
    \/ Strict(p) \/ InsideFatal(p) \/ cleanup(p) \/ CleanupFatal(p)
    \/ Reset(p) \/ ResetRemove(p) \/ ResetRmdir(p) \/ ResetFatal(p)
    \/ Kill(p)
=============================================================================
