----------------------------- MODULE Quarantine -----------------------------
(***************************************************************************)
(* Quarantine in userspace/avd/avd.c: quarantine_file(), called by any     *)
(* scan thread that convicts a file, and the QUARANTINE RESTORE and DELETE *)
(* commands of the control socket, on one file path that its users change  *)
(* at the same time.  Each system call is a step, may fail where the code  *)
(* handles that, and may be the last one before the daemon is killed.      *)
(*                                                                         *)
(* A job is one conviction; it names its quarantine entry too (the code    *)
(* takes pid and nanotime for that).  An inode is either a file that a     *)
(* user made, named by its content, or the copy made by a job.  Owners and *)
(* the other lines of the metadata are left out.  A copy that was begun    *)
(* and not finished has the content None.                                  *)
(***************************************************************************)
EXTENDS Integers, FiniteSets

CONSTANTS
    Jobs,      \* scans of the path that end in a conviction
    Commands,  \* connections of the control socket
    Contents,  \* what users put at the path, each once
    None       \* no inode, no metadata, no entry

Inodes == Contents \cup Jobs
Modes == {"user", "0600", "0000"}

\* Only finitely many scans ever begin before any given moment.
ASSUME JobsAssumption == IsFiniteSet(Jobs)
ASSUME NamesAssumption == Contents \cap Jobs = {} /\ None \notin Inodes \cup Modes

VARIABLES
    path, elsewhere,      \* the inode at the path; those with a link of a user's
    copied, mode,         \* per copy: its content; per inode: its mode
    dest, meta,           \* per job: <dest>.quarantined, the mode in its .meta
    pc, fd, origMode,     \* per job: its place, fd, orig_st.st_mode
    cpc, id, cfd, cmode,  \* per command: place, id, qfd, meta.original_mode
    seen,                 \* history, per job: what lstat() found
    made, gone,           \* history: contents that ever came to the path; those
                          \* removed on purpose, or in a race at the path
    restored              \* history: contents a restore has unlocked

jobVars == <<pc, fd, origMode, seen>>
commandVars == <<cpc, id, cfd, cmode>>
fileVars == <<path, elsewhere, copied, mode, dest, meta>>
vars == <<fileVars, jobVars, commandVars, made, gone, restored>>

Init ==
    /\ path = None /\ elsewhere = {}
    /\ copied = [j \in Jobs |-> None] /\ mode = [i \in Inodes |-> "user"]
    /\ dest = [j \in Jobs |-> None] /\ meta = [j \in Jobs |-> None]
    /\ pc = [j \in Jobs |-> "open"]
    /\ fd = [j \in Jobs |-> None] /\ seen = [j \in Jobs |-> None]
    /\ origMode = [j \in Jobs |-> "user"]
    /\ cpc = [o \in Commands |-> "idle"] /\ id = [o \in Commands |-> None]
    /\ cfd = [o \in Commands |-> None] /\ cmode = [o \in Commands |-> "user"]
    /\ made = {} /\ gone = {} /\ restored = {}

Content(i) == IF i \in Jobs THEN copied[i] ELSE i

\* The inode has a directory entry.
Linked(i) == path = i \/ i \in elsewhere \/ \E j \in Jobs : dest[j] = i

-----------------------------------------------------------------------------
(* Users of the path.                                                      *)

UserCreates(c) ==
    /\ path = None /\ c \notin made
    /\ path' = c
    /\ made' = made \cup {c}
    /\ UNCHANGED <<elsewhere, copied, mode, dest, meta, jobVars, commandVars, gone,
                   restored>>

UserUnlinks ==
    /\ path # None
    /\ path' = None
    /\ gone' = gone \cup {Content(path)}
    /\ UNCHANGED <<elsewhere, copied, mode, dest, meta, jobVars, commandVars, made,
                   restored>>

UserRenamesAway ==
    /\ path # None
    /\ path' = None
    /\ elsewhere' = elsewhere \cup {path}
    /\ UNCHANGED <<copied, mode, dest, meta, jobVars, commandVars, made, gone, restored>>

-----------------------------------------------------------------------------
(* A scan that convicts, and quarantine_file().                            *)

Goto(j, place) == pc' = [pc EXCEPT ![j] = place]
JobKeeps == UNCHANGED <<fd, origMode, seen, commandVars, made, gone, restored>>

\* quarantine_file() returns; its locals are no more.
Done(j) ==
    /\ Goto(j, "done")
    /\ origMode' = [origMode EXCEPT ![j] = "user"]
    /\ seen' = [seen EXCEPT ![j] = None]
    /\ UNCHANGED <<fd, commandVars, made, restored>>

\* open() at the start of the scan; from here on the fd stands for the file.
Open(j) ==
    /\ pc[j] = "open" /\ path # None
    /\ fd' = [fd EXCEPT ![j] = path]
    /\ Goto(j, "fstat")
    /\ UNCHANGED <<fileVars, origMode, seen, commandVars, made, gone, restored>>

\* ensure_quarantine_dir(), and the mode to restore later: 0600 if fstat() fails.
Capture(j) ==
    /\ pc[j] = "fstat"
    /\ \E m \in {mode[fd[j]], "0600"} : origMode' = [origMode EXCEPT ![j] = m]
    /\ Goto(j, "link")
    /\ UNCHANGED <<fileVars, fd, seen, commandVars, made, gone, restored>>

\* No directory to put it in, or no copy in it: the file stays where it is.
GiveUp(j) ==
    /\ pc[j] \in {"fstat", "link"}
    /\ Done(j)
    /\ UNCHANGED <<fileVars, gone>>

\* linkat(fd, "", ..., dest, AT_EMPTY_PATH) needs an inode that is still linked.
LinkAt(j) ==
    /\ pc[j] = "link" /\ Linked(fd[j])
    /\ dest' = [dest EXCEPT ![j] = fd[j]]
    /\ Goto(j, "meta")
    /\ JobKeeps /\ UNCHANGED <<path, elsewhere, copied, mode, meta>>

\* linkat() failed: copy_fd_to() makes a new file, which has its name while it
\* is being filled.
StartCopy(j) ==
    /\ pc[j] = "link"
    /\ mode' = [mode EXCEPT ![j] = "0600"]
    /\ dest' = [dest EXCEPT ![j] = j]
    /\ Goto(j, "copy")
    /\ JobKeeps /\ UNCHANGED <<path, elsewhere, copied, meta>>

\* Everything was read from fd and written, be it to a file deleted meanwhile.
FinishCopy(j) ==
    /\ pc[j] = "copy"
    /\ copied' = [copied EXCEPT ![j] = Content(fd[j])]
    /\ Goto(j, "meta")
    /\ JobKeeps /\ UNCHANGED <<path, elsewhere, mode, dest, meta>>

\* Faulty variant: a read() that fails ends the copy like the end of the file.
CopyFailsGoesOn(j) ==
    /\ pc[j] = "copy"
    /\ Goto(j, "meta")
    /\ JobKeeps /\ UNCHANGED fileVars

\* unlink(dest), whose failure nobody looks at.
Discard(j) == dest' \in {dest, [dest EXCEPT ![j] = None]}

\* A read() or write() failed.
CopyFails(j) ==
    /\ pc[j] = "copy"
    /\ Discard(j)
    /\ Done(j)
    /\ UNCHANGED <<path, elsewhere, copied, mode, meta, gone>>

\* A failure is logged, no more.
write_quarantine_meta(j) ==
    /\ pc[j] = "meta"
    /\ \E m \in {origMode[j], None} : meta' = [meta EXCEPT ![j] = m]
    /\ origMode' = [origMode EXCEPT ![j] = "user"]
    /\ Goto(j, "chmod")
    /\ UNCHANGED <<fd, seen, commandVars, made, gone, restored>>
    /\ UNCHANGED <<path, elsewhere, copied, mode, dest>>

Chmod(j) ==
    /\ pc[j] = "chmod" /\ dest[j] # None
    /\ mode' = [mode EXCEPT ![dest[j]] = "0000"]
    /\ Goto(j, "lstat")
    /\ JobKeeps /\ UNCHANGED <<path, elsewhere, copied, dest, meta>>

\* Faulty variant: the original is removed although its copy is not locked.
ChmodFailsGoesOn(j) ==
    /\ pc[j] = "chmod"
    /\ Goto(j, "lstat")
    /\ JobKeeps /\ UNCHANGED fileVars

\* chmod() fails, for want of a file if the entry was deleted meanwhile: the
\* copy is removed and the original stays.
ChmodFails(j) ==
    /\ pc[j] = "chmod"
    /\ Discard(j)
    /\ Done(j)
    /\ UNCHANGED <<path, elsewhere, copied, mode, meta, gone>>

\* Faulty variant: no comparison with fd.
RecheckAnyFile(j) == path # None

\* fstat(fd) and lstat(path) name the same file.
Recheck(j) == path = fd[j]

BeforeUnlink(j) ==
    /\ pc[j] = "lstat" /\ Recheck(j)
    /\ Goto(j, "unlink")
    /\ seen' = [seen EXCEPT ![j] = path]
    /\ UNCHANGED <<fileVars, fd, origMode, commandVars, made, gone, restored>>

\* Another file is at the path, or one of the calls failed.
Refuse(j) ==
    /\ pc[j] = "lstat"
    /\ Done(j)
    /\ UNCHANGED <<fileVars, gone>>

\* unlink(path) takes whatever is there by now, or fails.
Unlink(j) ==
    /\ pc[j] = "unlink"
    /\ path' \in {path, None}
    /\ gone' = IF path' # path /\ path # seen[j] THEN gone \cup {Content(path)} ELSE gone
    /\ Done(j)
    /\ UNCHANGED <<elsewhere, copied, mode, dest, meta>>

-----------------------------------------------------------------------------
(* cmd_quarantine_restore() and cmd_quarantine_delete().                   *)

Turn(o, place) == cpc' = [cpc EXCEPT ![o] = place]

\* The command returns; its locals are no more.
Reply(o) ==
    /\ Turn(o, "idle")
    /\ id' = [id EXCEPT ![o] = None]
    /\ cfd' = [cfd EXCEPT ![o] = None]
    /\ cmode' = [cmode EXCEPT ![o] = "user"]
    /\ UNCHANGED <<jobVars, made, gone, restored>>

\* read_quarantine_meta() finds the entry's metadata.
HasMeta(j) == meta[j] # None

\* Without metadata there is no restore.
Restore(o, j) ==
    /\ cpc[o] = "idle" /\ HasMeta(j)
    /\ id' = [id EXCEPT ![o] = j]
    /\ cmode' = [cmode EXCEPT ![o] = meta[j]]
    /\ Turn(o, "open")
    /\ UNCHANGED <<fileVars, jobVars, cfd, made, gone, restored>>

\* open(dest, O_RDONLY | O_NOFOLLOW)
OpenEntry(o) ==
    /\ cpc[o] = "open" /\ dest[id[o]] # None
    /\ cfd' = [cfd EXCEPT ![o] = dest[id[o]]]
    /\ Turn(o, "lstat")
    /\ UNCHANGED <<fileVars, jobVars, id, cmode, made, gone, restored>>

\* lstat(meta.original_path) finds nothing.
BeforeRename(o) ==
    /\ cpc[o] = "lstat" /\ path = None
    /\ Turn(o, "fchmod")
    /\ UNCHANGED <<fileVars, jobVars, id, cfd, cmode, made, gone, restored>>

\* fchmod() on the open entry; fchown() only concerns the owner.
Fchmod(o) ==
    /\ cpc[o] = "fchmod"
    /\ mode' = [mode EXCEPT ![cfd[o]] = cmode[o]]
    /\ restored' = restored \cup {Content(cfd[o])}
    /\ Turn(o, "rename")
    /\ UNCHANGED <<path, elsewhere, copied, dest, meta, jobVars, id, cfd, cmode, made,
                   gone>>

\* rename(dest, original_path) replaces what came to the path since lstat().
\* It does nothing if that is the same inode.
Rename(o) ==
    LET d == dest[id[o]] IN
    /\ cpc[o] = "rename" /\ d # None
    /\ IF d = path THEN UNCHANGED <<path, dest, gone>>
       ELSE /\ path' = d
            /\ dest' = [dest EXCEPT ![id[o]] = None]
            /\ gone' = IF path = None THEN gone ELSE gone \cup {Content(path)}
    /\ Turn(o, "unlinkMeta")
    /\ UNCHANGED <<elsewhere, copied, mode, meta, jobVars, id, cfd, cmode, made, restored>>

\* The path is occupied, or open(), fchmod() or rename() fails, for want of
\* dest if it was deleted.
RestoreFails(o) ==
    /\ cpc[o] \in {"open", "lstat", "fchmod", "rename"}
    /\ Reply(o)
    /\ UNCHANGED fileVars

\* unlink(dest); that there is none is not an error.
Delete(o, j) ==
    /\ cpc[o] = "idle"
    /\ id' = [id EXCEPT ![o] = j]
    /\ dest' = [dest EXCEPT ![j] = None]
    /\ gone' = gone \cup ({Content(dest[j])} \cap Contents)
    /\ Turn(o, "unlinkMeta")
    /\ UNCHANGED <<path, elsewhere, copied, mode, meta, jobVars, cfd, cmode, made, restored>>

UnlinkMeta(o) ==
    /\ cpc[o] = "unlinkMeta"
    /\ meta' = [meta EXCEPT ![id[o]] = None]
    /\ Reply(o)
    /\ UNCHANGED <<path, elsewhere, copied, mode, dest>>

\* The daemon is killed: what is on disk stays as it is.
Crash ==
    /\ pc' = [j \in Jobs |-> IF pc[j] = "open" THEN "open" ELSE "done"]
    /\ origMode' = [j \in Jobs |-> "user"] /\ seen' = [j \in Jobs |-> None]
    /\ cpc' = [o \in Commands |-> "idle"] /\ id' = [o \in Commands |-> None]
    /\ cfd' = [o \in Commands |-> None] /\ cmode' = [o \in Commands |-> "user"]
    /\ UNCHANGED <<fileVars, fd, made, gone, restored>>

-----------------------------------------------------------------------------
User == (\E c \in Contents : UserCreates(c)) \/ UserUnlinks \/ UserRenamesAway

quarantine_file(j) ==
    \/ Capture(j) \/ GiveUp(j) \/ LinkAt(j)
    \/ StartCopy(j) \/ FinishCopy(j) \/ CopyFails(j)
    \/ write_quarantine_meta(j) \/ Chmod(j) \/ ChmodFails(j)
    \/ BeforeUnlink(j) \/ Refuse(j) \/ Unlink(j)

Command(o) ==
    \/ \E j \in Jobs : Restore(o, j) \/ Delete(o, j)
    \/ OpenEntry(o) \/ BeforeRename(o) \/ Fchmod(o) \/ Rename(o) \/ RestoreFails(o)
    \/ UnlinkMeta(o)

Next ==
    \/ User
    \/ \E j \in Jobs : Open(j) \/ quarantine_file(j)
    \/ \E o \in Commands : Command(o)
    \/ Crash

Spec == Init /\ [][Next]_vars

-----------------------------------------------------------------------------
(* Properties.                                                             *)

\* Every variable has its type.
TypeOK ==
    /\ path \in Inodes \cup {None} /\ elsewhere \subseteq Inodes
    /\ copied \in [Jobs -> Contents \cup {None}] /\ mode \in [Inodes -> Modes]
    /\ dest \in [Jobs -> Inodes \cup {None}] /\ meta \in [Jobs -> Modes \cup {None}]
    /\ pc \in [Jobs -> {"open", "fstat", "link", "copy", "meta", "chmod", "lstat", "unlink",
                        "done"}]
    /\ fd \in [Jobs -> Inodes \cup {None}] /\ seen \in [Jobs -> Inodes \cup {None}]
    /\ origMode \in [Jobs -> Modes]
    /\ cpc \in [Commands -> {"idle", "open", "lstat", "fchmod", "rename", "unlinkMeta"}]
    /\ id \in [Commands -> Jobs \cup {None}] /\ cfd \in [Commands -> Inodes \cup {None}]
    /\ cmode \in [Commands -> Modes]
    /\ made \subseteq Contents /\ gone \subseteq Contents /\ restored \subseteq Contents

\* Whatever users do to the path while a file is scanned, and wherever the
\* daemon is killed, the entry holds what was scanned: a mismatch never means
\* "that the wrong content got quarantined" (comment of quarantine_file()).
\* The one exception is a copy in the making or cut short.  It has no metadata,
\* so that no restore ever hands it out, and its job does not go on.
Short(j) == dest[j] = j /\ copied[j] = None
RightContent ==
    /\ \A j \in Jobs :
          dest[j] # None =>
              \/ fd[j] # None /\ Content(dest[j]) = Content(fd[j])
              \/ Short(j) /\ meta[j] = None /\ pc[j] \in {"copy", "done"}
    /\ \A i \in elsewhere \cup ({path} \ {None}) : Content(i) # None

\* The daemon never destroys the last link to a content, over failures of any
\* of its steps and crashes between them, unless a user or a DELETE removed one
\* of its links before, or it came to the path between the last look at it and
\* the unlink() or rename() that follows.
NothingLost ==
    \A c \in made \ gone : \E i \in Inodes : Linked(i) /\ Content(i) = c

\* A job removes the file it convicted only when the whole of it is in
\* quarantine and nobody can read or execute it there, unless a command has
\* since been given for it.
Locked(j) ==
    dest[j] # None /\ mode[dest[j]] = "0000" /\ Content(dest[j]) = Content(fd[j])
LockedBeforeRemoved ==
    [][\A j \in Jobs :
          (pc[j] = "unlink" /\ pc'[j] = "done" /\ path = fd[j] /\ path' = None)
              => \/ Content(fd[j]) \in gone \cup restored
                 \/ Locked(j)]_vars

\* "No clobbering - if something already occupies the original path, refuse"
\* (comment of cmd_quarantine_restore()): a restore replaces no other file.
RestoreReplacesNothing ==
    [][\A o \in Commands :
          cpc[o] = "rename" /\ cpc'[o] = "unlinkMeta" => path \in {None, dest[id[o]]}]_vars

\* The inductive invariant behind RightContent: what is no finished copy has no
\* name but its entry and is open nowhere, an entry gets its metadata when it is
\* whole, and a restore works on an entry that had some.
CopyInv ==
    \A j \in Jobs :
        copied[j] = None => /\ path # j /\ j \notin elsewhere
                            /\ \A k \in Jobs : fd[k] # j /\ (dest[k] = j => k = j)
                            /\ \A o \in Commands : cfd[o] # j
StageInv ==
    /\ \A j \in Jobs :
          /\ pc[j] \in {"open", "fstat", "link"} => dest[j] = None
          /\ pc[j] \in {"open", "fstat", "link", "copy"} => copied[j] = None /\ meta[j] = None
          /\ pc[j] = "copy" => dest[j] \in {j, None}
          /\ pc[j] # "open" => fd[j] # None
    /\ \A o \in Commands :
          /\ cpc[o] # "idle" => id[o] # None
          /\ cpc[o] \in {"open", "lstat", "fchmod", "rename"} =>
                ~Short(id[o]) /\ pc[id[o]] \notin {"open", "fstat", "link", "copy"}
          /\ cpc[o] \in {"lstat", "fchmod", "rename"} => cfd[o] # None
IInv == TypeOK /\ CopyInv /\ StageInv /\ RightContent

\* What is open or has a name came to the path at some time; a job about to
\* unlink has seen its file there; a command has opened the entry it names.
TraceInv ==
    /\ \A i \in Inodes : path = i \/ i \in elsewhere => Content(i) \in made
    /\ \A j \in Jobs : /\ fd[j] # None => Content(fd[j]) \in made
                       /\ pc[j] = "unlink" => seen[j] = fd[j]
    /\ \A o \in Commands :
          cpc[o] \in {"lstat", "fchmod", "rename"} =>
              /\ dest[id[o]] \in {cfd[o], None}
              /\ cpc[o] = "rename" => Content(cfd[o]) \in restored

\* Behind LockedBeforeRemoved: from the chmod() on the entry is there and
\* locked, until a command is given for it.
LockInv ==
    \A j \in Jobs :
        pc[j] \in {"lstat", "unlink"} =>
            \/ Content(fd[j]) \in gone \cup restored
            \/ Locked(j)

\* Behind NothingLost: unless a user keeps it elsewhere, the links of a content
\* that no failure can take back (the path, and the entries past chmod())
\* outnumber the jobs that may still unlink the path for it.
Kept(c) ==
    {j \in Jobs : /\ dest[j] # None /\ Content(dest[j]) = c
                 /\ pc[j] \in {"lstat", "unlink", "done"}}
Removing(c) == {j \in Jobs : pc[j] \in {"lstat", "unlink"} /\ Content(fd[j]) = c}
AtPath(c) == IF path # None /\ Content(path) = c THEN 1 ELSE 0
Enough(c) ==
    \/ \E i \in elsewhere : Content(i) = c
    \/ Cardinality(Kept(c)) + AtPath(c) > Cardinality(Removing(c))
LinkInv == \A c \in made \ gone : Enough(c)

FullInv == IInv /\ TraceInv /\ LockInv /\ LinkInv
=============================================================================
