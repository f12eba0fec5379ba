---------------------------- MODULE ArchiveCache ----------------------------
(***************************************************************************)
(* The store of unpacked archive members (dos/archive/archive_cache.cpp,   *)
(* archive_lock.cpp, archive_toml.cpp, archive_reader.cpp), which several  *)
(* engines, processes that may die at any point, share through the file    *)
(* system alone.                                                           *)
(*                                                                         *)
(* Each archive has an entry: a directory with a record of its last use,   *)
(* the unpacked members and a lock file.  A mount holds the lock shared, a *)
(* clean-up takes it exclusively, moves the entry to the trash and deletes *)
(* it there.  Every call of the file system that another engine can tell   *)
(* from the next is a step.  A lock belongs to the file that was opened,   *)
(* all else goes by the path: directories are objects here, and live says  *)
(* which is at which path.                                                 *)
(*                                                                         *)
(* An archive has one member, of size 1, and does not change; the entry's  *)
(* record is missing, recent, or older than its time to live.              *)
(***************************************************************************)
EXTENDS Integers, FiniteSets, Functions

CONSTANTS
  Engines, Archives,
  Platforms,    \* "posix", "win32"
  Dirs,         \* the directories, enough of them
  Cap,          \* max_size_bytes
  MaxMounts,    \* bound on the mounts, by platform
  MaxCrashes    \* bound on the deaths of engines

None == "none"
Corpses == 1 .. MaxCrashes    \* the dead engines, owners of what they left

ASSUME CacheAssumption ==
  /\ IsFiniteSet(Engines) /\ IsFiniteSet(Archives) /\ IsFiniteSet(Dirs)
  /\ Engines # {} /\ None \notin Archives \cup Dirs
  /\ Platforms \subseteq {"posix", "win32"}
  /\ Cap \in Nat /\ MaxMounts \in [Platforms -> Nat] /\ MaxCrashes \in Nat
  /\ Engines \cap Corpses = {}

VARIABLES
  platform, \* one of Platforms
  live,     \* the directory at the path of each entry
  trash,    \* the directories in the trash
  dir,      \* what each directory holds
  eng,      \* the engines
  mounts, crashes   \* how many there were

vars == <<platform, live, trash, dir, eng, mounts, crashes>>

Empty == [toml |-> "missing",
          tmps |-> {},        \* temporary records, by their writer
          member |-> FALSE,
          parts |-> {}]       \* unfinished members, by their writer

Idle == [pc |-> "idle",
         a |-> None,          \* the archive of the operation
         fd |-> None,         \* the lock file that is open, no lock yet
         lease |-> None, sh |-> None,   \* the mount, and what it locked
         temp |-> None,       \* where its temporary file is
         \* CleanupToFit
         purge |-> FALSE, extra |-> 0, back |-> "idle", todo |-> {},
         cur |-> None, ex |-> {}, kept |-> {}, total |-> 0, after |-> "list"]

Init ==
  /\ platform \in Platforms
  /\ live = [a \in Archives |-> None]
  /\ trash = {}
  /\ dir = [d \in Dirs |-> Empty]
  /\ eng = [e \in Engines |-> Idle]
  /\ mounts = 0 /\ crashes = 0

-----------------------------------------------------------------------------
(* The file system *)

At(a) == IF live[a] = None THEN Empty ELSE dir[live[a]]

Shared(d) == \E e \in Engines : eng[e].sh = d
Exclusive(d) == \E e \in Engines : d \in eng[e].ex
OpenFiles(d) == Shared(d) \/ Exclusive(d) \/ \E e \in Engines : eng[e].fd = d

Unused(d) ==
  /\ d \notin trash /\ \A a \in Archives : live[a] # d
  /\ ~ OpenFiles(d) /\ \A e \in Engines : d \notin {eng[e].temp, eng[e].cur}
Fresh == CHOOSE d \in Dirs : Unused(d)

\* MakePrivateDirectory and create_directories: the entry's directory is there
Made(a) ==
  IF live[a] # None THEN live' = live
  ELSE (\E d \in Dirs : Unused(d)) /\ live' = [live EXCEPT ![a] = Fresh]

\* Measure: what all entries hold, in the trash or not counted
SizeOf(x) == (IF x.member THEN 1 ELSE 0) + Cardinality(x.parts)
Used == SumFunction([a \in Archives |-> SizeOf(At(a))])

\* How an engine goes on: r, evaluated once, holds what changes in its state.
Fields == DOMAIN Idle
Goes(e, r) ==
  \E x \in {r} :
    eng' = [eng EXCEPT ![e] = [f \in Fields |-> IF f \in DOMAIN x THEN x[f] ELSE @[f]]]

fsVars == <<live, trash, dir>>
fixed == <<platform, mounts, crashes>>

-----------------------------------------------------------------------------
(* Acquire: a mount gets its entry. *)

\* The directory is made if it is missing.
Mount(e, a) ==
  /\ eng[e].pc = "idle" /\ eng[e].lease = None
  /\ mounts < MaxMounts[platform] /\ mounts' = mounts + 1
  /\ Made(a)
  /\ Goes(e, [pc |-> "open", a |-> a])
  /\ UNCHANGED <<trash, dir, platform, crashes>>

\* TryAcquire: the lock file is opened, and created if it is missing.
OpenLock(e) ==
  /\ eng[e].pc = "open"
  /\ Goes(e, IF live[eng[e].a] = None THEN [pc |-> "idle", a |-> None]
             ELSE [pc |-> "lock", fd |-> live[eng[e].a]])
  /\ UNCHANGED <<fsVars, fixed>>

\* Mutant: the mount does without the lock that it cannot get.
LockIfFree(e) ==
  /\ eng[e].pc = "lock"
  /\ Goes(e, IF Exclusive(eng[e].fd) THEN [pc |-> "read", fd |-> None]
             ELSE [pc |-> "read", fd |-> None, sh |-> eng[e].fd])
  /\ UNCHANGED <<fsVars, fixed>>

\* TryAcquire: flock, or the mount is refused as busy
LockShared(e) ==
  /\ eng[e].pc = "lock"
  /\ Goes(e, IF Exclusive(eng[e].fd) THEN [pc |-> "idle", a |-> None, fd |-> None]
             ELSE [pc |-> "read", fd |-> None, sh |-> eng[e].fd])
  /\ UNCHANGED <<fsVars, fixed>>

\* The record is read; one of this archive lets the entry be used as it is.
ReadRecord(e) ==
  /\ eng[e].pc = "read"
  /\ Goes(e, [pc |-> IF At(eng[e].a).toml = "missing" THEN "clear" ELSE "files"])
  /\ UNCHANGED <<fsVars, fixed>>

\* Otherwise the entry is started over.
ClearFiles(e) ==
  /\ eng[e].pc = "clear"
  /\ dir' = IF live[eng[e].a] = None THEN dir
            ELSE [dir EXCEPT ![live[eng[e].a]].member = FALSE,
                             ![live[eng[e].a]].parts = {}]
  /\ Goes(e, [pc |-> "temp"])
  /\ UNCHANGED <<live, trash, fixed>>

\* what an engine has when its lease is gone or was never complete
Unleased == [pc |-> "idle", a |-> None, lease |-> None, sh |-> None, temp |-> None]

\* WriteAtomically: the temporary file, if it can be written
WriteTemp(e, ok) ==
  /\ eng[e].pc = "temp"
  /\ LET d == live[eng[e].a]
     IN  IF d = None \/ ~ ok
           THEN Goes(e, Unleased) /\ dir' = dir
           ELSE /\ dir' = [dir EXCEPT ![d].tmps = @ \cup {e}]
                /\ Goes(e, [pc |-> "rename", temp |-> d])
  /\ UNCHANGED <<live, trash, fixed>>

\* WriteAtomically: the rename, by the path.  Acquire goes on; the end of a
\* lease gives the lock back, whether the record could be written or not.
RenameTemp(e) ==
  /\ eng[e].pc = "rename"
  /\ LET d == eng[e].temp
         there == live[eng[e].a] = d
     IN  /\ dir' = IF there THEN [dir EXCEPT ![d].tmps = @ \ {e}, ![d].toml = "recent"] ELSE dir
         /\ Goes(e, IF there /\ eng[e].lease = None THEN [pc |-> "files", temp |-> None]
                    ELSE Unleased)
  /\ UNCHANGED <<live, trash, fixed>>

\* The directory of the members is made, and the lease is whole.
MakeFiles(e) ==
  /\ eng[e].pc = "files"
  /\ Goes(e, IF live[eng[e].a] = None THEN Unleased
             ELSE [pc |-> "idle", a |-> None, lease |-> eng[e].a])
  /\ UNCHANGED <<fsVars, fixed>>

\* ~Lease: the last use is recorded.
Unmount(e) ==
  /\ eng[e].pc = "idle" /\ eng[e].lease # None
  /\ Goes(e, [pc |-> "temp", a |-> eng[e].lease])
  /\ UNCHANGED <<fsVars, fixed>>

-----------------------------------------------------------------------------
(* CleanupToFit *)

\* RemoveEntry: what is not ours, a temporary record too, keeps the directory.
Removed(d) == IF dir[d].tmps = {} THEN Empty ELSE [Empty EXCEPT !.tmps = dir[d].tmps]

\* SweepLeftovers: the trash is emptied.
SweepLeftovers ==
  /\ dir' = [d \in Dirs |-> IF d \in trash THEN Removed(d) ELSE dir[d]]
  /\ trash' = {d \in trash : dir[d].tmps # {}}

EntryDirectories == {a \in Archives : live[a] # None}

BeginCleanup(e, purge, extra, back) ==
  /\ SweepLeftovers
  /\ Goes(e, [pc |-> "list", todo |-> EntryDirectories,
              purge |-> purge, extra |-> extra, back |-> back])
  /\ UNCHANGED <<live, fixed>>

\* at the start, on demand, or for the command that empties the cache
Cleanup(e, purge) ==
  /\ eng[e].pc = "idle"
  /\ BeginCleanup(e, purge, 0, "idle")

\* The next entry: its lock file is opened, or created.
NextEntry(e, a) ==
  /\ eng[e].pc = "list" /\ a \in eng[e].todo
  /\ Goes(e, IF live[a] = None THEN [todo |-> eng[e].todo \ {a}]
             ELSE [todo |-> eng[e].todo \ {a}, pc |-> "exclusive", a |-> a, fd |-> live[a]])
  /\ UNCHANGED <<fsVars, fixed>>

\* An entry that somebody has locked is skipped, the engine itself included.
LockExclusive(e) ==
  /\ eng[e].pc = "exclusive"
  /\ LET d == eng[e].fd
     IN  Goes(e, IF Exclusive(d) \/ Shared(d) THEN [pc |-> "list", a |-> None, fd |-> None]
                 ELSE [pc |-> "judge", fd |-> None, cur |-> d, ex |-> eng[e].ex \cup {d}])
  /\ UNCHANGED <<fsVars, fixed>>

\* Mutant: an entry without a record is kept.
JudgeExpiredOnly(e) ==
  /\ eng[e].pc = "judge"
  /\ LET a == eng[e].a
     IN  /\ \E stale \in SUBSET At(a).parts :
              dir' = IF live[a] = None THEN dir
                     ELSE [dir EXCEPT ![live[a]].parts = @ \ stale]
         /\ Goes(e, IF eng[e].purge \/ At(a).toml = "old" THEN [pc |-> "retire"]
                    ELSE [pc |-> "list", a |-> None, cur |-> None,
                          kept |-> eng[e].kept \cup {<<a, eng[e].cur>>}])
  /\ UNCHANGED <<live, trash, fixed>>

\* Damaged and expired entries go, the others are kept with their lock.  Old
\* temporary members are removed on the way: those of dead engines, and one that
\* has just been given the time of the member (write_member).
Judge(e) ==
  /\ eng[e].pc = "judge"
  /\ LET a == eng[e].a
     IN  /\ \E stale \in SUBSET At(a).parts :
              dir' = IF live[a] = None THEN dir
                     ELSE [dir EXCEPT ![live[a]].parts = @ \ stale]
         /\ Goes(e, IF eng[e].purge \/ At(a).toml # "recent" THEN [pc |-> "retire"]
                    ELSE [pc |-> "list", a |-> None, cur |-> None, kept |-> eng[e].kept \cup {<<a, eng[e].cur>>}])
  /\ UNCHANGED <<live, trash, fixed>>

Unlocked(e) == [pc |-> eng[e].after, a |-> None,
                ex |-> eng[e].ex \ {eng[e].cur}, cur |-> None]

\* RetireEntry: an entry with something foreign in it stays.  On Windows the
\* lock is given back before the rename.
Retire(e) ==
  /\ eng[e].pc = "retire"
  /\ Goes(e, IF live[eng[e].a] = None \/ At(eng[e].a).tmps # {} THEN Unlocked(e)
             ELSE IF platform = "win32"
               THEN [pc |-> "away", ex |-> eng[e].ex \ {eng[e].cur}, cur |-> None]
             ELSE [pc |-> "away"])
  /\ UNCHANGED <<fsVars, fixed>>

\* RetireEntry: the directory at the entry's path moves to the trash, on Windows
\* only if no file in it is open.
RenameAway(e) ==
  /\ eng[e].pc = "away"
  /\ LET d == live[eng[e].a]
     IN  IF d = None \/ (platform = "win32" /\ OpenFiles(d))
           THEN Goes(e, Unlocked(e)) /\ UNCHANGED <<live, trash>>
           ELSE /\ live' = [live EXCEPT ![eng[e].a] = None]
                /\ trash' = trash \cup {d}
                /\ Goes(e, [pc |-> "remove", a |-> None,
                            ex |-> eng[e].ex \ {eng[e].cur}, cur |-> d])
  /\ UNCHANGED <<dir, fixed>>

\* RemoveEntry in the trash
Remove(e) ==
  /\ eng[e].pc = "remove"
  /\ LET d == eng[e].cur
     IN  /\ dir' = IF d \in trash THEN [dir EXCEPT ![d] = Removed(d)] ELSE dir
         /\ trash' = IF dir[d].tmps = {} THEN trash \ {d} ELSE trash
         /\ Goes(e, [pc |-> eng[e].after, cur |-> None,
                     total |-> eng[e].total - (IF d \in trash THEN SizeOf(dir[d]) ELSE 0)])
  /\ UNCHANGED <<live, fixed>>

\* All entries have been looked at: what they hold is measured.
MeasureAll(e) ==
  /\ eng[e].pc = "list" /\ eng[e].todo = {}
  /\ Goes(e, [pc |-> "cap", after |-> "cap", total |-> Used])
  /\ UNCHANGED <<fsVars, fixed>>

\* Kept entries go until the cap holds.
Evict(e, k) ==
  /\ eng[e].pc = "cap" /\ k \in eng[e].kept
  /\ eng[e].total + eng[e].extra > Cap
  /\ Goes(e, [pc |-> "retire", kept |-> eng[e].kept \ {k}, a |-> k[1], cur |-> k[2]])
  /\ UNCHANGED <<fsVars, fixed>>

\* The locks of the others are given back.
CleanupDone(e) ==
  /\ eng[e].pc = "cap"
  /\ eng[e].total + eng[e].extra <= Cap \/ eng[e].kept = {}
  /\ Goes(e, [pc |-> eng[e].back, a |-> IF eng[e].back = "idle" THEN None ELSE eng[e].lease, ex |-> {}, kept |-> {},
              purge |-> FALSE, extra |-> 0, back |-> "idle", total |-> 0, after |-> "list"])
  /\ UNCHANGED <<fsVars, fixed>>

-----------------------------------------------------------------------------
(* MemberFile and EnsureAll: the member is unpacked if it is missing. *)

\* RoomFor: at the cap a clean-up comes first.  If the file system is too full,
\* nothing happens.
Serve(e) ==
  /\ eng[e].pc = "idle" /\ eng[e].lease # None
  /\ ~ At(eng[e].lease).member
  /\ IF Used + 1 > Cap THEN BeginCleanup(e, FALSE, 1, "measure")
     ELSE Goes(e, [pc |-> "measure", a |-> eng[e].lease]) /\ UNCHANGED <<fsVars, fixed>>

\* Mutant: nobody measures again after the clean-up.
MeasureOnce(e) ==
  /\ eng[e].pc = "measure"
  /\ Goes(e, [pc |-> "part"])
  /\ UNCHANGED <<fsVars, fixed>>

\* RoomFor: the second look
MeasureAgain(e) ==
  /\ eng[e].pc = "measure"
  /\ Goes(e, IF Used + 1 > Cap THEN [pc |-> "idle", a |-> None] ELSE [pc |-> "part"])
  /\ UNCHANGED <<fsVars, fixed>>

\* write_member: the directories are made if they are missing, and a temporary
\* file is filled.
WritePart(e) ==
  /\ eng[e].pc = "part"
  /\ Made(eng[e].a)
  /\ LET d == live'[eng[e].a]
     IN  /\ dir' = [dir EXCEPT ![d].parts = @ \cup {e}]
         /\ Goes(e, [pc |-> "finish", temp |-> d])
  /\ UNCHANGED <<trash, fixed>>

\* write_member: the rename, if all went well and the file is still there
FinishPart(e, ok) ==
  /\ eng[e].pc = "finish"
  /\ LET d == eng[e].temp
     IN  dir' = IF live[eng[e].a] # d \/ e \notin dir[d].parts THEN dir
                ELSE [dir EXCEPT ![d].parts = @ \ {e}, ![d].member = @ \/ ok]
  /\ Goes(e, [pc |-> "idle", a |-> None, temp |-> None])
  /\ UNCHANGED <<live, trash, fixed>>

-----------------------------------------------------------------------------
(* The world *)

\* The entry's time to live passes.
Expire(a) ==
  /\ At(a).toml = "recent"
  /\ dir' = [dir EXCEPT ![live[a]].toml = "old"]
  /\ UNCHANGED <<live, trash, eng, fixed>>

\* An engine dies: its locks are free, its temporary files stay.
Crash(e) ==
  /\ crashes + 1 \in Corpses
  /\ eng[e] # Idle
  /\ crashes' = crashes + 1
  /\ eng' = [eng EXCEPT ![e] = Idle]
  /\ LET Left(by) == (by \ {e}) \cup (IF e \in by THEN {crashes + 1} ELSE {})
     IN  dir' = [d \in Dirs |-> [dir[d] EXCEPT !.tmps = Left(@), !.parts = Left(@)]]
  /\ UNCHANGED <<live, trash, platform, mounts>>

\* what an engine does once it has begun
Continue(e) ==
  \/ OpenLock(e) \/ LockShared(e) \/ ReadRecord(e) \/ ClearFiles(e)
  \/ RenameTemp(e) \/ MakeFiles(e)
  \/ MeasureAgain(e) \/ WritePart(e)
  \/ \E ok \in BOOLEAN : WriteTemp(e, ok) \/ FinishPart(e, ok)
  \/ MeasureAll(e) \/ CleanupDone(e)
  \/ \E a \in Archives : NextEntry(e, a)
  \/ LockExclusive(e)
  \/ Judge(e)
  \/ Retire(e) \/ RenameAway(e) \/ Remove(e)
  \/ \E k \in eng[e].kept : Evict(e, k)

Next ==
  \/ \E e \in Engines :
       \/ \E a \in Archives : Mount(e, a)
       \/ Unmount(e) \/ Serve(e)
       \/ \E purge \in BOOLEAN : Cleanup(e, purge)
       \/ Continue(e) \/ Crash(e)
  \/ \E a \in Archives : Expire(a)

Spec == Init /\ [][Next]_vars

\* An engine that has begun goes on, and time passes.
FairSpec ==
  /\ Spec
  /\ \A a \in Archives : WF_vars(Expire(a))
  /\ \A e \in Engines : WF_vars(Continue(e))

-----------------------------------------------------------------------------
(* Properties *)

TypeOK ==
  /\ platform \in Platforms
  /\ live \in [Archives -> Dirs \cup {None}] /\ trash \subseteq Dirs
  /\ dir \in [Dirs -> [toml : {"missing", "recent", "old"}, member : BOOLEAN,
                      tmps : SUBSET (Engines \cup Corpses),
                      parts : SUBSET (Engines \cup Corpses)]]
  /\ DOMAIN eng = Engines
  /\ \A e \in Engines :
       /\ {eng[e].a, eng[e].lease} \subseteq Archives \cup {None}
       /\ {eng[e].fd, eng[e].sh, eng[e].temp, eng[e].cur} \subseteq Dirs \cup {None}
       /\ eng[e].todo \subseteq Archives /\ eng[e].ex \subseteq Dirs
       /\ eng[e].kept \subseteq Archives \X Dirs
       /\ eng[e].purge \in BOOLEAN /\ eng[e].extra \in Nat
       /\ eng[e].back \in {"idle", "measure"} /\ eng[e].after \in {"list", "cap"}

\* While a mount has its lease, the entry at its path is the one it has locked:
\* no clean-up takes the files from under it ("locked entries are skipped",
\* archive_cache.h).
LeaseKeepsEntry ==
  \A e \in Engines : eng[e].lease # None => live[eng[e].lease] = eng[e].sh

\* On Windows this is so, although the lock is given back before the rename.
WindowsKeepsEntry == TypeOK /\ (platform = "win32" => LeaseKeepsEntry)

\* Engines test for room one by one and write later: each of them can exceed
\* the cap by its own member, and no more, whatever is evicted meanwhile.
CapNearlyHolds ==
  Used + Cardinality({e \in Engines : eng[e].pc = "part"}) <= Cap + Cardinality(Engines) - 1

Wanted(a) ==
  \E e \in Engines :
    \/ eng[e].lease = a
    \/ eng[e].a = a /\ eng[e].pc \in {"open", "lock", "read", "clear", "temp", "rename", "files"}

\* Whatever dead engines have left, an engine that lives on without the others,
\* and cleans up again and again, removes every entry that nobody mounts any
\* more, but for those in which somebody died over the record.
UnusedEntriesGo ==
  \A e \in Engines, a \in Archives :
    /\ <>[](\A f \in Engines \ {e} : eng[f].pc = "idle" /\ eng[f].lease = None)
    /\ []<>(eng[e].pc = "list")
    => []<>(Wanted(a) \/ live[a] = None \/ At(a).tmps \cap Corpses # {})
=============================================================================
