--------------------------- MODULE ArtifactCache ---------------------------
(***************************************************************************)
(* The local artifact cache (wrela-compiler, cache.rs) as a build uses it  *)
(* (local_build.rs): resolve_flow_wir_frame loads the entry of the build's *)
(* key, trusts it only after every check, or encodes the frame afresh;     *)
(* DeferredArtifactCache stores a fresh frame after the publication, whose *)
(* own steps are those of module OutputPublication (see LocalBuild).       *)
(*                                                                         *)
(* Several build processes share one cache key.  An entry file may have    *)
(* been left by anybody, may be damaged in place, a process may be killed  *)
(* and the machine may lose power: file data that was not synced is then   *)
(* torn and a directory entry that was not synced may be the former one.   *)
(* A file is named by the process that made it.                            *)
(***************************************************************************)
EXTENDS Integers, FiniteSets

CONSTANTS
    Builders,    \* build processes
    Frames,      \* encoded FlowWir frames
    FrameBytes,  \* FrameBytes[f]: the length of frame f
    Foreign,     \* what an entry may hold that others left or damaged
    MaxBytes,    \* cache.entry_bytes
    HeaderBytes, \* entry header and key
    MaxDamage,   \* bound on writes into an entry file from outside
    MaxCrashes,  \* bound on power losses and kills
    Left,        \* the file an earlier process left
    Garbage,     \* bytes that are no frame
    None

VARIABLES
    entry,    \* the file at the entry's path, or None
    durable,  \* the directory entry that a power loss cannot undo
    file,     \* file[x]: content, stamp (mtime) and whether it is synced
    staging,  \* the processes whose staging file has a name
    build,    \* build[b]: one build command, see Init
    held,     \* history: every content the entry path held
    damage, crashes

vars == <<entry, durable, file, staging, build, held, damage, crashes>>

Files == Builders \cup {Left}
Bytes == Frames \cup {Garbage}
Contents == [key : {"ours", "other"}, payload : Bytes, digest : Bytes]
ASSUME CacheAssumption ==
    /\ FrameBytes \in [Frames -> Nat]
    /\ MaxBytes \in Nat
    /\ Foreign \subseteq Contents
    /\ HeaderBytes \in Nat
    /\ Left \notin Builders
    /\ None \notin Files \cup Frames \cup Contents

BytesOf(payload) == IF payload \in Frames THEN FrameBytes[payload] ELSE 0

Init ==
    /\ entry \in {None, Left}
    /\ durable = entry
    /\ \E c \in Foreign :
          /\ file = [x \in Files |-> [content |-> c, stamp |-> 0, synced |-> TRUE]]
          /\ held = IF entry = None THEN {} ELSE {c}
    /\ staging = {}
    /\ \E frame \in [Builders -> Frames] :
          build = [b \in Builders |->
                     [pc |-> "idle", frame |-> frame[b],
                      seen |-> None,      \* FileIdentity of the first stat
                      read |-> None,      \* what load has read
                      result |-> None, reused |-> FALSE,
                      pending |-> None,   \* DeferredArtifactCache::pending
                      stored |-> FALSE,
                      quiet |-> TRUE]]    \* history: the entry was left alone
                                          \* while it was loaded
    /\ damage = 0
    /\ crashes = 0

Set(b, r) == build' = [build EXCEPT ![b] = r]
Goto(b, pc) == Set(b, [build[b] EXCEPT !.pc = pc])

\* The other processes notice (history) that the entry changes under a load.
Disturbed(f) == [b \in Builders |-> [f[b] EXCEPT !.quiet = FALSE]]

Identity == [name |-> entry, stamp |-> file[entry].stamp]

FileLength(x) == HeaderBytes + BytesOf(file[x].content.payload)

\* Mutant: the header and the key are not allowed for.
FileFits_PayloadOnly(x) == FileLength(x) <= MaxBytes

\* load: the file is not longer than the largest entry.
FileFits(x) == FileLength(x) <= MaxBytes + HeaderBytes

\* load: symlink_metadata of the entry's path.
LoadStat(b) ==
    /\ build[b].pc = "idle"
    /\ Set(b, IF entry = None \/ ~FileFits(entry)
              THEN [build[b] EXCEPT !.pc = "resolve", !.quiet = TRUE]
              ELSE [build[b] EXCEPT !.pc = "open", !.seen = Identity, !.quiet = TRUE])
    /\ UNCHANGED <<entry, durable, file, staging, held, damage, crashes>>

\* load: File::open, and the identity of what was opened.
LoadOpen(b) ==
    /\ build[b].pc = "open"
    /\ Goto(b, IF entry # None /\ Identity = build[b].seen THEN "head" ELSE "resolve")
    /\ UNCHANGED <<entry, durable, file, staging, held, damage, crashes>>

\* load reads the open file in chunks: the header with the key first, ...
LoadHead(b) ==
    /\ build[b].pc = "head"
    /\ Set(b, [build[b] EXCEPT !.pc = "body",
                 !.read = [file[build[b].seen.name].content EXCEPT !.payload = Garbage]])
    /\ UNCHANGED <<entry, durable, file, staging, held, damage, crashes>>

\* ... then the payload.
LoadBody(b) ==
    /\ build[b].pc = "body"
    /\ Set(b, [build[b] EXCEPT !.pc = "check",
                 !.read.payload = file[build[b].seen.name].content.payload])
    /\ UNCHANGED <<entry, durable, file, staging, held, damage, crashes>>

\* Mutant: the second look compares the inode only.
SameFile_Inode(b) == entry = build[b].seen.name

\* load: path and open file are what the first look saw.
SameFile(b) ==
    /\ entry # None
    /\ Identity = build[b].seen

\* parse_entry: the stored key is the request's.
Parses(read) == read.key = "ours" /\ BytesOf(read.payload) <= MaxBytes

LoadCheck(b) ==
    /\ build[b].pc = "check"
    /\ Set(b, [build[b] EXCEPT !.pc = "resolve",
                 !.read = IF SameFile(b) /\ Parses(@) THEN @ ELSE None])
    /\ UNCHANGED <<entry, durable, file, staging, held, damage, crashes>>

\* Mutant: a sealed artifact is used without decoding it.
Accepted_Sealed(b) ==
    /\ build[b].read # None
    /\ build[b].read.digest = build[b].read.payload

\* seal_cached_artifact, decode_and_verify and the comparison with the model
\* that was lowered just now.
Accepted(b) ==
    /\ build[b].read # None
    /\ build[b].read.digest = build[b].read.payload
    /\ build[b].read.payload \in Frames
    /\ build[b].read.payload = build[b].frame

\* Mutant: the limit is not applied to a frame that is stored.
Storable_Any(f) == TRUE

\* A fresh frame goes to the cache when it fits.
Storable(f) == FrameBytes[f] <= MaxBytes

\* resolve_flow_wir_frame with the candidate load returned.
Resolve(b) ==
    LET f == build[b].frame IN
    /\ build[b].pc = "resolve"
    /\ Set(b, IF Accepted(b)
              THEN [build[b] EXCEPT !.pc = "publish", !.reused = TRUE,
                                    !.result = build[b].read.payload]
              ELSE [build[b] EXCEPT !.pc = "publish", !.result = f,
                                    !.pending = IF Storable(f) THEN f ELSE None])
    /\ UNCHANGED <<entry, durable, file, staging, held, damage, crashes>>

\* build: the backend ran and the image is published; the cache is next.
Published(b) ==
    /\ build[b].pc = "publish"
    /\ Goto(b, "flush")
    /\ UNCHANGED <<entry, durable, file, staging, held, damage, crashes>>

\* Mutant: the pending artifact is flushed when the cache is dropped.
AfterFailure_Flushes == "flush"

\* A build that fails drops its pending artifact.
AfterFailure == "returned"

\* The backend fails, or a cancellation is seen anywhere before the flush.
BuildFails(b) ==
    /\ build[b].pc \in {"open", "head", "body", "check", "resolve", "publish"}
    /\ Goto(b, AfterFailure)
    /\ UNCHANGED <<entry, durable, file, staging, held, damage, crashes>>

\* flush_after_publication: nothing is pending, or the store gives up early.
FlushNothing(b) ==
    /\ build[b].pc = "flush"
    /\ Goto(b, "returned")
    /\ UNCHANGED <<entry, durable, file, staging, held, damage, crashes>>

\* store creates a staging file of its own ...
StoreOpen(b) ==
    /\ build[b].pc = "flush"
    /\ build[b].pending # None
    /\ staging' = staging \cup {b}
    /\ file' = [file EXCEPT ![b] = [content |-> [key |-> "ours", payload |-> Garbage,
                                                 digest |-> build[b].pending],
                                    stamp |-> 0, synced |-> FALSE]]
    /\ Goto(b, "write")
    /\ UNCHANGED <<entry, durable, held, damage, crashes>>

\* ... writes header and payload ...
StoreWrite(b) ==
    /\ build[b].pc = "write"
    /\ file' = [file EXCEPT ![b].content.payload = build[b].pending]
    /\ Goto(b, "sync")
    /\ UNCHANGED <<entry, durable, staging, held, damage, crashes>>

\* Mutant: the data is left to the page cache.
StoreSync_Skipped(b) ==
    /\ build[b].pc = "sync"
    /\ Goto(b, "rename")
    /\ UNCHANGED <<entry, durable, file, staging, held, damage, crashes>>

\* ... syncs it ...
StoreSync(b) ==
    /\ build[b].pc = "sync"
    /\ file' = [file EXCEPT ![b].synced = TRUE]
    /\ Goto(b, "rename")
    /\ UNCHANGED <<entry, durable, staging, held, damage, crashes>>

\* ... and renames it to the entry's path.
StoreRename(b) ==
    /\ build[b].pc = "rename"
    /\ entry' = b
    /\ staging' = staging \ {b}
    /\ held' = held \cup {file[b].content}
    /\ build' = [Disturbed(build) EXCEPT ![b].pc = "dirsync"]
    /\ UNCHANGED <<durable, file, damage, crashes>>

\* Mutant: the staging file stays when the store is cancelled.
Unstaged_Kept(b) == staging

\* The staging file is removed on every failure before the rename.
Unstaged(b) == staging \ {b}

\* A write, a sync, the rename or the cancellation check fails.
StoreFails(b) ==
    /\ build[b].pc \in {"write", "sync", "rename"}
    /\ staging' = Unstaged(b)
    /\ Goto(b, "returned")
    /\ UNCHANGED <<entry, durable, file, held, damage, crashes>>

\* Mutant: the directory is not synced.
DirSynced_Not == durable

\* The directory entry after a sync of the directory.
DirSynced == entry

\* store: the directory is synced and the store has succeeded.
StoreDirSync(b) ==
    /\ build[b].pc = "dirsync"
    /\ durable' = DirSynced
    /\ Set(b, [build[b] EXCEPT !.pc = "returned", !.stored = TRUE])
    /\ UNCHANGED <<entry, file, staging, held, damage, crashes>>

\* The directory sync fails: the entry is visible all the same.
StoreDirSyncFails(b) ==
    /\ build[b].pc = "dirsync"
    /\ Goto(b, "returned")
    /\ UNCHANGED <<entry, durable, file, staging, held, damage, crashes>>

\* Something outside the compiler writes into the entry file.
Damage(c) ==
    /\ damage < MaxDamage
    /\ entry # None
    /\ damage' = damage + 1
    /\ file' = [file EXCEPT ![entry].content = c, ![entry].stamp = @ + 1]
    /\ held' = held \cup {c}
    /\ build' = Disturbed(build)
    /\ UNCHANGED <<entry, durable, staging, crashes>>

Started(b) == build[b].pc \notin {"idle", "returned", "crashed"}

\* A build process is killed.
Kill(b) ==
    /\ crashes < MaxCrashes
    /\ Started(b)
    /\ crashes' = crashes + 1
    /\ Goto(b, "crashed")
    /\ UNCHANGED <<entry, durable, file, staging, held, damage>>

\* The machine loses power; builds that were idle run after the restart.
PowerLoss ==
    /\ crashes < MaxCrashes
    /\ crashes' = crashes + 1
    /\ entry' \in {entry, durable}
    /\ durable' = entry'
    /\ file' = [x \in Files |-> IF file[x].synced THEN file[x]
                                ELSE [file[x] EXCEPT !.content.payload = Garbage,
                                                     !.synced = TRUE]]
    /\ held' = IF entry' = None THEN held ELSE held \cup {file'[entry'].content}
    /\ build' = [b \in Builders |-> IF Started(b) THEN [build[b] EXCEPT !.pc = "crashed"]
                                    ELSE build[b]]
    /\ UNCHANGED <<staging, damage>>

\* The steps of one build before it publishes, and those of the store after.
LoadStep(b) ==
    LoadStat(b) \/ LoadOpen(b) \/ LoadHead(b) \/ LoadBody(b) \/ LoadCheck(b) \/ Resolve(b)

StoreStep(b) ==
    \/ FlushNothing(b)
    \/ StoreOpen(b) \/ StoreWrite(b) \/ StoreSync(b) \/ StoreRename(b)
    \/ StoreFails(b) \/ StoreDirSync(b) \/ StoreDirSyncFails(b)

---------------------------------------------------------------------------
(* Properties                                                              *)

\* Every variable keeps its type; a frame above the limit is never pending.
CacheTypeOK ==
    /\ {entry, durable} \subseteq Files \cup {None}
    /\ \A x \in Files : file[x].content \in Contents /\ file[x].synced \in BOOLEAN
    /\ staging \subseteq Builders
    /\ \A b \in Builders :
          /\ build[b].pending \in {f \in Frames : FrameBytes[f] <= MaxBytes} \cup {None}
          /\ build[b].read \in Contents \cup {None}

\* Whatever is in the cache, the backend gets the frame of the model that was
\* lowered just now: a damaged, stale or foreign entry is only a miss.
ResolvedIsProduced ==
    \A b \in Builders : build[b].result \in {None, build[b].frame}

\* An entry this compiler stored and nobody damaged is whole, also after a
\* power loss between any two steps of store.
VisibleEntryWhole ==
    (damage = 0 /\ entry \in Builders) =>
        file[entry].content =
            [key |-> "ours", payload |-> build[entry].frame, digest |-> build[entry].frame]

\* load returns what the entry held at one instant, never the header of one
\* version with the payload of another.
CandidateWasHeld ==
    \A b \in Builders :
        build[b].pc = "resolve" /\ build[b].read # None => build[b].read \in held

\* A build that returned, with or without an error, left no staging file.
NoStagingLeft ==
    \A b \in Builders : build[b].pc = "returned" => b \notin staging

\* Once a store has returned Ok the key has an entry for good: no later store,
\* failure or power loss takes it away again.
StoredIsDurable ==
    (\E b \in Builders : build[b].stored) => entry # None

\* A resolution that nothing disturbs hits: a build that found the entry of
\* its own frame, even one exactly at the limit, does not encode it again.
UndisturbedHit ==
    \A b \in Builders :
        /\ build[b].pc = "publish"
        /\ build[b].quiet
        /\ damage = 0
        /\ entry \in Builders
        /\ build[entry].frame = build[b].frame
        => build[b].reused

\* The cache as a whole: what is stored is whole and stays, a load sees one
\* version and hits when it can, nothing is left staged.
CacheInv ==
    /\ CacheTypeOK
    /\ VisibleEntryWhole
    /\ CandidateWasHeld
    /\ NoStagingLeft
    /\ StoredIsDurable
    /\ UndisturbedHit
=============================================================================
