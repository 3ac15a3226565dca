--------------------------- MODULE LocalBuildProofs ---------------------------
(***************************************************************************)
(* Proofs about local builds that share an output directory and a cache,   *)
(* for any number of builds, frames and outputs: the cache's invariant,    *)
(* then that of the publications, each with what makes it inductive, and   *)
(* the two together under BuildSpec.                                       *)
(***************************************************************************)
EXTENDS LocalBuild, TLAPS

USE CacheAssumption

-----------------------------------------------------------------------------
(* The cache.                                                              *)

Loading == {"open", "head", "body", "check"}
Storing == {"write", "sync", "rename"}
Settled == {"dirsync", "returned", "crashed"}
BuildStates == Loading \cup Storing \cup Settled \cup {"idle", "resolve", "publish", "flush"}

FileRecord == [content : Contents, stamp : Nat, synced : BOOLEAN]
Seen == [name : Files, stamp : Nat]
BuildRecord ==
    [pc : BuildStates, frame : Frames, seen : Seen \cup {None},
     read : Contents \cup {None}, result : Frames \cup {None}, reused : BOOLEAN,
     pending : Frames \cup {None}, stored : BOOLEAN, quiet : BOOLEAN]

CacheTypes ==
    /\ entry \in Files \cup {None} /\ durable \in Files \cup {None}
    /\ file \in [Files -> FileRecord]
    /\ staging \subseteq Builders
    /\ build \in [Builders -> BuildRecord]
    /\ damage \in Nat

\* The content of an entry that build b has stored whole.
Whole(b) ==
    [key |-> "ours", payload |-> build[b].frame, digest |-> build[b].frame]

\* How far store of build b has come, and what it has made durable so far: a
\* file has the entry's name only once it is whole and synced.
StoreFlow(b) ==
    /\ build[b].result \in {None, build[b].frame}
    /\ build[b].pending # None =>
          build[b].pending = build[b].frame /\ FrameBytes[build[b].frame] <= MaxBytes
    /\ build[b].pc \in Storing => build[b].pending # None
    /\ build[b].pc = "write" => file[b].content = [Whole(b) EXCEPT !.payload = Garbage]
    /\ build[b].pc \in {"sync", "rename"} => file[b].content = Whole(b)
    /\ build[b].pc = "rename" => file[b].synced
    /\ build[b].pc = "dirsync" => entry # None
    /\ build[b].stored => entry # None /\ durable # None
    /\ b \in staging => build[b].pc \in Storing \cup {"crashed"}
    /\ b \in {entry, durable} =>
          /\ build[b].pc \in Settled
          /\ build[b].pending # None
          /\ file[b].synced
          /\ damage = 0 => file[b].content = Whole(b)

\* What load of build b has read is what its file holds, unless the stamp of the
\* file says otherwise; and the file is nobody's staging file.
LoadFlow(b) ==
    /\ build[b].pc \in {"idle", "open", "head"} => build[b].read = None
    /\ build[b].pc \in Loading =>
          LET seen == build[b].seen
              content == file[seen.name].content
          IN  /\ seen \in Seen
              /\ seen.name \in Builders =>
                    build[seen.name].pc \in Settled
              /\ seen.stamp <= file[seen.name].stamp
              /\ build[b].pc \in {"body", "check"} => build[b].read \in Contents
              /\ file[seen.name].stamp = seen.stamp =>
                    /\ build[b].pc \in {"body", "check"} =>
                          /\ build[b].read.key = content.key
                          /\ build[b].read.digest = content.digest
                    /\ build[b].pc = "check" => build[b].read.payload = content.payload
    /\ build[b].pc = "resolve" /\ build[b].read # None => build[b].read \in held

\* While nothing disturbs build b, it is on its way to the hit.
QuietFlow(b) ==
    (/\ build[b].quiet /\ damage = 0
     /\ entry \in Builders /\ build[entry].frame = build[b].frame) =>
        /\ build[b].pc \in Loading => build[b].seen = Identity
        /\ build[b].pc = "resolve" => build[b].read = Whole(entry)
        /\ build[b].pc = "publish" => build[b].reused

\* What the entry holds now is among what it has held.
EntryHeld == entry # None => file[entry].content \in held

CacheFlow ==
    /\ CacheTypes
    /\ EntryHeld
    /\ \A b \in Builders : StoreFlow(b) /\ LoadFlow(b) /\ QuietFlow(b)


\* One build's record is replaced.
LEMMA SetOne ==
    ASSUME CacheTypes, NEW b \in Builders, NEW r \in BuildRecord, Set(b, r)
    PROVE  /\ build' \in [Builders -> BuildRecord]
           /\ build'[b] = r
           /\ \A c \in Builders : c # b => build'[c] = build[c]
BY DEF CacheTypes, Set

\* A step that changes the record of one build only disturbs nobody else.
LEMMA OneBuildMoves ==
    ASSUME CacheFlow, NEW b \in Builders, NEW r \in BuildRecord, Set(b, r),
           UNCHANGED <<entry, durable, file, staging, held, damage>>,
           r.frame = build[b].frame,
           build[b].pc \in Settled => r.pc \in Settled,
           StoreFlow(b)', LoadFlow(b)', QuietFlow(b)'
    PROVE  CacheFlow'
<1>1. /\ build' \in [Builders -> BuildRecord]
      /\ build'[b] = r
      /\ \A c \in Builders : c # b => build'[c] = build[c]
  BY SetOne DEF CacheFlow
<1>2. \A c \in Builders : build'[c].frame = build[c].frame
  BY <1>1
<1>3. \A c \in Builders : build[c].pc \in Settled => build'[c].pc \in Settled
  BY <1>1
<1>4. CacheTypes' /\ EntryHeld'
  BY <1>1 DEF CacheFlow, CacheTypes, EntryHeld
<1>5. ASSUME NEW c \in Builders, c # b
      PROVE  StoreFlow(c)' /\ LoadFlow(c)' /\ QuietFlow(c)'
  <2>0. build'[c] = build[c] /\ StoreFlow(c) /\ LoadFlow(c) /\ QuietFlow(c)
    BY <1>1, <1>5 DEF CacheFlow
  <2>1. StoreFlow(c)'
    BY <2>0 DEF StoreFlow, Whole
  <2>2. LoadFlow(c)'
    BY <2>0, <1>3 DEF LoadFlow
  <2>3. QuietFlow(c)'
    BY <2>0, <1>2 DEF QuietFlow, Whole, Identity
  <2> QED
    BY <2>1, <2>2, <2>3
<1> QED
  BY <1>4, <1>5 DEF CacheFlow

\* The record of a build that is in the cache's invariant.
LEMMA Own ==
    ASSUME CacheFlow, NEW b \in Builders
    PROVE  /\ build[b] \in BuildRecord
           /\ StoreFlow(b) /\ LoadFlow(b) /\ QuietFlow(b)
BY DEF CacheFlow, CacheTypes

\* A build that has not reached the store moves on before it.
LEMMA LoaderMoves ==
    ASSUME CacheFlow, NEW b \in Builders, NEW r \in BuildRecord, Set(b, r),
           UNCHANGED <<entry, durable, file, staging, held, damage>>,
           build[b].pc \in Loading \cup {"idle", "resolve", "publish"},
           r.pc \in Loading \cup {"resolve", "publish", "flush", "returned"},
           r.frame = build[b].frame, r.result = build[b].result,
           r.pending = build[b].pending, r.stored = build[b].stored,
           LoadFlow(b)', QuietFlow(b)'
    PROVE  CacheFlow'
<1>1. build'[b] = r
  BY SetOne DEF CacheFlow
<1>2. StoreFlow(b) /\ b \notin staging \cup {entry, durable}
  BY Own DEF StoreFlow, Loading, Storing, Settled
<1>3. StoreFlow(b)'
  BY <1>1, <1>2 DEF StoreFlow, Whole, Loading, Storing
<1> QED
  BY <1>3, OneBuildMoves DEF Loading, Settled

\* load looks at the entry for the first time.
LEMMA LoadStatKeeps ==
    ASSUME CacheFlow, NEW b \in Builders, LoadStat(b)
    PROVE  CacheFlow'
<1> USE DEF Loading, Storing, Settled, BuildStates
<1>0. build[b] \in BuildRecord /\ StoreFlow(b) /\ LoadFlow(b)
  BY Own
<1>1. UNCHANGED <<entry, durable, file, staging, held, damage>> /\ build[b].pc = "idle"
  BY DEF LoadStat
<1>2. CASE entry = None \/ ~FileFits(entry)
  <2> DEFINE r == [build[b] EXCEPT !.pc = "resolve", !.quiet = TRUE]
  <2>1. Set(b, r)
    BY <1>2 DEF LoadStat
  <2>2. r \in BuildRecord
    BY <1>0 DEF BuildRecord
  <2>3. build'[b] = r
    BY <2>1, <2>2, SetOne DEF CacheFlow
  <2>4. /\ r.frame = build[b].frame /\ r.pc = "resolve" /\ r.read = build[b].read
        /\ r.result = build[b].result /\ r.pending = build[b].pending
        /\ r.stored = build[b].stored
    BY <1>0 DEF BuildRecord
  <2> HIDE DEF r
  <2>6. LoadFlow(b)'
    BY <1>0, <1>1, <2>3, <2>4 DEF LoadFlow
  <2>7. QuietFlow(b)'
    <3> SUFFICES ASSUME damage = 0, entry \in Builders PROVE FALSE
      BY <1>1 DEF QuietFlow
    <3>1. StoreFlow(entry) /\ build[entry] \in BuildRecord
      BY Own
    <3>2. /\ file[entry].content.payload = build[entry].frame
          /\ FrameBytes[build[entry].frame] <= MaxBytes
      BY <3>1 DEF StoreFlow, Whole
    <3>3. build[entry].frame \in Frames
      BY <3>1 DEF BuildRecord
    <3>4. BytesOf(file[entry].content.payload) = FrameBytes[build[entry].frame]
      BY <3>2, <3>3 DEF BytesOf
    <3>5. FrameBytes[build[entry].frame] \in Nat
      BY <3>3
    <3>6. FileFits(entry)
      BY <3>2, <3>4, <3>5 DEF FileFits, FileLength
    <3> QED
      BY <1>2, <3>6 DEF Files
  <2> QED
    BY <1>1, <2>1, <2>2, <2>4, <2>6, <2>7, LoaderMoves
<1>3. CASE entry # None /\ FileFits(entry)
  <2> DEFINE r == [build[b] EXCEPT !.pc = "open", !.seen = Identity, !.quiet = TRUE]
  <2>1. Set(b, r)
    BY <1>3 DEF LoadStat
  <2>2. Identity \in Seen /\ Identity.name = entry /\ Identity.stamp = file[entry].stamp
    BY <1>3 DEF Identity, Seen, CacheFlow, CacheTypes, FileRecord
  <2>3. r \in BuildRecord
    BY <1>0, <2>2 DEF BuildRecord
  <2>4. build'[b] = r
    BY <2>1, <2>3, SetOne DEF CacheFlow
  <2>5. /\ r.frame = build[b].frame /\ r.pc = "open" /\ r.read = build[b].read
        /\ r.result = build[b].result /\ r.pending = build[b].pending
        /\ r.stored = build[b].stored /\ r.seen = Identity
    BY <1>0 DEF BuildRecord
  <2> HIDE DEF r
  <2>7. LoadFlow(b)'
    <3>1. entry \in Builders => build[entry].pc \in Settled
      BY Own DEF StoreFlow
    <3>2. entry \in Builders => build'[entry] = build[entry]
      BY <3>1, <1>1, <2>1, <2>3, SetOne DEF CacheFlow
    <3>3. file[entry].stamp \in Nat
      BY <1>3 DEF CacheFlow, CacheTypes, FileRecord
    <3> QED
      BY <1>0, <1>1, <2>2, <2>4, <2>5, <3>1, <3>2, <3>3 DEF LoadFlow
  <2>8. QuietFlow(b)'
    BY <1>1, <2>4, <2>5 DEF QuietFlow, Identity
  <2> QED
    BY <1>1, <2>1, <2>3, <2>5, <2>7, <2>8, LoaderMoves
<1> QED
  BY <1>2, <1>3

\* load opens the entry's file and compares it with what the first look saw.
LEMMA LoadOpenKeeps ==
    ASSUME CacheFlow, NEW b \in Builders, LoadOpen(b)
    PROVE  CacheFlow'
<1> USE DEF Loading, Storing, Settled, BuildStates
<1> DEFINE next == IF entry # None /\ Identity = build[b].seen THEN "head" ELSE "resolve"
           r == [build[b] EXCEPT !.pc = next]
<1>0. build[b] \in BuildRecord /\ StoreFlow(b) /\ LoadFlow(b) /\ QuietFlow(b)
  BY Own
<1>1. UNCHANGED <<entry, durable, file, staging, held, damage>> /\ build[b].pc = "open"
  BY DEF LoadOpen
<1>2. Set(b, r)
  BY DEF LoadOpen, Goto
<1>3. r \in BuildRecord
  BY <1>0 DEF BuildRecord
<1>4. build'[b] = r /\ \A c \in Builders : c # b => build'[c] = build[c]
  BY <1>2, <1>3, SetOne DEF CacheFlow
<1>5. /\ r.frame = build[b].frame /\ r.pc = next /\ r.read = build[b].read
      /\ r.result = build[b].result /\ r.pending = build[b].pending
      /\ r.stored = build[b].stored /\ r.seen = build[b].seen /\ r.quiet = build[b].quiet
  BY <1>0 DEF BuildRecord
<1> HIDE DEF r
<1>6. LoadFlow(b)'
  BY <1>0, <1>1, <1>4, <1>5 DEF LoadFlow
<1>7. QuietFlow(b)'
  <2> SUFFICES ASSUME build[b].quiet, damage = 0, entry \in Builders,
                      build[entry].frame = build[b].frame
               PROVE  next = "head" /\ build[b].seen = Identity
    <3>1. entry \in Builders => build'[entry].frame = build[entry].frame
      BY <1>4, <1>5
    <3> QED
      BY <1>1, <1>4, <1>5, <3>1 DEF QuietFlow, Identity
  <2> QED
    BY <1>0, <1>1 DEF QuietFlow, Files
<1> QED
  BY <1>1, <1>2, <1>3, <1>5, <1>6, <1>7, LoaderMoves

\* load reads the header and the key.
LEMMA LoadHeadKeeps ==
    ASSUME CacheFlow, NEW b \in Builders, LoadHead(b)
    PROVE  CacheFlow'
<1> USE DEF Loading, Storing, Settled, BuildStates
<1> DEFINE held0 == file[build[b].seen.name].content
           r == [build[b] EXCEPT !.pc = "body", !.read = [held0 EXCEPT !.payload = Garbage]]
<1>0. build[b] \in BuildRecord /\ StoreFlow(b) /\ LoadFlow(b) /\ QuietFlow(b)
  BY Own
<1>1. UNCHANGED <<entry, durable, file, staging, held, damage>> /\ build[b].pc = "head"
  BY DEF LoadHead
<1>2. Set(b, r)
  BY DEF LoadHead
<1>3. build[b].seen \in Seen /\ held0 \in Contents
  BY <1>0, <1>1 DEF LoadFlow, Seen, CacheFlow, CacheTypes, FileRecord
<1>4. [held0 EXCEPT !.payload = Garbage] \in Contents
  BY <1>3 DEF Contents, Bytes
<1>5. r \in BuildRecord
  BY <1>0, <1>4 DEF BuildRecord
<1>6. build'[b] = r /\ \A c \in Builders : c # b => build'[c] = build[c]
  BY <1>2, <1>5, SetOne DEF CacheFlow
<1>7. /\ r.frame = build[b].frame /\ r.pc = "body" /\ r.read \in Contents
      /\ r.read.key = held0.key /\ r.read.digest = held0.digest
      /\ r.result = build[b].result /\ r.pending = build[b].pending
      /\ r.stored = build[b].stored /\ r.seen = build[b].seen /\ r.quiet = build[b].quiet
  BY <1>0, <1>3, <1>4 DEF BuildRecord, Contents
<1> HIDE DEF r
<1>8. LoadFlow(b)'
  <2>1. build[b].seen.name \in Builders =>
           build'[build[b].seen.name].pc \in Settled
    BY <1>0, <1>1, <1>6 DEF LoadFlow
  <2> QED
    BY <1>0, <1>1, <1>3, <1>6, <1>7, <2>1 DEF LoadFlow
<1>9. QuietFlow(b)'
  BY <1>0, <1>1, <1>6, <1>7 DEF QuietFlow, Identity
<1> QED
  BY <1>1, <1>2, <1>5, <1>7, <1>8, <1>9, LoaderMoves

\* load reads the payload.
LEMMA LoadBodyKeeps ==
    ASSUME CacheFlow, NEW b \in Builders, LoadBody(b)
    PROVE  CacheFlow'
<1> USE DEF Loading, Storing, Settled, BuildStates
<1> DEFINE held0 == file[build[b].seen.name].content
           r == [build[b] EXCEPT !.pc = "check", !.read.payload = held0.payload]
<1>0. build[b] \in BuildRecord /\ StoreFlow(b) /\ LoadFlow(b) /\ QuietFlow(b)
  BY Own
<1>1. UNCHANGED <<entry, durable, file, staging, held, damage>> /\ build[b].pc = "body"
  BY DEF LoadBody
<1>2. Set(b, r)
  BY DEF LoadBody
<1>3. build[b].seen \in Seen /\ held0 \in Contents /\ build[b].read \in Contents
  BY <1>0, <1>1 DEF LoadFlow, Seen, CacheFlow, CacheTypes, FileRecord
<1>4. [build[b].read EXCEPT !.payload = held0.payload] \in Contents
  BY <1>3 DEF Contents
<1>5. r = [build[b] EXCEPT !.pc = "check",
                           !.read = [build[b].read EXCEPT !.payload = held0.payload]]
  BY <1>0 DEF BuildRecord
<1>6. r \in BuildRecord
  BY <1>0, <1>4, <1>5 DEF BuildRecord
<1>7. build'[b] = r /\ \A c \in Builders : c # b => build'[c] = build[c]
  BY <1>2, <1>6, SetOne DEF CacheFlow
<1>8. /\ r.frame = build[b].frame /\ r.pc = "check" /\ r.read \in Contents
      /\ r.read.key = build[b].read.key /\ r.read.digest = build[b].read.digest
      /\ r.read.payload = held0.payload
      /\ r.result = build[b].result /\ r.pending = build[b].pending
      /\ r.stored = build[b].stored /\ r.seen = build[b].seen /\ r.quiet = build[b].quiet
  BY <1>0, <1>3, <1>4, <1>5 DEF BuildRecord, Contents
<1> HIDE DEF r
<1>9. LoadFlow(b)'
  <2>1. build[b].seen.name \in Builders =>
           build'[build[b].seen.name].pc \in Settled
    BY <1>0, <1>1, <1>7 DEF LoadFlow
  <2> QED
    BY <1>0, <1>1, <1>3, <1>7, <1>8, <2>1 DEF LoadFlow
<1>10. QuietFlow(b)'
  BY <1>0, <1>1, <1>7, <1>8 DEF QuietFlow, Identity
<1> QED
  BY <1>1, <1>2, <1>6, <1>8, <1>9, <1>10, LoaderMoves

\* load looks at the path and the open file again: what it returns was read from
\* one version of the entry.
LEMMA LoadCheckKeeps ==
    ASSUME CacheFlow, NEW b \in Builders, LoadCheck(b)
    PROVE  CacheFlow'
<1> USE DEF Loading, Storing, Settled, BuildStates
<1> DEFINE got == IF SameFile(b) /\ Parses(build[b].read) THEN build[b].read ELSE None
           r == [build[b] EXCEPT !.pc = "resolve", !.read = got]
<1>0. build[b] \in BuildRecord /\ StoreFlow(b) /\ LoadFlow(b) /\ QuietFlow(b)
  BY Own
<1>1. UNCHANGED <<entry, durable, file, staging, held, damage>> /\ build[b].pc = "check"
  BY DEF LoadCheck
<1>2. Set(b, r)
  BY <1>0 DEF LoadCheck, BuildRecord
<1>3. build[b].seen \in Seen /\ build[b].read \in Contents
  BY <1>0, <1>1 DEF LoadFlow
<1>4. got \in Contents \cup {None}
  BY <1>3
<1> HIDE DEF got
<1>5. r \in BuildRecord
  BY <1>0, <1>4 DEF BuildRecord
<1>6. build'[b] = r /\ \A c \in Builders : c # b => build'[c] = build[c]
  BY <1>2, <1>5, SetOne DEF CacheFlow
<1>7. /\ r.frame = build[b].frame /\ r.pc = "resolve" /\ r.read = got
      /\ r.result = build[b].result /\ r.pending = build[b].pending
      /\ r.stored = build[b].stored /\ r.quiet = build[b].quiet
  BY <1>0 DEF BuildRecord
<1> HIDE DEF r
<1>8. entry # None /\ Identity = build[b].seen => build[b].read = file[entry].content
  <2> SUFFICES ASSUME entry # None, Identity = build[b].seen
               PROVE  build[b].read = file[entry].content
    OBVIOUS
  <2>1. build[b].seen.name = entry /\ build[b].seen.stamp = file[entry].stamp
    BY DEF Identity
  <2>2. file[entry].content \in Contents
    BY DEF CacheFlow, CacheTypes, FileRecord
  <2>3. /\ build[b].read.key = file[entry].content.key
        /\ build[b].read.digest = file[entry].content.digest
        /\ build[b].read.payload = file[entry].content.payload
    BY <1>0, <1>1, <2>1 DEF LoadFlow
  <2> QED
    BY <1>3, <2>2, <2>3 DEF Contents
<1>9. LoadFlow(b)'
  <2>1. got # None => got \in held
    BY <1>8 DEF got, SameFile, CacheFlow, EntryHeld
  <2> QED
    BY <1>1, <1>6, <1>7, <2>1 DEF LoadFlow
<1>10. QuietFlow(b)'
  <2> SUFFICES ASSUME build[b].quiet, damage = 0, entry \in Builders,
                      build[entry].frame = build[b].frame
               PROVE  got = Whole(entry)
    <3>1. entry \in Builders => build'[entry].frame = build[entry].frame
      BY <1>6, <1>7
    <3> QED
      BY <1>1, <1>6, <1>7, <3>1 DEF QuietFlow, Whole
  <2>1. entry # None /\ Identity = build[b].seen
    BY <1>0, <1>1 DEF QuietFlow, Files
  <2>2. StoreFlow(entry) /\ build[entry].frame \in Frames
    BY Own DEF BuildRecord
  <2>3. file[entry].content = Whole(entry) /\ FrameBytes[build[entry].frame] <= MaxBytes
    BY <2>2 DEF StoreFlow
  <2>4. build[b].read.key = "ours" /\ build[b].read.payload = build[entry].frame
    BY <1>8, <2>1, <2>3 DEF Whole
  <2>5. Parses(build[b].read)
    BY <2>2, <2>3, <2>4 DEF Parses, BytesOf
  <2> QED
    BY <1>8, <2>1, <2>3, <2>5 DEF got, SameFile
<1> QED
  BY <1>1, <1>2, <1>5, <1>7, <1>9, <1>10, LoaderMoves

\* resolve_flow_wir_frame uses the candidate when it is the frame lowered just
\* now, and that frame otherwise.
LEMMA ResolveKeeps ==
    ASSUME CacheFlow, NEW b \in Builders, Resolve(b)
    PROVE  CacheFlow'
<1> USE DEF Loading, Storing, Settled, BuildStates
<1>0. build[b] \in BuildRecord /\ StoreFlow(b) /\ LoadFlow(b) /\ QuietFlow(b)
  BY Own
<1>1. UNCHANGED <<entry, durable, file, staging, held, damage>> /\ build[b].pc = "resolve"
  BY DEF Resolve
<1>2. b \notin staging \cup {entry, durable} /\ build[b].frame \in Frames
  BY <1>0, <1>1 DEF StoreFlow, BuildRecord
<1>3. CASE Accepted(b)
  <2> DEFINE r == [build[b] EXCEPT !.pc = "publish", !.reused = TRUE,
                                   !.result = build[b].read.payload]
  <2>1. Set(b, r)
    BY <1>3 DEF Resolve
  <2>2. r = [build[b] EXCEPT !.pc = "publish", !.reused = TRUE, !.result = build[b].frame]
    BY <1>3 DEF Accepted
  <2>3. r \in BuildRecord
    BY <1>0, <1>2, <2>2 DEF BuildRecord
  <2>4. build'[b] = r
    BY <2>1, <2>3, SetOne DEF CacheFlow
  <2>5. /\ r.frame = build[b].frame /\ r.pc = "publish" /\ r.result = build[b].frame
        /\ r.pending = build[b].pending /\ r.stored = build[b].stored /\ r.reused = TRUE
    BY <1>0, <2>2 DEF BuildRecord
  <2> HIDE DEF r
  <2>6. StoreFlow(b)'
    BY <1>0, <1>1, <1>2, <2>4, <2>5 DEF StoreFlow, Whole
  <2>7. LoadFlow(b)' /\ QuietFlow(b)'
    BY <2>4, <2>5 DEF LoadFlow, QuietFlow
  <2> QED
    BY <1>1, <2>1, <2>3, <2>5, <2>6, <2>7, OneBuildMoves
<1>4. CASE ~Accepted(b)
  <2> DEFINE f == build[b].frame
             pending == IF Storable(f) THEN f ELSE None
             r == [build[b] EXCEPT !.pc = "publish", !.result = f, !.pending = pending]
  <2>1. Set(b, r)
    BY <1>4 DEF Resolve
  <2>2. pending \in Frames \cup {None}
    BY <1>2
  <2>3. r \in BuildRecord
    BY <1>0, <1>2, <2>2 DEF BuildRecord
  <2>4. build'[b] = r /\ \A c \in Builders : c # b => build'[c] = build[c]
    BY <2>1, <2>3, SetOne DEF CacheFlow
  <2>5. /\ r.frame = f /\ r.pc = "publish" /\ r.result = f /\ r.pending = pending
        /\ r.stored = build[b].stored /\ r.quiet = build[b].quiet
    BY <1>0 DEF BuildRecord
  <2> HIDE DEF r
  <2>6. pending # None => pending = f /\ FrameBytes[f] <= MaxBytes
    BY DEF Storable
  <2> HIDE DEF pending
  <2>7. StoreFlow(b)'
    BY <1>0, <1>1, <1>2, <2>4, <2>5, <2>6 DEF StoreFlow, Whole
  <2>8. LoadFlow(b)'
    BY <2>4, <2>5 DEF LoadFlow
  <2>9. QuietFlow(b)'
    <3> SUFFICES ASSUME build[b].quiet, damage = 0, entry \in Builders,
                        build[entry].frame = build[b].frame
                 PROVE  FALSE
      <4>1. entry \in Builders => build'[entry].frame = build[entry].frame
        BY <2>4, <2>5
      <4> QED
        BY <1>1, <2>4, <2>5, <4>1 DEF QuietFlow
    <3>1. build[b].read = Whole(entry)
      BY <1>0, <1>1 DEF QuietFlow
    <3>2. Whole(entry) \in Contents
      BY <1>2 DEF Whole, Contents, Bytes
    <3>3. build[b].read.payload = f /\ build[b].read.digest = f
      BY <3>1 DEF Whole
    <3> QED
      BY <1>2, <1>4, <3>1, <3>2, <3>3 DEF Accepted
  <2> QED
    BY <1>1, <2>1, <2>3, <2>5, <2>7, <2>8, <2>9, OneBuildMoves
<1> QED
  BY <1>3, <1>4

\* A build only moves on: publish_build ends, the build fails or is killed, or
\* nothing is stored.
LEMMA MoveKeeps ==
    ASSUME CacheFlow, NEW b \in Builders,
           Published(b) \/ BuildFails(b) \/ FlushNothing(b) \/ StoreDirSyncFails(b) \/ Kill(b)
    PROVE  CacheFlow'
<1> USE DEF Loading, Storing, Settled, BuildStates
<1>0. build[b] \in BuildRecord /\ StoreFlow(b) /\ LoadFlow(b) /\ QuietFlow(b)
  BY Own
<1>1. PICK pc \in {"flush", "returned", "crashed"} :
         /\ Goto(b, pc)
         /\ UNCHANGED <<entry, durable, file, staging, held, damage>>
         /\ pc = "flush" => build[b].pc = "publish"
         /\ pc = "returned" => build[b].pc \notin Storing \cup {"idle", "crashed"}
         /\ pc = "crashed" => build[b].pc \notin {"idle", "returned", "crashed"}
  BY DEF Published, BuildFails, AfterFailure, FlushNothing, StoreDirSyncFails, Kill, Started
<1> DEFINE r == [build[b] EXCEPT !.pc = pc]
<1>2. Set(b, r)
  BY <1>1 DEF Goto
<1>3. r \in BuildRecord
  BY <1>0 DEF BuildRecord
<1>4. build'[b] = r
  BY <1>2, <1>3, SetOne DEF CacheFlow
<1>5. /\ r.frame = build[b].frame /\ r.pc = pc
      /\ r.result = build[b].result /\ r.pending = build[b].pending
      /\ r.stored = build[b].stored
  BY <1>0 DEF BuildRecord
<1> HIDE DEF r
<1>6. StoreFlow(b)'
  BY <1>0, <1>1, <1>4, <1>5 DEF StoreFlow, Whole
<1>7. LoadFlow(b)' /\ QuietFlow(b)'
  BY <1>4, <1>5 DEF LoadFlow, QuietFlow
<1> QED
  BY <1>1, <1>2, <1>3, <1>5, <1>6, <1>7, OneBuildMoves

\* A step of store that writes its own file, which is not yet the entry's,
\* disturbs nobody else.
LEMMA StorerMoves ==
    ASSUME CacheFlow, NEW b \in Builders, NEW r \in BuildRecord, NEW g \in FileRecord,
           Set(b, r), file' = [file EXCEPT ![b] = g],
           UNCHANGED <<entry, durable, held, damage>>,
           staging' \in {staging, staging \cup {b}, staging \ {b}},
           build[b].pc \in Storing \cup {"flush"}, r.pc \in Storing \cup {"returned"},
           r.frame = build[b].frame,
           StoreFlow(b)'
    PROVE  CacheFlow'
<1> USE DEF Loading, Storing, Settled
<1>1. /\ build' \in [Builders -> BuildRecord]
      /\ build'[b] = r
      /\ \A c \in Builders : c # b => build'[c] = build[c]
  BY SetOne DEF CacheFlow
<1>2. /\ b \in Files
      /\ file' \in [Files -> FileRecord]
      /\ \A x \in Files : x # b => file'[x] = file[x]
  BY DEF Files, CacheFlow, CacheTypes
<1>3. b \notin {entry, durable}
  BY Own DEF StoreFlow
<1>4. CacheTypes'
  BY <1>1, <1>2 DEF CacheFlow, CacheTypes
<1>5. EntryHeld'
  BY <1>2, <1>3 DEF CacheFlow, CacheTypes, EntryHeld
<1>6. \A c \in Builders : build'[c].frame = build[c].frame
  BY <1>1
<1>7. ASSUME NEW c \in Builders, c # b
      PROVE  StoreFlow(c)' /\ LoadFlow(c)' /\ QuietFlow(c)'
  <2>0. /\ build'[c] = build[c] /\ file'[c] = file[c]
        /\ StoreFlow(c) /\ LoadFlow(c) /\ QuietFlow(c)
    BY <1>1, <1>2, <1>7 DEF CacheFlow, Files
  <2>1. StoreFlow(c)'
    BY <2>0, <1>7 DEF StoreFlow, Whole
  <2>2. LoadFlow(c)'
    <3>1. ASSUME build[c].pc \in Loading
          PROVE  /\ build[c].seen \in Seen
                 /\ file'[build[c].seen.name] = file[build[c].seen.name]
                 /\ build[c].seen.name \in Builders =>
                       build'[build[c].seen.name] = build[build[c].seen.name]
      <4>1. build[c].seen \in Seen /\ build[c].seen.name # b
        BY <2>0, <3>1 DEF LoadFlow
      <4> QED
        BY <4>1, <1>1, <1>2 DEF Seen
    <3> QED
      BY <2>0, <3>1 DEF LoadFlow
  <2>3. QuietFlow(c)'
    <3>1. entry \in Builders => file'[entry] = file[entry]
      BY <1>2, <1>3 DEF Files
    <3> QED
      BY <2>0, <1>6, <3>1 DEF QuietFlow, Whole, Identity
  <2> QED
    BY <2>1, <2>2, <2>3
<1>8. LoadFlow(b)' /\ QuietFlow(b)'
  BY <1>1 DEF LoadFlow, QuietFlow
<1> QED
  BY <1>4, <1>5, <1>7, <1>8 DEF CacheFlow

\* store creates, writes and syncs its staging file, or gives up.
LEMMA StagingKeeps ==
    ASSUME CacheFlow, NEW b \in Builders,
           StoreOpen(b) \/ StoreWrite(b) \/ StoreSync(b) \/ StoreFails(b)
    PROVE  CacheFlow'
<1> USE DEF Loading, Storing, Settled, BuildStates
<1>0. /\ build[b] \in BuildRecord /\ StoreFlow(b)
      /\ b \in Files /\ file[b] \in FileRecord /\ file \in [Files -> FileRecord]
      /\ build[b].frame \in Frames
  BY Own DEF CacheFlow, CacheTypes, Files, BuildRecord
<1>1. CASE StoreOpen(b)
  <2> DEFINE r == [build[b] EXCEPT !.pc = "write"]
             c == [key |-> "ours", payload |-> Garbage, digest |-> build[b].pending]
             g == [content |-> c, stamp |-> 0, synced |-> FALSE]
  <2>1. /\ Set(b, r) /\ file' = [file EXCEPT ![b] = g] /\ build[b].pc = "flush"
        /\ UNCHANGED <<entry, durable, held, damage>> /\ staging' = staging \cup {b}
        /\ build[b].pending # None
    BY <1>1 DEF StoreOpen, Goto
  <2>2. r \in BuildRecord
    BY <1>0 DEF BuildRecord
  <2>3. build[b].pending = build[b].frame
    BY <1>0, <2>1 DEF StoreFlow
  <2>4. c \in Contents /\ g \in FileRecord
    BY <1>0, <2>3 DEF Contents, Bytes, FileRecord
  <2>5. build'[b] = r /\ file'[b] = g
    BY <1>0, <2>1, <2>2, SetOne DEF CacheFlow
  <2>6. /\ r.frame = build[b].frame /\ r.pc = "write" /\ r.result = build[b].result
        /\ r.pending = build[b].pending /\ r.stored = build[b].stored
        /\ g.content = c
    BY <1>0 DEF BuildRecord
  <2> HIDE DEF r, g
  <2>7. c = [Whole(b)' EXCEPT !.payload = Garbage]
    BY <2>3, <2>5, <2>6 DEF Whole
  <2> HIDE DEF c
  <2>8. StoreFlow(b)'
    BY <1>0, <2>1, <2>3, <2>5, <2>6, <2>7 DEF StoreFlow
  <2> QED
    BY <2>1, <2>2, <2>4, <2>6, <2>8, StorerMoves
<1>2. CASE StoreWrite(b)
  <2> DEFINE r == [build[b] EXCEPT !.pc = "sync"]
             g == [file[b] EXCEPT !.content.payload = build[b].pending]
  <2>1. /\ Set(b, r) /\ file' = [file EXCEPT ![b] = g] /\ build[b].pc = "write"
        /\ UNCHANGED <<entry, durable, held, damage, staging>>
    BY <1>0, <1>2 DEF StoreWrite, Goto
  <2>2. r \in BuildRecord
    BY <1>0 DEF BuildRecord
  <2>3. /\ build[b].pending = build[b].frame
        /\ file[b].content = [key |-> "ours", payload |-> Garbage, digest |-> build[b].frame]
    BY <1>0, <2>1 DEF StoreFlow, Whole
  <2>4. g.content = Whole(b)
    BY <1>0, <2>3 DEF Whole, FileRecord
  <2>5. Whole(b) \in Contents
    BY <1>0 DEF Whole, Contents, Bytes
  <2>6. g \in FileRecord
    BY <1>0, <2>4, <2>5 DEF FileRecord
  <2>7. build'[b] = r /\ file'[b] = g
    BY <1>0, <2>1, <2>2, SetOne DEF CacheFlow
  <2>8. /\ r.frame = build[b].frame /\ r.pc = "sync" /\ r.result = build[b].result
        /\ r.pending = build[b].pending /\ r.stored = build[b].stored
    BY <1>0 DEF BuildRecord
  <2> HIDE DEF r, g
  <2>9. StoreFlow(b)'
    BY <1>0, <2>1, <2>3, <2>4, <2>7, <2>8 DEF StoreFlow, Whole
  <2> QED
    BY <2>1, <2>2, <2>6, <2>8, <2>9, StorerMoves
<1>3. CASE StoreSync(b)
  <2> DEFINE r == [build[b] EXCEPT !.pc = "rename"]
             g == [file[b] EXCEPT !.synced = TRUE]
  <2>1. /\ Set(b, r) /\ file' = [file EXCEPT ![b] = g] /\ build[b].pc = "sync"
        /\ UNCHANGED <<entry, durable, held, damage, staging>>
    BY <1>0, <1>3 DEF StoreSync, Goto
  <2>2. r \in BuildRecord
    BY <1>0 DEF BuildRecord
  <2>3. g \in FileRecord /\ g.content = file[b].content /\ g.synced = TRUE
    BY <1>0 DEF FileRecord
  <2>4. build'[b] = r /\ file'[b] = g
    BY <1>0, <2>1, <2>2, SetOne DEF CacheFlow
  <2>5. /\ r.frame = build[b].frame /\ r.pc = "rename" /\ r.result = build[b].result
        /\ r.pending = build[b].pending /\ r.stored = build[b].stored
    BY <1>0 DEF BuildRecord
  <2> HIDE DEF r, g
  <2>6. StoreFlow(b)'
    BY <1>0, <2>1, <2>3, <2>4, <2>5 DEF StoreFlow, Whole
  <2> QED
    BY <2>1, <2>2, <2>3, <2>5, <2>6, StorerMoves
<1>4. CASE StoreFails(b)
  <2> DEFINE r == [build[b] EXCEPT !.pc = "returned"]
  <2>1. /\ Set(b, r) /\ file' = file /\ build[b].pc \in Storing
        /\ UNCHANGED <<entry, durable, held, damage>> /\ staging' = staging \ {b}
    BY <1>4 DEF StoreFails, Unstaged, Goto
  <2>2. r \in BuildRecord
    BY <1>0 DEF BuildRecord
  <2>3. file' = [file EXCEPT ![b] = file[b]]
    BY <1>0, <2>1
  <2>4. build'[b] = r
    BY <2>1, <2>2, SetOne DEF CacheFlow
  <2>5. /\ r.frame = build[b].frame /\ r.pc = "returned" /\ r.result = build[b].result
        /\ r.pending = build[b].pending /\ r.stored = build[b].stored
    BY <1>0 DEF BuildRecord
  <2> HIDE DEF r
  <2>6. StoreFlow(b)'
    BY <1>0, <2>1, <2>4, <2>5 DEF StoreFlow, Whole
  <2> QED
    BY <1>0, <2>1, <2>2, <2>3, <2>5, <2>6, StorerMoves
<1> QED
  BY <1>1, <1>2, <1>3, <1>4

\* Everybody's load is disturbed, and nothing else of any build changes.
LEMMA DisturbedFields ==
    ASSUME CacheTypes, NEW c \in Builders
    PROVE  /\ Disturbed(build) \in [Builders -> BuildRecord]
           /\ LET d == Disturbed(build)[c] IN
              /\ d.quiet = FALSE /\ d.pc = build[c].pc /\ d.frame = build[c].frame
              /\ d.seen = build[c].seen /\ d.read = build[c].read
              /\ d.result = build[c].result /\ d.reused = build[c].reused
              /\ d.pending = build[c].pending /\ d.stored = build[c].stored
<1>1. \A e \in Builders : [build[e] EXCEPT !.quiet = FALSE] \in BuildRecord
  BY DEF CacheTypes, BuildRecord
<1>2. Disturbed(build) \in [Builders -> BuildRecord]
  BY <1>1 DEF Disturbed
<1>3. Disturbed(build)[c] = [build[c] EXCEPT !.quiet = FALSE] /\ build[c] \in BuildRecord
  BY DEF Disturbed, CacheTypes
<1> QED
  BY <1>2, <1>3 DEF BuildRecord

\* store renames its whole, synced file to the entry's path.
LEMMA StoreRenameKeeps ==
    ASSUME CacheFlow, NEW b \in Builders, StoreRename(b)
    PROVE  CacheFlow'
<1> USE DEF Loading, Storing, Settled, BuildStates
<1> DEFINE d == Disturbed(build)
           r == [d[b] EXCEPT !.pc = "dirsync"]
<1>0. /\ StoreFlow(b) /\ b \in Files /\ b # None
  BY Own DEF Files
<1>1. /\ entry' = b /\ staging' = staging \ {b} /\ held' = held \cup {file[b].content}
      /\ UNCHANGED <<durable, file, damage>> /\ build[b].pc = "rename"
      /\ build' = [d EXCEPT ![b] = r]
  BY DEF StoreRename
<1>2. d \in [Builders -> BuildRecord] /\ d[b] \in BuildRecord
  BY DisturbedFields DEF CacheFlow
<1>3. r \in BuildRecord
  BY <1>2 DEF BuildRecord
<1>4. /\ r.pc = "dirsync" /\ r.quiet = d[b].quiet /\ r.frame = d[b].frame
      /\ r.result = d[b].result /\ r.pending = d[b].pending /\ r.stored = d[b].stored
  BY <1>2 DEF BuildRecord
<1>5. /\ build' \in [Builders -> BuildRecord] /\ build'[b] = r
      /\ \A c \in Builders : c # b => build'[c] = d[c]
  BY <1>1, <1>2, <1>3
<1> HIDE DEF d, r
<1>6. ASSUME NEW c \in Builders
      PROVE  /\ build'[c].quiet = FALSE /\ build'[c].frame = build[c].frame
             /\ build'[c].result = build[c].result /\ build'[c].pending = build[c].pending
             /\ build'[c].stored = build[c].stored
             /\ c # b => /\ build'[c].pc = build[c].pc /\ build'[c].seen = build[c].seen
                         /\ build'[c].read = build[c].read
  <2>1. /\ d[c].quiet = FALSE /\ d[c].pc = build[c].pc /\ d[c].frame = build[c].frame
        /\ d[c].seen = build[c].seen /\ d[c].read = build[c].read
        /\ d[c].result = build[c].result
        /\ d[c].pending = build[c].pending /\ d[c].stored = build[c].stored
    BY DisturbedFields DEF d, CacheFlow
  <2> QED
    BY <1>4, <1>5, <2>1
<1>7. CacheTypes' /\ EntryHeld'
  BY <1>0, <1>1, <1>5 DEF CacheFlow, CacheTypes, EntryHeld
<1>8. ASSUME NEW c \in Builders
      PROVE  StoreFlow(c)' /\ LoadFlow(c)' /\ QuietFlow(c)'
  <2>0. StoreFlow(c) /\ LoadFlow(c)
    BY Own
  <2>1. QuietFlow(c)'
    BY <1>6 DEF QuietFlow
  <2>2. CASE c = b
    <3>1. build'[b].pc = "dirsync"
      BY <1>4, <1>5
    <3>2. StoreFlow(b)'
      BY <1>0, <1>1, <1>6, <3>1 DEF StoreFlow, Whole
    <3>3. LoadFlow(b)'
      BY <3>1 DEF LoadFlow
    <3> QED
      BY <2>1, <2>2, <3>2, <3>3
  <2>3. CASE c # b
    <3>1. StoreFlow(c)'
      BY <1>0, <1>1, <1>6, <2>0, <2>3 DEF StoreFlow, Whole
    <3>2. \A e \in Builders : build[e].pc \in Settled => build'[e].pc \in Settled
      <4>1. build'[b].pc \in Settled
        BY <1>4, <1>5
      <4>2. \A e \in Builders : e # b => build'[e].pc = build[e].pc
        BY <1>6
      <4> QED
        BY <4>1, <4>2, Zenon
    <3>3. LoadFlow(c)'
      <4>1. /\ build'[c].pc = build[c].pc /\ build'[c].seen = build[c].seen
            /\ build'[c].read = build[c].read /\ file' = file /\ held \subseteq held'
        BY <1>1, <1>6, <2>3
      <4> QED
        BY <2>0, <3>2, <4>1 DEF LoadFlow
    <3> QED
      BY <2>1, <3>1, <3>3
  <2> QED
    BY <2>2, <2>3
<1> QED
  BY <1>7, <1>8 DEF CacheFlow

\* store syncs the directory: the entry of this moment stays.
LEMMA StoreDirSyncKeeps ==
    ASSUME CacheFlow, NEW b \in Builders, StoreDirSync(b)
    PROVE  CacheFlow'
<1> USE DEF Loading, Storing, Settled, BuildStates
<1> DEFINE r == [build[b] EXCEPT !.pc = "returned", !.stored = TRUE]
<1>0. build[b] \in BuildRecord /\ StoreFlow(b)
  BY Own
<1>1. /\ durable' = entry /\ Set(b, r) /\ build[b].pc = "dirsync"
      /\ UNCHANGED <<entry, file, staging, held, damage>>
  BY DEF StoreDirSync, DirSynced
<1>2. r \in BuildRecord
  BY <1>0 DEF BuildRecord
<1>3. /\ build' \in [Builders -> BuildRecord] /\ build'[b] = r
      /\ \A c \in Builders : c # b => build'[c] = build[c]
  BY <1>1, <1>2, SetOne DEF CacheFlow
<1>4. /\ r.pc = "returned" /\ r.stored = TRUE /\ r.frame = build[b].frame
      /\ r.result = build[b].result /\ r.pending = build[b].pending
  BY <1>0 DEF BuildRecord
<1> HIDE DEF r
<1>5. entry # None
  BY <1>0, <1>1 DEF StoreFlow
<1>6. CacheTypes' /\ EntryHeld'
  BY <1>1, <1>3 DEF CacheFlow, CacheTypes, EntryHeld
<1>7. \A c \in Builders :
         /\ build'[c].frame = build[c].frame
         /\ build[c].pc \in Settled => build'[c].pc \in Settled
  BY <1>3, <1>4
<1>8. ASSUME NEW c \in Builders
      PROVE  StoreFlow(c)' /\ LoadFlow(c)' /\ QuietFlow(c)'
  <2>0. StoreFlow(c) /\ LoadFlow(c) /\ QuietFlow(c)
    BY Own
  <2>1. CASE c = b
    <3>1. StoreFlow(b)'
      BY <1>0, <1>1, <1>3, <1>4, <1>5 DEF StoreFlow, Whole
    <3>2. LoadFlow(b)' /\ QuietFlow(b)'
      BY <1>3, <1>4 DEF LoadFlow, QuietFlow
    <3> QED
      BY <2>1, <3>1, <3>2
  <2>2. CASE c # b
    <3>0. build'[c] = build[c]
      BY <1>3, <2>2
    <3>1. StoreFlow(c)'
      BY <1>1, <1>5, <2>0, <3>0 DEF StoreFlow, Whole
    <3>2. LoadFlow(c)'
      BY <1>1, <1>7, <2>0, <3>0 DEF LoadFlow
    <3>3. QuietFlow(c)'
      BY <1>1, <1>7, <2>0, <3>0 DEF QuietFlow, Whole, Identity
    <3> QED
      BY <3>1, <3>2, <3>3
  <2> QED
    BY <2>1, <2>2
<1> QED
  BY <1>6, <1>8 DEF CacheFlow

\* A write from outside gives the entry's file another stamp.
LEMMA DamageKeeps ==
    ASSUME CacheFlow, NEW x \in Foreign, Damage(x)
    PROVE  CacheFlow'
<1> USE DEF Loading, Storing, Settled
<1> DEFINE g == [file[entry] EXCEPT !.content = x, !.stamp = @ + 1]
<1>1. /\ entry # None /\ damage' = damage + 1 /\ held' = held \cup {x}
      /\ build' = Disturbed(build) /\ UNCHANGED <<entry, durable, staging>>
  BY DEF Damage
<1>2. entry \in Files /\ file[entry] \in FileRecord /\ file \in [Files -> FileRecord]
      /\ damage \in Nat
  BY <1>1 DEF CacheFlow, CacheTypes
<1>3. file' = [file EXCEPT ![entry] = g]
  BY <1>2 DEF Damage
<1>4. x \in Contents
  OBVIOUS
<1>5. /\ g \in FileRecord /\ g.content = x /\ g.stamp = file[entry].stamp + 1
      /\ g.synced = file[entry].synced
  <2>1. file[entry].stamp + 1 \in Nat
    BY <1>2 DEF FileRecord
  <2>2. g = [file[entry] EXCEPT !.content = x, !.stamp = file[entry].stamp + 1]
    BY <1>2 DEF FileRecord
  <2> HIDE DEF g
  <2> QED
    BY <1>2, <1>4, <2>1, <2>2 DEF FileRecord
<1>6. /\ file' \in [Files -> FileRecord] /\ file'[entry] = g
      /\ \A y \in Files : y # entry => file'[y] = file[y]
  BY <1>2, <1>3, <1>5
<1> HIDE DEF g
<1>7. \A c \in Builders :
         /\ build'[c].quiet = FALSE /\ build'[c].frame = build[c].frame
         /\ build'[c].result = build[c].result /\ build'[c].pending = build[c].pending
         /\ build'[c].stored = build[c].stored
         /\ build'[c].pc = build[c].pc /\ build'[c].seen = build[c].seen
         /\ build'[c].read = build[c].read
  BY <1>1, DisturbedFields DEF CacheFlow
<1>8. CacheTypes'
  <2>1. build' \in [Builders -> BuildRecord]
    <3>1. CASE Builders = {}
      BY <1>1, <3>1 DEF Disturbed
    <3>2. CASE Builders # {}
      BY <1>1, <3>2, DisturbedFields DEF CacheFlow
    <3> QED
      BY <3>1, <3>2
  <2> QED
    BY <1>1, <1>2, <1>6, <2>1 DEF CacheFlow, CacheTypes
<1>9. EntryHeld'
  BY <1>1, <1>5, <1>6 DEF EntryHeld
<1>10. damage' # 0
  BY <1>1, <1>2
<1>11. ASSUME NEW c \in Builders
       PROVE  StoreFlow(c)' /\ LoadFlow(c)' /\ QuietFlow(c)'
  <2>0. StoreFlow(c) /\ LoadFlow(c)
    BY Own
  <2>1. StoreFlow(c)'
    <3>1. c \in Files /\ (c # entry => file'[c] = file[c])
      BY <1>6 DEF Files
    <3> QED
      BY <1>1, <1>5, <1>6, <1>7, <1>10, <2>0, <3>1 DEF StoreFlow, Whole
  <2>2. LoadFlow(c)'
    <3>1. ASSUME build[c].pc \in Loading
          PROVE  LET s == build[c].seen IN
                 /\ s \in Seen /\ s.stamp \in Nat /\ s.stamp <= file[s.name].stamp
                 /\ s.name = entry =>
                       s.stamp <= file'[s.name].stamp /\ s.stamp # file'[s.name].stamp
                 /\ s.name # entry => file'[s.name] = file[s.name]
      <4>1. /\ build[c].seen \in Seen
            /\ build[c].seen.stamp <= file[build[c].seen.name].stamp
        BY <2>0, <3>1 DEF LoadFlow
      <4>2. build[c].seen.name \in Files /\ build[c].seen.stamp \in Nat
        BY <4>1 DEF Seen
      <4>3. file[entry].stamp \in Nat
        BY <1>2 DEF FileRecord
      <4> QED
        BY <4>1, <4>2, <4>3, <1>5, <1>6
    <3>2. CASE build[c].pc \in Loading
      <4>1. CASE build[c].seen.name = entry
        BY <1>7, <2>0, <3>1, <3>2, <4>1 DEF LoadFlow
      <4>2. CASE build[c].seen.name # entry
        BY <1>7, <2>0, <3>1, <3>2, <4>2 DEF LoadFlow
      <4> QED
        BY <4>1, <4>2
    <3>3. CASE build[c].pc \notin Loading
      BY <1>1, <1>7, <2>0, <3>3 DEF LoadFlow
    <3> QED
      BY <3>2, <3>3
  <2>3. QuietFlow(c)'
    BY <1>7 DEF QuietFlow
  <2> QED
    BY <2>1, <2>2, <2>3
<1> QED
  BY <1>8, <1>9, <1>11 DEF CacheFlow

\* A power loss ends every build, tears only files that were not synced, and may
\* undo only a rename whose directory was not synced.
LEMMA PowerLossKeeps ==
    ASSUME CacheFlow, PowerLoss
    PROVE  CacheFlow'
<1> USE DEF Loading, Storing, Settled, BuildStates
<1>1. /\ entry' \in {entry, durable} /\ durable' = entry' /\ UNCHANGED <<staging, damage>>
      /\ held' = IF entry' = None THEN held ELSE held \cup {file'[entry'].content}
  BY DEF PowerLoss
<1>2. ASSUME NEW x \in Files
      PROVE  /\ file'[x] \in FileRecord
             /\ file[x].synced => file'[x] = file[x]
  <2> DEFINE g == [file[x] EXCEPT !.content.payload = Garbage, !.synced = TRUE]
  <2>1. file[x] \in FileRecord /\ file'[x] = IF file[x].synced THEN file[x] ELSE g
    BY DEF PowerLoss, CacheFlow, CacheTypes
  <2>2. [file[x].content EXCEPT !.payload = Garbage] \in Contents
    BY <2>1 DEF FileRecord, Contents, Bytes
  <2>3. g = [file[x] EXCEPT !.content = [file[x].content EXCEPT !.payload = Garbage],
                            !.synced = TRUE]
    BY <2>1 DEF FileRecord
  <2>4. g \in FileRecord
    BY <2>1, <2>2, <2>3 DEF FileRecord
  <2> QED
    BY <2>1, <2>4
<1>3. file' \in [Files -> FileRecord]
  <2>1. file' = [x \in Files |-> file'[x]]
    BY DEF PowerLoss
  <2> QED
    BY <1>2, <2>1
<1>4. ASSUME NEW c \in Builders
      PROVE  /\ build'[c] \in BuildRecord
             /\ build'[c].pc = IF Started(c) THEN "crashed" ELSE build[c].pc
             /\ build'[c].frame = build[c].frame /\ build'[c].read = build[c].read
             /\ build'[c].result = build[c].result /\ build'[c].pending = build[c].pending
             /\ build'[c].stored = build[c].stored
  <2>1. build[c] \in BuildRecord
    BY DEF CacheFlow, CacheTypes
  <2>2. build'[c] = IF Started(c) THEN [build[c] EXCEPT !.pc = "crashed"] ELSE build[c]
    BY DEF PowerLoss
  <2> QED
    BY <2>1, <2>2 DEF BuildRecord
<1>5. build' \in [Builders -> BuildRecord]
  <2>1. build' = [c \in Builders |-> build'[c]]
    BY DEF PowerLoss
  <2> QED
    BY <1>4, <2>1
<1>6. CacheTypes' /\ EntryHeld'
  BY <1>1, <1>3, <1>5 DEF CacheFlow, CacheTypes, EntryHeld
<1>7. ASSUME NEW c \in Builders
      PROVE  StoreFlow(c)' /\ LoadFlow(c)' /\ QuietFlow(c)'
  <2>0. StoreFlow(c) /\ LoadFlow(c) /\ build[c] \in BuildRecord
    BY Own
  <2>1. build'[c].pc \in {"idle", "returned", "crashed"}
    BY <1>4, <2>0 DEF Started, BuildRecord
  <2>2. c \in Files
    BY DEF Files
  <2>3. StoreFlow(c)'
    BY <1>1, <1>2, <1>4, <2>0, <2>1, <2>2 DEF StoreFlow, Whole, Started
  <2>4. LoadFlow(c)'
    BY <1>4, <2>0, <2>1 DEF LoadFlow, Started
  <2>5. QuietFlow(c)'
    BY <2>1 DEF QuietFlow
  <2> QED
    BY <2>3, <2>4, <2>5
<1> QED
  BY <1>6, <1>7 DEF CacheFlow

\* Whatever an earlier process left in the cache, the invariant holds before any build.
LEMMA CacheStarts == Init => CacheFlow
<1> SUFFICES ASSUME Init PROVE CacheFlow
  OBVIOUS
<1>1. PICK c \in Foreign :
         /\ file = [x \in Files |-> [content |-> c, stamp |-> 0, synced |-> TRUE]]
         /\ held = IF entry = None THEN {} ELSE {c}
  BY DEF Init
<1>2. c \in Contents
  OBVIOUS
<1>3. PICK frame \in [Builders -> Frames] :
         build = [b \in Builders |->
                    [pc |-> "idle", frame |-> frame[b], seen |-> None, read |-> None,
                     result |-> None, reused |-> FALSE, pending |-> None,
                     stored |-> FALSE, quiet |-> TRUE]]
  BY DEF Init
<1>4. file \in [Files -> FileRecord]
  BY <1>1, <1>2 DEF FileRecord
<1>5. build \in [Builders -> BuildRecord]
  BY <1>3 DEF BuildRecord, BuildStates
<1>6. entry \in {None, Left} /\ durable = entry /\ staging = {} /\ damage = 0
  BY DEF Init
<1>7. CacheTypes
  BY <1>4, <1>5, <1>6 DEF CacheTypes, Files
<1>8. EntryHeld
  BY <1>1, <1>6 DEF EntryHeld, Files
<1>9. ASSUME NEW b \in Builders
      PROVE  StoreFlow(b) /\ LoadFlow(b) /\ QuietFlow(b)
  <2>1. /\ build[b].pc = "idle" /\ build[b].read = None /\ build[b].result = None
        /\ build[b].pending = None /\ build[b].stored = FALSE
    BY <1>3
  <2>2. b \notin {entry, durable}
    BY <1>6 DEF Files
  <2> QED
    BY <1>6, <2>1, <2>2 DEF StoreFlow, LoadFlow, QuietFlow, Loading, Storing
<1> QED
  BY <1>7, <1>8, <1>9 DEF CacheFlow

\* Every step of a build, and of what disturbs builds, keeps the cache's invariant.
LEMMA CacheKeeps ==
    ASSUME CacheFlow,
           \/ \E b \in Builders : \/ LoadStep(b) \/ StoreStep(b) \/ Published(b)
                                 \/ BuildFails(b) \/ Kill(b)
           \/ \E c \in Foreign : Damage(c)
           \/ PowerLoss
           \/ UNCHANGED vars
    PROVE  CacheFlow'
<1>1. CASE UNCHANGED vars
  BY <1>1 DEF vars, CacheFlow, CacheTypes, EntryHeld, StoreFlow, LoadFlow, QuietFlow, Whole,
     Identity
<1> QED
  BY <1>1, LoadStatKeeps, LoadOpenKeeps, LoadHeadKeeps, LoadBodyKeeps, LoadCheckKeeps,
     ResolveKeeps, MoveKeeps, StagingKeeps, StoreRenameKeeps, StoreDirSyncKeeps, DamageKeeps,
     PowerLossKeeps DEF LoadStep, StoreStep

\* What the inductive invariant says of the cache.
LEMMA CacheHolds == CacheFlow => CacheInv /\ ResolvedIsProduced
<1> SUFFICES ASSUME CacheFlow PROVE CacheInv /\ ResolvedIsProduced
  OBVIOUS
<1>1. CacheTypeOK
  <2>1. \A b \in Builders : StoreFlow(b) /\ build[b] \in BuildRecord
    BY Own
  <2>2. \A x \in Files : file[x] \in FileRecord
    BY DEF CacheFlow, CacheTypes
  <2> QED
    BY <2>1, <2>2 DEF CacheFlow, CacheTypes, CacheTypeOK, StoreFlow, BuildRecord, FileRecord
<1>2. VisibleEntryWhole
  BY DEF CacheFlow, StoreFlow, Whole, VisibleEntryWhole
<1>3. CandidateWasHeld
  BY DEF CacheFlow, LoadFlow, CandidateWasHeld
<1>4. NoStagingLeft
  BY DEF CacheFlow, StoreFlow, Storing, NoStagingLeft
<1>5. StoredIsDurable
  BY DEF CacheFlow, StoreFlow, StoredIsDurable
<1>6. UndisturbedHit
  BY DEF CacheFlow, QuietFlow, UndisturbedHit
<1>7. ResolvedIsProduced
  BY DEF CacheFlow, StoreFlow, ResolvedIsProduced
<1> QED
  BY <1>1, <1>2, <1>3, <1>4, <1>5, <1>6, <1>7 DEF CacheInv

-----------------------------------------------------------------------------
(* The publications.                                                       *)

USE BuildAssumption

Names == 1 .. Outputs
PublishStates ==
    {"check", "create", "write", "link", "unstage", "verify", "done", "undo", "returned",
     "killed"}

StagedNames == [Names -> {"whole", Torn, None}]
PublishRecord == [pc : PublishStates, at : Names, outcome : {None, "Ok", "Err"}]

PublicationTypes ==
    /\ outputs \in [Names -> Builders \cup {None}]
    /\ outStaged \in [Builders -> StagedNames]
    /\ pub \in [Builders -> PublishRecord]

\* Where publish_build of b is, its staged files, and which destinations may
\* still be its own.
PublishFlow(b) ==
    /\ pub[b].outcome # None <=> pub[b].pc = "returned"
    /\ pub[b].pc = "check" \/ pub[b].outcome = "Err" =>
          \A o \in Names : outStaged[b][o] = None
    /\ pub[b].pc \in {"create", "write"} =>
          \A o \in Names : o < pub[b].at => outStaged[b][o] = "whole"
    /\ pub[b].pc = "link" => \A o \in Names : outStaged[b][o] = "whole"
    /\ \A o \in Names : outputs[o] = b =>
          \/ pub[b].pc \in {"unstage", "verify", "done", "killed"}
          \/ pub[b].pc = "link" /\ o < pub[b].at
          \/ pub[b].pc = "undo" /\ pub[b].at <= o
          \/ pub[b].outcome = "Ok"

\* The command publishes only what it has resolved, and stores only what it has
\* published.
CommandFlow(b) ==
    /\ build[b].pc \in Loading \cup {"idle", "resolve"} =>
          pub[b].pc = "check" /\ pub[b].at = 1
    /\ build[b].pc \in Storing \cup {"flush", "dirsync"} => pub[b].outcome = "Ok"
    /\ b \in staging \cup {entry, durable} => pub[b].outcome = "Ok"

\* Two builds have files under two names only while the one whose file comes
\* first has not reached the other name, or the other one has not looked back at
\* the first, or one of them is undone or dead, or both published the same.
FilesMeet ==
    \A o, d \in Names :
        (o < d /\ outputs[o] \in Builders /\ outputs[d] \in Builders) =>
            LET p == pub[outputs[o]]
                q == pub[outputs[d]]
            IN  \/ p.pc = "link" /\ p.at <= d
                \/ q.pc \in {"link", "unstage"}
                \/ q.pc = "verify" /\ q.at <= o
                \/ p.pc \in {"undo", "killed"}
                \/ q.pc \in {"undo", "killed"}
                \/ build[outputs[o]].result = build[outputs[d]].result

BuildInv ==
    /\ CacheFlow
    /\ PublicationTypes
    /\ \A b \in Builders : PublishFlow(b) /\ CommandFlow(b)
    /\ FilesMeet

\* What the invariant says of one build's publication.
LEMMA OwnPublication ==
    ASSUME BuildInv, NEW b \in Builders
    PROVE  /\ pub[b] \in PublishRecord /\ outStaged[b] \in StagedNames
           /\ PublishFlow(b) /\ CommandFlow(b)
           /\ 1 \in Names /\ Outputs \in Names
BY DEF BuildInv, PublicationTypes, Names

\* A step of one publication, which gives destinations to its own files only or
\* takes them away, disturbs no other one.
LEMMA PublisherMoves ==
    ASSUME BuildInv, NEW b \in Builders, build[b].pc = "publish", UNCHANGED vars,
           NEW r \in PublishRecord, pub' = [pub EXCEPT ![b] = r],
           NEW s \in StagedNames, outStaged' = [outStaged EXCEPT ![b] = s],
           outputs' \in [Names -> Builders \cup {None}],
           \A o \in Names : outputs'[o] \in {outputs[o], None, b},
           PublishFlow(b)', FilesMeet'
    PROVE  BuildInv'
<1>1. CacheFlow'
  BY CacheKeeps DEF BuildInv
<1>2. PublicationTypes'
  BY DEF BuildInv, PublicationTypes
<1>3. ASSUME NEW c \in Builders
      PROVE  PublishFlow(c)' /\ CommandFlow(c)'
  <2>1. CASE c = b
    <3>1. b \notin staging \cup {entry, durable}
      BY Own DEF BuildInv, StoreFlow, Storing, Settled
    <3>2. CommandFlow(b)'
      BY <3>1 DEF CommandFlow, vars, Loading, Storing
    <3> QED
      BY <2>1, <3>2
  <2>2. CASE c # b
    <3>1. /\ pub'[c] = pub[c] /\ outStaged'[c] = outStaged[c]
          /\ PublishFlow(c) /\ CommandFlow(c)
      BY <2>2, OwnPublication DEF BuildInv, PublicationTypes
    <3>2. \A o \in Names : outputs'[o] = c => outputs[o] = c
      BY <2>2 DEF Files
    <3>3. PublishFlow(c)'
      BY <3>1, <3>2 DEF PublishFlow
    <3>4. CommandFlow(c)'
      BY <3>1 DEF CommandFlow, vars
    <3> QED
      BY <3>3, <3>4
  <2> QED
    BY <2>1, <2>2
<1> QED
  BY <1>1, <1>2, <1>3 DEF BuildInv

\* The step of one publication keeps FilesMeet when it gives no name away and
\* leaves the pairs of its own files explained.
LEMMA MeetKept ==
    ASSUME BuildInv, NEW b \in Builders, UNCHANGED build,
           NEW r \in PublishRecord, pub' = [pub EXCEPT ![b] = r],
           \A o \in Names : outputs'[o] \in {outputs[o], None},
           \/ r.pc \in {"undo", "killed"}
           \/ \A o \in Names : outputs'[o] # b
           \/ pub[b].pc = "unstage" /\ (r.pc = "unstage" \/ (r.pc = "verify" /\ r.at = 1))
           \/ pub[b].pc = "done" /\ r.pc = "returned"
    PROVE  FilesMeet'
<1> SUFFICES ASSUME NEW o \in Names, NEW d \in Names, o < d,
                    outputs'[o] \in Builders, outputs'[d] \in Builders
             PROVE  LET p == pub'[outputs'[o]]
                        q == pub'[outputs'[d]]
                    IN  \/ p.pc = "link" /\ p.at <= d
                        \/ q.pc \in {"link", "unstage"}
                        \/ q.pc = "verify" /\ q.at <= o
                        \/ p.pc \in {"undo", "killed"}
                        \/ q.pc \in {"undo", "killed"}
                        \/ build'[outputs'[o]].result = build'[outputs'[d]].result
  BY DEF FilesMeet
<1>1. outputs'[o] = outputs[o] /\ outputs'[d] = outputs[d]
  BY DEF Files
<1>2. \A c \in Builders : pub'[c] = IF c = b THEN r ELSE pub[c]
  BY DEF BuildInv, PublicationTypes
<1>3. LET p == pub[outputs[o]]
          q == pub[outputs[d]]
      IN  \/ p.pc = "link" /\ p.at <= d
          \/ q.pc \in {"link", "unstage"}
          \/ q.pc = "verify" /\ q.at <= o
          \/ p.pc \in {"undo", "killed"}
          \/ q.pc \in {"undo", "killed"}
          \/ build[outputs[o]].result = build[outputs[d]].result
  BY <1>1 DEF BuildInv, FilesMeet
<1>4. 1 <= o
  BY DEF Names
<1> QED
  BY <1>1, <1>2, <1>3, <1>4

\* A publication goes on with the next file, or with the next phase.
LEMMA Advances ==
    ASSUME NEW b \in Builders, pub \in [Builders -> PublishRecord],
           NEW pc \in PublishStates, NEW next \in PublishStates,
           Publication!Advance(b, pc, next)
    PROVE  \E r \in PublishRecord :
              /\ pub' = [pub EXCEPT ![b] = r]
              /\ r.outcome = pub[b].outcome
              /\ \/ pub[b].at < Outputs /\ r.pc = pc /\ r.at = pub[b].at + 1
                 \/ pub[b].at = Outputs /\ r.pc = next /\ r.at = 1
<1>0. pub[b] \in PublishRecord /\ pub[b].at \in Names
  BY DEF PublishRecord
<1>1. CASE pub[b].at < Outputs
  <2> DEFINE r == [pub[b] EXCEPT !.pc = pc, !.at = pub[b].at + 1]
  <2>1. pub' = [pub EXCEPT ![b] = r]
    BY <1>1 DEF Publication!Advance
  <2>2. pub[b].at + 1 \in Names
    BY <1>0, <1>1 DEF Names
  <2>3. r \in PublishRecord /\ r.pc = pc /\ r.at = pub[b].at + 1 /\ r.outcome = pub[b].outcome
    BY <1>0, <2>2 DEF PublishRecord
  <2> QED
    BY <1>1, <2>1, <2>3
<1>2. CASE ~(pub[b].at < Outputs)
  <2> DEFINE r == [pub[b] EXCEPT !.pc = next, !.at = 1]
  <2>1. pub' = [pub EXCEPT ![b] = r]
    BY <1>0, <1>2 DEF Publication!Advance, PublishRecord
  <2>2. 1 \in Names /\ pub[b].at = Outputs
    BY <1>0, <1>2 DEF Names
  <2>3. r \in PublishRecord /\ r.pc = next /\ r.at = 1 /\ r.outcome = pub[b].outcome
    BY <1>0, <2>2 DEF PublishRecord
  <2> QED
    BY <2>1, <2>2, <2>3
<1> QED
  BY <1>1, <1>2

\* A publication turns to undoing what it did, returns, or dies.
LEMMA Turns ==
    ASSUME NEW b \in Builders, pub \in [Builders -> PublishRecord]
    PROVE  /\ Publication!Goto(b, "undo") =>
                 \E r \in PublishRecord :
                    /\ pub' = [pub EXCEPT ![b] = r]
                    /\ r.outcome = pub[b].outcome /\ r.pc = "undo" /\ r.at = 1
           /\ \A result \in {"Ok", "Err"} : Publication!Return(b, result) =>
                 \E r \in PublishRecord :
                    /\ pub' = [pub EXCEPT ![b] = r]
                    /\ r.outcome = result /\ r.pc = "returned" /\ r.at = pub[b].at
<1>0. pub[b] \in PublishRecord /\ 1 \in Names
  BY DEF Names
<1>1. ASSUME Publication!Goto(b, "undo")
      PROVE  \E r \in PublishRecord :
                /\ pub' = [pub EXCEPT ![b] = r]
                /\ r.outcome = pub[b].outcome /\ r.pc = "undo" /\ r.at = 1
  <2> DEFINE r == [pub[b] EXCEPT !.pc = "undo", !.at = 1]
  <2>1. pub' = [pub EXCEPT ![b] = r]
    BY <1>0, <1>1 DEF Publication!Goto, PublishRecord
  <2>2. r \in PublishRecord /\ r.outcome = pub[b].outcome /\ r.pc = "undo" /\ r.at = 1
    BY <1>0 DEF PublishRecord, PublishStates
  <2> QED
    BY <2>1, <2>2
<1>2. ASSUME NEW result \in {"Ok", "Err"}, Publication!Return(b, result)
      PROVE  \E r \in PublishRecord :
                /\ pub' = [pub EXCEPT ![b] = r]
                /\ r.outcome = result /\ r.pc = "returned" /\ r.at = pub[b].at
  <2> DEFINE r == [pub[b] EXCEPT !.pc = "returned", !.outcome = result]
  <2>1. pub' = [pub EXCEPT ![b] = r]
    BY <1>0, <1>2 DEF Publication!Return, PublishRecord
  <2>2. r \in PublishRecord /\ r.outcome = result /\ r.pc = "returned" /\ r.at = pub[b].at
    BY <1>0 DEF PublishRecord, PublishStates
  <2> QED
    BY <2>1, <2>2
<1> QED
  BY <1>1, <1>2

\* publish_build checks that its destinations do not exist.
LEMMA CheckKeeps ==
    ASSUME BuildInv, NEW b \in Builders, build[b].pc = "publish", UNCHANGED vars,
           Publication!Check(b)
    PROVE  BuildInv'
<1>0. /\ pub \in [Builders -> PublishRecord] /\ outStaged \in [Builders -> StagedNames]
      /\ outputs \in [Names -> Builders \cup {None}] /\ UNCHANGED build
      /\ PublishFlow(b) /\ pub[b] \in PublishRecord /\ outStaged[b] \in StagedNames
  BY OwnPublication DEF BuildInv, PublicationTypes, vars
<1>1. pub[b].pc = "check" /\ UNCHANGED <<outputs, outStaged>>
  BY DEF Publication!Check
<1>2. \E r \in PublishRecord :
         /\ pub' = [pub EXCEPT ![b] = r]
         /\ \/ r.outcome = pub[b].outcome /\ r.pc = "check"
            \/ r.outcome = pub[b].outcome /\ r.pc = "create" /\ r.at = 1
            \/ r.outcome = "Err" /\ r.pc = "returned"
  BY <1>0, Advances, Turns DEF Publication!Check, PublishStates
<1>3. PICK r \in PublishRecord :
         /\ pub' = [pub EXCEPT ![b] = r]
         /\ \/ r.outcome = pub[b].outcome /\ r.pc = "check"
            \/ r.outcome = pub[b].outcome /\ r.pc = "create" /\ r.at = 1
            \/ r.outcome = "Err" /\ r.pc = "returned"
  BY <1>2
<1>4. pub'[b] = r /\ outStaged' = [outStaged EXCEPT ![b] = outStaged[b]]
  BY <1>0, <1>1, <1>3
<1>5. \A o \in Names : outputs[o] # b /\ outStaged[b][o] = None
  BY <1>0, <1>1 DEF PublishFlow
<1>6. PublishFlow(b)'
  <2>1. \A o \in Names : ~(o < 1)
    BY DEF Names
  <2> QED
    BY <1>0, <1>1, <1>3, <1>4, <1>5, <2>1 DEF PublishFlow
<1>7. FilesMeet'
  BY <1>0, <1>1, <1>3, <1>5, MeetKept
<1> QED
  BY <1>0, <1>1, <1>3, <1>4, <1>6, <1>7, PublisherMoves

\* publish_build stages its files, or removes them again when it cannot.
LEMMA StageKeeps ==
    ASSUME BuildInv, NEW b \in Builders, build[b].pc = "publish", UNCHANGED vars,
           Publication!Create(b) \/ Publication!Write(b) \/ Publication!WriteFails(b)
    PROVE  BuildInv'
<1>0. /\ pub \in [Builders -> PublishRecord] /\ outStaged \in [Builders -> StagedNames]
      /\ outputs \in [Names -> Builders \cup {None}] /\ UNCHANGED build
      /\ PublishFlow(b) /\ pub[b] \in PublishRecord /\ outStaged[b] \in StagedNames
      /\ pub[b].at \in Names
  BY OwnPublication DEF BuildInv, PublicationTypes, vars, PublishRecord
<1>1. pub[b].pc \in {"create", "write"} /\ UNCHANGED outputs
  BY DEF Publication!Create, Publication!Write, Publication!WriteFails
<1>2. \A o \in Names : outputs[o] # b
  BY <1>0, <1>1 DEF PublishFlow
<1>3. CASE Publication!Create(b)
  <2> DEFINE r == [pub[b] EXCEPT !.pc = "write"]
             s == [outStaged[b] EXCEPT ![pub[b].at] = Torn]
  <2>1. pub' = [pub EXCEPT ![b] = r] /\ outStaged' = [outStaged EXCEPT ![b] = s]
    BY <1>0, <1>3 DEF Publication!Create
  <2>2. /\ r \in PublishRecord /\ r.pc = "write" /\ r.at = pub[b].at
        /\ r.outcome = pub[b].outcome
    BY <1>0 DEF PublishRecord, PublishStates
  <2>3. s \in StagedNames /\ \A o \in Names : o # pub[b].at => s[o] = outStaged[b][o]
    BY <1>0 DEF StagedNames
  <2>4. pub'[b] = r /\ outStaged'[b] = s
    BY <1>0, <2>1
  <2> HIDE DEF r, s
  <2>5. pub[b].pc = "create"
    BY <1>3 DEF Publication!Create
  <2>6. \A o \in Names : o < pub[b].at => s[o] = "whole"
    <3>1. \A o \in Names : o < pub[b].at => o # pub[b].at
      BY <1>0 DEF Names
    <3> QED
      BY <1>0, <2>3, <2>5, <3>1 DEF PublishFlow
  <2>7. PublishFlow(b)'
    BY <1>0, <1>1, <1>2, <2>2, <2>4, <2>5, <2>6 DEF PublishFlow
  <2>8. FilesMeet'
    BY <1>0, <1>1, <1>2, <2>1, <2>2, MeetKept
  <2> QED
    BY <1>0, <1>1, <2>1, <2>2, <2>3, <2>7, <2>8, PublisherMoves
<1>4. CASE Publication!Write(b)
  <2> DEFINE s == [outStaged[b] EXCEPT ![pub[b].at] = "whole"]
  <2>1. outStaged' = [outStaged EXCEPT ![b] = s] /\ Publication!Advance(b, "create", "link")
        /\ pub[b].pc = "write"
    BY <1>0, <1>4 DEF Publication!Write, Publication!Written
  <2>2. PICK r \in PublishRecord :
           /\ pub' = [pub EXCEPT ![b] = r]
           /\ r.outcome = pub[b].outcome
           /\ \/ pub[b].at < Outputs /\ r.pc = "create" /\ r.at = pub[b].at + 1
              \/ pub[b].at = Outputs /\ r.pc = "link" /\ r.at = 1
    BY <1>0, <2>1, Advances DEF PublishStates
  <2>3. /\ s \in StagedNames /\ s[pub[b].at] = "whole"
        /\ \A o \in Names : o # pub[b].at => s[o] = outStaged[b][o]
    BY <1>0 DEF StagedNames
  <2>4. pub'[b] = r /\ outStaged'[b] = s
    BY <1>0, <2>1, <2>2
  <2> HIDE DEF s
  <2>5. \A o \in Names : o <= pub[b].at => s[o] = "whole"
    <3>1. \A o \in Names : o <= pub[b].at => o < pub[b].at \/ o = pub[b].at
      BY <1>0 DEF Names
    <3> QED
      BY <1>0, <2>1, <2>3, <3>1 DEF PublishFlow
  <2>9. PublishFlow(b)'
    <3>1. CASE pub[b].at < Outputs /\ r.pc = "create" /\ r.at = pub[b].at + 1
      <4>1. \A o \in Names : o < r.at => o <= pub[b].at
        BY <1>0, <3>1 DEF Names
      <4> QED
        BY <1>0, <1>1, <1>2, <2>1, <2>2, <2>4, <2>5, <3>1, <4>1 DEF PublishFlow
    <3>2. CASE pub[b].at = Outputs /\ r.pc = "link" /\ r.at = 1
      <4>1. \A o \in Names : o <= pub[b].at
        BY <3>2 DEF Names
      <4> QED
        BY <1>0, <1>1, <1>2, <2>1, <2>2, <2>4, <2>5, <3>2, <4>1 DEF PublishFlow
    <3> QED
      BY <2>2, <3>1, <3>2
  <2>8. FilesMeet'
    BY <1>0, <1>1, <1>2, <2>2, MeetKept
  <2> QED
    BY <1>0, <1>1, <2>1, <2>2, <2>3, <2>8, <2>9, PublisherMoves
<1>5. CASE Publication!WriteFails(b)
  <2> DEFINE s == [o \in Names |-> None]
  <2>1. outStaged' = [outStaged EXCEPT ![b] = s] /\ Publication!Return(b, "Err")
    BY <1>5 DEF Publication!WriteFails, Publication!StagingUndone, Publication!Files, Names
  <2>2. PICK r \in PublishRecord :
           /\ pub' = [pub EXCEPT ![b] = r]
           /\ r.outcome = "Err" /\ r.pc = "returned" /\ r.at = pub[b].at
    BY <1>0, <2>1, Turns
  <2>3. s \in StagedNames /\ \A o \in Names : s[o] = None
    BY DEF StagedNames
  <2>4. pub'[b] = r /\ outStaged'[b] = s
    BY <1>0, <2>1, <2>2
  <2> HIDE DEF s
  <2>5. PublishFlow(b)'
    BY <1>1, <1>2, <2>2, <2>3, <2>4 DEF PublishFlow
  <2>6. FilesMeet'
    BY <1>0, <1>1, <1>2, <2>2, MeetKept
  <2> QED
    BY <1>0, <1>1, <2>1, <2>2, <2>3, <2>5, <2>6, PublisherMoves
<1> QED
  BY <1>3, <1>4, <1>5

\* publish_build removes the staged names.
LEMMA UnstageKeeps ==
    ASSUME BuildInv, NEW b \in Builders, build[b].pc = "publish", UNCHANGED vars,
           Publication!Unstage(b)
    PROVE  BuildInv'
<1> DEFINE s == [outStaged[b] EXCEPT ![pub[b].at] = None]
<1>0. /\ pub \in [Builders -> PublishRecord] /\ outStaged \in [Builders -> StagedNames]
      /\ outputs \in [Names -> Builders \cup {None}] /\ UNCHANGED build
      /\ PublishFlow(b) /\ pub[b] \in PublishRecord /\ outStaged[b] \in StagedNames
      /\ pub[b].at \in Names
  BY OwnPublication DEF BuildInv, PublicationTypes, vars, PublishRecord
<1>1. /\ pub[b].pc = "unstage" /\ UNCHANGED outputs /\ outStaged' = [outStaged EXCEPT ![b] = s]
      /\ Publication!Advance(b, "unstage", "verify")
  BY <1>0 DEF Publication!Unstage
<1>2. PICK r \in PublishRecord :
         /\ pub' = [pub EXCEPT ![b] = r]
         /\ r.outcome = pub[b].outcome
         /\ \/ pub[b].at < Outputs /\ r.pc = "unstage" /\ r.at = pub[b].at + 1
            \/ pub[b].at = Outputs /\ r.pc = "verify" /\ r.at = 1
  BY <1>0, <1>1, Advances DEF PublishStates
<1>3. s \in StagedNames
  BY <1>0 DEF StagedNames
<1>4. pub'[b] = r
  BY <1>0, <1>2
<1> HIDE DEF s
<1>5. PublishFlow(b)'
  BY <1>0, <1>1, <1>2, <1>4 DEF PublishFlow
<1>6. FilesMeet'
  <2>1. r.pc = "unstage" \/ (r.pc = "verify" /\ r.at = 1)
    BY <1>2
  <2>2. \A o \in Names : outputs'[o] \in {outputs[o], None}
    BY <1>1
  <2>3. pub' = [pub EXCEPT ![b] = r] /\ pub[b].pc = "unstage" /\ UNCHANGED build
    BY <1>0, <1>1, <1>2
  <2> QED
    BY <2>1, <2>2, <2>3, MeetKept
<1> QED
  BY <1>0, <1>1, <1>2, <1>3, <1>5, <1>6, PublisherMoves

\* publish_build fails after the staging, or returns Ok.
LEMMA EndingKeeps ==
    ASSUME BuildInv, NEW b \in Builders, build[b].pc = "publish", UNCHANGED vars,
           Publication!PublishFails(b) \/ Publication!PublishEnds(b)
    PROVE  BuildInv'
<1>0. /\ pub \in [Builders -> PublishRecord] /\ outStaged \in [Builders -> StagedNames]
      /\ outputs \in [Names -> Builders \cup {None}] /\ UNCHANGED build
      /\ PublishFlow(b) /\ pub[b] \in PublishRecord /\ outStaged[b] \in StagedNames
  BY OwnPublication DEF BuildInv, PublicationTypes, vars
<1>1. UNCHANGED <<outputs, outStaged>>
  BY DEF Publication!PublishFails, Publication!PublishEnds
<1>2. outStaged' = [outStaged EXCEPT ![b] = outStaged[b]]
  BY <1>0, <1>1
<1>3. CASE Publication!PublishFails(b)
  <2>1. /\ pub[b].pc \in {"link", "unstage", "verify", "done"}
        /\ Publication!Goto(b, "undo")
    BY <1>3 DEF Publication!PublishFails
  <2>2. PICK r \in PublishRecord :
           /\ pub' = [pub EXCEPT ![b] = r]
           /\ r.outcome = pub[b].outcome /\ r.pc = "undo" /\ r.at = 1
    BY <1>0, <2>1, Turns
  <2>3. pub'[b] = r /\ \A o \in Names : 1 <= o
    BY <1>0, <2>2 DEF Names
  <2>4. PublishFlow(b)'
    BY <1>0, <1>1, <2>1, <2>2, <2>3 DEF PublishFlow
  <2>5. FilesMeet'
    BY <1>0, <1>1, <2>2, MeetKept
  <2> QED
    BY <1>0, <1>1, <1>2, <2>2, <2>4, <2>5, PublisherMoves
<1>4. CASE Publication!PublishEnds(b)
  <2>1. pub[b].pc = "done" /\ Publication!Return(b, "Ok")
    BY <1>4 DEF Publication!PublishEnds
  <2>2. PICK r \in PublishRecord :
           /\ pub' = [pub EXCEPT ![b] = r]
           /\ r.outcome = "Ok" /\ r.pc = "returned" /\ r.at = pub[b].at
    BY <1>0, <2>1, Turns
  <2>3. pub'[b] = r
    BY <1>0, <2>2
  <2>4. PublishFlow(b)'
    BY <1>0, <1>1, <2>1, <2>2, <2>3 DEF PublishFlow
  <2>5. FilesMeet'
    BY <1>0, <1>1, <2>1, <2>2, MeetKept
  <2> QED
    BY <1>0, <1>1, <1>2, <2>2, <2>4, <2>5, PublisherMoves
<1> QED
  BY <1>3, <1>4

\* publish_build links a staged file, or finds the name taken and turns to undo.
LEMMA LinkKeeps ==
    ASSUME BuildInv, NEW b \in Builders, build[b].pc = "publish", UNCHANGED vars,
           Publication!Link(b)
    PROVE  BuildInv'
<1> DEFINE n == pub[b].at
<1>0. /\ pub \in [Builders -> PublishRecord] /\ outStaged \in [Builders -> StagedNames]
      /\ outputs \in [Names -> Builders \cup {None}] /\ UNCHANGED build
      /\ PublishFlow(b) /\ pub[b] \in PublishRecord /\ outStaged[b] \in StagedNames
      /\ n \in Names
  BY OwnPublication DEF BuildInv, PublicationTypes, vars, PublishRecord
<1>1. pub[b].pc = "link" /\ UNCHANGED outStaged
  BY DEF Publication!Link
<1>2. outStaged' = [outStaged EXCEPT ![b] = outStaged[b]]
  BY <1>0, <1>1
<1>3. CASE outputs[n] = None
  <2>1. Publication!Linked(b, n) = b
    BY <1>0, <1>1 DEF Publication!Linked, PublishFlow
  <2>2. outputs' = [outputs EXCEPT ![n] = b] /\ Publication!Advance(b, "link", "unstage")
    BY <1>3, <2>1 DEF Publication!Link
  <2>3. PICK r \in PublishRecord :
           /\ pub' = [pub EXCEPT ![b] = r]
           /\ r.outcome = pub[b].outcome
           /\ \/ n < Outputs /\ r.pc = "link" /\ r.at = n + 1
              \/ n = Outputs /\ r.pc = "unstage" /\ r.at = 1
    BY <1>0, <2>2, Advances DEF PublishStates
  <2>4. /\ \A c \in Builders : pub'[c] = IF c = b THEN r ELSE pub[c]
        /\ outputs' \in [Names -> Builders \cup {None}]
        /\ \A o \in Names : outputs'[o] = IF o = n THEN b ELSE outputs[o]
        /\ outStaged'[b] = outStaged[b]
    BY <1>0, <1>1, <2>2, <2>3
  <2>5. \A o \in Names : o <= n => r.pc = "unstage" \/ (r.pc = "link" /\ o < r.at)
    BY <1>0, <2>3 DEF Names
  <2>6. \A d \in Names : n < d => r.pc = "link" /\ r.at <= d
    BY <1>0, <2>3 DEF Names
  <2>7. r.pc \in {"link", "unstage"}
    BY <2>3, Zenon
  <2>8. PublishFlow(b)'
    <3>1. \A o \in Names : outputs'[o] = b => o <= n
      <4>1. \A o \in Names : o < n \/ o = n => o <= n
        BY <1>0 DEF Names
      <4> QED
        BY <1>0, <1>1, <2>4, <4>1 DEF PublishFlow
    <3>2. r.outcome = pub[b].outcome /\ pub'[b] = r
      BY <2>3, <2>4, Zenon
    <3>3. \A o \in Names : outputs'[o] = b =>
             r.pc = "unstage" \/ (r.pc = "link" /\ o < r.at)
      BY <2>5, <3>1, Zenon
    <3> HIDE DEF n
    <3> QED
      BY <1>0, <1>1, <2>4, <2>7, <3>2, <3>3 DEF PublishFlow
  <2>9. FilesMeet'
    <3> SUFFICES ASSUME NEW o \in Names, NEW d \in Names, o < d,
                        outputs'[o] \in Builders, outputs'[d] \in Builders
                 PROVE  LET p == pub'[outputs'[o]]
                            q == pub'[outputs'[d]]
                        IN  \/ p.pc = "link" /\ p.at <= d
                            \/ q.pc \in {"link", "unstage"}
                            \/ q.pc = "verify" /\ q.at <= o
                            \/ p.pc \in {"undo", "killed"}
                            \/ q.pc \in {"undo", "killed"}
                            \/ build'[outputs'[o]].result = build'[outputs'[d]].result
      BY DEF FilesMeet
    <3>1. CASE outputs'[d] = b
      BY <2>4, <2>7, <3>1
    <3>2. CASE outputs'[d] # b /\ o = n
      <4>1. pub'[outputs'[o]] = r
        BY <2>4, <3>2
      <4> QED
        BY <2>6, <3>2, <4>1
    <3>3. CASE outputs'[d] # b /\ o # n
      <4>1. outputs'[d] = outputs[d] /\ outputs'[o] = outputs[o] /\ d # n
        BY <2>4, <3>3
      <4>2. LET p == pub[outputs[o]]
                q == pub[outputs[d]]
            IN  \/ p.pc = "link" /\ p.at <= d
                \/ q.pc \in {"link", "unstage"}
                \/ q.pc = "verify" /\ q.at <= o
                \/ p.pc \in {"undo", "killed"}
                \/ q.pc \in {"undo", "killed"}
                \/ build[outputs[o]].result = build[outputs[d]].result
        BY <4>1 DEF BuildInv, FilesMeet
      <4>3. pub'[outputs[d]] = pub[outputs[d]]
        BY <2>4, <3>3, <4>1
      <4>4. CASE outputs[o] # b
        <5>1. pub'[outputs[o]] = pub[outputs[o]]
          BY <2>4, <4>1, <4>4
        <5> HIDE DEF n
        <5> QED
          BY <1>0, <4>1, <4>2, <4>3, <5>1
      <4>5. CASE outputs[o] = b
        <5>1. pub'[outputs[o]] = r
          BY <2>4, <4>5
        <5>2. n <= d => n < d
          BY <1>0, <4>1 DEF Names
        <5>3. n <= d => r.pc = "link" /\ r.at <= d
          BY <2>6, <5>2
        <5> HIDE DEF n
        <5>4. \/ n <= d
              \/ LET q == pub[outputs[d]]
                 IN  \/ q.pc \in {"link", "unstage"}
                     \/ q.pc = "verify" /\ q.at <= o
                     \/ q.pc \in {"undo", "killed"}
                     \/ build[outputs[o]].result = build[outputs[d]].result
          BY <1>1, <4>2, <4>5 DEF n
        <5> QED
          BY <1>0, <4>1, <4>3, <5>1, <5>3, <5>4
      <4> QED
        BY <4>4, <4>5
    <3> QED
      BY <3>1, <3>2, <3>3
  <2>10. \A o \in Names : outputs'[o] \in {outputs[o], None, b}
    BY <2>4
  <2>11. pub' = [pub EXCEPT ![b] = r]
    BY <2>3, Zenon
  <2> HIDE DEF n
  <2> QED
    BY <1>0, <1>2, <2>4, <2>8, <2>9, <2>10, <2>11, PublisherMoves
<1>4. CASE outputs[n] # None
  <2>1. /\ outputs' = [d \in Names |-> IF d < n THEN None ELSE outputs[d]]
        /\ Publication!Goto(b, "undo")
    BY <1>4 DEF Publication!Link, Publication!Files, Names
  <2>2. PICK r \in PublishRecord :
           /\ pub' = [pub EXCEPT ![b] = r]
           /\ r.outcome = pub[b].outcome /\ r.pc = "undo" /\ r.at = 1
    BY <1>0, <2>1, Turns
  <2>3. pub'[b] = r /\ \A o \in Names : 1 <= o
    BY <1>0, <2>2 DEF Names
  <2>4. /\ outputs' \in [Names -> Builders \cup {None}]
        /\ \A o \in Names : outputs'[o] \in {outputs[o], None}
    BY <1>0, <2>1
  <2> HIDE DEF n
  <2>5. PublishFlow(b)'
    BY <1>0, <1>1, <2>2, <2>3 DEF PublishFlow
  <2>6. FilesMeet'
    BY <1>0, <2>2, <2>4, MeetKept
  <2>7. \A o \in Names : outputs'[o] \in {outputs[o], None, b}
    BY <2>4
  <2> QED
    BY <1>0, <1>2, <2>2, <2>4, <2>5, <2>6, <2>7, PublisherMoves
<1> QED
  BY <1>3, <1>4

\* publish_build reads an output back: it goes on only with what it published.
LEMMA VerifyKeeps ==
    ASSUME BuildInv, NEW b \in Builders, build[b].pc = "publish", UNCHANGED vars,
           Publication!Verify(b)
    PROVE  BuildInv'
<1> DEFINE n == pub[b].at
<1>0. /\ pub \in [Builders -> PublishRecord] /\ outStaged \in [Builders -> StagedNames]
      /\ outputs \in [Names -> Builders \cup {None}] /\ UNCHANGED build
      /\ PublishFlow(b) /\ pub[b] \in PublishRecord /\ outStaged[b] \in StagedNames
      /\ n \in Names
  BY OwnPublication DEF BuildInv, PublicationTypes, vars, PublishRecord
<1>1. pub[b].pc = "verify" /\ UNCHANGED <<outputs, outStaged>>
  BY DEF Publication!Verify
<1>2. outStaged' = [outStaged EXCEPT ![b] = outStaged[b]]
  BY <1>0, <1>1
<1>3. CASE Publication!ReadsBack(b, n)
  <2>1. outputs[n] \in Builders /\ build[outputs[n]].result = build[b].result
    BY <1>3 DEF Publication!ReadsBack
  <2>2. Publication!Advance(b, "verify", "done")
    BY <1>3 DEF Publication!Verify
  <2>3. PICK r \in PublishRecord :
           /\ pub' = [pub EXCEPT ![b] = r]
           /\ r.outcome = pub[b].outcome
           /\ \/ n < Outputs /\ r.pc = "verify" /\ r.at = n + 1
              \/ n = Outputs /\ r.pc = "done" /\ r.at = 1
    BY <1>0, <2>2, Advances DEF PublishStates
  <2>4. \A c \in Builders : pub'[c] = IF c = b THEN r ELSE pub[c]
    BY <1>0, <2>3
  <2>5. \A o \in Names : n <= o => o = n \/ (r.pc = "verify" /\ r.at <= o)
    BY <1>0, <2>3 DEF Names
  <2>6. pub' = [pub EXCEPT ![b] = r] /\ r.pc \in {"verify", "done"}
        /\ r.outcome = pub[b].outcome
    BY <2>3, Zenon
  <2>7. PublishFlow(b)'
    <3> HIDE DEF n
    <3> QED
      BY <1>0, <1>1, <2>4, <2>6 DEF PublishFlow
  <2>8. FilesMeet'
    <3> SUFFICES ASSUME NEW o \in Names, NEW d \in Names, o < d,
                        outputs'[o] \in Builders, outputs'[d] \in Builders
                 PROVE  LET p == pub'[outputs'[o]]
                            q == pub'[outputs'[d]]
                        IN  \/ p.pc = "link" /\ p.at <= d
                            \/ q.pc \in {"link", "unstage"}
                            \/ q.pc = "verify" /\ q.at <= o
                            \/ p.pc \in {"undo", "killed"}
                            \/ q.pc \in {"undo", "killed"}
                            \/ build'[outputs'[o]].result = build'[outputs'[d]].result
      BY DEF FilesMeet
    <3>1. outputs'[o] = outputs[o] /\ outputs'[d] = outputs[d]
      BY <1>1
    <3>2. LET p == pub[outputs[o]]
              q == pub[outputs[d]]
          IN  \/ p.pc = "link" /\ p.at <= d
              \/ q.pc \in {"link", "unstage"}
              \/ q.pc = "verify" /\ q.at <= o
              \/ p.pc \in {"undo", "killed"}
              \/ q.pc \in {"undo", "killed"}
              \/ build[outputs[o]].result = build[outputs[d]].result
      BY <3>1 DEF BuildInv, FilesMeet
    <3>3. CASE outputs[d] # b
      <4>1. pub'[outputs[d]] = pub[outputs[d]]
        BY <2>4, <3>1, <3>3
      <4>2. pub'[outputs[o]] = pub[outputs[o]] \/ pub[outputs[o]].pc = "verify"
        BY <1>1, <2>4, <3>1
      <4> HIDE DEF n
      <4> QED
        BY <1>0, <3>1, <3>2, <4>1, <4>2
    <3>4. CASE outputs[d] = b /\ outputs[o] = b
      BY <1>0, <3>1, <3>4
    <3>5. CASE outputs[d] = b /\ outputs[o] # b
      <4>1. pub'[outputs[o]] = pub[outputs[o]] /\ pub'[outputs[d]] = r
        BY <2>4, <3>1, <3>5
      <4>2. \/ pub[outputs[o]].pc = "link" /\ pub[outputs[o]].at <= d
            \/ n <= o
            \/ pub[outputs[o]].pc \in {"undo", "killed"}
            \/ build[outputs[o]].result = build[outputs[d]].result
        BY <1>1, <3>2, <3>5
      <4>3. n <= o => \/ build[outputs[o]].result = build[outputs[d]].result
                      \/ r.pc = "verify" /\ r.at <= o
        BY <2>1, <2>5, <3>5
      <4> HIDE DEF n
      <4> QED
        BY <1>0, <3>1, <4>1, <4>2, <4>3
    <3> QED
      BY <3>3, <3>4, <3>5
  <2>9. \A o \in Names : outputs'[o] \in {outputs[o], None, b}
    BY <1>1
  <2> HIDE DEF n
  <2> QED
    BY <1>0, <1>1, <1>2, <2>6, <2>7, <2>8, <2>9, PublisherMoves
<1>4. CASE ~Publication!ReadsBack(b, n)
  <2>1. Publication!Goto(b, "undo")
    BY <1>4 DEF Publication!Verify
  <2>2. PICK r \in PublishRecord :
           /\ pub' = [pub EXCEPT ![b] = r]
           /\ r.outcome = pub[b].outcome /\ r.pc = "undo" /\ r.at = 1
    BY <1>0, <2>1, Turns
  <2>3. pub'[b] = r /\ \A o \in Names : 1 <= o
    BY <1>0, <2>2 DEF Names
  <2> HIDE DEF n
  <2>4. PublishFlow(b)'
    BY <1>0, <1>1, <2>2, <2>3 DEF PublishFlow
  <2>5. FilesMeet'
    BY <1>0, <1>1, <2>2, MeetKept
  <2> QED
    BY <1>0, <1>1, <1>2, <2>2, <2>4, <2>5, PublisherMoves
<1> QED
  BY <1>3, <1>4

\* publish_build undoes what it did, and returns the error.
LEMMA UndoKeeps ==
    ASSUME BuildInv, NEW b \in Builders, build[b].pc = "publish", UNCHANGED vars,
           Publication!Undo(b)
    PROVE  BuildInv'
<1> DEFINE n == pub[b].at
           s == [o \in Names |-> None]
<1>0. /\ pub \in [Builders -> PublishRecord] /\ outStaged \in [Builders -> StagedNames]
      /\ outputs \in [Names -> Builders \cup {None}] /\ UNCHANGED build
      /\ PublishFlow(b) /\ pub[b] \in PublishRecord
      /\ n \in Names
  BY OwnPublication DEF BuildInv, PublicationTypes, vars, PublishRecord
<1>1. /\ pub[b].pc = "undo"
      /\ outStaged' = [outStaged EXCEPT ![b] = s]
      /\ outputs' = [outputs EXCEPT ![n] = None]
  BY DEF Publication!Undo, Publication!Undone, Publication!Files, Names
<1>2. s \in StagedNames /\ outStaged'[b] = s /\ \A o \in Names : s[o] = None
  BY <1>0, <1>1 DEF StagedNames
<1>3. /\ outputs' \in [Names -> Builders \cup {None}]
      /\ \A o \in Names : outputs'[o] = IF o = n THEN None ELSE outputs[o]
  BY <1>0, <1>1
<1>4. \A o \in Names : outputs'[o] \in {outputs[o], None} /\ outputs'[o] \in {outputs[o], None, b}
  BY <1>3
<1>5. \A o \in Names : outputs'[o] = b => n <= o /\ o # n
  <2>1. \A o \in Names : outputs'[o] = b => o # n /\ outputs[o] = b
    BY <1>3 DEF Files
  <2> QED
    BY <1>0, <1>1, <2>1 DEF PublishFlow
<1> HIDE DEF s
<1>6. CASE n < Outputs
  <2>1. Publication!Advance(b, "undo", "undo")
    BY <1>6 DEF Publication!Undo
  <2>2. PICK r \in PublishRecord :
           /\ pub' = [pub EXCEPT ![b] = r]
           /\ r.outcome = pub[b].outcome
           /\ \/ n < Outputs /\ r.pc = "undo" /\ r.at = n + 1
              \/ n = Outputs /\ r.pc = "undo" /\ r.at = 1
    BY <1>0, <2>1, Advances DEF PublishStates
  <2>3. \A o \in Names : outputs'[o] = b => r.at <= o
    BY <1>0, <1>5, <1>6, <2>2 DEF Names
  <2>4. /\ pub' = [pub EXCEPT ![b] = r] /\ r.pc = "undo" /\ r.outcome = pub[b].outcome
        /\ pub'[b] = r
    BY <1>0, <2>2
  <2> HIDE DEF n
  <2>5. PublishFlow(b)'
    BY <1>0, <1>1, <1>2, <2>3, <2>4 DEF PublishFlow
  <2>6. FilesMeet'
    BY <1>0, <1>4, <2>4, MeetKept
  <2> QED
    BY <1>1, <1>2, <1>3, <1>4, <2>4, <2>5, <2>6, PublisherMoves
<1>7. CASE ~(n < Outputs)
  <2>1. Publication!Return(b, "Err")
    BY <1>7 DEF Publication!Undo
  <2>2. PICK r \in PublishRecord :
           /\ pub' = [pub EXCEPT ![b] = r]
           /\ r.outcome = "Err" /\ r.pc = "returned" /\ r.at = n
    BY <1>0, <2>1, Turns
  <2>3. \A o \in Names : outputs'[o] # b
    BY <1>0, <1>5, <1>7 DEF Names
  <2>4. pub'[b] = r
    BY <1>0, <2>2
  <2> HIDE DEF n
  <2>5. PublishFlow(b)'
    BY <1>2, <2>2, <2>3, <2>4 DEF PublishFlow
  <2>6. FilesMeet'
    BY <1>0, <1>4, <2>2, <2>3, MeetKept
  <2> QED
    BY <1>1, <1>2, <1>3, <1>4, <2>2, <2>5, <2>6, PublisherMoves
<1> QED
  BY <1>6, <1>7

\* Every step of publish_build.
LEMMA PublishesKeeps ==
    ASSUME BuildInv, NEW b \in Builders, Publishes(b)
    PROVE  BuildInv'
BY CheckKeeps, StageKeeps, LinkKeeps, UnstageKeeps, VerifyKeeps, EndingKeeps, UndoKeeps
   DEF Publishes, Publication!Step

-----------------------------------------------------------------------------
(* The commands.                                                           *)

\* States of a command before and after publish_build.
Resolving == Loading \cup {"idle", "resolve"}
Flushing == Storing \cup {"flush", "dirsync"}

\* A step of command b before or after publish_build moves b alone, and gives
\* the names of the cache to a file of b only while b stores.
CommandMove(b) ==
    /\ \A c \in Builders : c # b =>
          build'[c].pc = build[c].pc /\ build'[c].result = build[c].result
    /\ build'[b].result = build[b].result \/ build[b].pc = "resolve"
    /\ \/ build[b].pc \in Resolving /\ build'[b].pc \in Resolving \cup {"publish"}
       \/ build[b].pc \in Flushing /\ build'[b].pc \in Flushing
       \/ build'[b].pc \in {"returned", "crashed"}
    /\ staging' \cup {entry', durable'} \subseteq staging \cup {entry, durable} \cup
          (IF build[b].pc \in Flushing THEN {b} ELSE {})

LEMMA CommandMoves ==
    ASSUME CacheTypes, NEW b \in Builders,
           LoadStep(b) \/ StoreStep(b) \/ BuildFails(b) \/ Kill(b)
    PROVE  CommandMove(b)
<1> USE DEF Loading, Storing, Settled, Resolving, Flushing
<1>0. build \in [Builders -> BuildRecord] /\ build[b] \in BuildRecord
  BY DEF CacheTypes
<1>1. CASE LoadStat(b)
  BY <1>0, <1>1 DEF LoadStat, Set, BuildRecord, CommandMove
<1>2. CASE LoadOpen(b)
  BY <1>0, <1>2 DEF LoadOpen, Goto, Set, BuildRecord, CommandMove
<1>3. CASE LoadHead(b) \/ LoadBody(b) \/ LoadCheck(b)
  <2>1. \E v : \E s \in {"body", "check", "resolve"} :
           build' = [build EXCEPT ![b] = [build[b] EXCEPT !.pc = s, !.read = v]]
    <3>1. CASE LoadHead(b)
      BY <3>1 DEF LoadHead, Set
    <3>2. CASE LoadBody(b)
      BY <1>0, <3>2 DEF LoadBody, Set, BuildRecord
    <3>3. CASE LoadCheck(b)
      BY <1>0, <3>3 DEF LoadCheck, Set, BuildRecord
    <3> QED
      BY <1>3, <3>1, <3>2, <3>3
  <2>2. /\ build'[b].pc \in Resolving /\ build'[b].result = build[b].result
        /\ \A c \in Builders : c # b => build'[c] = build[c]
    BY <1>0, <2>1 DEF BuildRecord
  <2>3. UNCHANGED <<entry, durable, staging>> /\ build[b].pc \in Loading
    BY <1>3 DEF LoadHead, LoadBody, LoadCheck
  <2> QED
    BY <2>2, <2>3 DEF CommandMove
<1>4. CASE Resolve(b)
  BY <1>0, <1>4 DEF Resolve, Set, BuildRecord, CommandMove
<1>5. CASE FlushNothing(b) \/ BuildFails(b) \/ Kill(b) \/ StoreDirSyncFails(b)
  BY <1>0, <1>5 DEF FlushNothing, BuildFails, AfterFailure, Kill, StoreDirSyncFails, Goto,
     Set, BuildRecord, CommandMove
<1>6. CASE StoreOpen(b) \/ StoreWrite(b) \/ StoreSync(b) \/ StoreFails(b)
  BY <1>0, <1>6 DEF StoreOpen, StoreWrite, StoreSync, StoreFails, Unstaged, Goto, Set,
     BuildRecord, CommandMove
<1>7. CASE StoreRename(b)
  <2>1. /\ \A c \in Builders : /\ Disturbed(build)[c].pc = build[c].pc
                               /\ Disturbed(build)[c].result = build[c].result
        /\ Disturbed(build) \in [Builders -> BuildRecord]
    BY DisturbedFields
  <2>2. /\ build' = [Disturbed(build) EXCEPT ![b].pc = "dirsync"]
        /\ entry' = b /\ durable' = durable /\ staging' = staging \ {b}
        /\ build[b].pc = "rename"
    BY <1>7 DEF StoreRename
  <2>3. /\ build'[b].pc = "dirsync" /\ build'[b].result = build[b].result
        /\ \A c \in Builders : c # b =>
              build'[c].pc = build[c].pc /\ build'[c].result = build[c].result
    BY <2>1, <2>2 DEF BuildRecord
  <2> QED
    BY <2>2, <2>3 DEF CommandMove
<1>8. CASE StoreDirSync(b)
  BY <1>0, <1>8 DEF StoreDirSync, DirSynced, Set, BuildRecord, CommandMove
<1> QED
  BY <1>1, <1>2, <1>3, <1>4, <1>5, <1>6, <1>7, <1>8 DEF LoadStep, StoreStep

\* The invariant of the build follows from that of the cache and the order of
\* the command's parts, when a step takes outputs away but gives none.
LEMMA OutputsStay ==
    ASSUME BuildInv, CacheFlow', PublicationTypes',
           \A o \in Names : outputs'[o] \in {outputs[o], None},
           \A c \in Builders :
              /\ PublishFlow(c)' /\ CommandFlow(c)'
              /\ pub'[c] = pub[c] \/ pub'[c].pc = "killed"
              /\ build'[c].result = build[c].result \/ \A o \in Names : outputs[o] # c
    PROVE  BuildInv'
<1>1. FilesMeet'
  <2> SUFFICES ASSUME NEW o \in Names, NEW d \in Names, o < d,
                      outputs'[o] \in Builders, outputs'[d] \in Builders
               PROVE  LET p == pub'[outputs'[o]]
                          q == pub'[outputs'[d]]
                      IN  \/ p.pc = "link" /\ p.at <= d
                          \/ q.pc \in {"link", "unstage"}
                          \/ q.pc = "verify" /\ q.at <= o
                          \/ p.pc \in {"undo", "killed"}
                          \/ q.pc \in {"undo", "killed"}
                          \/ build'[outputs'[o]].result = build'[outputs'[d]].result
    BY DEF FilesMeet
  <2>1. outputs'[o] = outputs[o] /\ outputs'[d] = outputs[d]
    BY DEF Files
  <2>2. LET p == pub[outputs[o]]
            q == pub[outputs[d]]
        IN  \/ p.pc = "link" /\ p.at <= d
            \/ q.pc \in {"link", "unstage"}
            \/ q.pc = "verify" /\ q.at <= o
            \/ p.pc \in {"undo", "killed"}
            \/ q.pc \in {"undo", "killed"}
            \/ build[outputs[o]].result = build[outputs[d]].result
    BY <2>1 DEF BuildInv, FilesMeet
  <2> QED
    BY <2>1, <2>2
<1> QED
  BY <1>1 DEF BuildInv

\* A step of a command outside publish_build.
LEMMA CommandStepKeeps ==
    ASSUME BuildInv, NEW b \in Builders, CommandMove(b), CacheFlow', UNCHANGED pubVars
    PROVE  BuildInv'
<1>1. PublicationTypes'
  BY DEF BuildInv, PublicationTypes, pubVars
<1>2. ASSUME NEW c \in Builders
      PROVE  /\ PublishFlow(c)' /\ CommandFlow(c)' /\ pub'[c] = pub[c]
             /\ build'[c].result = build[c].result \/ \A o \in Names : outputs[o] # c
  <2>0. PublishFlow(c) /\ CommandFlow(c) /\ PublishFlow(b) /\ CommandFlow(b)
    BY OwnPublication
  <2>1. PublishFlow(c)' /\ pub'[c] = pub[c]
    BY <2>0 DEF PublishFlow, pubVars
  <2>2. CommandFlow(c)'
    <3>1. c \in staging' \cup {entry', durable'} => pub[c].outcome = "Ok"
      BY <2>0 DEF CommandFlow, CommandMove, Flushing
    <3>2. build'[c].pc \in Resolving => build[c].pc \in Resolving
      BY DEF CommandMove, Resolving, Flushing, Loading, Storing
    <3>3. build'[c].pc \in Flushing => build[c].pc \in Flushing
      BY DEF CommandMove, Resolving, Flushing, Loading, Storing
    <3> QED
      BY <2>0, <2>1, <3>1, <3>2, <3>3 DEF CommandFlow, Resolving, Flushing
  <2>3. build'[c].result = build[c].result \/ \A o \in Names : outputs[o] # c
    <3>1. CASE c = b /\ build[b].pc = "resolve"
      <4>1. pub[c].pc = "check" /\ pub[c].outcome # "Ok"
        BY <2>0, <3>1 DEF CommandFlow, PublishFlow
      <4> QED
        BY <2>0, <4>1 DEF PublishFlow
    <3>2. CASE c # b \/ build[b].pc # "resolve"
      BY <3>2 DEF CommandMove
    <3> QED
      BY <3>1, <3>2
  <2> QED
    BY <2>1, <2>2, <2>3
<1>3. \A o \in Names : outputs'[o] = outputs[o]
  BY DEF pubVars
<1> QED
  BY <1>1, <1>2, <1>3, OutputsStay

\* publish_build returned, and the command goes on to the cache.
LEMMA PublicationEndsKeeps ==
    ASSUME BuildInv, NEW b \in Builders, PublicationEnds(b)
    PROVE  BuildInv'
<1>1. /\ pub[b].outcome = "Ok" /\ UNCHANGED <<entry, durable, staging>> /\ UNCHANGED pubVars
      /\ build' = [build EXCEPT ![b] = [build[b] EXCEPT !.pc = "flush"]]
      /\ build \in [Builders -> BuildRecord]
  BY DEF PublicationEnds, Published, Goto, Set, BuildInv, CacheFlow, CacheTypes
<1>2. /\ build'[b].pc = "flush"
      /\ \A c \in Builders : build'[c].result = build[c].result
      /\ \A c \in Builders : c # b => build'[c] = build[c]
  BY <1>1 DEF BuildRecord
<1>3. CacheFlow'
  BY CacheKeeps DEF BuildInv, PublicationEnds
<1>4. PublicationTypes' /\ \A o \in Names : outputs'[o] = outputs[o]
  BY <1>1 DEF BuildInv, PublicationTypes, pubVars
<1>5. ASSUME NEW c \in Builders
      PROVE  PublishFlow(c)' /\ CommandFlow(c)' /\ pub'[c] = pub[c]
  <2>0. PublishFlow(c) /\ CommandFlow(c)
    BY OwnPublication
  <2>1. PublishFlow(c)' /\ pub'[c] = pub[c]
    BY <1>1, <2>0 DEF PublishFlow, pubVars
  <2>2. CommandFlow(c)'
    BY <1>1, <1>2, <2>0, <2>1 DEF CommandFlow, Loading
  <2> QED
    BY <2>1, <2>2
<1> QED
  BY <1>2, <1>3, <1>4, <1>5, OutputsStay

\* The publication of a process that dies leaves what it has done, and what it
\* has returned.
LEMMA KilledFlow ==
    ASSUME BuildInv, NEW c \in Builders, pub'[c] \in {pub[c], Killed(c)},
           outStaged'[c] = outStaged[c], \A o \in Names : outputs'[o] \in {outputs[o], None}
    PROVE  /\ PublishFlow(c)' /\ pub'[c] \in PublishRecord
           /\ pub'[c].outcome = pub[c].outcome
           /\ pub'[c] = pub[c] \/ pub'[c].pc = "killed"
<1>0. PublishFlow(c) /\ pub[c] \in PublishRecord
  BY OwnPublication
<1>1. /\ pub'[c] \in PublishRecord /\ pub'[c].outcome = pub[c].outcome
      /\ \/ pub'[c] = pub[c]
         \/ pub'[c].pc = "killed" /\ pub[c].pc # "returned"
  BY <1>0 DEF Killed, PublishRecord, PublishStates
<1>2. \A o \in Names : outputs'[o] = c => outputs[o] = c
  BY DEF Files
<1>3. PublishFlow(c)'
  BY <1>0, <1>1, <1>2 DEF PublishFlow
<1> QED
  BY <1>1, <1>3

\* One command is killed.
LEMMA CommandKilledKeeps ==
    ASSUME BuildInv, NEW b \in Builders, CommandKilled(b)
    PROVE  BuildInv'
<1>1. /\ UNCHANGED <<entry, durable, staging, outputs, outStaged>>
      /\ pub' = [pub EXCEPT ![b] = Killed(b)] /\ pub \in [Builders -> PublishRecord]
      /\ CacheTypes
  BY DEF CommandKilled, Kill, BuildInv, PublicationTypes, CacheFlow
<1>2. Kill(b) /\ build[b] \in BuildRecord
  BY <1>1 DEF CommandKilled, CacheTypes
<1>4. /\ build'[b].pc = "crashed"
      /\ \A c \in Builders : /\ build'[c].result = build[c].result
                             /\ c # b => build'[c] = build[c]
  BY <1>1, <1>2 DEF Kill, Goto, Set, CacheTypes, BuildRecord
<1>5. CacheFlow'
  BY CacheKeeps DEF BuildInv, CommandKilled
<1>6. ASSUME NEW c \in Builders
      PROVE  /\ PublishFlow(c)' /\ CommandFlow(c)' /\ pub'[c] \in PublishRecord
             /\ pub'[c] = pub[c] \/ pub'[c].pc = "killed"
  <2>0. CommandFlow(c)
    BY OwnPublication
  <2>1. /\ PublishFlow(c)' /\ pub'[c] \in PublishRecord /\ pub'[c].outcome = pub[c].outcome
        /\ pub'[c] = pub[c] \/ pub'[c].pc = "killed"
    BY <1>1, KilledFlow
  <2>2. c # b => pub'[c] = pub[c]
    BY <1>1
  <2>3. CommandFlow(c)'
    BY <1>1, <1>4, <2>0, <2>1, <2>2 DEF CommandFlow, Loading, Storing
  <2> QED
    BY <2>1, <2>3
<1>7. PublicationTypes' /\ \A o \in Names : outputs'[o] = outputs[o]
  BY <1>1, <1>6 DEF BuildInv, PublicationTypes
<1> QED
  BY <1>4, <1>5, <1>6, <1>7, OutputsStay

\* The machine loses power.
LEMMA PowerFailsKeeps ==
    ASSUME BuildInv, PowerFails
    PROVE  BuildInv'
<1>1. /\ pub' = [c \in Builders |-> IF Started(c) THEN Killed(c) ELSE pub[c]]
      /\ outStaged' = outStaged /\ staging' = staging
      /\ entry' \in {entry, durable} /\ durable' = entry'
  BY DEF PowerFails, PowerLoss
<1>2. /\ outputs' \in [Names -> Builders \cup {None}]
      /\ \A o \in Names : outputs'[o] \in {outputs[o], None}
  BY DEF PowerFails, BuildInv, PublicationTypes, Names
<1>3. \A c \in Builders : /\ build'[c].result = build[c].result
                          /\ build'[c].pc = IF Started(c) THEN "crashed" ELSE build[c].pc
  <2>1. \A c \in Builders :
           build'[c] = IF Started(c) THEN [build[c] EXCEPT !.pc = "crashed"] ELSE build[c]
    BY DEF PowerFails, PowerLoss
  <2>2. \A c \in Builders : build[c] \in BuildRecord
    BY DEF BuildInv, CacheFlow, CacheTypes
  <2> QED
    BY <2>1, <2>2 DEF BuildRecord
<1>4. CacheFlow'
  BY CacheKeeps DEF BuildInv, PowerFails
<1>5. ASSUME NEW c \in Builders
      PROVE  /\ PublishFlow(c)' /\ CommandFlow(c)' /\ pub'[c] \in PublishRecord
             /\ pub'[c] = pub[c] \/ pub'[c].pc = "killed"
  <2>0. CommandFlow(c)
    BY OwnPublication
  <2>1. /\ PublishFlow(c)' /\ pub'[c] \in PublishRecord /\ pub'[c].outcome = pub[c].outcome
        /\ pub'[c] = pub[c] \/ pub'[c].pc = "killed"
    BY <1>1, <1>2, KilledFlow
  <2>2. ~Started(c) => pub'[c] = pub[c]
    BY <1>1
  <2>3. c \in staging' \cup {entry', durable'} => c \in staging \cup {entry, durable}
    BY <1>1
  <2>4. CommandFlow(c)'
    BY <1>3, <2>0, <2>1, <2>2, <2>3 DEF CommandFlow, Loading, Storing
  <2> QED
    BY <2>1, <2>4
<1>6. PublicationTypes'
  <2>1. pub' \in [Builders -> PublishRecord]
    BY <1>1, <1>5
  <2> QED
    BY <1>1, <1>2, <2>1 DEF BuildInv, PublicationTypes
<1> QED
  BY <1>2, <1>3, <1>4, <1>5, <1>6, OutputsStay

\* The user removes outputs, or something outside the compiler writes into the
\* entry: publications and commands go on as before.
LEMMA OutsideKeeps ==
    ASSUME BuildInv,
           OutputsRemoved \/ ((\E c \in Foreign : Damage(c)) /\ UNCHANGED pubVars)
    PROVE  BuildInv'
<1>1. CacheFlow'
  BY CacheKeeps DEF BuildInv, OutputsRemoved
<1>2. /\ \A c \in Builders : build'[c].result = build[c].result /\ build'[c].pc = build[c].pc
      /\ UNCHANGED <<entry, durable, staging>>
  <2>1. CASE OutputsRemoved
    BY <2>1 DEF OutputsRemoved, vars
  <2>2. CASE \E c \in Foreign : Damage(c)
    <3>1. build' = Disturbed(build) /\ UNCHANGED <<entry, durable, staging>>
      BY <2>2 DEF Damage
    <3>2. \A c \in Builders : /\ Disturbed(build)[c].result = build[c].result
                              /\ Disturbed(build)[c].pc = build[c].pc
      BY DisturbedFields DEF BuildInv, CacheFlow
    <3> QED
      BY <3>1, <3>2
  <2> QED
    BY <2>1, <2>2
<1>3. /\ UNCHANGED <<outStaged, pub>>
      /\ outputs' \in [Names -> Builders \cup {None}]
      /\ \A o \in Names : outputs'[o] \in {outputs[o], None}
  BY DEF OutputsRemoved, pubVars, BuildInv, PublicationTypes, Names
<1>4. ASSUME NEW c \in Builders
      PROVE  PublishFlow(c)' /\ CommandFlow(c)' /\ pub'[c] = pub[c]
  <2>0. CommandFlow(c)
    BY OwnPublication
  <2>1. PublishFlow(c)' /\ pub'[c] = pub[c]
    BY <1>3, KilledFlow
  <2>2. CommandFlow(c)'
    BY <1>2, <2>0, <2>1 DEF CommandFlow
  <2> QED
    BY <2>1, <2>2
<1>5. PublicationTypes'
  BY <1>3 DEF BuildInv, PublicationTypes
<1> QED
  BY <1>1, <1>2, <1>3, <1>4, <1>5, OutputsStay

\* Before any command runs there is nothing in the directory.
LEMMA BuildStarts == BuildInit => BuildInv
<1> SUFFICES ASSUME BuildInit PROVE BuildInv
  OBVIOUS
<1>1. CacheFlow
  BY CacheStarts DEF BuildInit
<1>2. PublicationTypes
  BY DEF BuildInit, PublicationTypes, Names, StagedNames, PublishRecord, PublishStates
<1>3. ASSUME NEW b \in Builders
      PROVE  PublishFlow(b) /\ CommandFlow(b)
  <2>1. /\ pub[b].pc = "check" /\ pub[b].at = 1 /\ pub[b].outcome = None
        /\ \A o \in Names : outputs[o] = None /\ outStaged[b][o] = None
    BY DEF BuildInit, Names
  <2>2. build[b].pc = "idle" /\ staging = {} /\ entry \in {None, Left} /\ durable = entry
    BY DEF BuildInit, Init
  <2>3. b \notin staging \cup {entry, durable}
    BY <2>2 DEF Files
  <2>4. PublishFlow(b)
    BY <2>1 DEF PublishFlow, Files
  <2> QED
    BY <2>1, <2>2, <2>3, <2>4 DEF CommandFlow, Loading, Storing
<1>4. FilesMeet
  <2>1. \A o \in Names : outputs[o] \notin Builders
    BY DEF BuildInit, Names, Files
  <2> QED
    BY <2>1 DEF FilesMeet
<1> QED
  BY <1>1, <1>2, <1>3, <1>4 DEF BuildInv

\* Every step of local builds keeps the invariant.
LEMMA BuildInductive == BuildInv /\ [BuildNext]_allVars => BuildInv'
<1> SUFFICES ASSUME BuildInv, [BuildNext]_allVars PROVE BuildInv'
  OBVIOUS
<1>1. CASE UNCHANGED allVars
  <2>1. CacheFlow'
    BY <1>1, CacheKeeps DEF BuildInv, allVars
  <2> QED
    BY <1>1, <2>1 DEF BuildInv, allVars, vars, pubVars, PublicationTypes, PublishFlow,
       CommandFlow, FilesMeet
<1>2. ASSUME NEW b \in Builders,
             \/ (LoadStep(b) \/ StoreStep(b)) /\ UNCHANGED pubVars
             \/ CommandFails(b)
      PROVE  BuildInv'
  <2>1. (LoadStep(b) \/ StoreStep(b) \/ BuildFails(b)) /\ UNCHANGED pubVars
    BY <1>2 DEF CommandFails
  <2>2. CacheFlow' /\ CommandMove(b)
    BY <2>1, CacheKeeps, CommandMoves DEF BuildInv, CacheFlow
  <2> QED
    BY <2>1, <2>2, CommandStepKeeps
<1> QED
  BY <1>1, <1>2, PublishesKeeps, PublicationEndsKeeps, CommandKilledKeeps, PowerFailsKeeps,
     OutsideKeeps DEF BuildNext

\* What the inductive invariant says of the outputs.
LEMMA PublicationHolds == BuildInv => PublicationInv
<1> SUFFICES ASSUME BuildInv PROVE PublicationInv
  OBVIOUS
<1>1. Publication!PublicationTypeOK
  BY DEF BuildInv, PublicationTypes, Publication!PublicationTypeOK, Publication!Files, Names,
     StagedNames
<1>2. Publication!ErrorLeavesNothing
  <2> SUFFICES ASSUME NEW b \in Builders, pub[b].pc = "returned", pub[b].outcome = "Err",
                      NEW o \in Names
               PROVE  outputs[o] # b /\ outStaged[b][o] = None
    BY DEF Publication!ErrorLeavesNothing, Publication!Files, Names
  <2> QED
    BY OwnPublication DEF PublishFlow
<1>3. Publication!OutputsBelongTogether
  <2> SUFFICES ASSUME Publication!Quiet, \A b \in Builders : pub[b].pc # "killed",
                      NEW o \in Names, outputs[o] # None
               PROVE  /\ pub[outputs[o]].outcome = "Ok"
                      /\ \A d \in Names : outputs[d] # None =>
                            build[outputs[d]].result = build[outputs[o]].result
    BY DEF Publication!OutputsBelongTogether, Publication!Files, Names, BuildInv,
       PublicationTypes
  <2>1. \A d \in Names : outputs[d] # None => outputs[d] \in Builders
    BY DEF BuildInv, PublicationTypes
  <2>2. \A b \in Builders : pub[b].pc \in {"returned", "check"}
    BY DEF Publication!Quiet
  <2>3. \A d \in Names : outputs[d] # None => pub[outputs[d]].outcome = "Ok"
    BY <2>1, <2>2, OwnPublication DEF PublishFlow
  <2>4. ASSUME NEW d \in Names, outputs[d] # None
        PROVE  build[outputs[d]].result = build[outputs[o]].result
    <3>1. d = o \/ d < o \/ o < d
      BY DEF Names
    <3> QED
      BY <2>1, <2>2, <2>4, <3>1 DEF BuildInv, FilesMeet
  <2> QED
    BY <2>3, <2>4
<1>4. StoredWasPublished
  BY OwnPublication DEF StoredWasPublished, CommandFlow
<1> QED
  BY <1>1, <1>2, <1>3, <1>4 DEF PublicationInv

\* However many builds share an output directory and a cache, and whichever of
\* them fails, is killed or loses power: files are linked only when they are
\* whole, entries are renamed only when they are synced, and two builds meet in
\* the directory only as FilesMeet says.
THEOREM BuildInvariant == BuildSpec => []BuildInv
<1>1. BuildInit => BuildInv
  BY BuildStarts
<1>2. BuildInv /\ [BuildNext]_allVars => BuildInv'
  BY BuildInductive
<1> QED
  BY <1>1, <1>2, PTL DEF BuildSpec

\* The cache of local builds: a visible entry is whole also after a power loss,
\* a load sees one version of it and hits when nothing disturbs it, a stored
\* entry stays, and a build that returned leaves no staging file.
THEOREM CacheAlwaysSound == BuildSpec => []CacheInv
<1>1. BuildInv => CacheInv
  BY CacheHolds DEF BuildInv
<1> QED
  BY <1>1, BuildInvariant, PTL

\* Whatever the cache holds, the backend of a build gets the frame that this
\* build has lowered.
THEOREM CacheNeverMisleads == BuildSpec => []ResolvedIsProduced
<1>1. BuildInv => ResolvedIsProduced
  BY CacheHolds DEF BuildInv
<1> QED
  BY <1>1, BuildInvariant, PTL

\* What builds leave in the output directory: whole files, nothing of a failed
\* publication, an image and a report that belong together, and no cached frame
\* without its publication.
THEOREM OutputsAlwaysSound == BuildSpec => []PublicationInv
<1>1. BuildInv => PublicationInv
  BY PublicationHolds
<1> QED
  BY <1>1, BuildInvariant, PTL

\* Create-new publication: an output that exists is never replaced by the file
\* of another build.
THEOREM OutputsNeverReplaced == BuildSpec => NeverReplaced
<1> DEFINE Keeps == \A o \in Names : outputs[o] # None => outputs'[o] \in {outputs[o], None}
<1>1. BuildInv /\ [BuildNext]_allVars => Keeps
  <2> SUFFICES ASSUME BuildInv, [BuildNext]_allVars, NEW o \in Names, outputs[o] # None
               PROVE  outputs'[o] \in {outputs[o], None}
    OBVIOUS
  <2>0. outputs \in [Names -> Builders \cup {None}]
    BY DEF BuildInv, PublicationTypes
  <2>1. ASSUME NEW b \in Builders, Publishes(b)
        PROVE  outputs'[o] \in {outputs[o], None}
    <3>1. CASE Publication!Link(b)
      BY <2>0, <3>1 DEF Publication!Link, Publication!Files, Names
    <3>2. CASE Publication!Undo(b)
      BY <2>0, <3>2 DEF Publication!Undo, Publication!Undone
    <3>3. CASE UNCHANGED outputs
      BY <3>3
    <3> QED
      BY <2>1, <3>1, <3>2, <3>3 DEF Publishes, Publication!Step, Publication!Check,
         Publication!Create, Publication!Write, Publication!Unstage, Publication!Verify,
         Publication!PublishEnds, Publication!WriteFails, Publication!PublishFails
  <2>2. CASE PowerFails \/ OutputsRemoved
    BY <2>2 DEF PowerFails, OutputsRemoved, Names
  <2>3. CASE UNCHANGED outputs
    BY <2>3
  <2> QED
    BY <2>1, <2>2, <2>3 DEF BuildNext, allVars, pubVars, PublicationEnds, CommandFails,
       CommandKilled
<1>2. BuildInv /\ [BuildNext]_allVars =>
         [\A o \in Publication!Files : outputs[o] # None => outputs'[o] \in {outputs[o], None}]_
            <<[b \in Builders |-> build[b].result], outputs, outStaged, pub, pubFaults>>
  BY <1>1 DEF Publication!Files, Names
<1> QED
  BY <1>2, BuildInvariant, PTL DEF BuildSpec, NeverReplaced, Publication!NeverReplaced,
     Publication!vars
=============================================================================
