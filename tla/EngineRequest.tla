--------------------------- MODULE EngineRequest ---------------------------
(***************************************************************************)
(* The request half of the engine protocol: CheckRequestStream and         *)
(* TreeStream (wrela-driver, engine.rs) decide which frames are accepted,  *)
(* HeadlessCheckExecutor and Stage (wrela-compiler, engine.rs) write the   *)
(* accepted tree into a private directory and seal it.                     *)
(*                                                                         *)
(* The transport is not part of the repository: any frame of Frames may be *)
(* delivered at any time, so a lost, repeated or reordered frame is one    *)
(* whose sequence number is not the expected one.  A digest is the value   *)
(* it digests.  A path is its place in the portable byte order PathOrder,  *)
(* whose members are tuples of path components; the length of a path is    *)
(* its number of components.                                               *)
(***************************************************************************)
EXTENDS Integers, Sequences, FiniteSets, SequencesExt, FiniteSetsExt

CONSTANTS
    PathOrder,      \* the portable paths, in strictly increasing byte order
    Requests,       \* the request headers a client may send
    Frames,         \* the frames a transport may deliver
    TreePathBytes,  \* protocol limit on the bytes of staged directory paths
    Null

VARIABLES
    stream,     \* CheckRequestStream
    stage,      \* Option<Stage> of the executor, Null when taken or dropped
    sealed,     \* Option<SealedInput>: the entries its root will remove
    before,     \* what was at the staging directory's path at the start
    disk,       \* the staging directory: component tuple -> dir or file
    executor,   \* HeadlessCheckExecutor: [poisoned, executed, dropped]
    started,    \* what execute went on to do: Null, "Check" or "Cancelled"
    faultless   \* history: every frame was the canonical next one, no I/O failure

vars == <<stream, stage, sealed, before, disk, executor, started, faultless>>

Dir == [kind |-> "Directory", data |-> <<>>]
FileOf(data) == [kind |-> "File", data |-> data]
Root == <<>>

\* Directories of the same name that somebody else has made.
ForeignDisks ==
    {[p \in {Root} |-> Dir],
     [p \in {Root, <<"foreign">>} |-> IF p = Root THEN Dir ELSE FileOf(<<>>)]}

\* The disk d with node at every one of the paths.
Placed(d, paths, node) == [p \in DOMAIN d \cup paths |-> IF p \in paths THEN node ELSE d[p]]

PathBytes(p) == Len(PathOrder[p])
Parents(p) == [k \in 1 .. Len(PathOrder[p]) - 1 |-> SubSeq(PathOrder[p], 1, k)]

\* The sum of a sequence of numbers.
Total(s) ==
    LET upto[i \in 0 .. Len(s)] == IF i = 0 THEN 0 ELSE upto[i - 1] + s[i]
    IN  upto[Len(s)]

---------------------------------------------------------------------------
(* The types of the messages and of the state                              *)

Paths == Seq(STRING)
Content == Seq(0 .. 255)
RecordTypes == [path : DOMAIN PathOrder, bytes : Nat, digest : Content]
TreeTypes ==
    [digest : Seq(RecordTypes), records : Nat, path_bytes : Nat, content_bytes : Nat]
AllowanceTypes == [records : Nat, path_bytes : Nat, content_bytes : Nat]
RequestTypes ==
    [id : STRING, bound : BOOLEAN, input : TreeTypes, manifest : DOMAIN PathOrder,
     allowance : AllowanceTypes]
MessageTypes ==
    [kind : {"ClientHello"}, trusted : BOOLEAN]
    \cup [kind : {"RequestHeader"}, request : Requests]
    \cup [kind : {"InputRecord"}, index : Nat, record : RecordTypes]
    \cup [kind : {"InputChunk"}, index : Nat, offset : Nat, bytes : Content]
    \cup [kind : {"InputFinish"}, input : TreeTypes]
    \cup [kind : {"Cancel"}]

\* ActiveRecord, TreeStream and CheckRequestStream.
ActiveTypes ==
    [index : Nat, bytes : Nat, digest : Content, offset : Nat, data : Content]
TreeStreamTypes ==
    [declared : TreeTypes, allowance : AllowanceTypes, next : Nat, path_bytes : Nat,
     content_bytes : Nat, prev : Nat, digest : Seq(RecordTypes),
     active : ActiveTypes \cup {Null}]
StreamTypes ==
    [phase : {"ClientHello", "Header", "Input", "Complete", "Cancelled", "Poisoned"},
     seq : Nat, id : STRING \cup {Null}, request : Requests \cup {Null},
     manifest_seen : BOOLEAN, tree : TreeStreamTypes \cup {Null}]

\* ActiveFile and Stage.
FileTypes == [index : Nat, declared : Nat, offset : Nat, path : Paths]
StageTypes ==
    [records : Seq(RecordTypes), active : FileTypes \cup {Null}, entries : Seq(Paths),
     dir_bytes : Nat]

\* Portable paths have a component, no two are the same, and the protocol's
\* messages have the fields of their kind.
ASSUME RequestAssumption ==
    /\ TreePathBytes \in Nat
    /\ PathOrder \in Seq(Paths)
    /\ \A p \in DOMAIN PathOrder : PathOrder[p] # <<>>
    /\ \A p, q \in DOMAIN PathOrder : PathOrder[p] = PathOrder[q] => p = q
    /\ Requests \subseteq RequestTypes
    /\ Frames \subseteq [seq : Nat, id : STRING, msg : MessageTypes]

\* Null stands beside these values and is none of them.
ASSUME NullAssumption ==
    /\ Null \notin STRING /\ Null # "Check" /\ Null \notin Requests
    /\ Null \notin Seq(Paths)
    /\ Null \notin ActiveTypes /\ Null \notin TreeStreamTypes /\ Null \notin StreamTypes
    /\ Null \notin FileTypes /\ Null \notin StageTypes

---------------------------------------------------------------------------
(* TreeStream                                                              *)

\* TreeStream::new; Null when the declared tree exceeds its allowance.
TreeNew(r) ==
    IF \/ r.input.records > r.allowance.records
       \/ r.input.path_bytes > r.allowance.path_bytes
       \/ r.input.content_bytes > r.allowance.content_bytes
    THEN Null
    ELSE [declared |-> r.input, allowance |-> r.allowance, next |-> 0,
          path_bytes |-> 0, content_bytes |-> 0, prev |-> 0, digest |-> <<>>,
          active |-> Null]

\* Mutant: a record of zero bytes stays active, waiting for a chunk.
StartedRecord_Waits(index, rec) ==
    [index |-> index, bytes |-> rec.bytes, digest |-> rec.digest, offset |-> 0,
     data |-> <<>>]

\* The active record that accept_record leaves: a record of zero bytes is
\* complete at once.
StartedRecord(index, rec) ==
    IF rec.bytes = 0 THEN Null
    ELSE [index |-> index, bytes |-> rec.bytes, digest |-> rec.digest, offset |-> 0,
          data |-> <<>>]

\* Mutant: the sums are left to TreeStream::finish.
RecordFits_CheckedLater(tree, rec) == TRUE

\* With rec the sums stay within the allowance and the declaration.
RecordFits(tree, rec) ==
    /\ tree.path_bytes + PathBytes(rec.path) <= tree.allowance.path_bytes
    /\ tree.content_bytes + rec.bytes <= tree.allowance.content_bytes
    /\ tree.path_bytes + PathBytes(rec.path) <= tree.declared.path_bytes
    /\ tree.content_bytes + rec.bytes <= tree.declared.content_bytes

\* TreeStream::accept_record; Null is the error return.
AcceptRecord(tree, index, rec) ==
    IF \/ tree.active # Null
       \/ index # tree.next
       \/ index >= tree.declared.records
       \/ index >= tree.allowance.records
       \/ tree.prev >= rec.path
       \/ ~RecordFits(tree, rec)
       \/ rec.bytes = 0 /\ rec.digest # <<>>
    THEN Null
    ELSE [tree EXCEPT
            !.path_bytes = @ + PathBytes(rec.path),
            !.content_bytes = @ + rec.bytes,
            !.prev = rec.path,
            !.digest = Append(@, rec),
            !.next = @ + 1,
            !.active = StartedRecord(index, rec)]

\* TreeStream::accept_chunk.
AcceptChunk(tree, index, offset, bytes) ==
    IF \/ bytes = <<>>
       \/ tree.active = Null
    THEN Null
    ELSE LET active == tree.active
             next == active.offset + Len(bytes)
             data == active.data \o bytes
         IN  IF \/ index # active.index
                \/ offset # active.offset
                \/ next > active.bytes
                \/ next = active.bytes /\ data # active.digest
             THEN Null
             ELSE [tree EXCEPT !.active =
                     IF next = active.bytes THEN Null
                     ELSE [active EXCEPT !.offset = next, !.data = data]]

\* The measurement TreeStream::finish takes of what was streamed.
Measured(tree) ==
    [digest |-> tree.digest, records |-> tree.next,
     path_bytes |-> tree.path_bytes, content_bytes |-> tree.content_bytes]

\* TreeStream::finish returns Ok.
TreeFinishes(tree, provided) ==
    /\ tree.active = Null
    /\ provided = tree.declared
    /\ Measured(tree) = tree.declared

---------------------------------------------------------------------------
(* CheckRequestStream                                                      *)

\* CheckRequestStream::new.
StreamNew ==
    [phase |-> "ClientHello", seq |-> 0, id |-> Null, request |-> Null,
     manifest_seen |-> FALSE, tree |-> Null]

Poison(s) == [s EXCEPT !.phase = "Poisoned"]

\* Mutant: the tree need not hold the manifest the header names.
InputFinishes_AnyTree(s, provided) == TreeFinishes(s.tree, provided)

\* InputFinish is accepted: the tree is complete and its manifest was seen.
InputFinishes(s, provided) == TreeFinishes(s.tree, provided) /\ s.manifest_seen

\* The transition of CheckRequestStream::accept_frame that the message asks
\* for, before the sequence number advances; Null when it is refused.
Transition(s, f) ==
    LET m == f.msg IN
    CASE s.phase = "ClientHello" /\ m.kind = "ClientHello" ->
            IF ~m.trusted THEN Null
            ELSE [s EXCEPT !.phase = "Header", !.id = f.id]
      [] s.phase = "Header" /\ m.kind = "RequestHeader" ->
            LET tree == TreeNew(m.request) IN
            IF ~m.request.bound \/ m.request.id # f.id \/ tree = Null THEN Null
            ELSE [s EXCEPT !.phase = "Input", !.request = m.request, !.tree = tree]
      [] s.phase \in {"Input", "Complete"} /\ m.kind = "Cancel" ->
            [s EXCEPT !.phase = "Cancelled", !.tree = Null]
      [] s.phase = "Input" /\ m.kind = "InputRecord" ->
            LET tree == AcceptRecord(s.tree, m.index, m.record) IN
            IF tree = Null THEN Null
            ELSE [s EXCEPT !.tree = tree,
                           !.manifest_seen = @ \/ m.record.path = s.request.manifest]
      [] s.phase = "Input" /\ m.kind = "InputChunk" ->
            LET tree == AcceptChunk(s.tree, m.index, m.offset, m.bytes) IN
            IF tree = Null THEN Null ELSE [s EXCEPT !.tree = tree]
      [] s.phase = "Input" /\ m.kind = "InputFinish" ->
            IF ~InputFinishes(s, m.input) THEN Null
            ELSE [s EXCEPT !.phase = "Complete", !.tree = Null]
      [] OTHER -> Null

\* CheckRequestStream::accept_validated: any refusal poisons the stream.
Accept(s, f) ==
    LET t == Transition(s, f) IN
    IF f.seq # s.seq \/ s.id \notin {Null, f.id} \/ t = Null
    THEN Poison(s)
    ELSE [t EXCEPT !.seq = @ + 1]

---------------------------------------------------------------------------
(* Stage: the private directory                                            *)

\* remove_file or remove_dir: a directory that is not empty stays.
Unlink(d, path) ==
    IF \E p \in DOMAIN d : Len(p) > Len(path) /\ SubSeq(p, 1, Len(path)) = path
    THEN d
    ELSE [p \in DOMAIN d \ {path} |-> d[p]]

\* The paths are removed in their order.
UnlinkAll(d, paths) ==
    LET left[k \in 0 .. Len(paths)] == IF k = 0 THEN d ELSE Unlink(left[k - 1], paths[k])
    IN  left[Len(paths)]

\* Mutant: entries are removed oldest first, when directories are not empty.
Removed_OldestFirst(d, entries) == Unlink(UnlinkAll(d, entries), Root)

\* Drop of OwnedTreeRoot: the recorded entries newest first, the root last;
\* what cannot be removed is left.
Removed(d, entries) == Unlink(UnlinkAll(d, Reverse(entries)), Root)

StageNew == [records |-> <<>>, active |-> Null, entries |-> <<>>, dir_bytes |-> 0]

\* Stage::finish_active returns Ok, its sync_all aside.
ActiveDone(st) == st.active # Null => st.active.offset = st.active.declared

\* The parents of path p that are not among known.  A directory exists only
\* with its own parents, so they are those below the deepest known one.
NewParents(p, known) ==
    LET deepest == Max({0} \cup {k \in DOMAIN Parents(p) : Parents(p)[k] \in known})
    IN  SubSeq(Parents(p), deepest + 1, Len(Parents(p)))

\* The directories create_private_parents has to make for path p, or Null
\* when one of the parents is a file.
MissingParents(p) ==
    IF \E k \in DOMAIN Parents(p) :
          Parents(p)[k] \in DOMAIN disk /\ disk[Parents(p)[k]] # Dir
    THEN Null
    ELSE NewParents(p, DOMAIN disk)

DirBytes(dirs) == Total([i \in DOMAIN dirs |-> Len(dirs[i])])

\* Mutant: a directory that was made is not recorded.
WithDirs_Unrecorded(st, dirs) == [st EXCEPT !.dir_bytes = @ + DirBytes(dirs)]

\* The stage after create_private_parents has made and recorded dirs.
WithDirs(st, dirs) ==
    [st EXCEPT !.entries = @ \o dirs, !.dir_bytes = @ + DirBytes(dirs)]

DiskWithDirs(dirs) == Placed(disk, ToSet(dirs), Dir)

\* measure_tree over a table of records.
MeasureTree(recs) ==
    [digest |-> recs, records |-> Len(recs),
     path_bytes |-> Total([i \in DOMAIN recs |-> PathBytes(recs[i].path)]),
     content_bytes |-> Total([i \in DOMAIN recs |-> recs[i].bytes])]

\* Stage::finish: the inventory, the remeasured files and the remeasured
\* tree all agree with what was declared.
StageFinishes(st, declared) ==
    /\ ActiveDone(st)
    /\ {p \in DOMAIN disk : disk[p].kind = "File"}
          = {PathOrder[st.records[i].path] : i \in DOMAIN st.records}
    /\ {p \in DOMAIN disk : disk[p] = Dir}
          = {Root} \cup {p \in ToSet(st.entries) : p \in DOMAIN disk /\ disk[p] = Dir}
    /\ \A i \in DOMAIN st.records :
          disk[PathOrder[st.records[i].path]].data = st.records[i].digest
    /\ MeasureTree(st.records) = declared

---------------------------------------------------------------------------
(* HeadlessCheckExecutor                                                   *)

Init ==
    /\ stream = StreamNew
    /\ stage = Null
    /\ before \in {<<>>} \cup ForeignDisks
    /\ disk = before
    /\ executor = [poisoned |-> FALSE, executed |-> FALSE, dropped |-> FALSE]
    /\ sealed = Null
    /\ started = Null
    /\ faultless = (before = <<>>)

\* A well-behaved client sends a hello, a header, for every file its record
\* and its contents one byte at a time, and InputFinish.  FrameOf is the place
\* of the record of the i-th file in that stream, counted from 0.
FrameOf(recs, i) == 2 + Total([j \in 1 .. i - 1 |-> 1 + recs[j].bytes])

\* m is what a client that asks for request r sends at place q.
Canonical(r, q, m) ==
    LET recs == r.input.digest IN
    \/ q = 0 /\ m = [kind |-> "ClientHello", trusted |-> TRUE]
    \/ q = 1 /\ m = [kind |-> "RequestHeader", request |-> r]
    \/ \E i \in DOMAIN recs :
          \/ /\ q = FrameOf(recs, i)
             /\ m = [kind |-> "InputRecord", index |-> i - 1, record |-> recs[i]]
          \/ \E k \in 1 .. recs[i].bytes :
                /\ q = FrameOf(recs, i) + k
                /\ m = [kind |-> "InputChunk", index |-> i - 1, offset |-> k - 1,
                        bytes |-> <<recs[i].digest[k]>>]
    \/ /\ q = FrameOf(recs, Len(recs) + 1)
       /\ m = [kind |-> "InputFinish", input |-> r.input]

\* The directories that the first n files of recs need.
DirsOf(recs, n) == UNION {ToSet(Parents(recs[i].path)) : i \in 1 .. n}

\* r describes a tree that exists and fits the limits, and names its manifest.
Honest(r) ==
    LET recs == r.input.digest IN
    /\ r.bound
    /\ TreeNew(r) # Null
    /\ r.input = MeasureTree(recs)
    /\ \A i \in DOMAIN recs : recs[i].bytes = Len(recs[i].digest)
    /\ \A i, j \in DOMAIN recs : i < j => recs[i].path < recs[j].path
    /\ \E i \in DOMAIN recs : recs[i].path = r.manifest
    /\ \A i \in DOMAIN recs : PathOrder[recs[i].path] \notin DirsOf(recs, Len(recs))
    /\ Total([i \in DOMAIN recs |-> DirBytes(NewParents(recs[i].path, DirsOf(recs, i - 1)))])
          <= TreePathBytes

\* f is the frame a well-behaved client would send next.
InOrder(f) ==
    /\ f.seq = stream.seq
    /\ stream.phase # "Cancelled"
    /\ \E r \in Requests :
          /\ Honest(r)
          /\ f.id = r.id
          /\ stream.id \in {Null, r.id}
          /\ stream.request \in {Null, r}
          /\ \/ Canonical(r, f.seq, f.msg)
             \/ f.msg.kind = "Cancel" /\ stream.phase \in {"Input", "Complete"}

\* accept_request_frame refuses every frame after a failure or an execution.
Listening == ~executor.poisoned /\ ~executor.executed /\ ~executor.dropped

\* accept_request_frame when the stream takes f and consume_action returns
\* Ok (ok), or an error that poisons the executor.  An error of a step that is
\* possible is an I/O failure, a failed allocation or a polled cancellation.
Consume(f, kind, possible, ok) ==
    /\ Listening
    /\ f.msg.kind = kind
    /\ stream' = Accept(stream, f)
    /\ stream'.phase # "Poisoned"
    /\ ok => possible
    /\ executor' = [executor EXCEPT !.poisoned = ~ok]
    /\ faultless' = (faultless /\ InOrder(f) /\ (possible => ok))
    /\ UNCHANGED started

\* accept_request_frame when the stream refuses f, or cancellation is polled.
Refuse(f) ==
    /\ Listening
    /\ stream' = Poison(stream)
    /\ executor' = [executor EXCEPT !.poisoned = TRUE]
    /\ faultless' = (faultless /\ InOrder(f) /\ Accept(stream, f).phase = "Poisoned")
    /\ UNCHANGED <<stage, sealed, disk, started>>

Hello(f) ==
    /\ Consume(f, "ClientHello", TRUE, TRUE)
    /\ UNCHANGED <<stage, sealed, disk>>

\* Mutant: a directory that is already there is taken over.
Header_TakesOver(f) ==
    /\ Consume(f, "RequestHeader", TRUE, TRUE)
    /\ stage' = StageNew
    /\ disk' = Placed(disk, {Root}, Dir)
    /\ UNCHANGED sealed

\* Stage::create makes the request's directory, which must not exist.
Header(f) ==
    /\ Consume(f, "RequestHeader", Root \notin DOMAIN disk, TRUE)
    /\ stage' = StageNew
    /\ disk' = [p \in {Root} |-> Dir]
    /\ UNCHANGED sealed

HeaderFails(f) ==
    /\ Consume(f, "RequestHeader", Root \notin DOMAIN disk, FALSE)
    /\ UNCHANGED <<stage, sealed, disk>>

\* Stage::start_record gets past its checks.
RecordPossible(f) ==
    LET rec == f.msg.record
        missing == MissingParents(rec.path)
    IN  /\ ActiveDone(stage)
        /\ f.msg.index = Len(stage.records)
        /\ missing # Null
        /\ stage.dir_bytes + DirBytes(missing) <= TreePathBytes
        /\ PathOrder[rec.path] \notin DOMAIN disk

\* Stage::start_record: the previous file is complete, the parents are made,
\* then the file.
Record(f) ==
    /\ Consume(f, "InputRecord", RecordPossible(f), TRUE)
    /\ LET rec == f.msg.record
           missing == MissingParents(rec.path)
           path == PathOrder[rec.path]
       IN  /\ disk' = Placed(DiskWithDirs(missing), {path}, FileOf(<<>>))
           /\ stage' = [WithDirs(stage, missing) EXCEPT
                           !.entries = Append(@, path),
                           !.records = Append(@, rec),
                           !.active = [index |-> f.msg.index, declared |-> rec.bytes,
                                       offset |-> 0, path |-> path]]
    /\ UNCHANGED sealed

\* Stage::start_record fails after making some of the missing parents;
\* finish_active has already taken the active file.
RecordFails(f) ==
    /\ Consume(f, "InputRecord", RecordPossible(f), FALSE)
    /\ LET missing == IF MissingParents(f.msg.record.path) = Null THEN <<>>
                      ELSE MissingParents(f.msg.record.path)
       IN  \E made \in 0 .. Len(missing) :
             LET dirs == SubSeq(missing, 1, made) IN
             /\ stage.dir_bytes + DirBytes(dirs) <= TreePathBytes
             /\ disk' = DiskWithDirs(dirs)
             /\ stage' = [WithDirs(stage, dirs) EXCEPT !.active = Null]
    /\ UNCHANGED sealed

\* Stage::write_chunk gets past its checks.
ChunkPossible(f) ==
    /\ stage.active # Null
    /\ f.msg.index = stage.active.index
    /\ f.msg.offset = stage.active.offset
    /\ f.msg.offset + Len(f.msg.bytes) <= stage.active.declared

\* Mutant: the write starts again at the beginning of the file.
Written_FromStart(bytes) == bytes

\* The active file's contents after write_all has appended bytes.
Written(bytes) == disk[stage.active.path].data \o bytes

\* Mutant: the offset counts chunks, not bytes.
Advanced_ByChunk(st, bytes) == [st EXCEPT !.active.offset = @ + 1]

\* The stage after write_chunk has advanced the active file's offset.
Advanced(st, bytes) == [st EXCEPT !.active.offset = @ + Len(bytes)]

\* Stage::write_chunk appends the bytes to the active file.
Chunk(f) ==
    /\ Consume(f, "InputChunk", ChunkPossible(f), TRUE)
    /\ disk' = [disk EXCEPT ![stage.active.path] = FileOf(Written(f.msg.bytes))]
    /\ stage' = Advanced(stage, f.msg.bytes)
    /\ UNCHANGED sealed

\* Stage::write_chunk fails, having written some of the bytes.
ChunkFails(f) ==
    /\ Consume(f, "InputChunk", ChunkPossible(f), FALSE)
    /\ \/ UNCHANGED disk
       \/ /\ stage.active # Null
          /\ \E n \in 1 .. Len(f.msg.bytes) :
                disk' = [disk EXCEPT ![stage.active.path] =
                            FileOf(Written(SubSeq(f.msg.bytes, 1, n)))]
    /\ UNCHANGED <<stage, sealed>>

\* Stage::finish verifies and seals the tree, whose root SealedInput then owns.
Finish(f) ==
    /\ Consume(f, "InputFinish", StageFinishes(stage, f.msg.input), TRUE)
    /\ sealed' = stage.entries
    /\ stage' = Null
    /\ UNCHANGED disk

\* Stage::finish fails; the stage it consumed is dropped and removed.
FinishFails(f) ==
    /\ Consume(f, "InputFinish", StageFinishes(stage, f.msg.input), FALSE)
    /\ stage' = Null
    /\ disk' = Removed(disk, stage.entries)
    /\ UNCHANGED sealed

\* consume_action of Cancel drops the stage; a sealed tree stays with the
\* executor.
Cancel(f) ==
    /\ Consume(f, "Cancel", TRUE, TRUE)
    /\ stage' = Null
    /\ disk' = IF stage = Null THEN disk ELSE Removed(disk, stage.entries)
    /\ UNCHANGED sealed

\* Mutant: a Cancel that the stream accepted is forgotten.
CancelSeen_HostOnly(host) == host

\* The cancellation execute looks at before anything else.
CancelSeen(host) == stream.phase = "Cancelled" \/ host

\* HeadlessCheckExecutor::execute up to the check itself; host is the value
\* the caller's is_cancelled returns.
Execute(host) ==
    /\ Listening
    /\ stream.id # Null
    /\ CancelSeen(host) \/ sealed # Null
    /\ executor' = [executor EXCEPT !.executed = TRUE]
    /\ started' = IF stream.request = Null THEN Null
                  ELSE IF CancelSeen(host) THEN "Cancelled" ELSE "Check"
    /\ UNCHANGED <<stream, stage, sealed, disk, faultless>>

\* The executor is dropped, and with it the stage or the sealed tree.
Drop ==
    /\ ~executor.dropped
    /\ executor' = [executor EXCEPT !.dropped = TRUE]
    /\ stage' = Null
    /\ sealed' = Null
    /\ disk' = IF stage # Null THEN Removed(disk, stage.entries)
               ELSE IF sealed # Null THEN Removed(disk, sealed)
               ELSE disk
    /\ UNCHANGED <<stream, started, faultless>>

Step ==
    \/ \E f \in Frames :
          \/ Refuse(f) \/ Hello(f) \/ Header(f) \/ HeaderFails(f)
          \/ Record(f) \/ RecordFails(f) \/ Chunk(f) \/ ChunkFails(f)
          \/ Finish(f) \/ FinishFails(f) \/ Cancel(f)
    \/ \E host \in BOOLEAN : Execute(host)
    \/ Drop

Next == Step /\ UNCHANGED before

Spec == Init /\ [][Next]_vars

---------------------------------------------------------------------------
(* Properties                                                              *)

\* Every variable keeps the shape its Rust type gives it, and the running sums
\* of an open tree stay within what its header declared.
RequestTypeOK ==
    /\ stream.phase \in {"ClientHello", "Header", "Input", "Complete", "Cancelled",
                         "Poisoned"}
    /\ stream.seq \in Nat
    /\ stream.request \in Requests \cup {Null}
    /\ executor \in [poisoned : BOOLEAN, executed : BOOLEAN, dropped : BOOLEAN]
    /\ started \in {Null, "Check", "Cancelled"}
    /\ faultless \in BOOLEAN
    /\ stream.tree # Null =>
          /\ stream.tree.next <= stream.tree.declared.records
          /\ stream.tree.path_bytes <= stream.tree.declared.path_bytes
          /\ stream.tree.content_bytes <= stream.tree.declared.content_bytes
    /\ \A p \in DOMAIN disk : disk[p].kind \in {"File", "Directory"}

\* Whatever frames were lost, repeated, reordered or mixed with those of
\* another request: a tree that Stage::finish sealed holds exactly the files
\* and the contents that the digest of the one request header stands for, its
\* manifest among them.
SealedTreeIsDeclared ==
    sealed # Null =>
        LET recs == stream.request.input.digest
            files == {p \in DOMAIN disk : disk[p].kind = "File"}
        IN  /\ files = {PathOrder[recs[i].path] : i \in DOMAIN recs}
            /\ \A i \in DOMAIN recs : disk[PathOrder[recs[i].path]].data = recs[i].digest
            /\ \E i \in DOMAIN recs : recs[i].path = stream.request.manifest
            /\ stream.request.input.content_bytes
                  = Total([i \in DOMAIN recs |-> Len(recs[i].digest)])

\* TreeStream and Stage keep the same place independently: while input is
\* accepted they hold the same records, the same active file and the same
\* offset, so the re-checks of start_record and write_chunk never fire.
StageFollowsStream ==
    stream.phase = "Input" /\ Listening =>
        /\ stage # Null
        /\ stage.records = stream.tree.digest
        /\ IF stream.tree.active = Null THEN ActiveDone(stage)
           ELSE /\ stage.active # Null
                /\ stage.active.index = stream.tree.active.index
                /\ stage.active.offset = stream.tree.active.offset
                /\ stage.active.declared = stream.tree.active.bytes

\* A client that describes its tree truthfully and sends its frames in order is
\* never refused when no I/O fails, and its last frame seals the tree.
HonestStreamIsTaken ==
    faultless => /\ ~executor.poisoned
                 /\ stream.phase = "Complete" /\ ~executor.dropped => sealed # Null

\* However the request ended (sealed, cancelled, poisoned in the middle of a
\* file or of its parent directories) nothing of it is left once its stage and
\* its sealed tree are dropped, and a directory that somebody else made is
\* untouched.
StagingLeavesNothing ==
    stage = Null /\ sealed = Null => disk = before

\* A check is started only over a sealed tree of a request that was neither
\* poisoned nor cancelled, also when the Cancel came after the tree was sealed.
CheckStartsOnSealedTree ==
    started = "Check" => /\ stream.phase = "Complete"
                         /\ ~executor.poisoned
                         /\ sealed # Null \/ executor.dropped

\* What accept_request_frame, execute and Drop keep between them: the two
\* machines in step, nothing left behind, no check but over a sealed tree.
RequestInv ==
    /\ RequestTypeOK
    /\ StageFollowsStream
    /\ StagingLeavesNothing
    /\ CheckStartsOnSealedTree
=============================================================================
