------------------------- MODULE FormatPublication -------------------------
(***************************************************************************)
(* publish_changed_sources of the local format command (wrela-compiler,    *)
(* local_format.rs): a batch of source files is replaced by its formatted  *)
(* text with a lock file, a staged file and a rollback file per source,    *)
(* one rename per file, and a rollback when the commit fails.              *)
(*                                                                         *)
(* Several formatter processes run, any of which may crash between two     *)
(* steps; an editor rewrites sources; any file operation may fail.  The    *)
(* data of a file is [text, formatted, file]: text counts the editor's     *)
(* writes, formatting changes only the flag, and file says who made it     *)
(* (MetadataSnapshot: a renamed file has another inode).                   *)
(* read_stable_file returns the data at one instant or fails: it compares  *)
(* the file's identity before and after the read.                          *)
(***************************************************************************)
EXTENDS Integers, Sequences, FiniteSets

CONSTANTS
    Formatters,  \* processes running the format command
    Sources,     \* number of source files, in selection order
    MaxEdits,    \* bound on the editor's writes
    MaxFaults,   \* bound on failed file operations
    None,        \* no file, no process, no outcome
    Torn         \* a file that is written in part

VARIABLES
    dest,      \* dest[f]: the data of source f
    lock,      \* lock[f]: the process that made its lock file, or None
    stage,     \* stage[p][f]: the ".new" file of process p, or None
    rollback,  \* rollback[p][f]: its ".old" file, or None
    proc,      \* proc[p]: the command, see Init
    edits,     \* writes of the editor so far
    faults     \* [kind, by] of the operations that failed

vars == <<dest, lock, stage, rollback, proc, edits, faults>>

Files == 1 .. Sources
Data == [text : 0 .. MaxEdits, formatted : BOOLEAN, file : Formatters \cup {None}]

ASSUME FormatAssumption ==
    /\ Sources \in Nat \ {0}
    /\ MaxEdits \in Nat
    /\ None \notin Formatters
    /\ None \notin Data /\ Torn \notin Data
    /\ None # Torn

\* The file d is whole and its digest is that of e.
SameBytes(d, e) ==
    /\ d \notin {None, Torn}
    /\ d.text = e.text
    /\ d.formatted = e.formatted

Init ==
    /\ dest = [f \in Files |-> [text |-> 0, formatted |-> FALSE, file |-> None]]
    /\ lock = [f \in Files |-> None]
    /\ stage = [p \in Formatters |-> [f \in Files |-> None]]
    /\ rollback = [p \in Formatters |-> [f \in Files |-> None]]
    /\ proc = [p \in Formatters |->
                 [pc |-> "read", at |-> 1, outcome |-> None,
                  input |-> [f \in Files |-> None],  \* as they were parsed
                  prepared |-> {},     \* the PreparedPublication records
                  committed |-> {}, preserve |-> {},
                  replaced |-> {},     \* history: the sources renamed over
                  promised |-> None,   \* history: the source whose rollback
                                       \* file the error message names
                  seen |-> [f \in Files |-> -1]]]
                                       \* history: edits when f was revalidated
    /\ edits = 0
    /\ faults = {}

\* The sources whose formatted text differs from what was read.
Changed(p) == {f \in Files : ~proc[p].input[f].formatted}

\* The first changed source after f, or Sources + 1.
NextAfter(p, f) ==
    CHOOSE g \in f + 1 .. Sources + 1 :
        /\ g \in Changed(p) \cup {Sources + 1}
        /\ \A h \in f + 1 .. g - 1 : h \notin Changed(p)

\* The last committed source before f, or 0.
PrevCommitted(p, f) ==
    CHOOSE g \in 0 .. f - 1 :
        /\ g \in proc[p].committed \cup {0}
        /\ \A h \in g + 1 .. f - 1 : h \notin proc[p].committed

At(p, pc, f) == [proc[p] EXCEPT !.pc = pc, !.at = f]
Goto(p, r) == proc' = [proc EXCEPT ![p] = r]

\* An operation of process p fails, within the bound.
Fault(p, kind) ==
    /\ Cardinality(faults) < MaxFaults
    /\ faults' = faults \cup {[kind |-> kind, by |-> p]}

\* execute_format reads the selected sources one by one, parses and formats
\* them; without a changed one it publishes nothing.
Read(p) ==
    LET f == proc[p].at
        input == [proc[p].input EXCEPT ![f] = dest[f]]
        changed == {g \in Files : g <= f /\ ~input[g].formatted}
    IN  /\ proc[p].pc = "read"
        /\ Goto(p, IF f < Sources THEN [proc[p] EXCEPT !.input = input, !.at = f + 1]
                   ELSE IF changed = {}
                   THEN [proc[p] EXCEPT !.input = input, !.pc = "drop", !.outcome = "Ok"]
                   ELSE [proc[p] EXCEPT !.input = input, !.pc = "lock",
                           !.at = CHOOSE g \in changed : \A h \in changed : g <= h])
        /\ UNCHANGED <<dest, lock, stage, rollback, edits, faults>>

\* Mutant: the publication record exists before its lock is taken, so
\* dropping it removes the lock of the other formatter.
LockRefused_DropsIt(p) == proc[p].prepared \cup {proc[p].at}

\* What prepare_publication owns when the lock file already exists.
LockRefused(p) == proc[p].prepared

\* Mutant: the formatter waits until the lock file is gone.
Lock_Waits(p) ==
    LET f == proc[p].at IN
    /\ proc[p].pc = "lock"
    /\ lock[f] = None
    /\ lock' = [lock EXCEPT ![f] = p]
    /\ Goto(p, [proc[p] EXCEPT !.pc = "write", !.prepared = @ \cup {f}])
    /\ UNCHANGED <<dest, stage, rollback, edits, faults>>

\* Mutant: the record that cleans up is made once its files are written.
Own_AfterWrite(p, f) == proc[p].prepared

\* The publications a process cleans up when it returns.
Own(p, f) == proc[p].prepared \cup {f}

\* prepare_publication creates the lock file, which must be new.
Lock(p) ==
    LET f == proc[p].at IN
    /\ proc[p].pc = "lock"
    /\ IF lock[f] = None
       THEN /\ lock' = [lock EXCEPT ![f] = p]
            /\ Goto(p, [proc[p] EXCEPT !.pc = "write", !.prepared = Own(p, f)])
       ELSE /\ Goto(p, [proc[p] EXCEPT !.pc = "drop", !.outcome = "Err",
                                       !.prepared = LockRefused(p)])
            /\ UNCHANGED lock
    /\ UNCHANGED <<dest, stage, rollback, edits, faults>>

\* Mutant: the staged file is not flushed before it is renamed.
Staged_Unflushed(p, f) == Torn

\* What the staged file holds when write_temporary_file returns.
Staged(p, f) == [proc[p].input[f] EXCEPT !.formatted = TRUE, !.file = p]

\* prepare_publication: write_temporary_file creates the staged file, ...
StageOpens(p) ==
    /\ proc[p].pc = "write"
    /\ stage' = [stage EXCEPT ![p][proc[p].at] = Torn]
    /\ Goto(p, At(p, "staged", proc[p].at))
    /\ UNCHANGED <<dest, lock, rollback, edits, faults>>

\* ... writes it whole and creates the rollback file, ...
RollbackOpens(p) ==
    LET f == proc[p].at IN
    /\ proc[p].pc = "staged"
    /\ stage' = [stage EXCEPT ![p][f] = Staged(p, f)]
    /\ rollback' = [rollback EXCEPT ![p][f] = Torn]
    /\ Goto(p, At(p, "saved", f))
    /\ UNCHANGED <<dest, lock, edits, faults>>

\* ... writes that, and the directory is synced.
TemporariesWritten(p) ==
    LET f == proc[p].at IN
    /\ proc[p].pc = "saved"
    /\ rollback' = [rollback EXCEPT ![p][f] = [proc[p].input[f] EXCEPT !.file = p]]
    /\ Goto(p, At(p, "recheck", f))
    /\ UNCHANGED <<dest, lock, stage, edits, faults>>

\* Mutant: the source is not read again under the lock.
Unchanged_Assumed(p, f) == TRUE

\* revalidate_publication: digest and metadata are those that were parsed.
Unchanged(p, f) == dest[f] = proc[p].input[f]

\* The revalidation at the end of prepare_publication.
Recheck(p) ==
    LET f == proc[p].at
        g == NextAfter(p, f)
    IN  /\ proc[p].pc = "recheck"
        /\ Goto(p, IF ~Unchanged(p, f)
                   THEN [proc[p] EXCEPT !.pc = "drop", !.outcome = "Err"]
                   ELSE IF g = Sources + 1 THEN At(p, "revalidate", NextAfter(p, 0))
                   ELSE At(p, "lock", g))
        /\ UNCHANGED <<dest, lock, stage, rollback, edits, faults>>

\* publish_changed_sources checks the whole set again with every lock held.
Revalidate(p) ==
    LET f == proc[p].at
        g == NextAfter(p, f)
    IN  /\ proc[p].pc = "revalidate"
        /\ Goto(p, IF ~Unchanged(p, f)
                   THEN [proc[p] EXCEPT !.pc = "drop", !.outcome = "Err"]
                   ELSE LET r == IF g = Sources + 1 THEN At(p, "commit", NextAfter(p, 0))
                                 ELSE At(p, "revalidate", g)
                        IN  [r EXCEPT !.seen[f] = edits])
        /\ UNCHANGED <<dest, lock, stage, rollback, edits, faults>>

\* A cancellation, or a failed write or read, before anything is visible.
GiveUp(p) ==
    /\ proc[p].pc \in {"read", "lock", "write", "staged", "saved", "recheck", "revalidate"}
    /\ Fault(p, "prepare")
    /\ Goto(p, [proc[p] EXCEPT !.pc = "drop", !.outcome = "Err"])
    /\ UNCHANGED <<dest, lock, stage, rollback, edits>>

\* commit_publications: the first failure starts the rollback at the end.
StartRollback(p) ==
    Goto(p, At(p, "rollback", PrevCommitted(p, Sources + 1)))

\* Mutant: a file counts as committed only once its directory is synced.
MarkCommitted_AfterSync(p, f) == proc[p].committed

\* The files commit_publications knows it has replaced.
MarkCommitted(p, f) == proc[p].committed \cup {f}

\* commit_publications renames the staged file over the source.
Commit(p) ==
    LET f == proc[p].at
        g == NextAfter(p, f)
    IN  /\ proc[p].pc = "commit"
        /\ dest' = [dest EXCEPT ![f] = stage[p][f]]
        /\ stage' = [stage EXCEPT ![p][f] = None]
        /\ Goto(p, [proc[p] EXCEPT
                      !.committed = MarkCommitted(p, f),
                      !.replaced = @ \cup {f},
                      !.pc = IF g = Sources + 1 THEN "sync" ELSE "commit",
                      !.at = g])
        /\ UNCHANGED <<lock, rollback, edits, faults>>

CommitFails(p) ==
    /\ proc[p].pc = "commit"
    /\ Fault(p, "rename")
    /\ StartRollback(p)
    /\ UNCHANGED <<dest, lock, stage, rollback, edits>>

\* commit_publications syncs the parent directories.
Sync(p) ==
    /\ proc[p].pc = "sync"
    /\ Goto(p, At(p, "verify", NextAfter(p, 0)))
    /\ UNCHANGED <<dest, lock, stage, rollback, edits, faults>>

SyncFails(p) ==
    /\ proc[p].pc = "sync"
    /\ Fault(p, "sync")
    /\ StartRollback(p)
    /\ UNCHANGED <<dest, lock, stage, rollback, edits>>

\* The source still holds the published digest.
Published(p, f) ==
    SameBytes(dest[f], [proc[p].input[f] EXCEPT !.formatted = TRUE])

\* commit_publications reads each published source back.
Verify(p) ==
    LET f == proc[p].at
        g == NextAfter(p, f)
    IN  /\ proc[p].pc = "verify"
        /\ IF ~Published(p, f) THEN StartRollback(p)
           ELSE Goto(p, IF g = Sources + 1 THEN At(p, "clean", NextAfter(p, 0))
                        ELSE At(p, "verify", g))
        /\ UNCHANGED <<dest, lock, stage, rollback, edits, faults>>

\* The read itself fails, or sees the source change: an error without a
\* rollback.
VerifyFails(p) ==
    /\ proc[p].pc = "verify"
    /\ Fault(p, "read")
    /\ Goto(p, [proc[p] EXCEPT !.pc = "drop", !.outcome = "Err"])
    /\ UNCHANGED <<dest, lock, stage, rollback, edits>>

\* commit_publications removes the rollback files, ...
Clean(p) ==
    LET f == proc[p].at IN
    /\ proc[p].pc = "clean"
    /\ f # Sources + 1
    /\ rollback' = [rollback EXCEPT ![p][f] = None]
    /\ Goto(p, [proc[p] EXCEPT !.committed = @ \ {f}, !.at = NextAfter(p, f)])
    /\ UNCHANGED <<dest, lock, stage, edits, faults>>

\* ... and syncs the directories a last time.
CleanEnds(p) ==
    /\ proc[p].pc = "clean"
    /\ proc[p].at = Sources + 1
    /\ Goto(p, [proc[p] EXCEPT !.pc = "drop", !.outcome = "Ok"])
    /\ UNCHANGED <<dest, lock, stage, rollback, edits, faults>>

CleanFails(p) ==
    /\ proc[p].pc = "clean"
    /\ Fault(p, "remove")
    /\ Goto(p, [proc[p] EXCEPT !.pc = "drop", !.outcome = "Err"])
    /\ UNCHANGED <<dest, lock, stage, rollback, edits>>

\* Mutant: the rollback file of the source that could not be restored is
\* not kept.
Kept_None(p) == proc[p].preserve

\* The rollback files that survive when restoring the current source fails.
Kept(p) == proc[p].preserve \cup {proc[p].at}

\* rollback_publications, newest first: the published bytes are read back ...
RollbackRead(p) ==
    LET f == proc[p].at IN
    /\ proc[p].pc = "rollback"
    /\ f # 0
    /\ Goto(p, IF Published(p, f) THEN At(p, "restore", f)
               ELSE [proc[p] EXCEPT !.pc = "drop", !.outcome = "Err",
                                    !.preserve = Kept(p), !.promised = f])
    /\ UNCHANGED <<dest, lock, stage, rollback, edits, faults>>

\* ... and replaced by the rollback file.
Restore(p) ==
    LET f == proc[p].at IN
    /\ proc[p].pc = "restore"
    /\ dest' = [dest EXCEPT ![f] = rollback[p][f]]
    /\ rollback' = [rollback EXCEPT ![p][f] = None]
    /\ Goto(p, [proc[p] EXCEPT !.pc = "rollback", !.at = PrevCommitted(p, f),
                               !.committed = @ \ {f}])
    /\ UNCHANGED <<lock, stage, edits, faults>>

RestoreFails(p) ==
    /\ proc[p].pc \in {"rollback", "restore"}
    /\ proc[p].at # 0
    /\ Fault(p, "restore")
    /\ Goto(p, [proc[p] EXCEPT !.pc = "drop", !.outcome = "Err",
                               !.preserve = Kept(p), !.promised = proc[p].at])
    /\ UNCHANGED <<dest, lock, stage, rollback, edits>>

\* rollback_publications is through; the directory syncs that follow may fail
\* without another effect, as the command fails in any case.
RollbackEnds(p) ==
    /\ proc[p].pc = "rollback"
    /\ proc[p].at = 0
    /\ Goto(p, [proc[p] EXCEPT !.pc = "drop", !.outcome = "Err"])
    /\ UNCHANGED <<dest, lock, stage, rollback, edits, faults>>

\* Drop of every PreparedPublication: the staged file, the rollback file
\* unless it is preserved, and the lock file.
DropAll(p) ==
    /\ proc[p].pc = "drop"
    /\ LET own == proc[p].prepared IN
       /\ stage' = [stage EXCEPT ![p] =
             [f \in Files |-> IF f \in own THEN None ELSE stage[p][f]]]
       /\ rollback' = [rollback EXCEPT ![p] =
             [f \in Files |-> IF f \in own \ proc[p].preserve THEN None ELSE rollback[p][f]]]
       /\ lock' = [f \in Files |-> IF f \in own THEN None ELSE lock[f]]
    /\ Goto(p, [proc[p] EXCEPT !.pc = "returned"])
    /\ UNCHANGED <<dest, edits, faults>>

\* The process dies; what it made stays on disk.
Crash(p) ==
    /\ proc[p].pc \notin {"read", "returned", "crashed"}
    /\ Fault(p, "crash")
    /\ Goto(p, [proc[p] EXCEPT !.pc = "crashed"])
    /\ UNCHANGED <<dest, lock, stage, rollback, edits>>

\* The editor saves a source.
Edit(f) ==
    /\ edits < MaxEdits
    /\ edits' = edits + 1
    /\ dest' = [dest EXCEPT ![f] = [text |-> edits + 1, formatted |-> FALSE, file |-> None]]
    /\ UNCHANGED <<lock, stage, rollback, proc, faults>>

Step(p) ==
    \/ Read(p) \/ Lock(p) \/ StageOpens(p) \/ RollbackOpens(p)
    \/ TemporariesWritten(p) \/ Recheck(p) \/ Revalidate(p)
    \/ Commit(p) \/ Sync(p) \/ Verify(p) \/ Clean(p) \/ CleanEnds(p)
    \/ RollbackRead(p) \/ Restore(p) \/ RollbackEnds(p) \/ DropAll(p)

Failure(p) ==
    \/ GiveUp(p) \/ CommitFails(p) \/ SyncFails(p) \/ VerifyFails(p)
    \/ CleanFails(p) \/ RestoreFails(p) \/ Crash(p)

Next ==
    \/ \E p \in Formatters : Step(p) \/ Failure(p)
    \/ \E f \in Files : Edit(f)

\* A process that is not killed goes on.
Fairness == \A p \in Formatters : WF_vars(Step(p))

Spec == Init /\ [][Next]_vars /\ Fairness

---------------------------------------------------------------------------
(* Properties                                                              *)

Live(p) == proc[p].pc \notin {"returned", "crashed"}
Failed(p, kinds) == \E k \in kinds : [kind |-> k, by |-> p] \in faults

\* Every variable keeps its type; a source never holds a torn write.
FormatTypeOK ==
    /\ dest \in [Files -> Data]
    /\ lock \in [Files -> Formatters \cup {None}]
    /\ \A p \in Formatters :
          /\ stage[p] \in [Files -> Data \cup {Torn, None}]
          /\ rollback[p] \in [Files -> Data \cup {Torn, None}]
          /\ proc[p].prepared \subseteq Files
          /\ proc[p].committed \subseteq proc[p].prepared

\* A source is replaced under its lock only: two formatters never hold
\* publications of one source, and none removes the lock of another.
LockOwned ==
    \A p \in Formatters : Live(p) => \A f \in proc[p].prepared : lock[f] = p

\* An edit saved before the formatter's last look at that source is never
\* overwritten by the rename that follows.
SeenEditsSurvive ==
    \A p \in Formatters :
        proc[p].pc = "commit" =>
            \A f \in Changed(p) \ proc[p].replaced :
                dest[f].text <= proc[p].seen[f] => dest[f] = proc[p].input[f]

\* While a replaced source is not verified its former text is on disk in the
\* rollback file, also after a crash; and when the error message says that the
\* original bytes remain there, they do.
OriginalRecoverable ==
    \A p \in Formatters :
        /\ proc[p].pc # "returned" =>
              \A f \in proc[p].committed : SameBytes(rollback[p][f], proc[p].input[f])
        /\ proc[p].promised # None =>
              SameBytes(rollback[p][proc[p].promised], proc[p].input[proc[p].promised])

\* A commit that a rename or a directory sync stops is undone: when nobody
\* edits and the rollback itself does not fail, no source that the command
\* replaced is left replaced when it is about to report the error.
FailedCommitRestores ==
    \A p \in Formatters :
        /\ proc[p].pc = "drop"
        /\ proc[p].outcome = "Err"
        /\ edits = 0
        /\ ~Failed(p, {"read", "remove", "restore"})
        => \A f \in proc[p].replaced : SameBytes(dest[f], proc[p].input[f])

\* A formatter that returned leaves no lock, no staged file, and a rollback
\* file only where its error message promised one.
ReturnedLeavesNothing ==
    \A p \in Formatters : proc[p].pc = "returned" =>
        \A f \in Files :
            /\ lock[f] # p
            /\ stage[p][f] = None
            /\ rollback[p][f] # None => f = proc[p].promised

\* What holds of the workspace at every step: sources are whole and replaced
\* under their lock only, seen edits survive, originals can be recovered, and
\* nothing stays behind.
FormatInv ==
    /\ FormatTypeOK
    /\ LockOwned
    /\ SeenEditsSurvive
    /\ OriginalRecoverable
    /\ ReturnedLeavesNothing

\* No formatter waits for another: each one ends, also when another crashed
\* and left its lock files.
FormatterReturns == \A p \in Formatters : <>(~Live(p))
=============================================================================
