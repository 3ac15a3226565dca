------------------------- MODULE OutputPublication -------------------------
(***************************************************************************)
(* Create-new publication of a command's output files: publish_build       *)
(* (wrela-compiler, local_build.rs; the image and its report) and          *)
(* publish_report (local_test.rs; the test report alone).  The files are   *)
(* staged under names of the process, hard-linked to their destinations,   *)
(* unstaged and read back; any failure after the staging removes staged    *)
(* and destination names again.                                            *)
(*                                                                         *)
(* Several processes publish under the same names; one may be killed.      *)
(***************************************************************************)
EXTENDS Integers

CONSTANTS
    Publishers,
    Contents,   \* what the publishers may publish; equal builds publish the same
    Outputs,    \* number of files: 2 for a build, 1 for a test report
    MaxFaults,  \* bound on failed operations and kills
    Torn, None

VARIABLES
    content, \* content[p]: what p publishes
    dest,    \* dest[o]: whose file the destination name is, Torn, or None
    staged,  \* staged[p][o]: "whole", Torn or None
    proc,    \* proc[p]: pc, the output it works at, and the outcome
    faults

vars == <<content, dest, staged, proc, faults>>

Files == 1 .. Outputs

Init ==
    /\ content \in Contents
    /\ dest = [o \in Files |-> None]
    /\ staged = [p \in Publishers |-> [o \in Files |-> None]]
    /\ proc = [p \in Publishers |-> [pc |-> "check", at |-> 1, outcome |-> None]]
    /\ faults = 0

\* Process p goes on with the next output at pc, or with the first at next.
Advance(p, pc, next) ==
    proc' = [proc EXCEPT ![p] =
               IF proc[p].at < Outputs
               THEN [proc[p] EXCEPT !.pc = pc, !.at = proc[p].at + 1]
               ELSE [proc[p] EXCEPT !.pc = next, !.at = 1]]

Goto(p, pc) == proc' = [proc EXCEPT ![p].pc = pc, ![p].at = 1]

Return(p, outcome) ==
    proc' = [proc EXCEPT ![p].pc = "returned", ![p].outcome = outcome]

Fault == faults < MaxFaults /\ faults' = faults + 1

\* The destinations must not exist yet.
Check(p) ==
    /\ proc[p].pc = "check"
    /\ IF dest[proc[p].at] = None THEN Advance(p, "check", "create")
                                  ELSE Return(p, "Err")
    /\ UNCHANGED <<dest, staged, faults>>

\* write_new_publication_file creates the staged file ...
Create(p) ==
    /\ proc[p].pc = "create"
    /\ staged' = [staged EXCEPT ![p][proc[p].at] = Torn]
    /\ proc' = [proc EXCEPT ![p].pc = "write"]
    /\ UNCHANGED <<dest, faults>>

\* Mutant: write_all is not checked.
Written_Unchecked(p, o) == staged[p][o]

\* What the staged file holds when write_all and sync_all have succeeded.
Written(p, o) == "whole"

\* ... and writes it.
Write(p) ==
    /\ proc[p].pc = "write"
    /\ staged' = [staged EXCEPT ![p][proc[p].at] = Written(p, proc[p].at)]
    /\ Advance(p, "create", "link")
    /\ UNCHANGED <<dest, faults>>

\* Mutant: the artifact stays when its report cannot be staged.
StagingUndone_Own(p) == [staged[p] EXCEPT ![proc[p].at] = None]

\* A failed write removes its own file, and publish_build the one before it.
StagingUndone(p) == [o \in Files |-> None]

WriteFails(p) ==
    /\ proc[p].pc \in {"create", "write"}
    /\ Fault
    /\ staged' = [staged EXCEPT ![p] = StagingUndone(p)]
    /\ Return(p, "Err")
    /\ UNCHANGED dest

\* The file of p as it appears under another name.
Linked(p, o) == IF staged[p][o] = Torn THEN Torn ELSE p

\* Mutant: rename instead of hard_link, which replaces what is there.
Link_Renames(p) ==
    LET o == proc[p].at IN
    /\ proc[p].pc = "link"
    /\ dest' = [dest EXCEPT ![o] = Linked(p, o)]
    /\ Advance(p, "link", "unstage")
    /\ UNCHANGED <<staged, faults>>

\* hard_link gives the staged file its destination name, or fails when the
\* name exists; publish_build then removes the artifact it has linked.
Link(p) ==
    LET o == proc[p].at IN
    /\ proc[p].pc = "link"
    /\ IF dest[o] = None
       THEN /\ dest' = [dest EXCEPT ![o] = Linked(p, o)]
            /\ Advance(p, "link", "unstage")
       ELSE /\ dest' = [d \in Files |-> IF d < o THEN None ELSE dest[d]]
            /\ Goto(p, "undo")
    /\ UNCHANGED <<staged, faults>>

\* The staged names go.
Unstage(p) ==
    /\ proc[p].pc = "unstage"
    /\ staged' = [staged EXCEPT ![p][proc[p].at] = None]
    /\ Advance(p, "unstage", "verify")
    /\ UNCHANGED <<dest, faults>>

\* read_private_output finds the bytes of p in a file with a single name.
ReadsBack(p, o) ==
    /\ dest[o] \in Publishers
    /\ content[dest[o]] = content[p]
    /\ staged[dest[o]][o] = None

Verify(p) ==
    /\ proc[p].pc = "verify"
    /\ IF ReadsBack(p, proc[p].at) THEN Advance(p, "verify", "done") ELSE Goto(p, "undo")
    /\ UNCHANGED <<dest, staged, faults>>

\* A link, an unlink, the directory sync or a read fails, or a cancellation
\* is seen.
PublishFails(p) ==
    /\ proc[p].pc \in {"link", "unstage", "verify", "done"}
    /\ Fault
    /\ Goto(p, "undo")
    /\ UNCHANGED <<dest, staged>>

PublishEnds(p) ==
    /\ proc[p].pc = "done"
    /\ Return(p, "Ok")
    /\ UNCHANGED <<dest, staged, faults>>

\* Mutant: only the staged names are removed.
Undone_StagedOnly(p) == dest[proc[p].at]

\* What a failure leaves under a destination name.
Undone(p) == None

\* published.is_err(): staged and destination names are removed one by one,
\* whoever made them.
Undo(p) ==
    LET o == proc[p].at IN
    /\ proc[p].pc = "undo"
    /\ staged' = [staged EXCEPT ![p] = [s \in Files |-> None]]
    /\ dest' = [dest EXCEPT ![o] = Undone(p)]
    /\ IF o < Outputs THEN Advance(p, "undo", "undo") ELSE Return(p, "Err")
    /\ UNCHANGED faults

Kill(p) ==
    /\ proc[p].pc \notin {"check", "returned", "killed"}
    /\ Fault
    /\ proc' = [proc EXCEPT ![p].pc = "killed"]
    /\ UNCHANGED <<dest, staged>>

Step(p) ==
    \/ Check(p) \/ Create(p) \/ Write(p) \/ Link(p) \/ Unstage(p) \/ Verify(p)
    \/ PublishEnds(p) \/ Undo(p)

Failure(p) == WriteFails(p) \/ PublishFails(p) \/ Kill(p)

Next == (\E p \in Publishers : Step(p) \/ Failure(p)) /\ UNCHANGED content

Spec == Init /\ [][Next]_vars

---------------------------------------------------------------------------
(* Properties                                                              *)

\* No publication is under way.
Quiet ==
    \A p \in Publishers :
        \/ proc[p].pc \in {"returned", "killed"}
        \/ proc[p].pc = "check" /\ proc[p].at = 1

\* Every variable keeps its type, and a destination name never leads to a
\* file that is not complete, also when a process is killed.
PublicationTypeOK ==
    /\ dest \in [Files -> Publishers \cup {None}]
    /\ staged \in [Publishers -> [Files -> {"whole", Torn, None}]]

\* Create-new: a name that exists is never given to another file.
NeverReplaced ==
    [][\A o \in Files : dest[o] # None => dest'[o] \in {dest[o], None}]_vars

\* A publication that returned an error left neither an output nor a staged
\* file of its own behind.
ErrorLeavesNothing ==
    \A p \in Publishers :
        proc[p].pc = "returned" /\ proc[p].outcome = "Err" =>
            \A o \in Files : dest[o] # p /\ staged[p][o] = None

\* When nobody was killed and no publication is under way, the outputs are
\* those of publications that returned Ok, and an image never stands beside the
\* report of a different one.
OutputsBelongTogether ==
    (Quiet /\ \A p \in Publishers : proc[p].pc # "killed") =>
        \A o \in Files : dest[o] # None =>
            /\ proc[dest[o]].outcome = "Ok"
            /\ \A d \in Files : dest[d] # None => content[dest[d]] = content[dest[o]]

\* Builds "use create-new publication": what a publication that returned Ok
\* has created is not taken away by another one that finds it there.
OkOutputsStay ==
    \A p \in Publishers :
        proc[p].outcome = "Ok" => \A o \in Files : dest[o] \in Publishers
=============================================================================
