----------------------------- MODULE LocalBuild -----------------------------
(***************************************************************************)
(* LocalBuildDriver::build (wrela-compiler, local_build.rs): several build *)
(* commands with one output directory and the artifact cache beside it.    *)
(* Each resolves its frame through the cache (module ArtifactCache), runs  *)
(* the backend, publishes image and report (module OutputPublication), and *)
(* only then stores a fresh frame.                                         *)
(***************************************************************************)
EXTENDS ArtifactCache

CONSTANTS
    Outputs,    \* files of a publication: the image and its report
    MaxFaults,  \* bound on failed operations of the publications
    Torn        \* a file that is written in part

ASSUME BuildAssumption ==
    /\ Outputs \in Nat \ {0} /\ MaxFaults \in Nat
    /\ Torn \notin {"whole", None}
    /\ None \notin {"whole", "Ok", "Err"}

VARIABLES
    outputs,    \* the destination names
    outStaged,  \* the staged names of each build
    pub,        \* where publish_build of each build is
    pubFaults

pubVars == <<outputs, outStaged, pub, pubFaults>>
allVars == <<vars, pubVars>>

\* The image is what the backend makes of the resolved frame.
Publication == INSTANCE OutputPublication WITH
    Publishers <- Builders,
    Contents <- {},
    content <- [b \in Builders |-> build[b].result],
    dest <- outputs,
    staged <- outStaged,
    proc <- pub,
    faults <- pubFaults

BuildInit ==
    /\ Init
    /\ outputs = [o \in 1 .. Outputs |-> None]
    /\ outStaged = [b \in Builders |-> [o \in 1 .. Outputs |-> None]]
    /\ pub = [b \in Builders |-> [pc |-> "check", at |-> 1, outcome |-> None]]
    /\ pubFaults = 0

\* A step of publish_build.
Publishes(b) ==
    /\ build[b].pc = "publish"
    /\ \/ Publication!Step(b)
       \/ Publication!WriteFails(b)
       \/ Publication!PublishFails(b)
    /\ UNCHANGED vars

\* publish_build returned Ok, and nothing cancels the command before the flush.
PublicationEnds(b) ==
    /\ pub[b].outcome = "Ok"
    /\ Published(b)
    /\ UNCHANGED pubVars

\* The command fails: before publish_build, with it, or by a cancellation
\* after it, which leaves the published files.
CommandFails(b) ==
    /\ build[b].pc = "publish" => \/ pub[b].pc = "returned"
                                  \/ pub[b].pc = "check" /\ pub[b].at = 1
    /\ BuildFails(b)
    /\ UNCHANGED pubVars

\* The publication dies with its process.
Killed(b) == IF pub[b].pc = "returned" THEN pub[b] ELSE [pub[b] EXCEPT !.pc = "killed"]

CommandKilled(b) ==
    /\ Kill(b)
    /\ pub' = [pub EXCEPT ![b] = Killed(b)]
    /\ UNCHANGED <<outputs, outStaged, pubFaults>>

\* The names that a power loss may take: publish_build has not yet synced the
\* directory that holds them.
Unsynced ==
    {o \in 1 .. Outputs :
        outputs[o] # None /\ pub[outputs[o]].pc \in {"link", "unstage"}}

PowerFails ==
    /\ PowerLoss
    /\ pub' = [b \in Builders |-> IF Started(b) THEN Killed(b) ELSE pub[b]]
    /\ \E lost \in SUBSET Unsynced :
          outputs' = [o \in 1 .. Outputs |-> IF o \in lost THEN None ELSE outputs[o]]
    /\ UNCHANGED <<outStaged, pubFaults>>

\* The user removes the outputs of a build that succeeded, to build again.
OutputsRemoved ==
    /\ \E b \in Builders : pub[b].outcome = "Ok" /\ \A o \in 1 .. Outputs : outputs[o] = b
    /\ outputs' = [o \in 1 .. Outputs |-> None]
    /\ UNCHANGED <<vars, outStaged, pub, pubFaults>>

BuildNext ==
    \/ \E b \in Builders :
          \/ (LoadStep(b) \/ StoreStep(b)) /\ UNCHANGED pubVars
          \/ Publishes(b) \/ PublicationEnds(b)
          \/ CommandFails(b) \/ CommandKilled(b)
    \/ (\E c \in Foreign : Damage(c)) /\ UNCHANGED pubVars
    \/ PowerFails
    \/ OutputsRemoved

BuildSpec == BuildInit /\ [][BuildNext]_allVars

-----------------------------------------------------------------------------
(* Properties *)

\* The cache holds only frames of builds whose publication succeeded.
StoredWasPublished ==
    \A b \in Builders : b \in staging \/ entry = b => pub[b].outcome = "Ok"

\* What builds leave in the directory, whichever of them fails, loses a race or
\* is killed: whole files, nothing of a failed publication, an image and a
\* report that belong together, and no cached frame without its publication.
PublicationInv ==
    /\ Publication!PublicationTypeOK
    /\ Publication!ErrorLeavesNothing
    /\ Publication!OutputsBelongTogether
    /\ StoredWasPublished

\* Create-new publication: no build gives a name that exists to its own file.
NeverReplaced == Publication!NeverReplaced
=============================================================================
