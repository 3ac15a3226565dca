---------------------------- MODULE TestCommand ----------------------------
(***************************************************************************)
(* LocalTestDriver::test (wrela-compiler, local_test.rs) for one image     *)
(* group: the private backend compiles the image (BackendProcess), then    *)
(* the image is run by the local executor (LocalExecutor).  A backend that *)
(* fails gives the group a failed result without a run; a cancelled one    *)
(* ends the command.  Both processes are watched with the caller's one     *)
(* cancellation flag.                                                      *)
(***************************************************************************)
EXTENDS LocalExecutor

CONSTANTS
    Request,     \* bytes of the backend's request frame
    Kept,        \* Kept[s]: the bytes retained of stream s of the backend
    MaxOutput,   \* bound on what the backend writes to one stream
    PipeBytes

ASSUME BackendAssumption ==
    /\ Request \in Nat /\ MaxOutput \in Nat /\ PipeBytes \in Nat \ {0}
    /\ Kept \in [Streams -> Nat]

VARIABLES
    stage,       \* "backend", "executor" or "over"
    group,       \* "none", "ran", "failed before execution" or "cancelled"
    bChild, expired, toWrite, stdin, writer, out, overflow, bMain, outcome, private

backendVars == <<bChild, expired, toWrite, stdin, writer, out, overflow, bMain, outcome,
                 private>>
commandVars == <<vars, backendVars, stage, group>>

Backend == INSTANCE BackendProcess WITH
    Limit <- Kept, child <- bChild, main <- bMain

CommandInit ==
    /\ Init
    /\ Backend!Init
    /\ stage = "backend"
    /\ group = "none"

\* The backend and the threads around it.
BackendRuns ==
    /\ stage = "backend"
    /\ Backend!Next
    /\ UNCHANGED <<now, childVars, pipe, readerVars, total, exceeded, main, timedOut,
                   result, stage, group>>

\* execute_backend has returned; what it held is dropped.
BackendReturned ==
    /\ stage = "backend"
    /\ ~private
    /\ stage' = IF outcome = "accepted" THEN "executor" ELSE "over"
    /\ group' = CASE outcome = "accepted" -> "none"
                  [] outcome = "cancelled" -> "cancelled"
                  [] OTHER -> "failed before execution"
    /\ stdin' = 0
    /\ out' = [s \in Streams |-> [out[s] EXCEPT !.made = 0, !.total = 0, !.pipe = 0]]
    /\ expired' = FALSE
    /\ overflow' = FALSE
    /\ UNCHANGED <<vars, bChild, toWrite, writer, bMain, outcome, private>>

\* run_program and the threads around it.
ExecutorRuns ==
    /\ stage = "executor"
    /\ Next
    /\ UNCHANGED <<backendVars, stage, group>>

ExecutorReturned ==
    /\ stage = "executor"
    /\ result # "none"
    /\ stage' = "over"
    /\ group' = IF result = "cancelled" THEN "cancelled" ELSE "ran"
    /\ UNCHANGED <<vars, backendVars>>

CommandNext == BackendRuns \/ BackendReturned \/ ExecutorRuns \/ ExecutorReturned

BackendStep(A) == stage = "backend" /\ A /\ UNCHANGED <<vars, stage, group>>
ExecutorStep(A) == stage = "executor" /\ A /\ UNCHANGED <<backendVars, stage, group>>

\* The threads of the stage that runs are scheduled and time passes; nothing is
\* assumed of the two processes.
CommandFairness ==
    /\ WF_commandVars(BackendStep(Backend!WriteRequest))
    /\ WF_commandVars(BackendStep(Backend!Poll))
    /\ WF_commandVars(BackendStep(Backend!Join))
    /\ WF_commandVars(BackendStep(Backend!Finish))
    /\ WF_commandVars(BackendStep(Backend!Expire))
    /\ \A s \in Streams :
          /\ WF_commandVars(BackendStep(Backend!ReadStream(s)))
          /\ WF_commandVars(BackendStep(Backend!StreamEnds(s)))
    /\ WF_commandVars(BackendReturned)
    /\ WF_commandVars(ExecutorStep(Tick))
    /\ WF_commandVars(ExecutorStep(MainStep))
    /\ \A s \in Streams :
          /\ WF_commandVars(ExecutorStep(ReaderStep(s)))
          /\ WF_commandVars(ExecutorStep(ReaderRetry(s)))
          /\ SF_commandVars(ExecutorStep(ReaderReserve(s)))
    /\ WF_commandVars(ExecutorReturned)

CommandSpec == CommandInit /\ [][CommandNext]_commandVars /\ CommandFairness

-----------------------------------------------------------------------------
(* Properties *)

\* The backend's answer is used only when it is complete, its private directory
\* goes last, and an image runs only after an accepted answer, when nothing of
\* the backend is left.
BackendInv ==
    /\ Backend!BackendTypeOK
    /\ Backend!AcceptedIsComplete
    /\ Backend!OverflowIsReal
    /\ Backend!DirectoryOutlivesChild
    /\ stage = "executor" => outcome = "accepted" /\ ~private
    /\ group = "cancelled" => cancelled

\* The command always ends with a result for the group or as cancelled,
\* whatever the backend and the emulator do.
CommandReturns == <>(group # "none")
=============================================================================
