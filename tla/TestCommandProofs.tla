-------------------------- MODULE TestCommandProofs --------------------------
(***************************************************************************)
(* Proofs about the test command and the two processes it runs.            *)
(*                                                                         *)
(* First run_program and its two readers, for every budget, buffer size,   *)
(* timeout, amount of output and speed of the clock: ExecutorInv is        *)
(* inductive, and the safety properties of LocalExecutor follow from it.   *)
(* Then the command, in which the same steps follow those of               *)
(* run_backend_process: what holds of each process alone holds in it.      *)
(***************************************************************************)
EXTENDS TestCommand, TLAPS

USE ExecutorAssumption

\* There are the two streams, and they differ.
LEMMA TwoStreams ==
    /\ "stdout" \in Streams /\ "stderr" \in Streams
    /\ \A s \in Streams : s = "stdout" \/ s = "stderr"
    /\ "stdout" # "stderr"
BY DEF Streams

\* The child, the clock and the caller's cancellation preserve the invariant.
LEMMA EnvironmentPreserves ==
    ASSUME ExecutorInv,
           \/ \E s \in Streams, n \in 1..Buffer : ChildWrite(s, n)
           \/ ChildExit \/ Tick \/ Cancel
    PROVE  ExecutorInv'
<1>1. CASE \E s \in Streams, n \in 1..Buffer : ChildWrite(s, n)
  <2> PICK s \in Streams, n \in 1..Buffer : ChildWrite(s, n)
    BY <1>1
  <2>1. ExecutorTypeOK'
    BY DEF ExecutorInv, ExecutorTypeOK, ChildWrite, readerVars
  <2>2. BudgetKept'
    BY DEF ExecutorInv, BudgetKept, Reserved, ChildWrite, readerVars
  <2>3. ReaderFlow'
    BY DEF ExecutorInv, ExecutorTypeOK, ReaderFlow, ChildWrite, readerVars
  <2>4. CallFlow'
    BY DEF ExecutorInv, CallFlow, ReadersJoined, ChildWrite, readerVars
  <2> QED
    BY <2>1, <2>2, <2>3, <2>4 DEF ExecutorInv
<1>2. CASE ChildExit \/ Tick \/ Cancel
  <2>1. ExecutorTypeOK'
    <3> USE DEF ExecutorInv, ExecutorTypeOK, readerVars, childVars
    <3>1. CASE ChildExit
      BY <3>1 DEF ChildExit
    <3>2. CASE Tick
      BY <3>2 DEF Tick
    <3>3. CASE Cancel
      BY <3>3 DEF Cancel
    <3> QED
      BY <1>2, <3>1, <3>2, <3>3
  <2>2. BudgetKept'
    BY <1>2 DEF ExecutorInv, BudgetKept, Reserved, ChildExit, Tick, Cancel, readerVars, childVars
  <2>3. ReaderFlow'
    BY <1>2 DEF ExecutorInv, ReaderFlow, ChildExit, Tick, Cancel, readerVars, childVars
  <2>4. CallFlow'
    BY <1>2 DEF ExecutorInv, CallFlow, ReadersJoined, ChildExit, Tick, Cancel, readerVars, childVars
  <2> QED
    BY <2>1, <2>2, <2>3, <2>4 DEF ExecutorInv
<1> QED
  BY <1>1, <1>2

\* A step of a reader keeps the types.
LEMMA ReaderKeepsTypes ==
    ASSUME ExecutorInv, NEW s \in Streams, ReaderStep(s) \/ ReaderRetry(s)
    PROVE  ExecutorTypeOK'
<1> USE DEF ExecutorInv, ExecutorTypeOK, ReaderStates, ReaderUnchanged, childVars
<1>1. CASE ReaderRead(s)
  BY <1>1 DEF ReaderRead
<1>2. CASE ReaderEof(s)
  BY <1>2 DEF ReaderEof
<1>3. CASE ReaderLoad(s)
  BY <1>3 DEF ReaderLoad
<1>4. CASE ReaderOver(s)
  BY <1>4 DEF ReaderOver
<1>5. CASE ReaderReserve(s)
  BY <1>5 DEF ReaderReserve
<1>6. CASE ReaderExceed(s)
  BY <1>6 DEF ReaderExceed
<1>7. CASE ReaderAppend(s)
  BY <1>7 DEF ReaderAppend
<1>8. CASE ReaderRetry(s)
  BY <1>8 DEF ReaderRetry
<1> QED
  BY <1>1, <1>2, <1>3, <1>4, <1>5, <1>6, <1>7, <1>8 DEF ReaderStep

\* A step of a reader keeps the budget: only ReaderReserve changes the total,
\* by exactly the bytes it reserves, and ReaderAppend turns them into kept ones.
LEMMA ReaderKeepsBudget ==
    ASSUME ExecutorInv, NEW s \in Streams, ReaderStep(s) \/ ReaderRetry(s)
    PROVE  BudgetKept'
<1> USE TwoStreams DEF ExecutorInv, ExecutorTypeOK, BudgetKept, Reserved
<1>1. CASE ReaderRead(s)
  BY <1>1 DEF ReaderRead
<1>2. CASE ReaderEof(s)
  BY <1>2 DEF ReaderEof
<1>3. CASE ReaderLoad(s)
  BY <1>3 DEF ReaderLoad
<1>4. CASE ReaderOver(s)
  BY <1>4 DEF ReaderOver
<1>5. CASE ReaderReserve(s)
  <2>1. CASE s = "stdout"
    BY <1>5, <2>1 DEF ReaderReserve, OverBudget
  <2>2. CASE s = "stderr"
    BY <1>5, <2>2 DEF ReaderReserve, OverBudget
  <2> QED
    BY <2>1, <2>2
<1>6. CASE ReaderExceed(s)
  BY <1>6 DEF ReaderExceed
<1>7. CASE ReaderAppend(s)
  <2>1. CASE s = "stdout"
    BY <1>7, <2>1 DEF ReaderAppend
  <2>2. CASE s = "stderr"
    BY <1>7, <2>2 DEF ReaderAppend
  <2> QED
    BY <2>1, <2>2
<1>8. CASE ReaderRetry(s)
  BY <1>8 DEF ReaderRetry
<1> QED
  BY <1>1, <1>2, <1>3, <1>4, <1>5, <1>6, <1>7, <1>8 DEF ReaderStep

\* A step of a reader moves bytes from pipe to chunk to kept output.
LEMMA ReaderKeepsFlow ==
    ASSUME ExecutorInv, NEW s \in Streams, ReaderStep(s) \/ ReaderRetry(s)
    PROVE  ReaderFlow'
<1> USE DEF ExecutorInv, ExecutorTypeOK, ReaderFlow, ReaderUnchanged, childVars
<1>1. CASE ReaderRead(s)
  BY <1>1 DEF ReaderRead
<1>2. CASE ReaderEof(s)
  BY <1>2 DEF ReaderEof
<1>3. CASE ReaderLoad(s)
  BY <1>3 DEF ReaderLoad
<1>4. CASE ReaderOver(s)
  BY <1>4 DEF ReaderOver
<1>5. CASE ReaderReserve(s)
  BY <1>5 DEF ReaderReserve
<1>6. CASE ReaderExceed(s)
  BY <1>6 DEF ReaderExceed
<1>7. CASE ReaderAppend(s)
  BY <1>7 DEF ReaderAppend
<1>8. CASE ReaderRetry(s)
  BY <1>8 DEF ReaderRetry
<1> QED
  BY <1>1, <1>2, <1>3, <1>4, <1>5, <1>6, <1>7, <1>8 DEF ReaderStep

\* A running reader is neither unborn nor done, before the step and hardly
\* after it, so what run_program relies on is not disturbed.
LEMMA ReaderKeepsCall ==
    ASSUME ExecutorInv, NEW s \in Streams, ReaderStep(s) \/ ReaderRetry(s)
    PROVE  CallFlow'
<1>1. /\ reader[s] \notin {"unborn", "done"}
      /\ \E r \in ReaderStates \ {"unborn"} : reader' = [reader EXCEPT ![s] = r]
      /\ UNCHANGED <<child, main, result>>
  <2>1. reader \in [Streams -> ReaderStates]
    BY DEF ExecutorInv, ExecutorTypeOK
  <2>2. reader = [reader EXCEPT ![s] = reader[s]]
    BY <2>1
  <2> QED
    BY <2>1, <2>2 DEF ReaderStep, ReaderRead, ReaderEof, ReaderLoad, ReaderOver,
          ReaderReserve, ReaderExceed, ReaderAppend, ReaderRetry,
          ReaderUnchanged, childVars, ReaderStates
<1>2. main # "returned" /\ result = "none"
  BY <1>1 DEF ExecutorInv, CallFlow, ReadersJoined
<1>3. main \notin {"spawnStdout"} \/ s # "stdout"
  BY <1>1 DEF ExecutorInv, CallFlow
<1>4. main \notin {"spawnStdout", "spawnStderr"} \/ s # "stderr"
  BY <1>1 DEF ExecutorInv, CallFlow
<1> QED
  BY <1>1, <1>2, <1>3, <1>4, TwoStreams DEF ExecutorInv, ExecutorTypeOK, CallFlow, ReaderStates

\* A step of run_program leaves the readers' accounts alone.
LEMMA MainPreserves ==
    ASSUME ExecutorInv, MainStep
    PROVE  ExecutorInv'
<1>1. CASE MainStart
  <2> USE <1>1, TwoStreams DEF ExecutorInv, MainStart, SpawnReader, SpawnFails, MainUnchanged,
          Terminated
  <2>1. ExecutorTypeOK'
    BY DEF ExecutorTypeOK, ReaderStates, MainStates
  <2>2. BudgetKept'
    BY DEF ExecutorTypeOK, BudgetKept, Reserved, CallFlow
  <2>3. ReaderFlow'
    BY DEF ExecutorTypeOK, ReaderFlow, CallFlow
  <2>4. CallFlow'
    BY DEF ExecutorTypeOK, CallFlow, Ending
  <2> QED
    BY <2>1, <2>2, <2>3, <2>4
<1>2. CASE MainCancel \/ MainLimit \/ MainTryWait \/ MainDeadline
  <2> USE <1>2 DEF ExecutorInv, MainCancel, MainLimit, MainTryWait, MainDeadline,
          AbortWith, Continue, MainUnchanged, Terminated
  <2>1. ExecutorTypeOK'
    BY DEF ExecutorTypeOK, MainStates
  <2>2. BudgetKept'
    BY DEF BudgetKept, Reserved
  <2>3. ReaderFlow'
    BY DEF ReaderFlow
  <2>4. CallFlow'
    BY DEF CallFlow, Ending
  <2> QED
    BY <2>1, <2>2, <2>3, <2>4
<1>3. CASE MainReturn
  <2>1. /\ UNCHANGED <<now, child, written, pipe, reader, chunk, observed, retained>>
        /\ UNCHANGED <<total, exceeded, cancelled, timedOut>>
        /\ main' = "returned"
        /\ main \in Ending \ {"returned"}
        /\ ReadersJoined
        /\ result' \in Results
    BY <1>3 DEF MainReturn, Return, MainUnchanged, Ending, Results
  <2>2. result' = "output" => main = "join" /\ ~exceeded
    BY <1>3 DEF MainReturn, Return
  <2>3. ExecutorTypeOK'
    BY <2>1 DEF ExecutorInv, ExecutorTypeOK, MainStates
  <2>4. BudgetKept'
    BY <2>1 DEF ExecutorInv, BudgetKept, Reserved
  <2>5. ReaderFlow'
    BY <2>1 DEF ExecutorInv, ReaderFlow
  <2>6. CallFlow'
    <3>1. main = "join" => \A s \in Streams : reader[s] = "done"
      BY <2>1, TwoStreams DEF ExecutorInv, CallFlow, ReadersJoined
    <3>2. child' # "running"
      BY <2>1 DEF ExecutorInv, CallFlow
    <3>3. ReadersJoined'
      BY <2>1 DEF ReadersJoined
    <3>4. result' = "output" => ~exceeded' /\ \A s \in Streams : reader'[s] = "done"
      BY <2>1, <2>2, <3>1
    <3> QED
      BY <2>1, <3>2, <3>3, <3>4 DEF CallFlow, Ending
  <2> QED
    BY <2>3, <2>4, <2>5, <2>6 DEF ExecutorInv
<1> QED
  BY <1>1, <1>2, <1>3 DEF MainStep

\* run_program starts in the invariant.
LEMMA ExecutorStarts == Init => ExecutorInv
<1> SUFFICES ASSUME Init PROVE ExecutorInv
  OBVIOUS
<1> USE TwoStreams DEF Init
<1>1. ExecutorTypeOK
  <2>1. 0 \in Nat /\ 0 \in 0..Buffer /\ "unborn" \in ReaderStates
    BY DEF ReaderStates
  <2>2. /\ now \in Nat /\ child = "running" /\ total \in Nat
        /\ main \in MainStates /\ result \in Results
    BY DEF MainStates, Results
  <2>3. exceeded \in BOOLEAN /\ cancelled \in BOOLEAN /\ timedOut \in BOOLEAN
    BY Zenon
  <2>4. /\ written \in [Streams -> Nat] /\ pipe \in [Streams -> Nat]
        /\ reader \in [Streams -> ReaderStates]
        /\ chunk \in [Streams -> 0..Buffer]
        /\ observed \in [Streams -> Nat] /\ retained \in [Streams -> Nat]
    BY <2>1, Zenon
  <2> QED
    BY <2>2, <2>3, <2>4, Zenon DEF ExecutorTypeOK
<1>2. BudgetKept
  BY DEF BudgetKept, Reserved
<1>3. ReaderFlow
  BY DEF ReaderFlow
<1>4. CallFlow
  BY DEF CallFlow, Ending
<1> QED
  BY <1>1, <1>2, <1>3, <1>4 DEF ExecutorInv

\* ExecutorInv is inductive.
LEMMA ExecutorInductive == ExecutorInv /\ [Next]_vars => ExecutorInv'
<1> SUFFICES ASSUME ExecutorInv, [Next]_vars PROVE ExecutorInv'
  OBVIOUS
<1>1. CASE \/ \E s \in Streams, n \in 1..Buffer : ChildWrite(s, n)
           \/ ChildExit \/ Tick \/ Cancel
  BY <1>1, EnvironmentPreserves
<1>2. CASE \E s \in Streams : ReaderStep(s) \/ ReaderRetry(s)
  BY <1>2, ReaderKeepsTypes, ReaderKeepsBudget, ReaderKeepsFlow, ReaderKeepsCall
     DEF ExecutorInv
<1>3. CASE MainStep
  BY <1>3, MainPreserves
<1>4. CASE UNCHANGED vars
  BY <1>4 DEF ExecutorInv, ExecutorTypeOK, BudgetKept, Reserved, ReaderFlow, CallFlow,
        ReadersJoined, vars, readerVars, childVars
<1> QED
  BY <1>1, <1>2, <1>3, <1>4 DEF Next

\* Every reachable state of run_program satisfies the inductive invariant.
THEOREM ExecutorInvariant == Spec => []ExecutorInv
  BY ExecutorStarts, ExecutorInductive, PTL DEF Spec

\* The two readers together never keep more than the budget, for every budget
\* and every interleaving of reserve_output.
THEOREM BudgetAlwaysKept == Spec => []BudgetKept
<1>1. ExecutorInv => BudgetKept
  BY DEF ExecutorInv
<1> QED
  BY <1>1, ExecutorInvariant, PTL

\* Output that run_program returns is everything the child wrote.
THEOREM OutputAlwaysComplete == Spec => []OutputComplete
<1>1. ExecutorInv => OutputComplete
  BY DEF ExecutorInv, ReaderFlow, CallFlow, OutputComplete
<1> QED
  BY <1>1, ExecutorInvariant, PTL

\* run_program never returns while the child or a reader is running.
THEOREM NothingEverLeftBehind == Spec => []NothingLeftBehind
<1>1. ExecutorInv => NothingLeftBehind
  BY DEF ExecutorInv, CallFlow, Ending, ReadersJoined, NothingLeftBehind
<1> QED
  BY <1>1, ExecutorInvariant, PTL

-----------------------------------------------------------------------------
(* The backend, and the command around both processes.                     *)

USE BackendAssumption

OutRecord == [made : Nat, pipe : 0 .. PipeBytes, total : Nat, open : BOOLEAN]

BackendTypes ==
    /\ bChild \in {"running", "success", "failure", "killed"}
    /\ cancelled \in BOOLEAN /\ expired \in BOOLEAN
    /\ overflow \in BOOLEAN /\ private \in BOOLEAN
    /\ toWrite \in 0 .. Request
    /\ stdin \in 0 .. PipeBytes
    /\ writer \in {"writing", "failed", "done"}
    /\ bMain \in {"poll", "join", "abort", "returned"}
    /\ outcome \in Backend!Outcomes
    /\ out \in [Streams -> OutRecord]

\* Every byte the backend wrote is counted or in the pipe, a reader ends on an
\* empty pipe only, and the flag is set exactly when a stream is over its limit.
StreamFlow ==
    /\ \A s \in Streams :
          /\ out[s].made = out[s].pipe + out[s].total
          /\ ~out[s].open => out[s].pipe = 0 /\ bChild # "running"
          /\ out[s].total > Kept[s] => overflow
    /\ overflow => \E s \in Streams : out[s].total > Kept[s]

\* What the position of run_backend_process says about the child, the three
\* threads and the outcome.
WaitFlow ==
    /\ writer = "done" => toWrite = 0
    /\ bMain \in {"poll", "join"} => outcome = "None"
    /\ bMain = "poll" => bChild # "killed"
    /\ bMain = "join" => bChild \in {"success", "failure"}
    /\ bMain \in {"abort", "returned"} => bChild # "running"
    /\ bMain = "abort" => outcome \in {"cancelled", "overflow", "timeout"}
    /\ bMain = "returned" => Backend!Joined
    /\ outcome \in {"Ok", "accepted"} =>
          /\ bMain = "returned" /\ writer = "done" /\ ~overflow
          /\ bChild \in {"success", "failure"}
    /\ outcome = "cancelled" => cancelled
    /\ ~private => bMain = "returned"

\* What the stage says, and that only the caller makes a result "cancelled".
StageFlow ==
    /\ stage # "backend" => ~private
    /\ stage = "executor" => outcome = "accepted"
    /\ main = "abortCancelled" \/ result = "cancelled" => cancelled
    /\ group = "cancelled" => cancelled

\* The inductive invariant of the command.
CommandInv == ExecutorInv /\ BackendTypes /\ StreamFlow /\ WaitFlow /\ StageFlow

\* The record of a stream keeps its type.
LEMMA BackendKeepsOut ==
    ASSUME BackendTypes, Backend!Next
    PROVE  (out \in [Streams -> OutRecord])'
<1> USE DEF BackendTypes
<1>1. ASSUME NEW s \in Streams, Backend!ReadStream(s)
      PROVE  out' \in [Streams -> OutRecord]
  <2>1. PICK n \in 1 .. out[s].pipe :
            out' = [out EXCEPT ![s].pipe = @ - n, ![s].total = out[s].total + n]
    BY <1>1 DEF Backend!ReadStream, Backend!Counted
  <2>2. out[s] \in OutRecord
    OBVIOUS
  <2>3. out[s].pipe - n \in 0 .. PipeBytes /\ out[s].total + n \in Nat
    BY <2>2 DEF OutRecord
  <2> QED
    BY <2>1, <2>2, <2>3 DEF OutRecord
<1>2. ASSUME NEW s \in Streams, Backend!StreamEnds(s)
      PROVE  out' \in [Streams -> OutRecord]
  BY <1>2 DEF Backend!StreamEnds, OutRecord
<1>3. ASSUME NEW s \in Streams, Backend!ChildWrites(s)
      PROVE  out' \in [Streams -> OutRecord]
  BY <1>3 DEF Backend!ChildWrites, OutRecord
<1>4. CASE UNCHANGED out
  BY <1>4
<1> QED
  BY <1>1, <1>2, <1>3, <1>4 DEF Backend!Next, Backend!WriteRequest, Backend!Poll, Backend!Join,
     Backend!Finish, Backend!ChildReads, Backend!ChildExits, Backend!Cancel, Backend!Expire,
     Streams, Backend!Streams

\* A step of the backend's environment or of its threads keeps the flags Boolean.
LEMMA BackendKeepsFlags ==
    ASSUME BackendTypes, Backend!Next
    PROVE  (cancelled \in BOOLEAN /\ expired \in BOOLEAN /\ overflow \in BOOLEAN
            /\ private \in BOOLEAN)'
<1> USE DEF BackendTypes
<1>1. ASSUME NEW s, Backend!ReadStream(s) PROVE overflow' \in BOOLEAN
  BY <1>1 DEF Backend!ReadStream
<1> QED
  BY <1>1, Zenon DEF Backend!Next, Backend!WriteRequest, Backend!Poll, Backend!Join, Backend!Finish,
     Backend!ReadStream, Backend!StreamEnds, Backend!ChildWrites, Backend!ChildReads,
     Backend!ChildExits, Backend!Cancel, Backend!Expire

\* One byte more or less stays in a range that has room for it.
LEMMA OneByte ==
    ASSUME NEW n \in Nat, NEW k \in 0 .. n
    PROVE  /\ k < n => k + 1 \in 0 .. n
           /\ k # 0 => k - 1 \in 0 .. n
OBVIOUS

\* It keeps every type.
LEMMA BackendKeepsTypes ==
    ASSUME BackendTypes, Backend!Next
    PROVE  BackendTypes'
<1> DEFINE Rest ==
      /\ bChild \in {"running", "success", "failure", "killed"}
      /\ toWrite \in 0 .. Request
      /\ stdin \in 0 .. PipeBytes
      /\ writer \in {"writing", "failed", "done"}
      /\ bMain \in {"poll", "join", "abort", "returned"}
      /\ outcome \in Backend!Outcomes
<1>0. Rest
  BY DEF BackendTypes
<1> SUFFICES Rest'
  BY BackendKeepsOut, BackendKeepsFlags DEF BackendTypes
<1> USE DEF Backend!Outcomes
<1>1. CASE Backend!WriteRequest
  <2>1. UNCHANGED <<bChild, bMain, outcome>>
    BY <1>1 DEF Backend!WriteRequest
  <2>2. (writer \in {"writing", "failed", "done"})'
    BY <1>0, <1>1 DEF Backend!WriteRequest
  <2>3. \/ UNCHANGED <<toWrite, stdin>>
        \/ /\ toWrite # 0 /\ toWrite' = toWrite - 1
           /\ stdin < PipeBytes /\ stdin' = stdin + 1
    BY <1>1 DEF Backend!WriteRequest
  <2>4. (toWrite \in 0 .. Request /\ stdin \in 0 .. PipeBytes)'
    BY <1>0, <2>3, OneByte
  <2> QED
    BY <1>0, <2>1, <2>2, <2>4
<1>2. CASE Backend!Poll
  BY <1>0, <1>2 DEF Backend!Poll, Backend!Abort, Backend!Killed
<1>3. CASE Backend!Join
  BY <1>0, <1>3 DEF Backend!Join, Backend!FinalOutcome
<1>4. CASE Backend!Finish
  <2>1. UNCHANGED <<bChild, toWrite, stdin, writer, bMain>>
    BY <1>4, Zenon DEF Backend!Finish
  <2>2. outcome' \in {outcome, "backend failed", "accepted"}
    BY <1>4, Zenon DEF Backend!Finish
  <2> QED
    BY <1>0, <2>1, <2>2
<1>5. ASSUME NEW s, Backend!ReadStream(s) \/ Backend!StreamEnds(s) \/ Backend!ChildWrites(s)
      PROVE  Rest'
  BY <1>0, <1>5 DEF Backend!ReadStream, Backend!StreamEnds, Backend!ChildWrites
<1>6. CASE Backend!ChildReads
  <2>1. stdin # 0 /\ stdin' = stdin - 1
    BY <1>6 DEF Backend!ChildReads
  <2>2. (stdin \in 0 .. PipeBytes)'
    BY <1>0, <2>1, OneByte
  <2> QED
    BY <1>0, <1>6, <2>2 DEF Backend!ChildReads
<1>7. CASE Backend!ChildExits
  BY <1>0, <1>7 DEF Backend!ChildExits
<1>8. CASE Backend!Cancel \/ Backend!Expire
  BY <1>0, <1>8 DEF Backend!Cancel, Backend!Expire
<1> HIDE DEF Rest
<1> QED
  BY <1>1, <1>2, <1>3, <1>4, <1>5, <1>6, <1>7, <1>8 DEF Backend!Next

\* Its bytes stay accounted for, and the overflow flag stays exact.
LEMMA BackendKeepsStreams ==
    ASSUME BackendTypes, StreamFlow, Backend!Next
    PROVE  StreamFlow'
<1> USE DEF BackendTypes, OutRecord, StreamFlow, Streams, Backend!Streams
<1>1. CASE Backend!WriteRequest
  BY <1>1 DEF Backend!WriteRequest
<1>2. CASE Backend!Poll
  BY <1>2 DEF Backend!Poll, Backend!Abort, Backend!Killed
<1>3. CASE Backend!Join \/ Backend!Finish
  <2>1. UNCHANGED <<bChild, out, overflow>>
    BY <1>3, Zenon DEF Backend!Join, Backend!Finish
  <2> QED
    BY <2>1
<1>4. ASSUME NEW s \in Streams, Backend!ReadStream(s) PROVE StreamFlow'
  BY <1>4 DEF Backend!ReadStream, Backend!Counted, Backend!Overflowing
<1>5. ASSUME NEW s \in Streams, Backend!StreamEnds(s) PROVE StreamFlow'
  BY <1>5 DEF Backend!StreamEnds
<1>6. ASSUME NEW s \in Streams, Backend!ChildWrites(s) PROVE StreamFlow'
  BY <1>6 DEF Backend!ChildWrites
<1>7. CASE Backend!ChildReads \/ Backend!ChildExits \/ Backend!Cancel \/ Backend!Expire
  BY <1>7 DEF Backend!ChildReads, Backend!ChildExits, Backend!Cancel, Backend!Expire
<1> QED
  BY <1>1, <1>2, <1>3, <1>4, <1>5, <1>6, <1>7 DEF Backend!Next

\* The wait ends in one way only, with the child gone and the threads joined.
LEMMA BackendKeepsWait ==
    ASSUME BackendTypes, StreamFlow, WaitFlow, Backend!Next
    PROVE  WaitFlow'
<1> USE DEF BackendTypes, WaitFlow, Streams, Backend!Streams, Backend!Joined
<1>1. CASE Backend!WriteRequest
  BY <1>1 DEF Backend!WriteRequest
<1>2. CASE Backend!Poll
  BY <1>2 DEF Backend!Poll, Backend!Abort, Backend!Killed
<1>3. CASE Backend!Join
  BY <1>3 DEF Backend!Join, Backend!FinalOutcome
<1>4. CASE Backend!Finish
  BY <1>4 DEF Backend!Finish
<1>5. ASSUME NEW s \in Streams, Backend!ReadStream(s) PROVE WaitFlow'
  BY <1>5 DEF Backend!ReadStream
<1>6. ASSUME NEW s \in Streams, Backend!StreamEnds(s) PROVE WaitFlow'
  BY <1>6 DEF Backend!StreamEnds
<1>7. ASSUME NEW s \in Streams, Backend!ChildWrites(s) PROVE WaitFlow'
  BY <1>7 DEF Backend!ChildWrites
<1>8. CASE Backend!ChildReads \/ Backend!ChildExits \/ Backend!Cancel \/ Backend!Expire
  BY <1>8 DEF Backend!ChildReads, Backend!ChildExits, Backend!Cancel, Backend!Expire
<1> QED
  BY <1>1, <1>2, <1>3, <1>4, <1>5, <1>6, <1>7, <1>8 DEF Backend!Next

\* The caller never takes a cancellation back.
LEMMA CancelStays ==
    ASSUME CommandInv, [CommandNext]_commandVars
    PROVE  cancelled => cancelled'
<1> USE DEF CommandInv, ExecutorInv, ExecutorTypeOK
<1>1. CASE BackendRuns
  BY <1>1 DEF BackendRuns, Backend!Next, Backend!WriteRequest, Backend!Poll, Backend!Join,
     Backend!Finish, Backend!ReadStream, Backend!StreamEnds, Backend!ChildWrites,
     Backend!ChildReads, Backend!ChildExits, Backend!Cancel, Backend!Expire
<1>2. CASE ExecutorRuns
  BY <1>2 DEF ExecutorRuns, Next, ChildWrite, ChildExit, Tick, Cancel, ReaderStep, ReaderRetry,
     ReaderRead, ReaderEof, ReaderLoad, ReaderOver, ReaderReserve, ReaderExceed, ReaderAppend,
     ReaderUnchanged, MainStep, MainStart, MainCancel, MainLimit, MainTryWait, MainDeadline,
     MainReturn, SpawnReader, SpawnFails, AbortWith, Continue, Return, MainUnchanged
<1>3. CASE BackendReturned \/ ExecutorReturned \/ UNCHANGED commandVars
  BY <1>3 DEF BackendReturned, ExecutorReturned, commandVars, vars
<1> QED
  BY <1>1, <1>2, <1>3 DEF CommandNext

\* The command begins with both processes accounted for.
LEMMA CommandStarts == CommandInit => CommandInv
<1> SUFFICES ASSUME CommandInit PROVE CommandInv
  OBVIOUS
<1>1. ExecutorInv
  BY ExecutorStarts DEF CommandInit
<1>2. BackendTypes
  <2>1. out \in [Streams -> OutRecord]
    BY DEF CommandInit, Backend!Init, OutRecord, Streams, Backend!Streams
  <2>2. cancelled \in BOOLEAN /\ expired \in BOOLEAN /\ overflow \in BOOLEAN /\ private \in BOOLEAN
    BY Zenon DEF CommandInit, Backend!Init
  <2>3. toWrite \in 0 .. Request /\ stdin \in 0 .. PipeBytes
    BY DEF CommandInit, Backend!Init
  <2> QED
    BY <2>1, <2>2, <2>3 DEF CommandInit, Backend!Init, BackendTypes, Backend!Outcomes
<1>3. StreamFlow
  BY DEF CommandInit, Backend!Init, StreamFlow, Streams, Backend!Streams
<1>4. WaitFlow
  BY DEF CommandInit, Backend!Init, WaitFlow
<1>5. StageFlow
  BY DEF CommandInit, Backend!Init, Init, StageFlow
<1> QED
  BY <1>1, <1>2, <1>3, <1>4, <1>5 DEF CommandInv

\* A step of the backend leaves the executor as it was, but for a cancellation.
LEMMA BackendRunsPreserves ==
    ASSUME CommandInv, BackendRuns
    PROVE  CommandInv'
<1>1. BackendTypes'
  BY BackendKeepsTypes DEF CommandInv, BackendRuns
<1>2. StreamFlow'
  BY BackendKeepsStreams DEF CommandInv, BackendRuns
<1>3. WaitFlow'
  BY BackendKeepsWait DEF CommandInv, BackendRuns
<1>4. ExecutorInv'
  <2>1. UNCHANGED <<now, child, written, pipe, reader, chunk, observed, retained, total, exceeded,
                    main, timedOut, result>>
    BY DEF BackendRuns, childVars, readerVars
  <2>2. cancelled' \in BOOLEAN
    BY <1>1 DEF BackendTypes
  <2>3. ExecutorTypeOK'
    BY <2>1, <2>2 DEF CommandInv, ExecutorInv, ExecutorTypeOK
  <2>4. BudgetKept' /\ ReaderFlow' /\ CallFlow'
    BY <2>1 DEF CommandInv, ExecutorInv, BudgetKept, Reserved, ReaderFlow, CallFlow,
       ReadersJoined, Ending
  <2> QED
    BY <2>3, <2>4 DEF ExecutorInv
<1>5. StageFlow'
  <2>1. cancelled => cancelled'
    BY CancelStays DEF CommandNext
  <2> QED
    BY <2>1 DEF CommandInv, StageFlow, BackendRuns
<1> QED
  BY <1>1, <1>2, <1>3, <1>4, <1>5 DEF CommandInv

\* What execute_backend held is dropped when it has returned.
LEMMA BackendReturnedPreserves ==
    ASSUME CommandInv, BackendReturned
    PROVE  CommandInv'
<1> USE DEF CommandInv
<1>1. ExecutorInv'
  <2>1. UNCHANGED vars
    BY DEF BackendReturned
  <2> QED
    BY <2>1, ExecutorInductive
<1>2. \A s \in Streams : /\ out'[s].open = out[s].open
                         /\ out'[s].made = 0 /\ out'[s].pipe = 0 /\ out'[s].total = 0
  BY DEF BackendReturned, BackendTypes, OutRecord
<1>3. BackendTypes'
  <2>1. ASSUME NEW s \in Streams
        PROVE  [out[s] EXCEPT !.made = 0, !.total = 0, !.pipe = 0] \in OutRecord
    <3>1. out[s] \in OutRecord
      BY DEF BackendTypes
    <3>2. 0 \in Nat /\ 0 \in 0 .. PipeBytes
      OBVIOUS
    <3> QED
      BY <3>1, <3>2, Zenon DEF OutRecord
  <2>2. out' \in [Streams -> OutRecord]
    BY <2>1, Zenon DEF BackendReturned
  <2>3. cancelled' \in BOOLEAN /\ expired' \in BOOLEAN /\ overflow' \in BOOLEAN
        /\ private' \in BOOLEAN
    BY Zenon DEF BackendReturned, BackendTypes, vars
  <2>4. stdin' \in 0 .. PipeBytes
    <3>1. stdin' = 0
      BY Zenon DEF BackendReturned
    <3> QED
      BY <3>1
  <2>5. UNCHANGED <<bChild, toWrite, writer, bMain, outcome>>
    BY Zenon DEF BackendReturned
  <2> QED
    BY <2>2, <2>3, <2>4, <2>5 DEF BackendTypes
<1>4. StreamFlow'
  <2>1. \A s \in Streams : ~(0 > Kept[s])
    OBVIOUS
  <2>2. bChild' = bChild /\ overflow' = FALSE
    BY Zenon DEF BackendReturned
  <2> QED
    BY <1>2, <2>1, <2>2 DEF StreamFlow
<1>5. WaitFlow'
  <2>1. Backend!Joined <=> Backend!Joined'
    BY <1>2 DEF BackendReturned, Backend!Joined, Streams, Backend!Streams
  <2> QED
    BY <2>1 DEF BackendReturned, WaitFlow, vars
<1>6. StageFlow'
  BY DEF BackendReturned, StageFlow, WaitFlow, vars
<1> QED
  BY <1>1, <1>3, <1>4, <1>5, <1>6

\* A step of the executor leaves the ended backend as it was.
LEMMA ExecutorRunsPreserves ==
    ASSUME CommandInv, ExecutorRuns
    PROVE  CommandInv'
<1>1. ExecutorInv'
  BY ExecutorInductive DEF CommandInv, ExecutorRuns
<1>2. cancelled => cancelled'
  BY CancelStays DEF CommandNext
<1>3. BackendTypes'
  <2>1. cancelled' \in BOOLEAN
    BY <1>1 DEF ExecutorInv, ExecutorTypeOK
  <2> QED
    BY <2>1 DEF CommandInv, ExecutorRuns, backendVars, BackendTypes
<1>4. StreamFlow'
  BY DEF CommandInv, ExecutorRuns, backendVars, StreamFlow
<1>5. WaitFlow'
  BY <1>2 DEF CommandInv, ExecutorRuns, backendVars, WaitFlow, Backend!Joined
<1>6. StageFlow'
  <2>1. main' = "abortCancelled" \/ result' = "cancelled" => cancelled'
    <3>1. main' = "abortCancelled" => main = "abortCancelled" \/ cancelled
      BY DEF ExecutorRuns, Next, ChildWrite, ChildExit, Tick, Cancel, ReaderStep, ReaderRetry,
         ReaderRead, ReaderEof, ReaderLoad, ReaderOver, ReaderReserve, ReaderExceed, ReaderAppend,
         ReaderUnchanged, MainStep, MainStart, MainCancel, MainLimit, MainTryWait, MainDeadline,
         MainReturn, SpawnReader, SpawnFails, AbortWith, Continue, Return, MainUnchanged
    <3>2. result' = "cancelled" => result = "cancelled" \/ main = "abortCancelled"
      BY DEF ExecutorRuns, Next, ChildWrite, ChildExit, Tick, Cancel, ReaderStep, ReaderRetry,
         ReaderRead, ReaderEof, ReaderLoad, ReaderOver, ReaderReserve, ReaderExceed, ReaderAppend,
         ReaderUnchanged, MainStep, MainStart, MainCancel, MainLimit, MainTryWait, MainDeadline,
         MainReturn, SpawnReader, SpawnFails, AbortWith, Continue, Return, MainUnchanged
    <3> QED
      BY <1>2, <3>1, <3>2 DEF CommandInv, StageFlow
  <2> QED
    BY <1>2, <2>1 DEF CommandInv, ExecutorRuns, backendVars, StageFlow
<1> QED
  BY <1>1, <1>3, <1>4, <1>5, <1>6 DEF CommandInv

\* CommandInv is inductive.
LEMMA CommandInductive ==
    ASSUME CommandInv, [CommandNext]_commandVars
    PROVE  CommandInv'
<1>1. CASE ExecutorReturned \/ UNCHANGED commandVars
  <2>1. UNCHANGED <<vars, backendVars>>
    BY <1>1 DEF ExecutorReturned, commandVars
  <2>2. ExecutorInv'
    BY <2>1, ExecutorInductive DEF CommandInv
  <2>3. BackendTypes' /\ StreamFlow' /\ WaitFlow'
    BY <2>1 DEF CommandInv, vars, backendVars, BackendTypes, StreamFlow, WaitFlow, Backend!Joined
  <2>4. StageFlow'
    BY <1>1, <2>1 DEF CommandInv, vars, backendVars, commandVars, ExecutorReturned, StageFlow
  <2> QED
    BY <2>2, <2>3, <2>4 DEF CommandInv
<1> QED
  BY <1>1, BackendRunsPreserves, BackendReturnedPreserves, ExecutorRunsPreserves DEF CommandNext

\* Whatever the backend, the emulator and the caller do, CommandInv holds.
THEOREM CommandInvariant == CommandSpec => []CommandInv
BY CommandStarts, CommandInductive, PTL DEF CommandSpec

\* execute_backend accepts complete answers only, drops its directory last, and
\* an image runs only after an accepted answer.
THEOREM BackendAlwaysWaitedFor == CommandSpec => []BackendInv
<1>1. CommandInv => BackendInv
  <2> SUFFICES ASSUME CommandInv PROVE BackendInv
    OBVIOUS
  <2> USE DEF CommandInv, Streams, Backend!Streams
  <2>1. Backend!BackendTypeOK
    BY DEF BackendTypes, OutRecord, StreamFlow, Backend!BackendTypeOK
  <2>2. Backend!AcceptedIsComplete
    BY DEF BackendTypes, OutRecord, StreamFlow, WaitFlow, Backend!AcceptedIsComplete,
       Backend!Joined, Backend!Retained, Backend!Lesser
  <2>3. Backend!OverflowIsReal
    BY DEF BackendTypes, OutRecord, StreamFlow, Backend!OverflowIsReal
  <2>4. Backend!DirectoryOutlivesChild
    BY DEF WaitFlow, Backend!Joined, Backend!DirectoryOutlivesChild
  <2> QED
    BY <2>1, <2>2, <2>3, <2>4 DEF StageFlow, BackendInv
<1> QED
  BY <1>1, CommandInvariant, PTL

\* What is proved of run_program alone holds when the command runs it.
THEOREM CommandKeepsExecutor ==
    CommandSpec => [](ExecutorInv /\ OutputComplete /\ NothingLeftBehind)
<1>1. CommandInv => ExecutorInv /\ OutputComplete /\ NothingLeftBehind
  <2> SUFFICES ASSUME ExecutorInv PROVE OutputComplete /\ NothingLeftBehind
    BY DEF CommandInv
  <2>1. OutputComplete
    BY DEF ExecutorInv, ReaderFlow, CallFlow, OutputComplete
  <2> QED
    BY <2>1 DEF ExecutorInv, CallFlow, Ending, ReadersJoined, NothingLeftBehind
<1> QED
  BY <1>1, CommandInvariant, PTL
=============================================================================
