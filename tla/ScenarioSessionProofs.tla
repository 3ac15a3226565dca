------------------------ MODULE ScenarioSessionProofs ------------------------
(***************************************************************************)
(* A scenario session returns what the guest printed and leaves nothing    *)
(* behind, and one that ends well met its expectations in their order, for *)
(* every scenario, channel capacity and output limit; the request-shutdown *)
(* step of a scenario completes only with a shutdown.                      *)
(***************************************************************************)
EXTENDS ScenarioSession, QmpShutdown, SequenceTheorems, WellFoundedInduction, TLAPS

Steps ==
    {<<"send">>} \cup ({"expect"} \X Tokens) \cup ({"exit"} \X {"exited", "failed", "any"})

MainStates == {"pump", "poll", "judge", "finish", "drain", "returned"} \cup AbortStates

SessionTypes ==
    /\ child \in {"running", "exited", "failed", "killed"}
    /\ written \in Seq(Tokens) /\ stdout \in Seq(Tokens) /\ channel \in Seq(Tokens)
    /\ read \in Nat
    /\ reader \in {"read", "send", "done"}
    /\ Len(channel) <= Capacity
    /\ floor \in Nat /\ floor <= Len(stdout)
    /\ step \in 1 .. (Len(Scenario) + 1)
    /\ exceeded \in BOOLEAN /\ stdoutClosed \in BOOLEAN /\ status \in BOOLEAN
    /\ begun \in BOOLEAN /\ timedOut \in BOOLEAN /\ expired \in BOOLEAN
    /\ input \in {"idle", "queued", "acknowledged", "failed"}
    /\ main \in MainStates
    /\ result \in {"none", "output"} \cup AbortStates

\* s continues written behind its first n tokens.
Continues(s, n) == \A i \in DOMAIN s : s[i] = written[n + i]

\* Whether the reader holds a token, and whether it has dropped one.
Held == IF reader = "send" THEN 1 ELSE 0
Dropped == IF exceeded THEN 1 ELSE 0

\* Every token that was read is in the output, in the channel, in the hands of
\* the reader or over the limit, in this order, unless abort throws them away.
OutputFlow ==
    /\ read <= Len(written)
    /\ Len(stdout) <= Len(written) /\ Continues(stdout, 0)
    /\ reader = "send" => read # 0
    /\ exceeded => reader = "done"
    /\ reader = "done" /\ ~exceeded => read = Len(written) /\ child # "running"
    /\ main \notin AbortStates /\ result \notin AbortStates =>
          /\ Len(stdout) + Len(channel) + Held + Dropped = read
          /\ Continues(channel, Len(stdout))

\* What the position of the calling thread says about the child, the threads
\* and the steps of the scenario.
CallFlow ==
    /\ status => child # "running"
    /\ main = "finish" => timedOut \/ status
    /\ main = "drain" => status
    /\ main = "returned" <=> result # "none"
    /\ main = "returned" => child # "running" /\ reader = "done" /\ input # "queued"
    /\ result = "output" => channel = <<>> /\ ~exceeded
    /\ main \in {"finish", "drain"} \/ result = "output" =>
          timedOut \/ step = Len(Scenario) + 1

\* The inductive invariant: the expectations passed so far were met below the
\* observation floor.
SessionFlow == SessionTypes /\ OutputFlow /\ CallFlow /\ MetWithin(step, floor)

-----------------------------------------------------------------------------
(* Types                                                                   *)

LEMMA ScenarioSteps ==
  /\ Len(Scenario) \in Nat
  /\ DOMAIN Scenario = 1 .. Len(Scenario)
  /\ \A i \in DOMAIN Scenario : Scenario[i] \in Steps
<1>1. Scenario \in Seq(Steps)
  BY SessionAssumption, Zenon DEF Steps
<1> QED
  BY <1>1

LEMMA StepKinds ==
  ASSUME NEW s \in Steps
  PROVE  s[1] \in {"send", "expect", "exit"}
<1>1. CASE s = <<"send">>
  BY <1>1
<1>2. ASSUME s \in {"expect"} \X Tokens PROVE s[1] = "expect"
  BY <1>2
<1>3. ASSUME s \in {"exit"} \X {"exited", "failed", "any"} PROVE s[1] = "exit"
  BY <1>3
<1> QED
  BY <1>1, <1>2, <1>3 DEF Steps

LEMMA Limits ==
  Capacity \in Nat \ {0} /\ OutputLimit \in Nat /\ MaxOutput \in Nat
BY SessionAssumption

\* Below a first match every position is none.
LEMMA FirstMatchIsOne ==
  ASSUME SessionTypes, Matches # {}
  PROVE  FirstMatch \in Matches
<1>1. Matches \in SUBSET Nat
  BY DEF SessionTypes, Matches
<1> DEFINE R == OpToRel(<, Nat)
<1>2. IsWellFoundedOn(R, Nat)
  BY NatLessThanWellFounded
<1>3. \A x, y \in Nat : <<y, x>> \in R <=> y < x
  BY DEF OpToRel
<1> HIDE DEF R
<1>4. PICK m \in Matches : \A n \in Matches : ~(<<n, m>> \in R)
  BY <1>1, <1>2, WFMin
<1>5. \A n \in Matches : m <= n
  <2> TAKE n \in Matches
  <2>1. m \in Nat /\ n \in Nat
    BY <1>1
  <2>2. ~(n < m)
    BY <1>3, <1>4, <2>1
  <2> QED
    BY <2>1, <2>2
<1> QED
  BY <1>5 DEF FirstMatch

\* What judging a step comes to.
Judged ==
    /\ JudgeUnchanged
    /\ main = "judge" /\ main' \in {"pump", "finish"} \cup AbortStates
    /\ step' \in 1 .. (Len(Scenario) + 1)
    /\ floor' \in Nat /\ floor' <= Len(stdout)
    /\ begun' \in BOOLEAN /\ timedOut' \in BOOLEAN
    /\ input' \in {"idle", "queued", "acknowledged", "failed"}
    /\ main' = "finish" => timedOut' \/ (status /\ step' = Len(Scenario) + 1)

Judge == BeginStep \/ JudgeSend \/ JudgeExpect \/ JudgeExit \/ JudgeFinalExit

LEMMA CurrentStep ==
  ASSUME SessionTypes
  PROVE  /\ Current[1] \in {"send", "expect", "exit", "finalExit"}
         /\ Current[1] = "finalExit" <=> step = Len(Scenario) + 1
         /\ Current[1] # "finalExit" =>
               /\ step \in DOMAIN Scenario /\ Current = Scenario[step]
               /\ step + 1 \in 1 .. (Len(Scenario) + 1)
<1>1. Len(Scenario) \in Nat /\ DOMAIN Scenario = 1 .. Len(Scenario)
  BY ScenarioSteps
<1>2. step \in 1 .. (Len(Scenario) + 1)
  BY DEF SessionTypes
<1>3. CASE step = Len(Scenario) + 1
  <2>1. ~(step <= Len(Scenario))
    BY <1>1, <1>3
  <2>2. Current = <<"finalExit">>
    BY <2>1 DEF Current
  <2> QED
    BY <1>3, <2>2
<1>4. CASE step # Len(Scenario) + 1
  <2>1. step \in DOMAIN Scenario /\ step <= Len(Scenario)
    BY <1>1, <1>2, <1>4
  <2>2. Current = Scenario[step]
    BY <2>1 DEF Current
  <2>3. Scenario[step] \in Steps
    BY <2>1, ScenarioSteps
  <2>4. Current[1] \in {"send", "expect", "exit"}
    BY <2>2, <2>3, StepKinds
  <2>5. step + 1 \in 1 .. (Len(Scenario) + 1)
    BY <1>1, <2>1
  <2> QED
    BY <1>4, <2>1, <2>2, <2>4, <2>5
<1> QED
  BY <1>3, <1>4

LEMMA JudgeStep ==
  ASSUME SessionTypes, Judge
  PROVE  Judged
<1> DEFINE n == Len(Scenario)
<1>0. n \in Nat
  BY ScenarioSteps
<1>1. CASE BeginStep
  <2>1. Len(stdout) \in Nat
    BY DEF SessionTypes
  <2>2. floor' \in Nat /\ floor' <= Len(stdout)
    BY <1>1, <2>1 DEF BeginStep, SessionTypes
  <2>3. begun' \in BOOLEAN /\ main' \in {"pump", "abortExited"}
        /\ input' \in {"idle", "queued", "acknowledged", "failed"}
    BY <1>1, Zenon DEF BeginStep, Goto, SessionTypes
  <2>4. JudgeUnchanged /\ main = "judge" /\ step' = step /\ timedOut' = timedOut
    BY <1>1 DEF BeginStep
  <2> QED
    BY <2>2, <2>3, <2>4 DEF Judged, SessionTypes, AbortStates
<1> USE DEF Complete, KeepWaiting, TimeOut, Abort, Goto, Judging
<1>2. CASE JudgeSend
  <2>1. step + 1 \in 1 .. (n + 1)
    BY <1>2, CurrentStep DEF JudgeSend
  <2> QED
    BY <1>2, <2>1 DEF JudgeSend, Judged, SessionTypes, AbortStates
<1>3. CASE JudgeExpect
  <2>1. step + 1 \in 1 .. (n + 1)
    BY <1>3, CurrentStep DEF JudgeExpect
  <2>2. Matches # {} => FirstMatch \in Nat /\ FirstMatch <= Len(stdout)
    <3> HAVE Matches # {}
    <3>1. FirstMatch \in Matches
      BY FirstMatchIsOne
    <3>2. FirstMatch \in (floor + 1) .. Len(stdout)
      BY <3>1 DEF Matches
    <3> QED
      BY <3>2 DEF SessionTypes
  <2> QED
    BY <1>3, <2>1, <2>2 DEF JudgeExpect, Judged, SessionTypes, AbortStates
<1>4. CASE JudgeExit
  <2>1. step + 1 \in 1 .. (n + 1)
    BY <1>4, CurrentStep DEF JudgeExit
  <2> QED
    BY <1>4, <2>1 DEF JudgeExit, Judged, SessionTypes, AbortStates
<1>5. CASE JudgeFinalExit
  <2>1. step = n + 1
    BY <1>5, CurrentStep DEF JudgeFinalExit
  <2> QED
    BY <1>5, <2>1 DEF JudgeFinalExit, Judged, SessionTypes, AbortStates
<1> QED
  BY <1>1, <1>2, <1>3, <1>4, <1>5 DEF Judge

LEMMA TypesStep ==
  ASSUME SessionTypes, OutputFlow, [Next]_vars
  PROVE  SessionTypes'
<1> DEFINE n == Len(Scenario)
<1>0. n \in Nat /\ Capacity \in Nat
  BY ScenarioSteps, Limits
<1>1. ASSUME NEW t \in Tokens, GuestPrints(t) PROVE SessionTypes'
  BY <1>1, <1>0 DEF GuestPrints, sessionVars, SessionTypes, MainStates, AbortStates
<1>2. ASSUME NEW code \in {"exited", "failed"}, GuestExits(code) PROVE SessionTypes'
  BY <1>2, <1>0 DEF GuestExits, sessionVars, SessionTypes, MainStates, AbortStates
<1>3. CASE Expire
  BY <1>3, <1>0
  DEF Expire, sessionVars, outputVars, SessionTypes, MainStates, AbortStates
<1>4. CASE ReaderReads
  <2>0. read' \in Nat
    BY <1>4 DEF ReaderReads, SessionTypes
  <2>1. exceeded' \in BOOLEAN /\ reader' \in {"read", "send", "done"}
    BY <1>4, Limits, Zenon DEF ReaderReads, SessionTypes
  <2> QED
    BY <1>4, <2>0, <2>1 DEF ReaderReads, sessionVars, SessionTypes
<1>5. CASE ReaderSends
  <2>1. read \in DOMAIN written
    BY <1>5 DEF ReaderSends, SessionTypes, OutputFlow
  <2>2. written[read] \in Tokens
    BY <2>1 DEF SessionTypes
  <2>3. channel' \in Seq(Tokens) /\ Len(channel') <= Capacity
    BY <1>0, <1>5, <2>2 DEF ReaderSends, SessionTypes
  <2> QED
    BY <1>5, <2>3 DEF ReaderSends, sessionVars, SessionTypes
<1>6. CASE ReaderEof
  BY <1>6, <1>0 DEF ReaderEof, sessionVars, SessionTypes, MainStates, AbortStates
<1>7. CASE WriterDelivers
  BY <1>7, <1>0
  DEF WriterDelivers, sessionVars, outputVars, SessionTypes, MainStates, AbortStates
<1>8. CASE WriterFails
  BY <1>8, <1>0
  DEF WriterFails, sessionVars, outputVars, SessionTypes, MainStates, AbortStates
<1>9. CASE PumpCancelled
  BY <1>9, <1>0
  DEF PumpCancelled, Goto, sessionVars, outputVars, SessionTypes, MainStates,
      AbortStates
<1>10. CASE Receive
  <2>1. Head(channel) \in Tokens /\ Tail(channel) \in Seq(Tokens)
        /\ Len(Tail(channel)) = Len(channel) - 1
    BY <1>10 DEF Receive, SessionTypes
  <2>2. main' \in MainStates
    BY <1>10 DEF Receive, Goto, MainStates, AbortStates
  <2> DEFINE h == Head(channel)
             r == Tail(channel)
  <2>3. stdout' = Append(stdout, h) /\ channel' = r
    BY <1>10 DEF Receive
  <2> HIDE DEF h, r
  <2>4. stdout' \in Seq(Tokens) /\ Len(stdout') = Len(stdout) + 1
    BY <2>1, <2>3 DEF SessionTypes, h
  <2>5. floor <= Len(stdout') /\ Len(channel') <= Capacity
    BY <1>0, <2>1, <2>3, <2>4 DEF SessionTypes, r
  <2> QED
    BY <1>10, <2>1, <2>2, <2>3, <2>4, <2>5 DEF Receive, SessionTypes, r
<1>11. CASE PumpEmpty
  BY <1>11, <1>0 DEF PumpEmpty, Goto, outputVars, SessionTypes, MainStates, AbortStates
<1>12. CASE PumpPoll
  <2>1. status' \in BOOLEAN
    BY <1>12, Zenon DEF PumpPoll, SessionTypes
  <2>2. main' \in MainStates
    BY <1>12 DEF PumpPoll, Goto, MainStates, AbortStates
  <2> QED
    BY <1>12, <2>1, <2>2 DEF PumpPoll, outputVars, SessionTypes
<1>13. CASE Judge
  <2>1. Judged
    BY <1>13, JudgeStep
  <2> QED
    BY <2>1, <1>0
    DEF Judged, JudgeUnchanged, outputVars, SessionTypes, MainStates, AbortStates
<1>14. CASE FinishTerminate
  BY <1>14, <1>0
  DEF FinishTerminate, Goto, Terminated, SessionTypes, MainStates, AbortStates
<1>15. CASE Finish
  BY <1>15, <1>0 DEF Finish, Goto, outputVars, SessionTypes, MainStates, AbortStates
<1>16. CASE AbortTerminate
  BY <1>16, <1>0 DEF AbortTerminate, Terminated, SessionTypes, MainStates, AbortStates
<1>17. CASE AbortDiscard
  BY <1>17, <1>0 DEF AbortDiscard, sessionVars, SessionTypes, MainStates, AbortStates
<1>18. CASE AbortReturn
  BY <1>18, <1>0
  DEF AbortReturn, Goto, outputVars, SessionTypes, MainStates, AbortStates
<1>19. CASE UNCHANGED vars
  BY <1>19, <1>0
  DEF vars, outputVars, sessionVars, SessionTypes, MainStates, AbortStates
<1> QED
  BY <1>1, <1>2, <1>3, <1>4, <1>5, <1>6, <1>7, <1>8, <1>9, <1>10, <1>11,
     <1>12, <1>13, <1>14, <1>15, <1>16, <1>17, <1>18, <1>19
  DEF Next, ReaderStep, MainStep, Judge

-----------------------------------------------------------------------------
(* The flow of the output                                                  *)

LEMMA OutputStep ==
  ASSUME SessionTypes, OutputFlow, CallFlow, [Next]_vars
  PROVE  OutputFlow'
<1>1. ASSUME NEW t \in Tokens, GuestPrints(t) PROVE OutputFlow'
  <2>1. Len(written') = Len(written) + 1
        /\ \A i \in 1 .. Len(written) : written'[i] = written[i]
    BY <1>1 DEF GuestPrints, SessionTypes
  <2>2. reader # "done" /\ child = "running"
    BY <1>1 DEF GuestPrints
  <2>3. Len(stdout) \in Nat /\ Len(channel) \in Nat /\ Len(written) \in Nat /\ read \in Nat
        /\ DOMAIN stdout = 1 .. Len(stdout) /\ DOMAIN channel = 1 .. Len(channel)
    BY DEF SessionTypes
  <2>4. UNCHANGED <<child, read, reader, channel, exceeded, stdout, main, result>>
    BY <1>1 DEF GuestPrints, sessionVars
  <2>5. Len(stdout') <= Len(written') /\ Continues(stdout, 0)'
    BY <2>1, <2>3, <2>4 DEF OutputFlow, Continues
  <2>6. main \notin AbortStates /\ result \notin AbortStates =>
          Continues(channel, Len(stdout))'
    BY <2>1, <2>3, <2>4 DEF OutputFlow, Continues, Held, Dropped
  <2> QED
    BY <2>1, <2>2, <2>3, <2>4, <2>5, <2>6 DEF OutputFlow, Held, Dropped
<1>2. ASSUME NEW code \in {"exited", "failed"}, GuestExits(code) PROVE OutputFlow'
  BY <1>2
  DEF GuestExits, sessionVars, OutputFlow, Continues, Held, Dropped, AbortStates,
      SessionTypes
<1>3. CASE Expire
  BY <1>3
  DEF Expire, sessionVars, outputVars, OutputFlow, Continues, Held, Dropped,
      AbortStates, SessionTypes
<1>4. CASE ReaderReads
  <2>1. UNCHANGED <<child, written, channel, stdout, main, result>>
        /\ reader = "read" /\ read < Len(written) /\ read' = read + 1
    BY <1>4 DEF ReaderReads, sessionVars
  <2>2. ~exceeded
    BY <2>1 DEF OutputFlow
  <2>3. \/ reader' = "send" /\ ~exceeded'
        \/ reader' = "done" /\ exceeded'
    BY <1>4, <2>2, Zenon DEF ReaderReads
  <2>4. Held = 0 /\ Dropped = 0 /\ Held' + Dropped' = 1 /\ Held' \in Nat /\ Dropped' \in Nat
    BY <2>1, <2>2, <2>3 DEF Held, Dropped
  <2>5. Len(stdout) \in Nat /\ Len(channel) \in Nat /\ Len(written) \in Nat /\ read \in Nat
    BY DEF SessionTypes
  <2>6. read' <= Len(written') /\ read' # 0
    BY <2>1, <2>5
  <2>7. main \notin AbortStates /\ result \notin AbortStates =>
          Len(stdout') + Len(channel') + Held' + Dropped' = read'
    <3> SUFFICES ASSUME main \notin AbortStates /\ result \notin AbortStates
                 PROVE  Len(stdout) + Len(channel) + Held' + Dropped' = read + 1
      BY <2>1
    <3> DEFINE h == Held'
               d == Dropped'
    <3>1. Len(stdout) + Len(channel) + Held + Dropped = read
      BY DEF OutputFlow
    <3>2. Len(stdout) + Len(channel) = read
      BY <2>4, <2>5, <3>1
    <3>3. h + d = 1 /\ h \in Nat /\ d \in Nat
      BY <2>4
    <3> HIDE DEF h, d
    <3>4. Len(stdout) + Len(channel) + h + d = read + 1
      BY <2>5, <3>2, <3>3
    <3> QED
      BY <3>4 DEF h, d
  <2> HIDE DEF Held, Dropped
  <2> QED
    BY <2>1, <2>3, <2>6, <2>7 DEF OutputFlow, Continues
<1>5. CASE ReaderSends
  <2>1. UNCHANGED <<child, written, read, exceeded, stdout, main, result>>
        /\ reader = "send" /\ reader' = "read"
    BY <1>5 DEF ReaderSends, sessionVars
  <2>2. Len(stdout) \in Nat /\ Len(channel) \in Nat /\ Len(written) \in Nat /\ read \in Nat
        /\ DOMAIN channel = 1 .. Len(channel)
    BY DEF SessionTypes
  <2>3. /\ Len(channel') = Len(channel) + 1 /\ DOMAIN channel' = 1 .. (Len(channel) + 1)
        /\ \A i \in 1 .. Len(channel) : channel'[i] = channel[i]
        /\ channel'[Len(channel) + 1] = written[read]
    BY <1>5 DEF ReaderSends, SessionTypes
  <2>4. ~exceeded
    BY <2>1 DEF OutputFlow
  <2>5. ASSUME main \notin AbortStates, result \notin AbortStates
        PROVE  (Len(stdout) + Len(channel) + Held + Dropped = read
                /\ Continues(channel, Len(stdout)))'
    <3>1. Len(stdout) + Len(channel) + 1 = read /\ Continues(channel, Len(stdout))
      BY <2>1, <2>2, <2>4, <2>5 DEF OutputFlow, Held, Dropped
    <3>2. ASSUME NEW i \in DOMAIN channel' PROVE channel'[i] = written'[Len(stdout') + i]
      <4>1. CASE i = Len(channel) + 1
        <5>1. Len(stdout) + i = read
          BY <2>2, <3>1, <4>1
        <5>2. channel'[i] = written[read]
          BY <2>3, <4>1, Zenon
        <5>3. written' = written /\ stdout' = stdout
          BY <2>1
        <5> QED
          BY <5>1, <5>2, <5>3, Zenon
      <4>2. CASE i # Len(channel) + 1
        <5>1. i \in 1 .. Len(channel)
          BY <2>2, <2>3, <4>2
        <5>2. channel[i] = written[Len(stdout) + i]
          BY <2>2, <3>1, <5>1 DEF Continues
        <5>3. channel'[i] = channel[i] /\ written' = written /\ stdout' = stdout
          BY <2>1, <2>3, <5>1
        <5> QED
          BY <5>2, <5>3
      <4> QED
        BY <4>1, <4>2
    <3> QED
      BY <2>1, <2>2, <2>3, <2>4, <3>1, <3>2 DEF Held, Dropped, Continues
  <2> QED
    BY <2>1, <2>4, <2>5 DEF OutputFlow, Continues
<1>6. CASE ReaderEof
  BY <1>6
  DEF ReaderEof, sessionVars, OutputFlow, Continues, Held, Dropped, AbortStates,
      SessionTypes
<1>7. CASE WriterDelivers
  BY <1>7
  DEF WriterDelivers, sessionVars, outputVars, OutputFlow, Continues, Held, Dropped,
      AbortStates, SessionTypes
<1>8. CASE WriterFails
  BY <1>8
  DEF WriterFails, sessionVars, outputVars, OutputFlow, Continues, Held, Dropped,
      AbortStates, SessionTypes
<1>9. CASE PumpCancelled
  BY <1>9
  DEF PumpCancelled, Goto, sessionVars, outputVars, OutputFlow, Continues, Held,
      Dropped, AbortStates, SessionTypes
<1>10. CASE Receive
  <2>1. UNCHANGED <<child, written, read, reader, exceeded, result>> /\ channel # <<>>
        /\ main \in {"pump", "drain"} /\ main' \in {main, "abortObserver"}
    BY <1>10 DEF Receive, Goto
  <2>2. Len(stdout) \in Nat /\ Len(channel) \in Nat /\ Len(written) \in Nat /\ read \in Nat
        /\ DOMAIN stdout = 1 .. Len(stdout) /\ DOMAIN channel = 1 .. Len(channel)
        /\ 1 \in DOMAIN channel
    BY <2>1 DEF SessionTypes
  <2>3. Len(channel') = Len(channel) - 1 /\ DOMAIN channel' = 1 .. (Len(channel) - 1)
        /\ \A i \in 1 .. (Len(channel) - 1) : channel'[i] = channel[i + 1]
    BY <1>10, <2>1 DEF Receive, SessionTypes
  <2>4. /\ Len(stdout') = Len(stdout) + 1 /\ DOMAIN stdout' = 1 .. (Len(stdout) + 1)
        /\ \A i \in 1 .. Len(stdout) : stdout'[i] = stdout[i]
        /\ stdout'[Len(stdout) + 1] = channel[1]
    BY <1>10, <2>1 DEF Receive, SessionTypes
  <2>5. result = "none"
    BY <2>1 DEF CallFlow
  <2>6. /\ Len(stdout) + Len(channel) + Held + Dropped = read
        /\ Continues(channel, Len(stdout))
        /\ read <= Len(written) /\ Continues(stdout, 0)
    BY <2>1, <2>5 DEF OutputFlow, AbortStates
  <2>7. Held \in Nat /\ Dropped \in Nat /\ Held' = Held /\ Dropped' = Dropped
    BY <2>1 DEF Held, Dropped
  <2>8. channel[1] = written[Len(stdout) + 1]
    BY <2>2, <2>6 DEF Continues
  <2>9. ASSUME NEW i \in DOMAIN stdout' PROVE stdout'[i] = written'[0 + i]
    <3>1. CASE i = Len(stdout) + 1
      <4>1. 0 + i = Len(stdout) + 1 /\ i = Len(stdout) + 1
        BY <2>2, <3>1
      <4>2. stdout'[i] = written[0 + i]
        BY <2>4, <2>8, <4>1, Zenon
      <4> QED
        BY <2>1, <4>2
    <3>2. CASE i # Len(stdout) + 1
      <4>1. i \in 1 .. Len(stdout)
        BY <2>2, <2>4, <3>2
      <4> QED
        BY <2>1, <2>2, <2>4, <2>6, <4>1 DEF Continues
    <3> QED
      BY <3>1, <3>2
  <2>10. \A i \in 1 .. (Len(channel) - 1) : channel[i + 1] = written[Len(stdout) + 1 + i]
    <3> TAKE i \in 1 .. (Len(channel) - 1)
    <3>1. i + 1 \in DOMAIN channel /\ Len(stdout) + (i + 1) = Len(stdout) + 1 + i
      BY <2>2
    <3> QED
      BY <2>6, <3>1 DEF Continues
  <2>11. Continues(channel, Len(stdout))'
    BY <2>1, <2>2, <2>3, <2>4, <2>10 DEF Continues
  <2>12. Len(stdout') + Len(channel') + Held' + Dropped' = read'
         /\ Len(stdout') <= Len(written')
    <3> DEFINE a == Len(stdout)
               c == Len(channel)
               h == Held
               d == Dropped
               w == Len(written)
    <3>1. a \in Nat /\ c \in Nat /\ c >= 1 /\ h \in Nat /\ d \in Nat /\ w \in Nat /\ read \in Nat
      BY <2>2, <2>7
    <3>2. a + c + h + d = read /\ read <= w
      BY <2>6
    <3>3. Len(stdout') = a + 1 /\ Len(channel') = c - 1 /\ Held' = h /\ Dropped' = d
          /\ read' = read /\ Len(written') = w
      BY <2>1, <2>3, <2>4, <2>7
    <3> HIDE DEF a, c, h, d, w
    <3>4. (a + 1) + (c - 1) + h + d = read /\ a + 1 <= w
      BY <3>1, <3>2
    <3> QED
      BY <3>3, <3>4
  <2>13. Continues(stdout, 0)'
    BY <2>9 DEF Continues
  <2> HIDE DEF Held, Dropped
  <2> QED
    BY <2>1, <2>11, <2>12, <2>13 DEF OutputFlow
<1>11. CASE PumpEmpty
  BY <1>11
  DEF PumpEmpty, Goto, outputVars, OutputFlow, Continues, Held, Dropped, AbortStates,
      SessionTypes
<1>12. CASE PumpPoll
  BY <1>12
  DEF PumpPoll, Goto, outputVars, OutputFlow, Continues, Held, Dropped, AbortStates,
      SessionTypes
<1>13. CASE Judge
  <2>1. Judged
    BY <1>13, JudgeStep
  <2>2. UNCHANGED <<child, written, read, reader, channel, exceeded, stdout, result>>
        /\ main = "judge"
    BY <2>1 DEF Judged, JudgeUnchanged, outputVars
  <2> QED
    BY <2>2 DEF OutputFlow, Continues, Held, Dropped, AbortStates
<1>14. CASE FinishTerminate
  BY <1>14
  DEF FinishTerminate, Goto, Terminated, OutputFlow, Continues, Held, Dropped,
      AbortStates, SessionTypes
<1>15. CASE Finish
  <2>1. UNCHANGED <<child, written, read, reader, channel, exceeded, stdout>>
        /\ main = "drain" /\ result' \in {result, "output"}
    BY <1>15, Zenon DEF Finish, outputVars
  <2>2. result = "none"
    BY <2>1 DEF CallFlow
  <2> QED
    BY <2>1, <2>2 DEF OutputFlow, Continues, Held, Dropped, AbortStates
<1>16. CASE AbortTerminate
  BY <1>16
  DEF AbortTerminate, Terminated, OutputFlow, Continues, Held, Dropped, AbortStates,
      SessionTypes
<1>17. CASE AbortDiscard
  <2>1. UNCHANGED <<child, written, read, reader, exceeded, stdout, main, result>>
        /\ main \in AbortStates
    BY <1>17 DEF AbortDiscard, sessionVars
  <2> QED
    BY <2>1 DEF OutputFlow, Continues
<1>18. CASE AbortReturn
  <2>1. UNCHANGED <<child, written, read, reader, exceeded, stdout>>
        /\ main \in AbortStates /\ result' = main
    BY <1>18 DEF AbortReturn, outputVars
  <2> QED
    BY <2>1 DEF OutputFlow, Continues
<1>19. CASE UNCHANGED vars
  BY <1>19
  DEF vars, outputVars, sessionVars, OutputFlow, Continues, Held, Dropped, AbortStates,
      SessionTypes
<1> QED
  BY <1>1, <1>2, <1>3, <1>4, <1>5, <1>6, <1>7, <1>8, <1>9, <1>10, <1>11,
     <1>12, <1>13, <1>14, <1>15, <1>16, <1>17, <1>18, <1>19
  DEF Next, ReaderStep, MainStep, Judge

-----------------------------------------------------------------------------
(* The calling thread                                                      *)

LEMMA CallStep ==
  ASSUME SessionTypes, CallFlow, [Next]_vars
  PROVE  CallFlow'
<1>1. ASSUME NEW t \in Tokens, GuestPrints(t) PROVE CallFlow'
  BY <1>1 DEF GuestPrints, sessionVars, CallFlow, AbortStates, SessionTypes
<1>2. ASSUME NEW code \in {"exited", "failed"}, GuestExits(code) PROVE CallFlow'
  BY <1>2 DEF GuestExits, sessionVars, CallFlow, AbortStates, SessionTypes
<1>3. CASE Expire
  BY <1>3 DEF Expire, sessionVars, outputVars, CallFlow, AbortStates, SessionTypes
<1>4. CASE ReaderReads
  BY <1>4 DEF ReaderReads, sessionVars, CallFlow, AbortStates, SessionTypes
<1>5. CASE ReaderSends
  BY <1>5 DEF ReaderSends, sessionVars, CallFlow, AbortStates, SessionTypes
<1>6. CASE ReaderEof
  BY <1>6 DEF ReaderEof, sessionVars, CallFlow, AbortStates, SessionTypes
<1>7. CASE WriterDelivers
  BY <1>7
  DEF WriterDelivers, sessionVars, outputVars, CallFlow, AbortStates, SessionTypes
<1>8. CASE WriterFails
  BY <1>8 DEF WriterFails, sessionVars, outputVars, CallFlow, AbortStates, SessionTypes
<1>9. CASE PumpCancelled
  BY <1>9
  DEF PumpCancelled, Goto, sessionVars, outputVars, CallFlow, AbortStates, SessionTypes
<1>10. CASE Receive
  BY <1>10 DEF Receive, Goto, CallFlow, AbortStates, SessionTypes
<1>11. CASE PumpEmpty
  BY <1>11 DEF PumpEmpty, Goto, outputVars, CallFlow, AbortStates, SessionTypes
<1>12. CASE PumpPoll
  BY <1>12 DEF PumpPoll, Goto, outputVars, CallFlow, AbortStates, SessionTypes
<1>13. CASE Judge
  <2>1. Judged
    BY <1>13, JudgeStep
  <2>2. UNCHANGED <<child, reader, channel, exceeded, status, result>>
        /\ main = "judge" /\ main' \in {"pump", "finish"} \cup AbortStates
        /\ (main' = "finish" => timedOut' \/ (status /\ step' = Len(Scenario) + 1))
    BY <2>1 DEF Judged, JudgeUnchanged, outputVars
  <2>3. main' \notin {"drain", "returned"}
    BY <2>2 DEF AbortStates
  <2>4. result = "none"
    BY <2>2 DEF CallFlow
  <2> QED
    BY <2>2, <2>3, <2>4 DEF CallFlow
<1>14. CASE FinishTerminate
  BY <1>14 DEF FinishTerminate, Goto, Terminated, CallFlow, AbortStates, SessionTypes
<1>15. CASE Finish
  BY <1>15 DEF Finish, Goto, outputVars, CallFlow, AbortStates, SessionTypes
<1>16. CASE AbortTerminate
  BY <1>16 DEF AbortTerminate, Terminated, CallFlow, AbortStates, SessionTypes
<1>17. CASE AbortDiscard
  BY <1>17 DEF AbortDiscard, sessionVars, CallFlow, AbortStates, SessionTypes
<1>18. CASE AbortReturn
  BY <1>18 DEF AbortReturn, Goto, outputVars, CallFlow, AbortStates, SessionTypes
<1>19. CASE UNCHANGED vars
  BY <1>19 DEF vars, outputVars, sessionVars, CallFlow, AbortStates, SessionTypes
<1> QED
  BY <1>1, <1>2, <1>3, <1>4, <1>5, <1>6, <1>7, <1>8, <1>9, <1>10, <1>11,
     <1>12, <1>13, <1>14, <1>15, <1>16, <1>17, <1>18, <1>19
  DEF Next, ReaderStep, MainStep, Judge

-----------------------------------------------------------------------------
(* The expectations                                                        *)

\* What was met stays met when output is appended and the floor rises.
LEMMA MetStays ==
  ASSUME SessionTypes, MetWithin(step, floor), step' = step,
         floor' \in Nat, floor <= floor',
         \A i \in 1 .. floor : stdout'[i] = stdout[i]
  PROVE  MetWithin(step, floor)'
<1>1. PICK at \in [Expectations(step) -> 1 .. floor] :
        /\ \A i \in Expectations(step) : stdout[at[i]] = Scenario[i][2]
        /\ \A i, j \in Expectations(step) : i < j => at[i] < at[j]
  BY DEF MetWithin
<1>2. 1 .. floor \subseteq 1 .. floor'
  BY DEF SessionTypes
<1>3. at \in [Expectations(step') -> 1 .. floor']
  BY <1>2
<1>4. \A i \in Expectations(step') : stdout'[at[i]] = Scenario[i][2]
  BY <1>1
<1> QED
  BY <1>1, <1>3, <1>4 DEF MetWithin

\* A step that expects nothing adds nothing to meet.
LEMMA MetByOther ==
  ASSUME SessionTypes, MetWithin(step, floor), Current[1] \in {"send", "exit"},
         step' = step + 1, floor' = floor, stdout' = stdout
  PROVE  MetWithin(step, floor)'
<1>1. step \in DOMAIN Scenario /\ Scenario[step][1] # "expect"
  BY CurrentStep
<1>2. step \in Nat
  BY DEF SessionTypes
<1>3. Expectations(step + 1) = Expectations(step)
  BY <1>1, <1>2 DEF Expectations
<1> QED
  BY <1>3 DEF MetWithin

\* An expectation that is met is met behind the ones before it.
LEMMA MetByMatch ==
  ASSUME SessionTypes, MetWithin(step, floor), Current[1] = "expect", Matches # {},
         step' = step + 1, floor' = FirstMatch, stdout' = stdout
  PROVE  MetWithin(step, floor)'
<1> DEFINE E == Expectations(step)
           F == Expectations(step + 1)
<1>1. PICK at \in [E -> 1 .. floor] :
        /\ \A i \in E : stdout[at[i]] = Scenario[i][2]
        /\ \A i, j \in E : i < j => at[i] < at[j]
  BY DEF MetWithin
<1>2. step \in Nat /\ step >= 1 /\ floor \in Nat
  BY DEF SessionTypes
<1>3. step \in DOMAIN Scenario /\ Current = Scenario[step] /\ Scenario[step][1] = "expect"
  BY CurrentStep
<1>4. /\ F = E \cup {step}
      /\ \A i \in E : i \in Nat /\ i < step
  BY <1>2, <1>3 DEF Expectations
<1> DEFINE m == FirstMatch
<1>5. m \in (floor + 1) .. Len(stdout) /\ stdout[m] = Scenario[step][2]
  <2>1. m \in Matches
    BY FirstMatchIsOne
  <2> QED
    BY <1>3, <2>1 DEF Matches
<1> HIDE DEF m, E, F
<1>6. m \in Nat /\ m > floor
  BY <1>2, <1>5
<1> DEFINE f == [i \in F |-> IF i = step THEN m ELSE at[i]]
<1>7. \A i \in E : f[i] = at[i] /\ at[i] \in 1 .. floor /\ i \in F
  <2> TAKE i \in E
  <2>1. i # step /\ i \in F
    BY <1>2, <1>4
  <2> QED
    BY <1>1, <2>1
<1>8. f[step] = m /\ step \in F
  BY <1>4
<1>9. f \in [F -> 1 .. m]
  <2>1. \A i \in E : at[i] \in 1 .. m
    BY <1>2, <1>6, <1>7
  <2>2. m \in 1 .. m
    BY <1>2, <1>6
  <2>3. \A i \in F : (IF i = step THEN m ELSE at[i]) \in 1 .. m
    BY <1>4, <2>1, <2>2
  <2> QED
    BY <2>3
<1>10. \A i \in F : stdout[f[i]] = Scenario[i][2]
  <2> HIDE DEF f
  <2> QED
    BY <1>1, <1>4, <1>5, <1>7, <1>8
<1>11. \A i, j \in F : i < j => f[i] < f[j]
  <2> HIDE DEF f
  <2> SUFFICES ASSUME NEW i \in F, NEW j \in F, i < j
               PROVE  f[i] < f[j]
    OBVIOUS
  <2>1. i \in E
    <3>1. CASE j = step
      BY <1>2, <1>4, <3>1
    <3>2. CASE j # step
      <4>1. j \in Nat /\ j < step
        BY <1>4, <3>2
      <4>2. i # step
        BY <1>2, <4>1
      <4> QED
        BY <1>4, <4>2
    <3> QED
      BY <3>1, <3>2
  <2>2. CASE j = step
    <3>1. f[i] \in 1 .. floor /\ f[j] = m
      BY <1>7, <1>8, <2>1, <2>2
    <3> QED
      BY <1>2, <1>6, <3>1
  <2>3. CASE j # step
    <3>1. j \in E
      BY <1>4, <2>3
    <3> QED
      BY <1>1, <1>7, <2>1, <3>1
  <2> QED
    BY <2>2, <2>3
<1> HIDE DEF f
<1>12. floor' = m
  BY DEF m
<1>13. Expectations(step') = F
  BY DEF F
<1> QED
  BY <1>9, <1>10, <1>11, <1>12, <1>13 DEF MetWithin

LEMMA MetStep ==
  ASSUME SessionTypes, MetWithin(step, floor), [Next]_vars
  PROVE  MetWithin(step, floor)'
<1>0. floor \in Nat /\ floor <= Len(stdout) /\ stdout \in Seq(Tokens) /\ Len(stdout) \in Nat
  BY DEF SessionTypes
<1>1. CASE UNCHANGED <<stdout, step, floor>>
  BY <1>0, <1>1, MetStays
<1>2. CASE Receive
  <2>1. step' = step /\ floor' = floor
    BY <1>2 DEF Receive
  <2>2. Head(channel) \in Tokens
    BY <1>2 DEF Receive, SessionTypes
  <2>3. \A i \in 1 .. floor : stdout'[i] = stdout[i]
    <3>1. \A i \in 1 .. Len(stdout) : Append(stdout, Head(channel))[i] = stdout[i]
      BY <1>0, <2>2
    <3> QED
      BY <1>0, <1>2, <3>1 DEF Receive
  <2> QED
    BY <1>0, <2>1, <2>3, MetStays
<1>3. CASE BeginStep
  <2>1. stdout' = stdout /\ step' = step /\ floor' \in {floor, Len(stdout)}
    BY <1>3, Zenon DEF BeginStep, JudgeUnchanged
  <2> QED
    BY <1>0, <2>1, MetStays
<1> USE DEF Complete, KeepWaiting, TimeOut, Abort, Goto, Judging, JudgeUnchanged
<1>4. CASE JudgeSend
  <2>1. stdout' = stdout /\ floor' = floor /\ Current[1] = "send"
        /\ (step' = step \/ step' = step + 1)
    BY <1>4, Zenon DEF JudgeSend
  <2> QED
    BY <1>1, <2>1, MetByOther
<1>5. CASE JudgeExpect
  <2>1. stdout' = stdout /\ Current[1] = "expect"
        /\ \/ step' = step /\ floor' = floor
           \/ Matches # {} /\ step' = step + 1 /\ floor' = FirstMatch
    BY <1>5, Zenon DEF JudgeExpect
  <2> QED
    BY <1>1, <2>1, MetByMatch
<1>6. CASE JudgeExit
  <2>1. stdout' = stdout /\ floor' = floor /\ Current[1] = "exit"
        /\ (step' = step \/ step' = step + 1)
    BY <1>6, Zenon DEF JudgeExit
  <2> QED
    BY <1>1, <2>1, MetByOther
<1>7. CASE JudgeFinalExit
  <2>1. UNCHANGED <<stdout, step, floor>>
    BY <1>7, Zenon DEF JudgeFinalExit
  <2> QED
    BY <1>1, <2>1
<1>8. ASSUME NEW t \in Tokens, GuestPrints(t) PROVE UNCHANGED <<stdout, step, floor>>
  BY <1>8 DEF GuestPrints, sessionVars
<1>9. ASSUME NEW code \in {"exited", "failed"}, GuestExits(code) PROVE UNCHANGED <<stdout, step, floor>>
  BY <1>9 DEF GuestExits, sessionVars
<1>10. ASSUME Expire PROVE UNCHANGED <<stdout, step, floor>>
  BY <1>10 DEF Expire, sessionVars
<1>11. ASSUME ReaderReads PROVE UNCHANGED <<stdout, step, floor>>
  BY <1>11 DEF ReaderReads, sessionVars
<1>12. ASSUME ReaderSends PROVE UNCHANGED <<stdout, step, floor>>
  BY <1>12 DEF ReaderSends, sessionVars
<1>13. ASSUME ReaderEof PROVE UNCHANGED <<stdout, step, floor>>
  BY <1>13 DEF ReaderEof, sessionVars
<1>14. ASSUME WriterDelivers PROVE UNCHANGED <<stdout, step, floor>>
  BY <1>14 DEF WriterDelivers, sessionVars
<1>15. ASSUME WriterFails PROVE UNCHANGED <<stdout, step, floor>>
  BY <1>15 DEF WriterFails, sessionVars
<1>16. ASSUME PumpCancelled PROVE UNCHANGED <<stdout, step, floor>>
  BY <1>16 DEF PumpCancelled, sessionVars
<1>17. ASSUME PumpEmpty PROVE UNCHANGED <<stdout, step, floor>>
  BY <1>17 DEF PumpEmpty
<1>18. ASSUME PumpPoll PROVE UNCHANGED <<stdout, step, floor>>
  BY <1>18 DEF PumpPoll
<1>19. ASSUME FinishTerminate PROVE UNCHANGED <<stdout, step, floor>>
  BY <1>19 DEF FinishTerminate
<1>20. ASSUME Finish PROVE UNCHANGED <<stdout, step, floor>>
  BY <1>20 DEF Finish
<1>21. ASSUME AbortTerminate PROVE UNCHANGED <<stdout, step, floor>>
  BY <1>21 DEF AbortTerminate
<1>22. ASSUME AbortDiscard PROVE UNCHANGED <<stdout, step, floor>>
  BY <1>22 DEF AbortDiscard, sessionVars
<1>23. ASSUME AbortReturn PROVE UNCHANGED <<stdout, step, floor>>
  BY <1>23 DEF AbortReturn
<1>24. ASSUME UNCHANGED vars PROVE UNCHANGED <<stdout, step, floor>>
  BY <1>24 DEF vars, sessionVars
<1> QED
  BY <1>1, <1>2, <1>3, <1>4, <1>5, <1>6, <1>7, <1>8, <1>9, <1>10, <1>11,
     <1>12, <1>13, <1>14, <1>15, <1>16, <1>17, <1>18, <1>19, <1>20, <1>21,
     <1>22, <1>23, <1>24
  DEF Next, ReaderStep, MainStep

-----------------------------------------------------------------------------
(* The theorems                                                            *)

\* The inductive invariant: every token read is accounted for in order, the
\* thread's position says what has ended, the expectations passed are met.
THEOREM SessionInvariant == Spec => []SessionFlow
<1>1. Init => SessionFlow
  <2> SUFFICES ASSUME Init PROVE SessionFlow
    OBVIOUS
  <2>1. SessionTypes
    <3>1. 1 \in 1 .. (Len(Scenario) + 1)
      BY ScenarioSteps
    <3>2. <<>> \in Seq(Tokens) /\ Len(<<>>) = 0 /\ 0 \in Nat /\ 0 <= 0 /\ 0 <= Capacity
      BY Limits
    <3> QED
      BY <3>1, <3>2, Zenon DEF Init, SessionTypes, MainStates
  <2>2. OutputFlow
    BY DEF Init, OutputFlow, Continues, Held, Dropped
  <2>3. CallFlow
    BY DEF Init, CallFlow
  <2>4. MetWithin(step, floor)
    <3>1. Expectations(1) = {}
      BY DEF Expectations
    <3> DEFINE f == [i \in Expectations(1) |-> 1]
    <3>2. f \in [Expectations(1) -> 1 .. 0]
      BY <3>1
    <3> HIDE DEF f
    <3> QED
      BY <3>1, <3>2 DEF Init, MetWithin
  <2> QED
    BY <2>1, <2>2, <2>3, <2>4 DEF SessionFlow
<1>2. SessionFlow /\ [Next]_vars => SessionFlow'
  BY TypesStep, OutputStep, CallStep, MetStep DEF SessionFlow
<1> QED
  BY <1>1, <1>2, PTL DEF Spec

\* drive_scenario: the session holds a prefix of what the guest printed, output
\* that it returns is complete, and neither child nor thread outlives it.
THEOREM SessionAlwaysSound == Spec => []SessionInv
<1>1. SessionFlow => SessionInv
  <2> SUFFICES ASSUME SessionFlow PROVE SessionInv
    OBVIOUS
  <2>1. SessionTypes /\ OutputFlow /\ CallFlow
    BY DEF SessionFlow
  <2>2. ASSUME NEW t \in Seq(Tokens), Len(stdout) <= Len(t),
               \A i \in 1 .. Len(stdout) : stdout[i] = t[i]
        PROVE  stdout = SubSeq(t, 1, Len(stdout))
    BY <2>1, <2>2 DEF SessionTypes
  <2>3. \A i \in 1 .. Len(stdout) : stdout[i] = written[i]
    BY <2>1 DEF SessionTypes, OutputFlow, Continues
  <2>4. IsPrefixOf(stdout, written)
    BY <2>1, <2>2, <2>3 DEF SessionTypes, OutputFlow, IsPrefixOf
  <2>5. SessionTypeOK
    <3>1. {begun, exceeded, stdoutClosed, status, timedOut, expired} \subseteq BOOLEAN
      BY <2>1, Zenon DEF SessionTypes
    <3>2. read \in 0 .. Len(written) /\ floor \in 0 .. Len(stdout)
      BY <2>1 DEF SessionTypes, OutputFlow
    <3> QED
      BY <2>1, <2>4, <3>1, <3>2, Zenon DEF SessionTypeOK, SessionTypes
  <2>6. SessionOutputComplete
    <3> SUFFICES ASSUME result = "output" PROVE stdout = written
      BY DEF SessionOutputComplete
    <3>1. main = "returned" /\ reader = "done" /\ ~exceeded /\ channel = <<>>
      BY <2>1 DEF CallFlow
    <3>2. read = Len(written) /\ Len(stdout) + Len(channel) + Held + Dropped = read
      BY <2>1, <3>1 DEF OutputFlow, AbortStates
    <3>3. Held = 0 /\ Dropped = 0 /\ Len(channel) = 0
      BY <3>1 DEF Held, Dropped
    <3>4. Len(stdout) = Len(written)
      BY <2>1, <3>2, <3>3 DEF SessionTypes
    <3> QED
      BY <2>1, <2>3, <3>4 DEF SessionTypes
  <2>7. SessionLeavesNothing
    BY <2>1 DEF CallFlow, SessionLeavesNothing
  <2> QED
    BY <2>5, <2>6, <2>7 DEF SessionInv
<1> QED
  BY <1>1, SessionInvariant, PTL

\* drive_scenario: a session that ends without a timeout or an error has met all
\* its expectations, each on output behind the one before.
THEOREM ExpectationsAlwaysMet == Spec => []ExpectationsMet
<1>1. SessionFlow => ExpectationsMet
  <2> SUFFICES ASSUME SessionFlow, result = "output", ~timedOut
               PROVE  MetWithin(Len(Scenario) + 1, Len(stdout))
    BY DEF ExpectationsMet
  <2>1. step = Len(Scenario) + 1
    BY DEF SessionFlow, CallFlow
  <2>2. floor \in Nat /\ floor <= Len(stdout) /\ Len(stdout) \in Nat
    BY DEF SessionFlow, SessionTypes
  <2> DEFINE E == Expectations(step)
  <2>3. PICK at \in [E -> 1 .. floor] :
          /\ \A i \in E : stdout[at[i]] = Scenario[i][2]
          /\ \A i, j \in E : i < j => at[i] < at[j]
    BY DEF SessionFlow, MetWithin
  <2>4. 1 .. floor \subseteq 1 .. Len(stdout)
    BY <2>2
  <2> HIDE DEF E
  <2>5. at \in [E -> 1 .. Len(stdout)]
    BY <2>4
  <2>6. E = Expectations(Len(Scenario) + 1)
    BY <2>1 DEF E
  <2> QED
    BY <2>3, <2>5, <2>6, Zenon DEF MetWithin
<1> QED
  BY <1>1, SessionInvariant, PTL


-----------------------------------------------------------------------------
(***************************************************************************)
(* The request-shutdown step: request_qmp_shutdown beside QEMU's monitor,  *)
(* for every message limit, buffer, read size and number of events.        *)
(***************************************************************************)
\* Everything that QEMU has sent and the host has not examined.
Unread == buffer \o wire

QmpTypes ==
    /\ qemu \in {"starting", "listening", "serving", "closed", "gone"}
    /\ capable \in BOOLEAN /\ quitting \in BOOLEAN /\ qmpStatus \in BOOLEAN
    /\ requests \in Seq({"capabilities", "quit"})
    /\ wire \in Seq(Kinds \X {1, 2}) /\ buffer \in Seq(Kinds \X {1, 2})
    /\ events \in Nat /\ count \in 0 .. (Messages - 1)
    /\ Len(buffer) <= Buffered
    /\ phase \in Phases

\* The fragments of a stream alternate.
Alternates(s) ==
    \A i \in 1 .. Len(s) : s[i][2] = IF i % 2 = 1 THEN 1 ELSE 2

\* Nothing but events lies unread.
Quiet(s, unasked) ==
    /\ \A i \in 1 .. Len(s) : s[i][1] = Event
    /\ Len(s) <= 2 * unasked

\* One message that is no event lies unread, the last fragment possibly lost.
Answered(s, kind, unasked) ==
    /\ \E p \in 1 .. Len(s) :
         /\ s[p] = <<kind, 1>>
         /\ \A i \in 1 .. Len(s) : i # p /\ i # p + 1 => s[i][1] = Event
    /\ Len(s) <= 2 * unasked + 2

\* A command of the host is on its way, or answered in one of two ways.
Asked(command, taken) ==
    \/ requests = <<command>> /\ ~taken /\ Quiet(Unread, events - count)
    \/ /\ requests = <<>>
       /\ \/ Quiet(Unread, events - count)
          \/ taken /\ Answered(Unread, command, events - count)
          \/ ~taken /\ Answered(Unread, "rejected", events - count)

StreamFlow ==
    /\ Alternates(Unread)
    /\ qemu \notin {"closed", "gone"} => Len(Unread) % 2 = 0

\* What each position of request_qmp_shutdown says of QEMU and of what lies
\* unread.
PhaseFlow ==
    /\ phase = "connect" =>
         /\ qemu # "serving" /\ requests = <<>> /\ ~capable /\ ~quitting
         /\ buffer = <<>> /\ wire = <<>> /\ events = 0
    /\ phase \notin {"connect", "done"} => qemu \in {"serving", "closed", "gone"}
    /\ phase = "greeting" =>
         /\ requests = <<>> /\ ~capable /\ ~quitting
         /\ \/ Answered(Unread, "greeting", events) /\ Unread[1][1] = "greeting"
            \/ Unread = <<>> /\ qemu # "serving"
    /\ phase = "sendCapabilities" =>
         requests = <<>> /\ ~capable /\ ~quitting /\ Quiet(Unread, events)
    /\ phase = "capabilities" => Asked("capabilities", capable) /\ ~quitting
    /\ phase = "sendQuit" => requests = <<>> /\ ~quitting /\ Quiet(Unread, events)
    /\ phase = "quit" => Asked("quit", quitting)
    /\ phase = "awaitExit" => qemu \in {"closed", "gone"}
    /\ phase \in {"connect", "greeting", "sendCapabilities", "sendQuit"} => count = 0

ResultFlow ==
    /\ qmpStatus => qemu = "gone"
    /\ phase = "done" <=> qmpResult # "none"
    /\ CompleteIsShutdown
    /\ FailureHasCause
    /\ qmpResult = "refused" => requests = <<>>

QmpFlow == QmpTypes /\ StreamFlow /\ PhaseFlow /\ ResultFlow

Frag == Kinds \X {1, 2}

\* Appending a message.
LEMMA AppendedMessage ==
    ASSUME NEW s \in Seq(Frag), NEW k \in Kinds
    PROVE  /\ s \o Fragments(k) \in Seq(Frag)
           /\ Len(s \o Fragments(k)) = Len(s) + 2
           /\ \A i \in 1 .. Len(s) : (s \o Fragments(k))[i] = s[i]
           /\ (s \o Fragments(k))[Len(s) + 1] = <<k, 1>>
           /\ (s \o Fragments(k))[Len(s) + 2] = <<k, 2>>
<1> DEFINE F == Fragments(k)
<1>1. F \in Seq(Frag) /\ Len(F) = 2
  BY DEF Fragments, Frag
<1>2. F[1] = <<k, 1>> /\ F[2] = <<k, 2>>
  BY DEF Fragments
<1> HIDE DEF F
<1>3. s \o F \in Seq(Frag) /\ Len(s \o F) = Len(s) + Len(F)
  BY <1>1, ConcatProperties, Zenon
<1>8. Len(s \o F) = Len(s) + 2
  BY <1>1, <1>3
<1>6. \A i \in 1 .. Len(s) + Len(F) : (s \o F)[i] = IF i <= Len(s) THEN s[i] ELSE F[i - Len(s)]
  BY <1>1, ConcatProperties, Zenon
<1>7. Len(s) \in Nat
  OBVIOUS
<1>4. \A i \in 1 .. Len(s) : (s \o F)[i] = s[i]
  BY <1>1, <1>6, <1>7
<1>5. (s \o F)[Len(s) + 1] = F[1] /\ (s \o F)[Len(s) + 2] = F[2]
  <2>1. Len(s) + 1 - Len(s) = 1 /\ Len(s) + 2 - Len(s) = 2
    BY <1>7
  <2>2. Len(s) + 1 \in 1 .. Len(s) + Len(F) /\ Len(s) + 2 \in 1 .. Len(s) + Len(F)
    BY <1>1, <1>7
  <2>3. ~(Len(s) + 1 <= Len(s)) /\ ~(Len(s) + 2 <= Len(s))
    BY <1>7
  <2> QED
    BY <1>6, <2>1, <2>2, <2>3
<1> QED
  BY <1>2, <1>3, <1>8, <1>4, <1>5 DEF F

\* Taking a message off the front.
LEMMA TakenMessage ==
    ASSUME NEW s \in Seq(Frag), Len(s) >= 2
    PROVE  /\ SubSeq(s, 3, Len(s)) \in Seq(Frag)
           /\ Len(SubSeq(s, 3, Len(s))) = Len(s) - 2
           /\ \A i \in 1 .. (Len(s) - 2) : SubSeq(s, 3, Len(s))[i] = s[i + 2]
<1> DEFINE n == Len(s)
<1>1. n \in Nat /\ n >= 2 /\ \A i \in 1 .. n : s[i] \in Frag
  OBVIOUS
<1> HIDE DEF n
<1>2. \A i \in 3 .. n : s[i] \in Frag
  BY <1>1
<1>3. n \in Int
  BY <1>1
<1>4. /\ SubSeq(s, 3, n) \in Seq(Frag)
      /\ Len(SubSeq(s, 3, n)) = (IF 3 <= n THEN n - 3 + 1 ELSE 0)
      /\ \A i \in 1 .. n - 3 + 1 : SubSeq(s, 3, n)[i] = s[3 + i - 1]
  BY <1>2, <1>3, SubSeqProperties
<1>5. n - 3 + 1 = n - 2
  BY <1>1
<1>6. n < 3 => n - 2 = 0
  BY <1>1
<1>7. \A i \in 1 .. (n - 2) : 3 + i - 1 = i + 2
  BY <1>1
<1>8. Len(SubSeq(s, 3, n)) = n - 2
  BY <1>1, <1>4, <1>5, <1>6
<1>9. \A i \in 1 .. (n - 2) : SubSeq(s, 3, n)[i] = s[i + 2]
  BY <1>4, <1>5, <1>7
<1> QED
  BY <1>4, <1>8, <1>9 DEF n

\* Cutting the end off.
LEMMA CutMessage ==
    ASSUME NEW s \in Seq(Frag), NEW n \in 0 .. 2, n <= Len(s)
    PROVE  /\ SubSeq(s, 1, Len(s) - n) \in Seq(Frag)
           /\ Len(SubSeq(s, 1, Len(s) - n)) = Len(s) - n
           /\ \A i \in 1 .. (Len(s) - n) : SubSeq(s, 1, Len(s) - n)[i] = s[i]
  OBVIOUS

\* A message keeps the fragments in step.
LEMMA AppendKeeps ==
    ASSUME NEW s \in Seq(Frag), NEW k \in Kinds, NEW n \in Int,
           Alternates(s), Len(s) % 2 = 0
    PROVE  /\ Alternates(s \o Fragments(k))
           /\ Len(s \o Fragments(k)) % 2 = 0
           /\ k = Event /\ Quiet(s, n) => Quiet(s \o Fragments(k), n + 1)
           /\ Quiet(s, n) => Answered(s \o Fragments(k), k, n)
           /\ \A j \in Kinds : k = Event /\ Answered(s, j, n) =>
                                  Answered(s \o Fragments(k), j, n + 1)
<1> DEFINE t == s \o Fragments(k)
<1>1. /\ t \in Seq(Frag) /\ Len(t) = Len(s) + 2
      /\ \A i \in 1 .. Len(s) : t[i] = s[i]
      /\ t[Len(s) + 1] = <<k, 1>> /\ t[Len(s) + 2] = <<k, 2>>
  BY AppendedMessage
<1>2. Len(s) \in Nat
  OBVIOUS
<1> HIDE DEF t
<1>3. Alternates(t)
  <2> SUFFICES ASSUME NEW i \in 1 .. Len(t)
               PROVE  t[i][2] = IF i % 2 = 1 THEN 1 ELSE 2
    BY DEF Alternates
  <2>1. CASE i <= Len(s)
    BY <1>1, <1>2, <2>1 DEF Alternates
  <2>2. CASE i = Len(s) + 1
    BY <1>1, <1>2, <2>2
  <2>3. CASE i = Len(s) + 2
    BY <1>1, <1>2, <2>3
  <2> QED
    BY <1>1, <1>2, <2>1, <2>2, <2>3
<1>4. Len(t) % 2 = 0
  BY <1>1, <1>2
<1>a. ASSUME NEW i \in 1 .. Len(t)
      PROVE  i \in 1 .. Len(s) \/ i = Len(s) + 1 \/ i = Len(s) + 2
  <2>1. i \in 1 .. (Len(s) + 2)
    BY <1>1
  <2> QED
    BY <1>2, <2>1
<1>5. ASSUME k = Event, Quiet(s, n) PROVE Quiet(t, n + 1)
  BY <1>1, <1>2, <1>5, <1>a DEF Quiet
<1>6. ASSUME Quiet(s, n) PROVE Answered(t, k, n)
  <2>1. Len(s) + 1 \in 1 .. Len(t)
    BY <1>1, <1>2
  <2>2. \A i \in 1 .. Len(t) : i # Len(s) + 1 /\ i # Len(s) + 1 + 1 => t[i][1] = Event
    BY <1>1, <1>2, <1>6, <1>a DEF Quiet
  <2>3. Len(t) <= 2 * n + 2
    BY <1>1, <1>2, <1>6 DEF Quiet
  <2> QED
    BY <1>1, <2>1, <2>2, <2>3 DEF Answered
<1>7. ASSUME NEW j \in Kinds, k = Event, Answered(s, j, n) PROVE Answered(t, j, n + 1)
  <2>1. PICK p \in 1 .. Len(s) :
          /\ s[p] = <<j, 1>>
          /\ \A i \in 1 .. Len(s) : i # p /\ i # p + 1 => s[i][1] = Event
    BY <1>7 DEF Answered
  <2>2. p \in 1 .. Len(t) /\ t[p] = <<j, 1>>
    BY <1>1, <1>2, <2>1
  <2>3. \A i \in 1 .. Len(t) : i # p /\ i # p + 1 => t[i][1] = Event
    BY <1>1, <1>2, <1>7, <1>a, <2>1
  <2>4. Len(t) <= 2 * (n + 1) + 2
    BY <1>1, <1>2, <1>7 DEF Answered
  <2> QED
    BY <2>2, <2>3, <2>4 DEF Answered
<1> QED
  BY <1>3, <1>4, <1>5, <1>6, <1>7 DEF t

\* The end of the connection may take the last message or half of it.
LEMMA CutKeeps ==
    ASSUME NEW s \in Seq(Frag), NEW lost \in 0 .. 2, lost <= Len(s), NEW n \in Int,
           Alternates(s), Len(s) % 2 = 0
    PROVE  /\ Alternates(SubSeq(s, 1, Len(s) - lost))
           /\ Quiet(s, n) => Quiet(SubSeq(s, 1, Len(s) - lost), n)
           /\ \A k \in Kinds : Answered(s, k, n) =>
                \/ Answered(SubSeq(s, 1, Len(s) - lost), k, n)
                \/ Quiet(SubSeq(s, 1, Len(s) - lost), n)
<1> DEFINE t == SubSeq(s, 1, Len(s) - lost)
<1>1. /\ t \in Seq(Frag) /\ Len(t) = Len(s) - lost
      /\ \A i \in 1 .. (Len(s) - lost) : t[i] = s[i]
  BY CutMessage
<1>2. Len(s) \in Nat
  OBVIOUS
<1> HIDE DEF t
<1>a. \A i \in 1 .. Len(t) : i \in 1 .. Len(s) /\ t[i] = s[i]
  BY <1>1, <1>2
<1>3. Alternates(t)
  BY <1>a DEF Alternates
<1>4. ASSUME Quiet(s, n) PROVE Quiet(t, n)
  BY <1>1, <1>2, <1>4, <1>a DEF Quiet
<1>5. ASSUME NEW k \in Kinds, Answered(s, k, n)
      PROVE  Answered(t, k, n) \/ Quiet(t, n)
  <2>1. PICK p \in 1 .. Len(s) :
          /\ s[p] = <<k, 1>>
          /\ \A i \in 1 .. Len(s) : i # p /\ i # p + 1 => s[i][1] = Event
    BY <1>5 DEF Answered
  <2>2. Len(s) <= 2 * n + 2
    BY <1>5 DEF Answered
  <2>3. p % 2 = 1
    BY <2>1 DEF Alternates
  <2>4. CASE p <= Len(t)
    <3>1. p \in 1 .. Len(t) /\ t[p] = <<k, 1>>
      BY <1>1, <1>2, <1>a, <2>1, <2>4
    <3>2. \A i \in 1 .. Len(t) : i # p /\ i # p + 1 => t[i][1] = Event
      BY <1>a, <2>1
    <3>3. Len(t) <= 2 * n + 2
      BY <1>1, <1>2, <2>2
    <3> QED
      BY <3>1, <3>2, <3>3 DEF Answered
  <2>5. CASE p > Len(t)
    <3>1. p = Len(s) - 1 /\ Len(t) = Len(s) - 2
      BY <1>1, <1>2, <2>3, <2>5
    <3>2. \A i \in 1 .. Len(t) : t[i][1] = Event
      BY <1>a, <1>2, <2>1, <3>1
    <3>3. Len(t) <= 2 * n
      BY <1>2, <2>2, <3>1
    <3> QED
      BY <3>2, <3>3 DEF Quiet
  <2> QED
    BY <1>1, <1>2, <2>4, <2>5
<1> QED
  BY <1>3, <1>4, <1>5 DEF t

\* What a line taken off the front leaves behind.
LEMMA TakeKeeps ==
    ASSUME NEW s \in Seq(Frag), Len(s) >= 2, NEW n \in Int, Alternates(s)
    PROVE  /\ Alternates(SubSeq(s, 3, Len(s)))
           /\ Len(s) % 2 = 0 => Len(SubSeq(s, 3, Len(s))) % 2 = 0
           /\ Quiet(s, n) => /\ s[1][1] = Event /\ n >= 1
                             /\ Quiet(SubSeq(s, 3, Len(s)), n - 1)
           /\ \A k \in Kinds : Answered(s, k, n) /\ s[1][1] = Event /\ k # Event =>
                n >= 1 /\ Answered(SubSeq(s, 3, Len(s)), k, n - 1)
           /\ \A k \in Kinds : Answered(s, k, n) /\ s[1][1] # Event =>
                s[1][1] = k /\ Quiet(SubSeq(s, 3, Len(s)), n)
<1> DEFINE t == SubSeq(s, 3, Len(s))
<1>1. /\ t \in Seq(Frag) /\ Len(t) = Len(s) - 2
      /\ \A i \in 1 .. (Len(s) - 2) : t[i] = s[i + 2]
  BY TakenMessage
<1>2. Len(s) \in Nat
  OBVIOUS
<1> HIDE DEF t
<1>a. \A i \in 1 .. Len(t) : i + 2 \in 1 .. Len(s) /\ t[i] = s[i + 2]
  BY <1>1, <1>2
<1>3. Alternates(t)
  BY <1>a DEF Alternates
<1>4. ASSUME Len(s) % 2 = 0 PROVE Len(t) % 2 = 0
  BY <1>1, <1>2, <1>4
<1>5. ASSUME Quiet(s, n) PROVE s[1][1] = Event /\ n >= 1 /\ Quiet(t, n - 1)
  BY <1>1, <1>2, <1>5, <1>a DEF Quiet
<1>6. ASSUME NEW k \in Kinds, Answered(s, k, n), s[1][1] = Event, k # Event
      PROVE  n >= 1 /\ Answered(t, k, n - 1)
  <2>1. PICK p \in 1 .. Len(s) :
          /\ s[p] = <<k, 1>>
          /\ \A i \in 1 .. Len(s) : i # p /\ i # p + 1 => s[i][1] = Event
    BY <1>6 DEF Answered
  <2>2. Len(s) <= 2 * n + 2
    BY <1>6 DEF Answered
  <2>3. p % 2 = 1 /\ p # 1
    BY <1>6, <2>1 DEF Alternates
  <2>4. p >= 3
    BY <2>3
  <2>5. n >= 1
    BY <1>2, <2>2, <2>4
  <2>6. p - 2 \in 1 .. Len(t) /\ t[p - 2] = <<k, 1>>
    <3>1. p - 2 \in 1 .. Len(t) /\ p - 2 + 2 = p
      BY <1>1, <1>2, <2>4
    <3> QED
      BY <1>a, <2>1, <3>1
  <2>7. \A i \in 1 .. Len(t) : i # p - 2 /\ i # p - 2 + 1 => t[i][1] = Event
    BY <1>a, <2>1
  <2>8. Len(t) <= 2 * (n - 1) + 2
    BY <1>1, <1>2, <2>2
  <2> QED
    BY <2>5, <2>6, <2>7, <2>8 DEF Answered
<1>7. ASSUME NEW k \in Kinds, Answered(s, k, n), s[1][1] # Event
      PROVE  s[1][1] = k /\ Quiet(t, n)
  <2>1. PICK p \in 1 .. Len(s) :
          /\ s[p] = <<k, 1>>
          /\ \A i \in 1 .. Len(s) : i # p /\ i # p + 1 => s[i][1] = Event
    BY <1>7 DEF Answered
  <2>2. p = 1
    BY <1>2, <1>7, <2>1
  <2>3. \A i \in 1 .. Len(t) : t[i][1] = Event
    BY <1>a, <2>1, <2>2
  <2> QED
    BY <1>1, <1>2, <1>7, <2>1, <2>2, <2>3 DEF Answered, Quiet
<1> QED
  BY <1>3, <1>4, <1>5, <1>6, <1>7 DEF t

\* The ways in which the stream is moved from the wire to the buffer and
\* shortened at either end.
LEMMA StreamMoves ==
    ASSUME NEW a \in Seq(Frag), NEW b \in Seq(Frag)
    PROVE  /\ \A n \in 0 .. 2 : n <= Len(b) =>
                a \o SubSeq(b, 1, Len(b) - n) = SubSeq(a \o b, 1, Len(a \o b) - n)
           /\ \A n \in 1 .. Len(b) :
                /\ a \o SubSeq(b, 1, n) \in Seq(Frag)
                /\ Len(a \o SubSeq(b, 1, n)) = Len(a) + n
                /\ SubSeq(b, n + 1, Len(b)) \in Seq(Frag)
                /\ (a \o SubSeq(b, 1, n)) \o SubSeq(b, n + 1, Len(b)) = a \o b
           /\ Len(a) >= 2 =>
                /\ SubSeq(a, 3, Len(a)) \o b = SubSeq(a \o b, 3, Len(a \o b))
                /\ (a \o b)[1] = a[1]
<1> DEFINE u == a \o b
<1>1. /\ u \in Seq(Frag) /\ Len(u) = Len(a) + Len(b)
      /\ \A i \in 1 .. Len(a) + Len(b) : u[i] = IF i <= Len(a) THEN a[i] ELSE b[i - Len(a)]
  BY ConcatProperties, Zenon
<1>2. Len(a) \in Nat /\ Len(b) \in Nat
  OBVIOUS
<1> HIDE DEF u
<1>3. ASSUME NEW n \in 0 .. 2, n <= Len(b)
      PROVE  a \o SubSeq(b, 1, Len(b) - n) = SubSeq(u, 1, Len(u) - n)
  <2> DEFINE c == SubSeq(b, 1, Len(b) - n)
             v == SubSeq(u, 1, Len(u) - n)
             w == a \o c
  <2>1. /\ c \in Seq(Frag) /\ Len(c) = Len(b) - n
        /\ \A i \in 1 .. (Len(b) - n) : c[i] = b[i]
    BY <1>3, CutMessage
  <2>2. n <= Len(u)
    BY <1>1, <1>2, <1>3
  <2>3. /\ v \in Seq(Frag) /\ Len(v) = Len(u) - n
        /\ \A i \in 1 .. (Len(u) - n) : v[i] = u[i]
    BY <1>1, <2>2, CutMessage
  <2> HIDE DEF c, v
  <2>4. /\ w \in Seq(Frag) /\ Len(w) = Len(a) + Len(c)
        /\ \A i \in 1 .. Len(a) + Len(c) : w[i] = IF i <= Len(a) THEN a[i] ELSE c[i - Len(a)]
    BY <2>1, ConcatProperties, Zenon
  <2> HIDE DEF w
  <2>5. Len(w) = Len(v)
    BY <1>1, <1>2, <2>1, <2>3, <2>4
  <2>6. ASSUME NEW i \in 1 .. Len(w) PROVE w[i] = v[i]
    <3>0. i \in 1 .. Len(a) + Len(c) /\ i \in 1 .. (Len(u) - n)
      BY <2>3, <2>4, <2>5
    <3>1. v[i] = u[i] /\ i \in 1 .. Len(a) + Len(b) /\ i \in 1 .. Len(a) + Len(c)
      BY <1>1, <1>2, <2>3, <3>0
    <3>2. CASE i <= Len(a)
      BY <1>1, <2>4, <3>1, <3>2
    <3>3. CASE ~(i <= Len(a))
      <4>1. i - Len(a) \in 1 .. (Len(b) - n)
        BY <1>2, <2>1, <3>1, <3>3
      <4> QED
        BY <1>1, <2>1, <2>4, <3>1, <3>3, <4>1
    <3> QED
      BY <3>2, <3>3
  <2>7. w = v
    BY <2>3, <2>4, <2>5, <2>6, SeqEqual
  <2> QED
    BY <2>7 DEF w, c, v
<1>4. ASSUME NEW n \in 1 .. Len(b)
      PROVE  /\ a \o SubSeq(b, 1, n) \in Seq(Frag)
             /\ Len(a \o SubSeq(b, 1, n)) = Len(a) + n
             /\ SubSeq(b, n + 1, Len(b)) \in Seq(Frag)
             /\ (a \o SubSeq(b, 1, n)) \o SubSeq(b, n + 1, Len(b)) = u
  <2> DEFINE c == SubSeq(b, 1, n)
             d == SubSeq(b, n + 1, Len(b))
  <2>1. 1 \in 1 .. Len(b) + 1 /\ n \in 1 - 1 .. Len(b) /\ Len(b) \in n .. Len(b)
    BY <1>2
  <2>2. c \o d = SubSeq(b, 1, Len(b))
    BY <2>1, ConcatAdjacentSubSeq, Zenon
  <2>3. c \o d = b
    BY <2>2, SubSeqFull
  <2>4. \A i \in 1 .. n : b[i] \in Frag
    BY <1>2
  <2>5. \A i \in n + 1 .. Len(b) : b[i] \in Frag
    BY <1>2
  <2>6. 1 \in Int /\ n \in Int /\ n + 1 \in Int /\ Len(b) \in Int /\ 1 <= n /\ n - 1 + 1 = n
    BY <1>2
  <2>7. c \in Seq(Frag) /\ Len(c) = (IF 1 <= n THEN n - 1 + 1 ELSE 0)
    BY <2>4, <2>6, SubSeqProperties, Zenon
  <2>8. d \in Seq(Frag)
    BY <2>5, <2>6, SubSeqProperties, Zenon
  <2> HIDE DEF c, d
  <2>9. Len(c) = n
    BY <2>6, <2>7
  <2>10. a \o c \in Seq(Frag) /\ Len(a \o c) = Len(a) + Len(c)
    BY <2>7, ConcatProperties, Zenon
  <2>11. (a \o c) \o d = a \o (c \o d)
    <3>1. c \in Seq(Frag) /\ d \in Seq(Frag)
      BY <2>7, <2>8
    <3> QED
      BY <3>1, ConcatAssociative
  <2>12. (a \o c) \o d = u
    BY <2>3, <2>11 DEF u
  <2> QED
    BY <2>8, <2>9, <2>10, <2>12 DEF c, d
<1>5. ASSUME Len(a) >= 2
      PROVE  SubSeq(a, 3, Len(a)) \o b = SubSeq(u, 3, Len(u)) /\ u[1] = a[1]
  <2> DEFINE c == SubSeq(a, 3, Len(a))
             v == SubSeq(u, 3, Len(u))
             w == c \o b
  <2>1. /\ c \in Seq(Frag) /\ Len(c) = Len(a) - 2
        /\ \A i \in 1 .. (Len(a) - 2) : c[i] = a[i + 2]
    BY <1>5, TakenMessage
  <2>2. Len(u) >= 2
    BY <1>1, <1>2, <1>5
  <2>3. /\ v \in Seq(Frag) /\ Len(v) = Len(u) - 2
        /\ \A i \in 1 .. (Len(u) - 2) : v[i] = u[i + 2]
    BY <1>1, <2>2, TakenMessage
  <2> HIDE DEF c, v
  <2>4. /\ w \in Seq(Frag) /\ Len(w) = Len(c) + Len(b)
        /\ \A i \in 1 .. Len(c) + Len(b) : w[i] = IF i <= Len(c) THEN c[i] ELSE b[i - Len(c)]
    BY <2>1, ConcatProperties, Zenon
  <2> HIDE DEF w
  <2>5. Len(w) = Len(v)
    BY <1>1, <1>2, <2>1, <2>3, <2>4
  <2>6. ASSUME NEW i \in 1 .. Len(w) PROVE w[i] = v[i]
    <3>1. /\ i \in 1 .. Len(c) + Len(b) /\ i \in 1 .. (Len(u) - 2)
          /\ i + 2 \in 1 .. Len(a) + Len(b)
      BY <1>1, <1>2, <2>1, <2>4
    <3>2. CASE i <= Len(c)
      <4>1. i \in 1 .. (Len(a) - 2) /\ i + 2 <= Len(a)
        BY <1>2, <2>1, <3>1, <3>2
      <4>2. w[i] = c[i] /\ c[i] = a[i + 2]
        BY <2>1, <2>4, <3>1, <3>2, <4>1
      <4>3. v[i] = u[i + 2] /\ u[i + 2] = a[i + 2]
        BY <1>1, <2>3, <3>1, <4>1
      <4> QED
        BY <4>2, <4>3
    <3>3. CASE ~(i <= Len(c))
      <4>1. ~(i + 2 <= Len(a)) /\ i + 2 - Len(a) = i - Len(c)
        BY <1>2, <2>1, <3>1, <3>3
      <4>2. w[i] = b[i - Len(c)]
        BY <2>4, <3>1, <3>3
      <4>3. v[i] = u[i + 2] /\ u[i + 2] = b[i + 2 - Len(a)]
        BY <1>1, <2>3, <3>1, <4>1
      <4> QED
        BY <4>1, <4>2, <4>3
    <3> QED
      BY <3>2, <3>3
  <2>7. w = v
    BY <2>3, <2>4, <2>5, <2>6, SeqEqual
  <2>8. u[1] = a[1]
    BY <1>1, <1>2, <1>5
  <2> QED
    BY <2>7, <2>8 DEF w, c, v
<1> QED
  BY <1>3, <1>4, <1>5 DEF u

LEMMA UnreadTyped == ASSUME QmpTypes PROVE Unread \in Seq(Frag) /\ Len(Unread) \in Nat
  BY DEF QmpTypes, Unread, Frag

\* Steps that neither send, read nor ask.
LEMMA IdleKeepsQmp ==
    ASSUME QmpFlow,
           \/ QemuListens \/ QemuExits \/ QmpExpire
           \/ PumpFails \/ UNCHANGED qmpVars
    PROVE  QmpFlow'
<1> USE DEF QmpFlow, hostVars, qemuVars, qmpVars, Ended
<1>1. /\ Unread' = Unread /\ requests' = requests /\ events' = events /\ count' = count
      /\ capable' = capable /\ quitting' = quitting
      /\ buffer' = buffer /\ wire' = wire /\ qmpStatus' = qmpStatus
  BY DEF QemuListens, QemuExits, QmpExpire, PumpFails, Unread
<1>2. \/ phase' = phase /\ qmpResult' = qmpResult
      \/ phase # "done" /\ phase' = "done" /\ qmpResult' = "cancelled"
  BY DEF QemuListens, QemuExits, QmpExpire, PumpFails
<1>3. \/ qemu' = qemu
      \/ qemu = "starting" /\ qemu' = "listening"
      \/ qemu \in {"starting", "closed"} /\ qemu' = "gone"
  BY DEF QemuListens, QemuExits, QmpExpire, PumpFails
<1>4. QmpTypes'
  BY <1>1, <1>2, <1>3 DEF QmpTypes, Phases
<1>5. StreamFlow'
  BY <1>1, <1>3 DEF StreamFlow
<1>6. PhaseFlow'
  <2>1. Asked("capabilities", capable) => Asked("capabilities", capable)'
    BY <1>1 DEF Asked
  <2>2. Asked("quit", quitting) => Asked("quit", quitting)'
    BY <1>1 DEF Asked
  <2> QED
    BY <1>1, <1>2, <1>3, <2>1, <2>2 DEF PhaseFlow
<1>7. ResultFlow'
  BY <1>1, <1>2, <1>3 DEF ResultFlow, CompleteIsShutdown, FailureHasCause
<1> QED
  BY <1>4, <1>5, <1>6, <1>7

\* An event of QEMU.
LEMMA EventKeepsQmp ==
    ASSUME QmpFlow, QemuEvent
    PROVE  QmpFlow'
<1> USE DEF QmpFlow
<1>1. /\ qemu = "serving" /\ wire' = wire \o Fragments(Event) /\ events' = events + 1
      /\ UNCHANGED <<qemu, capable, quitting, requests, reset>>
      /\ UNCHANGED <<buffer, phase, count, qmpStatus, qmpExpired, qmpResult>>
  BY DEF QemuEvent, hostVars
<1>2. Unread \in Seq(Frag) /\ Len(Unread) % 2 = 0 /\ Alternates(Unread)
  BY <1>1, UnreadTyped DEF StreamFlow
<1>3. Event \in Kinds
  BY DEF Kinds
<1>4. wire \in Seq(Frag) /\ buffer \in Seq(Frag) /\ Fragments(Event) \in Seq(Frag)
  BY <1>3 DEF QmpTypes, Frag, Fragments
<1>5. Unread' = Unread \o Fragments(Event)
  <2>1. buffer \o (wire \o Fragments(Event)) = (buffer \o wire) \o Fragments(Event)
    BY <1>4, ConcatAssociative
  <2> QED
    BY <1>1, <2>1, Zenon DEF Unread
<1>6. events \in Nat /\ count \in Nat /\ events - count \in Int /\ events \in Int
      /\ events' - count' = events - count + 1
  BY <1>1, QmpAssumption DEF QmpTypes
<1>7. /\ Alternates(Unread') /\ Len(Unread') % 2 = 0
      /\ \A n \in Int : Quiet(Unread, n) => Quiet(Unread', n + 1)
      /\ \A n \in Int, j \in Kinds : Answered(Unread, j, n) => Answered(Unread', j, n + 1)
  BY <1>2, <1>3, <1>5, AppendKeeps
<1>8. QmpTypes'
  <2>1. wire' \in Seq(Kinds \X {1, 2})
    BY <1>1, <1>3, <1>4, AppendedMessage DEF Frag
  <2> QED
    BY <1>1, <1>6, <2>1 DEF QmpTypes
<1>9. StreamFlow'
  BY <1>7 DEF StreamFlow
<1>10. PhaseFlow'
  <2>1. Asked("capabilities", capable) => Asked("capabilities", capable)'
    BY <1>1, <1>6, <1>7 DEF Asked, Kinds
  <2>2. Asked("quit", quitting) => Asked("quit", quitting)'
    BY <1>1, <1>6, <1>7 DEF Asked, Kinds
  <2>3. ASSUME phase = "greeting"
        PROVE  Answered(Unread', "greeting", events') /\ Unread'[1][1] = "greeting"
    <3>1. Answered(Unread, "greeting", events) /\ Unread[1][1] = "greeting"
      BY <1>1, <2>3 DEF PhaseFlow
    <3>2. 1 \in 1 .. Len(Unread)
      BY <1>2, <3>1 DEF Answered
    <3>3. Unread'[1] = Unread[1]
      BY <1>2, <1>3, <1>5, <3>2, AppendedMessage
    <3>4. Answered(Unread', "greeting", events + 1)
      BY <1>6, <1>7, <3>1 DEF Kinds
    <3> QED
      BY <1>1, <3>1, <3>3, <3>4
  <2>4. Quiet(Unread, events) => Quiet(Unread', events')
    BY <1>1, <1>6, <1>7
  <2> QED
    BY <1>1, <2>1, <2>2, <2>3, <2>4 DEF PhaseFlow
<1>11. ResultFlow'
  BY <1>1, <1>6, QmpAssumption DEF ResultFlow, CompleteIsShutdown, FailureHasCause
<1> QED
  BY <1>8, <1>9, <1>10, <1>11

\* A command that QEMU takes or refuses.
LEMMA ServeKeepsQmp ==
    ASSUME QmpFlow, NEW taken \in BOOLEAN, QemuServes(taken)
    PROVE  QmpFlow'
<1> USE DEF QmpFlow
<1> DEFINE command == Head(requests)
           reply == IF taken THEN command ELSE "rejected"
<1>1. /\ qemu = "serving" /\ requests # <<>> /\ requests' = Tail(requests)
      /\ wire' = wire \o Fragments(reply)
      /\ capable' = (capable \/ (taken /\ command = "capabilities"))
      /\ quitting' = (quitting \/ (taken /\ command = "quit"))
      /\ UNCHANGED <<qemu, reset, events>>
      /\ UNCHANGED <<buffer, phase, count, qmpStatus, qmpExpired, qmpResult>>
  BY DEF QemuServes, hostVars
<1>2. Unread \in Seq(Frag) /\ Len(Unread) % 2 = 0 /\ Alternates(Unread)
  BY <1>1, UnreadTyped DEF StreamFlow
<1>3. command \in {"capabilities", "quit"} /\ Tail(requests) \in Seq({"capabilities", "quit"})
  BY <1>1, HeadTailProperties DEF QmpTypes
<1>a. reply \in Kinds
  BY <1>3 DEF Kinds
<1> HIDE DEF command, reply
<1>4. wire \in Seq(Frag) /\ buffer \in Seq(Frag) /\ Fragments(reply) \in Seq(Frag)
  BY <1>a DEF QmpTypes, Frag, Fragments
<1>5. Unread' = Unread \o Fragments(reply)
  <2>1. buffer \o (wire \o Fragments(reply)) = (buffer \o wire) \o Fragments(reply)
    BY <1>4, ConcatAssociative
  <2> QED
    BY <1>1, <2>1, Zenon DEF Unread
<1>6. events \in Nat /\ count \in Nat /\ events - count \in Int
  BY <1>1, QmpAssumption DEF QmpTypes
<1>7. /\ Alternates(Unread') /\ Len(Unread') % 2 = 0
      /\ \A n \in Int : Quiet(Unread, n) => Answered(Unread', reply, n)
  BY <1>2, <1>a, <1>5, AppendKeeps
<1>8. QmpTypes'
  <2>1. wire' \in Seq(Kinds \X {1, 2})
    BY <1>1, <1>a, <1>4, AppendedMessage DEF Frag
  <2>2. capable' \in BOOLEAN /\ quitting' \in BOOLEAN
    BY <1>1, Zenon
  <2> QED
    BY <1>1, <1>3, <2>1, <2>2 DEF QmpTypes
<1>9. StreamFlow'
  BY <1>7 DEF StreamFlow
<1>10. ASSUME NEW c \in {"capabilities", "quit"}, NEW t \in BOOLEAN, Asked(c, t)
       PROVE  /\ command = c /\ requests' = <<>> /\ ~t
              /\ taken => Answered(Unread', c, events' - count')
              /\ ~taken => Answered(Unread', "rejected", events' - count')
  <2>1. requests = <<c>> /\ ~t /\ Quiet(Unread, events - count)
    BY <1>1, <1>10 DEF Asked
  <2>2. command = c /\ requests' = <<>>
    BY <1>1, <2>1 DEF command
  <2>3. Answered(Unread', reply, events' - count')
    BY <1>1, <1>6, <1>7, <2>1
  <2> QED
    BY <2>1, <2>2, <2>3 DEF reply
<1>11. PhaseFlow'
  <2>1. ASSUME phase = "capabilities" PROVE Asked("capabilities", capable)' /\ ~quitting'
    <3>1. Asked("capabilities", capable) /\ ~quitting /\ capable \in BOOLEAN
      BY <2>1 DEF PhaseFlow, QmpTypes
    <3>2. /\ command = "capabilities" /\ requests' = <<>> /\ ~capable
          /\ taken => Answered(Unread', "capabilities", events' - count')
          /\ ~taken => Answered(Unread', "rejected", events' - count')
      BY <1>10, <3>1
    <3>3. ~quitting'
      BY <1>1, <3>1, <3>2
    <3>4. capable' <=> taken
      BY <1>1, <3>2
    <3> QED
      BY <3>2, <3>3, <3>4 DEF Asked
  <2>2. ASSUME phase = "quit" PROVE Asked("quit", quitting)'
    <3>1. Asked("quit", quitting) /\ quitting \in BOOLEAN
      BY <2>2 DEF PhaseFlow, QmpTypes
    <3>2. /\ command = "quit" /\ requests' = <<>> /\ ~quitting
          /\ taken => Answered(Unread', "quit", events' - count')
          /\ ~taken => Answered(Unread', "rejected", events' - count')
      BY <1>10, <3>1
    <3>3. quitting' <=> taken
      BY <1>1, <3>2
    <3> QED
      BY <3>2, <3>3 DEF Asked
  <2>3. phase \notin {"connect", "greeting", "sendCapabilities", "sendQuit", "awaitExit"}
    BY <1>1 DEF PhaseFlow
  <2>4. phase' = phase /\ count' = count /\ qemu' = qemu
    BY <1>1
  <2> QED
    BY <1>1, <2>1, <2>2, <2>3, <2>4 DEF PhaseFlow
<1>12. ResultFlow'
  <2>1. qmpResult # "refused"
    BY <1>1 DEF ResultFlow
  <2>2. quitting => quitting'
    BY <1>1
  <2> QED
    BY <1>1, <2>1, <2>2 DEF ResultFlow, CompleteIsShutdown, FailureHasCause
<1> QED
  BY <1>8, <1>9, <1>11, <1>12

\* The end of the monitor.
LEMMA CloseKeepsQmp ==
    ASSUME QmpFlow, QemuCloses
    PROVE  QmpFlow'
<1> USE DEF QmpFlow
<1>1. /\ qemu \in {"listening", "serving"} /\ qemu' = "closed"
      /\ UNCHANGED <<capable, quitting, requests, events>>
      /\ UNCHANGED <<buffer, phase, count, qmpStatus, qmpExpired, qmpResult>>
  BY DEF QemuCloses, hostVars
<1>2. PICK lost \in 0 .. 2 : lost <= Len(wire) /\ wire' = SubSeq(wire, 1, Len(wire) - lost)
  BY DEF QemuCloses
<1>3. Unread \in Seq(Frag) /\ Len(Unread) \in Nat /\ Len(Unread) % 2 = 0 /\ Alternates(Unread)
  BY <1>1, UnreadTyped DEF StreamFlow
<1>4. wire \in Seq(Frag) /\ buffer \in Seq(Frag)
  BY DEF QmpTypes, Frag
<1>5. Unread' = SubSeq(Unread, 1, Len(Unread) - lost)
  BY <1>1, <1>2, <1>4, StreamMoves DEF Unread
<1>6. lost <= Len(Unread)
  BY <1>2, <1>4 DEF Unread
<1>7. /\ Alternates(Unread')
      /\ \A n \in Int : Quiet(Unread, n) => Quiet(Unread', n)
      /\ \A n \in Int, k \in Kinds : Answered(Unread, k, n) =>
           Answered(Unread', k, n) \/ Quiet(Unread', n)
  BY <1>3, <1>5, <1>6, CutKeeps
<1>8. events \in Int /\ events - count \in Int
  BY QmpAssumption DEF QmpTypes
<1>9. QmpTypes'
  <2>1. wire' \in Seq(Frag)
    BY <1>2, <1>4, CutMessage
  <2> QED
    BY <1>1, <2>1 DEF QmpTypes, Frag
<1>10. StreamFlow'
  BY <1>1, <1>7 DEF StreamFlow
<1>11. PhaseFlow'
  <2>1. ASSUME phase = "connect" PROVE wire' = <<>>
    <3>1. wire = <<>>
      BY <2>1 DEF PhaseFlow
    <3>2. lost = 0
      BY <1>2, <3>1
    <3> QED
      BY <1>2, <3>1, <3>2
  <2>2. Asked("capabilities", capable) => Asked("capabilities", capable)'
    BY <1>1, <1>7, <1>8 DEF Asked, Kinds
  <2>3. Asked("quit", quitting) => Asked("quit", quitting)'
    BY <1>1, <1>7, <1>8 DEF Asked, Kinds
  <2>4. Quiet(Unread, events) => Quiet(Unread', events')
    BY <1>1, <1>7, <1>8
  <2>5. ASSUME Answered(Unread, "greeting", events), Unread[1][1] = "greeting"
        PROVE  \/ Answered(Unread', "greeting", events') /\ Unread'[1][1] = "greeting"
               \/ Unread' = <<>>
    <3> DEFINE t == Unread'
    <3>1. /\ t \in Seq(Frag) /\ Len(t) = Len(Unread) - lost
          /\ \A i \in 1 .. (Len(Unread) - lost) : t[i] = Unread[i]
      BY <1>3, <1>5, <1>6, CutMessage
    <3>2. Answered(t, "greeting", events') \/ Quiet(t, events')
      BY <1>1, <1>7, <1>8, <2>5 DEF Kinds
    <3> HIDE DEF t
    <3>3. CASE Len(t) = 0
      BY <3>1, <3>3 DEF t
    <3>4. CASE Len(t) # 0
      <4>1. 1 \in 1 .. Len(t) /\ t[1] = Unread[1]
        BY <1>3, <3>1, <3>4
      <4>2. ~Quiet(t, events')
        BY <2>5, <4>1 DEF Quiet, Event
      <4> QED
        BY <2>5, <3>2, <4>1, <4>2 DEF t
    <3> QED
      BY <3>3, <3>4
  <2>7. phase = "greeting" => qemu = "serving"
    BY <1>1 DEF PhaseFlow
  <2>8. ASSUME phase = "greeting"
        PROVE  \/ Answered(Unread', "greeting", events') /\ Unread'[1][1] = "greeting"
               \/ Unread' = <<>>
    BY <2>5, <2>7, <2>8 DEF PhaseFlow
  <2> QED
    BY <1>1, <2>1, <2>2, <2>3, <2>4, <2>8 DEF PhaseFlow
<1>12. ResultFlow'
  BY <1>1 DEF ResultFlow, CompleteIsShutdown, FailureHasCause
<1> QED
  BY <1>9, <1>10, <1>11, <1>12

\* What may be said when the step ends.
MayEnd(how) ==
    /\ how \in {"broken", "closedEarly", "exitedEarly"} => qemu \in {"closed", "gone"}
    /\ how = "flooded" => events >= Messages
    /\ how = "refused" => requests = <<>> /\ (~capable \/ ~quitting)
    /\ how = "complete" => quitting \/ qemu = "gone"
    /\ how \notin {"tooLong", "none"}

\* Every way out of the step.
LEMMA EndKeepsQmp ==
    ASSUME QmpFlow, NEW how, MayEnd(how), Ended(how),
           UNCHANGED qemuVars, qmpStatus' = qmpStatus \/ Pumped
    PROVE  QmpFlow'
<1> USE DEF QmpFlow
<1>1. /\ UNCHANGED <<qemu, capable, quitting, requests, wire, events, buffer, count>>
      /\ phase' = "done" /\ qmpResult' = how
  BY DEF Ended, qemuVars
<1>2. qmpStatus' \in BOOLEAN /\ (qmpStatus' => qemu = "gone")
  <2>1. qmpStatus \in BOOLEAN /\ (qmpStatus => qemu = "gone")
    BY DEF QmpTypes, ResultFlow
  <2>2. CASE qmpStatus' = qmpStatus
    BY <2>1, <2>2
  <2>3. CASE Pumped
    BY <2>1, <2>3, Zenon DEF Pumped
  <2> QED
    BY <2>2, <2>3
<1>3. Unread' = Unread
  BY <1>1 DEF Unread
<1>4. QmpTypes'
  BY <1>1, <1>2 DEF QmpTypes, Phases
<1>5. StreamFlow' /\ PhaseFlow'
  BY <1>1, <1>3 DEF StreamFlow, PhaseFlow
<1>6. ResultFlow'
  <2>1. how \notin {"tooLong", "none"}
    BY DEF MayEnd
  <2>2. CompleteIsShutdown'
    BY <1>1 DEF CompleteIsShutdown, MayEnd
  <2>3. FailureHasCause'
    BY <1>1, <2>1 DEF FailureHasCause, MayEnd
  <2> QED
    BY <1>1, <1>2, <2>1, <2>2, <2>3 DEF ResultFlow, MayEnd
<1> QED
  BY <1>4, <1>5, <1>6

\* One round of the connect loop.
LEMMA ConnectKeepsQmp ==
    ASSUME QmpFlow, Connect
    PROVE  QmpFlow'
<1> USE DEF QmpFlow
<1>1. phase = "connect" /\ Pumped /\ UNCHANGED qmpExpired
  BY DEF Connect
<1>2. qmpStatus' => qemu = "gone"
  BY <1>1 DEF Pumped, ResultFlow
<1>3. CASE qmpStatus' /\ Ended("exitedEarly") /\ UNCHANGED qemuVars
  BY <1>1, <1>2, <1>3, EndKeepsQmp DEF MayEnd
<1>4. CASE ~qmpStatus' /\ qmpExpired /\ Ended("timedOut") /\ UNCHANGED qemuVars
  BY <1>1, <1>4, EndKeepsQmp DEF MayEnd
<1>5. CASE /\ ~qmpStatus' /\ ~qmpExpired /\ qemu = "listening"
           /\ qemu' = "serving"
           /\ wire' = wire \o Fragments("greeting")
           /\ phase' = "greeting"
           /\ UNCHANGED <<capable, quitting, requests, reset, events, buffer, count, qmpResult>>
  <2>1. /\ requests = <<>> /\ ~capable /\ ~quitting /\ buffer = <<>> /\ wire = <<>>
        /\ events = 0 /\ count = 0
    BY <1>1 DEF PhaseFlow
  <2>2. Unread = <<>> /\ Unread \in Seq(Frag) /\ Len(Unread) = 0
    BY <2>1 DEF Unread, Frag
  <2>3. "greeting" \in Kinds /\ 0 \in Int /\ 0 % 2 = 0
    BY DEF Kinds
  <2>4. wire' = Unread \o Fragments("greeting") /\ Unread' = Unread \o Fragments("greeting")
    <3>1. Fragments("greeting") \in Seq(Frag)
      BY <2>3 DEF Fragments, Frag
    <3> QED
      BY <1>5, <2>1, <3>1 DEF Unread
  <2>5. Quiet(Unread, 0) /\ Alternates(Unread)
    BY <2>2 DEF Quiet, Alternates
  <2>6. /\ Alternates(Unread') /\ Len(Unread') % 2 = 0
        /\ Answered(Unread', "greeting", 0)
    BY <2>2, <2>3, <2>4, <2>5, AppendKeeps
  <2>7. wire' \in Seq(Frag) /\ Unread'[1] = <<"greeting", 1>>
    <3>1. /\ Unread \o Fragments("greeting") \in Seq(Frag)
          /\ (Unread \o Fragments("greeting"))[Len(Unread) + 1] = <<"greeting", 1>>
      BY <2>2, <2>3, AppendedMessage
    <3>2. Len(Unread) + 1 = 1
      BY <2>2
    <3> QED
      BY <2>4, <3>1, <3>2
  <2>8. QmpTypes'
    BY <1>1, <1>5, <2>7 DEF QmpTypes, Phases, Frag, Pumped
  <2>9. StreamFlow'
    BY <2>6 DEF StreamFlow
  <2>10. PhaseFlow'
    BY <1>5, <2>1, <2>6, <2>7 DEF PhaseFlow
  <2>11. ResultFlow'
    BY <1>1, <1>5 DEF ResultFlow, CompleteIsShutdown, FailureHasCause
  <2> QED
    BY <2>8, <2>9, <2>10, <2>11
<1> QED
  BY <1>3, <1>4, <1>5 DEF Connect

\* A read of a part of the stream, which loses nothing.
LEMMA ReadKeepsQmp ==
    ASSUME QmpFlow, Read
    PROVE  QmpFlow'
<1> USE DEF QmpFlow
<1>1. /\ Reading /\ ~LineReady /\ Pumped
      /\ UNCHANGED <<qemu, capable, quitting, requests, reset, events, qmpExpired>>
  BY DEF Read
<1>2. CASE qmpExpired /\ Ended("timedOut") /\ UNCHANGED wire
  BY <1>1, <1>2, EndKeepsQmp DEF MayEnd, qemuVars
<1>3. ASSUME ~qmpExpired, wire # <<>>,
             NEW n \in 1 .. (IF Len(wire) < Chunk THEN Len(wire) ELSE Chunk),
             IF Len(buffer) + n > Buffered
             THEN Ended("tooLong") /\ UNCHANGED wire
             ELSE /\ buffer' = buffer \o SubSeq(wire, 1, n)
                  /\ wire' = SubSeq(wire, n + 1, Len(wire))
                  /\ UNCHANGED <<phase, count, qmpResult>>
      PROVE  QmpFlow'
  <2>1. wire \in Seq(Frag) /\ buffer \in Seq(Frag) /\ Len(wire) \in Nat /\ Len(buffer) \in Nat
    BY DEF QmpTypes, Frag
  <2>2. n \in 1 .. Len(wire) /\ n <= Chunk /\ Len(buffer) < 2
    BY <1>1, <1>3, <2>1, QmpAssumption DEF LineReady
  <2>3. Len(buffer) + n <= Buffered
    BY <2>1, <2>2, QmpAssumption
  <2>4. /\ buffer' = buffer \o SubSeq(wire, 1, n)
        /\ wire' = SubSeq(wire, n + 1, Len(wire))
        /\ UNCHANGED <<phase, count, qmpResult>>
    BY <1>3, <2>1, <2>2, <2>3, QmpAssumption
  <2>5. /\ buffer' \in Seq(Frag) /\ Len(buffer') = Len(buffer) + n
        /\ wire' \in Seq(Frag) /\ Unread' = Unread
    BY <2>1, <2>2, <2>4, StreamMoves DEF Unread
  <2>6. qmpStatus' \in BOOLEAN /\ (qmpStatus' => qemu = "gone")
    BY <1>1 DEF Pumped, QmpTypes, ResultFlow
  <2>7. QmpTypes'
    BY <1>1, <2>3, <2>4, <2>5, <2>6 DEF QmpTypes, Frag
  <2>8. StreamFlow'
    BY <1>1, <2>5 DEF StreamFlow
  <2>9. PhaseFlow'
    <3>1. Asked("capabilities", capable) => Asked("capabilities", capable)'
      BY <1>1, <2>4, <2>5 DEF Asked
    <3>2. Asked("quit", quitting) => Asked("quit", quitting)'
      BY <1>1, <2>4, <2>5 DEF Asked
    <3>3. phase # "connect"
      BY <1>1 DEF Reading
    <3> QED
      BY <1>1, <2>4, <2>5, <3>1, <3>2, <3>3 DEF PhaseFlow
  <2>10. ResultFlow'
    BY <1>1, <2>4, <2>6 DEF ResultFlow, CompleteIsShutdown, FailureHasCause
  <2> QED
    BY <2>7, <2>8, <2>9, <2>10
<1> QED
  BY <1>2, <1>3 DEF Read

\* The end of the connection where a line was awaited.
LEMMA ReadEndsKeepsQmp ==
    ASSUME QmpFlow, ReadEnds
    PROVE  QmpFlow'
<1> USE DEF QmpFlow
<1>1. /\ Reading /\ qemu \in {"closed", "gone"} /\ Pumped
      /\ UNCHANGED <<qemuVars, qmpExpired>>
  BY DEF ReadEnds
<1>2. ASSUME NEW how \in {"timedOut", "broken", "closedEarly"}, Ended(how) PROVE QmpFlow'
  BY <1>1, <1>2, EndKeepsQmp DEF MayEnd
<1>3. CASE phase = "quit" /\ phase' = "awaitExit" /\ UNCHANGED <<buffer, count, qmpResult>>
  <2>1. UNCHANGED <<qemu, capable, quitting, requests, wire, events, buffer, count, qmpResult>>
    BY <1>1, <1>3 DEF qemuVars
  <2>2. Unread' = Unread
    BY <2>1 DEF Unread
  <2>3. qmpStatus' \in BOOLEAN /\ (qmpStatus' => qemu = "gone")
    <3>1. qmpStatus \in BOOLEAN /\ (qmpStatus => qemu = "gone")
      BY DEF QmpTypes, ResultFlow
    <3> QED
      BY <1>1, <3>1, Zenon DEF Pumped
  <2>4. QmpTypes'
    BY <1>3, <2>1, <2>3 DEF QmpTypes, Phases
  <2>5. StreamFlow' /\ PhaseFlow'
    BY <1>1, <1>3, <2>1, <2>2 DEF StreamFlow, PhaseFlow
  <2>6. ResultFlow'
    BY <1>3, <2>1, <2>3 DEF ResultFlow, CompleteIsShutdown, FailureHasCause
  <2> QED
    BY <2>4, <2>5, <2>6
<1> QED
  BY <1>2, <1>3 DEF ReadEnds

\* A line that is examined.
LEMMA TakeKeepsQmp ==
    ASSUME QmpFlow, TakeLine
    PROVE  QmpFlow'
<1> USE DEF QmpFlow
<1> DEFINE kind == buffer[1][1]
<1>1. /\ Reading /\ LineReady
      /\ UNCHANGED <<qemuVars, qmpStatus, qmpExpired>>
  BY DEF TakeLine
<1>2. /\ wire \in Seq(Frag) /\ buffer \in Seq(Frag) /\ Len(buffer) \in Nat /\ Len(buffer) >= 2
      /\ Unread \in Seq(Frag) /\ Len(Unread) \in Nat
  BY <1>1, UnreadTyped DEF QmpTypes, Frag, LineReady
<1>3. Rest \o wire = SubSeq(Unread, 3, Len(Unread)) /\ Unread[1][1] = kind
  BY <1>2, StreamMoves DEF Rest, Unread
<1>4. Len(Unread) >= 2
  <2>1. Len(Unread) = Len(buffer) + Len(wire) /\ Len(wire) \in Nat
    BY <1>2, ConcatProperties DEF Unread
  <2> QED
    BY <1>2, <2>1
<1> DEFINE left == Rest \o wire
<1>5. /\ Alternates(left) /\ (Len(Unread) % 2 = 0 => Len(left) % 2 = 0)
      /\ \A n \in Int : Quiet(Unread, n) => kind = Event /\ n >= 1 /\ Quiet(left, n - 1)
      /\ \A n \in Int, k \in Kinds : Answered(Unread, k, n) /\ kind = Event /\ k # Event =>
           n >= 1 /\ Answered(left, k, n - 1)
      /\ \A n \in Int, k \in Kinds : Answered(Unread, k, n) /\ kind # Event =>
           kind = k /\ Quiet(left, n)
  <2>1. Alternates(Unread)
    BY DEF StreamFlow
  <2> DEFINE s == Unread
             v == SubSeq(s, 3, Len(s))
  <2>2. s \in Seq(Frag) /\ Len(s) >= 2 /\ Alternates(s) /\ left = v /\ s[1][1] = kind
    BY <1>2, <1>3, <1>4, <2>1
  <2> HIDE DEF s, kind, left
  <2>3. 0 \in Int
    OBVIOUS
  <2>4. Alternates(v) /\ (Len(s) % 2 = 0 => Len(v) % 2 = 0)
    BY <2>2, <2>3, TakeKeeps
  <2>5. ASSUME NEW n \in Int
        PROVE  /\ Quiet(s, n) => s[1][1] = Event /\ n >= 1 /\ Quiet(v, n - 1)
               /\ \A k \in Kinds : Answered(s, k, n) /\ s[1][1] = Event /\ k # Event =>
                    n >= 1 /\ Answered(v, k, n - 1)
               /\ \A k \in Kinds : Answered(s, k, n) /\ s[1][1] # Event =>
                    s[1][1] = k /\ Quiet(v, n)
    BY <2>2, TakeKeeps
  <2> HIDE DEF v
  <2> QED
    BY <2>2, <2>4, <2>5 DEF s
<1>6. kind \in Kinds /\ Rest \in Seq(Frag) /\ Len(Rest) <= Buffered
  <2>1. buffer[1] \in Frag
    BY <1>2
  <2>2. Rest \in Seq(Frag) /\ Len(Rest) = Len(buffer) - 2
    BY <1>2, TakenMessage DEF Rest
  <2>3. Len(buffer) <= Buffered
    BY DEF QmpTypes
  <2> QED
    BY <1>2, <2>1, <2>2, <2>3, QmpAssumption DEF Frag
<1>7. /\ events \in Nat /\ count \in Nat /\ events - count \in Int /\ events \in Int
      /\ count <= Messages - 1 /\ Messages \in Nat /\ Messages >= 1
  BY QmpAssumption DEF QmpTypes
<1> HIDE DEF kind, left
<1>8. UNCHANGED <<qemu, capable, quitting, requests, wire, events, qmpStatus>>
  BY <1>1 DEF qemuVars
<1>9. ASSUME NEW c \in {"capabilities", "quit"}, NEW t \in BOOLEAN, Asked(c, t)
      PROVE  /\ kind = c => requests = <<>> /\ t /\ Quiet(left, events - count)
             /\ kind = "rejected" => requests = <<>> /\ ~t
             /\ kind \notin {c, "rejected"} =>
                  /\ kind = Event /\ events - count >= 1
                  /\ \/ requests = <<c>> /\ ~t /\ Quiet(left, events - count - 1)
                     \/ /\ requests = <<>>
                        /\ \/ Quiet(left, events - count - 1)
                           \/ t /\ Answered(left, c, events - count - 1)
                           \/ ~t /\ Answered(left, "rejected", events - count - 1)
  <2>1. c \in Kinds /\ "rejected" \in Kinds /\ c # Event /\ "rejected" # Event
        /\ c # "rejected"
    BY DEF Kinds, Event
  <2> DEFINE m == events - count
  <2>2. m \in Int
    BY <1>7
  <2> HIDE DEF m
  <2>3. CASE requests = <<c>> /\ ~t /\ Quiet(Unread, m)
    BY <1>5, <2>1, <2>2, <2>3 DEF m
  <2>4. CASE requests = <<>> /\ Quiet(Unread, m)
    BY <1>5, <2>1, <2>2, <2>4 DEF m
  <2>5. CASE requests = <<>> /\ t /\ Answered(Unread, c, m)
    <3>1. kind # Event => kind = c /\ Quiet(left, m)
      BY <1>5, <2>1, <2>2, <2>5
    <3>2. kind = Event => m >= 1 /\ Answered(left, c, m - 1)
      BY <1>5, <2>1, <2>2, <2>5
    <3> QED
      BY <2>1, <2>5, <3>1, <3>2 DEF m
  <2>6. CASE requests = <<>> /\ ~t /\ Answered(Unread, "rejected", m)
    <3>1. kind # Event => kind = "rejected"
      BY <1>5, <2>1, <2>2, <2>6
    <3>2. kind = Event => m >= 1 /\ Answered(left, "rejected", m - 1)
      BY <1>5, <2>1, <2>2, <2>6
    <3> QED
      BY <2>1, <2>6, <3>1, <3>2 DEF m
  <2> QED
    BY <1>9, <2>3, <2>4, <2>5, <2>6 DEF Asked, m
<1>10. capable \in BOOLEAN /\ quitting \in BOOLEAN
  BY DEF QmpTypes
<1>11. ASSUME Awaited(kind), buffer' = Rest, count' = 0, phase' = NextPhase[phase],
              qmpResult' = IF phase = "quit" THEN "complete" ELSE qmpResult
       PROVE  QmpFlow'
  <2>1. Unread' = left
    BY <1>8, <1>11 DEF Unread, left
  <2>2. phase \in {"greeting", "capabilities", "quit"} /\ kind = phase
    BY <1>1, <1>11 DEF Reading, Awaited
  <2>3. phase' = IF phase = "greeting" THEN "sendCapabilities"
                 ELSE IF phase = "capabilities" THEN "sendQuit" ELSE "done"
    BY <1>11, <2>2 DEF NextPhase
  <2>4. QmpTypes'
    <3>1. phase' \in Phases
      BY <2>2, <2>3 DEF Phases
    <3>2. count' \in 0 .. (Messages - 1)
      BY <1>7, <1>11
    <3> QED
      BY <1>6, <1>8, <1>11, <3>1, <3>2 DEF QmpTypes, Frag
  <2>5. StreamFlow'
    BY <1>5, <1>8, <2>1 DEF StreamFlow
  <2>6. CASE phase = "greeting"
    <3>1. Answered(Unread, "greeting", events) /\ requests = <<>> /\ ~capable /\ ~quitting
      BY <1>4, <2>6 DEF PhaseFlow
    <3>2. Quiet(left, events)
      BY <1>5, <1>7, <2>2, <2>6, <3>1 DEF Kinds, Event
    <3>3. PhaseFlow'
      BY <1>8, <1>11, <2>1, <2>3, <2>6, <3>1, <3>2 DEF PhaseFlow
    <3>4. ResultFlow'
      BY <1>8, <1>11, <2>3, <2>6 DEF ResultFlow, CompleteIsShutdown, FailureHasCause
    <3> QED
      BY <2>4, <2>5, <3>3, <3>4
  <2>7. CASE phase = "capabilities"
    <3>1. Asked("capabilities", capable) /\ ~quitting
      BY <2>7 DEF PhaseFlow
    <3>2. requests = <<>> /\ Quiet(left, events - count)
      BY <1>9, <1>10, <2>2, <2>7, <3>1
    <3>3. Quiet(left, events)
      BY <1>7, <3>2 DEF Quiet
    <3>4. PhaseFlow'
      BY <1>8, <1>11, <2>1, <2>3, <2>7, <3>1, <3>2, <3>3 DEF PhaseFlow
    <3>5. ResultFlow'
      BY <1>8, <1>11, <2>3, <2>7 DEF ResultFlow, CompleteIsShutdown, FailureHasCause
    <3> QED
      BY <2>4, <2>5, <3>4, <3>5
  <2>8. CASE phase = "quit"
    <3>1. Asked("quit", quitting)
      BY <2>8 DEF PhaseFlow
    <3>2. quitting
      BY <1>9, <1>10, <2>2, <2>8, <3>1
    <3>3. PhaseFlow'
      BY <2>3, <2>8 DEF PhaseFlow
    <3>4. ResultFlow'
      BY <1>8, <1>11, <2>3, <2>8, <3>2 DEF ResultFlow, CompleteIsShutdown, FailureHasCause
    <3> QED
      BY <2>4, <2>5, <3>3, <3>4
  <2> QED
    BY <2>2, <2>6, <2>7, <2>8
<1>12. ASSUME ~Awaited(kind), phase = "greeting" \/ kind = "rejected", Ended("refused")
       PROVE  QmpFlow'
  <2>1. phase = "greeting" => requests = <<>> /\ ~capable
    BY DEF PhaseFlow
  <2>2. phase = "capabilities" /\ kind = "rejected" => requests = <<>> /\ ~capable
    BY <1>9, <1>10 DEF PhaseFlow
  <2>3. phase = "quit" /\ kind = "rejected" => requests = <<>> /\ ~quitting
    BY <1>9, <1>10 DEF PhaseFlow
  <2>4. MayEnd("refused")
    BY <1>1, <1>12, <2>1, <2>2, <2>3 DEF MayEnd, Reading
  <2> QED
    BY <1>1, <1>12, <2>4, EndKeepsQmp
<1>13. ASSUME ~Awaited(kind), phase # "greeting", kind # "rejected",
              IF WithinPhase(count + 1)
              THEN /\ buffer' = Rest /\ count' = count + 1
                   /\ UNCHANGED <<phase, qmpResult>>
              ELSE Ended("flooded")
       PROVE  QmpFlow'
  <2>1. phase \in {"capabilities", "quit"} /\ kind # phase
    BY <1>1, <1>13 DEF Reading, Awaited
  <2> DEFINE taken == IF phase = "quit" THEN quitting ELSE capable
  <2>2. Asked(phase, taken) /\ taken \in BOOLEAN
    BY <1>10, <2>1 DEF PhaseFlow
  <2>3. /\ kind = Event /\ events - count >= 1
        /\ \/ requests = <<phase>> /\ ~taken /\ Quiet(left, events - count - 1)
           \/ /\ requests = <<>>
              /\ \/ Quiet(left, events - count - 1)
                 \/ taken /\ Answered(left, phase, events - count - 1)
                 \/ ~taken /\ Answered(left, "rejected", events - count - 1)
    BY <1>9, <1>13, <2>1, <2>2
  <2>4. CASE WithinPhase(count + 1)
    <3>1. buffer' = Rest /\ count' = count + 1 /\ UNCHANGED <<phase, qmpResult>>
      BY <1>13, <2>4
    <3>2. count' \in 0 .. (Messages - 1) /\ events - count - 1 = events' - count'
      BY <1>7, <1>8, <2>4, <3>1 DEF WithinPhase
    <3>3. Unread' = left
      BY <1>8, <3>1 DEF Unread, left
    <3>4. QmpTypes'
      BY <1>6, <1>8, <3>1, <3>2 DEF QmpTypes, Frag
    <3>5. StreamFlow'
      BY <1>5, <1>8, <3>3 DEF StreamFlow
    <3>6. phase = "capabilities" => Asked("capabilities", capable)' /\ ~quitting'
      BY <1>8, <2>3, <3>2, <3>3 DEF Asked, PhaseFlow
    <3>7. phase = "quit" => Asked("quit", quitting)'
      BY <1>8, <2>3, <3>2, <3>3 DEF Asked
    <3>8. PhaseFlow'
      BY <1>8, <2>1, <3>1, <3>6, <3>7 DEF PhaseFlow
    <3>9. ResultFlow'
      BY <1>8, <3>1 DEF ResultFlow, CompleteIsShutdown, FailureHasCause
    <3> QED
      BY <3>4, <3>5, <3>8, <3>9
  <2>5. CASE ~WithinPhase(count + 1)
    <3>1. events >= Messages
      BY <1>7, <2>3, <2>5 DEF WithinPhase
    <3>2. MayEnd("flooded")
      BY <3>1 DEF MayEnd
    <3> QED
      BY <1>1, <1>13, <2>5, <3>2, EndKeepsQmp
  <2> QED
    BY <2>4, <2>5
<1> QED
  BY <1>11, <1>12, <1>13 DEF TakeLine, kind

\* A command of the host.
LEMMA SendKeepsQmp ==
    ASSUME QmpFlow, Send
    PROVE  QmpFlow'
<1> USE DEF QmpFlow
<1>1. /\ phase \in {"sendCapabilities", "sendQuit"} /\ Pumped
      /\ UNCHANGED <<qemu, capable, quitting, wire, reset, events, qmpExpired>>
  BY DEF Send
<1>2. qmpStatus' \in BOOLEAN /\ (qmpStatus' => qemu = "gone")
  <2>1. qmpStatus \in BOOLEAN /\ (qmpStatus => qemu = "gone")
    BY DEF QmpTypes, ResultFlow
  <2> QED
    BY <1>1, <2>1, Zenon DEF Pumped
<1>3. qemu \in {"serving", "closed", "gone"}
  BY <1>1 DEF PhaseFlow
<1>4. ASSUME NEW how \in {"exitedEarly", "timedOut", "broken"}, Ended(how), UNCHANGED requests,
             how # "timedOut" => qemu # "serving"
      PROVE  QmpFlow'
  <2>1. MayEnd(how)
    BY <1>3, <1>4 DEF MayEnd
  <2> QED
    BY <1>1, <1>4, <2>1, EndKeepsQmp DEF qemuVars
<1>5. ASSUME NEW command \in {"capabilities", "quit"},
             command = (IF phase = "sendQuit" THEN "quit" ELSE "capabilities"),
             requests' = Append(requests, command), phase' = command,
             UNCHANGED <<buffer, count, qmpResult>>
      PROVE  QmpFlow'
  <2>1. /\ requests = <<>> /\ ~quitting /\ Quiet(Unread, events) /\ count = 0
        /\ phase = "sendCapabilities" => ~capable
    BY <1>1 DEF PhaseFlow
  <2>2. requests' = <<command>> /\ requests' \in Seq({"capabilities", "quit"})
    BY <1>5, <2>1
  <2>3. Unread' = Unread /\ events' - count' = events
    BY <1>1, <1>5, <2>1 DEF Unread, QmpTypes
  <2>4. QmpTypes'
    BY <1>1, <1>2, <1>5, <2>2 DEF QmpTypes, Phases
  <2>5. StreamFlow'
    BY <1>1, <2>3 DEF StreamFlow
  <2>6. command = "capabilities" => Asked("capabilities", capable)' /\ ~quitting'
    BY <1>1, <1>5, <2>1, <2>2, <2>3 DEF Asked
  <2>7. command = "quit" => Asked("quit", quitting)'
    BY <1>1, <1>5, <2>1, <2>2, <2>3 DEF Asked
  <2>8. PhaseFlow'
    BY <1>1, <1>3, <1>5, <2>6, <2>7 DEF PhaseFlow
  <2>9. ResultFlow'
    BY <1>1, <1>2, <1>5 DEF ResultFlow, CompleteIsShutdown, FailureHasCause
  <2> QED
    BY <2>4, <2>5, <2>8, <2>9
<1> QED
  BY <1>2, <1>4, <1>5 DEF Send

\* The wait for the exit.
LEMMA AwaitKeepsQmp ==
    ASSUME QmpFlow, AwaitExit
    PROVE  QmpFlow'
<1>1. phase = "awaitExit" /\ Pumped /\ UNCHANGED <<qemuVars, qmpExpired>>
  BY DEF AwaitExit
<1>2. qmpStatus' => qemu = "gone"
  BY <1>1 DEF Pumped, QmpFlow, ResultFlow
<1>3. CASE qmpStatus' /\ Ended("complete")
  BY <1>1, <1>2, <1>3, EndKeepsQmp DEF MayEnd
<1>4. CASE Ended("timedOut")
  BY <1>1, <1>4, EndKeepsQmp DEF MayEnd
<1> QED
  BY <1>3, <1>4 DEF AwaitExit

\* The inductive invariant holds for every limit, read size and number of events.
THEOREM QmpInvariant ==
    QmpSpec => []QmpFlow
<1>1. QmpInit => QmpFlow
  <2> SUFFICES ASSUME QmpInit PROVE QmpFlow
    OBVIOUS
  <2>1. Unread = <<>>
    BY DEF QmpInit, Unread
  <2>2. QmpTypes
    <3>1. /\ <<>> \in Seq({"capabilities", "quit"}) /\ <<>> \in Seq(Kinds \X {1, 2})
          /\ Len(<<>>) = 0
      OBVIOUS
    <3>2. 0 \in 0 .. (Messages - 1) /\ 0 <= Buffered
      BY QmpAssumption
    <3>3. phase \in Phases
      BY DEF QmpInit, Phases
    <3> QED
      BY <3>1, <3>2, <3>3 DEF QmpInit, QmpTypes
  <2>3. StreamFlow
    BY <2>1 DEF StreamFlow, Alternates
  <2>4. PhaseFlow
    BY <2>1 DEF QmpInit, PhaseFlow
  <2>5. ResultFlow
    BY DEF QmpInit, ResultFlow, CompleteIsShutdown, FailureHasCause
  <2> QED
    BY <2>2, <2>3, <2>4, <2>5 DEF QmpFlow
<1>2. QmpFlow /\ [QmpNext]_(qmpVars) => QmpFlow'
  BY IdleKeepsQmp, EventKeepsQmp, ServeKeepsQmp, CloseKeepsQmp, ConnectKeepsQmp, ReadKeepsQmp,
     ReadEndsKeepsQmp, TakeKeepsQmp, SendKeepsQmp, AwaitKeepsQmp DEF QmpNext, Host, Qemu
<1> QED
  BY <1>1, <1>2, PTL DEF QmpSpec

\* request_qmp_shutdown loses no message, completes only with a shutdown and
\* fails only for a cause outside the host.
THEOREM ShutdownAlwaysSound ==
    QmpSpec => []QmpInv
<1>1. QmpFlow => QmpInv
  <2> SUFFICES ASSUME QmpFlow PROVE QmpInv
    OBVIOUS
  <2> USE DEF QmpFlow
  <2>1. QmpTypeOK
    <3>1. \A i \in 1 .. Len(buffer) : buffer[i] \in Kinds \X {1, 2}
      BY DEF QmpTypes
    <3> QED
      BY <3>1, Zenon DEF QmpTypes, ResultFlow, QmpTypeOK
  <2>2. FramesAligned
    BY DEF StreamFlow, FramesAligned, Alternates, Unread
  <2> QED
    BY <2>1, <2>2 DEF ResultFlow, QmpInv
<1> QED
  BY <1>1, QmpInvariant, PTL
=============================================================================
