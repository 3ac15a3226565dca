----------------------- MODULE FormatPublicationProofs -----------------------
(***************************************************************************)
(* Proofs about publish_changed_sources, for any number of formatters,     *)
(* sources, edits and failures.  What makes the invariant inductive is how *)
(* far each formatter has come with each source (Progress), which lock     *)
(* files are its own (Owns), which rollback file its error message names   *)
(* (Promises), what it knows of the editor (Sees) and what a rollback has  *)
(* still to put back (Undoes).                                             *)
(***************************************************************************)
EXTENDS FormatPublication, WellFoundedInduction, TLAPS

USE FormatAssumption

Preparing == {"lock", "write", "staged", "saved", "recheck"}
Committing == {"revalidate", "commit", "sync", "verify", "clean", "rollback", "restore"}
Ended == {"drop", "returned", "crashed"}
FormatStates == {"read"} \cup Preparing \cup Committing \cup Ended

ProcRecord ==
    [pc : FormatStates, at : Nat, outcome : {"Ok", "Err", None},
     input : [Files -> Data \cup {None}],
     prepared : SUBSET Files, committed : SUBSET Files, preserve : SUBSET Files,
     replaced : SUBSET Files, promised : Files \cup {None}, seen : [Files -> Int]]

FormatTypes ==
    /\ dest \in [Files -> Data]
    /\ lock \in [Files -> Formatters \cup {None}]
    /\ stage \in [Formatters -> [Files -> Data \cup {Torn, None}]]
    /\ rollback \in [Formatters -> [Files -> Data \cup {Torn, None}]]
    /\ proc \in [Formatters -> ProcRecord]
    /\ edits \in 0 .. MaxEdits

\* The rollback file of f is whole and holds what was parsed.
Saved(p, f) ==
    /\ proc[p].input[f] \in Data
    /\ rollback[p][f] = [proc[p].input[f] EXCEPT !.file = p]

\* Both temporary files of f are written.
Ready(p, f) == Saved(p, f) /\ stage[p][f] = Staged(p, f)

\* The lock files and temporary files of p are those of its publications.
Owns(p) ==
    /\ proc[p].pc \notin {"returned", "crashed"} =>
          \A f \in Files : lock[f] = p <=> f \in proc[p].prepared
    /\ proc[p].pc = "returned" =>
          \A f \in Files : lock[f] # p /\ stage[p][f] = None
                           /\ (rollback[p][f] # None => f \in proc[p].preserve)
    /\ \A f \in Files \ proc[p].prepared : stage[p][f] = None /\ rollback[p][f] = None

\* A rollback file is preserved exactly when the error message names it.
Promises(p) ==
    /\ proc[p].pc \notin Ended => proc[p].preserve = {} /\ proc[p].promised = None
    /\ \/ proc[p].preserve = {} /\ proc[p].promised = None
       \/ /\ proc[p].promised \in Files
          /\ proc[p].preserve = {proc[p].promised}
          /\ Saved(p, proc[p].promised)

\* How far p has come: which sources are prepared, ready, committed.
Reads(p) ==
    /\ proc[p].pc = "read" =>
          /\ proc[p].at \in Files
          /\ \A g \in Files : g < proc[p].at => proc[p].input[g] \in Data
          /\ proc[p].prepared = {}
    /\ proc[p].pc \in Preparing \cup Committing => proc[p].input \in [Files -> Data]

Prepares(p) ==
    /\ proc[p].pc \in Preparing \cup {"revalidate", "commit", "verify"} =>
          proc[p].at \in Changed(p)
    /\ proc[p].pc = "lock" => proc[p].prepared = {g \in Changed(p) : g < proc[p].at}
    /\ proc[p].pc \in Preparing \ {"lock"} =>
          proc[p].prepared = {g \in Changed(p) : g <= proc[p].at}
    /\ proc[p].pc \in Preparing =>
          \A g \in Changed(p) : g < proc[p].at => Ready(p, g)
    /\ proc[p].pc \in {"saved", "recheck"} => stage[p][proc[p].at] = Staged(p, proc[p].at)
    /\ proc[p].pc = "recheck" => Saved(p, proc[p].at)
    /\ proc[p].pc \in Committing => proc[p].prepared = Changed(p) /\ Changed(p) # {}
    /\ proc[p].pc = "revalidate" => \A g \in Changed(p) : Ready(p, g)

Commits(p) ==
    /\ proc[p].committed \subseteq proc[p].replaced
    /\ proc[p].replaced \subseteq proc[p].prepared
    /\ proc[p].pc # "returned" => \A f \in proc[p].committed : Saved(p, f)
    /\ proc[p].pc \in {"read", "revalidate"} \cup Preparing => proc[p].replaced = {}
    /\ proc[p].pc = "commit" =>
          /\ proc[p].replaced = {g \in Changed(p) : g < proc[p].at}
          /\ \A g \in Changed(p) : g >= proc[p].at => Ready(p, g)
    /\ proc[p].pc \in {"commit", "sync", "verify"} => proc[p].committed = proc[p].replaced
    /\ proc[p].pc \in {"sync", "verify"} => proc[p].replaced = Changed(p)
    /\ proc[p].pc = "clean" =>
          /\ proc[p].at \in Changed(p) \cup {Sources + 1}
          /\ proc[p].committed = {g \in Changed(p) : g >= proc[p].at}
    /\ proc[p].pc \in {"rollback", "restore"} =>
          /\ proc[p].at \in proc[p].committed \cup {0}
          /\ \A g \in proc[p].committed : g <= proc[p].at
    /\ proc[p].pc = "restore" => proc[p].at # 0

Progress(p) == Reads(p) /\ Prepares(p) /\ Commits(p)

\* A source that was looked at for the last time is as it was parsed, or an
\* edit has come after the look.
Sees(p) ==
    proc[p].pc \in {"revalidate", "commit"} =>
        \A g \in Changed(p) :
            (IF proc[p].pc = "commit" THEN g >= proc[p].at ELSE g < proc[p].at) =>
                /\ proc[p].seen[g] <= edits
                /\ dest[g] = proc[p].input[g] \/ dest[g].text > proc[p].seen[g]

\* Without an editor a replaced source holds the formatted text until it is
\* restored, and what was parsed after that.
Undoes(p) ==
    edits = 0 =>
        /\ proc[p].pc \in {"commit", "sync", "verify", "rollback", "restore"} =>
              \A f \in proc[p].replaced :
                  IF f \in proc[p].committed THEN Published(p, f)
                  ELSE SameBytes(dest[f], proc[p].input[f])
        /\ proc[p].pc = "drop" /\ proc[p].outcome = "Err"
           /\ ~Failed(p, {"read", "remove", "restore"}) =>
              \A f \in proc[p].replaced : SameBytes(dest[f], proc[p].input[f])

\* Everything that is true of one formatter.
Formatter(p) == Owns(p) /\ Promises(p) /\ Progress(p) /\ Sees(p) /\ Undoes(p)

\* The inductive invariant.
FormatFlow == FormatTypes /\ \A p \in Formatters : Formatter(p)

-----------------------------------------------------------------------------
(* Selection order: the next changed source, the last committed one.       *)

\* A set of naturals that is not empty has a least element.
LEMMA LeastElement ==
  ASSUME NEW S \in SUBSET Nat, S # {}
  PROVE  \E m \in S : \A n \in S : m <= n
<1> DEFINE R == OpToRel(<, Nat)
<1>1. IsWellFoundedOn(R, Nat)
  BY NatLessThanWellFounded
<1>2. \A x, y \in Nat : <<y, x>> \in R <=> y < x
  BY DEF OpToRel
<1> HIDE DEF R
<1>3. PICK m \in S : \A n \in S : ~(<<n, m>> \in R)
  BY <1>1, WFMin
<1>4. \A n \in S : m <= n
  <2> TAKE n \in S
  <2>1. m \in Nat /\ n \in Nat
    OBVIOUS
  <2>2. ~(n < m)
    BY <1>2, <1>3, <2>1
  <2> QED
    BY <2>1, <2>2
<1> QED
  BY <1>4

\* A bounded one has a greatest element too.
LEMMA GreatestElement ==
  ASSUME NEW B \in Nat, NEW S \in SUBSET (0 .. B), S # {}
  PROVE  \E m \in S : \A n \in S : n <= m
<1> DEFINE T == {k \in Nat : B - k \in S}
<1>1. T \in SUBSET Nat /\ T # {}
  <2>1. PICK n \in S : TRUE
    OBVIOUS
  <2>2. n \in 0 .. B
    OBVIOUS
  <2>3. B - n \in Nat /\ B - (B - n) = n
    BY <2>2
  <2> QED
    BY <2>3, <2>1
<1>2. PICK k \in T : \A j \in T : k <= j
  <2> HIDE DEF T
  <2> QED
    BY <1>1, LeastElement
<1>3. B - k \in S
  OBVIOUS
<1>4. \A n \in S : n <= B - k
  <2> TAKE n \in S
  <2>1. n \in 0 .. B /\ k \in Nat
    OBVIOUS
  <2>2. B - n \in Nat /\ B - (B - n) = n
    BY <2>1
  <2>3. B - n \in T
    BY <2>2
  <2>4. k <= B - n
    BY <1>2, <2>3
  <2> HIDE DEF T
  <2> QED
    BY <2>1, <2>4
<1> QED
  BY <1>3, <1>4

\* g is the first changed source after f, or one past the last source.
Follows(p, f, g) ==
    /\ g \in Nat
    /\ g > f
    /\ g \in Changed(p) \cup {Sources + 1}
    /\ \A h \in Changed(p) : h > f => h >= g

\* g is the last committed source before f, or 0.
Precedes(p, f, g) ==
    /\ g \in Nat
    /\ g < f
    /\ g \in proc[p].committed \cup {0}
    /\ \A h \in proc[p].committed : h < f => h <= g

LEMMA ChangedAreFiles ==
  ASSUME NEW p
  PROVE  Changed(p) \subseteq Files
BY DEF Changed

LEMMA NextAfterFollows ==
  ASSUME NEW p, NEW f \in 0 .. Sources
  PROVE  Follows(p, f, NextAfter(p, f))
<1> DEFINE C == Changed(p)
           S == {g \in f + 1 .. Sources + 1 : g \in C \cup {Sources + 1}}
           Fits(g) == /\ g \in C \cup {Sources + 1}
                      /\ \A h \in f + 1 .. g - 1 : h \notin C
<1>0. C \subseteq Files
  BY ChangedAreFiles
<1> HIDE DEF C
<1>1. S \in SUBSET Nat /\ Sources + 1 \in S
  OBVIOUS
<1>2. PICK m \in S : \A n \in S : m <= n
  <2> HIDE DEF S
  <2> QED
    BY <1>1, LeastElement
<1>3. m \in f + 1 .. Sources + 1 /\ Fits(m)
  <2>1. \A h \in f + 1 .. m - 1 : h \notin C
    <3> SUFFICES ASSUME NEW h \in f + 1 .. m - 1, h \in C PROVE FALSE
      OBVIOUS
    <3>1. m \in Nat /\ h \in Nat /\ h < m /\ h \in f + 1 .. Sources + 1
      OBVIOUS
    <3>2. h \in S
      BY <3>1
    <3>3. m <= h
      BY <1>2, <3>2
    <3> QED
      BY <3>1, <3>3
  <2> QED
    BY <2>1
<1>4. NextAfter(p, f) = CHOOSE g \in f + 1 .. Sources + 1 : Fits(g)
  BY DEF NextAfter, C
<1> DEFINE g == NextAfter(p, f)
<1>5. g \in f + 1 .. Sources + 1 /\ Fits(g)
  <2> HIDE DEF Fits, g
  <2>1. g = CHOOSE x \in f + 1 .. Sources + 1 : Fits(x)
    BY <1>4 DEF g
  <2> QED
    BY <2>1, <1>3
<1> HIDE DEF g
<1>6. \A h \in C : h > f => h >= g
  <2> SUFFICES ASSUME NEW h \in C, h > f, ~(h >= g) PROVE FALSE
    OBVIOUS
  <2>1. h \in Nat /\ g \in Nat
    BY <1>0, <1>5 DEF Files
  <2>2. h \in f + 1 .. g - 1
    BY <2>1
  <2> QED
    BY <2>2, <1>5
<1>7. g \in Nat /\ g > f
  BY <1>5
<1> QED
  BY <1>5, <1>6, <1>7 DEF Follows, g, C

LEMMA PrevCommittedPrecedes ==
  ASSUME NEW p, NEW f \in 1 .. Sources + 1, proc[p].committed \subseteq Files
  PROVE  Precedes(p, f, PrevCommitted(p, f))
<1> DEFINE C == proc[p].committed
           S == {g \in 0 .. f - 1 : g \in C \cup {0}}
           Fits(g) == /\ g \in C \cup {0}
                      /\ \A h \in g + 1 .. f - 1 : h \notin C
<1>0. C \subseteq Files
  OBVIOUS
<1> HIDE DEF C
<1>1. f - 1 \in Nat /\ S \in SUBSET (0 .. f - 1) /\ 0 \in S
  OBVIOUS
<1>2. PICK m \in S : \A n \in S : n <= m
  <2> HIDE DEF S
  <2> QED
    BY <1>1, GreatestElement
<1>3. m \in 0 .. f - 1 /\ Fits(m)
  <2>1. \A h \in m + 1 .. f - 1 : h \notin C
    <3> SUFFICES ASSUME NEW h \in m + 1 .. f - 1, h \in C PROVE FALSE
      OBVIOUS
    <3>1. m \in Nat /\ h \in Nat /\ h > m /\ h \in 0 .. f - 1
      OBVIOUS
    <3>2. h \in S
      BY <3>1
    <3>3. h <= m
      BY <1>2, <3>2
    <3> QED
      BY <3>1, <3>3
  <2> QED
    BY <2>1
<1>4. PrevCommitted(p, f) = CHOOSE g \in 0 .. f - 1 : Fits(g)
  BY DEF PrevCommitted, C
<1> DEFINE g == PrevCommitted(p, f)
<1>5. g \in 0 .. f - 1 /\ Fits(g)
  <2> HIDE DEF Fits, g
  <2>1. g = CHOOSE x \in 0 .. f - 1 : Fits(x)
    BY <1>4 DEF g
  <2> QED
    BY <2>1, <1>3
<1> HIDE DEF g
<1>6. \A h \in C : h < f => h <= g
  <2> SUFFICES ASSUME NEW h \in C, h < f, ~(h <= g) PROVE FALSE
    OBVIOUS
  <2>1. h \in Nat /\ g \in Nat
    BY <1>0, <1>5 DEF Files
  <2>2. h \in g + 1 .. f - 1
    BY <2>1
  <2> QED
    BY <2>2, <1>5
<1>7. g \in Nat /\ g < f
  BY <1>5
<1> QED
  BY <1>5, <1>6, <1>7 DEF Precedes, g, C

-----------------------------------------------------------------------------
(* What a step of one formatter means to another.                          *)

\* A step of p leaves q alone, and the sources and lock files that q holds.
Spares(p, q) ==
    /\ proc'[q] = proc[q]
    /\ stage'[q] = stage[q]
    /\ rollback'[q] = rollback[q]
    /\ \A k \in {"read", "remove", "restore"} :
          [kind |-> k, by |-> q] \in faults' <=> [kind |-> k, by |-> q] \in faults
    /\ \A f \in Files : lock'[f] = q <=> lock[f] = q
    /\ \A f \in Files : lock[f] = q => dest'[f] = dest[f]

\* The definitions about q keep their meaning while its record and its
\* temporary files stay.
LEMMA SameRecord ==
  ASSUME NEW q, proc'[q].input = proc[q].input
  PROVE  /\ Changed(q)' = Changed(q)
         /\ \A f : Staged(q, f)' = Staged(q, f)
         /\ \A f : rollback'[q][f] = rollback[q][f] => (Saved(q, f)' <=> Saved(q, f))
         /\ \A f : rollback'[q][f] = rollback[q][f] /\ stage'[q][f] = stage[q][f] =>
                (Ready(q, f)' <=> Ready(q, f))
         /\ \A f : dest'[f] = dest[f] => (Published(q, f)' <=> Published(q, f))
<1>1. Changed(q)' = Changed(q)
  BY DEF Changed
<1>2. \A f : Staged(q, f)' = Staged(q, f)
  BY DEF Staged
<1>3. \A f : rollback'[q][f] = rollback[q][f] => (Saved(q, f)' <=> Saved(q, f))
  BY DEF Saved
<1>4. \A f : rollback'[q][f] = rollback[q][f] /\ stage'[q][f] = stage[q][f] =>
                (Ready(q, f)' <=> Ready(q, f))
  BY <1>2, <1>3 DEF Ready
<1>5. \A f : dest'[f] = dest[f] => (Published(q, f)' <=> Published(q, f))
  BY DEF Published, SameBytes
<1> QED
  BY <1>1, <1>2, <1>3, <1>4, <1>5

LEMMA SparedFormatter ==
  ASSUME FormatTypes, NEW p \in Formatters, NEW q \in Formatters,
         Spares(p, q), edits' = edits, Formatter(q)
  PROVE  Formatter(q)'
<1>0. /\ Owns(q) /\ Promises(q) /\ Reads(q) /\ Prepares(q) /\ Commits(q) /\ Sees(q) /\ Undoes(q)
      /\ proc'[q] = proc[q] /\ stage'[q] = stage[q] /\ rollback'[q] = rollback[q]
  BY DEF Formatter, Progress, Spares
<1>1. /\ Changed(q)' = Changed(q)
      /\ \A f : Staged(q, f)' = Staged(q, f)
      /\ \A f : Saved(q, f)' <=> Saved(q, f)
      /\ \A f : Ready(q, f)' <=> Ready(q, f)
      /\ \A f : dest'[f] = dest[f] => (Published(q, f)' <=> Published(q, f))
  BY <1>0, SameRecord
<1>2. \A f \in Files : lock'[f] = q <=> lock[f] = q
  BY DEF Spares
<1>3. proc[q].pc \notin {"returned", "crashed"} =>
        \A f \in proc[q].prepared : f \in Files /\ dest'[f] = dest[f]
  <2>1. proc[q].prepared \subseteq Files
    BY DEF FormatTypes, ProcRecord
  <2> QED
    BY <1>0, <2>1 DEF Owns, Spares
<1>4. Owns(q)'
  BY <1>0, <1>2 DEF Owns
<1>5. Promises(q)'
  BY <1>0, <1>1 DEF Promises
<1>6. Reads(q)'
  BY <1>0 DEF Reads
<1>7. Prepares(q)'
  BY <1>0, <1>1 DEF Prepares
<1>8. Commits(q)'
  BY <1>0, <1>1 DEF Commits
<1>9. Sees(q)'
  <2>1. proc[q].pc \in {"revalidate", "commit"} => \A g \in Changed(q) : dest'[g] = dest[g]
    BY <1>0, <1>3 DEF Prepares, Committing
  <2> QED
    BY <1>0, <1>1, <2>1 DEF Sees
<1>10. Undoes(q)'
  <2>1. proc[q].pc \notin {"returned", "crashed"} =>
          \A f \in proc[q].replaced : dest'[f] = dest[f]
    BY <1>0, <1>3 DEF Commits
  <2>2. Failed(q, {"read", "remove", "restore"})' <=> Failed(q, {"read", "remove", "restore"})
    BY DEF Failed, Spares
  <2>3. ASSUME edits = 0,
               proc[q].pc \in {"commit", "sync", "verify", "rollback", "restore"},
               NEW f \in proc[q].replaced
        PROVE  IF f \in proc[q].committed THEN Published(q, f)'
               ELSE SameBytes(dest'[f], proc[q].input[f])
    BY <1>0, <1>1, <2>1, <2>3 DEF Undoes
  <2>4. ASSUME edits = 0, proc[q].pc = "drop", proc[q].outcome = "Err",
               ~Failed(q, {"read", "remove", "restore"}), NEW f \in proc[q].replaced
        PROVE  SameBytes(dest'[f], proc[q].input[f])
    BY <1>0, <2>1, <2>4 DEF Undoes
  <2> QED
    BY <1>0, <2>2, <2>3, <2>4 DEF Undoes
<1> QED
  BY <1>4, <1>5, <1>6, <1>7, <1>8, <1>9, <1>10 DEF Formatter, Progress

-----------------------------------------------------------------------------
(* Steps that change nothing but the record of their process.              *)

\* What a step of p has to establish.
Keeps(p) ==
    /\ FormatTypes'
    /\ Formatter(p)'
    /\ edits' = edits
    /\ \A q \in Formatters \ {p} : Spares(p, q)

\* At most a failure of p is recorded.
FaultsOf(p) == \E k : faults' \in {faults, faults \cup {[kind |-> k, by |-> p]}}

\* The files stay, and p goes on with the record r.
Becomes(p, r) ==
    /\ Goto(p, r)
    /\ dest' = dest /\ lock' = lock /\ stage' = stage /\ rollback' = rollback
    /\ edits' = edits
    /\ FaultsOf(p)

LEMMA FaultsSpare ==
  ASSUME NEW p, NEW q, q # p, FaultsOf(p), NEW k
  PROVE  [kind |-> k, by |-> q] \in faults' <=> [kind |-> k, by |-> q] \in faults
<1>1. PICK j : faults' \in {faults, faults \cup {[kind |-> j, by |-> p]}}
  BY DEF FaultsOf
<1>2. [kind |-> k, by |-> q] # [kind |-> j, by |-> p]
  OBVIOUS
<1> QED
  BY <1>1, <1>2

LEMMA FaultRecorded ==
  ASSUME NEW p, NEW k, Fault(p, k)
  PROVE  FaultsOf(p) /\ [kind |-> k, by |-> p] \in faults'
BY DEF Fault, FaultsOf

LEMMA NoFault ==
  ASSUME NEW p, faults' = faults
  PROVE  FaultsOf(p)
BY DEF FaultsOf

LEMMA BecomesSpares ==
  ASSUME FormatTypes, NEW p \in Formatters, NEW r \in ProcRecord, Becomes(p, r)
  PROVE  /\ FormatTypes'
         /\ proc'[p] = r
         /\ edits' = edits
         /\ \A q \in Formatters \ {p} : Spares(p, q)
<1>1. proc' = [proc EXCEPT ![p] = r]
  BY DEF Becomes, Goto
<1>2. proc' \in [Formatters -> ProcRecord] /\ proc'[p] = r
  BY <1>1 DEF FormatTypes
<1>3. FormatTypes'
  BY <1>2 DEF FormatTypes, Becomes
<1>4. ASSUME NEW q \in Formatters \ {p} PROVE Spares(p, q)
  <2>1. proc'[q] = proc[q]
    BY <1>1 DEF FormatTypes
  <2>2. \A k \in {"read", "remove", "restore"} :
          [kind |-> k, by |-> q] \in faults' <=> [kind |-> k, by |-> q] \in faults
    BY FaultsSpare DEF Becomes
  <2> QED
    BY <2>1, <2>2 DEF Spares, Becomes
<1> QED
  BY <1>2, <1>3, <1>4 DEF Becomes

\* The parts of the invariant of one formatter, and the types of its record.
LEMMA Unfold ==
  ASSUME FormatTypes, NEW p \in Formatters, Formatter(p)
  PROVE  /\ proc[p] \in ProcRecord
         /\ Owns(p) /\ Promises(p) /\ Reads(p) /\ Prepares(p) /\ Commits(p)
         /\ Sees(p) /\ Undoes(p)
BY DEF FormatTypes, Formatter, Progress

\* The process returns an error or Ok and its publications are dropped next.
LEMMA Drops ==
  ASSUME FormatTypes, NEW p \in Formatters, Formatter(p), NEW o \in {"Ok", "Err"},
         proc[p].pc \notin Ended,
         Becomes(p, [proc[p] EXCEPT !.pc = "drop", !.outcome = o]),
         o = "Err" /\ edits = 0 /\ ~Failed(p, {"read", "remove", "restore"})' =>
             \A f \in proc[p].replaced : SameBytes(dest[f], proc[p].input[f])
  PROVE  Keeps(p)
<1> DEFINE r == [proc[p] EXCEPT !.pc = "drop", !.outcome = o]
<1>0. /\ proc[p] \in ProcRecord
      /\ Owns(p) /\ Promises(p) /\ Reads(p) /\ Prepares(p) /\ Commits(p)
      /\ Sees(p) /\ Undoes(p)
  BY Unfold
<1>1. /\ r \in ProcRecord
      /\ r.pc = "drop" /\ r.outcome = o
      /\ r.input = proc[p].input /\ r.prepared = proc[p].prepared
      /\ r.committed = proc[p].committed /\ r.replaced = proc[p].replaced
      /\ r.preserve = proc[p].preserve /\ r.promised = proc[p].promised
  BY <1>0 DEF ProcRecord, FormatStates, Ended
<1>2. Becomes(p, r)
  OBVIOUS
<1> HIDE DEF r
<1>3. /\ FormatTypes' /\ edits' = edits /\ proc'[p] = r
      /\ \A q \in Formatters \ {p} : Spares(p, q)
  BY <1>1, <1>2, BecomesSpares
<1>4. /\ dest' = dest /\ lock' = lock /\ stage' = stage /\ rollback' = rollback
  BY <1>2 DEF Becomes
<1>5. \A f : Saved(p, f)' <=> Saved(p, f)
  BY <1>1, <1>3, <1>4, SameRecord
<1>6. Owns(p)'
  BY <1>0, <1>1, <1>3, <1>4 DEF Owns, Ended
<1>7. Promises(p)'
  BY <1>0, <1>1, <1>3, <1>5 DEF Promises, Ended
<1>8. Reads(p)' /\ Prepares(p)' /\ Sees(p)'
  BY <1>1, <1>3 DEF Reads, Prepares, Sees, Preparing, Committing
<1>9. Commits(p)'
  BY <1>0, <1>1, <1>3, <1>5 DEF Commits, Preparing, Ended
<1>10. Undoes(p)'
  BY <1>1, <1>3, <1>4 DEF Undoes
<1> QED
  BY <1>3, <1>6, <1>7, <1>8, <1>9, <1>10 DEF Keeps, Formatter, Progress

\* Restoring the current source failed: its rollback file is kept, and named in
\* the error message.
LEMMA DropsWithPromise ==
  ASSUME FormatTypes, NEW p \in Formatters, Formatter(p),
         proc[p].pc \in {"rollback", "restore"}, proc[p].at # 0,
         Becomes(p, [proc[p] EXCEPT !.pc = "drop", !.outcome = "Err",
                                    !.preserve = Kept(p), !.promised = proc[p].at]),
         edits = 0 => Failed(p, {"read", "remove", "restore"})'
  PROVE  Keeps(p)
<1> DEFINE r == [proc[p] EXCEPT !.pc = "drop", !.outcome = "Err",
                                !.preserve = Kept(p), !.promised = proc[p].at]
<1>0. /\ proc[p] \in ProcRecord
      /\ Owns(p) /\ Promises(p) /\ Reads(p) /\ Prepares(p) /\ Commits(p)
      /\ Sees(p) /\ Undoes(p)
  BY Unfold
<1>a. /\ proc[p].at \in proc[p].committed /\ proc[p].at \in Files
      /\ Saved(p, proc[p].at) /\ Kept(p) = {proc[p].at}
  <2>1. proc[p].at \in proc[p].committed /\ proc[p].committed \subseteq Files
    BY <1>0 DEF Commits, ProcRecord
  <2>2. proc[p].preserve = {}
    BY <1>0 DEF Promises, Ended
  <2> QED
    BY <1>0, <2>1, <2>2 DEF Commits, Kept
<1>1. /\ r \in ProcRecord
      /\ r.pc = "drop" /\ r.outcome = "Err"
      /\ r.input = proc[p].input /\ r.prepared = proc[p].prepared
      /\ r.committed = proc[p].committed /\ r.replaced = proc[p].replaced
      /\ r.preserve = {proc[p].at} /\ r.promised = proc[p].at
  BY <1>0, <1>a DEF ProcRecord, FormatStates, Ended
<1>2. Becomes(p, r)
  OBVIOUS
<1> HIDE DEF r
<1>3. /\ FormatTypes' /\ edits' = edits /\ proc'[p] = r
      /\ \A q \in Formatters \ {p} : Spares(p, q)
  BY <1>1, <1>2, BecomesSpares
<1>4. /\ dest' = dest /\ lock' = lock /\ stage' = stage /\ rollback' = rollback
  BY <1>2 DEF Becomes
<1>5. \A f : Saved(p, f)' <=> Saved(p, f)
  BY <1>1, <1>3, <1>4, SameRecord
<1>6. Owns(p)'
  BY <1>0, <1>1, <1>3, <1>4 DEF Owns
<1>7. Promises(p)'
  BY <1>a, <1>1, <1>3, <1>5 DEF Promises, Ended
<1>8. Reads(p)' /\ Prepares(p)' /\ Sees(p)'
  BY <1>1, <1>3 DEF Reads, Prepares, Sees, Preparing, Committing
<1>9. Commits(p)'
  BY <1>0, <1>1, <1>3, <1>5 DEF Commits, Preparing
<1>10. Undoes(p)'
  BY <1>1, <1>3, <1>4 DEF Undoes
<1> QED
  BY <1>3, <1>6, <1>7, <1>8, <1>9, <1>10 DEF Keeps, Formatter, Progress

\* All that is said of p but where it is stays as it was.
SameBut(p, pc, g) ==
    /\ proc'[p].pc = pc /\ proc'[p].at = g
    /\ proc'[p].prepared = proc[p].prepared /\ proc'[p].committed = proc[p].committed
    /\ proc'[p].replaced = proc[p].replaced /\ proc'[p].input = proc[p].input
    /\ stage' = stage /\ dest' = dest /\ edits' = edits
    /\ Changed(p)' = Changed(p)
    /\ \A f : Staged(p, f)' = Staged(p, f)
    /\ \A f : Saved(p, f)' <=> Saved(p, f)
    /\ \A f : Ready(p, f)' <=> Ready(p, f)
    /\ \A f : Published(p, f)' <=> Published(p, f)

\* The process goes on to another state and source.
LEMMA Goes ==
  ASSUME FormatTypes, NEW p \in Formatters, Formatter(p),
         proc[p].pc \in Preparing \cup Committing,
         NEW pc \in Preparing \cup Committing, NEW g \in Nat,
         NEW s \in [Files -> Int],
         Becomes(p, [proc[p] EXCEPT !.pc = pc, !.at = g, !.seen = s])
  PROVE  /\ SameBut(p, pc, g)
         /\ proc'[p].seen = s
         /\ Prepares(p)' /\ Commits(p)' /\ Sees(p)' /\ Undoes(p)' => Keeps(p)
<1> DEFINE r == [proc[p] EXCEPT !.pc = pc, !.at = g, !.seen = s]
<1>0. /\ proc[p] \in ProcRecord
      /\ Owns(p) /\ Promises(p) /\ Reads(p) /\ Prepares(p) /\ Commits(p)
      /\ Sees(p) /\ Undoes(p)
  BY Unfold
<1>1. /\ r \in ProcRecord
      /\ r.pc = pc /\ r.at = g /\ r.seen = s
      /\ r.input = proc[p].input /\ r.prepared = proc[p].prepared
      /\ r.committed = proc[p].committed /\ r.replaced = proc[p].replaced
      /\ r.preserve = proc[p].preserve /\ r.promised = proc[p].promised
  BY <1>0 DEF ProcRecord, FormatStates
<1>2. Becomes(p, r)
  OBVIOUS
<1> HIDE DEF r
<1>3. /\ FormatTypes' /\ edits' = edits /\ proc'[p] = r
      /\ \A q \in Formatters \ {p} : Spares(p, q)
  BY <1>1, <1>2, BecomesSpares
<1>4. /\ dest' = dest /\ lock' = lock /\ stage' = stage /\ rollback' = rollback
  BY <1>2 DEF Becomes
<1>5. /\ Changed(p)' = Changed(p)
      /\ \A f : Staged(p, f)' = Staged(p, f)
      /\ \A f : Saved(p, f)' <=> Saved(p, f)
      /\ \A f : Ready(p, f)' <=> Ready(p, f)
      /\ \A f : Published(p, f)' <=> Published(p, f)
  BY <1>1, <1>3, <1>4, SameRecord
<1>6. Owns(p)'
  BY <1>0, <1>1, <1>3, <1>4 DEF Owns, Preparing, Committing
<1>7. Promises(p)'
  BY <1>0, <1>1, <1>3, <1>5 DEF Promises, Preparing, Committing, Ended
<1>8. Reads(p)'
  BY <1>0, <1>1, <1>3 DEF Reads, Preparing, Committing
<1>9. SameBut(p, pc, g) /\ proc'[p].seen = s
  BY <1>1, <1>3, <1>4, <1>5 DEF SameBut
<1> QED
  BY <1>3, <1>6, <1>7, <1>8, <1>9 DEF Keeps, Formatter, Progress

\* At(p, pc, g) is such a record.
LEMMA GoesAt ==
  ASSUME FormatTypes, NEW p \in Formatters, Formatter(p),
         proc[p].pc \in Preparing \cup Committing,
         NEW pc \in Preparing \cup Committing, NEW g \in Nat,
         Becomes(p, At(p, pc, g))
  PROVE  /\ SameBut(p, pc, g)
         /\ proc'[p].seen = proc[p].seen
         /\ Prepares(p)' /\ Commits(p)' /\ Sees(p)' /\ Undoes(p)' => Keeps(p)
<1> DEFINE s == proc[p].seen
<1>1. At(p, pc, g) = [proc[p] EXCEPT !.pc = pc, !.at = g, !.seen = s]
  BY DEF At, FormatTypes, ProcRecord
<1>2. s \in [Files -> Int]
  BY DEF FormatTypes, ProcRecord
<1>3. Becomes(p, [proc[p] EXCEPT !.pc = pc, !.at = g, !.seen = s])
  BY <1>1, Zenon
<1> HIDE DEF s
<1>4. /\ SameBut(p, pc, g)
      /\ proc'[p].seen = s
      /\ Prepares(p)' /\ Commits(p)' /\ Sees(p)' /\ Undoes(p)' => Keeps(p)
  BY <1>2, <1>3, Goes, Zenon
<1> QED
  BY <1>4 DEF s

LEMMA RecheckKeeps ==
  ASSUME FormatTypes, NEW p \in Formatters, Formatter(p), Recheck(p)
  PROVE  Keeps(p)
<1> DEFINE f == proc[p].at
           g == NextAfter(p, f)
<1>0. /\ proc[p] \in ProcRecord /\ proc[p].pc = "recheck"
      /\ Owns(p) /\ Promises(p) /\ Reads(p) /\ Prepares(p) /\ Commits(p)
      /\ Sees(p) /\ Undoes(p)
  BY Unfold DEF Recheck
<1>1. FaultsOf(p)
  BY NoFault DEF Recheck
<1>2. f \in Changed(p) /\ f \in Files /\ f \in Nat
  BY <1>0, ChangedAreFiles DEF Prepares, Preparing, ProcRecord
<1>3. Follows(p, f, g) /\ Follows(p, 0, NextAfter(p, 0))
  BY <1>2, NextAfterFollows DEF Files
<1>4. CASE ~Unchanged(p, f)
  <2>1. Becomes(p, [proc[p] EXCEPT !.pc = "drop", !.outcome = "Err"])
    BY <1>4, <1>1 DEF Recheck, Becomes
  <2>2. proc[p].replaced = {}
    BY <1>0 DEF Commits, Preparing
  <2> QED
    BY <1>0, <2>1, <2>2, Drops DEF Ended
<1>5. CASE Unchanged(p, f) /\ g = Sources + 1
  <2> DEFINE h == NextAfter(p, 0)
  <2>1. Becomes(p, At(p, "revalidate", h))
    BY <1>5, <1>1 DEF Recheck, Becomes
  <2>2. h \in Nat /\ h \in Changed(p)
    BY <1>2, <1>3 DEF Follows, Files
  <2>a. \A x \in Changed(p) : x \in Nat /\ x <= f
    BY <1>2, <1>3, <1>5, ChangedAreFiles DEF Follows, Files
  <2>b. \A x \in Changed(p) : x >= h /\ x \in Nat
    BY <1>3, ChangedAreFiles DEF Follows, Files
  <2>c. \A x \in Changed(p) : x < f \/ x = f
    BY <2>a, <1>2
  <2> HIDE DEF h
  <2>3. /\ SameBut(p, "revalidate", h)
        /\ Prepares(p)' /\ Commits(p)' /\ Sees(p)' /\ Undoes(p)' => Keeps(p)
    BY <1>0, <2>1, <2>2, GoesAt DEF Preparing, Committing
  <2>4. Prepares(p)'
    <3>1. \A x \in Changed(p) : Ready(p, x)
      BY <1>0, <2>c DEF Prepares, Preparing, Ready
    <3>2. proc[p].prepared = Changed(p)
      BY <1>0, <2>a DEF Prepares, Preparing
    <3> QED
      BY <2>2, <2>3, <3>1, <3>2 DEF Prepares, SameBut, Preparing, Committing
  <2>5. Commits(p)'
    BY <1>0, <2>3 DEF Commits, SameBut, Preparing
  <2>6. Sees(p)'
    <3>1. \A x \in Changed(p) : ~(x < h)
      BY <2>2, <2>b
    <3> QED
      BY <2>3, <3>1 DEF Sees, SameBut
  <2>7. Undoes(p)'
    BY <2>3 DEF Undoes, SameBut
  <2> QED
    BY <2>3, <2>4, <2>5, <2>6, <2>7
<1>6. CASE Unchanged(p, f) /\ g # Sources + 1
  <2>1. Becomes(p, At(p, "lock", g))
    BY <1>6, <1>1 DEF Recheck, Becomes
  <2>2. g \in Nat /\ g \in Changed(p) /\ g > f
    BY <1>3, <1>6 DEF Follows
  <2>a. \A x \in Changed(p) : x \in Nat /\ (x > f => x >= g)
    BY <1>3, ChangedAreFiles DEF Follows, Files
  <2>b. \A x \in Changed(p) : x < g <=> x <= f
    BY <2>a, <2>2, <1>2
  <2>c. \A x \in Changed(p) : x < g => x < f \/ x = f
    BY <2>a, <2>2, <1>2
  <2> HIDE DEF g
  <2>3. /\ SameBut(p, "lock", g)
        /\ Prepares(p)' /\ Commits(p)' /\ Sees(p)' /\ Undoes(p)' => Keeps(p)
    BY <1>0, <2>1, <2>2, GoesAt DEF Preparing, Committing
  <2>4. Prepares(p)'
    <3>1. \A x \in Changed(p) : x < g => Ready(p, x)
      BY <1>0, <2>c DEF Prepares, Preparing, Ready
    <3>2. proc[p].prepared = {x \in Changed(p) : x < g}
      BY <1>0, <2>b DEF Prepares, Preparing
    <3> QED
      BY <2>2, <2>3, <3>1, <3>2 DEF Prepares, SameBut, Preparing, Committing
  <2>5. Commits(p)'
    BY <1>0, <2>3 DEF Commits, SameBut, Preparing
  <2>6. Sees(p)' /\ Undoes(p)'
    BY <2>3 DEF Sees, Undoes, SameBut
  <2> QED
    BY <2>3, <2>4, <2>5, <2>6
<1> QED
  BY <1>4, <1>5, <1>6

LEMMA RevalidateKeeps ==
  ASSUME FormatTypes, NEW p \in Formatters, Formatter(p), Revalidate(p)
  PROVE  Keeps(p)
<1> DEFINE f == proc[p].at
           g == NextAfter(p, f)
           s == [proc[p].seen EXCEPT ![f] = edits]
<1>0. /\ proc[p] \in ProcRecord /\ proc[p].pc = "revalidate"
      /\ Owns(p) /\ Promises(p) /\ Reads(p) /\ Prepares(p) /\ Commits(p)
      /\ Sees(p) /\ Undoes(p)
  BY Unfold DEF Revalidate
<1>1. FaultsOf(p)
  BY NoFault DEF Revalidate
<1>2. f \in Changed(p) /\ f \in Files /\ f \in Nat
  BY <1>0, ChangedAreFiles DEF Prepares, Preparing, ProcRecord
<1>3. Follows(p, f, g) /\ Follows(p, 0, NextAfter(p, 0))
  BY <1>2, NextAfterFollows DEF Files
<1>a. edits \in Nat /\ edits \in Int
  BY DEF FormatTypes
<1>b. /\ s \in [Files -> Int] /\ s[f] = edits
      /\ \A x \in Files : x # f => s[x] = proc[p].seen[x]
  BY <1>0, <1>2, <1>a DEF ProcRecord
<1>c. \A pc, h : [At(p, pc, h) EXCEPT !.seen[f] = edits] =
                   [proc[p] EXCEPT !.pc = pc, !.at = h, !.seen = s]
  BY <1>0 DEF At, ProcRecord
<1>4. CASE ~Unchanged(p, f)
  <2>1. Becomes(p, [proc[p] EXCEPT !.pc = "drop", !.outcome = "Err"])
    BY <1>4, <1>1 DEF Revalidate, Becomes
  <2>2. proc[p].replaced = {}
    BY <1>0 DEF Commits, Preparing
  <2> QED
    BY <1>0, <2>1, <2>2, Drops DEF Ended
<1>5. ASSUME Unchanged(p, f), NEW x \in Changed(p), x <= f
      PROVE  /\ s[x] <= edits
             /\ dest[x] = proc[p].input[x] \/ dest[x].text > s[x]
  <2>1. x \in Files /\ x \in Nat
    BY ChangedAreFiles DEF Files
  <2>2. CASE x = f
    BY <2>2, <1>5, <1>a, <1>b DEF Unchanged
  <2>3. CASE x # f
    <3>1. x < f
      BY <2>1, <2>3, <1>2, <1>5
    <3>2. s[x] = proc[p].seen[x]
      BY <1>b, <2>1, <2>3
    <3>3. /\ proc[p].seen[x] <= edits
          /\ dest[x] = proc[p].input[x] \/ dest[x].text > proc[p].seen[x]
      BY <1>0, <3>1 DEF Sees
    <3> QED
      BY <3>2, <3>3
  <2> QED
    BY <2>2, <2>3
<1>6. CASE Unchanged(p, f) /\ g = Sources + 1
  <2> DEFINE h == NextAfter(p, 0)
  <2>1. Goto(p, [proc[p] EXCEPT !.pc = "commit", !.at = h, !.seen = s])
    BY <1>6, <1>c DEF Revalidate
  <2>2. Becomes(p, [proc[p] EXCEPT !.pc = "commit", !.at = h, !.seen = s])
    BY <2>1, <1>1 DEF Revalidate, Becomes
  <2>3. h \in Nat /\ h \in Changed(p)
    BY <1>2, <1>3 DEF Follows, Files
  <2>a. \A x \in Changed(p) : x \in Nat /\ x <= f
    BY <1>2, <1>3, <1>6, ChangedAreFiles DEF Follows, Files
  <2>b. \A x \in Changed(p) : ~(x < h)
    <3>1. \A x \in Changed(p) : x >= h
      BY <1>3, ChangedAreFiles DEF Follows, Files
    <3> QED
      BY <3>1, <2>a, <2>3
  <2> HIDE DEF h, s
  <2>4. /\ SameBut(p, "commit", h) /\ proc'[p].seen = s
        /\ Prepares(p)' /\ Commits(p)' /\ Sees(p)' /\ Undoes(p)' => Keeps(p)
    <3>1. "commit" \in Preparing \cup Committing /\ proc[p].pc \in Preparing \cup Committing
      BY <1>0 DEF Preparing, Committing
    <3> QED
      BY <3>1, <1>b, <2>2, <2>3, Goes, Zenon
  <2>5. Prepares(p)'
    BY <1>0, <2>3, <2>4 DEF Prepares, SameBut, Preparing, Committing
  <2>6. Commits(p)'
    <3>1. proc[p].replaced = {} /\ proc[p].committed = {}
      BY <1>0 DEF Commits
    <3>2. \A x \in Changed(p) : Ready(p, x)
      BY <1>0 DEF Prepares
    <3> QED
      BY <3>1, <3>2, <2>b, <2>4 DEF Commits, SameBut, Preparing
  <2>7. Sees(p)'
    <3>1. \A x \in Changed(p) : s[x] <= edits /\ (dest[x] = proc[p].input[x] \/ dest[x].text > s[x])
      BY <2>a, <1>5, <1>6
    <3> QED
      BY <3>1, <2>4 DEF Sees, SameBut
  <2>8. Undoes(p)'
    <3>1. proc[p].replaced = {}
      BY <1>0 DEF Commits
    <3> QED
      BY <3>1, <2>4 DEF Undoes, SameBut
  <2> QED
    BY <2>4, <2>5, <2>6, <2>7, <2>8
<1>7. CASE Unchanged(p, f) /\ g # Sources + 1
  <2>1. Goto(p, [proc[p] EXCEPT !.pc = "revalidate", !.at = g, !.seen = s])
    BY <1>7, <1>c DEF Revalidate
  <2>2. Becomes(p, [proc[p] EXCEPT !.pc = "revalidate", !.at = g, !.seen = s])
    BY <2>1, <1>1 DEF Revalidate, Becomes
  <2>3. g \in Nat /\ g \in Changed(p) /\ g > f
    BY <1>3, <1>7 DEF Follows
  <2>a. \A x \in Changed(p) : x \in Nat /\ (x > f => x >= g)
    BY <1>3, ChangedAreFiles DEF Follows, Files
  <2>b. \A x \in Changed(p) : x < g => x <= f
    BY <2>a, <2>3, <1>2
  <2> HIDE DEF g, s
  <2>4. /\ SameBut(p, "revalidate", g) /\ proc'[p].seen = s
        /\ Prepares(p)' /\ Commits(p)' /\ Sees(p)' /\ Undoes(p)' => Keeps(p)
    <3>1. "revalidate" \in Preparing \cup Committing /\ proc[p].pc \in Preparing \cup Committing
      BY <1>0 DEF Preparing, Committing
    <3> QED
      BY <3>1, <1>b, <2>2, <2>3, Goes, Zenon
  <2>5. Prepares(p)'
    BY <1>0, <2>3, <2>4 DEF Prepares, SameBut, Preparing, Committing
  <2>6. Commits(p)'
    BY <1>0, <2>4 DEF Commits, SameBut, Preparing
  <2>7. Sees(p)'
    <3>1. \A x \in Changed(p) : x < g =>
             s[x] <= edits /\ (dest[x] = proc[p].input[x] \/ dest[x].text > s[x])
      BY <2>b, <1>5, <1>7
    <3> QED
      BY <3>1, <2>4 DEF Sees, SameBut
  <2>8. Undoes(p)'
    BY <2>4 DEF Undoes, SameBut
  <2> QED
    BY <2>4, <2>5, <2>6, <2>7, <2>8
<1> QED
  BY <1>4, <1>6, <1>7

\* A failure before anything is visible.
LEMMA GiveUpKeeps ==
  ASSUME FormatTypes, NEW p \in Formatters, Formatter(p), GiveUp(p)
  PROVE  Keeps(p)
<1>0. Commits(p) /\ proc[p].pc \in {"read", "revalidate"} \cup Preparing
  BY Unfold DEF GiveUp, Preparing
<1>1. FaultsOf(p)
  BY FaultRecorded DEF GiveUp
<1>2. Becomes(p, [proc[p] EXCEPT !.pc = "drop", !.outcome = "Err"])
  BY <1>1 DEF GiveUp, Becomes
<1>3. proc[p].replaced = {}
  BY <1>0 DEF Commits
<1> QED
  BY <1>0, <1>2, <1>3, Drops DEF Ended, Preparing

\* The rollback begins with the last committed source.
LEMMA RollbackStarts ==
  ASSUME FormatTypes, NEW p \in Formatters, Formatter(p),
         proc[p].pc \in {"commit", "sync", "verify"},
         Becomes(p, At(p, "rollback", PrevCommitted(p, Sources + 1)))
  PROVE  Keeps(p)
<1> DEFINE g == PrevCommitted(p, Sources + 1)
<1>0. /\ proc[p] \in ProcRecord
      /\ Owns(p) /\ Promises(p) /\ Reads(p) /\ Prepares(p) /\ Commits(p)
      /\ Sees(p) /\ Undoes(p)
  BY Unfold
<1>1. proc[p].committed \subseteq Files
  BY <1>0 DEF ProcRecord
<1>2. Precedes(p, Sources + 1, g)
  BY <1>1, PrevCommittedPrecedes
<1>3. g \in Nat /\ g \in proc[p].committed \cup {0} /\ \A x \in proc[p].committed : x <= g
  BY <1>1, <1>2 DEF Precedes, Files
<1> HIDE DEF g
<1>4. /\ SameBut(p, "rollback", g)
      /\ Prepares(p)' /\ Commits(p)' /\ Sees(p)' /\ Undoes(p)' => Keeps(p)
  BY <1>3, GoesAt DEF g, Preparing, Committing
<1>5. Prepares(p)'
  BY <1>0, <1>4 DEF Prepares, SameBut, Preparing, Committing
<1>6. Commits(p)'
  BY <1>0, <1>3, <1>4 DEF Commits, SameBut, Preparing
<1>7. Sees(p)'
  BY <1>4 DEF Sees, SameBut
<1>8. Undoes(p)'
  BY <1>0, <1>4 DEF Undoes, SameBut
<1> QED
  BY <1>4, <1>5, <1>6, <1>7, <1>8

LEMMA CommitFailsKeeps ==
  ASSUME FormatTypes, NEW p \in Formatters, Formatter(p), CommitFails(p) \/ SyncFails(p)
  PROVE  Keeps(p)
<1>1. FaultsOf(p) /\ proc[p].pc \in {"commit", "sync", "verify"}
  BY FaultRecorded DEF CommitFails, SyncFails
<1>2. Becomes(p, At(p, "rollback", PrevCommitted(p, Sources + 1)))
  BY <1>1 DEF CommitFails, SyncFails, Becomes, StartRollback
<1> QED
  BY <1>1, <1>2, RollbackStarts
LEMMA SyncKeeps ==
  ASSUME FormatTypes, NEW p \in Formatters, Formatter(p), Sync(p)
  PROVE  Keeps(p)
<1> DEFINE g == NextAfter(p, 0)
<1>0. /\ proc[p] \in ProcRecord /\ proc[p].pc = "sync"
      /\ Owns(p) /\ Promises(p) /\ Reads(p) /\ Prepares(p) /\ Commits(p)
      /\ Sees(p) /\ Undoes(p)
  BY Unfold DEF Sync
<1>1. Becomes(p, At(p, "verify", g))
  BY NoFault DEF Sync, Becomes
<1>2. Follows(p, 0, g)
  BY NextAfterFollows
<1>3. g \in Nat /\ g \in Changed(p)
  <2>1. PICK x \in Changed(p) : TRUE
    BY <1>0 DEF Prepares, Committing
  <2> QED
    BY <1>2, <2>1, ChangedAreFiles DEF Follows, Files
<1> HIDE DEF g
<1>4. /\ SameBut(p, "verify", g)
      /\ Prepares(p)' /\ Commits(p)' /\ Sees(p)' /\ Undoes(p)' => Keeps(p)
  BY <1>0, <1>1, <1>3, GoesAt DEF Preparing, Committing
<1>5. Prepares(p)'
  BY <1>0, <1>3, <1>4 DEF Prepares, SameBut, Preparing, Committing
<1>6. Commits(p)'
  BY <1>0, <1>4 DEF Commits, SameBut, Preparing
<1>7. Sees(p)'
  BY <1>4 DEF Sees, SameBut
<1>8. Undoes(p)'
  BY <1>0, <1>4 DEF Undoes, SameBut
<1> QED
  BY <1>4, <1>5, <1>6, <1>7, <1>8

LEMMA VerifyKeeps ==
  ASSUME FormatTypes, NEW p \in Formatters, Formatter(p), Verify(p)
  PROVE  Keeps(p)
<1> DEFINE f == proc[p].at
           g == NextAfter(p, f)
           h == NextAfter(p, 0)
<1>0. /\ proc[p] \in ProcRecord /\ proc[p].pc = "verify"
      /\ Owns(p) /\ Promises(p) /\ Reads(p) /\ Prepares(p) /\ Commits(p)
      /\ Sees(p) /\ Undoes(p)
  BY Unfold DEF Verify
<1>1. FaultsOf(p)
  BY NoFault DEF Verify
<1>2. f \in Changed(p) /\ f \in Files /\ f \in Nat
  BY <1>0, ChangedAreFiles DEF Prepares, Preparing, ProcRecord
<1>3. Follows(p, f, g) /\ Follows(p, 0, h)
  BY <1>2, NextAfterFollows DEF Files
<1>4. CASE ~Published(p, f)
  <2>1. Becomes(p, At(p, "rollback", PrevCommitted(p, Sources + 1)))
    BY <1>1, <1>4 DEF Verify, Becomes, StartRollback
  <2> QED
    BY <1>0, <2>1, RollbackStarts
<1>5. CASE Published(p, f) /\ g = Sources + 1
  <2>1. Becomes(p, At(p, "clean", h))
    BY <1>1, <1>5 DEF Verify, Becomes
  <2>2. h \in Nat /\ h \in Changed(p)
    BY <1>2, <1>3 DEF Follows, Files
  <2>3. \A x \in Changed(p) : x >= h
    BY <1>3, ChangedAreFiles DEF Follows, Files
  <2> HIDE DEF h
  <2>4. /\ SameBut(p, "clean", h)
        /\ Prepares(p)' /\ Commits(p)' /\ Sees(p)' /\ Undoes(p)' => Keeps(p)
    BY <1>0, <2>1, <2>2, GoesAt DEF Preparing, Committing
  <2>5. Prepares(p)'
    BY <1>0, <2>4 DEF Prepares, SameBut, Preparing, Committing
  <2>6. Commits(p)'
    <3>1. proc[p].committed = {x \in Changed(p) : x >= h}
      BY <1>0, <2>3 DEF Commits
    <3> QED
      BY <1>0, <2>2, <2>4, <3>1 DEF Commits, SameBut, Preparing
  <2>7. Sees(p)' /\ Undoes(p)'
    BY <2>4 DEF Sees, Undoes, SameBut
  <2> QED
    BY <2>4, <2>5, <2>6, <2>7
<1>6. CASE Published(p, f) /\ g # Sources + 1
  <2>1. Becomes(p, At(p, "verify", g))
    BY <1>1, <1>6 DEF Verify, Becomes
  <2>2. g \in Nat /\ g \in Changed(p)
    BY <1>3, <1>6 DEF Follows
  <2> HIDE DEF g
  <2>4. /\ SameBut(p, "verify", g)
        /\ Prepares(p)' /\ Commits(p)' /\ Sees(p)' /\ Undoes(p)' => Keeps(p)
    BY <1>0, <2>1, <2>2, GoesAt DEF Preparing, Committing
  <2>5. Prepares(p)'
    BY <1>0, <2>2, <2>4 DEF Prepares, SameBut, Preparing, Committing
  <2>6. Commits(p)'
    BY <1>0, <2>4 DEF Commits, SameBut, Preparing
  <2>7. Sees(p)'
    BY <2>4 DEF Sees, SameBut
  <2>8. Undoes(p)'
    BY <1>0, <2>4 DEF Undoes, SameBut
  <2> QED
    BY <2>4, <2>5, <2>6, <2>7, <2>8
<1> QED
  BY <1>4, <1>5, <1>6

\* An error after the commit is recorded as a failure of p.
LEMMA LateFailureKeeps ==
  ASSUME FormatTypes, NEW p \in Formatters, Formatter(p), VerifyFails(p) \/ CleanFails(p)
  PROVE  Keeps(p)
<1>1. /\ FaultsOf(p) /\ proc[p].pc \notin Ended
      /\ \E k \in {"read", "remove", "restore"} : [kind |-> k, by |-> p] \in faults'
  BY FaultRecorded DEF VerifyFails, CleanFails, Ended
<1>2. Failed(p, {"read", "remove", "restore"})'
  BY <1>1 DEF Failed
<1>3. Becomes(p, [proc[p] EXCEPT !.pc = "drop", !.outcome = "Err"])
  BY <1>1 DEF VerifyFails, CleanFails, Becomes
<1> QED
  BY <1>1, <1>2, <1>3, Drops

LEMMA CleanEndsKeeps ==
  ASSUME FormatTypes, NEW p \in Formatters, Formatter(p), CleanEnds(p)
  PROVE  Keeps(p)
<1>1. Becomes(p, [proc[p] EXCEPT !.pc = "drop", !.outcome = "Ok"])
  BY NoFault DEF CleanEnds, Becomes
<1>2. proc[p].pc \notin Ended
  BY DEF CleanEnds, Ended
<1> QED
  BY <1>1, <1>2, Drops

LEMMA RollbackEndsKeeps ==
  ASSUME FormatTypes, NEW p \in Formatters, Formatter(p), RollbackEnds(p)
  PROVE  Keeps(p)
<1>0. /\ proc[p] \in ProcRecord /\ Commits(p) /\ Undoes(p)
      /\ proc[p].pc = "rollback" /\ proc[p].at = 0
  BY Unfold DEF RollbackEnds
<1>1. Becomes(p, [proc[p] EXCEPT !.pc = "drop", !.outcome = "Err"])
  BY NoFault DEF RollbackEnds, Becomes
<1>2. proc[p].committed = {}
  <2>1. proc[p].committed \subseteq 1 .. Sources
    BY <1>0 DEF ProcRecord, Files
  <2>2. \A x \in proc[p].committed : x <= 0
    BY <1>0 DEF Commits
  <2> QED
    BY <2>1, <2>2
<1>3. edits = 0 => \A f \in proc[p].replaced : SameBytes(dest[f], proc[p].input[f])
  BY <1>0, <1>2 DEF Undoes
<1> QED
  BY <1>0, <1>1, <1>3, Drops DEF Ended

LEMMA RollbackReadKeeps ==
  ASSUME FormatTypes, NEW p \in Formatters, Formatter(p), RollbackRead(p)
  PROVE  Keeps(p)
<1> DEFINE f == proc[p].at
<1>0. /\ proc[p] \in ProcRecord /\ proc[p].pc = "rollback" /\ f # 0
      /\ Owns(p) /\ Promises(p) /\ Reads(p) /\ Prepares(p) /\ Commits(p)
      /\ Sees(p) /\ Undoes(p)
  BY Unfold DEF RollbackRead
<1>1. FaultsOf(p)
  BY NoFault DEF RollbackRead
<1>2. f \in proc[p].committed /\ f \in proc[p].replaced /\ f \in Nat
  BY <1>0 DEF Commits, ProcRecord
<1>3. CASE Published(p, f)
  <2>1. Becomes(p, At(p, "restore", f))
    BY <1>1, <1>3 DEF RollbackRead, Becomes
  <2>4. /\ SameBut(p, "restore", f)
        /\ Prepares(p)' /\ Commits(p)' /\ Sees(p)' /\ Undoes(p)' => Keeps(p)
    BY <1>0, <1>2, <2>1, GoesAt DEF Preparing, Committing
  <2>5. Prepares(p)'
    BY <1>0, <2>4 DEF Prepares, SameBut, Preparing, Committing
  <2>6. Commits(p)'
    BY <1>0, <2>4 DEF Commits, SameBut, Preparing
  <2>7. Sees(p)'
    BY <2>4 DEF Sees, SameBut
  <2>8. Undoes(p)'
    BY <1>0, <2>4 DEF Undoes, SameBut
  <2> QED
    BY <2>4, <2>5, <2>6, <2>7, <2>8
<1>4. CASE ~Published(p, f)
  <2>1. Becomes(p, [proc[p] EXCEPT !.pc = "drop", !.outcome = "Err",
                                   !.preserve = Kept(p), !.promised = f])
    BY <1>1, <1>4 DEF RollbackRead, Becomes
  <2>2. edits # 0
    BY <1>0, <1>2, <1>4 DEF Undoes
  <2> QED
    BY <1>0, <2>1, <2>2, DropsWithPromise
<1> QED
  BY <1>3, <1>4

LEMMA RestoreFailsKeeps ==
  ASSUME FormatTypes, NEW p \in Formatters, Formatter(p), RestoreFails(p)
  PROVE  Keeps(p)
<1>1. FaultsOf(p) /\ [kind |-> "restore", by |-> p] \in faults'
  BY FaultRecorded DEF RestoreFails
<1>2. Failed(p, {"read", "remove", "restore"})'
  BY <1>1 DEF Failed
<1>3. Becomes(p, [proc[p] EXCEPT !.pc = "drop", !.outcome = "Err",
                                 !.preserve = Kept(p), !.promised = proc[p].at])
  BY <1>1 DEF RestoreFails, Becomes
<1>4. proc[p].pc \in {"rollback", "restore"} /\ proc[p].at # 0
  BY DEF RestoreFails
<1> QED
  BY <1>2, <1>3, <1>4, DropsWithPromise

LEMMA CrashKeeps ==
  ASSUME FormatTypes, NEW p \in Formatters, Formatter(p), Crash(p)
  PROVE  Keeps(p)
<1> DEFINE r == [proc[p] EXCEPT !.pc = "crashed"]
<1>0. /\ proc[p] \in ProcRecord /\ proc[p].pc \notin {"read", "returned", "crashed"}
      /\ Owns(p) /\ Promises(p) /\ Commits(p)
  BY Unfold DEF Crash
<1>1. /\ r \in ProcRecord
      /\ r.pc = "crashed" /\ r.input = proc[p].input /\ r.prepared = proc[p].prepared
      /\ r.committed = proc[p].committed /\ r.replaced = proc[p].replaced
      /\ r.preserve = proc[p].preserve /\ r.promised = proc[p].promised
  BY <1>0 DEF ProcRecord, FormatStates, Ended
<1>2. Becomes(p, r)
  BY FaultRecorded DEF Crash, Becomes
<1> HIDE DEF r
<1>3. /\ FormatTypes' /\ edits' = edits /\ proc'[p] = r
      /\ \A q \in Formatters \ {p} : Spares(p, q)
  BY <1>1, <1>2, BecomesSpares
<1>4. /\ dest' = dest /\ lock' = lock /\ stage' = stage /\ rollback' = rollback
  BY <1>2 DEF Becomes
<1>5. \A f : Saved(p, f)' <=> Saved(p, f)
  BY <1>1, <1>3, <1>4, SameRecord
<1>6. Owns(p)'
  BY <1>0, <1>1, <1>3, <1>4 DEF Owns
<1>7. Promises(p)'
  BY <1>0, <1>1, <1>3, <1>5 DEF Promises, Ended
<1>8. Reads(p)' /\ Prepares(p)' /\ Sees(p)' /\ Undoes(p)'
  BY <1>1, <1>3 DEF Reads, Prepares, Sees, Undoes, Preparing, Committing
<1>9. Commits(p)'
  BY <1>0, <1>1, <1>3, <1>5 DEF Commits, Preparing
<1> QED
  BY <1>3, <1>6, <1>7, <1>8, <1>9 DEF Keeps, Formatter, Progress

\* The sources are read and parsed; a formatter that has read them all knows
\* which of them change.
LEMMA ReadKeeps ==
  ASSUME FormatTypes, NEW p \in Formatters, Formatter(p), Read(p)
  PROVE  Keeps(p)
<1> DEFINE f == proc[p].at
           input == [proc[p].input EXCEPT ![f] = dest[f]]
           changed == {g \in Files : g <= f /\ ~input[g].formatted}
           least == CHOOSE g \in changed : \A h \in changed : g <= h
           r1 == [proc[p] EXCEPT !.input = input, !.at = f + 1]
           r2 == [proc[p] EXCEPT !.input = input, !.pc = "drop", !.outcome = "Ok"]
           r3 == [proc[p] EXCEPT !.input = input, !.pc = "lock", !.at = least]
<1>0. /\ proc[p] \in ProcRecord /\ proc[p].pc = "read"
      /\ Owns(p) /\ Promises(p) /\ Reads(p) /\ Prepares(p) /\ Commits(p)
      /\ Sees(p) /\ Undoes(p)
  BY Unfold DEF Read
<1>1. FaultsOf(p)
  BY NoFault DEF Read
<1>2. f \in Files /\ f \in Nat /\ f <= Sources /\ dest[f] \in Data
  BY <1>0 DEF Reads, Files, FormatTypes
<1>3. /\ input \in [Files -> Data \cup {None}] /\ input[f] = dest[f]
      /\ \A g \in Files : g # f => input[g] = proc[p].input[g]
  BY <1>0, <1>2 DEF ProcRecord
<1>4. \A g \in Files : g <= f => input[g] \in Data
  <2> TAKE g \in Files
  <2>1. CASE g = f
    BY <2>1, <1>2, <1>3
  <2>2. CASE g # f
    <3>1. g <= f => g < f
      BY <2>2, <1>2 DEF Files
    <3> QED
      BY <3>1, <2>2, <1>0, <1>3 DEF Reads
  <2> QED
    BY <2>1, <2>2
<1> HIDE DEF input
<1>5. /\ proc[p].prepared = {} /\ proc[p].replaced = {} /\ proc[p].committed = {}
      /\ proc[p].preserve = {} /\ proc[p].promised = None
  BY <1>0 DEF Reads, Commits, Promises, Ended
<1>6. ASSUME NEW r \in ProcRecord, Goto(p, r),
             r.prepared = {}, r.replaced = {}, r.committed = {},
             r.preserve = {}, r.promised = None, r.pc \in {"read", "drop", "lock"}
      PROVE  /\ FormatTypes' /\ edits' = edits /\ proc'[p] = r
             /\ \A q \in Formatters \ {p} : Spares(p, q)
             /\ Owns(p)' /\ Promises(p)' /\ Sees(p)' /\ Undoes(p)' /\ Commits(p)'
  <2>1. Becomes(p, r)
    BY <1>1, <1>6 DEF Read, Becomes
  <2>2. /\ FormatTypes' /\ edits' = edits /\ proc'[p] = r
        /\ \A q \in Formatters \ {p} : Spares(p, q)
    BY <2>1, BecomesSpares
  <2>3. /\ lock' = lock /\ stage' = stage /\ rollback' = rollback
    BY <2>1 DEF Becomes
  <2>4. Owns(p)'
    BY <1>0, <1>5, <1>6, <2>2, <2>3 DEF Owns
  <2>5. Promises(p)' /\ Sees(p)' /\ Undoes(p)'
    BY <1>6, <2>2 DEF Promises, Sees, Undoes
  <2>6. Commits(p)'
    BY <1>6, <2>2 DEF Commits
  <2> QED
    BY <2>2, <2>4, <2>5, <2>6
<1>7. CASE f < Sources
  <2> DEFINE n == f + 1
  <2>0. n \in Nat
    BY <1>2
  <2> HIDE DEF n
  <2>1. /\ r1 \in ProcRecord /\ r1.pc = "read" /\ r1.at = f + 1 /\ r1.input = input
        /\ r1.prepared = {} /\ r1.replaced = {} /\ r1.committed = {}
        /\ r1.preserve = {} /\ r1.promised = None
    <3>1. r1 = [proc[p] EXCEPT !.input = input, !.at = n]
      BY DEF n
    <3>2. r1.at = n
      BY <1>0, <3>1 DEF ProcRecord
    <3> HIDE DEF r1
    <3> QED
      BY <1>0, <1>3, <1>5, <2>0, <3>1, <3>2 DEF ProcRecord, n
  <2>2. Goto(p, r1)
    BY <1>7 DEF Read, input
  <2> HIDE DEF r1
  <2>3. /\ FormatTypes' /\ edits' = edits /\ proc'[p] = r1
        /\ \A q \in Formatters \ {p} : Spares(p, q)
        /\ Owns(p)' /\ Promises(p)' /\ Sees(p)' /\ Undoes(p)' /\ Commits(p)'
    BY <1>6, <2>1, <2>2
  <2>4. f + 1 \in Files /\ \A g \in Files : g < f + 1 => input[g] \in Data
    BY <1>2, <1>4, <1>7 DEF Files
  <2>5. Reads(p)'
    BY <2>1, <2>3, <2>4 DEF Reads, Preparing, Committing
  <2>6. Prepares(p)'
    BY <2>1, <2>3 DEF Prepares, Preparing, Committing
  <2> QED
    BY <2>3, <2>5, <2>6 DEF Keeps, Formatter, Progress
<1>8. CASE ~(f < Sources) /\ changed = {}
  <2>1. /\ r2 \in ProcRecord /\ r2.pc = "drop" /\ r2.input = input
        /\ r2.prepared = {} /\ r2.replaced = {} /\ r2.committed = {}
        /\ r2.preserve = {} /\ r2.promised = None
    BY <1>0, <1>2, <1>3, <1>5 DEF ProcRecord, FormatStates, Ended
  <2>2. Goto(p, r2)
    BY <1>8 DEF Read, input
  <2> HIDE DEF r2
  <2>3. /\ FormatTypes' /\ edits' = edits /\ proc'[p] = r2
        /\ \A q \in Formatters \ {p} : Spares(p, q)
        /\ Owns(p)' /\ Promises(p)' /\ Sees(p)' /\ Undoes(p)' /\ Commits(p)'
    BY <1>6, <2>1, <2>2
  <2>4. Reads(p)' /\ Prepares(p)'
    BY <2>1, <2>3 DEF Reads, Prepares, Preparing, Committing
  <2> QED
    BY <2>3, <2>4 DEF Keeps, Formatter, Progress
<1>9. CASE ~(f < Sources) /\ changed # {}
  <2>0. f = Sources
    BY <1>2, <1>9
  <2>a. input \in [Files -> Data]
    BY <1>3, <1>4, <2>0 DEF Files
  <2>b. changed = {g \in Files : ~input[g].formatted}
    BY <2>0 DEF Files
  <2>c. least \in changed /\ \A h \in changed : least <= h
    <3>1. changed \in SUBSET Nat
      BY DEF Files
    <3>2. \E g \in changed : \A h \in changed : g <= h
      <4> HIDE DEF changed
      <4> QED
        BY <3>1, <1>9, LeastElement
    <3> HIDE DEF changed
    <3> QED
      BY <3>2
  <2> HIDE DEF least
  <2>d. least \in Nat /\ \A h \in changed : ~(h < least)
    BY <2>c DEF Files
  <2>1. /\ r3 \in ProcRecord /\ r3.pc = "lock" /\ r3.at = least /\ r3.input = input
        /\ r3.prepared = {} /\ r3.replaced = {} /\ r3.committed = {}
        /\ r3.preserve = {} /\ r3.promised = None
    BY <1>0, <1>2, <1>3, <1>5, <2>d DEF ProcRecord, FormatStates, Preparing
  <2>2. Goto(p, r3)
    BY <1>9 DEF Read, input, least
  <2> HIDE DEF r3
  <2>3. /\ FormatTypes' /\ edits' = edits /\ proc'[p] = r3
        /\ \A q \in Formatters \ {p} : Spares(p, q)
        /\ Owns(p)' /\ Promises(p)' /\ Sees(p)' /\ Undoes(p)' /\ Commits(p)'
    BY <1>6, <2>1, <2>2
  <2>4. Reads(p)'
    BY <2>1, <2>3, <2>a DEF Reads
  <2>5. Changed(p)' = changed
    BY <2>1, <2>3, <2>b DEF Changed
  <2> HIDE DEF changed
  <2>6. Prepares(p)'
    BY <2>1, <2>3, <2>5, <2>c, <2>d DEF Prepares, Preparing, Committing
  <2> QED
    BY <2>3, <2>4, <2>6 DEF Keeps, Formatter, Progress
<1> QED
  BY <1>7, <1>8, <1>9

-----------------------------------------------------------------------------
(* Steps that change files.                                                *)

\* p goes on with r; it changes temporary files of its own, sources under its
\* own lock, and no lock of another.
LEMMA OwnFilesSpare ==
  ASSUME FormatTypes, NEW p \in Formatters, NEW r \in ProcRecord, Goto(p, r),
         faults' = faults,
         \A q \in Formatters \ {p} : stage'[q] = stage[q] /\ rollback'[q] = rollback[q],
         \A q \in Formatters \ {p}, x \in Files : lock'[x] = q <=> lock[x] = q,
         \A x \in Files : dest'[x] = dest[x] \/ lock[x] = p
  PROVE  /\ proc' \in [Formatters -> ProcRecord]
         /\ proc'[p] = r
         /\ \A q \in Formatters \ {p} : Spares(p, q)
<1>1. proc' = [proc EXCEPT ![p] = r]
  BY DEF Goto
<1>2. proc' \in [Formatters -> ProcRecord] /\ proc'[p] = r
  BY <1>1 DEF FormatTypes
<1>3. ASSUME NEW q \in Formatters \ {p} PROVE Spares(p, q)
  <2>1. proc'[q] = proc[q]
    BY <1>1 DEF FormatTypes
  <2>2. \A x \in Files : lock[x] = q => dest'[x] = dest[x]
    OBVIOUS
  <2> QED
    BY <2>1, <2>2 DEF Spares
<1> QED
  BY <1>2, <1>3

LEMMA LockKeeps ==
  ASSUME FormatTypes, NEW p \in Formatters, Formatter(p), Lock(p)
  PROVE  Keeps(p)
<1> DEFINE f == proc[p].at
<1>0. /\ proc[p] \in ProcRecord /\ proc[p].pc = "lock"
      /\ Owns(p) /\ Promises(p) /\ Reads(p) /\ Prepares(p) /\ Commits(p)
      /\ Sees(p) /\ Undoes(p)
  BY Unfold DEF Lock
<1>1. f \in Changed(p) /\ f \in Files /\ f \in Nat
  BY <1>0, ChangedAreFiles DEF Prepares, Preparing, ProcRecord
<1>2. CASE lock[f] # None
  <2>1. Goto(p, [proc[p] EXCEPT !.pc = "drop", !.outcome = "Err", !.prepared = LockRefused(p)])
    BY <1>2 DEF Lock
  <2>2. [proc[p] EXCEPT !.pc = "drop", !.outcome = "Err", !.prepared = LockRefused(p)]
          = [proc[p] EXCEPT !.pc = "drop", !.outcome = "Err"]
    BY <1>0 DEF LockRefused, ProcRecord
  <2>3. Goto(p, [proc[p] EXCEPT !.pc = "drop", !.outcome = "Err"])
    BY <2>1, <2>2, Zenon
  <2>4. Becomes(p, [proc[p] EXCEPT !.pc = "drop", !.outcome = "Err"])
    BY <1>2, <2>3, NoFault DEF Lock, Becomes
  <2>5. proc[p].replaced = {}
    BY <1>0 DEF Commits, Preparing
  <2> QED
    BY <1>0, <2>4, <2>5, Drops DEF Ended
<1>3. CASE lock[f] = None
  <2> DEFINE r == [proc[p] EXCEPT !.pc = "write", !.prepared = Own(p, f)]
  <2>1. /\ lock' = [lock EXCEPT ![f] = p] /\ Goto(p, r)
        /\ dest' = dest /\ stage' = stage /\ rollback' = rollback
        /\ edits' = edits /\ faults' = faults
    BY <1>3 DEF Lock
  <2>2. /\ r \in ProcRecord /\ r.pc = "write" /\ r.at = f /\ r.input = proc[p].input
        /\ r.prepared = proc[p].prepared \cup {f}
        /\ r.committed = proc[p].committed /\ r.replaced = proc[p].replaced
        /\ r.preserve = proc[p].preserve /\ r.promised = proc[p].promised
    BY <1>0, <1>1 DEF ProcRecord, FormatStates, Preparing, Own
  <2> HIDE DEF r
  <2>3. /\ lock' \in [Files -> Formatters \cup {None}]
        /\ lock'[f] = p /\ \A x \in Files : x # f => lock'[x] = lock[x]
    BY <2>1, <1>1 DEF FormatTypes
  <2>4. \A q \in Formatters \ {p}, x \in Files : lock'[x] = q <=> lock[x] = q
    BY <2>3, <1>3
  <2>5. /\ proc' \in [Formatters -> ProcRecord] /\ proc'[p] = r
        /\ \A q \in Formatters \ {p} : Spares(p, q)
    BY <2>1, <2>2, <2>4, OwnFilesSpare
  <2>6. FormatTypes'
    BY <2>1, <2>3, <2>5 DEF FormatTypes
  <2>7. /\ Changed(p)' = Changed(p)
        /\ \A x : Saved(p, x)' <=> Saved(p, x)
        /\ \A x : Ready(p, x)' <=> Ready(p, x)
    BY <2>1, <2>2, <2>5, SameRecord
  <2>8. Owns(p)'
    BY <1>0, <2>1, <2>2, <2>3, <2>5 DEF Owns
  <2>9. Promises(p)'
    BY <1>0, <2>2, <2>5, <2>7 DEF Promises, Ended
  <2>10. Reads(p)'
    BY <1>0, <2>2, <2>5 DEF Reads, Preparing
  <2>11. Prepares(p)'
    <3>1. proc[p].prepared = {x \in Changed(p) : x < f}
      BY <1>0 DEF Prepares
    <3>2. \A x \in Changed(p) : x <= f <=> x < f \/ x = f
      BY <1>1, ChangedAreFiles DEF Files
    <3>3. r.prepared = {x \in Changed(p) : x <= f}
      BY <1>1, <2>2, <3>1, <3>2
    <3>4. \A x \in Changed(p) : x < f => Ready(p, x)
      BY <1>0 DEF Prepares, Preparing
    <3> QED
      BY <1>1, <2>2, <2>5, <2>7, <3>3, <3>4 DEF Prepares, Preparing, Committing
  <2>12. Commits(p)'
    BY <1>0, <2>2, <2>5 DEF Commits, Preparing
  <2>13. Sees(p)' /\ Undoes(p)'
    BY <2>2, <2>5 DEF Sees, Undoes
  <2> QED
    BY <2>1, <2>5, <2>6, <2>8, <2>9, <2>10, <2>11, <2>12, <2>13 DEF Keeps, Formatter, Progress
<1> QED
  BY <1>2, <1>3

\* Writing a temporary file of the current source.
LEMMA TemporaryKeeps ==
  ASSUME FormatTypes, NEW p \in Formatters, Formatter(p),
         proc[p].pc \in {"write", "staged", "saved"},
         NEW pc \in {"staged", "saved", "recheck"},
         Goto(p, At(p, pc, proc[p].at)),
         dest' = dest, lock' = lock, edits' = edits, faults' = faults,
         NEW s \in Data \cup {Torn, None}, NEW b \in Data \cup {Torn, None},
         stage' = [stage EXCEPT ![p][proc[p].at] = s],
         rollback' = [rollback EXCEPT ![p][proc[p].at] = b],
         pc \in {"saved", "recheck"} => s = Staged(p, proc[p].at),
         pc = "recheck" => b = [proc[p].input[proc[p].at] EXCEPT !.file = p]
  PROVE  Keeps(p)
<1> DEFINE f == proc[p].at
           r == At(p, pc, f)
<1>0. /\ proc[p] \in ProcRecord
      /\ Owns(p) /\ Promises(p) /\ Reads(p) /\ Prepares(p) /\ Commits(p)
      /\ Sees(p) /\ Undoes(p)
  BY Unfold
<1>1. f \in Changed(p) /\ f \in Files /\ f \in Nat
  BY <1>0, ChangedAreFiles DEF Prepares, Preparing, ProcRecord
<1>2. /\ r \in ProcRecord /\ r.pc = pc /\ r.at = f /\ r.input = proc[p].input
      /\ r.prepared = proc[p].prepared
      /\ r.committed = proc[p].committed /\ r.replaced = proc[p].replaced
      /\ r.preserve = proc[p].preserve /\ r.promised = proc[p].promised
  BY <1>0, <1>1 DEF ProcRecord, FormatStates, Preparing, At
<1> HIDE DEF r
<1>3. /\ stage' \in [Formatters -> [Files -> Data \cup {Torn, None}]]
      /\ stage'[p][f] = s
      /\ \A x \in Files : x # f => stage'[p][x] = stage[p][x]
      /\ \A q \in Formatters \ {p} : stage'[q] = stage[q]
  BY <1>1 DEF FormatTypes
<1>4. /\ rollback' \in [Formatters -> [Files -> Data \cup {Torn, None}]]
      /\ rollback'[p][f] = b
      /\ \A x \in Files : x # f => rollback'[p][x] = rollback[p][x]
      /\ \A q \in Formatters \ {p} : rollback'[q] = rollback[q]
  BY <1>1 DEF FormatTypes
<1>5. /\ proc' \in [Formatters -> ProcRecord] /\ proc'[p] = r
      /\ \A q \in Formatters \ {p} : Spares(p, q)
  BY <1>2, <1>3, <1>4, OwnFilesSpare DEF r
<1>6. FormatTypes'
  BY <1>3, <1>4, <1>5 DEF FormatTypes
<1>7. /\ Changed(p)' = Changed(p)
      /\ \A x : Staged(p, x)' = Staged(p, x)
      /\ \A x \in Files : x # f => (Saved(p, x)' <=> Saved(p, x))
      /\ \A x \in Files : x # f => (Ready(p, x)' <=> Ready(p, x))
  BY <1>2, <1>3, <1>4, <1>5, SameRecord
<1>8. f \in proc[p].prepared
  BY <1>0, <1>1 DEF Prepares, Preparing
<1>9. Owns(p)'
  BY <1>0, <1>2, <1>3, <1>4, <1>5, <1>8 DEF Owns
<1>10. Promises(p)'
  BY <1>0, <1>2, <1>5 DEF Promises, Ended
<1>11. Reads(p)'
  BY <1>0, <1>2, <1>5 DEF Reads, Preparing
<1>12. Prepares(p)'
  <2>1. \A x \in Changed(p) : x < f => Ready(p, x)'
    <3>1. \A x \in Changed(p) : x < f => x # f /\ x \in Files
      BY <1>1, ChangedAreFiles
    <3> QED
      BY <1>0, <1>7, <3>1 DEF Prepares, Preparing
  <2>2. pc = "recheck" => Saved(p, f)'
    BY <1>0, <1>1, <1>2, <1>4, <1>5 DEF Saved, Reads, Preparing
  <2>3. proc[p].prepared = {x \in Changed(p) : x <= f}
    BY <1>0 DEF Prepares, Preparing
  <2> QED
    BY <1>1, <1>2, <1>3, <1>5, <1>7, <2>1, <2>2, <2>3 DEF Prepares, Preparing, Committing
<1>13. Commits(p)'
  BY <1>0, <1>2, <1>5 DEF Commits, Preparing
<1>14. Sees(p)' /\ Undoes(p)'
  BY <1>2, <1>5 DEF Sees, Undoes
<1> QED
  BY <1>5, <1>6, <1>9, <1>10, <1>11, <1>12, <1>13, <1>14 DEF Keeps, Formatter, Progress

LEMMA PreparationKeeps ==
  ASSUME FormatTypes, NEW p \in Formatters, Formatter(p),
         StageOpens(p) \/ RollbackOpens(p) \/ TemporariesWritten(p)
  PROVE  Keeps(p)
<1> DEFINE f == proc[p].at
<1>0. /\ proc[p] \in ProcRecord /\ proc[p].pc \in {"write", "staged", "saved"}
      /\ Reads(p) /\ Prepares(p)
  BY Unfold DEF StageOpens, RollbackOpens, TemporariesWritten
<1>1. f \in Files /\ proc[p].input[f] \in Data
  <2>1. f \in Files
    BY <1>0, ChangedAreFiles DEF Prepares, Preparing
  <2> QED
    BY <1>0, <2>1 DEF Reads, Preparing
<1>2. /\ [proc[p].input[f] EXCEPT !.file = p] \in Data /\ Staged(p, f) \in Data
  BY <1>1 DEF Data, Staged
<1>3. /\ stage[p][f] \in Data \cup {Torn, None} /\ rollback[p][f] \in Data \cup {Torn, None}
      /\ stage = [stage EXCEPT ![p][f] = stage[p][f]]
      /\ rollback = [rollback EXCEPT ![p][f] = rollback[p][f]]
  BY <1>1 DEF FormatTypes
<1>4. CASE StageOpens(p)
  <2> DEFINE b == rollback[p][f]
  <2>1. /\ stage' = [stage EXCEPT ![p][f] = Torn] /\ rollback' = rollback
        /\ Goto(p, At(p, "staged", f))
        /\ dest' = dest /\ lock' = lock /\ edits' = edits /\ faults' = faults
    BY <1>4 DEF StageOpens
  <2>2. rollback' = [rollback EXCEPT ![p][f] = b] /\ b \in Data \cup {Torn, None}
    BY <1>3, <2>1
  <2> HIDE DEF b
  <2> QED
    BY <1>0, <2>1, <2>2, TemporaryKeeps
<1>5. CASE RollbackOpens(p)
  <2> DEFINE s == Staged(p, f)
  <2>1. /\ stage' = [stage EXCEPT ![p][f] = s] /\ rollback' = [rollback EXCEPT ![p][f] = Torn]
        /\ Goto(p, At(p, "saved", f))
        /\ dest' = dest /\ lock' = lock /\ edits' = edits /\ faults' = faults
    BY <1>5 DEF RollbackOpens
  <2>2. s \in Data \cup {Torn, None} /\ s = Staged(p, f)
    BY <1>2
  <2> HIDE DEF s
  <2> QED
    BY <1>0, <2>1, <2>2, TemporaryKeeps
<1>6. CASE TemporariesWritten(p)
  <2> DEFINE s == stage[p][f]
             b == [proc[p].input[f] EXCEPT !.file = p]
  <2>1. /\ stage' = stage /\ rollback' = [rollback EXCEPT ![p][f] = b]
        /\ Goto(p, At(p, "recheck", f))
        /\ dest' = dest /\ lock' = lock /\ edits' = edits /\ faults' = faults
        /\ proc[p].pc = "saved"
    BY <1>6 DEF TemporariesWritten
  <2>2. /\ s \in Data \cup {Torn, None} /\ b \in Data \cup {Torn, None}
        /\ stage' = [stage EXCEPT ![p][f] = s]
        /\ b = [proc[p].input[f] EXCEPT !.file = p]
    BY <1>2, <1>3, <2>1
  <2>3. s = Staged(p, f)
    BY <1>0, <2>1 DEF Prepares
  <2> HIDE DEF s, b
  <2> QED
    BY <1>0, <2>1, <2>2, <2>3, TemporaryKeeps
<1> QED
  BY <1>4, <1>5, <1>6

\* What a staged file holds is the formatted text.
LEMMA StagedIsPublished ==
  ASSUME NEW p \in Formatters, NEW f, proc[p].input[f] \in Data, dest'[f] = Staged(p, f),
         proc'[p].input = proc[p].input
  PROVE  Published(p, f)'
<1>1. Staged(p, f) \in Data
  BY DEF Staged, Data
<1>2. Staged(p, f) \notin {None, Torn}
  BY <1>1
<1> QED
  BY <1>2 DEF Published, SameBytes, Staged, Data

\* What a rollback file holds is the parsed text.
LEMMA SavedIsParsed ==
  ASSUME NEW p \in Formatters, NEW f, Saved(p, f)
  PROVE  rollback[p][f] \in Data /\ SameBytes(rollback[p][f], proc[p].input[f])
<1>1. rollback[p][f] \in Data
  BY DEF Saved, Data
<1>2. rollback[p][f] \notin {None, Torn}
  BY <1>1
<1> QED
  BY <1>1, <1>2 DEF Saved, SameBytes, Data

LEMMA CommitKeeps ==
  ASSUME FormatTypes, NEW p \in Formatters, Formatter(p), Commit(p)
  PROVE  Keeps(p)
<1> DEFINE f == proc[p].at
           g == NextAfter(p, f)
           s == stage[p][f]
           pc == IF g = Sources + 1 THEN "sync" ELSE "commit"
           r == [proc[p] EXCEPT !.committed = proc[p].committed \cup {f},
                                !.replaced = proc[p].replaced \cup {f},
                                !.pc = pc, !.at = g]
<1>0. /\ proc[p] \in ProcRecord /\ proc[p].pc = "commit"
      /\ Owns(p) /\ Promises(p) /\ Reads(p) /\ Prepares(p) /\ Commits(p)
      /\ Sees(p) /\ Undoes(p)
  BY Unfold DEF Commit
<1>1. f \in Changed(p) /\ f \in Files /\ f \in Nat
  BY <1>0, ChangedAreFiles DEF Prepares, ProcRecord
<1>2. Follows(p, f, g)
  BY <1>1, NextAfterFollows DEF Files
<1>3. g \in Nat /\ g > f /\ (g # Sources + 1 => g \in Changed(p))
  BY <1>2 DEF Follows
<1>4. \A x \in Changed(p) : x \in Files /\ x \in Nat /\ (x < g <=> x < f \/ x = f) /\ (x >= g => x >= f)
  <2>1. \A x \in Changed(p) : x \in Files /\ x \in Nat /\ (x > f => x >= g)
    BY <1>2, ChangedAreFiles DEF Follows, Files
  <2> QED
    BY <1>1, <1>3, <2>1
<1>5. /\ Ready(p, f) /\ Saved(p, f) /\ s = Staged(p, f) /\ proc[p].input[f] \in Data
  <2>1. Ready(p, f)
    BY <1>0, <1>1 DEF Commits
  <2> QED
    BY <2>1 DEF Ready, Saved
<1>6. s \in Data
  BY <1>5 DEF Staged, Data
<1>7. /\ dest' = [dest EXCEPT ![f] = s] /\ stage' = [stage EXCEPT ![p][f] = None]
      /\ Goto(p, r) /\ lock' = lock /\ rollback' = rollback
      /\ edits' = edits /\ faults' = faults
  BY DEF Commit, MarkCommitted
<1> HIDE DEF s
<1>8. /\ dest' \in [Files -> Data] /\ dest'[f] = s
      /\ \A x \in Files : x # f => dest'[x] = dest[x]
  BY <1>1, <1>6, <1>7 DEF FormatTypes
<1>9. /\ stage' \in [Formatters -> [Files -> Data \cup {Torn, None}]]
      /\ stage'[p][f] = None
      /\ \A x \in Files : x # f => stage'[p][x] = stage[p][x]
      /\ \A q \in Formatters \ {p} : stage'[q] = stage[q]
  BY <1>1, <1>7 DEF FormatTypes
<1>10. pc \in {"sync", "commit"} /\ pc \in FormatStates
  BY DEF FormatStates, Committing
<1> HIDE DEF g, pc
<1>11. /\ r \in ProcRecord /\ r.pc = pc /\ r.at = g /\ r.input = proc[p].input
       /\ r.prepared = proc[p].prepared
       /\ r.committed = proc[p].committed \cup {f} /\ r.replaced = proc[p].replaced \cup {f}
       /\ r.preserve = proc[p].preserve /\ r.promised = proc[p].promised
       /\ r.seen = proc[p].seen
  BY <1>0, <1>1, <1>3, <1>10 DEF ProcRecord
<1> HIDE DEF r
<1>12. f \in proc[p].prepared /\ lock[f] = p
  BY <1>0, <1>1 DEF Prepares, Committing, Owns
<1>13. /\ proc' \in [Formatters -> ProcRecord] /\ proc'[p] = r
       /\ \A q \in Formatters \ {p} : Spares(p, q)
  <2>1. \A x \in Files : dest'[x] = dest[x] \/ lock[x] = p
    BY <1>8, <1>12
  <2> QED
    BY <1>7, <1>9, <1>11, <2>1, OwnFilesSpare
<1>14. FormatTypes'
  BY <1>7, <1>8, <1>9, <1>13 DEF FormatTypes
<1>15. /\ Changed(p)' = Changed(p)
       /\ \A x : Staged(p, x)' = Staged(p, x)
       /\ \A x : Saved(p, x)' <=> Saved(p, x)
       /\ \A x \in Files : x # f => (Ready(p, x)' <=> Ready(p, x))
       /\ \A x \in Files : x # f => (Published(p, x)' <=> Published(p, x))
  BY <1>7, <1>8, <1>9, <1>11, <1>13, SameRecord
<1>16. Owns(p)'
  BY <1>0, <1>7, <1>9, <1>10, <1>11, <1>12, <1>13 DEF Owns
<1>17. Promises(p)'
  BY <1>0, <1>10, <1>11, <1>13, <1>15 DEF Promises, Ended
<1>18. Reads(p)'
  BY <1>0, <1>10, <1>11, <1>13 DEF Reads, Committing
<1>19. pc = "commit" => g \in Changed(p)
  BY <1>3 DEF pc
<1>20. Prepares(p)'
  BY <1>0, <1>10, <1>11, <1>13, <1>15, <1>19 DEF Prepares, Preparing, Committing
<1>21. Commits(p)'
  <2>1. r.replaced = {x \in Changed(p) : x < g} /\ r.committed = r.replaced
    <3>1. proc[p].replaced = {x \in Changed(p) : x < f} /\ proc[p].committed = proc[p].replaced
      BY <1>0 DEF Commits
    <3>2. \A x \in Changed(p) : x < g <=> x < f \/ x = f
      BY <1>4
    <3> QED
      BY <1>1, <1>11, <3>1, <3>2
  <2>2. \A x \in Changed(p) : x >= g => Ready(p, x)'
    <3>1. \A x \in Changed(p) : x >= g => x # f /\ x \in Files /\ x >= f
      BY <1>1, <1>3, <1>4
    <3> QED
      BY <1>0, <1>15, <3>1 DEF Commits
  <2>3. pc = "sync" => {x \in Changed(p) : x < g} = Changed(p)
    <3>1. pc = "sync" => g = Sources + 1
      BY DEF pc
    <3>2. \A x \in Changed(p) : x < Sources + 1
      BY ChangedAreFiles DEF Files
    <3> QED
      BY <3>1, <3>2
  <2>4. \A x \in r.committed : Saved(p, x)
    BY <1>0, <1>5, <1>11 DEF Commits
  <2>5. r.replaced \subseteq r.prepared
    BY <1>0, <1>11, <1>12 DEF Commits
  <2> QED
    BY <1>10, <1>11, <1>13, <1>15, <2>1, <2>2, <2>3, <2>4, <2>5 DEF Commits, Preparing
<1>22. Sees(p)'
  <2> SUFFICES ASSUME pc = "commit", NEW x \in Changed(p), x >= g
               PROVE  /\ proc[p].seen[x] <= edits
                      /\ dest'[x] = proc[p].input[x] \/ dest'[x].text > proc[p].seen[x]
    BY <1>7, <1>10, <1>11, <1>13, <1>15 DEF Sees
  <2>1. x >= f /\ x # f /\ x \in Files
    BY <1>1, <1>3, <1>4
  <2>2. dest'[x] = dest[x]
    BY <1>8, <2>1
  <2> QED
    BY <1>0, <2>1, <2>2 DEF Sees
<1>23. Undoes(p)'
  <2> SUFFICES ASSUME edits = 0, NEW x \in r.replaced
               PROVE  IF x \in r.committed THEN Published(p, x)'
                      ELSE SameBytes(dest'[x], proc[p].input[x])
    BY <1>7, <1>10, <1>11, <1>13 DEF Undoes
  <2>1. x \in r.committed
    BY <1>0, <1>11 DEF Commits
  <2>2. CASE x = f
    BY <1>5, <1>8, <1>11, <1>13, <2>1, <2>2, StagedIsPublished
  <2>3. CASE x # f
    <3>1. x \in proc[p].replaced /\ x \in proc[p].committed /\ x \in Files
      BY <1>0, <1>11, <2>1, <2>3 DEF ProcRecord
    <3> QED
      BY <1>0, <1>15, <2>1, <2>3, <3>1 DEF Undoes
  <2> QED
    BY <2>2, <2>3
<1> QED
  BY <1>7, <1>13, <1>14, <1>16, <1>17, <1>18, <1>20, <1>21, <1>22, <1>23
  DEF Keeps, Formatter, Progress

LEMMA CleanKeeps ==
  ASSUME FormatTypes, NEW p \in Formatters, Formatter(p), Clean(p)
  PROVE  Keeps(p)
<1> DEFINE f == proc[p].at
           g == NextAfter(p, f)
           r == [proc[p] EXCEPT !.committed = proc[p].committed \ {f}, !.at = g]
<1>0. /\ proc[p] \in ProcRecord /\ proc[p].pc = "clean" /\ f # Sources + 1
      /\ Owns(p) /\ Promises(p) /\ Reads(p) /\ Prepares(p) /\ Commits(p)
      /\ Sees(p) /\ Undoes(p)
  BY Unfold DEF Clean
<1>1. f \in Changed(p) /\ f \in Files /\ f \in Nat
  BY <1>0, ChangedAreFiles DEF Commits, ProcRecord
<1>2. Follows(p, f, g)
  BY <1>1, NextAfterFollows DEF Files
<1>3. g \in Nat /\ g \in Changed(p) \cup {Sources + 1}
  BY <1>2 DEF Follows
<1>4. \A x \in Changed(p) : x >= g <=> (x >= f /\ x # f)
  <2>1. g > f /\ \A x \in Changed(p) : x \in Nat /\ (x > f => x >= g)
    BY <1>2, ChangedAreFiles DEF Follows, Files
  <2> QED
    BY <1>1, <1>3, <2>1
<1>5. /\ rollback' = [rollback EXCEPT ![p][f] = None]
      /\ Goto(p, r) /\ dest' = dest /\ lock' = lock /\ stage' = stage
      /\ edits' = edits /\ faults' = faults
  BY DEF Clean
<1> HIDE DEF g
<1>6. /\ r \in ProcRecord /\ r.pc = "clean" /\ r.at = g /\ r.input = proc[p].input
      /\ r.prepared = proc[p].prepared
      /\ r.committed = proc[p].committed \ {f} /\ r.replaced = proc[p].replaced
      /\ r.preserve = proc[p].preserve /\ r.promised = proc[p].promised
  BY <1>0, <1>3 DEF ProcRecord
<1> HIDE DEF r
<1>7. /\ rollback' \in [Formatters -> [Files -> Data \cup {Torn, None}]]
      /\ rollback'[p][f] = None
      /\ \A x \in Files : x # f => rollback'[p][x] = rollback[p][x]
      /\ \A q \in Formatters \ {p} : rollback'[q] = rollback[q]
  BY <1>1, <1>5 DEF FormatTypes
<1>8. /\ proc' \in [Formatters -> ProcRecord] /\ proc'[p] = r
      /\ \A q \in Formatters \ {p} : Spares(p, q)
  BY <1>5, <1>6, <1>7, OwnFilesSpare
<1>9. FormatTypes'
  BY <1>5, <1>7, <1>8 DEF FormatTypes
<1>10. /\ Changed(p)' = Changed(p)
       /\ \A x \in Files : x # f => (Saved(p, x)' <=> Saved(p, x))
  BY <1>5, <1>6, <1>7, <1>8, SameRecord
<1>11. Owns(p)'
  BY <1>0, <1>5, <1>6, <1>7, <1>8 DEF Owns
<1>12. Promises(p)'
  BY <1>0, <1>6, <1>8 DEF Promises, Ended
<1>13. Reads(p)'
  BY <1>0, <1>6, <1>8 DEF Reads, Committing
<1>14. Prepares(p)'
  BY <1>0, <1>6, <1>8, <1>10 DEF Prepares, Preparing, Committing
<1>15. Commits(p)'
  <2>1. r.committed = {x \in Changed(p) : x >= g}
    BY <1>0, <1>4, <1>6 DEF Commits
  <2>2. \A x \in r.committed : Saved(p, x)'
    BY <1>0, <1>6, <1>10 DEF Commits, ProcRecord
  <2>3. r.committed \subseteq r.replaced /\ r.replaced \subseteq r.prepared
    BY <1>0, <1>6 DEF Commits
  <2> QED
    BY <1>3, <1>6, <1>8, <1>10, <2>1, <2>2, <2>3 DEF Commits, Preparing
<1>16. Sees(p)' /\ Undoes(p)'
  BY <1>6, <1>8 DEF Sees, Undoes
<1> QED
  BY <1>5, <1>8, <1>9, <1>11, <1>12, <1>13, <1>14, <1>15, <1>16 DEF Keeps, Formatter, Progress

LEMMA RestoreKeeps ==
  ASSUME FormatTypes, NEW p \in Formatters, Formatter(p), Restore(p)
  PROVE  Keeps(p)
<1> DEFINE f == proc[p].at
           g == PrevCommitted(p, f)
           b == rollback[p][f]
           r == [proc[p] EXCEPT !.pc = "rollback", !.at = g,
                                !.committed = proc[p].committed \ {f}]
<1>0. /\ proc[p] \in ProcRecord /\ proc[p].pc = "restore"
      /\ Owns(p) /\ Promises(p) /\ Reads(p) /\ Prepares(p) /\ Commits(p)
      /\ Sees(p) /\ Undoes(p)
  BY Unfold DEF Restore
<1>1. /\ f \in proc[p].committed /\ f \in Files /\ f \in Nat /\ f \in proc[p].replaced
      /\ proc[p].committed \subseteq Files
  BY <1>0 DEF Commits, ProcRecord
<1>2. Precedes(p, f, g)
  BY <1>1, PrevCommittedPrecedes DEF Files
<1>3. g \in Nat /\ g \in (proc[p].committed \ {f}) \cup {0}
  BY <1>1, <1>2 DEF Precedes
<1>4. \A x \in proc[p].committed \ {f} : x <= g
  <2>1. \A x \in proc[p].committed : x \in Nat /\ x <= f
    BY <1>0, <1>1 DEF Commits, Files
  <2>2. \A x \in proc[p].committed \ {f} : x < f
    BY <1>1, <2>1
  <2> QED
    BY <1>2, <2>2 DEF Precedes
<1>5. /\ Saved(p, f) /\ b \in Data /\ SameBytes(b, proc[p].input[f])
  <2>1. Saved(p, f)
    BY <1>0, <1>1 DEF Commits
  <2> QED
    BY <2>1, SavedIsParsed
<1>6. /\ dest' = [dest EXCEPT ![f] = b] /\ rollback' = [rollback EXCEPT ![p][f] = None]
      /\ Goto(p, r) /\ lock' = lock /\ stage' = stage
      /\ edits' = edits /\ faults' = faults
  BY DEF Restore
<1> HIDE DEF g, b
<1>7. /\ r \in ProcRecord /\ r.pc = "rollback" /\ r.at = g /\ r.input = proc[p].input
      /\ r.prepared = proc[p].prepared
      /\ r.committed = proc[p].committed \ {f} /\ r.replaced = proc[p].replaced
      /\ r.preserve = proc[p].preserve /\ r.promised = proc[p].promised
  BY <1>0, <1>3 DEF ProcRecord, FormatStates, Committing
<1> HIDE DEF r
<1>8. /\ dest' \in [Files -> Data] /\ dest'[f] = b
      /\ \A x \in Files : x # f => dest'[x] = dest[x]
  BY <1>1, <1>5, <1>6 DEF FormatTypes
<1>9. /\ rollback' \in [Formatters -> [Files -> Data \cup {Torn, None}]]
      /\ rollback'[p][f] = None
      /\ \A x \in Files : x # f => rollback'[p][x] = rollback[p][x]
      /\ \A q \in Formatters \ {p} : rollback'[q] = rollback[q]
  BY <1>1, <1>6 DEF FormatTypes
<1>10. f \in proc[p].prepared /\ lock[f] = p
  BY <1>0, <1>1 DEF Commits, Owns
<1>11. /\ proc' \in [Formatters -> ProcRecord] /\ proc'[p] = r
       /\ \A q \in Formatters \ {p} : Spares(p, q)
  <2>1. \A x \in Files : dest'[x] = dest[x] \/ lock[x] = p
    BY <1>8, <1>10
  <2> QED
    BY <1>6, <1>7, <1>9, <2>1, OwnFilesSpare
<1>12. FormatTypes'
  BY <1>6, <1>8, <1>9, <1>11 DEF FormatTypes
<1>13. /\ Changed(p)' = Changed(p)
       /\ \A x \in Files : x # f => (Saved(p, x)' <=> Saved(p, x))
       /\ \A x \in Files : x # f => (Published(p, x)' <=> Published(p, x))
  BY <1>6, <1>7, <1>8, <1>9, <1>11, SameRecord
<1>14. Owns(p)'
  BY <1>0, <1>6, <1>7, <1>9, <1>11 DEF Owns
<1>15. Promises(p)'
  BY <1>0, <1>7, <1>11 DEF Promises, Ended
<1>16. Reads(p)'
  BY <1>0, <1>7, <1>11 DEF Reads, Committing
<1>17. Prepares(p)'
  BY <1>0, <1>7, <1>11, <1>13 DEF Prepares, Preparing, Committing
<1>18. Commits(p)'
  <2>1. \A x \in r.committed : Saved(p, x)'
    BY <1>0, <1>1, <1>7, <1>13 DEF Commits
  <2>2. r.committed \subseteq r.replaced /\ r.replaced \subseteq r.prepared
    BY <1>0, <1>7 DEF Commits
  <2>3. g \in r.committed \cup {0} /\ \A x \in r.committed : x <= g
    BY <1>3, <1>4, <1>7
  <2> QED
    BY <1>7, <1>11, <2>1, <2>2, <2>3 DEF Commits, Preparing
<1>19. Sees(p)'
  BY <1>7, <1>11 DEF Sees
<1>20. Undoes(p)'
  <2> SUFFICES ASSUME edits = 0, NEW x \in r.replaced
               PROVE  IF x \in r.committed THEN Published(p, x)'
                      ELSE SameBytes(dest'[x], proc[p].input[x])
    BY <1>6, <1>7, <1>11 DEF Undoes
  <2>1. CASE x = f
    BY <1>5, <1>7, <1>8, <2>1
  <2>2. CASE x # f
    <3>1. x \in proc[p].replaced /\ x \in Files /\ dest'[x] = dest[x]
      BY <1>0, <1>7, <1>8, <2>2 DEF ProcRecord
    <3>2. x \in r.committed <=> x \in proc[p].committed
      BY <1>7, <2>2
    <3>3. IF x \in proc[p].committed THEN Published(p, x)
          ELSE SameBytes(dest[x], proc[p].input[x])
      BY <1>0, <3>1 DEF Undoes
    <3> QED
      BY <1>13, <2>2, <3>1, <3>2, <3>3
  <2> QED
    BY <2>1, <2>2
<1> QED
  BY <1>6, <1>11, <1>12, <1>14, <1>15, <1>16, <1>17, <1>18, <1>19, <1>20
  DEF Keeps, Formatter, Progress

LEMMA DropAllKeeps ==
  ASSUME FormatTypes, NEW p \in Formatters, Formatter(p), DropAll(p)
  PROVE  Keeps(p)
<1> DEFINE own == proc[p].prepared
           kept == proc[p].preserve
           r == [proc[p] EXCEPT !.pc = "returned"]
<1>0. /\ proc[p] \in ProcRecord /\ proc[p].pc = "drop"
      /\ Owns(p) /\ Promises(p) /\ Reads(p) /\ Prepares(p) /\ Commits(p)
      /\ Sees(p) /\ Undoes(p)
  BY Unfold DEF DropAll
<1>1. /\ stage' = [stage EXCEPT ![p] = [x \in Files |-> IF x \in own THEN None ELSE stage[p][x]]]
      /\ rollback' = [rollback EXCEPT ![p] =
            [x \in Files |-> IF x \in own \ kept THEN None ELSE rollback[p][x]]]
      /\ lock' = [x \in Files |-> IF x \in own THEN None ELSE lock[x]]
      /\ Goto(p, r) /\ dest' = dest /\ edits' = edits /\ faults' = faults
  BY DEF DropAll
<1>2. /\ r \in ProcRecord /\ r.pc = "returned" /\ r.input = proc[p].input
      /\ r.prepared = own /\ r.committed = proc[p].committed /\ r.replaced = proc[p].replaced
      /\ r.preserve = kept /\ r.promised = proc[p].promised
  BY <1>0 DEF ProcRecord, FormatStates, Ended
<1> HIDE DEF r
<1>3. /\ stage' \in [Formatters -> [Files -> Data \cup {Torn, None}]]
      /\ \A x \in Files : stage'[p][x] = IF x \in own THEN None ELSE stage[p][x]
      /\ \A q \in Formatters \ {p} : stage'[q] = stage[q]
  BY <1>1 DEF FormatTypes
<1>4. /\ rollback' \in [Formatters -> [Files -> Data \cup {Torn, None}]]
      /\ \A x \in Files : rollback'[p][x] = IF x \in own \ kept THEN None ELSE rollback[p][x]
      /\ \A q \in Formatters \ {p} : rollback'[q] = rollback[q]
  BY <1>1 DEF FormatTypes
<1>5. /\ lock' \in [Files -> Formatters \cup {None}]
      /\ \A x \in Files : lock'[x] = IF x \in own THEN None ELSE lock[x]
  BY <1>1 DEF FormatTypes
<1>6. \A x \in Files : lock[x] = p <=> x \in own
  BY <1>0 DEF Owns
<1>7. \A q \in Formatters \ {p}, x \in Files : lock'[x] = q <=> lock[x] = q
  BY <1>5, <1>6
<1>8. /\ proc' \in [Formatters -> ProcRecord] /\ proc'[p] = r
      /\ \A q \in Formatters \ {p} : Spares(p, q)
  BY <1>1, <1>2, <1>3, <1>4, <1>7, OwnFilesSpare
<1>9. FormatTypes'
  BY <1>1, <1>3, <1>4, <1>5, <1>8 DEF FormatTypes
<1>10. \A x \in kept : x \in Files => (Saved(p, x)' <=> Saved(p, x))
  <2>1. \A x \in kept : x \in Files => rollback'[p][x] = rollback[p][x]
    BY <1>4
  <2> QED
    BY <1>2, <1>8, <2>1, SameRecord
<1>11. Owns(p)'
  <2>1. \A x \in Files : lock'[x] # p
    BY <1>5, <1>6
  <2>2. \A x \in Files : stage'[p][x] = None
    BY <1>0, <1>3 DEF Owns
  <2>3. \A x \in Files : rollback'[p][x] # None => x \in kept
    BY <1>0, <1>4 DEF Owns
  <2>4. \A x \in Files \ own : rollback'[p][x] = None
    BY <1>0, <1>4 DEF Owns
  <2> QED
    BY <1>2, <1>8, <2>1, <2>2, <2>3, <2>4 DEF Owns
<1>12. Promises(p)'
  BY <1>0, <1>2, <1>8, <1>10 DEF Promises, Ended
<1>13. Reads(p)' /\ Prepares(p)' /\ Sees(p)' /\ Undoes(p)'
  BY <1>2, <1>8 DEF Reads, Prepares, Sees, Undoes, Preparing, Committing
<1>14. Commits(p)'
  BY <1>0, <1>2, <1>8 DEF Commits, Preparing
<1> QED
  BY <1>1, <1>8, <1>9, <1>11, <1>12, <1>13, <1>14 DEF Keeps, Formatter, Progress

-----------------------------------------------------------------------------
(* The editor, and the whole.                                              *)

LEMMA EditKeeps ==
  ASSUME FormatFlow, NEW f \in Files, Edit(f)
  PROVE  FormatFlow'
<1> DEFINE d == [text |-> edits + 1, formatted |-> FALSE, file |-> None]
<1>0. FormatTypes /\ edits \in Nat /\ edits < MaxEdits /\ edits' = edits + 1
  BY DEF FormatFlow, FormatTypes, Edit
<1>1. /\ dest' = [dest EXCEPT ![f] = d] /\ lock' = lock /\ stage' = stage
      /\ rollback' = rollback /\ proc' = proc /\ faults' = faults
  BY DEF Edit
<1>2. d \in Data /\ d.text = edits + 1
  <2>1. edits + 1 \in 0 .. MaxEdits
    BY <1>0
  <2> QED
    BY <2>1 DEF Data
<1> HIDE DEF d
<1>3. /\ dest' \in [Files -> Data] /\ dest'[f] = d
      /\ \A x \in Files : x # f => dest'[x] = dest[x]
  BY <1>0, <1>1, <1>2 DEF FormatTypes
<1>4. edits' \in 0 .. MaxEdits /\ edits' # 0
  BY <1>0
<1>5. FormatTypes'
  BY <1>0, <1>1, <1>3, <1>4 DEF FormatTypes
<1>6. ASSUME NEW p \in Formatters PROVE Formatter(p)'
  <2>0. /\ proc[p] \in ProcRecord
        /\ Owns(p) /\ Promises(p) /\ Reads(p) /\ Prepares(p) /\ Commits(p)
        /\ Sees(p) /\ Undoes(p)
    BY <1>0, Unfold DEF FormatFlow
  <2>1. /\ Changed(p)' = Changed(p)
        /\ \A x : Staged(p, x)' = Staged(p, x)
        /\ \A x : Saved(p, x)' <=> Saved(p, x)
        /\ \A x : Ready(p, x)' <=> Ready(p, x)
    BY <1>1, SameRecord
  <2>2. Owns(p)'
    BY <1>1, <2>0 DEF Owns
  <2>3. Promises(p)'
    BY <1>1, <2>0, <2>1 DEF Promises
  <2>4. Reads(p)'
    BY <1>1, <2>0 DEF Reads
  <2>5. Prepares(p)'
    BY <1>1, <2>0, <2>1 DEF Prepares
  <2>6. Commits(p)'
    BY <1>1, <2>0, <2>1 DEF Commits
  <2>7. Undoes(p)'
    BY <1>4 DEF Undoes
  <2>8. Sees(p)'
    <3> DEFINE seen == proc[p].seen
    <3>1. ASSUME NEW x \in Files,
                 seen[x] <= edits, dest[x] = proc[p].input[x] \/ dest[x].text > seen[x]
          PROVE  /\ seen[x] <= edits'
                 /\ dest'[x] = proc[p].input[x] \/ dest'[x].text > seen[x]
      <4>1. seen[x] \in Int
        BY <2>0 DEF ProcRecord
      <4>2. seen[x] <= edits'
        BY <1>0, <3>1, <4>1
      <4>3. CASE x # f
        BY <1>3, <3>1, <4>2, <4>3
      <4>4. CASE x = f
        <5>1. dest'[x].text = edits + 1
          BY <1>2, <1>3, <4>4
        <5>2. edits + 1 > seen[x]
          BY <1>0, <3>1, <4>1
        <5> QED
          BY <4>2, <5>1, <5>2
      <4> QED
        BY <4>3, <4>4
    <3>2. \A x \in Changed(p) : x \in Files
      BY ChangedAreFiles
    <3> QED
      BY <1>1, <2>0, <2>1, <3>1, <3>2 DEF Sees
  <2> QED
    BY <2>2, <2>3, <2>4, <2>5, <2>6, <2>7, <2>8 DEF Formatter, Progress
<1> QED
  BY <1>5, <1>6 DEF FormatFlow

LEMMA StepKeeps ==
  ASSUME FormatFlow, NEW p \in Formatters, Step(p) \/ Failure(p)
  PROVE  FormatFlow'
<1>0. FormatTypes /\ Formatter(p)
  BY DEF FormatFlow
<1>1. Keeps(p)
  BY <1>0, ReadKeeps, LockKeeps, PreparationKeeps, RecheckKeeps, RevalidateKeeps,
     CommitKeeps, SyncKeeps, VerifyKeeps, CleanKeeps, CleanEndsKeeps, RollbackReadKeeps,
     RestoreKeeps, RollbackEndsKeeps, DropAllKeeps, GiveUpKeeps, CommitFailsKeeps,
     LateFailureKeeps, RestoreFailsKeeps, CrashKeeps
  DEF Step, Failure
<1>2. ASSUME NEW q \in Formatters PROVE Formatter(q)'
  <2>1. CASE q = p
    BY <1>1, <2>1 DEF Keeps
  <2>2. CASE q # p
    BY <1>0, <1>1, <2>2, SparedFormatter DEF Keeps, FormatFlow
  <2> QED
    BY <2>1, <2>2
<1> QED
  BY <1>1, <1>2 DEF Keeps, FormatFlow

LEMMA StutterKeeps ==
  ASSUME FormatFlow, UNCHANGED vars
  PROVE  FormatFlow'
<1>1. /\ dest' = dest /\ lock' = lock /\ stage' = stage /\ rollback' = rollback
      /\ proc' = proc /\ edits' = edits /\ faults' = faults
  BY DEF vars
<1>2. FormatTypes'
  BY <1>1 DEF FormatFlow, FormatTypes
<1>3. ASSUME NEW q \in Formatters PROVE Formatter(q)'
  <2>1. Spares(q, q)
    BY <1>1 DEF Spares
  <2> QED
    BY <1>1, <2>1, SparedFormatter DEF FormatFlow
<1> QED
  BY <1>2, <1>3 DEF FormatFlow

LEMMA FormatStarts ==
  ASSUME Init
  PROVE  FormatFlow
<1> DEFINE d == [text |-> 0, formatted |-> FALSE, file |-> None]
           r == [pc |-> "read", at |-> 1, outcome |-> None, input |-> [f \in Files |-> None],
                 prepared |-> {}, committed |-> {}, preserve |-> {}, replaced |-> {},
                 promised |-> None, seen |-> [f \in Files |-> -1]]
<1>1. /\ dest = [f \in Files |-> d] /\ lock = [f \in Files |-> None]
      /\ stage = [p \in Formatters |-> [f \in Files |-> None]]
      /\ rollback = [p \in Formatters |-> [f \in Files |-> None]]
      /\ proc = [p \in Formatters |-> r] /\ edits = 0
  BY DEF Init
<1>2. d \in Data
  BY DEF Data
<1>3. [f \in Files |-> -1] \in [Files -> Int]
  OBVIOUS
<1>4. /\ r \in ProcRecord /\ r.pc = "read" /\ r.at = 1
      /\ r.prepared = {} /\ r.committed = {} /\ r.preserve = {} /\ r.replaced = {}
      /\ r.promised = None
  BY <1>3 DEF ProcRecord, FormatStates
<1> HIDE DEF d, r
<1>5. FormatTypes
  BY <1>1, <1>2, <1>4 DEF FormatTypes
<1>6. ASSUME NEW p \in Formatters PROVE Formatter(p)
  <2>1. proc[p] = r /\ \A f \in Files : lock[f] = None /\ stage[p][f] = None /\ rollback[p][f] = None
    BY <1>1
  <2>2. Owns(p)
    BY <1>4, <2>1 DEF Owns
  <2>3. Promises(p) /\ Sees(p) /\ Undoes(p)
    BY <1>4, <2>1 DEF Promises, Sees, Undoes
  <2>4. 1 \in Files /\ \A g \in Files : ~(g < 1)
    BY DEF Files
  <2>5. Reads(p)
    BY <1>4, <2>1, <2>4 DEF Reads, Preparing, Committing
  <2>6. Prepares(p) /\ Commits(p)
    BY <1>4, <2>1 DEF Prepares, Commits, Preparing, Committing
  <2> QED
    BY <2>2, <2>3, <2>5, <2>6 DEF Formatter, Progress
<1> QED
  BY <1>5, <1>6 DEF FormatFlow

\* The inductive invariant of publish_changed_sources holds for every number of
\* formatters and sources, whatever is edited, fails or is killed.
THEOREM FormatInvariant == Spec => []FormatFlow
<1>1. FormatFlow /\ [Next]_vars => FormatFlow'
  BY StepKeeps, EditKeeps, StutterKeeps DEF Next
<1> QED
  BY <1>1, FormatStarts, PTL DEF Spec

\* Sources are whole and replaced under their lock only, edits the revalidation
\* saw survive, originals can be recovered after any failure or kill, and a
\* formatter that returned left nothing but the rollback file it named.
THEOREM FormatAlwaysSound == Spec => []FormatInv
<1>1. FormatFlow => FormatInv
  <2> SUFFICES ASSUME FormatFlow PROVE FormatInv
    OBVIOUS
  <2>0. FormatTypes /\ \A p \in Formatters : Formatter(p)
    BY DEF FormatFlow
  <2>1. \A p \in Formatters :
          /\ proc[p] \in ProcRecord
          /\ Owns(p) /\ Promises(p) /\ Reads(p) /\ Prepares(p) /\ Commits(p) /\ Sees(p)
    BY <2>0, Unfold
  <2>2. FormatTypeOK
    <3>1. ASSUME NEW p \in Formatters
          PROVE  /\ stage[p] \in [Files -> Data \cup {Torn, None}]
                 /\ rollback[p] \in [Files -> Data \cup {Torn, None}]
                 /\ proc[p].prepared \subseteq Files
                 /\ proc[p].committed \subseteq proc[p].prepared
      <4>1. proc[p].prepared \subseteq Files
        BY <2>1 DEF ProcRecord
      <4>2. proc[p].committed \subseteq proc[p].prepared
        BY <2>1 DEF Commits
      <4> QED
        BY <2>0, <4>1, <4>2 DEF FormatTypes
    <3> QED
      BY <2>0, <3>1 DEF FormatTypeOK, FormatTypes
  <2>3. LockOwned
    <3>1. \A p \in Formatters : proc[p].prepared \subseteq Files
      BY <2>1 DEF ProcRecord
    <3> QED
      BY <2>1, <3>1 DEF LockOwned, Owns, Live
  <2>4. SeenEditsSurvive
    <3> SUFFICES ASSUME NEW p \in Formatters, proc[p].pc = "commit",
                        NEW f \in Changed(p) \ proc[p].replaced,
                        dest[f].text <= proc[p].seen[f]
                 PROVE  dest[f] = proc[p].input[f]
      BY DEF SeenEditsSurvive
    <3>1. proc[p].replaced = {g \in Changed(p) : g < proc[p].at}
      BY <2>1 DEF Commits
    <3>2. f \in Files /\ f \in Nat /\ proc[p].at \in Nat
      BY <2>1, ChangedAreFiles DEF Files, ProcRecord
    <3>3. f >= proc[p].at
      BY <3>1, <3>2
    <3>4. dest[f] = proc[p].input[f] \/ dest[f].text > proc[p].seen[f]
      BY <2>1, <3>3 DEF Sees
    <3>5. dest[f].text \in Int /\ proc[p].seen[f] \in Int
      BY <2>0, <2>1, <3>2 DEF FormatTypes, Data, ProcRecord
    <3> QED
      BY <3>4, <3>5
  <2>5. OriginalRecoverable
    <3>1. ASSUME NEW p \in Formatters, proc[p].pc # "returned", NEW f \in proc[p].committed
          PROVE  SameBytes(rollback[p][f], proc[p].input[f])
      BY <2>1, <3>1, SavedIsParsed DEF Commits
    <3>2. ASSUME NEW p \in Formatters, proc[p].promised # None
          PROVE  SameBytes(rollback[p][proc[p].promised], proc[p].input[proc[p].promised])
      <4>1. Saved(p, proc[p].promised)
        BY <2>1, <3>2 DEF Promises
      <4> QED
        BY <4>1, SavedIsParsed
    <3> QED
      BY <3>1, <3>2 DEF OriginalRecoverable
  <2>6. ReturnedLeavesNothing
    <3> SUFFICES ASSUME NEW p \in Formatters, proc[p].pc = "returned", NEW f \in Files
                 PROVE  /\ lock[f] # p
                        /\ stage[p][f] = None
                        /\ rollback[p][f] # None => f = proc[p].promised
      BY DEF ReturnedLeavesNothing
    <3> QED
      BY <2>1 DEF Owns, Promises
  <2> QED
    BY <2>2, <2>3, <2>4, <2>5, <2>6 DEF FormatInv
<1> QED
  BY <1>1, FormatInvariant, PTL

\* A commit stopped by a rename or a directory sync is undone: when nobody edits
\* and the rollback itself does not fail, every source is back as it was.
THEOREM FailedCommitAlwaysRestores == Spec => []FailedCommitRestores
<1>1. FormatFlow => FailedCommitRestores
  BY DEF FormatFlow, Formatter, Undoes, FailedCommitRestores
<1> QED
  BY <1>1, FormatInvariant, PTL
=============================================================================
