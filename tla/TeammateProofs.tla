---------------------------- MODULE TeammateProofs ----------------------------
(***************************************************************************)
(* Proofs about the commands and the teammates: the start and end of a     *)
(* Claude teammate (ClaudeLifecycle), for any number of spawns, resumes and*)
(* kills; the start of a Codex daemon (CodexRegistry) and the turns of its *)
(* thread (CodexTurns), for any number of commands; what a compaction and a*)
(* listing say (TurnMarkers); what is shown of a Codex teammate            *)
(* (CodexObservation); what the Codex UI is shown (CodexBridge); and what  *)
(* is read of arguments (VerbArgs).                                        *)
(***************************************************************************)
EXTENDS ClaudeLifecycle, CodexRegistry, CodexTurns, TurnMarkers, CodexObservation, CodexBridge,
        VerbArgs, FiniteSetTheorems, WellFoundedInduction, TLAPS

\* A file that was just created exclusively.
LEMMA NewRecord ==
    ASSUME NEW Authors, NEW c \in Authors
    PROVE  [by |-> c, written |-> FALSE] \in [by : Authors, written : BOOLEAN]
BY Zenon

\* And when its author has written to it.
LEMMA WrittenRecord ==
    ASSUME NEW Authors, NEW c \in Authors
    PROVE  [by |-> c, written |-> TRUE] \in [by : Authors, written : BOOLEAN]
BY Zenon

\* A set of which any two members are the same.
LEMMA AtMostOne ==
    ASSUME NEW S, \A x, y \in S : x = y
    PROVE  Cardinality(S) <= 1
<1>1. CASE S = {}
  <2>1. Cardinality(S) = 0
    BY <1>1, FS_EmptySet, Zenon
  <2> QED
    BY <2>1
<1>2. CASE S # {}
  <2>1. PICK x \in S : S = {x}
    BY <1>2
  <2>2. Cardinality(S) = 1
    BY <2>1, FS_Singleton, Zenon
  <2> QED
    BY <2>2
<1> QED
  BY <1>1, <1>2

\* A set of numbers has a least one.
LEMMA LeastOfNaturals ==
    ASSUME NEW T \in SUBSET Nat, T # {}
    PROVE  \E m \in T : \A n \in T : m <= n
<1>1. PICK m \in T : \A n \in T : ~ (<<n, m>> \in OpToRel(<, Nat))
  BY WFMin, NatLessThanWellFounded, Zenon
<1>2. \A n \in T : ~ (n < m)
  BY <1>1, Zenon DEF OpToRel
<1> QED
  BY <1>2

-----------------------------------------------------------------------------
(* The start and end of a Claude teammate                                   *)

LifecycleSteps == {"off", "reserve", "write", "look", "clearReady", "writeCwd", "newSession", "launch", "writeSid",
         "awaitReady", "undo", "release", "lookToKill", "typeExit", "awaitExit", "awaitKept",
         "killSession", "clean", "archive", "forget"} \cup Outcomes

\* Type correctness, of what the proofs speak of.
LifecycleTypeInv ==
    /\ LifecycleTypeOK
    /\ doing \in [Launcher \cup Killer -> LifecycleSteps]
    /\ exit \in [Killer -> {"absent", "graceful", "forced"}]
    /\ hook \in [Launcher -> {"none", "sid", "ready"}]
    /\ upsets \in 0..MaxUpsets

LEMMA LifecycleTypeInit == LifecycleInit => LifecycleTypeInv
<1> SUFFICES ASSUME LifecycleInit PROVE LifecycleTypeInv
  OBVIOUS
<1>1. LifecycleTypeOK
  BY DEF LifecycleInit, LifecycleTypeOK
<1>2. doing \in [Launcher \cup Killer -> LifecycleSteps]
  BY DEF LifecycleInit, LifecycleSteps
<1> QED
  BY <1>1, <1>2, LifecycleAssumption DEF LifecycleInit, LifecycleTypeInv

LEMMA LifecycleTypeStep == LifecycleTypeInv /\ [LifecycleNext]_lifecycleVars => LifecycleTypeInv'
<1> SUFFICES ASSUME LifecycleTypeInv, [LifecycleNext]_lifecycleVars PROVE LifecycleTypeInv'
  OBVIOUS
<1> USE LifecycleAssumption
    DEF LifecycleTypeInv, LifecycleTypeOK, LifecycleSteps, Outcomes, DoesNext, Does, Upset, Present,
        nameFiles, killVars, tmuxVars
<1>1. ASSUME NEW c \in Launcher, BeginLaunch(c) PROVE LifecycleTypeInv'
  BY <1>1 DEF BeginLaunch
<1>2. ASSUME NEW c \in Launcher, ReserveName(c) PROVE LifecycleTypeInv'
  <2>1. ident' \in [by : Launcher, written : BOOLEAN] \cup {Nil}
    <3>1. [by |-> c, written |-> FALSE] \in [by : Launcher, written : BOOLEAN]
      BY NewRecord
    <3>2. ident' \in {ident, [by |-> c, written |-> FALSE]}
      BY <1>2, Zenon DEF ReserveName
    <3> QED
      BY <3>1, <3>2, Zenon
  <2>2. doing' \in [Launcher \cup Killer -> LifecycleSteps]
    BY <1>2 DEF ReserveName
  <2> QED
    BY <1>2, <2>1, <2>2 DEF ReserveName
<1>3. ASSUME NEW c \in Launcher, WriteIdentity(c) PROVE LifecycleTypeInv'
  BY <1>3 DEF WriteIdentity
<1>4. ASSUME NEW c \in Launcher, LookForSession(c) PROVE LifecycleTypeInv'
  BY <1>4 DEF LookForSession
<1>5. ASSUME NEW c \in Launcher, ClearReady(c) PROVE LifecycleTypeInv'
  BY <1>5 DEF ClearReady
<1>6. ASSUME NEW c \in Launcher, WriteCwd(c) PROVE LifecycleTypeInv'
  BY <1>6 DEF WriteCwd
<1>7. ASSUME NEW c \in Launcher, NewSession(c) PROVE LifecycleTypeInv'
  BY <1>7 DEF NewSession
<1>8. ASSUME NEW c \in Launcher, LaunchClaude(c) PROVE LifecycleTypeInv'
  BY <1>8 DEF LaunchClaude
<1>9. ASSUME NEW c \in Launcher, WriteSid(c) PROVE LifecycleTypeInv'
  BY <1>9 DEF WriteSid
<1>10. ASSUME NEW c \in Launcher, AwaitReady(c) PROVE LifecycleTypeInv'
  BY <1>10 DEF AwaitReady
<1>11. ASSUME NEW c \in Launcher, Undo(c) PROVE LifecycleTypeInv'
  BY <1>11 DEF Undo
<1>12. ASSUME NEW c \in Launcher, Release(c) PROVE LifecycleTypeInv'
  BY <1>12 DEF Release
<1>13. ASSUME NEW c \in Launcher, HookStarts(c) PROVE LifecycleTypeInv'
  BY <1>13 DEF HookStarts
<1>29. ASSUME NEW c \in Launcher, HookWritesSid(c) PROVE LifecycleTypeInv'
  BY <1>29 DEF HookWritesSid
<1>30. ASSUME NEW c \in Launcher, HookTouchesReady(c) PROVE LifecycleTypeInv'
  BY <1>30 DEF HookTouchesReady
<1>14. ASSUME NEW c \in Launcher, TurnBegins(c) PROVE LifecycleTypeInv'
  BY <1>14 DEF TurnBegins
<1>15. ASSUME NEW c \in Launcher, TurnStops(c) PROVE LifecycleTypeInv'
  BY <1>15 DEF TurnStops, Touched
<1>16. ASSUME NEW c \in Launcher, ClaudeExits(c) PROVE LifecycleTypeInv'
  BY <1>16 DEF ClaudeExits, Touched
<1>17. ASSUME NEW c \in Launcher, ClaudeAsks(c) PROVE LifecycleTypeInv'
  BY <1>17 DEF ClaudeAsks
<1>18. ASSUME NEW k \in Killer, StartKill(k) PROVE LifecycleTypeInv'
  BY <1>18 DEF StartKill
<1>19. ASSUME NEW k \in Killer, LookToKill(k) PROVE LifecycleTypeInv'
  BY <1>19 DEF LookToKill
<1>20. ASSUME NEW k \in Killer, TypeExit(k) PROVE LifecycleTypeInv'
  BY <1>20 DEF TypeExit
<1>21. ASSUME NEW k \in Killer, ExitSeen(k) PROVE LifecycleTypeInv'
  BY <1>21 DEF ExitSeen
<1>22. ASSUME NEW k \in Killer, ExitUnseen(k) PROVE LifecycleTypeInv'
  BY <1>22 DEF ExitUnseen
<1>23. ASSUME NEW k \in Killer, KillSession(k) PROVE LifecycleTypeInv'
  BY <1>23 DEF KillSession
<1>24. ASSUME NEW k \in Killer, CleanFiles(k) PROVE LifecycleTypeInv'
  BY <1>24 DEF CleanFiles, Outlives
<1>25. ASSUME NEW k \in Killer, Archive(k) PROVE LifecycleTypeInv'
  BY <1>25 DEF Archive
<1>26. ASSUME NEW k \in Killer, Forget(k) PROVE LifecycleTypeInv'
  BY <1>26 DEF Forget
<1>27. ASSUME SessionGone PROVE LifecycleTypeInv'
  BY <1>27 DEF SessionGone
<1>28. CASE UNCHANGED lifecycleVars
  BY <1>28 DEF lifecycleVars
<1> QED
  BY <1>1, <1>2, <1>3, <1>4, <1>5, <1>6, <1>7, <1>8, <1>9, <1>10, <1>11, <1>12, <1>13, <1>14,
     <1>15, <1>16, <1>17, <1>18, <1>19, <1>20, <1>21, <1>22, <1>23, <1>24, <1>25, <1>26, <1>27, <1>28, <1>29, <1>30
  DEF LifecycleNext, Launch, ClaudeStep, KillStep

\* The flags that commands keep.
FlagsOK ==
    /\ reserved \in [Launcher -> BOOLEAN]
    /\ hadRecord \in [Killer -> BOOLEAN] /\ alone \in [Killer -> BOOLEAN]
    /\ missed \in [Killer -> BOOLEAN] /\ outlived \in [Killer -> BOOLEAN]

LEMMA FlagsInit == LifecycleInit => FlagsOK
<1> SUFFICES ASSUME LifecycleInit PROVE FlagsOK
  OBVIOUS
<1> QED
  BY Zenon DEF LifecycleInit, FlagsOK

LEMMA FlagsStep == FlagsOK /\ [LifecycleNext]_lifecycleVars => FlagsOK'
<1> SUFFICES ASSUME FlagsOK, [LifecycleNext]_lifecycleVars PROVE FlagsOK'
  OBVIOUS
<1> USE DEF FlagsOK, killVars
<1>1. ASSUME NEW c \in Launcher, BeginLaunch(c) PROVE FlagsOK'
  BY <1>1, Zenon DEF BeginLaunch
<1>2. ASSUME NEW c \in Launcher, ReserveName(c) PROVE FlagsOK'
  BY <1>2, Zenon DEF ReserveName
<1>3. ASSUME NEW c \in Launcher, WriteIdentity(c) PROVE FlagsOK'
  BY <1>3, Zenon DEF WriteIdentity
<1>4. ASSUME NEW c \in Launcher, LookForSession(c) PROVE FlagsOK'
  BY <1>4, Zenon DEF LookForSession
<1>5. ASSUME NEW c \in Launcher, ClearReady(c) PROVE FlagsOK'
  BY <1>5, Zenon DEF ClearReady
<1>6. ASSUME NEW c \in Launcher, WriteCwd(c) PROVE FlagsOK'
  BY <1>6, Zenon DEF WriteCwd
<1>7. ASSUME NEW c \in Launcher, NewSession(c) PROVE FlagsOK'
  BY <1>7, Zenon DEF NewSession
<1>8. ASSUME NEW c \in Launcher, LaunchClaude(c) PROVE FlagsOK'
  BY <1>8, Zenon DEF LaunchClaude
<1>9. ASSUME NEW c \in Launcher, WriteSid(c) PROVE FlagsOK'
  BY <1>9, Zenon DEF WriteSid
<1>10. ASSUME NEW c \in Launcher, AwaitReady(c) PROVE FlagsOK'
  BY <1>10, Zenon DEF AwaitReady
<1>11. ASSUME NEW c \in Launcher, Undo(c) PROVE FlagsOK'
  BY <1>11, Zenon DEF Undo
<1>12. ASSUME NEW c \in Launcher, Release(c) PROVE FlagsOK'
  BY <1>12, Zenon DEF Release
<1>13. ASSUME NEW c \in Launcher, HookStarts(c) PROVE FlagsOK'
  BY <1>13, Zenon DEF HookStarts
<1>29. ASSUME NEW c \in Launcher, HookWritesSid(c) PROVE FlagsOK'
  BY <1>29, Zenon DEF HookWritesSid
<1>30. ASSUME NEW c \in Launcher, HookTouchesReady(c) PROVE FlagsOK'
  BY <1>30, Zenon DEF HookTouchesReady
<1>14. ASSUME NEW c \in Launcher, TurnBegins(c) PROVE FlagsOK'
  BY <1>14, Zenon DEF TurnBegins
<1>15. ASSUME NEW c \in Launcher, TurnStops(c) PROVE FlagsOK'
  BY <1>15, Zenon DEF TurnStops, Touched
<1>16. ASSUME NEW c \in Launcher, ClaudeExits(c) PROVE FlagsOK'
  BY <1>16, Zenon DEF ClaudeExits, Touched
<1>17. ASSUME NEW c \in Launcher, ClaudeAsks(c) PROVE FlagsOK'
  BY <1>17, Zenon DEF ClaudeAsks
<1>18. ASSUME NEW k \in Killer, StartKill(k) PROVE FlagsOK'
  BY <1>18, Zenon DEF StartKill
<1>19. ASSUME NEW k \in Killer, LookToKill(k) PROVE FlagsOK'
  BY <1>19, Zenon DEF LookToKill
<1>20. ASSUME NEW k \in Killer, TypeExit(k) PROVE FlagsOK'
  BY <1>20, Zenon DEF TypeExit
<1>21. ASSUME NEW k \in Killer, ExitSeen(k) PROVE FlagsOK'
  BY <1>21, Zenon DEF ExitSeen
<1>22. ASSUME NEW k \in Killer, ExitUnseen(k) PROVE FlagsOK'
  BY <1>22, Zenon DEF ExitUnseen
<1>23. ASSUME NEW k \in Killer, KillSession(k) PROVE FlagsOK'
  BY <1>23, Zenon DEF KillSession
<1>24. ASSUME NEW k \in Killer, CleanFiles(k) PROVE FlagsOK'
  BY <1>24, Zenon DEF CleanFiles, Outlives
<1>25. ASSUME NEW k \in Killer, Archive(k) PROVE FlagsOK'
  BY <1>25, Zenon DEF Archive
<1>26. ASSUME NEW k \in Killer, Forget(k) PROVE FlagsOK'
  BY <1>26, Zenon DEF Forget
<1>27. ASSUME SessionGone PROVE FlagsOK'
  BY <1>27, Zenon DEF SessionGone
<1>28. CASE UNCHANGED lifecycleVars
  BY <1>28, Zenon DEF lifecycleVars
<1> QED
  BY <1>1, <1>2, <1>3, <1>4, <1>5, <1>6, <1>7, <1>8, <1>9, <1>10, <1>11, <1>12, <1>13, <1>14,
     <1>15, <1>16, <1>17, <1>18, <1>19, <1>20, <1>21, <1>22, <1>23, <1>24, <1>25, <1>26, <1>27, <1>28, <1>29, <1>30
  DEF LifecycleNext, Launch, ClaudeStep, KillStep

\* What an undisturbed kill k has achieved so far: no start is under way, so that
\* whatever it removes stays away, the session before the files its hooks write,
\* and these before the record.  Without a session no hook begins.
Achieved(k) ==
    /\ \A c \in Launcher : ~Underway(c)
    /\ doing[k] \in {"clean", "archive", "forget", "killed", "notFound"} /\ ~missed[k] => session = Nil
    /\ doing[k] \in {"archive", "forget", "killed", "notFound"} => cwdFile = Nil
    /\ doing[k] \in {"archive", "forget", "killed", "notFound"} /\ ~missed[k] /\ ~outlived[k] =>
          sidFile = Nil /\ ~ready /\ \A s \in Launcher : hook[s] = "none"
    /\ ~hadRecord[k] \/ doing[k] = "killed" => ident = Nil
    /\ doing[k] = "notFound" => ~hadRecord[k]

KillInv == \A k \in Killer : doing[k] # "off" /\ alone[k] => Achieved(k)

LEMMA KillInvStep == LifecycleTypeInv /\ FlagsOK /\ KillInv /\ [LifecycleNext]_lifecycleVars => KillInv'
<1> SUFFICES ASSUME LifecycleTypeInv, FlagsOK, KillInv, [LifecycleNext]_lifecycleVars PROVE KillInv'
  OBVIOUS
<1> USE LifecycleAssumption
    DEF LifecycleTypeInv, LifecycleTypeOK, KillInv, Achieved, Underway, LifecycleSteps, Outcomes, DoesNext, Does,
        Present, nameFiles, killVars, tmuxVars
<1>1. ASSUME NEW c \in Launcher, BeginLaunch(c) PROVE KillInv'
  BY <1>1 DEF BeginLaunch
<1>2. ASSUME NEW c \in Launcher, ReserveName(c) PROVE KillInv'
  BY <1>2 DEF ReserveName
<1>3. ASSUME NEW c \in Launcher, WriteIdentity(c) PROVE KillInv'
  BY <1>3 DEF WriteIdentity
<1>4. ASSUME NEW c \in Launcher, LookForSession(c) PROVE KillInv'
  BY <1>4 DEF LookForSession
<1>5. ASSUME NEW c \in Launcher, ClearReady(c) PROVE KillInv'
  BY <1>5 DEF ClearReady
<1>6. ASSUME NEW c \in Launcher, WriteCwd(c) PROVE KillInv'
  BY <1>6 DEF WriteCwd
<1>7. ASSUME NEW c \in Launcher, NewSession(c) PROVE KillInv'
  BY <1>7 DEF NewSession
<1>8. ASSUME NEW c \in Launcher, LaunchClaude(c) PROVE KillInv'
  BY <1>8 DEF LaunchClaude
<1>9. ASSUME NEW c \in Launcher, WriteSid(c) PROVE KillInv'
  BY <1>9 DEF WriteSid
<1>10. ASSUME NEW c \in Launcher, AwaitReady(c) PROVE KillInv'
  BY <1>10 DEF AwaitReady
<1>11. ASSUME NEW c \in Launcher, Undo(c) PROVE KillInv'
  BY <1>11 DEF Undo
<1>12. ASSUME NEW c \in Launcher, Release(c) PROVE KillInv'
  BY <1>12 DEF Release
<1>13. ASSUME NEW c \in Launcher, HookStarts(c) PROVE KillInv'
  BY <1>13 DEF HookStarts
<1>29. ASSUME NEW c \in Launcher, HookWritesSid(c) PROVE KillInv'
  BY <1>29 DEF HookWritesSid
<1>30. ASSUME NEW c \in Launcher, HookTouchesReady(c) PROVE KillInv'
  BY <1>30 DEF HookTouchesReady
<1>14. ASSUME NEW c \in Launcher, TurnBegins(c) PROVE KillInv'
  BY <1>14 DEF TurnBegins
<1>15. ASSUME NEW c \in Launcher, TurnStops(c) PROVE KillInv'
  BY <1>15 DEF TurnStops, Touched
<1>16. ASSUME NEW c \in Launcher, ClaudeExits(c) PROVE KillInv'
  BY <1>16 DEF ClaudeExits, Touched
<1>17. ASSUME NEW c \in Launcher, ClaudeAsks(c) PROVE KillInv'
  BY <1>17 DEF ClaudeAsks
<1>18. ASSUME NEW k \in Killer, StartKill(k) PROVE KillInv'
  <2>1. /\ hadRecord' = [hadRecord EXCEPT ![k] = ident # Nil]
        /\ alone' = [alone EXCEPT ![k] = \A c \in Launcher : ~Underway(c)]
    BY <1>18, Zenon DEF StartKill
  <2>2. (hadRecord'[k] <=> ident # Nil) /\ (alone'[k] => \A c \in Launcher : ~Underway(c))
    BY <2>1, Zenon DEF FlagsOK
  <2>3. \A j \in Killer \ {k} : hadRecord'[j] = hadRecord[j] /\ alone'[j] = alone[j]
    BY <2>1, Zenon DEF FlagsOK
  <2> QED
    BY <1>18, <2>2, <2>3 DEF StartKill
<1>19. ASSUME NEW k \in Killer, LookToKill(k) PROVE KillInv'
  <2>1. /\ session' = session /\ cwdFile' = cwdFile /\ sidFile' = sidFile /\ ready' = ready
        /\ hook' = hook /\ ident' = ident /\ hadRecord' = hadRecord /\ alone' = alone /\ outlived' = outlived
    BY <1>19 DEF LookToKill
  <2>2. missed' = missed \/ missed' = [missed EXCEPT ![k] = TRUE]
    BY <1>19, Zenon DEF LookToKill
  <2>3. \A j \in Killer : ~missed'[j] => ~missed[j]
    BY <2>2, Zenon DEF FlagsOK
  <2>4. missed' = [missed EXCEPT ![k] = TRUE] => missed'[k]
    BY Zenon DEF FlagsOK
  <2>5. \/ doing' = [doing EXCEPT ![k] = "typeExit"]
        \/ doing' = [doing EXCEPT ![k] = "clean"] /\ (~missed'[k] => session = Nil)
    BY <1>19, <2>4 DEF LookToKill
  <2>6. doing[k] = "lookToKill"
    BY <1>19 DEF LookToKill
  <2>7. CASE doing' = [doing EXCEPT ![k] = "typeExit"]
    BY <2>1, <2>3, <2>6, <2>7
  <2>8. CASE doing' = [doing EXCEPT ![k] = "clean"] /\ (~missed'[k] => session = Nil)
    BY <2>1, <2>3, <2>6, <2>8
  <2> QED
    BY <2>5, <2>7, <2>8
<1>20. ASSUME NEW k \in Killer, TypeExit(k) PROVE KillInv'
  <2>1. /\ session' = session /\ cwdFile' = cwdFile /\ sidFile' = sidFile /\ ready' = ready
        /\ hook' = hook /\ ident' = ident /\ hadRecord' = hadRecord /\ alone' = alone /\ outlived' = outlived
    BY <1>20 DEF TypeExit
  <2>2. missed' = missed \/ missed' = [missed EXCEPT ![k] = TRUE]
    BY <1>20, Zenon DEF TypeExit
  <2>3. \A j \in Killer : ~missed'[j] => ~missed[j]
    BY <2>2, Zenon DEF FlagsOK
  <2>4. missed' = [missed EXCEPT ![k] = TRUE] => missed'[k]
    BY Zenon DEF FlagsOK
  <2>5. \/ doing' = [doing EXCEPT ![k] = "awaitExit"]
        \/ doing' = [doing EXCEPT ![k] = "clean"] /\ (~missed'[k] => session = Nil)
    BY <1>20, <2>4 DEF TypeExit
  <2>6. doing[k] = "typeExit"
    BY <1>20 DEF TypeExit
  <2>7. CASE doing' = [doing EXCEPT ![k] = "awaitExit"]
    BY <2>1, <2>3, <2>6, <2>7
  <2>8. CASE doing' = [doing EXCEPT ![k] = "clean"] /\ (~missed'[k] => session = Nil)
    BY <2>1, <2>3, <2>6, <2>8
  <2> QED
    BY <2>5, <2>7, <2>8
<1>21. ASSUME NEW k \in Killer, ExitSeen(k) PROVE KillInv'
  BY <1>21 DEF ExitSeen
<1>22. ASSUME NEW k \in Killer, ExitUnseen(k) PROVE KillInv'
  BY <1>22 DEF ExitUnseen
<1>23. ASSUME NEW k \in Killer, KillSession(k) PROVE KillInv'
  <2>1. /\ cwdFile' = cwdFile /\ sidFile' = sidFile /\ ready' = ready
        /\ hook' = hook /\ ident' = ident /\ hadRecord' = hadRecord /\ alone' = alone /\ outlived' = outlived
        /\ doing' = [doing EXCEPT ![k] = "clean"] /\ doing[k] = "killSession"
    BY <1>23 DEF KillSession
  <2>2. \/ session' = Nil /\ missed' = missed
        \/ session' = session /\ missed' = [missed EXCEPT ![k] = TRUE]
    BY <1>23, Zenon DEF KillSession
  <2>3. \A j \in Killer : ~missed'[j] => ~missed[j]
    BY <2>2, Zenon DEF FlagsOK
  <2>4. session' = Nil \/ (session' = session /\ missed'[k])
    BY <2>2, Zenon DEF FlagsOK
  <2> QED
    BY <2>1, <2>3, <2>4
<1>24. ASSUME NEW k \in Killer, CleanFiles(k) PROVE KillInv'
  <2>1. /\ session' = session /\ cwdFile' = Nil /\ sidFile' = Nil /\ ready' = FALSE
        /\ hook' = hook /\ ident' = ident /\ hadRecord' = hadRecord /\ alone' = alone /\ missed' = missed
        /\ doing' = [doing EXCEPT ![k] = IF exit[k] = "absent" /\ ~hadRecord[k] THEN "notFound" ELSE "archive"]
        /\ doing[k] = "clean"
    BY <1>24 DEF CleanFiles
  <2>2. outlived' = [outlived EXCEPT ![k] = \E s \in Launcher : hook[s] # "none"]
    BY <1>24 DEF CleanFiles, Outlives
  <2>3. ~outlived'[k] => \A s \in Launcher : hook[s] = "none"
    BY <2>2, Zenon DEF FlagsOK
  <2>4. \A j \in Killer \ {k} : ~outlived'[j] => ~outlived[j]
    BY <2>2, Zenon DEF FlagsOK
  <2> QED
    BY <2>1, <2>3, <2>4
<1>25. ASSUME NEW k \in Killer, Archive(k) PROVE KillInv'
  BY <1>25 DEF Archive
<1>26. ASSUME NEW k \in Killer, Forget(k) PROVE KillInv'
  BY <1>26 DEF Forget
<1>27. ASSUME SessionGone PROVE KillInv'
  BY <1>27 DEF SessionGone
<1>28. CASE UNCHANGED lifecycleVars
  BY <1>28 DEF lifecycleVars
<1> QED
  BY <1>1, <1>2, <1>3, <1>4, <1>5, <1>6, <1>7, <1>8, <1>9, <1>10, <1>11, <1>12, <1>13, <1>14,
     <1>15, <1>16, <1>17, <1>18, <1>19, <1>20, <1>21, <1>22, <1>23, <1>24, <1>25, <1>26, <1>27, <1>28, <1>29, <1>30
  DEF LifecycleNext, Launch, ClaudeStep, KillStep

\* As long as no one kills and nothing fails: who looks for a session has found the
\* record or written it, the one that made the session goes on alone, and the session
\* id on file, like the ready file, is that of the session.
RecordedInv ==
    /\ \A c \in Launcher :
          /\ doing[c] = "write" => ident # Nil /\ ident.by = c
          /\ doing[c] \in {"look", "clearReady", "writeCwd", "newSession", "launch", "writeSid",
                          "awaitReady", "started"} => Identified
          /\ doing[c] \in {"launch", "writeSid", "awaitReady", "started"} <=> session = c
          /\ doing[c] = "undo" => session # Nil
          /\ doing[c] # "release"
          /\ doing[c] = "started" \/ (doing[c] = "awaitReady" /\ ~resumes[c]) => sidFile = c
          /\ hook[c] # "none" => session = c
          /\ hook[c] = "ready" => sidFile = c
    /\ sidFile \in {Nil, session}
    /\ ready => session # Nil /\ sidFile = session

LEMMA RecordedStep ==
    /\ LifecycleTypeInv /\ (Unkilled /\ upsets = 0 => RecordedInv)
    /\ [LifecycleNext]_lifecycleVars
    => (Unkilled /\ upsets = 0 => RecordedInv)'
<1> SUFFICES ASSUME LifecycleTypeInv, Unkilled /\ upsets = 0 => RecordedInv,
                    [LifecycleNext]_lifecycleVars, Unkilled', upsets' = 0
             PROVE  RecordedInv'
  OBVIOUS
<1> USE LifecycleAssumption
    DEF LifecycleTypeInv, LifecycleTypeOK, Unkilled, RecordedInv, Identified, LifecycleSteps, Outcomes, DoesNext,
        Does, Upset, Present, nameFiles, killVars, tmuxVars
<1>1. ASSUME NEW c \in Launcher, BeginLaunch(c) PROVE RecordedInv'
  BY <1>1 DEF BeginLaunch
<1>2. ASSUME NEW c \in Launcher, ReserveName(c) PROVE RecordedInv'
  <2>1. ident = Nil => ident' = [by |-> c, written |-> FALSE]
    BY <1>2 DEF ReserveName
  <2>2. ident # Nil => ident' = ident
    BY <1>2 DEF ReserveName
  <2>3. CASE ident = Nil
    <3>1. ident' # Nil /\ ident'.by = c
      <4>1. [by |-> c, written |-> FALSE] \in [by : Launcher, written : BOOLEAN]
        BY NewRecord
      <4>2. [by |-> c, written |-> FALSE] # Nil
        BY <4>1, Zenon
      <4>3. [by |-> c, written |-> FALSE].by = c
        OBVIOUS
      <4> QED
        BY <2>1, <2>3, <4>2, <4>3, Zenon
    <3> QED
      BY <1>2, <2>3, <3>1 DEF ReserveName
  <2>4. CASE ident # Nil
    BY <1>2, <2>2, <2>4 DEF ReserveName
  <2> QED
    BY <2>3, <2>4
<1>3. ASSUME NEW c \in Launcher, WriteIdentity(c) PROVE RecordedInv'
  <2>1. ident # Nil /\ ident.by = c /\ ident' = [ident EXCEPT !.written = TRUE]
    BY <1>3 DEF WriteIdentity
  <2>2. ident' # Nil /\ ident'.written /\ ident'.by = c
    <3>1. ident \in [by : Launcher, written : BOOLEAN]
      BY <2>1
    <3>2. ident' \in [by : Launcher, written : BOOLEAN] /\ ident'.written /\ ident'.by = c
      BY ONLY <2>1, <3>1
    <3> QED
      BY ONLY <3>2, LifecycleAssumption DEF LifecycleAssumption
  <2> QED
    BY <1>3, <2>2 DEF WriteIdentity
<1>4. ASSUME NEW c \in Launcher, LookForSession(c) PROVE RecordedInv'
  BY <1>4 DEF LookForSession
<1>5. ASSUME NEW c \in Launcher, ClearReady(c) PROVE RecordedInv'
  BY <1>5 DEF ClearReady
<1>6. ASSUME NEW c \in Launcher, WriteCwd(c) PROVE RecordedInv'
  BY <1>6 DEF WriteCwd
<1>7. ASSUME NEW c \in Launcher, NewSession(c) PROVE RecordedInv'
  BY <1>7 DEF NewSession
<1>8. ASSUME NEW c \in Launcher, LaunchClaude(c) PROVE RecordedInv'
  BY <1>8 DEF LaunchClaude
<1>9. ASSUME NEW c \in Launcher, WriteSid(c) PROVE RecordedInv'
  BY <1>9 DEF WriteSid
<1>10. ASSUME NEW c \in Launcher, AwaitReady(c) PROVE RecordedInv'
  BY <1>10 DEF AwaitReady
<1>11. ASSUME NEW c \in Launcher, Undo(c) PROVE RecordedInv'
  BY <1>11 DEF Undo
<1>12. ASSUME NEW c \in Launcher, Release(c) PROVE RecordedInv'
  BY <1>12 DEF Release
<1>13. ASSUME NEW c \in Launcher, HookStarts(c) PROVE RecordedInv'
  BY <1>13 DEF HookStarts
<1>29. ASSUME NEW c \in Launcher, HookWritesSid(c) PROVE RecordedInv'
  BY <1>29 DEF HookWritesSid
<1>30. ASSUME NEW c \in Launcher, HookTouchesReady(c) PROVE RecordedInv'
  BY <1>30 DEF HookTouchesReady
<1>14. ASSUME NEW c \in Launcher, TurnBegins(c) PROVE RecordedInv'
  BY <1>14 DEF TurnBegins
<1>15. ASSUME NEW c \in Launcher, TurnStops(c) PROVE RecordedInv'
  BY <1>15 DEF TurnStops, Touched
<1>16. ASSUME NEW c \in Launcher, ClaudeExits(c) PROVE RecordedInv'
  BY <1>16 DEF ClaudeExits, Touched
<1>17. ASSUME NEW c \in Launcher, ClaudeAsks(c) PROVE RecordedInv'
  BY <1>17 DEF ClaudeAsks
<1>18. ASSUME NEW k \in Killer, StartKill(k) PROVE RecordedInv'
  BY <1>18 DEF StartKill
<1>19. ASSUME NEW k \in Killer, LookToKill(k) PROVE RecordedInv'
  BY <1>19 DEF LookToKill
<1>20. ASSUME NEW k \in Killer, TypeExit(k) PROVE RecordedInv'
  BY <1>20 DEF TypeExit
<1>21. ASSUME NEW k \in Killer, ExitSeen(k) PROVE RecordedInv'
  BY <1>21 DEF ExitSeen
<1>22. ASSUME NEW k \in Killer, ExitUnseen(k) PROVE RecordedInv'
  BY <1>22 DEF ExitUnseen
<1>23. ASSUME NEW k \in Killer, KillSession(k) PROVE RecordedInv'
  BY <1>23 DEF KillSession
<1>24. ASSUME NEW k \in Killer, CleanFiles(k) PROVE RecordedInv'
  BY <1>24 DEF CleanFiles, Outlives
<1>25. ASSUME NEW k \in Killer, Archive(k) PROVE RecordedInv'
  BY <1>25 DEF Archive
<1>26. ASSUME NEW k \in Killer, Forget(k) PROVE RecordedInv'
  BY <1>26 DEF Forget
<1>27. ASSUME SessionGone PROVE RecordedInv'
  BY <1>27 DEF SessionGone
<1>28. CASE UNCHANGED lifecycleVars
  BY <1>28 DEF lifecycleVars
<1> QED
  BY <1>1, <1>2, <1>3, <1>4, <1>5, <1>6, <1>7, <1>8, <1>9, <1>10, <1>11, <1>12, <1>13, <1>14,
     <1>15, <1>16, <1>17, <1>18, <1>19, <1>20, <1>21, <1>22, <1>23, <1>24, <1>25, <1>26, <1>27, <1>28, <1>29, <1>30
  DEF LifecycleNext, Launch, ClaudeStep, KillStep

\* Type correctness of the record, the session and the files.
THEOREM LifecycleTypeCorrect == LifecycleSpec => []LifecycleTypeOK
<1>1. LifecycleTypeInv => LifecycleTypeOK
  BY DEF LifecycleTypeInv
<1> QED
  BY <1>1, LifecycleTypeInit, LifecycleTypeStep, PTL DEF LifecycleSpec

\* A kill that no start has run beside leaves no record and no cwd file, through any
\* failures and other kills; no session unless tmux failed it; and no file at all unless
\* besides a SessionStart hook was still at work when it removed them (claude-engine.ts,
\* claudeKill; verbs/kill.ts; on-session-start.sh).
THEOREM KillIsComplete == LifecycleSpec => []KillLeavesNothing
<1>1. LifecycleInit => KillInv
  BY DEF LifecycleInit, KillInv
<1>2. KillInv => KillLeavesNothing
  BY DEF KillInv, Achieved, KillLeavesNothing
<1> QED
  BY <1>1, <1>2, LifecycleTypeInit, LifecycleTypeStep, FlagsInit, FlagsStep, KillInvStep, PTL DEF LifecycleSpec

\* However many spawns and resumes race for a name, the session they leave is recorded
\* and its id is the one on file, as long as no one kills it and nothing fails
\* (spawn.ts; claude-engine.ts, reserveClaudeIdentityForLaunch).
THEOREM SessionRecorded == LifecycleSpec => []SessionIsRecorded
<1>1. LifecycleInit => RecordedInv
  BY LifecycleAssumption DEF LifecycleInit, RecordedInv
<1>2. LifecycleTypeInv /\ (Unkilled /\ upsets = 0 => RecordedInv) => SessionIsRecorded
  BY DEF LifecycleTypeInv, LifecycleTypeOK, RecordedInv, SessionIsRecorded, Does
<1> QED
  BY <1>1, <1>2, LifecycleTypeInit, LifecycleTypeStep, RecordedStep, PTL DEF LifecycleSpec

-----------------------------------------------------------------------------
(* The start of a Codex daemon                                              *)

RegistrySteps ==
    {"off", "crashed", "probe", "clearThenUnrecord", "clearThenReserve", "unrecord", "reserve", "record",
     "provision", "lock", "lockPid", "inspect", "start", "register", "stamp", "await", "unlock",
     "unlockFail", "unlockGiveUp", "giveUp", "health", "forget", "reap", "end", "unregister",
     "unidentify"} \cup Verdicts

\* What the proof needs of the types.
RegistryTypeInv ==
    /\ step \in [Command -> RegistrySteps] /\ verb \in [Command -> Verbs]
    /\ lock # None => lock.by \in Command
    /\ {pid, socket} \subseteq Command \cup {None}
    /\ live \subseteq Command
    /\ rfaults \in Nat

HoldsSpawnLock == {"lockPid", "inspect", "start", "register", "stamp", "await", "unlock", "unlockGiveUp"}

HasDaemon == {"register", "stamp", "await", "unlock", "health", "spawned"}

\* The lock is that of the command that does what it protects, and the daemons that
\* run are those the commands have started and registered.
OnlyStartsInv ==
    /\ \A c \in Command :
          /\ step[c] \notin {"clearThenUnrecord", "clearThenReserve", "unlockFail", "forget", "reap", "end",
                             "unregister", "unidentify", "failed", "crashed", "killed", "checked"}
          /\ step[c] \in HoldsSpawnLock => lock # None /\ lock.by = c
          /\ c \in live <=> step[c] \in HasDaemon
          /\ step[c] \in HasDaemon \ {"register"} => pid = c
          /\ step[c] \in HasDaemon \ {"register", "stamp"} => stamped
          /\ step[c] \in HasDaemon \cup {"start"} => dir
          /\ step[c] \in {"unlock", "health"} => socket # None
          /\ On(c, "start") => live = {}
    /\ lock # None => step[lock.by] \in HoldsSpawnLock
    /\ \A c, d \in live : c = d
    /\ socket \in live \cup {None}

RegistryInv == RegistryTypeInv /\ (OnlyStarts => OnlyStartsInv)

LEMMA RegistryInvInit == RegistryInit => RegistryInv
BY RegistryAssumption
DEF RegistryInit, RegistryInv, RegistryTypeInv, OnlyStartsInv, RegistrySteps, HoldsSpawnLock, HasDaemon, On

LEMMA RegistryTypeStep == RegistryTypeInv /\ [RegistryNext]_registryVars => RegistryTypeInv'
<1> SUFFICES ASSUME RegistryTypeInv, [RegistryNext]_registryVars PROVE RegistryTypeInv'
  OBVIOUS
<1> USE RegistryAssumption DEF RegistryTypeInv, RegistrySteps, Verdicts, Do, On, Mishap, registry
<1>1. ASSUME NEW c \in Command, BeginStart(c) PROVE RegistryTypeInv'
  BY <1>1 DEF BeginStart
<1>2. ASSUME NEW c \in Command, Probe(c) PROVE RegistryTypeInv'
  BY <1>2 DEF Probe
<1>3. ASSUME NEW c \in Command, ClearStaleLock(c) PROVE RegistryTypeInv'
  BY <1>3 DEF ClearStaleLock
<1>4. ASSUME NEW c \in Command, Unrecord(c) PROVE RegistryTypeInv'
  BY <1>4 DEF Unrecord
<1>5. ASSUME NEW c \in Command, Reserve(c) PROVE RegistryTypeInv'
  BY <1>5 DEF Reserve
<1>6. ASSUME NEW c \in Command, WriteRecord(c) PROVE RegistryTypeInv'
  BY <1>6 DEF WriteRecord
<1>7. ASSUME NEW c \in Command, Provision(c) PROVE RegistryTypeInv'
  BY <1>7 DEF Provision
<1>8. ASSUME NEW c \in Command, TakeSpawnLock(c) PROVE RegistryTypeInv'
  BY <1>8 DEF TakeSpawnLock, File
<1>9. ASSUME NEW c \in Command, WriteLockPid(c) PROVE RegistryTypeInv'
  BY <1>9 DEF WriteLockPid, Written, File
<1>10. ASSUME NEW c \in Command, Inspect(c) PROVE RegistryTypeInv'
  BY <1>10 DEF Inspect
<1>11. ASSUME NEW c \in Command, StartDaemon(c) PROVE RegistryTypeInv'
  BY <1>11 DEF StartDaemon, RegistryRemoved
<1>12. ASSUME NEW c \in Command, Register(c) PROVE RegistryTypeInv'
  BY <1>12 DEF Register
<1>13. ASSUME NEW c \in Command, Await(c) PROVE RegistryTypeInv'
  BY <1>13 DEF Await, RegistryRemoved
<1>14. ASSUME NEW c \in Command, Unlock(c) PROVE RegistryTypeInv'
  BY <1>14 DEF Unlock
<1>15. ASSUME NEW c \in Command, Health(c) PROVE RegistryTypeInv'
  BY <1>15 DEF Health
<1>16. ASSUME NEW c \in Command, ForgetRecord(c) PROVE RegistryTypeInv'
  BY <1>16 DEF ForgetRecord
<1>17. ASSUME NEW c \in Command, BeginKill(c) PROVE RegistryTypeInv'
  BY <1>17 DEF BeginKill
<1>18. ASSUME NEW c \in Command, BeginDoctor(c) PROVE RegistryTypeInv'
  BY <1>18 DEF BeginDoctor
<1>19. ASSUME NEW c \in Command, Reap(c) PROVE RegistryTypeInv'
  BY <1>19 DEF Reap
<1>20. ASSUME NEW c \in Command, EndDaemon(c) PROVE RegistryTypeInv'
  BY <1>20 DEF EndDaemon
<1>21. ASSUME NEW c \in Command, Unregister(c) PROVE RegistryTypeInv'
  BY <1>21 DEF Unregister, RegistryRemoved
<1>22. ASSUME NEW c \in Command, Unidentify(c) PROVE RegistryTypeInv'
  BY <1>22 DEF Unidentify
<1>23. ASSUME NEW c \in Command, Bind(c) PROVE RegistryTypeInv'
  BY <1>23 DEF Bind
<1>24. ASSUME NEW c \in Command, DaemonDies(c) PROVE RegistryTypeInv'
  BY <1>24 DEF DaemonDies
<1>25. ASSUME NEW c \in Command, CommandDies(c) PROVE RegistryTypeInv'
  BY <1>25 DEF CommandDies
<1>26. CASE UNCHANGED registryVars
  BY <1>26 DEF registryVars
<1> QED
  BY <1>1, <1>2, <1>3, <1>4, <1>5, <1>6, <1>7, <1>8, <1>9, <1>10, <1>11, <1>12, <1>13, <1>14,
     <1>15, <1>16, <1>17, <1>18, <1>19, <1>20, <1>21, <1>22, <1>23, <1>24, <1>25, <1>26
  DEF RegistryNext, CommandStep

\* Who begins to end the teammate does not stop having begun.
LEMMA OnlyStartsBefore ==
    ASSUME RegistryTypeInv, [RegistryNext]_registryVars, OnlyStarts'
    PROVE  OnlyStarts
<1>1. rfaults = 0
  BY DEF RegistryTypeInv, OnlyStarts, RegistryNext, registryVars, CommandStep, BeginStart, Probe, ClearStaleLock, Unrecord,
         Reserve, WriteRecord, Provision, TakeSpawnLock, WriteLockPid, Inspect, StartDaemon, Register, Await,
         Unlock, Health, ForgetRecord, BeginKill, BeginDoctor, Reap, EndDaemon, Unregister, Unidentify,
         Bind, DaemonDies, CommandDies, Mishap
<1>2. verb' = verb
  BY DEF RegistryNext, registryVars, CommandStep, BeginStart, Probe, ClearStaleLock, Unrecord,
         Reserve, WriteRecord, Provision, TakeSpawnLock, WriteLockPid, Inspect, StartDaemon, Register, Await,
         Unlock, Health, ForgetRecord, BeginKill, BeginDoctor, Reap, EndDaemon, Unregister, Unidentify,
         Bind, DaemonDies, CommandDies
<1>3. \A c \in Command : step'[c] = "off" => step[c] = "off"
  BY DEF RegistryTypeInv, RegistryNext, registryVars, CommandStep, BeginStart, Probe, ClearStaleLock, Unrecord,
         Reserve, WriteRecord, Provision, TakeSpawnLock, WriteLockPid, Inspect, StartDaemon, Register, Await,
         Unlock, Health, ForgetRecord, BeginKill, BeginDoctor, Reap, EndDaemon, Unregister, Unidentify,
         Bind, DaemonDies, CommandDies, Do
<1> QED
  BY <1>1, <1>2, <1>3 DEF OnlyStarts, Starts, On

LEMMA RegistryInvStep == RegistryInv /\ [RegistryNext]_registryVars => RegistryInv'
<1> SUFFICES ASSUME RegistryInv, [RegistryNext]_registryVars, OnlyStarts' PROVE OnlyStartsInv'
  BY RegistryTypeStep DEF RegistryInv
<1>a. RegistryTypeInv /\ RegistryTypeInv' /\ OnlyStarts /\ OnlyStartsInv
  BY RegistryTypeStep, OnlyStartsBefore DEF RegistryInv
<1> USE RegistryAssumption, <1>a
    DEF RegistryTypeInv, OnlyStarts, OnlyStartsInv, Starts, HoldsSpawnLock, HasDaemon, Do, On, Mishap, registry
<1>b. lock # None => SpawnInProgress
  BY DEF SpawnInProgress, Running, Verdicts
<1>1. ASSUME NEW c \in Command, BeginStart(c) PROVE OnlyStartsInv'
  <2>1. \E s \in {"probe", "refused", "unrecord"} : step' = [step EXCEPT ![c] = s]
    BY <1>1, <1>b DEF BeginStart
  <2> QED
    BY <1>1, <2>1 DEF BeginStart
<1>2. ASSUME NEW c \in Command, Probe(c) PROVE OnlyStartsInv'
  <2>1. \E s \in {"refused", "reserve"} : step' = [step EXCEPT ![c] = s]
    BY <1>2, <1>b DEF Probe
  <2> QED
    BY <1>2, <2>1 DEF Probe
<1>3. ASSUME NEW c \in Command, ClearStaleLock(c) PROVE OnlyStartsInv'
  BY <1>3 DEF ClearStaleLock
<1>4. ASSUME NEW c \in Command, Unrecord(c) PROVE OnlyStartsInv'
  BY <1>4 DEF Unrecord
<1>5. ASSUME NEW c \in Command, Reserve(c) PROVE OnlyStartsInv'
  BY <1>5 DEF Reserve
<1>6. ASSUME NEW c \in Command, WriteRecord(c) PROVE OnlyStartsInv'
  BY <1>6 DEF WriteRecord
<1>7. ASSUME NEW c \in Command, Provision(c) PROVE OnlyStartsInv'
  BY <1>7 DEF Provision
<1>8. ASSUME NEW c \in Command, TakeSpawnLock(c) PROVE OnlyStartsInv'
  <2>1. CASE lock = None
    <3>0. None # [by |-> c, written |-> FALSE]
      BY NewRecord, Zenon DEF RegistryAssumption
    <3>1. lock' # None /\ lock'.by = c /\ step' = [step EXCEPT ![c] = "lockPid"]
      BY <1>8, <2>1, <3>0 DEF TakeSpawnLock, File
    <3> QED
      BY <1>8, <2>1, <3>1 DEF TakeSpawnLock
  <2>2. CASE lock # None
    BY <1>8, <2>2 DEF TakeSpawnLock
  <2> QED
    BY <2>1, <2>2
<1>9. ASSUME NEW c \in Command, WriteLockPid(c) PROVE OnlyStartsInv'
  <2>0. None # [by |-> c, written |-> TRUE]
    BY WrittenRecord, Zenon DEF RegistryAssumption
  <2>1. lock' # None /\ lock'.by = c
    BY <1>9, <2>0 DEF WriteLockPid, Written, File
  <2> QED
    BY <1>9, <2>1 DEF WriteLockPid
<1>10. ASSUME NEW c \in Command, Inspect(c) PROVE OnlyStartsInv'
  BY <1>10 DEF Inspect, DaemonAlive
<1>11. ASSUME NEW c \in Command, StartDaemon(c) PROVE OnlyStartsInv'
  BY <1>11 DEF StartDaemon
<1>12. ASSUME NEW c \in Command, Register(c) PROVE OnlyStartsInv'
  BY <1>12 DEF Register
<1>13. ASSUME NEW c \in Command, Await(c) PROVE OnlyStartsInv'
  BY <1>13 DEF Await
<1>14. ASSUME NEW c \in Command, Unlock(c) PROVE OnlyStartsInv'
  BY <1>14 DEF Unlock
<1>15. ASSUME NEW c \in Command, Health(c) PROVE OnlyStartsInv'
  BY <1>15 DEF Health
<1>16. ASSUME NEW c \in Command, ForgetRecord(c) PROVE OnlyStartsInv'
  BY <1>16 DEF ForgetRecord
<1>17. ASSUME NEW c \in Command, BeginKill(c) PROVE OnlyStartsInv'
  BY <1>17 DEF BeginKill
<1>18. ASSUME NEW c \in Command, BeginDoctor(c) PROVE OnlyStartsInv'
  BY <1>18 DEF BeginDoctor
<1>19. ASSUME NEW c \in Command, Reap(c) PROVE OnlyStartsInv'
  BY <1>19 DEF Reap
<1>20. ASSUME NEW c \in Command, EndDaemon(c) PROVE OnlyStartsInv'
  BY <1>20 DEF EndDaemon
<1>21. ASSUME NEW c \in Command, Unregister(c) PROVE OnlyStartsInv'
  BY <1>21 DEF Unregister
<1>22. ASSUME NEW c \in Command, Unidentify(c) PROVE OnlyStartsInv'
  BY <1>22 DEF Unidentify
<1>23. ASSUME NEW c \in Command, Bind(c) PROVE OnlyStartsInv'
  BY <1>23 DEF Bind
<1>24. ASSUME NEW c \in Command, DaemonDies(c) PROVE OnlyStartsInv'
  BY <1>24 DEF DaemonDies
<1>25. ASSUME NEW c \in Command, CommandDies(c) PROVE OnlyStartsInv'
  BY <1>25 DEF CommandDies
<1>26. CASE UNCHANGED registryVars
  BY <1>26 DEF registryVars
<1> QED
  BY <1>1, <1>2, <1>3, <1>4, <1>5, <1>6, <1>7, <1>8, <1>9, <1>10, <1>11, <1>12, <1>13, <1>14,
     <1>15, <1>16, <1>17, <1>18, <1>19, <1>20, <1>21, <1>22, <1>23, <1>24, <1>25, <1>26
  DEF RegistryNext, CommandStep

\* Of the spawns and resumes that race for a teammate one starts the daemon, and it is the
\* registered one of the command that reports success (spawnDaemon, supervisor.ts).
THEOREM StartsLeaveOne == RegistrySpec => []StartsLeaveOneDaemon
<1>1. RegistryInv /\ OnlyStarts => Cardinality(live) <= 1
  BY AtMostOne DEF RegistryInv, OnlyStartsInv
<1>2. RegistryInv /\ OnlyStarts =>
        \A c \in Command :
            /\ On(c, "spawned") => pid = c /\ stamped /\ c \in live
            /\ step[c] \in {"refused", "failed"} => c \notin live
  BY DEF RegistryInv, OnlyStartsInv, HasDaemon, On
<1>3. RegistryInv => StartsLeaveOneDaemon
  BY <1>1, <1>2 DEF StartsLeaveOneDaemon
<1> QED
  BY <1>3, RegistryInvInit, RegistryInvStep, PTL DEF RegistrySpec

\* What runs between the creation of the spawn lock and its removal (spawnDaemon).
Within == HoldsSpawnLock \cup {"unlockFail"}

\* A command leaves spawnDaemon through its finally clause, dies in it, or gives up
\* with an empty lock.
LockIsRight ==
    lock # None =>
        /\ \/ step[lock.by] \in Within \cup {"crashed"}
           \/ ~lock.written /\ step[lock.by] \in {"giveUp", "refused"}
        /\ step[lock.by] = "lockPid" => ~lock.written

SpawnLockInv == RegistryTypeInv /\ LockIsRight

\* The spawn lock stays with its command through every step of any command.
LEMMA SpawnLockStep == SpawnLockInv /\ [RegistryNext]_registryVars => SpawnLockInv'
<1> SUFFICES ASSUME SpawnLockInv, [RegistryNext]_registryVars
             PROVE  LockIsRight'
  BY RegistryTypeStep DEF SpawnLockInv
<1>a. RegistryTypeInv /\ RegistryTypeInv'
  BY RegistryTypeStep DEF SpawnLockInv
<1> USE <1>a DEF SpawnLockInv, LockIsRight, RegistryTypeInv, Within, HoldsSpawnLock, Do, On
<1>1. ASSUME NEW c \in Command, TakeSpawnLock(c)
      PROVE  LockIsRight'
  <2>1. File(c).by = c /\ ~File(c).written
    BY DEF File
  <2>2. CASE lock = None
    <3>1. lock' = File(c) /\ step' = [step EXCEPT ![c] = "lockPid"]
      BY <1>1, <2>2 DEF TakeSpawnLock
    <3> QED BY <2>1, <3>1
  <2>3. CASE lock # None
    <3>1. lock' = lock /\ step' = [step EXCEPT ![c] = "giveUp"] /\ step[c] = "lock"
      BY <1>1, <2>3 DEF TakeSpawnLock
    <3> QED BY <3>1
  <2> QED BY <2>2, <2>3
<1>2. ASSUME NEW c \in Command, WriteLockPid(c)
      PROVE  LockIsRight'
  <2>0. step[c] = "lockPid"
    BY <1>2 DEF WriteLockPid
  <2>1. CASE lock' = lock /\ step' = [step EXCEPT ![c] = "giveUp"]
    BY <2>0, <2>1
  <2>2. CASE lock' = Written(lock, c) /\ step' = [step EXCEPT ![c] = "inspect"]
    <3>1. CASE lock = File(c)
      <4>1. lock'.by = c
        BY <2>2, <3>1 DEF Written, File
      <4> QED BY <2>2, <4>1
    <3>2. CASE lock # File(c)
      <4>1. lock' = lock
        BY <2>2, <3>2 DEF Written
      <4> QED BY <2>2, <4>1
    <3> QED BY <3>1, <3>2
  <2> QED BY <1>2, <2>1, <2>2 DEF WriteLockPid
<1>3. ASSUME NEW c \in Command, ClearStaleLock(c) \/ Unlock(c)
      PROVE  lock' = None
  BY <1>3 DEF ClearStaleLock, Unlock
<1>4. ASSUME NEW c \in Command, lock' = lock, step[c] \notin Within \cup {"crashed", "giveUp", "refused"},
             \A d \in Command : d # c => step'[d] = step[d]
      PROVE  LockIsRight'
  BY <1>4
<1>5. ASSUME NEW c \in Command,
             \/ BeginStart(c) \/ Probe(c) \/ Unrecord(c) \/ Reserve(c) \/ WriteRecord(c) \/ Provision(c)
             \/ Health(c) \/ BeginKill(c) \/ BeginDoctor(c) \/ Reap(c) \/ EndDaemon(c)
             \/ Unregister(c) \/ Unidentify(c)
      PROVE  /\ lock' = lock /\ step[c] \notin Within \cup {"crashed", "giveUp", "refused"}
             /\ \A d \in Command : d # c => step'[d] = step[d]
  BY <1>5 DEF BeginStart, Probe, Unrecord, Reserve, WriteRecord, Provision, Health, BeginKill,
              BeginDoctor, Reap, EndDaemon, Unregister, Unidentify
<1>6. ASSUME NEW c \in Command, Inspect(c) \/ StartDaemon(c) \/ Register(c) \/ Await(c)
      PROVE  /\ lock' = lock /\ step[c] \in Within /\ step'[c] \in Within \ {"lockPid"}
             /\ \A d \in Command : d # c => step'[d] = step[d]
  BY <1>6 DEF Inspect, StartDaemon, Register, Await
<1>7. ASSUME NEW c \in Command, CommandDies(c)
      PROVE  /\ lock' = lock /\ step'[c] = "crashed"
             /\ \A d \in Command : d # c => step'[d] = step[d]
  BY <1>7 DEF CommandDies
<1>8. ASSUME NEW c \in Command, Bind(c) \/ DaemonDies(c)
      PROVE  UNCHANGED <<lock, step>>
  BY <1>8 DEF Bind, DaemonDies
<1>9. CASE UNCHANGED registryVars
  BY <1>9 DEF registryVars
<1>10. ASSUME NEW c \in Command, ForgetRecord(c)
       PROVE  LockIsRight'
  <2>1. /\ lock' = lock
        /\ \/ step[c] = "giveUp" /\ step' = [step EXCEPT ![c] = "refused"]
           \/ step[c] = "forget" /\ step' = [step EXCEPT ![c] = "reap"]
    BY <1>10 DEF ForgetRecord
  <2> QED BY <2>1
<1>11. ASSUME NEW c \in Command, Inspect(c) \/ StartDaemon(c) \/ Register(c) \/ Await(c) \/ CommandDies(c)
       PROVE  LockIsRight'
  BY <1>6, <1>7, <1>11
<1>12. ASSUME NEW c \in Command, CommandStep(c)
       PROVE  LockIsRight'
  BY <1>1, <1>2, <1>3, <1>4, <1>5, <1>10, <1>11, <1>12 DEF CommandStep
<1> QED BY <1>8, <1>9, <1>11, <1>12 DEF RegistryNext

\* Whatever fails, the spawn lock outlives only a command that died with it, or, empty, one
\* that could not write its pid (spawnDaemon, supervisor.ts).
THEOREM LockHeldOrOrphaned == RegistrySpec => []LockIsHeldOrOrphaned
<1>1. RegistryInit => SpawnLockInv
  BY RegistryInvInit DEF RegistryInit, RegistryInv, SpawnLockInv, LockIsRight
<1>2. SpawnLockInv => LockIsHeldOrOrphaned
  BY DEF SpawnLockInv, LockIsRight, LockIsHeldOrOrphaned, Within, HoldsSpawnLock, Running, Verdicts, On
<1> QED BY <1>1, <1>2, SpawnLockStep, PTL DEF RegistrySpec

-----------------------------------------------------------------------------
(* The turns of a Codex thread                                              *)

TurnSteps == {"off", "probe", "clear", "borrow", "ask", "resolve", "find", "look", "claim", "claimJoined",
              "claimHolding", "start", "await", "awaitHolding", "join", "joinHolding", "steer",
              "steerHolding", "subscribe", "read", "waiting", "waitingUnread"} \cup Ends

TurnRecord == [by : Client, of : SUBSET Client, runs : BOOLEAN, steerable : BOOLEAN, ended : Nat]

TurnsTypeInv ==
    /\ at \in [Client -> TurnSteps]
    /\ borrow \in Client \cup {Nobody} /\ sendToken \in Client \cup {Nobody}
    /\ probed \in [Client -> Client \cup {Nobody}] /\ wronged \in BOOLEAN
    /\ turns \in Seq(TurnRecord)
    /\ \A i \in DOMAIN turns : turns[i].by \in turns[i].of /\ turns[i].ended <= MaxTime
    /\ clock \in 0..MaxTime /\ lastSeen \in 0..clock
    /\ mine \in [Client -> BOOLEAN] /\ listening \in [Client -> BOOLEAN]
    /\ heard \in [Client -> Nat] /\ result \in [Client -> Nat] /\ mark \in [Client -> Nat]
    /\ \A c \in Client : heard[c] <= Len(turns) /\ result[c] <= Len(turns)

\* What a prompt and a review make of a turn.
LEMMA Steered ==
    ASSUME NEW r \in TurnRecord, NEW c \in Client, NEW t, t = [r EXCEPT !.of = @ \cup {c}]
    PROVE  t \in TurnRecord /\ t.by = r.by /\ t.of = r.of \cup {c} /\ (t.runs <=> r.runs) /\ t.ended = r.ended
BY DEF TurnRecord

LEMMA Hardened ==
    ASSUME NEW r \in TurnRecord, NEW t, t = [r EXCEPT !.steerable = FALSE]
    PROVE  t \in TurnRecord /\ t.by = r.by /\ t.of = r.of /\ (t.runs <=> r.runs) /\ t.ended = r.ended
BY DEF TurnRecord

\* No step but the start of one adds a turn or lets one run again, and none changes who began it.
LEMMA StartTurnAdds ==
    ASSUME TurnsTypeInv, NEW c \in Client, StartTurn(c)
    PROVE  /\ turns' \in Seq(TurnRecord) /\ Len(turns') = Len(turns) + 1
           /\ \A i \in DOMAIN turns : turns'[i] = turns[i]
           /\ DOMAIN turns' = DOMAIN turns \cup {Len(turns')}
           /\ turns'[Len(turns')] = Turn(c)
           /\ Turn(c).by = c /\ Turn(c).of = {c} /\ Turn(c).runs /\ Turn(c).ended = 0
<1>1. Turn(c) \in TurnRecord /\ Turn(c).by = c /\ Turn(c).of = {c} /\ Turn(c).runs /\ Turn(c).ended = 0
  BY DEF Turn, TurnRecord
<1>2. turns' \in Seq(TurnRecord) /\ Len(turns') = Len(turns) + 1
  BY <1>1 DEF TurnsTypeInv, StartTurn
<1>3. DOMAIN turns' = DOMAIN turns \cup {Len(turns')}
  BY <1>2 DEF TurnsTypeInv
<1> QED
  BY <1>1, <1>2, <1>3 DEF TurnsTypeInv, StartTurn

LEMMA SteerKeepsTurns ==
    ASSUME TurnsTypeInv, NEW c \in Client, Steer(c)
    PROVE  /\ turns' \in Seq(TurnRecord) /\ Len(turns') = Len(turns)
           /\ \A i \in DOMAIN turns : /\ turns'[i].by = turns[i].by /\ turns[i].of \subseteq turns'[i].of
                                      /\ (turns'[i].runs <=> turns[i].runs) /\ turns'[i].ended = turns[i].ended
<1>1. CASE ActiveTurn \in DOMAIN turns
  <2>1. PICK t : t = [turns[ActiveTurn] EXCEPT !.of = @ \cup {c}]
    OBVIOUS
  <2>2. turns[ActiveTurn] \in TurnRecord
    BY <1>1 DEF TurnsTypeInv
  <2>3. /\ t \in TurnRecord
        /\ t.by = turns[ActiveTurn].by /\ t.of = turns[ActiveTurn].of \cup {c}
        /\ (t.runs <=> turns[ActiveTurn].runs) /\ t.ended = turns[ActiveTurn].ended
    BY <2>1, <2>2, Steered
  <2>4. turns' = [turns EXCEPT ![ActiveTurn] = t]
    BY <1>1, <2>1 DEF Steer
  <2> QED
    BY SMTT(30), <1>1, <2>3, <2>4 DEF TurnsTypeInv
<1>2. CASE ActiveTurn \notin DOMAIN turns
  <2>1. turns' = turns
    BY <1>2 DEF TurnsTypeInv, Steer
  <2> QED
    BY <2>1 DEF TurnsTypeInv
<1> QED
  BY <1>1, <1>2

LEMMA EndKeepsTurns ==
    ASSUME TurnsTypeInv, NEW i \in DOMAIN turns, TurnEnds(i)
    PROVE  /\ turns' \in Seq(TurnRecord) /\ Len(turns') = Len(turns)
           /\ \A j \in DOMAIN turns : /\ turns'[j].by = turns[j].by /\ turns'[j].of = turns[j].of
                                      /\ (turns'[j].runs <=> (turns[j].runs /\ j # i))
                                      /\ turns'[j].ended = IF j = i THEN clock ELSE turns[j].ended
<1>1. PICK r \in TurnRecord, n \in Nat : r = turns[i] /\ n = clock
  BY TurnsAssumption DEF TurnsTypeInv
<1>2. PICK t : t = [[r EXCEPT !.runs = FALSE] EXCEPT !.ended = n]
  OBVIOUS
<1>3. t \in TurnRecord /\ t.by = r.by /\ t.of = r.of /\ ~t.runs /\ t.ended = n
  BY <1>2 DEF TurnRecord
<1>4. turns' = [turns EXCEPT ![i] = t]
  BY <1>1, <1>2 DEF TurnEnds, TurnsTypeInv, TurnRecord
<1> QED
  BY <1>1, <1>3, <1>4 DEF TurnsTypeInv

LEMMA HardenKeepsTurns ==
    ASSUME TurnsTypeInv, NEW i \in DOMAIN turns, TurnHardens(i)
    PROVE  /\ turns' \in Seq(TurnRecord) /\ Len(turns') = Len(turns)
           /\ \A j \in DOMAIN turns : /\ turns'[j].by = turns[j].by /\ turns'[j].of = turns[j].of
                                      /\ (turns'[j].runs <=> turns[j].runs) /\ turns'[j].ended = turns[j].ended
<1> DEFINE t == [turns[i] EXCEPT !.steerable = FALSE]
<1>1. /\ t \in TurnRecord
      /\ t.by = turns[i].by /\ t.of = turns[i].of /\ (t.runs <=> turns[i].runs) /\ t.ended = turns[i].ended
  BY Hardened DEF TurnsTypeInv
<1>2. turns' = [turns EXCEPT ![i] = t]
  BY DEF TurnHardens
<1> HIDE DEF t
<1> QED
  BY <1>1, <1>2 DEF TurnsTypeInv

LEMMA TurnsTypeInit == TurnsInit => TurnsTypeInv
<1> SUFFICES ASSUME TurnsInit PROVE TurnsTypeInv
  OBVIOUS
<1>1. turns \in Seq(TurnRecord) /\ Len(turns) = 0
  BY DEF TurnsInit
<1>2. /\ at \in [Client -> TurnSteps] /\ probed \in [Client -> Client \cup {Nobody}]
      /\ mine \in [Client -> BOOLEAN] /\ listening \in [Client -> BOOLEAN]
  BY DEF TurnsInit, TurnSteps
<1>3. /\ heard \in [Client -> Nat] /\ result \in [Client -> Nat] /\ mark \in [Client -> Nat]
      /\ \A c \in Client : heard[c] = 0 /\ result[c] = 0
  BY DEF TurnsInit
<1>4. clock \in 0..MaxTime /\ lastSeen \in 0..clock
  BY TurnsAssumption DEF TurnsInit
<1>5. borrow = Nobody /\ sendToken = Nobody /\ wronged \in BOOLEAN
  BY Zenon DEF TurnsInit
<1> QED
  BY <1>1, <1>2, <1>3, <1>4, <1>5 DEF TurnsTypeInv

LEMMA TurnsTypeStep == TurnsTypeInv /\ [TurnsNext]_turnsVars => TurnsTypeInv'
<1> SUFFICES ASSUME TurnsTypeInv, [TurnsNext]_turnsVars PROVE TurnsTypeInv'
  OBVIOUS
<1> USE TurnsAssumption DEF TurnsTypeInv, TurnSteps, Ends, To, In, Leave, Trouble, files, local
<1>1. ASSUME NEW c \in Client, Begin(c) PROVE TurnsTypeInv'
  BY <1>1 DEF Begin
<1>2. ASSUME NEW c \in Client, ClearStaleBorrow(c) PROVE TurnsTypeInv'
  BY <1>2 DEF ClearStaleBorrow
<1>2a. ASSUME NEW c \in Client, ProbeHolder(c) PROVE TurnsTypeInv'
  BY <1>2a DEF ProbeHolder
<1>3. ASSUME NEW c \in Client, Borrow(c) PROVE TurnsTypeInv'
  BY <1>3 DEF Borrow
<1>4. ASSUME NEW c \in Client, ResolveThread(c) PROVE TurnsTypeInv'
  BY <1>4 DEF ResolveThread
<1>5. ASSUME NEW c \in Client, LookForTurn(c) PROVE TurnsTypeInv'
  BY <1>5 DEF LookForTurn
<1>6. ASSUME NEW c \in Client, FindTurn(c) PROVE TurnsTypeInv'
  BY <1>6 DEF FindTurn
<1>7. ASSUME NEW c \in Client, Claim(c) PROVE TurnsTypeInv'
  BY <1>7 DEF Claim
<1>8. ASSUME NEW c \in Client, StartTurn(c) PROVE TurnsTypeInv'
  <2>1. \A i \in DOMAIN turns' : turns'[i].by \in turns'[i].of /\ turns'[i].ended <= MaxTime
    <3>1. ASSUME NEW i \in DOMAIN turns PROVE turns'[i].by \in turns'[i].of /\ turns'[i].ended <= MaxTime
      BY <1>8, StartTurnAdds
    <3>2. turns'[Len(turns')].by \in turns'[Len(turns')].of /\ turns'[Len(turns')].ended <= MaxTime
      BY SMTT(30), <1>8, StartTurnAdds
    <3>3. DOMAIN turns' = DOMAIN turns \cup {Len(turns')}
      BY <1>8, StartTurnAdds
    <3> QED
      BY <3>1, <3>2, <3>3
  <2>2. at' \in [Client -> TurnSteps] /\ listening' \in [Client -> BOOLEAN]
    BY <1>8 DEF StartTurn
  <2>3. turns' \in Seq(TurnRecord) /\ Len(turns') = Len(turns) + 1
    BY <1>8, StartTurnAdds
  <2> QED
    BY SMTT(30), <1>8, <2>1, <2>2, <2>3 DEF StartTurn
<1>9. ASSUME NEW c \in Client, Subscribe(c) PROVE TurnsTypeInv'
  BY <1>9 DEF Subscribe
<1>10. ASSUME NEW c \in Client, Steer(c) PROVE TurnsTypeInv'
  BY <1>10, SteerKeepsTurns DEF Steer
<1>11. ASSUME NEW c \in Client, SteerRefused(c) PROVE TurnsTypeInv'
  BY <1>11 DEF SteerRefused
<1>12. ASSUME NEW c \in Client, Superseded(c) PROVE TurnsTypeInv'
  BY <1>12 DEF Superseded
<1>13. ASSUME NEW c \in Client, Collect(c) PROVE TurnsTypeInv'
  BY <1>13 DEF Collect, Awaiting
<1>14. ASSUME NEW c \in Client, SubscribeWait(c) PROVE TurnsTypeInv'
  BY SMTT(30), <1>14 DEF SubscribeWait
<1>15. ASSUME NEW c \in Client, ReadThread(c) PROVE TurnsTypeInv'
  <2>1. CASE heard' = heard
    BY <1>15, <2>1 DEF ReadThread
  <2>2. ASSUME NEW i \in DOMAIN turns, heard' = [heard EXCEPT ![c] = i] PROVE TurnsTypeInv'
    BY SMTT(30), <1>15, <2>2 DEF ReadThread
  <2> QED
    BY <1>15, <2>1, <2>2 DEF ReadThread, Backfill
<1>16. ASSUME NEW c \in Client, AskEnds(c) PROVE TurnsTypeInv'
  BY <1>16 DEF AskEnds
<1>17. ASSUME NEW c \in Client, ReadFails(c) PROVE TurnsTypeInv'
  BY <1>17 DEF ReadFails
<1>18. ASSUME NEW c \in Client, TimesOut(c) PROVE TurnsTypeInv'
  BY <1>18 DEF TimesOut, Awaiting
<1>19. ASSUME NEW c \in Client, RequestFails(c) PROVE TurnsTypeInv'
  BY <1>19 DEF RequestFails, Under
<1>20. ASSUME NEW c \in Client, ClientDies(c) PROVE TurnsTypeInv'
  BY <1>20 DEF ClientDies, Under
<1>21. ASSUME NEW i \in DOMAIN turns, TurnEnds(i) PROVE TurnsTypeInv'
  <2>1. turns' \in Seq(TurnRecord) /\ Len(turns') = Len(turns)
    BY <1>21, EndKeepsTurns
  <2>2. \A j \in DOMAIN turns' : turns'[j].by \in turns'[j].of /\ turns'[j].ended <= MaxTime
    <3>1. DOMAIN turns' = DOMAIN turns
      BY <2>1
    <3>2. ASSUME NEW j \in DOMAIN turns PROVE turns'[j].by \in turns'[j].of /\ turns'[j].ended <= MaxTime
      <4>1. /\ turns'[j].by = turns[j].by /\ turns'[j].of = turns[j].of
            /\ turns'[j].ended = IF j = i THEN clock ELSE turns[j].ended
        BY <1>21, EndKeepsTurns
      <4> QED
        BY <4>1
    <3> QED
      BY <3>1, <3>2
  <2>3. heard' \in [Client -> Nat] /\ \A c \in Client : heard'[c] <= Len(turns)
    BY SMTT(30), <1>21 DEF TurnEnds
  <2> QED
    BY <1>21, <2>1, <2>2, <2>3 DEF TurnEnds
<1>22. ASSUME NEW i \in DOMAIN turns, TurnHardens(i) PROVE TurnsTypeInv'
  BY <1>22, HardenKeepsTurns DEF TurnHardens
<1>23. CASE Tick
  BY <1>23 DEF Tick
<1>24. CASE UNCHANGED turnsVars
  BY <1>24 DEF turnsVars
<1> QED
  BY <1>1, <1>2, <1>2a, <1>3, <1>4, <1>5, <1>6, <1>7, <1>8, <1>9, <1>10, <1>11, <1>12, <1>13, <1>14, <1>15, <1>16,
     <1>17, <1>18, <1>19, <1>20, <1>21, <1>22, <1>23, <1>24
  DEF TurnsNext, ClientStep, Failure

HoldsBorrow == {"resolve", "look", "claim", "start", "joinHolding", "steerHolding", "claimHolding",
                "awaitHolding", "ask"}

\* The holder of the borrow lock alone starts turns, none while one runs, and it starts to
\* listen with the turn it starts: what it hears is the end of that one.
StarterInv ==
    /\ \A c \in Client : at[c] \in HoldsBorrow => borrow = c
    /\ \A c \in Client : at[c] \in {"claim", "start"} => Active = {}
    /\ \A i, j \in Active : i = j
    /\ \A c \in Client : at[c] \in {"off", "probe", "clear", "borrow", "resolve", "look", "claim", "start"} => ~listening[c] /\ heard[c] = 0
    /\ \A c \in Client, i \in DOMAIN turns : turns[i].by = c =>
          /\ at[c] \in {"awaitHolding"} \cup Ends
          /\ In(c, "awaitHolding") => listening[c] /\ heard[c] \in {0, i} /\ Active \subseteq {i}
          /\ In(c, "done") => result[c] = i

\* A wait that has read the thread listens, and has missed no turn.
WaitInv ==
    /\ \A w \in Client : at[w] \in {"read", "waiting"} => listening[w]
    /\ WaitMissesNothing

LEMMA WaitInvInit == TurnsInit => WaitInv
BY DEF TurnsInit, WaitInv, WaitMissesNothing, In

LEMMA WaitInvStep == TurnsTypeInv /\ WaitInv /\ [TurnsNext]_turnsVars => WaitInv'
<1> SUFFICES ASSUME TurnsTypeInv, WaitInv, [TurnsNext]_turnsVars PROVE WaitInv'
  OBVIOUS
<1> USE TurnsAssumption DEF TurnsTypeInv, WaitInv, WaitMissesNothing, Ends, To, In, Leave, Trouble, files, local
<1>1. ASSUME NEW c \in Client, Begin(c) PROVE WaitInv'
  BY <1>1 DEF Begin
<1>2. ASSUME NEW c \in Client, ClearStaleBorrow(c) PROVE WaitInv'
  BY <1>2 DEF ClearStaleBorrow
<1>2a. ASSUME NEW c \in Client, ProbeHolder(c) PROVE WaitInv'
  BY <1>2a DEF ProbeHolder
<1>3. ASSUME NEW c \in Client, Borrow(c) PROVE WaitInv'
  BY <1>3 DEF Borrow
<1>4. ASSUME NEW c \in Client, ResolveThread(c) PROVE WaitInv'
  BY <1>4 DEF ResolveThread
<1>5. ASSUME NEW c \in Client, LookForTurn(c) PROVE WaitInv'
  BY <1>5 DEF LookForTurn
<1>6. ASSUME NEW c \in Client, FindTurn(c) PROVE WaitInv'
  BY <1>6 DEF FindTurn
<1>7. ASSUME NEW c \in Client, Claim(c) PROVE WaitInv'
  BY <1>7 DEF Claim
<1>8. ASSUME NEW c \in Client, StartTurn(c) PROVE WaitInv'
  <2>1. \A i \in DOMAIN turns' : (i \in DOMAIN turns /\ turns'[i] = turns[i]) \/ turns'[i].runs
    <3> SUFFICES ASSUME NEW i \in DOMAIN turns', i \notin DOMAIN turns PROVE turns'[i].runs
      BY <1>8, StartTurnAdds
    <3>1. i = Len(turns')
      BY <1>8, StartTurnAdds
    <3> QED
      BY <1>8, <3>1, StartTurnAdds
  <2> QED
    BY <1>8, <2>1 DEF StartTurn
<1>9. ASSUME NEW c \in Client, Subscribe(c) PROVE WaitInv'
  BY <1>9 DEF Subscribe
<1>10. ASSUME NEW c \in Client, Steer(c) PROVE WaitInv'
  BY <1>10, SteerKeepsTurns DEF Steer
<1>11. ASSUME NEW c \in Client, SteerRefused(c) PROVE WaitInv'
  BY <1>11 DEF SteerRefused
<1>12. ASSUME NEW c \in Client, Superseded(c) PROVE WaitInv'
  BY <1>12 DEF Superseded
<1>13. ASSUME NEW c \in Client, Collect(c) PROVE WaitInv'
  BY <1>13 DEF Collect, Awaiting
<1>14. ASSUME NEW c \in Client, SubscribeWait(c) PROVE WaitInv'
  BY <1>14 DEF SubscribeWait
<1>15. ASSUME NEW c \in Client, ReadThread(c) PROVE WaitInv'
  <2>1. at'[c] = "waiting" /\ heard'[c] = 0 => \A i \in DOMAIN turns : turns[i].runs \/ turns[i].ended <= mark[c]
    <3> SUFFICES ASSUME heard'[c] = 0, NEW i \in DOMAIN turns, ~turns[i].runs PROVE turns[i].ended <= mark[c]
      OBVIOUS
    <3>1. 0 \notin DOMAIN turns
      OBVIOUS
    <3>2. heard[c] = 0 /\ Backfill(c) = {}
      BY <1>15, <3>1 DEF ReadThread, Backfill
    <3>3. turns[i].ended \in Nat /\ mark[c] \in Nat
      <4>1. turns[i] \in TurnRecord
        OBVIOUS
      <4> QED
        BY <4>1 DEF TurnRecord
    <3> QED
      BY <3>2, <3>3 DEF Backfill
  <2>2. /\ at' = [at EXCEPT ![c] = "waiting"] /\ at[c] = "read"
        /\ \A w \in Client \ {c} : heard'[w] = heard[w]
        /\ UNCHANGED <<turns, listening, mark>>
    BY <1>15 DEF ReadThread
  <2> QED
    BY <2>1, <2>2
<1>16. ASSUME NEW c \in Client, AskEnds(c) PROVE WaitInv'
  BY <1>16 DEF AskEnds
<1>17. ASSUME NEW c \in Client, ReadFails(c) PROVE WaitInv'
  BY <1>17 DEF ReadFails
<1>18. ASSUME NEW c \in Client, TimesOut(c) PROVE WaitInv'
  BY <1>18 DEF TimesOut, Awaiting
<1>19. ASSUME NEW c \in Client, RequestFails(c) PROVE WaitInv'
  BY <1>19 DEF RequestFails, Under
<1>20. ASSUME NEW c \in Client, ClientDies(c) PROVE WaitInv'
  BY <1>20 DEF ClientDies, Under
<1>21. ASSUME NEW i \in DOMAIN turns, TurnEnds(i) PROVE WaitInv'
  <2>1. ASSUME NEW w \in Client, at'[w] = "waiting", heard'[w] = 0, NEW j \in DOMAIN turns'
        PROVE  turns'[j].runs \/ turns'[j].ended <= mark'[w]
    <3>1. at[w] = "waiting" /\ listening[w]
      BY <1>21, <2>1 DEF TurnEnds
    <3>2. i # 0
      OBVIOUS
    <3>3. FALSE
      BY <1>21, <2>1, <3>1, <3>2 DEF TurnEnds
    <3> QED
      BY <3>3
  <2>2. UNCHANGED <<at, listening>>
    BY <1>21 DEF TurnEnds
  <2> QED
    BY <2>1, <2>2
<1>22. ASSUME NEW i \in DOMAIN turns, TurnHardens(i) PROVE WaitInv'
  BY <1>22, HardenKeepsTurns DEF TurnHardens
<1>23. CASE Tick
  BY <1>23 DEF Tick
<1>24. CASE UNCHANGED turnsVars
  BY <1>24 DEF turnsVars
<1> QED
  BY <1>1, <1>2, <1>2a, <1>3, <1>4, <1>5, <1>6, <1>7, <1>8, <1>9, <1>10, <1>11, <1>12, <1>13, <1>14, <1>15, <1>16,
     <1>17, <1>18, <1>19, <1>20, <1>21, <1>22, <1>23, <1>24
  DEF TurnsNext, ClientStep, Failure


LEMMA StarterInvInit == TurnsInit => StarterInv
BY TurnsAssumption DEF TurnsInit, StarterInv, Active, HoldsBorrow, In

\* What was removed wrongly stays so.
LEMMA WrongStays ==
    ASSUME TurnsTypeInv, [TurnsNext]_turnsVars, wronged
    PROVE  wronged'
<1>1. ASSUME NEW c \in Client, ClientStep(c) PROVE wronged'
  <2>1. CASE ClearStaleBorrow(c)
    BY Zenon, <2>1 DEF ClearStaleBorrow
  <2>2. CASE ~ClearStaleBorrow(c)
    BY <1>1, <2>2 DEF ClientStep, files, Begin, ProbeHolder, Borrow, ResolveThread, LookForTurn, FindTurn, Claim,
       StartTurn, Subscribe, Steer, SteerRefused, Superseded, Collect, SubscribeWait, ReadThread, AskEnds
  <2> QED
    BY <2>1, <2>2
<1>2. ASSUME NEW c \in Client, Failure(c) PROVE wronged'
  BY <1>2 DEF Failure, files, ReadFails, TimesOut, RequestFails, ClientDies
<1>3. ASSUME NEW i \in DOMAIN turns, TurnEnds(i) \/ TurnHardens(i) PROVE wronged'
  BY <1>3 DEF TurnEnds, TurnHardens, files
<1>4. ASSUME Tick \/ UNCHANGED turnsVars PROVE wronged'
  BY <1>4 DEF Tick, turnsVars, files
<1> QED
  BY <1>1, <1>2, <1>3, <1>4 DEF TurnsNext

LEMMA StarterInvStep == TurnsTypeInv /\ (~wronged => StarterInv) /\ [TurnsNext]_turnsVars => (~wronged => StarterInv)'
<1> SUFFICES ASSUME TurnsTypeInv, ~wronged => StarterInv, [TurnsNext]_turnsVars, ~wronged' PROVE StarterInv'
  OBVIOUS
<1>a. ~wronged /\ StarterInv
  BY WrongStays
<1> USE TurnsAssumption, <1>a
    DEF TurnsTypeInv, StarterInv, HoldsBorrow, Active, Ends, To, In, Leave, Trouble, files, local
<1>1. ASSUME NEW c \in Client, Begin(c) PROVE StarterInv'
  <2>1. \E s \in {"subscribe", "failed", "borrow", "probe"} : at' = [at EXCEPT ![c] = s]
    BY <1>1 DEF Begin
  <2> QED
    BY SMTT(30), <1>1, <2>1 DEF Begin
<1>2. ASSUME NEW c \in Client, ClearStaleBorrow(c) PROVE StarterInv'
  <2>1. borrow = Nobody \/ at[borrow] \in Ends \cup {"off"}
    BY Zenon, <1>2 DEF ClearStaleBorrow, Under
  <2>2. \A d \in Client : at[d] \notin HoldsBorrow
    BY <2>1
  <2>3. at[c] = "clear" /\ at' = [at EXCEPT ![c] = "borrow"] /\ UNCHANGED <<turns, listening, heard, result>>
    BY <1>2 DEF ClearStaleBorrow
  <2> QED
    BY SMTT(30), <2>2, <2>3
<1>2a. ASSUME NEW c \in Client, ProbeHolder(c) PROVE StarterInv'
  <2>1. at[c] = "probe" /\ \E s \in {"clear", "borrow"} : at' = [at EXCEPT ![c] = s]
    BY <1>2a DEF ProbeHolder
  <2>2. UNCHANGED <<borrow, turns, listening, heard, result>>
    BY <1>2a DEF ProbeHolder
  <2> QED
    BY SMTT(30), <2>1, <2>2
<1>3. ASSUME NEW c \in Client, Borrow(c) PROVE StarterInv'
  <2>1. CASE borrow = Nobody
    <3>1. borrow' = c /\ \E s \in {"ask", "resolve"} : at' = [at EXCEPT ![c] = s]
      BY <1>3, <2>1 DEF Borrow
    <3> QED
      BY <1>3, <2>1, <3>1 DEF Borrow
  <2>2. CASE borrow # Nobody
    <3>1. borrow' = borrow /\ \E s \in {"find", "failed"} : at' = [at EXCEPT ![c] = s]
      BY <1>3, <2>2 DEF Borrow
    <3> QED
      BY SMTT(30), <1>3, <2>2, <3>1 DEF Borrow
  <2> QED
    BY <2>1, <2>2
<1>4. ASSUME NEW c \in Client, ResolveThread(c) PROVE StarterInv'
  BY <1>4 DEF ResolveThread
<1>5. ASSUME NEW c \in Client, LookForTurn(c) PROVE StarterInv'
  BY SMTT(30), <1>5 DEF LookForTurn
<1>6. ASSUME NEW c \in Client, FindTurn(c) PROVE StarterInv'
  BY SMTT(30), <1>6 DEF FindTurn
<1>7. ASSUME NEW c \in Client, Claim(c) PROVE StarterInv'
  BY SMTT(30), <1>7 DEF Claim
<1>8. ASSUME NEW c \in Client, StartTurn(c) PROVE StarterInv'
  <2>1. /\ \A i \in DOMAIN turns' : (i \in DOMAIN turns /\ turns'[i] = turns[i]) \/ (i = Len(turns') /\ turns'[i].by = c)
        /\ Len(turns') \in Nat \ {0} /\ Active' \subseteq {Len(turns')}
    <3>1. Active = {}
      BY <1>8 DEF StartTurn
    <3>2. Len(turns') \in Nat \ {0}
      BY <1>8, StartTurnAdds
    <3>3. ASSUME NEW i \in DOMAIN turns', i \notin DOMAIN turns PROVE i = Len(turns') /\ turns'[i].by = c
      <4>1. i = Len(turns')
        BY <1>8, <3>3, StartTurnAdds
      <4> QED
        BY <1>8, <4>1, StartTurnAdds
    <3>4. ASSUME NEW i \in DOMAIN turns PROVE turns'[i] = turns[i] /\ ~turns[i].runs
      BY <1>8, <3>1, StartTurnAdds
    <3>5. Active' \subseteq {Len(turns')}
      BY <3>3, <3>4
    <3>6. \A i \in DOMAIN turns' : (i \in DOMAIN turns /\ turns'[i] = turns[i]) \/ (i = Len(turns') /\ turns'[i].by = c)
      BY <3>3, <3>4
    <3> HIDE DEF Active
    <3> QED
      BY <3>2, <3>5, <3>6
  <2>2. /\ at[c] = "start" /\ at' = [at EXCEPT ![c] = "awaitHolding"] /\ borrow' = borrow
        /\ listening' = [listening EXCEPT ![c] = TRUE] /\ heard' = heard /\ result' = result
    BY <1>8 DEF StartTurn
  <2>3. \A d \in Client : at[d] \in HoldsBorrow => d = c
    BY <2>2
  <2>4. \A i \in DOMAIN turns : turns[i].by # c
    BY <2>2
  <2> QED
    BY SMTT(30), <2>1, <2>2, <2>3, <2>4
<1>9. ASSUME NEW c \in Client, Subscribe(c) PROVE StarterInv'
  BY SMTT(30), <1>9 DEF Subscribe
<1>10. ASSUME NEW c \in Client, Steer(c) PROVE StarterInv'
  <2>1. DOMAIN turns' = DOMAIN turns /\ Active' = Active /\ \A i \in DOMAIN turns : turns'[i].by = turns[i].by
    BY SMTT(30), <1>10, SteerKeepsTurns
  <2> QED
    <3> HIDE DEF Active
    <3>1. /\ at[c] \in {"steer", "steerHolding"} /\ at'[c] \in {"claimJoined", "claimHolding"}
          /\ at'[c] = "claimHolding" => at[c] = "steerHolding"
          /\ \A d \in Client \ {c} : at'[d] = at[d]
      BY <1>10 DEF Steer
    <3>2. UNCHANGED <<borrow, listening, heard, result>>
      BY <1>10 DEF Steer
    <3>3. \A d \in Client, i \in DOMAIN turns' : turns'[i].by = d => d # c /\ turns[i].by = d
      BY <2>1, <3>1
    <3>4. \A d \in Client : /\ at'[d] \in HoldsBorrow => borrow' = d
                            /\ at'[d] \in {"claim", "start"} => Active' = {}
      BY SMTT(30), <2>1, <3>1, <3>2
    <3>5. \A i, j \in Active' : i = j
      BY <2>1
    <3>6. \A d \in Client : at'[d] \in {"off", "probe", "clear", "borrow", "resolve", "look", "claim", "start"} => ~listening'[d] /\ heard'[d] = 0
      BY <3>1, <3>2
    <3>7. \A d \in Client, i \in DOMAIN turns' : turns'[i].by = d =>
              /\ at'[d] \in {"awaitHolding"} \cup Ends
              /\ at'[d] = "awaitHolding" => listening'[d] /\ heard'[d] \in {0, i} /\ Active' \subseteq {i}
              /\ at'[d] = "done" => result'[d] = i
      BY SMTT(30), <2>1, <3>1, <3>2, <3>3
    <3> QED
      BY <3>4, <3>5, <3>6, <3>7
<1>11. ASSUME NEW c \in Client, SteerRefused(c) PROVE StarterInv'
  BY SMTT(30), <1>11 DEF SteerRefused
<1>12. ASSUME NEW c \in Client, Superseded(c) PROVE StarterInv'
  BY SMTT(30), <1>12 DEF Superseded
<1>13. ASSUME NEW c \in Client, Collect(c) PROVE StarterInv'
  BY SMTT(30), <1>13 DEF Collect, Awaiting
<1>14. ASSUME NEW c \in Client, SubscribeWait(c) PROVE StarterInv'
  BY SMTT(30), <1>14 DEF SubscribeWait
<1>15. ASSUME NEW c \in Client, ReadThread(c) PROVE StarterInv'
  <2>1. at[c] = "read" /\ at' = [at EXCEPT ![c] = "waiting"] /\ \A d \in Client \ {c} : heard'[d] = heard[d]
    BY <1>15 DEF ReadThread
  <2>2. UNCHANGED <<borrow, turns, listening, result>>
    BY <1>15 DEF ReadThread
  <2>3. \A i \in DOMAIN turns : turns[i].by # c
    BY <2>1
  <2> QED
    BY SMTT(30), <2>1, <2>2, <2>3
<1>16. ASSUME NEW c \in Client, AskEnds(c) PROVE StarterInv'
  BY SMTT(30), <1>16 DEF AskEnds
<1>17. ASSUME NEW c \in Client, ReadFails(c) PROVE StarterInv'
  BY SMTT(30), <1>17 DEF ReadFails
<1>18. ASSUME NEW c \in Client, TimesOut(c) PROVE StarterInv'
  BY SMTT(30), <1>18 DEF TimesOut, Awaiting
<1>19. ASSUME NEW c \in Client, RequestFails(c) PROVE StarterInv'
  <2>1. at[c] \notin {"off", "probe", "clear", "borrow"} \cup Ends /\ at' = [at EXCEPT ![c] = "failed"]
    BY <1>19 DEF RequestFails, Under
  <2>2. listening' = [listening EXCEPT ![c] = FALSE] /\ UNCHANGED <<turns, heard, result>>
    BY <1>19 DEF RequestFails
  <2>3. borrow' = borrow \/ at[c] \in HoldsBorrow
    BY <1>19 DEF RequestFails
  <2> QED
    BY <2>1, <2>2, <2>3
<1>20. ASSUME NEW c \in Client, ClientDies(c) PROVE StarterInv'
  <2>1. at[c] \notin {"off"} \cup Ends /\ at' = [at EXCEPT ![c] = "dead"]
    BY <1>20 DEF ClientDies, Under
  <2>2. listening' = [listening EXCEPT ![c] = FALSE] /\ UNCHANGED <<borrow, turns, heard, result>>
    BY <1>20 DEF ClientDies
  <2> QED
    BY SMTT(30), <2>1, <2>2
<1>21. ASSUME NEW i \in DOMAIN turns, TurnEnds(i) PROVE StarterInv'
  <2>1. DOMAIN turns' = DOMAIN turns /\ Active' = Active \ {i} /\ \A j \in DOMAIN turns : turns'[j].by = turns[j].by
    BY <1>21, EndKeepsTurns
  <2> QED
    BY SMTT(30), <1>21, <2>1 DEF TurnEnds
<1>22. ASSUME NEW i \in DOMAIN turns, TurnHardens(i) PROVE StarterInv'
  BY <1>22, HardenKeepsTurns DEF TurnHardens
<1>23. CASE Tick
  BY <1>23 DEF Tick
<1>24. CASE UNCHANGED turnsVars
  BY <1>24 DEF turnsVars
<1> QED
  BY <1>1, <1>2, <1>2a, <1>3, <1>4, <1>5, <1>6, <1>7, <1>8, <1>9, <1>10, <1>11, <1>12, <1>13, <1>14, <1>15, <1>16,
     <1>17, <1>18, <1>19, <1>20, <1>21, <1>22, <1>23, <1>24
  DEF TurnsNext, ClientStep, Failure

\* Type correctness of the borrow lock, the turns and what the commands have read.
THEOREM TurnsTypeCorrect == TurnsSpec => []TurnsTypeOK
<1>1. TurnsTypeInv => TurnsTypeOK
  <2> SUFFICES ASSUME TurnsTypeInv PROVE TurnsTypeOK
    OBVIOUS
  <2>1. \A i \in DOMAIN turns :
           turns[i].by \in turns[i].of /\ turns[i].of \subseteq Client /\ turns[i].ended \in 0 .. MaxTime
    <3> SUFFICES ASSUME NEW i \in DOMAIN turns
                 PROVE  turns[i].by \in turns[i].of /\ turns[i].of \subseteq Client /\ turns[i].ended \in 0 .. MaxTime
      OBVIOUS
    <3>1. turns[i] \in TurnRecord
      BY DEF TurnsTypeInv
    <3> QED
      BY <3>1, TurnsAssumption DEF TurnsTypeInv, TurnRecord
  <2>2. \A c \in Client : {heard[c], result[c]} \subseteq 0 .. Len(turns)
    BY DEF TurnsTypeInv
  <2> QED
    BY <2>1, <2>2 DEF TurnsTypeInv, TurnsTypeOK
<1> QED
  BY <1>1, TurnsTypeInit, TurnsTypeStep, PTL DEF TurnsSpec

\* Until the lock of a command at work is removed as a dead one's, one turn runs at most, and a
\* send that started one returns it (engine.ts:915-976), whatever dies or fails.
THEOREM StarterGets == TurnsSpec => []StarterGetsItsTurn
<1>1. TurnsTypeInv /\ (~wronged => StarterInv) => StarterGetsItsTurn
  <2> SUFFICES ASSUME TurnsTypeInv, ~wronged, StarterInv
               PROVE  /\ Cardinality(Active) <= 1
                      /\ \A c \in Client, i \in DOMAIN turns : turns[i].by = c /\ In(c, "done") => result[c] = i
                      /\ \A c, d \in Client :
                            In(c, "ask") /\ at[d] \in {"resolve", "look", "claim", "start", "awaitHolding"} => c = d
    BY DEF StarterGetsItsTurn
  <2>1. Cardinality(Active) <= 1
    BY AtMostOne DEF StarterInv
  <2>2. \A c \in Client, i \in DOMAIN turns : turns[i].by = c /\ In(c, "done") => result[c] = i
    BY DEF StarterInv
  <2>3. \A c, d \in Client : In(c, "ask") /\ at[d] \in {"resolve", "look", "claim", "start", "awaitHolding"} => c = d
    BY DEF StarterInv, HoldsBorrow, In
  <2> QED
    BY <2>1, <2>2, <2>3
<1> QED
  BY <1>1, StarterInvInit, StarterInvStep, TurnsTypeInit, TurnsTypeStep, PTL DEF TurnsSpec

\* A wait that has read the thread and is left waiting has missed no turn (engine.ts:1016-1049).
THEOREM WaitMisses == TurnsSpec => []WaitMissesNothing
<1>1. WaitInv => WaitMissesNothing
  BY DEF WaitInv
<1> QED
  BY <1>1, WaitInvInit, WaitInvStep, TurnsTypeInit, TurnsTypeStep, PTL DEF TurnsSpec

-----------------------------------------------------------------------------
(* What a compaction says                                                   *)

AtRest == lines = <<>> /\ activity = "rest"

\* The /compact of r is typed; or it runs; or its last hook does; or it is over; or it was refused.
CompactPhase(r) ==
    \/ lines = <<[kind |-> "compact", by |-> r]>> /\ activity = "rest" /\ ~idle /\ ~refusal
    \/ lines = <<>> /\ activity = "compacting" /\ ~idle /\ ~refusal /\ outcome[r] = "begun"
    \/ lines = <<>> /\ activity = "touch" /\ ~idle /\ ~refusal /\ outcome[r] = "compacted"
    \/ AtRest /\ ~refusal /\ outcome[r] = "compacted"
    \/ AtRest /\ ~idle /\ refusal /\ outcome[r] = "refused"

\* What holds at a step of a compaction that nothing disturbs.
CompactGoes(r) ==
    /\ spot[r] \in {"wipeIdle", "wipeLast", "wipeBusy", "type", "poll", "capture", "expire", "end"}
    /\ spot[r] # "end" => up /\ hasSid
    /\ spot[r] = "wipeIdle" => AtRest /\ ~refusal
    /\ spot[r] \in {"wipeLast", "wipeBusy", "type"} => AtRest /\ ~idle /\ ~refusal
    /\ spot[r] \in {"poll", "capture", "expire"} => CompactPhase(r)
    /\ verdict[r] = "compacted" => AtRest /\ outcome[r] = "compacted"
    /\ verdict[r] = "refused" => AtRest /\ outcome[r] = "refused"

MarkerSpots == {"off", "wipeIdle", "wipeLast", "wipeBusy", "type", "poll", "capture", "expire", "reply",
                "quiet", "look", "lookIdle", "kill", "clean", "end"}

MarkerVerdicts == {"none", "died", "failed", "typed", "compacted", "refused", "expired", "replied",
                   "empty", "quiet", "idle", "busy", "unknown", "killed"}

CompactInv ==
    /\ task \in [Reader -> Tasks]
    /\ spot \in [Reader -> MarkerSpots] /\ verdict \in [Reader -> MarkerVerdicts]
    /\ outcome \in [Reader -> {"none", "begun", "refused", "compacted"}]
    /\ lone \in [Reader -> BOOLEAN]
    /\ \A r \in Reader : spot[r] # "end" => verdict[r] = "none"
    /\ \A r \in Reader : task[r] = "compact" /\ lone[r] /\ spot[r] # "off" => CompactGoes(r)

LEMMA CompactInvInit == MarkersInit => CompactInv
BY DEF MarkersInit, CompactInv, MarkerSpots, MarkerVerdicts

LEMMA CompactInvStep == CompactInv /\ [MarkersNext]_markersVars => CompactInv'
<1> SUFFICES ASSUME CompactInv, [MarkersNext]_markersVars PROVE CompactInv'
  OBVIOUS
<1> USE MarkersAssumption
    DEF CompactInv, MarkerSpots, MarkerVerdicts, CompactGoes, CompactPhase, AtRest, Stands, Moves, Says, OnlyBy, Nobodys,
        markers, claudeVars, readerVars
<1>1. ASSUME NEW r \in Reader, Arrive(r) PROVE CompactInv'
  <2>1. /\ lone' \in [Reader -> BOOLEAN] /\ (lone'[r] => up /\ AtRest /\ ~refusal)
        /\ \A x \in Reader \ {r} : lone'[x] = lone[x]
    BY <1>1 DEF Arrive
  <2>2. /\ spot' \in [Reader -> MarkerSpots] /\ verdict' \in [Reader -> MarkerVerdicts]
        /\ spot'[r] # "end" => verdict'[r] = "none"
        /\ verdict'[r] \in {"none", "died"}
        /\ task[r] = "compact" => (spot'[r] = "wipeIdle" /\ hasSid) \/ spot'[r] = "end"
        /\ \A x \in Reader \ {r} : spot'[x] = spot[x] /\ verdict'[x] = verdict[x]
    BY <1>1 DEF Arrive, FirstStep, Types
  <2>3. UNCHANGED <<up, hasSid, idle, lines, activity, refusal, task, outcome>>
    BY <1>1 DEF Arrive
  <2> QED
    BY <2>1, <2>2, <2>3
<1>2. ASSUME NEW r \in Reader, WipeIdle(r) PROVE CompactInv'
  BY ZenonT(40), <1>2 DEF WipeIdle
<1>3. ASSUME NEW r \in Reader, WipeLast(r) PROVE CompactInv'
  BY <1>3 DEF WipeLast
<1>4. ASSUME NEW r \in Reader, WipeBusy(r) PROVE CompactInv'
  BY <1>4 DEF WipeBusy
<1>5. ASSUME NEW r \in Reader, TypeLine(r) PROVE CompactInv'
  <2>1. ASSUME NEW x \in Reader, (task[x] = "compact" /\ lone[x] /\ spot[x] # "off")' PROVE CompactGoes(x)'
    <3>1. x = r
      BY <1>5, <2>1 DEF TypeLine
    <3>2. lone[r] /\ spot[r] = "type" /\ up /\ AtRest /\ ~idle /\ ~refusal /\ verdict[r] = "none"
      BY <1>5, <2>1, <3>1 DEF TypeLine
    <3>3. lines' = <<[kind |-> "compact", by |-> r]>>
      BY <1>5, <2>1, <3>1, <3>2 DEF TypeLine
    <3> QED
      BY <1>5, <2>1, <3>1, <3>2, <3>3 DEF TypeLine
  <2> QED
    BY SMTT(30), <1>5, <2>1 DEF TypeLine
<1>6. ASSUME NEW r \in Reader, PollIdle(r) PROVE CompactInv'
  BY <1>6 DEF PollIdle
<1>7. ASSUME NEW r \in Reader, Capture(r) PROVE CompactInv'
  BY <1>7 DEF Capture
<1>8. ASSUME NEW r \in Reader, Expire(r) PROVE CompactInv'
  BY <1>8 DEF Expire
<1>9. ASSUME NEW r \in Reader, Reply(r) PROVE CompactInv'
  BY <1>9 DEF Reply
<1>10. ASSUME NEW r \in Reader, PollQuiet(r) PROVE CompactInv'
  BY <1>10 DEF PollQuiet
<1>11. ASSUME NEW r \in Reader, LookBusy(r) PROVE CompactInv'
  BY <1>11 DEF LookBusy
<1>12. ASSUME NEW r \in Reader, LookIdle(r) PROVE CompactInv'
  BY <1>12 DEF LookIdle
<1>13. ASSUME NEW r \in Reader, EndSession(r) PROVE CompactInv'
  BY <1>13 DEF EndSession
<1>14. ASSUME NEW r \in Reader, CleanMarkers(r) PROVE CompactInv'
  BY <1>14 DEF CleanMarkers
<1>15. CASE SomebodyTypes
  BY <1>15 DEF SomebodyTypes
<1>16. CASE TurnStarts
  BY <1>16 DEF TurnStarts, Takes
<1>17. CASE ToolUse
  BY <1>17 DEF ToolUse
<1>18. CASE CompactBegins
  <2>1. outcome' \in [Reader -> {"none", "begun", "refused", "compacted"}] /\ UNCHANGED <<up, hasSid, idle, task, spot, verdict, lone>>
    BY <1>18 DEF CompactBegins, Becoming
  <2>2. ASSUME NEW x \in Reader, (task[x] = "compact" /\ lone[x] /\ spot[x] # "off")' PROVE CompactGoes(x)'
    <3>1. lines # <<>> /\ CompactGoes(x)
      BY <1>18, <2>1, <2>2 DEF CompactBegins, Takes
    <3>2. CASE spot[x] = "end"
      BY <2>1, <3>1, <3>2
    <3>3. CASE spot[x] # "end"
      <4>1. /\ lines = <<[kind |-> "compact", by |-> x]>> /\ ~idle /\ ~refusal
            /\ spot[x] \in {"poll", "capture", "expire"} /\ verdict[x] = "none"
        BY <2>1, <3>1, <3>3
      <4>2. Head(lines).by = x /\ Tail(lines) = <<>>
        BY <4>1
      <4>3. \/ activity' = "compacting" /\ outcome'[x] = "begun" /\ ~refusal'
            \/ activity' = "rest" /\ outcome'[x] = "refused" /\ refusal'
        BY <1>18, <4>1, <4>2 DEF CompactBegins, Takes, Becoming
      <4>4. lines' = <<>>
        BY <1>18, <4>2 DEF CompactBegins, Takes
      <4>5. ~idle' /\ verdict'[x] = "none" /\ spot'[x] = spot[x] /\ up' /\ hasSid'
        BY <2>1, <4>1, <3>1
      <4>6. CompactPhase(x)'
        BY <4>3, <4>4, <4>5
      <4> QED
        BY <4>1, <4>5, <4>6
    <3> QED
      BY <3>2, <3>3
  <2> QED
    BY <2>1, <2>2
<1>19. CASE ReloadRuns
  BY <1>19 DEF ReloadRuns, Takes
<1>20. CASE StopFires
  BY <1>20 DEF StopFires
<1>21. CASE CompactEnds
  BY <1>21 DEF CompactEnds
<1>22. CASE WriteLast
  BY <1>22 DEF WriteLast
<1>23. CASE TouchIdle
  BY <1>23 DEF TouchIdle
<1>24. CASE UNCHANGED markersVars
  BY <1>24 DEF markersVars
<1> QED
  BY <1>1, <1>2, <1>3, <1>4, <1>5, <1>6, <1>7, <1>8, <1>9, <1>10, <1>11, <1>12, <1>13, <1>14, <1>15, <1>16,
     <1>17, <1>18, <1>19, <1>20, <1>21, <1>22, <1>23, <1>24
  DEF MarkersNext, ReaderStep, ClaudeSteps

\* `tm compact` of a teammate at rest that nobody else touches says what became of its own
\* compaction (compact.ts).
THEOREM CompactSays == MarkersSpec => []LoneCompactIsTrue
<1>1. CompactInv => LoneCompactIsTrue
  BY DEF CompactInv, CompactGoes, LoneCompactIsTrue
<1> QED
  BY <1>1, CompactInvInit, CompactInvStep, PTL DEF MarkersSpec

-----------------------------------------------------------------------------
(* What a listing and a quiet pane say of a Claude teammate                 *)

\* A turn has its busy marker unless it was wiped; and who has yet to say that the teammate
\* rests, or has said it, saw no turn at its last look.
RestInv ==
    /\ Works /\ ~wiped => busy
    /\ working \in [Reader -> BOOLEAN]
    /\ \A r \in Reader :
         /\ spot[r] = "clean" => activity = "gone"
         /\ spot[r] = "lookIdle" \/ verdict[r] \in {"idle", "quiet"} => ~working[r]

LEMMA RestInvInit == MarkersInit => RestInv
BY DEF MarkersInit, RestInv, Works

LEMMA RestInvStep == CompactInv /\ RestInv /\ [MarkersNext]_markersVars => RestInv'
<1> SUFFICES ASSUME CompactInv, RestInv, [MarkersNext]_markersVars PROVE RestInv'
  OBVIOUS
<1>0. /\ spot \in [Reader -> MarkerSpots] /\ verdict \in [Reader -> MarkerVerdicts] /\ task \in [Reader -> Tasks]
      /\ \A r \in Reader : spot[r] # "end" => verdict[r] = "none"
  BY DEF CompactInv
<1> USE <1>0 DEF RestInv, Works, Stands, Moves, Says, markers, claudeVars, readerVars
<1>1. ASSUME NEW r \in Reader, Arrive(r) PROVE RestInv'
  <2>1. /\ spot'[r] \notin {"clean", "lookIdle"} /\ verdict'[r] \in {"none", "died"}
        /\ \A x \in Reader \ {r} : spot'[x] = spot[x] /\ verdict'[x] = verdict[x]
    BY <1>1, MarkersAssumption DEF Arrive, FirstStep, Types
  <2>2. UNCHANGED <<busy, wiped, activity, working>>
    BY <1>1 DEF Arrive
  <2> QED
    BY <2>1, <2>2
<1>2. ASSUME NEW r \in Reader, WipeIdle(r) PROVE RestInv'
  BY <1>2 DEF WipeIdle
<1>3. ASSUME NEW r \in Reader, WipeLast(r) PROVE RestInv'
  BY <1>3 DEF WipeLast
<1>4. ASSUME NEW r \in Reader, WipeBusy(r) PROVE RestInv'
  BY <1>4 DEF WipeBusy
<1>5. ASSUME NEW r \in Reader, TypeLine(r) PROVE RestInv'
  BY <1>5 DEF TypeLine
<1>6. ASSUME NEW r \in Reader, PollIdle(r) PROVE RestInv'
  BY <1>6 DEF PollIdle
<1>7. ASSUME NEW r \in Reader, Capture(r) PROVE RestInv'
  BY <1>7 DEF Capture
<1>8. ASSUME NEW r \in Reader, Expire(r) PROVE RestInv'
  BY <1>8 DEF Expire
<1>9. ASSUME NEW r \in Reader, Reply(r) PROVE RestInv'
  BY <1>9 DEF Reply
<1>10. ASSUME NEW r \in Reader, PollQuiet(r) PROVE RestInv'
  BY <1>10 DEF PollQuiet
<1>11. ASSUME NEW r \in Reader, LookBusy(r) PROVE RestInv'
  BY <1>11 DEF LookBusy
<1>12. ASSUME NEW r \in Reader, LookIdle(r) PROVE RestInv'
  BY <1>12 DEF LookIdle
<1>13. ASSUME NEW r \in Reader, EndSession(r) PROVE RestInv'
  BY <1>13 DEF EndSession
<1>14. ASSUME NEW r \in Reader, CleanMarkers(r) PROVE RestInv'
  BY <1>14 DEF CleanMarkers
<1>15. CASE SomebodyTypes
  BY <1>15 DEF SomebodyTypes
<1>16. CASE TurnStarts
  BY <1>16 DEF TurnStarts, Takes
<1>17. CASE ToolUse
  BY <1>17 DEF ToolUse
<1>18. CASE CompactBegins
  BY <1>18 DEF CompactBegins, Takes
<1>19. CASE ReloadRuns
  BY <1>19 DEF ReloadRuns, Takes
<1>20. CASE StopFires
  BY <1>20 DEF StopFires
<1>21. CASE CompactEnds
  BY <1>21 DEF CompactEnds
<1>22. CASE WriteLast
  BY <1>22 DEF WriteLast
<1>23. CASE TouchIdle
  BY <1>23 DEF TouchIdle
<1>24. CASE UNCHANGED markersVars
  BY <1>24 DEF markersVars
<1> QED
  BY <1>1, <1>2, <1>3, <1>4, <1>5, <1>6, <1>7, <1>8, <1>9, <1>10, <1>11, <1>12, <1>13, <1>14, <1>15, <1>16,
     <1>17, <1>18, <1>19, <1>20, <1>21, <1>22, <1>23, <1>24
  DEF MarkersNext, ReaderStep, ClaudeSteps

\* A listing that shows a teammate idle, and a quiet pane, were looked at when no turn ran
\* whose marker had not been wiped (deriveState, waitPaneQuiet).
THEOREM RestIsTrue == MarkersSpec => []RestIsReal
<1>1. RestInv => RestIsReal
  BY DEF RestInv, RestIsReal
<1> QED
  BY <1>1, CompactInvInit, CompactInvStep, RestInvInit, RestInvStep, PTL DEF MarkersSpec

-----------------------------------------------------------------------------
(* What a listing shows of a Codex teammate                                 *)

\* What the proof needs of the types: `view` is a record.
LookShape ==
    /\ view = [verb |-> view.verb, step |-> view.step, daemon |-> view.daemon, thread |-> view.thread,
               now |-> view.now, rollout |-> view.rollout, reach |-> view.reach, peer |-> view.peer, said |-> view.said]
    /\ registered = [daemon |-> registered.daemon, thread |-> registered.thread]
    /\ NoThread \notin Watched

\* A moment without a turn is seen as it comes.  As long as the daemon the command has read of
\* runs, the teammate's thread is the one it has read, and what is said of it is true of a moment:
\* a newer daemon comes when that one is gone for good.
LookInv ==
    /\ LookShape
    /\ calm \/ TurnRuns
    /\ daemons \in Nat /\ serving \in 0..daemons /\ view.daemon \in 0..daemons /\ registered.daemon \in 0..daemons
    /\ serving # 0 => registered.daemon = serving
    /\ view.step # "off" /\ view.thread # NoThread /\ serving # 0 /\ serving = view.daemon => registered.thread = view.thread
    /\ At("off") => view.said = "none"
    /\ At("ask") => view.thread # NoThread
    /\ view.thread \in Watched \cup {NoThread} /\ registered.thread \in Watched \cup {NoThread}
    /\ ~At("end") => shown = "nothing"
    /\ view.said \in {"none", "active"} \/ calm \/ serving = 0 \/ serving # view.daemon
    /\ shown = "idle" /\ view.said # "none" => calm

LEMMA LookInvInit == ObservationInit => LookInv
BY ObservationAssumption DEF ObservationInit, LookInv, LookShape, TurnRuns, At

LEMMA LookInvStep == LookInv /\ [ObservationNext]_observationVars => LookInv'
<1> SUFFICES ASSUME LookInv, [ObservationNext]_observationVars PROVE LookInv'
  OBVIOUS
<1> USE ObservationAssumption DEF LookInv, LookShape, TurnRuns, At, Elsewhere, Idly, observedVars
<1>1. ASSUME NEW t \in Watched, ThreadOpens(t) PROVE LookInv'
  BY <1>1 DEF ThreadOpens
<1>2. ASSUME NEW t \in Watched, TurnBeginsOn(t) PROVE LookInv'
  BY <1>2 DEF TurnBeginsOn
<1>3. ASSUME NEW t \in Watched, TurnWrites(t) PROVE LookInv'
  BY <1>3 DEF TurnWrites
<1>4. ASSUME NEW t \in Watched, TurnEndsOn(t) PROVE LookInv'
  BY <1>4 DEF TurnEndsOn
<1>5. CASE DaemonStops
  <2>1. serving' = 0 /\ UNCHANGED <<daemons, registered, view, shown>> /\ calm' = (calm \/ ~TurnRuns')
    BY <1>5 DEF DaemonStops
  <2>2. calm'
    BY <2>1, Zenon
  <2> QED
    BY <2>1, <2>2
<1>6. CASE DaemonComesBack
  <2>1. PICK t \in Watched \cup {NoThread} : registered' = [daemon |-> daemons', thread |-> t]
    BY <1>6 DEF DaemonComesBack
  <2>2. registered'.thread = t /\ registered' = [daemon |-> registered'.daemon, thread |-> registered'.thread]
    BY <2>1
  <2>3. /\ daemons' = daemons + 1 /\ serving' = daemons' /\ serving = 0
        /\ registered'.daemon = daemons' /\ registered'.thread \in Watched \cup {NoThread}
        /\ UNCHANGED <<view, shown>> /\ calm' = (calm \/ ~TurnRuns')
    BY <1>6, <2>1 DEF DaemonComesBack
  <2>4. daemons' \in Nat /\ serving' \in 0..daemons' /\ view.daemon \in 0..daemons' /\ registered'.daemon \in 0..daemons'
    BY <2>3
  <2>5. serving' # view.daemon
    BY <2>3
  <2>6. calm' \/ TurnRuns'
    BY <2>3, Zenon
  <2>7. calm
    BY <2>3
  <2>8. calm'
    BY <2>3, <2>7, Zenon
  <2> QED
    BY <2>2, <2>3, <2>4, <2>5, <2>6, <2>8
<1>7. CASE RegistryGoes
  BY <1>7 DEF RegistryGoes
<1>8. CASE Borrows
  BY <1>8 DEF Borrows
<1>9. CASE TimePasses
  BY <1>9 DEF TimePasses
<1>10. ASSUME NEW v, ReadRegistry(v) PROVE LookInv'
  BY <1>10 DEF ReadRegistry
<1>11. CASE StatRollout
  BY <1>11 DEF StatRollout
<1>12. CASE ReadRollout
  BY <1>12 DEF ReadRollout
<1>12a. CASE ProbesDaemon
  BY <1>12a DEF ProbesDaemon
<1>13. CASE Connects
  BY <1>13 DEF Connects
<1>14. CASE ReadsThread
  BY <1>14 DEF ReadsThread
<1>15. CASE Row
  BY <1>15 DEF Row, DaemonState, StatusState
<1>16. CASE UNCHANGED observationVars
  BY <1>16 DEF observationVars
<1> QED
  BY <1>1, <1>2, <1>3, <1>4, <1>5, <1>6, <1>7, <1>8, <1>9, <1>10, <1>11, <1>12, <1>12a, <1>13, <1>14, <1>15, <1>16
  DEF ObservationNext, DaemonLives, Looks

\* A teammate whose daemon answered is shown idle only if no turn ran at some moment since the
\* command read the registry (codexDaemonState).
THEOREM IdleIsIdle == ObservationSpec => []IdleRowWasIdle
<1>1. LookInv => IdleRowWasIdle
  BY DEF LookInv, IdleRowWasIdle
<1> QED
  BY <1>1, LookInvInit, LookInvStep, PTL DEF ObservationSpec

-----------------------------------------------------------------------------
(* What is read of a rollout                                                *)

\* The recursion of Newest: g has the last line of a kind among the first ones.
IsScan(g, kind, file, n) ==
    g = [i \in 0..n |-> IF i = 0 THEN 0 ELSE IF file[i] = kind THEN i ELSE g[i - 1]]

\* It is a function's, of every length.
LEMMA ScanExists ==
    ASSUME NEW kind, NEW file, NEW n \in Nat
    PROVE  \E g : IsScan(g, kind, file, n)
<1> DEFINE B == {k \in Nat : ~\E g : IsScan(g, kind, file, k)}
<1>1. SUFFICES ASSUME B # {} PROVE FALSE
  OBVIOUS
<1>2. PICK k \in B : \A j \in B : k <= j
  <2>1. B \in SUBSET Nat
    OBVIOUS
  <2> HIDE DEF B
  <2> QED
    BY <1>1, <2>1, LeastOfNaturals
<1>3. k # 0
  <2>1. IsScan([i \in 0..0 |-> 0], kind, file, 0)
    BY DEF IsScan
  <2>2. ~\E g : IsScan(g, kind, file, k)
    BY <1>2
  <2> QED
    BY <2>1, <2>2
<1>4. k \in Nat /\ k - 1 \in Nat /\ k - 1 \notin B
  BY <1>2, <1>3
<1>5. PICK g : IsScan(g, kind, file, k - 1)
  BY <1>4
<1>6. PICK v : v = IF file[k] = kind THEN k ELSE g[k - 1]
  OBVIOUS
<1>7. PICK h : h = [i \in 0..k |-> IF i = k THEN v ELSE g[i]]
  OBVIOUS
<1>8. \A i \in 0..k - 1 : g[i] = IF i = 0 THEN 0 ELSE IF file[i] = kind THEN i ELSE g[i - 1]
  BY <1>5, Zenon DEF IsScan
<1>9. \A i \in 0..k - 1 : h[i] = g[i]
  BY <1>4, <1>7
<1>10. ASSUME NEW i \in 0..k
       PROVE  h[i] = IF i = 0 THEN 0 ELSE IF file[i] = kind THEN i ELSE h[i - 1]
  <2>1. CASE i = k
    <3>1. h[i] = v /\ i # 0 /\ i - 1 \in 0..k - 1
      BY <1>3, <1>4, <1>7, <2>1
    <3> QED
      BY <1>6, <1>9, <2>1, <3>1
  <2>2. CASE i # k /\ i # 0
    <3>1. i \in 0..k - 1 /\ i - 1 \in 0..k - 1
      BY <1>4, <2>2
    <3> QED
      BY <1>8, <1>9, <2>2, <3>1
  <2>3. CASE i # k /\ i = 0
    <3>1. i \in 0..k - 1
      BY <1>4, <2>3
    <3> QED
      BY <1>8, <1>9, <2>3, <3>1
  <2> QED
    BY <2>1, <2>2, <2>3
<1>11. IsScan(h, kind, file, k)
  <2>1. h = [i \in 0..k |-> h[i]]
    BY <1>7
  <2> QED
    BY <1>10, <2>1, Zenon DEF IsScan
<1> QED
  BY <1>2, <1>11

\* No line of the kind comes after the newest.
LEMMA NoneNewer ==
    ASSUME NEW kind, NEW file, Len(file) \in Nat
    PROVE  /\ Newest(kind, file) \in 0..Len(file)
           /\ \A j \in 1..Len(file) : file[j] = kind => j <= Newest(kind, file)
<1> DEFINE f == CHOOSE f : IsScan(f, kind, file, Len(file))
<1>1. IsScan(f, kind, file, Len(file))
  BY ScanExists
<1>2. Newest(kind, file) = f[Len(file)]
  BY Zenon DEF Newest, IsScan
<1> HIDE DEF f
<1>3. \A i \in 0..Len(file) : f[i] = IF i = 0 THEN 0 ELSE IF file[i] = kind THEN i ELSE f[i - 1]
  BY <1>1, Zenon DEF IsScan
<1> DEFINE Scanned(i) == f[i] \in 0..i /\ \A j \in 1..i : file[j] = kind => j <= f[i]
           B == {i \in 0..Len(file) : ~Scanned(i)}
<1>4. B = {}
  <2> SUFFICES ASSUME B # {} PROVE FALSE
    OBVIOUS
  <2>1. PICK k \in B : \A j \in B : k <= j
    <3>1. B \in SUBSET Nat
      OBVIOUS
    <3> HIDE DEF B
    <3> QED
      BY <3>1, LeastOfNaturals
  <2>2. k \in 0..Len(file) /\ ~Scanned(k)
    BY <2>1
  <2>3. k # 0
    <3>1. f[0] = 0
      BY <1>3
    <3> QED
      BY <2>2, <3>1
  <2>4. k - 1 \in 0..Len(file) /\ Scanned(k - 1)
    BY <2>1, <2>2, <2>3
  <2>5. f[k] = IF file[k] = kind THEN k ELSE f[k - 1]
    BY <1>3, <2>2, <2>3
  <2> QED
    BY <2>2, <2>3, <2>4, <2>5
<1>5. Scanned(Len(file))
  BY <1>4
<1> QED
  BY <1>2, <1>5

\* What was read of a rollout begins it still, and the newest lines of it are its own.
NewestInv ==
    /\ entries \in [Watched -> Seq(Kinds)]
    /\ view = [verb |-> view.verb, step |-> view.step, daemon |-> view.daemon, thread |-> view.thread,
               now |-> view.now, rollout |-> view.rollout, reach |-> view.reach, peer |-> view.peer, said |-> view.said]
    /\ view.rollout = [found |-> view.rollout.found, at |-> view.rollout.at, text |-> view.rollout.text,
                       usage |-> view.rollout.usage, length |-> view.rollout.length]
    /\ registered = [daemon |-> registered.daemon, thread |-> registered.thread]
    /\ registered.thread \in Watched \cup {NoThread}
    /\ view.rollout.length \in Nat
    /\ view.step \in {"off", "stat"} => view.rollout.length = 0
    /\ view.step \in {"stat", "read"} => view.thread \in Watched
    /\ view.rollout.length > 0 =>
         /\ view.thread \in Watched /\ view.rollout.length <= Len(entries[view.thread])
         /\ \A i \in 1..view.rollout.length :
              /\ entries[view.thread][i] = "text" => i <= view.rollout.text
              /\ entries[view.thread][i] = "usage" => i <= view.rollout.usage

LEMMA NewestInvInit == ObservationInit => NewestInv
BY DEF ObservationInit, NewestInv, NoSnapshot

\* A rollout only grows.
LEMMA EntriesAppended ==
    ASSUME NewestInv, NEW t \in Watched, NEW kind \in Kinds, AppendEntry(t, kind), UNCHANGED <<view, registered>>
    PROVE  NewestInv'
<1>1. entries' = [entries EXCEPT ![t] = Append(entries[t], kind)]
  BY Zenon DEF AppendEntry
<1>2. /\ entries' \in [Watched -> Seq(Kinds)]
      /\ \A u \in Watched : /\ Len(entries'[u]) >= Len(entries[u])
                            /\ \A i \in 1..Len(entries[u]) : entries'[u][i] = entries[u][i]
  BY <1>1 DEF NewestInv
<1>3. ASSUME view.rollout.length > 0
      PROVE  /\ view.thread \in Watched /\ view.rollout.length <= Len(entries'[view.thread])
             /\ \A i \in 1..view.rollout.length :
                  /\ entries'[view.thread][i] = "text" => i <= view.rollout.text
                  /\ entries'[view.thread][i] = "usage" => i <= view.rollout.usage
  <2>1. view.thread \in Watched /\ view.rollout.length \in Nat /\ view.rollout.length <= Len(entries[view.thread])
    BY <1>3 DEF NewestInv
  <2>2. Len(entries[view.thread]) \in Nat /\ Len(entries'[view.thread]) \in Nat
    BY <1>2, <2>1 DEF NewestInv
  <2>3. \A i \in 1..view.rollout.length : entries'[view.thread][i] = entries[view.thread][i]
    BY <1>2, <2>1, <2>2
  <2>4. view.rollout.length <= Len(entries'[view.thread])
    <3>1. Len(entries'[view.thread]) >= Len(entries[view.thread])
      BY <1>2, <2>1, Zenon
    <3> QED
      BY ONLY <2>1, <2>2, <3>1
  <2>5. \A i \in 1..view.rollout.length :
           /\ entries[view.thread][i] = "text" => i <= view.rollout.text
           /\ entries[view.thread][i] = "usage" => i <= view.rollout.usage
    BY <1>3, Zenon DEF NewestInv
  <2> QED
    BY <2>1, <2>3, <2>4, <2>5, Zenon
<1> QED
  BY <1>2, <1>3, Zenon DEF NewestInv

LEMMA NewestInvStep == NewestInv /\ [ObservationNext]_observationVars => NewestInv'
<1> SUFFICES ASSUME NewestInv, [ObservationNext]_observationVars PROVE NewestInv'
  OBVIOUS
<1>0. ASSUME UNCHANGED <<view, entries>>, registered' = [daemon |-> registered'.daemon, thread |-> registered'.thread],
             registered'.thread \in Watched \cup {NoThread}
      PROVE  NewestInv'
  BY <1>0 DEF NewestInv
<1> USE DEF At, Elsewhere, Idly, observedVars
<1>1. ASSUME NEW t \in Watched, ThreadOpens(t) PROVE NewestInv'
  BY <1>0, <1>1 DEF ThreadOpens, NewestInv
<1>2. ASSUME NEW t \in Watched, TurnBeginsOn(t) PROVE NewestInv'
  BY <1>0, <1>2 DEF TurnBeginsOn, NewestInv
<1>3. ASSUME NEW t \in Watched, TurnWrites(t) PROVE NewestInv'
  BY <1>3, EntriesAppended, Zenon DEF TurnWrites, Kinds
<1>4. ASSUME NEW t \in Watched, TurnEndsOn(t) PROVE NewestInv'
  BY <1>0, <1>4 DEF TurnEndsOn, NewestInv
<1>5. CASE DaemonStops
  <2>1. UNCHANGED <<view, registered>>
    BY <1>5 DEF DaemonStops
  <2>2. (\E t \in Watched : AppendEntry(t, "torn")) \/ UNCHANGED entries
    BY <1>5, Zenon DEF DaemonStops
  <2>3. "torn" \in Kinds
    BY DEF Kinds
  <2> QED
    BY <1>0, <2>1, <2>2, <2>3, EntriesAppended DEF NewestInv
<1>6. CASE DaemonComesBack
  <2>1. PICK t \in Watched \cup {NoThread} : registered' = [daemon |-> daemons', thread |-> t]
    BY <1>6 DEF DaemonComesBack
  <2>2. registered'.thread = t /\ registered' = [daemon |-> registered'.daemon, thread |-> registered'.thread]
    BY <2>1
  <2> QED
    BY <1>0, <1>6, <2>2 DEF DaemonComesBack
<1>7. CASE RegistryGoes
  BY <1>0, <1>7 DEF RegistryGoes
<1>8. CASE Borrows
  BY <1>0, <1>8 DEF Borrows, NewestInv
<1>9. CASE TimePasses
  BY <1>0, <1>9 DEF TimePasses, NewestInv
<1>10. ASSUME NEW v, ReadRegistry(v) PROVE NewestInv'
  <2>1. /\ view'.rollout = view.rollout /\ view'.thread = registered.thread
        /\ view'.step = "stat" => registered.thread # NoThread
        /\ view'.step \in {"stat", "probe", "end"} /\ UNCHANGED <<entries, registered>>
    BY <1>10 DEF ReadRegistry, NewestInv
  <2>2. view' = [verb |-> view'.verb, step |-> view'.step, daemon |-> view'.daemon, thread |-> view'.thread,
                 now |-> view'.now, rollout |-> view'.rollout, reach |-> view'.reach, peer |-> view'.peer, said |-> view'.said]
    BY <1>10 DEF ReadRegistry, NewestInv
  <2>3. view.rollout.length = 0
    BY <1>10 DEF ReadRegistry, NewestInv
  <2> QED
    BY <2>1, <2>2, <2>3 DEF NewestInv
<1>11. CASE StatRollout
  <2>1. PICK r : r = [NoSnapshot EXCEPT !.found = entries[view.thread] # <<>>, !.at = written[view.thread]]
    OBVIOUS
  <2>2. /\ r = [found |-> r.found, at |-> r.at, text |-> r.text, usage |-> r.usage, length |-> r.length]
        /\ r.length = 0
    BY <2>1 DEF NoSnapshot
  <2>3. /\ view' = [view EXCEPT !.rollout = r, !.step = "read"] /\ view.thread \in Watched
        /\ UNCHANGED <<entries, registered>>
    BY <1>11, <2>1 DEF StatRollout, NewestInv
  <2>4. /\ view'.rollout = r /\ view'.thread = view.thread /\ view'.step = "read"
        /\ view' = [verb |-> view'.verb, step |-> view'.step, daemon |-> view'.daemon, thread |-> view'.thread,
                    now |-> view'.now, rollout |-> view'.rollout, reach |-> view'.reach, peer |-> view'.peer, said |-> view'.said]
    BY <2>3 DEF NewestInv
  <2> QED
    BY <2>2, <2>3, <2>4 DEF NewestInv
<1>12. CASE ReadRollout
  <2> DEFINE file == entries[view.thread]
  <2>1. view.thread \in Watched /\ file \in Seq(Kinds) /\ Len(file) \in Nat
    BY <1>12 DEF ReadRollout, NewestInv
  <2>2. PICK text : text = Newest("text", file)
    OBVIOUS
  <2>3. PICK usage : usage = Newest("usage", file)
    OBVIOUS
  <2>4. \A j \in 1..Len(file) : (file[j] = "text" => j <= text) /\ (file[j] = "usage" => j <= usage)
    BY <2>1, <2>2, <2>3, NoneNewer
  <2>5. PICK r : r = IF view.rollout.found THEN [view.rollout EXCEPT !.text = text, !.usage = usage, !.length = Len(file)]
                     ELSE view.rollout
    OBVIOUS
  <2>6. /\ view' = [view EXCEPT !.rollout = r, !.step = view'.step] /\ view'.step \in {"probe", "end"}
        /\ UNCHANGED <<entries, registered>>
    BY <1>12, <2>2, <2>3, <2>5 DEF ReadRollout, NewestInv
  <2>7. /\ view'.rollout = r /\ view'.thread = view.thread
        /\ view' = [verb |-> view'.verb, step |-> view'.step, daemon |-> view'.daemon, thread |-> view'.thread,
                    now |-> view'.now, rollout |-> view'.rollout, reach |-> view'.reach, peer |-> view'.peer, said |-> view'.said]
    BY <2>6 DEF NewestInv
  <2>8. \/ r = view.rollout
        \/ /\ r = [found |-> r.found, at |-> r.at, text |-> r.text, usage |-> r.usage, length |-> r.length]
           /\ r.text = text /\ r.usage = usage /\ r.length = Len(file)
    BY <2>5 DEF NewestInv
  <2> QED
    BY <2>1, <2>4, <2>6, <2>7, <2>8 DEF NewestInv
<1>12a. CASE ProbesDaemon
  <2>1. /\ view'.rollout = view.rollout /\ view'.thread = view.thread /\ view'.step \in {"connect", "row"}
        /\ view' = [verb |-> view'.verb, step |-> view'.step, daemon |-> view'.daemon, thread |-> view'.thread,
                    now |-> view'.now, rollout |-> view'.rollout, reach |-> view'.reach, peer |-> view'.peer, said |-> view'.said]
    BY <1>12a DEF ProbesDaemon, NewestInv
  <2> QED
    BY <1>12a, <2>1 DEF ProbesDaemon, NewestInv
<1>13. CASE Connects
  <2>1. /\ view'.rollout = view.rollout /\ view'.thread = view.thread /\ view'.step \in {"ask", "row"}
        /\ view' = [verb |-> view'.verb, step |-> view'.step, daemon |-> view'.daemon, thread |-> view'.thread,
                    now |-> view'.now, rollout |-> view'.rollout, reach |-> view'.reach, peer |-> view'.peer, said |-> view'.said]
    BY <1>13 DEF Connects, NewestInv
  <2> QED
    BY <1>13, <2>1 DEF Connects, NewestInv
<1>14. CASE ReadsThread
  BY <1>14 DEF ReadsThread, NewestInv
<1>15. CASE Row
  BY <1>15 DEF Row, NewestInv
<1>16. CASE UNCHANGED observationVars
  BY <1>16 DEF observationVars, NewestInv
<1> QED
  BY <1>1, <1>2, <1>3, <1>4, <1>5, <1>6, <1>7, <1>8, <1>9, <1>10, <1>11, <1>12, <1>12a, <1>13, <1>14, <1>15, <1>16
  DEF ObservationNext, DaemonLives, Looks

\* `tm last` and `tm ctx` report the newest text and usage of the rollout they read, however
\* it has grown meanwhile and whatever was cut short (readCodexRolloutSnapshot).
THEOREM NewestIsReported == ObservationSpec => []NewestLineIsReported
<1>1. NewestInv => NewestLineIsReported
  <2> SUFFICES ASSUME NewestInv, view.rollout.length > 0
               PROVE  LET read == SubSeq(entries[view.thread], 1, view.rollout.length) IN
                      /\ \A i \in DOMAIN read : read[i] = "text" => i <= view.rollout.text
                      /\ \A i \in DOMAIN read : read[i] = "usage" => i <= view.rollout.usage
    BY DEF NewestLineIsReported
  <2>1. /\ view.rollout.length \in Nat /\ entries[view.thread] \in Seq(Kinds)
        /\ view.rollout.length <= Len(entries[view.thread])
    BY DEF NewestInv
  <2> DEFINE read == SubSeq(entries[view.thread], 1, view.rollout.length)
  <2>2. DOMAIN read = 1..view.rollout.length /\ \A i \in 1..view.rollout.length : read[i] = entries[view.thread][i]
    BY <2>1
  <2> QED
    BY <2>2 DEF NewestInv
<1> QED
  BY <1>1, NewestInvInit, NewestInvStep, PTL DEF ObservationSpec

-----------------------------------------------------------------------------
(* The bridge between a Codex teammate and the Codex UI                     *)

\* What a call of the bridge is.
Calls == [kind : {"none", "poll", "greet", "snapshot", "greetSnapshot"} \cup UiCalls,
          step : Steps, thread : Thread \cup {Absent}, conn : Conn \cup {Absent}]

\* Every open connection has a thread, and no thread is newer than the recorded one.
Conns ==
    /\ \A c \in open : resumed[c] # Absent
    /\ app # Absent => app \in open
    /\ \A k \in Opening : work[k].conn \in open
    /\ active <= recorded /\ \A c \in Conn : resumed[c] <= recorded

\* One call at most runs into reconcileThread, and a poll has seen the thread it finds there.
Pauseless ==
    \A k \in Task : Is(k, "reconcile") =>
        /\ work[k].kind # "none"
        /\ work[k].kind = "poll" => work[k].thread = active
        /\ \A j \in Task : Is(j, "reconcile") => j = k

\* What opens a connection, opens it alone.
Alone ==
    /\ active # Absent => app # Absent /\ resumed[app] = active
    /\ \A k \in Opening :
        /\ active = Absent
        /\ Opening = {k}
        /\ work[k].kind \in {"poll", "greet", "snapshot", "greetSnapshot"}
        /\ Is(k, "resuming") => app = work[k].conn
        /\ work[k].kind = "poll" => work[k].thread # resumed[work[k].conn]

\* The call that shows the thread as it is, once it has read it.
Owes(k) ==
    /\ work[k].kind \in {"greet", "snapshot", "greetSnapshot"}
    /\ Is(k, "reconcile") \/ (Reads(k) /\ work[k].thread = recorded)

SnapshotOwed == stale /\ daemon /\ link # "down" /\ Serving => timer \/ \E k \in Task : Owes(k)

BridgeInv ==
    /\ BridgeTypeOK
    /\ Conns /\ Pauseless
    /\ ~loose => Alone /\ SnapshotOwed

\* The parts of a call.
LEMMA CallParts ==
    ASSUME BridgeTypeOK, NEW k \in Task
    PROVE  /\ work[k] \in Calls
           /\ work[k].kind \in {"none", "poll", "greet", "snapshot", "greetSnapshot"} \cup UiCalls
           /\ work[k].step \in Steps
           /\ work[k].thread \in Thread \cup {Absent} /\ work[k].conn \in Conn \cup {Absent}
BY DEF BridgeTypeOK, Calls

\* A call that is over, and one that begins.
LEMMA SomeCalls ==
    /\ Idle \in Calls
    /\ \A kind \in {"poll", "greet", "snapshot", "greetSnapshot"} \cup UiCalls : Snapshot(kind) \in Calls
    /\ \A kind : Snapshot(kind).kind = kind /\ Snapshot(kind).step = "reconcile"
                 /\ Snapshot(kind).conn = Absent /\ Snapshot(kind).thread = Absent
BY DEF Idle, Snapshot, Calls, Steps

\* Where a call goes from reconcileThread.
TakenOn(k, client, th, rd, t) ==
    LET there == client # Absent /\ th # Absent
        w == work[k]
    IN \/ /\ w.kind = "poll" /\ th \notin {Absent, w.thread} /\ t = Snapshot("snapshot")
          /\ link' = link
       \/ w.kind = "greet" /\ t = Snapshot("greetSnapshot") /\ link' = link
       \/ /\ w.kind \in {"snapshot", "greetSnapshot"} /\ there /\ rd # Absent
          /\ t = [w EXCEPT !.step = "reading", !.thread = rd, !.conn = client]
          /\ link' = link
       \/ /\ w.kind \in {"command", "interrupt", "answer"} /\ there
          /\ t = [w EXCEPT !.step = w.kind, !.conn = client]
          /\ link' = link
       \/ /\ w.kind # "greet" /\ ~(w.kind \in {"snapshot", "greetSnapshot"} /\ there /\ rd # Absent)
          /\ ~(w.kind = "poll" /\ th \notin {Absent, w.thread})
          /\ t = Idle /\ link' \in {link, "up"}
          /\ link = "down" => link' = "down"

\* Onward leaves its call in one of these ways.
LEMMA OnwardCases ==
    ASSUME BridgeTypeOK, NEW k \in Task, NEW client, NEW th, NEW rd, Onward(k, client, th, rd)
    PROVE  \E t : work' = [work EXCEPT ![k] = t] /\ TakenOn(k, client, th, rd, t)
<1> DEFINE there == client # Absent /\ th # Absent
<1>1. CASE work[k].kind = "poll" /\ th \notin {Absent, work[k].thread}
  <2>1. work' = [work EXCEPT ![k] = Snapshot("snapshot")] /\ link' = link
    BY <1>1 DEF Onward, Becomes
  <2> QED
    BY <1>1, <2>1 DEF TakenOn
<1>2. CASE work[k].kind = "greet"
  <2>1. work' = [work EXCEPT ![k] = Snapshot("greetSnapshot")] /\ link' = link
    BY <1>2 DEF Onward, Becomes
  <2> QED
    BY <1>2, <2>1 DEF TakenOn
<1>3. CASE work[k].kind \in {"snapshot", "greetSnapshot"} /\ there /\ rd # Absent
  <2>1. /\ work' = [work EXCEPT ![k] = [work[k] EXCEPT !.step = "reading", !.thread = rd,
                                                      !.conn = client]]
        /\ link' = link
    BY <1>3 DEF Onward, Becomes
  <2> QED
    BY <1>3, <2>1 DEF TakenOn
<1>4. CASE work[k].kind \in {"command", "interrupt", "answer"} /\ there /\ th = work[k].thread
  <2>1. /\ work' = [work EXCEPT ![k] = [work[k] EXCEPT !.step = work[k].kind, !.conn = client]]
        /\ link' = link
    BY <1>4 DEF Onward, Becomes
  <2> QED
    BY <1>4, <2>1 DEF TakenOn
<1>5. CASE /\ ~(work[k].kind = "poll" /\ th \notin {Absent, work[k].thread})
           /\ work[k].kind # "greet" /\ ~(work[k].kind \in {"snapshot", "greetSnapshot"} /\ there /\ rd # Absent)
           /\ ~(work[k].kind \in {"command", "interrupt", "answer"} /\ there /\ th = work[k].thread)
  <2>1. Finish(k, TRUE)
    BY <1>5 DEF Onward
  <2>2. work' = [work EXCEPT ![k] = Idle] /\ link' \in {link, "up"} /\ (link = "down" => link' = "down")
    BY <2>1 DEF Finish
  <2> QED
    BY <1>5, <2>2 DEF TakenOn
<1> QED
  BY <1>1, <1>2, <1>3, <1>4, <1>5

\* The call a step leaves behind is a call.
LEMMA OnwardTyped ==
    ASSUME BridgeTypeOK, BridgeAssumption, NEW k \in Task, NEW client \in Conn \cup {Absent},
           NEW th \in Thread \cup {Absent}, NEW rd \in Thread \cup {Absent},
           NEW t, TakenOn(k, client, th, rd, t)
    PROVE  /\ t \in Calls /\ t.step \notin {"opening", "resuming"}
           /\ t.step = "reconcile" =>
                /\ t.kind \in {"snapshot", "greetSnapshot"}
           /\ link' \in {"down", "greeting", "up"} /\ (link = "down" => link' = "down")
<1> USE CallParts, SomeCalls
<1>1. work[k] \in Calls /\ recorded \in Thread \cup {Absent} /\ link \in {"down", "greeting", "up"}
  BY DEF BridgeTypeOK
<1>2. CASE work[k].kind = "poll" /\ t = Snapshot("snapshot") /\ link' = link
  BY <1>1, <1>2
<1>3. CASE t = Snapshot("greetSnapshot") /\ link' = link
  BY <1>1, <1>3
<1>4. CASE t = [work[k] EXCEPT !.step = "reading", !.thread = rd, !.conn = client] /\ link' = link
  BY <1>1, <1>4 DEF Calls, Steps
<1>5. CASE /\ work[k].kind \in {"command", "interrupt", "answer"}
           /\ t = [work[k] EXCEPT !.step = work[k].kind, !.conn = client] /\ link' = link
  BY <1>1, <1>5 DEF Calls, Steps
<1>6. CASE t = Idle /\ link' \in {link, "up"} /\ (link = "down" => link' = "down")
  BY <1>1, <1>6 DEF Idle
<1> QED
  BY <1>2, <1>3, <1>4, <1>5, <1>6 DEF TakenOn

\* The types of the variables, one by one.
Typed == [Task -> Calls]

\* The type invariant says this.
LEMMA TypeUnfolds ==
    BridgeTypeOK <=>
        /\ work \in Typed /\ recorded \in Thread \cup {Absent} /\ active \in Thread \cup {Absent}
        /\ app \in Conn \cup {Absent} /\ open \subseteq Conn /\ pending \subseteq Conn
        /\ resumed \in [Conn -> Thread \cup {Absent}]
        /\ link \in {"down", "greeting", "up"}
        /\ daemon \in BOOLEAN /\ timer \in BOOLEAN /\ stale \in BOOLEAN /\ loose \in BOOLEAN
        /\ moves \in Nat /\ drops \in Nat
BY DEF BridgeTypeOK, Typed, Calls

\* And this is all it takes after a step.
LEMMA TypeFoldsAgain ==
    ASSUME work' \in Typed, recorded' \in Thread \cup {Absent}, active' \in Thread \cup {Absent},
           app' \in Conn \cup {Absent}, open' \subseteq Conn, pending' \subseteq Conn,
           resumed' \in [Conn -> Thread \cup {Absent}],
           link' \in {"down", "greeting", "up"},
           daemon' \in BOOLEAN, timer' \in BOOLEAN, stale' \in BOOLEAN, loose' \in BOOLEAN,
           moves' \in Nat, drops' \in Nat
    PROVE  BridgeTypeOK'
BY DEF BridgeTypeOK, Typed, Calls

\* Calls that are rejected, and one that goes on.
LEMMA RejectedTyped ==
    ASSUME BridgeTypeOK, NEW k, NEW t \in Calls, NEW gone, RejectedAnd(k, t, gone)
    PROVE  work' \in Typed /\ link' \in {link, "down"}
<1>1. work \in Typed
  BY TypeUnfolds
<1>2. work' = [j \in Task |-> IF j = k THEN t ELSE IF j \in gone THEN Idle ELSE work[j]]
  BY DEF RejectedAnd
<1> QED
  BY <1>1, <1>2, SomeCalls DEF Typed, RejectedAnd, LinkAfter

\* A call that moves is still one.
LEMMA BecomesTyped ==
    ASSUME BridgeTypeOK, NEW k \in Task, NEW t \in Calls, work' = [work EXCEPT ![k] = t]
    PROVE  work' \in Typed
BY TypeUnfolds DEF Typed

\* What Finish leaves.
LEMMA FinishTyped ==
    ASSUME BridgeTypeOK, NEW k \in Task, NEW ok, Finish(k, ok)
    PROVE  /\ work' = [work EXCEPT ![k] = Idle] /\ work' \in Typed
           /\ link' \in {"down", "greeting", "up"}
           /\ link = "down" => link' = "down"
<1>1. work' = [work EXCEPT ![k] = Idle]
  BY DEF Finish
<1> QED
  BY <1>1, BecomesTyped, SomeCalls, TypeUnfolds DEF Finish, LinkAfter

\* The type invariant holds at first.
LEMMA BridgeTypeInit == BridgeAssumption /\ BridgeInit => BridgeTypeOK
<1> SUFFICES ASSUME BridgeAssumption, BridgeInit PROVE BridgeTypeOK
  OBVIOUS
<1>1. work \in Typed
  BY SomeCalls DEF BridgeInit, Typed
<1> QED
  BY <1>1, TypeUnfolds DEF BridgeInit

\* Reopen, with the connection it chooses.
LEMMA ReopenParts ==
    ASSUME BridgeTypeOK, NEW k \in Task, Reopen(k)
    PROVE  \E c \in Unused :
        /\ RejectedAnd(k, [work[k] EXCEPT !.step = "opening", !.conn = c], Waiters(app))
        /\ open' = (open \ {app}) \cup {c}
        /\ resumed' = [Forgotten(app) EXCEPT ![c] = recorded]
        /\ app' = Absent /\ active' = Absent /\ pending' = {}
        /\ stale' = (stale \/ link' = "down")
BY DEF Reopen, LinkLost

\* Only the connection that is forgotten loses its thread.
LEMMA ForgottenTyped ==
    ASSUME BridgeTypeOK, NEW c
    PROVE  /\ Forgotten(c) \in [Conn -> Thread \cup {Absent}]
           /\ \A d \in Conn : Forgotten(c)[d] = IF d = c THEN Absent ELSE resumed[d]
BY TypeUnfolds DEF Forgotten

\* The two counters stay numbers.
LEMMA Bounded ==
    /\ drops \in Nat /\ Drop => drops' \in Nat
    /\ moves \in Nat /\ Move => moves' \in Nat
BY DEF Drop, Move

\* Every step keeps the type invariant; a resume needs that its connection is open.
LEMMA BridgeTypeStep ==
    BridgeAssumption /\ BridgeTypeOK /\ Conns /\ [BridgeNext]_bridgeVars => BridgeTypeOK'
<1> SUFFICES ASSUME BridgeAssumption, BridgeTypeOK, Conns, [BridgeNext]_bridgeVars PROVE BridgeTypeOK'
  OBVIOUS
<1> USE TypeUnfolds, TypeFoldsAgain, SomeCalls, CallParts, Bounded DEF appVars
<1>1. ASSUME NEW k \in Task, Reconcile(k) PROVE BridgeTypeOK'
  <2>1. CASE Reopen(k) /\ OpenedBy(k)
    <3>1. PICK c \in Unused :
            /\ RejectedAnd(k, [work[k] EXCEPT !.step = "opening", !.conn = c], Waiters(app))
            /\ open' = (open \ {app}) \cup {c}
            /\ resumed' = [Forgotten(app) EXCEPT ![c] = recorded]
            /\ app' = Absent /\ active' = Absent /\ pending' = {}
            /\ stale' = (stale \/ link' = "down")
      BY <2>1, ReopenParts
    <3>2. c \in Conn /\ [work[k] EXCEPT !.step = "opening", !.conn = c] \in Calls
      <4>1. c \in Conn /\ work[k] \in Calls
        BY DEF Unused
      <4> QED
        BY <4>1 DEF Calls, Steps
    <3>3. work' \in Typed /\ link' \in {link, "down"}
      BY <3>1, <3>2, RejectedTyped
    <3>4. resumed' \in [Conn -> Thread \cup {Absent}]
      BY <3>1, <3>2, ForgottenTyped
    <3>5. loose' \in BOOLEAN /\ stale' \in BOOLEAN
      BY <2>1, <3>1 DEF OpenedBy
    <3> QED
      BY <1>1, <3>1, <3>2, <3>3, <3>4, <3>5 DEF Reconcile
  <2>2. CASE Onward(k, app, active, Current) /\ UNCHANGED <<appVars, stale, loose>>
    <3>1. PICK t : work' = [work EXCEPT ![k] = t] /\ TakenOn(k, app, active, Current, t)
      BY <2>2, OnwardCases
    <3>2. t \in Calls /\ link' \in {"down", "greeting", "up"}
      BY <3>1, OnwardTyped DEF Current
    <3>3. work' \in Typed
      BY <3>1, <3>2, BecomesTyped
    <3> QED
      BY <1>1, <2>2, <3>2, <3>3 DEF Reconcile
  <2> QED
    BY <1>1, <2>1, <2>2 DEF Reconcile
<1>2. ASSUME NEW k \in Task, Ready(k) PROVE BridgeTypeOK'
  <2>1. [work[k] EXCEPT !.step = "resuming"] \in Calls
    BY DEF Calls, Steps
  <2>2. work' \in Typed /\ link' = link
    BY <1>2, <2>1, BecomesTyped DEF Ready, Becomes
  <2> QED
    BY <1>2, <2>2 DEF Ready
<1>3. ASSUME NEW k \in Task, Resumed(k) PROVE BridgeTypeOK'
  <2>1. active' \in Thread \cup {Absent}
    <3>1. work[k].conn \in Conn
      BY <1>3 DEF Conns, Opening, Resumed, Is
    <3> QED
      BY <1>3, <3>1 DEF Resumed
  <2>2. PICK t : work' = [work EXCEPT ![k] = t] /\ TakenOn(k, app, active', active', t)
    BY <1>3, OnwardCases DEF Resumed
  <2>3. t \in Calls /\ link' \in {"down", "greeting", "up"}
    BY <2>1, <2>2, OnwardTyped
  <2>4. work' \in Typed
    BY <2>2, <2>3, BecomesTyped
  <2> QED
    BY <1>3, <2>1, <2>3, <2>4 DEF Resumed
<1>4. ASSUME NEW k \in Task, OpenFails(k) PROVE BridgeTypeOK'
  BY <1>4, FinishTyped DEF OpenFails, LinkLost
<1>5. ASSUME NEW k \in Task, ThreadRead(k) PROVE BridgeTypeOK'
  <2>1. [work[k] EXCEPT !.step = "read"] \in Calls
    BY DEF Calls, Steps
  <2>2. work' \in Typed /\ link' = link
    BY <1>5, <2>1, BecomesTyped DEF ThreadRead, Becomes
  <2> QED
    BY <1>5, <2>2 DEF ThreadRead
<1>6. ASSUME NEW k \in Task, Shown(k) PROVE BridgeTypeOK'
  BY <1>6, FinishTyped DEF Shown
<1>7. ASSUME NEW k \in Task, SnapshotFails(k) PROVE BridgeTypeOK'
  <2>1. work' \in Typed /\ link' \in {link, "down"}
    BY <1>7, RejectedTyped DEF SnapshotFails
  <2> QED
    BY <1>7, <2>1, ForgottenTyped DEF SnapshotFails, ClientClosed, LinkLost
<1>8. ASSUME NEW k \in Task, Commands(k) PROVE BridgeTypeOK'
  BY <1>8, FinishTyped DEF Commands, Schedule
<1>9. ASSUME NEW k \in Task, Interrupt(k) PROVE BridgeTypeOK'
  <2>1. [work[k] EXCEPT !.step = "command"] \in Calls
    BY DEF Calls, Steps
  <2>2. work' \in Typed /\ link' = link
    BY <1>9, <2>1, BecomesTyped DEF Interrupt, Becomes
  <2> QED
    BY <1>9, <2>2 DEF Interrupt
<1>10. ASSUME NEW k \in Task, Answer(k) PROVE BridgeTypeOK'
  BY <1>10, FinishTyped DEF Answer, Schedule
<1>11. ASSUME NEW k \in Task, LinkConnects(k) PROVE BridgeTypeOK'
  <2>1. work' \in Typed
    BY <1>11, BecomesTyped DEF LinkConnects
  <2> QED
    BY <1>11, <2>1 DEF LinkConnects
<1>12. ASSUME NEW k \in Task, PollFires(k) PROVE BridgeTypeOK'
  <2>1. CASE Becomes(k, [Snapshot("poll") EXCEPT !.thread = active]) /\ UNCHANGED <<appVars, stale>>
    <3>1. [Snapshot("poll") EXCEPT !.thread = active] \in Calls
      BY DEF Calls
    <3>2. work' \in Typed /\ link' = link
      BY <2>1, <3>1, BecomesTyped DEF Becomes
    <3> QED
      BY <1>12, <2>1, <3>2 DEF PollFires
  <2>2. CASE /\ link' = "down" /\ ClientClosed /\ LinkLost
             /\ work' = [j \in Task |-> IF j \in Waiters(app) THEN Idle ELSE work[j]]
    <3>1. work' \in Typed
      BY <2>2 DEF Typed
    <3> QED
      BY <1>12, <2>2, <3>1, ForgottenTyped DEF PollFires, ClientClosed, LinkLost
  <2> QED
    BY <1>12, <2>1, <2>2 DEF PollFires
<1>13. ASSUME NEW k \in Task, TimerFires(k) PROVE BridgeTypeOK'
  <2>1. work' \in Typed
    BY <1>13, BecomesTyped DEF TimerFires
  <2> QED
    BY <1>13, <2>1 DEF TimerFires
<1>14. ASSUME NEW k \in Task, UiAsks(k) PROVE BridgeTypeOK'
  <2>1. PICK ui \in UiCalls :
          Becomes(k, [Snapshot(ui) EXCEPT !.thread = IF ui = "discover" THEN Absent ELSE recorded])
    BY <1>14 DEF UiAsks
  <2>2. [Snapshot(ui) EXCEPT !.thread = IF ui = "discover" THEN Absent ELSE recorded] \in Calls
    BY DEF Calls
  <2>3. work' \in Typed /\ link' = link
    BY <2>1, <2>2, BecomesTyped DEF Becomes
  <2> QED
    BY <1>14, <2>3 DEF UiAsks
<1>15. ASSUME NEW c \in Conn, DaemonAsks(c) PROVE BridgeTypeOK'
  BY <1>15 DEF DaemonAsks, Schedule
<1>16. ASSUME NEW c \in Conn, ConnCloses(c) PROVE BridgeTypeOK'
  <2>1. PICK gone : RejectedAnd(Absent, Idle, gone)
    BY <1>16 DEF ConnCloses
  <2>2. work' \in Typed /\ link' \in {link, "down"}
    BY <2>1, RejectedTyped
  <2>3. Forgotten(app) \in [Conn -> Thread \cup {Absent}] /\ Forgotten(c) \in [Conn -> Thread \cup {Absent}]
    BY ForgottenTyped
  <2>4. [Forgotten(app) EXCEPT ![c] = Absent] \in [Conn -> Thread \cup {Absent}]
    BY <2>3
  <2>5. /\ resumed' \in [Conn -> Thread \cup {Absent}]
        /\ app' \in Conn \cup {Absent} /\ active' \in Thread \cup {Absent}
        /\ open' \subseteq Conn /\ pending' \subseteq Conn
    BY <1>16, <2>3, <2>4 DEF ConnCloses, ClientClosed
  <2> QED
    BY <1>16, <2>2, <2>5 DEF ConnCloses, LinkLost
<1>17. ASSUME NEW t \in Thread, RecordThread(t) PROVE BridgeTypeOK'
  BY <1>17 DEF RecordThread
<1>18. CASE LinkCloses
  <2>1. work' \in Typed
    BY <1>18 DEF LinkCloses, Typed, Calls
  <2> QED
    BY <1>18, <2>1 DEF LinkCloses
<1>19. CASE ThreadChanges
  <2>1. work' \in Typed
    BY <1>19 DEF ThreadChanges, Typed, Calls
  <2> QED
    BY <1>19, <2>1 DEF ThreadChanges, Schedule
<1>20. CASE DaemonEnds
  BY <1>20 DEF DaemonEnds
<1>21. CASE UNCHANGED bridgeVars
  BY <1>21 DEF bridgeVars
<1> QED
  BY <1>1, <1>2, <1>3, <1>4, <1>5, <1>6, <1>7, <1>8, <1>9, <1>10, <1>11, <1>12, <1>13, <1>14, <1>15,
     <1>16, <1>17, <1>18, <1>19, <1>20, <1>21
  DEF BridgeNext, TaskStep

\* What holds of the connections and of the calls that open them.
Tidy == Conns /\ Pauseless /\ (~loose => Alone)

\* Threads are numbers, and so is the absence of one.
LEMMA ThreadNumbers ==
    ASSUME BridgeTypeOK, BridgeAssumption
    PROVE  active \in Nat /\ recorded \in Nat /\ \A c \in Conn : resumed[c] \in Nat
<1>1. Thread \cup {Absent} \subseteq Nat
  BY DEF BridgeAssumption, Absent
<1> QED
  BY <1>1, TypeUnfolds

\* A step that moves one call, which opens nothing, and leaves the connections alone.
LEMMA CallMoves ==
    ASSUME BridgeTypeOK, Tidy, NEW k \in Task, NEW t \in Calls, work' = [work EXCEPT ![k] = t],
           UNCHANGED <<recorded, app, active, open, resumed>>,
           (loose' = loose) \/ (resumed[app] = active /\ app # Absent /\ Opening = {}),
           t.step \notin {"opening", "resuming"},
           t.step = "reconcile" =>
               /\ t.kind # "none" /\ (t.kind = "poll" => t.thread = active)
               /\ \A j \in Task \ {k} : ~Is(j, "reconcile")
    PROVE  Tidy'
<1>1. \A j \in Task : work'[j] = IF j = k THEN t ELSE work[j]
  BY TypeUnfolds DEF Typed
<1>2. Opening' = Opening \ {k}
  BY <1>1 DEF Opening
<1>3. Conns'
  BY <1>1, <1>2 DEF Tidy, Conns, Opening
<1>4. Pauseless'
  BY <1>1 DEF Tidy, Pauseless, Is
<1>5. ASSUME ~loose' PROVE Alone'
  <2>1. CASE loose' = loose
    <3>1. Alone
      BY <1>5, <2>1 DEF Tidy
    <3>2. \A j \in Opening' : work'[j] = work[j] /\ Opening' = Opening /\ j \in Opening
      BY <1>1, <1>2, <3>1 DEF Alone
    <3> QED
      BY <3>1, <3>2 DEF Alone, Is
  <2>2. CASE resumed[app] = active /\ app # Absent /\ Opening = {}
    BY <1>2, <2>2 DEF Alone
  <2> QED
    BY <2>1, <2>2
<1> QED
  BY <1>3, <1>4, <1>5 DEF Tidy

\* A step that leaves the calls and the connections as they are, but for what is being read.
LEMMA CallsStay ==
    ASSUME BridgeTypeOK, BridgeAssumption, Tidy, recorded' \in Nat,
           UNCHANGED <<app, active, open, resumed, loose>>, recorded <= recorded',
           \A j \in Task : /\ work'[j].step = work[j].step /\ work'[j].kind = work[j].kind
                           /\ work'[j].conn = work[j].conn
                           /\ work'[j].thread = work[j].thread \/ Reads(j)
    PROVE  Tidy'
<1>1. Opening' = Opening
  BY DEF Opening
<1>2. active \in Nat /\ recorded \in Nat /\ \A c \in Conn : resumed[c] \in Nat
  BY ThreadNumbers
<1>3. Conns'
  BY <1>1, <1>2 DEF Tidy, Conns, Opening
<1>4. Pauseless'
  BY DEF Tidy, Pauseless, Is, Reads
<1>5. ASSUME Alone PROVE Alone'
  <2>1. \A j \in Opening : work'[j].thread = work[j].thread
    BY DEF Opening, Reads
  <2> QED
    BY <1>1, <1>5, <2>1 DEF Alone, Is, Opening
<1> QED
  BY <1>3, <1>4, <1>5 DEF Tidy

\* Connections close, and reject the calls that wait on them.
LEMMA ConnectionsGo ==
    ASSUME BridgeTypeOK, BridgeAssumption, Tidy, Settled, NEW gone,
           open' = open \ gone, resumed' = [d \in Conn |-> IF d \in gone THEN Absent ELSE resumed[d]],
           UNCHANGED <<recorded, loose>>,
           \/ app' = Absent /\ active' = Absent /\ (app # Absent => app \in gone)
           \/ app' = app /\ active' = active /\ app \notin gone,
           \A j \in Task : work'[j] = work[j] \/ work'[j] = Idle,
           \A j \in Task : work[j].conn # Absent /\ work[j].conn \in gone => work'[j] = Idle
    PROVE  Tidy'
<1>1. active \in Nat /\ recorded \in Nat /\ \A c \in Conn : resumed[c] \in Nat
  BY ThreadNumbers
<1>2. Opening' \subseteq Opening
  BY DEF Opening, Idle
<1>3. \A j \in Opening' : work'[j] = work[j] /\ work[j].conn \in open /\ work[j].conn \notin gone
  <2>1. \A c \in open : c # Absent
    BY DEF BridgeTypeOK, BridgeAssumption, Absent
  <2> QED
    BY <1>2, <2>1 DEF Opening, Idle, Tidy, Conns
<1>4. Conns'
  <2>1. (active <= recorded)' /\ \A c \in Conn : resumed'[c] <= recorded'
    BY <1>1 DEF Tidy, Conns, Absent
  <2>2. \A c \in open' : resumed'[c] # Absent
    BY DEF Tidy, Conns, BridgeTypeOK
  <2>3. app' # Absent => app' \in open'
    BY DEF Tidy, Conns
  <2> QED
    BY <1>3, <2>1, <2>2, <2>3 DEF Conns
<1>5. Pauseless'
  BY DEF Settled, Pauseless, Is, Idle
<1>6. ASSUME Alone PROVE Alone'
  <2>1. active' # Absent => app' # Absent /\ resumed'[app'] = active'
    BY <1>6 DEF Alone, BridgeTypeOK
  <2>2. ASSUME NEW j \in Opening'
        PROVE  /\ active' = Absent /\ Opening' = {j}
               /\ work'[j].kind \in {"poll", "greet", "snapshot", "greetSnapshot"}
               /\ (Is(j, "resuming"))' => app' = work'[j].conn
               /\ work'[j].kind = "poll" => work'[j].thread # resumed'[work'[j].conn]
    <3>1. j \in Opening /\ work'[j] = work[j] /\ work[j].conn \in open /\ work[j].conn \notin gone
      BY <1>2, <1>3
    <3>2. resumed'[work[j].conn] = resumed[work[j].conn]
      BY <3>1 DEF BridgeTypeOK
    <3>3. active = Absent /\ Opening = {j}
      BY <1>6, <3>1 DEF Alone
    <3>4. Is(j, "resuming") => app = work[j].conn /\ app' = app
      BY <1>6, <3>1 DEF Alone, BridgeTypeOK, BridgeAssumption
    <3> QED
      BY <1>2, <1>6, <3>1, <3>2, <3>3, <3>4 DEF Alone, Is
  <2> QED
    BY <2>1, <2>2 DEF Alone
<1> QED
  BY <1>4, <1>5, <1>6 DEF Tidy

\* The connection is opened anew: the calls that opened one go on, and this one joins them.
LEMMA TidyReopen ==
    ASSUME BridgeTypeOK, BridgeAssumption, Tidy, NEW k \in Task, Is(k, "reconcile"),
           Reopen(k), OpenedBy(k), recorded # Absent, ~Serving, recorded' = recorded
    PROVE  Tidy'
<1>1. PICK c \in Unused :
        /\ RejectedAnd(k, [work[k] EXCEPT !.step = "opening", !.conn = c], Waiters(app))
        /\ open' = (open \ {app}) \cup {c}
        /\ resumed' = [Forgotten(app) EXCEPT ![c] = recorded]
        /\ app' = Absent /\ active' = Absent /\ pending' = {}
        /\ stale' = (stale \/ link' = "down")
  BY ReopenParts
<1> DEFINE t == [work[k] EXCEPT !.step = "opening", !.conn = c]
<1>2. c \in Conn /\ c # Absent /\ c \notin open
  BY DEF Unused, BridgeAssumption, Absent
<1>3. t.step = "opening" /\ t.conn = c /\ t.kind = work[k].kind /\ t.thread = work[k].thread
  BY CallParts DEF Calls
<1>4. \A j \in Task : work'[j] = IF j = k THEN t ELSE IF j \in Waiters(app) THEN Idle ELSE work[j]
  BY <1>1 DEF RejectedAnd
<1> HIDE DEF t
<1>5. /\ resumed'[c] = recorded
      /\ \A d \in Conn \ {c} : resumed'[d] = IF d = app THEN Absent ELSE resumed[d]
  BY <1>1, <1>2, ForgottenTyped
<1>6. active \in Nat /\ recorded \in Nat /\ \A d \in Conn : resumed[d] \in Nat
  BY ThreadNumbers
<1>7. \A j \in Task : ~Is(j, "reconcile")'
  BY <1>3, <1>4 DEF Is, Tidy, Pauseless, Idle
<1>8. \A j \in Opening' : j = k \/ (j \in Opening /\ work'[j] = work[j] /\ j \notin Waiters(app))
  BY <1>4 DEF Opening, Idle
<1>9. Conns'
  <2>1. \A d \in open' : resumed'[d] # Absent
    BY <1>1, <1>2, <1>5, TypeUnfolds DEF Tidy, Conns
  <2>2. ASSUME NEW j \in Opening' PROVE work'[j].conn \in open'
    <3>1. CASE j = k
      BY <1>1, <1>3, <1>4, <3>1
    <3>2. CASE j \in Opening /\ work'[j] = work[j] /\ j \notin Waiters(app)
      <4>1. work[j].conn \in open /\ work[j].conn # Absent /\ j \in Task
        BY <3>2, TypeUnfolds DEF Tidy, Conns, BridgeAssumption, Absent, Opening
      <4>2. work[j].conn # app
        BY <3>2, <4>1 DEF Waiters
      <4> QED
        BY <1>1, <3>2, <4>1, <4>2
    <3> QED
      BY <1>8, <3>1, <3>2
  <2>3. active' <= recorded' /\ \A d \in Conn : resumed'[d] <= recorded'
    BY <1>1, <1>2, <1>5, <1>6 DEF Tidy, Conns, Absent
  <2> QED
    BY <1>1, <2>1, <2>2, <2>3 DEF Conns
<1>10. Pauseless'
  BY <1>7 DEF Pauseless
<1>11. ASSUME ~loose' PROVE Alone'
  <2>1. Alone /\ Opening = {} /\ work[k].kind \notin UiCalls
    BY <1>11 DEF OpenedBy, Tidy
  <2>2. Opening' = {k}
    BY <1>3, <1>4, <1>8, <2>1 DEF Opening
  <2>3. work[k].kind \in {"poll", "greet", "snapshot", "greetSnapshot"}
    BY <2>1, CallParts DEF Tidy, Pauseless
  <2>4. work[k].kind = "poll" => work[k].thread # recorded
    BY <2>1 DEF Tidy, Pauseless, Alone, Serving
  <2>5. work'[k].conn = c /\ work'[k].kind = work[k].kind /\ work'[k].thread = work[k].thread
        /\ work'[k].step = "opening"
    BY <1>3, <1>4
  <2> QED
    BY <1>1, <1>5, <2>2, <2>3, <2>4, <2>5 DEF Alone, Is
<1> QED
  BY <1>9, <1>10, <1>11 DEF Tidy

\* The connection is up: the bridge takes it for its own.
LEMMA TidyReady ==
    ASSUME BridgeTypeOK, BridgeAssumption, Tidy, NEW k \in Task, Settled, Ready(k)
    PROVE  Tidy'
<1> DEFINE t == [work[k] EXCEPT !.step = "resuming"]
<1>1. t.step = "resuming" /\ t.conn = work[k].conn /\ t.kind = work[k].kind /\ t.thread = work[k].thread
  BY CallParts DEF Calls
<1>2. \A j \in Task : work'[j] = IF j = k THEN t ELSE work[j]
  BY TypeUnfolds DEF Typed, Ready, Becomes
<1> HIDE DEF t
<1>3. k \in Opening /\ Opening' = Opening
  BY <1>1, <1>2 DEF Opening, Ready, Is
<1>4. work[k].conn \in open /\ app' = work[k].conn
  BY <1>3 DEF Tidy, Conns, Ready
<1>5. Conns'
  BY <1>1, <1>2, <1>3, <1>4 DEF Tidy, Conns, Ready, Opening
<1>6. Pauseless'
  BY <1>1, <1>2 DEF Settled, Pauseless, Is
<1>7. ASSUME Alone PROVE Alone'
  <2>1. active = Absent /\ Opening = {k} /\ work[k].kind \in {"poll", "greet", "snapshot", "greetSnapshot"}
        /\ (work[k].kind = "poll" => work[k].thread # resumed[work[k].conn])
    BY <1>3, <1>7 DEF Alone
  <2>2. work'[k].conn = work[k].conn /\ work'[k].kind = work[k].kind /\ work'[k].thread = work[k].thread
    BY <1>1, <1>2
  <2>3. UNCHANGED <<active, resumed>>
    BY DEF Ready
  <2> QED
    BY <1>3, <1>4, <2>1, <2>2, <2>3 DEF Alone
<1> QED
  BY <1>5, <1>6, <1>7 DEF Tidy, Ready

\* The thread is resumed: from here on the connection hears of it.
LEMMA TidyResumed ==
    ASSUME BridgeTypeOK, BridgeAssumption, Tidy, NEW k \in Task, Settled, Resumed(k)
    PROVE  Tidy'
<1>1. k \in Opening /\ work[k].conn \in open
  BY DEF Tidy, Conns, Opening, Resumed, Is
<1>2. work[k].conn \in Conn /\ work[k].conn # Absent
  BY <1>1, TypeUnfolds DEF BridgeAssumption, Absent
<1>3. active' \in Thread \cup {Absent} /\ active' <= recorded
  BY <1>2, TypeUnfolds DEF Resumed, Tidy, Conns
<1>4. PICK t : work' = [work EXCEPT ![k] = t] /\ TakenOn(k, app, active', active', t)
  BY OnwardCases DEF Resumed
<1>5. /\ t \in Calls /\ t.step \notin {"opening", "resuming"}
      /\ t.step = "reconcile" => t.kind \in {"snapshot", "greetSnapshot"}
  BY <1>3, <1>4, OnwardTyped, TypeUnfolds
<1>6. \A j \in Task : work'[j] = IF j = k THEN t ELSE work[j]
  BY <1>4, TypeUnfolds DEF Typed
<1>7. Opening' = Opening \ {k}
  BY <1>5, <1>6 DEF Opening
<1>8. UNCHANGED <<recorded, app, open, resumed, loose>>
  BY DEF Resumed
<1>9. Conns'
  BY <1>3, <1>6, <1>7, <1>8 DEF Tidy, Conns, Opening
<1>10. Pauseless'
  BY <1>5, <1>6 DEF Settled, Pauseless, Is
<1>11. ASSUME Alone PROVE Alone'
  <2>1. Opening' = {} /\ app = work[k].conn
    BY <1>1, <1>7, <1>11 DEF Alone, Resumed
  <2>2. active' = resumed[app]
    BY <2>1 DEF Resumed
  <2> QED
    BY <1>2, <1>8, <2>1, <2>2 DEF Alone
<1> QED
  BY <1>8, <1>9, <1>10, <1>11 DEF Tidy

\* At first no connection is open.
LEMMA TidyInit == BridgeAssumption /\ BridgeInit => Tidy
<1> SUFFICES ASSUME BridgeAssumption, BridgeInit PROVE Tidy
  OBVIOUS
<1>1. recorded \in Nat /\ Opening = {} /\ \A k \in Task : ~Is(k, "reconcile")
  BY DEF BridgeInit, BridgeAssumption, Opening, Is, Idle, Absent
<1> QED
  BY <1>1 DEF BridgeInit, Tidy, Conns, Pauseless, Alone, Absent

\* No step opens a connection beside another without loose saying so.
LEMMA TidyStep ==
    BridgeAssumption /\ BridgeTypeOK /\ BridgeTypeOK' /\ Tidy /\ [BridgeNext]_bridgeVars => Tidy'
<1> SUFFICES ASSUME BridgeAssumption, BridgeTypeOK, BridgeTypeOK', Tidy, [BridgeNext]_bridgeVars
             PROVE  Tidy'
  OBVIOUS
<1>0. recorded \in Nat /\ recorded <= recorded /\ \A k \in Task : work[k] \in Calls
  BY ThreadNumbers, CallParts
<1>1. ASSUME NEW k \in Task, Reconcile(k) PROVE Tidy'
  <2>1. CASE daemon /\ recorded # Absent /\ ~Serving /\ Reopen(k) /\ OpenedBy(k)
    BY <1>1, <2>1, TidyReopen DEF Reconcile
  <2>2. CASE Onward(k, app, active, Current) /\ UNCHANGED <<appVars, stale, loose>>
    <3>1. PICK t : work' = [work EXCEPT ![k] = t] /\ TakenOn(k, app, active, Current, t)
      BY <2>2, OnwardCases
    <3>2. /\ t \in Calls /\ t.step \notin {"opening", "resuming"}
          /\ t.step = "reconcile" => t.kind \in {"snapshot", "greetSnapshot"}
      BY <3>1, OnwardTyped, TypeUnfolds DEF Current
    <3>3. \A j \in Task \ {k} : ~Is(j, "reconcile")
      BY <1>1 DEF Reconcile, Tidy, Pauseless
    <3> QED
      BY <1>1, <2>2, <3>1, <3>2, <3>3, CallMoves DEF Reconcile, appVars
  <2> QED
    BY <1>1, <2>1, <2>2 DEF Reconcile
<1>2. ASSUME Settled, NEW k \in Task, Ready(k) PROVE Tidy'
  BY <1>2, TidyReady
<1>3. ASSUME Settled, NEW k \in Task, Resumed(k) PROVE Tidy'
  BY <1>3, TidyResumed
<1>4. ASSUME NEW k \in Task, Finish(k, TRUE) \/ Finish(k, FALSE),
             UNCHANGED <<recorded, app, active, open, resumed>>,
             (loose' = loose) \/ (resumed[app] = active /\ app # Absent /\ Opening = {})
      PROVE  Tidy'
  <2>1. work' = [work EXCEPT ![k] = Idle]
    BY <1>4, FinishTyped
  <2>2. Idle.step = "idle"
    BY DEF Idle
  <2> QED
    BY <1>4, <2>1, <2>2, SomeCalls, CallMoves
<1>5. ASSUME Settled, NEW k \in Task, NEW t \in Calls, Becomes(k, t),
             UNCHANGED <<recorded, app, active, open, resumed, loose>>,
             t.step \notin {"opening", "resuming"},
             t.step = "reconcile" => t.kind # "none" /\ (t.kind = "poll" => t.thread = active)
      PROVE  Tidy'
  BY <1>5, CallMoves DEF Becomes, Settled
<1>6. ASSUME NEW k \in Task, OpenFails(k) PROVE Tidy'
  BY <1>4, <1>6 DEF OpenFails, appVars
<1>7. ASSUME Settled, NEW k \in Task, ThreadRead(k) PROVE Tidy'
  <2>1. [work[k] EXCEPT !.step = "read"] \in Calls /\ [work[k] EXCEPT !.step = "read"].step = "read"
    BY <1>0 DEF Calls, Steps
  <2> QED
    BY <1>5, <1>7, <2>1 DEF ThreadRead, appVars
<1>8. ASSUME NEW k \in Task, Shown(k) PROVE Tidy'
  <2>1. (loose' = loose) \/ Sound
    BY <1>8, TypeUnfolds DEF Shown
  <2> QED
    BY <1>4, <1>8, <2>1 DEF Shown, Sound, appVars
<1>9. ASSUME NEW k \in Task, Commands(k) PROVE Tidy'
  BY <1>4, <1>9 DEF Commands, appVars
<1>10. ASSUME Settled, NEW k \in Task, Interrupt(k) PROVE Tidy'
  <2>1. [work[k] EXCEPT !.step = "command"] \in Calls /\ [work[k] EXCEPT !.step = "command"].step = "command"
    BY <1>0 DEF Calls, Steps
  <2> QED
    BY <1>5, <1>10, <2>1 DEF Interrupt, appVars
<1>11. ASSUME NEW k \in Task, Answer(k) PROVE Tidy'
  BY <1>4, <1>11 DEF Answer, appVars
<1>12. ASSUME Settled, NEW k \in Task, LinkConnects(k) PROVE Tidy'
  <2>1. Snapshot("greet") \in Calls /\ Snapshot("greet").kind = "greet"
        /\ Snapshot("greet").step = "reconcile"
    BY SomeCalls
  <2> QED
    BY <1>12, <2>1, CallMoves DEF LinkConnects, appVars, Settled
<1>13. ASSUME Settled, NEW k \in Task, PollFires(k) PROVE Tidy'
  <2>1. CASE Becomes(k, [Snapshot("poll") EXCEPT !.thread = active]) /\ UNCHANGED <<appVars, stale>>
    <3> DEFINE t == [Snapshot("poll") EXCEPT !.thread = active]
    <3>1. t \in Calls /\ t.step = "reconcile" /\ t.kind = "poll" /\ t.thread = active
      BY SomeCalls, TypeUnfolds DEF Calls
    <3> QED
      BY <1>5, <1>13, <2>1, <3>1 DEF PollFires, appVars
  <2>2. CASE /\ link' = "down" /\ ClientClosed /\ LinkLost
             /\ work' = [j \in Task |-> IF j \in Waiters(app) THEN Idle ELSE work[j]]
    <3>1. \A j \in Task : work'[j] = IF j \in Waiters(app) THEN Idle ELSE work[j]
      BY <2>2
    <3>2. open' = open \ {app} /\ resumed' = [d \in Conn |-> IF d \in {app} THEN Absent ELSE resumed[d]]
      BY <2>2 DEF ClientClosed, Forgotten
    <3>3. \A j \in Task : work[j].conn # Absent /\ work[j].conn \in {app} => work'[j] = Idle
      BY <3>1 DEF Waiters
    <3>4. UNCHANGED <<recorded, loose>> /\ app' = Absent /\ active' = Absent
      BY <1>13, <2>2 DEF PollFires, ClientClosed
    <3> QED
      BY <1>13, <3>1, <3>2, <3>3, <3>4, ConnectionsGo
  <2> QED
    BY <1>13, <2>1, <2>2 DEF PollFires
<1>14. ASSUME Settled, NEW k \in Task, TimerFires(k) PROVE Tidy'
  <2> DEFINE t == IF link = "down" THEN Idle ELSE Snapshot("snapshot")
  <2>1. t \in Calls /\ t.step \in {"idle", "reconcile"} /\ (t.step = "reconcile" => t.kind = "snapshot")
    BY SomeCalls DEF Idle
  <2> QED
    BY <1>14, <2>1, CallMoves DEF TimerFires, appVars, Settled
<1>15. ASSUME Settled, NEW k \in Task, UiAsks(k) PROVE Tidy'
  <2>1. PICK ui \in UiCalls :
          Becomes(k, [Snapshot(ui) EXCEPT !.thread = IF ui = "discover" THEN Absent ELSE recorded])
    BY <1>15 DEF UiAsks
  <2> DEFINE t == [Snapshot(ui) EXCEPT !.thread = IF ui = "discover" THEN Absent ELSE recorded]
  <2>2. t \in Calls /\ t.step = "reconcile" /\ t.kind = ui
    BY SomeCalls, TypeUnfolds DEF Calls
  <2>3. ui # "none" /\ ui # "poll"
    BY DEF BridgeAssumption
  <2> HIDE DEF t
  <2> QED
    BY <1>5, <1>15, <2>1, <2>2, <2>3 DEF UiAsks, appVars, t
<1>16. ASSUME Settled, NEW k \in Task, SnapshotFails(k) PROVE Tidy'
  <2>1. \A j \in Task : work'[j] = IF j = k \/ j \in Waiters(app) THEN Idle ELSE work[j]
    BY <1>16 DEF SnapshotFails, RejectedAnd
  <2>2. open' = open \ {app} /\ resumed' = [d \in Conn |-> IF d \in {app} THEN Absent ELSE resumed[d]]
    BY <1>16 DEF SnapshotFails, ClientClosed, Forgotten
  <2>3. \A j \in Task : work[j].conn # Absent /\ work[j].conn \in {app} => work'[j] = Idle
    BY <2>1 DEF Waiters
  <2>4. UNCHANGED <<recorded, loose>> /\ app' = Absent /\ active' = Absent
    BY <1>16 DEF SnapshotFails, ClientClosed
  <2> QED
    BY <1>16, <2>1, <2>2, <2>3, <2>4, ConnectionsGo
<1>17. ASSUME Settled, NEW c \in Conn, ConnCloses(c) PROVE Tidy'
  <2>0. c # Absent /\ \A j \in Task : j # Absent
    BY DEF BridgeAssumption, Absent
  <2>1. CASE app = c /\ ClientClosed /\ RejectedAnd(Absent, Idle, Waiters(c))
    <3>1. \A j \in Task : work'[j] = IF j \in Waiters(app) THEN Idle ELSE work[j]
      BY <2>0, <2>1 DEF RejectedAnd
    <3>2. open' = open \ {app} /\ resumed' = [d \in Conn |-> IF d \in {app} THEN Absent ELSE resumed[d]]
      BY <2>1 DEF ClientClosed, Forgotten
    <3>3. \A j \in Task : work[j].conn # Absent /\ work[j].conn \in {app} => work'[j] = Idle
      BY <3>1 DEF Waiters
    <3>4. UNCHANGED <<recorded, loose>> /\ app' = Absent /\ active' = Absent
      BY <1>17, <2>1 DEF ConnCloses, ClientClosed
    <3> QED
      BY <1>17, <3>1, <3>2, <3>3, <3>4, ConnectionsGo
  <2>2. CASE /\ app # c
             /\ app' = Absent /\ active' = Absent /\ open' = open \ {app, c}
             /\ resumed' = [Forgotten(app) EXCEPT ![c] = Absent]
             /\ RejectedAnd(Absent, Idle, Waiters(c) \cup Waiters(app))
    <3>1. \A j \in Task : work'[j] = IF j \in Waiters(c) \cup Waiters(app) THEN Idle ELSE work[j]
      BY <2>0, <2>2 DEF RejectedAnd
    <3>2. resumed' = [d \in Conn |-> IF d \in {app, c} THEN Absent ELSE resumed[d]]
      BY <2>2 DEF Forgotten
    <3>3. \A j \in Task : work[j].conn # Absent /\ work[j].conn \in {app, c} => work'[j] = Idle
      BY <2>0, <3>1 DEF Waiters
    <3>4. UNCHANGED <<recorded, loose>> /\ app' = Absent /\ active' = Absent
      BY <1>17, <2>2 DEF ConnCloses
    <3> QED
      BY <1>17, <2>2, <3>1, <3>2, <3>3, <3>4, ConnectionsGo
  <2>3. CASE /\ app # c /\ UNCHANGED <<app, active, pending>>
             /\ open' = open \ {c} /\ resumed' = Forgotten(c)
             /\ RejectedAnd(Absent, Idle, Waiters(c))
    <3>1. \A j \in Task : work'[j] = IF j \in Waiters(c) THEN Idle ELSE work[j]
      BY <2>0, <2>3 DEF RejectedAnd
    <3>2. open' = open \ {c} /\ resumed' = [d \in Conn |-> IF d \in {c} THEN Absent ELSE resumed[d]]
      BY <2>3 DEF Forgotten
    <3>3. \A j \in Task : work[j].conn # Absent /\ work[j].conn \in {c} => work'[j] = Idle
      BY <3>1 DEF Waiters
    <3>4. UNCHANGED <<recorded, loose>> /\ app' = app /\ active' = active /\ app \notin {c}
      BY <1>17, <2>3 DEF ConnCloses
    <3> QED
      BY <1>17, <3>1, <3>2, <3>3, <3>4, ConnectionsGo
  <2> QED
    BY <1>17, <2>1, <2>2, <2>3 DEF ConnCloses
<1>18. ASSUME UNCHANGED <<app, active, open, resumed, loose>>, recorded <= recorded',
              \A j \in Task : /\ work'[j].step = work[j].step /\ work'[j].kind = work[j].kind
                              /\ work'[j].conn = work[j].conn
                              /\ work'[j].thread = work[j].thread \/ Reads(j)
       PROVE  Tidy'
  <2>1. recorded' \in Thread \cup {Absent}
    BY DEF BridgeTypeOK
  <2>2. recorded' \in Nat
    BY <2>1 DEF BridgeAssumption, Absent
  <2> QED
    BY <1>18, <2>2, CallsStay
<1>19. ASSUME NEW c \in Conn, DaemonAsks(c) PROVE Tidy'
  BY <1>0, <1>18, <1>19 DEF DaemonAsks
<1>20. ASSUME NEW t \in Thread, RecordThread(t) PROVE Tidy'
  <2>1. t \in Nat
    BY DEF BridgeAssumption
  <2> QED
    BY <1>0, <1>18, <1>20, <2>1 DEF RecordThread, appVars
<1>21. CASE LinkCloses
  BY <1>0, <1>18, <1>21 DEF LinkCloses, appVars, Calls, Reads
<1>22. CASE ThreadChanges
  BY <1>0, <1>18, <1>22 DEF ThreadChanges, appVars, Calls, Reads, Is
<1>23. CASE DaemonEnds
  BY <1>0, <1>18, <1>23 DEF DaemonEnds, appVars
<1>24. CASE UNCHANGED bridgeVars
  BY <1>0, <1>18, <1>24 DEF bridgeVars, appVars
<1> QED
  BY <1>1, <1>2, <1>3, <1>6, <1>7, <1>8, <1>9, <1>10, <1>11, <1>12, <1>13, <1>14, <1>15, <1>16, <1>17,
     <1>19, <1>20, <1>21, <1>22, <1>23, <1>24
  DEF BridgeNext, TaskStep

\* The debt of a snapshot stays while no step takes it from the timer or from the call that owes it.
LEMMA DebtStays ==
    ASSUME NEW k \in Task, SnapshotOwed, UNCHANGED <<recorded, app, active>>,
           \A j \in Task \ {k} : work'[j] = work[j],
           daemon' => daemon, link' # "down" => link # "down" /\ (stale' => stale),
           timer => timer' \/ Owes(k)',
           Serving /\ Owes(k) => Owes(k)'
    PROVE  SnapshotOwed'
<1>1. Serving' = Serving /\ \A j \in Task \ {k} : Owes(j)' = Owes(j)
  BY DEF Serving, Owes, Is, Reads
<1> QED
  BY <1>1 DEF SnapshotOwed

\* Every step that leaves something unshown leaves somebody who owes the snapshot.
LEMMA DebtStep ==
    ASSUME BridgeAssumption, BridgeTypeOK, BridgeTypeOK', Tidy, ~loose => SnapshotOwed,
           [BridgeNext]_bridgeVars, ~loose'
    PROVE  SnapshotOwed'
<1>0. /\ active \in Nat /\ recorded \in Nat /\ \A k \in Task : work[k] \in Calls
      /\ app # Absent => recorded # Absent
  <2>1. active \in Nat /\ recorded \in Nat /\ \A d \in Conn : resumed[d] \in Nat
    BY ThreadNumbers
  <2>2. app # Absent => resumed[app] # Absent /\ resumed[app] <= recorded /\ app \in Conn
    BY TypeUnfolds DEF Tidy, Conns
  <2>3. app # Absent => recorded # Absent
    <3> SUFFICES ASSUME app # Absent PROVE recorded # Absent
      OBVIOUS
    <3>1. resumed[app] \in Nat /\ resumed[app] # 0 /\ resumed[app] <= recorded /\ recorded \in Nat
      BY <2>1, <2>2 DEF Absent
    <3> QED
      BY <3>1 DEF Absent
  <2>4. \A k \in Task : work[k] \in Calls
    BY CallParts
  <2> QED
    BY <2>1, <2>3, <2>4
<1>1. ~Serving' => SnapshotOwed'
  BY DEF SnapshotOwed
<1>2. ASSUME NEW k \in Task, Finish(k, TRUE) \/ Finish(k, FALSE),
             UNCHANGED <<recorded, app, active, daemon, loose>>,
             timer => timer', link' # "down" => link # "down" /\ (stale' => stale), ~(Serving /\ Owes(k))
      PROVE  SnapshotOwed'
  <2>1. work' = [work EXCEPT ![k] = Idle]
    BY <1>2, FinishTyped
  <2>2. \A j \in Task \ {k} : work'[j] = work[j]
    BY <2>1, TypeUnfolds DEF Typed
  <2> QED
    BY <1>2, <2>2, DebtStays
<1>3. ASSUME NEW k \in Task, NEW t, Becomes(k, t), UNCHANGED <<recorded, app, active, daemon, loose>>,
             timer => timer', stale' => stale, Serving /\ Owes(k) => Owes(k)'
      PROVE  SnapshotOwed'
  <2>1. \A j \in Task \ {k} : work'[j] = work[j]
    BY <1>3, TypeUnfolds DEF Typed, Becomes
  <2> QED
    BY <1>3, <2>1, DebtStays DEF Becomes
<1>4. ASSUME NEW k \in Task, Reconcile(k) PROVE SnapshotOwed'
  <2>1. CASE Reopen(k)
    BY <1>1, <2>1 DEF Reopen, Serving
  <2>2. CASE Onward(k, app, active, Current) /\ UNCHANGED <<appVars, stale, loose>>
    <3>1. PICK t : work' = [work EXCEPT ![k] = t] /\ TakenOn(k, app, active, Current, t)
      BY <2>2, OnwardCases
    <3>2. work'[k] = t /\ \A j \in Task \ {k} : work'[j] = work[j]
      BY <3>1, TypeUnfolds DEF Typed
    <3>3. link = "down" => link' = "down"
      BY <3>1 DEF TakenOn
    <3>4. ASSUME daemon, Serving, Owes(k) PROVE Owes(k)'
      <4>1. work[k].kind \in {"greet", "snapshot", "greetSnapshot"} /\ app # Absent /\ active # Absent
        BY <1>0, <3>4 DEF Owes, Serving
      <4>2. CASE t = Snapshot("greetSnapshot")
        BY <3>2, <4>2, SomeCalls DEF Owes, Is
      <4>3. CASE /\ work[k].kind \in {"snapshot", "greetSnapshot"}
                 /\ t = [work[k] EXCEPT !.step = "reading", !.thread = Current, !.conn = app]
        <5>1. t.kind = work[k].kind /\ t.step = "reading" /\ t.thread = recorded
          BY <1>0, <3>4, <4>3 DEF Calls, Current
        <5> QED
          BY <1>4, <3>2, <4>3, <5>1 DEF Owes, Reads, Reconcile
      <4>4. Current # Absent
        BY <1>0, <3>4, <4>1 DEF Current
      <4> QED
        BY <3>1, <4>1, <4>2, <4>3, <4>4 DEF TakenOn
    <3>5. CASE daemon
      BY <1>4, <2>2, <3>2, <3>3, <3>4, <3>5, DebtStays DEF Reconcile, appVars
    <3>6. CASE ~daemon
      BY <1>4, <3>6 DEF Reconcile, SnapshotOwed
    <3> QED
      BY <3>5, <3>6
  <2> QED
    BY <1>4, <2>1, <2>2 DEF Reconcile
<1>5. ASSUME NEW k \in Task, Ready(k) PROVE SnapshotOwed'
  <2>1. active = Absent
    BY <1>5 DEF Tidy, Alone, Ready, Opening, Is
  <2>2. app' # Absent => recorded # Absent
    BY <1>0, <1>5 DEF Ready, Tidy, Conns, Opening, Is, Absent, BridgeTypeOK
  <2> QED
    BY <1>1, <1>5, <2>1, <2>2 DEF Ready, Serving
<1>6. ASSUME NEW k \in Task, Resumed(k) PROVE SnapshotOwed'
  <2>1. /\ k \in Opening /\ work[k].conn \in open /\ work[k].conn \in Conn /\ work[k].conn # Absent
    BY <1>6, TypeUnfolds DEF Tidy, Conns, Opening, Resumed, Is, BridgeAssumption, Absent
  <2>2. /\ work[k].kind \in {"poll", "greet", "snapshot", "greetSnapshot"} /\ app = work[k].conn
        /\ work[k].kind = "poll" => work[k].thread # resumed[work[k].conn]
    BY <1>6, <2>1 DEF Tidy, Alone, Resumed
  <2>3. active' = resumed[work[k].conn] /\ active' # Absent
    BY <1>6, <2>1 DEF Resumed, Tidy, Conns
  <2>4. PICK t : work' = [work EXCEPT ![k] = t] /\ TakenOn(k, app, active', active', t)
    BY <1>6, OnwardCases DEF Resumed
  <2>5. work'[k] = t
    BY <2>4, TypeUnfolds DEF Typed
  <2>6. CASE t \in {Snapshot("snapshot"), Snapshot("greetSnapshot")}
    BY <2>5, <2>6, SomeCalls DEF SnapshotOwed, Owes, Is
  <2>7. CASE /\ work[k].kind \in {"snapshot", "greetSnapshot"}
             /\ t = [work[k] EXCEPT !.step = "reading", !.thread = active', !.conn = app]
    <3>1. t.kind = work[k].kind /\ t.step = "reading" /\ t.thread = active'
      BY <1>0, <2>7 DEF Calls
    <3>2. CASE active' = recorded
      BY <1>6, <2>5, <2>7, <3>1, <3>2 DEF SnapshotOwed, Owes, Reads, Resumed
    <3>3. CASE active' # recorded
      BY <1>1, <1>6, <3>3 DEF Resumed, Serving
    <3> QED
      BY <3>2, <3>3
  <2> QED
    BY <2>1, <2>2, <2>3, <2>4, <2>6, <2>7 DEF TakenOn
<1>7. ASSUME NEW k \in Task, OpenFails(k) PROVE SnapshotOwed'
  BY <1>2, <1>7, FinishTyped DEF OpenFails, LinkLost, Owes, Is, Reads, appVars
<1>8. ASSUME NEW k \in Task, ThreadRead(k) PROVE SnapshotOwed'
  <2>1. work'[k].step = "read" /\ work'[k].kind = work[k].kind /\ work'[k].thread = work[k].thread
    BY <1>0, <1>8, TypeUnfolds DEF ThreadRead, Becomes, Typed, Calls
  <2>2. Owes(k) => Owes(k)'
    BY <1>8, <2>1 DEF ThreadRead, Owes, Reads, Is
  <2> QED
    BY <1>3, <1>8, <2>2 DEF ThreadRead, appVars
<1>9. ASSUME NEW k \in Task, Shown(k) PROVE SnapshotOwed'
  <2>1. CASE work[k].thread = recorded /\ link # "down"
    BY <1>9, <2>1 DEF Shown, SnapshotOwed
  <2>2. CASE ~(work[k].thread = recorded /\ link # "down")
    <3>1. loose' = loose /\ stale' = stale
      BY <1>9, <2>2, TypeUnfolds DEF Shown
    <3>2. link' # "down" => link # "down" /\ work[k].thread # recorded
      BY <1>9, <2>2, FinishTyped DEF Shown
    <3>3. CASE link' = "down"
      BY <3>3 DEF SnapshotOwed
    <3>4. CASE link' # "down"
      <4>1. ~Owes(k)
        BY <1>9, <3>2, <3>4 DEF Owes, Shown, Is
      <4> QED
        BY <1>2, <1>9, <3>1, <3>2, <4>1 DEF Shown, appVars
    <3> QED
      BY <3>3, <3>4
  <2> QED
    BY <2>1, <2>2
<1>10. ASSUME NEW k \in Task, SnapshotFails(k) PROVE SnapshotOwed'
  BY <1>1, <1>10 DEF SnapshotFails, ClientClosed, Serving
<1>11. ASSUME NEW k \in Task, Commands(k) PROVE SnapshotOwed'
  <2>1. Finish(k, TRUE) /\ UNCHANGED <<recorded, app, active, daemon, loose, stale>> /\ ~Owes(k)
    BY <1>11 DEF Commands, appVars, Owes, Is, Reads
  <2>2. timer => timer'
    BY <1>11 DEF Commands, Schedule
  <2>3. link' # "down" => link # "down"
    BY <2>1, FinishTyped
  <2> QED
    BY <1>2, <2>1, <2>2, <2>3
<1>12. ASSUME NEW k \in Task, Interrupt(k) PROVE SnapshotOwed'
  BY <1>3, <1>12 DEF Interrupt, Owes, Is, Reads
<1>13. ASSUME NEW k \in Task, Answer(k) PROVE SnapshotOwed'
  <2>1. Finish(k, TRUE) /\ UNCHANGED <<recorded, app, active, daemon, loose, stale>> /\ ~Owes(k)
    BY <1>13 DEF Answer, appVars, Owes, Is, Reads
  <2>2. timer => timer'
    BY <1>13 DEF Answer, Schedule
  <2>3. link' # "down" => link # "down"
    BY <2>1, FinishTyped
  <2> QED
    BY <1>2, <2>1, <2>2, <2>3
<1>14. ASSUME NEW k \in Task, LinkConnects(k) PROVE SnapshotOwed'
  <2>1. work'[k] = Snapshot("greet")
    BY <1>14, TypeUnfolds DEF LinkConnects, Typed
  <2> QED
    BY <2>1, SomeCalls DEF SnapshotOwed, Owes, Is
<1>15. ASSUME NEW k \in Task, PollFires(k) PROVE SnapshotOwed'
  <2>1. CASE ClientClosed
    BY <1>1, <2>1 DEF ClientClosed, Serving
  <2>2. CASE Becomes(k, [Snapshot("poll") EXCEPT !.thread = active]) /\ UNCHANGED <<appVars, stale>>
    BY <1>3, <1>15, <2>2 DEF PollFires, Owes, Is, Reads, Idle, appVars
  <2> QED
    BY <1>15, <2>1, <2>2 DEF PollFires
<1>16. ASSUME NEW k \in Task, TimerFires(k) PROVE SnapshotOwed'
  <2>1. CASE link = "down"
    BY <1>16, <2>1 DEF TimerFires, SnapshotOwed
  <2>2. CASE link # "down"
    <3>1. work'[k] = Snapshot("snapshot")
      BY <1>16, <2>2, TypeUnfolds DEF TimerFires, Typed
    <3> QED
      BY <3>1, SomeCalls DEF SnapshotOwed, Owes, Is
  <2> QED
    BY <2>1, <2>2
<1>17. ASSUME NEW k \in Task, UiAsks(k) PROVE SnapshotOwed'
  BY <1>3, <1>17 DEF UiAsks, Owes, Is, Reads, Idle, appVars
<1>18. ASSUME NEW c \in Conn, DaemonAsks(c) PROVE SnapshotOwed'
  BY <1>18 DEF DaemonAsks, Schedule, SnapshotOwed
<1>19. ASSUME NEW c \in Conn, ConnCloses(c), Settled PROVE SnapshotOwed'
  <2>1. CASE app' = Absent
    BY <1>1, <2>1 DEF Serving
  <2>2. CASE app' # Absent
    <3>1. /\ UNCHANGED <<app, active, recorded, daemon, timer, loose>> /\ LinkLost
          /\ RejectedAnd(Absent, Idle, Waiters(c)) /\ ~\E k \in Waiters(c) : Reads(k)
      BY <1>19, <2>2 DEF ConnCloses, ClientClosed
    <3>2. link' # "down" => link # "down" /\ (stale' => stale)
      BY <3>1, TypeUnfolds DEF LinkLost, RejectedAnd, LinkAfter
    <3>3. ASSUME NEW j \in Task, Owes(j) PROVE Owes(j)'
      <4>1. j # Absent /\ j \notin Waiters(c)
        BY <1>19, <3>1, <3>3 DEF Owes, Settled, BridgeAssumption, Absent
      <4>2. work'[j] = work[j]
        BY <3>1, <4>1 DEF RejectedAnd
      <4> QED
        BY <3>1, <3>3, <4>2 DEF Owes, Is, Reads
    <3> QED
      BY <3>1, <3>2, <3>3 DEF SnapshotOwed, Serving
  <2> QED
    BY <2>1, <2>2
<1>20. ASSUME NEW t \in Thread, RecordThread(t) PROVE SnapshotOwed'
  <2>1. active <= recorded /\ t > recorded /\ t \in Nat
    BY <1>20 DEF RecordThread, Tidy, Conns, BridgeAssumption
  <2>2. active' = active /\ recorded' = t
    BY <1>20 DEF RecordThread, appVars
  <2> QED
    BY <1>0, <1>1, <2>1, <2>2 DEF Serving
<1>21. CASE LinkCloses
  BY <1>21 DEF LinkCloses, SnapshotOwed
<1>22. CASE ThreadChanges
  <2>1. UNCHANGED <<recorded, app, active, link, loose>> /\ Serving' = Serving
    BY <1>22 DEF ThreadChanges, appVars, Serving
  <2>2. ASSUME Serving PROVE Schedule
    <3>1. active = recorded /\ active # Absent /\ app # Absent
      BY <1>0, <2>2 DEF Serving
    <3>2. app \in open /\ resumed[app] = active /\ Opening = {}
      BY <2>1, <3>1 DEF Tidy, Alone, Conns
    <3>3. app \in Subscribed
      BY <3>2 DEF Subscribed, Opening
    <3> QED
      BY <1>22, <3>1, <3>3 DEF ThreadChanges
  <2> QED
    BY <2>1, <2>2 DEF SnapshotOwed, Schedule
<1>23. CASE DaemonEnds
  BY <1>23 DEF DaemonEnds, SnapshotOwed
<1>24. CASE UNCHANGED bridgeVars
  BY <1>24 DEF bridgeVars, appVars, SnapshotOwed, Serving, Owes, Is, Reads
<1> QED
  BY <1>4, <1>5, <1>6, <1>7, <1>8, <1>9, <1>10, <1>11, <1>12, <1>13, <1>14, <1>15, <1>16, <1>17, <1>18,
     <1>19, <1>20, <1>21, <1>22, <1>23, <1>24
  DEF BridgeNext, TaskStep

\* The invariant holds at first.
LEMMA BridgeInvInit == BridgeInit => BridgeInv
<1> SUFFICES ASSUME BridgeInit PROVE BridgeInv
  OBVIOUS
<1>1. ~Serving
  BY BridgeAssumption DEF BridgeInit, Serving
<1> QED
  BY <1>1, BridgeTypeInit, TidyInit, BridgeAssumption DEF BridgeInv, Tidy, SnapshotOwed

\* Every step keeps the invariant.
LEMMA BridgeInvStep == BridgeInv /\ [BridgeNext]_bridgeVars => BridgeInv'
<1> SUFFICES ASSUME BridgeInv, [BridgeNext]_bridgeVars PROVE BridgeInv'
  OBVIOUS
<1>1. Tidy /\ (~loose => SnapshotOwed) /\ BridgeTypeOK /\ Conns
  BY DEF BridgeInv, Tidy
<1>2. BridgeTypeOK'
  BY <1>1, BridgeTypeStep, BridgeAssumption
<1>3. Tidy'
  BY <1>1, <1>2, TidyStep, BridgeAssumption
<1>4. ~loose' => SnapshotOwed'
  BY <1>1, <1>2, DebtStep, BridgeAssumption
<1> QED
  BY <1>2, <1>3, <1>4 DEF BridgeInv, Tidy

\* The variables of the bridge are what their comments say (CodexIpcBridge).
THEOREM BridgeTypeCorrect == BridgeSpec => []BridgeTypeOK
<1>1. BridgeInv => BridgeTypeOK
  BY DEF BridgeInv
<1> QED
  BY <1>1, BridgeInvInit, BridgeInvStep, PTL DEF BridgeSpec

\* However connections close, threads move and calls overlap, the UI has been shown the thread as
\* it is once nothing is under way or scheduled, unless an open connection is one that a request of
\* the UI or overlapping calls opened (reconcileThread, scheduleSnapshot, broadcastSnapshot).
THEOREM NothingUnshown == BridgeSpec => []ShownWhenQuiet
<1>1. BridgeInv => ShownWhenQuiet
  <2> SUFFICES ASSUME BridgeInv, daemon, link = "up", Serving, ~timer, \A k \in Task : work[k] = Idle, ~loose,
                      stale
               PROVE  FALSE
    BY DEF ShownWhenQuiet
  <2>1. PICK k \in Task : Owes(k)
    BY DEF BridgeInv, SnapshotOwed
  <2> QED
    BY <2>1 DEF Owes, Is, Reads, Idle
<1> QED
  BY <1>1, BridgeInvInit, BridgeInvStep, PTL DEF BridgeSpec

-----------------------------------------------------------------------------
(* The arguments of a command.                                              *)

\* The recursion of Reading: g has what is reached after the first arguments.
IsReading(g, v, args, n) ==
    g = [i \in 0..n |-> IF i = 0 THEN Reached(NothingRead(v), "any") ELSE ReadOne(v, g[i - 1], args[i])]

\* It is a function's, for as many arguments as there are.
LEMMA ReadingExists ==
    ASSUME NEW v, NEW args, NEW n \in Nat
    PROVE  \E g : IsReading(g, v, args, n)
<1> DEFINE B == {k \in Nat : ~\E g : IsReading(g, v, args, k)}
<1>1. SUFFICES ASSUME B # {} PROVE FALSE
  OBVIOUS
<1>2. PICK k \in B : \A j \in B : k <= j
  <2>1. B \in SUBSET Nat
    OBVIOUS
  <2> HIDE DEF B
  <2> QED
    BY <1>1, <2>1, LeastOfNaturals
<1>3. k # 0
  <2>1. IsReading([i \in 0..0 |-> Reached(NothingRead(v), "any")], v, args, 0)
    BY DEF IsReading
  <2>2. ~\E g : IsReading(g, v, args, k)
    BY <1>2
  <2> QED
    BY <2>1, <2>2
<1>4. k \in Nat /\ k - 1 \in Nat /\ k - 1 \notin B
  BY <1>2, <1>3
<1>5. PICK g : IsReading(g, v, args, k - 1)
  BY <1>4
<1>6. PICK so : so = ReadOne(v, g[k - 1], args[k])
  OBVIOUS
<1>7. PICK h : h = [i \in 0..k |-> IF i = k THEN so ELSE g[i]]
  OBVIOUS
<1>8. \A i \in 0..k - 1 : g[i] = IF i = 0 THEN Reached(NothingRead(v), "any") ELSE ReadOne(v, g[i - 1], args[i])
  BY <1>5, Zenon DEF IsReading
<1>9. \A i \in 0..k - 1 : h[i] = g[i]
  BY <1>4, <1>7
<1>10. ASSUME NEW i \in 0..k
       PROVE  h[i] = IF i = 0 THEN Reached(NothingRead(v), "any") ELSE ReadOne(v, h[i - 1], args[i])
  <2>1. CASE i = k
    <3>1. h[i] = so /\ i # 0 /\ i - 1 \in 0..k - 1
      BY <1>3, <1>4, <1>7, <2>1
    <3>2. h[i - 1] = g[i - 1]
      BY <1>9, <3>1
    <3> QED
      BY <1>6, <2>1, <3>1, <3>2
  <2>2. CASE i # k /\ i # 0
    <3>1. i \in 0..k - 1 /\ i - 1 \in 0..k - 1
      BY <1>4, <2>2
    <3>2. h[i] = g[i] /\ h[i - 1] = g[i - 1]
      BY <1>9, <3>1
    <3>3. g[i] = ReadOne(v, g[i - 1], args[i])
      BY <1>8, <2>2, <3>1
    <3> QED
      BY <2>2, <3>2, <3>3
  <2>3. CASE i # k /\ i = 0
    <3>1. i \in 0..k - 1
      BY <1>4, <2>3
    <3> QED
      BY <1>8, <1>9, <2>3, <3>1
  <2> QED
    BY <2>1, <2>2, <2>3
<1>11. IsReading(h, v, args, k)
  <2>1. h = [i \in 0..k |-> h[i]]
    BY <1>7
  <2> QED
    BY <1>10, <2>1, Zenon DEF IsReading
<1> QED
  BY <1>2, <1>11

\* Reading, argument by argument.
LEMMA ReadingUnfolds ==
    ASSUME NEW v, NEW args, Len(args) \in Nat
    PROVE  \E f : /\ f[0] = Reached(NothingRead(v), "any")
                  /\ \A i \in 1..Len(args) : f[i] = ReadOne(v, f[i - 1], args[i])
                  /\ Reading(v, args) = IF f[Len(args)].next \in {"prompt", "timeout", "refused"} THEN Refusal
                                        ELSE f[Len(args)].got
<1> DEFINE f == CHOOSE f : IsReading(f, v, args, Len(args))
<1>1. IsReading(f, v, args, Len(args))
  BY ReadingExists
<1>2. Reading(v, args) = IF f[Len(args)].next \in {"prompt", "timeout", "refused"} THEN Refusal ELSE f[Len(args)].got
  BY Zenon DEF Reading, IsReading
<1> HIDE DEF f
<1>3. \A i \in 0..Len(args) : f[i] = IF i = 0 THEN Reached(NothingRead(v), "any") ELSE ReadOne(v, f[i - 1], args[i])
  BY <1>1, Zenon DEF IsReading
<1>4. 0 \in 0..Len(args) /\ \A i \in 1..Len(args) : i \in 0..Len(args) /\ i # 0
  OBVIOUS
<1>5. f[0] = Reached(NothingRead(v), "any")
  BY <1>3, <1>4
<1>6. \A i \in 1..Len(args) : f[i] = ReadOne(v, f[i - 1], args[i])
  BY <1>3, <1>4
<1> QED
  BY <1>2, <1>5, <1>6

\* What the arguments of a verb may make before they are checked.
Made(v) == {got \in Requests : /\ v # "send" => got.prompt = Unset
                               /\ got.fresh => v = "wait"
                               /\ got.pane_quiet => v # "compact"
                               /\ v = "compact" => got.timeout # Unset}

Nexts == {"any", "prompt", "timeout", "name", "nothing", "refused"}

\* An argument is a word, or its flag is one of the flags.
LEMMA Arguments ==
    ASSUME NEW a \in Typable
    PROVE  /\ a = Argument(a.flag, a.word) /\ a # Unset
           /\ a.flag = Unset => a = Word(a.word) /\ a.word \in Words
           /\ a.flag \in TakesValue("send") /\ a.word # Unset => Word(a.word) \in Typable
           /\ EmptyArg \in Typable
<1>1. a = Argument(a.flag, a.word)
  BY DEF Typable, Argument
<1>2. a.flag = Unset => a.word \in Words
  BY UnsetAssumption DEF Typable, Flags
<1>3. a.flag \in TakesValue("send") /\ a.word # Unset => a.word \in Words
  BY DEF Typable, TakesValue
<1>4. ASSUME NEW x \in Words PROVE Word(x) \in Typable
  BY DEF Typable, Word, Argument
<1> QED
  BY <1>1, <1>2, <1>3, <1>4, ArgsAssumption, UnsetAssumption DEF Word, EmptyArg

\* What a value, a name or a switch makes of it.
LEMMA FieldsSet ==
    ASSUME NEW v, NEW got \in Made(v), NEW a \in Typable
    PROVE  /\ v = "send" => Value(got, "prompt", a) \in Made(v)
           /\ Value(got, "timeout", a) \in Made(v)
           /\ [got EXCEPT !.name = a] \in Made(v)
           /\ v = "wait" => Switch(got, "fresh") \in Made(v)
           /\ v # "compact" => Switch(got, "pane-quiet") \in Made(v)
<1>1. a # Unset
  BY Arguments
<1>2. got \in Requests
  BY DEF Made
<1>3. /\ [got EXCEPT !.prompt = a] \in Requests /\ [got EXCEPT !.timeout = a] \in Requests
      /\ [got EXCEPT !.name = a] \in Requests
      /\ [got EXCEPT !.fresh = TRUE] \in Requests /\ [got EXCEPT !.pane_quiet = TRUE] \in Requests
  BY <1>2, Zenon DEF Requests
<1>4. /\ [got EXCEPT !.prompt = a].timeout = got.timeout /\ [got EXCEPT !.prompt = a].fresh = got.fresh
      /\ [got EXCEPT !.prompt = a].pane_quiet = got.pane_quiet
  BY <1>2, Zenon DEF Requests
<1>5. /\ [got EXCEPT !.timeout = a].timeout = a /\ [got EXCEPT !.timeout = a].fresh = got.fresh
      /\ [got EXCEPT !.timeout = a].pane_quiet = got.pane_quiet /\ [got EXCEPT !.timeout = a].prompt = got.prompt
  BY <1>2, Zenon DEF Requests
<1>6. /\ [got EXCEPT !.name = a].timeout = got.timeout /\ [got EXCEPT !.name = a].fresh = got.fresh
      /\ [got EXCEPT !.name = a].pane_quiet = got.pane_quiet /\ [got EXCEPT !.name = a].prompt = got.prompt
  BY <1>2, Zenon DEF Requests
<1>7. /\ [got EXCEPT !.fresh = TRUE].timeout = got.timeout
      /\ [got EXCEPT !.fresh = TRUE].pane_quiet = got.pane_quiet /\ [got EXCEPT !.fresh = TRUE].prompt = got.prompt
  BY <1>2, Zenon DEF Requests
<1>8. /\ [got EXCEPT !.pane_quiet = TRUE].timeout = got.timeout
      /\ [got EXCEPT !.pane_quiet = TRUE].fresh = got.fresh /\ [got EXCEPT !.pane_quiet = TRUE].prompt = got.prompt
  BY <1>2, Zenon DEF Requests
<1> QED
  BY <1>1, <1>3, <1>4, <1>5, <1>6, <1>7, <1>8, Zenon DEF Made, Value, Switch

\* One argument more.
LEMMA OneRead ==
    ASSUME NEW v \in {"send", "wait", "compact"}, NEW so, NEW a \in Typable,
           so = Reached(so.got, so.next), so.got \in Made(v), so.next \in Nexts, so.next = "prompt" => v = "send"
    PROVE  LET then == ReadOne(v, so, a) IN
           then = Reached(then.got, then.next) /\ then.got \in Made(v) /\ then.next \in Nexts /\ (then.next = "prompt" => v = "send")
<1> DEFINE then == ReadOne(v, so, a)
           Fine(r) == r = Reached(r.got, r.next) /\ r.got \in Made(v) /\ r.next \in Nexts /\ (r.next = "prompt" => v = "send")
<1>1. \A got \in Made(v), n \in Nexts : (n = "prompt" => v = "send") => Fine(Reached(got, n))
  BY DEF Reached
<1>2. Fine(so)
  OBVIOUS
<1>3. EmptyArg \in Typable /\ (a.flag \in TakesValue("send") /\ a.word # Unset => Word(a.word) \in Typable)
  BY Arguments
<1>4. TakesValue(v) \subseteq {"prompt", "timeout"} /\ ("prompt" \in TakesValue(v) => v = "send") /\ TakesValue("send") = {"prompt", "timeout"}
  BY DEF TakesValue
<1>5. Switches(v) \subseteq {"pane-quiet", "fresh"} /\ ("fresh" \in Switches(v) => v = "wait") /\ ("pane-quiet" \in Switches(v) => v # "compact")
  BY DEF Switches
<1> HIDE DEF Fine
<1>6. ASSUME NEW got \in Made(v) PROVE Fine(ReadAny(v, got, a))
  <2>1. CASE a.flag \in TakesValue(v) /\ a.word # Unset
    <3>1. Value(got, a.flag, Word(a.word)) \in Made(v)
      BY <1>3, <1>4, <2>1, FieldsSet
    <3>2. ReadAny(v, got, a) = Reached(Value(got, a.flag, Word(a.word)), "any")
      BY <2>1, Zenon DEF ReadAny
    <3> QED
      BY <1>1, <3>1, <3>2 DEF Nexts
  <2>2. CASE a.flag \in TakesValue(v) /\ a.word = Unset
    <3>1. ReadAny(v, got, a) = Reached(got, a.flag)
      BY <2>2 DEF ReadAny
    <3> QED
      BY <1>1, <1>4, <2>2, <3>1 DEF Nexts
  <2>3. CASE a.flag \notin TakesValue(v)
    <3>1. CASE a.flag \in Switches(v) /\ a.word = Unset
      <4>1. ReadAny(v, got, a) = Reached(Switch(got, a.flag), "any")
        BY <2>3, <3>1 DEF ReadAny
      <4>2. Switch(got, a.flag) \in Made(v)
        BY <1>5, <3>1, FieldsSet
      <4> QED
        BY <1>1, <4>1, <4>2 DEF Nexts
    <3>2. CASE ~(a.flag \in Switches(v) /\ a.word = Unset)
      <4>1. \/ ReadAny(v, got, a) = Reached([got EXCEPT !.name = EmptyArg], "name")
            \/ ReadAny(v, got, a) = Reached([got EXCEPT !.name = a], "any")
            \/ ReadAny(v, got, a) = Reached(Value(got, "timeout", a), "any")
            \/ ReadAny(v, got, a) = Reached(got, "refused")
        BY <2>3, <3>2 DEF ReadAny
      <4>2. /\ [got EXCEPT !.name = EmptyArg] \in Made(v) /\ [got EXCEPT !.name = a] \in Made(v)
            /\ Value(got, "timeout", a) \in Made(v)
        BY <1>3, FieldsSet
      <4> QED
        BY <1>1, <4>1, <4>2 DEF Nexts
    <3> QED BY <3>1, <3>2
  <2> QED BY <2>1, <2>2, <2>3
<1>7. Fine(then)
  <2>1. CASE so.next = "any"
    BY <1>6, <2>1 DEF ReadOne
  <2>2. CASE so.next \in {"prompt", "timeout"}
    <3>1. then = Reached(Value(so.got, so.next, a), "any")
      BY <2>2 DEF ReadOne
    <3>2. Value(so.got, so.next, a) \in Made(v)
      BY <2>2, FieldsSet
    <3> QED
      BY <1>1, <3>1, <3>2 DEF Nexts
  <2>3. CASE so.next = "name"
    <3>1. then = Reached([so.got EXCEPT !.name = a], "nothing")
      BY <2>3 DEF ReadOne
    <3> QED
      BY <1>1, <3>1, FieldsSet DEF Nexts
  <2>4. CASE so.next \in {"nothing", "refused"}
    BY <1>2, <2>4 DEF ReadOne
  <2> QED
    BY <2>1, <2>2, <2>3, <2>4 DEF Nexts
<1> QED
  BY <1>7 DEF Fine

\* Whatever is typed, what is read of it is refused or of the verb's kind.
LEMMA ReadIsMade ==
    ASSUME NEW v \in {"send", "wait", "compact"}, NEW args \in Seq(Typable)
    PROVE  Reading(v, args) = Refusal \/ Reading(v, args) \in Made(v)
<1>1. PICK f : /\ f[0] = Reached(NothingRead(v), "any")
               /\ \A i \in 1..Len(args) : f[i] = ReadOne(v, f[i - 1], args[i])
               /\ Reading(v, args) = IF f[Len(args)].next \in {"prompt", "timeout", "refused"} THEN Refusal
                                     ELSE f[Len(args)].got
  BY ReadingUnfolds
<1> DEFINE Fine(r) == r = Reached(r.got, r.next) /\ r.got \in Made(v) /\ r.next \in Nexts /\ (r.next = "prompt" => v = "send")
           B == {k \in 0..Len(args) : ~Fine(f[k])}
<1>2. Fine(f[0])
  <2>1. EmptyArg \in Typable
    BY ArgsAssumption DEF Typable, EmptyArg, Word, Argument
  <2>2. Unset # Word("1800")
    BY UnsetAssumption DEF Times
  <2>3. NothingRead(v) \in Requests
    <3>1. (IF v = "compact" THEN Word("1800") ELSE Unset) \in Typable \cup Times \cup {Unset}
      BY DEF Times
    <3> QED
      BY <2>1, <3>1, Zenon DEF Requests, NothingRead
  <2>4. NothingRead(v) \in Made(v)
    BY <2>2, <2>3 DEF Made, NothingRead
  <2> QED
    BY <1>1, <2>4 DEF Reached, Nexts
<1>3. ASSUME NEW k \in 1..Len(args), Fine(f[k - 1]) PROVE Fine(f[k])
  <2>1. args[k] \in Typable /\ f[k] = ReadOne(v, f[k - 1], args[k])
    BY <1>1
  <2> QED
    BY <1>3, <2>1, OneRead
<1> HIDE DEF Fine
<1>4. B = {}
  <2>1. SUFFICES ASSUME B # {} PROVE FALSE
    OBVIOUS
  <2>2. PICK k \in B : \A j \in B : k <= j
    <3>1. B \in SUBSET Nat
      OBVIOUS
    <3> HIDE DEF B
    <3> QED
      BY <2>1, <3>1, LeastOfNaturals
  <2>3. k # 0 /\ k \in 1..Len(args) /\ k - 1 \in 0..Len(args) /\ k - 1 \notin B
    BY <1>2, <2>2
  <2> QED
    BY <1>3, <2>2, <2>3
<1>5. Fine(f[Len(args)])
  BY <1>4
<1> QED
  BY <1>1, <1>5 DEF Fine

\* Reading these arguments leads from so to then.
Leads(v, so, args, then) ==
    \E f : /\ f[0] = so /\ f[Len(args)] = then
           /\ \A i \in 1..Len(args) : f[i] = ReadOne(v, f[i - 1], args[i])

\* To one place only: where Reading ends.
LEMMA LeadsThere ==
    ASSUME NEW v, NEW args, Len(args) \in Nat, NEW then, Leads(v, Reached(NothingRead(v), "any"), args, then),
           then.next \notin {"prompt", "timeout", "refused"}
    PROVE  Reading(v, args) = then.got
<1>1. PICK f : /\ f[0] = Reached(NothingRead(v), "any")
               /\ \A i \in 1..Len(args) : f[i] = ReadOne(v, f[i - 1], args[i])
               /\ Reading(v, args) = IF f[Len(args)].next \in {"prompt", "timeout", "refused"} THEN Refusal
                                     ELSE f[Len(args)].got
  BY ReadingUnfolds
<1>2. PICK g : /\ g[0] = Reached(NothingRead(v), "any") /\ g[Len(args)] = then
               /\ \A i \in 1..Len(args) : g[i] = ReadOne(v, g[i - 1], args[i])
  BY DEF Leads
<1> DEFINE B == {k \in 0..Len(args) : f[k] # g[k]}
<1>3. B = {}
  <2>1. SUFFICES ASSUME B # {} PROVE FALSE
    OBVIOUS
  <2>2. PICK k \in B : \A j \in B : k <= j
    <3>1. B \in SUBSET Nat
      OBVIOUS
    <3> HIDE DEF B
    <3> QED
      BY <2>1, <3>1, LeastOfNaturals
  <2>3. k # 0 /\ k \in 1..Len(args) /\ k - 1 \in 0..Len(args) /\ k - 1 \notin B
    BY <1>1, <1>2, <2>2
  <2> QED
    BY <1>1, <1>2, <2>2, <2>3
<1>4. f[Len(args)] = then
  BY <1>2, <1>3
<1> QED
  BY <1>1, <1>4

\* Nothing, an argument, and a flag with its value.
LEMMA LeadsNowhere ==
    ASSUME NEW v, NEW so
    PROVE  Leads(v, so, <<>>, so)
<1>1. PICK f : f = [i \in {0} |-> so]
  OBVIOUS
<1>2. f[0] = so /\ Len(<<>>) = 0 /\ 1..0 = {}
  BY <1>1
<1> QED
  BY <1>2 DEF Leads

LEMMA LeadsByOne ==
    ASSUME NEW v, NEW so, NEW a
    PROVE  Leads(v, so, <<a>>, ReadOne(v, so, a))
<1>1. PICK f : f = [i \in {0, 1} |-> IF i = 0 THEN so ELSE ReadOne(v, so, a)]
  OBVIOUS
<1>2. f[0] = so /\ f[1] = ReadOne(v, so, a) /\ Len(<<a>>) = 1 /\ 1..1 = {1} /\ <<a>>[1] = a
  BY <1>1
<1> QED
  BY <1>2 DEF Leads

\* One list after another.
LEMMA LeadsOn ==
    ASSUME NEW v, NEW so, NEW a, NEW then, NEW b, NEW end, NEW S, a \in Seq(S), b \in Seq(S),
           Leads(v, so, a, then), Leads(v, then, b, end)
    PROVE  Leads(v, so, a \o b, end)
<1>1. PICK f : /\ f[0] = so /\ f[Len(a)] = then
               /\ \A i \in 1..Len(a) : f[i] = ReadOne(v, f[i - 1], a[i])
  BY DEF Leads
<1>2. PICK g : /\ g[0] = then /\ g[Len(b)] = end
               /\ \A i \in 1..Len(b) : g[i] = ReadOne(v, g[i - 1], b[i])
  BY DEF Leads
<1>a. PICK m \in Nat : m = Len(a)
  OBVIOUS
<1>b. PICK n \in Nat : n = Len(b)
  OBVIOUS
<1>3. m = Len(a) /\ n = Len(b)
  BY <1>a, <1>b
<1>4. PICK c : c = a \o b
  OBVIOUS
<1>5. /\ Len(c) = m + n
      /\ \A i \in 1..m : c[i] = a[i]
      /\ \A i \in 1..m + n : i \notin 1..m => i - m \in 1..n /\ c[i] = b[i - m]
  BY <1>3, <1>4
<1>6. PICK h : h = [i \in 0..m + n |-> IF i <= m THEN f[i] ELSE g[i - m]]
  OBVIOUS
<1>7. h[0] = so /\ h[m + n] = end
  BY <1>1, <1>2, <1>3, <1>6
<1>8. ASSUME NEW i \in 1..m + n PROVE h[i] = ReadOne(v, h[i - 1], c[i])
  <2>1. CASE i <= m
    <3>1. i \in 1..m /\ h[i] = f[i] /\ h[i - 1] = f[i - 1] /\ c[i] = a[i]
      BY <1>3, <1>5, <1>6, <2>1
    <3> QED
      BY <1>1, <1>3, <3>1
  <2>2. CASE i > m
    <3>1. i - m \in 1..n /\ h[i] = g[i - m] /\ c[i] = b[i - m]
      BY <1>3, <1>5, <1>6, <2>2
    <3>2. h[i - 1] = g[(i - m) - 1]
      <4>1. CASE i - 1 = m
        <5>1. h[i - 1] = f[m] /\ (i - m) - 1 = 0
          BY <1>6, <4>1
        <5> QED
          BY <1>1, <1>2, <1>3, <5>1
      <4>2. CASE i - 1 # m
        <5>1. i - 1 \in 0..m + n /\ ~(i - 1 <= m) /\ (i - 1) - m = (i - m) - 1
          BY <2>2, <4>2
        <5> QED
          BY <1>6, <5>1
      <4> QED BY <4>1, <4>2
    <3> QED
      BY <1>2, <1>3, <3>1, <3>2
  <2> QED BY <1>3, <2>1, <2>2
<1> QED
  BY <1>3, <1>4, <1>5, <1>7, <1>8 DEF Leads

\* A request that passed the checks.
Asked(v) == {r \in Made(v) : /\ r.name # EmptyArg
                             /\ v = "send" => r.prompt # Unset
                             /\ r.timeout # Unset =>
                                    \E w \in DOMAIN Decimal : r.timeout = Word(w) /\ Decimal[w] = w}

LEMMA CheckedIsAsked ==
    ASSUME NEW v \in {"send", "wait", "compact"}, NEW got \in Made(v)
    PROVE  Checked(v, got) = Refusal \/ Checked(v, got) \in Asked(v)
<1> SUFFICES ASSUME Checked(v, got) # Refusal PROVE Checked(v, got) \in Asked(v)
  OBVIOUS
<1> DEFINE t == InSeconds(got.timeout)
<1>1. /\ Checked(v, got) = [got EXCEPT !.timeout = t]
      /\ got.name # EmptyArg /\ (v = "send" => got.prompt # Unset) /\ WholeNumber(got.timeout)
  BY DEF Checked
<1>2. got \in Requests
  BY DEF Made
<1>3. /\ t \in Times \cup {Unset} /\ (got.timeout # Unset => t # Unset)
      /\ t # Unset => \E w \in DOMAIN Decimal : t = Word(w) /\ Decimal[w] = w
  <2>1. CASE got.timeout = Unset
    BY <2>1 DEF InSeconds
  <2>2. CASE got.timeout # Unset
    <3>1. PICK w \in DOMAIN Decimal : got.timeout = Word(w)
      BY <1>1, <2>2 DEF WholeNumber
    <3>2. t = Word(Decimal[w])
      BY <2>2, <3>1 DEF InSeconds, Word, Argument
    <3>3. Decimal[w] \in DOMAIN Decimal /\ Decimal[Decimal[w]] = Decimal[w]
      BY ArgsAssumption
    <3> QED
      BY <3>2, <3>3, UnsetAssumption DEF Times
  <2> QED BY <2>1, <2>2
<1> HIDE DEF t
<1>4. [got EXCEPT !.timeout = t] \in Requests
  BY <1>2, <1>3, Zenon DEF Requests
<1>5. PICK r : r = [got EXCEPT !.timeout = t]
  OBVIOUS
<1>6. /\ r.timeout = t /\ r.name = got.name /\ r.prompt = got.prompt
      /\ r.fresh = got.fresh /\ r.pane_quiet = got.pane_quiet
  BY <1>2, <1>5, Zenon DEF Requests
<1>7. r \in Made(v)
  BY <1>3, <1>4, <1>5, <1>6, Zenon DEF Made
<1>8. r \in Asked(v)
  BY <1>1, <1>3, <1>6, <1>7, Zenon DEF Asked
<1> QED
  BY <1>1, <1>5, <1>8

\* What is read, field by field.
Got(n, p, q, f, t) == [name |-> n, prompt |-> p, pane_quiet |-> q, fresh |-> f, timeout |-> t]

\* The lists of arguments that Rebuilt joins.
LEMMA PartsLead ==
    ASSUME NEW v \in {"send", "wait", "compact"}, NEW n, NEW p, NEW q, NEW f, NEW t
    PROVE  /\ \A x \in Typable : x.flag = Unset =>
                 Leads(v, Reached(Got(EmptyArg, p, q, f, t), "any"), <<x>>, Reached(Got(x, p, q, f, t), "any"))
           /\ \A x : v = "send" => Leads(v, Reached(Got(n, p, q, f, t), "any"), <<Flag("prompt"), x>>,
                                         Reached(Got(n, x, q, f, t), "any"))
           /\ \A x : Leads(v, Reached(Got(n, p, q, f, t), "any"), <<Flag("timeout"), x>>,
                           Reached(Got(n, p, q, f, x), "any"))
           /\ v = "wait" => Leads(v, Reached(Got(n, p, q, f, t), "any"), <<Flag("fresh")>>,
                                  Reached(Got(n, p, q, TRUE, t), "any"))
           /\ v # "compact" => Leads(v, Reached(Got(n, p, q, f, t), "any"), <<Flag("pane-quiet")>>,
                                     Reached(Got(n, p, TRUE, f, t), "any"))
<1> USE DEF Reached
<1>0. Unset \notin Flags
  BY UnsetAssumption
<1>1. ASSUME NEW x \in Typable, x.flag = Unset
      PROVE  Leads(v, Reached(Got(EmptyArg, p, q, f, t), "any"), <<x>>, Reached(Got(x, p, q, f, t), "any"))
  <2>1. x.flag \notin TakesValue(v) /\ x.flag \notin Switches(v) /\ x # Rest
    <3>1. TakesValue(v) \subseteq Flags /\ Switches(v) \subseteq Flags
      BY DEF TakesValue, Switches, Flags
    <3>2. Rest.flag \in Flags
      BY DEF Rest, Flag, Argument, Flags
    <3> QED
      BY <1>0, <1>1, <3>1, <3>2
  <2>2. [Got(EmptyArg, p, q, f, t) EXCEPT !.name = x] = Got(x, p, q, f, t) /\ Got(EmptyArg, p, q, f, t).name = EmptyArg
    BY DEF Got
  <2>3. ReadOne(v, Reached(Got(EmptyArg, p, q, f, t), "any"), x) = Reached(Got(x, p, q, f, t), "any")
    BY <1>1, <2>1, <2>2 DEF ReadOne, ReadAny
  <2> QED
    BY <2>3, LeadsByOne
<1>2. ASSUME NEW fl \in {"prompt", "timeout"}, fl \in TakesValue(v), NEW x
      PROVE  Leads(v, Reached(Got(n, p, q, f, t), "any"), <<Flag(fl), x>>,
                   Reached(Value(Got(n, p, q, f, t), fl, x), "any"))
  <2>1. ReadOne(v, Reached(Got(n, p, q, f, t), "any"), Flag(fl)) = Reached(Got(n, p, q, f, t), fl)
    BY <1>2 DEF ReadOne, ReadAny, Flag, Argument
  <2>2. ReadOne(v, Reached(Got(n, p, q, f, t), fl), x) = Reached(Value(Got(n, p, q, f, t), fl, x), "any")
    BY <1>2 DEF ReadOne
  <2>3. <<Flag(fl), x>> = <<Flag(fl)>> \o <<x>> /\ <<Flag(fl)>> \in Seq({Flag(fl), x}) /\ <<x>> \in Seq({Flag(fl), x})
    OBVIOUS
  <2> HIDE DEF Reached
  <2> QED
    BY <2>1, <2>2, <2>3, LeadsByOne, LeadsOn
<1>3. ASSUME NEW fl \in Switches(v)
      PROVE  Leads(v, Reached(Got(n, p, q, f, t), "any"), <<Flag(fl)>>,
                   Reached(Switch(Got(n, p, q, f, t), fl), "any"))
  <2>1. fl \notin TakesValue(v)
    BY <1>3 DEF Switches, TakesValue
  <2>2. ReadOne(v, Reached(Got(n, p, q, f, t), "any"), Flag(fl)) = Reached(Switch(Got(n, p, q, f, t), fl), "any")
    BY <1>3, <2>1 DEF ReadOne, ReadAny, Flag, Argument
  <2> QED
    BY <2>2, LeadsByOne
<1>4. /\ \A x : Value(Got(n, p, q, f, t), "prompt", x) = Got(n, x, q, f, t)
      /\ \A x : Value(Got(n, p, q, f, t), "timeout", x) = Got(n, p, q, f, x)
      /\ Switch(Got(n, p, q, f, t), "fresh") = Got(n, p, q, TRUE, t)
      /\ Switch(Got(n, p, q, f, t), "pane-quiet") = Got(n, p, TRUE, f, t)
  BY DEF Value, Switch, Got
<1>5. /\ v = "send" => "prompt" \in TakesValue(v)
      /\ "timeout" \in TakesValue(v)
      /\ v = "wait" => "fresh" \in Switches(v)
      /\ v # "compact" => "pane-quiet" \in Switches(v)
  BY DEF TakesValue, Switches
<1> HIDE DEF Reached
<1>6. \A x : v = "send" => Leads(v, Reached(Got(n, p, q, f, t), "any"), <<Flag("prompt"), x>>,
                                Reached(Got(n, x, q, f, t), "any"))
  BY <1>2, <1>4, <1>5
<1>7. \A x : Leads(v, Reached(Got(n, p, q, f, t), "any"), <<Flag("timeout"), x>>,
                  Reached(Got(n, p, q, f, x), "any"))
  BY <1>2, <1>4, <1>5
<1>8. v = "wait" => Leads(v, Reached(Got(n, p, q, f, t), "any"), <<Flag("fresh")>>,
                          Reached(Got(n, p, q, TRUE, t), "any"))
  BY <1>3, <1>4, <1>5
<1>9. v # "compact" => Leads(v, Reached(Got(n, p, q, f, t), "any"), <<Flag("pane-quiet")>>,
                             Reached(Got(n, p, TRUE, f, t), "any"))
  BY <1>3, <1>4, <1>5
<1> QED
  BY <1>1, <1>6, <1>7, <1>8, <1>9

\* The engine's arguments are read as the request they were made from.
LEMMA RereadIsSame ==
    ASSUME NEW v \in {"send", "wait", "compact"}, NEW r \in Asked(v), r.name.flag = Unset
    PROVE  Relayed(v, r) = r
<1> DEFINE second == IF v = "send" THEN <<Flag("prompt"), r.prompt>> ELSE <<>>
           third  == IF r.timeout # Unset THEN <<Flag("timeout"), r.timeout>> ELSE <<>>
           fourth == IF r.fresh THEN <<Flag("fresh")>> ELSE <<>>
           fifth  == IF r.pane_quiet THEN <<Flag("pane-quiet")>> ELSE <<>>
           any    == {r.name, r.prompt, r.timeout, Flag("prompt"), Flag("timeout"), Flag("fresh"), Flag("pane-quiet")}
           t0     == IF v = "compact" THEN Word("1800") ELSE Unset
<1>1. r \in Made(v) /\ r \in Requests
  BY DEF Asked, Made
<1>2. r.name \in Typable /\ r.pane_quiet \in BOOLEAN /\ r.fresh \in BOOLEAN
  BY <1>1, Zenon DEF Requests
<1>3. r = Got(r.name, r.prompt, r.pane_quiet, r.fresh, r.timeout)
  BY <1>1, Zenon DEF Requests, Got
<1>4. /\ v # "send" => r.prompt = Unset
      /\ r.fresh => v = "wait"
      /\ r.pane_quiet => v # "compact"
      /\ v = "compact" => r.timeout # Unset
  BY <1>1, Zenon DEF Made
<1>5. Rebuilt(v, r) = <<r.name>> \o second \o third \o fourth \o fifth
  BY Zenon DEF Rebuilt
<1>6. <<r.name>> \in Seq(any) /\ second \in Seq(any) /\ third \in Seq(any) /\ fourth \in Seq(any) /\ fifth \in Seq(any)
  <2>1. \A x \in any : <<x>> \in Seq(any)
    OBVIOUS
  <2>2. \A x, y \in any : <<x, y>> \in Seq(any)
    OBVIOUS
  <2>3. <<>> \in Seq(any)
    OBVIOUS
  <2>4. /\ r.name \in any /\ r.prompt \in any /\ r.timeout \in any /\ Flag("prompt") \in any
        /\ Flag("timeout") \in any /\ Flag("fresh") \in any /\ Flag("pane-quiet") \in any
    OBVIOUS
  <2> HIDE DEF any
  <2> QED
    BY <2>1, <2>2, <2>3, <2>4
<1>7. NothingRead(v) = Got(EmptyArg, Unset, FALSE, FALSE, t0)
  BY Zenon DEF NothingRead, Got
<1>8. Leads(v, Reached(NothingRead(v), "any"), <<r.name>>, Reached(Got(r.name, Unset, FALSE, FALSE, t0), "any"))
  BY <1>2, <1>7, PartsLead
<1>9. Leads(v, Reached(Got(r.name, Unset, FALSE, FALSE, t0), "any"), second,
            Reached(Got(r.name, r.prompt, FALSE, FALSE, t0), "any"))
  <2>1. CASE v = "send"
    BY <2>1, PartsLead
  <2>2. CASE v # "send"
    BY <1>4, <2>2, LeadsNowhere
  <2> QED BY <2>1, <2>2
<1>10. Leads(v, Reached(Got(r.name, r.prompt, FALSE, FALSE, t0), "any"), third,
             Reached(Got(r.name, r.prompt, FALSE, FALSE, r.timeout), "any"))
  <2>1. CASE r.timeout # Unset
    BY <2>1, PartsLead
  <2>2. CASE r.timeout = Unset
    BY <1>4, <2>2, LeadsNowhere
  <2> QED BY <2>1, <2>2
<1>11. Leads(v, Reached(Got(r.name, r.prompt, FALSE, FALSE, r.timeout), "any"), fourth,
             Reached(Got(r.name, r.prompt, FALSE, r.fresh, r.timeout), "any"))
  <2>1. CASE r.fresh
    <3>1. r.fresh = TRUE /\ v = "wait"
      BY <1>2, <1>4, <2>1
    <3> QED
      BY <3>1, PartsLead
  <2>2. CASE ~r.fresh
    <3>1. r.fresh = FALSE
      BY <1>2, <2>2
    <3> QED
      BY <3>1, LeadsNowhere
  <2> QED BY <2>1, <2>2
<1>12. Leads(v, Reached(Got(r.name, r.prompt, FALSE, r.fresh, r.timeout), "any"), fifth,
             Reached(r, "any"))
  <2>1. CASE r.pane_quiet
    <3>1. r.pane_quiet = TRUE /\ v # "compact"
      BY <1>2, <1>4, <2>1
    <3> QED
      BY <1>3, <3>1, PartsLead
  <2>2. CASE ~r.pane_quiet
    <3>1. r.pane_quiet = FALSE
      BY <1>2, <2>2
    <3> QED
      BY <1>3, <3>1, LeadsNowhere
  <2> QED BY <2>1, <2>2
<1> HIDE DEF second, third, fourth, fifth, any, t0
<1> DEFINE two == <<r.name>> \o second
           three == two \o third
           four == three \o fourth
<1>13. Rebuilt(v, r) = four \o fifth /\ two \in Seq(any) /\ three \in Seq(any) /\ four \in Seq(any)
       /\ Rebuilt(v, r) \in Seq(any)
  BY <1>5, <1>6
<1>14. Leads(v, Reached(NothingRead(v), "any"), two, Reached(Got(r.name, r.prompt, FALSE, FALSE, t0), "any"))
  BY <1>6, <1>8, <1>9, LeadsOn
<1>15. Leads(v, Reached(NothingRead(v), "any"), three, Reached(Got(r.name, r.prompt, FALSE, FALSE, r.timeout), "any"))
  <2> HIDE DEF two
  <2> QED
    BY <1>6, <1>10, <1>13, <1>14, LeadsOn
<1>16. Leads(v, Reached(NothingRead(v), "any"), four, Reached(Got(r.name, r.prompt, FALSE, r.fresh, r.timeout), "any"))
  <2> HIDE DEF three
  <2> QED
    BY <1>6, <1>11, <1>13, <1>15, LeadsOn
<1> HIDE DEF four
<1>17. Leads(v, Reached(NothingRead(v), "any"), Rebuilt(v, r), Reached(r, "any"))
  BY <1>6, <1>12, <1>13, <1>16, LeadsOn
<1>18. Reading(v, Rebuilt(v, r)) = r
  <2>1. Rebuilt(v, r) \in Seq(any)
    BY <1>13
  <2>2. Reached(r, "any").next = "any" /\ Reached(r, "any").got = r
    BY DEF Reached
  <2>3. Len(Rebuilt(v, r)) \in Nat
    BY <2>1
  <2> QED
    BY <1>17, <2>2, <2>3, LeadsThere
<1>19. r # Refusal
  BY <1>1, UnsetAssumption DEF Refusal
<1>20. WholeNumber(r.timeout) /\ InSeconds(r.timeout) = r.timeout
  <2>1. CASE r.timeout = Unset
    BY <2>1 DEF WholeNumber, InSeconds
  <2>2. CASE r.timeout # Unset
    <3>1. PICK w \in DOMAIN Decimal : r.timeout = Word(w) /\ Decimal[w] = w
      BY <2>2 DEF Asked
    <3>2. Word(w).word = w
      BY DEF Word, Argument
    <3> QED
      BY <2>2, <3>1, <3>2 DEF WholeNumber, InSeconds
  <2> QED BY <2>1, <2>2
<1>21. [r EXCEPT !.timeout = r.timeout] = r
  BY <1>1, Zenon DEF Requests
<1>22. Checked(v, r) = [r EXCEPT !.timeout = InSeconds(@)]
  BY <1>19, <1>20 DEF Checked, Asked
<1> QED
  BY <1>18, <1>20, <1>21, <1>22, Zenon DEF Relayed, Request

\* The inductive invariant.
ArgsInv ==
    /\ command \in {"send", "wait", "compact"} /\ argv \in Seq(Typable)
    /\ stage = "help" => TriggersHelp(argv)
    /\ stage \in {"asked", "acted"} => request \in Asked(command)
    /\ stage = "acted" /\ request.name.flag = Unset => acted = request

LEMMA ArgsInvStep == ArgsInv /\ [ArgsNext]_argsVars => ArgsInv'
<1> SUFFICES ASSUME ArgsInv, [ArgsNext]_argsVars PROVE ArgsInv'
  OBVIOUS
<1>1. CASE Type
  <2>1. argv' \in Seq(Typable)
    BY <1>1 DEF Type, ArgsInv
  <2> QED
    BY <1>1, <2>1 DEF Type, ArgsInv
<1>2. CASE RunCli
  <2>1. /\ UNCHANGED <<command, argv>> /\ stage' \in {"help", "asked", "refused"}
        /\ stage' = "help" => TriggersHelp(argv)
        /\ stage' = "asked" => request' = Request(command, argv) /\ request' # Refusal
    BY <1>2 DEF RunCli
  <2>2. ASSUME stage' = "asked" PROVE request' \in Asked(command)
    <3>1. Reading(command, argv) = Refusal \/ Reading(command, argv) \in Made(command)
      BY ReadIsMade DEF ArgsInv
    <3>2. Reading(command, argv) # Refusal
      BY <2>1, <2>2 DEF Request, Checked
    <3> QED
      BY <2>1, <2>2, <3>1, <3>2, CheckedIsAsked DEF Request, ArgsInv
  <2>3. TriggersHelp(argv) => TriggersHelp(argv')
    BY <2>1
  <2> QED
    BY <2>1, <2>2, <2>3 DEF ArgsInv
<1>3. CASE RunBody
  <2>1. UNCHANGED <<command, argv, request>> /\ stage = "asked" /\ stage' = "acted" /\ acted' = Relayed(command, request)
    BY <1>3 DEF RunBody
  <2>2. request.name.flag = Unset => acted' = request
    BY <2>1, RereadIsSame DEF ArgsInv
  <2> QED
    BY <2>1, <2>2 DEF ArgsInv
<1>4. CASE UNCHANGED argsVars
  <2>1. UNCHANGED <<command, argv, stage, request, acted>>
    BY <1>4 DEF argsVars
  <2>2. TriggersHelp(argv) => TriggersHelp(argv')
    BY <2>1
  <2> QED
    BY <2>1, <2>2 DEF ArgsInv
<1> QED
  BY <1>1, <1>2, <1>3, <1>4 DEF ArgsNext

\* Whatever a prompt looks like, `tm` sends it, and the second reading of the arguments comes
\* to the request of the first (cli/parse.ts, claude-engine.ts).
THEOREM DataStaysData == ArgsSpec => []PromptIsData
<1>1. ArgsInit => ArgsInv
  BY DEF ArgsInit, ArgsInv
<1>2. ArgsInv => PromptIsData
  <2> SUFFICES ASSUME ArgsInv PROVE PromptIsData
    OBVIOUS
  <2>1. ASSUME stage = "help"
        PROVE  \E i \in DOMAIN argv : argv[i] = Help /\ (i = 1 \/ argv[i - 1] # Flag("prompt"))
    <3>1. PICK i \in DOMAIN argv : argv[i] = Help /\ \A j \in 1..i - 1 : argv[j].flag \notin {Unset, "prompt"}
      BY <2>1 DEF ArgsInv, TriggersHelp
    <3>2. ASSUME i # 1 PROVE argv[i - 1] # Flag("prompt")
      <4>1. i - 1 \in 1..i - 1
        BY <3>2 DEF ArgsInv
      <4>2. Flag("prompt").flag = "prompt"
        BY DEF Flag, Argument
      <4> QED
        BY <3>1, <4>1, <4>2
    <3> QED
      BY <3>1, <3>2
  <2> QED
    BY <2>1 DEF ArgsInv, PromptIsData
<1> QED
  BY <1>1, <1>2, ArgsInvStep, PTL DEF ArgsSpec
=============================================================================
