-------------------------- MODULE ChunkRunnerProofs --------------------------
(***************************************************************************)
(* TLAPS proofs about the chunk queue, for any number of runners, chunks,  *)
(* starts, runs and reclaims.  First the lock of run_config.sh, which is   *)
(* exclusive: docker is never cleaned under a live harbor run.  Then what  *)
(* the queue leaves behind: what it pushed is complete, what it has not    *)
(* pushed can be made again, and what is pushed is not run again.  Last,   *)
(* that it implements the ledger of runs: what is pushed is only replaced  *)
(* by what is later.                                                       *)
(***************************************************************************)
EXTENDS ChunkRunnerInv, TLAPS

\* Nothing has started.
LEMMA InitLockInv == RunnerInit => LockInv
  BY QueueAssumption DEF RunnerInit, LockInv, Labels, Working, At

\* A runner that moves between two statements of which neither is "running",
\* without touching the lock or a harbor run, keeps the lock's invariant.
LEMMA MoveKept ==
  ASSUME LockInv, NEW r \in Runners, NEW label \in Labels, Goto(r, label),
         ~At(r, "running"), label \in Working => holder = r,
         UNCHANGED <<holder, live>>,
         \A s \in Runners \ {r} : todo'[s] = todo[s]
  PROVE  LockInv'
<1>1. pc' \in [Runners -> Labels] /\ holder' \in Runners \cup {NoRunner}
  BY DEF LockInv, Goto
<1>2. pc'[r] = label /\ \A s \in Runners \ {r} : pc'[s] = pc[s]
  BY DEF LockInv, Goto
<1>3. \A s \in Runners : pc'[s] \in Working => holder' = s
  BY <1>2 DEF LockInv
<1>4. ASSUME live' # {}, holder' \in Runners
      PROVE  At(holder, "running")' /\ live' = {Chunk(holder)'}
  <2>1. At(holder, "running") /\ live = {Chunk(holder)} /\ holder # r
    BY <1>4 DEF LockInv
  <2> QED
    BY <1>2, <1>4, <2>1 DEF At, Chunk
<1> QED
  BY <1>1, <1>3, <1>4 DEF LockInv

\* One runner's step.
LEMMA RunnerStepKept ==
  ASSUME LockInv, NEW r \in Runners, RunnerStep(r) PROVE LockInv'
<1> USE DEF At, Labels, Working
<1>1. CASE Launch(r)
  BY <1>1, MoveKept DEF Launch
<1>2. CASE AllDone(r)
  <2>1. pc' \in [Runners -> Labels] /\ pc'[r] = "off"
        /\ \A s \in Runners \ {r} : pc'[s] = pc[s]
    BY <1>2 DEF AllDone, LockInv, Goto
  <2>2. holder' \in Runners \cup {NoRunner}
    BY <1>2 DEF AllDone, LockInv
  <2>3. \A s \in Runners : pc'[s] \in Working => holder' = s
    BY <1>2, <2>1 DEF AllDone, LockInv
  <2>4. ASSUME live' # {}, holder' \in Runners
        PROVE  At(holder, "running")' /\ live' = {Chunk(holder)'}
    <3>1. holder' = holder /\ holder # r
      BY <1>2, <2>4, QueueAssumption DEF AllDone
    <3> QED
      BY <1>2, <2>1, <2>4, <3>1 DEF AllDone, LockInv, Chunk
  <2> QED
    BY <2>1, <2>2, <2>3, <2>4 DEF LockInv
<1>3. CASE SkipChunk(r)
  <2>1. Goto(r, "check")
    BY <1>3 DEF SkipChunk, LockInv, Goto
  <2>2. \A s \in Runners \ {r} : todo'[s] = todo[s]
    BY <1>3 DEF SkipChunk
  <2> QED
    BY <1>3, <2>1, <2>2, MoveKept DEF SkipChunk
<1>4. CASE TakeChunk(r)
  BY <1>4, MoveKept DEF TakeChunk
<1>5. CASE TakeLock(r)
  <2>1. holder # r => holder = NoRunner /\ live = {}
    BY <1>5 DEF TakeLock, LockFree
  <2>2. live = {}
    BY <1>5, <2>1 DEF TakeLock, LockInv
  <2>3. pc' \in [Runners -> Labels] /\ \A s \in Runners \ {r} : pc'[s] = pc[s]
    BY <1>5 DEF TakeLock, LockInv, Goto
  <2>4. \A s \in Runners \ {r} : pc[s] \notin Working
    BY <2>1, QueueAssumption DEF LockInv
  <2> QED
    BY <1>5, <2>2, <2>3, <2>4 DEF TakeLock, LockInv
<1>6. CASE LockRefused(r)
  BY <1>6, MoveKept DEF LockRefused
<1>7. CASE CleanDocker(r)
  <2>1. pc' \in [Runners -> Labels] /\ \A s \in Runners \ {r} : pc'[s] = pc[s]
    BY <1>7 DEF CleanDocker, LockInv, Goto
  <2> QED
    BY <1>7, <2>1 DEF CleanDocker, LockInv
<1>8. CASE StartHarbor(r)
  <2>1. pc' = [pc EXCEPT ![r] = "running"] /\ holder = r
    BY <1>8 DEF StartHarbor, LockInv, Goto
  <2>2. live = {}
    BY <1>8, <2>1 DEF StartHarbor, LockInv
  <2> QED
    BY <1>8, <2>1, <2>2 DEF StartHarbor, LockInv, Chunk
<1>9. CASE HarborEnds(r)
  <2>1. pc' = [pc EXCEPT ![r] = "collect"] /\ holder = r
    BY <1>9 DEF HarborEnds, LockInv, Goto
  <2>2. live' = {}
    BY <1>9, <2>1 DEF HarborEnds, LockInv
  <2> QED
    BY <1>9, <2>1, <2>2 DEF HarborEnds, LockInv
<1>10. CASE BeginCollect(r)
  BY <1>10, MoveKept DEF BeginCollect, LockInv
<1>11. CASE EndCollect(r)
  BY <1>11, MoveKept DEF EndCollect, LockInv
<1>12. CASE BeginArchive(r)
  BY <1>12, MoveKept DEF BeginArchive, LockInv
<1>13. CASE EndArchive(r)
  BY <1>13, MoveKept DEF EndArchive, LockInv
<1>14. CASE GitAdd(r)
  BY <1>14, MoveKept DEF GitAdd, LockInv
<1>15. CASE GitCommit(r)
  BY <1>15, MoveKept DEF GitCommit, LockInv
<1>16. CASE GitPush(r)
  BY <1>16, MoveKept DEF GitPush, LockInv
<1>17. CASE RemoveRunDir(r)
  BY <1>17, MoveKept DEF RemoveRunDir, LockInv
<1>18. CASE Stops(r)
  <2>1. pc' = [pc EXCEPT ![r] = "off"]
    BY <1>18 DEF Stops, Goto
  <2>2. holder' = (IF holder = r THEN NoRunner ELSE holder) /\ UNCHANGED todo
    BY <1>18 DEF Stops
  <2>3. \A s \in Runners : pc'[s] \in Working => holder' = s
    BY <2>1, <2>2 DEF LockInv
  <2>4. ASSUME live' # {}, holder' \in Runners
        PROVE  At(holder, "running")' /\ live' = {Chunk(holder)'}
    <3>1. holder' = holder /\ holder # r
      BY <2>2, <2>4, QueueAssumption
    <3>2. ~At(r, "running")
      BY <3>1 DEF LockInv
    <3>3. live' = live
      BY <1>18, <3>2 DEF Stops
    <3> QED
      BY <2>1, <2>2, <2>4, <3>1, <3>3 DEF LockInv, Chunk
  <2> QED
    BY <2>1, <2>2, <2>3, <2>4 DEF LockInv
<1> QED
  BY <1>1, <1>2, <1>3, <1>4, <1>5, <1>6, <1>7, <1>8, <1>9, <1>10, <1>11, <1>12, <1>13,
     <1>14, <1>15, <1>16, <1>17, <1>18 DEF RunnerStep

\* Every step keeps the lock's invariant.
LEMMA NextLockInv == LockInv /\ [RunnerNext]_runnerVars => LockInv'
<1> SUFFICES ASSUME LockInv, [RunnerNext]_runnerVars PROVE LockInv'
  OBVIOUS
<1>1. CASE \E r \in Runners : RunnerStep(r)
  BY <1>1, RunnerStepKept
<1>2. ASSUME NEW c \in Chunks, OrphanEnds(c) PROVE LockInv'
  <2>1. holder \in Runners => live = {}
    <3>1. SUFFICES ASSUME holder \in Runners, live # {} PROVE FALSE
      OBVIOUS
    <3>2. At(holder, "running") /\ live = {Chunk(holder)}
      BY <3>1 DEF LockInv
    <3> QED
      BY <1>2, <3>1, <3>2 DEF OrphanEnds
  <2> QED
    BY <1>2, <2>1 DEF OrphanEnds, LockInv
<1>3. CASE Reclaim
  BY <1>3 DEF Reclaim, LockInv, Labels, Working
<1>4. CASE RecoverReset
  BY <1>4 DEF RecoverReset, LockInv, At, Chunk
<1>5. CASE UNCHANGED runnerVars
  BY <1>5 DEF runnerVars, LockInv, At, Chunk
<1> QED
  BY <1>1, <1>2, <1>3, <1>4, <1>5 DEF RunnerNext

\* The lock's invariant holds of every queue, with any number of runners.
THEOREM LockHeld == RunnerSpec => []LockInv
<1> QED
  BY InitLockInv, NextLockInv, PTL DEF RunnerSpec

\* Docker is never cleaned under a live harbor run (run_config.sh:29-39).
THEOREM CleanCorrect == RunnerSpec => []NoCleanUnderRun
<1>1. LockInv => NoCleanUnderRun
  BY DEF LockInv, NoCleanUnderRun, At, Working
<1> QED
  BY <1>1, LockHeld, PTL

-----------------------------------------------------------------------------
(* Types *)

Versions == [Chunks -> Results]

\* Writing one of a chunk's files leaves its other file and the other chunks alone.
LEMMA FileWritten ==
  ASSUME NEW v \in Versions, NEW c, NEW file \in Content
  PROVE  /\ LET w == [v EXCEPT ![c].artifact = file]
            IN  /\ w \in Versions
                /\ c \in Chunks => w[c].artifact = file /\ w[c].events = v[c].events
                /\ \A d \in Chunks \ {c} : w[d] = v[d]
         /\ LET w == [v EXCEPT ![c].events = file]
            IN  /\ w \in Versions
                /\ c \in Chunks => w[c].events = file /\ w[c].artifact = v[c].artifact
                /\ \A d \in Chunks \ {c} : w[d] = v[d]
  BY DEF Versions, Results

\* ChunkTypeOK, variable by variable.
LEMMA QueueTypes ==
  ASSUME QueueInv
  PROVE  /\ pc \in [Runners -> Labels] /\ todo \in [Runners -> Seq(Chunks)]
         /\ \A r \in Runners : pc[r] \in Working => todo[r] # <<>>
         /\ holder \in {r \in Runners : pc[r] # "off"} \cup {NoRunner}
         /\ live \subseteq Chunks
         /\ runDir \in [Chunks -> 0..MaxRuns]
         /\ tree \in Versions /\ index \in Versions /\ head \in Versions /\ origin \in Versions
         /\ synced \in BOOLEAN
         /\ nRuns \in 0..MaxRuns /\ nLaunches \in 0..MaxLaunches /\ nResets \in 0..MaxResets
  BY DEF QueueInv, ChunkTypeOK, Versions

\* A runner past its flock works on a chunk, and no other runner does.
LEMMA WorkingRunner ==
  ASSUME QueueInv, NEW r \in Runners, pc[r] \in Working
  PROVE  /\ holder = r /\ Chunk(r) \in Chunks /\ Tail(todo[r]) \in Seq(Chunks)
         /\ \A s \in Runners \ {r} : pc[s] \notin Working
<1>1. holder = r /\ \A s \in Runners \ {r} : pc[s] \notin Working
  BY DEF QueueInv, LockInv
<1>2. todo[r] \in Seq(Chunks) /\ todo[r] # <<>>
  BY QueueTypes
<1> QED
  BY <1>1, <1>2 DEF Chunk

\* A runner that moves on with its chunks and the lock as they are.
LEMMA MoveTypes ==
  ASSUME QueueInv, NEW r \in Runners, NEW label \in Labels \ {"off"},
         pc' = [pc EXCEPT ![r] = label], UNCHANGED <<todo, holder>>,
         pc[r] # "off", label \in Working => todo[r] # <<>>
  PROVE  /\ pc' \in [Runners -> Labels] /\ todo' \in [Runners -> Seq(Chunks)]
         /\ \A s \in Runners : pc'[s] \in Working => todo'[s] # <<>>
         /\ holder' \in {s \in Runners : pc'[s] # "off"} \cup {NoRunner}
<1>1. pc \in [Runners -> Labels] /\ todo \in [Runners -> Seq(Chunks)]
  BY QueueTypes
<1>2. pc'[r] = label /\ \A s \in Runners \ {r} : pc'[s] = pc[s]
  BY <1>1
<1> QED
  BY <1>1, <1>2, QueueTypes

\* Every step of a runner keeps where the runners stand.
LEMMA RunnerTypes ==
  ASSUME QueueInv, NEW r \in Runners, RunnerStep(r)
  PROVE  /\ pc' \in [Runners -> Labels] /\ todo' \in [Runners -> Seq(Chunks)]
         /\ \A s \in Runners : pc'[s] \in Working => todo'[s] # <<>>
         /\ holder' \in {s \in Runners : pc'[s] # "off"} \cup {NoRunner}
<1>a. /\ pc \in [Runners -> Labels] /\ todo \in [Runners -> Seq(Chunks)]
      /\ \A s \in Runners : pc[s] \in Working => todo[s] # <<>>
      /\ holder \in {s \in Runners : pc[s] # "off"} \cup {NoRunner}
  BY QueueTypes
<1> USE DEF At, Goto, Labels, Working
<1>1. CASE Launch(r)
  <2>1. Queue[r] \in Seq(Chunks)
    BY QueueAssumption
  <2> QED
    BY <1>a, <1>1, <2>1 DEF Launch
<1>2. CASE AllDone(r)
  BY <1>a, <1>2 DEF AllDone
<1>3. CASE SkipChunk(r)
  <2>1. Tail(todo[r]) \in Seq(Chunks)
    BY <1>a, <1>3 DEF SkipChunk
  <2> QED
    BY <1>a, <1>3, <2>1 DEF SkipChunk
<1>4. CASE TakeChunk(r)
  BY <1>4, MoveTypes DEF TakeChunk
<1>5. CASE TakeLock(r)
  <2>1. todo[r] # <<>>
    BY <1>5 DEF TakeLock, QueueInv, RunnerInv
  <2> QED
    BY <1>a, <1>5, <2>1 DEF TakeLock
<1>6. CASE LockRefused(r)
  BY <1>a, <1>6 DEF LockRefused
<1>7. CASE CleanDocker(r)
  BY <1>a, <1>7, MoveTypes DEF CleanDocker
<1>8. CASE StartHarbor(r)
  BY <1>a, <1>8, MoveTypes DEF StartHarbor
<1>9. CASE HarborEnds(r)
  BY <1>a, <1>9, MoveTypes DEF HarborEnds
<1>10. CASE BeginCollect(r)
  BY <1>a, <1>10, MoveTypes DEF BeginCollect
<1>11. CASE EndCollect(r)
  BY <1>a, <1>11, MoveTypes DEF EndCollect
<1>12. CASE BeginArchive(r)
  BY <1>a, <1>12, MoveTypes DEF BeginArchive
<1>13. CASE EndArchive(r)
  BY <1>a, <1>13, MoveTypes DEF EndArchive
<1>14. CASE GitAdd(r)
  BY <1>a, <1>14, MoveTypes DEF GitAdd
<1>15. CASE GitCommit(r)
  BY <1>a, <1>15, MoveTypes DEF GitCommit
<1>16. CASE GitPush(r)
  BY <1>a, <1>16, MoveTypes DEF GitPush
<1>17. CASE RemoveRunDir(r)
  <2>1. Tail(todo[r]) \in Seq(Chunks)
    BY <1>17, WorkingRunner DEF RemoveRunDir
  <2> QED
    BY <1>a, <1>17, <2>1 DEF RemoveRunDir
<1>18. CASE Stops(r)
  BY <1>a, <1>18 DEF Stops
<1> QED
  BY <1>1, <1>2, <1>3, <1>4, <1>5, <1>6, <1>7, <1>8, <1>9, <1>10, <1>11, <1>12, <1>13,
     <1>14, <1>15, <1>16, <1>17, <1>18 DEF RunnerStep

\* Every step of a runner keeps the types of everything.
LEMMA QueueTypesStep == ASSUME QueueInv, NEW r \in Runners, RunnerStep(r) PROVE ChunkTypeOK'
<1>a. /\ pc \in [Runners -> Labels] /\ live \subseteq Chunks
      /\ runDir \in [Chunks -> 0..MaxRuns]
      /\ tree \in Versions /\ index \in Versions /\ head \in Versions /\ origin \in Versions
      /\ synced \in BOOLEAN
      /\ nRuns \in 0..MaxRuns /\ nLaunches \in 0..MaxLaunches /\ nResets \in 0..MaxResets
  BY QueueTypes
<1>b. pc[r] \in Working => Chunk(r) \in Chunks
  BY WorkingRunner
<1> DEFINE Rest == /\ live' \subseteq Chunks
                   /\ runDir' \in [Chunks -> 0..MaxRuns]
                   /\ tree' \in Versions /\ index' \in Versions
                   /\ head' \in Versions /\ origin' \in Versions
                   /\ synced' \in BOOLEAN
                   /\ nRuns' \in 0..MaxRuns /\ nLaunches' \in 0..MaxLaunches
                   /\ nResets' \in 0..MaxResets
<1>c. Rest => ChunkTypeOK'
  BY RunnerTypes DEF ChunkTypeOK, Versions
<1> SUFFICES Rest
  BY <1>c
<1>1. CASE UNCHANGED <<runDir, repoVars, nRuns, nResets>> /\ live' \subseteq live
           /\ nLaunches' \in 0..MaxLaunches
  BY <1>a, <1>1 DEF repoVars
<1>2. CASE StartHarbor(r)
  BY <1>a, <1>b, <1>2, BoundsAssumption DEF StartHarbor, At, Working, repoVars
<1>3. CASE BeginCollect(r) \/ EndCollect(r) \/ BeginArchive(r) \/ EndArchive(r)
  <2>1. /\ pc[r] \in Working
        /\ UNCHANGED <<live, runDir, index, head, origin, synced, boundVars>>
        /\ \E whole \in BOOLEAN :
             LET file == [run |-> runDir[Chunk(r)], whole |-> whole]
             IN  \/ tree' = [tree EXCEPT ![Chunk(r)].artifact = file]
                 \/ tree' = [tree EXCEPT ![Chunk(r)].events = file]
    BY <1>3 DEF BeginCollect, EndCollect, BeginArchive, EndArchive, At, Working
  <2>2. PICK whole \in BOOLEAN :
          LET file == [run |-> runDir[Chunk(r)], whole |-> whole]
          IN  \/ tree' = [tree EXCEPT ![Chunk(r)].artifact = file]
              \/ tree' = [tree EXCEPT ![Chunk(r)].events = file]
    BY <2>1
  <2> DEFINE file == [run |-> runDir[Chunk(r)], whole |-> whole]
  <2>3. file \in Content
    BY <1>a, <1>b, <2>1 DEF Content
  <2>4. tree' \in Versions
    <3>1. CASE tree' = [tree EXCEPT ![Chunk(r)].artifact = file]
      BY <1>a, <2>3, <3>1, FileWritten
    <3>2. CASE tree' = [tree EXCEPT ![Chunk(r)].events = file]
      BY <1>a, <2>3, <3>2, FileWritten
    <3> QED
      BY <2>2, <3>1, <3>2
  <2> QED
    BY <1>a, <2>1, <2>4 DEF boundVars
<1>4. CASE GitAdd(r)
  BY <1>a, <1>b, <1>4 DEF GitAdd, Versions, At, Working, boundVars
<1>5. CASE GitCommit(r) \/ GitPush(r)
  BY <1>a, <1>5 DEF GitCommit, GitPush, boundVars
<1>6. CASE RemoveRunDir(r)
  BY <1>a, <1>b, <1>6, BoundsAssumption
  DEF RemoveRunDir, At, Working, repoVars, boundVars
<1>7. CASE Launch(r)
  BY <1>a, <1>7, <1>1, BoundsAssumption DEF Launch
<1>8. CASE \/ AllDone(r) \/ SkipChunk(r) \/ TakeChunk(r) \/ TakeLock(r) \/ LockRefused(r)
           \/ CleanDocker(r) \/ HarborEnds(r) \/ Stops(r)
  <2>1. UNCHANGED <<runDir, repoVars, boundVars>> /\ live' \subseteq live
    BY <1>8 DEF AllDone, SkipChunk, TakeChunk, TakeLock, LockRefused, CleanDocker,
       HarborEnds, Stops
  <2> QED
    BY <1>a, <1>1, <2>1 DEF boundVars
<1> QED
  BY <1>2, <1>3, <1>4, <1>5, <1>6, <1>7, <1>8 DEF RunnerStep

-----------------------------------------------------------------------------
(* Chunks *)

\* While a runner past its flock moves on, the others stand where they stood.
LEMMA OthersKept ==
  ASSUME QueueInv, NEW r \in Runners, pc[r] \in Working, NEW label \in Labels,
         pc' = [pc EXCEPT ![r] = label], UNCHANGED <<holder, synced>>,
         \A s \in Runners \ {r} : todo'[s] = todo[s]
  PROVE  \A s \in Runners \ {r} : StageInv(s)' /\ RunnerInv(s)'
<1> TAKE s \in Runners \ {r}
<1>1. pc'[s] = pc[s] /\ pc[s] \notin Working /\ holder # s
  BY QueueTypes, WorkingRunner
<1>2. StageInv(s)'
  BY <1>1 DEF StageInv, Working
<1>3. RunnerInv(s)'
  BY <1>1 DEF QueueInv, RunnerInv, At
<1> QED
  BY <1>2, <1>3

\* A runner that only moves, to a statement before its harbor run or to its end.
LEMMA RunnerMoves ==
  ASSUME QueueInv, NEW r \in Runners, NEW label \in {"off", "check", "lock", "clean", "harbor"},
         pc' = [pc EXCEPT ![r] = label], UNCHANGED <<runDir, repoVars, nRuns>>,
         \A s \in Runners \ {r} : todo'[s] = todo[s] /\ (holder' = s => holder = s),
         label # "off" => synced,
         label = "lock" => /\ todo'[r] # <<>>
                           /\ holder' = r => ~Exists(origin[Head(todo'[r])].artifact)
  PROVE  /\ \A c \in Chunks : ChunkInv(c)'
         /\ \A s \in Runners : StageInv(s)' /\ RunnerInv(s)'
<1>1. pc'[r] = label /\ \A s \in Runners \ {r} : pc'[s] = pc[s]
  BY QueueTypes
<1>2. \A c \in Chunks : ChunkInv(c)'
  BY DEF QueueInv, ChunkInv, Committals, repoVars
<1>3. StageInv(r)'
  BY <1>1 DEF StageInv, Working
<1>4. RunnerInv(r)'
  BY <1>1 DEF RunnerInv, At, Chunk, repoVars
<1>5. ASSUME NEW s \in Runners \ {r} PROVE StageInv(s)' /\ RunnerInv(s)'
  <2>1. UNCHANGED <<runDir, tree, index, head, origin, synced>> /\ Chunk(s)' = Chunk(s)
        /\ pc'[s] = pc[s] /\ todo'[s] = todo[s] /\ (holder' = s => holder = s)
    BY <1>1, <1>5 DEF repoVars, Chunk
  <2>2. StageInv(s) /\ RunnerInv(s)
    BY DEF QueueInv
  <2>3. StageInv(s)'
    BY <2>1, <2>2 DEF StageInv, Committals
  <2>4. RunnerInv(s)'
    BY <2>1, <2>2 DEF RunnerInv, At
  <2> QED
    BY <2>3, <2>4
<1> QED
  BY <1>2, <1>3, <1>4, <1>5

\* The statements of a runner that touch no file, but for the end of its run.
LEMMA QuietMoves ==
  ASSUME QueueInv, NEW r \in Runners,
         \/ Launch(r) \/ AllDone(r) \/ SkipChunk(r) \/ TakeChunk(r) \/ TakeLock(r)
         \/ LockRefused(r) \/ CleanDocker(r) \/ Stops(r)
  PROVE  /\ \A c \in Chunks : ChunkInv(c)'
         /\ \A s \in Runners : StageInv(s)' /\ RunnerInv(s)'
<1>a. pc \in [Runners -> Labels] /\ todo \in [Runners -> Seq(Chunks)] /\ NoRunner \notin Runners
  BY QueueTypes, QueueAssumption
<1>b. pc[r] # "off" => synced
  BY DEF QueueInv, RunnerInv
<1> USE DEF At, Goto
<1>1. CASE Launch(r)
  BY <1>a, <1>1, RunnerMoves DEF Launch, boundVars
<1>2. CASE AllDone(r)
  BY <1>a, <1>2, RunnerMoves DEF AllDone, boundVars
<1>3. CASE SkipChunk(r)
  <2>1. pc' = [pc EXCEPT ![r] = "check"] /\ \A s \in Runners \ {r} : todo'[s] = todo[s]
    BY <1>a, <1>3 DEF SkipChunk
  <2>2. UNCHANGED <<runDir, repoVars, nRuns, holder>> /\ pc[r] # "off"
    BY <1>3 DEF SkipChunk, boundVars
  <2> QED
    BY <1>b, <2>1, <2>2, RunnerMoves
<1>4. CASE TakeChunk(r)
  <2>1. /\ pc[r] # "off" /\ todo[r] # <<>> /\ ~Exists(tree[Chunk(r)].artifact)
        /\ pc' = [pc EXCEPT ![r] = "lock"] /\ UNCHANGED <<todo, holder, runDir, repoVars, nRuns>>
    BY <1>4 DEF TakeChunk, boundVars
  <2>2. Chunk(r) \in Chunks
    BY <1>a, <2>1 DEF Chunk
  <2>3. ~Exists(origin[Chunk(r)].artifact)
    BY <1>b, <2>1, <2>2 DEF QueueInv, ChunkInv, Committals
  <2> QED
    BY <1>b, <2>1, <2>3, RunnerMoves DEF Chunk
<1>5. CASE TakeLock(r)
  BY <1>a, <1>b, <1>5, RunnerMoves DEF TakeLock, boundVars
<1>6. CASE LockRefused(r)
  BY <1>a, <1>b, <1>6, RunnerMoves DEF LockRefused, boundVars
<1>7. CASE CleanDocker(r)
  BY <1>a, <1>b, <1>7, RunnerMoves DEF CleanDocker, boundVars
<1>8. CASE Stops(r)
  BY <1>a, <1>b, <1>8, RunnerMoves DEF Stops, boundVars
<1> QED
  BY <1>1, <1>2, <1>3, <1>4, <1>5, <1>6, <1>7, <1>8

\* What a chunk's run directory and files hold, as numbers.
LEMMA ChunkTypes ==
  ASSUME QueueInv, NEW c \in Chunks
  PROVE  /\ runDir[c] \in Nat /\ runDir[c] \in 0..MaxRuns /\ nRuns \in Nat
         /\ \A v \in {tree[c], index[c], head[c], origin[c]} :
              /\ v \in Results /\ v.artifact \in Content /\ v.events \in Content
              /\ v.artifact.run \in Nat /\ v.events.run \in Nat
<1>1. /\ runDir[c] \in 0..MaxRuns /\ nRuns \in 0..MaxRuns
      /\ \A v \in {tree[c], index[c], head[c], origin[c]} : v \in Results
  BY QueueTypes DEF Versions
<1>2. \A v \in Results : /\ v.artifact \in Content /\ v.events \in Content
                         /\ v.artifact.run \in Nat /\ v.events.run \in Nat
  BY BoundsAssumption DEF Results, Content
<1> QED
  BY <1>1, <1>2, BoundsAssumption

\* What is left to show of a statement past the flock.
LEMMA WorkingMoves ==
  ASSUME QueueInv, NEW r \in Runners, pc[r] \in Working,
         NEW label \in Labels \ {"off", "lock"}, pc' = [pc EXCEPT ![r] = label],
         UNCHANGED <<holder, synced>>, \A s \in Runners \ {r} : todo'[s] = todo[s],
         StageInv(r)', \A c \in Chunks : ChunkInv(c)'
  PROVE  /\ \A c \in Chunks : ChunkInv(c)'
         /\ \A s \in Runners : StageInv(s)' /\ RunnerInv(s)'
<1>1. pc'[r] = label /\ pc[r] # "off"
  BY QueueTypes DEF Working
<1>2. RunnerInv(r)'
  BY <1>1 DEF QueueInv, RunnerInv, At
<1> QED
  BY <1>2, OthersKept

\* The harbor run: a new run directory, and the end of the run.
LEMMA HarborMoves ==
  ASSUME QueueInv, NEW r \in Runners, StartHarbor(r) \/ HarborEnds(r)
  PROVE  /\ \A c \in Chunks : ChunkInv(c)'
         /\ \A s \in Runners : StageInv(s)' /\ RunnerInv(s)'
<1> DEFINE c == Chunk(r)
<1>1. CASE StartHarbor(r)
  <2>1. /\ pc[r] \in Working /\ pc' = [pc EXCEPT ![r] = "running"]
        /\ UNCHANGED <<todo, holder, tree, index, head, origin, synced>>
        /\ nRuns' = nRuns + 1 /\ runDir' = [runDir EXCEPT ![c] = nRuns + 1]
    BY <1>1 DEF StartHarbor, At, Goto, Working, repoVars
  <2>2. /\ c \in Chunks /\ pc'[r] = "running" /\ nRuns \in Nat
        /\ runDir'[c] = nRuns + 1 /\ \A d \in Chunks \ {c} : runDir'[d] = runDir[d]
    BY <2>1, WorkingRunner, QueueTypes, BoundsAssumption
  <2>3. ASSUME NEW d \in Chunks PROVE ChunkInv(d)'
    <3>1. ChunkInv(d) /\ (runDir'[d] = runDir[d] \/ runDir'[d] = nRuns + 1)
      BY <2>2 DEF QueueInv
    <3> QED
      BY <2>1, <2>2, <3>1, ChunkTypes DEF ChunkInv, Committals
  <2>4. StageInv(r)'
    <3>1. /\ \A v \in Committals(c) \cup {tree[c]} : v.artifact.run <= nRuns
          /\ Committals(c)' = Committals(c) /\ Chunk(r)' = c
      BY <2>1, <2>2 DEF QueueInv, ChunkInv, Committals, Chunk
    <3>2. \A v \in Committals(c) \cup {tree[c]} : v.artifact.run <= nRuns + 1
      BY <2>2, <3>1, ChunkTypes DEF Committals
    <3> QED
      BY <2>1, <2>2, <3>1, <3>2 DEF StageInv, Committals
  <2> QED
    BY <2>1, <2>3, <2>4, WorkingMoves DEF Labels, Working
<1>2. CASE HarborEnds(r)
  <2>1. /\ pc[r] = "running" /\ pc' = [pc EXCEPT ![r] = "collect"]
        /\ UNCHANGED <<todo, holder, runDir, tree, index, head, origin, synced, nRuns>>
    BY <1>2 DEF HarborEnds, At, Goto, repoVars, boundVars
  <2>2. pc'[r] = "collect" /\ pc[r] \in Working
    BY <2>1, QueueTypes DEF Working
  <2>3. \A d \in Chunks : ChunkInv(d)'
    BY <2>1 DEF QueueInv, ChunkInv, Committals
  <2>4. StageInv(r)'
    BY <2>1, <2>2 DEF QueueInv, StageInv, Committals, Chunk, Working
  <2> QED
    BY <2>1, <2>2, <2>3, <2>4, WorkingMoves DEF Labels, Working
<1> QED
  BY <1>1, <1>2

\* The artifact is emptied and filled, the event stores are archived.
LEMMA FileMoves ==
  ASSUME QueueInv, NEW r \in Runners,
         BeginCollect(r) \/ EndCollect(r) \/ BeginArchive(r) \/ EndArchive(r)
  PROVE  /\ \A c \in Chunks : ChunkInv(c)'
         /\ \A s \in Runners : StageInv(s)' /\ RunnerInv(s)'
<1> DEFINE c == Chunk(r)
           file(whole) == [run |-> runDir[c], whole |-> whole]
<1>a. /\ pc[r] \in Working
      /\ UNCHANGED <<todo, holder, runDir, index, head, origin, synced, nRuns>>
  BY DEF BeginCollect, EndCollect, BeginArchive, EndArchive, At, Working, boundVars
<1>b. /\ c \in Chunks /\ ChunkInv(c) /\ StageInv(r) /\ Chunk(r)' = c
      /\ \A whole \in BOOLEAN : file(whole) \in Content
  <2>1. c \in Chunks
    BY <1>a, WorkingRunner
  <2>2. \A whole \in BOOLEAN : file(whole) \in Content
    BY <2>1, ChunkTypes DEF Content
  <2> QED
    BY <1>a, <2>1, <2>2 DEF QueueInv, Chunk
<1>c. /\ runDir[c] # 0 /\ \A v \in Committals(c) \cup {tree[c]} : v.artifact.run <= runDir[c]
  BY <1>b DEF StageInv, Working, BeginCollect, EndCollect, BeginArchive, EndArchive, At
<1>d. tree \in Versions /\ pc \in [Runners -> Labels]
  BY QueueTypes
<1>1. ASSUME NEW whole \in BOOLEAN, tree' = [tree EXCEPT ![c].artifact = file(whole)]
      PROVE  /\ \A d \in Chunks : ChunkInv(d)'
             /\ tree'[c].artifact = file(whole) /\ tree'[c].events = tree[c].events
  <2>1. /\ tree'[c].artifact = file(whole) /\ tree'[c].events = tree[c].events
        /\ \A d \in Chunks \ {c} : tree'[d] = tree[d]
    BY <1>b, <1>d, <1>1, FileWritten
  <2>2. ChunkInv(c)'
    BY <1>a, <1>b, <1>c, <2>1, ChunkTypes DEF ChunkInv, Committals, Exists
  <2>3. \A d \in Chunks \ {c} : ChunkInv(d)'
    BY <1>a, <2>1 DEF QueueInv, ChunkInv, Committals
  <2> QED
    BY <1>b, <2>1, <2>2, <2>3
<1>2. ASSUME NEW whole \in BOOLEAN, tree' = [tree EXCEPT ![c].events = file(whole)]
      PROVE  /\ \A d \in Chunks : ChunkInv(d)'
             /\ tree'[c].events = file(whole) /\ tree'[c].artifact = tree[c].artifact
  <2>1. /\ tree'[c].events = file(whole) /\ tree'[c].artifact = tree[c].artifact
        /\ \A d \in Chunks \ {c} : tree'[d] = tree[d]
    BY <1>b, <1>d, <1>2, FileWritten
  <2>2. \A d \in Chunks : tree'[d].artifact = tree[d].artifact
    BY <2>1
  <2>3. \A d \in Chunks : ChunkInv(d)'
    BY <1>a, <2>2 DEF QueueInv, ChunkInv, Committals
  <2> QED
    BY <2>1, <2>3
<1> HIDE DEF file
<1>e. /\ \A whole : file(whole).run = runDir[c] /\ file(whole).whole = whole
      /\ TRUE \in BOOLEAN /\ FALSE \in BOOLEAN
  BY DEF file
<1>3. CASE BeginCollect(r)
  <2>1. /\ pc' = [pc EXCEPT ![r] = "collecting"] /\ pc'[r] = "collecting"
        /\ tree' = [tree EXCEPT ![c].artifact = file(FALSE)]
    BY <1>d, <1>3 DEF BeginCollect, Goto, file
  <2>2. /\ \A d \in Chunks : ChunkInv(d)'
        /\ tree'[c].artifact.run = runDir[c] /\ tree'[c].artifact.whole = FALSE
    BY <1>1, <1>e, <2>1
  <2>3. \A v \in Committals(c) \cup {tree'[c]} : v.artifact.run <= runDir[c]
    BY <1>b, <1>c, <2>2, ChunkTypes
  <2>4. StageInv(r)'
    BY <1>a, <1>b, <1>c, <2>1, <2>2, <2>3 DEF StageInv, Committals
  <2> QED
    BY <1>a, <2>1, <2>2, <2>4, WorkingMoves DEF Labels, Working
<1>4. CASE EndCollect(r)
  <2>1. /\ pc' = [pc EXCEPT ![r] = "archive"] /\ pc'[r] = "archive"
        /\ tree' = [tree EXCEPT ![c].artifact = file(TRUE)]
    BY <1>d, <1>4 DEF EndCollect, Goto, file
  <2>2. /\ \A d \in Chunks : ChunkInv(d)'
        /\ tree'[c].artifact.run = runDir[c] /\ tree'[c].artifact.whole = TRUE
    BY <1>1, <1>e, <2>1
  <2>3. \A v \in Committals(c) \cup {tree'[c]} : v.artifact.run <= runDir[c]
    BY <1>b, <1>c, <2>2, ChunkTypes
  <2>4. StageInv(r)'
    BY <1>a, <1>b, <1>c, <2>1, <2>2, <2>3 DEF StageInv, Committals
  <2> QED
    BY <1>a, <2>1, <2>2, <2>4, WorkingMoves DEF Labels, Working
<1>5. CASE BeginArchive(r)
  <2>1. /\ pc[r] = "archive" /\ pc' = [pc EXCEPT ![r] = "archiving"] /\ pc'[r] = "archiving"
        /\ tree' = [tree EXCEPT ![c].events = file(FALSE)]
    BY <1>d, <1>5 DEF BeginArchive, At, Goto, file
  <2>2. (\A d \in Chunks : ChunkInv(d)') /\ tree'[c].artifact = tree[c].artifact
    BY <1>2, <1>e, <2>1
  <2>3. StageInv(r)'
    BY <1>a, <1>b, <1>c, <2>1, <2>2 DEF StageInv, Committals
  <2> QED
    BY <1>a, <2>1, <2>2, <2>3, WorkingMoves DEF Labels, Working
<1>6. CASE EndArchive(r)
  <2>1. /\ pc[r] = "archiving" /\ pc' = [pc EXCEPT ![r] = "add"] /\ pc'[r] = "add"
        /\ tree' = [tree EXCEPT ![c].events = file(TRUE)]
    BY <1>d, <1>6 DEF EndArchive, At, Goto, file
  <2>2. /\ \A d \in Chunks : ChunkInv(d)'
        /\ tree'[c].events.run = runDir[c] /\ tree'[c].events.whole = TRUE
        /\ tree'[c].artifact = tree[c].artifact
    BY <1>2, <1>e, <2>1
  <2>3. Exists(tree[c].artifact) => tree[c].artifact.whole
    BY <1>b, <2>1 DEF StageInv
  <2>4. tree'[c].artifact.run <= tree'[c].events.run
    BY <1>c, <2>2
  <2>5. Exists(tree'[c].artifact) => Complete(tree'[c])
    BY <2>2, <2>3, <2>4 DEF Complete
  <2>6. \A v \in Committals(c) \cup {tree'[c]} : v.artifact.run <= runDir[c]
    BY <1>c, <2>2
  <2>7. StageInv(r)'
    BY <1>a, <1>b, <1>c, <2>1, <2>5, <2>6 DEF StageInv, Committals
  <2> QED
    BY <1>a, <2>1, <2>2, <2>7, WorkingMoves DEF Labels, Working
<1> QED
  BY <1>3, <1>4, <1>5, <1>6

\* The two files are added to the index.
LEMMA AddMove ==
  ASSUME QueueInv, NEW r \in Runners, GitAdd(r)
  PROVE  /\ \A c \in Chunks : ChunkInv(c)'
         /\ \A s \in Runners : StageInv(s)' /\ RunnerInv(s)'
<1> DEFINE c == Chunk(r)
<1>1. /\ pc[r] = "add" /\ pc[r] \in Working /\ pc' = [pc EXCEPT ![r] = "commit"]
      /\ Exists(tree[c].artifact) /\ Exists(tree[c].events)
      /\ index' = [index EXCEPT ![c] = tree[c]]
      /\ UNCHANGED <<todo, holder, runDir, tree, head, origin, synced, nRuns>>
  BY DEF GitAdd, At, Goto, Working, boundVars
<1>2. c \in Chunks /\ ChunkInv(c) /\ StageInv(r) /\ Chunk(r)' = c
  BY <1>1, WorkingRunner DEF QueueInv, Chunk
<1>3. /\ pc'[r] = "commit" /\ index'[c] = tree[c]
      /\ \A d \in Chunks \ {c} : index'[d] = index[d]
  BY <1>1, <1>2, QueueTypes DEF Versions
<1>4. Complete(tree[c]) /\ runDir[c] # 0
  BY <1>1, <1>2 DEF StageInv, Working
<1>5. \A v \in Committals(c) \cup {tree[c]} : v.artifact.run <= runDir[c]
  BY <1>1, <1>2 DEF StageInv, Working
<1>6. ASSUME NEW d \in Chunks PROVE ChunkInv(d)'
  <2>1. CASE d # c
    BY <1>1, <1>3, <2>1 DEF QueueInv, ChunkInv, Committals
  <2>2. CASE d = c
    <3>1. ChunkInv(d)
      BY DEF QueueInv
    <3> QED
      BY <1>1, <1>3, <1>4, <2>2, <3>1 DEF ChunkInv, Committals, Committed
  <2> QED
    BY <2>1, <2>2
<1>7. StageInv(r)'
  BY <1>1, <1>2, <1>3, <1>4, <1>5 DEF StageInv, Committals
<1> QED
  BY <1>1, <1>6, <1>7, WorkingMoves DEF Labels, Working

\* The index is committed, the commits are pushed, the run directory removed.
LEMMA GitMoves ==
  ASSUME QueueInv, NEW r \in Runners, GitCommit(r) \/ GitPush(r) \/ RemoveRunDir(r)
  PROVE  /\ \A c \in Chunks : ChunkInv(c)'
         /\ \A s \in Runners : StageInv(s)' /\ RunnerInv(s)'
<1> DEFINE c == Chunk(r)
<1>a. /\ pc[r] \in Working /\ pc \in [Runners -> Labels]
      /\ UNCHANGED <<holder, tree, index, synced, nRuns>>
  BY QueueTypes DEF GitCommit, GitPush, RemoveRunDir, At, Working, boundVars, repoVars
<1>b. c \in Chunks /\ StageInv(r) /\ runDir[c] # 0
  BY <1>a, WorkingRunner
  DEF QueueInv, StageInv, GitCommit, GitPush, RemoveRunDir, At, Working
<1>c. \A v \in Committals(c) \cup {tree[c]} : v.artifact.run <= runDir[c]
  BY <1>a, <1>b DEF StageInv, GitCommit, GitPush, RemoveRunDir, At, Working
<1>d. \A d \in Chunks : ChunkInv(d)
  BY DEF QueueInv
<1>1. CASE GitCommit(r)
  <2>1. /\ pc[r] = "commit" /\ pc' = [pc EXCEPT ![r] = "push"] /\ pc'[r] = "push"
        /\ head' = index /\ UNCHANGED <<todo, runDir, origin>> /\ Chunk(r)' = c
    BY <1>a, <1>1 DEF GitCommit, At, Goto, Chunk
  <2>2. \A d \in Chunks : ChunkInv(d)'
    BY <1>a, <1>d, <2>1 DEF ChunkInv, Committals
  <2>3. tree[c].artifact = index[c].artifact
    BY <1>b, <2>1 DEF StageInv
  <2>4. StageInv(r)'
    BY <1>a, <1>b, <1>c, <2>1, <2>3 DEF StageInv, Committals
  <2> QED
    BY <1>a, <2>1, <2>2, <2>4, WorkingMoves DEF Labels, Working
<1>2. CASE GitPush(r)
  <2>1. /\ pc[r] = "push" /\ pc' = [pc EXCEPT ![r] = "remove"] /\ pc'[r] = "remove"
        /\ origin' = head /\ UNCHANGED <<todo, runDir, head>> /\ Chunk(r)' = c
    BY <1>a, <1>2 DEF GitPush, At, Goto, Chunk
  <2>2. \A d \in Chunks : ChunkInv(d)'
    BY <1>a, <1>d, <2>1 DEF ChunkInv, Committals
  <2>3. tree[c].artifact = index[c].artifact /\ tree[c].artifact = head[c].artifact
    BY <1>b, <2>1 DEF StageInv
  <2>4. StageInv(r)'
    BY <1>a, <1>b, <1>c, <2>1, <2>3 DEF StageInv, Committals
  <2> QED
    BY <1>a, <2>1, <2>2, <2>4, WorkingMoves DEF Labels, Working
<1>3. CASE RemoveRunDir(r)
  <2>1. /\ pc[r] = "remove" /\ pc' = [pc EXCEPT ![r] = "check"] /\ pc'[r] = "check"
        /\ runDir' = [runDir EXCEPT ![c] = 0] /\ UNCHANGED <<head, origin>>
        /\ \A s \in Runners \ {r} : todo'[s] = todo[s]
    BY <1>a, <1>3, QueueTypes DEF RemoveRunDir, At, Goto, repoVars
  <2>2. /\ tree[c].artifact = index[c].artifact /\ tree[c].artifact = head[c].artifact
        /\ tree[c].artifact = origin[c].artifact
    BY <1>b, <2>1 DEF StageInv
  <2>3. ASSUME NEW d \in Chunks PROVE ChunkInv(d)'
    <3>1. CASE d = c
      <4>1. runDir'[d] = 0 /\ nRuns \in Nat
        BY <1>b, <2>1, <3>1, QueueTypes, BoundsAssumption
      <4>2. \A v \in Committals(d) : tree[d].artifact = v.artifact
        BY <2>2, <3>1 DEF Committals
      <4> QED
        BY <1>a, <1>d, <2>1, <4>1, <4>2 DEF ChunkInv, Committals
    <3>2. CASE d # c
      <4>1. runDir'[d] = runDir[d]
        BY <2>1, <3>2, QueueTypes
      <4> QED
        BY <1>a, <1>d, <2>1, <4>1 DEF ChunkInv, Committals
    <3> QED
      BY <3>1, <3>2
  <2>4. StageInv(r)'
    BY <2>1 DEF StageInv, Working
  <2> QED
    BY <1>a, <2>1, <2>3, <2>4, WorkingMoves DEF Labels, Working
<1> QED
  BY <1>1, <1>2, <1>3

-----------------------------------------------------------------------------
(* Resets, and the theorems *)

\* One file after git reset --hard.
LEMMA FileRestored ==
  ASSUME NEW f \in Content, NEW i \in Content, NEW p \in Content
  PROVE  /\ Restored(f, i, p) \in Content
         /\ \/ Restored(f, i, p) = p
            \/ Restored(f, i, p) = f /\ ~Exists(i) /\ ~Exists(p)
  BY DEF Restored

\* The reset of the recovery script, under a live runner or not.
LEMMA ResetStep ==
  ASSUME QueueInv, RecoverReset
  PROVE  /\ ChunkTypeOK'
         /\ \A c \in Chunks : ChunkInv(c)'
         /\ \A r \in Runners : StageInv(r)' /\ RunnerInv(r)'
<1> DEFINE Art(c) == tree'[c].artifact
<1>1. /\ UNCHANGED <<pc, todo, holder, live, runDir, origin, nRuns, nLaunches>>
      /\ index' = origin /\ head' = origin /\ synced' = TRUE
      /\ nResets' \in {nResets, nResets + 1} /\ (nResets' = nResets \/ nResets < MaxResets)
  BY DEF RecoverReset
<1>2. ASSUME NEW c \in Chunks
      PROVE  /\ tree'[c] \in Results
             /\ \/ tree'[c].artifact = origin[c].artifact
                \/ /\ tree'[c].artifact = tree[c].artifact
                   /\ ~Exists(index[c].artifact) /\ ~Exists(origin[c].artifact)
             /\ \/ tree'[c].events = origin[c].events
                \/ /\ tree'[c].events = tree[c].events
                   /\ ~Exists(index[c].events) /\ ~Exists(origin[c].events)
             /\ Exists(origin[c].artifact) => tree'[c].artifact = origin[c].artifact
             /\ Exists(index[c].events) \/ Exists(origin[c].events) =>
                  tree'[c].events = origin[c].events
             /\ Exists(index[c].artifact) => tree'[c].artifact = origin[c].artifact
  <2>1. tree'[c] =
          [artifact |-> Restored(tree[c].artifact, index[c].artifact, origin[c].artifact),
           events   |-> Restored(tree[c].events, index[c].events, origin[c].events)]
    BY DEF RecoverReset
  <2>2. /\ Restored(tree[c].artifact, index[c].artifact, origin[c].artifact) \in Content
        /\ Restored(tree[c].events, index[c].events, origin[c].events) \in Content
    BY ChunkTypes, FileRestored
  <2> QED
    BY <2>1, <2>2 DEF Results, Restored
<1>3. ChunkTypeOK'
  <2>1. tree' \in Versions
    BY <1>2 DEF RecoverReset, Versions
  <2>2. nResets' \in 0..MaxResets
    BY <1>1, QueueTypes, BoundsAssumption
  <2> QED
    BY <1>1, <2>1, <2>2, QueueTypes DEF ChunkTypeOK, Versions
<1>4. ASSUME NEW c \in Chunks PROVE ChunkInv(c)'
  <2>1. ChunkInv(c)
    BY DEF QueueInv
  <2>2. Committed(origin[c]) /\ origin[c].artifact.run <= nRuns
    BY <2>1 DEF ChunkInv, Committals
  <2>3. tree'[c].artifact.run <= nRuns
    BY <1>2, <2>1, <2>2 DEF ChunkInv
  <2>4. tree'[c].artifact # origin[c].artifact => runDir[c] >= tree'[c].artifact.run
    <3>1. SUFFICES ASSUME tree'[c].artifact # origin[c].artifact
                   PROVE  runDir[c] >= tree'[c].artifact.run
      OBVIOUS
    <3>2. tree'[c].artifact = tree[c].artifact /\ ~Exists(index[c].artifact)
      BY <1>2, <3>1
    <3>3. CASE tree[c].artifact # index[c].artifact
      BY <2>1, <3>2, <3>3 DEF ChunkInv, Committals
    <3>4. CASE tree[c].artifact = index[c].artifact
      BY <3>2, <3>4, ChunkTypes DEF Exists
    <3> QED
      BY <3>3, <3>4
  <2>5. Exists(origin[c].artifact) => Exists(tree'[c].artifact)
    BY <1>2
  <2> QED
    BY <1>1, <2>1, <2>2, <2>3, <2>4, <2>5 DEF ChunkInv, Committals
<1>5. ASSUME NEW r \in Runners PROVE StageInv(r)'
  <2> DEFINE c == Chunk(r)
  <2>1. CASE pc[r] \notin Working
    BY <1>1, <2>1 DEF StageInv, Working
  <2>2. CASE pc[r] \in Working
    <3>1. c \in Chunks /\ Chunk(r)' = c /\ StageInv(r) /\ ChunkInv(c)
      BY <1>1, <2>2, WorkingRunner DEF QueueInv, Chunk
    <3>2. Committed(index[c]) /\ Committed(origin[c])
      BY <3>1 DEF ChunkInv, Committals
    <3>3. /\ Exists(index[c].artifact) <=> Exists(index[c].events)
          /\ Exists(origin[c].artifact) <=> Exists(origin[c].events)
          /\ ~Exists(index[c].artifact) => index[c] = Nothing
          /\ ~Exists(origin[c].artifact) => origin[c] = Nothing
          /\ Exists(origin[c].artifact) => Complete(origin[c])
      BY <3>1, <3>2, ChunkTypes DEF Committed, Complete, Exists, Nothing, Absent
    <3>4. pc[r] \in Working \ {"clean", "harbor"} =>
            /\ runDir[c] # 0
            /\ \A v \in {origin[c], tree'[c]} : v.artifact.run <= runDir[c]
      BY <1>2, <3>1 DEF StageInv, Committals
    <3>5. pc[r] \in {"archive", "archiving"} /\ Exists(tree'[c].artifact) =>
            tree'[c].artifact.whole
      BY <1>2, <3>1, <3>3 DEF StageInv, Complete
    <3>6. ASSUME pc[r] = "add", Exists(tree'[c].artifact), Exists(tree'[c].events)
          PROVE  Complete(tree'[c])
      <4>1. CASE Exists(origin[c].artifact)
        <5>1. /\ tree'[c].artifact = origin[c].artifact
              /\ tree'[c].events = origin[c].events
          BY <1>2, <3>1, <3>3, <4>1
        <5> QED
          BY <3>3, <4>1, <5>1 DEF Complete
      <4>2. CASE ~Exists(origin[c].artifact)
        <5>1. /\ tree'[c].artifact = tree[c].artifact
              /\ tree'[c].events = tree[c].events
          BY <1>2, <3>1, <3>3, <3>6, <4>2
        <5>2. Complete(tree[c])
          BY <3>1, <3>6, <5>1 DEF StageInv
        <5> QED
          BY <5>1, <5>2 DEF Complete
      <4> QED
        BY <4>1, <4>2
    <3>7. pc[r] \in {"commit", "push", "remove"} => tree'[c].artifact = origin[c].artifact
      <4>1. SUFFICES ASSUME pc[r] \in {"commit", "push", "remove"},
                            ~Exists(index[c].artifact), ~Exists(origin[c].artifact),
                            tree'[c].artifact = tree[c].artifact
                     PROVE  tree'[c].artifact = origin[c].artifact
        BY <1>2, <3>1
      <4>2. tree[c].artifact = index[c].artifact
        BY <3>1, <4>1 DEF StageInv
      <4> QED
        BY <3>3, <4>1, <4>2
    <3> QED
      BY <1>1, <3>1, <3>4, <3>5, <3>6, <3>7 DEF StageInv, Committals
  <2> QED
    BY <2>1, <2>2
<1>6. ASSUME NEW r \in Runners PROVE RunnerInv(r)'
  BY <1>1 DEF QueueInv, RunnerInv, At, Chunk
<1> QED
  BY <1>3, <1>4, <1>5, <1>6

\* Nothing is left of a runner, a run or a file but what is on origin.
LEMMA ReclaimStep ==
  ASSUME QueueInv, Reclaim
  PROVE  /\ ChunkTypeOK'
         /\ \A c \in Chunks : ChunkInv(c)'
         /\ \A r \in Runners : StageInv(r)' /\ RunnerInv(r)'
<1>1. /\ \A r \in Runners : pc'[r] = "off"
      /\ \A c \in Chunks : /\ tree'[c] = Nothing /\ index'[c] = Nothing /\ head'[c] = Nothing
                           /\ runDir'[c] = 0
      /\ synced' = FALSE /\ UNCHANGED <<origin, nRuns>>
  BY DEF Reclaim
<1>2. ChunkTypeOK'
  <2>1. Nothing \in Results
    BY BoundsAssumption DEF Nothing, Absent, Results, Content
  <2>2. /\ tree' \in Versions /\ index' \in Versions /\ head' \in Versions
        /\ runDir' \in [Chunks -> 0..MaxRuns]
    BY <2>1, BoundsAssumption DEF Reclaim, Versions
  <2>3. /\ pc' \in [Runners -> Labels] /\ todo' \in [Runners -> Seq(Chunks)]
        /\ holder' = NoRunner /\ live' = {} /\ nResets' \in 0..MaxResets
        /\ \A r \in Runners : pc'[r] \notin Working
    BY BoundsAssumption, QueueTypes DEF Reclaim, Labels, Working
  <2>4. UNCHANGED <<nLaunches, nRuns, origin>>
    BY DEF Reclaim
  <2> QED
    BY <1>1, <2>2, <2>3, <2>4, QueueTypes DEF ChunkTypeOK, Versions
<1>3. ASSUME NEW c \in Chunks PROVE ChunkInv(c)'
  <2>1. nRuns \in Nat /\ ChunkInv(c)
    BY ChunkTypes DEF QueueInv
  <2> QED
    BY <1>1, <2>1 DEF ChunkInv, Committals, Committed, Nothing, Absent
<1>4. \A r \in Runners : StageInv(r)' /\ RunnerInv(r)'
  BY <1>1 DEF StageInv, RunnerInv, Working, At
<1> QED
  BY <1>2, <1>3, <1>4

\* Nothing is in any version of any chunk yet.
LEMMA InitQueueInv == RunnerInit => QueueInv
<1> SUFFICES ASSUME RunnerInit PROVE QueueInv
  OBVIOUS
<1>1. Nothing \in Results
  BY BoundsAssumption DEF Nothing, Absent, Results, Content
<1>2. ChunkTypeOK
  BY <1>1, BoundsAssumption DEF RunnerInit, ChunkTypeOK, Labels, Working
<1>3. \A c \in Chunks : ChunkInv(c)
  BY DEF RunnerInit, ChunkInv, Committals, Committed, Nothing, Absent
<1>4. \A r \in Runners : StageInv(r) /\ RunnerInv(r)
  BY DEF RunnerInit, StageInv, RunnerInv, Working, At
<1> QED
  BY <1>2, <1>3, <1>4, InitLockInv DEF QueueInv

\* Every step keeps the invariant of the queue.
LEMMA NextQueueInv == QueueInv /\ [RunnerNext]_runnerVars => QueueInv'
<1> SUFFICES ASSUME QueueInv, [RunnerNext]_runnerVars
             PROVE  /\ ChunkTypeOK'
                    /\ \A c \in Chunks : ChunkInv(c)'
                    /\ \A r \in Runners : StageInv(r)' /\ RunnerInv(r)'
  BY NextLockInv DEF QueueInv
<1>1. ASSUME NEW r \in Runners, RunnerStep(r)
      PROVE  /\ ChunkTypeOK'
             /\ \A c \in Chunks : ChunkInv(c)'
             /\ \A s \in Runners : StageInv(s)' /\ RunnerInv(s)'
  BY <1>1, QueueTypesStep, QuietMoves, HarborMoves, FileMoves, AddMove, GitMoves
  DEF RunnerStep
<1>2. CASE UNCHANGED <<pc, todo, holder, runDir, repoVars, boundVars>> /\ live' \subseteq live
  <2>1. UNCHANGED <<pc, todo, holder, runDir, tree, index, head, origin, synced,
                    nRuns, nLaunches, nResets>>
    BY <1>2 DEF repoVars, boundVars
  <2>2. ChunkTypeOK'
    BY <1>2, <2>1, QueueTypes DEF ChunkTypeOK, Versions
  <2>3. \A c \in Chunks : ChunkInv(c)'
    BY <2>1 DEF QueueInv, ChunkInv, Committals
  <2>4. \A r \in Runners : StageInv(r)' /\ RunnerInv(r)'
    BY <2>1 DEF QueueInv, StageInv, RunnerInv, Committals, Chunk, At
  <2> QED
    BY <2>2, <2>3, <2>4
<1>3. ASSUME NEW c \in Chunks, OrphanEnds(c)
      PROVE  UNCHANGED <<pc, todo, holder, runDir, repoVars, boundVars>> /\ live' \subseteq live
  BY <1>3 DEF OrphanEnds
<1>4. UNCHANGED runnerVars =>
        UNCHANGED <<pc, todo, holder, runDir, repoVars, boundVars>> /\ live' \subseteq live
  BY DEF runnerVars
<1> QED
  BY <1>1, <1>2, <1>3, <1>4, ReclaimStep, ResetStep DEF RunnerNext

\* The invariant of the queue holds, however many runners, reclaims and resets.
THEOREM QueueHolds == RunnerSpec => []QueueInv
  BY InitQueueInv, NextQueueInv, PTL DEF RunnerSpec

\* The queue's variables keep their types, and the lock's holder is alive.
THEOREM QueueTypeCorrect == RunnerSpec => []ChunkTypeOK
  BY QueueHolds, PTL DEF QueueInv

\* Both files of a chunk on origin are whole, the event stores no older than the
\* rewards (archive_events.sh:5-8), resets under a live runner included.
THEOREM PushedCorrect == RunnerSpec => []PushedComplete
<1>1. QueueInv => PushedComplete
  BY DEF QueueInv, ChunkInv, Committals, Committed, Complete, PushedComplete
<1> QED
  BY <1>1, QueueHolds, PTL

\* An artifact that is not on origin can be made again (run_config.sh:55-64).
THEOREM UnpushedCorrect == RunnerSpec => []UnpushedHasRunDir
<1>1. QueueInv => UnpushedHasRunDir
  BY DEF QueueInv, ChunkInv, Committals, UnpushedHasRunDir
<1> QED
  BY <1>1, QueueHolds, PTL

\* A runner that kept the lock runs no chunk that is on origin already.
THEOREM NotRunAgainCorrect == RunnerSpec => PushedNotRunAgain
<1> DEFINE Again == \A r \in Runners : At(r, "lock") /\ holder = r /\ pc'[r] = "clean"
                      => ~Exists(origin[Chunk(r)].artifact)
<1>1. QueueInv => Again
  BY DEF QueueInv, RunnerInv
<1>2. QueueInv /\ [RunnerNext]_runnerVars => [Again]_runnerVars
  BY <1>1
<1> QED
  BY <1>2, QueueHolds, PTL DEF RunnerSpec, PushedNotRunAgain

-----------------------------------------------------------------------------
(* The ledger of runs *)

\* While a runner past its flock moves on, the others are not past theirs.
LEMMA RunnerAhead ==
  ASSUME QueueInv, NEW r \in Runners, pc[r] \in Working, NEW label \in Labels,
         pc' = [pc EXCEPT ![r] = label], StageAhead(r)', \A c \in Chunks : ChunkAhead(c)'
  PROVE  AheadInv'
<1>1. ASSUME NEW s \in Runners \ {r} PROVE pc'[s] \notin Working
  BY QueueTypes, WorkingRunner
<1>2. \A s \in Runners \ {r} : StageAhead(s)'
  BY <1>1 DEF StageAhead, Working
<1> QED
  BY <1>2 DEF AheadInv

\* A step that touches no file, and takes no runner on to a statement that adds.
LEMMA QuietAhead ==
  ASSUME AheadInv, UNCHANGED <<tree, index, head, origin, synced, nRuns>>,
         \A r \in Runners : pc'[r] \in Working \ {"clean", "harbor"} =>
            /\ pc[r] \in Working \ {"clean", "harbor"} /\ Chunk(r)' = Chunk(r)
            /\ runDir'[Chunk(r)] = runDir[Chunk(r)]
            /\ pc'[r] \in {"archive", "archiving", "add"} => pc[r] = pc'[r]
  PROVE  AheadInv'
<1>1. \A c \in Chunks : ChunkAhead(c)'
  BY DEF AheadInv, ChunkAhead, Committals
<1>2. ASSUME NEW r \in Runners PROVE StageAhead(r)'
  <2>1. StageAhead(r)
    BY DEF AheadInv
  <2>2. CASE pc'[r] \in Working \ {"clean", "harbor"}
    BY <2>1, <2>2 DEF StageAhead, Committals
  <2>3. CASE pc'[r] \notin Working \ {"clean", "harbor"}
    BY <2>3 DEF StageAhead, Working
  <2> QED
    BY <2>2, <2>3
<1> QED
  BY <1>1, <1>2 DEF AheadInv

\* A runner's statements that touch no file, and a run left alone that ends.
LEMMA QuietStepsAhead ==
  ASSUME QueueInv, AheadInv, NEW r \in Runners,
         \/ Launch(r) \/ AllDone(r) \/ SkipChunk(r) \/ TakeChunk(r) \/ TakeLock(r)
         \/ LockRefused(r) \/ CleanDocker(r) \/ HarborEnds(r) \/ RemoveRunDir(r) \/ Stops(r)
  PROVE  AheadInv'
<1>a. pc \in [Runners -> Labels] /\ todo \in [Runners -> Seq(Chunks)]
  BY QueueTypes
<1>b. UNCHANGED <<tree, index, head, origin, synced, nRuns>>
  BY DEF Launch, AllDone, SkipChunk, TakeChunk, TakeLock, LockRefused, CleanDocker,
     HarborEnds, RemoveRunDir, Stops, repoVars, boundVars
<1>c. /\ \A s \in Runners \ {r} : pc'[s] = pc[s] /\ todo'[s] = todo[s]
      /\ \/ pc'[r] \notin Working \ {"clean", "harbor"}
         \/ pc[r] = "running" /\ pc'[r] = "collect" /\ UNCHANGED <<todo, runDir>>
  BY <1>a DEF Launch, AllDone, SkipChunk, TakeChunk, TakeLock, LockRefused, CleanDocker,
     HarborEnds, RemoveRunDir, Stops, At, Goto, Working
<1>1. CASE RemoveRunDir(r)
  <2>1. pc[r] \in Working
    BY <1>1 DEF RemoveRunDir, At, Working
  <2>2. \A s \in Runners : pc'[s] \notin Working
    BY <1>a, <1>1, <2>1, WorkingRunner DEF RemoveRunDir, Goto, Working
  <2> QED
    BY <1>b, <2>2, QuietAhead
<1>2. CASE ~RemoveRunDir(r)
  <2>1. UNCHANGED runDir
    BY <1>2 DEF Launch, AllDone, SkipChunk, TakeChunk, TakeLock, LockRefused, CleanDocker,
       HarborEnds, Stops
  <2>2. ASSUME NEW s \in Runners, pc'[s] \in Working \ {"clean", "harbor"}
        PROVE  /\ pc[s] \in Working \ {"clean", "harbor"} /\ Chunk(s)' = Chunk(s)
               /\ pc'[s] \in {"archive", "archiving", "add"} => pc[s] = pc'[s]
    BY <1>c, <2>2 DEF Chunk, Working
  <2> QED
    BY <1>b, <2>1, <2>2, QuietAhead
<1> QED
  BY <1>1, <1>2

\* A run begins: its number is above those of every file.
LEMMA StartAhead ==
  ASSUME QueueInv, AheadInv, NEW r \in Runners, StartHarbor(r) PROVE AheadInv'
<1> DEFINE c == Chunk(r)
<1>1. /\ pc[r] \in Working /\ pc' = [pc EXCEPT ![r] = "running"]
      /\ UNCHANGED <<todo, tree, index, head, origin, synced>>
      /\ nRuns' = nRuns + 1 /\ runDir' = [runDir EXCEPT ![c] = nRuns + 1]
  BY DEF StartHarbor, At, Goto, Working, repoVars
<1>2. /\ c \in Chunks /\ pc'[r] = "running" /\ runDir'[c] = nRuns + 1 /\ Chunk(r)' = c
  BY <1>1, WorkingRunner, QueueTypes DEF Chunk
<1>3. ASSUME NEW d \in Chunks
      PROVE  \A v \in Committals(d) \cup {tree[d]} : v.events.run <= nRuns + 1
  BY ChunkTypes DEF AheadInv, ChunkAhead, Committals
<1>4. \A d \in Chunks : ChunkAhead(d)'
  BY <1>1, <1>3 DEF AheadInv, ChunkAhead, Committals
<1>5. StageAhead(r)'
  BY <1>1, <1>2, <1>3 DEF StageAhead, Committals
<1> QED
  BY <1>1, <1>4, <1>5, RunnerAhead DEF Labels, Working

\* The files are written.
LEMMA FilesAhead ==
  ASSUME QueueInv, AheadInv, NEW r \in Runners,
         BeginCollect(r) \/ EndCollect(r) \/ BeginArchive(r) \/ EndArchive(r)
  PROVE  AheadInv'
<1> DEFINE c == Chunk(r)
           file(whole) == [run |-> runDir[c], whole |-> whole]
<1>a. /\ pc[r] \in Working
      /\ UNCHANGED <<todo, runDir, index, head, origin, synced, nRuns>>
  BY DEF BeginCollect, EndCollect, BeginArchive, EndArchive, At, Working, boundVars
<1>b. c \in Chunks /\ Chunk(r)' = c
  BY <1>a, WorkingRunner DEF Chunk
<1>c. /\ \A v \in Committals(c) \cup {tree[c]} : v.artifact.run <= runDir[c]
      /\ \A v \in Committals(c) \cup {tree[c]} : v.events.run <= runDir[c]
      /\ runDir[c] \in Nat /\ runDir[c] <= nRuns
      /\ \A whole \in BOOLEAN : file(whole) \in Content
  <2>1. StageInv(r) /\ StageAhead(r) /\ ChunkInv(c)
    BY <1>b DEF QueueInv, AheadInv
  <2>2. pc[r] \in Working \ {"clean", "harbor"}
    BY DEF Working, BeginCollect, EndCollect, BeginArchive, EndArchive, At
  <2>3. \A whole \in BOOLEAN : file(whole) \in Content
    BY <1>b, ChunkTypes DEF Content
  <2> QED
    BY <1>b, <2>1, <2>2, <2>3, ChunkTypes DEF StageInv, StageAhead, ChunkInv
<1>d. tree \in Versions /\ pc \in [Runners -> Labels]
  BY QueueTypes
<1> HIDE DEF file
<1>e. /\ \A whole : file(whole).run = runDir[c]
      /\ TRUE \in BOOLEAN /\ FALSE \in BOOLEAN
  BY DEF file
<1>g. ASSUME NEW whole \in BOOLEAN, tree' = [tree EXCEPT ![c].artifact = file(whole)]
      PROVE  /\ tree'[c].artifact = file(whole) /\ tree'[c].events = tree[c].events
             /\ \A d \in Chunks \ {c} : tree'[d] = tree[d]
  BY <1>b, <1>c, <1>d, <1>g, FileWritten
<1>h. ASSUME NEW whole \in BOOLEAN, tree' = [tree EXCEPT ![c].events = file(whole)]
      PROVE  /\ tree'[c].events = file(whole) /\ tree'[c].artifact = tree[c].artifact
             /\ \A d \in Chunks \ {c} : tree'[d] = tree[d]
  BY <1>b, <1>c, <1>d, <1>h, FileWritten
<1>1. ASSUME NEW whole \in BOOLEAN,
             \/ tree' = [tree EXCEPT ![c].artifact = file(whole)]
             \/ tree' = [tree EXCEPT ![c].events = file(whole)]
      PROVE  /\ \A d \in Chunks : ChunkAhead(d)'
             /\ \A v \in Committals(c) \cup {tree'[c]} : v.events.run <= runDir[c]
  <2>1. /\ tree'[c].events \in {tree[c].events, file(whole)}
        /\ \A d \in Chunks \ {c} : tree'[d] = tree[d]
    BY <1>1, <1>g, <1>h
  <2>2. tree'[c].events.run <= runDir[c] /\ tree'[c].events.run <= nRuns
    BY <1>b, <1>c, <1>e, <2>1 DEF AheadInv, ChunkAhead
  <2>3. ChunkAhead(c)'
    BY <1>a, <1>b, <2>2 DEF AheadInv, ChunkAhead, Committals
  <2>4. \A d \in Chunks \ {c} : ChunkAhead(d)'
    BY <1>a, <2>1 DEF AheadInv, ChunkAhead, Committals
  <2>5. \A v \in Committals(c) \cup {tree'[c]} : v.events.run <= runDir[c]
    BY <1>c, <2>2
  <2> QED
    BY <1>b, <2>3, <2>4, <2>5
<1>2. CASE BeginCollect(r)
  <2>1. /\ pc' = [pc EXCEPT ![r] = "collecting"] /\ pc'[r] = "collecting"
        /\ tree' = [tree EXCEPT ![c].artifact = file(FALSE)]
    BY <1>d, <1>2 DEF BeginCollect, Goto, file
  <2>2. StageAhead(r)'
    BY <1>1, <1>a, <1>b, <1>e, <2>1 DEF StageAhead, Committals
  <2> QED
    BY <1>1, <1>a, <1>e, <2>1, <2>2, RunnerAhead DEF Labels, Working
<1>3. CASE EndCollect(r)
  <2>1. /\ pc' = [pc EXCEPT ![r] = "archive"] /\ pc'[r] = "archive"
        /\ tree' = [tree EXCEPT ![c].artifact = file(TRUE)]
    BY <1>d, <1>3 DEF EndCollect, Goto, file
  <2>2. tree'[c].artifact = file(TRUE)
    BY <1>g, <1>h, <2>1, <1>e
  <2>3. index[c].artifact.run <= tree'[c].artifact.run
    BY <1>c, <1>e, <2>2 DEF Committals
  <2>4. StageAhead(r)'
    BY <1>1, <1>a, <1>b, <1>e, <2>1, <2>3 DEF StageAhead, Committals
  <2> QED
    BY <1>1, <1>a, <1>e, <2>1, <2>4, RunnerAhead DEF Labels, Working
<1>4. CASE BeginArchive(r)
  <2>1. /\ pc[r] = "archive" /\ pc' = [pc EXCEPT ![r] = "archiving"]
        /\ pc'[r] = "archiving"
        /\ tree' = [tree EXCEPT ![c].events = file(FALSE)]
    BY <1>d, <1>4 DEF BeginArchive, At, Goto, file
  <2>2. tree'[c].artifact = tree[c].artifact
    BY <1>g, <1>h, <2>1, <1>e
  <2>3. Exists(tree[c].artifact) => index[c].artifact.run <= tree[c].artifact.run
    BY <2>1 DEF AheadInv, StageAhead
  <2>4. StageAhead(r)'
    BY <1>1, <1>a, <1>b, <1>e, <2>1, <2>2, <2>3 DEF StageAhead, Committals
  <2> QED
    BY <1>1, <1>a, <1>e, <2>1, <2>4, RunnerAhead DEF Labels, Working
<1>5. CASE EndArchive(r)
  <2>1. /\ pc[r] = "archiving" /\ pc' = [pc EXCEPT ![r] = "add"] /\ pc'[r] = "add"
        /\ tree' = [tree EXCEPT ![c].events = file(TRUE)]
    BY <1>d, <1>5 DEF EndArchive, At, Goto, file
  <2>2. tree'[c].artifact = tree[c].artifact /\ tree'[c].events = file(TRUE)
    BY <1>g, <1>h, <2>1, <1>e
  <2>3. Exists(tree[c].artifact) => index[c].artifact.run <= tree[c].artifact.run
    BY <2>1 DEF AheadInv, StageAhead
  <2>4. index[c].events.run <= tree'[c].events.run
    BY <1>c, <1>e, <2>2 DEF Committals
  <2>5. StageAhead(r)'
    BY <1>1, <1>a, <1>b, <1>e, <2>1, <2>2, <2>3, <2>4 DEF StageAhead, Committals, Upto
  <2> QED
    BY <1>1, <1>a, <1>e, <2>1, <2>5, RunnerAhead DEF Labels, Working
<1> QED
  BY <1>2, <1>3, <1>4, <1>5

\* The files are added, committed and pushed: each version catches up with the next.
LEMMA GitAhead ==
  ASSUME QueueInv, AheadInv, NEW r \in Runners, GitAdd(r) \/ GitCommit(r) \/ GitPush(r)
  PROVE  AheadInv'
<1> DEFINE c == Chunk(r)
<1>a. /\ pc[r] \in Working /\ synced /\ pc \in [Runners -> Labels]
      /\ UNCHANGED <<todo, runDir, tree, synced, nRuns>>
  <2>1. pc[r] \in Working /\ pc[r] # "off"
    BY DEF GitAdd, GitCommit, GitPush, At, Working
  <2> QED
    BY <2>1, QueueTypes DEF QueueInv, RunnerInv, GitAdd, GitCommit, GitPush, boundVars
<1>b. c \in Chunks /\ Chunk(r)' = c /\ pc[r] \in Working \ {"clean", "harbor"}
  BY <1>a, WorkingRunner DEF Chunk, GitAdd, GitCommit, GitPush, At
<1>c. /\ \A v \in Committals(c) \cup {tree[c]} : v.events.run <= runDir[c]
      /\ \A d \in Chunks :
           /\ Upto(origin[d], head[d]) /\ Upto(head[d], index[d])
           /\ \A v \in Committals(d) \cup {tree[d]} : v.events.run <= nRuns
  BY <1>a, <1>b DEF AheadInv, StageAhead, ChunkAhead
<1>1. CASE GitAdd(r)
  <2>1. /\ pc[r] = "add" /\ pc' = [pc EXCEPT ![r] = "commit"] /\ pc'[r] = "commit"
        /\ Exists(tree[c].artifact) /\ Exists(tree[c].events)
        /\ index' = [index EXCEPT ![c] = tree[c]] /\ UNCHANGED <<head, origin>>
    BY <1>a, <1>1 DEF GitAdd, At, Goto
  <2>2. index'[c] = tree[c] /\ \A d \in Chunks \ {c} : index'[d] = index[d]
    BY <1>b, <2>1, QueueTypes DEF Versions
  <2>3. Upto(index[c], tree[c])
    BY <1>b, <2>1 DEF AheadInv, StageAhead
  <2>4. Upto(head[c], index'[c])
    BY <1>b, <1>c, <2>2, <2>3, ChunkTypes DEF Upto
  <2>5. ASSUME NEW d \in Chunks PROVE ChunkAhead(d)'
    BY <1>a, <1>b, <1>c, <2>1, <2>2, <2>4 DEF ChunkAhead, Committals
  <2>6. StageAhead(r)'
    BY <1>a, <1>b, <1>c, <2>1, <2>2 DEF StageAhead, Committals
  <2> QED
    BY <1>a, <2>1, <2>5, <2>6, RunnerAhead DEF Labels, Working
<1>2. CASE GitCommit(r)
  <2>1. /\ pc' = [pc EXCEPT ![r] = "push"] /\ pc'[r] = "push"
        /\ head' = index /\ UNCHANGED <<index, origin>>
    BY <1>a, <1>2 DEF GitCommit, Goto
  <2>2. ASSUME NEW d \in Chunks PROVE ChunkAhead(d)'
    <3>1. Upto(origin[d], index[d]) /\ Upto(index[d], index[d])
      BY <1>c, ChunkTypes DEF Upto
    <3> QED
      BY <1>a, <1>c, <2>1, <3>1 DEF ChunkAhead, Committals
  <2>3. StageAhead(r)'
    BY <1>a, <1>b, <1>c, <2>1 DEF StageAhead, Committals
  <2> QED
    BY <1>a, <2>1, <2>2, <2>3, RunnerAhead DEF Labels, Working
<1>3. CASE GitPush(r)
  <2>1. /\ pc' = [pc EXCEPT ![r] = "remove"] /\ pc'[r] = "remove"
        /\ origin' = head /\ UNCHANGED <<index, head>>
    BY <1>a, <1>3 DEF GitPush, Goto
  <2>2. ASSUME NEW d \in Chunks PROVE ChunkAhead(d)'
    <3>1. Upto(head[d], head[d])
      BY ChunkTypes DEF Upto
    <3> QED
      BY <1>a, <1>c, <2>1, <3>1 DEF ChunkAhead, Committals
  <2>3. StageAhead(r)'
    BY <1>a, <1>b, <1>c, <2>1 DEF StageAhead, Committals
  <2> QED
    BY <1>a, <2>1, <2>2, <2>3, RunnerAhead DEF Labels, Working
<1> QED
  BY <1>1, <1>2, <1>3

\* A reclaim desynchronises the clone, and leaves it nothing.
LEMMA ReclaimAhead == ASSUME QueueInv, AheadInv, Reclaim PROVE AheadInv'
<1>1. /\ \A r \in Runners : pc'[r] = "off"
      /\ \A c \in Chunks : tree'[c] = Nothing /\ index'[c] = Nothing /\ head'[c] = Nothing
      /\ synced' = FALSE /\ UNCHANGED <<origin, nRuns>>
  BY DEF Reclaim
<1>2. ASSUME NEW c \in Chunks PROVE ChunkAhead(c)'
  <2>1. nRuns \in Nat /\ origin[c].events.run <= nRuns
    BY ChunkTypes DEF AheadInv, ChunkAhead, Committals
  <2> QED
    BY <1>1, <2>1 DEF ChunkAhead, Committals, Nothing, Absent
<1>3. \A r \in Runners : StageAhead(r)'
  BY <1>1 DEF StageAhead, Working
<1> QED
  BY <1>2, <1>3 DEF AheadInv

\* The reset makes the three versions one, and under a live runner leaves what it
\* is about to add ahead of it.
LEMMA ResetAhead == ASSUME QueueInv, AheadInv, RecoverReset PROVE AheadInv'
<1>1. /\ UNCHANGED <<pc, todo, runDir, origin, nRuns>>
      /\ index' = origin /\ head' = origin /\ synced' = TRUE
  BY DEF RecoverReset
<1>2. ASSUME NEW c \in Chunks
      PROVE  /\ \/ tree'[c].artifact = origin[c].artifact
                \/ tree'[c].artifact = tree[c].artifact /\ ~Exists(origin[c].artifact)
             /\ \/ tree'[c].events = origin[c].events
                \/ tree'[c].events = tree[c].events /\ ~Exists(origin[c].events)
             /\ Exists(origin[c].artifact) <=> Exists(origin[c].events)
  <2>1. tree'[c] =
          [artifact |-> Restored(tree[c].artifact, index[c].artifact, origin[c].artifact),
           events   |-> Restored(tree[c].events, index[c].events, origin[c].events)]
    BY DEF RecoverReset
  <2>2. Committed(origin[c])
    BY DEF QueueInv, ChunkInv, Committals
  <2>3. Exists(origin[c].artifact) <=> Exists(origin[c].events)
    BY <2>2, ChunkTypes DEF Committed, Complete, Exists, Nothing, Absent
  <2> QED
    BY <2>1, <2>3 DEF Restored
<1>3. ASSUME NEW c \in Chunks PROVE ChunkAhead(c)'
  <2>1. Upto(origin[c], origin[c])
    BY ChunkTypes DEF Upto
  <2>2. \A v \in Committals(c) \cup {tree[c]} : v.events.run <= nRuns
    BY DEF AheadInv, ChunkAhead
  <2> QED
    BY <1>1, <1>2, <2>1, <2>2 DEF ChunkAhead, Committals
<1>4. ASSUME NEW r \in Runners PROVE StageAhead(r)'
  <2> DEFINE c == Chunk(r)
  <2>1. CASE pc[r] \notin Working
    BY <1>1, <2>1 DEF StageAhead, Working
  <2>2. CASE pc[r] \in Working
    <3>1. c \in Chunks /\ Chunk(r)' = c /\ StageAhead(r)
      BY <1>1, <2>2, WorkingRunner DEF AheadInv, Chunk
    <3>2. pc[r] \in Working \ {"clean", "harbor"} =>
            \A v \in {origin[c], tree'[c]} : v.events.run <= runDir[c]
      BY <1>2, <3>1 DEF StageAhead, Committals
    <3>3. /\ Exists(tree'[c].artifact) => origin[c].artifact.run <= tree'[c].artifact.run
          /\ Exists(tree'[c].events) => origin[c].events.run <= tree'[c].events.run
      BY <1>2, <3>1, ChunkTypes DEF Exists
    <3> QED
      BY <1>1, <3>1, <3>2, <3>3 DEF StageAhead, Committals, Upto
  <2> QED
    BY <2>1, <2>2
<1> QED
  BY <1>3, <1>4 DEF AheadInv

\* The versions are all empty.
LEMMA InitAheadInv == RunnerInit => AheadInv
  BY DEF RunnerInit, AheadInv, ChunkAhead, StageAhead, Committals, Upto, Nothing, Absent,
     Working

\* Every step keeps the versions in their order.
LEMMA NextAheadInv == QueueInv /\ AheadInv /\ [RunnerNext]_runnerVars => AheadInv'
<1> SUFFICES ASSUME QueueInv, AheadInv, [RunnerNext]_runnerVars PROVE AheadInv'
  OBVIOUS
<1>1. CASE \E r \in Runners : RunnerStep(r)
  BY <1>1, QuietStepsAhead, StartAhead, FilesAhead, GitAhead DEF RunnerStep
<1>2. ASSUME \/ \E c \in Chunks : OrphanEnds(c)
             \/ UNCHANGED runnerVars
      PROVE  AheadInv'
  <2>1. UNCHANGED <<pc, todo, runDir, tree, index, head, origin, synced, nRuns>>
    BY <1>2 DEF OrphanEnds, runnerVars, repoVars, boundVars
  <2> QED
    BY <2>1, QuietAhead DEF Chunk
<1> QED
  BY <1>1, <1>2, ReclaimAhead, ResetAhead DEF RunnerNext

\* Nothing runs yet.
LEMMA InitOneRun == RunnerInit => OneRun
  BY DEF RunnerInit, OneRun

\* A run begins when none is alive.
LEMMA NextOneRun == QueueInv /\ OneRun /\ [RunnerNext]_runnerVars => OneRun'
<1> SUFFICES ASSUME QueueInv, OneRun, [RunnerNext]_runnerVars PROVE OneRun'
  OBVIOUS
<1>1. ASSUME NEW r \in Runners, StartHarbor(r) PROVE OneRun'
  <2>1. live = {} /\ live' = live \cup {Chunk(r)}
    BY <1>1 DEF StartHarbor, QueueInv, LockInv, At, Working
  <2> QED
    BY <2>1 DEF OneRun
<1>2. ASSUME NEW r \in Runners, RunnerStep(r), ~StartHarbor(r) PROVE live' \subseteq live
  BY <1>2
  DEF RunnerStep, Launch, AllDone, SkipChunk, TakeChunk, TakeLock, LockRefused, CleanDocker,
     HarborEnds, BeginCollect, EndCollect, BeginArchive, EndArchive, GitAdd, GitCommit,
     GitPush, RemoveRunDir, Stops
<1>3. CASE (\E c \in Chunks : OrphanEnds(c)) \/ Reclaim \/ RecoverReset \/ UNCHANGED runnerVars
  BY <1>3 DEF OrphanEnds, Reclaim, RecoverReset, runnerVars, OneRun
<1>4. live' \subseteq live => OneRun'
  BY DEF OneRun
<1> QED
  BY <1>1, <1>2, <1>3, <1>4 DEF RunnerNext

\* What is on origin of a chunk, as a reader finds it.
LEMMA PublishedOf ==
  ASSUME QueueInv, AheadInv, NEW c \in Chunks
  PROVE  /\ Published[c] = [rewards |-> origin[c].artifact.run,
                            stores  |-> origin[c].events.run]
         /\ Committed(head[c]) /\ head[c].artifact.run <= nRuns /\ head[c].events.run <= nRuns
<1>1. Committed(origin[c]) /\ Committed(head[c])
  BY DEF QueueInv, ChunkInv, Committals
<1>2. /\ ReadBack(origin[c].artifact) = origin[c].artifact.run
      /\ ReadBack(origin[c].events) = origin[c].events.run
  BY <1>1 DEF ReadBack, Committed, Complete, Nothing, Absent, Exists
<1> QED
  BY <1>1, <1>2 DEF Published, QueueInv, ChunkInv, AheadInv, ChunkAhead, Committals

\* A push is a step of the ledger.
LEMMA PushPublishes ==
  ASSUME QueueInv, QueueInv', AheadInv, AheadInv', NEW r \in Runners, GitPush(r)
  PROVE  Ledger!Publish
<1>1. /\ pc[r] = "push" /\ pc[r] \in Working /\ synced /\ origin' = head
      /\ UNCHANGED <<live, nRuns>>
  <2>1. pc[r] = "push" /\ pc[r] \in Working /\ pc[r] # "off"
    BY DEF GitPush, At, Working
  <2> QED
    BY <2>1 DEF QueueInv, RunnerInv, GitPush, boundVars
<1>2. live = {}
  BY <1>1 DEF QueueInv, LockInv, At
<1>3. Published' = [c \in Chunks |-> Published'[c]]
  BY DEF Published
<1>4. ASSUME NEW c \in Chunks, Published'[c] # Published[c]
      PROVE  Ledger!Replaces(Published'[c], Published[c])
  <2>1. /\ Published[c] = [rewards |-> origin[c].artifact.run, stores |-> origin[c].events.run]
        /\ Published'[c] = [rewards |-> head[c].artifact.run, stores |-> head[c].events.run]
    <3>1. Published'[c] = [rewards |-> origin'[c].artifact.run,
                           stores  |-> origin'[c].events.run]
      BY <1>1, PublishedOf DEF Published, ReadBack, Exists, QueueInv, ChunkInv, Committals,
         Committed, Complete, Nothing, Absent
    <3> QED
      BY <1>1, <3>1, PublishedOf
  <2>2. Upto(origin[c], head[c])
    BY <1>1 DEF AheadInv, ChunkAhead
  <2>3. Complete(head[c])
    <3>1. SUFFICES ASSUME head[c] = Nothing PROVE FALSE
      BY PublishedOf DEF Committed
    <3>2. origin[c].artifact.run = 0 /\ origin[c].events.run = 0
      BY <2>2, <3>1, ChunkTypes DEF Upto, Nothing, Absent
    <3> QED
      BY <1>4, <2>1, <3>1, <3>2 DEF Nothing, Absent
  <2>4. /\ head[c].artifact.run \in 1..nRuns
        /\ head[c].events.run \in head[c].artifact.run..nRuns
    <3>1. /\ head[c].artifact.run # 0 /\ head[c].artifact.run <= head[c].events.run
          /\ head[c].artifact.run \in Nat /\ head[c].events.run \in Nat /\ nRuns \in Nat
          /\ head[c].artifact.run <= nRuns /\ head[c].events.run <= nRuns
      BY <2>3, PublishedOf, ChunkTypes DEF Complete, Exists
    <3> QED
      BY <3>1
  <2> QED
    BY <2>1, <2>2, <2>4 DEF Ledger!Replaces, Upto
<1> QED
  BY <1>1, <1>2, <1>3, <1>4 DEF Ledger!Publish

\* A runner's step is a step of the ledger, or hidden from it.
LEMMA RunnerStepLedger ==
  ASSUME QueueInv, QueueInv', AheadInv, AheadInv', NEW r \in Runners, RunnerStep(r)
  PROVE  Ledger!LedgerNext \/ UNCHANGED Ledger!ledgerVars
<1> USE DEF At, Working
<1>a. pc[r] \in Working => Chunk(r) \in Chunks
  BY WorkingRunner
<1>b. pc[r] \in Working \ {"running"} => live = {}
  BY DEF QueueInv, LockInv
<1>c. UNCHANGED <<live, origin, nRuns>> => UNCHANGED Ledger!ledgerVars
  BY DEF Ledger!ledgerVars, Published
<1>d. live' # live /\ live' = {} /\ UNCHANGED <<origin, nRuns>> => Ledger!End
  BY DEF Ledger!End, Published
<1>1. CASE StartHarbor(r)
  <2>1. /\ live' = {Chunk(r)} /\ nRuns' = nRuns + 1 /\ UNCHANGED origin
    BY <1>1, <1>b DEF StartHarbor, repoVars
  <2> QED
    BY <1>1, <1>a, <1>b, <2>1
    DEF StartHarbor, Ledger!LedgerNext, Ledger!Begin, Published
<1>2. CASE HarborEnds(r) \/ Stops(r)
  <2>1. /\ UNCHANGED <<origin, nRuns>>
        /\ \/ live' = live
           \/ live' = live \ {Chunk(r)} /\ At(r, "running")
    BY <1>2 DEF HarborEnds, Stops, repoVars, boundVars
  <2>2. At(r, "running") => live \ {Chunk(r)} = {}
    BY DEF QueueInv, LockInv
  <2> QED
    BY <1>c, <1>d, <2>1, <2>2 DEF Ledger!LedgerNext
<1>3. CASE CleanDocker(r)
  BY <1>3, <1>b, <1>c DEF CleanDocker, repoVars, boundVars
<1>4. CASE GitPush(r)
  BY <1>4, PushPublishes DEF Ledger!LedgerNext
<1>5. CASE \/ Launch(r) \/ AllDone(r) \/ SkipChunk(r) \/ TakeChunk(r) \/ TakeLock(r)
           \/ LockRefused(r) \/ BeginCollect(r) \/ EndCollect(r) \/ BeginArchive(r)
           \/ EndArchive(r) \/ GitAdd(r) \/ GitCommit(r) \/ RemoveRunDir(r)
  <2>1. UNCHANGED <<live, origin, nRuns>>
    BY <1>5 DEF Launch, AllDone, SkipChunk, TakeChunk, TakeLock, LockRefused, BeginCollect,
       EndCollect, BeginArchive, EndArchive, GitAdd, GitCommit, RemoveRunDir, repoVars,
       boundVars
  <2> QED
    BY <1>c, <2>1
<1> QED
  BY <1>1, <1>2, <1>3, <1>4, <1>5 DEF RunnerStep

\* The ledger's step for each step of the queue: a run begins, ends or dies, a
\* push publishes, and everything else is hidden.
LEMMA StepLedger ==
  QueueInv /\ QueueInv' /\ AheadInv /\ AheadInv' /\ OneRun /\ [RunnerNext]_runnerVars
    => [Ledger!LedgerNext]_(Ledger!ledgerVars)
<1> SUFFICES ASSUME QueueInv, QueueInv', AheadInv, AheadInv', OneRun,
                    [RunnerNext]_runnerVars
             PROVE  Ledger!LedgerNext \/ UNCHANGED Ledger!ledgerVars
  OBVIOUS
<1>1. CASE \E r \in Runners : RunnerStep(r)
  BY <1>1, RunnerStepLedger
<1>2. ASSUME NEW c \in Chunks, OrphanEnds(c) PROVE Ledger!LedgerNext
  <2>1. live # {} /\ live' = {} /\ UNCHANGED <<origin, nRuns>>
    BY <1>2 DEF OrphanEnds, OneRun, repoVars, boundVars
  <2> QED
    BY <2>1 DEF Ledger!LedgerNext, Ledger!End, Published
<1>3. CASE Reclaim
  <2>1. live' = {} /\ UNCHANGED <<origin, nRuns>>
    BY <1>3 DEF Reclaim
  <2> QED
    BY <2>1 DEF Ledger!LedgerNext, Ledger!End, Ledger!ledgerVars, Published
<1>4. CASE RecoverReset
  BY <1>4 DEF RecoverReset, Ledger!ledgerVars, Published
<1>5. CASE UNCHANGED runnerVars
  BY <1>5 DEF runnerVars, repoVars, boundVars, Ledger!ledgerVars, Published
<1> QED
  BY <1>1, <1>2, <1>3, <1>4, <1>5 DEF RunnerNext

\* The queue implements the ledger of runs: nothing published is taken back, torn
\* or replaced by what is older (run_config.sh:6-8, archive_events.sh:5-8).
THEOREM QueueImplementsLedger == RunnerSpec => ImplementsRunLedger
<1>1. RunnerInit => Ledger!LedgerInit
  BY DEF RunnerInit, Ledger!LedgerInit, Ledger!Unpublished, Published, ReadBack, Exists,
     Nothing, Absent
<1>2. RunnerSpec => [](QueueInv /\ AheadInv /\ OneRun)
  BY InitQueueInv, InitAheadInv, InitOneRun, NextQueueInv, NextAheadInv, NextOneRun, PTL
  DEF RunnerSpec
<1> QED
  BY <1>1, <1>2, StepLedger, PTL DEF RunnerSpec, ImplementsRunLedger, Ledger!LedgerSpec
=============================================================================
